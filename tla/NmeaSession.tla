---------------------------- MODULE NmeaSession ----------------------------
(***************************************************************************)
(* The session of a serial device, ma/nmea/cyclic_read_session.  It reads  *)
(* the port all the time, cuts what it reads into frames, from a head to   *)
(* the next tail, and keeps the latest frames in a cyclic buffer until the *)
(* application reads them.  Everything here happens in the strand of the   *)
(* session: the calls of the application, which posts them there, and the  *)
(* handlers of the port.                                                   *)
(***************************************************************************)
EXTENDS Naturals, Sequences, FiniteSets, SequencesExt

CONSTANTS
  ReadBuffer,    \* read_buffer_size, in tokens
  FrameBuffer,   \* frame_buffer_size
  MaxRead,       \* bound: the frames that a read has room for
  MaxChunk,      \* bound: the tokens that come in one piece
  MaxStream      \* bound: the tokens that come at all

ASSUME NmeaAssumption ==
  /\ ReadBuffer \in Nat \ {0} /\ FrameBuffer \in Nat \ {0}
  /\ MaxRead \in Nat \ {0} /\ MaxChunk \in Nat \ {0} /\ MaxStream \in Nat

\* What the device sends: frame_head, frame_tail, anything else.
Token == {"head", "tail", "other"}

State == {"ready", "work", "stop", "stopped"}

(***************************************************************************)
(* stream is all that has come (history); what is behind consumed is in    *)
(* read_buffer_.  A frame is the interval of the stream from its first     *)
(* token to its last.  heap are the frame objects, and frames is           *)
(* frame_buffer_, of their numbers.  port is what the port is doing: the   *)
(* delimiter that async_read_until looks for, and whether a write is in    *)
(* flight.  reader is the room of the read that waits, 0 for none; stopper *)
(* is that a stop waits.  taken is history: the frame objects that the     *)
(* application got, and what they held then.                               *)
(***************************************************************************)
VARIABLES state, open, port, stream, consumed, heap, frames, readError,
          reader, stopper, taken

vars == <<state, open, port, stream, consumed, heap, frames, readError,
          reader, stopper, taken>>

dataVars == <<stream, consumed, heap, frames, taken>>

Frame == (1..MaxStream + 1) \X (0..MaxStream)

TypeOK ==
  /\ state \in State /\ open \in BOOLEAN
  /\ port \in [reading : {"none", "head", "tail"}, writing : BOOLEAN]
  /\ stream \in Seq(Token) /\ consumed \in 0..Len(stream)
  /\ heap \in Seq(Frame)
  /\ frames \in Seq(1..Len(heap)) /\ Len(frames) <= FrameBuffer
  /\ readError \in BOOLEAN /\ reader \in 0..MaxRead /\ stopper \in BOOLEAN
  /\ taken \in Seq([object : 1..Len(heap), frame : Frame])

Init ==
  /\ state = "ready" /\ open = TRUE
  /\ port = [reading |-> "none", writing |-> FALSE]
  /\ stream = << >> /\ consumed = 0 /\ heap = << >> /\ frames = << >>
  /\ readError = FALSE /\ reader = 0 /\ stopper = FALSE /\ taken = << >>

-----------------------------------------------------------------------------
(* Building blocks. *)

ReadUntilHead == port' = [port EXCEPT !.reading = "head"]

\* The places of the delimiter in the read buffer.
Found == {n \in consumed + 1..Len(stream) : stream[n] = port.reading}

\* copy_buffer, erase_begin: a read with room for n takes from the frames f
\* over the objects h.
TakeFrames(n, f, h) ==
  LET k == IF n < Len(f) THEN n ELSE Len(f)
  IN  /\ taken' = taken \o [i \in 1..k |-> [object |-> f[i], frame |-> h[f[i]]]]
      /\ frames' = SubSeq(f, k + 1, Len(f))

\* may_complete_stop, complete_stop and post_extern_stop_handler, at the end
\* of a handler that leaves the port as p.
FinishStop(p) ==
  IF p.reading = "none" /\ ~p.writing
  THEN state' = "stopped" /\ stopper' = FALSE
  ELSE UNCHANGED <<state, stopper>>

-----------------------------------------------------------------------------
(* Calls of the application. *)

\* do_start_extern_start; in another state it is answered with invalid_state.
ExternStart ==
  /\ state = "ready" /\ state' = "work"
  /\ IF port.reading = "none" THEN ReadUntilHead ELSE UNCHANGED port
  /\ UNCHANGED <<open, readError, reader, stopper>> /\ UNCHANGED dataVars

\* Mutant: do_start_extern_stop leaves the waiting read to the read handler.
StopKeepsReader ==
  /\ state \in {"ready", "work"} /\ open' = FALSE
  /\ IF port.reading = "none" /\ ~port.writing
     THEN state' = "stopped" /\ UNCHANGED stopper
     ELSE state' = "stop" /\ stopper' = TRUE
  /\ UNCHANGED <<port, readError, reader>> /\ UNCHANGED dataVars

\* Mutant: do_start_extern_stop does not close the port.
StopLeavesPortOpen ==
  /\ state \in {"ready", "work"} /\ reader' = 0
  /\ IF port.reading = "none" /\ ~port.writing
     THEN state' = "stopped" /\ UNCHANGED stopper
     ELSE state' = "stop" /\ stopper' = TRUE
  /\ UNCHANGED <<open, port, readError>> /\ UNCHANGED dataVars

\* do_start_extern_stop: the waiting read is aborted, the port is closed, and
\* the stop completes at once or waits for what is in flight. A second stop is
\* answered with invalid_state.
ExternStop ==
  /\ state \in {"ready", "work"} /\ open' = FALSE /\ reader' = 0
  /\ IF port.reading = "none" /\ ~port.writing
     THEN state' = "stopped" /\ UNCHANGED stopper
     ELSE state' = "stop" /\ stopper' = TRUE
  /\ UNCHANGED <<port, readError>> /\ UNCHANGED dataVars

\* Mutant: do_start_extern_read_some without the restart of the port.
ReadWithoutRestart(n) ==
  /\ state = "work" /\ reader = 0
  /\ CASE frames # << >> ->
            /\ TakeFrames(n, frames, heap)
            /\ UNCHANGED <<port, readError, reader>>
       [] frames = << >> /\ readError ->
            /\ readError' = FALSE
            /\ UNCHANGED <<port, reader, frames, taken>>
       [] OTHER ->
            /\ reader' = n
            /\ UNCHANGED <<port, readError, frames, taken>>
  /\ UNCHANGED <<state, open, stream, consumed, heap, stopper>>

\* do_start_extern_read_some: there are frames, or there was an error, or the
\* read waits, and reading goes on if an error had ended it. A read that is
\* not allowed is answered with invalid_state.
ExternRead(n) ==
  /\ state = "work" /\ reader = 0
  /\ CASE frames # << >> ->
            /\ TakeFrames(n, frames, heap)
            /\ UNCHANGED <<port, readError, reader>>
       [] frames = << >> /\ readError ->
            /\ readError' = FALSE
            /\ UNCHANGED <<port, reader, frames, taken>>
       [] OTHER ->
            /\ reader' = n
            /\ IF port.reading = "none" THEN ReadUntilHead ELSE UNCHANGED port
            /\ UNCHANGED <<readError, frames, taken>>
  /\ UNCHANGED <<state, open, stream, consumed, heap, stopper>>

\* start_extern_write_some.
ExternWrite ==
  /\ state = "work" /\ ~port.writing
  /\ port' = [port EXCEPT !.writing = TRUE]
  /\ UNCHANGED <<state, open, readError, reader, stopper>> /\ UNCHANGED dataVars

\* resest, for a session that has stopped; the application opens the port
\* again, or fails to.
Resest ==
  /\ state = "stopped" /\ state' = "ready"
  /\ open' \in BOOLEAN
  /\ frames' = << >> /\ readError' = FALSE /\ consumed' = Len(stream)
  /\ UNCHANGED <<port, stream, heap, reader, stopper, taken>>

-----------------------------------------------------------------------------
(* The port. *)

\* The device sends a piece, which async_read_until takes while it looks for
\* the delimiter and has room.
Receive(chunk) ==
  /\ port.reading # "none" /\ open /\ Found = {}
  /\ Len(stream) - consumed + Len(chunk) <= ReadBuffer
  /\ Len(stream) + Len(chunk) <= MaxStream
  /\ stream' = stream \o chunk
  /\ UNCHANGED <<state, open, port, consumed, heap, frames, readError,
                 reader, stopper, taken>>

\* A read handler of a session that is to stop.
ReadStopped ==
  /\ port.reading # "none" /\ state = "stop"
  /\ port' = [port EXCEPT !.reading = "none"]
  /\ FinishStop(port')
  /\ UNCHANGED <<open, readError, reader>> /\ UNCHANGED dataVars

\* A read handler with an error: one of the port, or the buffer is full
\* without the delimiter. A waiting read gets it, or the next one will.
ReadFails ==
  /\ port.reading # "none" /\ state # "stop"
  /\ port' = [port EXCEPT !.reading = "none"]
  /\ reader' = 0 /\ readError' = (reader = 0)
  /\ UNCHANGED <<state, open, stopper>> /\ UNCHANGED dataVars

\* handle_read_head.
ReadHead ==
  /\ port.reading = "head" /\ state # "stop" /\ Found # {}
  /\ consumed' = Min(Found)
  /\ port' = [port EXCEPT !.reading = "tail"]
  /\ UNCHANGED <<state, open, stream, heap, frames, readError, reader,
                 stopper, taken>>

\* Mutant: handle_read_tail takes the last object for a full buffer.
ReuseLastFrame ==
  /\ port.reading = "tail" /\ state # "stop" /\ Found # {}
  /\ LET tail == Min(Found)
         frame == <<consumed + 1, tail - 1>>
         full == Len(frames) = FrameBuffer
         object == IF full THEN Last(frames) ELSE Len(heap) + 1
         h == IF full THEN [heap EXCEPT ![object] = frame] ELSE Append(heap, frame)
         f == Append(IF full THEN Tail(frames) ELSE frames, object)
     IN  /\ heap' = h /\ consumed' = tail
         /\ IF reader # 0 THEN TakeFrames(reader, f, h)
            ELSE frames' = f /\ UNCHANGED taken
  /\ reader' = 0 /\ ReadUntilHead
  /\ UNCHANGED <<state, open, stream, readError, stopper>>

\* handle_read_tail: the frame is kept, in the place and the object of the
\* oldest one if the buffer is full, the next head is looked for, and a
\* waiting read gets what there is.
ReadTail ==
  /\ port.reading = "tail" /\ state # "stop" /\ Found # {}
  /\ LET tail == Min(Found)
         frame == <<consumed + 1, tail - 1>>
         full == Len(frames) = FrameBuffer
         object == IF full THEN Head(frames) ELSE Len(heap) + 1
         h == IF full THEN [heap EXCEPT ![object] = frame] ELSE Append(heap, frame)
         f == Append(IF full THEN Tail(frames) ELSE frames, object)
     IN  /\ heap' = h /\ consumed' = tail
         /\ IF reader # 0 THEN TakeFrames(reader, f, h)
            ELSE frames' = f /\ UNCHANGED taken
  /\ reader' = 0 /\ ReadUntilHead
  /\ UNCHANGED <<state, open, stream, readError, stopper>>

\* Mutant: handle_write does not complete the stop.
WriteForgetsStop ==
  /\ port.writing
  /\ port' = [port EXCEPT !.writing = FALSE]
  /\ UNCHANGED <<state, stopper, open, readError, reader>> /\ UNCHANGED dataVars

\* handle_write.
HandleWrite ==
  /\ port.writing
  /\ port' = [port EXCEPT !.writing = FALSE]
  /\ IF state = "stop" THEN FinishStop(port') ELSE UNCHANGED <<state, stopper>>
  /\ UNCHANGED <<open, readError, reader>> /\ UNCHANGED dataVars

-----------------------------------------------------------------------------
Chunks == UNION {[1..n -> Token] : n \in 1..MaxChunk}

Next ==
  \/ ExternStart \/ ExternStop \/ ExternWrite \/ Resest
  \/ \E n \in 1..MaxRead : ExternRead(n)
  \/ \E chunk \in Chunks : Receive(chunk)
  \/ ReadStopped \/ ReadFails \/ ReadHead \/ ReadTail \/ HandleWrite

Spec == Init /\ [][Next]_vars

(***************************************************************************)
(* The operations on a closed port complete. Nothing is assumed of the     *)
(* device or of the application.                                           *)
(***************************************************************************)
FairSpec == Spec /\ WF_vars(~open /\ ReadStopped) /\ WF_vars(~open /\ HandleWrite)

-----------------------------------------------------------------------------
(***************************************************************************)
(* Properties.                                                             *)
(***************************************************************************)

\* Nobody is left waiting by the port: a read waits only while the session
\* works, nothing is there to answer it with and the port is read; and a stop
\* waits exactly while the session is to stop, for something in flight. The
\* port is not read while there is an error that no read has learnt of yet.
WaitersHaveCause ==
  /\ TypeOK
  /\ reader # 0 =>
       state = "work" /\ frames = << >> /\ ~readError /\ port.reading # "none"
  /\ stopper = (state = "stop")
  /\ state = "stop" => ~open /\ (port.reading # "none" \/ port.writing)
  /\ state \in {"ready", "stopped"} => port.reading = "none" /\ ~port.writing
  /\ readError => port.reading = "none"

All == taken \o [i \in DOMAIN frames |-> [object |-> frames[i],
                                          frame |-> heap[frames[i]]]]

\* The application gets whole frames, each from a head to the first tail
\* behind it, in the order of the stream and none twice, whatever was lost to
\* errors and to a full buffer in between; and a frame that it has got does
\* not change although the session uses frame objects again.
FramesIntact ==
  /\ \A i \in DOMAIN All :
       LET first == All[i].frame[1]
           last == All[i].frame[2]
       IN  /\ stream[first - 1] = "head" /\ stream[last + 1] = "tail"
           /\ \A n \in first..last : stream[n] # "tail"
           /\ i > 1 => All[i - 1].frame[2] < first - 1
  /\ \A i \in DOMAIN taken : heap[taken[i].object] = taken[i].frame

\* A stop is answered, whatever is in flight and whatever comes first.
StopAnswered == stopper ~> ~stopper
=============================================================================
