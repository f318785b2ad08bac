----------------------------- MODULE RingBuffer -----------------------------
(***************************************************************************)
(* A ma::cyclic_buffer with the two asynchronous operations that use it at *)
(* the same time: a read into its room and a write of its data.  An        *)
(* operation takes its blocks when it is started, and the bytes it has     *)
(* transferred are consumed or committed when it completes; in between the *)
(* other operation may start, complete and start again.  The echo session  *)
(* and the session of the performance test client use the buffer so.       *)
(***************************************************************************)
EXTENDS CyclicBuffer

CONSTANT Value   \* the values of a byte

VARIABLES
  buffer,    \* the members nonfilled_start_, ..., filled_size_
  cells,     \* the memory data_
  readOp,    \* the blocks of the read in flight, empty if there is none
  writeOp,   \* the same of the write
  sent       \* what the last write transferred

ringVars == <<buffer, cells, readOp, writeOp, sent>>

(***************************************************************************)
(* The constructor leaves the memory uninitialised.                        *)
(***************************************************************************)
RingInit ==
  /\ buffer = EmptyBuffer
  /\ cells \in [Cell -> Value]
  /\ readOp = <<>> /\ writeOp = <<>>
  /\ sent = <<>>

StartRead(max) ==
  /\ readOp = <<>>
  /\ readOp' = Prepared(buffer, max)
  /\ UNCHANGED <<buffer, cells, writeOp, sent>>

(***************************************************************************)
(* The read completes with n bytes; with none when it has failed.          *)
(***************************************************************************)
FinishRead(n) ==
  /\ readOp # <<>>
  /\ n <= TotalLen(readOp)
  /\ \E v \in [1 .. n -> Value] : cells' = Stored(cells, readOp, n, v)
  /\ buffer' = Consume(buffer, n)
  /\ readOp' = <<>>
  /\ UNCHANGED <<writeOp, sent>>

StartWrite(max) ==
  /\ writeOp = <<>>
  /\ writeOp' = Data(buffer, max)
  /\ UNCHANGED <<buffer, cells, readOp, sent>>

FinishWrite(n) ==
  /\ writeOp # <<>>
  /\ n <= TotalLen(writeOp)
  /\ sent' = [j \in 1 .. n |-> cells[CellAt(writeOp, j)]]
  /\ buffer' = Commit(buffer, n)
  /\ writeOp' = <<>>
  /\ UNCHANGED <<cells, readOp>>

\* Mutant: the buffer is reset under the operations in flight.
ResetsInFlight ==
  /\ buffer' = EmptyBuffer
  /\ UNCHANGED <<cells, readOp, writeOp, sent>>

(***************************************************************************)
(* reset() is called when neither operation is in flight.                  *)
(***************************************************************************)
ResetBuffer ==
  /\ readOp = <<>> /\ writeOp = <<>>
  /\ buffer' = EmptyBuffer
  /\ UNCHANGED <<cells, readOp, writeOp, sent>>

RingNext ==
  \/ \E max \in 1 .. BufferSize : StartRead(max) \/ StartWrite(max)
  \/ \E n \in 0 .. BufferSize : FinishRead(n) \/ FinishWrite(n)
  \/ ResetBuffer

RingSpec == RingInit /\ [][RingNext]_ringVars

-----------------------------------------------------------------------------

RingTypeOK ==
  /\ buffer \in Buffer
  /\ cells \in [Cell -> Value]
  /\ readOp \in Segments /\ writeOp \in Segments
  /\ sent \in Seq(Value)

(***************************************************************************)
(* Whatever completed since it was started, the read in flight has the     *)
(* first cells of the room and the write in flight the first cells of the  *)
(* data, so that consume and commit never throw.                           *)
(***************************************************************************)
OperationsOwnTheirCells ==
  /\ Complementary(buffer)
  /\ readOp # <<>> =>
       \E n \in 1 .. buffer.nonfilledSize : readOp = Prepared(buffer, n)
  /\ writeOp # <<>> =>
       \E n \in 1 .. buffer.filledSize : writeOp = Data(buffer, n)

(***************************************************************************)
(* A write in flight may look at its bytes at any time before it           *)
(* completes: no read changes them meanwhile.                              *)
(***************************************************************************)
WriteSeesStableCells ==
  [][writeOp # <<>> =>
       \A j \in 1 .. TotalLen(writeOp) :
         cells'[CellAt(writeOp, j)] = cells[CellAt(writeOp, j)]]_ringVars

(***************************************************************************)
(* The buffer is a queue: what the writes send is what the reads received, *)
(* in order, nothing lost or repeated, wherever the ring wraps around.     *)
(***************************************************************************)
Contents ==
  [j \in 1 .. buffer.filledSize |->
     cells[CellAt(Data(buffer, BufferSize), j)]]

Fifo == INSTANCE BoundedFifo WITH Capacity <- BufferSize, queue <- Contents

ImplementsFifo == Fifo!Spec

=============================================================================
