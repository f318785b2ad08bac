---------------------------- MODULE BoundedFifo ----------------------------
(***************************************************************************)
(* What ma::cyclic_buffer promises to the two sides that use it: a queue   *)
(* of at most Capacity bytes.  The reading side puts bytes in, the writing *)
(* side takes the oldest ones out (`sent' is what it took last), and each  *)
(* may transfer less than it could.                                        *)
(***************************************************************************)
EXTENDS Naturals, Sequences

CONSTANTS Capacity, Value

VARIABLES queue, sent

vars == <<queue, sent>>

Init == queue = <<>> /\ sent = <<>>

Put ==
  /\ \E n \in 0 .. Capacity - Len(queue) :
       \E v \in [1 .. n -> Value] : queue' = queue \o v
  /\ UNCHANGED sent

Take ==
  \E n \in 0 .. Len(queue) :
    /\ sent' = SubSeq(queue, 1, n)
    /\ queue' = SubSeq(queue, n + 1, Len(queue))

Clear == queue' = <<>> /\ UNCHANGED sent

Next == Put \/ Take \/ Clear

Spec == Init /\ [][Next]_vars

=============================================================================
