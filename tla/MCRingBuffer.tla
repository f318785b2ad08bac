---------------------------- MODULE MCRingBuffer ----------------------------
(***************************************************************************)
(* The run of RingBuffer: two values tell a byte from its neighbour.       *)
(***************************************************************************)
EXTENDS RingBuffer

Bits == {0, 1}

=============================================================================
