---------------------------- MODULE CyclicBuffer ----------------------------
(***************************************************************************)
(* The index arithmetic of ma::cyclic_buffer (include/ma/cyclic_buffer.hpp).*)
(*                                                                         *)
(* A cyclic buffer of BufferSize bytes is split into a filled sequence     *)
(* (bytes read from the peer and not yet written back) and a nonfilled     *)
(* sequence (room for the next read).  Each sequence is a start and a size *)
(* on the ring, kept apart by the code: nothing but the arithmetic below   *)
(* keeps them complementary.  An operation started on a sequence holds the *)
(* one or two continuous memory blocks ("segments") it had at that moment. *)
(*                                                                         *)
(* This module has no state of its own: RingBuffer makes a state machine   *)
(* of one buffer, EchoSession puts one into each session.                  *)
(***************************************************************************)
EXTENDS Naturals, Sequences

CONSTANT BufferSize   \* cyclic_buffer::size_

(***************************************************************************)
(* config.cpp rejects a buffer smaller than one byte.                      *)
(***************************************************************************)
ASSUME BufferSizeAssumption == BufferSize \in Nat \ {0}

Cell == 0 .. BufferSize - 1

Buffer == [nonfilledStart : Cell, nonfilledSize : 0 .. BufferSize,
           filledStart : Cell, filledSize : 0 .. BufferSize]

(***************************************************************************)
(* A continuous block of memory: `len' bytes from cell `at' on.  buffers_2 *)
(* holds none, one or two of them.                                         *)
(***************************************************************************)
Segment == [at : Cell, len : 1 .. BufferSize]

Segments == {<<>>} \cup [1 .. 1 -> Segment] \cup [1 .. 2 -> Segment]

-----------------------------------------------------------------------------

(***************************************************************************)
(* cyclic_buffer's constructor and reset().                                *)
(***************************************************************************)
EmptyBuffer == [nonfilledStart |-> 0, nonfilledSize |-> BufferSize,
                filledStart |-> 0, filledSize |-> 0]

\* Mutant: the end of the ring is taken for a cell of it.
StepsOffTheRing(start, n) ==
  LET d == BufferSize - start
  IN  IF n <= d THEN start + n ELSE n - d

(***************************************************************************)
(* The cell n steps after `start' on the ring, as commit and consume       *)
(* compute it: no modulo, one comparison.                                  *)
(***************************************************************************)
Forward(start, n) ==
  LET d == BufferSize - start
  IN  IF n < d THEN start + n ELSE n - d

(***************************************************************************)
(* commit(n): the first n filled bytes become room.  The code throws       *)
(* length_error unless n <= filledSize; callers of these two operators     *)
(* show that they never ask for more.                                      *)
(***************************************************************************)
Commit(b, n) ==
  [b EXCEPT !.filledSize    = @ - n,
            !.nonfilledSize = @ + n,
            !.filledStart   = Forward(@, n)]

(***************************************************************************)
(* consume(n): the first n bytes of room become filled.                    *)
(***************************************************************************)
Consume(b, n) ==
  [b EXCEPT !.filledSize     = @ + n,
            !.nonfilledSize  = @ - n,
            !.nonfilledStart = Forward(@, n)]

\* Mutant: the block at the beginning of the memory is taken for the first.
SwapsBlocks(start, n) ==
  LET d == BufferSize - start
  IN  IF n = 0 THEN <<>>
      ELSE IF n > d
        THEN <<[at |-> 0, len |-> n - d], [at |-> start, len |-> d]>>
      ELSE <<[at |-> start, len |-> n]>>

(***************************************************************************)
(* The blocks of n bytes from cell `start' on.                             *)
(***************************************************************************)
Blocks(start, n) ==
  LET d == BufferSize - start
  IN  IF n = 0 THEN <<>>
      ELSE IF n > d
        THEN <<[at |-> start, len |-> d], [at |-> 0, len |-> n - d]>>
      ELSE <<[at |-> start, len |-> n]>>

Smaller(m, n) == IF m < n THEN m ELSE n

(***************************************************************************)
(* data(max) and prepared(max); data() and prepared() are the same with    *)
(* max = BufferSize.  max is at least 1 (config.cpp).                      *)
(***************************************************************************)
Data(b, max) == Blocks(b.filledStart, Smaller(b.filledSize, max))

\* Mutant: as if all of the ring were room.
PreparesEverything(b, max) == Blocks(b.nonfilledStart, Smaller(BufferSize, max))

Prepared(b, max) == Blocks(b.nonfilledStart, Smaller(b.nonfilledSize, max))

-----------------------------------------------------------------------------

(***************************************************************************)
(* How a transfer of the socket walks the segments it was given: how many  *)
(* bytes they hold, and the cell of the j-th of them.                      *)
(***************************************************************************)
TotalLen(segs) ==
  IF segs = <<>> THEN 0
  ELSE IF Len(segs) = 1 THEN segs[1].len
  ELSE segs[1].len + segs[2].len

CellAt(segs, j) ==
  IF j <= segs[1].len THEN segs[1].at + j - 1
                      ELSE segs[2].at + j - segs[1].len - 1

(***************************************************************************)
(* The memory `cells' after the values v[1], v[2], ..., v[n] were copied   *)
(* into the first n bytes of segs.                                         *)
(***************************************************************************)
Stored(cells, segs, n, v) ==
  [c \in DOMAIN cells |->
     IF \E j \in 1 .. n : CellAt(segs, j) = c
       THEN v[CHOOSE j \in 1 .. n : CellAt(segs, j) = c]
       ELSE cells[c]]

-----------------------------------------------------------------------------

(***************************************************************************)
(* The two sequences are complementary: together they are the whole ring,  *)
(* and the room starts where the filled bytes end.  This is what the four  *)
(* separately updated members of the class have to agree on.               *)
(***************************************************************************)
Complementary(b) ==
  /\ b.filledSize + b.nonfilledSize = BufferSize
  /\ b.nonfilledStart = Forward(b.filledStart, b.filledSize)

=============================================================================
