------------------------- MODULE EchoSessionProofs -------------------------
(***************************************************************************)
(* The cyclic buffer and the two that it serves, for every size of the     *)
(* buffer.  RingBuffer: the operations in flight own the cells they were   *)
(* given, a write sees stable cells, and the buffer is a queue.            *)
(* EchoSession, for every size of the transfers, with and without a        *)
(* timeout, and for every combination of failing system calls: the         *)
(* operations in flight are accounted for and own their cells too, the     *)
(* session implements its contract, echoes the stream byte for byte, and   *)
(* is never unwatched.                                                     *)
(***************************************************************************)
EXTENDS EchoSession, RingBuffer, FiniteSetTheorems, SequenceTheorems, TLAPS

-----------------------------------------------------------------------------
(* The index arithmetic of CyclicBuffer. *)

(***************************************************************************)
(* The n-th cell of the ring from `start' on is a cell, for every n up to  *)
(* the size of the buffer, and n may be split in two.                      *)
(***************************************************************************)
LEMMA ForwardInCell ==
  ASSUME NEW start \in Cell, NEW n \in 0 .. BufferSize
  PROVE  Forward(start, n) \in Cell
BY BufferSizeAssumption DEF Forward, Cell

LEMMA ForwardSplits ==
  ASSUME NEW start \in Cell, NEW m \in Nat, NEW n \in Nat, m + n <= BufferSize
  PROVE  Forward(Forward(start, m), n) = Forward(start, m + n)
BY BufferSizeAssumption DEF Forward, Cell

(***************************************************************************)
(* Less than a round takes different steps to different cells.             *)
(***************************************************************************)
LEMMA ForwardInjective ==
  ASSUME NEW start \in Cell,
         NEW m \in 0 .. BufferSize - 1, NEW n \in 0 .. BufferSize - 1,
         Forward(start, m) = Forward(start, n)
  PROVE  m = n
BY BufferSizeAssumption DEF Forward, Cell

(***************************************************************************)
(* The blocks of n bytes hold n bytes, the j-th of them j - 1 steps from   *)
(* their beginning.                                                        *)
(***************************************************************************)
LEMMA BlocksTyped ==
  ASSUME NEW start \in Cell, NEW n \in 0 .. BufferSize
  PROVE  Blocks(start, n) \in Segments
<1> DEFINE d == BufferSize - start
<1>1. CASE n = 0
  BY <1>1 DEF Blocks, Segments
<1>2. CASE n > d
  <2>1. [at |-> start, len |-> d] \in Segment /\ [at |-> 0, len |-> n - d] \in Segment
    BY <1>2, BufferSizeAssumption DEF Segment, Cell
  <2>2. n # 0 /\ Blocks(start, n) = <<[at |-> start, len |-> d], [at |-> 0, len |-> n - d]>>
    BY <1>2, BufferSizeAssumption DEF Blocks, Cell
  <2> QED BY <2>1, <2>2 DEF Segments
<1>3. CASE n # 0 /\ ~(n > d)
  <2>1. [at |-> start, len |-> n] \in Segment
    BY <1>3, BufferSizeAssumption DEF Segment, Cell
  <2>2. Blocks(start, n) = <<[at |-> start, len |-> n]>>
    BY <1>3 DEF Blocks
  <2> QED BY <2>1, <2>2 DEF Segments
<1> QED BY <1>1, <1>2, <1>3

LEMMA BlocksLength ==
  ASSUME NEW start \in Cell, NEW n \in 0 .. BufferSize
  PROVE  /\ TotalLen(Blocks(start, n)) = n
         /\ Blocks(start, n) = <<>> <=> n = 0
BY BufferSizeAssumption DEF Blocks, TotalLen, Cell

LEMMA BlocksCells ==
  ASSUME NEW start \in Cell, NEW n \in 0 .. BufferSize, NEW j \in 1 .. n
  PROVE  CellAt(Blocks(start, n), j) = Forward(start, j - 1)
BY BufferSizeAssumption DEF Blocks, CellAt, Forward, Cell

(***************************************************************************)
(* A transfer that was offered no more than there is was offered all that  *)
(* it has asked for.                                                       *)
(***************************************************************************)
LEMMA OfferedBlocks ==
  ASSUME NEW b \in Buffer, NEW max \in Nat
  PROVE  /\ max <= b.filledSize => Data(b, max) = Blocks(b.filledStart, max)
         /\ max <= b.nonfilledSize =>
              Prepared(b, max) = Blocks(b.nonfilledStart, max)
         /\ max >= b.filledSize =>
              Data(b, max) = Blocks(b.filledStart, b.filledSize)
         /\ max >= b.nonfilledSize =>
              Prepared(b, max) = Blocks(b.nonfilledStart, b.nonfilledSize)
BY BufferSizeAssumption DEF Buffer, Data, Prepared, Smaller

(***************************************************************************)
(* Commit and consume keep the two sequences typed and complementary.      *)
(***************************************************************************)
LEMMA CommitComplementary ==
  ASSUME NEW b \in Buffer, Complementary(b), NEW n \in 0 .. b.filledSize
  PROVE  Commit(b, n) \in Buffer /\ Complementary(Commit(b, n))
<1>1. b.filledStart \in Cell /\ b.filledSize \in 0 .. BufferSize
  BY DEF Buffer
<1>2. Forward(Forward(b.filledStart, n), b.filledSize - n) = b.nonfilledStart
  BY <1>1, ForwardSplits, BufferSizeAssumption DEF Complementary
<1>3. Forward(b.filledStart, n) \in Cell
  BY <1>1, ForwardInCell, BufferSizeAssumption
<1>4. b.filledSize - n \in 0 .. BufferSize /\ b.nonfilledSize + n \in 0 .. BufferSize
  BY BufferSizeAssumption DEF Complementary, Buffer
<1>5. Commit(b, n) \in Buffer
  BY <1>3, <1>4 DEF Commit, Buffer
<1>6. /\ Commit(b, n).filledSize = b.filledSize - n
      /\ Commit(b, n).filledStart = Forward(b.filledStart, n)
      /\ Commit(b, n).nonfilledSize = b.nonfilledSize + n
      /\ Commit(b, n).nonfilledStart = b.nonfilledStart
  BY DEF Commit, Buffer
<1>7. (b.filledSize - n) + (b.nonfilledSize + n) = BufferSize
  BY <1>1 DEF Complementary, Buffer
<1> QED
  BY <1>2, <1>5, <1>6, <1>7 DEF Complementary

LEMMA ConsumeComplementary ==
  ASSUME NEW b \in Buffer, Complementary(b), NEW n \in 0 .. b.nonfilledSize
  PROVE  Consume(b, n) \in Buffer /\ Complementary(Consume(b, n))
<1>1. /\ b.filledStart \in Cell /\ b.filledSize \in 0 .. BufferSize
      /\ b.nonfilledStart \in Cell /\ b.nonfilledSize \in 0 .. BufferSize
  BY DEF Buffer
<1>2. Forward(b.filledStart, b.filledSize + n) = Forward(b.nonfilledStart, n)
  BY <1>1, ForwardSplits, BufferSizeAssumption DEF Complementary
<1>3. Forward(b.nonfilledStart, n) \in Cell
  BY <1>1, ForwardInCell, BufferSizeAssumption
<1>4. b.filledSize + n \in 0 .. BufferSize /\ b.nonfilledSize - n \in 0 .. BufferSize
  BY BufferSizeAssumption DEF Complementary, Buffer
<1>5. Consume(b, n) \in Buffer
  BY <1>3, <1>4 DEF Consume, Buffer
<1>6. /\ Consume(b, n).filledSize = b.filledSize + n
      /\ Consume(b, n).filledStart = b.filledStart
      /\ Consume(b, n).nonfilledSize = b.nonfilledSize - n
      /\ Consume(b, n).nonfilledStart = Forward(b.nonfilledStart, n)
  BY DEF Consume, Buffer
<1>7. (b.filledSize + n) + (b.nonfilledSize - n) = BufferSize
  BY <1>1 DEF Complementary, Buffer
<1> QED
  BY <1>2, <1>5, <1>6, <1>7 DEF Complementary

LEMMA EmptyComplementary ==
  EmptyBuffer \in Buffer /\ Complementary(EmptyBuffer)
BY BufferSizeAssumption DEF EmptyBuffer, Buffer, Complementary, Forward, Cell

(***************************************************************************)
(* The first m cells of the room and the first n of the data are apart.    *)
(***************************************************************************)
LEMMA SidesApart ==
  ASSUME NEW b \in Buffer, Complementary(b),
         NEW i \in 1 .. b.nonfilledSize, NEW j \in 1 .. b.filledSize
  PROVE  Forward(b.nonfilledStart, i - 1) # Forward(b.filledStart, j - 1)
<1>1. /\ b.filledStart \in Cell /\ b.filledSize \in 0 .. BufferSize
      /\ b.nonfilledStart \in Cell /\ b.nonfilledSize \in 0 .. BufferSize
  BY DEF Buffer
<1>2. Forward(b.nonfilledStart, i - 1)
        = Forward(b.filledStart, b.filledSize + (i - 1))
  BY <1>1, ForwardSplits, BufferSizeAssumption DEF Complementary
<1>3. /\ b.filledSize + (i - 1) \in 0 .. BufferSize - 1
      /\ j - 1 \in 0 .. BufferSize - 1
      /\ b.filledSize + (i - 1) # j - 1
  BY <1>1, BufferSizeAssumption DEF Complementary
<1> QED BY <1>1, <1>2, <1>3, ForwardInjective

(***************************************************************************)
(* A transfer of n bytes into the blocks of k bytes from `start' on        *)
(* changes the first n cells and no other.                                 *)
(***************************************************************************)
LEMMA StoredCells ==
  ASSUME NEW start \in Cell, NEW k \in 0 .. BufferSize, NEW n \in 0 .. k,
         NEW mem, DOMAIN mem = Cell, NEW v
  PROVE  /\ \A j \in 1 .. n :
              Stored(mem, Blocks(start, k), n, v)[Forward(start, j - 1)] = v[j]
         /\ \A c \in Cell :
              (\A j \in 1 .. n : c # Forward(start, j - 1))
                => Stored(mem, Blocks(start, k), n, v)[c] = mem[c]
<1> DEFINE after == Stored(mem, Blocks(start, k), n, v)
<1>1. \A j \in 1 .. n : CellAt(Blocks(start, k), j) = Forward(start, j - 1)
  BY BlocksCells, BufferSizeAssumption
<1>2. after = [c \in Cell |->
                 IF \E j \in 1 .. n : Forward(start, j - 1) = c
                   THEN v[CHOOSE j \in 1 .. n : Forward(start, j - 1) = c]
                   ELSE mem[c]]
  <2>1. \A c : (\E j \in 1 .. n : CellAt(Blocks(start, k), j) = c)
                 <=> \E j \in 1 .. n : Forward(start, j - 1) = c
    BY <1>1
  <2>2. \A c : (CHOOSE j \in 1 .. n : CellAt(Blocks(start, k), j) = c)
                 = CHOOSE j \in 1 .. n : Forward(start, j - 1) = c
    BY <1>1
  <2> QED BY <2>1, <2>2 DEF Stored
<1>3. ASSUME NEW j \in 1 .. n
      PROVE  after[Forward(start, j - 1)] = v[j]
  <2>1. Forward(start, j - 1) \in Cell
    BY ForwardInCell, BufferSizeAssumption
  <2>2. \A i \in 1 .. n : Forward(start, i - 1) = Forward(start, j - 1) => i = j
    BY ForwardInjective, BufferSizeAssumption
  <2>3. (CHOOSE i \in 1 .. n : Forward(start, i - 1) = Forward(start, j - 1)) = j
    BY <2>2
  <2> QED BY <1>2, <2>1, <2>3
<1>4. ASSUME NEW c \in Cell, \A j \in 1 .. n : c # Forward(start, j - 1)
      PROVE  after[c] = mem[c]
  BY <1>2, <1>4
<1> QED BY <1>3, <1>4

(***************************************************************************)
(* A transfer of values leaves values in memory.                           *)
(***************************************************************************)
LEMMA StoredTyped ==
  ASSUME NEW segs, NEW n \in Nat,
         NEW Val, NEW mem \in [Cell -> Val], NEW v \in [1 .. n -> Val]
  PROVE  Stored(mem, segs, n, v) \in [Cell -> Val]
BY DEF Stored

-----------------------------------------------------------------------------
(* The buffer with a read and a write in flight. *)
RingInv == RingTypeOK /\ OperationsOwnTheirCells

-----------------------------------------------------------------------------

(***************************************************************************)
(* What the invariant says of the operations, in terms of the ring: the    *)
(* blocks in flight are the first n bytes of the room, or of the data.     *)
(***************************************************************************)
LEMMA ReadInFlight ==
  ASSUME RingInv, readOp # <<>>
  PROVE  /\ TotalLen(readOp) \in 1 .. buffer.nonfilledSize
         /\ readOp = Blocks(buffer.nonfilledStart, TotalLen(readOp))
<1>1. PICK n \in 1 .. buffer.nonfilledSize : readOp = Prepared(buffer, n)
  BY DEF RingInv, OperationsOwnTheirCells
<1>2. buffer.nonfilledStart \in Cell /\ buffer.nonfilledSize \in 0 .. BufferSize
  BY DEF RingInv, RingTypeOK, Buffer
<1>3. readOp = Blocks(buffer.nonfilledStart, n)
  BY <1>1, <1>2, OfferedBlocks DEF RingInv, RingTypeOK
<1>4. TotalLen(readOp) = n
  BY <1>2, <1>3, BlocksLength, BufferSizeAssumption
<1> QED BY <1>3, <1>4

LEMMA WriteInFlight ==
  ASSUME RingInv, writeOp # <<>>
  PROVE  /\ TotalLen(writeOp) \in 1 .. buffer.filledSize
         /\ writeOp = Blocks(buffer.filledStart, TotalLen(writeOp))
<1>1. PICK n \in 1 .. buffer.filledSize : writeOp = Data(buffer, n)
  BY DEF RingInv, OperationsOwnTheirCells
<1>2. buffer.filledStart \in Cell /\ buffer.filledSize \in 0 .. BufferSize
  BY DEF RingInv, RingTypeOK, Buffer
<1>3. writeOp = Blocks(buffer.filledStart, n)
  BY <1>1, <1>2, OfferedBlocks DEF RingInv, RingTypeOK
<1>4. TotalLen(writeOp) = n
  BY <1>2, <1>3, BlocksLength, BufferSizeAssumption
<1> QED BY <1>3, <1>4

(***************************************************************************)
(* The blocks taken by a new operation are the first bytes of its side,    *)
(* and there are none exactly if that side is empty.                       *)
(***************************************************************************)
LEMMA BlocksStarted ==
  ASSUME NEW b \in Buffer, NEW max \in 1 .. BufferSize
  PROVE  /\ Prepared(b, max) \in Segments
         /\ Data(b, max) \in Segments
         /\ Prepared(b, max) # <<>> =>
              \E n \in 1 .. b.nonfilledSize : Prepared(b, max) = Prepared(b, n)
         /\ Data(b, max) # <<>> =>
              \E n \in 1 .. b.filledSize : Data(b, max) = Data(b, n)
<1> DEFINE r == Smaller(b.nonfilledSize, max)
           w == Smaller(b.filledSize, max)
<1>1. /\ b.filledStart \in Cell /\ b.filledSize \in 0 .. BufferSize
      /\ b.nonfilledStart \in Cell /\ b.nonfilledSize \in 0 .. BufferSize
  BY DEF Buffer
<1>2. r \in 0 .. b.nonfilledSize /\ w \in 0 .. b.filledSize
  BY <1>1, BufferSizeAssumption DEF Smaller
<1>3. r \in 0 .. BufferSize /\ w \in 0 .. BufferSize
  BY <1>1, <1>2, BufferSizeAssumption
<1>4. Prepared(b, max) \in Segments /\ Data(b, max) \in Segments
  BY <1>1, <1>3, BlocksTyped DEF Prepared, Data
<1>5. Prepared(b, max) = Prepared(b, r) /\ Data(b, max) = Data(b, w)
  BY <1>1, <1>2, BufferSizeAssumption DEF Prepared, Data, Smaller
<1>6. Prepared(b, max) # <<>> => r # 0
  BY DEF Prepared, Blocks
<1>7. Data(b, max) # <<>> => w # 0
  BY DEF Data, Blocks
<1> QED BY <1>1, <1>2, <1>4, <1>5, <1>6, <1>7

-----------------------------------------------------------------------------

(***************************************************************************)
(* The invariant holds initially and every step of either operation keeps  *)
(* it: the completion of one leaves the beginning of the other's side      *)
(* where it is, and never makes that side smaller.                         *)
(***************************************************************************)
LEMMA InitRingInv == RingInit => RingInv
BY EmptyComplementary
   DEF RingInit, RingInv, RingTypeOK, OperationsOwnTheirCells, Segments

LEMMA StartReadRingInv ==
  ASSUME RingInv, NEW max \in 1 .. BufferSize, StartRead(max)
  PROVE  RingInv'
BY BlocksStarted DEF StartRead, RingInv, RingTypeOK, OperationsOwnTheirCells

LEMMA StartWriteRingInv ==
  ASSUME RingInv, NEW max \in 1 .. BufferSize, StartWrite(max)
  PROVE  RingInv'
BY BlocksStarted DEF StartWrite, RingInv, RingTypeOK, OperationsOwnTheirCells

LEMMA FinishReadRingInv ==
  ASSUME RingInv, NEW n \in 0 .. BufferSize, FinishRead(n)
  PROVE  RingInv'
<1>1. n \in 0 .. buffer.nonfilledSize /\ n \in 0 .. TotalLen(readOp)
  BY ReadInFlight DEF FinishRead, RingInv, RingTypeOK, Buffer
<1>2. Consume(buffer, n) \in Buffer /\ Complementary(Consume(buffer, n))
  BY <1>1, ConsumeComplementary DEF RingInv, RingTypeOK, OperationsOwnTheirCells
<1>3. cells' \in [Cell -> Value]
  <2>1. PICK v \in [1 .. n -> Value] : cells' = Stored(cells, readOp, n, v)
    BY DEF FinishRead
  <2>2. n \in Nat /\ cells \in [Cell -> Value]
    BY BufferSizeAssumption DEF RingInv, RingTypeOK
  <2> QED BY <2>1, <2>2, StoredTyped
<1>4. ASSUME writeOp # <<>>
      PROVE  \E m \in 1 .. buffer'.filledSize : writeOp = Data(buffer', m)
  <2>1. PICK m \in 1 .. buffer.filledSize : writeOp = Data(buffer, m)
    BY <1>4 DEF RingInv, OperationsOwnTheirCells
  <2>2. /\ buffer'.filledStart = buffer.filledStart
        /\ buffer'.filledSize = buffer.filledSize + n
    BY DEF FinishRead, Consume, RingInv, RingTypeOK, Buffer
  <2>3. buffer.filledSize \in Nat
    BY DEF RingInv, RingTypeOK, Buffer
  <2>4. m \in 1 .. buffer'.filledSize /\ Data(buffer', m) = Data(buffer, m)
    BY <2>2, <2>3 DEF Data, Smaller
  <2> QED BY <2>1, <2>4
<1> QED
  BY <1>2, <1>3, <1>4 DEF FinishRead, RingInv, RingTypeOK, OperationsOwnTheirCells, Segments

LEMMA FinishWriteRingInv ==
  ASSUME RingInv, NEW n \in 0 .. BufferSize, FinishWrite(n)
  PROVE  RingInv'
<1>1. n \in 0 .. buffer.filledSize /\ n \in 0 .. TotalLen(writeOp)
  BY WriteInFlight DEF FinishWrite, RingInv, RingTypeOK, Buffer
<1>2. Commit(buffer, n) \in Buffer /\ Complementary(Commit(buffer, n))
  BY <1>1, CommitComplementary DEF RingInv, RingTypeOK, OperationsOwnTheirCells
<1>3. sent' \in Seq(Value)
  <2>1. \A j \in 1 .. n : CellAt(writeOp, j) \in Cell
    <3>1. TAKE j \in 1 .. n
    <3>2. /\ buffer.filledStart \in Cell
          /\ TotalLen(writeOp) \in 0 .. BufferSize
          /\ j \in 1 .. TotalLen(writeOp)
          /\ j - 1 \in 0 .. BufferSize
      BY <1>1, WriteInFlight, BufferSizeAssumption
         DEF FinishWrite, RingInv, RingTypeOK, Buffer
    <3>3. CellAt(writeOp, j) = Forward(buffer.filledStart, j - 1)
      BY <3>2, WriteInFlight, BlocksCells DEF FinishWrite
    <3> QED BY <3>2, <3>3, ForwardInCell
  <2>2. sent' \in [1 .. n -> Value]
    BY <2>1 DEF FinishWrite, RingInv, RingTypeOK
  <2> QED BY <2>2
<1>4. ASSUME readOp # <<>>
      PROVE  \E m \in 1 .. buffer'.nonfilledSize : readOp = Prepared(buffer', m)
  <2>1. PICK m \in 1 .. buffer.nonfilledSize : readOp = Prepared(buffer, m)
    BY <1>4 DEF RingInv, OperationsOwnTheirCells
  <2>2. /\ buffer'.nonfilledStart = buffer.nonfilledStart
        /\ buffer'.nonfilledSize = buffer.nonfilledSize + n
    BY DEF FinishWrite, Commit, RingInv, RingTypeOK, Buffer
  <2>3. buffer.nonfilledSize \in Nat
    BY DEF RingInv, RingTypeOK, Buffer
  <2>4. m \in 1 .. buffer'.nonfilledSize /\ Prepared(buffer', m) = Prepared(buffer, m)
    BY <2>2, <2>3 DEF Prepared, Smaller
  <2> QED BY <2>1, <2>4
<1> QED
  BY <1>2, <1>3, <1>4 DEF FinishWrite, RingInv, RingTypeOK, OperationsOwnTheirCells, Segments

LEMMA ResetRingInv ==
  ASSUME RingInv, ResetBuffer
  PROVE  RingInv'
BY EmptyComplementary DEF ResetBuffer, RingInv, RingTypeOK, OperationsOwnTheirCells

LEMMA StutterRingInv ==
  ASSUME RingInv, UNCHANGED ringVars
  PROVE  RingInv'
BY DEF ringVars, RingInv, RingTypeOK, OperationsOwnTheirCells

(***************************************************************************)
(* The members of the buffer and the blocks in flight keep their types,    *)
(* and the operations in flight own the cells they were given.             *)
(***************************************************************************)
THEOREM RingInvariance == RingSpec => []RingInv
<1>1. RingInv /\ [RingNext]_ringVars => RingInv'
  BY StartReadRingInv, StartWriteRingInv, FinishReadRingInv, FinishWriteRingInv, ResetRingInv,
     StutterRingInv
     DEF RingNext
<1> QED BY InitRingInv, <1>1, PTL DEF RingSpec

(***************************************************************************)
(* cyclic_buffer: the types of the members and of the memory blocks.       *)
(***************************************************************************)
THEOREM RingTypeCorrect == RingSpec => []RingTypeOK
<1>1. RingInv => RingTypeOK
  BY DEF RingInv
<1> QED BY RingInvariance, <1>1, PTL

(***************************************************************************)
(* cyclic_buffer: commit and consume are never asked for more than there   *)
(* is, because the operations in flight own the cells they were given.     *)
(***************************************************************************)
THEOREM OwnCells == RingSpec => []OperationsOwnTheirCells
<1>1. RingInv => OperationsOwnTheirCells
  BY DEF RingInv
<1> QED BY RingInvariance, <1>1, PTL

-----------------------------------------------------------------------------

(***************************************************************************)
(* The cells of the write in flight are the first cells of the data, and a *)
(* read that completes stores into none of them.                           *)
(***************************************************************************)
LEMMA WriteCells ==
  ASSUME RingInv, writeOp # <<>>, NEW j \in 1 .. TotalLen(writeOp)
  PROVE  /\ CellAt(writeOp, j) = Forward(buffer.filledStart, j - 1)
         /\ CellAt(writeOp, j) \in Cell
         /\ j \in 1 .. buffer.filledSize
<1>1. /\ buffer.filledStart \in Cell
      /\ buffer.filledSize \in 0 .. BufferSize
      /\ TotalLen(writeOp) \in 1 .. buffer.filledSize
      /\ writeOp = Blocks(buffer.filledStart, TotalLen(writeOp))
  BY WriteInFlight DEF RingInv, RingTypeOK, Buffer
<1>2. /\ TotalLen(writeOp) \in 0 .. BufferSize
      /\ j - 1 \in 0 .. BufferSize
      /\ j \in 1 .. buffer.filledSize
  BY <1>1, BufferSizeAssumption
<1>3. CellAt(writeOp, j) = Forward(buffer.filledStart, j - 1)
  BY <1>1, <1>2, BlocksCells
<1> QED BY <1>1, <1>2, <1>3, ForwardInCell

(***************************************************************************)
(* What a completed read of n bytes leaves in memory: the new bytes in the *)
(* first n cells of the room, the old ones in the cells of the data.       *)
(***************************************************************************)
LEMMA ReadStores ==
  ASSUME RingInv, NEW n \in 0 .. BufferSize, readOp # <<>>, n <= TotalLen(readOp),
         NEW v \in [1 .. n -> Value]
  PROVE  LET after == Stored(cells, readOp, n, v)
         IN  /\ n \in 0 .. buffer.nonfilledSize
             /\ \A i \in 1 .. n :
                  after[Forward(buffer.nonfilledStart, i - 1)] = v[i]
             /\ \A j \in 1 .. buffer.filledSize :
                  after[Forward(buffer.filledStart, j - 1)]
                    = cells[Forward(buffer.filledStart, j - 1)]
<1> DEFINE after == Stored(cells, readOp, n, v)
           k == TotalLen(readOp)
<1>1. /\ buffer \in Buffer /\ Complementary(buffer)
      /\ buffer.filledStart \in Cell /\ buffer.filledSize \in 0 .. BufferSize
      /\ buffer.nonfilledStart \in Cell
      /\ buffer.nonfilledSize \in 0 .. BufferSize
      /\ cells \in [Cell -> Value]
  BY DEF RingInv, RingTypeOK, OperationsOwnTheirCells, Buffer
<1>2. k \in 1 .. buffer.nonfilledSize /\ readOp = Blocks(buffer.nonfilledStart, k)
  BY ReadInFlight
<1>3. k \in 0 .. BufferSize /\ n \in 0 .. k /\ n \in 0 .. buffer.nonfilledSize
  BY <1>1, <1>2, BufferSizeAssumption
<1>4. /\ \A i \in 1 .. n :
           after[Forward(buffer.nonfilledStart, i - 1)] = v[i]
      /\ \A c \in Cell :
           (\A i \in 1 .. n : c # Forward(buffer.nonfilledStart, i - 1))
             => after[c] = cells[c]
  BY <1>1, <1>2, <1>3, StoredCells
<1>5. ASSUME NEW j \in 1 .. buffer.filledSize
      PROVE  after[Forward(buffer.filledStart, j - 1)]
               = cells[Forward(buffer.filledStart, j - 1)]
  <2>1. j - 1 \in 0 .. BufferSize
    BY <1>1, BufferSizeAssumption
  <2>2. Forward(buffer.filledStart, j - 1) \in Cell
    BY <1>1, <2>1, ForwardInCell
  <2>3. \A i \in 1 .. n : Forward(buffer.nonfilledStart, i - 1)
                            # Forward(buffer.filledStart, j - 1)
    <3>1. TAKE i \in 1 .. n
    <3>2. i \in 1 .. buffer.nonfilledSize
      BY <1>1, <1>3
    <3> QED BY <1>1, <3>2, SidesApart
  <2> QED BY <1>4, <2>2, <2>3
<1> QED BY <1>3, <1>4, <1>5

(***************************************************************************)
(* cyclic_buffer: no step changes a cell of the write in flight.           *)
(***************************************************************************)
THEOREM StableCells == RingSpec => WriteSeesStableCells
<1> DEFINE Stable ==
      writeOp # <<>> =>
        \A j \in 1 .. TotalLen(writeOp) :
          cells'[CellAt(writeOp, j)] = cells[CellAt(writeOp, j)]
<1>1. ASSUME RingInv, [RingNext]_ringVars, writeOp # <<>>,
             NEW j \in 1 .. TotalLen(writeOp)
      PROVE  cells'[CellAt(writeOp, j)] = cells[CellAt(writeOp, j)]
  <2>1. ASSUME NEW n \in 0 .. BufferSize, FinishRead(n)
        PROVE  cells'[CellAt(writeOp, j)] = cells[CellAt(writeOp, j)]
    <3>1. PICK v \in [1 .. n -> Value] : cells' = Stored(cells, readOp, n, v)
      BY <2>1 DEF FinishRead
    <3>2. /\ CellAt(writeOp, j) = Forward(buffer.filledStart, j - 1)
          /\ j \in 1 .. buffer.filledSize
      BY <1>1, WriteCells
    <3>3. readOp # <<>> /\ n <= TotalLen(readOp)
      BY <2>1 DEF FinishRead
    <3> QED BY <1>1, <3>1, <3>2, <3>3, ReadStores
  <2>2. CASE UNCHANGED cells
    BY <2>2
  <2>3. (\E n \in 0 .. BufferSize : FinishRead(n)) \/ UNCHANGED cells
    BY <1>1 DEF RingNext, ringVars, StartRead, StartWrite, FinishWrite, ResetBuffer
  <2> QED BY <2>1, <2>2, <2>3
<1>2. RingInv /\ [RingNext]_ringVars => [Stable]_ringVars
  BY <1>1
<1> QED BY <1>2, RingInvariance, PTL DEF RingSpec, WriteSeesStableCells

-----------------------------------------------------------------------------

(***************************************************************************)
(* The queue that the buffer stands for: the filled cells in the order of  *)
(* the ring.                                                               *)
(***************************************************************************)
LEMMA QueueCells ==
  ASSUME NEW b \in Buffer, NEW c \in [Cell -> Value]
  PROVE  LET queue == [j \in 1 .. b.filledSize |->
                         c[CellAt(Data(b, BufferSize), j)]]
         IN  /\ queue = [j \in 1 .. b.filledSize |->
                           c[Forward(b.filledStart, j - 1)]]
             /\ queue \in [1 .. b.filledSize -> Value]
             /\ queue \in Seq(Value)
             /\ Len(queue) = b.filledSize
<1> DEFINE queue == [j \in 1 .. b.filledSize |->
                       c[CellAt(Data(b, BufferSize), j)]]
<1>1. /\ b.filledStart \in Cell /\ b.filledSize \in 0 .. BufferSize
      /\ b.filledSize \in Nat
  BY BufferSizeAssumption DEF Buffer
<1>2. Data(b, BufferSize) = Blocks(b.filledStart, b.filledSize)
  BY <1>1, OfferedBlocks, BufferSizeAssumption
<1>3. \A j \in 1 .. b.filledSize :
        /\ CellAt(Data(b, BufferSize), j) = Forward(b.filledStart, j - 1)
        /\ Forward(b.filledStart, j - 1) \in Cell
  BY <1>1, <1>2, BlocksCells, ForwardInCell, BufferSizeAssumption
<1>4. queue = [j \in 1 .. b.filledSize |-> c[Forward(b.filledStart, j - 1)]]
  BY <1>3
<1>5. queue \in [1 .. b.filledSize -> Value]
  BY <1>3, <1>4
<1>6. queue \in Seq(Value) /\ Len(queue) = b.filledSize
  <2> HIDE DEF queue
  <2> QED BY <1>1, <1>5
<1> QED BY <1>4, <1>5, <1>6

(***************************************************************************)
(* The same of the contents of the buffer, now and after a step.           *)
(***************************************************************************)
LEMMA ContentsCells ==
  ASSUME RingTypeOK
  PROVE  /\ Contents = [j \in 1 .. buffer.filledSize |->
                          cells[Forward(buffer.filledStart, j - 1)]]
         /\ Contents \in Seq(Value)
         /\ Len(Contents) = buffer.filledSize
BY QueueCells DEF RingTypeOK, Contents

LEMMA ContentsCellsAfter ==
  ASSUME RingTypeOK'
  PROVE  /\ Contents' = [j \in 1 .. buffer'.filledSize |->
                           cells'[Forward(buffer'.filledStart, j - 1)]]
         /\ Contents' \in Seq(Value)
         /\ Len(Contents') = buffer'.filledSize
BY QueueCells DEF RingTypeOK, Contents

(***************************************************************************)
(* A completed read puts its bytes at the end of the queue.                *)
(***************************************************************************)
LEMMA FinishReadPuts ==
  ASSUME RingInv, NEW n \in 0 .. BufferSize, FinishRead(n)
  PROVE  Fifo!Put
<1>1. PICK v \in [1 .. n -> Value] : cells' = Stored(cells, readOp, n, v)
  BY DEF FinishRead
<1>2. /\ buffer.filledStart \in Cell /\ buffer.filledSize \in 0 .. BufferSize
      /\ buffer.filledSize \in Nat /\ buffer.nonfilledSize \in Nat
      /\ buffer.filledSize + buffer.nonfilledSize = BufferSize
      /\ buffer.nonfilledStart = Forward(buffer.filledStart, buffer.filledSize)
  BY BufferSizeAssumption
     DEF RingInv, RingTypeOK, OperationsOwnTheirCells, Complementary, Buffer
<1>3. /\ n \in 0 .. buffer.nonfilledSize
      /\ \A i \in 1 .. n :
           cells'[Forward(buffer.nonfilledStart, i - 1)] = v[i]
      /\ \A j \in 1 .. buffer.filledSize :
           cells'[Forward(buffer.filledStart, j - 1)]
             = cells[Forward(buffer.filledStart, j - 1)]
  BY <1>1, ReadStores DEF FinishRead
<1>4. /\ buffer'.filledStart = buffer.filledStart
      /\ buffer'.filledSize = buffer.filledSize + n
  BY DEF FinishRead, Consume, RingInv, RingTypeOK, Buffer
<1>5. RingTypeOK /\ RingTypeOK'
  BY FinishReadRingInv DEF RingInv
<1>6. /\ Contents = [j \in 1 .. buffer.filledSize |->
                       cells[Forward(buffer.filledStart, j - 1)]]
      /\ Contents \in Seq(Value) /\ Len(Contents) = buffer.filledSize
  BY <1>5, ContentsCells
<1>7. Contents' = [j \in 1 .. buffer.filledSize + n |->
                     cells'[Forward(buffer.filledStart, j - 1)]]
  <2>1. Contents' = [j \in 1 .. buffer'.filledSize |->
                       cells'[Forward(buffer'.filledStart, j - 1)]]
    BY <1>5, ContentsCellsAfter
  <2> QED BY <1>4, <2>1
<1>8. ASSUME NEW j \in 1 .. buffer.filledSize + n
      PROVE  cells'[Forward(buffer.filledStart, j - 1)]
               = IF j <= buffer.filledSize THEN Contents[j]
                                           ELSE v[j - buffer.filledSize]
  <2>1. CASE j <= buffer.filledSize
    BY <1>2, <1>3, <1>6, <2>1
  <2>2. CASE ~(j <= buffer.filledSize)
    <3> DEFINE filled == buffer.filledSize
    <3>0. filled \in Nat /\ n \in Nat /\ filled + n <= BufferSize
      BY <1>2, <1>3, BufferSizeAssumption
    <3>1. /\ j - filled \in 1 .. n /\ (j - filled) - 1 \in Nat
          /\ filled + ((j - filled) - 1) = j - 1 /\ j - 1 <= BufferSize
      <4>1. j \in 1 .. filled + n /\ ~(j <= filled)
        BY <2>2
      <4> HIDE DEF filled
      <4> QED BY <3>0, <4>1, BufferSizeAssumption
    <3>2. Forward(buffer.nonfilledStart, (j - buffer.filledSize) - 1)
            = Forward(buffer.filledStart, j - 1)
      BY <1>2, <3>1, ForwardSplits
    <3> QED BY <1>3, <2>2, <3>1, <3>2
  <2> QED BY <2>1, <2>2
<1>9. Contents' = Contents \o v
  <2>1. v \in Seq(Value) /\ Len(v) = n
    BY <1>3
  <2>2. /\ Contents \o v \in Seq(Value)
        /\ Len(Contents \o v) = buffer.filledSize + n
        /\ \A j \in 1 .. buffer.filledSize + n :
             (Contents \o v)[j] = IF j <= buffer.filledSize
                                    THEN Contents[j]
                                    ELSE v[j - buffer.filledSize]
    <3>1. /\ Contents \o v \in Seq(Value)
          /\ Len(Contents \o v) = Len(Contents) + Len(v)
          /\ \A j \in 1 .. Len(Contents) + Len(v) :
               (Contents \o v)[j] = IF j <= Len(Contents)
                                      THEN Contents[j]
                                      ELSE v[j - Len(Contents)]
      BY <1>6, <2>1, ConcatProperties, Zenon
    <3> QED BY <1>6, <2>1, <3>1
  <2>3. /\ Contents' \in Seq(Value)
        /\ Len(Contents') = buffer.filledSize + n
    BY <1>4, <1>5, ContentsCellsAfter
  <2>4. \A j \in 1 .. buffer.filledSize + n :
          Contents'[j] = (Contents \o v)[j]
    BY <1>7, <1>8, <2>2
  <2> QED BY <2>2, <2>3, <2>4, SeqEqual
<1>10. n \in 0 .. BufferSize - Len(Contents)
  BY <1>2, <1>3, <1>6
<1> QED BY <1>9, <1>10 DEF Fifo!Put, FinishRead

(***************************************************************************)
(* A completed write takes what it has sent from the front of the queue.   *)
(***************************************************************************)
LEMMA FinishWriteTakes ==
  ASSUME RingInv, NEW n \in 0 .. BufferSize, FinishWrite(n)
  PROVE  Fifo!Take
<1>1. /\ buffer.filledStart \in Cell /\ buffer.filledSize \in 0 .. BufferSize
  BY DEF RingInv, RingTypeOK, Buffer
<1>2. n \in 0 .. buffer.filledSize /\ n \in 0 .. TotalLen(writeOp)
  BY WriteInFlight DEF FinishWrite, RingInv, RingTypeOK, Buffer
<1>3. RingTypeOK /\ RingTypeOK'
  BY FinishWriteRingInv DEF RingInv
<1>4. /\ Contents = [j \in 1 .. buffer.filledSize |->
                       cells[Forward(buffer.filledStart, j - 1)]]
      /\ Contents \in Seq(Value) /\ Len(Contents) = buffer.filledSize
  BY <1>3, ContentsCells
<1>5. /\ buffer'.filledStart = Forward(buffer.filledStart, n)
      /\ buffer'.filledSize = buffer.filledSize - n
  BY DEF FinishWrite, Commit, RingInv, RingTypeOK, Buffer
<1>6. Contents' = [j \in 1 .. buffer.filledSize - n |->
                     cells[Forward(Forward(buffer.filledStart, n), j - 1)]]
  <2>1. Contents' = [j \in 1 .. buffer'.filledSize |->
                       cells'[Forward(buffer'.filledStart, j - 1)]]
    BY <1>3, ContentsCellsAfter
  <2>2. cells' = cells
    BY DEF FinishWrite
  <2> QED BY <1>5, <2>1, <2>2
<1>7. Contents' = SubSeq(Contents, n + 1, Len(Contents))
  <2>1. \A j \in 1 .. buffer.filledSize - n :
          cells[Forward(Forward(buffer.filledStart, n), j - 1)] = Contents[n + j]
    <3>1. TAKE j \in 1 .. buffer.filledSize - n
    <3>2. /\ n \in Nat /\ j - 1 \in Nat /\ n + (j - 1) <= BufferSize
          /\ n + j \in 1 .. buffer.filledSize
          /\ n + (j - 1) = (n + j) - 1
      BY <1>1, <1>2, BufferSizeAssumption
    <3>3. Forward(Forward(buffer.filledStart, n), j - 1)
            = Forward(buffer.filledStart, (n + j) - 1)
      BY <1>1, <3>2, ForwardSplits
    <3> QED BY <1>4, <3>2, <3>3
  <2>2. SubSeq(Contents, n + 1, Len(Contents))
          = [j \in 1 .. buffer.filledSize - n |-> Contents[n + j]]
    BY <1>1, <1>2, <1>4
  <2> QED BY <1>6, <2>1, <2>2
<1>8. sent' = SubSeq(Contents, 1, n)
  <2>1. \A j \in 1 .. n : cells[CellAt(writeOp, j)] = Contents[j]
    <3>1. TAKE j \in 1 .. n
    <3>2. j \in 1 .. TotalLen(writeOp)
      BY <1>2, <1>1, WriteInFlight DEF FinishWrite
    <3> QED BY <1>4, <3>2, WriteCells DEF FinishWrite
  <2>2. SubSeq(Contents, 1, n) = [j \in 1 .. n |-> Contents[j]]
    BY <1>1, <1>2, <1>4
  <2> QED BY <2>1, <2>2 DEF FinishWrite
<1>9. n \in 0 .. Len(Contents)
  BY <1>2, <1>4
<1> QED BY <1>7, <1>8, <1>9 DEF Fifo!Take

(***************************************************************************)
(* cyclic_buffer implements a bounded queue of bytes: a completed read     *)
(* puts, a completed write takes from the front, reset clears, and the     *)
(* start of an operation does not change the queue.                        *)
(***************************************************************************)
THEOREM Queue == RingSpec => ImplementsFifo
<1>1. RingInit => Fifo!Init
  <2> SUFFICES ASSUME RingInit PROVE Fifo!Init
    OBVIOUS
  <2>1. RingTypeOK /\ buffer.filledSize = 0
    BY InitRingInv DEF RingInv, RingInit, EmptyBuffer
  <2>2. Contents = <<>>
    BY <2>1, ContentsCells
  <2> QED BY <2>2 DEF RingInit, Fifo!Init
<1>2. ASSUME RingInv, [RingNext]_ringVars
      PROVE  [Fifo!Next]_(Fifo!vars)
  <2>1. ASSUME NEW n \in 0 .. BufferSize, FinishRead(n)
        PROVE  Fifo!Next
    BY <1>2, <2>1, FinishReadPuts DEF Fifo!Next
  <2>2. ASSUME NEW n \in 0 .. BufferSize, FinishWrite(n)
        PROVE  Fifo!Next
    BY <1>2, <2>2, FinishWriteTakes DEF Fifo!Next
  <2>3. CASE ResetBuffer
    <3>1. RingTypeOK' /\ buffer'.filledSize = 0
      BY <1>2, <2>3, ResetRingInv DEF RingInv, ResetBuffer, EmptyBuffer
    <3>2. Contents' = <<>>
      BY <3>1, ContentsCellsAfter
    <3> QED BY <2>3, <3>2 DEF ResetBuffer, Fifo!Clear, Fifo!Next
  <2>4. CASE UNCHANGED <<buffer, cells, sent>>
    BY <2>4 DEF Contents, Fifo!vars
  <2>5. \/ \E n \in 0 .. BufferSize : FinishRead(n) \/ FinishWrite(n)
        \/ ResetBuffer
        \/ UNCHANGED <<buffer, cells, sent>>
    BY <1>2 DEF RingNext, ringVars, StartRead, StartWrite
  <2> QED BY <2>1, <2>2, <2>3, <2>4, <2>5
<1> QED BY <1>1, <1>2, RingInvariance, PTL DEF RingSpec, ImplementsFifo, Fifo!Spec

-----------------------------------------------------------------------------
(***************************************************************************)
(* The session.  A handler is a chain of operators on its record, so the   *)
(* proof is one too: a lemma for each operator says what it makes of a     *)
(* session that is in the middle of a handler (Working), or at its end     *)
(* (Settled).                                                              *)
(***************************************************************************)
Busy(activity) == IF activity = "in_progress" THEN 1 ELSE 0

Counted(s) ==
  /\ s.pending = Busy(s.read) + Busy(s.write) + Busy(s.timer)
  /\ s.read # "in_progress" => s.readOp = <<>>
  /\ s.write # "in_progress" => s.writeOp = <<>>

ReadOwns(b, op) ==
  TotalLen(op) \in 1 .. b.nonfilledSize /\ op = Prepared(b, TotalLen(op))

WriteOwns(b, op) ==
  TotalLen(op) \in 1 .. b.filledSize /\ op = Data(b, TotalLen(op))

Own(s) ==
  /\ s.read = "in_progress" => ReadOwns(s.buffer, s.readOp)
  /\ s.write = "in_progress" => WriteOwns(s.buffer, s.writeOp)

(***************************************************************************)
(* stopping is TRUE in do_start_extern_stop, which has changed the state   *)
(* and not yet parked its handler.                                         *)
(***************************************************************************)
Answers(s, stopping) ==
  /\ s.owed.wait = IF s.waitHandler THEN 1 ELSE 0
  /\ s.owed.stop = IF s.stopHandler THEN 1 ELSE 0
  /\ s.stopHandler <=> s.extern = "stop" /\ ~stopping
  /\ stopping => s.extern \in {"stop", "stopped"}
  /\ s.waitHandler => s.extern = "work" /\ s.intern = "work"
  /\ s.extern = "work" /\ s.intern # "work" => s.waitError # "none"
  /\ s.extern # "stop" /\ s.intern = "work" => s.waitError = "none"

Working(s, stopping) ==
  /\ s \in Session /\ Counted(s) /\ Answers(s, stopping)
  /\ Complementary(s.buffer) /\ Own(s)
  /\ s.intern \in {"work", "shutdown"} /\ s.extern \in {"work", "stop"}
  /\ s.extern = "stop" => s.intern = "shutdown"

Settled(s, stopping) ==
  /\ s \in Session /\ Counted(s) /\ Answers(s, stopping)
  /\ Complementary(s.buffer) /\ (s.intern # "stop" => Own(s))
  /\ s.intern = "stopped" =>
       s.read = "stopped" /\ s.write = "stopped" /\ s.timer = "stopped"
  /\ s.intern = "stop" =>
       s.pending > 0 /\ s.read # "wait" /\ s.write # "wait" /\ s.timer # "ready"
  /\ s.intern \in {"stop", "stopped"} => s.socket = "closed"
  /\ s.extern = "stopped" => s.intern = "stopped"
  /\ s.extern = "stop" => s.intern \in {"shutdown", "stop"}
  /\ s.extern = "ready" =>
       /\ s.intern = "work" /\ s.buffer = EmptyBuffer
       /\ s.read = "wait" /\ s.write = "wait" /\ s.timer = "ready"

IInv == Settled(session, FALSE)

(***************************************************************************)
(* What a handler may do to the members that the user of the session sees  *)
(* (its contract, AbstractSession): nothing; end a session that is ending, *)
(* with the answer to a stop; or leave the work, for one of `causes'.      *)
(***************************************************************************)
Unseen(s, t) ==
  /\ t.extern = s.extern /\ t.intern = s.intern /\ t.waitError = s.waitError
  /\ t.waitHandler = s.waitHandler /\ t.stopHandler = s.stopHandler

Ending == {"shutdown", "stop"}

Keeps(s, t) ==
  /\ t.extern = s.extern
  /\ t.intern = s.intern \/ (s.intern \in Ending /\ t.intern \in Ending)
  /\ t.waitError = s.waitError
  /\ t.waitHandler = s.waitHandler /\ t.stopHandler = s.stopHandler

Ends(s, t) ==
  /\ s.intern \in Ending /\ t.intern = "stopped"
  /\ t.waitError = s.waitError /\ t.waitHandler = s.waitHandler
  /\ \/ /\ s.extern = "work" /\ t.extern = "work"
        /\ t.stopHandler = s.stopHandler
     \/ /\ s.extern = "stop" /\ t.extern = "stopped"
        /\ t.stopHandler = FALSE

Leaves(s, t, causes) ==
  /\ s.extern = "work" /\ s.intern = "work"
  /\ t.extern = "work" /\ t.intern \in Ending \cup {"stopped"}
  /\ t.waitError \in causes /\ t.waitHandler = FALSE
  /\ t.stopHandler = s.stopHandler

Moves(s, t, causes) == Keeps(s, t) \/ Ends(s, t) \/ Leaves(s, t, causes)

LEMMA UnseenMoves ==
  ASSUME NEW s, NEW t, Unseen(s, t), NEW causes
  PROVE  Moves(s, t, causes)
BY DEF Unseen, Moves, Keeps

LEMMA MovesOn ==
  ASSUME NEW s, NEW t, NEW u, NEW causes, NEW more, causes \subseteq more,
         Unseen(s, t), Moves(t, u, causes)
  PROVE  Moves(s, u, more)
BY DEF Unseen, Moves, Keeps, Ends, Leaves

-----------------------------------------------------------------------------
(* Handlers of the user. *)

LEMMA WaitCompleted ==
  ASSUME NEW s \in Session, NEW error \in Error,
         s.owed.wait = IF s.waitHandler THEN 1 ELSE 0
  PROVE  LET t == CompleteExternWait(s, error)
         IN  /\ t \in Session /\ t.owed.wait = 0 /\ t.waitHandler = FALSE
             /\ t.waitError = IF s.waitError = "none" THEN error ELSE s.waitError
             /\ t.owed.stop = s.owed.stop /\ t.stopHandler = s.stopHandler
             /\ t.extern = s.extern /\ t.intern = s.intern /\ t.socket = s.socket
             /\ t.read = s.read /\ t.write = s.write /\ t.timer = s.timer
             /\ t.pending = s.pending /\ t.buffer = s.buffer
             /\ t.readOp = s.readOp /\ t.writeOp = s.writeOp
<1> DEFINE t == CompleteExternWait(s, error)
           e == IF s.waitError = "none" THEN error ELSE s.waitError
<1>1. (s.owed.wait - IF s.waitHandler THEN 1 ELSE 0) = 0
  <2>1. CASE s.waitHandler BY <2>1
  <2>2. CASE ~s.waitHandler BY <2>2
  <2> QED BY <2>1, <2>2
<1>2. e \in Error
  BY DEF Session
<1>3. t = [s EXCEPT !.waitError = e, !.waitHandler = FALSE, !.owed.wait = 0]
  BY <1>1 DEF CompleteExternWait
<1> HIDE DEF t, e
<1>4. t \in Session
  <2> DEFINE o == [s.owed EXCEPT !.wait = 0]
  <2>1. o \in [wait : Nat, stop : Nat]
    BY 0 \in Nat DEF Session
  <2>2. t = [s EXCEPT !.waitError = e, !.waitHandler = FALSE, !.owed = o]
    BY <1>3
  <2> HIDE DEF o
  <2> QED BY <1>2, <2>1, <2>2 DEF Session
<1>5. t.owed.wait = 0 /\ t.owed.stop = s.owed.stop
  BY <1>3 DEF Session
<1>6. /\ t.waitHandler = FALSE /\ t.waitError = e /\ t.stopHandler = s.stopHandler
      /\ t.extern = s.extern /\ t.intern = s.intern /\ t.socket = s.socket
      /\ t.read = s.read /\ t.write = s.write /\ t.timer = s.timer
      /\ t.pending = s.pending /\ t.buffer = s.buffer
      /\ t.readOp = s.readOp /\ t.writeOp = s.writeOp
  BY <1>3 DEF Session
<1> QED BY <1>4, <1>5, <1>6 DEF e, t

LEMMA StopCompleted ==
  ASSUME NEW s \in Session, s.owed.stop = IF s.stopHandler THEN 1 ELSE 0
  PROVE  LET t == CompleteExternStop(s)
         IN  t \in Session /\ t.owed.stop = 0 /\ t.stopHandler = FALSE
<1>1. (s.owed.stop - IF s.stopHandler THEN 1 ELSE 0) = 0
  <2>1. CASE s.stopHandler BY <2>1
  <2>2. CASE ~s.stopHandler BY <2>2
  <2> QED BY <2>1, <2>2
<1> QED BY <1>1, 0 \in Nat DEF CompleteExternStop, Session

-----------------------------------------------------------------------------
(* The internal stop. *)

LEMMA WorkingSettled ==
  ASSUME NEW s, NEW stopping \in BOOLEAN, Working(s, stopping)
  PROVE  Settled(s, stopping)
BY DEF Working, Settled

LEMMA StopContinued ==
  ASSUME NEW s \in Session, NEW stopping \in BOOLEAN, Counted(s),
         Answers(s, stopping), Complementary(s.buffer),
         s.intern = "stop", s.socket = "closed", s.extern \in {"work", "stop"},
         s.read # "wait", s.write # "wait", s.timer # "ready", NEW causes
  PROVE  /\ Settled(ContinueStop(s), stopping)
         /\ Moves(s, ContinueStop(s), causes)
         /\ ContinueStop(s).read = s.read
<1>1. CASE s.pending # 0
  <2>1. s.pending > 0 BY <1>1 DEF Session
  <2> QED BY <1>1, <2>1 DEF ContinueStop, Settled, Moves, Keeps
<1>2. CASE s.pending = 0 /\ s.extern = "work"
  <2> DEFINE t == [s EXCEPT !.intern = "stopped"]
  <2>1. s.read = "stopped" /\ s.write = "stopped" /\ s.timer = "stopped"
    BY <1>2 DEF Counted, Busy, Session, Activity
  <2>2. ContinueStop(s) = t
    BY <1>2 DEF ContinueStop
  <2>3. t \in Session
    BY DEF Session
  <2>4. Own(t) /\ Counted(t)
    BY <2>1 DEF Own, Session, Counted
  <2>5. Answers(t, stopping)
    BY <1>2 DEF Answers, Session
  <2>6. Moves(s, t, causes)
    BY <1>2 DEF Moves, Ends, Ending, Session
  <2> QED BY <1>2, <2>1, <2>2, <2>3, <2>4, <2>5, <2>6 DEF Settled, Session
<1>3. CASE s.pending = 0 /\ s.extern = "stop"
  <2> DEFINE u == [[s EXCEPT !.intern = "stopped"] EXCEPT !.extern = "stopped"]
             t == ContinueStop(s)
  <2>1. s.read = "stopped" /\ s.write = "stopped" /\ s.timer = "stopped"
    BY <1>3 DEF Counted, Busy, Session, Activity
  <2>2. t = CompleteExternStop(u)
    BY <1>3 DEF ContinueStop
  <2>3. u \in Session /\ u.stopHandler = s.stopHandler /\ u.owed = s.owed
    BY DEF Session
  <2>4. t \in Session /\ t.owed.stop = 0 /\ t.stopHandler = FALSE
    BY <2>2, <2>3, StopCompleted DEF Answers
  <2>5. /\ t.intern = "stopped" /\ t.extern = "stopped" /\ t.socket = "closed"
        /\ t.read = "stopped" /\ t.write = "stopped" /\ t.timer = "stopped"
        /\ t.pending = s.pending /\ t.buffer = s.buffer
        /\ t.readOp = s.readOp /\ t.writeOp = s.writeOp
        /\ t.waitHandler = s.waitHandler /\ t.owed.wait = s.owed.wait
        /\ t.waitError = s.waitError
    BY <2>1, <2>2 DEF CompleteExternStop, Session
  <2>6. Own(t) /\ Counted(t)
    BY <2>1, <2>5 DEF Own, Counted
  <2>7. Answers(t, stopping)
    BY <1>3, <2>4, <2>5 DEF Answers
  <2>8. Moves(s, t, causes)
    BY <1>3, <2>4, <2>5 DEF Moves, Ends, Ending
  <2> QED BY <1>3, <2>1, <2>4, <2>5, <2>6, <2>7, <2>8 DEF Settled
<1> QED BY <1>1, <1>2, <1>3

LEMMA StopStarted ==
  ASSUME NEW s, NEW stopping \in BOOLEAN, Working(s, stopping),
         NEW error \in Error, NEW fault, error # "none" \/ s.intern = "shutdown"
  PROVE  /\ Settled(StartStop(s, error, fault), stopping)
         /\ Moves(s, StartStop(s, error, fault), {error})
         /\ s.read = "in_progress" => StartStop(s, error, fault).read = "in_progress"
<1> DEFINE s1 == [s EXCEPT !.intern = "stop", !.socket = "closed"]
           s2 == CancelTimerWait(s1, "stop_cancel", fault)
           failed == "close" \in fault \/ CancelFails(s1, "stop_cancel", fault)
           cause == IF error = "none" /\ failed THEN "error" ELSE error
           s3 == [s2 EXCEPT
                    !.read  = IF @ = "wait" THEN "stopped" ELSE @,
                    !.write = IF @ = "wait" THEN "stopped" ELSE @,
                    !.timer = IF @ = "ready" THEN "stopped" ELSE @]
<1>0. StartStop(s, error, fault) =
        ContinueStop(IF s.extern = "work" THEN CompleteExternWait(s3, cause) ELSE s3)
  BY DEF StartStop
<1>1. s \in Session
  BY DEF Working
<1>2. /\ s1 \in Session /\ s1.intern = "stop" /\ s1.socket = "closed"
      /\ s1.read = s.read /\ s1.write = s.write /\ s1.timer = s.timer
      /\ s1.readOp = s.readOp /\ s1.writeOp = s.writeOp
      /\ s1.pending = s.pending /\ s1.buffer = s.buffer /\ s1.extern = s.extern
      /\ s1.waitHandler = s.waitHandler /\ s1.stopHandler = s.stopHandler
      /\ s1.owed = s.owed /\ s1.waitError = s.waitError
  BY <1>1 DEF Session
<1> HIDE DEF s1
<1>3. /\ s2 \in Session /\ s2.intern = "stop" /\ s2.socket = "closed"
      /\ s2.read = s.read /\ s2.write = s.write /\ s2.timer = s.timer
      /\ s2.readOp = s.readOp /\ s2.writeOp = s.writeOp
      /\ s2.pending = s.pending /\ s2.buffer = s.buffer /\ s2.extern = s.extern
      /\ s2.waitHandler = s.waitHandler /\ s2.stopHandler = s.stopHandler
      /\ s2.owed = s.owed /\ s2.waitError = s.waitError
  <2>1. CASE CancelFails(s1, "stop_cancel", fault)
    BY <1>2, <2>1 DEF CancelTimerWait
  <2>2. CASE ~CancelFails(s1, "stop_cancel", fault)
    <3>1. s2 = [s1 EXCEPT !.timerWaitCancelled = TRUE, !.timerTurned = FALSE]
      BY <2>2 DEF CancelTimerWait
    <3> HIDE DEF s2
    <3>2. s2 \in Session
      BY <1>2, <3>1 DEF Session
    <3> QED BY <1>2, <3>1, <3>2 DEF Session
  <2> QED BY <2>1, <2>2
<1> HIDE DEF s2
<1> DEFINE Resting(a) == IF a = "wait" THEN "stopped" ELSE a
           timer == IF s.timer = "ready" THEN "stopped" ELSE s.timer
<1>4. /\ Resting(s.read) \in Activity /\ Resting(s.write) \in Activity
      /\ timer \in {"in_progress", "stopped"}
  BY <1>1 DEF Session, Activity
<1>5. s3 = [s2 EXCEPT !.read = Resting(s.read), !.write = Resting(s.write),
                      !.timer = timer]
  BY <1>3
<1> HIDE DEF s3
<1>6. /\ s3 \in Session /\ s3.intern = "stop" /\ s3.socket = "closed"
      /\ s3.read = Resting(s.read) /\ s3.write = Resting(s.write)
      /\ s3.timer = timer
      /\ s3.readOp = s.readOp /\ s3.writeOp = s.writeOp
      /\ s3.pending = s.pending /\ s3.buffer = s.buffer /\ s3.extern = s.extern
      /\ s3.waitHandler = s.waitHandler /\ s3.stopHandler = s.stopHandler
      /\ s3.owed = s.owed /\ s3.waitError = s.waitError
  <2> HIDE DEF Resting, timer
  <2> QED BY <1>3, <1>4, <1>5 DEF Session
<1>7. cause \in Error
  BY DEF Error
<1>8. Counted(s3) /\ Complementary(s3.buffer)
  BY <1>6 DEF Working, Counted, Busy
<1>9. s3.read # "wait" /\ s3.write # "wait" /\ s3.timer # "ready"
  BY <1>6, <1>4
<1>10. CASE s.extern = "work"
  <2> DEFINE t == CompleteExternWait(s3, cause)
  <2>1. s3.owed.wait = IF s3.waitHandler THEN 1 ELSE 0
    BY <1>6 DEF Working, Answers
  <2>2. /\ t \in Session /\ t.owed.wait = 0 /\ t.waitHandler = FALSE
        /\ t.waitError = IF s.waitError = "none" THEN cause ELSE s.waitError
        /\ t.owed.stop = s.owed.stop /\ t.stopHandler = s.stopHandler
        /\ t.extern = "work" /\ t.intern = "stop" /\ t.socket = "closed"
        /\ t.read = s3.read /\ t.write = s3.write /\ t.timer = s3.timer
        /\ t.pending = s3.pending /\ t.buffer = s3.buffer
        /\ t.readOp = s3.readOp /\ t.writeOp = s3.writeOp
    <3> HIDE DEF cause
    <3>1. /\ t \in Session /\ t.owed.wait = 0 /\ t.waitHandler = FALSE
          /\ t.waitError = IF s3.waitError = "none" THEN cause ELSE s3.waitError
          /\ t.owed.stop = s3.owed.stop /\ t.stopHandler = s3.stopHandler
          /\ t.extern = s3.extern /\ t.intern = s3.intern /\ t.socket = s3.socket
          /\ t.read = s3.read /\ t.write = s3.write /\ t.timer = s3.timer
          /\ t.pending = s3.pending /\ t.buffer = s3.buffer
          /\ t.readOp = s3.readOp /\ t.writeOp = s3.writeOp
      BY <1>6, <1>7, <2>1, WaitCompleted, Zenon
    <3> QED BY <1>6, <1>10, <3>1
  <2> HIDE DEF t
  <2>3. t.waitError # "none"
    BY <1>10, <2>2 DEF Working, Answers
  <2>4. Counted(t) /\ Complementary(t.buffer)
    BY <1>8, <2>2 DEF Counted
  <2>5. Answers(t, stopping)
    BY <2>2, <2>3, <1>10 DEF Working, Answers
  <2>6. /\ Settled(ContinueStop(t), stopping)
        /\ Moves(t, ContinueStop(t), {error})
        /\ ContinueStop(t).read = t.read
    BY <1>9, <2>2, <2>4, <2>5, StopContinued
  <2>7. CASE s.intern = "work"
    <3>1. t.waitError = error
      BY <1>10, <2>2, <2>7 DEF Working, Answers
    <3> QED BY <1>0, <1>6, <1>10, <2>2, <2>6, <2>7, <3>1
            DEF t, Moves, Keeps, Ends, Leaves, Ending
  <2>8. CASE s.intern = "shutdown"
    <3>1. t.waitError = s.waitError /\ s.waitHandler = FALSE
      BY <1>1, <1>10, <2>2, <2>8 DEF Working, Answers, Session
    <3>2. StartStop(s, error, fault) = ContinueStop(t)
      BY <1>0, <1>10 DEF t
    <3>3. t.extern = s.extern /\ t.intern \in Ending /\ s.intern \in Ending
      BY <1>10, <2>2, <2>8 DEF Ending
    <3>4. /\ t.waitHandler = s.waitHandler /\ t.stopHandler = s.stopHandler
          /\ t.intern # "work"
      BY <2>2, <3>1
    <3>5. Moves(s, ContinueStop(t), {error})
      BY <2>6, <3>1, <3>3, <3>4, SMTT(30) DEF Moves, Keeps, Ends, Leaves, Ending
    <3>6. s.read = "in_progress" => ContinueStop(t).read = "in_progress"
      BY <1>6, <2>2, <2>6, SMTT(30)
    <3> QED BY <2>6, <3>2, <3>5, <3>6, Zenon
  <2> QED BY <2>7, <2>8 DEF Working
<1>11. CASE s.extern = "stop"
  <2>1. Answers(s3, stopping)
    BY <1>6, <1>11 DEF Working, Answers
  <2>2. /\ Settled(ContinueStop(s3), stopping)
        /\ Moves(s3, ContinueStop(s3), {error})
        /\ ContinueStop(s3).read = s3.read
    BY <1>6, <1>8, <1>9, <1>11, <2>1, StopContinued
  <2>3. s.intern = "shutdown"
    BY <1>11 DEF Working
  <2>4. Moves(s, ContinueStop(s3), {error})
    BY <1>6, <1>11, <2>2, <2>3 DEF Moves, Keeps, Ends, Leaves, Ending
  <2> QED BY <1>0, <1>6, <1>11, <2>2, <2>4
<1> QED BY <1>10, <1>11 DEF Working

-----------------------------------------------------------------------------
(* Starting operations. *)

LEMMA TimerStarted ==
  ASSUME NEW s, NEW stopping \in BOOLEAN, Working(s, stopping), s.timer = "ready"
  PROVE  /\ Working(StartTimerWait(s), stopping) /\ Unseen(s, StartTimerWait(s))
         /\ StartTimerWait(s).read = s.read
<1> DEFINE t == StartTimerWait(s)
<1>1. s \in Session /\ s.pending \in Nat /\ s.pending + 1 \in Nat
  BY DEF Working, Session
<1>2. t = [s EXCEPT !.timer = "in_progress", !.timerWaitCancelled = FALSE,
                    !.pending = s.pending + 1, !.quiet = TRUE]
  BY DEF StartTimerWait
<1> HIDE DEF t
<1>3. t \in Session
  BY <1>1, <1>2 DEF Session
<1>4. /\ t.read = s.read /\ t.write = s.write
      /\ t.timer = "in_progress" /\ t.pending = s.pending + 1
      /\ t.readOp = s.readOp /\ t.writeOp = s.writeOp
      /\ t.buffer = s.buffer
      /\ t.extern = s.extern /\ t.intern = s.intern
      /\ t.waitHandler = s.waitHandler /\ t.stopHandler = s.stopHandler
      /\ t.owed = s.owed /\ t.waitError = s.waitError
  BY <1>1, <1>2 DEF Session
<1>5. Counted(t)
  BY <1>1, <1>4 DEF Working, Counted, Busy
<1>6. Working(t, stopping)
  BY <1>3, <1>4, <1>5 DEF Working, Own, Answers
<1> QED BY <1>4, <1>6 DEF t, Unseen

LEMMA TimerContinued ==
  ASSUME NEW s, NEW stopping \in BOOLEAN, Working(s, stopping), NEW fault
  PROVE  /\ Settled(ContinueTimerWait(s, fault), stopping)
         /\ Moves(s, ContinueTimerWait(s, fault), {"error"})
         /\ s.read = "in_progress" => ContinueTimerWait(s, fault).read = "in_progress"
<1> DEFINE turned == [s EXCEPT !.timerWaitCancelled = TRUE, !.timerTurned = TRUE]
<1>1. /\ Working(turned, stopping) /\ Unseen(s, turned)
      /\ turned.timer = s.timer /\ turned.read = s.read
  <2>1. turned \in Session
    BY DEF Working, Session
  <2>2. /\ turned.read = s.read /\ turned.write = s.write /\ turned.timer = s.timer
        /\ turned.readOp = s.readOp /\ turned.writeOp = s.writeOp
        /\ turned.pending = s.pending /\ turned.buffer = s.buffer
        /\ turned.extern = s.extern /\ turned.intern = s.intern
        /\ turned.waitHandler = s.waitHandler /\ turned.stopHandler = s.stopHandler
        /\ turned.owed = s.owed /\ turned.waitError = s.waitError
    BY DEF Working, Session
  <2> HIDE DEF turned
  <2> QED BY <2>1, <2>2 DEF Working, Counted, Own, Answers, Unseen
<1>2. CASE ~NeedsTimer(s)
  <2>1. Unseen(s, s)
    BY DEF Unseen
  <2> QED BY <1>2, <2>1, WorkingSettled, UnseenMoves DEF ContinueTimerWait
<1>3. CASE NeedsTimer(s) /\ "expires" \in fault
  <2>1. /\ Settled(StartStop(s, "error", fault), stopping)
        /\ Moves(s, StartStop(s, "error", fault), {"error"})
        /\ s.read = "in_progress" => StartStop(s, "error", fault).read = "in_progress"
    BY StopStarted DEF Error
  <2> QED BY <1>3, <2>1 DEF ContinueTimerWait
<1>4. CASE NeedsTimer(s) /\ "expires" \notin fault
  <2>1. ContinueTimerWait(s, fault) =
          IF s.timer = "ready" THEN StartTimerWait(turned) ELSE turned
    BY <1>4 DEF ContinueTimerWait
  <2> HIDE DEF turned
  <2>2. s.timer = "ready" =>
          /\ Working(StartTimerWait(turned), stopping)
          /\ Unseen(turned, StartTimerWait(turned))
          /\ StartTimerWait(turned).read = turned.read
    BY <1>1, TimerStarted
  <2>3. s.timer = "ready" => Unseen(s, StartTimerWait(turned))
    BY <1>1, <2>2 DEF Unseen
  <2> QED BY <1>1, <2>1, <2>2, <2>3, WorkingSettled, UnseenMoves
<1> QED BY <1>2, <1>3, <1>4

LEMMA TimerMaybeContinued ==
  ASSUME NEW s, NEW stopping \in BOOLEAN, Working(s, stopping),
         NEW restart \in BOOLEAN, NEW fault
  PROVE  /\ Settled(MaybeTimer(s, restart, fault), stopping)
         /\ Moves(s, MaybeTimer(s, restart, fault), {"error"})
<1>1. CASE restart BY <1>1, TimerContinued DEF MaybeTimer
<1>2. CASE ~restart
  <2>1. Unseen(s, s)
    BY DEF Unseen
  <2> QED BY <1>2, <2>1, WorkingSettled, UnseenMoves DEF MaybeTimer
<1> QED BY <1>1, <1>2

(***************************************************************************)
(* A transfer is started on the first cells of its side of the buffer.     *)
(***************************************************************************)
LEMMA Offered ==
  ASSUME NEW b \in Buffer, NEW max \in Nat \ {0}
  PROVE  /\ Prepared(b, max) \in Segments /\ Data(b, max) \in Segments
         /\ Prepared(b, max) # <<>> => ReadOwns(b, Prepared(b, max))
         /\ Data(b, max) # <<>> => WriteOwns(b, Data(b, max))
<1> DEFINE room == Smaller(b.nonfilledSize, max)
           data == Smaller(b.filledSize, max)
<1>1. /\ b.nonfilledStart \in Cell /\ b.filledStart \in Cell
      /\ b.nonfilledSize \in 0 .. BufferSize /\ b.filledSize \in 0 .. BufferSize
  BY DEF Buffer
<1>2. /\ room \in 0 .. BufferSize /\ room <= b.nonfilledSize /\ room \in Nat
      /\ data \in 0 .. BufferSize /\ data <= b.filledSize /\ data \in Nat
  BY <1>1, BufferSizeAssumption DEF Smaller
<1>3. Prepared(b, max) = Blocks(b.nonfilledStart, room)
  BY DEF Prepared
<1>4. Data(b, max) = Blocks(b.filledStart, data)
  BY DEF Data
<1> HIDE DEF room, data
<1>5. Prepared(b, room) = Blocks(b.nonfilledStart, room)
  BY <1>2, OfferedBlocks
<1>6. Data(b, data) = Blocks(b.filledStart, data)
  BY <1>2, OfferedBlocks
<1>7. Prepared(b, max) \in Segments /\ Data(b, max) \in Segments
  BY <1>1, <1>2, <1>3, <1>4, BlocksTyped
<1>8. /\ TotalLen(Prepared(b, max)) = room /\ TotalLen(Data(b, max)) = data
      /\ Prepared(b, max) = <<>> <=> room = 0
      /\ Data(b, max) = <<>> <=> data = 0
  BY <1>1, <1>2, <1>3, <1>4, BlocksLength
<1>9. ASSUME Prepared(b, max) # <<>> PROVE ReadOwns(b, Prepared(b, max))
  <2>1. room \in 1 .. b.nonfilledSize
    BY <1>1, <1>2, <1>8, <1>9
  <2> QED BY <2>1, <1>3, <1>5, <1>8 DEF ReadOwns
<1>10. ASSUME Data(b, max) # <<>> PROVE WriteOwns(b, Data(b, max))
  <2>1. data \in 1 .. b.filledSize
    BY <1>1, <1>2, <1>8, <1>10
  <2> QED BY <2>1, <1>4, <1>6, <1>8 DEF WriteOwns
<1> QED BY <1>7, <1>9, <1>10

LEMMA RoomAtFirst ==
  ASSUME NEW max \in Nat \ {0}
  PROVE  Prepared(EmptyBuffer, max) # <<>>
<1>1. Smaller(BufferSize, max) \in 1 .. BufferSize /\ 0 \in Cell
  BY BufferSizeAssumption DEF Smaller, Cell
<1>2. Prepared(EmptyBuffer, max) = Blocks(0, Smaller(BufferSize, max))
  BY DEF Prepared, EmptyBuffer
<1> QED BY <1>1, <1>2, BlocksLength, BufferSizeAssumption

LEMMA ReadStarted ==
  ASSUME NEW s, NEW stopping \in BOOLEAN, Working(s, stopping),
         NEW max \in Nat \ {0}
  PROVE  /\ Working(ReadMore(s, max), stopping) /\ Unseen(s, ReadMore(s, max))
         /\ s.read = "wait" /\ s.buffer = EmptyBuffer =>
              ReadMore(s, max).read = "in_progress"
<1> DEFINE segs == Prepared(s.buffer, max)
           t == StartSocketRead(s, segs)
<1>1. CASE s.read = "wait" /\ segs # <<>>
  <2>1. ReadMore(s, max) = t
    BY <1>1 DEF ReadMore
  <2>2. /\ s \in Session /\ s.buffer \in Buffer
        /\ s.pending \in Nat /\ s.pending + 1 \in Nat
    BY DEF Working, Session
  <2>3. segs \in Segments /\ ReadOwns(s.buffer, segs)
    BY <1>1, <2>2, Offered
  <2> HIDE DEF segs
  <2>4. t = [s EXCEPT !.readOp = segs, !.read = "in_progress",
                      !.pending = s.pending + 1]
    BY DEF StartSocketRead
  <2> HIDE DEF t
  <2>5. "in_progress" \in Activity
    BY DEF Activity
  <2>6. t \in Session
    BY <2>2, <2>3, <2>4, <2>5 DEF Session
  <2>7. /\ t.read = "in_progress" /\ t.write = s.write /\ t.timer = s.timer
        /\ t.readOp = segs /\ t.writeOp = s.writeOp
        /\ t.pending = s.pending + 1 /\ t.buffer = s.buffer
        /\ t.extern = s.extern /\ t.intern = s.intern
        /\ t.waitHandler = s.waitHandler /\ t.stopHandler = s.stopHandler
        /\ t.owed = s.owed /\ t.waitError = s.waitError
    BY <2>2, <2>4 DEF Session
  <2>8. Counted(t)
    BY <1>1, <2>2, <2>7 DEF Working, Counted, Busy
  <2> QED BY <2>1, <2>3, <2>6, <2>7, <2>8 DEF Working, Own, Answers, Unseen
<1>2. CASE ~(s.read = "wait" /\ segs # <<>>)
  <2>1. s.buffer = EmptyBuffer => segs # <<>>
    BY RoomAtFirst
  <2> QED BY <1>2, <2>1 DEF ReadMore, Unseen
<1> QED BY <1>1, <1>2

LEMMA WriteStarted ==
  ASSUME NEW s, NEW stopping \in BOOLEAN, Working(s, stopping)
  PROVE  /\ Working(WriteMore(s), stopping) /\ Unseen(s, WriteMore(s))
         /\ WriteMore(s).read = s.read
<1> DEFINE segs == Data(s.buffer, MaxTransfer)
           t == StartSocketWrite(s, segs)
<1>1. CASE s.write = "wait" /\ segs # <<>>
  <2>1. WriteMore(s) = t
    BY <1>1 DEF WriteMore
  <2>2. /\ s \in Session /\ s.buffer \in Buffer
        /\ s.pending \in Nat /\ s.pending + 1 \in Nat
    BY DEF Working, Session
  <2>3. segs \in Segments /\ WriteOwns(s.buffer, segs)
    BY <1>1, <2>2, Offered, EchoSessionAssumption
  <2> HIDE DEF segs
  <2>4. t = [s EXCEPT !.writeOp = segs, !.write = "in_progress",
                      !.pending = s.pending + 1]
    BY DEF StartSocketWrite
  <2> HIDE DEF t
  <2>5. "in_progress" \in Activity
    BY DEF Activity
  <2>6. t \in Session
    BY <2>2, <2>3, <2>4, <2>5 DEF Session
  <2>7. /\ t.read = s.read /\ t.write = "in_progress" /\ t.timer = s.timer
        /\ t.readOp = s.readOp /\ t.writeOp = segs
        /\ t.pending = s.pending + 1 /\ t.buffer = s.buffer
        /\ t.extern = s.extern /\ t.intern = s.intern
        /\ t.waitHandler = s.waitHandler /\ t.stopHandler = s.stopHandler
        /\ t.owed = s.owed /\ t.waitError = s.waitError
    BY <2>2, <2>4 DEF Session
  <2>8. Counted(t)
    BY <1>1, <2>2, <2>7 DEF Working, Counted, Busy
  <2> QED BY <2>1, <2>3, <2>6, <2>7, <2>8 DEF Working, Own, Answers, Unseen
<1>2. CASE ~(s.write = "wait" /\ segs # <<>>)
  BY <1>2 DEF WriteMore, Unseen
<1> QED BY <1>1, <1>2

LEMMA WorkContinued ==
  ASSUME NEW s, NEW stopping \in BOOLEAN, Working(s, stopping), NEW fault
  PROVE  /\ Settled(ContinueWork(s, fault), stopping)
         /\ Moves(s, ContinueWork(s, fault), {"error"})
         /\ s.read = "wait" /\ s.buffer = EmptyBuffer =>
              ContinueWork(s, fault).read = "in_progress"
<1> DEFINE s1 == ReadMore(s, MaxTransfer)
           s2 == WriteMore(s1)
<1>1. /\ Working(s1, stopping) /\ Unseen(s, s1)
      /\ s.read = "wait" /\ s.buffer = EmptyBuffer => s1.read = "in_progress"
  BY ReadStarted, EchoSessionAssumption
<1> HIDE DEF s1
<1>2. Working(s2, stopping) /\ Unseen(s1, s2) /\ s2.read = s1.read
  BY <1>1, WriteStarted
<1> HIDE DEF s2
<1>3. /\ Settled(ContinueTimerWait(s2, fault), stopping)
      /\ Moves(s2, ContinueTimerWait(s2, fault), {"error"})
      /\ s2.read = "in_progress" => ContinueTimerWait(s2, fault).read = "in_progress"
  BY <1>2, TimerContinued
<1>4. Unseen(s, s2)
  BY <1>1, <1>2 DEF Unseen
<1>5. Moves(s, ContinueTimerWait(s2, fault), {"error"})
  BY <1>3, <1>4, MovesOn
<1> QED BY <1>1, <1>2, <1>3, <1>5 DEF ContinueWork, s1, s2

-----------------------------------------------------------------------------
(* The graceful shutdown. *)

LEMMA WritingFinished ==
  ASSUME NEW s, NEW stopping \in BOOLEAN, Working(s, stopping), NEW fault
  PROVE  LET t == FinishWriting(s, fault)
         IN  /\ Working(t, stopping) /\ Unseen(s, t)
             /\ t.read = s.read /\ t.write # "wait"
<1> DEFINE u == ShutdownSocket(s, fault)
           t == FinishWriting(s, fault)
<1>1. CASE s.write = "wait"
  <2>1. s \in Session
    BY DEF Working
  <2>2. /\ u \in Session
        /\ u.read = s.read /\ u.write = s.write /\ u.timer = s.timer
        /\ u.readOp = s.readOp /\ u.writeOp = s.writeOp
        /\ u.pending = s.pending /\ u.buffer = s.buffer
        /\ u.extern = s.extern /\ u.intern = s.intern
        /\ u.waitHandler = s.waitHandler /\ u.stopHandler = s.stopHandler
        /\ u.owed = s.owed /\ u.waitError = s.waitError
    <3>1. CASE ShutdownFails(s, fault)
      BY <2>1, <3>1 DEF ShutdownSocket
    <3>2. CASE ~ShutdownFails(s, fault)
      <4>1. u = [s EXCEPT !.fin = TRUE]
        BY <3>2 DEF ShutdownSocket
      <4> HIDE DEF u
      <4> QED BY <2>1, <4>1, ZenonT(60) DEF Session
    <3> QED BY <3>1, <3>2
  <2>3. t = [u EXCEPT !.write = "stopped"]
    BY <1>1 DEF FinishWriting
  <2> HIDE DEF u, t
  <2>4. "stopped" \in Activity
    BY DEF Activity
  <2>5. t \in Session
    BY <2>2, <2>3, <2>4 DEF Session
  <2>6. /\ t.read = s.read /\ t.write = "stopped" /\ t.timer = s.timer
        /\ t.readOp = s.readOp /\ t.writeOp = s.writeOp
        /\ t.pending = s.pending /\ t.buffer = s.buffer
        /\ t.extern = s.extern /\ t.intern = s.intern
        /\ t.waitHandler = s.waitHandler /\ t.stopHandler = s.stopHandler
        /\ t.owed = s.owed /\ t.waitError = s.waitError
    BY <2>2, <2>3 DEF Session
  <2>7. Counted(t)
    BY <1>1, <2>6 DEF Working, Counted, Busy
  <2>8. Working(t, stopping)
    BY <2>5, <2>6, <2>7 DEF Working, Own, Answers
  <2> QED BY <2>6, <2>8 DEF t, Unseen
<1>2. CASE s.write # "wait"
  BY <1>2 DEF FinishWriting, Unseen
<1> QED BY <1>1, <1>2

(***************************************************************************)
(* Between two operations of the buffer that are both at rest, the buffer  *)
(* may be emptied.                                                         *)
(***************************************************************************)
LEMMA BufferEmptied ==
  ASSUME NEW s, NEW stopping \in BOOLEAN, Working(s, stopping),
         s.read = "wait", s.write = "stopped"
  PROVE  /\ Working([s EXCEPT !.buffer = EmptyBuffer], stopping)
         /\ Unseen(s, [s EXCEPT !.buffer = EmptyBuffer])
<1> DEFINE t == [s EXCEPT !.buffer = EmptyBuffer]
<1>1. t \in Session
  BY EmptyComplementary DEF Working, Session
<1>2. /\ t.read = s.read /\ t.write = s.write /\ t.timer = s.timer
      /\ t.readOp = s.readOp /\ t.writeOp = s.writeOp
      /\ t.pending = s.pending /\ t.buffer = EmptyBuffer
      /\ t.extern = s.extern /\ t.intern = s.intern
      /\ t.waitHandler = s.waitHandler /\ t.stopHandler = s.stopHandler
      /\ t.owed = s.owed /\ t.waitError = s.waitError
  BY DEF Working, Session
<1> HIDE DEF t
<1>3. Working(t, stopping)
  BY <1>1, <1>2, EmptyComplementary DEF Working, Counted, Own, Answers
<1>4. Unseen(s, t)
  BY <1>2 DEF Unseen
<1> QED BY <1>3, <1>4 DEF t

LEMMA MovesAnyCause ==
  ASSUME NEW s, NEW t, NEW some, NEW causes,
         Moves(s, t, some), s.intern # "work"
  PROVE  Moves(s, t, causes)
BY DEF Moves, Leaves

LEMMA ShutdownContinued ==
  ASSUME NEW s, NEW stopping \in BOOLEAN, Working(s, stopping),
         s.intern = "shutdown", NEW restart \in BOOLEAN, NEW fault, NEW causes
  PROVE  /\ Settled(ContinueShutdown(s, restart, fault), stopping)
         /\ Moves(s, ContinueShutdown(s, restart, fault), causes)
<1> DEFINE Lands(t) == Settled(t, stopping) /\ Moves(s, t, causes)
<1>1. \A u : \A error \in Error :
        Working(u, stopping) /\ u.intern = "shutdown"
          => /\ Settled(StartStop(u, error, fault), stopping)
             /\ Moves(u, StartStop(u, error, fault), {error})
  BY StopStarted, Zenon
<1>2. "error" \in Error /\ "none" \in Error
  BY DEF Error
<1>3. ASSUME NEW u, Working(u, stopping), Unseen(s, u)
      PROVE  /\ \A error \in Error : Lands(StartStop(u, error, fault))
             /\ Lands(MaybeTimer(u, restart, fault))
  <2>1. u.intern = "shutdown"
    BY <1>3 DEF Unseen
  <2>2. ASSUME NEW error \in Error PROVE Lands(StartStop(u, error, fault))
    <3>1. /\ Settled(StartStop(u, error, fault), stopping)
          /\ Moves(u, StartStop(u, error, fault), {error})
      BY <1>1, <1>3, <2>1
    <3>2. Moves(s, StartStop(u, error, fault), {error})
      BY <1>3, <3>1, MovesOn
    <3> QED BY <3>1, <3>2, MovesAnyCause
  <2>3. Lands(MaybeTimer(u, restart, fault))
    <3>1. /\ Settled(MaybeTimer(u, restart, fault), stopping)
          /\ Moves(u, MaybeTimer(u, restart, fault), {"error"})
      BY <1>3, TimerMaybeContinued
    <3>2. Moves(s, MaybeTimer(u, restart, fault), {"error"})
      BY <1>3, <3>1, MovesOn
    <3> QED BY <3>1, <3>2, MovesAnyCause
  <2> QED BY <2>2, <2>3
<1>4. Unseen(s, s)
  BY DEF Unseen
<1> HIDE DEF Lands
<1>5. Lands(StartStop(s, "error", fault))
  BY <1>2, <1>3, <1>4
<1> DEFINE s1 == FinishWriting(s, fault)
<1>6. /\ Working(s1, stopping) /\ Unseen(s, s1)
      /\ s1.read = s.read /\ s1.write # "wait"
  BY WritingFinished
<1>7. Lands(ContinueShutdown(s, restart, fault))
  <2>1. CASE s.read = "wait"
    <3> DEFINE s2 == IF s1.write = "stopped" THEN [s1 EXCEPT !.buffer = EmptyBuffer]
                                             ELSE s1
               s3 == ReadMore(s2, BufferSize)
    <3>1. ContinueShutdown(s, restart, fault) =
            IF s.write = "wait" /\ ShutdownFails(s, fault)
              THEN StartStop(s, "error", fault)
              ELSE MaybeTimer(s3, restart, fault)
      BY <2>1 DEF ContinueShutdown, ContinueShutdownAtReadWait
    <3> HIDE DEF s1
    <3>2. Working(s2, stopping) /\ Unseen(s1, s2)
      <4>1. CASE s1.write = "stopped"
        BY <1>6, <2>1, <4>1, BufferEmptied
      <4>2. CASE s1.write # "stopped"
        BY <1>6, <4>2 DEF Unseen
      <4> QED BY <4>1, <4>2
    <3> HIDE DEF s2
    <3>3. Working(s3, stopping) /\ Unseen(s2, s3)
      BY <3>2, ReadStarted, BufferSizeAssumption
    <3> HIDE DEF s3
    <3>4. Unseen(s, s3)
      BY <1>6, <3>2, <3>3 DEF Unseen
    <3>5. Lands(MaybeTimer(s3, restart, fault))
      BY <1>3, <3>3, <3>4
    <3> QED BY <1>5, <3>1, <3>5
  <2>2. CASE s.read = "in_progress"
    <3>1. ContinueShutdown(s, restart, fault) =
            IF s.write = "wait" /\ ShutdownFails(s, fault)
              THEN StartStop(s, "error", fault)
              ELSE MaybeTimer(s1, restart, fault)
      BY <2>2 DEF ContinueShutdown, ContinueShutdownAtReadInProgress
    <3> HIDE DEF s1
    <3>2. Lands(MaybeTimer(s1, restart, fault))
      BY <1>3, <1>6
    <3> QED BY <1>5, <3>1, <3>2
  <2>3. CASE s.read = "stopped"
    <3> DEFINE w  == WriteMore(s)
               s2 == FinishWriting(w, fault)
    <3>1. ContinueShutdown(s, restart, fault) =
            IF s2.write = "stopped" THEN StartStop(s2, "none", fault)
                                    ELSE MaybeTimer(s2, restart, fault)
      BY <2>3 DEF ContinueShutdown, ContinueShutdownAtReadStopped
    <3>2. Working(w, stopping) /\ Unseen(s, w)
      BY WriteStarted
    <3> HIDE DEF w
    <3>3. Working(s2, stopping) /\ Unseen(w, s2)
      BY <3>2, WritingFinished
    <3> HIDE DEF s2
    <3>4. Unseen(s, s2)
      BY <3>2, <3>3 DEF Unseen
    <3>5. Lands(StartStop(s2, "none", fault)) /\ Lands(MaybeTimer(s2, restart, fault))
      BY <1>2, <1>3, <3>3, <3>4
    <3> QED BY <3>1, <3>5
  <2> QED BY <2>1, <2>2, <2>3 DEF Working, Session, Activity
<1> QED BY <1>7 DEF Lands

(***************************************************************************)
(* What start_shutdown is called with: the user may already have asked for *)
(* the stop (do_start_extern_stop), which is then all he sees.             *)
(***************************************************************************)
LEMMA ShutdownStarted ==
  ASSUME NEW s \in Session, NEW stopping \in BOOLEAN,
         Counted(s), Answers(s, stopping), Complementary(s.buffer), Own(s),
         s.intern = "work", s.extern \in {"work", "stop"},
         NEW error \in Error \ {"none"}, NEW restart \in BOOLEAN, NEW fault
  PROVE  LET t == StartShutdown(s, error, restart, fault)
         IN  /\ Settled(t, stopping)
             /\ s.extern = "work" => Moves(s, t, {error})
             /\ t.waitHandler = FALSE \/ t.waitHandler = s.waitHandler
             /\ s.extern = "stop" => t.waitError = s.waitError
<1> DEFINE s1 == [s EXCEPT !.intern = "shutdown"]
           t == IF s.extern = "work" THEN CompleteExternWait(s1, error) ELSE s1
           end == ContinueShutdown(t, restart, fault)
<1>0. StartShutdown(s, error, restart, fault) = end
  BY DEF StartShutdown
<1>1. /\ s1 \in Session /\ s1.intern = "shutdown" /\ s1.socket = s.socket
      /\ s1.read = s.read /\ s1.write = s.write /\ s1.timer = s.timer
      /\ s1.readOp = s.readOp /\ s1.writeOp = s.writeOp
      /\ s1.pending = s.pending /\ s1.buffer = s.buffer /\ s1.extern = s.extern
      /\ s1.waitHandler = s.waitHandler /\ s1.stopHandler = s.stopHandler
      /\ s1.owed = s.owed /\ s1.waitError = s.waitError
  BY DEF Session
<1> HIDE DEF s1
<1>2. CASE s.extern = "work"
  <2> DEFINE u == CompleteExternWait(s1, error)
  <2>1. s1.owed.wait = IF s1.waitHandler THEN 1 ELSE 0
    BY <1>1 DEF Answers
  <2>2. /\ u \in Session /\ u.owed.wait = 0 /\ u.waitHandler = FALSE
        /\ u.waitError = IF s1.waitError = "none" THEN error ELSE s1.waitError
        /\ u.owed.stop = s1.owed.stop /\ u.stopHandler = s1.stopHandler
        /\ u.extern = s1.extern /\ u.intern = s1.intern /\ u.socket = s1.socket
        /\ u.read = s1.read /\ u.write = s1.write /\ u.timer = s1.timer
        /\ u.pending = s1.pending /\ u.buffer = s1.buffer
        /\ u.readOp = s1.readOp /\ u.writeOp = s1.writeOp
    BY <1>1, <2>1, WaitCompleted, Zenon
  <2>3. t = u
    BY <1>2
  <2> HIDE DEF u, t
  <2>4. t.waitError = error
    BY <1>1, <1>2, <2>2, <2>3 DEF Answers
  <2>5. Counted(t) /\ Own(t)
    BY <1>1, <2>2, <2>3 DEF Counted, Own
  <2>6. Answers(t, stopping)
    BY <1>1, <1>2, <2>2, <2>3, <2>4 DEF Answers
  <2>7. Working(t, stopping) /\ t.intern = "shutdown"
    BY <1>1, <2>2, <2>3, <2>5, <2>6 DEF Working
  <2>8. Settled(end, stopping) /\ Moves(t, end, {error})
    BY <2>7, ShutdownContinued
  <2> HIDE DEF end
  <2>9. Moves(s, end, {error}) /\ end.waitHandler = FALSE
    BY <1>1, <1>2, <2>2, <2>3, <2>4, <2>7, <2>8
       DEF Moves, Keeps, Ends, Leaves, Ending
  <2> QED BY <1>0, <1>2, <2>8, <2>9
<1>3. CASE s.extern = "stop"
  <2>1. t = s1
    BY <1>3
  <2> HIDE DEF t
  <2>2. Working(t, stopping) /\ t.intern = "shutdown"
    BY <1>1, <1>3, <2>1 DEF Working, Counted, Own, Answers
  <2>3. Settled(end, stopping) /\ Moves(t, end, {error})
    BY <2>2, ShutdownContinued
  <2> HIDE DEF end
  <2>4. end.waitHandler = s.waitHandler /\ end.waitError = s.waitError
    BY <1>1, <2>1, <2>2, <2>3 DEF Moves, Keeps, Ends, Leaves
  <2> QED BY <1>0, <1>3, <2>3, <2>4
<1> QED BY <1>2, <1>3

-----------------------------------------------------------------------------
(* What the user asks for. *)

LEMMA Started ==
  ASSUME Settled(session, FALSE), session.extern = "ready", NEW fault
  PROVE  LET t == DoStartExternStart(session, fault)
         IN  /\ Settled(t, FALSE)
             /\ \/ t.extern = "work" /\ t.intern = "work" /\ t.waitError = "none"
                \/ t.extern = "work" /\ t.intern \in Ending /\ t.waitError = "error"
                \/ /\ t.extern = "stopped" /\ t.intern = "stopped"
                   /\ t.waitError = "none"
             /\ t.waitHandler = FALSE /\ t.stopHandler = FALSE
<1> DEFINE s == session
           t == [s EXCEPT !.socket = "closed", !.extern = "stopped",
                          !.intern = "stopped", !.read = "stopped",
                          !.write = "stopped", !.timer = "stopped"]
           u == [s EXCEPT !.extern = "work"]
<1>1. /\ s \in Session /\ "stopped" \in Activity
      /\ s.intern = "work" /\ s.read = "wait" /\ s.write = "wait" /\ s.timer = "ready"
      /\ s.buffer = EmptyBuffer /\ s.waitError = "none"
      /\ s.waitHandler = FALSE /\ s.stopHandler = FALSE
  BY DEF Settled, Answers, Activity, Session
<1>2. CASE s.socket = "closed" \/ "options" \in fault
  <2>1. DoStartExternStart(s, fault) = t
    BY <1>2 DEF DoStartExternStart
  <2>2. t \in Session
    BY <1>1 DEF Session
  <2>3. /\ t.socket = "closed" /\ t.extern = "stopped" /\ t.intern = "stopped"
        /\ t.read = "stopped" /\ t.write = "stopped" /\ t.timer = "stopped"
        /\ t.readOp = s.readOp /\ t.writeOp = s.writeOp
        /\ t.pending = s.pending /\ t.buffer = s.buffer
        /\ t.waitHandler = s.waitHandler /\ t.stopHandler = s.stopHandler
        /\ t.owed = s.owed /\ t.waitError = s.waitError
    BY <1>1 DEF Session
  <2> HIDE DEF t
  <2>4. Counted(t) /\ Own(t)
    BY <1>1, <2>3 DEF Settled, Counted, Busy, Own
  <2>5. Answers(t, FALSE)
    BY <1>1, <2>3 DEF Settled, Answers
  <2> QED BY <1>1, <2>1, <2>2, <2>3, <2>4, <2>5 DEF Settled
<1>3. CASE ~(s.socket = "closed" \/ "options" \in fault)
  <2>1. DoStartExternStart(s, fault) = ContinueWork(u, fault)
    BY <1>3 DEF DoStartExternStart
  <2>2. u \in Session
    BY <1>1 DEF Session
  <2>3. /\ u.read = s.read /\ u.write = s.write /\ u.timer = s.timer
        /\ u.readOp = s.readOp /\ u.writeOp = s.writeOp
        /\ u.pending = s.pending /\ u.buffer = s.buffer
        /\ u.extern = "work" /\ u.intern = s.intern
        /\ u.waitHandler = s.waitHandler /\ u.stopHandler = s.stopHandler
        /\ u.owed = s.owed /\ u.waitError = s.waitError
    BY <1>1 DEF Session
  <2> HIDE DEF u
  <2>4. Working(u, FALSE)
    BY <1>1, <2>2, <2>3 DEF Settled, Working, Counted, Own, Answers
  <2> DEFINE v == ContinueWork(u, fault)
  <2>5. Settled(v, FALSE) /\ Moves(u, v, {"error"}) /\ v.read = "in_progress"
    BY <1>1, <2>3, <2>4, WorkContinued
  <2> HIDE DEF v
  <2>6. v.intern # "stopped"
    BY <2>5 DEF Settled
  <2>7. /\ \/ v.extern = "work" /\ v.intern = "work" /\ v.waitError = "none"
           \/ v.extern = "work" /\ v.intern \in Ending /\ v.waitError = "error"
        /\ v.waitHandler = FALSE /\ v.stopHandler = FALSE
    BY <1>1, <2>3, <2>5, <2>6 DEF Moves, Keeps, Ends, Leaves, Ending
  <2> QED BY <2>1, <2>5, <2>7 DEF v
<1> QED BY <1>2, <1>3

(***************************************************************************)
(* The stop handler is parked by a session that has changed its state      *)
(* before: in between it is stopping.                                      *)
(***************************************************************************)
LEMMA StopAnsweredOrParked ==
  ASSUME NEW s, Settled(s, TRUE), s.extern # "ready"
  PROVE  LET t == IF s.intern = "stopped"
                    THEN [s EXCEPT !.extern = "stopped"]
                    ELSE [s EXCEPT !.stopHandler = TRUE, !.owed.stop = @ + 1]
         IN  /\ Settled(t, FALSE)
             /\ t.waitError = s.waitError /\ t.waitHandler = s.waitHandler
             /\ t.intern = s.intern
             /\ IF s.intern = "stopped"
                  THEN t.extern = "stopped" /\ t.stopHandler = FALSE
                  ELSE t.extern = "stop" /\ t.stopHandler = TRUE
                                        /\ s.intern \in Ending
<1>1. s \in Session
  BY DEF Settled
<1>2. CASE s.intern = "stopped"
  <2> DEFINE t == [s EXCEPT !.extern = "stopped"]
  <2>1. t \in Session
    BY <1>1 DEF Session
  <2>2. /\ t.extern = "stopped" /\ t.intern = s.intern /\ t.socket = s.socket
        /\ t.read = s.read /\ t.write = s.write /\ t.timer = s.timer
        /\ t.readOp = s.readOp /\ t.writeOp = s.writeOp
        /\ t.pending = s.pending /\ t.buffer = s.buffer
        /\ t.waitHandler = s.waitHandler /\ t.stopHandler = s.stopHandler
        /\ t.owed = s.owed /\ t.waitError = s.waitError
    BY <1>1 DEF Session
  <2> HIDE DEF t
  <2>3. Settled(t, FALSE)
    BY <1>2, <2>1, <2>2 DEF Settled, Counted, Own, Answers
  <2>4. t.stopHandler = FALSE
    BY <1>1, <2>2 DEF Settled, Answers, Session
  <2> QED BY <1>2, <2>2, <2>3, <2>4 DEF t
<1>3. CASE s.intern # "stopped"
  <2> DEFINE t == [s EXCEPT !.stopHandler = TRUE, !.owed.stop = @ + 1]
  <2>1. s.extern = "stop" /\ s.owed.stop = 0
    BY <1>3 DEF Settled, Answers
  <2>2. t = [s EXCEPT !.stopHandler = TRUE, !.owed.stop = 1]
    BY <1>1, <2>1
  <2> DEFINE owed == [s.owed EXCEPT !.stop = 1]
  <2> HIDE DEF t
  <2>9. t = [s EXCEPT !.stopHandler = TRUE, !.owed = owed]
    BY <2>2
  <2>10. s.owed \in [wait : Nat, stop : Nat]
    BY <1>1 DEF Session
  <2>11. /\ owed \in [wait : Nat, stop : Nat]
         /\ owed.stop = 1 /\ owed.wait = s.owed.wait
    BY <2>10
  <2> HIDE DEF owed
  <2>3. t \in Session
    BY <1>1, <2>9, <2>11 DEF Session
  <2>4. t.owed.stop = 1 /\ t.owed.wait = s.owed.wait
    <3>1. t.owed = owed
      BY <1>1, <2>9 DEF Session
    <3> QED BY <2>11, <3>1
  <2>5. /\ t.extern = "stop" /\ t.intern = s.intern /\ t.socket = s.socket
        /\ t.read = s.read /\ t.write = s.write /\ t.timer = s.timer
        /\ t.readOp = s.readOp /\ t.writeOp = s.writeOp
        /\ t.pending = s.pending /\ t.buffer = s.buffer
        /\ t.waitHandler = s.waitHandler /\ t.stopHandler = TRUE
        /\ t.waitError = s.waitError
    BY <1>1, <2>1, <2>9 DEF Session
  <2>6. Settled(t, FALSE)
    BY <1>3, <2>1, <2>3, <2>4, <2>5 DEF Settled, Counted, Own, Answers
  <2>7. s.intern \in Ending
    BY <2>1 DEF Settled, Ending
  <2> QED BY <1>3, <2>5, <2>6, <2>7 DEF t
<1> QED BY <1>2, <1>3

LEMMA Stopped ==
  ASSUME Settled(session, FALSE), session.extern = "work", NEW fault
  PROVE  LET t == DoStartExternStop(session, fault)
         IN  /\ Settled(t, FALSE)
             /\ t.waitError = IF session.waitError = "none" THEN "operation_aborted"
                                                            ELSE session.waitError
             /\ t.waitHandler = FALSE
             /\ \/ /\ t.extern = "stopped" /\ t.intern = "stopped"
                   /\ t.stopHandler = FALSE /\ session.intern \notin Ending
                \/ /\ t.extern = "stop" /\ t.intern \in Ending
                   /\ t.stopHandler = TRUE /\ session.intern # "stopped"
<1> DEFINE s0 == [session EXCEPT !.extern = "stop"]
           s1 == CompleteExternWait(s0, "operation_aborted")
           s2 == IF s1.intern = "work"
                   THEN StartShutdown(s1, "operation_aborted", FALSE, fault)
                   ELSE s1
<1>0. DoStartExternStop(session, fault) =
        IF s2.intern = "stopped"
          THEN [s2 EXCEPT !.extern = "stopped"]
          ELSE [s2 EXCEPT !.stopHandler = TRUE, !.owed.stop = @ + 1]
  BY DEF DoStartExternStop
<1>1. session \in Session
  BY DEF Settled
<1>2. /\ s0 \in Session /\ s0.extern = "stop"
      /\ s0.intern = session.intern /\ s0.socket = session.socket
      /\ s0.read = session.read /\ s0.write = session.write
      /\ s0.timer = session.timer
      /\ s0.readOp = session.readOp /\ s0.writeOp = session.writeOp
      /\ s0.pending = session.pending /\ s0.buffer = session.buffer
      /\ s0.waitHandler = session.waitHandler
      /\ s0.stopHandler = session.stopHandler
      /\ s0.owed = session.owed /\ s0.waitError = session.waitError
  BY <1>1 DEF Session
<1> HIDE DEF s0
<1>3. s0.owed.wait = (IF s0.waitHandler THEN 1 ELSE 0) /\ "operation_aborted" \in Error
  BY <1>2 DEF Settled, Answers, Error
<1>4. /\ s1 \in Session /\ s1.owed.wait = 0 /\ s1.waitHandler = FALSE
      /\ s1.waitError = IF s0.waitError = "none" THEN "operation_aborted"
                                                 ELSE s0.waitError
      /\ s1.owed.stop = s0.owed.stop /\ s1.stopHandler = s0.stopHandler
      /\ s1.extern = s0.extern /\ s1.intern = s0.intern /\ s1.socket = s0.socket
      /\ s1.read = s0.read /\ s1.write = s0.write /\ s1.timer = s0.timer
      /\ s1.pending = s0.pending /\ s1.buffer = s0.buffer
      /\ s1.readOp = s0.readOp /\ s1.writeOp = s0.writeOp
  BY <1>2, <1>3, WaitCompleted, Zenon
<1> HIDE DEF s1
<1>5. Answers(s1, TRUE) /\ Counted(s1) /\ Complementary(s1.buffer)
  BY <1>2, <1>4 DEF Settled, Answers, Counted
<1>6. s1.intern # "stop" => Own(s1)
  BY <1>2, <1>4 DEF Settled, Own
<1>7. CASE s1.intern = "work"
  <2> DEFINE u == StartShutdown(s1, "operation_aborted", FALSE, fault)
  <2>1. /\ Settled(u, TRUE)
        /\ u.waitHandler = FALSE \/ u.waitHandler = s1.waitHandler
        /\ u.waitError = s1.waitError
    <3>1. /\ s1 \in Session /\ Own(s1) /\ s1.extern = "stop"
          /\ s1.extern \in {"work", "stop"}
          /\ "operation_aborted" \in Error \ {"none"}
          /\ TRUE \in BOOLEAN /\ FALSE \in BOOLEAN
      BY <1>2, <1>4, <1>6, <1>7 DEF Error
    <3>2. Settled(u, TRUE)
      BY <1>5, <1>7, <3>1, ShutdownStarted, Zenon
    <3>3. u.waitHandler = FALSE \/ u.waitHandler = s1.waitHandler
      BY <1>5, <1>7, <3>1, ShutdownStarted, ZenonT(60)
    <3>4. u.waitError = s1.waitError
      BY <1>5, <1>7, <3>1, ShutdownStarted, ZenonT(60)
    <3> QED BY <3>2, <3>3, <3>4, Zenon
  <2>2. /\ Settled(s2, TRUE) /\ s2.waitHandler = FALSE
        /\ s2.waitError = s1.waitError
    BY <1>4, <1>7, <2>1
  <2> HIDE DEF s2
  <2>3. s2.extern # "ready"
    BY <2>2 DEF Settled, Answers
  <2> DEFINE t == IF s2.intern = "stopped"
                    THEN [s2 EXCEPT !.extern = "stopped"]
                    ELSE [s2 EXCEPT !.stopHandler = TRUE, !.owed.stop = @ + 1]
  <2>4. /\ Settled(t, FALSE)
        /\ t.waitError = s2.waitError /\ t.waitHandler = s2.waitHandler
        /\ t.intern = s2.intern
        /\ IF s2.intern = "stopped"
             THEN t.extern = "stopped" /\ t.stopHandler = FALSE
             ELSE t.extern = "stop" /\ t.stopHandler = TRUE /\ s2.intern \in Ending
    BY <2>2, <2>3, StopAnsweredOrParked, Zenon
  <2>5. DoStartExternStop(session, fault) = t
    BY <1>0
  <2> HIDE DEF t
  <2>6. session.intern = "work"
    BY <1>2, <1>4, <1>7
  <2> QED BY <1>2, <1>4, <2>2, <2>4, <2>5, <2>6 DEF Ending
<1>8. CASE s1.intern # "work"
  <2>1. s1 = s2
    BY <1>8
  <2> HIDE DEF s2
  <2>2. CASE s1.intern = "stopped"
    <3> DEFINE t == [s1 EXCEPT !.extern = "stopped"]
    <3>1. DoStartExternStop(session, fault) = t
      BY <1>0, <2>1, <2>2
    <3>2. t \in Session
      BY <1>4 DEF Session
    <3>3. /\ t.extern = "stopped" /\ t.intern = s1.intern /\ t.socket = s1.socket
          /\ t.read = s1.read /\ t.write = s1.write /\ t.timer = s1.timer
          /\ t.readOp = s1.readOp /\ t.writeOp = s1.writeOp
          /\ t.pending = s1.pending /\ t.buffer = s1.buffer
          /\ t.waitHandler = s1.waitHandler /\ t.stopHandler = s1.stopHandler
          /\ t.owed = s1.owed /\ t.waitError = s1.waitError
      BY <1>4 DEF Session
    <3> HIDE DEF t
    <3>4. Counted(t) /\ Own(t)
      BY <1>5, <1>6, <2>2, <3>3 DEF Counted, Own
    <3>5. Answers(t, FALSE)
      BY <1>4, <1>5, <2>2, <3>3 DEF Answers
    <3>6. t.read = "stopped" /\ t.write = "stopped" /\ t.timer = "stopped"
                           /\ t.socket = "closed"
      BY <1>2, <1>4, <2>2, <3>3 DEF Settled
    <3>7. Settled(t, FALSE)
      BY <1>5, <2>2, <3>2, <3>3, <3>4, <3>5, <3>6 DEF Settled
    <3>8. /\ t.waitError = IF session.waitError = "none" THEN "operation_aborted"
                                                         ELSE session.waitError
          /\ t.waitHandler = FALSE /\ t.stopHandler = FALSE
          /\ session.intern \notin Ending
      BY <1>1, <1>2, <1>4, <1>5, <2>2, <3>3 DEF Answers, Ending, Session
    <3> QED BY <2>2, <3>1, <3>3, <3>7, <3>8
  <2>3. CASE s1.intern # "stopped"
    <3>1. s1.intern \in {"shutdown", "stop"} /\ s1.extern = "stop"
      BY <1>2, <1>4, <1>8, <2>3 DEF Session
    <3>2. s1.intern = "stop" =>
            /\ s1.pending > 0 /\ s1.read # "wait" /\ s1.write # "wait"
            /\ s1.timer # "ready" /\ s1.socket = "closed"
      BY <1>2, <1>4 DEF Settled
    <3>3. Settled(s1, TRUE)
      BY <1>4, <1>5, <1>6, <3>1, <3>2 DEF Settled
    <3> DEFINE t == [s1 EXCEPT !.stopHandler = TRUE, !.owed.stop = @ + 1]
               v == IF s1.intern = "stopped" THEN [s1 EXCEPT !.extern = "stopped"]
                                             ELSE t
    <3>4. /\ Settled(v, FALSE)
          /\ v.waitError = s1.waitError /\ v.waitHandler = s1.waitHandler
          /\ v.intern = s1.intern
          /\ IF s1.intern = "stopped"
               THEN v.extern = "stopped" /\ v.stopHandler = FALSE
               ELSE v.extern = "stop" /\ v.stopHandler = TRUE /\ s1.intern \in Ending
      BY <3>1, <3>3, StopAnsweredOrParked
    <3>5. v = t /\ DoStartExternStop(session, fault) = t
      BY <1>0, <2>1, <2>3
    <3> HIDE DEF t, v
    <3>6. session.intern # "stopped"
      BY <1>2, <1>4, <2>3
    <3> QED BY <1>2, <1>4, <2>3, <3>4, <3>5, <3>6
  <2> QED BY <2>2, <2>3
<1> QED BY <1>7, <1>8

LEMMA WaitParked ==
  ASSUME Settled(session, FALSE), CanParkWait(session)
  PROVE  Settled(DoStartExternWait(session), FALSE)
<1> DEFINE s == session
           t == DoStartExternWait(s)
<1>1. /\ s \in Session /\ s.owed.wait = 0 /\ s.extern = "work" /\ s.intern = "work"
  BY DEF Settled, Answers, CanParkWait
<1>2. t = [s EXCEPT !.waitHandler = TRUE, !.owed.wait = 1]
  BY <1>1 DEF DoStartExternWait
<1> HIDE DEF t
<1>3. t \in Session
  BY <1>1, <1>2, 1 \in Nat DEF Session
<1>4. t.owed.wait = 1 /\ t.owed.stop = s.owed.stop
  BY <1>1, <1>2 DEF Session
<1>5. /\ t.read = s.read /\ t.write = s.write /\ t.timer = s.timer
      /\ t.readOp = s.readOp /\ t.writeOp = s.writeOp
      /\ t.pending = s.pending /\ t.buffer = s.buffer
      /\ t.extern = "work" /\ t.intern = "work"
      /\ t.waitHandler = TRUE /\ t.stopHandler = s.stopHandler
      /\ t.waitError = s.waitError
  BY <1>1, <1>2 DEF Session
<1>6. Settled(t, FALSE)
  BY <1>1, <1>3, <1>4, <1>5 DEF Settled, Counted, Own, Answers
<1> QED BY <1>6 DEF t

LEMMA WasReset ==
  ASSUME Settled(session, FALSE), session.extern \in {"ready", "stopped"}
  PROVE  Settled(DoReset(session), FALSE)
<1> DEFINE s == session
           t == DoReset(s)
           zeros == [c \in Cell |-> 0]
<1>1. s \in Session
  BY DEF Settled
<1>2. t = [s EXCEPT !.extern = "ready", !.intern = "work",
            !.read = "wait", !.write = "wait", !.timer = "ready",
            !.timerWaitCancelled = FALSE, !.timerTurned = FALSE,
            !.pending = 0, !.socket = "closed", !.fin = FALSE,
            !.buffer = EmptyBuffer, !.waitError = "none",
            !.cells = zeros, !.received = 0, !.echoed = 0,
            !.inOrder = TRUE, !.quiet = TRUE]
  BY DEF DoReset
<1>3. /\ zeros \in [Cell -> Nat] /\ EmptyBuffer \in Buffer /\ 0 \in Nat
      /\ "wait" \in Activity /\ "none" \in Error
  BY EmptyComplementary DEF Activity, Error
<1> HIDE DEF t, zeros
<1>4. t \in Session
  <2> DEFINE u == [s EXCEPT !.extern = "ready", !.intern = "work",
                     !.read = "wait", !.write = "wait", !.timer = "ready",
                     !.timerWaitCancelled = FALSE, !.timerTurned = FALSE]
  <2>1. u \in Session
    BY <1>1, <1>3 DEF Session
  <2> DEFINE w == [u EXCEPT !.pending = 0, !.socket = "closed", !.fin = FALSE,
                            !.buffer = EmptyBuffer]
  <2>2. t = [w EXCEPT !.waitError = "none", !.cells = zeros, !.received = 0,
                      !.echoed = 0, !.inOrder = TRUE, !.quiet = TRUE]
    BY <1>2
  <2> HIDE DEF u
  <2>3. w \in Session
    BY <1>3, <2>1 DEF Session
  <2> HIDE DEF w
  <2> QED BY <1>3, <2>2, <2>3 DEF Session
<1>5. /\ t.read = "wait" /\ t.write = "wait" /\ t.timer = "ready"
      /\ t.readOp = s.readOp /\ t.writeOp = s.writeOp
      /\ t.pending = 0 /\ t.buffer = EmptyBuffer /\ t.waitError = "none"
      /\ t.extern = "ready" /\ t.intern = "work"
      /\ t.waitHandler = s.waitHandler /\ t.stopHandler = s.stopHandler
      /\ t.owed = s.owed
  <2>1. /\ t.read = "wait" /\ t.write = "wait" /\ t.timer = "ready"
        /\ t.pending = 0 /\ t.buffer = EmptyBuffer /\ t.waitError = "none"
        /\ t.extern = "ready" /\ t.intern = "work"
    BY <1>1, <1>2 DEF Session
  <2>2. /\ t.readOp = s.readOp /\ t.writeOp = s.writeOp
        /\ t.waitHandler = s.waitHandler /\ t.stopHandler = s.stopHandler
        /\ t.owed = s.owed
    BY <1>1, <1>2, ZenonT(60) DEF Session
  <2> QED BY <2>1, <2>2
<1>6. s.readOp = <<>> /\ s.writeOp = <<>>
  BY DEF Settled, Counted
<1>7. Counted(t) /\ Own(t) /\ Complementary(t.buffer)
  BY <1>5, <1>6, EmptyComplementary DEF Counted, Busy, Own
<1>8. Answers(t, FALSE)
  BY <1>5 DEF Settled, Answers
<1>9. Settled(t, FALSE)
  BY <1>4, <1>5, <1>7, <1>8 DEF Settled
<1> QED BY <1>9 DEF t

-----------------------------------------------------------------------------
(* Completions. *)

(***************************************************************************)
(* An operation in flight completes in a session that is at work, shutting *)
(* down or stopping.                                                       *)
(***************************************************************************)
LEMMA InFlight ==
  ASSUME Settled(session, FALSE),
         "in_progress" \in {session.read, session.write, session.timer}
  PROVE  /\ session.intern \in {"work", "shutdown"} => Working(session, FALSE)
         /\ session.intern # "stopped"
         /\ session.intern = "stop" => session.extern \in {"work", "stop"}
BY DEF Settled, Working, Session

LEMMA ReadWasCompleted ==
  ASSUME NEW s \in Session, Counted(s), s.read = "in_progress"
  PROVE  LET t == ReadCompleted(s)
         IN  /\ t \in Session /\ Counted(t)
             /\ t.read = "wait" /\ t.write = s.write /\ t.timer = s.timer
             /\ t.writeOp = s.writeOp /\ t.buffer = s.buffer
             /\ t.extern = s.extern /\ t.intern = s.intern /\ t.socket = s.socket
             /\ t.waitHandler = s.waitHandler /\ t.stopHandler = s.stopHandler
             /\ t.owed = s.owed /\ t.waitError = s.waitError
<1> DEFINE t == ReadCompleted(s)
<1>1. /\ s.pending = 1 + Busy(s.write) + Busy(s.timer)
      /\ s.pending - 1 = Busy("wait") + Busy(s.write) + Busy(s.timer)
      /\ s.pending - 1 \in Nat
  BY DEF Counted, Busy
<1>2. t = [s EXCEPT !.pending = s.pending - 1, !.read = "wait", !.readOp = <<>>,
                    !.quiet = FALSE]
  BY DEF ReadCompleted
<1>3. "wait" \in Activity /\ <<>> \in Segments
  BY DEF Activity, Segments
<1> HIDE DEF t
<1>4. t \in Session
  BY <1>1, <1>2, <1>3 DEF Session
<1>5. /\ t.read = "wait" /\ t.write = s.write /\ t.timer = s.timer
      /\ t.readOp = <<>> /\ t.writeOp = s.writeOp /\ t.buffer = s.buffer
      /\ t.pending = s.pending - 1
      /\ t.extern = s.extern /\ t.intern = s.intern /\ t.socket = s.socket
      /\ t.waitHandler = s.waitHandler /\ t.stopHandler = s.stopHandler
      /\ t.owed = s.owed /\ t.waitError = s.waitError
  BY <1>2 DEF Session
<1>6. Counted(t)
  BY <1>1, <1>5 DEF Counted
<1> QED BY <1>4, <1>5, <1>6 DEF t

LEMMA WriteWasCompleted ==
  ASSUME NEW s \in Session, Counted(s), s.write = "in_progress"
  PROVE  LET t == WriteCompleted(s)
         IN  /\ t \in Session /\ Counted(t)
             /\ t.read = s.read /\ t.write = "wait" /\ t.timer = s.timer
             /\ t.readOp = s.readOp /\ t.buffer = s.buffer
             /\ t.extern = s.extern /\ t.intern = s.intern /\ t.socket = s.socket
             /\ t.waitHandler = s.waitHandler /\ t.stopHandler = s.stopHandler
             /\ t.owed = s.owed /\ t.waitError = s.waitError
<1> DEFINE t == WriteCompleted(s)
<1>1. /\ s.pending = Busy(s.read) + 1 + Busy(s.timer)
      /\ s.pending - 1 = Busy(s.read) + Busy("wait") + Busy(s.timer)
      /\ s.pending - 1 \in Nat
  BY DEF Counted, Busy
<1>2. t = [s EXCEPT !.pending = s.pending - 1, !.write = "wait", !.writeOp = <<>>,
                    !.quiet = FALSE]
  BY DEF WriteCompleted
<1>3. "wait" \in Activity /\ <<>> \in Segments
  BY DEF Activity, Segments
<1> HIDE DEF t
<1>4. t \in Session
  BY <1>1, <1>2, <1>3 DEF Session
<1>5. /\ t.read = s.read /\ t.write = "wait" /\ t.timer = s.timer
      /\ t.readOp = s.readOp /\ t.writeOp = <<>> /\ t.buffer = s.buffer
      /\ t.pending = s.pending - 1
      /\ t.extern = s.extern /\ t.intern = s.intern /\ t.socket = s.socket
      /\ t.waitHandler = s.waitHandler /\ t.stopHandler = s.stopHandler
      /\ t.owed = s.owed /\ t.waitError = s.waitError
  BY <1>2 DEF Session
<1>6. Counted(t)
  BY <1>1, <1>5 DEF Counted
<1> QED BY <1>4, <1>5, <1>6 DEF t

LEMMA TimerWasCompleted ==
  ASSUME NEW s \in Session, Counted(s), s.timer = "in_progress"
  PROVE  LET t == TimerCompleted(s)
         IN  /\ t \in Session /\ Counted(t)
             /\ t.read = s.read /\ t.write = s.write /\ t.timer = "ready"
             /\ t.readOp = s.readOp /\ t.writeOp = s.writeOp /\ t.buffer = s.buffer
             /\ t.extern = s.extern /\ t.intern = s.intern /\ t.socket = s.socket
             /\ t.waitHandler = s.waitHandler /\ t.stopHandler = s.stopHandler
             /\ t.owed = s.owed /\ t.waitError = s.waitError
<1> DEFINE t == TimerCompleted(s)
<1>1. /\ s.pending = Busy(s.read) + Busy(s.write) + 1
      /\ s.pending - 1 = Busy(s.read) + Busy(s.write) + Busy("ready")
      /\ s.pending - 1 \in Nat
  BY DEF Counted, Busy
<1>2. t = [s EXCEPT !.pending = s.pending - 1, !.timer = "ready"]
  BY DEF TimerCompleted
<1> HIDE DEF t
<1>4. t \in Session
  BY <1>1, <1>2 DEF Session
<1>5. /\ t.read = s.read /\ t.write = s.write /\ t.timer = "ready"
      /\ t.readOp = s.readOp /\ t.writeOp = s.writeOp /\ t.buffer = s.buffer
      /\ t.pending = s.pending - 1
      /\ t.extern = s.extern /\ t.intern = s.intern /\ t.socket = s.socket
      /\ t.waitHandler = s.waitHandler /\ t.stopHandler = s.stopHandler
      /\ t.owed = s.owed /\ t.waitError = s.waitError
  BY <1>2 DEF Session
<1>6. Counted(t)
  BY <1>1, <1>5 DEF Counted
<1> QED BY <1>4, <1>5, <1>6 DEF t

(***************************************************************************)
(* Cancelling the timer and moving bytes leave a session in the middle of  *)
(* its work, and an activity that was found at its end may be stopped.     *)
(***************************************************************************)
LEMMA TimerCancelled ==
  ASSUME NEW s, NEW stopping \in BOOLEAN, Working(s, stopping), NEW call, NEW fault,
         NEW u, u = CancelTimerWait(s, call, fault)
  PROVE  /\ Working(u, stopping) /\ Unseen(s, u)
         /\ u.read = s.read /\ u.write = s.write /\ u.timer = s.timer
         /\ u.buffer = s.buffer
<1> DEFINE t == [s EXCEPT !.timerWaitCancelled = TRUE, !.timerTurned = FALSE]
<1>1. t \in Session
  BY DEF Working, Session
<1>2. /\ t.read = s.read /\ t.write = s.write /\ t.timer = s.timer
      /\ t.readOp = s.readOp /\ t.writeOp = s.writeOp
      /\ t.pending = s.pending /\ t.buffer = s.buffer
      /\ t.extern = s.extern /\ t.intern = s.intern
      /\ t.waitHandler = s.waitHandler /\ t.stopHandler = s.stopHandler
      /\ t.owed = s.owed /\ t.waitError = s.waitError
  BY DEF Working, Session
<1>3. u = s \/ u = t
  BY DEF CancelTimerWait
<1> HIDE DEF t
<1>4. Working(t, stopping)
  BY <1>1, <1>2 DEF Working, Counted, Own, Answers
<1>5. Unseen(s, s) /\ Unseen(s, t)
  BY <1>2 DEF Unseen
<1> QED BY <1>2, <1>3, <1>4, <1>5

LEMMA BytesConsumed ==
  ASSUME NEW s, NEW stopping \in BOOLEAN, Working(s, stopping), s.read = "wait",
         NEW segs, NEW n \in 0 .. s.buffer.nonfilledSize
  PROVE  LET t == ConsumeRead(s, segs, n)
         IN  /\ Working(t, stopping) /\ Unseen(s, t)
             /\ t.read = s.read /\ t.write = s.write
<1> DEFINE t == ConsumeRead(s, segs, n)
           v == [j \in 1 .. n |-> s.received + j]
           b == Consume(s.buffer, n)
           mem == Stored(s.cells, segs, n, v)
<1>1. /\ s \in Session /\ s.buffer \in Buffer /\ Complementary(s.buffer)
      /\ s.received \in Nat /\ s.cells \in [Cell -> Nat]
  BY DEF Working, Session
<1>2. /\ s.buffer.filledSize \in Nat /\ s.buffer.filledStart \in Cell
      /\ n \in Nat /\ s.buffer.nonfilledSize \in Nat
  BY <1>1 DEF Buffer
<1>3. b \in Buffer /\ Complementary(b)
  BY <1>1, ConsumeComplementary
<1>4. b.filledStart = s.buffer.filledStart /\ b.filledSize = s.buffer.filledSize + n
  BY <1>1 DEF Consume, Buffer
<1>5. v \in [1 .. n -> Nat] /\ s.received + n \in Nat
  BY <1>1, <1>2
<1> HIDE DEF v
<1>6. mem \in [Cell -> Nat]
  BY <1>1, <1>2, <1>5, StoredTyped
<1>7. t = [s EXCEPT !.buffer = b, !.cells = mem, !.received = s.received + n]
  BY DEF ConsumeRead, v
<1> HIDE DEF b, mem, t
<1>8. t \in Session
  BY <1>1, <1>3, <1>5, <1>6, <1>7 DEF Session
<1>9. /\ t.read = "wait" /\ t.write = s.write /\ t.timer = s.timer
      /\ t.readOp = s.readOp /\ t.writeOp = s.writeOp
      /\ t.pending = s.pending /\ t.buffer = b
      /\ t.extern = s.extern /\ t.intern = s.intern
      /\ t.waitHandler = s.waitHandler /\ t.stopHandler = s.stopHandler
      /\ t.owed = s.owed /\ t.waitError = s.waitError
  BY <1>1, <1>7 DEF Session
<1>10. ASSUME NEW op, WriteOwns(s.buffer, op)
       PROVE  WriteOwns(b, op)
  <2>1. /\ TotalLen(op) \in 1 .. s.buffer.filledSize
        /\ op = Data(s.buffer, TotalLen(op))
    BY <1>10 DEF WriteOwns
  <2>2. TotalLen(op) \in Nat /\ TotalLen(op) \in 1 .. b.filledSize
    BY <1>2, <1>4, <2>1
  <2>3. Data(s.buffer, TotalLen(op)) = Blocks(s.buffer.filledStart, TotalLen(op))
    BY <1>1, <2>1, <2>2, OfferedBlocks
  <2>4. Data(b, TotalLen(op)) = Blocks(b.filledStart, TotalLen(op))
    BY <1>3, <2>2, OfferedBlocks
  <2> QED BY <1>4, <2>1, <2>2, <2>3, <2>4 DEF WriteOwns
<1>11. Own(t)
  BY <1>9, <1>10 DEF Working, Own
<1>12. Working(t, stopping)
  BY <1>3, <1>8, <1>9, <1>11 DEF Working, Counted, Answers
<1> QED BY <1>9, <1>12 DEF t, Unseen

LEMMA BytesCommitted ==
  ASSUME NEW s, NEW stopping \in BOOLEAN, Working(s, stopping), s.write = "wait",
         NEW segs, NEW n \in 0 .. s.buffer.filledSize
  PROVE  LET t == CommitWritten(s, segs, n)
         IN  /\ Working(t, stopping) /\ Unseen(s, t)
             /\ t.read = s.read /\ t.write = s.write
<1> DEFINE t == CommitWritten(s, segs, n)
           b == Commit(s.buffer, n)
           inOrder == s.inOrder /\ \A j \in 1 .. n :
                                     s.cells[CellAt(segs, j)] = s.echoed + j
<1>1. /\ s \in Session /\ s.buffer \in Buffer /\ Complementary(s.buffer)
      /\ s.echoed \in Nat
  BY DEF Working, Session
<1>2. /\ s.buffer.nonfilledSize \in Nat /\ s.buffer.nonfilledStart \in Cell
      /\ n \in Nat /\ s.buffer.filledSize \in Nat
  BY <1>1 DEF Buffer
<1>3. b \in Buffer /\ Complementary(b)
  BY <1>1, CommitComplementary
<1>4. /\ b.nonfilledStart = s.buffer.nonfilledStart
      /\ b.nonfilledSize = s.buffer.nonfilledSize + n
  BY <1>1 DEF Commit, Buffer
<1>5. inOrder \in BOOLEAN /\ s.echoed + n \in Nat
  BY <1>1, <1>2
<1>7. t = [s EXCEPT !.buffer = b, !.inOrder = inOrder, !.echoed = s.echoed + n]
  BY DEF CommitWritten
<1> HIDE DEF b, inOrder, t
<1>8. t \in Session
  BY <1>1, <1>3, <1>5, <1>7 DEF Session
<1>9. /\ t.read = s.read /\ t.write = "wait" /\ t.timer = s.timer
      /\ t.readOp = s.readOp /\ t.writeOp = s.writeOp
      /\ t.pending = s.pending /\ t.buffer = b
      /\ t.extern = s.extern /\ t.intern = s.intern
      /\ t.waitHandler = s.waitHandler /\ t.stopHandler = s.stopHandler
      /\ t.owed = s.owed /\ t.waitError = s.waitError
  BY <1>1, <1>7 DEF Session
<1>10. ASSUME NEW op, ReadOwns(s.buffer, op)
       PROVE  ReadOwns(b, op)
  <2>1. /\ TotalLen(op) \in 1 .. s.buffer.nonfilledSize
        /\ op = Prepared(s.buffer, TotalLen(op))
    BY <1>10 DEF ReadOwns
  <2>2. TotalLen(op) \in Nat /\ TotalLen(op) \in 1 .. b.nonfilledSize
    BY <1>2, <1>4, <2>1
  <2>3. Prepared(s.buffer, TotalLen(op)) = Blocks(s.buffer.nonfilledStart, TotalLen(op))
    BY <1>1, <2>1, <2>2, OfferedBlocks
  <2>4. Prepared(b, TotalLen(op)) = Blocks(b.nonfilledStart, TotalLen(op))
    BY <1>3, <2>2, OfferedBlocks
  <2> QED BY <1>4, <2>1, <2>2, <2>3, <2>4 DEF ReadOwns
<1>11. Own(t)
  BY <1>9, <1>10 DEF Working, Own
<1>12. Working(t, stopping)
  BY <1>3, <1>8, <1>9, <1>11 DEF Working, Counted, Answers
<1> QED BY <1>9, <1>12 DEF t, Unseen

LEMMA ReadingStopped ==
  ASSUME NEW s, NEW stopping \in BOOLEAN, Working(s, stopping), s.read = "wait"
  PROVE  LET t == [s EXCEPT !.read = "stopped"]
         IN  Working(t, stopping) /\ Unseen(s, t)
<1> DEFINE t == [s EXCEPT !.read = "stopped"]
<1>1. t \in Session
  BY DEF Working, Session, Activity
<1>2. /\ t.read = "stopped"
      /\ t.write = s.write
      /\ t.timer = s.timer
      /\ t.readOp = s.readOp /\ t.writeOp = s.writeOp
      /\ t.pending = s.pending /\ t.buffer = s.buffer
      /\ t.extern = s.extern /\ t.intern = s.intern
      /\ t.waitHandler = s.waitHandler /\ t.stopHandler = s.stopHandler
      /\ t.owed = s.owed /\ t.waitError = s.waitError
  BY DEF Working, Session
<1> HIDE DEF t
<1>3. Counted(t)
  BY <1>2 DEF Working, Counted, Busy
<1>4. Working(t, stopping)
  BY <1>1, <1>2, <1>3 DEF Working, Own, Answers
<1> QED BY <1>2, <1>4 DEF t, Unseen

LEMMA WritingStopped ==
  ASSUME NEW s, NEW stopping \in BOOLEAN, Working(s, stopping), s.write = "wait"
  PROVE  LET t == [s EXCEPT !.write = "stopped"]
         IN  Working(t, stopping) /\ Unseen(s, t)
<1> DEFINE t == [s EXCEPT !.write = "stopped"]
<1>1. t \in Session
  BY DEF Working, Session, Activity
<1>2. /\ t.write = "stopped"
      /\ t.read = s.read
      /\ t.timer = s.timer
      /\ t.readOp = s.readOp /\ t.writeOp = s.writeOp
      /\ t.pending = s.pending /\ t.buffer = s.buffer
      /\ t.extern = s.extern /\ t.intern = s.intern
      /\ t.waitHandler = s.waitHandler /\ t.stopHandler = s.stopHandler
      /\ t.owed = s.owed /\ t.waitError = s.waitError
  BY DEF Working, Session
<1> HIDE DEF t
<1>3. Counted(t)
  BY <1>2 DEF Working, Counted, Busy
<1>4. Working(t, stopping)
  BY <1>1, <1>2, <1>3 DEF Working, Own, Answers
<1> QED BY <1>2, <1>4 DEF t, Unseen

LEMMA TimerStopped ==
  ASSUME NEW s, NEW stopping \in BOOLEAN, Working(s, stopping), s.timer = "ready"
  PROVE  LET t == [s EXCEPT !.timer = "stopped"]
         IN  Working(t, stopping) /\ Unseen(s, t)
<1> DEFINE t == [s EXCEPT !.timer = "stopped"]
<1>1. t \in Session
  BY DEF Working, Session, Activity
<1>2. /\ t.timer = "stopped"
      /\ t.read = s.read
      /\ t.write = s.write
      /\ t.readOp = s.readOp /\ t.writeOp = s.writeOp
      /\ t.pending = s.pending /\ t.buffer = s.buffer
      /\ t.extern = s.extern /\ t.intern = s.intern
      /\ t.waitHandler = s.waitHandler /\ t.stopHandler = s.stopHandler
      /\ t.owed = s.owed /\ t.waitError = s.waitError
  BY DEF Working, Session
<1> HIDE DEF t
<1>3. Counted(t)
  BY <1>2 DEF Working, Counted, Busy
<1>4. Working(t, stopping)
  BY <1>1, <1>2, <1>3 DEF Working, Own, Answers
<1> QED BY <1>2, <1>4 DEF t, Unseen

-----------------------------------------------------------------------------
(* The completion handlers. *)

Causes == {"eof", "error", "inactivity_timeout"}

Lands(s, t) == Settled(t, FALSE) /\ Moves(s, t, Causes)

LEMMA LandsOn ==
  ASSUME NEW s, NEW t, Unseen(s, t), NEW u, NEW causes, causes \subseteq Causes,
         Settled(u, FALSE), Moves(t, u, causes)
  PROVE  Lands(s, u)
BY MovesOn DEF Lands

LEMMA ReadHandled ==
  ASSUME Settled(session, FALSE), session.read = "in_progress",
         session.intern \in {"work", "shutdown"}, NEW error \in Error \ {"operation_aborted", "inactivity_timeout"},
         NEW n \in 0 .. TotalLen(session.readOp), NEW fault
  PROVE  /\ session.intern = "work" =>
              Lands(session, HandleReadAtWork(session, error, n, fault))
         /\ session.intern = "shutdown" =>
              Lands(session, HandleReadAtShutdown(session, error, n, fault))
<1> DEFINE s        == session
           done     == ReadCompleted(s)
           failed   == error = "error" \/ CancelFails(done, "cancel", fault)
           off      == CancelTimerWait(done, "cancel", fault)
           consumed == ConsumeRead(off, s.readOp, n)
           halted   == [off EXCEPT !.read = "stopped"]
           ended    == [consumed EXCEPT !.read = "stopped"]
           at       == IF error = "eof" THEN ended ELSE consumed
<1>1. HandleReadAtWork(s, error, n, fault) =
        IF failed THEN StartStop(halted, "error", fault)
        ELSE IF error = "eof" THEN StartShutdown(ended, error, TRUE, fault)
        ELSE ContinueWork(consumed, fault)
  BY DEF HandleReadAtWork
<1>2. HandleReadAtShutdown(s, error, n, fault) =
        IF failed THEN StartStop(halted, "error", fault)
                  ELSE ContinueShutdown(at, TRUE, fault)
  BY DEF HandleReadAtShutdown
<1>3. Working(s, FALSE)
  BY InFlight
<1>4. /\ done \in Session /\ Counted(done)
      /\ done.read = "wait" /\ done.write = s.write /\ done.timer = s.timer
      /\ done.writeOp = s.writeOp /\ done.buffer = s.buffer
      /\ done.extern = s.extern /\ done.intern = s.intern
      /\ done.waitHandler = s.waitHandler /\ done.stopHandler = s.stopHandler
      /\ done.owed = s.owed /\ done.waitError = s.waitError
  BY <1>3, ReadWasCompleted DEF Working
<1> HIDE DEF done
<1>5. Working(done, FALSE)
  BY <1>3, <1>4 DEF Working, Own, Answers
<1>6. /\ Working(off, FALSE) /\ off.read = "wait"
      /\ off.buffer = s.buffer /\ Unseen(s, off)
  <2> DEFINE no == FALSE
  <2>1. no \in BOOLEAN /\ Working(done, no)
    BY <1>5
  <2> HIDE DEF no
  <2>2. /\ Working(off, no) /\ Unseen(done, off)
        /\ off.read = done.read /\ off.buffer = done.buffer
    BY <2>1, TimerCancelled
  <2> HIDE DEF off
  <2> QED BY <1>4, <2>2 DEF no, Unseen
<1> HIDE DEF off, failed
<1>7. n \in 0 .. off.buffer.nonfilledSize
  BY <1>3, <1>6 DEF Working, Own, ReadOwns, Session, Buffer
<1>8. /\ Working(consumed, FALSE) /\ consumed.read = "wait"
      /\ Unseen(s, consumed)
  <2>1. Working(consumed, FALSE) /\ consumed.read = "wait" /\ Unseen(off, consumed)
    BY <1>6, <1>7, BytesConsumed
  <2> QED BY <1>6, <2>1 DEF Unseen
<1> HIDE DEF consumed
<1>9. Working(halted, FALSE) /\ Unseen(s, halted)
  <2>1. Working(halted, FALSE) /\ Unseen(off, halted)
    BY <1>6, ReadingStopped
  <2> QED BY <1>6, <2>1 DEF Unseen
<1>10. Working(ended, FALSE) /\ Unseen(s, ended)
  <2>1. Working(ended, FALSE) /\ Unseen(consumed, ended)
    BY <1>8, ReadingStopped
  <2> QED BY <1>8, <2>1 DEF Unseen
<1> HIDE DEF halted, ended
<1>11. Lands(s, StartStop(halted, "error", fault))
  <2>1. /\ Settled(StartStop(halted, "error", fault), FALSE)
        /\ Moves(halted, StartStop(halted, "error", fault), {"error"})
    BY <1>9, StopStarted DEF Error
  <2> QED BY <1>9, <2>1, {"error"} \subseteq Causes, LandsOn DEF Causes
<1>12. Lands(s, ContinueWork(consumed, fault))
  <2>1. /\ Settled(ContinueWork(consumed, fault), FALSE)
        /\ Moves(consumed, ContinueWork(consumed, fault), {"error"})
    BY <1>8, WorkContinued
  <2> QED BY <1>8, <2>1, {"error"} \subseteq Causes, LandsOn DEF Causes
<1>13. ASSUME s.intern = "work", error = "eof"
       PROVE  Lands(s, StartShutdown(ended, error, TRUE, fault))
  <2> DEFINE t == StartShutdown(ended, error, TRUE, fault)
  <2>1. /\ error \in Error \ {"none"} /\ {error} \subseteq Causes
        /\ TRUE \in BOOLEAN /\ FALSE \in BOOLEAN
    BY <1>13 DEF Causes
  <2>2. /\ ended \in Session /\ Counted(ended) /\ Answers(ended, FALSE)
        /\ Complementary(ended.buffer) /\ Own(ended)
        /\ ended.intern = "work" /\ ended.extern = "work"
        /\ ended.extern \in {"work", "stop"}
    BY <1>10, <1>13 DEF Working, Unseen
  <2>3. Settled(t, FALSE) /\ (ended.extern = "work" => Moves(ended, t, {error}))
    BY <2>1, <2>2, ShutdownStarted, Zenon
  <2> QED BY <1>10, <2>1, <2>2, <2>3, LandsOn
<1>14. ASSUME s.intern = "shutdown"
       PROVE  Lands(s, ContinueShutdown(at, TRUE, fault))
  <2>1. Working(at, FALSE) /\ Unseen(s, at)
    BY <1>8, <1>10
  <2> HIDE DEF at
  <2>2. at.intern = "shutdown"
    BY <1>14, <2>1 DEF Unseen
  <2>3. /\ Settled(ContinueShutdown(at, TRUE, fault), FALSE)
        /\ Moves(at, ContinueShutdown(at, TRUE, fault), Causes)
    BY <2>1, <2>2, ShutdownContinued
  <2> QED BY <2>1, <2>3, LandsOn
<1> HIDE DEF at
<1> QED BY <1>1, <1>2, <1>11, <1>12, <1>13, <1>14

LEMMA WriteHandled ==
  ASSUME Settled(session, FALSE), session.write = "in_progress",
         session.intern \in {"work", "shutdown"}, NEW error,
         NEW n \in 0 .. TotalLen(session.writeOp), NEW fault
  PROVE  /\ session.intern = "work" =>
              Lands(session, HandleWriteAtWork(session, error, n, fault))
         /\ session.intern = "shutdown" =>
              Lands(session, HandleWriteAtShutdown(session, error, n, fault))
<1> DEFINE s         == session
           done      == WriteCompleted(s)
           failed    == error # "none" \/ CancelFails(done, "cancel", fault)
           off       == CancelTimerWait(done, "cancel", fault)
           committed == CommitWritten(off, s.writeOp, n)
           halted    == [off EXCEPT !.write = "stopped"]
<1>1. HandleWriteAtWork(s, error, n, fault) =
        IF failed THEN StartStop(halted, "error", fault)
                  ELSE ContinueWork(committed, fault)
  BY DEF HandleWriteAtWork
<1>2. HandleWriteAtShutdown(s, error, n, fault) =
        IF failed THEN StartStop(halted, "error", fault)
                  ELSE ContinueShutdown(committed, TRUE, fault)
  BY DEF HandleWriteAtShutdown
<1>3. Working(s, FALSE)
  BY InFlight
<1>4. /\ done \in Session /\ Counted(done)
      /\ done.read = s.read /\ done.write = "wait" /\ done.timer = s.timer
      /\ done.readOp = s.readOp /\ done.buffer = s.buffer
      /\ done.extern = s.extern /\ done.intern = s.intern
      /\ done.waitHandler = s.waitHandler /\ done.stopHandler = s.stopHandler
      /\ done.owed = s.owed /\ done.waitError = s.waitError
  BY <1>3, WriteWasCompleted DEF Working
<1> HIDE DEF done
<1>5. Working(done, FALSE)
  BY <1>3, <1>4 DEF Working, Own, Answers
<1>6. /\ Working(off, FALSE) /\ off.write = "wait"
      /\ off.buffer = s.buffer /\ Unseen(s, off)
  <2> DEFINE no == FALSE
  <2>1. no \in BOOLEAN /\ Working(done, no)
    BY <1>5
  <2> HIDE DEF no
  <2>2. /\ Working(off, no) /\ Unseen(done, off)
        /\ off.write = done.write /\ off.buffer = done.buffer
    BY <2>1, TimerCancelled
  <2> HIDE DEF off
  <2> QED BY <1>4, <2>2 DEF no, Unseen
<1> HIDE DEF off, failed
<1>7. n \in 0 .. off.buffer.filledSize
  BY <1>3, <1>6 DEF Working, Own, WriteOwns, Session, Buffer
<1>8. Working(committed, FALSE) /\ Unseen(s, committed)
  <2>1. Working(committed, FALSE) /\ Unseen(off, committed)
    BY <1>6, <1>7, BytesCommitted
  <2> QED BY <1>6, <2>1 DEF Unseen
<1> HIDE DEF committed
<1>9. Working(halted, FALSE) /\ Unseen(s, halted)
  <2>1. Working(halted, FALSE) /\ Unseen(off, halted)
    BY <1>6, WritingStopped
  <2> QED BY <1>6, <2>1 DEF Unseen
<1> HIDE DEF halted
<1>10. Lands(s, StartStop(halted, "error", fault))
  <2>1. /\ Settled(StartStop(halted, "error", fault), FALSE)
        /\ Moves(halted, StartStop(halted, "error", fault), {"error"})
    BY <1>9, StopStarted DEF Error
  <2> QED BY <1>9, <2>1, {"error"} \subseteq Causes, LandsOn DEF Causes
<1>11. Lands(s, ContinueWork(committed, fault))
  <2>1. /\ Settled(ContinueWork(committed, fault), FALSE)
        /\ Moves(committed, ContinueWork(committed, fault), {"error"})
    BY <1>8, WorkContinued
  <2> QED BY <1>8, <2>1, {"error"} \subseteq Causes, LandsOn DEF Causes
<1>12. ASSUME s.intern = "shutdown"
       PROVE  Lands(s, ContinueShutdown(committed, TRUE, fault))
  <2>1. committed.intern = "shutdown"
    BY <1>8, <1>12 DEF Unseen
  <2>2. /\ Settled(ContinueShutdown(committed, TRUE, fault), FALSE)
        /\ Moves(committed, ContinueShutdown(committed, TRUE, fault), Causes)
    BY <1>8, <2>1, ShutdownContinued
  <2> QED BY <1>8, <2>2, LandsOn
<1> QED BY <1>1, <1>2, <1>10, <1>11, <1>12

LEMMA TimerHandled ==
  ASSUME Settled(session, FALSE), session.timer = "in_progress",
         session.intern \in {"work", "shutdown"}, NEW error \in Error, NEW fault
  PROVE  Lands(session, HandleTimerAtWork(session, error, fault))
<1> DEFINE s      == session
           done   == TimerCompleted(s)
           halted == [done EXCEPT !.timer = "stopped"]
<1>1. HandleTimerAtWork(s, error, fault) =
        IF error = "error" THEN StartStop(halted, error, fault)
        ELSE IF ~done.timerWaitCancelled
          THEN StartStop(halted, "inactivity_timeout", fault)
        ELSE IF done.timerTurned THEN StartTimerWait(done)
        ELSE done
  BY DEF HandleTimerAtWork
<1>2. Working(s, FALSE)
  BY InFlight
<1>3. /\ done \in Session /\ Counted(done)
      /\ done.read = s.read /\ done.write = s.write /\ done.timer = "ready"
      /\ done.readOp = s.readOp /\ done.writeOp = s.writeOp
      /\ done.buffer = s.buffer
      /\ done.extern = s.extern /\ done.intern = s.intern
      /\ done.waitHandler = s.waitHandler /\ done.stopHandler = s.stopHandler
      /\ done.owed = s.owed /\ done.waitError = s.waitError
  BY <1>2, TimerWasCompleted DEF Working
<1> HIDE DEF done
<1>4. Working(done, FALSE) /\ Unseen(s, done)
  BY <1>2, <1>3 DEF Working, Own, Answers, Unseen
<1>5. Working(halted, FALSE) /\ Unseen(s, halted)
  <2>1. Working(halted, FALSE) /\ Unseen(done, halted)
    BY <1>3, <1>4, TimerStopped
  <2> QED BY <1>4, <2>1 DEF Unseen
<1> HIDE DEF halted
<1>6. Lands(s, StartStop(halted, "error", fault))
  <2>1. /\ Settled(StartStop(halted, "error", fault), FALSE)
        /\ Moves(halted, StartStop(halted, "error", fault), {"error"})
    BY <1>5, StopStarted DEF Error
  <2> QED BY <1>5, <2>1, {"error"} \subseteq Causes, LandsOn DEF Causes
<1>7. Lands(s, StartStop(halted, "inactivity_timeout", fault))
  <2> DEFINE cause == "inactivity_timeout"
  <2>1. cause \in Error /\ cause # "none" /\ {cause} \subseteq Causes
    BY DEF Error, Causes
  <2> HIDE DEF cause
  <2>2. /\ Settled(StartStop(halted, cause, fault), FALSE)
        /\ Moves(halted, StartStop(halted, cause, fault), {cause})
    BY <1>5, <2>1, StopStarted
  <2>3. Lands(s, StartStop(halted, cause, fault))
    BY <1>5, <2>1, <2>2, LandsOn
  <2> QED BY <2>3 DEF cause
<1>8. Lands(s, StartTimerWait(done))
  <2>1. Working(StartTimerWait(done), FALSE) /\ Unseen(done, StartTimerWait(done))
    BY <1>3, <1>4, TimerStarted
  <2>2. Unseen(s, StartTimerWait(done))
    BY <1>4, <2>1 DEF Unseen
  <2> QED BY <2>1, <2>2, UnseenMoves, WorkingSettled DEF Lands
<1>9. Lands(s, done)
  BY <1>4, UnseenMoves, WorkingSettled DEF Lands
<1> QED BY <1>1, <1>6, <1>7, <1>8, <1>9

(***************************************************************************)
(* The handlers of a session that is stopping.                             *)
(***************************************************************************)
LEMMA HandledAtStop ==
  ASSUME Settled(session, FALSE), session.intern = "stop"
  PROVE  /\ session.read = "in_progress" =>
              Lands(session, HandleReadAtStop(session))
         /\ session.write = "in_progress" =>
              Lands(session, HandleWriteAtStop(session))
         /\ session.timer = "in_progress" =>
              Lands(session, HandleTimerAtStop(session))
<1> DEFINE s == session
<1>0. s \in Session /\ Counted(s) /\ "stopped" \in Activity
  BY DEF Settled, Activity
<1>1. ASSUME s.read = "in_progress" PROVE Lands(s, HandleReadAtStop(s))
  <2> DEFINE d == ReadCompleted(s)
             t == [d EXCEPT !.read = "stopped"]
  <2>1. /\ d \in Session /\ Counted(d)
        /\ d.read = "wait" /\ d.write = s.write /\ d.timer = s.timer
        /\ d.writeOp = s.writeOp /\ d.buffer = s.buffer
        /\ d.extern = s.extern /\ d.intern = s.intern /\ d.socket = s.socket
        /\ d.waitHandler = s.waitHandler /\ d.stopHandler = s.stopHandler
        /\ d.owed = s.owed /\ d.waitError = s.waitError
    BY <1>0, <1>1, ReadWasCompleted
  <2>2. HandleReadAtStop(s) = ContinueStop(t)
    BY DEF HandleReadAtStop
  <2> HIDE DEF d
  <2>3. t \in Session
    BY <1>0, <2>1 DEF Session
  <2>4. /\ t.read = "stopped" /\ t.write = d.write /\ t.timer = d.timer
        /\ t.readOp = d.readOp /\ t.writeOp = d.writeOp
        /\ t.pending = d.pending /\ t.buffer = d.buffer
        /\ t.extern = d.extern /\ t.intern = d.intern /\ t.socket = d.socket
        /\ t.waitHandler = d.waitHandler /\ t.stopHandler = d.stopHandler
        /\ t.owed = d.owed /\ t.waitError = d.waitError
    BY <2>1 DEF Session
  <2> HIDE DEF t
  <2>5. Counted(t)
    BY <2>1, <2>4 DEF Counted, Busy
  <2>6. Answers(t, FALSE)
    BY <2>1, <2>4 DEF Settled, Answers
  <2>7. /\ Complementary(t.buffer) /\ t.intern = "stop" /\ t.socket = "closed"
        /\ t.extern \in {"work", "stop"}
        /\ t.read # "wait" /\ t.write # "wait" /\ t.timer # "ready"
    BY <1>1, InFlight, <2>1, <2>4 DEF Settled
  <2>8. Settled(ContinueStop(t), FALSE) /\ Moves(t, ContinueStop(t), Causes)
    BY <2>3, <2>5, <2>6, <2>7, StopContinued
  <2>9. Unseen(s, t)
    BY <2>1, <2>4 DEF Unseen
  <2> QED BY <2>2, <2>8, <2>9, LandsOn
<1>2. ASSUME s.write = "in_progress" PROVE Lands(s, HandleWriteAtStop(s))
  <2> DEFINE d == WriteCompleted(s)
             t == [d EXCEPT !.write = "stopped"]
  <2>1. /\ d \in Session /\ Counted(d)
        /\ d.read = s.read /\ d.write = "wait" /\ d.timer = s.timer
        /\ d.readOp = s.readOp /\ d.buffer = s.buffer
        /\ d.extern = s.extern /\ d.intern = s.intern /\ d.socket = s.socket
        /\ d.waitHandler = s.waitHandler /\ d.stopHandler = s.stopHandler
        /\ d.owed = s.owed /\ d.waitError = s.waitError
    BY <1>0, <1>2, WriteWasCompleted
  <2>2. HandleWriteAtStop(s) = ContinueStop(t)
    BY DEF HandleWriteAtStop
  <2> HIDE DEF d
  <2>3. t \in Session
    BY <1>0, <2>1 DEF Session
  <2>4. /\ t.read = d.read /\ t.write = "stopped" /\ t.timer = d.timer
        /\ t.readOp = d.readOp /\ t.writeOp = d.writeOp
        /\ t.pending = d.pending /\ t.buffer = d.buffer
        /\ t.extern = d.extern /\ t.intern = d.intern /\ t.socket = d.socket
        /\ t.waitHandler = d.waitHandler /\ t.stopHandler = d.stopHandler
        /\ t.owed = d.owed /\ t.waitError = d.waitError
    BY <2>1 DEF Session
  <2> HIDE DEF t
  <2>5. Counted(t)
    BY <2>1, <2>4 DEF Counted, Busy
  <2>6. Answers(t, FALSE)
    BY <2>1, <2>4 DEF Settled, Answers
  <2>7. /\ Complementary(t.buffer) /\ t.intern = "stop" /\ t.socket = "closed"
        /\ t.extern \in {"work", "stop"}
        /\ t.read # "wait" /\ t.write # "wait" /\ t.timer # "ready"
    BY <1>2, InFlight, <2>1, <2>4 DEF Settled
  <2>8. Settled(ContinueStop(t), FALSE) /\ Moves(t, ContinueStop(t), Causes)
    BY <2>3, <2>5, <2>6, <2>7, StopContinued
  <2>9. Unseen(s, t)
    BY <2>1, <2>4 DEF Unseen
  <2> QED BY <2>2, <2>8, <2>9, LandsOn
<1>3. ASSUME s.timer = "in_progress" PROVE Lands(s, HandleTimerAtStop(s))
  <2> DEFINE d == TimerCompleted(s)
             t == [d EXCEPT !.timer = "stopped"]
  <2>1. /\ d \in Session /\ Counted(d)
        /\ d.read = s.read /\ d.write = s.write /\ d.timer = "ready"
        /\ d.readOp = s.readOp /\ d.writeOp = s.writeOp /\ d.buffer = s.buffer
        /\ d.extern = s.extern /\ d.intern = s.intern /\ d.socket = s.socket
        /\ d.waitHandler = s.waitHandler /\ d.stopHandler = s.stopHandler
        /\ d.owed = s.owed /\ d.waitError = s.waitError
    BY <1>0, <1>3, TimerWasCompleted
  <2>2. HandleTimerAtStop(s) = ContinueStop(t)
    BY DEF HandleTimerAtStop
  <2> HIDE DEF d
  <2>3. t \in Session
    BY <1>0, <2>1 DEF Session
  <2>4. /\ t.read = d.read /\ t.write = d.write /\ t.timer = "stopped"
        /\ t.readOp = d.readOp /\ t.writeOp = d.writeOp
        /\ t.pending = d.pending /\ t.buffer = d.buffer
        /\ t.extern = d.extern /\ t.intern = d.intern /\ t.socket = d.socket
        /\ t.waitHandler = d.waitHandler /\ t.stopHandler = d.stopHandler
        /\ t.owed = d.owed /\ t.waitError = d.waitError
    BY <2>1 DEF Session
  <2> HIDE DEF t
  <2>5. Counted(t)
    BY <2>1, <2>4 DEF Counted, Busy
  <2>6. Answers(t, FALSE)
    BY <2>1, <2>4 DEF Settled, Answers
  <2>7. /\ Complementary(t.buffer) /\ t.intern = "stop" /\ t.socket = "closed"
        /\ t.extern \in {"work", "stop"}
        /\ t.read # "wait" /\ t.write # "wait" /\ t.timer # "ready"
    BY <1>3, InFlight, <2>1, <2>4 DEF Settled
  <2>8. Settled(ContinueStop(t), FALSE) /\ Moves(t, ContinueStop(t), Causes)
    BY <2>3, <2>5, <2>6, <2>7, StopContinued
  <2>9. Unseen(s, t)
    BY <2>1, <2>4 DEF Unseen
  <2> QED BY <2>2, <2>8, <2>9, LandsOn
<1> QED BY <1>1, <1>2, <1>3

-----------------------------------------------------------------------------
(* The invariant, and what follows from it. *)

LEMMA InitSettled == Init => IInv
<1> SUFFICES ASSUME Init PROVE Settled(session, FALSE)
  BY DEF IInv
<1> DEFINE zeros == [c \in Cell |-> 0]
           owed  == [wait |-> 0, stop |-> 0]
<1>1. PICK timeout \in Timeouts : session = NewSession(timeout)
  BY DEF Init
<1>2. /\ timeout \in BOOLEAN /\ EmptyBuffer \in Buffer /\ Complementary(EmptyBuffer)
      /\ "wait" \in Activity /\ "none" \in Error /\ <<>> \in Segments
      /\ zeros \in [Cell -> Nat] /\ owed \in [wait : Nat, stop : Nat]
      /\ owed.wait = 0 /\ owed.stop = 0
  BY EchoSessionAssumption, EmptyComplementary DEF Activity, Error, Segments
<1>3. session =
        [hasTimeout |-> timeout, extern |-> "ready", intern |-> "work",
         read |-> "wait", write |-> "wait", timer |-> "ready",
         timerWaitCancelled |-> FALSE, timerTurned |-> FALSE, pending |-> 0,
         buffer |-> EmptyBuffer, readOp |-> <<>>, writeOp |-> <<>>,
         waitError |-> "none", waitHandler |-> FALSE, stopHandler |-> FALSE,
         socket |-> "closed", fin |-> FALSE, cells |-> zeros,
         received |-> 0, echoed |-> 0, inOrder |-> TRUE, quiet |-> TRUE,
         owed |-> owed]
  BY <1>1 DEF NewSession
<1> HIDE DEF zeros, owed
<1>4. session \in Session
  BY <1>2, <1>3, 0 \in Nat DEF Session
<1>5. /\ session.read = "wait" /\ session.write = "wait" /\ session.timer = "ready"
      /\ session.readOp = <<>> /\ session.writeOp = <<>>
      /\ session.pending = 0 /\ session.buffer = EmptyBuffer
      /\ session.extern = "ready" /\ session.intern = "work"
      /\ session.waitHandler = FALSE /\ session.stopHandler = FALSE
      /\ session.owed = owed /\ session.waitError = "none"
  BY <1>3
<1> QED BY <1>2, <1>4, <1>5 DEF Settled, Counted, Busy, Own, Answers

LEMMA CompletionLands ==
  ASSUME Settled(session, FALSE), HandleRead \/ HandleWrite \/ HandleTimer
  PROVE  /\ Lands(session, session')
         /\ session.extern \in {"work", "stop"} /\ session.intern # "stopped"
<1>1. ASSUME HandleRead PROVE Lands(session, session')
  <2>1. PICK c \in Completions(session.readOp) \cup {<<"eof", 0>>}, fault \in Faults :
          session' =
            CASE session.intern = "work" ->
                   HandleReadAtWork(session, c[1], c[2], fault)
              [] session.intern = "shutdown" ->
                   HandleReadAtShutdown(session, c[1], c[2], fault)
              [] session.intern = "stop" ->
                   HandleReadAtStop(session)
    BY <1>1 DEF HandleRead
  <2>2. session.read = "in_progress"
    BY <1>1 DEF HandleRead
  <2>3. CASE session.intern = "stop"
    BY <2>1, <2>2, <2>3, HandledAtStop
  <2>4. CASE session.intern \in {"work", "shutdown"}
    <3>1. Working(session, FALSE)
      BY <2>2, <2>4, InFlight
    <3>2. TotalLen(session.readOp) \in Nat
      BY <2>2, <3>1 DEF Working, Own, ReadOwns, Session, Buffer
    <3>3. /\ c[1] \in Error \ {"operation_aborted", "inactivity_timeout"}
          /\ c[2] \in 0 .. TotalLen(session.readOp)
      BY <3>2 DEF Completions, Error
    <3> QED BY <2>1, <2>2, <2>4, <3>3, ReadHandled
  <2> QED BY <2>2, <2>3, <2>4, InFlight DEF Settled, Session
<1>2. ASSUME HandleWrite PROVE Lands(session, session')
  <2>1. PICK c \in Completions(session.writeOp), fault \in Faults :
          session' =
            CASE session.intern = "work" ->
                   HandleWriteAtWork(session, c[1], c[2], fault)
              [] session.intern = "shutdown" ->
                   HandleWriteAtShutdown(session, c[1], c[2], fault)
              [] session.intern = "stop" ->
                   HandleWriteAtStop(session)
    BY <1>2 DEF HandleWrite
  <2>2. session.write = "in_progress"
    BY <1>2 DEF HandleWrite
  <2>3. CASE session.intern = "stop"
    BY <2>1, <2>2, <2>3, HandledAtStop
  <2>4. CASE session.intern \in {"work", "shutdown"}
    <3>1. Working(session, FALSE)
      BY <2>2, <2>4, InFlight
    <3>2. TotalLen(session.writeOp) \in Nat
      BY <2>2, <3>1 DEF Working, Own, WriteOwns, Session, Buffer
    <3>3. c[2] \in 0 .. TotalLen(session.writeOp)
      BY <3>2 DEF Completions
    <3> QED BY <2>1, <2>2, <2>4, <3>3, WriteHandled
  <2> QED BY <2>2, <2>3, <2>4, InFlight DEF Settled, Session
<1>3. ASSUME HandleTimer PROVE Lands(session, session')
  <2>1. PICK error \in {"none", "operation_aborted", "error"}, fault \in Faults :
          session' =
            CASE session.intern \in {"work", "shutdown"} ->
                   HandleTimerAtWork(session, error, fault)
              [] session.intern = "stop" ->
                   HandleTimerAtStop(session)
    BY <1>3 DEF HandleTimer
  <2>2. session.timer = "in_progress" /\ error \in Error
    BY <1>3 DEF HandleTimer, Error
  <2>3. CASE session.intern = "stop"
    BY <2>1, <2>2, <2>3, HandledAtStop
  <2>4. CASE session.intern \in {"work", "shutdown"}
    BY <2>1, <2>2, <2>4, TimerHandled
  <2> QED BY <2>2, <2>3, <2>4, InFlight DEF Settled, Session
<1>4. session.extern \in {"work", "stop"} /\ session.intern # "stopped"
  BY InFlight DEF HandleRead, HandleWrite, HandleTimer, Settled, Session
<1> QED BY <1>1, <1>2, <1>3, <1>4

LEMMA NextSettled == IInv /\ [Next]_session => IInv'
<1> SUFFICES ASSUME Settled(session, FALSE), [Next]_session
             PROVE  Settled(session', FALSE)
  BY DEF IInv
<1>1. ASSUME Connect PROVE Settled(session', FALSE)
  <2>1. /\ session \in Session /\ session.extern = "ready"
        /\ session' = [session EXCEPT !.socket = "open"]
    BY <1>1 DEF Connect, Settled
  <2>2. session' \in Session
    BY <2>1 DEF Session
  <2>3. /\ session'.read = session.read /\ session'.write = session.write
        /\ session'.timer = session.timer
        /\ session'.readOp = session.readOp /\ session'.writeOp = session.writeOp
        /\ session'.pending = session.pending /\ session'.buffer = session.buffer
        /\ session'.extern = session.extern /\ session'.intern = session.intern
        /\ session'.waitHandler = session.waitHandler
        /\ session'.stopHandler = session.stopHandler
        /\ session'.owed = session.owed
    BY <2>1 DEF Session
  <2> QED BY <2>1, <2>2, <2>3 DEF Settled, Counted, Own, Answers
<1>2. ASSUME ExternStart PROVE Settled(session', FALSE)
  BY <1>2, Started DEF ExternStart
<1>3. ASSUME ExternStop PROVE Settled(session', FALSE)
  BY <1>3, Stopped DEF ExternStop
<1>4. ASSUME ExternWait PROVE Settled(session', FALSE)
  BY <1>4, WaitParked DEF ExternWait
<1>5. ASSUME Reset PROVE Settled(session', FALSE)
  BY <1>5, WasReset DEF Reset
<1>6. ASSUME HandleRead \/ HandleWrite \/ HandleTimer PROVE Settled(session', FALSE)
  BY <1>6, CompletionLands DEF Lands
<1>7. ASSUME UNCHANGED session PROVE Settled(session', FALSE)
  BY <1>7
<1> QED BY <1>1, <1>2, <1>3, <1>4, <1>5, <1>6, <1>7 DEF Next

(***************************************************************************)
(* Every step of a session -- whichever of its system calls fail, and in   *)
(* whatever order its completions arrive -- keeps the invariant.           *)
(***************************************************************************)
THEOREM Invariant == Spec => []IInv
<1> QED BY InitSettled, NextSettled, PTL DEF Spec

LEMMA CountedOperations ==
  ASSUME NEW s \in Session
  PROVE  Cardinality(InProgress(s)) = Busy(s.read) + Busy(s.write) + Busy(s.timer)
<1> DEFINE R == IF s.read = "in_progress" THEN {"read"} ELSE {}
           W == IF s.write = "in_progress" THEN R \cup {"write"} ELSE R
           T == IF s.timer = "in_progress" THEN W \cup {"timer"} ELSE W
<1>1. InProgress(s) = T
  BY DEF InProgress
<1>2. "write" \notin R /\ "timer" \notin W
  OBVIOUS
<1>3. IsFiniteSet(R) /\ Cardinality(R) = Busy(s.read)
  BY FS_EmptySet, FS_Singleton DEF Busy
<1> HIDE DEF R
<1>4. IsFiniteSet(W) /\ Cardinality(W) = Busy(s.read) + Busy(s.write)
  <2>1. /\ IsFiniteSet(R \cup {"write"})
        /\ Cardinality(R \cup {"write"}) = Cardinality(R) + 1
    BY <1>2, <1>3, FS_AddElement
  <2>2. CASE s.write = "in_progress"
    BY <1>3, <2>1, <2>2 DEF Busy
  <2>3. CASE s.write # "in_progress"
    BY <1>3, <2>3 DEF Busy
  <2> QED BY <2>2, <2>3
<1> HIDE DEF W
<1>5. Cardinality(T) = Busy(s.read) + Busy(s.write) + Busy(s.timer)
  <2>1. /\ IsFiniteSet(W \cup {"timer"})
        /\ Cardinality(W \cup {"timer"}) = Cardinality(W) + 1
    BY <1>2, <1>4, FS_AddElement
  <2>2. CASE s.timer = "in_progress"
    BY <1>4, <2>1, <2>2 DEF Busy
  <2>3. CASE s.timer # "in_progress"
    BY <1>4, <2>3 DEF Busy
  <2> QED BY <2>2, <2>3
<1> QED BY <1>1, <1>5

(***************************************************************************)
(* Whatever is to call back into the session is accounted for: see         *)
(* OperationsAccounted.                                                    *)
(***************************************************************************)
THEOREM Accounted == Spec => []OperationsAccounted
<1>1. IInv => OperationsAccounted
  <2> SUFFICES ASSUME Settled(session, FALSE) PROVE OperationsAccounted
    BY DEF IInv
  <2>1. session \in Session
    BY DEF Settled
  <2>2. Cardinality(InProgress(session)) =
          Busy(session.read) + Busy(session.write) + Busy(session.timer)
    BY <2>1, CountedOperations
  <2>3. session.pending = Cardinality(InProgress(session))
    BY <2>2 DEF Settled, Counted
  <2> QED BY <2>1, <2>3 DEF OperationsAccounted, TypeOK, Settled, Answers
<1> QED BY <1>1, Invariant, PTL

(***************************************************************************)
(* A transfer in flight owns its cells: see TransfersOwnTheirCells.        *)
(***************************************************************************)
THEOREM OwnTransfers == Spec => []TransfersOwnTheirCells
<1>1. IInv => TransfersOwnTheirCells
  BY DEF IInv, Settled, Own, ReadOwns, WriteOwns, TransfersOwnTheirCells
<1> QED BY <1>1, Invariant, PTL

(***************************************************************************)
(* A recycled session is a new one: see RecycledIsNew.  Of what reset()    *)
(* leaves alone, the handlers are answered and the transfers are over.     *)
(***************************************************************************)
THEOREM Recycled == Spec => RecycledIsNew
<1>1. IInv /\ [Next]_session
        => [Reset => session' = NewSession(session.hasTimeout)]_session
  <2> SUFFICES ASSUME Settled(session, FALSE), Reset
               PROVE  session' = NewSession(session.hasTimeout)
    BY DEF IInv
  <2> DEFINE s     == session
             zeros == [c \in Cell |-> 0]
             owed  == [wait |-> 0, stop |-> 0]
  <2>1. s \in Session /\ s.owed = owed
    BY DEF Settled, Reset
  <2>2. /\ s.readOp = <<>> /\ s.writeOp = <<>>
        /\ s.waitHandler = FALSE /\ s.stopHandler = FALSE
    <3>1. s.read # "in_progress" /\ s.write # "in_progress"
      BY DEF Settled, Reset
    <3>2. s.waitHandler \in BOOLEAN /\ s.stopHandler \in BOOLEAN
      BY <2>1 DEF Session
    <3> QED BY <3>1, <3>2 DEF Settled, Counted, Answers, Reset
  <2>3. session' =
          [s EXCEPT !.extern = "ready", !.intern = "work",
            !.read = "wait", !.write = "wait", !.timer = "ready",
            !.timerWaitCancelled = FALSE, !.timerTurned = FALSE,
            !.pending = 0, !.socket = "closed", !.fin = FALSE,
            !.buffer = EmptyBuffer, !.waitError = "none",
            !.cells = zeros, !.received = 0, !.echoed = 0,
            !.inOrder = TRUE, !.quiet = TRUE]
    BY DEF Reset, DoReset
  <2>4. NewSession(s.hasTimeout) =
          [hasTimeout |-> s.hasTimeout, extern |-> "ready", intern |-> "work",
           read |-> "wait", write |-> "wait", timer |-> "ready",
           timerWaitCancelled |-> FALSE, timerTurned |-> FALSE, pending |-> 0,
           buffer |-> EmptyBuffer, readOp |-> <<>>, writeOp |-> <<>>,
           waitError |-> "none", waitHandler |-> FALSE, stopHandler |-> FALSE,
           socket |-> "closed", fin |-> FALSE, cells |-> zeros,
           received |-> 0, echoed |-> 0, inOrder |-> TRUE, quiet |-> TRUE,
           owed |-> owed]
    BY DEF NewSession
  <2> HIDE DEF zeros, owed
  <2>5. session' \in Session
    BY WasReset DEF Reset, Settled
  <2>6. /\ session'.hasTimeout = s.hasTimeout
        /\ session'.extern = "ready" /\ session'.intern = "work"
        /\ session'.read = "wait" /\ session'.write = "wait"
        /\ session'.timer = "ready"
        /\ session'.timerWaitCancelled = FALSE /\ session'.timerTurned = FALSE
        /\ session'.pending = 0 /\ session'.socket = "closed"
        /\ session'.fin = FALSE /\ session'.buffer = EmptyBuffer
        /\ session'.waitError = "none" /\ session'.cells = zeros
        /\ session'.received = 0 /\ session'.echoed = 0
        /\ session'.inOrder = TRUE /\ session'.quiet = TRUE
    BY <2>1, <2>3 DEF Session
  <2>7. /\ session'.readOp = <<>> /\ session'.writeOp = <<>>
        /\ session'.waitHandler = FALSE /\ session'.stopHandler = FALSE
        /\ session'.owed = owed
    BY <2>1, <2>2, <2>3 DEF Session
  <2> QED BY <2>4, <2>5, <2>6, <2>7 DEF Session
<1> QED BY <1>1, Invariant, PTL DEF Spec, RecycledIsNew

-----------------------------------------------------------------------------
(***************************************************************************)
(* The session implements its contract with the session manager, for every *)
(* size of the buffer and of the transfers and whichever system calls      *)
(* fail.  What a handler does to the members that the user sees (Keeps,    *)
(* Ends, Leaves) is a stuttering step of the contract, its end or its      *)
(* departure from work.                                                    *)
(***************************************************************************)

LifeOf(intern) == IF intern = "work" THEN "running"
                  ELSE IF intern \in Ending THEN "ending" ELSE "ended"

(***************************************************************************)
(* What the user sees of a session.                                        *)
(***************************************************************************)
ViewOf(s) == [extern |-> s.extern, life |-> LifeOf(s.intern),
              cause |-> s.waitError, waiting |-> s.waitHandler,
              stopping |-> s.stopHandler]

View == [extern |-> session.extern, life |-> Life, cause |-> session.waitError,
         waiting |-> session.waitHandler, stopping |-> session.stopHandler]

LEMMA ViewTyped ==
  ASSUME NEW s \in Session
  PROVE  /\ ViewOf(s) \in Contract!SessionView
         /\ ViewOf(s).extern = s.extern /\ ViewOf(s).life = LifeOf(s.intern)
         /\ ViewOf(s).cause = s.waitError /\ ViewOf(s).waiting = s.waitHandler
         /\ ViewOf(s).stopping = s.stopHandler
<1>1. s.waitError \in Contract!Cause
  BY DEF Session, Error, Contract!Cause, Contract!EndCause
<1>2. LifeOf(s.intern) \in {"running", "ending", "ended"}
  BY DEF LifeOf
<1> HIDE DEF LifeOf
<1> QED BY <1>1, <1>2 DEF Session, Contract!SessionView, ViewOf

LEMMA Viewed ==
  ASSUME session \in Session, session' \in Session
  PROVE  View = ViewOf(session) /\ View' = ViewOf(session')
<1>1. Life = LifeOf(session.intern) /\ Life' = LifeOf(session'.intern)
  BY DEF Life, LifeOf, Ending, Session
<1> QED BY <1>1 DEF View, ViewOf

-----------------------------------------------------------------------------
(***************************************************************************)
(* Outcomes of the contract, recognised by their members.                  *)
(***************************************************************************)
LEMMA ViewIn ==
  ASSUME NEW w, NEW replies
  PROVE  Contract!Outcome(w, replies).view = w
BY DEF Contract!Outcome

LEMMA SameView ==
  ASSUME NEW v \in Contract!SessionView, NEW w \in Contract!SessionView,
         w.extern = v.extern, w.life = v.life, w.cause = v.cause,
         w.waiting = v.waiting, w.stopping = v.stopping
  PROVE  w = v
BY DEF Contract!SessionView

(***************************************************************************)
(* A session that leaves its work, for a cause it may have.                *)
(***************************************************************************)
Left(v, life, cause) ==
  [v EXCEPT !.life = life, !.cause = cause, !.waiting = FALSE]

Leaving(v, causes) ==
  {Contract!Outcome(Left(v, life, cause), Contract!WaitReply(v, cause))
   : life \in {"ending", "ended"}, cause \in causes}

LEMMA LeavingOutcome ==
  ASSUME NEW v \in Contract!SessionView, NEW w \in Contract!SessionView, NEW causes,
         v.extern = "work", v.life = "running",
         w.extern = "work", w.life \in {"ending", "ended"}, w.cause \in causes,
         w.waiting = FALSE, w.stopping = v.stopping
  PROVE  \E o \in Contract!InternalOutcomes(v, causes) : w = o.view
<1> DEFINE o == Contract!Outcome(w, Contract!WaitReply(v, w.cause))
<1>1. w = Left(v, w.life, w.cause)
  BY DEF Contract!SessionView, Left
<1>2. o \in Leaving(v, causes)
  BY <1>1 DEF Leaving
<1>3. Contract!InternalOutcomes(v, causes) = Leaving(v, causes)
  BY DEF Leaving, Left, Contract!InternalOutcomes
<1>4. w = o.view
  BY ViewIn
<1> QED BY <1>2, <1>3, <1>4

(***************************************************************************)
(* A session that was ending ends; if it is being stopped, so does that.   *)
(***************************************************************************)
LEMMA EndingOutcome ==
  ASSUME NEW v \in Contract!SessionView, NEW w \in Contract!SessionView, NEW causes,
         v.extern = "work", v.life = "ending", w.extern = "work", w.life = "ended",
         w.cause = v.cause, w.waiting = v.waiting, w.stopping = v.stopping
  PROVE  \E o \in Contract!InternalOutcomes(v, causes) : w = o.view
<1>1. w = [v EXCEPT !.life = "ended"]
  BY DEF Contract!SessionView
<1>2. Contract!InternalOutcomes(v, causes) = {Contract!Outcome(w, {})}
  BY <1>1 DEF Contract!InternalOutcomes
<1>3. w = Contract!Outcome(w, {}).view
  BY ViewIn
<1> QED BY <1>2, <1>3

LEMMA StoppedOutcome ==
  ASSUME NEW v \in Contract!SessionView, NEW w \in Contract!SessionView, NEW causes,
         v.extern = "stop", v.life = "ending", w.extern = "stopped", w.life = "ended",
         w.cause = v.cause, w.waiting = v.waiting, w.stopping = FALSE
  PROVE  \E o \in Contract!InternalOutcomes(v, causes) : w = o.view
<1> DEFINE u == [v EXCEPT !.life = "ended"]
           o == Contract!Outcome(w, {<<"stop", "none">>})
<1>1. u = [v EXCEPT !.life = "ended"]
  OBVIOUS
<1> HIDE DEF u
<1>2. w = [u EXCEPT !.extern = "stopped", !.stopping = FALSE]
  BY <1>1 DEF Contract!SessionView
<1>3. Contract!InternalOutcomes(v, causes) = {o}
  BY <1>1, <1>2 DEF Contract!InternalOutcomes
<1>4. w = o.view
  BY ViewIn
<1> QED BY <1>3, <1>4

(***************************************************************************)
(* What async_start, async_wait and async_stop may do.                     *)
(***************************************************************************)
LEMMA StartOutcome ==
  ASSUME NEW v \in Contract!SessionView, NEW w \in Contract!SessionView,
         v.extern = "ready", v.life = "running",
         w.waiting = v.waiting, w.stopping = v.stopping,
         \/ w.extern = "work" /\ w.life = "running" /\ w.cause = v.cause
         \/ w.extern = "work" /\ w.life = "ending" /\ w.cause = "error"
         \/ w.extern = "stopped" /\ w.life = "ended" /\ w.cause = v.cause
  PROVE  \E o \in Contract!StartOutcomes(v) : w = o.view
<1>1. CASE w.extern = "work" /\ w.life = "running" /\ w.cause = v.cause
  <2> DEFINE o == Contract!Outcome(w, {<<"start", "none">>})
  <2>1. w = [v EXCEPT !.extern = "work"]
    BY <1>1 DEF Contract!SessionView
  <2>2. o \in Contract!StartOutcomes(v)
    BY <2>1 DEF Contract!StartOutcomes
  <2>3. w = o.view
    BY ViewIn
  <2> QED BY <2>2, <2>3
<1>2. CASE w.extern = "work" /\ w.life = "ending" /\ w.cause = "error"
  <2> DEFINE o == Contract!Outcome(w, {<<"start", "none">>})
  <2>1. w = [v EXCEPT !.extern = "work", !.life = "ending", !.cause = "error"]
    BY <1>2 DEF Contract!SessionView
  <2>2. o \in Contract!StartOutcomes(v)
    BY <2>1 DEF Contract!StartOutcomes
  <2>3. w = o.view
    BY ViewIn
  <2> QED BY <2>2, <2>3
<1>3. CASE w.extern = "stopped" /\ w.life = "ended" /\ w.cause = v.cause
  <2> DEFINE o == Contract!Outcome(w, {<<"start", "error">>})
  <2>1. w = [v EXCEPT !.extern = "stopped", !.life = "ended"]
    BY <1>3 DEF Contract!SessionView
  <2>2. o \in Contract!StartOutcomes(v)
    BY <2>1 DEF Contract!StartOutcomes
  <2>3. w = o.view
    BY ViewIn
  <2> QED BY <2>2, <2>3
<1> QED BY <1>1, <1>2, <1>3

LEMMA WaitOutcome ==
  ASSUME NEW v \in Contract!SessionView, NEW w \in Contract!SessionView,
         v.extern = "work", v.life = "running", v.waiting = FALSE,
         w.extern = v.extern, w.life = v.life, w.cause = v.cause,
         w.waiting = TRUE, w.stopping = v.stopping
  PROVE  \E o \in Contract!WaitOutcomes(v) : w = o.view
<1>1. w = [v EXCEPT !.waiting = TRUE]
  BY DEF Contract!SessionView
<1>2. Contract!WaitOutcomes(v) = {Contract!Outcome(w, {})}
  BY <1>1 DEF Contract!WaitOutcomes
<1>3. w = Contract!Outcome(w, {}).view
  BY ViewIn
<1> QED BY <1>2, <1>3

(***************************************************************************)
(* A stop is answered at once if the session has ended, or ends there.     *)
(***************************************************************************)
StopCause(v) == IF v.cause = "none" THEN "operation_aborted" ELSE v.cause

StopLeft(v) == [v EXCEPT !.waiting = FALSE, !.cause = StopCause(v)]

StopOutcomeOf(v, life) ==
  IF life = "ended"
    THEN Contract!Outcome([StopLeft(v) EXCEPT !.extern = "stopped", !.life = life],
                          Contract!WaitReply(v, StopCause(v))
                            \cup {<<"stop", "none">>})
    ELSE Contract!Outcome([StopLeft(v) EXCEPT !.extern = "stop", !.life = life,
                                              !.stopping = TRUE],
                          Contract!WaitReply(v, StopCause(v)))

LEMMA StopOutcome ==
  ASSUME NEW v \in Contract!SessionView, NEW w \in Contract!SessionView,
         v.extern = "work", w.cause = StopCause(v), w.waiting = FALSE,
         w.life \in IF v.life = "running" THEN {"ending", "ended"} ELSE {v.life},
         \/ w.life = "ended" /\ w.extern = "stopped" /\ w.stopping = v.stopping
         \/ w.life # "ended" /\ w.extern = "stop" /\ w.stopping = TRUE
  PROVE  \E o \in Contract!StopOutcomes(v) : w = o.view
<1> DEFINE left  == StopLeft(v)
           lives == IF v.life = "running" THEN {"ending", "ended"} ELSE {v.life}
<1>1. left = [v EXCEPT !.waiting = FALSE, !.cause = w.cause]
  BY DEF StopLeft
<1>2. Contract!StopOutcomes(v) = {StopOutcomeOf(v, life) : life \in lives}
  BY DEF Contract!StopOutcomes, StopOutcomeOf, StopLeft, StopCause
<1>3. StopOutcomeOf(v, w.life) \in Contract!StopOutcomes(v)
  BY <1>2
<1>4. CASE w.life = "ended"
  <2> HIDE DEF left
  <2>1. w = [left EXCEPT !.extern = "stopped", !.life = w.life]
    BY <1>1, <1>4 DEF Contract!SessionView
  <2>2. StopOutcomeOf(v, w.life).view = [left EXCEPT !.extern = "stopped", !.life = w.life]
    BY <1>4, ViewIn DEF StopOutcomeOf, left
  <2> QED BY <1>3, <2>1, <2>2
<1>5. CASE w.life # "ended"
  <2> HIDE DEF left
  <2>1. w = [left EXCEPT !.extern = "stop", !.life = w.life, !.stopping = TRUE]
    BY <1>1, <1>5 DEF Contract!SessionView
  <2>2. StopOutcomeOf(v, w.life).view =
          [left EXCEPT !.extern = "stop", !.life = w.life, !.stopping = TRUE]
    BY <1>5, ViewIn DEF StopOutcomeOf, left
  <2> QED BY <1>3, <2>1, <2>2
<1> QED BY <1>4, <1>5

-----------------------------------------------------------------------------
(***************************************************************************)
(* Every step of a session, seen by its user.                              *)
(***************************************************************************)
LEMMA CompletionsFollow ==
  ASSUME NEW s \in Session, NEW t \in Session, Moves(s, t, Causes)
  PROVE  \/ ViewOf(t) = ViewOf(s)
         \/ \E o \in Contract!InternalOutcomes(ViewOf(s), Contract!EndCause) :
              ViewOf(t) = o.view
<1> DEFINE v == ViewOf(s)
           w == ViewOf(t)
<1>1. /\ v \in Contract!SessionView /\ v.extern = s.extern
      /\ v.life = LifeOf(s.intern) /\ v.cause = s.waitError
      /\ v.waiting = s.waitHandler /\ v.stopping = s.stopHandler
  BY ViewTyped
<1>2. /\ w \in Contract!SessionView /\ w.extern = t.extern
      /\ w.life = LifeOf(t.intern) /\ w.cause = t.waitError
      /\ w.waiting = t.waitHandler /\ w.stopping = t.stopHandler
  BY ViewTyped
<1> HIDE DEF v, w
<1>3. CASE Keeps(s, t)
  <2>1. LifeOf(t.intern) = LifeOf(s.intern)
    BY <1>3 DEF Keeps, LifeOf, Ending
  <2>2. w = v
    BY <1>1, <1>2, <1>3, <2>1, SameView DEF Keeps
  <2> QED BY <2>2 DEF v, w
<1>4. CASE Ends(s, t)
  <2>1. LifeOf(s.intern) = "ending" /\ LifeOf(t.intern) = "ended"
    BY <1>4 DEF Ends, LifeOf, Ending
  <2>2. w.cause = v.cause /\ w.waiting = v.waiting
    BY <1>1, <1>2, <1>4 DEF Ends
  <2>3. \/ v.extern = "work" /\ w.extern = "work" /\ w.stopping = v.stopping
        \/ v.extern = "stop" /\ w.extern = "stopped" /\ w.stopping = FALSE
    BY <1>1, <1>2, <1>4 DEF Ends
  <2> v.life = "ending" /\ w.life = "ended"
    BY <1>1, <1>2, <2>1, Zenon
  <2> v \in Contract!SessionView /\ w \in Contract!SessionView
    BY <1>1, <1>2, Zenon
  <2>4. \E o \in Contract!InternalOutcomes(v, Contract!EndCause) : w = o.view
    <3>1. CASE /\ v.extern = "work" /\ w.extern = "work"
               /\ w.stopping = v.stopping
      BY <2>2, <3>1, EndingOutcome, Zenon
    <3>2. CASE /\ v.extern = "stop" /\ w.extern = "stopped"
               /\ w.stopping = FALSE
      BY <2>2, <3>2, StoppedOutcome, Zenon
    <3> QED BY <2>3, <3>1, <3>2, Zenon
  <2> QED BY <2>4 DEF v, w
<1>5. CASE Leaves(s, t, Causes)
  <2>1. v.life = "running" /\ w.life \in {"ending", "ended"}
    BY <1>1, <1>2, <1>5 DEF Leaves, LifeOf, Ending
  <2>2. /\ v.extern = "work" /\ w.extern = "work"
        /\ w.cause \in Contract!EndCause
        /\ w.waiting = FALSE /\ w.stopping = v.stopping
    BY <1>1, <1>2, <1>5 DEF Leaves, Causes, Contract!EndCause
  <2>3. \E o \in Contract!InternalOutcomes(v, Contract!EndCause) : w = o.view
    BY <1>1, <1>2, <2>1, <2>2, LeavingOutcome
  <2> QED BY <2>3 DEF v, w
<1> QED BY <1>3, <1>4, <1>5 DEF Moves

LEMMA StartFollows ==
  ASSUME Settled(session, FALSE), session.extern = "ready", NEW fault,
         NEW t, t = DoStartExternStart(session, fault)
  PROVE  /\ ViewOf(session).extern = "ready"
         /\ \E o \in Contract!StartOutcomes(ViewOf(session)) : ViewOf(t) = o.view
<1> DEFINE s == session
           v == ViewOf(s)
           w == ViewOf(t)
<1>1. /\ Settled(t, FALSE)
      /\ \/ t.extern = "work" /\ t.intern = "work" /\ t.waitError = "none"
         \/ t.extern = "work" /\ t.intern \in Ending /\ t.waitError = "error"
         \/ /\ t.extern = "stopped" /\ t.intern = "stopped"
            /\ t.waitError = "none"
      /\ t.waitHandler = FALSE /\ t.stopHandler = FALSE
  BY Started
<1>2. /\ s \in Session /\ s.intern = "work" /\ s.waitError = "none"
      /\ s.waitHandler = FALSE /\ s.stopHandler = FALSE
  BY DEF Settled, Answers, Session
<1>3. t \in Session
  BY <1>1 DEF Settled
<1>4. /\ v \in Contract!SessionView /\ v.extern = "ready"
      /\ v.life = LifeOf(s.intern) /\ v.cause = "none"
      /\ v.waiting = FALSE /\ v.stopping = FALSE
  BY <1>2, ViewTyped
<1>5. /\ w \in Contract!SessionView /\ w.extern = t.extern
      /\ w.life = LifeOf(t.intern) /\ w.cause = t.waitError
      /\ w.waiting = FALSE /\ w.stopping = FALSE
  BY <1>1, <1>3, ViewTyped
<1> HIDE DEF v, w
<1>6. v.life = "running"
  BY <1>2, <1>4 DEF LifeOf
<1>7. \/ w.extern = "work" /\ w.life = "running" /\ w.cause = v.cause
      \/ w.extern = "work" /\ w.life = "ending" /\ w.cause = "error"
      \/ w.extern = "stopped" /\ w.life = "ended" /\ w.cause = v.cause
  BY <1>1, <1>4, <1>5 DEF LifeOf, Ending
<1>8. \E o \in Contract!StartOutcomes(v) : w = o.view
  BY <1>4, <1>5, <1>6, <1>7, StartOutcome
<1> QED BY <1>4, <1>8 DEF v, w

LEMMA StopFollows ==
  ASSUME Settled(session, FALSE), session.extern = "work", NEW fault,
         NEW t, t = DoStartExternStop(session, fault)
  PROVE  /\ ViewOf(session).extern # "ready"
         /\ \E o \in Contract!StopOutcomes(ViewOf(session)) : ViewOf(t) = o.view
<1> DEFINE s == session
           v == ViewOf(s)
           w == ViewOf(t)
<1>1. /\ Settled(t, FALSE)
      /\ t.waitError = IF s.waitError = "none" THEN "operation_aborted"
                                               ELSE s.waitError
      /\ t.waitHandler = FALSE
      /\ \/ /\ t.extern = "stopped" /\ t.intern = "stopped"
            /\ t.stopHandler = FALSE /\ s.intern \notin Ending
         \/ /\ t.extern = "stop" /\ t.intern \in Ending
            /\ t.stopHandler = TRUE /\ s.intern # "stopped"
  BY Stopped
<1>2. s \in Session /\ s.stopHandler = FALSE /\ t \in Session
  BY <1>1 DEF Settled, Answers, Session
<1>3. /\ v \in Contract!SessionView /\ v.extern = "work"
      /\ v.life = LifeOf(s.intern) /\ v.cause = s.waitError
      /\ v.stopping = FALSE
  BY <1>2, ViewTyped
<1>4. /\ w \in Contract!SessionView /\ w.extern = t.extern
      /\ w.life = LifeOf(t.intern) /\ w.cause = t.waitError
      /\ w.waiting = FALSE /\ w.stopping = t.stopHandler
  BY <1>1, <1>2, ViewTyped
<1> HIDE DEF v, w
<1>5. w.cause = StopCause(v)
  BY <1>1, <1>3, <1>4 DEF StopCause
<1>6. /\ w.life \in IF v.life = "running" THEN {"ending", "ended"} ELSE {v.life}
      /\ \/ w.life = "ended" /\ w.extern = "stopped" /\ w.stopping = v.stopping
         \/ w.life # "ended" /\ w.extern = "stop" /\ w.stopping = TRUE
  <2>1. /\ s.intern \in {"work", "shutdown", "stop", "stopped"}
        /\ t.intern \in {"work", "shutdown", "stop", "stopped"}
    BY <1>2 DEF Session
  <2>2. CASE t.extern = "stopped" /\ t.intern = "stopped" /\ t.stopHandler = FALSE
             /\ s.intern \notin Ending
    BY <1>3, <1>4, <2>1, <2>2 DEF LifeOf, Ending
  <2>3. CASE t.extern = "stop" /\ t.intern \in Ending /\ t.stopHandler = TRUE
             /\ s.intern # "stopped"
    BY <1>3, <1>4, <2>1, <2>3 DEF LifeOf, Ending
  <2> QED BY <1>1, <2>2, <2>3, Zenon
<1>7. \E o \in Contract!StopOutcomes(v) : w = o.view
  BY <1>3, <1>4, <1>5, <1>6, StopOutcome
<1> QED BY <1>3, <1>7 DEF v, w

LEMMA WaitFollows ==
  ASSUME Settled(session, FALSE), CanParkWait(session),
         NEW t, t = DoStartExternWait(session)
  PROVE  \E o \in Contract!WaitOutcomes(ViewOf(session)) : ViewOf(t) = o.view
<1> DEFINE s == session
           v == ViewOf(s)
           w == ViewOf(t)
<1>1. /\ s \in Session /\ s.extern = "work" /\ s.intern = "work"
      /\ s.waitHandler = FALSE
  BY DEF Settled, CanParkWait, Session
<1>2. t \in Session
  BY WaitParked DEF Settled
<1>3. /\ t.extern = s.extern /\ t.intern = s.intern /\ t.waitError = s.waitError
      /\ t.waitHandler = TRUE /\ t.stopHandler = s.stopHandler
  BY <1>1 DEF DoStartExternWait, Session
<1>4. /\ v \in Contract!SessionView /\ v.extern = "work"
      /\ v.life = LifeOf(s.intern) /\ v.cause = s.waitError
      /\ v.waiting = FALSE /\ v.stopping = s.stopHandler
  BY <1>1, ViewTyped
<1>5. /\ w \in Contract!SessionView /\ w.extern = v.extern
      /\ w.life = v.life /\ w.cause = v.cause
      /\ w.waiting = TRUE /\ w.stopping = v.stopping
  BY <1>1, <1>2, <1>3, <1>4, ViewTyped
<1> HIDE DEF v, w
<1>6. v.life = "running"
  BY <1>1, <1>4 DEF LifeOf
<1>7. \E o \in Contract!WaitOutcomes(v) : w = o.view
  BY <1>4, <1>5, <1>6, WaitOutcome
<1> QED BY <1>7 DEF v, w

LEMMA FreshViewTyped ==
  /\ Contract!FreshView \in Contract!SessionView
  /\ Contract!FreshView.extern = "ready" /\ Contract!FreshView.life = "running"
  /\ Contract!FreshView.cause = "none" /\ Contract!FreshView.waiting = FALSE
  /\ Contract!FreshView.stopping = FALSE
BY DEF Contract!FreshView, Contract!SessionView, Contract!Cause

(***************************************************************************)
(* A session that is ready, whether new or reset, is seen as a fresh one.  *)
(***************************************************************************)
LEMMA ReadyIsFresh ==
  ASSUME NEW s, Settled(s, FALSE), s.extern = "ready"
  PROVE  ViewOf(s) = Contract!FreshView
<1> DEFINE v == ViewOf(s)
<1>1. /\ s \in Session /\ s.intern = "work" /\ s.waitError = "none"
      /\ s.waitHandler = FALSE /\ s.stopHandler = FALSE
  BY DEF Settled, Answers, Session
<1>2. /\ v \in Contract!SessionView /\ v.extern = "ready"
      /\ v.life = LifeOf(s.intern) /\ v.cause = "none"
      /\ v.waiting = FALSE /\ v.stopping = FALSE
  BY <1>1, ViewTyped
<1>3. LifeOf(s.intern) = "running"
  BY <1>1 DEF LifeOf
<1> HIDE DEF v
<1>4. v = Contract!FreshView
  BY <1>2, <1>3, FreshViewTyped, SameView
<1> QED BY <1>4 DEF v

LEMMA StepFollows ==
  ASSUME Settled(session, FALSE), [Next]_session
  PROVE  [Contract!Next]_View
<1>1. Settled(session', FALSE)
  BY NextSettled DEF IInv
<1>2. session \in Session /\ session' \in Session
  BY <1>1 DEF Settled
<1>3. View = ViewOf(session) /\ View' = ViewOf(session')
  BY <1>2, Viewed
<1>4. CASE Connect
  <2>1. session.extern = "ready" /\ session'.extern = "ready"
    BY <1>2, <1>4 DEF Connect, Session
  <2> QED BY <1>1, <1>3, <2>1, ReadyIsFresh
<1>5. CASE ExternStart
  <2>1. Contract!Start
    BY <1>3, <1>5, StartFollows
    DEF ExternStart, Contract!Start, Contract!MovesTo, View
  <2> QED BY <2>1 DEF Contract!Next
<1>6. CASE ExternStop
  <2>1. Contract!Stop
    BY <1>3, <1>6, StopFollows
    DEF ExternStop, Contract!Stop, Contract!MovesTo, View
  <2> QED BY <2>1 DEF Contract!Next
<1>7. CASE ExternWait
  <2>1. Contract!Wait
    BY <1>3, <1>7, WaitFollows
    DEF ExternWait, Contract!Wait, Contract!MovesTo, View
  <2> QED BY <2>1 DEF Contract!Next
<1>8. CASE Reset
  <2>1. session'.extern = "ready"
    BY <1>2, <1>8 DEF Reset, DoReset, Session
  <2>2. View' = Contract!FreshView
    BY <1>1, <1>3, <2>1, ReadyIsFresh
  <2>3. /\ session.extern \in {"ready", "stopped"}
        /\ ~session.waitHandler /\ ~session.stopHandler
    BY <1>8 DEF Reset, Settled, Answers
  <2>4. Contract!CanReset(View)
    BY <1>2, <1>3, <2>3, ViewTyped DEF Contract!CanReset
  <2>5. Contract!Reset
    BY <2>2, <2>4 DEF Contract!Reset, View
  <2> QED BY <2>5 DEF Contract!Next
<1>9. CASE HandleRead \/ HandleWrite \/ HandleTimer
  <2>1. Moves(session, session', Causes)
    BY <1>9, CompletionLands DEF Lands
  <2>2. \/ View' = View
        \/ \E o \in Contract!InternalOutcomes(View, Contract!EndCause) :
             View' = o.view
    BY <1>2, <1>3, <2>1, CompletionsFollow
  <2>3. View' = View \/ Contract!Internal
    BY <2>2 DEF Contract!Internal, Contract!MovesTo, View
  <2> QED BY <2>3 DEF Contract!Next
<1>10. CASE UNCHANGED session
  BY <1>3, <1>10
<1> QED BY <1>4, <1>5, <1>6, <1>7, <1>8, <1>9, <1>10 DEF Next

(***************************************************************************)
(* The session implements its contract: what its user, the session         *)
(* manager, sees of it moves only by the outcomes of SessionContract.      *)
(***************************************************************************)
THEOREM Implements == Spec => ImplementsContract
<1>1. Init => Contract!Init
  <2> SUFFICES ASSUME Init PROVE Contract!Init
    OBVIOUS
  <2>1. Settled(session, FALSE) /\ session.extern = "ready"
    <3>1. Settled(session, FALSE)
      BY InitSettled DEF IInv
    <3>2. PICK timeout \in Timeouts : session = NewSession(timeout)
      BY DEF Init
    <3> QED BY <3>1, <3>2 DEF NewSession
  <2>2. session \in Session
    BY <2>1 DEF Settled
  <2>3. Life = LifeOf(session.intern)
    BY <2>2 DEF Life, LifeOf, Ending, Session
  <2>4. View = Contract!FreshView
    BY <2>1, <2>3, ReadyIsFresh DEF View, ViewOf
  <2> QED BY <2>4 DEF Contract!Init, View
<1>2. IInv /\ [Next]_session => [Contract!Next]_View
  BY StepFollows DEF IInv
<1> QED BY <1>1, <1>2, Invariant, PTL DEF Spec, ImplementsContract, Contract!Spec, View

-----------------------------------------------------------------------------
(***************************************************************************)
(* The stream and the timer: the echo is the peer's stream byte for byte,  *)
(* and a session that works or shuts down has a transfer in flight and the *)
(* timer on it.                                                            *)
(***************************************************************************)

(* What the buffer holds. *)

(***************************************************************************)
(* The filled cells hold, in the order of the ring, the bytes received and *)
(* not yet echoed.                                                         *)
(***************************************************************************)
Held(s) ==
  /\ s.received = s.echoed + s.buffer.filledSize
  /\ \A j \in 1 .. s.buffer.filledSize :
       s.cells[Forward(s.buffer.filledStart, j - 1)] = s.echoed + j

(***************************************************************************)
(* What EchoFaithful says.                                                 *)
(***************************************************************************)
Sound(s) ==
  /\ s.inOrder /\ s.echoed <= s.received
  /\ s.fin /\ s.waitError = "eof" => s.echoed = s.received

(***************************************************************************)
(* The stream through a session at work or shutting down.  Once the writer *)
(* has stopped the buffer is only a place to read into.                    *)
(***************************************************************************)
Flow(s) ==
  /\ Sound(s)
  /\ s.write # "stopped" => Held(s)
  /\ s.fin => s.write = "stopped" /\ s.intern # "work"
  /\ s.waitError = "eof" => s.read = "stopped"

-----------------------------------------------------------------------------
(* What the timer watches. *)

Watch(s) ==
  /\ s.timer \in {"ready", "in_progress"}
  /\ s.timer = "in_progress" => s.hasTimeout
  /\ s.hasTimeout /\ s.timerTurned => s.timer = "in_progress"
  /\ s.timer = "in_progress" /\ ~s.timerWaitCancelled => s.quiet

\* No activity of a working session has stopped.
Open(s) == s.intern = "work" => s.read # "stopped" /\ s.write # "stopped"

TimerOn(s) == s.hasTimeout => s.timer = "in_progress" /\ s.timerTurned

Moving(s) == "in_progress" \in {s.read, s.write}

(***************************************************************************)
(* A session whose stream is sound; and, as long as it is at work or       *)
(* shutting down, whose buffer holds what is to be echoed, and which is    *)
(* watched from its start on. This is the invariant of EchoSession that    *)
(* its two properties below follow from.                                   *)
(***************************************************************************)
Good(s) ==
  /\ Sound(s)
  /\ s.intern \in {"work", "shutdown"} =>
       /\ Flow(s) /\ Watch(s) /\ Open(s)
       /\ s.extern # "ready" => Moving(s) /\ TimerOn(s)
-----------------------------------------------------------------------------
(* The operators that do not touch the stream. *)

\* The domain of a session is all that its members need to be told apart.
Member == {"hasTimeout", "extern", "intern", "read", "write", "timer",
           "timerWaitCancelled", "timerTurned", "pending", "buffer", "readOp",
           "writeOp", "waitError", "waitHandler", "stopHandler", "socket", "fin",
           "cells", "received", "echoed", "inOrder", "quiet", "owed"}

IsSession(s) == DOMAIN s = Member

SameStream(s, t) ==
  /\ t.buffer = s.buffer /\ t.cells = s.cells /\ t.inOrder = s.inOrder
  /\ t.received = s.received /\ t.echoed = s.echoed /\ t.fin = s.fin

SameTimer(s, t) ==
  /\ t.hasTimeout = s.hasTimeout /\ t.timer = s.timer /\ t.quiet = s.quiet
  /\ t.timerWaitCancelled = s.timerWaitCancelled /\ t.timerTurned = s.timerTurned

\* The end of the work changes nothing of the stream, and tells of no end of it.
Halted(s, t) ==
  /\ SameStream(s, t) /\ t.intern \in {"stop", "stopped"}
  /\ t.waitError = s.waitError \/ t.waitError # "eof"

(***************************************************************************)
(* A session has the members of its class.                                 *)
(***************************************************************************)
LEMMA SessionIs ==
  ASSUME NEW s \in Session
  PROVE  IsSession(s)
BY DEF Session, IsSession, Member

(***************************************************************************)
(* Going on with a stop, or ending it, leaves the stream as it is.         *)
(***************************************************************************)
LEMMA StopGoesOn ==
  ASSUME NEW s, IsSession(s), s.intern = "stop"
  PROVE  Halted(s, ContinueStop(s))
BY DEF ContinueStop, CompleteExternStop, Halted, SameStream, IsSession, Member

(***************************************************************************)
(* So does beginning one, for every reason but the end of the stream.      *)
(***************************************************************************)
LEMMA StopHalts ==
  ASSUME NEW s, IsSession(s), NEW error, error # "eof", NEW fault
  PROVE  Halted(s, StartStop(s, error, fault))
<1> DEFINE s1 == [s EXCEPT !.intern = "stop", !.socket = "closed"]
           s2 == CancelTimerWait(s1, "stop_cancel", fault)
           failed == "close" \in fault \/ CancelFails(s1, "stop_cancel", fault)
           cause == IF error = "none" /\ failed THEN "error" ELSE error
           s3 == [s2 EXCEPT
                    !.read  = IF @ = "wait" THEN "stopped" ELSE @,
                    !.write = IF @ = "wait" THEN "stopped" ELSE @,
                    !.timer = IF @ = "ready" THEN "stopped" ELSE @]
           told == IF s.extern = "work" THEN CompleteExternWait(s3, cause) ELSE s3
<1>0. StartStop(s, error, fault) = ContinueStop(told)
  BY DEF StartStop
<1>1. IsSession(s1) /\ SameStream(s, s1) /\ s1.intern = "stop" /\ s1.waitError = s.waitError
  BY DEF IsSession, SameStream, Member
<1> HIDE DEF s1
<1>2. IsSession(s2) /\ SameStream(s, s2) /\ s2.intern = "stop" /\ s2.waitError = s.waitError
  BY <1>1 DEF IsSession, SameStream, Member, CancelTimerWait
<1> HIDE DEF s2
<1>3. IsSession(s3) /\ SameStream(s, s3) /\ s3.intern = "stop" /\ s3.waitError = s.waitError
  BY <1>2 DEF IsSession, SameStream, Member
<1>4. cause # "eof"
  OBVIOUS
<1> HIDE DEF s3, cause
<1>5. /\ IsSession(told) /\ SameStream(s, told) /\ told.intern = "stop"
      /\ told.waitError = s.waitError \/ told.waitError # "eof"
  BY <1>3, <1>4 DEF IsSession, SameStream, Member, CompleteExternWait
<1> HIDE DEF told
<1>6. Halted(told, ContinueStop(told))
  BY <1>5, StopGoesOn
<1> QED BY <1>0, <1>5, <1>6 DEF Halted, SameStream

\* What the operators below need to know of a session.
Sane(s) ==
  /\ IsSession(s) /\ s.buffer \in Buffer /\ Complementary(s.buffer)
  /\ s.read \in Activity /\ s.write \in Activity /\ DOMAIN s.cells = Cell
  /\ s.received \in Nat /\ s.echoed \in Nat

\* What the user sees, and the state, stay as they are.
SameState(s, t) ==
  t.extern = s.extern /\ t.intern = s.intern /\ t.waitError = s.waitError

\* An activity at rest may have begun another operation.
Starts(s, t) ==
  /\ Sane(t) /\ SameStream(s, t) /\ SameTimer(s, t) /\ SameState(s, t)
  /\ t.read = s.read \/ (s.read = "wait" /\ t.read = "in_progress")
  /\ t.write = s.write \/ (s.write = "wait" /\ t.write = "in_progress")

(***************************************************************************)
(* A settled session is what the operators need.                           *)
(***************************************************************************)
LEMMA SettledSane ==
  ASSUME NEW s \in Session, Complementary(s.buffer)
  PROVE  Sane(s)
<1>1. DOMAIN s.cells = Cell
  BY DEF Session
<1> QED BY <1>1, SessionIs DEF Sane, Session

(***************************************************************************)
(* What the buffer holds depends on the stream only.                       *)
(***************************************************************************)
LEMMA HeldAlike ==
  ASSUME NEW s, NEW t, SameStream(s, t)
  PROVE  Held(s) <=> Held(t)
BY DEF SameStream, Held

(***************************************************************************)
(* An operation that was started changes nothing of the stream, the timer  *)
(* and the openness of a session.                                          *)
(***************************************************************************)
LEMMA StartedAlike ==
  ASSUME NEW s, NEW t, Starts(s, t)
  PROVE  (Flow(s) => Flow(t)) /\ (Watch(s) => Watch(t)) /\ (Open(s) => Open(t))
<1>1. Held(s) <=> Held(t)
  BY HeldAlike DEF Starts
<1>2. Flow(s) => Flow(t)
  BY <1>1 DEF Starts, SameStream, SameState, Flow, Sound
<1> QED BY <1>2 DEF Starts, SameTimer, SameState, Watch, Open

(***************************************************************************)
(* A session that has left its work needs no more than a sound stream.     *)
(***************************************************************************)
LEMMA HaltedGood ==
  ASSUME NEW s, Sound(s), NEW t, Halted(s, t)
  PROVE  Good(t)
BY DEF Sound, Halted, Good, SameStream

(***************************************************************************)
(* The buffer offers no room only if there is none, and no data only if    *)
(* there is none.                                                          *)
(***************************************************************************)
LEMMA OfferedNone ==
  ASSUME NEW b \in Buffer, NEW max \in Nat \ {0}
  PROVE  /\ Prepared(b, max) = <<>> => b.nonfilledSize = 0
         /\ Data(b, max) = <<>> => b.filledSize = 0
<1>1. /\ b.filledStart \in Cell /\ b.filledSize \in 0 .. BufferSize
      /\ b.nonfilledStart \in Cell /\ b.nonfilledSize \in 0 .. BufferSize
  BY DEF Buffer
<1>2. /\ Smaller(b.filledSize, max) \in 0 .. BufferSize
      /\ Smaller(b.nonfilledSize, max) \in 0 .. BufferSize
      /\ Smaller(b.filledSize, max) = 0 => b.filledSize = 0
      /\ Smaller(b.nonfilledSize, max) = 0 => b.nonfilledSize = 0
  BY <1>1, BufferSizeAssumption DEF Smaller
<1> QED BY <1>1, <1>2, BlocksLength DEF Prepared, Data

(***************************************************************************)
(* A reader at rest with room begins a read.                               *)
(***************************************************************************)
LEMMA ReadStarts ==
  ASSUME NEW s, Sane(s), NEW max
  PROVE  LET t == ReadMore(s, max)
         IN  /\ Starts(s, t) /\ t.write = s.write
             /\ s.read = "wait" /\ Prepared(s.buffer, max) # <<>>
                  => t.read = "in_progress"
<1> DEFINE segs == Prepared(s.buffer, max)
           u == StartSocketRead(s, segs)
<1> HIDE DEF segs
<1>1. /\ IsSession(u) /\ SameStream(s, u) /\ SameTimer(s, u) /\ SameState(s, u)
      /\ u.read = "in_progress" /\ u.write = s.write
  BY DEF Sane, StartSocketRead, IsSession, Member, SameStream, SameTimer, SameState
<1> HIDE DEF u
<1>2. s.read = "wait" => Starts(s, u)
  BY <1>1 DEF Sane, Starts, SameStream, Activity
<1>3. Starts(s, s)
  BY DEF Starts, SameStream, SameTimer, SameState
<1> QED BY <1>1, <1>2, <1>3 DEF ReadMore, segs, u

(***************************************************************************)
(* A writer at rest with data begins a write; it stays at rest only for    *)
(* want of data.                                                           *)
(***************************************************************************)
LEMMA WriteStarts ==
  ASSUME NEW s, Sane(s)
  PROVE  LET t == WriteMore(s)
         IN  /\ Starts(s, t) /\ t.read = s.read
             /\ s.write = "wait" /\ Data(s.buffer, MaxTransfer) # <<>>
                  => t.write = "in_progress"
             /\ t.write = "wait" => Data(s.buffer, MaxTransfer) = <<>>
<1> DEFINE segs == Data(s.buffer, MaxTransfer)
           u == StartSocketWrite(s, segs)
<1> HIDE DEF segs
<1>1. /\ IsSession(u) /\ SameStream(s, u) /\ SameTimer(s, u) /\ SameState(s, u)
      /\ u.read = s.read /\ u.write = "in_progress"
  BY DEF Sane, StartSocketWrite, IsSession, Member, SameStream, SameTimer, SameState
<1> HIDE DEF u
<1>2. s.write = "wait" => Starts(s, u)
  BY <1>1 DEF Sane, Starts, SameStream, Activity
<1>3. Starts(s, s)
  BY DEF Starts, SameStream, SameTimer, SameState
<1> QED BY <1>1, <1>2, <1>3 DEF WriteMore, segs, u

(***************************************************************************)
(* continue_timer_wait leaves a session with a transfer in flight watched, *)
(* or stops it.                                                            *)
(***************************************************************************)
LEMMA TimerRuns ==
  ASSUME NEW s, IsSession(s), Flow(s), Watch(s), Open(s), Moving(s), NEW fault
  PROVE  Good(ContinueTimerWait(s, fault))
<1> DEFINE turned == [s EXCEPT !.timerWaitCancelled = TRUE, !.timerTurned = TRUE]
           armed == StartTimerWait(turned)
<1>0. Sound(s)
  BY DEF Flow
<1>1. CASE ~NeedsTimer(s)
  <2>1. TimerOn(s)
    BY <1>1 DEF NeedsTimer, TimerOn, Watch, Moving
  <2> QED BY <1>0, <1>1, <2>1 DEF ContinueTimerWait, Good
<1>2. CASE NeedsTimer(s) /\ "expires" \in fault
  BY <1>0, <1>2, StopHalts, HaltedGood DEF ContinueTimerWait
<1>3. CASE NeedsTimer(s) /\ "expires" \notin fault
  <2>1. /\ IsSession(turned) /\ SameStream(s, turned) /\ SameState(s, turned)
        /\ turned.read = s.read /\ turned.write = s.write
        /\ turned.timerWaitCancelled = TRUE /\ turned.timerTurned = TRUE
        /\ turned.hasTimeout = s.hasTimeout /\ turned.timer = s.timer
    BY DEF IsSession, Member, SameStream, SameState
  <2> HIDE DEF turned
  <2>2. /\ SameStream(s, armed) /\ SameState(s, armed)
        /\ armed.read = s.read /\ armed.write = s.write
        /\ armed.timerTurned = TRUE /\ armed.quiet = TRUE
        /\ armed.hasTimeout = s.hasTimeout /\ armed.timer = "in_progress"
    BY <2>1 DEF StartTimerWait, IsSession, Member, SameStream, SameState
  <2> HIDE DEF armed
  <2> DEFINE u == IF s.timer = "ready" THEN armed ELSE turned
  <2>3. ContinueTimerWait(s, fault) = u
    BY <1>3, <2>1 DEF ContinueTimerWait, armed, turned
  <2>4. /\ SameStream(s, u) /\ SameState(s, u) /\ u.read = s.read /\ u.write = s.write
        /\ u.timerTurned = TRUE /\ u.timer = "in_progress" /\ u.hasTimeout
        /\ u.quiet \/ u.timerWaitCancelled
    BY <1>3, <2>1, <2>2 DEF Watch, NeedsTimer
  <2> HIDE DEF u
  <2>5. Held(s) <=> Held(u)
    BY <2>4, HeldAlike
  <2>6. Flow(u)
    BY <2>4, <2>5 DEF Flow, Sound, SameStream, SameState
  <2>7. Watch(u) /\ Open(u) /\ Moving(u) /\ TimerOn(u)
    BY <2>4 DEF Watch, Open, Moving, TimerOn, SameState
  <2> QED BY <2>3, <2>6, <2>7 DEF Good, Flow
<1> QED BY <1>1, <1>2, <1>3

(***************************************************************************)
(* continue_work: a buffer is never without room and without data, so one  *)
(* transfer or the other is in flight afterwards.                          *)
(***************************************************************************)
LEMMA WorkGoesOn ==
  ASSUME NEW s, Sane(s), s.intern = "work", Flow(s), Watch(s), Open(s), NEW fault
  PROVE  Good(ContinueWork(s, fault))
<1> DEFINE s1 == ReadMore(s, MaxTransfer)
           s2 == WriteMore(s1)
<1>1. /\ Starts(s, s1) /\ s1.write = s.write
      /\ s.read = "wait" /\ Prepared(s.buffer, MaxTransfer) # <<>>
           => s1.read = "in_progress"
  BY ReadStarts
<1> HIDE DEF s1
<1>2. /\ Starts(s1, s2) /\ s2.read = s1.read
      /\ s1.write = "wait" /\ Data(s1.buffer, MaxTransfer) # <<>>
           => s2.write = "in_progress"
  BY <1>1, WriteStarts DEF Starts
<1> HIDE DEF s2
<1>3. Flow(s2) /\ Watch(s2) /\ Open(s2)
  BY <1>1, <1>2, StartedAlike
<1>4. Prepared(s.buffer, MaxTransfer) # <<>> \/ Data(s.buffer, MaxTransfer) # <<>>
  <2>1. ~(s.buffer.nonfilledSize = 0 /\ s.buffer.filledSize = 0)
    BY BufferSizeAssumption DEF Sane, Complementary
  <2> QED BY <2>1, OfferedNone, EchoSessionAssumption DEF Sane
<1>5. s1.buffer = s.buffer
  BY <1>1 DEF Starts, SameStream
<1>6. Moving(s2)
  BY <1>1, <1>2, <1>4, <1>5 DEF Moving, Sane, Activity, Open, Starts
<1>7. IsSession(s2)
  BY <1>2 DEF Starts, Sane
<1> QED BY <1>3, <1>6, <1>7, TimerRuns DEF ContinueWork, s1, s2


-----------------------------------------------------------------------------
(* The graceful shutdown. *)

(***************************************************************************)
(* The shutdown goes on with the timer, or had it running already.         *)
(***************************************************************************)
LEMMA TimerMaybeRuns ==
  ASSUME NEW s, IsSession(s), Flow(s), Watch(s), Open(s), Moving(s),
         NEW restart, restart \/ TimerOn(s), NEW fault
  PROVE  Good(MaybeTimer(s, restart, fault))
<1>1. CASE restart
  BY <1>1, TimerRuns DEF MaybeTimer
<1>2. CASE ~restart
  BY <1>2 DEF MaybeTimer, Good, Flow
<1> QED BY <1>1, <1>2

(***************************************************************************)
(* A writer at rest shuts the socket down, which is sound if everything    *)
(* read was written, or the stream of the peer has not ended.              *)
(***************************************************************************)
LEMMA WritingEnds ==
  ASSUME NEW s, Sane(s), s.intern = "shutdown", Flow(s), NEW fault,
         s.write = "wait" => s.waitError # "eof" \/ s.received = s.echoed
  PROVE  LET t == FinishWriting(s, fault)
         IN  /\ Sane(t) /\ Flow(t) /\ SameTimer(s, t) /\ SameState(s, t)
             /\ t.read = s.read /\ t.buffer = s.buffer
             /\ t.write = IF s.write = "wait" THEN "stopped" ELSE s.write
<1> DEFINE t == FinishWriting(s, fault)
           u == ShutdownSocket(s, fault)
           w == [u EXCEPT !.write = "stopped"]
<1>1. CASE s.write = "wait"
  <2>1. /\ IsSession(u) /\ u.fin \in {s.fin, TRUE} /\ u.buffer = s.buffer
        /\ u.cells = s.cells /\ u.inOrder = s.inOrder /\ u.received = s.received
        /\ u.echoed = s.echoed /\ SameTimer(s, u) /\ SameState(s, u)
        /\ u.read = s.read
    BY DEF Sane, ShutdownSocket, IsSession, Member, SameTimer, SameState
  <2> HIDE DEF u
  <2>2. /\ IsSession(w) /\ w.fin \in {s.fin, TRUE} /\ w.buffer = s.buffer
        /\ w.cells = s.cells /\ w.inOrder = s.inOrder /\ w.received = s.received
        /\ w.echoed = s.echoed /\ SameTimer(s, w) /\ SameState(s, w)
        /\ w.read = s.read /\ w.write = "stopped"
    <3>1. /\ IsSession(w) /\ w.fin = u.fin /\ w.buffer = u.buffer
          /\ w.cells = u.cells /\ w.inOrder = u.inOrder /\ w.received = u.received
          /\ w.echoed = u.echoed /\ SameTimer(u, w) /\ SameState(u, w)
          /\ w.read = u.read /\ w.write = "stopped"
      BY <2>1 DEF IsSession, Member, SameTimer, SameState
    <3> HIDE DEF w
    <3> QED BY <2>1, <3>1 DEF SameTimer, SameState
  <2>3. t = w
    BY <1>1 DEF FinishWriting, u
  <2> HIDE DEF w, t
  <2>4. Sane(w)
    BY <2>2 DEF Sane, Activity
  <2>5. Flow(w)
    BY <1>1, <2>2 DEF Flow, Sound, SameState
  <2> QED BY <1>1, <2>2, <2>3, <2>4, <2>5 DEF t
<1>2. CASE s.write # "wait"
  BY <1>2 DEF FinishWriting, SameTimer, SameState
<1> QED BY <1>1, <1>2

(***************************************************************************)
(* continue_shutdown: a shutdown that goes on has a transfer in flight,    *)
(* and is over only after the writer has nothing left.                     *)
(***************************************************************************)
LEMMA ShutdownGoesOn ==
  ASSUME NEW s, Sane(s), s.intern = "shutdown", Flow(s), Watch(s),
         NEW restart, restart \/ TimerOn(s), NEW fault
  PROVE  Good(ContinueShutdown(s, restart, fault))
<1> DEFINE s1 == FinishWriting(s, fault)
<1>0. Sound(s) /\ Good(StartStop(s, "error", fault))
  BY StopHalts, HaltedGood DEF Flow, Sane
<1>1. ASSUME s.read # "stopped"
      PROVE  /\ Sane(s1) /\ Flow(s1) /\ SameTimer(s, s1) /\ SameState(s, s1)
             /\ s1.read = s.read /\ s1.buffer = s.buffer
             /\ s1.write = IF s.write = "wait" THEN "stopped" ELSE s.write
  <2>1. s.waitError # "eof"
    BY <1>1 DEF Flow
  <2> QED BY <2>1, WritingEnds
<1> HIDE DEF s1
<1>2. CASE s.read = "wait"
  <2> DEFINE empty == [s1 EXCEPT !.buffer = EmptyBuffer]
             s2 == IF s1.write = "stopped" THEN empty ELSE s1
             s3 == ReadMore(s2, BufferSize)
  <2>1. /\ Sane(s2) /\ Flow(s2) /\ SameTimer(s, s2) /\ SameState(s, s2)
        /\ s2.read = "wait" /\ s2.write = s1.write
        /\ s2.write = "stopped" => s2.buffer = EmptyBuffer
    <3>1. CASE s1.write = "stopped"
      <4>1. /\ IsSession(empty) /\ empty.buffer = EmptyBuffer
            /\ empty.cells = s1.cells /\ empty.inOrder = s1.inOrder
            /\ empty.received = s1.received /\ empty.echoed = s1.echoed
            /\ empty.fin = s1.fin /\ SameTimer(s1, empty) /\ SameState(s1, empty)
            /\ empty.read = s1.read /\ empty.write = s1.write
        BY <1>1, <1>2 DEF Sane, IsSession, Member, SameTimer, SameState
      <4> HIDE DEF empty
      <4>2. Sane(empty)
        BY <1>1, <1>2, <4>1, EmptyComplementary DEF Sane
      <4>3. Flow(empty)
        BY <1>1, <1>2, <3>1, <4>1 DEF Flow, Sound, SameState
      <4> QED BY <1>1, <1>2, <3>1, <4>1, <4>2, <4>3 DEF SameTimer, SameState
    <3>2. CASE s1.write # "stopped"
      BY <1>1, <1>2, <3>2
    <3> QED BY <3>1, <3>2
  <2> HIDE DEF s2
  <2>2. /\ Starts(s2, s3) /\ s3.write = s2.write
        /\ Prepared(s2.buffer, BufferSize) # <<>> => s3.read = "in_progress"
    BY <2>1, ReadStarts
  <2> HIDE DEF s3
  <2>3. Moving(s3)
    <3>1. CASE s2.write = "stopped"
      BY <2>1, <2>2, <3>1, RoomAtFirst, BufferSizeAssumption DEF Moving
    <3>2. CASE s2.write # "stopped"
      BY <1>1, <1>2, <2>1, <2>2, <3>2 DEF Moving, Sane, Activity
    <3> QED BY <3>1, <3>2
  <2>4. IsSession(s3) /\ Flow(s3) /\ Watch(s3) /\ Open(s3) /\ (TimerOn(s) => TimerOn(s3))
    <3>1. Watch(s2) /\ Open(s2) /\ (TimerOn(s) => TimerOn(s2))
      BY <2>1 DEF SameTimer, SameState, Watch, Open, TimerOn
    <3> QED BY <2>1, <2>2, <3>1, StartedAlike DEF Starts, Sane, SameTimer, TimerOn
  <2>5. Good(MaybeTimer(s3, restart, fault))
    BY <2>3, <2>4, TimerMaybeRuns
  <2>6. ContinueShutdown(s, restart, fault) =
          IF s.write = "wait" /\ ShutdownFails(s, fault)
            THEN StartStop(s, "error", fault) ELSE MaybeTimer(s3, restart, fault)
    BY <1>2 DEF ContinueShutdown, ContinueShutdownAtReadWait, s1, s2, s3
  <2> QED BY <1>0, <2>5, <2>6
<1>3. CASE s.read = "in_progress"
  <2>1. Moving(s1) /\ Watch(s1) /\ Open(s1) /\ (TimerOn(s) => TimerOn(s1))
    BY <1>1, <1>3 DEF Moving, SameTimer, SameState, Watch, Open, TimerOn
  <2>2. IsSession(s1) /\ Flow(s1)
    BY <1>1, <1>3 DEF Sane
  <2>3. Good(MaybeTimer(s1, restart, fault))
    BY <2>1, <2>2, TimerMaybeRuns
  <2>4. ContinueShutdown(s, restart, fault) =
          IF s.write = "wait" /\ ShutdownFails(s, fault)
            THEN StartStop(s, "error", fault) ELSE MaybeTimer(s1, restart, fault)
    BY <1>3 DEF ContinueShutdown, ContinueShutdownAtReadInProgress, s1
  <2> QED BY <1>0, <2>3, <2>4
<1>4. CASE s.read = "stopped"
  <2> DEFINE w1 == WriteMore(s)
             w2 == FinishWriting(w1, fault)
  <2>1. /\ Starts(s, w1) /\ w1.read = s.read
        /\ w1.write = "wait" => Data(s.buffer, MaxTransfer) = <<>>
    BY WriteStarts
  <2> HIDE DEF w1
  <2>2. /\ Sane(w1) /\ Flow(w1) /\ w1.intern = "shutdown" /\ Watch(w1)
        /\ w1.buffer = s.buffer /\ (TimerOn(s) => TimerOn(w1))
    BY <2>1, StartedAlike DEF Starts, SameState, SameStream, SameTimer, TimerOn
  <2>3. w1.write = "wait" => w1.received = w1.echoed
    <3>1. w1.write = "wait" => w1.buffer.filledSize = 0
      BY <2>1, <2>2, OfferedNone, EchoSessionAssumption DEF Sane
    <3>2. w1.write = "wait" => w1.received = w1.echoed + w1.buffer.filledSize
      BY <2>2 DEF Flow, Held
    <3> QED BY <2>2, <3>1, <3>2 DEF Sane
  <2>4. /\ Sane(w2) /\ Flow(w2) /\ SameTimer(w1, w2) /\ SameState(w1, w2)
        /\ w2.write = IF w1.write = "wait" THEN "stopped" ELSE w1.write
    BY <2>2, <2>3, WritingEnds
  <2> HIDE DEF w2
  <2>5. ContinueShutdown(s, restart, fault) =
          IF w2.write = "stopped" THEN StartStop(w2, "none", fault)
                                  ELSE MaybeTimer(w2, restart, fault)
    BY <1>4 DEF ContinueShutdown, ContinueShutdownAtReadStopped, w1, w2
  <2>6. Good(StartStop(w2, "none", fault))
    BY <2>4, StopHalts, HaltedGood DEF Flow, Sane
  <2>7. ASSUME w2.write # "stopped"
        PROVE  Good(MaybeTimer(w2, restart, fault))
    <3>1. Moving(w2)
      BY <2>2, <2>4, <2>7 DEF Moving, Sane, Activity
    <3>2. Watch(w2) /\ Open(w2) /\ (TimerOn(w1) => TimerOn(w2))
      BY <2>2, <2>4 DEF SameTimer, SameState, Watch, Open, TimerOn
    <3> QED BY <2>2, <2>4, <3>1, <3>2, TimerMaybeRuns DEF Sane
  <2> QED BY <2>5, <2>6, <2>7
<1> QED BY <1>2, <1>3, <1>4 DEF Sane, Activity

(***************************************************************************)
(* start_shutdown, at the end of the stream (the reader has stopped) or    *)
(* for the user (the timer is on).                                         *)
(***************************************************************************)
LEMMA ShutdownStarts ==
  ASSUME NEW s, Sane(s), s.intern = "work", Flow(s), Watch(s),
         NEW error, error = "eof" => s.read = "stopped",
         NEW restart, restart \/ TimerOn(s), NEW fault
  PROVE  Good(StartShutdown(s, error, restart, fault))
<1> DEFINE s1 == [s EXCEPT !.intern = "shutdown"]
           s2 == IF s.extern = "work" THEN CompleteExternWait(s1, error) ELSE s1
<1>1. /\ IsSession(s1) /\ SameStream(s, s1) /\ SameTimer(s, s1)
      /\ s1.intern = "shutdown" /\ s1.waitError = s.waitError
      /\ s1.read = s.read /\ s1.write = s.write
  BY DEF Sane, IsSession, Member, SameStream, SameTimer
<1> HIDE DEF s1
<1>2. /\ IsSession(s2) /\ SameStream(s, s2) /\ SameTimer(s, s2)
      /\ s2.intern = "shutdown" /\ s2.waitError \in {s.waitError, error}
      /\ s2.read = s.read /\ s2.write = s.write
  BY <1>1 DEF IsSession, Member, SameStream, SameTimer, CompleteExternWait
<1>3. StartShutdown(s, error, restart, fault) = ContinueShutdown(s2, restart, fault)
  BY DEF StartShutdown, s1
<1> HIDE DEF s2
<1>4. Sane(s2)
  BY <1>2 DEF Sane, SameStream
<1>5. Flow(s2)
  <2>1. Held(s) <=> Held(s2)
    BY <1>2, HeldAlike
  <2>2. ~s.fin
    BY DEF Flow
  <2> QED BY <1>2, <2>1, <2>2 DEF Flow, Sound, SameStream
<1>6. Watch(s2) /\ (TimerOn(s) => TimerOn(s2))
  BY <1>2 DEF Watch, TimerOn, SameTimer
<1> QED BY <1>2, <1>3, <1>4, <1>5, <1>6, ShutdownGoesOn

-----------------------------------------------------------------------------
(* Bytes move. *)

(***************************************************************************)
(* A read of n bytes into cells of its own fills the first n cells of the  *)
(* room and leaves the data as it was.                                     *)
(***************************************************************************)
LEMMA ReadFills ==
  ASSUME NEW b \in Buffer, Complementary(b), NEW op, ReadOwns(b, op),
         NEW n \in 0 .. TotalLen(op), NEW mem, DOMAIN mem = Cell, NEW v
  PROVE  LET after == Stored(mem, op, n, v)
         IN  /\ n \in 0 .. b.nonfilledSize /\ DOMAIN after = Cell
             /\ \A i \in 1 .. n :
                  after[Forward(b.nonfilledStart, i - 1)] = v[i]
             /\ \A j \in 1 .. b.filledSize :
                  after[Forward(b.filledStart, j - 1)]
                    = mem[Forward(b.filledStart, j - 1)]
<1> DEFINE after == Stored(mem, op, n, v)
           k == TotalLen(op)
<1>1. /\ b.filledStart \in Cell /\ b.filledSize \in 0 .. BufferSize
      /\ b.nonfilledStart \in Cell /\ b.nonfilledSize \in 0 .. BufferSize
  BY DEF Buffer
<1>2. k \in 1 .. b.nonfilledSize /\ op = Blocks(b.nonfilledStart, k)
  <2>1. k \in 1 .. b.nonfilledSize /\ op = Prepared(b, k)
    BY DEF ReadOwns
  <2> HIDE DEF k
  <2> QED BY <1>1, <2>1, OfferedBlocks
<1>3. k \in 0 .. BufferSize /\ n \in 0 .. k /\ n \in 0 .. b.nonfilledSize
  BY <1>1, <1>2, BufferSizeAssumption
<1> HIDE DEF k
<1>4. /\ \A i \in 1 .. n :
           after[Forward(b.nonfilledStart, i - 1)] = v[i]
      /\ \A c \in Cell :
           (\A i \in 1 .. n : c # Forward(b.nonfilledStart, i - 1))
             => after[c] = mem[c]
  BY <1>1, <1>2, <1>3, StoredCells
<1>5. ASSUME NEW j \in 1 .. b.filledSize
      PROVE  after[Forward(b.filledStart, j - 1)]
               = mem[Forward(b.filledStart, j - 1)]
  <2>1. j - 1 \in 0 .. BufferSize
    BY <1>1, BufferSizeAssumption
  <2>2. Forward(b.filledStart, j - 1) \in Cell
    BY <1>1, <2>1, ForwardInCell
  <2>3. \A i \in 1 .. n : Forward(b.nonfilledStart, i - 1)
                            # Forward(b.filledStart, j - 1)
    <3>1. TAKE i \in 1 .. n
    <3>2. i \in 1 .. b.nonfilledSize
      BY <1>1, <1>3
    <3> QED BY <1>1, <3>2, SidesApart
  <2> QED BY <1>4, <2>2, <2>3
<1>6. DOMAIN after = Cell
  BY DEF Stored
<1> QED BY <1>3, <1>4, <1>5, <1>6

(***************************************************************************)
(* consume after a read: the bytes received go behind those held.          *)
(***************************************************************************)
LEMMA ConsumedFlows ==
  ASSUME NEW s, Sane(s), Flow(s), NEW op, ReadOwns(s.buffer, op),
         NEW n \in 0 .. TotalLen(op), s.waitError # "eof"
  PROVE  LET t == ConsumeRead(s, op, n)
         IN  /\ Sane(t) /\ Flow(t) /\ SameTimer(s, t) /\ SameState(s, t)
             /\ t.read = s.read /\ t.write = s.write
<1> DEFINE b == s.buffer
           v == [j \in 1 .. n |-> s.received + j]
           mem == Stored(s.cells, op, n, v)
           c == Consume(b, n)
           t == [s EXCEPT !.buffer = c, !.cells = mem, !.received = s.received + n]
<1>1. /\ b \in Buffer /\ Complementary(b) /\ DOMAIN s.cells = Cell
      /\ s.received \in Nat /\ s.echoed \in Nat
  BY DEF Sane
<1>2. /\ b.filledStart \in Cell /\ b.filledSize \in 0 .. BufferSize
      /\ b.nonfilledSize \in 0 .. BufferSize /\ b.nonfilledStart \in Cell
      /\ b.nonfilledStart = Forward(b.filledStart, b.filledSize)
      /\ b.filledSize + b.nonfilledSize = BufferSize
  BY <1>1 DEF Buffer, Complementary
<1>3. /\ n \in 0 .. b.nonfilledSize /\ DOMAIN mem = Cell
      /\ \A i \in 1 .. n : mem[Forward(b.nonfilledStart, i - 1)] = v[i]
      /\ \A j \in 1 .. b.filledSize :
           mem[Forward(b.filledStart, j - 1)] = s.cells[Forward(b.filledStart, j - 1)]
  <2> HIDE DEF v
  <2> QED BY <1>1, ReadFills
<1>4. /\ c \in Buffer /\ Complementary(c)
      /\ c.filledStart = b.filledStart /\ c.filledSize = b.filledSize + n
  <2>1. c \in Buffer /\ Complementary(c)
    BY <1>1, <1>3, ConsumeComplementary
  <2>2. c.filledStart = b.filledStart /\ c.filledSize = b.filledSize + n
    BY <1>1 DEF Consume, Buffer
  <2> QED BY <2>1, <2>2
<1>5. ConsumeRead(s, op, n) = t
  BY DEF ConsumeRead
<1>6. \A i \in 1 .. n : v[i] = s.received + i
  OBVIOUS
<1> HIDE DEF v, mem, c
<1>7. /\ IsSession(t) /\ t.buffer = c /\ t.cells = mem /\ t.received = s.received + n
      /\ t.echoed = s.echoed /\ t.inOrder = s.inOrder /\ t.fin = s.fin
      /\ SameTimer(s, t) /\ SameState(s, t) /\ t.read = s.read /\ t.write = s.write
  BY DEF Sane, IsSession, Member, SameTimer, SameState
<1> HIDE DEF t
<1>8. n \in Nat /\ s.received + n \in Nat
  BY <1>1, <1>2, <1>3
<1>9. Sane(t)
  BY <1>1, <1>3, <1>4, <1>7, <1>8 DEF Sane
<1>10. ASSUME Held(s) PROVE Held(t)
  <2>1. /\ s.received = s.echoed + b.filledSize
        /\ \A j \in 1 .. b.filledSize :
             s.cells[Forward(b.filledStart, j - 1)] = s.echoed + j
    BY <1>10 DEF Held
  <2>2. t.received = t.echoed + t.buffer.filledSize
    BY <1>1, <1>2, <1>4, <1>7, <1>8, <2>1
  <2>3. ASSUME NEW j \in 1 .. b.filledSize + n
        PROVE  mem[Forward(b.filledStart, j - 1)] = s.echoed + j
    <3>1. CASE j <= b.filledSize
      BY <1>2, <1>3, <2>1, <3>1
    <3>2. CASE ~(j <= b.filledSize)
      <4> DEFINE i == j - b.filledSize
      <4>1. /\ i \in 1 .. n /\ i - 1 \in Nat /\ b.filledSize \in Nat
            /\ b.filledSize + (i - 1) = j - 1 /\ b.filledSize + (i - 1) <= BufferSize
            /\ s.received + i = s.echoed + j
        BY <1>1, <1>2, <1>3, <2>1, <3>2
      <4> HIDE DEF i
      <4>2. Forward(b.nonfilledStart, i - 1) = Forward(b.filledStart, b.filledSize + (i - 1))
        BY <1>2, <4>1, ForwardSplits
      <4> QED BY <1>3, <1>6, <4>1, <4>2
    <3> QED BY <3>1, <3>2
  <2> QED BY <1>4, <1>7, <2>2, <2>3 DEF Held
<1>11. Flow(t)
  BY <1>1, <1>7, <1>8, <1>10 DEF Flow, Sound, SameState
<1> QED BY <1>5, <1>7, <1>9, <1>11

(***************************************************************************)
(* commit after a write: the bytes written were the next ones to be        *)
(* echoed, and those behind them are held still.                           *)
(***************************************************************************)
LEMMA CommittedFlows ==
  ASSUME NEW s, Sane(s), Flow(s), s.write = "wait", NEW op, WriteOwns(s.buffer, op),
         NEW n \in 0 .. TotalLen(op)
  PROVE  LET t == CommitWritten(s, op, n)
         IN  /\ Sane(t) /\ Flow(t) /\ SameTimer(s, t) /\ SameState(s, t)
             /\ t.read = s.read /\ t.write = s.write
<1> DEFINE b == s.buffer
           c == Commit(b, n)
           next == \A j \in 1 .. n : s.cells[CellAt(op, j)] = s.echoed + j
           t == [s EXCEPT !.buffer = c, !.inOrder = s.inOrder /\ next,
                          !.echoed = s.echoed + n]
           k == TotalLen(op)
<1>1. /\ b \in Buffer /\ Complementary(b) /\ DOMAIN s.cells = Cell
      /\ s.received \in Nat /\ s.echoed \in Nat
  BY DEF Sane
<1>2. b.filledStart \in Cell /\ b.filledSize \in 0 .. BufferSize
  BY <1>1 DEF Buffer
<1>3. k \in 1 .. b.filledSize /\ op = Blocks(b.filledStart, k)
  <2>1. k \in 1 .. b.filledSize /\ op = Data(b, k)
    BY DEF WriteOwns
  <2> HIDE DEF k
  <2> QED BY <1>1, <1>2, <2>1, OfferedBlocks
<1>4. k \in 0 .. BufferSize /\ n \in 0 .. k /\ n \in 0 .. b.filledSize /\ n \in Nat
  BY <1>2, <1>3, BufferSizeAssumption
<1> HIDE DEF k
<1>5. /\ c \in Buffer /\ Complementary(c)
      /\ c.filledStart = Forward(b.filledStart, n) /\ c.filledSize = b.filledSize - n
  <2>1. c \in Buffer /\ Complementary(c)
    BY <1>1, <1>4, CommitComplementary
  <2>2. c.filledStart = Forward(b.filledStart, n) /\ c.filledSize = b.filledSize - n
    BY <1>1 DEF Commit, Buffer
  <2> QED BY <2>1, <2>2
<1>6. CommitWritten(s, op, n) = t
  BY DEF CommitWritten
<1>7. /\ s.received = s.echoed + b.filledSize
      /\ \A j \in 1 .. b.filledSize :
           s.cells[Forward(b.filledStart, j - 1)] = s.echoed + j
  BY DEF Flow, Held
<1>8. next
  <2> SUFFICES ASSUME NEW j \in 1 .. n
               PROVE  s.cells[CellAt(op, j)] = s.echoed + j
    OBVIOUS
  <2>1. j \in 1 .. k /\ j \in 1 .. b.filledSize
    BY <1>2, <1>4
  <2>2. CellAt(op, j) = Forward(b.filledStart, j - 1)
    BY <1>2, <1>3, <1>4, <2>1, BlocksCells
  <2> QED BY <1>7, <2>1, <2>2
<1> HIDE DEF next, c
<1>9. /\ IsSession(t) /\ t.buffer = c /\ t.cells = s.cells /\ t.received = s.received
       /\ t.echoed = s.echoed + n /\ t.inOrder /\ t.fin = s.fin
       /\ SameTimer(s, t) /\ SameState(s, t) /\ t.read = s.read /\ t.write = s.write
  BY <1>8 DEF Sane, Flow, Sound, IsSession, Member, SameTimer, SameState
<1> HIDE DEF t
<1>10. s.echoed + n \in Nat /\ s.echoed + n <= s.received
  BY <1>1, <1>2, <1>4, <1>7
<1>11. Sane(t)
  BY <1>1, <1>5, <1>9, <1>10 DEF Sane
<1>12. Held(t)
  <2>1. t.received = t.echoed + t.buffer.filledSize
    BY <1>1, <1>2, <1>4, <1>5, <1>7, <1>9
  <2>2. ASSUME NEW j \in 1 .. b.filledSize - n
        PROVE  s.cells[Forward(Forward(b.filledStart, n), j - 1)] = (s.echoed + n) + j
    <3>1. /\ n \in Nat /\ j - 1 \in Nat /\ n + (j - 1) <= BufferSize
          /\ n + j \in 1 .. b.filledSize /\ n + (j - 1) = (n + j) - 1
          /\ s.echoed + (n + j) = (s.echoed + n) + j
      BY <1>1, <1>2, <1>4, BufferSizeAssumption
    <3>2. Forward(Forward(b.filledStart, n), j - 1) = Forward(b.filledStart, (n + j) - 1)
      BY <1>2, <3>1, ForwardSplits
    <3> QED BY <1>7, <3>1, <3>2
  <2> QED BY <1>5, <1>9, <2>1, <2>2 DEF Held
<1>13. Flow(t)
  BY <1>9, <1>10, <1>12 DEF Flow, Sound, SameState
<1> QED BY <1>6, <1>9, <1>11, <1>13

-----------------------------------------------------------------------------
(* The completion handlers. *)

(***************************************************************************)
(* Goodness depends on the stream, the timer, the state and the            *)
(* activities.                                                             *)
(***************************************************************************)
LEMMA SameGood ==
  ASSUME NEW s, Good(s), NEW t, SameStream(s, t), SameTimer(s, t), SameState(s, t),
         t.read = s.read, t.write = s.write
  PROVE  Good(t)
<1>1. Held(s) <=> Held(t)
  BY HeldAlike
<1>2. Sound(t)
  BY DEF Good, Sound, SameStream, SameState
<1>3. Flow(s) => Flow(t)
  BY <1>1, <1>2 DEF Flow, SameStream, SameState
<1>4. (Watch(s) => Watch(t)) /\ (Open(s) => Open(t)) /\ (Moving(s) => Moving(t))
  BY DEF Watch, Open, Moving, SameTimer, SameState
<1>5. TimerOn(s) => TimerOn(t)
  BY DEF TimerOn, SameTimer
<1>6. t.extern = s.extern /\ t.intern = s.intern
  BY DEF SameState
<1> QED BY <1>2, <1>3, <1>4, <1>5, <1>6 DEF Good

(***************************************************************************)
(* The handler of a transfer cancels the wait, and from then on the wait   *)
(* cannot report a timeout. A cancellation that fails leaves the rest as   *)
(* it was.                                                                 *)
(***************************************************************************)
LEMMA TurnedOff ==
  ASSUME NEW s, IsSession(s), Watch(s),
         NEW d, IsSession(d), SameStream(s, d), SameState(s, d),
         d.hasTimeout = s.hasTimeout, d.timer = s.timer, NEW fault
  PROVE  LET t == CancelTimerWait(d, "cancel", fault)
         IN  /\ IsSession(t) /\ SameStream(s, t) /\ SameState(s, t)
             /\ t.read = d.read /\ t.write = d.write
             /\ ~CancelFails(d, "cancel", fault) => Watch(t)
<1> DEFINE t == CancelTimerWait(d, "cancel", fault)
           off == [d EXCEPT !.timerWaitCancelled = TRUE, !.timerTurned = FALSE]
<1>1. /\ IsSession(off) /\ SameStream(d, off) /\ SameState(d, off)
      /\ off.read = d.read /\ off.write = d.write
      /\ off.hasTimeout = d.hasTimeout /\ off.timer = d.timer
      /\ off.timerWaitCancelled = TRUE /\ off.timerTurned = FALSE
  BY DEF IsSession, Member, SameStream, SameState
<1>2. t = IF CancelFails(d, "cancel", fault) THEN d ELSE off
  BY DEF CancelTimerWait
<1> HIDE DEF t, off
<1>3. Watch(off)
  BY <1>1 DEF Watch
<1> QED BY <1>1, <1>2, <1>3 DEF t, SameStream, SameState

(***************************************************************************)
(* A completed read is at rest, and the timer is off.                      *)
(***************************************************************************)
LEMMA ReadOff ==
  ASSUME NEW s, Sane(s), Flow(s), Watch(s), s.read = "in_progress", NEW fault
  PROVE  LET d == ReadCompleted(s)
             t == CancelTimerWait(d, "cancel", fault)
         IN  /\ IsSession(t) /\ Sound(t) /\ SameState(s, t)
             /\ t.read = "wait" /\ t.write = s.write /\ t.buffer = s.buffer
             /\ t.waitError # "eof"
             /\ Sane(t)
             /\ ~CancelFails(d, "cancel", fault) => Flow(t) /\ Watch(t)
<1> DEFINE d == ReadCompleted(s)
           t == CancelTimerWait(d, "cancel", fault)
<1>1. /\ IsSession(d) /\ SameStream(s, d) /\ SameState(s, d)
      /\ d.read = "wait" /\ d.write = s.write
      /\ d.hasTimeout = s.hasTimeout /\ d.timer = s.timer
  BY DEF Sane, ReadCompleted, IsSession, Member, SameStream, SameState
<1> HIDE DEF d
<1>2. /\ IsSession(t) /\ SameStream(s, t) /\ SameState(s, t)
      /\ t.read = "wait" /\ t.write = s.write
      /\ ~CancelFails(d, "cancel", fault) => Watch(t)
  BY <1>1, TurnedOff DEF Sane
<1> HIDE DEF t
<1>3. s.waitError # "eof"
  BY DEF Flow
<1>4. Sane(t)
  BY <1>2 DEF Sane, SameStream, Activity
<1>5. Held(s) <=> Held(t)
  BY <1>2, HeldAlike
<1>6. Flow(t)
  BY <1>2, <1>3, <1>5 DEF Flow, Sound, SameStream, SameState
<1> QED BY <1>2, <1>3, <1>4, <1>6 DEF t, d, Flow, SameStream, SameState

(***************************************************************************)
(* A completed write is at rest, and the timer is off.                     *)
(***************************************************************************)
LEMMA WriteOff ==
  ASSUME NEW s, Sane(s), Flow(s), Watch(s), s.write = "in_progress", NEW fault
  PROVE  LET d == WriteCompleted(s)
             t == CancelTimerWait(d, "cancel", fault)
         IN  /\ IsSession(t) /\ Sound(t) /\ SameState(s, t)
             /\ t.read = s.read /\ t.write = "wait" /\ t.buffer = s.buffer
             /\ Sane(t)
             /\ ~CancelFails(d, "cancel", fault) => Flow(t) /\ Watch(t)
<1> DEFINE d == WriteCompleted(s)
           t == CancelTimerWait(d, "cancel", fault)
<1>1. /\ IsSession(d) /\ SameStream(s, d) /\ SameState(s, d)
      /\ d.read = s.read /\ d.write = "wait"
      /\ d.hasTimeout = s.hasTimeout /\ d.timer = s.timer
  BY DEF Sane, WriteCompleted, IsSession, Member, SameStream, SameState
<1> HIDE DEF d
<1>2. /\ IsSession(t) /\ SameStream(s, t) /\ SameState(s, t)
      /\ t.read = s.read /\ t.write = "wait"
      /\ ~CancelFails(d, "cancel", fault) => Watch(t)
  BY <1>1, TurnedOff DEF Sane
<1> HIDE DEF t
<1>3. Sane(t)
  BY <1>2 DEF Sane, SameStream, Activity
<1>4. Held(s) <=> Held(t)
  BY <1>2, HeldAlike
<1>5. Flow(t)
  BY <1>2, <1>4 DEF Flow, Sound, SameStream, SameState
<1> QED BY <1>2, <1>3, <1>5 DEF t, d, Flow, SameStream, SameState

(***************************************************************************)
(* The reader stops.                                                       *)
(***************************************************************************)
LEMMA ReadEnds ==
  ASSUME NEW s, IsSession(s)
  PROVE  LET t == [s EXCEPT !.read = "stopped"]
         IN  /\ IsSession(t) /\ SameStream(s, t) /\ SameTimer(s, t) /\ SameState(s, t)
             /\ t.read = "stopped" /\ t.write = s.write
             /\ (Sound(s) => Sound(t)) /\ (Sane(s) => Sane(t))
             /\ (Flow(s) => Flow(t)) /\ (Watch(s) => Watch(t))
<1> DEFINE t == [s EXCEPT !.read = "stopped"]
<1>1. /\ IsSession(t) /\ SameStream(s, t) /\ SameTimer(s, t) /\ SameState(s, t)
      /\ t.read = "stopped" /\ t.write = s.write
  BY DEF IsSession, Member, SameStream, SameTimer, SameState
<1> HIDE DEF t
<1>2. Held(s) <=> Held(t)
  BY <1>1, HeldAlike
<1>3. Sound(s) => Sound(t)
  BY <1>1 DEF Sound, SameStream, SameState
<1>4. Flow(s) => Flow(t)
  BY <1>1, <1>2, <1>3 DEF Flow, SameStream, SameState
<1>5. Sane(s) => Sane(t)
  BY <1>1 DEF Sane, SameStream, Activity
<1>6. Watch(s) => Watch(t)
  BY <1>1 DEF Watch, SameTimer
<1> QED BY <1>1, <1>3, <1>4, <1>5, <1>6 DEF t

(***************************************************************************)
(* The writer stops.                                                       *)
(***************************************************************************)
LEMMA WriteEnds ==
  ASSUME NEW s, IsSession(s)
  PROVE  LET t == [s EXCEPT !.write = "stopped"]
         IN  IsSession(t) /\ SameState(s, t) /\ (Sound(s) => Sound(t))
BY DEF IsSession, Member, SameState, Sound

(***************************************************************************)
(* The timer stops.                                                        *)
(***************************************************************************)
LEMMA TimerEnds ==
  ASSUME NEW s, IsSession(s)
  PROVE  LET t == [s EXCEPT !.timer = "stopped"]
         IN  IsSession(t) /\ SameState(s, t) /\ (Sound(s) => Sound(t))
BY DEF IsSession, Member, SameState, Sound

(***************************************************************************)
(* handle_read_at_work and handle_read_at_shutdown.                        *)
(***************************************************************************)
LEMMA ReadGoesOn ==
  ASSUME NEW s, Sane(s), Flow(s), Watch(s), Open(s), s.read = "in_progress",
         ReadOwns(s.buffer, s.readOp), NEW n \in 0 .. TotalLen(s.readOp),
         NEW error, NEW fault
  PROVE  /\ s.intern = "work" => Good(HandleReadAtWork(s, error, n, fault))
         /\ s.intern = "shutdown" => Good(HandleReadAtShutdown(s, error, n, fault))
<1> DEFINE done     == ReadCompleted(s)
           failed   == error = "error" \/ CancelFails(done, "cancel", fault)
           off      == CancelTimerWait(done, "cancel", fault)
           consumed == ConsumeRead(off, s.readOp, n)
           halted   == [off EXCEPT !.read = "stopped"]
           ended    == [consumed EXCEPT !.read = "stopped"]
           at       == IF error = "eof" THEN ended ELSE consumed
<1>1. HandleReadAtWork(s, error, n, fault) =
        IF failed THEN StartStop(halted, "error", fault)
        ELSE IF error = "eof" THEN StartShutdown(ended, error, TRUE, fault)
        ELSE ContinueWork(consumed, fault)
  BY DEF HandleReadAtWork
<1>2. HandleReadAtShutdown(s, error, n, fault) =
        IF failed THEN StartStop(halted, "error", fault)
                  ELSE ContinueShutdown(at, TRUE, fault)
  BY DEF HandleReadAtShutdown
<1>3. /\ IsSession(off) /\ Sound(off) /\ SameState(s, off)
      /\ off.read = "wait" /\ off.write = s.write /\ off.buffer = s.buffer
      /\ off.waitError # "eof" /\ Sane(off)
      /\ ~failed => Flow(off) /\ Watch(off)
  BY ReadOff
<1> HIDE DEF off, failed, done
<1>4. Good(StartStop(halted, "error", fault))
  <2>1. IsSession(halted) /\ Sound(halted)
    BY <1>3, ReadEnds
  <2> QED BY <2>1, StopHalts, HaltedGood
<1>5. ASSUME ~failed
      PROVE  /\ Sane(consumed) /\ Flow(consumed) /\ Watch(consumed)
             /\ SameState(s, consumed)
             /\ consumed.read = "wait" /\ consumed.write = s.write
  <2> DEFINE op == s.readOp
  <2>1. n \in 0 .. TotalLen(op) /\ ReadOwns(off.buffer, op)
    BY <1>3
  <2> HIDE DEF op
  <2>2. LET t == ConsumeRead(off, op, n)
        IN  /\ Sane(t) /\ Flow(t) /\ SameTimer(off, t) /\ SameState(off, t)
            /\ t.read = off.read /\ t.write = off.write
    BY <1>3, <1>5, <2>1, ConsumedFlows
  <2>3. /\ Sane(consumed) /\ Flow(consumed) /\ SameTimer(off, consumed)
        /\ SameState(off, consumed) /\ consumed.read = off.read
        /\ consumed.write = off.write
    BY <2>2 DEF op
  <2> HIDE DEF consumed
  <2> QED BY <1>3, <1>5, <2>3 DEF SameTimer, SameState, Watch
<1> HIDE DEF consumed, halted
<1>6. ASSUME ~failed
      PROVE  /\ Sane(ended) /\ Flow(ended) /\ Watch(ended) /\ SameState(s, ended)
             /\ ended.read = "stopped"
  <2>1. SameState(consumed, ended) /\ Sane(ended) /\ Flow(ended) /\ Watch(ended)
        /\ ended.read = "stopped"
    BY <1>5, <1>6, ReadEnds DEF Sane
  <2> HIDE DEF ended
  <2> QED BY <1>5, <1>6, <2>1 DEF SameState
<1> HIDE DEF ended
<1>7. ASSUME s.intern = "work", ~failed
      PROVE  /\ Good(StartShutdown(ended, "eof", TRUE, fault))
             /\ Good(ContinueWork(consumed, fault))
  <2>1. Good(StartShutdown(ended, "eof", TRUE, fault))
    BY <1>6, <1>7, ShutdownStarts DEF SameState
  <2>2. Open(consumed) /\ consumed.intern = "work"
    BY <1>5, <1>7 DEF Open, SameState
  <2> QED BY <1>5, <1>7, <2>1, <2>2, WorkGoesOn
<1>8. ASSUME s.intern = "shutdown", ~failed
      PROVE  Good(ContinueShutdown(at, TRUE, fault))
  <2>1. Sane(at) /\ at.intern = "shutdown" /\ Flow(at) /\ Watch(at)
    BY <1>5, <1>6, <1>8 DEF SameState
  <2> HIDE DEF at
  <2> QED BY <2>1, ShutdownGoesOn
<1> QED BY <1>1, <1>2, <1>4, <1>7, <1>8

(***************************************************************************)
(* handle_write_at_work and handle_write_at_shutdown.                      *)
(***************************************************************************)
LEMMA WriteGoesOn ==
  ASSUME NEW s, Sane(s), Flow(s), Watch(s), Open(s), s.write = "in_progress",
         WriteOwns(s.buffer, s.writeOp), NEW n \in 0 .. TotalLen(s.writeOp),
         NEW error, NEW fault
  PROVE  /\ s.intern = "work" => Good(HandleWriteAtWork(s, error, n, fault))
         /\ s.intern = "shutdown" => Good(HandleWriteAtShutdown(s, error, n, fault))
<1> DEFINE done      == WriteCompleted(s)
           failed    == error # "none" \/ CancelFails(done, "cancel", fault)
           off       == CancelTimerWait(done, "cancel", fault)
           committed == CommitWritten(off, s.writeOp, n)
           halted    == [off EXCEPT !.write = "stopped"]
<1>1. HandleWriteAtWork(s, error, n, fault) =
        IF failed THEN StartStop(halted, "error", fault)
                  ELSE ContinueWork(committed, fault)
  BY DEF HandleWriteAtWork
<1>2. HandleWriteAtShutdown(s, error, n, fault) =
        IF failed THEN StartStop(halted, "error", fault)
                  ELSE ContinueShutdown(committed, TRUE, fault)
  BY DEF HandleWriteAtShutdown
<1>3. /\ IsSession(off) /\ Sound(off) /\ SameState(s, off)
      /\ off.read = s.read /\ off.write = "wait" /\ off.buffer = s.buffer
      /\ Sane(off)
      /\ ~failed => Flow(off) /\ Watch(off)
  BY WriteOff
<1> HIDE DEF off, failed, done
<1>4. Good(StartStop(halted, "error", fault))
  <2>1. IsSession(halted) /\ Sound(halted)
    BY <1>3, WriteEnds
  <2> QED BY <2>1, StopHalts, HaltedGood
<1>5. ASSUME ~failed
      PROVE  /\ Sane(committed) /\ Flow(committed) /\ Watch(committed)
             /\ SameState(s, committed)
             /\ committed.read = s.read /\ committed.write = "wait"
  <2> DEFINE op == s.writeOp
  <2>1. n \in 0 .. TotalLen(op) /\ WriteOwns(off.buffer, op)
    BY <1>3
  <2> HIDE DEF op
  <2>2. LET t == CommitWritten(off, op, n)
        IN  /\ Sane(t) /\ Flow(t) /\ SameTimer(off, t) /\ SameState(off, t)
            /\ t.read = off.read /\ t.write = off.write
    BY <1>3, <1>5, <2>1, CommittedFlows
  <2>3. /\ Sane(committed) /\ Flow(committed) /\ SameTimer(off, committed)
        /\ SameState(off, committed) /\ committed.read = off.read
        /\ committed.write = off.write
    BY <2>2 DEF op
  <2> HIDE DEF committed
  <2> QED BY <1>3, <1>5, <2>3 DEF SameTimer, SameState, Watch
<1> HIDE DEF committed, halted
<1>6. ASSUME s.intern = "work", ~failed
      PROVE  Good(ContinueWork(committed, fault))
  <2>1. Open(committed) /\ committed.intern = "work"
    BY <1>5, <1>6 DEF Open, SameState
  <2> QED BY <1>5, <1>6, <2>1, WorkGoesOn
<1>7. ASSUME s.intern = "shutdown", ~failed
      PROVE  Good(ContinueShutdown(committed, TRUE, fault))
  <2>1. committed.intern = "shutdown"
    BY <1>5, <1>7 DEF SameState
  <2> QED BY <1>5, <1>7, <2>1, ShutdownGoesOn
<1> QED BY <1>1, <1>2, <1>4, <1>6, <1>7

(***************************************************************************)
(* handle_timer_at_work: the wait that a transfer cancelled is followed by *)
(* the next one.                                                           *)
(***************************************************************************)
LEMMA TimerGoesOn ==
  ASSUME NEW s, IsSession(s), Good(s), s.intern \in {"work", "shutdown"},
         s.extern # "ready", s.timer = "in_progress", NEW error, NEW fault
  PROVE  Good(HandleTimerAtWork(s, error, fault))
<1> DEFINE done    == TimerCompleted(s)
           stopped == [done EXCEPT !.timer = "stopped"]
           again   == StartTimerWait(done)
<1>1. /\ Sound(s) /\ Flow(s) /\ Watch(s) /\ Open(s) /\ Moving(s)
      /\ s.hasTimeout /\ s.timerTurned
  BY DEF Good, Watch, TimerOn
<1>2. /\ IsSession(done) /\ SameStream(s, done) /\ SameState(s, done)
      /\ done.hasTimeout = s.hasTimeout /\ done.timerTurned = s.timerTurned
      /\ done.read = s.read /\ done.write = s.write
  BY DEF TimerCompleted, IsSession, Member, SameStream, SameState
<1> HIDE DEF done
<1>3. IsSession(stopped) /\ Sound(stopped)
  <2>1. Sound(done)
    BY <1>1, <1>2 DEF Sound, SameStream, SameState
  <2> QED BY <1>2, <2>1, TimerEnds
<1>4. /\ Good(StartStop(stopped, "error", fault))
      /\ Good(StartStop(stopped, "inactivity_timeout", fault))
  BY <1>3, StopHalts, HaltedGood
<1>5. Good(again)
  <2>1. /\ SameStream(done, again) /\ SameState(done, again)
        /\ again.hasTimeout = done.hasTimeout /\ again.timerTurned = done.timerTurned
        /\ again.read = done.read /\ again.write = done.write
        /\ again.timer = "in_progress" /\ again.quiet = TRUE
    BY <1>2 DEF StartTimerWait, IsSession, Member, SameStream, SameState
  <2> HIDE DEF again
  <2>2. /\ SameStream(s, again) /\ SameState(s, again)
        /\ again.read = s.read /\ again.write = s.write
        /\ again.hasTimeout /\ again.timerTurned
    BY <1>1, <1>2, <2>1 DEF SameStream, SameState
  <2>3. Held(s) <=> Held(again)
    BY <2>2, HeldAlike
  <2>4. Flow(again)
    BY <1>1, <2>2, <2>3 DEF Flow, Sound, SameStream, SameState
  <2>5. Watch(again) /\ Open(again) /\ Moving(again) /\ TimerOn(again)
    BY <1>1, <2>1, <2>2 DEF Watch, Open, Moving, TimerOn, SameState
  <2> QED BY <2>4, <2>5 DEF Good, Flow
<1>6. HandleTimerAtWork(s, error, fault) =
        IF error = "error" THEN StartStop(stopped, error, fault)
        ELSE IF ~done.timerWaitCancelled
          THEN StartStop(stopped, "inactivity_timeout", fault)
        ELSE IF done.timerTurned THEN again
        ELSE done
  BY DEF HandleTimerAtWork, done
<1> QED BY <1>1, <1>2, <1>4, <1>5, <1>6

(***************************************************************************)
(* handle_read_at_stop, handle_write_at_stop and handle_timer_at_stop.     *)
(***************************************************************************)
LEMMA StopKeepsGood ==
  ASSUME NEW s, IsSession(s), Good(s), s.intern = "stop"
  PROVE  /\ Good(HandleReadAtStop(s)) /\ Good(HandleWriteAtStop(s))
         /\ Good(HandleTimerAtStop(s))
<1>1. ASSUME NEW t, IsSession(t), SameStream(s, t), SameState(s, t)
      PROVE  Good(ContinueStop(t))
  <2>1. t.intern = "stop" /\ Sound(t)
    BY <1>1 DEF Good, Sound, SameStream, SameState
  <2> QED BY <1>1, <2>1, StopGoesOn, HaltedGood
<1>2. Good(HandleReadAtStop(s))
  <2> DEFINE t == [ReadCompleted(s) EXCEPT !.read = "stopped"]
  <2>1. IsSession(t) /\ SameStream(s, t) /\ SameState(s, t)
    BY DEF ReadCompleted, IsSession, Member, SameStream, SameState
  <2> HIDE DEF t
  <2> QED BY <1>1, <2>1 DEF HandleReadAtStop, t
<1>3. Good(HandleWriteAtStop(s))
  <2> DEFINE t == [WriteCompleted(s) EXCEPT !.write = "stopped"]
  <2>1. IsSession(t) /\ SameStream(s, t) /\ SameState(s, t)
    BY DEF WriteCompleted, IsSession, Member, SameStream, SameState
  <2> HIDE DEF t
  <2> QED BY <1>1, <2>1 DEF HandleWriteAtStop, t
<1>4. Good(HandleTimerAtStop(s))
  <2> DEFINE t == [TimerCompleted(s) EXCEPT !.timer = "stopped"]
  <2>1. IsSession(t) /\ SameStream(s, t) /\ SameState(s, t)
    BY DEF TimerCompleted, IsSession, Member, SameStream, SameState
  <2> HIDE DEF t
  <2> QED BY <1>1, <2>1 DEF HandleTimerAtStop, t
<1> QED BY <1>2, <1>3, <1>4

-----------------------------------------------------------------------------
(* What the user of the session asks for. *)

(***************************************************************************)
(* do_start_extern_start.                                                  *)
(***************************************************************************)
LEMMA StartGoesOn ==
  ASSUME NEW s, Sane(s), Good(s), s.intern = "work", NEW fault
  PROVE  Good(DoStartExternStart(s, fault))
<1> DEFINE refused == [s EXCEPT !.socket = "closed", !.extern = "stopped",
                                !.intern = "stopped", !.read = "stopped",
                                !.write = "stopped", !.timer = "stopped"]
           started == [s EXCEPT !.extern = "work"]
<1>1. Good(refused)
  <2>1. refused.intern = "stopped" /\ Sound(refused)
    BY DEF Sane, IsSession, Member, Good, Sound
  <2> HIDE DEF refused
  <2> QED BY <2>1 DEF Good
<1>2. Good(ContinueWork(started, fault))
  <2>1. /\ IsSession(started) /\ SameStream(s, started) /\ SameTimer(s, started)
        /\ started.intern = "work" /\ started.waitError = s.waitError
        /\ started.read = s.read /\ started.write = s.write
    BY DEF Sane, IsSession, Member, SameStream, SameTimer
  <2> HIDE DEF started
  <2>2. Held(s) <=> Held(started)
    BY <2>1, HeldAlike
  <2>3. Sane(started)
    BY <2>1 DEF Sane, SameStream
  <2>4. Flow(started)
    BY <2>1, <2>2 DEF Good, Flow, Sound, SameStream
  <2>5. Watch(started) /\ Open(started)
    BY <2>1 DEF Good, Watch, Open, SameTimer
  <2> QED BY <2>1, <2>3, <2>4, <2>5, WorkGoesOn
<1>3. DoStartExternStart(s, fault) =
        IF s.socket = "closed" \/ "options" \in fault
          THEN refused ELSE ContinueWork(started, fault)
  BY DEF DoStartExternStart
<1> QED BY <1>1, <1>2, <1>3

(***************************************************************************)
(* do_start_extern_stop: the user may stop a session that is at work,      *)
(* shutting down or stopping.                                              *)
(***************************************************************************)
LEMMA StopRequestGoesOn ==
  ASSUME NEW s, Sane(s), Good(s), s.extern = "work", NEW fault,
         IsSession(DoStartExternStop(s, fault))
  PROVE  Good(DoStartExternStop(s, fault))
<1> DEFINE asked == [s EXCEPT !.extern = "stop"]
           s1 == CompleteExternWait(asked, "operation_aborted")
           s2 == IF s1.intern = "work"
                   THEN StartShutdown(s1, "operation_aborted", FALSE, fault)
                   ELSE s1
<1>1. /\ IsSession(asked) /\ SameStream(s, asked) /\ SameTimer(s, asked)
      /\ asked.intern = s.intern /\ asked.waitError = s.waitError
      /\ asked.read = s.read /\ asked.write = s.write /\ asked.extern = "stop"
  BY DEF Sane, IsSession, Member, SameStream, SameTimer
<1> HIDE DEF asked
<1>2. /\ IsSession(s1) /\ SameStream(s, s1) /\ SameTimer(s, s1)
      /\ s1.intern = s.intern /\ s1.waitError \in {s.waitError, "operation_aborted"}
      /\ s1.read = s.read /\ s1.write = s.write /\ s1.extern = "stop"
  BY <1>1 DEF CompleteExternWait, IsSession, Member, SameStream, SameTimer
<1> HIDE DEF s1
<1>3. Sound(s1) /\ Sane(s1)
  BY <1>2 DEF Good, Sound, Sane, SameStream
<1>4. ASSUME s.intern \in {"work", "shutdown"}
      PROVE  Flow(s1) /\ Watch(s1) /\ Open(s1) /\ Moving(s1) /\ TimerOn(s1)
  <2>1. /\ Flow(s) /\ Watch(s) /\ Open(s) /\ Moving(s) /\ TimerOn(s)
    BY <1>4 DEF Good
  <2>2. Held(s) <=> Held(s1)
    BY <1>2, HeldAlike
  <2>3. Flow(s1)
    BY <1>2, <1>3, <2>1, <2>2 DEF Flow, SameStream
  <2> QED BY <1>2, <2>1, <2>3 DEF Watch, Open, Moving, TimerOn, SameTimer
<1>5. Good(s2)
  <2>1. CASE s.intern = "work"
    BY <1>2, <1>3, <1>4, <2>1, ShutdownStarts
  <2>2. CASE s.intern # "work"
    BY <1>2, <1>3, <1>4, <2>2 DEF Good
  <2> QED BY <2>1, <2>2
<1>6. DoStartExternStop(s, fault) =
        IF s2.intern = "stopped"
          THEN [s2 EXCEPT !.extern = "stopped"]
          ELSE [s2 EXCEPT !.stopHandler = TRUE, !.owed.stop = @ + 1]
  BY DEF DoStartExternStop, s1, asked
<1> HIDE DEF s2
<1>7. IsSession(s2)
  <2>1. CASE s2.intern = "stopped"
    BY <1>6, <2>1 DEF IsSession
  <2>2. CASE s2.intern # "stopped"
    BY <1>6, <2>2 DEF IsSession
  <2> QED BY <2>1, <2>2
<1>8. CASE s2.intern = "stopped"
  <2> DEFINE t == [s2 EXCEPT !.extern = "stopped"]
  <2>1. t.intern = "stopped" /\ Sound(t)
    BY <1>5, <1>7, <1>8 DEF IsSession, Member, Good, Sound
  <2> HIDE DEF t
  <2>2. Good(t)
    BY <2>1 DEF Good
  <2> QED BY <1>6, <1>8, <2>2 DEF t
<1>9. CASE s2.intern # "stopped"
  <2> DEFINE t == [s2 EXCEPT !.stopHandler = TRUE, !.owed.stop = @ + 1]
  <2>1. /\ SameStream(s2, t) /\ SameTimer(s2, t) /\ SameState(s2, t)
        /\ t.read = s2.read /\ t.write = s2.write
    BY <1>7 DEF IsSession, Member, SameStream, SameTimer, SameState
  <2> HIDE DEF t
  <2>2. Good(t)
    BY <1>5, <2>1, SameGood
  <2> QED BY <1>6, <1>9, <2>2 DEF t
<1> QED BY <1>8, <1>9

(***************************************************************************)
(* do_start_extern_wait.                                                   *)
(***************************************************************************)
LEMMA WaitKeepsGood ==
  ASSUME NEW s, IsSession(s), Good(s)
  PROVE  Good(DoStartExternWait(s))
<1> DEFINE t == [s EXCEPT !.waitHandler = TRUE, !.owed.wait = @ + 1]
<1>1. /\ SameStream(s, t) /\ SameTimer(s, t) /\ SameState(s, t)
      /\ t.read = s.read /\ t.write = s.write
  BY DEF IsSession, Member, SameStream, SameTimer, SameState
<1> HIDE DEF t
<1>2. Good(t)
  BY <1>1, SameGood
<1> QED BY <1>2 DEF DoStartExternWait, t

(***************************************************************************)
(* A session that is new, or as good as new.                               *)
(***************************************************************************)
LEMMA NewIsGood ==
  ASSUME NEW s, s.extern = "ready", s.intern = "work", s.read = "wait",
         s.write = "wait", s.timer = "ready", s.timerTurned = FALSE,
         s.fin = FALSE, s.buffer = EmptyBuffer, s.waitError = "none",
         s.received = 0, s.echoed = 0, s.inOrder = TRUE
  PROVE  Good(s)
<1>1. Held(s)
  BY DEF Held, EmptyBuffer
<1> QED BY <1>1 DEF Good, Sound, Flow, Watch, Open

(***************************************************************************)
(* reset.                                                                  *)
(***************************************************************************)
LEMMA ResetGood ==
  ASSUME NEW s, IsSession(s)
  PROVE  Good(DoReset(s))
<1> DEFINE mem == [c \in Cell |-> 0]
           t == [s EXCEPT !.extern = "ready", !.intern = "work",
            !.read = "wait", !.write = "wait", !.timer = "ready",
            !.timerWaitCancelled = FALSE, !.timerTurned = FALSE,
            !.pending = 0, !.socket = "closed", !.fin = FALSE,
            !.buffer = EmptyBuffer, !.waitError = "none",
            !.cells = mem, !.received = 0, !.echoed = 0,
            !.inOrder = TRUE, !.quiet = TRUE]
<1>1. DoReset(s) = t
  BY DEF DoReset
<1> HIDE DEF mem
<1>2. /\ t.extern = "ready" /\ t.intern = "work" /\ t.read = "wait"
      /\ t.write = "wait" /\ t.timer = "ready" /\ t.timerTurned = FALSE
      /\ t.fin = FALSE /\ t.buffer = EmptyBuffer /\ t.waitError = "none"
      /\ t.received = 0 /\ t.echoed = 0 /\ t.inOrder = TRUE
  BY DEF IsSession, Member
<1> HIDE DEF t
<1> QED BY <1>1, <1>2, NewIsGood

-----------------------------------------------------------------------------
(* The invariant. *)

GoodInv == IInv /\ Good(session)

(***************************************************************************)
(* The invariant holds at first,                                           *)
(***************************************************************************)
LEMMA InitGood == Init => GoodInv
<1> SUFFICES ASSUME Init PROVE Good(session)
  BY InitSettled DEF GoodInv
<1>1. PICK timeout \in Timeouts : session = NewSession(timeout)
  BY DEF Init
<1>2. /\ session.extern = "ready" /\ session.intern = "work"
      /\ session.read = "wait" /\ session.write = "wait"
      /\ session.timer = "ready" /\ session.timerTurned = FALSE
      /\ session.fin = FALSE /\ session.buffer = EmptyBuffer
      /\ session.waitError = "none" /\ session.received = 0
      /\ session.echoed = 0 /\ session.inOrder = TRUE
  BY <1>1 DEF NewSession
<1> QED BY <1>2, NewIsGood

(***************************************************************************)
(* the completion of every operation keeps it,                             *)
(***************************************************************************)
LEMMA CompletionGood ==
  ASSUME GoodInv, HandleRead \/ HandleWrite \/ HandleTimer
  PROVE  Good(session')
<1> DEFINE s == session
<1>1. /\ Settled(s, FALSE) /\ Good(s) /\ s \in Session /\ IsSession(s) /\ Sane(s)
  BY SettledSane, SessionIs DEF GoodInv, IInv, Settled
<1>2. /\ s.intern \in {"work", "shutdown", "stop"} /\ s.extern # "ready"
      /\ s.intern # "stop" => Own(s)
      /\ s.intern \in {"work", "shutdown"} => Flow(s) /\ Watch(s) /\ Open(s)
  BY <1>1, CompletionLands DEF IInv, Settled, Session, Good
<1>3. ASSUME HandleRead PROVE Good(session')
  <2>1. PICK c \in Completions(s.readOp) \cup {<<"eof", 0>>}, fault \in Faults :
          session' =
            CASE s.intern = "work" -> HandleReadAtWork(s, c[1], c[2], fault)
              [] s.intern = "shutdown" -> HandleReadAtShutdown(s, c[1], c[2], fault)
              [] s.intern = "stop" -> HandleReadAtStop(s)
    BY <1>3 DEF HandleRead
  <2>2. s.read = "in_progress"
    BY <1>3 DEF HandleRead
  <2>3. CASE s.intern = "stop"
    BY <1>1, <2>1, <2>3, StopKeepsGood
  <2>4. CASE s.intern \in {"work", "shutdown"}
    <3>1. ReadOwns(s.buffer, s.readOp) /\ TotalLen(s.readOp) \in Nat
      BY <1>1, <1>2, <2>2, <2>4 DEF Own, ReadOwns, Session, Buffer
    <3>2. c[2] \in 0 .. TotalLen(s.readOp)
      BY <3>1 DEF Completions
    <3>3. /\ s.intern = "work" => Good(HandleReadAtWork(s, c[1], c[2], fault))
          /\ s.intern = "shutdown" => Good(HandleReadAtShutdown(s, c[1], c[2], fault))
      <4> HIDE DEF s
      <4> QED BY <1>1, <1>2, <2>2, <2>4, <3>1, <3>2, ReadGoesOn
    <3> QED BY <2>1, <2>4, <3>3
  <2> QED BY <1>2, <2>3, <2>4
<1>4. ASSUME HandleWrite PROVE Good(session')
  <2>1. PICK c \in Completions(s.writeOp), fault \in Faults :
          session' =
            CASE s.intern = "work" -> HandleWriteAtWork(s, c[1], c[2], fault)
              [] s.intern = "shutdown" -> HandleWriteAtShutdown(s, c[1], c[2], fault)
              [] s.intern = "stop" -> HandleWriteAtStop(s)
    BY <1>4 DEF HandleWrite
  <2>2. s.write = "in_progress"
    BY <1>4 DEF HandleWrite
  <2>3. CASE s.intern = "stop"
    BY <1>1, <2>1, <2>3, StopKeepsGood
  <2>4. CASE s.intern \in {"work", "shutdown"}
    <3>1. WriteOwns(s.buffer, s.writeOp) /\ TotalLen(s.writeOp) \in Nat
      BY <1>1, <1>2, <2>2, <2>4 DEF Own, WriteOwns, Session, Buffer
    <3>2. c[2] \in 0 .. TotalLen(s.writeOp)
      BY <3>1 DEF Completions
    <3>3. /\ s.intern = "work" => Good(HandleWriteAtWork(s, c[1], c[2], fault))
          /\ s.intern = "shutdown" => Good(HandleWriteAtShutdown(s, c[1], c[2], fault))
      <4> HIDE DEF s
      <4> QED BY <1>1, <1>2, <2>2, <2>4, <3>1, <3>2, WriteGoesOn
    <3> QED BY <2>1, <2>4, <3>3
  <2> QED BY <1>2, <2>3, <2>4
<1>5. ASSUME HandleTimer PROVE Good(session')
  <2>1. PICK error \in {"none", "operation_aborted", "error"}, fault \in Faults :
          session' =
            CASE s.intern \in {"work", "shutdown"} ->
                   HandleTimerAtWork(s, error, fault)
              [] s.intern = "stop" -> HandleTimerAtStop(s)
    BY <1>5 DEF HandleTimer
  <2>2. s.timer = "in_progress"
    BY <1>5 DEF HandleTimer
  <2>3. CASE s.intern = "stop"
    BY <1>1, <2>1, <2>3, StopKeepsGood
  <2>4. CASE s.intern \in {"work", "shutdown"}
    BY <1>1, <1>2, <2>1, <2>2, <2>4, TimerGoesOn
  <2> QED BY <1>2, <2>3, <2>4
<1> QED BY <1>3, <1>4, <1>5

(***************************************************************************)
(* and so does every step.                                                 *)
(***************************************************************************)
LEMMA NextGood == GoodInv /\ [Next]_session => GoodInv'
<1> SUFFICES ASSUME GoodInv, [Next]_session PROVE Good(session')
  BY NextSettled DEF GoodInv
<1> DEFINE s == session
<1>1. /\ Settled(s, FALSE) /\ Good(s) /\ s \in Session /\ IsSession(s) /\ Sane(s)
  BY SettledSane, SessionIs DEF GoodInv, IInv, Settled
<1>2. ASSUME Connect PROVE Good(session')
  <2> DEFINE t == [s EXCEPT !.socket = "open"]
  <2>1. /\ SameStream(s, t) /\ SameTimer(s, t) /\ SameState(s, t)
        /\ t.read = s.read /\ t.write = s.write
    BY <1>1 DEF IsSession, Member, SameStream, SameTimer, SameState
  <2> HIDE DEF t
  <2>2. Good(t)
    BY <1>1, <2>1, SameGood
  <2> QED BY <1>2, <2>2 DEF Connect, t
<1>3. ASSUME ExternStart PROVE Good(session')
  BY <1>1, <1>3, StartGoesOn DEF ExternStart, Settled
<1>4. ASSUME ExternStop PROVE Good(session')
  <2>1. PICK fault \in Faults : session' = DoStartExternStop(s, fault)
    BY <1>4 DEF ExternStop
  <2>2. session' \in Session
    BY NextSettled DEF GoodInv, IInv, Settled
  <2> QED BY <1>1, <1>4, <2>1, <2>2, SessionIs, StopRequestGoesOn DEF ExternStop
<1>5. ASSUME ExternWait PROVE Good(session')
  BY <1>1, <1>5, WaitKeepsGood DEF ExternWait
<1>6. ASSUME Reset PROVE Good(session')
  BY <1>1, <1>6, ResetGood DEF Reset
<1>7. ASSUME HandleRead \/ HandleWrite \/ HandleTimer PROVE Good(session')
  BY <1>7, CompletionGood
<1>8. ASSUME UNCHANGED session PROVE Good(session')
  BY <1>1, <1>8
<1> QED BY <1>2, <1>3, <1>4, <1>5, <1>6, <1>7, <1>8 DEF Next

(***************************************************************************)
(* Every step of a session keeps its stream and its timer as they should   *)
(* be: see Good.                                                           *)
(***************************************************************************)
THEOREM StreamInvariant == Spec => []GoodInv
<1> QED BY InitGood, NextGood, PTL DEF Spec

(***************************************************************************)
(* The echo is the peer's stream: see EchoFaithful.                        *)
(***************************************************************************)
THEOREM EchoedFaithfully == Spec => []EchoFaithful
<1>1. GoodInv => EchoFaithful
  BY DEF GoodInv, Good, Sound, EchoFaithful
<1> QED BY <1>1, StreamInvariant, PTL

(***************************************************************************)
(* No session at work or shutting down is left unattended, and none is     *)
(* stopped for inactivity that was active: see TimerWatchesTransfers.      *)
(***************************************************************************)
THEOREM TimerWatches == Spec => []TimerWatchesTransfers
<1>1. GoodInv => TimerWatchesTransfers
  BY DEF GoodInv, Good, Watch, Moving, TimerOn, TimerWatchesTransfers
<1> QED BY <1>1, StreamInvariant, PTL

=============================================================================
