SPECIFICATION RingSpec
CONSTANTS
  BufferSize = 4
  Value <- Bits
INVARIANTS
  OperationsOwnTheirCells
PROPERTIES
  WriteSeesStableCells
  ImplementsFifo
