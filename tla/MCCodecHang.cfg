SPECIFICATION Spec
CONSTANTS
  Sendable <- MCSendCR
  IsizeBits = 16
INVARIANT DecodeReturns
