SPECIFICATION Spec
CONSTANTS
  Sendable <- MCSendable
  IsizeBits = 16
INVARIANT FramesInOrder
PROPERTY AllDecoded
INVARIANT DecodeNeverPanics
