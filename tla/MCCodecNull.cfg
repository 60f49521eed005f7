SPECIFICATION Spec
CONSTANTS
  Sendable <- MCSendNull
  IsizeBits = 16
INVARIANT FramesInOrder
