SPECIFICATION Spec
CONSTANTS
  Keys <- MCKeys
  Hash <- MCHash
  Vals <- MCVals
  W = 4
  Inputs <- MCInputs
  MaxLen = 6
  InlineCap = 3
  Garbage = {0, 255}
INVARIANT TypeOK
PROPERTY AppendConcatenates
PROPERTY SetbitReadBack
PROPERTY SetRangeWrites
