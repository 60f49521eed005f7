SPECIFICATION SpecR
CONSTANTS
  Keys <- MCKeys
  Hash <- MCHash
  Vals <- MCVals
  W = 8
  Inputs = {}
  BfInputs = {}
  Requests <- MCRequests
  MaxLen = 6
  InlineCap = 3
  Garbage = {0, 255}
INVARIANT WorkerNeverPanics
