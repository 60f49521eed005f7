CONSTANTS
  k1 = k1
  k2 = k2
  Keys <- MCKeys
  Vals <- MCVals
  W = 3
  Hash <- MCHash
  N = 2
  Conns = {0, 1}
  Inputs <- MCInputs
  MaxReq = 2
SPECIFICATION Spec
PROPERTY ErrorKeepsKeyspace
