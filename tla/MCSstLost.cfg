SPECIFICATION SstSpec
CONSTANTS
  o1 = o1
  o2 = o2
  o3 = o3
  v1 = v1
  v2 = v2
  NULL = NULL
  LOST = LOST
  TooBig = TooBig
  Obj = {o1}
  Val = {v1}
  NumAssets = 1
  NvcMax = 3
  SwapMax = 3
  Builds <- BuildsRollback
PROPERTY AlwaysATable
