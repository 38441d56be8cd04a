SPECIFICATION SstSpec
CONSTANTS
  o1 = o1
  o2 = o2
  o3 = o3
  v1 = v1
  v2 = v2
  NULL = NULL
  LOST = LOST
  TooBig = TooBig
  Obj = {o1, o2, o3}
  Val = {v1}
  NumAssets = 2
  NvcMax = 4
  SwapMax = 3
  Builds <- BuildsSound
INVARIANT FailsForAReason
INVARIANT AlwaysRoom
INVARIANT OldTablesRejected
PROPERTY StoreRefined
SYMMETRY SstSymmetry
