SPECIFICATION ItsSpec
CONSTANTS
  ERASED = ERASED
  f1 = f1
  f2 = f2
  f3 = f3
  v1 = v1
  NULL = NULL
  Fid = {f1, f2, f3}
  Val = {v1}
  Lens = {1, 2, 3}
  Buf = 1
  NumBlocks = 4
  BlockSize = 3
  DataStart = 2
  MaxFiles = 3
  MaxFileSize = 2
  EraseVal = 3
INVARIANT ProgramsErased
INVARIANT IdleClean
INVARIANT LayoutSound
PROPERTY StoreRefined
SYMMETRY FidSymmetry
