SPECIFICATION ItsSpec
CONSTANTS
  ERASED = ERASED
  f1 = f1
  f2 = f2
  f3 = f3
  v1 = v1
  NULL = NULL
  Fid = {f1, f2}
  Val = {v1}
  Lens = {0, 1}
  Buf = 1
  NumBlocks = 4
  BlockSize = 3
  DataStart = 2
  MaxFiles = 2
  MaxFileSize = 2
  EraseVal = 3
PROPERTY OthersKept
