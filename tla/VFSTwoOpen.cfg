SPECIFICATION Spec
CONSTANTS
  k1 = k1
  k2 = k2
  a = a
  b = b
  long = long
  None = None
  Torn = Torn
  Keys <- OneKey
  Names <- MCNames
  LongNames <- MCLongNames
  SlotCount = 2
  FileIds = {f1, f2, f3}
  Handles = {h1, h2}
  Vers = {v1, v2}
  MaxLen = 1
  BlockBytes = 2
  Overhead = 1
  MaxExp = 1
  DataBlocks = 4
  MaxPad = 0
  InitBlocks <- OneSize
  Careful = TRUE
SYMMETRY Symmetric
PROPERTIES OwnFileOnly CloseSavesAll
INVARIANT ReopenFindsSame
