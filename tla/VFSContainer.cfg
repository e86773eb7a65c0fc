SPECIFICATION Spec
CONSTANTS
  k1 = k1
  k2 = k2
  a = a
  b = b
  long = long
  None = None
  Torn = Torn
  Keys <- OneKey
  Names <- MCNames
  LongNames <- MCLongNames
  SlotCount = 2
  FileIds = {f1, f2}
  Handles = {h1}
  Vers = {v1, v2}
  MaxLen = 1
  BlockBytes = 1
  Overhead = 1
  MaxExp = 1
  DataBlocks = 6
  MaxPad = 0
  InitBlocks <- OneSize
  Careful = TRUE
SYMMETRY Symmetric
INVARIANTS TypeOK BlocksDisjoint InsideContainer SavedReadable HeaderTracksMemory
PROPERTY ImplementsFileStore
