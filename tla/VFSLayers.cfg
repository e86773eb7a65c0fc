SPECIFICATION Spec
CONSTANTS
  k1 = k1
  k2 = k2
  a = a
  b = b
  long = long
  None = None
  Torn = Torn
  Keys <- TwoKeys
  Names <- MCNames
  LongNames <- MCLongNames
  SlotCount = 2
  FileIds = {f1, f2}
  Handles = {h1}
  Vers = {v1}
  MaxLen = 1
  BlockBytes = 2
  Overhead = 1
  MaxExp = 0
  DataBlocks = 4
  MaxPad = 0
  InitBlocks <- OneSize
  Careful = TRUE
SYMMETRY Symmetric
PROPERTY LayersIndependent
