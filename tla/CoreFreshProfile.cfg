SPECIFICATION Spec
CONSTANTS
  None = None
  NoFile = NoFile
  Blank = Blank
  Broken = Broken
  Paths = {p1, p2}
  Keys = {k1, k2}
  Ids = {1, 2}
  Rests = {r1, r2}
SYMMETRY Symmetric
PROPERTY NewProfileFresh
