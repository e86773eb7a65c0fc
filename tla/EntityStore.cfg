SPECIFICATION Spec
CONSTANTS
  Ids = {i1, i2, i3, i4}
  ProfileUid = ProfileUid
  Params = {x}
  None = None
  DeletesFail = FALSE
SYMMETRY Symmetry
INVARIANTS
  TypeOK
  OwnersExist
PROPERTY RemovalsScoped
