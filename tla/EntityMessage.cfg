SPECIFICATION Spec
CONSTANTS
  Ids = {i1, i2, i3, i4}
  ProfileUid = ProfileUid
  Params = {}
  None = None
  DeletesFail = FALSE
SYMMETRY Symmetry
INVARIANT MessageStored
