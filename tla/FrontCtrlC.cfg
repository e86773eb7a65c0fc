SPECIFICATION Spec
CONSTANTS
  p1 = p1
  p2 = p2
  None = None
  Personas = {p1, p2}
INVARIANT CtrlCCancels
CHECK_DEADLOCK FALSE
