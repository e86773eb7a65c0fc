SPECIFICATION Spec
CONSTANTS
  p1 = p1
  p2 = p2
  None = None
  Personas = {p1, p2}
INVARIANT CentralPersonaFresh
CHECK_DEADLOCK FALSE
