SPECIFICATION Spec
CONSTANTS
  Menus <- MCMenus
  Leaves <- MCLeaves
  Asks <- MCAsks
  Keys <- MCKeys
  Untidy <- MCUntidy
  Encode <- MCEncode
  Lines <- MCLines
  MaxLen = 1
  MaxHistory = 2
  Rare <- MCRare
  MaxLate = 0
  MaxPending = 1
  MaxLogs = 1
CHECK_DEADLOCK FALSE
INVARIANT EscapesMeant
