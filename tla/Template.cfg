SPECIFICATION Spec
CONSTANTS
  Written <- MCWritten
  Depth = 3
  Sources <- MCSources
  Contexts <- MCContexts
  Show <- MCShow
  ParseExpr <- parseExpr
  Eval <- evalExpr
  ToText <- variantToString
INVARIANTS ParsedAsWritten TextKept LoopsLeaveNoTrace NamesComeBack
