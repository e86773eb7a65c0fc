SPECIFICATION Spec
CONSTANT Throws = TRUE
INVARIANTS
  ReplOnLiveObjects
  DeinitBeforeDestroy
  LogOnLivePlugin
PROPERTY ExitHeardEnds
