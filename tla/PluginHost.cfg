SPECIFICATION Spec
CONSTANTS
  storeA = storeA
  storeB = storeB
  front = front
  store = store
  ui = ui
  Db = Db
  Vfs = Vfs
  Ui = Ui
  None = None
  Objects = {storeA, storeB, front}
  Names = {store, ui}
  Interfaces = {Db, Vfs, Ui}
  NameOf <- MCNameOf
  Offers <- MCOffers
  Declares <- MCDeclares
  Methods <- MCMethods
INVARIANTS TypeOK ProxyKept ShutdownComplete CallsDeclared
PROPERTY LastInFirstOut
CHECK_DEADLOCK FALSE
