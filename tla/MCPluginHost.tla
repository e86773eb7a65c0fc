---- MODULE MCPluginHost ----
(* Instances of PluginHost: two libraries of one name, the second with an       *)
(* interface and a permission that the first has not, and one of another name.  *)
EXTENDS PluginHost
CONSTANTS storeA, storeB, front, store, ui, Db, Vfs, Ui
MCNameOf == [o \in Objects |-> IF o = front THEN ui ELSE store]
MCOffers == [o \in Objects |->
  CASE o = front -> {Ui} [] o = storeA -> {Db} [] o = storeB -> {Db, Vfs}]
MCDeclares == [o \in Objects |->
  CASE o = front -> {"ProfileWrite", "ContainerWrite", "ProfileExport"}
    [] o = storeA -> {"SettingsRead"}
    [] o = storeB -> {"SettingsWrite", "DataRead"}]
MCMethods == {"getSetting", "setSetting", "isProfileOpen", "deleteCurrentProfile", "importProfile",
              "containerPath", "listContacts", "getVFS"}
====
