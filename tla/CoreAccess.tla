----------------------------- MODULE CoreAccess -----------------------------
(***************************************************************************)
(* What a plugin may ask of Core: the capability flags of                  *)
(* include/PluginPermissions.h and the checks CoreAccessProxy makes before *)
(* it passes a call on (src/src/CoreAccessProxy.cpp).                      *)
(***************************************************************************)
EXTENDS Tables

\* The bits the generated AccessCategory gives the flags.
Categories ==
  {"ProfileRead", "ProfileWrite", "DataRead", "DataWrite", "SettingsRead", "SettingsWrite",
   "ContainerRead", "ContainerWrite", "AppLifecycle", "ExportImport", "PluginAccess"}

\* PluginPermission: three flags share the bit of another one.
Bit ==
  Joined({[c \in Categories \ {"ExportImport"} |-> c],
          [ProfileDelete |-> "ProfileWrite", ProfileExport |-> "ExportImport",
           ProfileImport |-> "ExportImport"]})
Permissions == DOMAIN Bit

\* Which Read a Write brings with it, in the plugins' permissions and in the
\* generated ones.
\* Mutant: a Write brings the Read of another kind.
MutImplied == [SettingsWrite |-> "SettingsRead", ContainerWrite |-> "DataRead", DataWrite |-> "DataRead"]
Implied == [SettingsWrite |-> "SettingsRead", ContainerWrite |-> "ContainerRead", DataWrite |-> "DataRead"]
GeneratedImplied ==
  [SettingsWrite |-> "SettingsRead", ContainerWrite |-> "ContainerRead", DataWrite |-> "DataRead",
   ProfileWrite |-> "ProfileRead"]

\* expandImpliedPermissions of what a plugin declares.
expandImpliedPermissions(declared) ==
  LET bits == {Bit[p] : p \in declared}
  IN  bits \cup {Implied[b] : b \in bits \cap DOMAIN Implied}

-----------------------------------------------------------------------------
(* The check each call of CoreAccessProxy begins with *)

PluginGate == [getDBKV |-> "PluginAccess", getDBKVProfile |-> "PluginAccess", getVFS |-> "PluginAccess"]
ContainerGate ==
  [createContainer |-> "ContainerWrite", isContainerInitialized |-> "ContainerRead",
   containerPath |-> "ContainerRead"]
ProfileGate ==
  [openProfile |-> "ProfileWrite", createProfile |-> "ProfileWrite", closeProfile |-> "ProfileWrite",
   isProfileOpen |-> "ProfileRead", deleteCurrentProfile |-> "ProfileWrite"]
ProfileDataGate ==
  [getProfile |-> "ProfileRead", storeProfile |-> "ProfileWrite",
   getCurrentProfileId |-> "ProfileRead", currentPersonaName |-> "ProfileRead"]
ParamGate ==
  [listParams |-> "DataRead", createParam |-> "DataWrite", getParam |-> "DataRead",
   storeParam |-> "DataWrite", deleteParam |-> "DataWrite"]
TransferGate == [exportProfile |-> "ProfileExport", importProfile |-> "ProfileImport"]
SettingsGate ==
  [getSetting |-> "SettingsRead", setSetting |-> "SettingsWrite", listSettings |-> "SettingsRead"]
PersonaGate ==
  [setActivePersona |-> "DataWrite", activePersonaId |-> "DataRead", listPersonas |-> "DataRead",
   createPersona |-> "DataWrite", getPersona |-> "DataRead", storePersona |-> "DataWrite",
   deletePersona |-> "DataWrite"]
ContactGate ==
  [listContacts |-> "DataRead", createContact |-> "DataWrite", getContact |-> "DataRead",
   storeContact |-> "DataWrite", deleteContact |-> "DataWrite", searchContacts |-> "DataRead"]
GroupGate ==
  [listGroups |-> "DataRead", createGroup |-> "DataWrite", getGroup |-> "DataRead",
   storeGroup |-> "DataWrite", deleteGroup |-> "DataWrite", addGroupMember |-> "DataWrite",
   removeGroupMember |-> "DataWrite", listGroupMembers |-> "DataRead"]
MessageGate ==
  [listMessages |-> "DataRead", createMessage |-> "DataWrite", getMessage |-> "DataRead",
   storeMessage |-> "DataWrite", deleteMessage |-> "DataWrite"]
EventGate ==
  [listEvents |-> "DataRead", createEvent |-> "DataWrite", getEvent |-> "DataRead",
   storeEvent |-> "DataWrite", deleteEvent |-> "DataWrite"]
ExitGate == [exit |-> "AppLifecycle"]

Gate ==
  Joined({PluginGate, ContainerGate, ProfileGate, ProfileDataGate, ParamGate, TransferGate,
          SettingsGate, PersonaGate, ContactGate, GroupGate, MessageGate, EventGate, ExitGate})

\* CoreAccessProxy::check, for a proxy made for what a plugin declares.
check(declared, method) == Bit[Gate[method]] \in expandImpliedPermissions(declared)

\* Mutant: nor the end of the application.
MutFrontEndPermissions == Permissions \ {"PluginAccess", "AppLifecycle"}
\* requiredPermissions() of both front ends: all but the plugins themselves.
FrontEndPermissions == Permissions \ {"PluginAccess"}
=============================================================================
