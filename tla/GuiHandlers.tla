----------------------------- MODULE GuiHandlers -----------------------------
(***************************************************************************)
(* The invokable methods of GuiBackend (src/plugins/ui-gui/src/            *)
(* GuiBackend.cpp) as sequences of the steps of ConsoleCommands, with the  *)
(* signals they emit, and where the QML of plugins/ui-gui/qml calls them.  *)
(* Whatever a handler finds missing, refused or failed ends it before it   *)
(* emits a signal that makes QML read again.                               *)
(***************************************************************************)
EXTENDS ConsoleCommands

stateChanged == Emit("stateChanged")
dataChanged == Emit("dataChanged")

initContainer == <<Need("path"), Call("createContainer"), stateChanged>>
openProfile == <<Call("openProfile"), Read("getProfile"), stateChanged, dataChanged>>
createProfile == <<Call("createProfile"), stateChanged, dataChanged>>
\* Mutant: only dataChanged.
MutcloseProfile == <<Try("closeProfile"), dataChanged>>
closeProfile == <<Try("closeProfile"), stateChanged, dataChanged>>
deleteProfile == <<Call("deleteCurrentProfile"), stateChanged, dataChanged>>
exportProfile == <<Read("exportProfile")>>
importProfile == <<Call("importProfile"), stateChanged, dataChanged>>

SettingHandlers ==
  [getSetting |-> <<Read("getSetting")>>, setSetting |-> <<Call("setSetting")>>,
   listSettings |-> <<Read("listSettings")>>]

listParams == <<Read("listParams")>>
getParam == <<Read("getParam")>>
setParam == <<Try("createParam"), Call("storeParam"), dataChanged>>
deleteParam == <<Call("deleteParam"), dataChanged>>

listPersonas == <<Read("listPersonas"), Read("activePersonaId")>>
createPersona == <<Call("createPersona"), Call("storePersona"), dataChanged>>
getPersona == <<Get("getPersona")>>
selectPersona == <<Call("setActivePersona"), stateChanged, dataChanged>>
updatePersona == <<Get("getPersona"), Known, Call("storePersona"), dataChanged>>
deletePersona == <<Call("deletePersona"), dataChanged>>

listContacts == <<Read("listContacts")>>
createContact == <<Call("createContact"), Call("storeContact"), dataChanged>>
getContact == <<Get("getContact")>>
updateContact == <<Get("getContact"), Known, Call("storeContact"), dataChanged>>
deleteContact == <<Call("deleteContact"), dataChanged>>
searchContacts == <<Read("searchContacts")>>

listGroups == <<Read("listGroups")>>
createGroup == <<Call("createGroup"), Call("storeGroup"), dataChanged>>
getGroup == <<Get("getGroup")>>
updateGroup == <<Get("getGroup"), Known, Call("storeGroup"), dataChanged>>
deleteGroup == <<Call("deleteGroup"), dataChanged>>
addGroupMember == <<Call("addGroupMember"), dataChanged>>
removeGroupMember == <<Call("removeGroupMember"), dataChanged>>
listGroupMembers == <<Read("listGroupMembers")>>
groupsForContact == <<Read("listGroups"), Read("listGroupMembers")>>

listMessages == <<Read("listMessages")>>
sendMessage == <<Call("createMessage"), Call("storeMessage"), dataChanged>>
getMessage == <<Get("getMessage")>>
deleteMessage == <<Call("deleteMessage"), dataChanged>>

listEvents == <<Read("listEvents")>>
createEvent == <<Call("createEvent"), Call("storeEvent"), dataChanged>>
getEvent == <<Get("getEvent")>>
updateEvent == <<Get("getEvent"), Known, Call("storeEvent"), dataChanged>>
deleteEvent == <<Call("deleteEvent"), dataChanged>>

exitApp == <<Try("exit")>>
refresh == <<stateChanged, dataChanged>>

ContainerHandlers ==
  [initContainer |-> initContainer, openProfile |-> openProfile, createProfile |-> createProfile,
   closeProfile |-> closeProfile, deleteProfile |-> deleteProfile, exportProfile |-> exportProfile,
   importProfile |-> importProfile]
ParamHandlers ==
  [listParams |-> listParams, getParam |-> getParam, setParam |-> setParam, deleteParam |-> deleteParam]
PersonaHandlers ==
  [listPersonas |-> listPersonas, createPersona |-> createPersona, getPersona |-> getPersona,
   selectPersona |-> selectPersona, updatePersona |-> updatePersona, deletePersona |-> deletePersona]
ContactHandlers ==
  [listContacts |-> listContacts, createContact |-> createContact, getContact |-> getContact,
   updateContact |-> updateContact, deleteContact |-> deleteContact, searchContacts |-> searchContacts]
GroupHandlers ==
  [listGroups |-> listGroups, createGroup |-> createGroup, getGroup |-> getGroup,
   updateGroup |-> updateGroup, deleteGroup |-> deleteGroup, addGroupMember |-> addGroupMember,
   removeGroupMember |-> removeGroupMember, listGroupMembers |-> listGroupMembers,
   groupsForContact |-> groupsForContact]
MessageHandlers ==
  [listMessages |-> listMessages, sendMessage |-> sendMessage, getMessage |-> getMessage,
   deleteMessage |-> deleteMessage]
EventHandlers ==
  [listEvents |-> listEvents, createEvent |-> createEvent, getEvent |-> getEvent,
   updateEvent |-> updateEvent, deleteEvent |-> deleteEvent]
AppHandlers == [exitApp |-> exitApp, refresh |-> refresh]

Handlers ==
  Joined({SettingHandlers, ContainerHandlers, ParamHandlers, PersonaHandlers, ContactHandlers,
          GroupHandlers, MessageHandlers, EventHandlers, AppHandlers})

\* What the properties bound to stateChanged, and the main screen on dataChanged,
\* ask of Core.
BoundCalls ==
  {"isContainerInitialized", "isProfileOpen", "getProfile", "getCurrentProfileId",
   "activePersonaId", "currentPersonaName"}
reloadData == {"listContacts", "listGroups", "listEvents"}

\* The screens on which QML calls a handler; the menu is over every screen.
LoginWired == [openProfile |-> {"login"}, createProfile |-> {"login"}]
InitWired == [initContainer |-> {"init"}]
MenuWired ==
  [closeProfile |-> {"main"}, selectPersona |-> {"main"}, exitApp |-> {"init", "login", "main"},
   getSetting |-> {"init", "login", "main"}]
MainWired ==
  [refresh |-> {"main"}, deleteContact |-> {"main"}, deleteEvent |-> {"main"},
   sendMessage |-> {"main"}, setParam |-> {"main"}]
Wired == Joined({LoginWired, InitWired, MenuWired, MainWired})
=============================================================================
