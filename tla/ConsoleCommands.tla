--------------------------- MODULE ConsoleCommands ---------------------------
(***************************************************************************)
(* The commands of the console (src/plugins/ui-console/src/ConsoleUI.cpp)  *)
(* as sequences of steps, and what the prompts of console/Prompt.cpp give  *)
(* back.  FrontEnds runs them.                                             *)
(***************************************************************************)
EXTENDS Sequences, Tables

\* The steps: a test that ends the command with an error, a prompt for an
\* argument that was not on the line, a record that must be there, an answer
\* that is only shown, a call whose answer decides, one whose answer is ignored,
\* the field or date being a known one, the id not being the active persona's,
\* and a signal sent.
Need(what) == [op |-> "need", arg |-> what]
Ask(site) == [op |-> "ask", arg |-> site]
Get(method) == [op |-> "get", arg |-> method]
Read(method) == [op |-> "read", arg |-> method]
Call(method) == [op |-> "call", arg |-> method]
Try(method) == [op |-> "try", arg |-> method]
Known == [op |-> "known", arg |-> "field"]
ValidDate == [op |-> "known", arg |-> "date"]
NotActive == [op |-> "notActive", arg |-> "id"]
Emit(signal) == [op |-> "emit", arg |-> signal]

-----------------------------------------------------------------------------
(* Prompts: what is returned for what the user does. "untouched" is Enter    *)
(* before any key, "blank" Enter after everything typed was erased.          *)

askText == [answer |-> "text", blank |-> "empty", untouched |-> "null", CtrlC |-> "null"]
askPassword == [answer |-> "text", blank |-> "empty", untouched |-> "null", CtrlC |-> "null"]
askSelect == [answer |-> "index", CtrlC |-> "-1"]
askConfirm == [answer |-> "true", untouched |-> "false", CtrlC |-> "false"]
askNumber == [answer |-> "number", blank |-> "number", untouched |-> "number", CtrlC |-> "number"]

\* The prompt of each site, and the returned values with which a command goes
\* on: most test isEmpty(), the new value of a field isNull().
Prompts ==
  [text |-> askText, id |-> askText, value |-> askText, password |-> askPassword,
   newPassword |-> askPassword, field |-> askSelect, persona |-> askSelect,
   confirm |-> askConfirm, number |-> askNumber]
GoesOn ==
  [s \in DOMAIN Prompts |->
    CASE s = "value" -> {"text", "empty"}
      [] s \in {"field", "persona"} -> {"index"}
      [] s = "confirm" -> {"true"}
      [] s = "number" -> {"number"}
      [] OTHER -> {"text"}]

-----------------------------------------------------------------------------
(* Commands, named by their words *)

SettingsCommands ==
  [settings_list |-> <<Read("listSettings"), Read("getSetting")>>,
   settings_get |-> <<Ask("text"), Read("getSetting")>>,
   settings_set |-> <<Ask("text"), Ask("value"), Try("setSetting")>>]

init == <<Need("noContainer"), Need("path"), Ask("number"), Call("createContainer")>>
init_auto == <<Need("noContainer"), Read("getSetting")>>
InitCommands == [init |-> init, init_auto |-> init_auto]

ProfileOpen == <<Need("container"), Ask("password"), Call("openProfile"), Read("getProfile")>>
ProfileCreate ==
  <<Need("container"), Ask("newPassword"), Ask("text"), Call("createProfile"), Read("getProfile")>>
ProfileCurrent ==
  <<Need("profile"), Read("getProfile"), Read("currentPersonaName"), Read("activePersonaId")>>
\* Mutant: the field is looked at when the profile has been stored.
MutProfileUpdate ==
  <<Need("profile"), Ask("field"), Ask("value"), Read("getProfile"), Call("storeProfile"), Known>>
ProfileUpdate ==
  <<Need("profile"), Ask("field"), Ask("value"), Read("getProfile"), Known, Call("storeProfile")>>
ProfileClose == <<Need("profile"), Try("closeProfile")>>
ProfileDelete == <<Need("profile"), Ask("confirm"), Call("deleteCurrentProfile")>>
ProfileExport == <<Need("profile"), Call("exportProfile")>>
ProfileImport ==
  <<Need("container"), Ask("text"), Ask("password"), Call("importProfile"), Read("getProfile")>>
ProfileCommands ==
  [profile_open |-> ProfileOpen, profile_create |-> ProfileCreate, profile_current |-> ProfileCurrent,
   profile_update |-> ProfileUpdate, profile_close |-> ProfileClose, profile_delete |-> ProfileDelete,
   profile_export |-> ProfileExport, profile_import |-> ProfileImport]

PersonaList == <<Need("profile"), Read("listPersonas"), Read("activePersonaId")>>
PersonaCreate == <<Need("profile"), Ask("text"), Call("createPersona"), Call("storePersona")>>
PersonaSelect ==
  <<Need("profile"), Ask("persona"), Call("setActivePersona"), Read("currentPersonaName")>>
PersonaInfo == <<Need("profile"), Ask("id"), Get("getPersona")>>
PersonaUpdate ==
  <<Need("profile"), Ask("id"), Get("getPersona"), Ask("field"), Ask("value"), Known, Call("storePersona")>>
\* Mutant: any persona may be deleted.
MutPersonaDelete == <<Need("profile"), Ask("id"), Ask("confirm"), Call("deletePersona")>>
PersonaDelete ==
  <<Need("profile"), Ask("id"), NotActive, Ask("confirm"), Call("deletePersona")>>
PersonaCommands ==
  [persona_list |-> PersonaList, persona_create |-> PersonaCreate, persona_select |-> PersonaSelect,
   persona_info |-> PersonaInfo, persona_update |-> PersonaUpdate, persona_delete |-> PersonaDelete]

ContactList == <<Need("profile"), Read("listContacts")>>
ContactAdd == <<Need("profile"), Ask("text"), Call("createContact"), Call("storeContact")>>
ContactInfo == <<Need("profile"), Ask("text"), Get("getContact")>>
ContactUpdate ==
  <<Need("profile"), Ask("text"), Get("getContact"), Ask("field"), Ask("value"), Known, Call("storeContact")>>
ContactDelete == <<Need("profile"), Ask("text"), Ask("confirm"), Call("deleteContact")>>
ContactSearch == <<Need("profile"), Ask("text"), Read("searchContacts")>>
ContactCommands ==
  [contact_list |-> ContactList, contact_add |-> ContactAdd, contact_info |-> ContactInfo,
   contact_update |-> ContactUpdate, contact_delete |-> ContactDelete, contact_search |-> ContactSearch]

GroupList == <<Need("profile"), Read("listGroups")>>
GroupCreate == <<Need("profile"), Ask("text"), Call("createGroup"), Call("storeGroup")>>
GroupInfo ==
  <<Need("profile"), Ask("text"), Get("getGroup"), Read("listGroupMembers"), Read("getContact")>>
GroupUpdate ==
  <<Need("profile"), Ask("text"), Get("getGroup"), Ask("field"), Ask("value"), Known, Call("storeGroup")>>
GroupDelete == <<Need("profile"), Ask("text"), Ask("confirm"), Call("deleteGroup")>>
GroupAddMember == <<Need("profile"), Ask("text"), Ask("text"), Call("addGroupMember")>>
GroupRemoveMember == <<Need("profile"), Ask("text"), Ask("text"), Call("removeGroupMember")>>
GroupCommands ==
  [group_list |-> GroupList, group_create |-> GroupCreate, group_info |-> GroupInfo,
   group_update |-> GroupUpdate, group_delete |-> GroupDelete, group_add_member |-> GroupAddMember,
   group_remove_member |-> GroupRemoveMember]

MessageList == <<Need("profile"), Read("listMessages")>>
MessageSend ==
  <<Need("profile"), Ask("text"), Ask("text"), Call("createMessage"), Call("storeMessage")>>
MessageRead == <<Need("profile"), Ask("text"), Get("getMessage")>>
MessageDelete == <<Need("profile"), Ask("text"), Call("deleteMessage")>>
MessageCommands ==
  [message_list |-> MessageList, message_send |-> MessageSend, message_read |-> MessageRead,
   message_delete |-> MessageDelete]

EventList == <<Need("profile"), Read("listEvents")>>
EventCreate == <<Need("profile"), Ask("text"), Ask("text"), Call("createEvent"), Call("storeEvent")>>
EventInfo == <<Need("profile"), Ask("text"), Get("getEvent")>>
EventUpdate ==
  <<Need("profile"), Ask("text"), Get("getEvent"), Ask("field"), Ask("value"), Known, ValidDate,
    Call("storeEvent")>>
EventDelete == <<Need("profile"), Ask("text"), Call("deleteEvent")>>
EventCommands ==
  [event_list |-> EventList, event_create |-> EventCreate, event_info |-> EventInfo,
   event_update |-> EventUpdate, event_delete |-> EventDelete]

\* color and nocolor leave Core alone.
UtilityCommands == [exit |-> <<Try("exit")>>]

\* What the prompt before every line asks of Core.
promptText == {"isProfileOpen", "currentPersonaName"}

\* configure().
Commands ==
  Joined({SettingsCommands, InitCommands, ProfileCommands, PersonaCommands, ContactCommands,
          GroupCommands, MessageCommands, EventCommands, UtilityCommands})
=============================================================================
