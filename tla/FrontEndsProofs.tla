--------------------------- MODULE FrontEndsProofs ---------------------------
(***************************************************************************)
(* Proofs about FrontEnds, for any set of personas.  First what every      *)
(* command and handler has in common, read off their steps; then the       *)
(* invariants, which follow a script from one step to the next.            *)
(***************************************************************************)
EXTENDS FrontEnds, TLAPS

-----------------------------------------------------------------------------
(* What the scripts have in common *)

\* The calls a front end may make: every one but those that hand out plugins.
Allowed ==
  DOMAIN ContainerGate \cup DOMAIN ProfileGate \cup DOMAIN ProfileDataGate \cup DOMAIN ParamGate
    \cup DOMAIN TransferGate \cup DOMAIN SettingsGate \cup DOMAIN PersonaGate
    \cup DOMAIN ContactGate \cup DOMAIN GroupGate \cup DOMAIN MessageGate \cup DOMAIN EventGate
    \cup DOMAIN ExitGate

\* The calls that leave no trace in a profile, and the others.
Harmless ==
  {"exportProfile", "createPersona", "createParam", "createContact", "createGroup",
   "createMessage", "createEvent"}
Changing ==
  {"createContainer", "openProfile", "createProfile", "importProfile", "closeProfile", "exit",
   "deleteCurrentProfile", "storeProfile", "setSetting", "setActivePersona", "storePersona",
   "deletePersona", "storeParam", "deleteParam", "storeMessage", "deleteMessage", "storeContact",
   "storeGroup", "storeEvent", "addGroupMember", "removeGroupMember", "deleteContact",
   "deleteEvent", "deleteGroup"}
Callable == Harmless \cup Changing

Steps ==
  [op : {"need"}, arg : {"profile", "container", "noContainer", "path"}]
    \cup [op : {"ask"}, arg : DOMAIN Prompts]
    \cup [op : {"get", "read"}, arg : Allowed]
    \cup [op : {"call", "try"}, arg : Callable]
    \cup [op : {"known"}, arg : {"field", "date"}]
    \cup [op : {"notActive"}, arg : {"id"}]
    \cup [op : {"emit"}, arg : {"stateChanged", "dataChanged"}]

Refuses(step) == step.op \in {"need", "ask", "get", "known", "notActive"}
Changes(step) == step.op \in {"call", "try"} /\ step.arg \in Changing
QuestionsFirst(script) ==
  \A j, k \in 1..Len(script) : j < k /\ Changes(script[j]) => ~Refuses(script[k])

\* A persona is deleted right after it was compared with the active one, but
\* for the question whether to.
GuardsDelete(script) ==
  \A k \in 1..Len(script) : script[k].op \in {"call", "try"} /\ script[k].arg = "deletePersona" =>
    \E j \in 1..(k - 1) :
      /\ script[j] = NotActive
      /\ \A i \in (j + 1)..(k - 1) : script[i] = Ask("confirm")

Sound == {script \in Seq(Steps) : QuestionsFirst(script)}
Careful == {script \in Sound : GuardsDelete(script)}
RowsIn(table, S) == \A row \in DOMAIN table : table[row] \in S

\* Tables have together what each has.
LEMMA JoinedRows ==
  ASSUME NEW tables, NEW S, \A t \in tables : RowsIn(t, S)
  PROVE  RowsIn(Joined(tables), S)
BY DEF RowsIn, Joined

\* The steps the scripts are built from are Steps.
LEMMA KnownSteps ==
  /\ \A what \in {"profile", "container", "noContainer", "path"} : Need(what) \in Steps
  /\ \A site \in DOMAIN Prompts : Ask(site) \in Steps
  /\ \A m \in Allowed : Get(m) \in Steps /\ Read(m) \in Steps
  /\ \A m \in Callable : Call(m) \in Steps /\ Try(m) \in Steps
  /\ Known \in Steps /\ ValidDate \in Steps /\ NotActive \in Steps
  /\ stateChanged \in Steps /\ dataChanged \in Steps
BY DEF Steps, Need, Ask, Get, Read, Call, Try, Known, ValidDate, NotActive, Emit, stateChanged,
       dataChanged


\* The commands of buildSettingsCommands are careful.
LEMMA SettingsCommandsSound == RowsIn(SettingsCommands, Careful)
<1> DEFINE scripts ==
           {<<Read("listSettings"), Read("getSetting")>>, <<Ask("text"), Read("getSetting")>>,
            <<Ask("text"), Ask("value"), Try("setSetting")>>}
<1>1. scripts \subseteq Seq(Steps)
  BY KnownSteps DEF Prompts, SettingsGate, Allowed, Callable, Harmless, Changing
<1>2. \A s \in scripts : QuestionsFirst(s)
  BY DEF QuestionsFirst, Changes, Refuses, Changing, Need, Ask, Get, Read, Call, Try, Known,
         ValidDate, NotActive
<1>3. \A s \in scripts : \A k \in 1..Len(s) : s[k].arg # "deletePersona"
  BY DEF Need, Ask, Get, Read, Call, Try, Known, ValidDate, NotActive
<1>4. \A row \in DOMAIN SettingsCommands : SettingsCommands[row] \in scripts
  BY DEF SettingsCommands
<1>5. QED
  BY <1>1, <1>2, <1>3, <1>4 DEF RowsIn, Sound, Careful, GuardsDelete

\* The commands of buildInitCommands are careful.
LEMMA InitCommandsSound == RowsIn(InitCommands, Careful)
<1> DEFINE scripts ==
           {init, init_auto}
<1>1. scripts \subseteq Seq(Steps)
  BY KnownSteps DEF Prompts, SettingsGate, Allowed, Callable, Harmless, Changing, init,
         init_auto
<1>2. \A s \in scripts : QuestionsFirst(s)
  BY DEF QuestionsFirst, Changes, Refuses, Changing, Need, Ask, Get, Read, Call, Try, Known,
         ValidDate, NotActive, init, init_auto
<1>3. \A s \in scripts : \A k \in 1..Len(s) : s[k].arg # "deletePersona"
  BY DEF Need, Ask, Get, Read, Call, Try, Known, ValidDate, NotActive, init, init_auto
<1>4. \A row \in DOMAIN InitCommands : InitCommands[row] \in scripts
  BY DEF InitCommands
<1>5. QED
  BY <1>1, <1>2, <1>3, <1>4 DEF RowsIn, Sound, Careful, GuardsDelete

\* The commands of buildProfileCommands are careful.
LEMMA ProfileCommandsSound == RowsIn(ProfileCommands, Careful)
<1> DEFINE scripts ==
           {ProfileOpen, ProfileCreate, ProfileCurrent, ProfileUpdate, ProfileClose,
            ProfileDelete, ProfileExport, ProfileImport}
<1>1. scripts \subseteq Seq(Steps)
  BY KnownSteps DEF Prompts, ProfileDataGate, PersonaGate, Allowed, Callable, Harmless,
         Changing, ProfileOpen, ProfileCreate, ProfileCurrent, ProfileUpdate, ProfileClose,
         ProfileDelete, ProfileExport, ProfileImport
<1>2. \A s \in scripts : QuestionsFirst(s)
  BY DEF QuestionsFirst, Changes, Refuses, Changing, Need, Ask, Get, Read, Call, Try, Known,
         ValidDate, NotActive, ProfileOpen, ProfileCreate, ProfileCurrent, ProfileUpdate,
         ProfileClose, ProfileDelete, ProfileExport, ProfileImport
<1>3. \A s \in scripts : \A k \in 1..Len(s) : s[k].arg # "deletePersona"
  BY DEF Need, Ask, Get, Read, Call, Try, Known, ValidDate, NotActive, ProfileOpen,
         ProfileCreate, ProfileCurrent, ProfileUpdate, ProfileClose, ProfileDelete,
         ProfileExport, ProfileImport
<1>4. \A row \in DOMAIN ProfileCommands : ProfileCommands[row] \in scripts
  BY DEF ProfileCommands
<1>5. QED
  BY <1>1, <1>2, <1>3, <1>4 DEF RowsIn, Sound, Careful, GuardsDelete

\* The commands of buildPersonaCommands are careful.
LEMMA PersonaCommandsSound == RowsIn(PersonaCommands, Careful)
<1> DEFINE scripts ==
           {PersonaList, PersonaCreate, PersonaSelect, PersonaInfo, PersonaUpdate, PersonaDelete}
<1>1. scripts \subseteq Seq(Steps)
  BY KnownSteps DEF Prompts, ProfileDataGate, PersonaGate, Allowed, Callable, Harmless,
         Changing, PersonaList, PersonaCreate, PersonaSelect, PersonaInfo, PersonaUpdate,
         PersonaDelete
<1>2. \A s \in scripts : QuestionsFirst(s)
  BY SMTT(20) DEF QuestionsFirst, Changes, Refuses, Changing, Need, Ask, Get, Read, Call, Try, Known,
         ValidDate, NotActive, PersonaList, PersonaCreate, PersonaSelect, PersonaInfo,
         PersonaUpdate, PersonaDelete
<1>3. \A s \in scripts : GuardsDelete(s)
  <2>1. \A s \in scripts \ {PersonaDelete} : \A k \in 1..Len(s) : s[k].arg # "deletePersona"
    BY DEF Need, Ask, Get, Read, Call, Try, Known, ValidDate, NotActive, PersonaList,
           PersonaCreate, PersonaSelect, PersonaInfo, PersonaUpdate, PersonaDelete
  <2>2. GuardsDelete(PersonaDelete)
    BY DEF GuardsDelete, PersonaDelete, Need, Ask, NotActive, Call
  <2>3. QED
    BY <2>1, <2>2 DEF GuardsDelete
<1>4. \A row \in DOMAIN PersonaCommands : PersonaCommands[row] \in scripts
  BY DEF PersonaCommands
<1>5. QED
  BY <1>1, <1>2, <1>3, <1>4 DEF RowsIn, Sound, Careful

\* The commands of buildContactCommands are careful.
LEMMA ContactCommandsSound == RowsIn(ContactCommands, Careful)
<1> DEFINE scripts ==
           {ContactList, ContactAdd, ContactInfo, ContactUpdate, ContactDelete, ContactSearch}
<1>1. scripts \subseteq Seq(Steps)
  BY KnownSteps DEF Prompts, ContactGate, Allowed, Callable, Harmless, Changing, ContactList,
         ContactAdd, ContactInfo, ContactUpdate, ContactDelete, ContactSearch
<1>2. \A s \in scripts : QuestionsFirst(s)
  <2>1. QuestionsFirst(ContactList) /\ QuestionsFirst(ContactAdd) /\ QuestionsFirst(ContactInfo)
    BY DEF QuestionsFirst, Changes, Refuses, Changing, Need, Ask, Get, Read, Call, Try, Known,
           ValidDate, NotActive, ContactList, ContactAdd, ContactInfo
  <2>2. QuestionsFirst(ContactUpdate) /\ QuestionsFirst(ContactDelete)
       /\ QuestionsFirst(ContactSearch)
    BY DEF QuestionsFirst, Changes, Refuses, Changing, Need, Ask, Get, Read, Call, Try, Known,
           ValidDate, NotActive, ContactUpdate, ContactDelete, ContactSearch
  <2>3. QED
    BY <2>1, <2>2
<1>3. \A s \in scripts : \A k \in 1..Len(s) : s[k].arg # "deletePersona"
  BY SMTT(20) DEF Need, Ask, Get, Read, Call, Try, Known, ValidDate, NotActive, ContactList, ContactAdd,
         ContactInfo, ContactUpdate, ContactDelete, ContactSearch
<1>4. \A row \in DOMAIN ContactCommands : ContactCommands[row] \in scripts
  BY DEF ContactCommands
<1>5. QED
  BY <1>1, <1>2, <1>3, <1>4 DEF RowsIn, Sound, Careful, GuardsDelete

\* The commands of buildGroupCommands are careful.
LEMMA GroupCommandsSound == RowsIn(GroupCommands, Careful)
<1> DEFINE scripts ==
           {GroupList, GroupCreate, GroupInfo, GroupUpdate, GroupDelete, GroupAddMember,
            GroupRemoveMember}
<1>1. scripts \subseteq Seq(Steps)
  BY KnownSteps DEF Prompts, GroupGate, ContactGate, Allowed, Callable, Harmless, Changing,
         GroupList, GroupCreate, GroupInfo, GroupUpdate, GroupDelete, GroupAddMember,
         GroupRemoveMember
<1>2. \A s \in scripts : QuestionsFirst(s)
  <2>1. QuestionsFirst(GroupList) /\ QuestionsFirst(GroupCreate) /\ QuestionsFirst(GroupInfo)
       /\ QuestionsFirst(GroupUpdate)
    BY DEF QuestionsFirst, Changes, Refuses, Changing, Need, Ask, Get, Read, Call, Try, Known,
           ValidDate, NotActive, GroupList, GroupCreate, GroupInfo, GroupUpdate
  <2>2. QuestionsFirst(GroupDelete) /\ QuestionsFirst(GroupAddMember)
       /\ QuestionsFirst(GroupRemoveMember)
    BY DEF QuestionsFirst, Changes, Refuses, Changing, Need, Ask, Get, Read, Call, Try, Known,
           ValidDate, NotActive, GroupDelete, GroupAddMember, GroupRemoveMember
  <2>3. QED
    BY <2>1, <2>2
<1>3. \A s \in scripts : \A k \in 1..Len(s) : s[k].arg # "deletePersona"
  BY DEF Need, Ask, Get, Read, Call, Try, Known, ValidDate, NotActive, GroupList, GroupCreate,
         GroupInfo, GroupUpdate, GroupDelete, GroupAddMember, GroupRemoveMember
<1>4. \A row \in DOMAIN GroupCommands : GroupCommands[row] \in scripts
  BY DEF GroupCommands
<1>5. QED
  BY <1>1, <1>2, <1>3, <1>4 DEF RowsIn, Sound, Careful, GuardsDelete

\* The commands of buildMessageCommands are careful.
LEMMA MessageCommandsSound == RowsIn(MessageCommands, Careful)
<1> DEFINE scripts ==
           {MessageList, MessageSend, MessageRead, MessageDelete}
<1>1. scripts \subseteq Seq(Steps)
  BY KnownSteps DEF Prompts, MessageGate, Allowed, Callable, Harmless, Changing, MessageList,
         MessageSend, MessageRead, MessageDelete
<1>2. \A s \in scripts : QuestionsFirst(s)
  BY SMTT(20) DEF QuestionsFirst, Changes, Refuses, Changing, Need, Ask, Get, Read, Call, Try, Known,
         ValidDate, NotActive, MessageList, MessageSend, MessageRead, MessageDelete
<1>3. \A s \in scripts : \A k \in 1..Len(s) : s[k].arg # "deletePersona"
  BY DEF Need, Ask, Get, Read, Call, Try, Known, ValidDate, NotActive, MessageList, MessageSend,
         MessageRead, MessageDelete
<1>4. \A row \in DOMAIN MessageCommands : MessageCommands[row] \in scripts
  BY DEF MessageCommands
<1>5. QED
  BY <1>1, <1>2, <1>3, <1>4 DEF RowsIn, Sound, Careful, GuardsDelete

\* The commands of buildEventCommands are careful.
LEMMA EventCommandsSound == RowsIn(EventCommands, Careful)
<1> DEFINE scripts ==
           {EventList, EventCreate, EventInfo, EventUpdate, EventDelete}
<1>1. scripts \subseteq Seq(Steps)
  BY KnownSteps DEF Prompts, EventGate, Allowed, Callable, Harmless, Changing, EventList,
         EventCreate, EventInfo, EventUpdate, EventDelete
<1>2. \A s \in scripts : QuestionsFirst(s)
  BY SMTT(20) DEF QuestionsFirst, Changes, Refuses, Changing, Need, Ask, Get, Read, Call, Try, Known,
         ValidDate, NotActive, EventList, EventCreate, EventInfo, EventUpdate, EventDelete
<1>3. \A s \in scripts : \A k \in 1..Len(s) : s[k].arg # "deletePersona"
  <2>1. \A s \in scripts \ {EventUpdate} : \A k \in 1..Len(s) : s[k].arg # "deletePersona"
    BY DEF Need, Ask, Get, Read, Call, EventList, EventCreate, EventInfo, EventUpdate,
           EventDelete
  <2>2. \A k \in 1..Len(EventUpdate) : EventUpdate[k].arg # "deletePersona"
    BY DEF EventUpdate, Need, Ask, Get, Known, ValidDate, Call
  <2>3. QED
    BY <2>1, <2>2
<1>4. \A row \in DOMAIN EventCommands : EventCommands[row] \in scripts
  BY DEF EventCommands
<1>5. QED
  BY <1>1, <1>2, <1>3, <1>4 DEF RowsIn, Sound, Careful, GuardsDelete

\* Those of SettingHandlers are sound.
LEMMA SettingHandlersSound == RowsIn(SettingHandlers, Sound)
<1> DEFINE scripts ==
           {<<Read("getSetting")>>, <<Call("setSetting")>>, <<Read("listSettings")>>}
<1>1. scripts \subseteq Seq(Steps)
  BY KnownSteps DEF Prompts, SettingsGate, Allowed, Callable, Harmless, Changing
<1>2. \A s \in scripts : QuestionsFirst(s)
  BY DEF QuestionsFirst, Changes, Refuses, Changing, Need, Ask, Get, Read, Call, Try, Known,
         ValidDate, NotActive, Emit, stateChanged, dataChanged
<1>3. \A row \in DOMAIN SettingHandlers : SettingHandlers[row] \in scripts
  BY DEF SettingHandlers
<1>4. QED
  BY <1>1, <1>2, <1>3 DEF RowsIn, Sound

\* Those of ContainerHandlers are sound.
LEMMA ContainerHandlersSound == RowsIn(ContainerHandlers, Sound)
<1> DEFINE scripts ==
           {initContainer, openProfile, createProfile, closeProfile, deleteProfile,
            exportProfile, importProfile}
<1>1. scripts \subseteq Seq(Steps)
  BY KnownSteps DEF Prompts, ProfileDataGate, TransferGate, Allowed, Callable, Harmless,
         Changing, initContainer, openProfile, createProfile, closeProfile, deleteProfile,
         exportProfile, importProfile
<1>2. \A s \in scripts : QuestionsFirst(s)
  BY DEF QuestionsFirst, Changes, Refuses, Changing, Need, Ask, Get, Read, Call, Try, Known,
         ValidDate, NotActive, Emit, stateChanged, dataChanged, initContainer, openProfile,
         createProfile, closeProfile, deleteProfile, exportProfile, importProfile
<1>3. \A row \in DOMAIN ContainerHandlers : ContainerHandlers[row] \in scripts
  BY DEF ContainerHandlers
<1>4. QED
  BY <1>1, <1>2, <1>3 DEF RowsIn, Sound

\* Those of ParamHandlers are sound.
LEMMA ParamHandlersSound == RowsIn(ParamHandlers, Sound)
<1> DEFINE scripts ==
           {listParams, getParam, setParam, deleteParam}
<1>1. scripts \subseteq Seq(Steps)
  BY KnownSteps DEF Prompts, ParamGate, Allowed, Callable, Harmless, Changing, listParams,
         getParam, setParam, deleteParam
<1>2. \A s \in scripts : QuestionsFirst(s)
  BY DEF QuestionsFirst, Changes, Refuses, Changing, Need, Ask, Get, Read, Call, Try, Known,
         ValidDate, NotActive, Emit, stateChanged, dataChanged, listParams, getParam, setParam,
         deleteParam
<1>3. \A row \in DOMAIN ParamHandlers : ParamHandlers[row] \in scripts
  BY DEF ParamHandlers
<1>4. QED
  BY <1>1, <1>2, <1>3 DEF RowsIn, Sound

\* Those of PersonaHandlers are sound.
LEMMA PersonaHandlersSound == RowsIn(PersonaHandlers, Sound)
<1> DEFINE scripts ==
           {listPersonas, createPersona, getPersona, selectPersona, updatePersona, deletePersona}
<1>1. scripts \subseteq Seq(Steps)
  BY KnownSteps DEF Prompts, PersonaGate, Allowed, Callable, Harmless, Changing, listPersonas,
         createPersona, getPersona, selectPersona, updatePersona, deletePersona
<1>2. \A s \in scripts : QuestionsFirst(s)
  BY DEF QuestionsFirst, Changes, Refuses, Changing, Need, Ask, Get, Read, Call, Try, Known,
         ValidDate, NotActive, Emit, stateChanged, dataChanged, listPersonas, createPersona,
         getPersona, selectPersona, updatePersona, deletePersona
<1>3. \A row \in DOMAIN PersonaHandlers : PersonaHandlers[row] \in scripts
  BY DEF PersonaHandlers
<1>4. QED
  BY <1>1, <1>2, <1>3 DEF RowsIn, Sound

\* Those of ContactHandlers are sound.
LEMMA ContactHandlersSound == RowsIn(ContactHandlers, Sound)
<1> DEFINE scripts ==
           {listContacts, createContact, getContact, updateContact, deleteContact,
            searchContacts}
<1>1. scripts \subseteq Seq(Steps)
  BY KnownSteps DEF Prompts, ContactGate, Allowed, Callable, Harmless, Changing, listContacts,
         createContact, getContact, updateContact, deleteContact, searchContacts
<1>2. \A s \in scripts : QuestionsFirst(s)
  BY DEF QuestionsFirst, Changes, Refuses, Changing, Need, Ask, Get, Read, Call, Try, Known,
         ValidDate, NotActive, Emit, stateChanged, dataChanged, listContacts, createContact,
         getContact, updateContact, deleteContact, searchContacts
<1>3. \A row \in DOMAIN ContactHandlers : ContactHandlers[row] \in scripts
  BY DEF ContactHandlers
<1>4. QED
  BY <1>1, <1>2, <1>3 DEF RowsIn, Sound

\* Those of GroupHandlers are sound.
LEMMA GroupHandlersSound == RowsIn(GroupHandlers, Sound)
<1> DEFINE scripts ==
           {listGroups, createGroup, getGroup, updateGroup, deleteGroup, addGroupMember,
            removeGroupMember, listGroupMembers, groupsForContact}
<1>1. scripts \subseteq Seq(Steps)
  BY KnownSteps DEF Prompts, GroupGate, Allowed, Callable, Harmless, Changing, listGroups,
         createGroup, getGroup, updateGroup, deleteGroup, addGroupMember, removeGroupMember,
         listGroupMembers, groupsForContact
<1>2. \A s \in scripts : QuestionsFirst(s)
  BY DEF QuestionsFirst, Changes, Refuses, Changing, Need, Ask, Get, Read, Call, Try, Known,
         ValidDate, NotActive, Emit, stateChanged, dataChanged, listGroups, createGroup,
         getGroup, updateGroup, deleteGroup, addGroupMember, removeGroupMember,
         listGroupMembers, groupsForContact
<1>3. \A row \in DOMAIN GroupHandlers : GroupHandlers[row] \in scripts
  BY DEF GroupHandlers
<1>4. QED
  BY <1>1, <1>2, <1>3 DEF RowsIn, Sound

\* Those of MessageHandlers are sound.
LEMMA MessageHandlersSound == RowsIn(MessageHandlers, Sound)
<1> DEFINE scripts ==
           {listMessages, sendMessage, getMessage, deleteMessage}
<1>1. scripts \subseteq Seq(Steps)
  BY KnownSteps DEF Prompts, MessageGate, Allowed, Callable, Harmless, Changing, listMessages,
         sendMessage, getMessage, deleteMessage
<1>2. \A s \in scripts : QuestionsFirst(s)
  BY DEF QuestionsFirst, Changes, Refuses, Changing, Need, Ask, Get, Read, Call, Try, Known,
         ValidDate, NotActive, Emit, stateChanged, dataChanged, listMessages, sendMessage,
         getMessage, deleteMessage
<1>3. \A row \in DOMAIN MessageHandlers : MessageHandlers[row] \in scripts
  BY DEF MessageHandlers
<1>4. QED
  BY <1>1, <1>2, <1>3 DEF RowsIn, Sound

\* Those of EventHandlers are sound.
LEMMA EventHandlersSound == RowsIn(EventHandlers, Sound)
<1> DEFINE scripts ==
           {listEvents, createEvent, getEvent, updateEvent, deleteEvent}
<1>1. scripts \subseteq Seq(Steps)
  BY KnownSteps DEF Prompts, EventGate, Allowed, Callable, Harmless, Changing, listEvents,
         createEvent, getEvent, updateEvent, deleteEvent
<1>2. \A s \in scripts : QuestionsFirst(s)
  BY DEF QuestionsFirst, Changes, Refuses, Changing, Need, Ask, Get, Read, Call, Try, Known,
         ValidDate, NotActive, Emit, stateChanged, dataChanged, listEvents, createEvent,
         getEvent, updateEvent, deleteEvent
<1>3. \A row \in DOMAIN EventHandlers : EventHandlers[row] \in scripts
  BY DEF EventHandlers
<1>4. QED
  BY <1>1, <1>2, <1>3 DEF RowsIn, Sound

\* Those of AppHandlers are sound.
LEMMA AppHandlersSound == RowsIn(AppHandlers, Sound)
<1> DEFINE scripts ==
           {exitApp, refresh}
<1>1. scripts \subseteq Seq(Steps)
  BY KnownSteps DEF Prompts, Allowed, Callable, Harmless, Changing, exitApp, refresh
<1>2. \A s \in scripts : QuestionsFirst(s)
  BY DEF QuestionsFirst, Changes, Refuses, Changing, Need, Ask, Get, Read, Call, Try, Known,
         ValidDate, NotActive, Emit, stateChanged, dataChanged, exitApp, refresh
<1>3. \A row \in DOMAIN AppHandlers : AppHandlers[row] \in scripts
  BY DEF AppHandlers
<1>4. QED
  BY <1>1, <1>2, <1>3 DEF RowsIn, Sound

\* The one of buildUtilityCommands that calls Core.
LEMMA UtilityCommandsSound == RowsIn(UtilityCommands, Careful)
<1> DEFINE script == <<Try("exit")>>
<1>1. Len(script) = 1 /\ script[1] = Try("exit")
  OBVIOUS
<1>2. script \in Seq(Steps)
  BY KnownSteps DEF Callable, Changing
<1>3. script \in Careful
  BY <1>1, <1>2 DEF Careful, Sound, QuestionsFirst, GuardsDelete, Try, Refuses
<1>4. QED
  BY <1>3 DEF RowsIn, UtilityCommands

\* Every command is careful: what it may refuse it asks before it changes
\* anything, and it does not delete the active persona.
LEMMA CommandsCareful == \A cmd \in DOMAIN Commands : Commands[cmd] \in Careful
BY JoinedRows, SettingsCommandsSound, InitCommandsSound, ProfileCommandsSound,
   PersonaCommandsSound, ContactCommandsSound, GroupCommandsSound, MessageCommandsSound,
   EventCommandsSound, UtilityCommandsSound
   DEF Commands, RowsIn

\* Every handler asks before it changes anything.
LEMMA HandlersSound == \A cmd \in DOMAIN Handlers : Handlers[cmd] \in Sound
BY JoinedRows, SettingHandlersSound, ContainerHandlersSound, ParamHandlersSound,
   PersonaHandlersSound, ContactHandlersSound, GroupHandlersSound, MessageHandlersSound,
   EventHandlersSound, AppHandlersSound
   DEF Handlers, RowsIn

\* A method of Core other than those that hand out plugins is allowed to the
\* front ends.
LEMMA AllowedChecked == \A m \in Allowed : check(FrontEndPermissions, m)
<1> DEFINE gates ==
      {ContainerGate, ProfileGate, ProfileDataGate, ParamGate, TransferGate, SettingsGate,
       PersonaGate, ContactGate, GroupGate, MessageGate, EventGate, ExitGate}
<1> DEFINE all == gates \cup {PluginGate}
<1> SUFFICES ASSUME NEW m \in Allowed
             PROVE  check(FrontEndPermissions, m)
  OBVIOUS
<1>1. PICK gate \in gates : m \in DOMAIN gate
  BY DEF Allowed
<1>2. m \notin DOMAIN PluginGate
  BY DEF PluginGate, Allowed, ContainerGate, ProfileGate, ProfileDataGate, ParamGate,
         TransferGate, SettingsGate, PersonaGate, ContactGate, GroupGate, MessageGate, EventGate,
         ExitGate
<1>3. Gate[m] = (CHOOSE t \in all : m \in DOMAIN t)[m]
  BY <1>1 DEF Gate, Joined
<1>4. PICK t \in gates : m \in DOMAIN t /\ Gate[m] = t[m]
  BY <1>1, <1>2, <1>3
<1>5. \A g \in gates : \A n \in DOMAIN g :
        g[n] \in (Categories \ {"PluginAccess", "ExportImport"}) \cup {"ProfileExport", "ProfileImport"}
  BY DEF ContainerGate, ProfileGate, ProfileDataGate, ParamGate, TransferGate, SettingsGate,
         PersonaGate, ContactGate, GroupGate, MessageGate, EventGate, ExitGate, Categories
<1>6. DOMAIN Bit = (Categories \ {"ExportImport"}) \cup {"ProfileDelete", "ProfileExport", "ProfileImport"}
  BY DEF Bit, Joined
<1>7. Gate[m] \in FrontEndPermissions
  BY <1>4, <1>5, <1>6 DEF FrontEndPermissions, Permissions, Categories
<1>8. QED
  BY <1>7 DEF check, expandImpliedPermissions

\* What a step asks of Core is allowed.
LEMMA StepsAllowed == \A step \in Steps : Asked(step) \subseteq Allowed
<1>1. {"isProfileOpen", "isContainerInitialized", "containerPath", "getSetting", "activePersonaId",
       "listPersonas"} \cup BoundCalls \cup reloadData \cup Callable \subseteq Allowed
  BY DEF BoundCalls, reloadData, Callable, Harmless, Changing, Allowed, ContainerGate, ProfileGate,
         ProfileDataGate, ParamGate, TransferGate, SettingsGate, PersonaGate, ContactGate, GroupGate,
         MessageGate, EventGate, ExitGate
<1> SUFFICES ASSUME NEW step \in Steps
             PROVE  Asked(step) \subseteq Allowed
  OBVIOUS
<1>2. CASE step.op \in {"call", "try", "get", "read"}
  BY <1>1, <1>2 DEF Asked, Steps
<1>3. CASE step.op = "need"
  BY <1>1, <1>3 DEF Asked, Steps
<1>4. CASE step.op = "notActive"
  BY <1>1, <1>4 DEF Asked, Steps
<1>5. CASE step.op = "ask"
  BY <1>1, <1>5 DEF Asked, Steps
<1>6. CASE step.op = "emit"
  BY <1>1, <1>6 DEF Asked, Steps
<1>7. CASE step.op = "known"
  BY <1>7 DEF Asked
<1>8. QED
  BY <1>2, <1>3, <1>4, <1>5, <1>6, <1>7 DEF Steps

-----------------------------------------------------------------------------
(* Types *)

Parts == {"session", "container", "names", "groups", "lists", "messages", "params", "settings"}
Cores ==
  [container : BOOLEAN, open : BOOLEAN, personas : SUBSET Personas, active : Personas \cup {None},
   lost : BOOLEAN]
Jobs ==
  [cmd : DOMAIN Commands \cup DOMAIN Handlers, pc : Nat, args : Int, id : Personas \cup {None},
   typed : BOOLEAN, left : {"none"} \cup DOMAIN Prompts, changed : SUBSET Parts,
   said : {"busy", "ok", "refused", "cancelled", "failed"}]

TypeOK ==
  /\ ui \in {"console", "gui", "api"}
  /\ running \in {"on", "ended", "failed"}
  /\ core \in Cores
  /\ screen \in {"init", "login", "main"}
  /\ stale \subseteq {"screen", "names", "lists", "rings"}
  /\ job \in Jobs

\* A command under way is one of the front end's and has a persona's uid at hand.
JobOK ==
  job.said = "busy" =>
    /\ job.cmd \in DOMAIN Scripts /\ job.pc >= 1 /\ job.id \in Personas
    /\ ui = "gui" => job.cmd \in DOMAIN Wired

Script == Scripts[job.cmd]

-----------------------------------------------------------------------------
(* What a call may answer *)

\* The active persona is stored, or is the one createProfile failed to store.
Stored(c) == c.open /\ c.active # None /\ ~c.lost => c.active \in c.personas

\* The calls that touch nothing but their own part of what is shown.
Quietly == Callable \ {"createContainer", "openProfile", "createProfile", "importProfile",
  "closeProfile", "exit", "deleteCurrentProfile", "setActivePersona"}

\* What every answer of Core keeps.
AnswerOK(m, c, id, a) ==
  /\ a.ok \in BOOLEAN /\ a.core \in Cores /\ a.touched \subseteq Parts
  /\ m \in Harmless => a.touched = {}
  /\ Stored(c) /\ (m # "deletePersona" \/ id # c.active) => Stored(a.core)
  /\ m = "deletePersona" => a.core.active = c.active

\* The answers that open, close or leave a profile.
LEMMA SessionAnswers ==
  ASSUME NEW c \in Cores, NEW id \in Personas,
         NEW m \in {"openProfile", "createProfile", "importProfile", "closeProfile", "exit",
                    "deleteCurrentProfile", "createContainer", "setActivePersona"},
         NEW a \in Answers(m, c, id)
  PROVE  AnswerOK(m, c, id, a)
<1>1. Closed(c) \in Cores /\ Stored(Closed(c))
  BY DEF Closed, Cores, Stored
<1>2. \A ps \in SUBSET Personas, act \in Personas \cup {None} :
        Session(c, ps, act) \in Cores /\ Stored(Session(c, ps, act))
  BY DEF Session, Cores, Stored
<1> DEFINE Good(b) == /\ b.ok \in BOOLEAN /\ b.core \in Cores /\ b.touched \subseteq Parts
                      /\ Stored(c) => Stored(b.core)
<1>3. Good(No(c)) /\ Good(FailsClosed(c))
  BY <1>1 DEF No, FailsClosed, Parts
<1>4. \A d \in Cores : \A t \in SUBSET Parts : (Stored(c) => Stored(d)) => Good(Yes(d, t))
  BY DEF Yes
<1> HIDE DEF Good
<1>5. {"session"} \in SUBSET Parts /\ {} \in SUBSET Parts /\ {"container"} \in SUBSET Parts
  BY DEF Parts
<1>6. CASE m = "createContainer"
  <2>1. [c EXCEPT !.container = TRUE] \in Cores /\ (Stored(c) => Stored([c EXCEPT !.container = TRUE]))
    BY DEF Cores, Stored
  <2>2. Good(a)
    BY <1>3, <1>4, <1>5, <1>6, <2>1 DEF Answers, createContainer
  <2>3. QED
    BY <1>6, <2>2 DEF AnswerOK, Good, Harmless
<1>7. CASE m \in {"openProfile", "createProfile", "importProfile"}
  <2>1. \A ps \in SUBSET Personas, act \in Personas \cup {None} : Good(Yes(Session(c, ps, act), {"session"}))
    BY <1>2, <1>4, <1>5
  <2>2. ASSUME m = "openProfile" PROVE Good(a)
    <3>1. \A b \in OpensProfile(c) : Good(b)
      BY <1>3, <2>1 DEF OpensProfile
    <3>2. Answers("openProfile", c, id) = OpensProfile(c)
      BY DEF Answers
    <3>3. QED
      BY <2>2, <3>1, <3>2
  <2>3. \A b \in CreatesProfile(c) : Good(b)
    BY <1>3, <2>1 DEF CreatesProfile
  <2>4. ASSUME m \in {"createProfile", "importProfile"} PROVE Good(a)
    <3>1. Answers("createProfile", c, id) = CreatesProfile(c)
      BY DEF Answers
    <3>2. Answers("importProfile", c, id) = {No(c)} \cup CreatesProfile(c)
      BY DEF Answers, ImportsProfile
    <3>3. QED
      BY <1>3, <2>3, <2>4, <3>1, <3>2
  <2>5. Good(a)
    BY <1>7, <2>2, <2>4
  <2>6. QED
    BY <1>7, <2>5 DEF AnswerOK, Good, Harmless
<1>8. CASE m \in {"closeProfile", "exit", "deleteCurrentProfile"}
  <2>1. Good(a)
    BY <1>1, <1>3, <1>4, <1>5, <1>8 DEF Answers, ClosesProfile, DeletesProfile
  <2>2. QED
    BY <1>8, <2>1 DEF AnswerOK, Good, Harmless
<1>9. CASE m = "setActivePersona"
  <2> DEFINE d == [c EXCEPT !.active = id, !.lost = FALSE]
  <2>1. d \in Cores /\ (id \in c.personas => Stored(d))
    BY DEF Cores, Stored
  <2>2. id \in c.personas => \A t \in {{}, {"session"}} : Good(Yes(d, t))
    BY <1>4, <1>5, <2>1
  <2>3. Good(a)
    BY <1>3, <1>9, <2>2 DEF Answers, SelectsPersona
  <2>4. QED
    BY <1>9, <2>3 DEF AnswerOK, Good, Harmless
<1>10. QED
  BY <1>6, <1>7, <1>8, <1>9

\* The answers of the calls inside a profile: only the personas may change.
LEMMA ProfileAnswers ==
  ASSUME NEW c \in Cores, NEW id \in Personas, NEW m \in Quietly, NEW a \in Answers(m, c, id)
  PROVE  /\ AnswerOK(m, c, id, a)
         /\ a.core.open = c.open /\ a.core.container = c.container
<1> DEFINE Good(b) == /\ b.ok \in BOOLEAN /\ b.core \in Cores /\ b.touched \subseteq Parts
                      /\ b.core.open = c.open /\ b.core.container = c.container
<1>1. \A d \in Cores : \A t \in SUBSET Parts :
        d.open = c.open /\ d.container = c.container =>
          Good([ok |-> FALSE, core |-> d, touched |-> t]) /\ Good(Yes(d, t))
  BY DEF Yes
<1>2. Good(No(c))
  BY DEF No
<1>3. No(c).core = c /\ No(c).touched = {}
  BY DEF No
<1>4. \A t : Yes(c, t).core = c /\ Yes(c, t).touched = t
  BY DEF Yes
<1> DEFINE Same(b) == Good(b) /\ b.core = c
<1>5. \A t \in SUBSET Parts : Same(Yes(c, t)) /\ Same([ok |-> FALSE, core |-> c, touched |-> t])
  BY <1>1, <1>4
<1>6. Same(No(c))
  BY <1>2, <1>3
<1> HIDE DEF Good
<1>7. {"names"} \in SUBSET Parts /\ {"lists"} \in SUBSET Parts /\ {"names", "groups"} \in SUBSET Parts
      /\ {"groups"} \in SUBSET Parts
      /\ {"messages"} \in SUBSET Parts /\ {"params"} \in SUBSET Parts /\ {"settings"} \in SUBSET Parts
      /\ {} \in SUBSET Parts
  BY DEF Parts
<1>8. CASE m \in Harmless
  <2>1. Same(a) /\ a.touched = {}
    BY <1>3, <1>4, <1>5, <1>6, <1>7, <1>8 DEF Answers, Harmless, Makes
  <2>2. QED
    BY <1>8, <2>1 DEF AnswerOK, Good, Harmless
<1>9. CASE m \in Quietly \ (Harmless \cup {"storePersona", "deletePersona"})
  <2>1. Same(a)
    <3>1. \A t \in SUBSET Parts : \A b : b \in Stores(c, t) \/ b \in Removes(c, t) => Same(b)
      BY <1>5, <1>6 DEF Stores, Removes
    <3>2. CASE m = "storeProfile"
      <4>1. a \in StoresProfile(c)
        BY <3>2 DEF Answers
      <4> QED BY <1>5, <1>6, <1>7, <4>1 DEF StoresProfile
    <3>3. CASE m = "setSetting"
      <4>1. a \in {Yes(c, {"settings"})}
        BY <3>3 DEF Answers
      <4> QED BY <1>5, <1>7, <4>1
    <3>4. CASE m \in {"storeParam", "deleteParam"}
      <4>1. a \in Stores(c, {"params"})
        BY <3>4 DEF Answers
      <4> QED BY <1>7, <3>1, <4>1
    <3>5. CASE m = "storeMessage"
      <4>1. a \in Stores(c, {"messages"})
        BY <3>5 DEF Answers
      <4> QED BY <1>7, <3>1, <4>1
    <3>6. CASE m = "deleteMessage"
      <4>1. a \in Removes(c, {"messages"})
        BY <3>6 DEF Answers
      <4> QED BY <1>7, <3>1, <4>1
    <3>7. CASE m \in {"storeContact", "storeEvent", "addGroupMember", "removeGroupMember"}
      <4>1. a \in Stores(c, {"lists"})
        BY <3>7 DEF Answers
      <4> QED BY <1>7, <3>1, <4>1
    <3>8. CASE m \in {"deleteContact", "deleteEvent"}
      <4>1. a \in Removes(c, {"lists"})
        BY <3>8 DEF Answers
      <4> QED BY <1>7, <3>1, <4>1
    <3>9. CASE m = "deleteGroup"
      <4>1. a \in DeletesGroup(c)
        BY <3>9 DEF Answers
      <4> QED BY <1>5, <1>6, <1>7, <4>1 DEF DeletesGroup
    <3>10. CASE m = "storeGroup"
      <4>1. a \in Stores(c, {"groups"})
        BY <3>10 DEF Answers
      <4> QED BY <1>7, <3>1, <4>1
    <3> QED
      BY <1>9, <3>2, <3>3, <3>4, <3>5, <3>6, <3>7, <3>8, <3>9, <3>10 DEF Quietly, Callable, Changing
  <2>2. QED
    BY <1>9, <2>1 DEF AnswerOK, Good
<1>10. CASE m = "storePersona"
  <2> DEFINE d == [c EXCEPT !.personas = @ \cup {id}]
  <2>1. d \in Cores /\ d.open = c.open /\ d.container = c.container /\ (Stored(c) => Stored(d))
    BY DEF Cores, Stored
  <2>2. Good(Yes(d, {"names"})) /\ Yes(d, {"names"}).core = d
    BY <1>1, <1>7, <2>1 DEF Yes
  <2> HIDE DEF d
  <2>3. Same(a) \/ (Good(a) /\ a.core = d)
    BY <1>6, <1>10, <2>2 DEF Answers, StoresPersona, d
  <2>4. QED
    BY <1>10, <2>1, <2>3 DEF AnswerOK, Good, Harmless
<1>11. CASE m = "deletePersona"
  <2> DEFINE d == [c EXCEPT !.personas = @ \ {id}]
  <2>1. d \in Cores /\ d.open = c.open /\ d.container = c.container /\ d.active = c.active
        /\ (Stored(c) /\ id # c.active => Stored(d))
    BY DEF Cores, Stored
  <2>2. Good(Yes(d, {"names", "groups"})) /\ Yes(d, {"names", "groups"}).core = d
    BY <1>1, <1>7, <2>1 DEF Yes
  <2> HIDE DEF d
  <2>3. Same(a) \/ (Good(a) /\ a.core = d)
    BY <1>5, <1>6, <1>7, <1>11, <2>2 DEF Answers, DeletesPersona, d
  <2>4. QED
    BY <1>11, <2>1, <2>3 DEF AnswerOK, Good, Harmless
<1>12. QED
  BY <1>8, <1>9, <1>10, <1>11 DEF Quietly

-----------------------------------------------------------------------------
(* The handlers QML calls *)

\* A row that only one table has.
LEMMA JoinedRow ==
  ASSUME NEW tables, NEW t \in tables, NEW row \in DOMAIN t,
         \A u \in tables : row \in DOMAIN u => u = t
  PROVE  row \in DOMAIN Joined(tables) /\ Joined(tables)[row] = t[row]
BY DEF Joined

\* What the wired handlers do.
LEMMA WiredHandlers ==
  /\ Handlers["getSetting"] = <<Read("getSetting")>>
  /\ Handlers["initContainer"] = initContainer
  /\ Handlers["openProfile"] = openProfile
  /\ Handlers["createProfile"] = createProfile
  /\ Handlers["closeProfile"] = closeProfile
  /\ Handlers["setParam"] = setParam
  /\ Handlers["selectPersona"] = selectPersona
  /\ Handlers["deleteContact"] = deleteContact
  /\ Handlers["sendMessage"] = sendMessage
  /\ Handlers["deleteEvent"] = deleteEvent
  /\ Handlers["exitApp"] = exitApp
  /\ Handlers["refresh"] = refresh
  /\ {"getSetting", "initContainer", "openProfile", "createProfile", "closeProfile", "setParam",
      "selectPersona", "deleteContact", "sendMessage", "deleteEvent", "exitApp", "refresh"}
       \subseteq DOMAIN Handlers
<1> DEFINE tables ==
      {SettingHandlers, ContainerHandlers, ParamHandlers, PersonaHandlers, ContactHandlers,
       GroupHandlers, MessageHandlers, EventHandlers, AppHandlers}
<1> DEFINE Row(t, row) ==
      t \in tables /\ row \in DOMAIN t /\ \A u \in tables : row \in DOMAIN u => u = t
<1>0. \A t, row : Row(t, row) => row \in DOMAIN Handlers /\ Handlers[row] = t[row]
  <2>1. Handlers = Joined(tables)
    BY DEF Handlers
  <2> HIDE DEF tables
  <2>2. QED
    BY <2>1, JoinedRow
<1> USE DEF SettingHandlers, ContainerHandlers, ParamHandlers, PersonaHandlers, ContactHandlers,
            GroupHandlers, MessageHandlers, EventHandlers, AppHandlers
<1>1. Row(SettingHandlers, "getSetting")
  OBVIOUS
<1>2. \A row \in {"initContainer", "openProfile", "createProfile", "closeProfile"} : Row(ContainerHandlers, row)
  OBVIOUS
<1>3. Row(ParamHandlers, "setParam")
  OBVIOUS
<1>4. Row(PersonaHandlers, "selectPersona")
  OBVIOUS
<1>5. Row(ContactHandlers, "deleteContact")
  OBVIOUS
<1>6. Row(MessageHandlers, "sendMessage")
  OBVIOUS
<1>7. Row(EventHandlers, "deleteEvent")
  OBVIOUS
<1>8. Row(AppHandlers, "exitApp") /\ Row(AppHandlers, "refresh")
  OBVIOUS
<1> HIDE DEF Row
<1>9. QED
  BY <1>0, <1>1, <1>2, <1>3, <1>4, <1>5, <1>6, <1>7, <1>8

\* Where QML calls them.
LEMMA WiredScreens ==
  /\ DOMAIN Wired =
       {"getSetting", "initContainer", "openProfile", "createProfile", "closeProfile", "setParam",
        "selectPersona", "deleteContact", "sendMessage", "deleteEvent", "exitApp", "refresh"}
  /\ Wired["openProfile"] = {"login"} /\ Wired["createProfile"] = {"login"}
  /\ Wired["initContainer"] = {"init"}
<1> DEFINE tables == {LoginWired, InitWired, MenuWired, MainWired}
<1>1. DOMAIN Wired = UNION {DOMAIN t : t \in tables}
  BY DEF Wired, Joined
<1>2. \A u \in tables : "openProfile" \in DOMAIN u \/ "createProfile" \in DOMAIN u => u = LoginWired
  BY DEF LoginWired, InitWired, MenuWired, MainWired
<1>3. \A u \in tables : "initContainer" \in DOMAIN u => u = InitWired
  BY DEF LoginWired, InitWired, MenuWired, MainWired
<1>4. "openProfile" \in DOMAIN LoginWired /\ "createProfile" \in DOMAIN LoginWired
      /\ "initContainer" \in DOMAIN InitWired
  BY DEF LoginWired, InitWired
<1>5. Wired["openProfile"] = LoginWired["openProfile"] /\ Wired["createProfile"] = LoginWired["createProfile"]
      /\ Wired["initContainer"] = InitWired["initContainer"]
  BY <1>2, <1>3, <1>4, JoinedRow DEF Wired
<1>6. QED
  BY <1>1, <1>5 DEF LoginWired, InitWired, MenuWired, MainWired

\* No wired handler deletes a persona.
LEMMA WiredCareful == \A cmd \in DOMAIN Wired : cmd \in DOMAIN Handlers /\ Handlers[cmd] \in Careful
<1> SUFFICES ASSUME NEW cmd \in DOMAIN Wired
             PROVE  cmd \in DOMAIN Handlers /\ Handlers[cmd] \in Careful
  OBVIOUS
<1>1. cmd \in DOMAIN Handlers
  BY WiredHandlers, WiredScreens
<1>2. \A k \in 1..Len(Handlers[cmd]) : Handlers[cmd][k].arg # "deletePersona"
  <2> DEFINE Spares(script) == \A k \in 1..Len(script) : script[k].arg # "deletePersona"
  <2>1. Spares(<<Read("getSetting")>>) /\ Spares(exitApp)
    BY DEF Read, exitApp, Try
  <2>2. Spares(initContainer) /\ Spares(openProfile) /\ Spares(createProfile) /\ Spares(closeProfile)
    BY DEF initContainer, openProfile, createProfile, closeProfile, Need, Call, Try, Read, Emit,
           stateChanged, dataChanged
  <2>3. Spares(setParam) /\ Spares(selectPersona) /\ Spares(deleteContact) /\ Spares(sendMessage)
        /\ Spares(deleteEvent) /\ Spares(refresh)
    BY DEF setParam, selectPersona, deleteContact, sendMessage, deleteEvent, refresh, Call, Try, Emit,
           stateChanged, dataChanged
  <2>4. QED
    BY <2>1, <2>2, <2>3, WiredHandlers, WiredScreens
<1>3. QED
  BY <1>1, <1>2, HandlersSound DEF Careful, GuardsDelete

-----------------------------------------------------------------------------
(* The invariants *)

\* What is under way is one of the scripts.
LEMMA ScriptSound ==
  ASSUME TypeOK, JobOK, job.said = "busy"
  PROVE  /\ Script \in Seq(Steps) /\ QuestionsFirst(Script)
         /\ Len(Script) \in Nat
         /\ \A k \in 1..Len(Script) : Script[k] \in Steps
         /\ ui # "api" => GuardsDelete(Script)
<1>1. Script \in Sound
  BY CommandsCareful, HandlersSound DEF JobOK, Script, Scripts, Careful
<1>2. Script \in Seq(Steps) /\ QuestionsFirst(Script)
  BY <1>1 DEF Sound
<1>3. Len(Script) \in Nat /\ \A k \in 1..Len(Script) : Script[k] \in Steps
  BY <1>2
<1>4. ui # "api" => GuardsDelete(Script)
  BY CommandsCareful, WiredCareful DEF JobOK, Script, Scripts, Careful, TypeOK
<1>5. QED
  BY <1>2, <1>3, <1>4

\* The steps that ask, test, read and end leave all but the job alone.
Moves ==
  /\ Busy /\ Quiet
  /\ job' \in Jobs /\ job'.cmd = job.cmd /\ job'.changed = job.changed
  /\ \/ /\ job.pc \in 1..Len(Script) /\ Script[job.pc].op \notin {"call", "try", "emit"}
        /\ job'.said = "busy" /\ job'.pc = job.pc + 1 /\ job'.id \in Personas
        /\ Script[job.pc].op = "notActive" => job.id # core.active
        /\ Script[job.pc] \in {NotActive, Ask("confirm")} => job'.id = job.id
     \/ /\ job.pc \in 1..Len(Script) /\ Refuses(Script[job.pc])
        /\ job'.said \in {"refused", "cancelled"}
     \/ job.pc > Len(Script) /\ job'.said = "ok"
  /\ \/ job'.left = job.left
     \/ /\ job.pc \in 1..Len(Script) /\ Refuses(Script[job.pc])
        /\ job'.left = "number" \/ job'.said # "busy"

\* Ctrl-C ends the command at every prompt but the one for a number.
LEMMA CtrlCEnds ==
  \A site \in DOMAIN Prompts : site = "number" \/ Prompts[site]["CtrlC"] \notin GoesOn[site]
BY DEF Prompts, GoesOn, askText, askPassword, askSelect, askConfirm, askNumber

\* So do all of them.
LEMMA QuietMoves ==
  ASSUME TypeOK, JobOK,
         \/ Needs \/ Given \/ NothingToSelect \/ Gets \/ Reads \/ Knows \/ NotActives
         \/ (\E did \in DOMAIN askText : Prompted(did)) \/ Finish
  PROVE  Moves
<1> USE DEF Step
<1>1. Busy /\ job \in Jobs /\ job.id \in Personas /\ job.pc \in Nat /\ job.pc >= 1
  BY DEF TypeOK, JobOK, Jobs, Needs, Given, NothingToSelect, Gets, Reads, Knows, NotActives, Prompted,
         Finish, At, Busy
<1>2. Len(Script) \in Nat
  BY <1>1, ScriptSound DEF Busy
<1>3. /\ Go \in Jobs /\ Go.cmd = job.cmd /\ Go.changed = job.changed /\ Go.said = "busy"
      /\ Go.pc = job.pc + 1 /\ Go.id = job.id /\ Go.left = job.left
  BY <1>1 DEF Go, Jobs, Busy
<1>4. \A said \in {"refused", "cancelled", "ok"} :
        /\ End(said) \in Jobs /\ End(said).cmd = job.cmd /\ End(said).changed = job.changed
        /\ End(said).said = said /\ End(said).left = job.left
  BY <1>1 DEF End, Jobs
<1>5. \A op : At(op) => job.pc \in 1..Len(Script) /\ Script[job.pc].op = op
  BY <1>1, <1>2 DEF At, Script
<1> DEFINE Goes(next) == /\ next \in Jobs /\ next.cmd = job.cmd /\ next.changed = job.changed
                         /\ next.said = "busy" /\ next.pc = job.pc + 1 /\ next.id \in Personas
<1>6. Goes(Go)
  BY <1>1, <1>3
<1>7. CASE Needs
  BY <1>1, <1>3, <1>4, <1>5, <1>7 DEF Needs, Moves, Refuses, NotActive, Ask
<1>8. CASE Given
  <2> DEFINE field == Step.arg = "field"
  <2>1. field \in BOOLEAN
    OBVIOUS
  <2>2. PICK n : n = Go.args - 1
    OBVIOUS
  <2>3. job' = [Go EXCEPT !.args = n, !.typed = field]
    BY <1>8, <2>2 DEF Given
  <2>4. n \in Int
    BY <1>3, <2>2 DEF Jobs
  <2> HIDE DEF field
  <2>5. \A j \in Jobs, b \in BOOLEAN :
          LET next == [j EXCEPT !.args = n, !.typed = b]
          IN  /\ next \in Jobs /\ next.cmd = j.cmd /\ next.changed = j.changed
              /\ next.said = j.said /\ next.pc = j.pc /\ next.id = j.id /\ next.left = j.left
    BY <2>4 DEF Jobs
  <2>6. Goes(job') /\ job'.id = job.id /\ job'.left = job.left
    BY <1>1, <1>3, <2>1, <2>3, <2>5
  <2>7. QED
    BY <1>1, <1>5, <1>8, <2>6 DEF Given, Moves
<1>9. CASE NothingToSelect
  BY <1>1, <1>4, <1>5, <1>9 DEF NothingToSelect, Moves, Refuses
<1>10. CASE Gets
  BY <1>1, <1>3, <1>4, <1>5, <1>10 DEF Gets, Moves, Refuses, NotActive, Ask
<1>11. CASE Reads
  BY <1>1, <1>3, <1>5, <1>11 DEF Reads, Moves, NotActive, Ask
<1>12. CASE Knows
  BY <1>1, <1>3, <1>4, <1>5, <1>12 DEF Knows, Moves, Refuses, NotActive, Ask
<1>13. CASE NotActives
  BY <1>1, <1>3, <1>4, <1>5, <1>13 DEF NotActives, Moves, Refuses
<1>14. CASE \E did \in DOMAIN askText : Prompted(did)
  <2> PICK did \in DOMAIN askText : Prompted(did)
    BY <1>14
  <2> DEFINE Left(j) == IF did = "CtrlC" THEN [j EXCEPT !.left = Step.arg] ELSE j
             ends == did = "CtrlC" /\ Step.arg # "number"
  <2>1. At("ask") /\ Quiet /\ did \in DOMAIN Prompts[Step.arg]
    BY DEF Prompted
  <2>2. \/ job' = Left(Go) /\ ~ends
        \/ job' = Left(End("refused")) \/ job' = Left(End("cancelled"))
        \/ Step.arg = "persona" /\ ~ends /\ \E id \in core.personas : job' = Left([Go EXCEPT !.id = id])
    <3>1. Step.arg \in DOMAIN Prompts
      BY <1>1, <1>5, <2>1, ScriptSound DEF Script, Steps, Busy
    <3>2. ends => Prompts[Step.arg][did] \notin GoesOn[Step.arg]
      BY <3>1, CtrlCEnds
    <3>3. QED
      BY <3>2 DEF Prompted
  <2>3. \A j \in Jobs :
          /\ Left(j) \in Jobs /\ Left(j).cmd = j.cmd /\ Left(j).changed = j.changed
          /\ Left(j).said = j.said /\ Left(j).pc = j.pc /\ Left(j).id = j.id
          /\ Left(j).left = j.left \/ (did = "CtrlC" /\ Left(j).left = Step.arg)
    <3>1. Step.arg \in DOMAIN Prompts
      BY <1>1, <1>5, <2>1, ScriptSound DEF Script, Steps, Busy
    <3>2. QED
      BY <3>1 DEF Jobs
  <2>4. Refuses(Script[job.pc]) /\ Script[job.pc].op = "ask"
    BY <1>5, <2>1 DEF Refuses, Script
  <2> HIDE DEF Left
  <2>5. CASE job' = Left(Go) /\ ~ends
    BY <1>1, <1>3, <1>5, <2>1, <2>3, <2>4, <2>5 DEF Moves, NotActive
  <2>6. CASE job' = Left(End("refused")) \/ job' = Left(End("cancelled"))
    BY <1>1, <1>4, <1>5, <2>1, <2>3, <2>4, <2>6 DEF Moves
  <2>7. CASE Step.arg = "persona" /\ ~ends /\ \E id \in core.personas : job' = Left([Go EXCEPT !.id = id])
    <3>1. PICK id \in core.personas : job' = Left([Go EXCEPT !.id = id])
      BY <2>7
    <3> DEFINE picked == [Go EXCEPT !.id = id]
    <3>2. Goes(picked) /\ picked.left = job.left
      BY <1>1, <1>3 DEF TypeOK, Cores, Jobs, Go
    <3>3. Script[job.pc] \notin {NotActive, Ask("confirm")}
      BY <1>5, <2>1, <2>7 DEF NotActive, Ask, Script
    <3> HIDE DEF picked
    <3>4. job' = Left(picked)
      BY <3>1 DEF picked
    <3>5. QED
      BY <1>1, <1>5, <2>1, <2>3, <2>4, <2>7, <3>2, <3>3, <3>4 DEF Moves
  <2>8. QED
    BY <2>2, <2>5, <2>6, <2>7
<1>15. CASE Finish
  BY <1>1, <1>2, <1>4, <1>15 DEF Finish, Moves, Script
<1>16. QED
  BY <1>7, <1>8, <1>9, <1>10, <1>11, <1>12, <1>13, <1>14, <1>15

\* A call of Core, with its answer.
Called(a) ==
  /\ Busy /\ job.pc \in 1..Len(Script)
  /\ Script[job.pc].op \in {"call", "try"} /\ Script[job.pc].arg \in Callable
  /\ a \in Answers(Script[job.pc].arg, core, job.id)
  /\ AnswerOK(Script[job.pc].arg, core, job.id, a)
  /\ UNCHANGED <<ui, screen>> /\ core' = a.core
  /\ stale' = stale \cup IF ui = "console" THEN {} ELSE Touches(a.touched)
  /\ job' \in Jobs /\ job'.cmd = job.cmd /\ job'.id = job.id /\ job'.changed = job.changed \cup a.touched
  /\ job'.left = job.left
  /\ \/ job'.said = "busy" /\ job'.pc = job.pc + 1 /\ (a.ok \/ Script[job.pc].op = "try")
     \/ job'.said = "failed" /\ ~a.ok
  /\ running' = IF Script[job.pc].arg = "exit" THEN "ended" ELSE running

\* Calls is that, with an answer every one of which AnswerOK describes.
LEMMA CallMoves ==
  ASSUME TypeOK, JobOK, Calls
  PROVE  \E a : Called(a)
<1>1. /\ Busy /\ job \in Jobs /\ job.id \in Personas /\ job.pc \in Nat /\ job.pc >= 1
      /\ job.said = "busy" /\ job.changed \in SUBSET Parts
  BY DEF TypeOK, JobOK, Jobs, Calls, At, Busy
<1>2. /\ job.pc \in 1..Len(Script) /\ Script[job.pc] \in Steps
      /\ Step = Script[job.pc] /\ Script[job.pc].op \in {"call", "try"}
  BY <1>1, ScriptSound DEF Calls, At, Script, Step
<1>3. Script[job.pc].arg \in Callable
  BY <1>2 DEF Steps
<1>4. PICK a \in Answers(Step.arg, core, job.id) :
        /\ core' = a.core
        /\ stale' = stale \cup IF ui = "console" THEN {} ELSE Touches(a.touched)
        /\ LET after == [job EXCEPT !.changed = @ \cup a.touched]
           IN  job' = IF a.ok \/ Step.op = "try" THEN [after EXCEPT !.pc = @ + 1]
                      ELSE [after EXCEPT !.said = "failed"]
        /\ running' = IF Step.arg = "exit" THEN "ended" ELSE running
  BY DEF Calls
<1>5. AnswerOK(Script[job.pc].arg, core, job.id, a)
  <2>1. CASE Script[job.pc].arg \in Quietly
    BY <1>1, <1>2, <1>4, <2>1, ProfileAnswers DEF TypeOK
  <2>2. CASE Script[job.pc].arg \notin Quietly
    BY <1>1, <1>2, <1>3, <1>4, <2>2, SessionAnswers DEF TypeOK, Quietly
  <2>3. QED
    BY <2>1, <2>2
<1>6. a.touched \in SUBSET Parts /\ a.ok \in BOOLEAN
  BY <1>5 DEF AnswerOK
<1> DEFINE after == [job EXCEPT !.changed = @ \cup a.touched]
<1>7. /\ after \in Jobs /\ after.cmd = job.cmd /\ after.id = job.id /\ after.pc = job.pc
      /\ after.left = job.left
      /\ after.said = "busy" /\ after.changed = job.changed \cup a.touched
  BY <1>1, <1>6 DEF Jobs
<1> DEFINE onward == [after EXCEPT !.pc = @ + 1]
           stopped == [after EXCEPT !.said = "failed"]
<1>8. job' = IF a.ok \/ Step.op = "try" THEN onward ELSE stopped
  BY <1>4
<1> HIDE DEF after
<1>9. /\ onward \in Jobs /\ onward.cmd = job.cmd /\ onward.id = job.id /\ onward.pc = job.pc + 1
      /\ onward.left = job.left
      /\ onward.said = "busy" /\ onward.changed = job.changed \cup a.touched
  BY <1>1, <1>7 DEF Jobs
<1>10. /\ stopped \in Jobs /\ stopped.cmd = job.cmd /\ stopped.id = job.id
       /\ stopped.left = job.left
       /\ stopped.said = "failed" /\ stopped.changed = job.changed \cup a.touched
  BY <1>1, <1>7 DEF Jobs
<1> HIDE DEF onward, stopped
<1>11. UNCHANGED <<ui, screen>>
  BY DEF Calls
<1>12. Called(a)
  BY <1>1, <1>2, <1>3, <1>4, <1>5, <1>8, <1>9, <1>10, <1>11 DEF Called
<1>13. QED
  BY <1>12

\* A signal, heard by QML.
Emitted ==
  /\ Busy /\ job.pc \in 1..Len(Script)
  /\ Script[job.pc] \in {stateChanged, dataChanged} /\ Script[job.pc].op = "emit"
  /\ Hears(Script[job.pc].arg)
  /\ UNCHANGED <<ui, running, core>>
  /\ job' \in Jobs /\ job'.cmd = job.cmd /\ job'.id = job.id /\ job'.changed = job.changed
  /\ job'.left = job.left
  /\ job'.said = "busy" /\ job'.pc = job.pc + 1

\* Emits is that.
LEMMA EmitMoves ==
  ASSUME TypeOK, JobOK, Emits
  PROVE  Emitted
<1>1. /\ Busy /\ job \in Jobs /\ job.id \in Personas /\ job.pc \in Nat /\ job.pc >= 1
      /\ job.said = "busy"
  BY DEF TypeOK, JobOK, Jobs, Emits, At, Busy
<1>2. /\ job.pc \in 1..Len(Script) /\ Script[job.pc] \in Steps
      /\ Step = Script[job.pc] /\ Script[job.pc].op = "emit"
  BY <1>1, ScriptSound DEF Emits, At, Script, Step
<1>3. Script[job.pc] \in {stateChanged, dataChanged}
  BY <1>2 DEF Steps, stateChanged, dataChanged, Emit
<1>4. /\ job' \in Jobs /\ job'.cmd = job.cmd /\ job'.id = job.id /\ job'.changed = job.changed
      /\ job'.left = job.left
      /\ job'.said = "busy" /\ job'.pc = job.pc + 1
  BY <1>1 DEF Emits, Go, Jobs
<1>5. QED
  BY <1>1, <1>2, <1>3, <1>4 DEF Emits, Emitted

\* A command or handler begins.
Started ==
  /\ running = "on" /\ job.said # "busy"
  /\ job' \in Jobs /\ job'.pc = 1 /\ job'.said = "busy" /\ job'.changed = {} /\ job'.left = "none"
  /\ job'.cmd \in DOMAIN Scripts /\ job'.id \in Personas
  /\ ui = "gui" => job'.cmd \in DOMAIN Wired /\ screen \in Wired[job'.cmd]
  /\ UNCHANGED <<ui, running, core, screen, stale>>

\* Start is that.
LEMMA StartMoves ==
  ASSUME TypeOK, NEW cmd \in DOMAIN Scripts, NEW args \in 0..3, NEW id \in Personas, Start(cmd, args, id)
  PROVE  Started
<1> DEFINE next == [Idle EXCEPT !.cmd = cmd, !.pc = 1, !.args = args, !.id = id, !.said = "busy"]
<1>1. cmd \in DOMAIN Commands \cup DOMAIN Handlers
  BY DEF Scripts
<1>2. /\ next \in Jobs /\ next.pc = 1 /\ next.said = "busy" /\ next.changed = {} /\ next.cmd = cmd
      /\ next.id = id /\ next.left = "none"
  <2>1. Idle \in Jobs /\ Idle.changed = {} /\ Idle.left = "none"
    BY WiredHandlers DEF Idle, Jobs
  <2>2. args \in Int
    OBVIOUS
  <2>3. \A j \in Jobs :
          LET started == [j EXCEPT !.cmd = cmd, !.pc = 1, !.args = args, !.id = id, !.said = "busy"]
          IN  /\ started \in Jobs /\ started.pc = 1 /\ started.said = "busy"
              /\ started.changed = j.changed /\ started.left = j.left /\ started.cmd = cmd /\ started.id = id
    BY <1>1, <2>2 DEF Jobs
  <2>4. QED
    BY <2>1, <2>3
<1>3. job' = next
  BY DEF Start
<1> HIDE DEF next
<1>4. QED
  BY <1>2, <1>3 DEF Start, Started

\* Every step is one of these.
LEMMA StepKinds ==
  ASSUME TypeOK, JobOK, [Next]_vars
  PROVE  Started \/ Moves \/ (\E a : Called(a)) \/ Emitted \/ Fails \/ UNCHANGED vars
BY StartMoves, QuietMoves, CallMoves, EmitMoves DEF Next

-----------------------------------------------------------------------------
(* Types, nothing denied, and nothing half done *)

\* The initial state has its types, and nothing is under way.
LEMMA InitTyped == Init => TypeOK /\ JobOK
<1> SUFFICES ASSUME Init PROVE TypeOK /\ JobOK
  OBVIOUS
<1>1. job \in Jobs /\ job.said = "ok" /\ job.changed = {}
  <2>1. "refresh" \in DOMAIN Handlers
    BY WiredHandlers
  <2>2. QED
    BY <2>1 DEF Init, Idle, Jobs
<1>2. core \in Cores
  BY DEF Init, Cores
<1>3. screen \in {"init", "login", "main"}
  BY DEF Init, appState
<1>4. QED
  BY <1>1, <1>2, <1>3 DEF Init, TypeOK, JobOK

\* What a change shows is something QML shows.
LEMMA TouchesTyped == \A parts \in SUBSET Parts : Touches(parts) \subseteq {"screen", "names", "lists", "rings"}
BY DEF Touches, Parts, Shows

\* Every step keeps the types.
LEMMA StepTyped == TypeOK /\ JobOK /\ [Next]_vars => TypeOK' /\ JobOK'
<1> SUFFICES ASSUME TypeOK, JobOK, [Next]_vars
             PROVE  TypeOK' /\ JobOK'
  OBVIOUS
<1>1. CASE Started
  BY <1>1 DEF Started, TypeOK, JobOK, Scripts
<1>2. CASE Moves
  <2>1. TypeOK'
    BY <1>2 DEF Moves, Quiet, TypeOK
  <2>2. job.said = "busy" /\ job.pc \in Nat
    BY <1>2 DEF Moves, Busy, TypeOK, Jobs
  <2>3. JobOK'
    BY <1>2, <2>2 DEF Moves, Quiet, JobOK, Scripts
  <2>4. QED
    BY <2>1, <2>3
<1>3. CASE \E a : Called(a)
  <2>1. PICK a : Called(a)
    BY <1>3
  <2>2. a.core \in Cores /\ a.touched \in SUBSET Parts
    BY <2>1 DEF Called, AnswerOK
  <2>3. TypeOK'
    BY <2>1, <2>2, TouchesTyped DEF Called, TypeOK
  <2>4. job.said = "busy" /\ job.pc \in Nat
    BY <2>1 DEF Called, Busy, TypeOK, Jobs
  <2>5. JobOK'
    BY <2>1, <2>4 DEF Called, JobOK, Scripts
  <2>6. QED
    BY <2>3, <2>5
<1>4. CASE Emitted
  <2>1. job.said = "busy" /\ job.pc \in Nat
    BY <1>4 DEF Emitted, Busy, TypeOK, Jobs
  <2>2. screen' \in {"init", "login", "main"} /\ stale' \subseteq stale
    <3>1. CASE Script[job.pc].arg = "stateChanged"
      BY <1>4, <3>1 DEF Emitted, Hears, appState
    <3>2. CASE Script[job.pc].arg = "dataChanged"
      BY <1>4, <3>2 DEF Emitted, Hears, TypeOK
    <3>3. QED
      BY <1>4, <3>1, <3>2 DEF Emitted, stateChanged, dataChanged, Emit
  <2>3. TypeOK'
    BY <1>4, <2>2 DEF Emitted, TypeOK
  <2>4. JobOK'
    BY <1>4, <2>1 DEF Emitted, JobOK, Scripts
  <2>5. QED
    BY <2>3, <2>4
<1>5. CASE Fails
  BY <1>5 DEF Fails, TypeOK, JobOK, Scripts, Closed, Cores
<1>6. CASE UNCHANGED vars
  BY <1>6 DEF vars, TypeOK, JobOK, Scripts
<1>7. QED
  BY <1>1, <1>2, <1>3, <1>4, <1>5, <1>6, StepKinds

\* Every state has its types, and what is under way is a script of the front end
\* in use.
THEOREM FrontEndTyped == Spec => [](TypeOK /\ JobOK)
BY InitTyped, StepTyped, PTL DEF Spec

\* The front ends never ask for a call that the proxy would deny them: every
\* step of every command and handler, the prompt and the reading on a signal are
\* within FrontEndPermissions.
THEOREM FrontEndsAllowed == Spec => []NoCallDenied
<1>1. TypeOK /\ JobOK => NoCallDenied
  <2> SUFFICES ASSUME TypeOK, JobOK, Busy, job.pc <= Len(Script),
                      NEW m \in Asked(Step) \cup promptText
               PROVE  check(FrontEndPermissions, m)
    BY DEF NoCallDenied, Script
  <2>1. promptText \subseteq Allowed
    BY DEF promptText, Allowed, ProfileGate, ProfileDataGate
  <2>2. Step \in Steps
    BY ScriptSound DEF Busy, Step, Script, JobOK, TypeOK, Jobs
  <2>3. QED
    BY <2>1, <2>2, StepsAllowed, AllowedChecked
<1>2. QED
  BY <1>1, FrontEndTyped, PTL

\* Once a script has changed something no question is left in it.
AskedFirst ==
  job.said = "busy" /\ job.changed # {} => \A k \in job.pc..Len(Script) : ~Refuses(Script[k])

\* A command left with Ctrl-C goes on at the question for a number only.
LeftEnds == job.said = "busy" => job.left \in {"none", "number"}

\* Every step keeps a refused command from having changed anything.
LEMMA StepUntouched ==
  TypeOK /\ JobOK /\ RefusedChangesNothing /\ AskedFirst /\ LeftEnds /\ [Next]_vars =>
    RefusedChangesNothing' /\ AskedFirst' /\ LeftEnds'
<1> USE DEF LeftEnds
<1> SUFFICES ASSUME TypeOK, JobOK, RefusedChangesNothing, AskedFirst, LeftEnds, [Next]_vars
             PROVE  RefusedChangesNothing' /\ AskedFirst' /\ LeftEnds'
  OBVIOUS
<1>1. job.pc \in Nat /\ (job.said = "busy" => Len(Script) \in Nat)
  BY ScriptSound DEF TypeOK, Jobs
<1>2. CASE Started
  BY <1>2 DEF Started, RefusedChangesNothing, AskedFirst
<1>3. CASE Moves
  <2>1. Script' = Script
    BY <1>3 DEF Moves, Quiet, Script, Scripts
  <2>2. QED
    BY <1>1, <1>3, <2>1 DEF Moves, Busy, RefusedChangesNothing, AskedFirst
<1>4. CASE \E a : Called(a)
  <2>1. PICK a : Called(a)
    BY <1>4
  <2>2. Script' = Script /\ job.said = "busy"
    BY <2>1 DEF Called, Busy, Script, Scripts
  <2>3. RefusedChangesNothing'
    BY <2>1, <2>2 DEF Called, RefusedChangesNothing
  <2>4. ASSUME job'.said = "busy", a.touched # {}
        PROVE  \A k \in (job.pc + 1)..Len(Script) : ~Refuses(Script[k])
    <3>1. Changes(Script[job.pc])
      BY <2>1, <2>4 DEF Called, AnswerOK, Changes, Callable
    <3>2. QED
      BY <1>1, <2>1, <2>2, <3>1, ScriptSound DEF Called, QuestionsFirst
  <2>5. AskedFirst'
    BY <1>1, <2>1, <2>2, <2>4 DEF Called, AskedFirst
  <2>6. LeftEnds'
    BY <2>1, <2>2 DEF Called
  <2>7. QED
    BY <2>3, <2>5, <2>6
<1>5. CASE Emitted
  <2>1. Script' = Script
    BY <1>5 DEF Emitted, Script, Scripts
  <2>2. QED
    BY <1>1, <1>5, <2>1 DEF Emitted, Busy, RefusedChangesNothing, AskedFirst
<1>6. CASE Fails
  BY <1>6 DEF Fails, RefusedChangesNothing, AskedFirst, Script, Scripts
<1>7. CASE UNCHANGED vars
  BY <1>7 DEF vars, RefusedChangesNothing, AskedFirst, Script, Scripts
<1>8. QED
  BY <1>2, <1>3, <1>4, <1>5, <1>6, <1>7, StepKinds

\* A command or handler that was refused or cancelled half way changed nothing,
\* whatever Core answered on the way, nor did one left with Ctrl-C anywhere but at
\* init's question for a number.
THEOREM RefusedUntouched == Spec => []RefusedChangesNothing
<1>1. Init => RefusedChangesNothing /\ AskedFirst /\ LeftEnds
  BY DEF Init, Idle, RefusedChangesNothing, AskedFirst, LeftEnds
<1>2. QED
  BY <1>1, StepUntouched, FrontEndTyped, PTL DEF Spec

-----------------------------------------------------------------------------
(* The active persona *)

\* The active persona is stored, and a persona compared with it and about to be
\* deleted is not it.
StoredInv == ui # "api" => Stored(core)
Spared ==
  ui # "api" /\ job.said = "busy" =>
    \A j \in 1..Len(Script) :
      /\ j < job.pc /\ Script[j] = NotActive
      /\ \A i \in (j + 1)..(job.pc - 1) : Script[i] = Ask("confirm")
      => job.id # core.active

\* Every step keeps both.
LEMMA StepStored ==
  TypeOK /\ JobOK /\ StoredInv /\ Spared /\ [Next]_vars => StoredInv' /\ Spared'
<1> SUFFICES ASSUME TypeOK, JobOK, StoredInv, Spared, [Next]_vars
             PROVE  StoredInv' /\ Spared'
  OBVIOUS
<1>1. job.pc \in Nat /\ (job.said = "busy" => Len(Script) \in Nat)
  BY ScriptSound DEF TypeOK, Jobs
<1>2. NotActive # Ask("confirm") /\ NotActive.op = "notActive" /\ Ask("confirm").op = "ask"
  BY DEF NotActive, Ask
<1>3. CASE Started
  BY <1>3 DEF Started, StoredInv, Spared
<1>4. CASE Moves
  <2>1. Script' = Script /\ job.said = "busy"
    BY <1>4 DEF Moves, Busy, Quiet, Script, Scripts
  <2>2. StoredInv'
    BY <1>4 DEF Moves, Quiet, StoredInv
  <2>3. ASSUME ui # "api", job'.said = "busy",
               NEW j \in 1..Len(Script), j < job'.pc, Script[j] = NotActive,
               \A i \in (j + 1)..(job'.pc - 1) : Script[i] = Ask("confirm")
        PROVE  job'.id # core.active
    <3>1. job'.pc = job.pc + 1 /\ job.pc \in 1..Len(Script)
      BY <1>4, <2>3 DEF Moves
    <3>2. CASE j = job.pc
      BY <1>2, <1>4, <2>3, <3>1, <3>2 DEF Moves
    <3>3. CASE j < job.pc
      <4>1. Script[job.pc] = Ask("confirm") /\ job'.id = job.id
        BY <1>1, <1>4, <2>3, <3>1, <3>3 DEF Moves
      <4>2. \A i \in (j + 1)..(job.pc - 1) : Script[i] = Ask("confirm")
        BY <1>1, <2>3, <3>1
      <4>3. QED
        BY <2>1, <2>3, <3>3, <4>1, <4>2 DEF Spared
    <3>4. QED
      BY <1>1, <2>3, <3>1, <3>2, <3>3
  <2>4. Spared'
    BY <1>4, <2>1, <2>3 DEF Moves, Quiet, Spared
  <2>5. QED
    BY <2>2, <2>4
<1>5. CASE \E a : Called(a)
  <2>1. PICK a : Called(a)
    BY <1>5
  <2>2. Script' = Script /\ job.said = "busy"
    BY <2>1 DEF Called, Busy, Script, Scripts
  <2>3. ui # "api" /\ Script[job.pc].arg = "deletePersona" => job.id # core.active
    <3>1. SUFFICES ASSUME ui # "api", Script[job.pc].arg = "deletePersona"
                   PROVE  job.id # core.active
      OBVIOUS
    <3>2. PICK j \in 1..(job.pc - 1) :
            /\ Script[j] = NotActive
            /\ \A i \in (j + 1)..(job.pc - 1) : Script[i] = Ask("confirm")
      BY <2>1, <2>2, <3>1, ScriptSound DEF Called, GuardsDelete
    <3>3. QED
      BY <1>1, <2>1, <2>2, <3>1, <3>2 DEF Called, Spared
  <2>4. StoredInv'
    BY <2>1, <2>3 DEF Called, AnswerOK, StoredInv
  <2>5. ASSUME job'.said = "busy", NEW j \in 1..Len(Script), j < job'.pc, Script[j] = NotActive,
               \A i \in (j + 1)..(job'.pc - 1) : Script[i] = Ask("confirm")
        PROVE  FALSE
    <3>1. job'.pc = job.pc + 1 /\ job.pc \in 1..Len(Script) /\ Script[job.pc].op \in {"call", "try"}
      BY <2>1, <2>5 DEF Called
    <3>2. Script[job.pc] \in {NotActive, Ask("confirm")}
      BY <1>1, <2>5, <3>1
    <3>3. QED
      BY <1>2, <3>1, <3>2
  <2>6. Spared'
    BY <2>2, <2>5 DEF Spared
  <2>7. QED
    BY <2>4, <2>6
<1>6. CASE Emitted
  <2>1. Script' = Script
    BY <1>6 DEF Emitted, Script, Scripts
  <2>2. ASSUME NEW j \in 1..Len(Script), j < job'.pc, Script[j] = NotActive,
               \A i \in (j + 1)..(job'.pc - 1) : Script[i] = Ask("confirm")
        PROVE  FALSE
    <3>1. job'.pc = job.pc + 1 /\ job.pc \in 1..Len(Script) /\ Script[job.pc].op = "emit"
      BY <1>6 DEF Emitted
    <3>2. Script[job.pc] \in {NotActive, Ask("confirm")}
      BY <1>1, <2>2, <3>1
    <3>3. QED
      BY <1>2, <3>1, <3>2
  <2>3. Spared'
    BY <2>1, <2>2 DEF Spared
  <2>4. QED
    BY <1>6, <2>3 DEF Emitted, StoredInv
<1>7. CASE Fails
  <2>1. core'.active = None /\ ui' = ui /\ job' = job /\ job.said = "busy"
    BY <1>7 DEF Fails, Closed, TypeOK, Cores, Busy
  <2>2. job.id # None
    BY <2>1, PersonasAssumption DEF JobOK
  <2>3. QED
    BY <2>1, <2>2 DEF StoredInv, Stored, Spared
<1>8. CASE UNCHANGED vars
  BY <1>8 DEF vars, StoredInv, Spared, Script, Scripts
<1>9. QED
  BY <1>3, <1>4, <1>5, <1>6, <1>7, <1>8, StepKinds

\* While the console or the wired GUI is used the active persona is stored, for
\* any personas: the only command that deletes one compares it with the active
\* one, and nothing in between changes either.
THEOREM ActiveStored == Spec => []ActivePersonaStored
<1>1. Init => StoredInv /\ Spared
  BY DEF Init, Idle, StoredInv, Stored, Spared
<1>2. StoredInv => ActivePersonaStored
  BY DEF StoredInv, Stored, ActivePersonaStored
<1>3. QED
  BY <1>1, <1>2, StepStored, FrontEndTyped, PTL DEF Spec

-----------------------------------------------------------------------------
(* What the GUI shows *)

\* From a place in a script on, nothing can end it early, or a signal is still
\* to be sent.
CannotFail(script, pc) == \A k \in pc..Len(script) : script[k].op \in {"read", "emit"}
Owes(script, pc, signal) == \E k \in pc..Len(script) : script[k] = signal

\* The calls of wired handlers: those that show nothing new, and those that tell
\* of what they changed.
Unseen == {"createMessage", "storeMessage", "createParam", "storeParam", "exit"}
SessionCalls == {"openProfile", "createProfile", "closeProfile", "setActivePersona"}
ListCalls == {"deleteContact", "deleteEvent"}

Tells(script, screens, k) ==
  LET m == script[k].arg
      owes(signal) == CannotFail(script, k + 1) /\ Owes(script, k + 1, signal)
  IN  \/ m \in Unseen
      \/ /\ m \in SessionCalls /\ owes(stateChanged) /\ owes(dataChanged)
         /\ m \in {"openProfile", "createProfile"} => screens = {"login"}
      \/ m = "createContainer" /\ owes(stateChanged) /\ screens = {"init"}
      \/ m \in ListCalls /\ owes(dataChanged)

\* A wired handler tells of every change, and signals come last.
WiredTells(script, screens) ==
  \A k \in 1..Len(script) :
    /\ script[k].op \in {"need", "read", "call", "try", "emit"}
    /\ script[k].op = "emit" => CannotFail(script, k)
    /\ script[k].op \in {"call", "try"} => Tells(script, screens, k)

\* Every one of them does.
LEMMA WiredHandlersTell ==
  \A cmd \in DOMAIN Wired : WiredTells(Handlers[cmd], Wired[cmd])
<1> USE DEF WiredTells, Tells, CannotFail, Owes, Unseen, SessionCalls, ListCalls, stateChanged, dataChanged,
            Emit, Call, Try, Read, Need
<1>1. \A screens : WiredTells(<<Read("getSetting")>>, screens)
  OBVIOUS
<1>2. \A screens : WiredTells(exitApp, screens)
  BY DEF exitApp
<1>3. \A screens : WiredTells(refresh, screens)
  BY DEF refresh
<1>4. WiredTells(initContainer, {"init"})
  BY DEF initContainer
<1>5. WiredTells(openProfile, {"login"})
  BY DEF openProfile
<1>6. WiredTells(createProfile, {"login"})
  BY DEF createProfile
<1>7. \A screens : WiredTells(closeProfile, screens)
  BY DEF closeProfile
<1>8. \A screens : WiredTells(selectPersona, screens)
  BY DEF selectPersona
<1>9. \A screens : WiredTells(setParam, screens)
  BY DEF setParam
<1>10. \A screens : WiredTells(sendMessage, screens)
  BY DEF sendMessage
<1>11. \A screens : WiredTells(deleteContact, screens)
  BY DEF deleteContact
<1>12. \A screens : WiredTells(deleteEvent, screens)
  BY DEF deleteEvent
<1> HIDE DEF WiredTells
<1>13. QED
  BY <1>1, <1>2, <1>3, <1>4, <1>5, <1>6, <1>7, <1>8, <1>9, <1>10, <1>11, <1>12, WiredHandlers,
     WiredScreens

\* closeProfile() always succeeds.
LEMMA ClosingSucceeds ==
  \A a, c, id : a \in Answers("closeProfile", c, id) => a.ok
<1>1. ASSUME NEW a, NEW c, NEW id, a \in Answers("closeProfile", c, id) PROVE a.ok
  <2>1. Answers("closeProfile", c, id) = ClosesProfile(c)
    BY DEF Answers
  <2>2. PICK v : a = Yes(Closed(c), v)
    BY <1>1, <2>1 DEF ClosesProfile
  <2> QED BY <2>2 DEF Yes
<1> QED BY <1>1, Zenon

\* What a wired handler's call shows: nothing, or nothing if it failed on the
\* screen it is called from.
LEMMA ViewAnswers ==
  ASSUME NEW c \in Cores, NEW id \in Personas, NEW m, NEW a \in Answers(m, c, id)
  PROVE  /\ m \in Unseen \ {"exit"} => Touches(a.touched) = {} /\ appState(a.core) = appState(c)
         /\ m \in ListCalls => Touches(a.touched) \subseteq {"lists"} /\ appState(a.core) = appState(c)
         /\ m \in ListCalls /\ ~a.ok => Touches(a.touched) = {}
         /\ m \in {"createContainer", "setActivePersona"} /\ ~a.ok =>
              Touches(a.touched) = {} /\ a.core = c
         /\ m \in {"openProfile", "createProfile"} /\ ~a.ok /\ ~c.open =>
              Touches(a.touched) = {} /\ appState(a.core) = appState(c)
<1>1. /\ Touches({}) = {} /\ Touches({"messages"}) = {} /\ Touches({"params"}) = {}
      /\ Touches({"lists"}) = {"lists"}
  BY DEF Touches, Shows
<1>2. \A t : Yes(c, t).core = c /\ Yes(c, t).touched = t /\ Yes(c, t).ok
  BY DEF Yes
<1>3. No(c).core = c /\ No(c).touched = {} /\ ~No(c).ok
  BY DEF No
<1>4. m \in Unseen \ {"exit"} => a.core = c /\ a.touched \in {{}, {"messages"}, {"params"}}
  BY <1>2, <1>3 DEF Unseen, Answers, Makes, Stores
<1>5. m \in ListCalls => a.core = c /\ (a.touched = {} \/ (a.ok /\ a.touched = {"lists"}))
  BY <1>2, <1>3 DEF ListCalls, Answers, Removes
<1>6. m = "createContainer" /\ ~a.ok => a.core = c /\ a.touched = {}
  BY <1>3 DEF Answers, createContainer, Yes
<1>7. m = "setActivePersona" /\ ~a.ok => a.core = c /\ a.touched = {}
  BY <1>3 DEF Answers, SelectsPersona, Yes
<1>8. ~c.open => /\ FailsClosed(c).touched = {} /\ appState(FailsClosed(c).core) = appState(c)
  BY DEF FailsClosed, Closed, appState, Cores
<1>9. \A d, t : Yes(d, t).ok
  BY DEF Yes
<1>10. m = "openProfile" /\ ~a.ok => a = No(c) \/ a = FailsClosed(c)
  <2>1. Answers("openProfile", c, id) = OpensProfile(c)
    BY DEF Answers
  <2>2. QED
    BY <1>9, <2>1 DEF OpensProfile
<1>11. m = "createProfile" /\ ~a.ok => a = No(c) \/ a = FailsClosed(c)
  <2>1. Answers("createProfile", c, id) = CreatesProfile(c)
    BY DEF Answers
  <2>2. QED
    BY <1>9, <2>1 DEF CreatesProfile
<1>12. QED
  BY <1>1, <1>3, <1>4, <1>5, <1>6, <1>7, <1>8, <1>10, <1>11

\* Where the GUI shows something old a signal is about to be sent, and nothing
\* can come in between; until then a handler is on a screen it is called from.
Telling(signal) ==
  job.said = "busy" /\ CannotFail(Script, job.pc) /\ Owes(Script, job.pc, signal)
ScreenTrue == screen = appState(core) /\ "screen" \notin stale /\ "names" \notin stale
ListsTrue == screen = "main" /\ appState(core) = "main" => "lists" \notin stale
ViewsInv ==
  ui = "gui" /\ running = "on" =>
    /\ job.said = "busy" => CannotFail(Script, job.pc) \/ screen \in Wired[job.cmd]
    /\ ScreenTrue \/ Telling(stateChanged)
    /\ ListsTrue \/ Telling(dataChanged)

\* What a signal is owed is owed until it is sent.
LEMMA StillOwed ==
  ASSUME NEW script \in Seq(Steps), NEW pc \in 1..Len(script), NEW signal
  PROVE  /\ CannotFail(script, pc) => CannotFail(script, pc + 1)
         /\ Owes(script, pc, signal) /\ script[pc] # signal => Owes(script, pc + 1, signal)
<1>1. Len(script) \in Nat /\ pc \in Nat
  OBVIOUS
<1>2. \A k : k \in pc..Len(script) <=> k = pc \/ k \in (pc + 1)..Len(script)
  BY <1>1
<1>3. QED
  BY <1>2 DEF CannotFail, Owes

\* Every step keeps it.
LEMMA StepViews == TypeOK /\ JobOK /\ ViewsInv /\ [Next]_vars => ViewsInv'
<1> SUFFICES ASSUME TypeOK, JobOK, ViewsInv, [Next]_vars, ui' = "gui", running' = "on"
             PROVE  /\ job'.said = "busy" => CannotFail(Script', job.pc') \/ screen' \in Wired[job'.cmd]
                    /\ ScreenTrue' \/ Telling(stateChanged)'
                    /\ ListsTrue' \/ Telling(dataChanged)'
  BY DEF ViewsInv
<1>1. stateChanged # dataChanged /\ stateChanged.op = "emit" /\ dataChanged.op = "emit"
      /\ stateChanged.arg = "stateChanged" /\ dataChanged.arg = "dataChanged"
  BY DEF stateChanged, dataChanged, Emit
<1> DEFINE Before ==
      /\ ui = "gui" /\ running = "on" /\ job.said = "busy" /\ job.pc \in 1..Len(Script)
      /\ Script \in Seq(Steps) /\ job.cmd \in DOMAIN Wired /\ Script = Handlers[job.cmd]
      /\ WiredTells(Script, Wired[job.cmd])
<1>2. ui = "gui" /\ running = "on" /\ job.said = "busy" /\ job.pc \in 1..Len(Script) => Before
  BY ScriptSound, WiredHandlersTell DEF JobOK, Script, Scripts
<1>3. CASE Started
  <2>1. ScreenTrue /\ ListsTrue
    BY <1>3 DEF Started, ViewsInv, Telling
  <2>2. ScreenTrue' /\ ListsTrue'
    BY <1>3, <2>1 DEF Started, ScreenTrue, ListsTrue
  <2>3. QED
    BY <1>3, <2>2 DEF Started
<1>4. CASE Moves
  <2>1. /\ Script' = Script /\ job.said = "busy" /\ ui = "gui" /\ running = "on"
        /\ (ScreenTrue' <=> ScreenTrue) /\ (ListsTrue' <=> ListsTrue) /\ screen' = screen
        /\ job'.cmd = job.cmd
    BY <1>4 DEF Moves, Busy, Quiet, Script, Scripts, ScreenTrue, ListsTrue
  <2>2. CASE job.pc \in 1..Len(Script) /\ job'.said = "busy" /\ job'.pc = job.pc + 1
             /\ Script[job.pc].op \notin {"call", "try", "emit"}
    <3>1. Before
      BY <1>2, <2>1, <2>2
    <3>2. CannotFail(Script, job.pc) => CannotFail(Script, job'.pc)
      BY <2>2, <3>1, StillOwed
    <3>3. Telling(stateChanged) => Telling(stateChanged)'
      BY <1>1, <2>1, <2>2, <3>1, <3>2, StillOwed DEF Telling
    <3>4. Telling(dataChanged) => Telling(dataChanged)'
      BY <1>1, <2>1, <2>2, <3>1, <3>2, StillOwed DEF Telling
    <3>5. QED
      BY <2>1, <3>2, <3>3, <3>4 DEF ViewsInv
  <2>3. CASE job.pc \in 1..Len(Script) /\ Refuses(Script[job.pc]) /\ job'.said # "busy"
    <3>1. ~CannotFail(Script, job.pc)
      BY <2>3 DEF CannotFail, Refuses
    <3>2. QED
      BY <2>1, <2>3, <3>1 DEF ViewsInv, Telling
  <2>4. CASE job.pc > Len(Script) /\ job'.said # "busy"
    <3>1. \A signal : ~Owes(Script, job.pc, signal)
      BY <2>1, <2>4, ScriptSound DEF Owes, TypeOK, Jobs
    <3>2. QED
      BY <2>1, <2>4, <3>1 DEF ViewsInv, Telling
  <2>5. QED
    BY <1>4, <2>2, <2>3, <2>4 DEF Moves
<1>5. CASE \E a : Called(a)
  <2>1. PICK a : Called(a)
    BY <1>5
  <2> DEFINE m == Script[job.pc].arg
  <2>2. m # "exit"
    BY <2>1 DEF Called
  <2>3. /\ Script' = Script /\ ui = "gui" /\ running = "on" /\ Before
        /\ screen' = screen /\ core' = a.core /\ stale' = stale \cup Touches(a.touched)
        /\ job'.cmd = job.cmd
    BY <1>2, <2>1, <2>2 DEF Called, Busy, Script, Scripts
  <2>4. ~CannotFail(Script, job.pc) /\ Tells(Script, Wired[job.cmd], job.pc)
    BY <2>1, <2>3 DEF Called, CannotFail, WiredTells
  <2>5. ScreenTrue /\ ListsTrue /\ screen \in Wired[job.cmd]
    BY <2>3, <2>4 DEF ViewsInv, Telling
  <2>6. Touches(a.touched) \subseteq {"screen", "names", "lists", "rings"}
    BY <2>1, TouchesTyped DEF Called, AnswerOK
  <2>7. /\ a \in Answers(m, core, job.id) /\ core \in Cores /\ job.id \in Personas
    BY <2>1, <2>3 DEF Called, TypeOK, JobOK
  <2> DEFINE Kept == ScreenTrue' /\ ListsTrue'
  <2>8. Touches(a.touched) = {} /\ appState(a.core) = appState(core) => Kept
    BY <2>3, <2>5 DEF ScreenTrue, ListsTrue
  <2>9. \/ job'.said = "busy" /\ job'.pc = job.pc + 1
        \/ job'.said = "failed" /\ ~a.ok
    BY <2>1 DEF Called
  <2>10. CASE m \in Unseen
    <3>1. Touches(a.touched) = {} /\ appState(a.core) = appState(core)
      BY <2>2, <2>7, <2>10, ViewAnswers
    <3>2. QED
      BY <2>3, <2>5, <2>8, <3>1
  <2>11. CASE job'.said = "failed" /\ ~a.ok /\ m \notin Unseen
    <3>1. m \in {"openProfile", "createProfile"} => ~core.open
      BY <2>4, <2>5, <2>11 DEF Tells, ScreenTrue, appState, ListCalls
    <3>2. m # "closeProfile"
      <4>1. a \in Answers("closeProfile", core, job.id) => a.ok
        BY ClosingSucceeds
      <4> QED BY <2>7, <2>11, <4>1
    <3>3. m \in {"openProfile", "createProfile", "setActivePersona", "createContainer"} \cup ListCalls
      BY <2>4, <2>11, <3>2 DEF Tells, SessionCalls
    <3>4. Kept
      BY <2>7, <2>8, <2>11, <3>1, <3>3, ViewAnswers
    <3>5. QED
      BY <2>11, <3>4
  <2>12. CASE job'.said = "busy" /\ job'.pc = job.pc + 1 /\ m \notin Unseen
    <3>1. CannotFail(Script, job.pc + 1)
      BY <2>4, <2>12 DEF Tells
    <3>2. CASE m \in SessionCalls
      BY <2>3, <2>4, <2>12, <3>1, <3>2 DEF Tells, Telling, SessionCalls, Unseen, ListCalls
    <3>3. CASE m = "createContainer"
      <4>1. Owes(Script, job.pc + 1, stateChanged) /\ screen = "init"
        BY <2>4, <2>5, <3>3 DEF Tells, SessionCalls, Unseen, ListCalls
      <4>2. ListsTrue'
        BY <2>3, <4>1 DEF ListsTrue
      <4>3. QED
        BY <2>3, <2>12, <3>1, <4>1, <4>2 DEF Telling
    <3>4. CASE m \in ListCalls
      <4>1. Owes(Script, job.pc + 1, dataChanged)
        BY <2>4, <3>4 DEF Tells, SessionCalls, Unseen, ListCalls
      <4>2. Touches(a.touched) \subseteq {"lists"} /\ appState(a.core) = appState(core)
        BY <2>7, <3>4, ViewAnswers
      <4>3. ScreenTrue'
        BY <2>3, <2>5, <4>2 DEF ScreenTrue
      <4>4. QED
        BY <2>3, <2>12, <3>1, <4>1, <4>3 DEF Telling
    <3>5. QED
      BY <2>4, <2>12, <3>2, <3>3, <3>4 DEF Tells
  <2>13. QED
    BY <2>9, <2>10, <2>11, <2>12
<1>6. CASE Emitted
  <2>1. /\ Script' = Script /\ ui = "gui" /\ running = "on" /\ Before /\ core' = core
        /\ job'.cmd = job.cmd /\ job'.said = "busy" /\ job'.pc = job.pc + 1
    BY <1>2, <1>6 DEF Emitted, Busy, Script, Scripts
  <2>2. CannotFail(Script, job.pc) /\ CannotFail(Script, job.pc + 1)
    BY <1>6, <2>1, StillOwed DEF Emitted, WiredTells
  <2>3. CASE Script[job.pc] = stateChanged
    <3>1. /\ screen' = appState(core)
          /\ stale' = stale \ ({"screen", "names"} \cup IF screen' # screen THEN {"lists", "rings"} ELSE {})
      BY <1>1, <1>6, <2>3 DEF Emitted, Hears
    <3>2. ScreenTrue'
      BY <2>1, <3>1 DEF ScreenTrue, appState
    <3>3. ListsTrue => ListsTrue'
      BY <2>1, <3>1 DEF ListsTrue, appState
    <3>4. Telling(dataChanged) => Telling(dataChanged)'
      BY <1>1, <2>1, <2>2, <2>3, StillOwed DEF Telling
    <3>5. QED
      BY <2>1, <2>2, <3>2, <3>3, <3>4 DEF ViewsInv
  <2>4. CASE Script[job.pc] = dataChanged
    <3>1. /\ screen' = screen
          /\ stale' = IF screen = "main" THEN stale \ {"lists"} ELSE stale
      BY <1>1, <1>6, <2>4 DEF Emitted, Hears
    <3>2. ListsTrue'
      BY <3>1 DEF ListsTrue
    <3>3. ScreenTrue => ScreenTrue'
      BY <2>1, <3>1 DEF ScreenTrue, appState
    <3>4. Telling(stateChanged) => Telling(stateChanged)'
      BY <1>1, <2>1, <2>2, <2>4, StillOwed DEF Telling
    <3>5. QED
      BY <2>1, <2>2, <3>2, <3>3, <3>4 DEF ViewsInv
  <2>5. QED
    BY <1>6, <2>3, <2>4 DEF Emitted
<1>7. CASE Fails
  BY <1>7 DEF Fails
<1>8. CASE UNCHANGED vars
  BY <1>8 DEF vars, ViewsInv, Script, Scripts, ScreenTrue, ListsTrue, Telling
<1>9. QED
  BY <1>3, <1>4, <1>5, <1>6, <1>7, <1>8, StepKinds

\* When no handler is under way the GUI's screen, names and lists are what Core
\* has: every wired handler tells of its change by the signals that make QML read
\* them again, on the screen that shows them, and one that fails has changed none
\* of them. The rings around the central persona are not among them.
THEOREM GuiFresh == Spec => []ViewsFresh
<1>1. Init => ViewsInv
  BY DEF Init, Idle, ViewsInv, ScreenTrue, ListsTrue
<1>2. ViewsInv => ViewsFresh
  BY DEF ViewsInv, ViewsFresh, ScreenTrue, ListsTrue, Telling
<1>3. QED
  BY <1>1, <1>2, StepViews, FrontEndTyped, PTL DEF Spec
=============================================================================
