------------------------------ MODULE FrontEnds ------------------------------
(***************************************************************************)
(* The two front ends over Core: the console's commands, taken step by     *)
(* step with their prompts, and the GUI's handlers with their signals and  *)
(* the QML that reads again on them.  Only one runs at a time (main.cpp).  *)
(* "api" stands for QML that calls every handler from every screen: most   *)
(* of them are not wired yet.                                              *)
(*                                                                         *)
(* Core is seen as the front ends see it: what a call may answer and what  *)
(* it leaves of the session.  CoreProfile and EntityStore say when a call  *)
(* succeeds.  Contacts, groups, messages and events are opaque here.       *)
(***************************************************************************)
EXTENDS GuiHandlers, CoreAccess, FiniteSets, Integers

CONSTANTS
  Personas,  \* persona uids; newId() gives one that is not in the profile
  None       \* no persona

ASSUME PersonasAssumption == Personas # {} /\ None \notin Personas

VARIABLES
  ui,       \* "console", "gui" or "api"
  running,  \* "on", "ended" by an exit or "failed" by an exception
  core,     \* Core: container, open, personas, active, and lost: the default
            \* persona of the profile just created was not stored
  screen,   \* the screen QML shows
  stale,    \* what QML shows and has not read again since it changed
  job       \* the command or handler under way, or the latest one

vars == <<ui, running, core, screen, stale, job>>

Scripts == IF ui = "console" THEN Commands ELSE Handlers

-----------------------------------------------------------------------------
(* Core as the front ends see it *)

Closed(c) == [c EXCEPT !.open = FALSE, !.personas = {}, !.active = None, !.lost = FALSE]
Session(c, ps, a) ==
  [c EXCEPT !.open = TRUE, !.personas = ps, !.active = a, !.lost = a \notin ps /\ a # None]

No(c) == [ok |-> FALSE, core |-> c, touched |-> {}]
Yes(c, touched) == [ok |-> TRUE, core |-> c, touched |-> touched]
\* Closing a session changes what is shown if there was one.
FailsClosed(c) ==
  [ok |-> FALSE, core |-> Closed(c), touched |-> IF c.open THEN {"session"} ELSE {}]

\* Each: the answers a call may give.
createContainer(c) == {No(c), Yes([c EXCEPT !.container = TRUE], {"container"})}

OpensProfile(c) ==
  IF ~c.container THEN {No(c)}
  ELSE {FailsClosed(c), Yes(Session(c, {}, None), {"session"})}
         \cup UNION {{Yes(Session(c, ps, a), {"session"}) : a \in ps} : ps \in SUBSET Personas}
\* The file of an old profile may be met, its personas among the rest.
CreatesProfile(c) ==
  IF ~c.container THEN {No(c)}
  ELSE {FailsClosed(c)}
         \cup {Yes(Session(c, ps, a), {"session"}) : ps \in SUBSET Personas, a \in Personas}
ImportsProfile(c) == {No(c)} \cup CreatesProfile(c)
ClosesProfile(c) == {Yes(Closed(c), IF c.open THEN {"session"} ELSE {})}
DeletesProfile(c) == IF c.open THEN {Yes(Closed(c), {"session"})} ELSE {No(c)}
StoresProfile(c) == IF c.open THEN {No(c), Yes(c, {"names"})} ELSE {No(c)}

SelectsPersona(c, id) ==
  IF c.open /\ id \in c.personas
  THEN {Yes([c EXCEPT !.active = id, !.lost = FALSE], IF id = c.active THEN {} ELSE {"session"})}
  ELSE {No(c)}
StoresPersona(c, id) ==
  IF c.open THEN {No(c), Yes([c EXCEPT !.personas = @ \cup {id}], {"names"})} ELSE {No(c)}
\* What the persona owned may be gone though the persona is not.
DeletesPersona(c, id) ==
  IF ~c.open THEN {No(c)}
  ELSE {[ok |-> FALSE, core |-> c, touched |-> {"names", "groups"}],
        Yes([c EXCEPT !.personas = @ \ {id}], {"names", "groups"})}

\* Calls that need a profile, or an active persona, and change entities.
Stores(c, touched) == IF c.open THEN {No(c), Yes(c, touched)} ELSE {No(c)}
Removes(c, touched) == IF c.open /\ c.active # None THEN {No(c), Yes(c, touched)} ELSE {No(c)}
\* The members go first.
DeletesGroup(c) ==
  IF c.open /\ c.active # None THEN {[ok |-> FALSE, core |-> c, touched |-> {"lists"}], Yes(c, {"groups"})}
  ELSE {No(c)}
\* create*: a record to fill in, without a uid if there is no persona.
Makes(c) == IF c.open /\ c.active # None THEN {Yes(c, {})} ELSE {No(c)}

Answers(method, c, id) ==
  CASE method = "createContainer" -> createContainer(c)
    [] method = "openProfile" -> OpensProfile(c)
    [] method = "createProfile" -> CreatesProfile(c)
    [] method = "importProfile" -> ImportsProfile(c)
    [] method \in {"closeProfile", "exit"} -> ClosesProfile(c)
    [] method = "deleteCurrentProfile" -> DeletesProfile(c)
    [] method = "exportProfile" -> IF c.open THEN {Yes(c, {})} ELSE {No(c)}
    [] method = "storeProfile" -> StoresProfile(c)
    [] method = "setSetting" -> {Yes(c, {"settings"})}
    [] method = "setActivePersona" -> SelectsPersona(c, id)
    [] method \in {"createPersona", "createParam"} -> IF c.open THEN {Yes(c, {})} ELSE {No(c)}
    [] method = "storePersona" -> StoresPersona(c, id)
    [] method = "deletePersona" -> DeletesPersona(c, id)
    [] method \in {"storeParam", "deleteParam"} -> Stores(c, {"params"})
    [] method \in {"createContact", "createGroup", "createMessage", "createEvent"} -> Makes(c)
    [] method = "storeMessage" -> Stores(c, {"messages"})
    [] method = "deleteMessage" -> Removes(c, {"messages"})
    [] method \in {"storeContact", "storeEvent", "addGroupMember", "removeGroupMember"} ->
         Stores(c, {"lists"})
    [] method = "storeGroup" -> Stores(c, {"groups"})
    [] method \in {"deleteContact", "deleteEvent"} -> Removes(c, {"lists"})
    [] method = "deleteGroup" -> DeletesGroup(c)

\* get*: whether a record may be there, or not.
Finds(method, c, id) ==
  IF method = "getPersona" THEN {c.open /\ id \in c.personas}
  ELSE IF c.open /\ c.active # None THEN BOOLEAN ELSE {FALSE}

-----------------------------------------------------------------------------
(* What QML shows *)

\* The bindings of the screen stack, of the names and the persona list in the
\* menu, the lists of the main screen, and the rings around its central persona:
\* the groups, read by a binding of its own.
Shows ==
  [session |-> {"screen", "names", "lists", "rings"}, container |-> {"screen"}, names |-> {"names"},
   groups |-> {"lists", "rings"}, lists |-> {"lists"}, messages |-> {}, params |-> {}, settings |-> {}]
Touches(parts) == UNION {Shows[p] : p \in parts}

appState(c) == IF ~c.container THEN "init" ELSE IF ~c.open THEN "login" ELSE "main"

\* The properties are bound to stateChanged; a new screen reads what it shows,
\* the main screen reads its lists again on dataChanged. Nothing tells the
\* binding of the rings, which calls listGroups() and names no property.
Hears(signal) ==
  CASE signal = "stateChanged" ->
         /\ screen' = appState(core)
         /\ stale' = stale \ ({"screen", "names"} \cup IF screen' # screen THEN {"lists", "rings"} ELSE {})
    [] signal = "dataChanged" ->
         /\ stale' = IF screen = "main" THEN stale \ {"lists"} ELSE stale
         /\ UNCHANGED screen

-----------------------------------------------------------------------------
Idle == [cmd |-> "refresh", pc |-> 0, args |-> 0, id |-> None, typed |-> FALSE,
         left |-> "none", changed |-> {}, said |-> "ok"]

Init ==
  /\ ui \in {"console", "gui", "api"}
  /\ running = "on"
  /\ \E there \in BOOLEAN :
       /\ core = [container |-> there, open |-> FALSE, personas |-> {}, active |-> None, lost |-> FALSE]
       /\ screen = appState(core)
  /\ stale = {}
  /\ job = Idle

NumAsks(script) == Cardinality({k \in 1..Len(script) : script[k].op = "ask" /\ script[k].arg # "confirm"})

\* A line was dispatched with a number of arguments, or QML calls a handler.
\* Bound: a persona is created only while there is a uid left.
Start(cmd, args, id) ==
  /\ running = "on" /\ job.said # "busy"
  /\ args <= IF ui = "console" THEN NumAsks(Scripts[cmd]) ELSE 0
  /\ ui = "gui" => cmd \in DOMAIN Wired /\ screen \in Wired[cmd]
  /\ cmd \in {"persona_create", "createPersona"} => id \notin core.personas /\ id # core.active
  /\ job' = [Idle EXCEPT !.cmd = cmd, !.pc = 1, !.args = args, !.id = id, !.said = "busy"]
  /\ UNCHANGED <<ui, running, core, screen, stale>>

Busy == running = "on" /\ job.said = "busy"
Step == Scripts[job.cmd][job.pc]
At(op) == Busy /\ job.pc <= Len(Scripts[job.cmd]) /\ Step.op = op
Go == [job EXCEPT !.pc = @ + 1]
End(said) == [job EXCEPT !.said = said]
Quiet == UNCHANGED <<ui, running, core, screen, stale>>

Holds(what) ==
  CASE what = "profile" -> {core.open}
    [] what = "container" -> {core.container}
    [] what = "noContainer" -> {~core.container}
    [] what = "path" -> BOOLEAN

Needs == /\ At("need")
         /\ \E holds \in Holds(Step.arg) : job' = IF holds THEN Go ELSE End("refused")
         /\ Quiet

\* The argument was on the line.
Given ==
  /\ At("ask") /\ Step.arg # "confirm" /\ job.args > 0
  /\ job' = [Go EXCEPT !.args = @ - 1, !.typed = Step.arg = "field"]
  /\ Quiet

\* The prompt is shown. A password asked for is asked for twice when it is new.
\* The job notes where Ctrl-C was pressed.
Prompted(did) ==
  /\ At("ask") /\ (Step.arg = "confirm" \/ job.args = 0)
  /\ Step.arg = "persona" => core.personas # {}
  /\ did \in DOMAIN Prompts[Step.arg]
  /\ LET Left(next) == IF did = "CtrlC" THEN [next EXCEPT !.left = Step.arg] ELSE next
     IN  IF Prompts[Step.arg][did] \in GoesOn[Step.arg]
         THEN \/ Step.arg # "persona" /\ job' = Left(Go)
              \/ /\ Step.arg = "persona"
                 /\ \E id \in core.personas : job' = Left([Go EXCEPT !.id = id])
              \/ Step.arg = "newPassword" /\ job' = Left(End("refused"))
         ELSE job' = Left(End("cancelled"))
  /\ Quiet

NothingToSelect ==
  /\ At("ask") /\ Step.arg = "persona" /\ job.args = 0 /\ core.personas = {}
  /\ job' = End("refused")
  /\ Quiet

Gets == /\ At("get")
        /\ \E found \in Finds(Step.arg, core, job.id) : job' = IF found THEN Go ELSE End("refused")
        /\ Quiet

Reads == At("read") /\ job' = Go /\ Quiet

\* A field chosen from the list is a known one; a date may be none.
Knows ==
  /\ At("known")
  /\ \/ job' = Go
     \/ /\ job.typed \/ Step.arg = "date" \/ ui # "console"
        /\ job' = End("refused")
  /\ Quiet

NotActives == /\ At("notActive")
              /\ job' = IF job.id = core.active THEN End("refused") ELSE Go
              /\ Quiet

\* A call of Core; exit ends the loop of the console, or the application.
Calls ==
  /\ At("call") \/ At("try")
  /\ \E a \in Answers(Step.arg, core, job.id) :
       /\ core' = a.core
       /\ stale' = stale \cup IF ui = "console" THEN {} ELSE Touches(a.touched)
       /\ LET after == [job EXCEPT !.changed = @ \cup a.touched]
          IN  job' = IF a.ok \/ Step.op = "try" THEN [after EXCEPT !.pc = @ + 1]
                     ELSE [after EXCEPT !.said = "failed"]
       /\ running' = IF Step.arg = "exit" THEN "ended" ELSE running
  /\ UNCHANGED <<ui, screen>>

Emits == /\ At("emit")
         /\ Hears(Step.arg)
         /\ job' = Go
         /\ UNCHANGED <<ui, running, core>>

Finish == /\ Busy /\ job.pc > Len(Scripts[job.cmd])
          /\ job' = End("ok")
          /\ Quiet

\* An exception reaches run().
Fails ==
  /\ ui = "console" /\ Busy
  /\ running' = "failed"
  /\ core' = Closed(core)
  /\ UNCHANGED <<ui, screen, stale, job>>

Next ==
  \/ \E cmd \in DOMAIN Scripts, args \in 0..3, id \in Personas : Start(cmd, args, id)
  \/ Needs \/ Given \/ NothingToSelect \/ Gets \/ Reads \/ Knows \/ NotActives \/ Calls \/ Emits
  \/ \E did \in DOMAIN askText : Prompted(did)
  \/ Finish \/ Fails

Spec == Init /\ [][Next]_vars

-----------------------------------------------------------------------------
(* Properties *)

\* What a step asks of Core.
Asked(step) ==
  CASE step.op \in {"call", "try", "get", "read"} -> {step.arg}
    [] step.op = "need" /\ step.arg = "profile" -> {"isProfileOpen"}
    [] step.op = "need" /\ step.arg \in {"container", "noContainer"} ->
         {"isContainerInitialized", "containerPath"}
    [] step.op = "need" /\ step.arg = "path" -> {"getSetting"}
    [] step.op = "notActive" -> {"activePersonaId"}
    [] step.op = "ask" /\ step.arg = "persona" -> {"listPersonas"}
    [] step.op = "emit" -> IF step.arg = "stateChanged" THEN BoundCalls ELSE reloadData
    [] OTHER -> {}

\* The permissions the front ends declare let every call of every command and
\* handler, of the prompt and of the QML that reads again: a call the proxy
\* refuses would look like an empty profile.
NoCallDenied ==
  Busy /\ job.pc <= Len(Scripts[job.cmd]) =>
    \A m \in Asked(Step) \cup promptText : check(FrontEndPermissions, m)

\* While the console or the wired GUI is used, the active persona is one of the
\* profile's: entities would be stored below a persona that is gone. Core itself
\* does not see to it (deletePersona), the command does. Excepted is the profile
\* whose default persona createProfile failed to store.
ActivePersonaStored ==
  ui # "api" /\ core.open /\ core.active # None /\ ~core.lost => core.active \in core.personas

\* A command or handler that was refused or cancelled half way changed nothing:
\* every question and test comes before the first change. A command left with
\* Ctrl-C changes nothing after it either, unless it was left at init's question
\* for a number: askNumber answers Ctrl-C with its default, which init takes for
\* an answer (CtrlCCancels).
RefusedChangesNothing ==
  /\ job.said \in {"refused", "cancelled"} => job.changed = {}
  /\ job.left \notin {"none", "number"} => job.changed = {}

\* What Prompt.h says of every prompt, askNumber among them: Ctrl-C is a
\* cancellation, so that a command left with it changes nothing.
CtrlCCancels == job.left # "none" => job.changed = {}

\* When no handler is under way the screen, the names and the lists the GUI shows
\* are what Core has, although handlers tell of changes by two signals and only on
\* success, and lists are read only by the screen they are on. The rings around
\* the central persona are left out: no signal reaches them (CentralPersonaFresh).
ViewsFresh ==
  ui = "gui" /\ running = "on" /\ job.said # "busy" =>
    screen = appState(core) /\ "screen" \notin stale /\ "names" \notin stale
      /\ (screen = "main" => "lists" \notin stale)

\* What MainScreen.qml says of its central persona: it is the active one, whose
\* groups the rings around it are when no handler is under way.
CentralPersonaFresh ==
  ui = "gui" /\ running = "on" /\ job.said # "busy" /\ screen = "main" => "rings" \notin stale

=============================================================================
