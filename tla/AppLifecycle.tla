----------------------------- MODULE AppLifecycle -----------------------------
(***************************************************************************)
(* The program from start to end in console mode: main() and runShutdown() *)
(* of src/main.cpp, plugin activation (src/plugins.cpp, Core::set*Plugin), *)
(* the log sink, and the thread of ConsoleUI::run(), which reads commands  *)
(* and calls Core while the main thread sits in the event loop.            *)
(*                                                                         *)
(* CoreProfile takes every call of Core as one step and shuts the database *)
(* plugin down in a step of its own: what lets it do so is shown here, the *)
(* console thread being gone before the main thread touches either         *)
(* (ReplOnLiveObjects).                                                    *)
(***************************************************************************)
EXTENDS Naturals, Sequences, FiniteSets

CONSTANT
  Throws  \* TRUE: an exception may leave the try block of main()

ASSUME ThrowsAssumption == Throws \in BOOLEAN

Ui == "ui-console"
\* The order in which main() activates them.
Activation == <<"dbkv-json", "dbkv-rocksdb", "vfs-cake", Ui>>
Names == {Activation[n] : n \in 1 .. Len(Activation)}
Singletons == {"core", "plugins", "app"}

VARIABLES
  present,    \* plugins whose library was found
  main,       \* where the main thread is
  tried,      \* activations main() has come to
  order,      \* m_activation_order
  inited,     \* plugins between init() and deinit()
  proxies,    \* m_proxies: plugins whose CoreAccessProxy exists
  sink,       \* the root log's m_sink is the console plugin
  deleted,    \* objects that were deleted; s_pInstance is never reset
  handling,   \* main() is in its exception handler
  repl,       \* where the console thread is
  stdin,      \* "open", or "closed" at end of file
  exitAsked,  \* the running event loop was told to exit
  posted,     \* an event that tells it is queued
  signal      \* SIGINT was caught and is to be read from the socket pair

vars == <<present, main, tried, order, inited, proxies, sink, deleted, handling,
          repl, stdin, exitAsked, posted, signal>>

objects == <<present, tried, order, inited, proxies, sink, deleted, handling>>
console == <<repl, stdin, exitAsked, posted, signal>>

Init ==
  /\ present \in SUBSET Names
  /\ main = "activating" /\ tried = 0 /\ order = <<>>
  /\ inited = {} /\ proxies = {} /\ sink = FALSE
  /\ deleted = {} /\ handling = FALSE
  /\ repl = "none" /\ stdin = "open"
  /\ exitAsked = FALSE /\ posted = FALSE /\ signal = FALSE

-----------------------------------------------------------------------------
(* Start *)

\* setDBKVPlugin, setDBKVProfilePlugin, setVFSPlugin, then the console: the
\* proxy is made, init() called and the pair appended to the activation order.
Activate ==
  /\ main = "activating" /\ tried < Len(Activation)
  /\ LET name == Activation[tried + 1] IN
       IF name \in present
       THEN /\ proxies' = proxies \cup {name} /\ inited' = inited \cup {name}
            /\ order' = Append(order, name)
       ELSE UNCHANGED <<proxies, inited, order>>
  /\ tried' = tried + 1
  /\ UNCHANGED <<present, main, sink, deleted, handling, console>>

\* Without a console plugin main() says so in a fatal log line, and with no sink
\* set such a line aborts the process (qFatal in Log::output).
UiMissing ==
  /\ main = "activating" /\ tried = Len(Activation) /\ Ui \notin inited
  /\ main' = "killed"
  /\ UNCHANGED <<objects, console>>

StartUI ==
  /\ main = "activating" /\ tried = Len(Activation) /\ Ui \in inited
  /\ sink' = TRUE
  /\ repl' = "prompt"
  /\ main' = "started"
  /\ UNCHANGED <<present, tried, order, inited, proxies, deleted, handling>>
  /\ UNCHANGED <<stdin, exitAsked, posted, signal>>

InstallHandler ==
  /\ main = "started"
  /\ main' = "ready"
  /\ UNCHANGED <<objects, console>>

\* app->exec(), with aboutToQuit connected to runShutdown.
EnterExec ==
  /\ main = "ready"
  /\ main' = "exec"
  /\ UNCHANGED <<objects, console>>

-----------------------------------------------------------------------------
(* The event loop and runShutdown *)

\* Mutant: an exit that was queued is not delivered.
MutLoopEnds ==
  /\ main = "exec"
  /\ exitAsked \/ signal
  /\ main' = "quitting"
  /\ UNCHANGED <<objects, console>>
LoopEnds ==
  /\ main = "exec"
  /\ exitAsked \/ posted \/ signal
  /\ main' = "quitting"
  /\ UNCHANGED <<objects, console>>

\* Mutant: the sink stays.
MutClearSink ==
  /\ main = "quitting"
  /\ main' = "deactivating"
  /\ UNCHANGED <<present, tried, order, inited, proxies, sink, deleted, handling, console>>
\* runShutdown begins.
ClearSink ==
  /\ main = "quitting"
  /\ sink' = FALSE
  /\ main' = "deactivating"
  /\ UNCHANGED <<present, tried, order, inited, proxies, deleted, handling, console>>

\* shutdownAllPluginsInReverseOrder calls deactivateInterface for the plugin
\* activated last, which first takes it out of the activation order ...
NextDown == order[Len(order)]
TakenOut == order' = SubSeq(order, 1, Len(order) - 1)

\* ... then calls deinit() and deletes the proxy.
\* Mutant: the proxy stays.
MutDeinited(name) == inited' = inited \ {name} /\ UNCHANGED proxies
Deinited(name) == inited' = inited \ {name} /\ proxies' = proxies \ {name}

DeactivateStorage ==
  /\ main = "deactivating" /\ order # <<>> /\ NextDown # Ui
  /\ TakenOut /\ Deinited(NextDown)
  /\ UNCHANGED <<present, main, tried, sink, deleted, handling, console>>

\* The console's deinit() calls stopUI(): quit(), which a thread without event
\* loop does not notice, and wait().
StopUI ==
  /\ main = "deactivating" /\ order # <<>> /\ NextDown = Ui
  /\ TakenOut
  /\ main' = "joining"
  /\ UNCHANGED <<present, tried, inited, proxies, sink, deleted, handling, console>>

\* Mutant: stopUI() does not wait.
MutJoined ==
  /\ main = "joining"
  /\ Deinited(Ui)
  /\ main' = "deactivating"
  /\ UNCHANGED <<present, tried, order, sink, deleted, handling, console>>
Joined ==
  /\ main = "joining" /\ repl \in {"none", "done"}
  /\ Deinited(Ui)
  /\ main' = "deactivating"
  /\ UNCHANGED <<present, tried, order, sink, deleted, handling, console>>

AllDown ==
  /\ main = "deactivating" /\ order = <<>>
  /\ main' = "closing"
  /\ UNCHANGED <<objects, console>>

\* Core::I()->closeProfile(), Core::destroyI(), Plugins::destroyI().
CloseProfile ==
  /\ main = "closing"
  /\ main' = "destroying"
  /\ UNCHANGED <<objects, console>>

DestroyCore ==
  /\ main = "destroying"
  /\ deleted' = deleted \cup {"core"}
  /\ main' = "destroyed"
  /\ UNCHANGED <<present, tried, order, inited, proxies, sink, handling, console>>

\* The proxies are children of Plugins and go with it.
DestroyPlugins ==
  /\ main = "destroyed"
  /\ deleted' = deleted \cup {"plugins"}
  /\ proxies' = {}
  /\ main' = "finished"
  /\ UNCHANGED <<present, tried, order, inited, sink, handling, console>>

\* The end of exec(), or of the handler: the process ends, all threads with it.
Return ==
  /\ main = "finished"
  /\ main' = "returned"
  /\ deleted' = deleted \cup {"app"}
  /\ UNCHANGED <<present, tried, order, inited, proxies, sink, handling, console>>

Ended == {"returned", "killed"}

\* The application object is unwound, then the handler writes a fatal log line,
\* which aborts the process when no sink is set, and runs runShutdown; a second
\* exception ends that.  What deinit() throws leaves the plugin out of the
\* activation order.  Destructors, which is all that runs once Core is being
\* deleted, throw nothing.
MainThrows ==
  /\ Throws /\ main \notin Ended \cup {"destroying", "destroyed", "finished"}
  /\ deleted' = deleted \cup {"app"}
  /\ handling' = TRUE
  /\ main' = CASE handling         -> "returned"
                [] ~handling /\ sink  -> "quitting"
                [] ~handling /\ ~sink -> "killed"
  /\ \/ UNCHANGED order
     \/ main = "deactivating" /\ order # <<>> /\ TakenOut
  /\ UNCHANGED <<present, tried, inited, proxies, sink, console>>

MainStep ==
  \/ Activate \/ UiMissing \/ StartUI \/ InstallHandler \/ EnterExec
  \/ LoopEnds \/ ClearSink \/ DeactivateStorage \/ StopUI \/ Joined \/ AllDown
  \/ CloseProfile \/ DestroyCore \/ DestroyPlugins \/ Return

-----------------------------------------------------------------------------
(* The console thread, ConsoleUI::run() *)

ReplMoves(from, to) ==
  /\ main \notin Ended
  /\ repl = from /\ repl' = to
  /\ UNCHANGED <<objects, main, stdin, exitAsked, posted, signal>>

\* A line is read: a command, or exit (Ctrl-D on an empty line says exit too).
\* At end of file readKey returns Unknown at once, and readLine reads again.
ReadCommand == stdin = "open" /\ ReplMoves("prompt", "command")
ReadExit == stdin = "open" /\ ReplMoves("prompt", "exiting")

\* Log::output reads m_sink and, when it is set, calls its logSink().
BeginLog == sink /\ ReplMoves("command", "logging")
EndLog == ReplMoves("logging", "command")
EndCommand == ReplMoves("command", "prompt")

\* Core::exit(): QCoreApplication::exit() reaches the running event loop, and
\* without one does nothing.
AskExit ==
  /\ main \notin Ended
  /\ repl = "exiting" /\ repl' = "done"
  /\ exitAsked' = (main = "exec" \/ exitAsked)
  /\ UNCHANGED <<objects, main, stdin, posted, signal>>

\* An exception in a command: the profile is closed and the exit is queued, if
\* the application object is there.
ReplThrows ==
  /\ main \notin Ended
  /\ repl = "command" /\ repl' = "done"
  /\ posted' = ("app" \notin deleted \/ posted)
  /\ UNCHANGED <<objects, main, stdin, exitAsked, signal>>

ReplStep == EndLog \/ BeginLog \/ EndCommand \/ AskExit \/ ReplThrows

-----------------------------------------------------------------------------
(* The user *)

CloseStdin ==
  /\ main \notin Ended
  /\ stdin = "open" /\ stdin' = "closed"
  /\ UNCHANGED <<objects, main, repl, exitAsked, posted, signal>>

\* SIGINT: fatal until the handler is installed; later a byte in the socket
\* pair, which the event loop takes for a quit.
Interrupt ==
  /\ main \notin Ended
  /\ IF main \in {"activating", "started"}
     THEN main' = "killed" /\ UNCHANGED signal
     ELSE signal' = TRUE /\ UNCHANGED main
  /\ UNCHANGED <<objects, repl, stdin, exitAsked, posted>>

\* The process is gone.
Over == main \in Ended /\ UNCHANGED vars

Next ==
  \/ MainStep \/ MainThrows
  \/ ReplStep \/ ReadCommand \/ ReadExit
  \/ CloseStdin \/ Interrupt \/ Over

\* Both threads are scheduled, and a command comes to its end; nobody has to
\* type anything, and the loop of commands and log lines ends only with a line.
Fairness ==
  /\ WF_vars(MainStep)
  /\ WF_vars(EndLog) /\ SF_vars(EndCommand \/ ReplThrows) /\ WF_vars(AskExit)

Spec == Init /\ [][Next]_vars /\ Fairness

-----------------------------------------------------------------------------
(* Properties *)

\* The variables keep their types.
TypeOK ==
  /\ present \subseteq Names /\ inited \subseteq Names /\ proxies \subseteq Names
  /\ main \in Ended \cup {"activating", "started", "ready", "exec", "quitting",
       "deactivating", "joining", "closing", "destroying", "destroyed", "finished"}
  /\ tried \in 0 .. Len(Activation)
  /\ order \in Seq(Names) /\ \A i, j \in 1 .. Len(order) : order[i] = order[j] => i = j
  /\ deleted \subseteq Singletons
  /\ repl \in {"none", "prompt", "command", "logging", "exiting", "done"}
  /\ stdin \in {"open", "closed"}
  /\ {sink, handling, exitAsked, posted, signal} \subseteq BOOLEAN

\* While the console thread runs, what its commands reach is there: its proxy,
\* Core, the storage plugins that were found and the application object.  The
\* main thread takes them down only after the thread has ended, unless an
\* exception put it into the handler of main().
ReplOnLiveObjects ==
  repl \notin {"none", "done"} /\ main \notin Ended /\ ~handling =>
    /\ Ui \in proxies
    /\ present \subseteq inited
    /\ deleted = {}

\* When Core goes, every plugin was deinitialised and no proxy points to it
\* (plugins.h on shutdownAllPluginsInReverseOrder).
DeinitBeforeDestroy == "core" \in deleted /\ ~handling => inited = {} /\ proxies = {}

\* A log line, also one under way in the console thread when the sink is taken
\* back, never reaches a console plugin that was deinitialised (runShutdown
\* clears the sink before it deactivates plugins).
LogOnLivePlugin == sink \/ repl = "logging" => Ui \in inited

\* An exit that reached the event loop, or was queued for it, ends the program.
ExitHeardEnds == exitAsked \/ posted ~> main \in Ended

\* Who asks the program to end, by the exit command, by SIGINT or by closing
\* its input, sees it end.
AskedToEnd ==
  /\ repl = "exiting" ~> main \in Ended
  /\ signal ~> main \in Ended
  /\ stdin = "closed" ~> main \in Ended
=============================================================================
