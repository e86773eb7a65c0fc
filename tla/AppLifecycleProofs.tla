-------------------------- MODULE AppLifecycleProofs --------------------------
(* Proofs about AppLifecycle: whatever libraries are found, whatever throws  *)
(* and however the threads are scheduled, the console thread works on live   *)
(* objects, logs to a live plugin, and Core goes last.                       *)
EXTENDS AppLifecycle, SequenceTheorems, TLAPS

Working == repl \notin {"none", "done"}
Tried == {Activation[k] : k \in 1 .. tried}
Listed(name) == \E i \in 1 .. Len(order) : order[i] = name

\* While main() activates plugins nothing else has begun, and the plugins it has
\* come to are initialised if they were found.
Starting ==
  main = "activating" =>
    /\ ~handling /\ repl = "none" /\ deleted = {}
    /\ \A i \in 1 .. Len(order) : order[i] \in Tried
    /\ Tried \cap present \subseteq inited

\* The console is activated last, so it is deactivated first.
UiLast == \A i \in 1 .. Len(order) : order[i] = Ui => i = Len(order)

\* Unless an exception came between, what is initialised is what is still to be
\* deactivated, and the console while its thread is waited for.
Accounted ==
  ~handling =>
    /\ proxies = inited
    /\ \A name \in Names :
         name \in inited <=> Listed(name) \/ (main = "joining" /\ name = Ui)
    /\ main = "joining" => ~Listed(Ui)

\* After the deactivation nothing is left to be deactivated; Core goes after it.
Emptied ==
  ~handling =>
    /\ main \in {"closing", "destroying", "destroyed", "finished"} => order = <<>>
    /\ main \notin Ended \cup {"destroyed", "finished"} => deleted = {}
    /\ "core" \in deleted => order = <<>> /\ main # "joining"

\* The console thread runs only while its plugin is initialised, and no storage
\* plugin goes before it.
Attended ==
  Working => Ui \in inited /\ (main \notin Ended /\ ~handling => present \subseteq inited)

\* The sink points to an initialised console and is taken back before plugins go.
SinkLive ==
  sink =>
    /\ Ui \in inited
    /\ main \notin {"deactivating", "joining", "closing", "destroying", "destroyed", "finished"}

IInv == TypeOK /\ Starting /\ UiLast /\ Accounted /\ Emptied /\ Attended /\ SinkLive

-----------------------------------------------------------------------------
LEMMA UiIsName == Ui \in Names /\ Len(Activation) = 4 /\ Activation[4] = Ui
BY DEF Ui, Names, Activation

LEMMA ActivationNames == \A k \in 1 .. 4 : Activation[k] \in Names
BY UiIsName DEF Names

LEMMA ActivationOnce == \A j, k \in 1 .. 4 : Activation[j] = Activation[k] => j = k
BY DEF Activation, Ui

LEMMA InitInv == Init => IInv
<1> SUFFICES ASSUME Init PROVE IInv
  OBVIOUS
<1>1. TypeOK
  <2>1. tried \in 0 .. Len(Activation) /\ order \in Seq(Names) /\ Len(order) = 0
    BY UiIsName, EmptySeq DEF Init
  <2>2. {sink, handling, exitAsked, posted, signal} \subseteq BOOLEAN
    BY DEF Init
  <2> QED BY <2>1, <2>2 DEF Init, TypeOK
<1>2. Starting
  BY DEF Init, Starting, Tried
<1>3. UiLast /\ Accounted
  BY DEF Init, UiLast, Accounted, Listed
<1>4. Emptied /\ Attended /\ SinkLive
  BY DEF Init, Emptied, Attended, SinkLive, Working
<1> QED BY <1>1, <1>2, <1>3, <1>4 DEF IInv

\* Steps of the console thread and of the user that leave the main thread alone.
LEMMA ConsoleInv ==
  ASSUME IInv, UNCHANGED <<objects, main>>,
         repl' \in {"none", "prompt", "command", "logging", "exiting", "done"},
         stdin' \in {"open", "closed"}, {exitAsked, posted, signal}' \subseteq BOOLEAN,
         repl = "none" => repl' = "none", Working' => Working
  PROVE  IInv'
<1>1. TypeOK'
  BY DEF IInv, TypeOK, objects
<1>2. Starting'
  BY DEF IInv, Starting, Tried, objects
<1>3. UiLast' /\ Accounted'
  BY DEF IInv, UiLast, Accounted, Listed, objects
<1>4. Emptied' /\ SinkLive'
  BY DEF IInv, Emptied, SinkLive, objects
<1>5. Attended'
  BY DEF IInv, Attended, objects
<1> QED BY <1>1, <1>2, <1>3, <1>4, <1>5 DEF IInv

\* Steps of the main thread that change nothing but where it is.
LEMMA MoveInv ==
  ASSUME IInv, UNCHANGED <<objects, console>>,
         main' \in {"ready", "exec", "quitting"}, main \in {"started", "ready", "exec"}
  PROVE  IInv'
<1>1. TypeOK'
  BY DEF IInv, TypeOK, objects, console
<1>2. Starting' /\ UiLast'
  BY DEF IInv, Starting, UiLast, objects, console
<1>3. Accounted' /\ SinkLive'
  BY DEF IInv, Accounted, Listed, SinkLive, objects, console
<1>4. Emptied'
  BY DEF IInv, Emptied, objects, console, Ended
<1>5. Attended'
  BY DEF IInv, Attended, Working, objects, console, Ended
<1> QED BY <1>1, <1>2, <1>3, <1>4, <1>5 DEF IInv

LEMMA ActivateInv == IInv /\ Activate => IInv'
<1> SUFFICES ASSUME IInv, Activate PROVE IInv'
  OBVIOUS
<1> DEFINE name == Activation[tried + 1]
<1>1. tried \in 0 .. 3 /\ tried' = tried + 1 /\ main = "activating" /\ name \in Names
  BY UiIsName, ActivationNames DEF IInv, TypeOK, Activate
<1>2. order \in Seq(Names) /\ Len(order) \in Nat /\ ~handling /\ repl = "none" /\ deleted = {}
  BY <1>1 DEF IInv, TypeOK, Starting
<1>3. \A i \in 1 .. Len(order) : order[i] \in Tried /\ order[i] # name
  <2>1. name \notin Tried
    BY <1>1, ActivationOnce DEF Tried
  <2> QED BY <1>1, <2>1 DEF IInv, Starting
<1>4. Tried' = Tried \cup {name}
  BY <1>1 DEF Tried
<1>5. \A i \in 1 .. Len(order) : order[i] # Ui
  BY <1>1, <1>3, UiIsName, ActivationOnce DEF Tried
<1>6. UNCHANGED <<main, handling, repl, deleted, present, sink, stdin, exitAsked, posted, signal>>
  BY DEF Activate, console
<1>7. SinkLive' /\ Emptied' /\ Attended'
  BY <1>1, <1>2, <1>6 DEF Activate, IInv, SinkLive, Emptied, Attended, Working
<1>8. CASE name \notin present
  <2>1. UNCHANGED <<proxies, inited, order>>
    BY <1>8 DEF Activate
  <2>2. TypeOK'
    BY <1>1, <1>6, <2>1, UiIsName DEF IInv, TypeOK
  <2>3. Starting'
    BY <1>1, <1>2, <1>3, <1>4, <1>6, <1>8, <2>1 DEF IInv, Starting
  <2>4. UiLast'
    BY <2>1 DEF IInv, UiLast
  <2>5. Accounted'
    BY <1>6, <2>1 DEF IInv, Accounted, Listed
  <2> QED BY <1>7, <2>2, <2>3, <2>4, <2>5 DEF IInv
<1>9. CASE name \in present
  <2>1. order' = Append(order, name) /\ inited' = inited \cup {name} /\ proxies' = proxies \cup {name}
    BY <1>9 DEF Activate
  <2>2. /\ order' \in Seq(Names) /\ Len(order') = Len(order) + 1
        /\ order'[Len(order) + 1] = name
        /\ \A i \in 1 .. Len(order) : order'[i] = order[i]
    BY <1>1, <1>2, <2>1, AppendProperties
  <2>3. TypeOK'
    <3>1. \A i, j \in 1 .. Len(order') : order'[i] = order'[j] => i = j
      BY <1>2, <1>3, <2>2, SMTT(20) DEF IInv, TypeOK
    <3>2. inited' \subseteq Names /\ proxies' \subseteq Names
      BY <1>1, <2>1 DEF IInv, TypeOK
    <3> QED BY <1>1, <1>6, <2>2, <3>1, <3>2, UiIsName DEF IInv, TypeOK
  <2>4. Starting'
    <3>1. \A i \in 1 .. Len(order') : order'[i] \in Tried'
      BY <1>2, <1>3, <1>4, <2>2
    <3>2. (Tried \cap present \subseteq inited)'
      BY <1>1, <1>4, <1>6, <2>1 DEF IInv, Starting
    <3> QED BY <1>2, <1>6, <3>1, <3>2 DEF Starting
  <2>5. UiLast'
    BY <1>2, <1>5, <2>2 DEF UiLast
  <2>6. Accounted'
    <3>1. \A n \in Names : Listed(n)' <=> Listed(n) \/ n = name
      <4> SUFFICES ASSUME NEW n \in Names PROVE Listed(n)' <=> Listed(n) \/ n = name
        OBVIOUS
      <4>1. Listed(n)' => Listed(n) \/ n = name
        BY <1>2, <2>2 DEF Listed
      <4>2. Listed(n) => Listed(n)'
        BY <1>2, <2>2 DEF Listed
      <4>3. n = name => Listed(n)'
        BY <1>2, <2>2 DEF Listed
      <4> QED BY <4>1, <4>2, <4>3
    <3>2. proxies = inited /\ \A n \in Names : n \in inited <=> Listed(n)
      BY <1>1, <1>2 DEF IInv, Accounted
    <3>3. \A n \in Names : n \in inited' <=> Listed(n)'
      BY <2>1, <3>1, <3>2
    <3> QED BY <1>1, <1>6, <2>1, <3>2, <3>3 DEF Accounted
  <2> QED BY <1>7, <2>3, <2>4, <2>5, <2>6 DEF IInv
<1> QED BY <1>8, <1>9

LEMMA StartInv == IInv /\ (UiMissing \/ StartUI) => IInv'
<1> SUFFICES ASSUME IInv, UiMissing \/ StartUI PROVE IInv'
  OBVIOUS
<1>1. main = "activating" /\ tried = 4 /\ ~handling /\ repl = "none" /\ deleted = {}
  BY UiIsName DEF IInv, Starting, UiMissing, StartUI
<1>2. Tried = Names
  BY <1>1, UiIsName DEF Tried, Names
<1>3. present \subseteq inited
  BY <1>1, <1>2 DEF IInv, Starting, TypeOK
<1>4. CASE UiMissing
  <2>1. TypeOK'
    BY <1>1, <1>4 DEF IInv, TypeOK, UiMissing, objects, console, Ended
  <2>2. Starting' /\ UiLast'
    BY <1>4 DEF IInv, Starting, UiLast, UiMissing, objects
  <2>3. Accounted'
    BY <1>1, <1>4 DEF IInv, Accounted, Listed, UiMissing, objects
  <2>4. Emptied' /\ Attended' /\ SinkLive'
    BY <1>1, <1>4 DEF IInv, Emptied, Attended, SinkLive, Working, UiMissing, objects, console, Ended
  <2> QED BY <2>1, <2>2, <2>3, <2>4 DEF IInv
<1>5. CASE StartUI
  <2>1. TypeOK'
    BY <1>1, <1>5 DEF IInv, TypeOK, StartUI
  <2>2. Starting' /\ UiLast'
    BY <1>5 DEF IInv, Starting, UiLast, StartUI
  <2>3. Accounted'
    BY <1>1, <1>5 DEF IInv, Accounted, Listed, StartUI
  <2>4. Emptied' /\ SinkLive'
    BY <1>1, <1>5 DEF IInv, Emptied, SinkLive, StartUI
  <2>5. Attended'
    BY <1>1, <1>3, <1>5 DEF Attended, StartUI
  <2> QED BY <2>1, <2>2, <2>3, <2>4, <2>5 DEF IInv
<1> QED BY <1>4, <1>5

-----------------------------------------------------------------------------
(* The shutdown *)

\* What is left when the plugin activated last is taken out.
LEMMA TakenOutFacts ==
  ASSUME IInv, order # <<>>, TakenOut
  PROVE  /\ order' \in Seq(Names) /\ Len(order') = Len(order) - 1
         /\ Len(order) \in Nat /\ Len(order) > 0 /\ NextDown \in Names
         /\ \A i \in 1 .. Len(order') : order'[i] = order[i]
         /\ \A i, j \in 1 .. Len(order') : order'[i] = order'[j] => i = j
         /\ \A name \in Names : Listed(name)' <=> Listed(name) /\ name # NextDown
         /\ \A i \in 1 .. Len(order') : order'[i] # Ui
<1>1. order \in Seq(Names) /\ Len(order) \in Nat /\ Len(order) > 0
  BY EmptySeq DEF IInv, TypeOK
<1>2. /\ order' \in Seq(Names) /\ Len(order') = Len(order) - 1
      /\ \A i \in 1 .. Len(order') : order'[i] = order[i]
  <2>1. 1 \in 1 .. Len(order) + 1 /\ Len(order) - 1 \in 1 - 1 .. Len(order)
    BY <1>1
  <2>2. \A i \in 1 .. Len(order) : order[i] \in Names
    BY <1>1, ElementOfSeq
  <2>3. Len(SubSeq(order, 1, Len(order) - 1)) = Len(order) - 1
    BY <1>1, <2>1, SubSeqProperties
  <2>4. \A i \in 1 .. Len(order) - 1 : SubSeq(order, 1, Len(order) - 1)[i] = order[i]
    BY <1>1, <2>1, SubSeqProperties
  <2>5. SubSeq(order, 1, Len(order) - 1) \in Seq(Names)
    BY <1>1, <2>1, SubSeqProperties
  <2> QED BY <2>3, <2>4, <2>5 DEF TakenOut
<1>3. NextDown \in Names
  BY <1>1, ElementOfSeq DEF NextDown
<1>4. \A i, j \in 1 .. Len(order) : order[i] = order[j] => i = j
  BY DEF IInv, TypeOK
<1>5. \A i, j \in 1 .. Len(order') : order'[i] = order'[j] => i = j
  BY <1>1, <1>2, <1>4
<1>6. \A i \in 1 .. Len(order') : order'[i] # Ui
  BY <1>1, <1>2 DEF IInv, UiLast
<1>7. ASSUME NEW name \in Names
      PROVE  Listed(name)' <=> Listed(name) /\ name # NextDown
  <2>1. Listed(name)' => Listed(name) /\ name # NextDown
    BY <1>1, <1>2, <1>4 DEF Listed, NextDown
  <2>2. ASSUME Listed(name), name # NextDown PROVE Listed(name)'
    <3>1. PICK i \in 1 .. Len(order) : order[i] = name
      BY <2>2 DEF Listed
    <3>2. i # Len(order)
      BY <2>2, <3>1 DEF NextDown
    <3>3. i \in 1 .. Len(order') /\ order'[i] = name
      BY <1>1, <1>2, <3>1, <3>2
    <3> QED BY <3>3 DEF Listed
  <2> QED BY <2>1, <2>2
<1> QED BY <1>1, <1>2, <1>3, <1>5, <1>6, <1>7

LEMMA ClearSinkInv == IInv /\ ClearSink => IInv'
<1> SUFFICES ASSUME IInv, ClearSink PROVE IInv'
  OBVIOUS
<1>1. TypeOK'
  BY DEF IInv, TypeOK, ClearSink, console
<1>2. Starting' /\ UiLast' /\ SinkLive'
  BY DEF IInv, Starting, UiLast, SinkLive, ClearSink
<1>3. Accounted'
  BY DEF IInv, Accounted, Listed, ClearSink
<1>4. Emptied'
  BY DEF IInv, Emptied, ClearSink, Ended
<1>5. Attended'
  BY DEF IInv, Attended, Working, ClearSink, console, Ended
<1> QED BY <1>1, <1>2, <1>3, <1>4, <1>5 DEF IInv

\* A storage plugin goes only when the console went before it.
LEMMA DeactivateInv == IInv /\ DeactivateStorage => IInv'
<1> SUFFICES ASSUME IInv, DeactivateStorage PROVE IInv'
  OBVIOUS
<1>1. order # <<>> /\ TakenOut /\ NextDown # Ui /\ main = "deactivating"
  BY DEF DeactivateStorage
<1>2. /\ UNCHANGED <<present, main, tried, sink, deleted, handling, repl, stdin>>
      /\ UNCHANGED <<exitAsked, posted, signal>>
      /\ inited' = inited \ {NextDown} /\ proxies' = proxies \ {NextDown}
  BY DEF DeactivateStorage, Deinited, console
<1>3. TypeOK'
  <2>1. inited' \subseteq Names /\ proxies' \subseteq Names
    BY <1>2 DEF IInv, TypeOK
  <2>2. order' \in Seq(Names) /\ \A i, j \in 1 .. Len(order') : order'[i] = order'[j] => i = j
    BY <1>1, TakenOutFacts
  <2> QED BY <1>2, <2>1, <2>2 DEF IInv, TypeOK
<1>4. Starting'
  BY <1>1, <1>2 DEF Starting
<1>5. UiLast'
  BY <1>1, TakenOutFacts DEF UiLast
<1>6. Accounted'
  <2>1. \A name \in Names : Listed(name)' <=> Listed(name) /\ name # NextDown
    BY <1>1, TakenOutFacts
  <2>2. ~handling => /\ proxies' = inited'
                     /\ \A name \in Names : name \in inited' <=> Listed(name)'
    BY <1>1, <1>2, <2>1 DEF IInv, Accounted
  <2> QED BY <1>1, <1>2, <2>2 DEF Accounted
<1>7. Emptied'
  BY <1>1, <1>2 DEF IInv, Emptied, Ended
<1>8. Attended'
  <2>1. ~handling => Ui \notin inited
    <3>1. ~Listed(Ui)
      BY <1>1, EmptySeq DEF IInv, UiLast, Listed, NextDown, TypeOK
    <3> QED BY <1>1, <3>1, UiIsName DEF IInv, Accounted
  <2>2. Ui \in inited => Ui \in inited'
    BY <1>1, <1>2
  <2> QED BY <1>2, <2>1, <2>2 DEF IInv, Attended, Working
<1>9. SinkLive'
  BY <1>1, <1>2 DEF IInv, SinkLive
<1> QED BY <1>3, <1>4, <1>5, <1>6, <1>7, <1>8, <1>9 DEF IInv

LEMMA StopUIInv == IInv /\ StopUI => IInv'
<1> SUFFICES ASSUME IInv, StopUI PROVE IInv'
  OBVIOUS
<1>1. order # <<>> /\ TakenOut /\ NextDown = Ui /\ main = "deactivating" /\ main' = "joining"
  BY DEF StopUI
<1>2. /\ UNCHANGED <<present, tried, inited, proxies, sink, deleted, handling, repl, stdin>>
      /\ UNCHANGED <<exitAsked, posted, signal>>
  BY DEF StopUI, console
<1>3. order' \in Seq(Names) /\ \A i, j \in 1 .. Len(order') : order'[i] = order'[j] => i = j
  BY <1>1, TakenOutFacts
<1>4. TypeOK'
  BY <1>1, <1>2, <1>3 DEF IInv, TypeOK
<1>5. Starting'
  BY <1>1 DEF Starting
<1>6. UiLast'
  BY <1>1, TakenOutFacts DEF UiLast
<1>7. Accounted'
  <2>1. \A name \in Names : Listed(name)' <=> Listed(name) /\ name # Ui
    BY <1>1, TakenOutFacts
  <2>2. Listed(Ui)
    BY <1>1, TakenOutFacts DEF Listed, NextDown
  <2>3. ~handling => /\ proxies' = inited'
                     /\ \A name \in Names : name \in inited' <=> Listed(name)' \/ name = Ui
    BY <1>1, <1>2, <2>1, <2>2 DEF IInv, Accounted
  <2>4. ~Listed(Ui)'
    BY <2>1, UiIsName
  <2> QED BY <1>1, <1>2, <2>3, <2>4 DEF Accounted
<1>8. Emptied'
  <2>1. "core" \in deleted => handling
    BY <1>1 DEF IInv, Emptied, Ended
  <2> QED BY <1>1, <1>2, <2>1 DEF IInv, Emptied, Ended
<1>9. Attended'
  BY <1>1, <1>2 DEF IInv, Attended, Working, Ended
<1>10. SinkLive'
  BY <1>1, <1>2 DEF IInv, SinkLive
<1> QED BY <1>4, <1>5, <1>6, <1>7, <1>8, <1>9, <1>10 DEF IInv

LEMMA JoinedInv == IInv /\ Joined => IInv'
<1> SUFFICES ASSUME IInv, Joined PROVE IInv'
  OBVIOUS
<1>1. /\ main = "joining" /\ main' = "deactivating" /\ ~Working
      /\ inited' = inited \ {Ui} /\ proxies' = proxies \ {Ui}
      /\ UNCHANGED <<present, tried, order, sink, deleted, handling, repl, stdin>>
      /\ UNCHANGED <<exitAsked, posted, signal>>
  BY DEF Joined, Deinited, Working, console
<1>2. TypeOK'
  BY <1>1 DEF IInv, TypeOK
<1>3. Starting' /\ UiLast'
  BY <1>1 DEF IInv, Starting, UiLast
<1>4. Emptied' /\ SinkLive' /\ Attended'
  BY <1>1 DEF IInv, Emptied, SinkLive, Attended, Working, Ended
<1>5. Accounted'
  <2>1. \A name \in Names : Listed(name)' <=> Listed(name)
    BY <1>1 DEF Listed
  <2>2. ~handling => /\ proxies' = inited'
                     /\ \A name \in Names : name \in inited' <=> Listed(name)'
    BY <1>1, <2>1 DEF IInv, Accounted
  <2> QED BY <1>1, <2>2 DEF Accounted
<1> QED BY <1>1, <1>2, <1>3, <1>4, <1>5 DEF IInv

LEMMA ClosingInv == IInv /\ (AllDown \/ CloseProfile) => IInv'
<1> SUFFICES ASSUME IInv, AllDown \/ CloseProfile PROVE IInv'
  OBVIOUS
<1>1. /\ UNCHANGED <<objects, console>> /\ main' \in {"closing", "destroying"}
      /\ main \in {"deactivating", "closing"} /\ (main = "deactivating" => order = <<>>)
  BY DEF AllDown, CloseProfile
<1>2. TypeOK'
  BY <1>1 DEF IInv, TypeOK, objects, console
<1>3. Starting' /\ UiLast' /\ SinkLive'
  BY <1>1 DEF IInv, Starting, UiLast, SinkLive, objects
<1>4. Accounted'
  BY <1>1 DEF IInv, Accounted, Listed, objects
<1>5. Emptied'
  BY <1>1 DEF IInv, Emptied, objects, Ended
<1>6. Attended'
  BY <1>1 DEF IInv, Attended, Working, objects, console, Ended
<1> QED BY <1>2, <1>3, <1>4, <1>5, <1>6 DEF IInv

LEMMA DestroyInv == IInv /\ (DestroyCore \/ DestroyPlugins \/ Return) => IInv'
<1> SUFFICES ASSUME IInv, DestroyCore \/ DestroyPlugins \/ Return PROVE IInv'
  OBVIOUS
<1>1. /\ UNCHANGED <<present, tried, order, inited, sink, handling, repl, stdin>>
      /\ UNCHANGED <<exitAsked, posted, signal>>
      /\ main \in {"destroying", "destroyed", "finished"}
      /\ main' \in {"destroyed", "finished", "returned"}
      /\ main' \in {"destroyed", "finished"} \/ main' \in Ended
      /\ proxies' = proxies \/ proxies' = {}
      /\ deleted' \subseteq deleted \cup Singletons
  BY DEF DestroyCore, DestroyPlugins, Return, console, Ended, Singletons
<1>2. ~handling => order = <<>> /\ \A name \in Names : ~Listed(name)
  BY <1>1 DEF IInv, Emptied, Listed
<1>3. ~handling => inited = {} /\ proxies = {}
  BY <1>1, <1>2 DEF IInv, Accounted, TypeOK
<1>4. TypeOK'
  BY <1>1 DEF IInv, TypeOK, Singletons, Ended
<1>5. Starting' /\ UiLast' /\ SinkLive'
  BY <1>1 DEF IInv, Starting, UiLast, SinkLive, Ended
<1>6. Accounted'
  BY <1>1, <1>2, <1>3 DEF Accounted, Listed, Ended
<1>7. Emptied'
  BY <1>1, <1>2 DEF IInv, Emptied, Ended
<1>8. Attended'
  BY <1>1, <1>3, UiIsName DEF IInv, Attended, Working, Ended
<1> QED BY <1>4, <1>5, <1>6, <1>7, <1>8 DEF IInv

\* An exception ends what the main thread was at; what it leaves behind is
\* promised nothing but the console's plugin and the sink.
LEMMA ThrowsInv == IInv /\ MainThrows => IInv'
<1> SUFFICES ASSUME IInv, MainThrows PROVE IInv'
  OBVIOUS
<1>1. /\ UNCHANGED <<present, tried, inited, proxies, sink, repl, stdin>>
      /\ UNCHANGED <<exitAsked, posted, signal>>
      /\ handling' /\ handling' = TRUE /\ main' \in {"returned", "quitting", "killed"}
      /\ deleted' = deleted \cup {"app"}
  BY DEF MainThrows, console
<1>2. order' = order \/ (order # <<>> /\ TakenOut)
  BY DEF MainThrows
<1>3. order' \in Seq(Names) /\ \A i, j \in 1 .. Len(order') : order'[i] = order'[j] => i = j
  BY <1>2, TakenOutFacts DEF IInv, TypeOK
<1>4. TypeOK'
  BY <1>1, <1>3 DEF IInv, TypeOK, Singletons, Ended
<1>5. UiLast'
  BY <1>2, TakenOutFacts DEF IInv, UiLast
<1>6. Starting' /\ Accounted' /\ Emptied' /\ SinkLive'
  BY <1>1 DEF IInv, Starting, Accounted, Emptied, SinkLive
<1>7. Attended'
  BY <1>1 DEF IInv, Attended, Working
<1> QED BY <1>4, <1>5, <1>6, <1>7 DEF IInv

LEMMA InterruptInv == IInv /\ Interrupt => IInv'
<1> SUFFICES ASSUME IInv, Interrupt PROVE IInv'
  OBVIOUS
<1>1. UNCHANGED <<objects, repl, stdin, exitAsked, posted>>
  BY DEF Interrupt
<1>2. CASE UNCHANGED main
  BY <1>1, <1>2, ConsoleInv DEF Interrupt, IInv, TypeOK, Working
<1>3. CASE main \in {"activating", "started"} /\ main' = "killed" /\ signal' = signal
  <2>1. TypeOK'
    BY <1>1, <1>3 DEF IInv, TypeOK, objects, Ended
  <2>2. Starting' /\ UiLast' /\ SinkLive'
    BY <1>1, <1>3 DEF IInv, Starting, UiLast, SinkLive, objects
  <2>3. Accounted'
    BY <1>1, <1>3 DEF IInv, Accounted, Listed, objects
  <2>4. Emptied' /\ Attended'
    BY <1>1, <1>3 DEF IInv, Emptied, Attended, Working, objects, Ended
  <2> QED BY <2>1, <2>2, <2>3, <2>4 DEF IInv
<1> QED BY <1>2, <1>3 DEF Interrupt

LEMMA StepInv == IInv /\ [Next]_vars => IInv'
<1> SUFFICES ASSUME IInv, [Next]_vars PROVE IInv'
  OBVIOUS
<1>1. CASE MainStep
  <2>1. CASE InstallHandler \/ EnterExec \/ LoopEnds
    BY <2>1, MoveInv DEF InstallHandler, EnterExec, LoopEnds
  <2> QED BY <1>1, <2>1, ActivateInv, StartInv, ClearSinkInv, DeactivateInv, StopUIInv,
             JoinedInv, ClosingInv, DestroyInv DEF MainStep
<1>2. CASE MainThrows
  BY <1>2, ThrowsInv
<1>3. CASE ReadCommand \/ ReadExit \/ EndLog \/ BeginLog \/ EndCommand
  <2>1. /\ UNCHANGED <<objects, main, stdin, exitAsked, posted, signal>>
        /\ repl \in {"prompt", "command", "logging"}
        /\ repl' \in {"prompt", "command", "logging", "exiting"}
    BY <1>3 DEF ReadCommand, ReadExit, EndLog, BeginLog, EndCommand, ReplMoves
  <2> QED BY <2>1, ConsoleInv DEF IInv, TypeOK, Working
<1>4. CASE AskExit
  BY <1>4, ConsoleInv DEF AskExit, IInv, TypeOK, Working
<1>5. CASE ReplThrows
  BY <1>5, ConsoleInv DEF ReplThrows, IInv, TypeOK, Working
<1>6. CASE CloseStdin
  BY <1>6, ConsoleInv DEF CloseStdin, IInv, TypeOK, Working
<1>7. CASE Interrupt
  BY <1>7, InterruptInv
<1>8. CASE UNCHANGED vars
  BY <1>8, ConsoleInv DEF vars, objects, IInv, TypeOK, Working
<1> QED BY <1>1, <1>2, <1>3, <1>4, <1>5, <1>6, <1>7, <1>8 DEF Next, ReplStep, Over

-----------------------------------------------------------------------------
\* The inductive invariant holds from start to end (main.cpp).
THEOREM InvHolds == Spec => []IInv
BY InitInv, StepInv, PTL DEF Spec

\* The lifecycle keeps its types (TypeOK).
THEOREM TypesHold == Spec => []TypeOK
<1>1. IInv => TypeOK
  BY DEF IInv
<1> QED BY <1>1, InvHolds, PTL

\* While the console thread works, what its commands reach is there, unless an
\* exception put the main thread into its handler (runShutdown, stopUI).
THEOREM ConsoleOnLiveObjects == Spec => []ReplOnLiveObjects
<1>1. IInv => ReplOnLiveObjects
  <2> SUFFICES ASSUME IInv, Working, main \notin Ended, ~handling
               PROVE  Ui \in proxies /\ present \subseteq inited /\ deleted = {}
    BY DEF ReplOnLiveObjects, Working
  <2>1. Ui \in inited /\ present \subseteq inited /\ proxies = inited
    BY DEF IInv, Attended, Accounted
  <2>2. main \notin {"destroyed", "finished"}
    BY <2>1, UiIsName DEF IInv, Emptied, Accounted, Listed
  <2>3. deleted = {}
    BY <2>2 DEF IInv, Emptied
  <2> QED BY <2>1, <2>3
<1> QED BY <1>1, InvHolds, PTL

\* Core is deleted after every plugin was deinitialised (runShutdown).
THEOREM CoreGoesLast == Spec => []DeinitBeforeDestroy
<1>1. IInv => DeinitBeforeDestroy
  <2> SUFFICES ASSUME IInv, "core" \in deleted, ~handling PROVE inited = {} /\ proxies = {}
    BY DEF DeinitBeforeDestroy
  <2>1. order = <<>> /\ main # "joining"
    BY DEF IInv, Emptied
  <2>2. \A name \in Names : name \notin inited
    BY <2>1 DEF IInv, Accounted, Listed
  <2> QED BY <2>2 DEF IInv, Accounted, TypeOK
<1> QED BY <1>1, InvHolds, PTL

\* No log line reaches a console plugin that was deinitialised, whatever is
\* thrown (runShutdown, Log::output).
THEOREM LogsReachLivePlugin == Spec => []LogOnLivePlugin
<1>1. IInv => LogOnLivePlugin
  BY DEF IInv, SinkLive, Attended, Working, LogOnLivePlugin
<1> QED BY <1>1, InvHolds, PTL
=============================================================================
