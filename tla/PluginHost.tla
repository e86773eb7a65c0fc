----------------------------- MODULE PluginHost -----------------------------
(***************************************************************************)
(* The plugin registry of src/src/plugins.cpp: plugins found in            *)
(* directories, activated per interface with a Core proxy of their own,    *)
(* and taken down in the reverse order.  Plugins are known by name, their  *)
(* objects by the library they came from: one name may be found twice, in  *)
(* two of the directories searched.                                        *)
(*                                                                         *)
(* settingChanged is left out: nothing is connected to it, and its table   *)
(* of interfaces stays empty, for settingActiveInterface is never called.  *)
(***************************************************************************)
EXTENDS CoreAccess, FiniteSets, Sequences, Integers

CONSTANTS
  Objects,     \* plugin objects, one for each library found
  Names,       \* what name() answers
  Interfaces,  \* interface ids
  NameOf,      \* the name of each object
  Offers,      \* the interfaces each object has
  Declares,    \* requiredPermissions() of each object
  Methods,     \* the calls of Core plugins make
  None         \* no object, no proxy, no call yet

ASSUME PluginsAssumption ==
  /\ NameOf \in [Objects -> Names]
  /\ Offers \in [Objects -> SUBSET Interfaces]
  /\ Declares \in [Objects -> SUBSET Permissions]
  /\ Methods \subseteq DOMAIN Gate
  /\ None \notin Objects /\ \A o \in Objects : Declares[o] # None

VARIABLES
  phase,    \* "loading" the libraries, "up", "stopping" or "down"
  seen,     \* objects the loader has been asked for
  plugins,  \* m_plugins: per name and interface an object, or None
  wanted,   \* names whose setting is on and known by settingActivePlugin
  active,   \* m_plugins_active: pairs of an interface and an object
  order,    \* m_activation_order: pairs of a name and an interface
  at,       \* index of the shutdown loop
  proxies,  \* m_proxies: per name the permissions its proxy was made for, or None
  inited,   \* objects between init() and deinit()
  last      \* the latest call of Core a plugin tried, or None

vars == <<phase, seen, plugins, wanted, active, order, at, proxies, inited, last>>

-----------------------------------------------------------------------------
Init ==
  /\ phase = "loading" /\ seen = {}
  /\ plugins = [n \in Names |-> [i \in Interfaces |-> None]]
  /\ wanted = {} /\ active = {} /\ order = <<>> /\ at = 0
  /\ proxies = [n \in Names |-> None]
  /\ inited = {} /\ last = None

\* Mutant: the name kept for the object.
MutLoad(o) ==
  /\ phase = "loading"
  /\ o \notin seen
  /\ seen' = seen \cup {o}
  /\ plugins' = [plugins EXCEPT ![NameOf[o]] =
       [i \in Interfaces |-> IF i \in Offers[o] /\ @[i] = None THEN NameOf[o] ELSE @[i]]]
  /\ UNCHANGED <<phase, wanted, active, order, at, proxies, inited, last>>
\* refreshPluginsList, for one library: addPlugin keeps what was there first.
\* An object that is needed for nothing is unloaded again.
Load(o) ==
  /\ phase = "loading"
  /\ o \notin seen
  /\ seen' = seen \cup {o}
  /\ plugins' = [plugins EXCEPT ![NameOf[o]] =
       [i \in Interfaces |-> IF i \in Offers[o] /\ @[i] = None THEN o ELSE @[i]]]
  /\ UNCHANGED <<phase, wanted, active, order, at, proxies, inited, last>>

\* The constructor returns; libraries may have failed to load.
Loaded ==
  /\ phase = "loading"
  /\ phase' = "up"
  /\ UNCHANGED <<seen, plugins, wanted, active, order, at, proxies, inited, last>>

settingActivePlugin(n) ==
  /\ phase = "up"
  /\ wanted' = wanted \cup {n}
  /\ UNCHANGED <<phase, seen, plugins, active, order, at, proxies, inited, last>>

\* activateInterface.  What init() answers is not looked at.
activateInterface(n, i, initDone) ==
  /\ phase = "up"
  /\ n \in wanted
  /\ LET o == plugins[n][i]
     IN  /\ o # None
         /\ proxies' = [proxies EXCEPT ![n] = IF @ = None THEN Declares[o] ELSE @]
         /\ inited' = IF initDone THEN inited \cup {o} ELSE inited
         /\ active' = active \cup {<<i, o>>}
         /\ order' = IF <<i, o>> \in active THEN order ELSE Append(order, <<n, i>>)
  /\ UNCHANGED <<phase, seen, plugins, wanted, at, last>>

\* A plugin calls Core through its proxy.
Call(o, m) ==
  /\ o \in inited
  /\ proxies[NameOf[o]] # None
  /\ last' = [by |-> o, method |-> m, passed |-> check(proxies[NameOf[o]], m)]
  /\ UNCHANGED <<phase, seen, plugins, wanted, active, order, at, proxies, inited>>

\* Mutant: the first one activated is left out.
MutShutdown ==
  /\ phase = "up"
  /\ phase' = "stopping"
  /\ at' = IF order = <<>> THEN 0 ELSE Len(order) - 1
  /\ UNCHANGED <<seen, plugins, wanted, active, order, proxies, inited, last>>
\* shutdownAllPluginsInReverseOrder begins.
Shutdown ==
  /\ phase = "up"
  /\ phase' = "stopping"
  /\ at' = Len(order)
  /\ UNCHANGED <<seen, plugins, wanted, active, order, proxies, inited, last>>

\* The last entry of the pair in the activation order, 0 if there is none.
Entry(n, i) ==
  LET found == {k \in 1..Len(order) : order[k] = <<n, i>>}
  IN  IF found = {} THEN 0 ELSE CHOOSE k \in found : \A j \in found : j <= k
Without(k) ==
  IF k = 0 THEN order ELSE SubSeq(order, 1, k - 1) \o SubSeq(order, k + 1, Len(order))

\* deactivateInterface: deinit() and the end of the proxy once the object has no
\* interface active any more.  Called for entries of the activation order, which
\* are always active: the return for what is not is never taken.
\* Mutant: deinit() and the end of the proxy with the first interface.
MutDeactivateInterface(n, i) ==
  LET o == plugins[n][i]
      left == active \ {<<i, o>>}
  IN  /\ active' = left
      /\ order' = Without(Entry(n, i))
      /\ inited' = inited
      /\ proxies' = [proxies EXCEPT ![n] = None]
deactivateInterface(n, i) ==
  LET o == plugins[n][i]
      left == active \ {<<i, o>>}
      done == \A j \in Interfaces : <<j, o>> \notin left
  IN  /\ active' = left
      /\ order' = Without(Entry(n, i))
      /\ inited' = IF done THEN inited \ {o} ELSE inited
      /\ proxies' = [proxies EXCEPT ![n] = IF done THEN None ELSE @]

\* One round of the loop: the order shrinks below the index.
\* Mutant: the loop runs upwards.
MutStopNext ==
  /\ phase = "stopping" /\ at > 0
  /\ LET k == IF Len(order) - at + 1 \in 1..Len(order) THEN Len(order) - at + 1 ELSE Len(order)
     IN  deactivateInterface(order[k][1], order[k][2])
  /\ at' = at - 1
  /\ UNCHANGED <<phase, seen, plugins, wanted, last>>
StopNext ==
  /\ phase = "stopping" /\ at > 0
  /\ deactivateInterface(order[at][1], order[at][2])
  /\ at' = at - 1
  /\ UNCHANGED <<phase, seen, plugins, wanted, last>>

Stopped ==
  /\ phase = "stopping" /\ at = 0
  /\ phase' = "down"
  /\ UNCHANGED <<seen, plugins, wanted, active, order, at, proxies, inited, last>>

Next ==
  \/ \E o \in Objects : Load(o)
  \/ Loaded
  \/ \E n \in Names : settingActivePlugin(n)
  \/ \E n \in Names, i \in Interfaces, initDone \in BOOLEAN : activateInterface(n, i, initDone)
  \/ \E o \in Objects, m \in Methods : Call(o, m)
  \/ Shutdown \/ StopNext \/ Stopped

Spec == Init /\ [][Next]_vars

-----------------------------------------------------------------------------
(* Properties *)

TypeOK ==
  /\ phase \in {"loading", "up", "stopping", "down"}
  /\ seen \subseteq Objects
  /\ plugins \in [Names -> [Interfaces -> Objects \cup {None}]]
  /\ wanted \subseteq Names
  /\ active \subseteq Interfaces \X Objects
  /\ order \in Seq(Names \X Interfaces)
  /\ at \in Nat
  /\ proxies \in [Names -> {None} \cup SUBSET Permissions]
  /\ inited \subseteq Objects
  /\ last \in {None} \cup [by : Objects, method : Methods, passed : BOOLEAN]

\* What a name stands for: more than one object, if libraries of one name offer
\* different interfaces.
Registered(n) == {plugins[n][i] : i \in Interfaces} \ {None}
InUse(o) == o \in inited \/ \E i \in Interfaces : <<i, o>> \in active

\* No plugin that is initialised or active is left with a proxy that was deleted
\* ("Destroy the permission proxy once all interfaces are deactivated").
CoreReachable == \A o \in Objects : InUse(o) => proxies[NameOf[o]] # None

\* What holds of it, for deactivateInterface takes the proxy by name: until the
\* shutdown every plugin in use has its proxy, and in the shutdown every plugin
\* that is alone under its name keeps it to its own deinit().
ProxyKept ==
  \A o \in Objects :
    InUse(o) /\ (phase = "up" \/ Registered(NameOf[o]) = {o}) => proxies[NameOf[o]] # None

\* The loop over the activation order, which shrinks while it runs and whose
\* entries are found by name again, leaves nothing active, initialised or with a
\* proxy behind.
ShutdownComplete == phase = "down" => active = {} /\ inited = {} /\ order = <<>>
                      /\ \A n \in Names : proxies[n] = None

\* "Deactivate in reverse order so UI and dependent plugins shut down first":
\* whatever of the activation order is taken away is its end.
LastInFirstOut ==
  [][Len(order') < Len(order) => order' = SubSeq(order, 1, Len(order) - 1)]_vars

\* A plugin declares the flag of a call, its Write, or a flag of the same bit.
DeclaredBy(o, m) ==
  LET bits == {Bit[p] : p \in Declares[o]}
      needed == Bit[Gate[m]]
  IN  needed \in bits \/ \E w \in bits \cap DOMAIN GeneratedImplied : GeneratedImplied[w] = needed

\* A call is passed on only for a plugin that declared it ("a per-plugin
\* CoreAccessProxy is created whose permission mask matches the flags returned by
\* PluginInterface::requiredPermissions()").
CallsOwnDeclared == last # None /\ last.passed => DeclaredBy(last.by, last.method)

\* What holds of it, for the proxy is found by name and was made for the first
\* object activated: some object of the caller's name declared the call, the
\* caller itself where it is alone under its name.
CallsDeclared ==
  last # None /\ last.passed =>
    \E o \in Registered(NameOf[last.by]) : DeclaredBy(o, last.method)
=============================================================================
