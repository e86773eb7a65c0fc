-------------------------- MODULE PluginHostProofs --------------------------
(* Proofs about PluginHost, for any libraries, any names they answer, several *)
(* of one name among them, any interfaces and any permissions declared.       *)
EXTENDS PluginHost, SequenceTheorems, TLAPS

Pairs == Names \X Interfaces
OwnerOf(pair) == plugins[pair[1]][pair[2]]

\* What is registered under a name answers that name.
Registry ==
  \A n \in Names, i \in Interfaces :
    plugins[n][i] # None => NameOf[plugins[n][i]] = n

\* What is active is in the registry and has one entry of the order.
ActiveKnown ==
  \A i \in Interfaces, o \in Objects :
    <<i, o>> \in active =>
      /\ plugins[NameOf[o]][i] = o
      /\ \E k \in 1..Len(order) : order[k] = <<NameOf[o], i>>
OrderActive ==
  \A k \in 1..Len(order) :
    OwnerOf(order[k]) # None /\ <<order[k][2], OwnerOf(order[k])>> \in active
OrderUnique == \A k, l \in 1..Len(order) : order[k] = order[l] => k = l

\* init() comes with an active interface, and so does a proxy.
InitedActive == \A o \in inited : \E i \in Interfaces : <<i, o>> \in active
ProxyUsed ==
  \A n \in Names : proxies[n] # None => \E i \in Interfaces, o \in Objects : <<i, o>> \in active /\ NameOf[o] = n
\* What is active has a proxy, unless the shutdown took it for another object of
\* the name.
Proxied ==
  \A i \in Interfaces, o \in Objects :
    /\ <<i, o>> \in active
    /\ phase \in {"loading", "up"} \/ Registered(NameOf[o]) = {o}
    => proxies[NameOf[o]] # None
\* A proxy is made for what an object of the name declares.
ProxyDeclared ==
  \A n \in Names :
    proxies[n] # None => \E o \in Registered(n) : proxies[n] = Declares[o]

PhaseOK ==
  /\ phase = "loading" => active = {} /\ order = <<>> /\ last = None
  /\ phase \in {"stopping", "down"} => at = Len(order)
  /\ phase = "down" => at = 0

CallOK ==
  last # None /\ last.passed =>
    \E o \in Registered(NameOf[last.by]) : check(Declares[o], last.method)

Known == Registry /\ ActiveKnown /\ OrderActive /\ OrderUnique
Served == InitedActive /\ ProxyUsed /\ Proxied /\ ProxyDeclared
IInv == TypeOK /\ Known /\ Served /\ PhaseOK /\ CallOK

USE PluginsAssumption

-----------------------------------------------------------------------------
LEMMA InitInv == Init => IInv
<1> SUFFICES ASSUME Init PROVE IInv
  OBVIOUS
<1>1. TypeOK
  BY DEF Init, TypeOK
<1>2. Known
  BY DEF Init, Known, Registry, ActiveKnown, OrderActive, OrderUnique
<1>3. Served
  BY DEF Init, Served, InitedActive, ProxyUsed, Proxied, ProxyDeclared
<1>4. PhaseOK /\ CallOK
  BY DEF Init, PhaseOK, CallOK
<1> QED BY <1>1, <1>2, <1>3, <1>4 DEF IInv

-----------------------------------------------------------------------------
(* Steps *)

\* While libraries are loaded nothing is active.
LEMMA LoadInv ==
  ASSUME IInv, NEW o \in Objects, Load(o) PROVE IInv'
<1>1. active = {} /\ order = <<>> /\ inited = {} /\ \A n \in Names : proxies[n] = None
  BY DEF IInv, PhaseOK, Load, Served, InitedActive, ProxyUsed
<1>2. active' = {} /\ order' = <<>> /\ inited' = {} /\ \A n \in Names : proxies'[n] = None
  BY <1>1 DEF Load
<1> DEFINE n == NameOf[o]
<1>3. n \in Names
  OBVIOUS
<1>4. TypeOK'
  BY DEF IInv, TypeOK, Load
<1>5. Registry'
  <2> SUFFICES ASSUME NEW m \in Names, NEW i \in Interfaces, plugins'[m][i] # None
               PROVE  NameOf[plugins'[m][i]] = m
    BY DEF Registry
  <2>1. CASE m = n
    <3>1. plugins'[n][i] = o \/ plugins'[n][i] = plugins[n][i]
      BY <1>3 DEF Load, IInv, TypeOK
    <3> QED BY <2>1, <3>1 DEF IInv, Known, Registry
  <2>2. CASE m # n
    <3>1. plugins'[m] = plugins[m]
      BY <2>2 DEF Load, IInv, TypeOK
    <3> QED BY <3>1 DEF IInv, Known, Registry
  <2> QED BY <2>1, <2>2
<1>6. ActiveKnown' /\ OrderActive' /\ OrderUnique'
  BY <1>2 DEF ActiveKnown, OrderActive, OrderUnique
<1>7. Served'
  BY <1>2 DEF Served, InitedActive, ProxyUsed, Proxied, ProxyDeclared
<1>8. PhaseOK' /\ CallOK'
  BY <1>2 DEF Load, IInv, PhaseOK, CallOK
<1> QED BY <1>4, <1>5, <1>6, <1>7, <1>8 DEF IInv, Known

LEMMA SameKnown ==
  ASSUME Known, plugins' = plugins, active' = active, order' = order
  PROVE  Known'
<1>1. Registry'
  BY DEF Known, Registry
<1>2. ActiveKnown'
  <2> SUFFICES ASSUME NEW i \in Interfaces, NEW o \in Objects, <<i, o>> \in active
               PROVE  /\ plugins[NameOf[o]][i] = o
                      /\ \E k \in 1..Len(order) : order[k] = <<NameOf[o], i>>
    BY DEF ActiveKnown
  <2> QED BY DEF Known, ActiveKnown
<1>3. OrderActive'
  BY DEF Known, OrderActive, OwnerOf
<1>4. OrderUnique'
  BY DEF Known, OrderUnique
<1> QED BY <1>1, <1>2, <1>3, <1>4 DEF Known

\* Steps that leave the registry, what is active and the proxies alone.
LEMMA QuietInv ==
  ASSUME IInv, UNCHANGED <<seen, plugins, active, order, proxies, inited>>,
         phase' \in {"loading", "up", "stopping", "down"}, wanted' \subseteq Names, at' \in Nat,
         last' \in {None} \cup [by : Objects, method : Methods, passed : BOOLEAN],
         PhaseOK', CallOK', phase' \in {"loading", "up"} => phase \in {"loading", "up"}
  PROVE  IInv'
<1>1. TypeOK'
  BY DEF IInv, TypeOK
<1>2. Known'
  BY SameKnown DEF IInv
<1>3. InitedActive' /\ ProxyUsed'
  BY DEF IInv, Served, InitedActive, ProxyUsed
<1>4. ProxyDeclared'
  BY DEF IInv, Served, ProxyDeclared, Registered
<1>5. Proxied'
  BY DEF IInv, Served, Proxied, Registered
<1> QED BY <1>1, <1>2, <1>3, <1>4, <1>5 DEF IInv, Served

LEMMA CallInv ==
  ASSUME IInv, NEW o \in Objects, NEW m \in Methods, Call(o, m) PROVE IInv'
<1>1. NameOf[o] \in Names /\ proxies[NameOf[o]] # None /\ UNCHANGED plugins
  BY DEF Call
<1>2. PICK p \in Registered(NameOf[o]) : proxies[NameOf[o]] = Declares[p]
  BY <1>1 DEF IInv, Served, ProxyDeclared
<1> DEFINE passes == check(proxies[NameOf[o]], m)
<1>3. last' = [by |-> o, method |-> m, passed |-> passes]
  BY DEF Call
<1>4. passes = check(Declares[p], m) /\ passes \in BOOLEAN
  BY <1>2 DEF check
<1> HIDE DEF passes
<1>5. last'.by = o /\ last'.method = m /\ last'.passed = passes
  BY <1>3
<1>6. last' \in [by : Objects, method : Methods, passed : BOOLEAN]
  BY <1>3, <1>4
<1>7. CallOK'
  <2>1. p \in Registered(NameOf[o])'
    BY <1>1, <1>2 DEF Registered
  <2> QED BY <1>4, <1>5, <2>1 DEF CallOK, check
<1>8. PhaseOK'
  <2>1. phase # "loading"
    BY DEF Call, IInv, PhaseOK, Served, InitedActive
  <2> QED BY <2>1 DEF Call, IInv, PhaseOK
<1> QED BY <1>6, <1>7, <1>8, QuietInv DEF Call, IInv, TypeOK

LEMMA ActivateInv ==
  ASSUME IInv, NEW n \in Names, NEW i \in Interfaces, NEW initDone \in BOOLEAN,
         activateInterface(n, i, initDone)
  PROVE  IInv'
<1> DEFINE o == plugins[n][i]
<1>1. o \in Objects /\ NameOf[o] = n /\ o \in Registered(n)
  BY DEF activateInterface, IInv, TypeOK, Known, Registry, Registered
<1>2. active' = active \cup {<<i, o>>}
  BY DEF activateInterface
<1>3. order' = IF <<i, o>> \in active THEN order ELSE Append(order, <<n, i>>)
  BY DEF activateInterface
<1>4. proxies' = [proxies EXCEPT ![n] = IF @ = None THEN Declares[o] ELSE @]
  BY DEF activateInterface
<1>5. inited' = IF initDone THEN inited \cup {o} ELSE inited
  BY DEF activateInterface
<1>6. plugins' = plugins /\ phase = "up" /\ UNCHANGED <<phase, seen, wanted, at, last>>
  BY DEF activateInterface
<1>7. order \in Seq(Pairs) /\ <<n, i>> \in Pairs
  BY DEF IInv, TypeOK, Pairs
<1>8. TypeOK'
  <2>1. order' \in Seq(Pairs)
    BY <1>3, <1>7, AppendProperties
  <2>2. active' \subseteq Interfaces \X Objects /\ inited' \subseteq Objects
    BY <1>1, <1>2, <1>5 DEF IInv, TypeOK
  <2>3. proxies' \in [Names -> {None} \cup SUBSET Permissions]
    BY <1>1, <1>4 DEF IInv, TypeOK
  <2> QED BY <1>6, <2>1, <2>2, <2>3 DEF IInv, TypeOK, Pairs
<1>9. proxies'[n] = IF proxies[n] = None THEN Declares[o] ELSE proxies[n]
  BY <1>4 DEF IInv, TypeOK
<1>10. \A m \in Names : m # n => proxies'[m] = proxies[m]
  BY <1>4 DEF IInv, TypeOK
<1>11. proxies'[n] # None
  BY <1>1, <1>9
<1>12. Registry' /\ \A m : Registered(m)' = Registered(m)
  BY <1>6 DEF IInv, Known, Registry, Registered
<1>16. ProxyDeclared'
  <2> SUFFICES ASSUME NEW m \in Names, proxies'[m] # None
               PROVE  \E p \in Registered(m) : proxies'[m] = Declares[p]
    BY <1>12 DEF ProxyDeclared
  <2>1. CASE proxies'[m] = proxies[m]
    BY <2>1 DEF IInv, Served, ProxyDeclared
  <2>2. CASE proxies'[m] # proxies[m]
    BY <1>1, <1>9, <1>10, <2>2
  <2> QED BY <2>1, <2>2
<1>17. CallOK'
  BY <1>6, <1>12 DEF IInv, CallOK
<1> HIDE DEF o
<1>13. \A k \in 1..Len(order) : k \in 1..Len(order') /\ order'[k] = order[k]
  BY <1>3, <1>7, AppendProperties
<1>14. CASE <<i, o>> \in active
  <2>1. active' = active /\ order' = order
    BY <1>2, <1>3, <1>14
  <2>2. proxies[n] # None
    BY <1>1, <1>6, <1>14 DEF IInv, Served, Proxied
  <2>3. proxies' = proxies
    BY <1>4, <2>2 DEF IInv, TypeOK
  <2>4. Known' /\ ProxyUsed' /\ Proxied'
    <3>1. Known'
      BY <1>6, <2>1, SameKnown DEF IInv
    <3>2. ProxyUsed'
      BY <2>1, <2>3 DEF IInv, Served, ProxyUsed
    <3>3. Proxied'
      BY <1>6, <1>12, <2>1, <2>3 DEF IInv, Served, Proxied
    <3> QED BY <3>1, <3>2, <3>3
  <2>5. InitedActive'
    BY <1>5, <1>14, <2>1 DEF IInv, Served, InitedActive
  <2>6. PhaseOK'
    BY <1>6, <2>1 DEF IInv, PhaseOK
  <2> QED BY <1>8, <1>16, <1>17, <2>4, <2>5, <2>6 DEF IInv, Served
<1>15. CASE <<i, o>> \notin active
  <2>1. order' = Append(order, <<n, i>>)
    BY <1>3, <1>15
  <2>2. Len(order') = Len(order) + 1 /\ order'[Len(order) + 1] = <<n, i>> /\ Len(order) \in Nat
    BY <1>7, <2>1, AppendProperties
  <2>3. ActiveKnown'
    <3> SUFFICES ASSUME NEW j \in Interfaces, NEW p \in Objects, <<j, p>> \in active'
                 PROVE  /\ plugins'[NameOf[p]][j] = p
                        /\ \E k \in 1..Len(order') : order'[k] = <<NameOf[p], j>>
      BY DEF ActiveKnown
    <3>1. CASE <<j, p>> \in active
      <4>1. plugins[NameOf[p]][j] = p
        BY <3>1 DEF IInv, Known, ActiveKnown
      <4>2. PICK k \in 1..Len(order) : order[k] = <<NameOf[p], j>>
        BY <3>1 DEF IInv, Known, ActiveKnown
      <4> QED BY <1>6, <1>13, <4>1, <4>2
    <3>2. CASE j = i /\ p = o
      BY <1>1, <1>6, <2>2, <3>2 DEF o
    <3> QED BY <1>2, <3>1, <3>2
  <2>4. ASSUME NEW k \in 1..Len(order'), k # Len(order) + 1 PROVE k \in 1..Len(order)
    BY <2>2, <2>4
  <2>5. OrderActive'
    <3> SUFFICES ASSUME NEW k \in 1..Len(order')
                 PROVE  /\ plugins'[order'[k][1]][order'[k][2]] # None
                        /\ <<order'[k][2], plugins'[order'[k][1]][order'[k][2]]>> \in active'
      BY DEF OrderActive, OwnerOf
    <3>1. CASE k = Len(order) + 1
      BY <1>1, <1>2, <1>6, <2>2, <3>1 DEF o
    <3>2. CASE k # Len(order) + 1
      BY <1>2, <1>6, <1>13, <2>4, <3>2 DEF IInv, Known, OrderActive, OwnerOf
    <3> QED BY <3>1, <3>2
  <2>6. \A k \in 1..Len(order) : order[k] # <<n, i>>
    BY <1>15 DEF IInv, Known, OrderActive, OwnerOf, o
  <2>7. OrderUnique'
    <3> SUFFICES ASSUME NEW k \in 1..Len(order'), NEW l \in 1..Len(order'), order'[k] = order'[l]
                 PROVE  k = l
      BY DEF OrderUnique
    <3>1. CASE k = Len(order) + 1 /\ l # Len(order) + 1
      BY <1>13, <2>2, <2>4, <2>6, <3>1
    <3>2. CASE l = Len(order) + 1 /\ k # Len(order) + 1
      BY <1>13, <2>2, <2>4, <2>6, <3>2
    <3>3. CASE k # Len(order) + 1 /\ l # Len(order) + 1
      BY <1>13, <2>4, <3>3 DEF IInv, Known, OrderUnique
    <3> QED BY <3>1, <3>2, <3>3
  <2>8. InitedActive'
    BY <1>2, <1>5 DEF IInv, Served, InitedActive
  <2>9. ProxyUsed'
    BY <1>1, <1>2, <1>10 DEF IInv, Served, ProxyUsed
  <2>10. Proxied'
    <3> SUFFICES ASSUME NEW j \in Interfaces, NEW p \in Objects, <<j, p>> \in active'
                 PROVE  proxies'[NameOf[p]] # None
      BY DEF Proxied
    <3>1. CASE NameOf[p] = n
      BY <1>11, <3>1
    <3>2. CASE NameOf[p] # n
      BY <1>1, <1>2, <1>6, <1>10, <3>2 DEF IInv, Served, Proxied
    <3> QED BY <3>1, <3>2
  <2>11. PhaseOK'
    BY <1>6 DEF IInv, PhaseOK
  <2> QED BY <1>8, <1>12, <1>16, <1>17, <2>3, <2>5, <2>7, <2>8, <2>9, <2>10, <2>11 DEF IInv, Known, Served
<1> QED BY <1>14, <1>15

-----------------------------------------------------------------------------
(* The shutdown *)

\* Entries being unique, the one found by name is the one the loop is at.
LEMMA LastEntry ==
  ASSUME IInv, Len(order) > 0
  PROVE  Without(Entry(order[Len(order)][1], order[Len(order)][2])) = SubSeq(order, 1, Len(order) - 1)
<1> DEFINE L == Len(order)
           e == order[L]
           found == {k \in 1..L : order[k] = <<e[1], e[2]>>}
<1>1. order \in Seq(Pairs) /\ L \in Nat /\ L \in 1..L
  BY DEF IInv, TypeOK, Pairs
<1>2. e \in Pairs
  BY <1>1
<1>3. e = <<e[1], e[2]>>
  BY <1>2 DEF Pairs
<1>4. found = {L}
  BY <1>1, <1>3, SMTT(20) DEF IInv, Known, OrderUnique
<1>5. (CHOOSE k \in found : \A j \in found : j <= k) = L
  BY <1>1, <1>4
<1>6. Entry(e[1], e[2]) = L
  BY <1>4, <1>5 DEF Entry
<1> HIDE DEF e, found
<1>7. Without(L) = SubSeq(order, 1, L - 1) \o SubSeq(order, L + 1, L)
  BY <1>1 DEF Without
<1>8. SubSeq(order, L + 1, L) = <<>>
  BY <1>1, SubSeqEmpty
<1>9. SubSeq(order, 1, L - 1) \in Seq(Pairs)
  BY <1>1, SubSeqProperties, ElementOfSeq
<1>10. SubSeq(order, 1, L - 1) \o <<>> = SubSeq(order, 1, L - 1)
  BY <1>9, ConcatEmptySeq
<1> QED BY <1>6, <1>7, <1>8, <1>10 DEF e

LEMMA StopNextInv ==
  ASSUME IInv, StopNext PROVE IInv'
<1> DEFINE L == Len(order)
           n == order[L][1]
           i == order[L][2]
           o == plugins[n][i]
           left == active \ {<<i, o>>}
           done == \A j \in Interfaces : <<j, o>> \notin left
<1>1. order \in Seq(Pairs) /\ L \in Nat /\ L > 0 /\ at = L
  BY DEF IInv, TypeOK, PhaseOK, StopNext, Pairs
<1>2. n \in Names /\ i \in Interfaces /\ order[L] = <<n, i>>
  BY <1>1 DEF Pairs
<1>3. o \in Objects /\ o # None /\ <<i, o>> \in active /\ NameOf[o] = n
  <2>1. o # None /\ <<i, o>> \in active
    BY <1>1 DEF IInv, Known, OrderActive, OwnerOf
  <2>2. o \in Objects
    BY <1>2, <2>1 DEF IInv, TypeOK
  <2> QED BY <1>2, <2>1, <2>2 DEF IInv, Known, Registry
<1>4. active' = left /\ inited' = (IF done THEN inited \ {o} ELSE inited)
  BY <1>1 DEF StopNext, deactivateInterface
<1>5. proxies' = [proxies EXCEPT ![n] = IF done THEN None ELSE @]
  BY <1>1 DEF StopNext, deactivateInterface
<1>6. order' = SubSeq(order, 1, L - 1)
  BY <1>1, LastEntry DEF StopNext, deactivateInterface
<1>7. at' = L - 1 /\ UNCHANGED <<phase, seen, plugins, wanted, last>> /\ phase = "stopping"
  BY <1>1 DEF StopNext
<1>8. order' \in Seq(Pairs) /\ Len(order') = L - 1 /\ \A k \in 1..L - 1 : order'[k] = order[k]
  BY <1>1, <1>6, SubSeqProperties, ElementOfSeq
<1>9. proxies'[n] = IF done THEN None ELSE proxies[n]
  BY <1>2, <1>5 DEF IInv, TypeOK
<1>10. \A m \in Names : m # n => proxies'[m] = proxies[m]
  BY <1>5 DEF IInv, TypeOK
<1>11. done \in BOOLEAN
  OBVIOUS
<1>12. TypeOK'
  <2>1. proxies' \in [Names -> {None} \cup SUBSET Permissions]
    BY <1>5 DEF IInv, TypeOK
  <2>2. active' \subseteq Interfaces \X Objects /\ inited' \subseteq Objects
    BY <1>4 DEF IInv, TypeOK
  <2> QED BY <1>1, <1>7, <1>8, <2>1, <2>2 DEF IInv, TypeOK, Pairs
<1>13. \A j \in Interfaces, p \in Objects : <<j, p>> \in active => p \in Registered(NameOf[p])
  BY DEF IInv, Known, ActiveKnown, Registered
<1> HIDE DEF o, n, i
<1>14. Registry' /\ \A m : Registered(m)' = Registered(m)
  BY <1>7 DEF IInv, Known, Registry, Registered
<1>15. ActiveKnown'
  <2> SUFFICES ASSUME NEW j \in Interfaces, NEW p \in Objects, <<j, p>> \in active'
               PROVE  /\ plugins'[NameOf[p]][j] = p
                      /\ \E k \in 1..Len(order') : order'[k] = <<NameOf[p], j>>
    BY DEF ActiveKnown
  <2>1. <<j, p>> \in active /\ <<j, p>> # <<i, o>>
    BY <1>4
  <2>2. plugins[NameOf[p]][j] = p
    BY <2>1 DEF IInv, Known, ActiveKnown
  <2>3. PICK k \in 1..L : order[k] = <<NameOf[p], j>>
    BY <2>1 DEF IInv, Known, ActiveKnown
  <2>4. k # L
    <3> SUFFICES ASSUME k = L PROVE FALSE
      OBVIOUS
    <3>1. NameOf[p] = n /\ j = i
      BY <1>2, <2>3
    <3>2. p = o
      BY <2>2, <3>1 DEF o
    <3> QED BY <2>1, <3>1, <3>2
  <2>5. k \in 1..Len(order') /\ order'[k] = <<NameOf[p], j>>
    BY <1>1, <1>8, <2>3, <2>4
  <2> QED BY <1>7, <2>2, <2>5
<1>16. OrderActive'
  <2> SUFFICES ASSUME NEW k \in 1..Len(order')
               PROVE  /\ plugins'[order'[k][1]][order'[k][2]] # None
                      /\ <<order'[k][2], plugins'[order'[k][1]][order'[k][2]]>> \in active'
    BY DEF OrderActive, OwnerOf
  <2>1. k \in 1..L /\ k # L /\ order'[k] = order[k] /\ order[k] \in Pairs
    BY <1>1, <1>8
  <2> DEFINE m == order[k][1]
             j == order[k][2]
             q == plugins[m][j]
  <2>2. q # None /\ <<j, q>> \in active
    BY <2>1 DEF IInv, Known, OrderActive, OwnerOf
  <2>3. m \in Names /\ j \in Interfaces /\ order[k] = <<m, j>>
    BY <2>1 DEF Pairs
  <2>4. NameOf[q] = m
    BY <2>2, <2>3 DEF IInv, Known, Registry
  <2> HIDE DEF m, j, q
  <2>5. <<j, q>> # <<i, o>>
    <3> SUFFICES ASSUME <<j, q>> = <<i, o>> PROVE FALSE
      OBVIOUS
    <3>1. j = i /\ q = o
      OBVIOUS
    <3>2. order[k] = order[L]
      BY <1>2, <1>3, <2>3, <2>4, <3>1
    <3> QED BY <1>1, <2>1, <3>2 DEF IInv, Known, OrderUnique
  <2> QED BY <1>4, <1>7, <2>1, <2>2, <2>5 DEF m, j, q
<1>17. OrderUnique'
  <2> SUFFICES ASSUME NEW k \in 1..Len(order'), NEW l \in 1..Len(order'), order'[k] = order'[l]
               PROVE  k = l
    BY DEF OrderUnique
  <2>1. k \in 1..L /\ l \in 1..L /\ order[k] = order[l]
    BY <1>1, <1>8
  <2> QED BY <2>1 DEF IInv, Known, OrderUnique
<1>18. InitedActive'
  <2> SUFFICES ASSUME NEW q \in inited' PROVE \E j \in Interfaces : <<j, q>> \in left
    BY <1>4 DEF InitedActive
  <2>1. q \in inited /\ (done => q # o)
    BY <1>4
  <2>2. PICK j \in Interfaces : <<j, q>> \in active
    BY <2>1 DEF IInv, Served, InitedActive
  <2>3. CASE q = o
    BY <2>1, <2>3
  <2>4. CASE q # o
    BY <2>2, <2>4
  <2> QED BY <2>3, <2>4
<1>19. ProxyUsed'
  <2> SUFFICES ASSUME NEW m \in Names, proxies'[m] # None
               PROVE  \E j \in Interfaces, p \in Objects : <<j, p>> \in left /\ NameOf[p] = m
    BY <1>4 DEF ProxyUsed
  <2>1. CASE m = n
    BY <1>3, <1>9, <2>1
  <2>2. CASE m # n
    <3>1. PICK j \in Interfaces, p \in Objects : <<j, p>> \in active /\ NameOf[p] = m
      BY <1>10, <2>2 DEF IInv, Served, ProxyUsed
    <3>2. p # o
      BY <1>3, <2>2, <3>1
    <3> QED BY <3>1, <3>2
  <2> QED BY <2>1, <2>2
<1>20. ProxyDeclared'
  <2> SUFFICES ASSUME NEW m \in Names, proxies'[m] # None
               PROVE  \E p \in Registered(m) : proxies'[m] = Declares[p]
    BY <1>14 DEF ProxyDeclared
  <2>1. proxies'[m] = proxies[m]
    BY <1>9, <1>10
  <2> QED BY <2>1 DEF IInv, Served, ProxyDeclared
<1>21. PhaseOK' /\ CallOK'
  BY <1>1, <1>7, <1>8, <1>14 DEF IInv, PhaseOK, CallOK
\* An object alone under its name keeps the proxy while an interface is active.
<1>22. Proxied'
  <2> SUFFICES ASSUME NEW j \in Interfaces, NEW p \in Objects, <<j, p>> \in left,
                      Registered(NameOf[p]) = {p}
               PROVE  proxies'[NameOf[p]] # None
    BY <1>4, <1>7, <1>14 DEF Proxied
  <2>1. proxies[NameOf[p]] # None
    BY DEF IInv, Served, Proxied
  <2>2. CASE NameOf[p] = n
    <3>1. o \in Registered(n)
      BY <1>2, <1>3, <1>13
    <3>2. p = o
      BY <2>2, <3>1
    <3> QED BY <1>9, <2>1, <2>2, <3>2
  <2>3. CASE NameOf[p] # n
    BY <1>10, <2>1, <2>3
  <2> QED BY <2>2, <2>3
<1> QED BY <1>12, <1>14, <1>15, <1>16, <1>17, <1>18, <1>19, <1>20, <1>21, <1>22 DEF IInv, Known, Served

LEMMA StepInv == IInv /\ [Next]_vars => IInv'
<1> SUFFICES ASSUME IInv, [Next]_vars PROVE IInv'
  OBVIOUS
<1>1. ASSUME NEW o \in Objects, Load(o) PROVE IInv'
  BY <1>1, LoadInv
<1>2. CASE Loaded
  BY <1>2, QuietInv DEF Loaded, IInv, TypeOK, PhaseOK, CallOK
<1>3. ASSUME NEW n \in Names, settingActivePlugin(n) PROVE IInv'
  BY <1>3, QuietInv DEF settingActivePlugin, IInv, TypeOK, PhaseOK, CallOK, Registered
<1>4. ASSUME NEW n \in Names, NEW i \in Interfaces, NEW initDone \in BOOLEAN, activateInterface(n, i, initDone)
      PROVE  IInv'
  BY <1>4, ActivateInv
<1>5. ASSUME NEW o \in Objects, NEW m \in Methods, Call(o, m) PROVE IInv'
  BY <1>5, CallInv
<1>6. CASE Shutdown
  <2>1. Len(order) \in Nat
    BY DEF IInv, TypeOK
  <2> QED BY <1>6, <2>1, QuietInv DEF Shutdown, IInv, TypeOK, PhaseOK, CallOK, Registered
<1>7. CASE StopNext
  BY <1>7, StopNextInv
<1>8. CASE Stopped
  BY <1>8, QuietInv DEF Stopped, IInv, TypeOK, PhaseOK, CallOK, Registered
<1>9. CASE UNCHANGED vars
  BY <1>9, QuietInv DEF vars, IInv, TypeOK, PhaseOK, CallOK, Registered
<1> QED BY <1>1, <1>2, <1>3, <1>4, <1>5, <1>6, <1>7, <1>8, <1>9 DEF Next

-----------------------------------------------------------------------------
\* The inductive invariant holds throughout discovery, activation, calls and
\* shutdown (plugins.cpp).
THEOREM InvHolds == Spec => []IInv
BY InitInv, StepInv, PTL DEF Spec

\* The registry keeps its types (TypeOK).
THEOREM TypesHold == Spec => []TypeOK
<1>1. IInv => TypeOK
  BY DEF IInv
<1> QED BY <1>1, InvHolds, PTL

\* Until the shutdown every plugin in use has its proxy; in the shutdown, every
\* plugin that is alone under its name (activateInterface, deactivateInterface).
THEOREM ProxyStays == Spec => []ProxyKept
<1>1. IInv => ProxyKept
  <2> SUFFICES ASSUME IInv, NEW o \in Objects, InUse(o),
                      phase = "up" \/ Registered(NameOf[o]) = {o}
               PROVE  proxies[NameOf[o]] # None
    BY DEF ProxyKept
  <2>1. PICK i \in Interfaces : <<i, o>> \in active
    BY DEF InUse, IInv, Served, InitedActive
  <2> QED BY <2>1 DEF IInv, Served, Proxied
<1> QED BY <1>1, InvHolds, PTL

\* The shutdown leaves nothing active, initialised or with a proxy behind
\* (shutdownAllPluginsInReverseOrder).
THEOREM ShutdownIsComplete == Spec => []ShutdownComplete
<1>1. ASSUME IInv, phase = "down" PROVE active = {} /\ inited = {} /\ order = <<>> /\ \A n \in Names : proxies[n] = None
  <2>1. order \in Seq(Pairs) /\ Len(order) = 0
    BY <1>1 DEF IInv, TypeOK, PhaseOK, Pairs
  <2>2. order = <<>>
    BY <2>1, EmptySeq
  <2>3. active = {}
    BY <1>1, <2>1 DEF IInv, TypeOK, Known, ActiveKnown
  <2>4. inited = {} /\ \A n \in Names : proxies[n] = None
    BY <1>1, <2>3 DEF IInv, Served, InitedActive, ProxyUsed
  <2> QED BY <2>2, <2>3, <2>4
<1>2. IInv => ShutdownComplete
  BY <1>1 DEF ShutdownComplete
<1> QED BY <1>2, InvHolds, PTL

\* Plugins go in the reverse order of their activation
\* (shutdownAllPluginsInReverseOrder).
THEOREM ReverseOrder == Spec => LastInFirstOut
<1>1. IInv /\ [Next]_vars => [Len(order') < Len(order) => order' = SubSeq(order, 1, Len(order) - 1)]_vars
  <2> SUFFICES ASSUME IInv, Next, Len(order') < Len(order)
               PROVE  order' = SubSeq(order, 1, Len(order) - 1)
    OBVIOUS
  <2>1. order \in Seq(Pairs) /\ Len(order) \in Nat
    BY DEF IInv, TypeOK, Pairs
  <2>2. ASSUME NEW n \in Names, NEW i \in Interfaces, NEW initDone \in BOOLEAN, activateInterface(n, i, initDone)
        PROVE  FALSE
    <3>1. order' = order \/ order' = Append(order, <<n, i>>)
      BY <2>2 DEF activateInterface
    <3>2. <<n, i>> \in Pairs
      BY DEF Pairs
    <3> QED BY <2>1, <3>1, <3>2, AppendProperties
  <2>3. CASE StopNext
    <3>1. at = Len(order) /\ Len(order) > 0
      BY <2>1, <2>3 DEF StopNext, IInv, PhaseOK
    <3> QED BY <2>3, <3>1, LastEntry DEF StopNext, deactivateInterface
  <2>4. CASE order' = order
    BY <2>1, <2>4
  <2> QED BY <2>2, <2>3, <2>4 DEF Next, Load, Loaded, settingActivePlugin, Call, Shutdown, Stopped
<1> QED BY <1>1, InvHolds, PTL DEF Spec, LastInFirstOut

\* A call passed on to Core was declared by an object of the caller's name, which
\* is the caller where no other answers that name (CoreAccessProxy::check,
\* expandImpliedPermissions, activateInterface).
THEOREM PassedCallsDeclared == Spec => []CallsDeclared
<1>1. ASSUME NEW o, NEW m, check(Declares[o], m) PROVE DeclaredBy(o, m)
  <2>1. Bit[Gate[m]] \in expandImpliedPermissions(Declares[o])
    BY <1>1 DEF check
  <2>2. \A b \in DOMAIN Implied : b \in DOMAIN GeneratedImplied /\ GeneratedImplied[b] = Implied[b]
    BY DEF Implied, GeneratedImplied
  <2> QED BY <2>1, <2>2 DEF expandImpliedPermissions, DeclaredBy
<1>2. IInv => CallsDeclared
  BY <1>1 DEF CallsDeclared, IInv, CallOK
<1> QED BY <1>2, InvHolds, PTL
=============================================================================
