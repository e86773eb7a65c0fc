------------------------- MODULE EntityStoreProofs -------------------------
(* Theorems about EntityStore, for every set of ids and parameters. *)
EXTENDS EntityStore, TLAPS

\* Persona keys have one id only, which is what makes the prefix search for
\* "a/<uid>" find the persona itself.
PersonaKeysWhole == \A k \in store \cup drafts : k.kind = "a" => k.second = None

Inv == TypeOK /\ PersonaKeysWhole /\ OwnersExist

-----------------------------------------------------------------------------
(* Keys *)

\* The key helpers return keys.
LEMMA KeysTyped ==
  ASSUME NEW i \in Ids, NEW j \in Ids, NEW x \in Params
  PROVE  /\ profile \in Key /\ profile_parameter(x) \in Key /\ persona(i) \in Key
         /\ contact(i, j) \in Key /\ group(i, j) \in Key /\ group_member(i, j) \in Key
         /\ message(i, j) \in Key /\ event(i, j) \in Key
  BY DEF Key, Kinds, profile, profile_parameter, persona, contact, group,
         group_member, message, event

\* Where persona keys are whole, the prefix search for a persona finds it.
LEMMA PersonaFound ==
  ASSUME TypeOK, PersonaKeysWhole, NEW p, keyExists("a", p)
  PROVE  persona(p) \in store
<1>1. PICK r \in store : r.kind = "a" /\ r.first = p  BY DEF keyExists, Under
<1>2. r \in Key /\ r.second = None  BY <1>1 DEF TypeOK, PersonaKeysWhole
<1>3. r = persona(p)  BY <1>1, <1>2 DEF Key, persona
<1> QED  BY <1>1, <1>3

-----------------------------------------------------------------------------
(* The shapes of the operations *)

\* A store operation keeps the invariant when the object is well formed and is
\* stored only under an existing persona.
LEMMA StoredKeeps ==
  ASSUME Inv, NEW object \in Key, NEW refs \in SUBSET Ids, NEW filled \in BOOLEAN,
         NEW valid \in BOOLEAN, Stored(object, refs, filled, valid),
         object.kind = "a" => object.second = None,
         valid /\ object.kind \in OwnedKinds => persona(object.first) \in store
  PROVE  Inv'
<1> USE DEF Inv, Stored
<1>1. TypeOK'
  <2>1. store' \in SUBSET Key  BY DEF TypeOK
  <2>2. last' \in Answer  BY DEF Answered, Answer
  <2> QED  BY <2>1, <2>2 DEF TypeOK
<1>2. PersonaKeysWhole'  BY DEF PersonaKeysWhole
<1>3. OwnersExist'  BY DEF OwnersExist, persona
<1> QED  BY <1>1, <1>2, <1>3

\* A delete operation keeps the invariant when it spares the personas.
LEMMA DeletedKeeps ==
  ASSUME Inv, NEW keys, Deleted(keys), \A k \in keys \cap store : k.kind # "a"
  PROVE  Inv'
<1> USE DEF Inv, Deleted
<1>1. TypeOK'  BY DEF TypeOK
<1>2. PersonaKeysWhole'  BY DEF PersonaKeysWhole
<1>3. \A p : persona(p) \in store => persona(p) \in store'  BY DEF persona
<1>4. OwnersExist'  BY <1>3 DEF OwnersExist
<1> QED  BY <1>1, <1>2, <1>4

\* A factory function keeps the invariant.
LEMMA CreatedKeeps ==
  ASSUME Inv, NEW object \in Key, NEW id \in Ids, Created(object, id),
         object.kind = "a" => object.second = None
  PROVE  Inv'
<1> USE DEF Inv, Created
<1>1. TypeOK'  BY DEF TypeOK
<1>2. PersonaKeysWhole'  BY DEF PersonaKeysWhole
<1>3. OwnersExist'  BY DEF OwnersExist, persona
<1> QED  BY <1>1, <1>2, <1>3

-----------------------------------------------------------------------------
(* The operations *)

\* createProfile and openProfile, closeProfile, deleteCurrentProfile.
LEMMA SessionKeeps ==
  ASSUME Inv,
         \/ \E p \in Ids : CreateProfile(p) \/ SetActivePersona(p)
         \/ OpenProfile \/ CloseProfile \/ DeleteCurrentProfile
  PROVE  Inv'
<1> USE DEF Inv
<1>1. ASSUME NEW p \in Ids, CreateProfile(p)  PROVE Inv'
  <2>1. profile \in Key /\ persona(p) \in Key
        BY DEF Key, Kinds, profile, persona
  <2>2. TypeOK'  BY <1>1, <2>1 DEF CreateProfile, TypeOK
  <2>3. PersonaKeysWhole'
        BY <1>1 DEF CreateProfile, PersonaKeysWhole, profile, persona
  <2>4. OwnersExist'
        BY <1>1 DEF CreateProfile, OwnersExist, OwnedKinds, profile, persona
  <2> QED  BY <2>2, <2>3, <2>4
<1>2. ASSUME NEW p \in Ids, SetActivePersona(p)  PROVE Inv'
      BY <1>2 DEF SetActivePersona, TypeOK, PersonaKeysWhole, OwnersExist, persona
<1>3. ASSUME OpenProfile  PROVE Inv'
  <2>1. Preferred \subseteq Ids \cup {None}  BY DEF Preferred, Personas
  <2>2. TypeOK'  BY <1>3, <2>1 DEF OpenProfile, TypeOK
  <2> QED  BY <1>3, <2>2 DEF OpenProfile, PersonaKeysWhole, OwnersExist, persona
<1>4. ASSUME CloseProfile  PROVE Inv'
      BY <1>4 DEF CloseProfile, TypeOK, PersonaKeysWhole, OwnersExist, persona
<1>5. ASSUME DeleteCurrentProfile  PROVE Inv'
      BY <1>5 DEF DeleteCurrentProfile, TypeOK, PersonaKeysWhole, OwnersExist
<1> QED  BY <1>1, <1>2, <1>3, <1>4, <1>5

\* The factory functions.
LEMMA CreatesKeep ==
  ASSUME Inv, NEW i \in Ids, Creates(i)
  PROVE  Inv'
<1> USE DEF Inv
<1>1. CASE CreatePersona(i)
  <2>1. persona(i) \in Key /\ persona(i).second = None  BY DEF persona, Key, Kinds
  <2> QED  BY <1>1, <2>1, CreatedKeeps DEF CreatePersona
<1>2. CASE CreateContact(i) \/ CreateGroup(i) \/ CreateMessage(i) \/ CreateEvent(i)
  <2>1. active \in Ids  BY <1>2 DEF CreateContact, CreateGroup, CreateMessage, CreateEvent, OfActive, TypeOK
  <2>2. PICK o \in {contact(active, i), group(active, i), message(active, i), event(active, i)} :
          Created(o, i)
        BY <1>2 DEF CreateContact, CreateGroup, CreateMessage, CreateEvent
  <2>3. o \in Key /\ o.kind # "a"
        BY <2>1, <2>2 DEF contact, group, message, event, Key, Kinds
  <2> QED  BY <2>2, <2>3, CreatedKeeps
<1> QED  BY <1>1, <1>2 DEF Creates

\* The store operations on objects in callers' hands.
LEMMA StoresKeep ==
  ASSUME Inv, NEW d \in drafts, NEW filled \in BOOLEAN, Stores(d, filled)
  PROVE  Inv'
<1> USE DEF Inv
<1>0. d \in Key /\ (d.kind = "a" => d.second = None)  BY DEF TypeOK, PersonaKeysWhole
<1>1. CASE StorePersona(d, filled)
  <2> DEFINE valid == filled /\ keyExists("p", ProfileUid)
  <2>1. valid \in BOOLEAN /\ {} \in SUBSET Ids  OBVIOUS
  <2>2. d.kind = "a" /\ Stored(d, {}, filled, valid)  BY <1>1 DEF StorePersona
  <2>3. d.kind \notin OwnedKinds  BY <2>2 DEF OwnedKinds
  <2> HIDE DEF valid
  <2> QED  BY <1>0, <2>1, <2>2, <2>3, StoredKeeps
<1>2. CASE StoreContact(d, filled) \/ StoreGroup(d, filled) \/ StoreEvent(d, filled)
  <2>1. OwnedValid(d, filled) \in BOOLEAN /\ {} \in SUBSET Ids  BY DEF OwnedValid
  <2>2. Stored(d, {}, filled, OwnedValid(d, filled))
        BY <1>2 DEF StoreContact, StoreGroup, StoreEvent
  <2>3. OwnedValid(d, filled) => persona(d.first) \in store
        BY PersonaFound DEF OwnedValid
  <2> QED  BY <1>0, <2>1, <2>2, <2>3, StoredKeeps
<1>3. CASE \E s, r \in Ids : StoreMessage(d, s, r, filled)
  <2>1. PICK s \in Ids, r \in Ids : StoreMessage(d, s, r, filled)  BY <1>3
  <2> DEFINE valid == MessageValid(d, s, r, filled)
  <2>2. valid \in BOOLEAN /\ {s, r} \in SUBSET Ids  BY DEF MessageValid
  <2>3. Stored(d, {s, r}, filled, valid)  BY <2>1 DEF StoreMessage
  <2>4. valid => persona(d.first) \in store  BY PersonaFound DEF MessageValid
  <2> HIDE DEF valid
  <2> QED  BY <1>0, <2>2, <2>3, <2>4, StoredKeeps
<1> QED  BY <1>1, <1>2, <1>3 DEF Stores

\* Group memberships and profile parameters.
LEMMA OthersKeep ==
  ASSUME Inv,
         \/ \E x \in Params : StoreParam(x) \/ DeleteParam(x)
         \/ \E g, c \in Ids : AddGroupMember(g, c) \/ RemoveGroupMember(g, c)
  PROVE  Inv'
<1>1. ASSUME NEW x \in Params, StoreParam(x)  PROVE Inv'
  <2>1. /\ profile_parameter(x) \in Key /\ profile_parameter(x).kind \notin OwnedKinds
        /\ profile_parameter(x).kind # "a"
        BY DEF profile_parameter, Key, Kinds, OwnedKinds
  <2>2. Stored(profile_parameter(x), {}, TRUE, TRUE)  BY <1>1 DEF StoreParam
  <2> QED  BY <2>1, <2>2, StoredKeeps
<1>2. ASSUME NEW x \in Params, DeleteParam(x)  PROVE Inv'
      BY <1>2, DeletedKeeps DEF DeleteParam, profile_parameter
<1>3. ASSUME NEW g \in Ids, NEW c \in Ids, AddGroupMember(g, c)  PROVE Inv'
  <2> DEFINE valid == keyExists("g", g) /\ keyExists("c", c)
  <2>1. /\ group_member(g, c) \in Key /\ group_member(g, c).kind \notin OwnedKinds
        /\ group_member(g, c).kind # "a"
        BY DEF group_member, Key, Kinds, OwnedKinds
  <2>2. Stored(group_member(g, c), {g, c}, TRUE, valid)  BY <1>3 DEF AddGroupMember
  <2>3. valid \in BOOLEAN /\ {g, c} \in SUBSET Ids  OBVIOUS
  <2> HIDE DEF valid
  <2> QED  BY <2>1, <2>2, <2>3, StoredKeeps
<1>4. ASSUME NEW g \in Ids, NEW c \in Ids, RemoveGroupMember(g, c)  PROVE Inv'
      BY <1>4, DeletedKeeps DEF RemoveGroupMember, group_member
<1> QED  BY <1>1, <1>2, <1>3, <1>4

\* What deletePersona takes besides the persona itself is no persona.
LEMMA DependentsOwned ==
  ASSUME NEW p, NEW k \in DependentsOf(p)
  PROVE  k \in store /\ k.kind # "a"
  BY DEF DependentsOf, Under

\* deletePersona keeps the invariant when no single delete fails: every record
\* that names the persona goes with it.
LEMMA DeletePersonaKeeps ==
  ASSUME Inv, ~DeletesFail, NEW p \in Ids, NEW kept, DeletePersona(p, kept)
  PROVE  Inv'
<1> USE DEF Inv, DeletePersona
<1>1. store' = store \ (DependentsOf(p) \cup {persona(p)})  OBVIOUS
<1>2. TypeOK'  BY DEF TypeOK
<1>3. PersonaKeysWhole'  BY DEF PersonaKeysWhole
<1>4. OwnersExist'
  <2>1. SUFFICES ASSUME NEW k \in store', k.kind \in OwnedKinds
                 PROVE  persona(k.first) \in store'
        BY DEF OwnersExist
  <2>2. k \in store /\ persona(k.first) \in store  BY <1>1, <2>1 DEF OwnersExist
  <2>3. k.first # p
        BY <1>1, <2>1, <2>2 DEF DependentsOf, Under, OwnedKinds
  <2>4. persona(k.first) # persona(p)  BY <2>3 DEF persona
  <2>5. persona(k.first) \notin DependentsOf(p)  BY DependentsOwned DEF persona
  <2> QED  BY <1>1, <2>2, <2>4, <2>5
<1> QED  BY <1>2, <1>3, <1>4

\* The delete operations.
LEMMA DeletesKeep ==
  ASSUME Inv, ~DeletesFail, NEW i \in Ids, Deletes(i)
  PROVE  Inv'
<1>1. CASE DeleteContact(i)
      BY <1>1, DeletedKeeps DEF DeleteContact, contact
<1>2. CASE DeleteGroup(i)
      BY <1>2, DeletedKeeps DEF DeleteGroup, group, Under
<1>3. CASE DeleteMessage(i)
      BY <1>3, DeletedKeeps DEF DeleteMessage, Under
<1>4. CASE DeleteEvent(i)
      BY <1>4, DeletedKeeps DEF DeleteEvent, event
<1>5. CASE \E kept \in SUBSET DependentsOf(i) : DeletePersona(i, kept)
      BY <1>5, DeletePersonaKeeps
<1> QED  BY <1>1, <1>2, <1>3, <1>4, <1>5 DEF Deletes

LEMMA InvInductive ==
  ASSUME Inv, ~DeletesFail, [Next]_vars
  PROVE  Inv'
<1>1. CASE UNCHANGED vars
  <2>1. TypeOK'  BY <1>1 DEF Inv, TypeOK, vars
  <2> QED  BY <1>1, <2>1 DEF Inv, PersonaKeysWhole, OwnersExist, persona, vars
<1>2. CASE Next
  BY <1>2, SessionKeeps, CreatesKeep, StoresKeep, OthersKeep, DeletesKeep DEF Next
<1> QED  BY <1>1, <1>2

LEMMA InvHolds ==
  ASSUME ~DeletesFail
  PROVE  Spec => []Inv
<1>1. Init => Inv  BY DEF Init, Inv, TypeOK, PersonaKeysWhole, OwnersExist
<1>2. Inv /\ [Next]_vars => Inv'  BY InvInductive
<1> QED  BY <1>1, <1>2, PTL DEF Spec

-----------------------------------------------------------------------------
(* Theorems *)

\* The variables keep their types, however many ids and parameters there are.
THEOREM TypesHold ==
  ASSUME ~DeletesFail
  PROVE  Spec => []TypeOK
<1>1. Inv => TypeOK  BY DEF Inv
<1> QED  BY <1>1, InvHolds, PTL

\* Unless the database fails a delete, no contact, group, message or event is
\* ever without its persona: storeContact .. storeEvent check it, deletePersona
\* takes all of them along, and no order of calls gets between the two.
THEOREM OwnersAlwaysExist ==
  ASSUME ~DeletesFail
  PROVE  Spec => []OwnersExist
<1>1. Inv => OwnersExist  BY DEF Inv
<1> QED  BY <1>1, InvHolds, PTL

\* What the delete operations of contacts, groups, messages and events take away.
LEMMA NamedRemovals ==
  ASSUME NEW i \in Ids, DeleteContact(i) \/ DeleteGroup(i) \/ DeleteMessage(i) \/ DeleteEvent(i),
         NEW k \in Removed
  PROVE  /\ k.kind \in OwnedKinds => k.first = active
         /\ k.kind = "gm" =>
              Removed \subseteq Under("gm", k.first) \cup {group(active, k.first)}
<1> USE DEF Removed
<1>1. CASE DeleteGroup(i)
  <2>1. Removed \subseteq Under("gm", i) \cup {group(active, i)}
    BY <1>1 DEF DeleteGroup, Deleted
  <2>2. k.kind = "gm" => k.first = i
    BY <2>1 DEF Under, group
  <2> QED  BY <2>1, <2>2 DEF Under, group, OwnedKinds
<1>2. CASE DeleteContact(i) \/ DeleteMessage(i) \/ DeleteEvent(i)
  BY <1>2 DEF DeleteContact, DeleteMessage, DeleteEvent, Deleted, Under, OwnedKinds,
              contact, event
<1> QED  BY <1>1, <1>2

\* What deletePersona takes away hangs on the persona.
LEMMA DependentRemovals ==
  ASSUME NEW i \in Ids, NEW kept, DeletePersona(i, kept), NEW k \in Removed
  PROVE  /\ k.kind \in OwnedKinds => persona(k.first) \notin store'
         /\ k.kind = "gm" =>
              \E r \in store : /\ r.kind = "g" /\ r.second = k.first
                               /\ persona(r.first) \notin store'
<1> USE DEF Removed
<1>1. k \in DependentsOf(i) \cup {persona(i)} /\ persona(i) \notin store'
  <2>1. persona(i) \notin DependentsOf(i)  BY DependentsOwned DEF persona
  <2> QED  BY <2>1 DEF DeletePersona
<1>2. k.kind \in OwnedKinds => k.first = i
  BY <1>1 DEF DependentsOf, Under, OwnedKinds, persona
<1>3. k.kind = "gm" => \E r \in store : r.kind = "g" /\ r.first = i /\ r.second = k.first
  BY <1>1 DEF DependentsOf, Under, persona
<1> QED  BY <1>1, <1>2, <1>3

\* No step takes a contact, group, message or event from a persona that is
\* neither active nor deleted with it; and a membership only goes with the
\* profile, with the persona whose group it is in, or where its group was named
\* and nothing of another group goes.  Even when single deletes fail.
THEOREM RemovalsAlwaysScoped == Spec => RemovalsScoped
<1> DEFINE Scoped ==
             \A k \in Removed :
               /\ k.kind \in OwnedKinds => k.first = active \/ persona(k.first) \notin store'
               /\ k.kind = "gm" =>
                    \/ profile \notin store'
                    \/ \E r \in store : /\ r.kind = "g" /\ r.second = k.first
                                        /\ persona(r.first) \notin store'
                    \/ Removed \subseteq Under("gm", k.first) \cup {group(active, k.first)}
<1> USE DEF Removed
<1>1. [Next]_vars => [Scoped]_vars
  <2>1. SUFFICES ASSUME Next, NEW k \in Removed,
                        k.kind \in OwnedKinds \cup {"gm"}
                 PROVE  /\ k.kind \in OwnedKinds =>
                             k.first = active \/ persona(k.first) \notin store'
                        /\ k.kind = "gm" =>
                             \/ profile \notin store'
                             \/ \E r \in store : /\ r.kind = "g" /\ r.second = k.first
                                                 /\ persona(r.first) \notin store'
                             \/ Removed \subseteq Under("gm", k.first)
                                                    \cup {group(active, k.first)}
        OBVIOUS
  <2>2. ASSUME NEW p \in Ids, CreateProfile(p) \/ SetActivePersona(p)  PROVE FALSE
        BY <2>1, <2>2 DEF CreateProfile, SetActivePersona
  <2>3. CASE OpenProfile \/ CloseProfile
        BY <2>1, <2>3 DEF OpenProfile, CloseProfile
  <2>4. CASE DeleteCurrentProfile
        BY <2>4 DEF DeleteCurrentProfile
  <2>5. ASSUME NEW x \in Params, StoreParam(x) \/ DeleteParam(x)  PROVE FALSE
    <3>1. profile_parameter(x).kind \notin OwnedKinds \cup {"gm"}
          BY DEF profile_parameter, OwnedKinds
    <3>2. CASE StoreParam(x)  BY <2>1, <3>2 DEF StoreParam, Stored
    <3>3. CASE DeleteParam(x)  BY <2>1, <3>1, <3>3 DEF DeleteParam, Deleted
    <3> QED  BY <2>5, <3>2, <3>3
  <2>6. ASSUME NEW i \in Ids, Creates(i)  PROVE FALSE
        BY <2>1, <2>6 DEF Creates, CreatePersona, CreateContact, CreateGroup,
                          CreateMessage, CreateEvent, Created
  <2>7. ASSUME NEW d \in drafts, NEW filled \in BOOLEAN, Stores(d, filled)  PROVE FALSE
        BY <2>1, <2>7 DEF Stores, StorePersona, StoreContact, StoreGroup, StoreEvent,
                          StoreMessage, Stored
  <2>8. ASSUME NEW g \in Ids, NEW c \in Ids, AddGroupMember(g, c)  PROVE FALSE
        BY <2>1, <2>8 DEF AddGroupMember, Stored
  <2>9. ASSUME NEW g \in Ids, NEW c \in Ids, RemoveGroupMember(g, c)
        PROVE  /\ k.kind \notin OwnedKinds
               /\ Removed \subseteq Under("gm", k.first)
    <3>1. Removed \subseteq {group_member(g, c)}
          BY <2>9 DEF RemoveGroupMember, Deleted
    <3>2. k = group_member(g, c) /\ k \in store  BY <2>1, <3>1
    <3> QED  BY <3>1, <3>2 DEF group_member, OwnedKinds, Under
  <2>10. ASSUME NEW i \in Ids, Deletes(i)
         PROVE  /\ k.kind \in OwnedKinds =>
                     k.first = active \/ persona(k.first) \notin store'
                /\ k.kind = "gm" =>
                     \/ \E r \in store : /\ r.kind = "g" /\ r.second = k.first
                                         /\ persona(r.first) \notin store'
                     \/ Removed \subseteq Under("gm", k.first) \cup {group(active, k.first)}
    <3>1. CASE DeleteContact(i) \/ DeleteGroup(i) \/ DeleteMessage(i) \/ DeleteEvent(i)
          BY <2>1, <3>1, NamedRemovals
    <3>2. ASSUME NEW kept, DeletePersona(i, kept)
          PROVE  /\ k.kind \in OwnedKinds => persona(k.first) \notin store'
                 /\ k.kind = "gm" =>
                      \E r \in store : /\ r.kind = "g" /\ r.second = k.first
                                       /\ persona(r.first) \notin store'
          BY <2>1, <3>2, DependentRemovals
    <3> QED  BY <2>10, <3>1, <3>2 DEF Deletes
  <2> QED  BY <2>1, <2>2, <2>3, <2>4, <2>5, <2>6, <2>7, <2>8, <2>9, <2>10 DEF Next
<1> QED  BY <1>1, PTL DEF Spec, RemovalsScoped
=============================================================================
