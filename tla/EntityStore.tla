----------------------------- MODULE EntityStore -----------------------------
(***************************************************************************)
(* The records of one profile: the factory, store and delete operations    *)
(* of src/core.cpp with the key helpers and the validation that            *)
(* asocial_protogen generates from the .proto files.                       *)
(*                                                                         *)
(* Records are known by their keys.  A key is a kind and up to two ids     *)
(* ("c/<persona>/<contact>"); the creation time within a message's key is  *)
(* left out, for it never changes and the uid tells messages apart.  All   *)
(* ids are UUIDs of one length, so that one segment is a prefix of another *)
(* only when they are equal.                                               *)
(*                                                                         *)
(* What the program keeps on disk, and when, is CoreProfile's subject.     *)
(***************************************************************************)
EXTENDS FiniteSets

CONSTANTS
  Ids,         \* UUIDs, each given out once
  ProfileUid,  \* the uid of the profile record
  Params,      \* names of profile parameters
  None,        \* no active persona, no key segment, no answer yet
  DeletesFail  \* TRUE: single deletes of the database may fail

ASSUME NoneAssumption ==
  /\ None \notin Ids \cup Params
  /\ ProfileUid \notin Ids \cup {None}
  /\ DeletesFail \in BOOLEAN

Kinds == {"p", "a", "c", "g", "gm", "m", "e", "pp"}
Key == [kind : Kinds, first : Ids \cup Params \cup {None}, second : Ids \cup {None}]
Answer == [object : Key, refs : SUBSET Ids, filled : BOOLEAN, ok : BOOLEAN]

profile == [kind |-> "p", first |-> None, second |-> None]
profile_parameter(x) == [kind |-> "pp", first |-> x, second |-> None]
persona(p) == [kind |-> "a", first |-> p, second |-> None]
contact(p, c) == [kind |-> "c", first |-> p, second |-> c]
group(p, g) == [kind |-> "g", first |-> p, second |-> g]
group_member(g, c) == [kind |-> "gm", first |-> g, second |-> c]
message(p, m) == [kind |-> "m", first |-> p, second |-> m]
event(p, e) == [kind |-> "e", first |-> p, second |-> e]

VARIABLES
  store,     \* the keys of the profile's database
  defaults,  \* personas whose record says is_default
  open,      \* isProfileOpen()
  active,    \* m_activePersonaId
  drafts,    \* objects handed to callers by create* (and get*), by their key
  last,      \* what the latest store operation answered, None after any other
  born       \* history: UUIDs given out

vars == <<store, defaults, open, active, drafts, last, born>>

-----------------------------------------------------------------------------
(* Lookups *)

Under(k, v) == {r \in store : r.kind = k /\ r.first = v}

\* keyExists(prefix + value): the foreign-key lookup is a prefix search.
keyExists(k, v) == Under(k, v) # {}

\* An answer to a store operation, with what it refers to and whether the
\* caller filled in what the factory function leaves empty.
Answered(object, refs, filled, ok) ==
  last' = [object |-> object, refs |-> refs, filled |-> filled, ok |-> ok]

Stored(object, refs, filled, valid) ==
  /\ open
  /\ store' = IF valid THEN store \cup {object} ELSE store
  /\ Answered(object, refs, filled, valid)
  /\ UNCHANGED <<defaults, open, active, drafts, born>>

Deleted(keys) ==
  /\ open
  /\ store' = store \ keys
  /\ last' = None
  /\ UNCHANGED <<defaults, open, active, drafts, born>>

-----------------------------------------------------------------------------
(* The profile and its parameters *)

Init ==
  /\ store = {} /\ defaults = {} /\ open = FALSE /\ active = None
  /\ drafts = {} /\ last = None /\ born = {}

\* Under a passphrase in use, the records of the profile before remain.
CreateProfile(p) ==
  /\ p \notin born
  /\ born' = born \cup {p}
  /\ store' = store \cup {profile, persona(p)}
  /\ defaults' = defaults \cup {p}
  /\ open' = TRUE /\ active' = p
  /\ last' = None
  /\ UNCHANGED drafts

\* The personas come in key order, that is in any order: UUIDs are random.
Personas == {p \in Ids : persona(p) \in store}
Preferred == IF Personas \cap defaults # {} THEN Personas \cap defaults
             ELSE IF Personas # {} THEN Personas ELSE {None}

\* Mutant: the profile's uid taken for the active persona's.
MutOpenProfile ==
  /\ profile \in store
  /\ open' = TRUE
  /\ active' = ProfileUid
  /\ last' = None
  /\ UNCHANGED <<store, defaults, drafts, born>>
OpenProfile ==
  /\ profile \in store
  /\ open' = TRUE
  /\ active' \in Preferred
  /\ last' = None
  /\ UNCHANGED <<store, defaults, drafts, born>>

CloseProfile ==
  /\ open' = FALSE /\ active' = None
  /\ last' = None
  /\ UNCHANGED <<store, defaults, drafts, born>>

DeleteCurrentProfile ==
  /\ open
  /\ store' = {} /\ defaults' = {}
  /\ open' = FALSE /\ active' = None
  /\ last' = None
  /\ UNCHANGED <<drafts, born>>

StoreParam(x) == Stored(profile_parameter(x), {}, TRUE, TRUE)
DeleteParam(x) == Deleted({profile_parameter(x)})

-----------------------------------------------------------------------------
(* Personas *)

SetActivePersona(p) ==
  /\ open
  /\ persona(p) \in store
  /\ active' = p
  /\ last' = None
  /\ UNCHANGED <<store, defaults, open, drafts, born>>

\* A factory function: a fresh UUID in an object of the caller's.
Created(object, id) ==
  /\ open
  /\ id \notin born
  /\ born' = born \cup {id}
  /\ drafts' = drafts \cup {object}
  /\ last' = None
  /\ UNCHANGED <<store, defaults, open, active>>

CreatePersona(p) == Created(persona(p), p)

\* bio and avatar are required, and the profile must exist: its key is "p",
\* and what is looked up is "p/<uid>".
StorePersona(d, filled) ==
  d.kind = "a" /\ Stored(d, {}, filled, filled /\ keyExists("p", ProfileUid))

DependentsOf(p) ==
  LET groups == Under("g", p)
  IN Under("c", p) \cup groups \cup Under("m", p) \cup Under("e", p)
       \cup UNION {Under("gm", g.second) : g \in groups}

\* Only the answer of the last delete counts.
DeletePersona(p, kept) ==
  /\ open
  /\ kept = {} \/ DeletesFail
  /\ kept \subseteq DependentsOf(p)
  /\ store' = store \ ((DependentsOf(p) \ kept) \cup {persona(p)})
  /\ defaults' = defaults \ {p}
  /\ last' = None
  /\ UNCHANGED <<open, active, drafts, born>>

-----------------------------------------------------------------------------
(* Contacts, groups, messages and events, of the active persona *)

OfActive == open /\ active # None

\* Mutant: the required fields only, validate* instead of validate*Full.
MutOwnedValid(d, filled) == filled

\* What validate*Full asks of contacts, groups and events: the required fields
\* (avatar, public_key and relationship_type; description; event_type), which
\* the factory functions leave empty, and the persona.
OwnedValid(d, filled) == filled /\ keyExists("a", d.first)

CreateContact(c) == OfActive /\ Created(contact(active, c), c)
StoreContact(d, filled) == d.kind = "c" /\ Stored(d, {}, filled, OwnedValid(d, filled))
DeleteContact(c) == OfActive /\ Deleted({contact(active, c)})

CreateGroup(g) == OfActive /\ Created(group(active, g), g)
StoreGroup(d, filled) == d.kind = "g" /\ Stored(d, {}, filled, OwnedValid(d, filled))
\* Mutant: the group is searched for in all personas.
MutDeleteGroup(g) ==
  OfActive /\ Deleted(Under("gm", g) \cup {r \in store : r.kind = "g" /\ r.second = g})
DeleteGroup(g) == OfActive /\ Deleted(Under("gm", g) \cup {group(active, g)})

\* Contacts and groups are looked up without their persona.
AddGroupMember(g, c) ==
  Stored(group_member(g, c), {g, c}, TRUE, keyExists("g", g) /\ keyExists("c", c))
RemoveGroupMember(g, c) == Deleted({group_member(g, c)})

\* The two targets of recipient_uid are both asked for.
MessageValid(d, sender, recipient, filled) ==
  /\ filled
  /\ keyExists("a", d.first)
  /\ keyExists("c", sender)
  /\ keyExists("c", recipient) /\ keyExists("g", recipient)

CreateMessage(m) == OfActive /\ Created(message(active, m), m)
StoreMessage(d, sender, recipient, filled) ==
  /\ d.kind = "m"
  /\ Stored(d, {sender, recipient}, filled, MessageValid(d, sender, recipient, filled))
DeleteMessage(m) == OfActive /\ Deleted({r \in Under("m", active) : r.second = m})

CreateEvent(e) == OfActive /\ Created(event(active, e), e)
StoreEvent(d, filled) == d.kind = "e" /\ Stored(d, {}, filled, OwnedValid(d, filled))
DeleteEvent(e) == OfActive /\ Deleted({event(active, e)})

-----------------------------------------------------------------------------
Creates(i) ==
  \/ CreatePersona(i) \/ CreateContact(i) \/ CreateGroup(i)
  \/ CreateMessage(i) \/ CreateEvent(i)

Stores(d, filled) ==
  \/ StorePersona(d, filled) \/ StoreContact(d, filled)
  \/ StoreGroup(d, filled) \/ StoreEvent(d, filled)
  \/ \E s, r \in Ids : StoreMessage(d, s, r, filled)

Deletes(i) ==
  \/ DeleteContact(i) \/ DeleteGroup(i) \/ DeleteMessage(i) \/ DeleteEvent(i)
  \/ \E kept \in SUBSET DependentsOf(i) : DeletePersona(i, kept)

Next ==
  \/ \E p \in Ids : CreateProfile(p) \/ SetActivePersona(p)
  \/ OpenProfile \/ CloseProfile \/ DeleteCurrentProfile
  \/ \E x \in Params : StoreParam(x) \/ DeleteParam(x)
  \/ \E i \in Ids : Creates(i) \/ Deletes(i)
  \/ \E d \in drafts, filled \in BOOLEAN : Stores(d, filled)
  \/ \E g, c \in Ids : AddGroupMember(g, c) \/ RemoveGroupMember(g, c)

Spec == Init /\ [][Next]_vars

-----------------------------------------------------------------------------
(* Properties *)

\* The variables keep their types.
TypeOK ==
  /\ store \in SUBSET Key /\ drafts \in SUBSET Key
  /\ defaults \in SUBSET Ids /\ born \in SUBSET Ids
  /\ open \in BOOLEAN /\ active \in Ids \cup {None}
  /\ last \in Answer \cup {None}

OwnedKinds == {"c", "g", "m", "e"}

\* Every contact, group, message and event belongs to a persona of the profile,
\* although a deleted persona may stay active and objects made under it may be
\* stored after it is gone (storeContact .. storeEvent, deletePersona).
OwnersExist == \A k \in store : k.kind \in OwnedKinds => persona(k.first) \in store

\* What a step takes out of the database.
Removed == store \ store'

\* A step takes a contact, group, message or event away only from the active
\* persona, or together with the persona it belongs to.  Memberships carry no
\* persona, and deleteGroup and removeGroupMember take them from any: a step
\* takes one away together with the profile, or with the persona whose group it
\* is in, or it names the group, and then takes nothing of other groups.
RemovalsScoped ==
  [][\A k \in Removed :
       /\ k.kind \in OwnedKinds => k.first = active \/ persona(k.first) \notin store'
       /\ k.kind = "gm" =>
            \/ profile \notin store'
            \/ \E r \in store : /\ r.kind = "g" /\ r.second = k.first
                                /\ persona(r.first) \notin store'
            \/ Removed \subseteq Under("gm", k.first) \cup {group(active, k.first)}]_vars

(* What the store operations promise (CoreInterface.h, the console's tests) *)

Refused(kind) == last # None /\ last.object.kind = kind /\ ~last.ok
OwnerStored == persona(last.object.first) \in store

\* A persona with all its fields can be stored in the open profile: "uid must be
\* set" is all storePersona asks for.
CompletePersonaStored == ~(Refused("a") /\ last.filled)

\* A contact, group or event can be stored as its factory function returned it,
\* while its persona exists: store* ask for the uid and the personaUid.
FactoryResultStored == \A kind \in {"c", "g", "e"} : Refused(kind) => ~OwnerStored

\* A stored contact can be added to a stored group of the same persona.
MembershipStored ==
  Refused("gm") =>
    ~ \E p \in Ids : /\ group(p, last.object.first) \in store
                     /\ contact(p, last.object.second) \in store

\* A complete message of a stored persona between two of its contacts can be
\* stored.
MessageStored ==
  Refused("m") /\ last.filled /\ OwnerStored =>
    \/ \E c \in Ids : last.refs = {c}
    \/ \E c \in last.refs : contact(last.object.first, c) \notin store
=============================================================================
