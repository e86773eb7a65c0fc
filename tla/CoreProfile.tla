----------------------------- MODULE CoreProfile -----------------------------
(***************************************************************************)
(* The profile lifecycle of src/core.cpp: Core over the plugin chain it    *)
(* wires together.  A profile is a temporary RocksDB (RocksDBStore in      *)
(* device mode), serialised into a virtual file's RAM buffer at each flush *)
(* and written back to the encrypted container when the file is closed.    *)
(* One thread at a time calls Core: the console's own thread until it has  *)
(* ended, then the main thread (ReplOnLiveObjects of AppLifecycle).  So    *)
(* each operation is one step, and only a crash can fall inside it.        *)
(*                                                                         *)
(* Core creates one virtual file only, dbFileName(), so a container holds  *)
(* one file of one passphrase: the first file made under another           *)
(* passphrase takes its slot (LayersIndependent of VFSContainer).          *)
(***************************************************************************)
EXTENDS FiniteSets, Naturals

CONSTANTS
  Paths,   \* container files
  Keys,    \* passphrases
  Ids,     \* UUIDs: one names a profile and the default persona made with it;
           \* numbers, for RocksDB keeps the persona keys sorted
  Rests,   \* contents of everything else the database holds
  None,    \* no profile id, nothing else stored, no virtual file, not open
  NoFile,  \* no container file at that path
  Blank,   \* a virtual file never written: used size 0
  Broken   \* a virtual file whose blob does not authenticate

Database == [prof : Ids \cup {None}, personas : SUBSET Ids, rest : Rests \cup {None}]
NoRecords == [prof |-> None, personas |-> {}, rest |-> None]
FileContent == Database \cup {Blank, Broken}
Device == [buf : Database, dirty : BOOLEAN]

ASSUME IdsAssumption == Ids \subseteq Nat
ASSUME SentinelsAssumption ==
  /\ None \notin Ids \cup Paths \cup Database \cup Device
  /\ None \notin [key : Keys, db : FileContent] \cup [path : Paths, key : Keys]
  /\ NoFile # None /\ NoFile \notin [key : Keys, db : FileContent]
  /\ Blank \notin Database /\ Broken \notin Database /\ Blank # None /\ Broken # None

VARIABLES
  disk,       \* per path: NoFile, None (no virtual file) or [key, db]
  path,       \* m_containerPath
  container,  \* m_container: [path, key], or None
  device,     \* m_dbDevice: the buffer of the VirtualFile, or None
  db,         \* the store's temporary RocksDB, None when not open
  current,    \* m_currentProfileId
  active,     \* m_activePersonaId
  phase,      \* how far main() has come
  born        \* history: ids given out

session == <<container, device, db, current, active>>
vars == <<disk, path, container, device, db, current, active, phase, born>>

-----------------------------------------------------------------------------
(* What the plugins below Core do *)

\* RocksDBStore::open(device): an empty or unreadable file is an empty database.
Loaded(f) == IF f \in Database THEN f ELSE NoRecords

\* What the virtual file would be written back as: flushDatabase serialises the
\* database into the device, which is then dirty.
Pending == IF db # None THEN db ELSE device.buf
MustWrite == device # None /\ (db # None \/ device.dirty)

\* The disk once what is open has been closed.
SavedDisk ==
  IF container # None /\ MustWrite
  THEN [disk EXCEPT ![container.path] = [key |-> container.key, db |-> Pending]]
  ELSE disk

\* openContainer and listFiles: the passphrase reveals the file.
Visible(d, k) == d \notin {NoFile, None} /\ d.key = k

isContainerInitialized == path # None /\ disk[path] # NoFile
isProfileOpen == container # None /\ db # None /\ device # None

NothingOpen ==
  /\ container' = None /\ device' = None /\ db' = None
  /\ current' = None /\ active' = None

OpenedAs(k, d, dirty, a) ==
  /\ container' = [path |-> path, key |-> k]
  /\ device' = [buf |-> d, dirty |-> dirty] /\ db' = d
  /\ current' = d.prof /\ active' = a

-----------------------------------------------------------------------------
Init ==
  /\ disk = [p \in Paths |-> NoFile] /\ path = None
  /\ container = None /\ device = None /\ db = None
  /\ current = None /\ active = None
  /\ phase = "up" /\ born = {}

\* createContainer: opens the container (making the file if there is none) and
\* closes it again; a container that is open is left alone.
CreateContainer(p) ==
  /\ phase = "up"
  /\ disk' = [disk EXCEPT ![p] = IF disk[p] = NoFile THEN None ELSE disk[p]]
  /\ path' = p
  /\ UNCHANGED <<session, phase, born>>

\* openProfile or createProfile, when the container or the file does not open,
\* or openProfile when the database does not.
OpenFails ==
  /\ phase = "up" /\ isContainerInitialized
  /\ disk' = SavedDisk /\ NothingOpen
  /\ UNCHANGED <<path, phase, born>>

\* openProfile on a file without profile record: closeDatabase flushes the
\* empty database and the deleted device writes it back.
MutOpenProfileWithoutRecord(k) ==
  /\ phase = "up" /\ isContainerInitialized
  /\ Visible(SavedDisk[path], k)
  /\ Loaded(SavedDisk[path].db).prof = None
  /\ disk' = SavedDisk
  /\ container' = [path |-> path, key |-> k] /\ device' = None /\ db' = None
  /\ current' = None /\ active' = None
  /\ UNCHANGED <<path, phase, born>>
OpenProfileWithoutRecord(k) ==
  /\ phase = "up" /\ isContainerInitialized
  /\ Visible(SavedDisk[path], k)
  /\ LET d == Loaded(SavedDisk[path].db)
     IN  /\ d.prof = None
         /\ disk' = [SavedDisk EXCEPT ![path] = [key |-> k, db |-> d]]
  /\ NothingOpen
  /\ UNCHANGED <<path, phase, born>>

\* The persona openProfile makes active: the first default one in key order.
\* All personas stored are default ones (storePersona's validation never
\* succeeds); whose profile they belong to is not looked at.
FirstDefault(d, a) ==
  IF d.personas = {} THEN a = None
  ELSE a \in d.personas /\ \A j \in d.personas : a <= j

MutOpenProfile(k, a) ==
  /\ phase = "up" /\ isContainerInitialized
  /\ Visible(disk[path], k)
  /\ LET d == Loaded(disk[path].db)
     IN  d.prof # None /\ FirstDefault(d, a) /\ OpenedAs(k, d, FALSE, a)
  /\ UNCHANGED <<disk, path, phase, born>>
OpenProfile(k, a) ==
  /\ phase = "up" /\ isContainerInitialized
  /\ Visible(SavedDisk[path], k)
  /\ LET d == Loaded(SavedDisk[path].db)
     IN  d.prof # None /\ FirstDefault(d, a) /\ OpenedAs(k, d, FALSE, a)
  /\ disk' = SavedDisk
  /\ UNCHANGED <<path, phase, born>>

\* Mutant: the file there is, whatever passphrase it was made under.
MutFileFor(k) == IF SavedDisk[path] \notin {NoFile, None} THEN SavedDisk[path].db ELSE Blank
\* createProfile: the file under k, found or made (its slot header goes to disk
\* at once, over the one of another passphrase).
FileFor(k) == IF Visible(SavedDisk[path], k) THEN SavedDisk[path].db ELSE Blank

\* createProfile into the records the file holds already.  The result of
\* storing the default persona (personaStored) is not looked at.
CreateProfile(k, n, personaStored) ==
  /\ phase = "up" /\ isContainerInitialized
  /\ n \notin born
  /\ LET old == Loaded(FileFor(k))
         new == [old EXCEPT !.prof = n,
                            !.personas = IF personaStored THEN @ \cup {n} ELSE @]
     IN  OpenedAs(k, new, TRUE, n)
  /\ disk' = [SavedDisk EXCEPT ![path] = [key |-> k, db |-> FileFor(k)]]
  /\ born' = born \cup {n}
  /\ UNCHANGED <<path, phase>>

\* createProfile, when the database does not open or the profile record is not
\* stored (then closeDatabase flushes what was loaded and it is written back).
CreateProfileFails(k, loaded) ==
  /\ phase = "up" /\ isContainerInitialized
  /\ LET f == IF loaded THEN Loaded(FileFor(k)) ELSE FileFor(k)
     IN  disk' = [SavedDisk EXCEPT ![path] = [key |-> k, db |-> f]]
  /\ NothingOpen
  /\ UNCHANGED <<path, phase, born>>

\* importProfile of a well-formed export: createProfile.  Its storeProfile of
\* the bio never passes validation (no avatar), so nothing more changes.
ImportProfile(k, n) == CreateProfile(k, n, TRUE)

CloseProfile ==
  /\ phase = "up"
  /\ disk' = SavedDisk /\ NothingOpen
  /\ UNCHANGED <<path, phase, born>>

DeleteCurrentProfile ==
  /\ phase = "up" /\ isProfileOpen
  /\ disk' = [SavedDisk EXCEPT ![container.path] = None]
  /\ NothingOpen
  /\ UNCHANGED <<path, phase, born>>

\* flushProfile: serialise the database into the device, in RAM.
Flushed(d) == [buf |-> d, dirty |-> TRUE]

\* storeX, deleteX: any other record may change.  A deletion with a cascade
\* whose last step fails (~ok) keeps the others and flushes nothing.
StoreRecord(r, ok) ==
  /\ phase = "up" /\ isProfileOpen
  /\ db' = [db EXCEPT !.rest = r]
  /\ device' = IF ok THEN Flushed(db') ELSE device
  /\ UNCHANGED <<disk, path, container, current, active, phase, born>>

\* deletePersona: the records that hang on the persona, then the persona.
DeletePersona(i, r, ok) ==
  /\ phase = "up" /\ isProfileOpen
  /\ db' = [db EXCEPT !.rest = r, !.personas = IF ok THEN @ \ {i} ELSE @]
  /\ device' = IF ok THEN Flushed(db') ELSE device
  /\ UNCHANGED <<disk, path, container, current, active, phase, born>>

SetActivePersona(i) ==
  /\ phase = "up" /\ isProfileOpen
  /\ i \in db.personas
  /\ active' = i
  /\ UNCHANGED <<disk, path, container, device, db, current, phase, born>>

\* Core::exit: closeProfile, then the event loop is told to stop.
Exit ==
  /\ phase = "up"
  /\ disk' = SavedDisk /\ NothingOpen
  /\ phase' = "exiting"
  /\ UNCHANGED <<path, born>>

\* runShutdown, first half: the plugins are deinitialised, which closes the
\* database under Core's feet (closeDatabase flushes it into the device).
MutPluginsDown ==
  /\ phase \in {"up", "exiting"}
  /\ phase' = "down"
  /\ db' = None
  /\ device' = Flushed(db)
  /\ UNCHANGED <<disk, path, container, current, active, born>>
PluginsDown ==
  /\ phase \in {"up", "exiting"}
  /\ phase' = "down"
  /\ db' = None
  /\ device' = IF db # None THEN Flushed(db) ELSE device
  /\ UNCHANGED <<disk, path, container, current, active, born>>

\* runShutdown, second half: closeProfile finds the database closed and closes
\* the device.
FinalClose ==
  /\ phase = "down"
  /\ disk' = SavedDisk /\ NothingOpen
  /\ phase' = "stopped"
  /\ UNCHANGED <<path, born>>

\* A crash leaves the file being written back as it was, whole, or broken (its
\* blob rewritten in place).
Crash ==
  /\ phase \notin {"stopped", "crashed"}
  /\ \/ disk' = disk
     \/ /\ container # None /\ device # None
        /\ \E f \in {Pending, Broken} :
             disk' = [disk EXCEPT ![container.path] = [key |-> container.key, db |-> f]]
  /\ NothingOpen
  /\ phase' = "crashed"
  /\ UNCHANGED <<path, born>>

\* main(): Core::init takes up the container the settings name, if it exists.
Start(p) ==
  /\ phase \in {"stopped", "crashed"}
  /\ path' = IF disk[p] # NoFile THEN p ELSE None
  /\ phase' = "up"
  /\ UNCHANGED <<disk, session, born>>

Next ==
  \/ \E p \in Paths : CreateContainer(p) \/ Start(p)
  \/ OpenFails
  \/ \E k \in Keys : OpenProfileWithoutRecord(k)
  \/ \E k \in Keys, a \in Ids \cup {None} : OpenProfile(k, a)
  \/ \E k \in Keys, n \in Ids, stored \in BOOLEAN : CreateProfile(k, n, stored)
  \/ \E k \in Keys, n \in Ids : ImportProfile(k, n)
  \/ \E k \in Keys, loaded \in BOOLEAN : CreateProfileFails(k, loaded)
  \/ CloseProfile \/ DeleteCurrentProfile
  \/ \E r \in Rests \cup {None}, ok \in BOOLEAN : StoreRecord(r, ok)
  \/ \E i \in Ids, r \in Rests \cup {None}, ok \in BOOLEAN : DeletePersona(i, r, ok)
  \/ \E i \in Ids : SetActivePersona(i)
  \/ Exit \/ PluginsDown \/ FinalClose \/ Crash

Spec == Init /\ [][Next]_vars

-----------------------------------------------------------------------------
(* Properties *)

TypeOK ==
  /\ disk \in [Paths -> {NoFile, None} \cup [key : Keys, db : FileContent]]
  /\ path \in Paths \cup {None}
  /\ container \in {None} \cup [path : Paths, key : Keys]
  /\ device \in {None} \cup Device
  /\ db \in {None} \cup Database
  /\ current \in Ids \cup {None} /\ active \in Ids \cup {None}
  /\ phase \in {"up", "exiting", "down", "stopped", "crashed"}
  /\ born \in SUBSET Ids

\* Whatever failed on the way, container, device and profile are open together
\* or not at all, the database is the current profile's, and a device that is
\* not dirty (close() skips it) holds what the disk holds.
SessionWhole ==
  /\ (container = None) = (device = None)
  /\ (container = None) = (current = None)
  /\ db # None => container # None
  /\ phase \in {"up", "exiting"} /\ container # None => db # None
  /\ phase \in {"stopped", "crashed"} => container = None
  /\ container # None =>
       /\ Pending \in Database /\ Pending.prof = current
       /\ MustWrite \/ disk[container.path] = [key |-> container.key, db |-> device.buf]

(* Refinement: what the user sees of a container is the open database, or the *)
(* profile on the disk.                                                       *)
Profiles == {d \in Database : d.prof # None}
OnDisk(d) == IF d \notin {NoFile, None} /\ d.db \in Profiles THEN d ELSE None
Seen == [p \in Paths |->
  IF container # None /\ container.path = p
  THEN [key |-> container.key, db |-> Pending]
  ELSE OnDisk(disk[p])]
ProfilesOn(d) == [p \in Paths |-> OnDisk(d[p])]

OpenPath == IF container = None THEN None ELSE container.path

Vault == INSTANCE ProfileVault WITH
  Contents <- Profiles, vault <- Seen, durable <- ProfilesOn(disk), session <- OpenPath

\* Core over the plugin chain implements the vault: opening with any passphrase,
\* closing, leaving the program by any way and every failure on the way lose
\* nothing, only the open profile changes, and deleted profiles stay deleted.
ImplementsVault == Vault!Spec

\* What createProfile promises (CoreInterface.h): a brand-new profile, with its
\* default persona and nothing else.
NewProfileFresh ==
  [][born' # born => db'.personas \subseteq {db'.prof} /\ db'.rest = None]_vars

\* What can still be said where that fails: whatever a new profile finds is from
\* the profile seen in the same container under the same passphrase, never from
\* another container or passphrase, also not from the session that
\* createProfile closes first.
InheritsOwnOnly ==
  [][born' # born =>
       LET old == Seen[path]
           own == old # None /\ old.key = container'.key
       IN \/ db'.personas \subseteq {db'.prof} /\ db'.rest = None
          \/ /\ own
             /\ db'.personas \subseteq old.db.personas \cup {db'.prof}
             /\ db'.rest \in {None, old.db.rest}]_vars
=============================================================================
