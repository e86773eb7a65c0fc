-------------------------- MODULE CoreProfileProofs --------------------------
(* Proofs about CoreProfile: types, the session invariant and the refinement *)
(* of ProfileVault, for any containers, passphrases, ids and contents.       *)
EXTENDS CoreProfile, TLAPS

DiskState == {NoFile, None} \cup [key : Keys, db : FileContent]

\* The inductive invariant: SessionWhole needs the types to know that what is
\* pending is a database.
Inv == TypeOK /\ SessionWhole

USE IdsAssumption, SentinelsAssumption

LEMMA LoadedType ==
  ASSUME NEW f \in FileContent PROVE Loaded(f) \in Database
BY DEF Loaded, FileContent, NoRecords, Database

LEMMA PendingType ==
  ASSUME Inv, container # None
  PROVE  /\ Pending \in Profiles /\ device \in Device
         /\ container.path \in Paths /\ container.key \in Keys
         /\ container \in [path : Paths, key : Keys]
<1>1. container \in [path : Paths, key : Keys] /\ device \in Device
  BY DEF Inv, TypeOK, SessionWhole
<1>2. Pending \in Database /\ Pending.prof # None
  BY DEF Inv, TypeOK, SessionWhole
<1> QED BY <1>1, <1>2 DEF Profiles

LEMMA SavedDiskType ==
  ASSUME Inv PROVE SavedDisk \in [Paths -> DiskState]
<1>1. disk \in [Paths -> DiskState]
  BY DEF Inv, TypeOK, DiskState
<1>2. CASE container = None
  BY <1>1, <1>2 DEF SavedDisk
<1>3. CASE container # None
  <2>1. [key |-> container.key, db |-> Pending] \in DiskState
    BY <1>3, PendingType DEF DiskState, FileContent, Profiles
  <2> QED BY <1>1, <2>1 DEF SavedDisk
<1> QED BY <1>2, <1>3

\* Closing what is open leaves on the disk what the user saw.
LEMMA SavedIsSeen ==
  ASSUME Inv PROVE ProfilesOn(SavedDisk) = Seen
<1>1. disk \in [Paths -> DiskState]
  BY DEF Inv, TypeOK, DiskState
<1>2. CASE container = None
  BY <1>2 DEF SavedDisk, Seen, ProfilesOn
<1>3. CASE container # None
  <2> DEFINE entry == [key |-> container.key, db |-> Pending]
  <2>1. OnDisk(entry) = entry
    BY <1>3, PendingType DEF OnDisk, Profiles, FileContent
  <2>2. SavedDisk = [disk EXCEPT ![container.path] = entry]
    <3>1. CASE MustWrite
      BY <1>3, <3>1 DEF SavedDisk
    <3>2. CASE ~MustWrite
      <4>1. db = None /\ Pending = device.buf
        BY <1>3, <3>2 DEF MustWrite, Pending, Inv, SessionWhole
      <4>2. disk[container.path] = entry
        BY <1>3, <3>2, <4>1 DEF Inv, SessionWhole
      <4>3. SavedDisk = disk
        BY <3>2 DEF SavedDisk
      <4> QED BY <1>1, <4>2, <4>3
    <3> QED BY <3>1, <3>2
  <2>3. \A p \in Paths : OnDisk(SavedDisk[p]) = Seen[p]
    <3> TAKE p \in Paths
    <3>1. CASE p = container.path
      BY <1>1, <1>3, <2>1, <2>2, <3>1 DEF Seen
    <3>2. CASE p # container.path
      BY <1>1, <1>3, <2>2, <3>2 DEF Seen
    <3> QED BY <3>1, <3>2
  <2> QED BY <2>3 DEF ProfilesOn, Seen
<1> QED BY <1>2, <1>3

-----------------------------------------------------------------------------
(* Every operation keeps the invariant *)

\* All that is left to show of a step that closes everything is the disk.
LEMMA NothingOpenInv ==
  ASSUME Inv, NothingOpen, disk' \in [Paths -> DiskState], path' \in Paths \cup {None},
         phase' \in {"up", "exiting", "down", "stopped", "crashed"}, born' \in SUBSET Ids
  PROVE  Inv'
<1>1. TypeOK'
  BY DEF TypeOK, NothingOpen, DiskState
<1>2. SessionWhole'
  BY DEF SessionWhole, NothingOpen
<1> QED BY <1>1, <1>2 DEF Inv

\* An open profile d, flushed (dirty) or just as the disk has it.
LEMMA OpenedInv ==
  ASSUME Inv, NEW k \in Keys, NEW d \in Profiles, NEW dirty \in BOOLEAN,
         NEW a \in Ids \cup {None}, OpenedAs(k, d, dirty, a), path \in Paths,
         UNCHANGED <<path, phase>>, phase = "up",
         disk' \in [Paths -> DiskState], born' \in SUBSET Ids
  PROVE  Inv'
<1>1. d \in Database /\ d.prof # None /\ d.prof \in Ids
  BY DEF Profiles, Database
<1>2. TypeOK'
  BY <1>1 DEF Inv, TypeOK, OpenedAs, DiskState, Device
<1>3. db' # None /\ container' # None /\ device' # None /\ current' # None
  BY <1>1 DEF OpenedAs, Device
<1>4. Pending' = d /\ MustWrite'
  BY <1>1, <1>3 DEF Pending, MustWrite, OpenedAs
<1>5. SessionWhole'
  BY <1>1, <1>3, <1>4 DEF SessionWhole, OpenedAs
<1> QED BY <1>2, <1>5 DEF Inv

\* An edit of the open database.
LEMMA EditInv ==
  ASSUME Inv, isProfileOpen, db' \in Database, db'.prof = db.prof,
         device' = Flushed(db') \/ device' = device,
         UNCHANGED <<disk, path, container, current, active, phase, born>>
  PROVE  Inv'
<1>a. Flushed(db') \in Device
  BY DEF Flushed, Device
<1>1. device \in Device /\ device' \in Device
  BY <1>a DEF Inv, TypeOK, isProfileOpen
<1>2. TypeOK'
  BY <1>1 DEF Inv, TypeOK
<1>3. db' # None /\ device' # None
  BY <1>1
<1>4. Pending' = db' /\ MustWrite' /\ Pending = db
  BY <1>3 DEF Pending, MustWrite, isProfileOpen
<1>5. SessionWhole'
  BY <1>1, <1>3, <1>4 DEF Inv, SessionWhole, isProfileOpen
<1> QED BY <1>2, <1>5 DEF Inv

LEMMA OpenedType ==
  ASSUME Inv, isContainerInitialized, NEW k \in Keys
  PROVE  /\ path \in Paths
         /\ FileFor(k) \in FileContent /\ Loaded(FileFor(k)) \in Database
         /\ Visible(SavedDisk[path], k) =>
              /\ SavedDisk[path] \in [key : Keys, db : FileContent]
              /\ SavedDisk[path].key = k
              /\ Loaded(SavedDisk[path].db) \in Database
<1>1. path \in Paths
  BY DEF isContainerInitialized, Inv, TypeOK
<1>2. Visible(SavedDisk[path], k) =>
        SavedDisk[path] \in [key : Keys, db : FileContent] /\ SavedDisk[path].key = k
  BY <1>1, SavedDiskType DEF Visible, DiskState
<1>3. FileFor(k) \in FileContent
  BY <1>2 DEF FileFor, FileContent
<1> QED BY <1>1, <1>2, <1>3, LoadedType

LEMMA FileOnDisk ==
  ASSUME Inv, NEW p \in Paths, NEW k \in Keys, NEW f \in FileContent
  PROVE  [SavedDisk EXCEPT ![p] = [key |-> k, db |-> f]] \in [Paths -> DiskState]
<1>1. [key |-> k, db |-> f] \in DiskState
  BY DEF DiskState
<1> QED BY <1>1, SavedDiskType

LEMMA StepInv == Inv /\ [Next]_vars => Inv'
<1> SUFFICES ASSUME Inv, [Next]_vars PROVE Inv'
  OBVIOUS
<1>0. TypeOK /\ SessionWhole
  BY DEF Inv
<1>1. ASSUME NEW p \in Paths, CreateContainer(p) PROVE Inv'
  <2>1. disk' \in [Paths -> DiskState]
    BY <1>0, <1>1 DEF CreateContainer, TypeOK, DiskState
  <2>2. TypeOK'
    BY <1>0, <1>1, <2>1 DEF CreateContainer, TypeOK, session, DiskState
  <2>3. container # None => disk'[container.path] = disk[container.path] \/ MustWrite
    <3>1. CASE container # None /\ ~MustWrite
      <4>1. container.path \in Paths /\ disk[container.path] # NoFile
        BY <1>0, <3>1, PendingType DEF Inv, SessionWhole, TypeOK, Device, FileContent
      <4> QED BY <1>0, <1>1, <4>1 DEF CreateContainer, TypeOK
    <3> QED BY <3>1
  <2>4. SessionWhole'
    BY <1>0, <1>1, <2>3 DEF CreateContainer, SessionWhole, session, Pending, MustWrite
  <2> QED BY <2>2, <2>4 DEF Inv
<1>2. ASSUME NEW p \in Paths, Start(p) PROVE Inv'
  <2>1. TypeOK'
    BY <1>0, <1>2 DEF Start, TypeOK, session
  <2>2. SessionWhole'
    BY <1>0, <1>2 DEF Start, SessionWhole, session, Pending, MustWrite
  <2> QED BY <2>1, <2>2 DEF Inv
<1>3. CASE OpenFails
  BY <1>0, <1>3, SavedDiskType, NothingOpenInv DEF OpenFails, TypeOK
<1>4. ASSUME NEW k \in Keys, OpenProfileWithoutRecord(k) PROVE Inv'
  <2>1. Loaded(SavedDisk[path].db) \in FileContent /\ path \in Paths
    BY <1>4, OpenedType DEF OpenProfileWithoutRecord, FileContent
  <2>2. disk' \in [Paths -> DiskState]
    BY <1>4, <2>1, FileOnDisk DEF OpenProfileWithoutRecord
  <2> QED BY <1>0, <1>4, <2>2, NothingOpenInv DEF OpenProfileWithoutRecord, TypeOK
<1>5. ASSUME NEW k \in Keys, NEW a \in Ids \cup {None}, OpenProfile(k, a) PROVE Inv'
  <2>1. Loaded(SavedDisk[path].db) \in Profiles /\ path \in Paths
    BY <1>5, OpenedType DEF OpenProfile, Profiles
  <2> QED BY <1>0, <1>5, <2>1, SavedDiskType, OpenedInv DEF OpenProfile, TypeOK
<1>6. ASSUME NEW k \in Keys, NEW n \in Ids, NEW stored \in BOOLEAN,
             CreateProfile(k, n, stored)
      PROVE  Inv'
  <2> DEFINE old == Loaded(FileFor(k))
             new == [old EXCEPT !.prof = n,
                                !.personas = IF stored THEN @ \cup {n} ELSE @]
  <2>1. path \in Paths /\ old \in Database /\ FileFor(k) \in FileContent
    BY <1>6, OpenedType DEF CreateProfile
  <2>2. new \in Profiles
    BY <2>1 DEF Profiles, Database
  <2>3. disk' \in [Paths -> DiskState]
    BY <1>6, <2>1, FileOnDisk DEF CreateProfile
  <2>4. OpenedAs(k, new, TRUE, n) /\ born' \in SUBSET Ids
    BY <1>0, <1>6 DEF CreateProfile, TypeOK
  <2> HIDE DEF new
  <2> QED BY <1>6, <2>1, <2>2, <2>3, <2>4, OpenedInv DEF CreateProfile
<1>7. ASSUME NEW k \in Keys, NEW loaded \in BOOLEAN, CreateProfileFails(k, loaded)
      PROVE  Inv'
  <2>1. path \in Paths /\ FileFor(k) \in FileContent /\ Loaded(FileFor(k)) \in FileContent
    BY <1>7, OpenedType DEF CreateProfileFails, FileContent
  <2>2. disk' \in [Paths -> DiskState]
    BY <1>7, <2>1, FileOnDisk DEF CreateProfileFails
  <2> QED BY <1>0, <1>7, <2>2, NothingOpenInv DEF CreateProfileFails, TypeOK
<1>8. CASE CloseProfile
  BY <1>0, <1>8, SavedDiskType, NothingOpenInv DEF CloseProfile, TypeOK
<1>9. CASE DeleteCurrentProfile
  <2>1. disk' \in [Paths -> DiskState]
    BY <1>9, SavedDiskType DEF DeleteCurrentProfile, DiskState
  <2> QED BY <1>0, <1>9, <2>1, NothingOpenInv DEF DeleteCurrentProfile, TypeOK
<1>10. ASSUME NEW r \in Rests \cup {None}, NEW ok \in BOOLEAN, StoreRecord(r, ok)
       PROVE  Inv'
  <2>1. db \in Database
    BY <1>0, <1>10 DEF StoreRecord, isProfileOpen, TypeOK
  <2>2. db' \in Database /\ db'.prof = db.prof
    BY <1>10, <2>1 DEF StoreRecord, Database
  <2> QED BY <1>10, <2>2, EditInv DEF StoreRecord
<1>11. ASSUME NEW i \in Ids, NEW r \in Rests \cup {None}, NEW ok \in BOOLEAN,
              DeletePersona(i, r, ok)
       PROVE  Inv'
  <2>1. db \in Database
    BY <1>0, <1>11 DEF DeletePersona, isProfileOpen, TypeOK
  <2>2. db' \in Database /\ db'.prof = db.prof
    BY <1>11, <2>1 DEF DeletePersona, Database
  <2> QED BY <1>11, <2>2, EditInv DEF DeletePersona
<1>12. ASSUME NEW i \in Ids, SetActivePersona(i) PROVE Inv'
  <2>1. TypeOK'
    BY <1>0, <1>12 DEF SetActivePersona, TypeOK
  <2>2. SessionWhole'
    BY <1>0, <1>12 DEF SetActivePersona, SessionWhole, Pending, MustWrite
  <2> QED BY <2>1, <2>2 DEF Inv
<1>13. CASE Exit
  BY <1>0, <1>13, SavedDiskType, NothingOpenInv DEF Exit, TypeOK
<1>14. CASE PluginsDown
  <2>1. db # None => container # None /\ db \in Database /\ device \in Device
    BY <1>0, <1>14 DEF PluginsDown, TypeOK, SessionWhole
  <2>2. TypeOK'
    BY <1>0, <1>14, <2>1 DEF PluginsDown, TypeOK, Flushed, Device
  <2>3. CASE db = None
    <3>1. container = None
      BY <1>0, <1>14, <2>3 DEF PluginsDown, SessionWhole
    <3> QED BY <1>0, <1>14, <2>2, <2>3, <3>1 DEF PluginsDown, SessionWhole, Inv
  <2>4. CASE db # None
    <3>a. Flushed(db) \in Device /\ Flushed(db).buf = db /\ Flushed(db).dirty
      BY <2>1, <2>4 DEF Flushed, Device
    <3>b. device' = Flushed(db) /\ db' = None /\ device' # None
      BY <1>14, <2>4, <3>a DEF PluginsDown
    <3>1. Pending' = Pending /\ MustWrite' /\ device' # None
      BY <2>4, <3>a, <3>b DEF Pending, MustWrite
    <3>2. SessionWhole'
      BY <1>0, <1>14, <2>1, <3>1 DEF PluginsDown, SessionWhole
    <3> QED BY <2>2, <3>2 DEF Inv
  <2> QED BY <2>3, <2>4
<1>15. CASE FinalClose
  BY <1>0, <1>15, SavedDiskType, NothingOpenInv DEF FinalClose, TypeOK
<1>16. CASE Crash
  <2>1. disk' \in [Paths -> DiskState]
    <3>1. CASE disk' = disk
      BY <1>0, <3>1 DEF TypeOK, DiskState
    <3>2. ASSUME container # None, NEW f \in {Pending, Broken},
                 disk' = [disk EXCEPT ![container.path] = [key |-> container.key, db |-> f]]
          PROVE  disk' \in [Paths -> DiskState]
      <4>1. f \in FileContent
        BY <3>2, PendingType DEF FileContent, Profiles
      <4>2. [key |-> container.key, db |-> f] \in DiskState
        BY <3>2, <4>1, PendingType DEF DiskState
      <4> QED BY <1>0, <3>2, <4>2 DEF TypeOK, DiskState
    <3> QED BY <1>16, <3>1, <3>2 DEF Crash
  <2> QED BY <1>0, <1>16, <2>1, NothingOpenInv DEF Crash, TypeOK
<1>17. CASE UNCHANGED vars
  <2>1. TypeOK'
    BY <1>0, <1>17 DEF vars, TypeOK
  <2>2. SessionWhole'
    BY <1>0, <1>17 DEF vars, SessionWhole, Pending, MustWrite
  <2> QED BY <2>1, <2>2 DEF Inv
<1>18. ASSUME NEW k \in Keys, NEW n \in Ids, ImportProfile(k, n) PROVE Inv'
  BY <1>6, <1>18 DEF ImportProfile
<1> QED
  BY <1>1, <1>2, <1>3, <1>4, <1>5, <1>6, <1>7, <1>8, <1>9, <1>10, <1>11, <1>12,
     <1>13, <1>14, <1>15, <1>16, <1>17, <1>18 DEF Next

\* The variables keep their types.
THEOREM TypesHold == Spec => []TypeOK
<1>1. Init => Inv
  BY DEF Init, Inv, TypeOK, SessionWhole
<1>2. Inv => TypeOK
  BY DEF Inv
<1> QED BY <1>1, <1>2, StepInv, PTL DEF Spec

\* Container, device, database and current profile are open together or not at
\* all, whichever operation failed half-way, up to the end of the program.
THEOREM SessionStaysWhole == Spec => []SessionWhole
<1>1. Init => Inv
  BY DEF Init, Inv, TypeOK, SessionWhole
<1>2. Inv => SessionWhole
  BY DEF Inv
<1> QED BY <1>1, <1>2, StepInv, PTL DEF Spec

-----------------------------------------------------------------------------
(* Every operation is one of the vault's, or changes nothing the vault shows *)

LEMMA ProfilesOnExcept ==
  ASSUME NEW D \in [Paths -> DiskState], NEW p \in Paths, NEW e, NEW E,
         E = [D EXCEPT ![p] = e]
  PROVE  ProfilesOn(E) = [ProfilesOn(D) EXCEPT ![p] = OnDisk(e)]
BY DEF ProfilesOn

LEMMA SeenOpen ==
  ASSUME Inv, container # None
  PROVE  /\ OpenPath = container.path /\ OpenPath # None
         /\ Seen[OpenPath] = [key |-> container.key, db |-> Pending]
         /\ Seen[OpenPath] # None
         /\ Pending \in Profiles
<1>1. OpenPath = container.path /\ OpenPath \in Paths
  BY PendingType DEF OpenPath
<1>2. [key |-> container.key, db |-> Pending] \in [key : Keys, db : FileContent]
  BY PendingType DEF FileContent, Profiles
<1>3. Seen[OpenPath] = [key |-> container.key, db |-> Pending]
  BY <1>1 DEF Seen
<1> QED BY <1>1, <1>2, <1>3, PendingType

\* A step that closes everything and leaves the seen profiles on the disk.
LEMMA ClosingStep ==
  ASSUME Inv, NothingOpen, ProfilesOn(disk') = Seen, born' = born
  PROVE  Vault!Close
<1>1. OpenPath' = None /\ Seen' = ProfilesOn(disk')
  BY DEF OpenPath, NothingOpen, Seen, ProfilesOn
<1> QED BY <1>1 DEF Vault!Close, ProfilesOn

LEMMA EditStep ==
  ASSUME Inv, isProfileOpen, db' \in Database, db'.prof = db.prof,
         UNCHANGED <<disk, container, born>>
  PROVE  Vault!Edit
<1>1. Pending = db /\ Pending' = db' /\ container # None /\ db' # None
  BY DEF Pending, isProfileOpen
<1>2. db' \in Profiles
  BY <1>1, PendingType DEF Profiles
<1>3. OpenPath' = OpenPath /\ ProfilesOn(disk') = ProfilesOn(disk)
  BY DEF OpenPath
<1>4. Seen' = [Seen EXCEPT ![OpenPath] = [key |-> container.key, db |-> db']]
  <2>1. \A p \in Paths :
          Seen'[p] = IF p = OpenPath THEN [key |-> container.key, db |-> db'] ELSE Seen[p]
    BY <1>1, SeenOpen DEF Seen
  <2> QED BY <2>1, SeenOpen DEF Seen
<1>5. Seen[OpenPath].key = container.key /\ Seen[OpenPath].db = db
  BY <1>1, SeenOpen
<1>6. Seen[OpenPath] # None /\ OpenPath # None
  BY <1>1, SeenOpen
<1> QED BY <1>2, <1>3, <1>4, <1>5, <1>6 DEF Vault!Edit, ProfilesOn

\* What a creation under k finds, as the vault sees it.
LEMMA KeptOnDisk ==
  ASSUME Inv, isContainerInitialized, NEW k \in Keys,
         NEW f \in {FileFor(k), Loaded(FileFor(k))}
  PROVE  OnDisk([key |-> k, db |-> f]) = Vault!Kept(path, k)
<1>1. path \in Paths /\ Seen[path] = OnDisk(SavedDisk[path])
  BY OpenedType, SavedIsSeen DEF ProfilesOn
<1>2. [key |-> k, db |-> f] \in [key : Keys, db : FileContent]
  BY OpenedType DEF FileContent
<1>3. f \in Profiles <=> FileFor(k) \in Profiles /\ f = FileFor(k)
  BY DEF Loaded, Profiles, NoRecords
<1>4. CASE Visible(SavedDisk[path], k)
  <2>1. SavedDisk[path] = [key |-> k, db |-> FileFor(k)]
    BY <1>4, OpenedType DEF FileFor
  <2>2. CASE FileFor(k) \in Profiles
    <3>1. SavedDisk[path] \notin {NoFile, None} /\ f = FileFor(k)
      BY <1>3, <1>4, <2>2 DEF Visible, Loaded, Profiles
    <3>2. OnDisk(SavedDisk[path]) = [key |-> k, db |-> f]
      BY <2>1, <2>2, <3>1 DEF OnDisk
    <3>3. Seen[path] = [key |-> k, db |-> f] /\ [key |-> k, db |-> f] # None
      BY <1>1, <1>2, <3>2
    <3>4. Vault!Kept(path, k) = [key |-> k, db |-> f]
      BY <3>3 DEF Vault!Kept
    <3> QED BY <2>1, <3>1, <3>2, <3>4
  <2>3. CASE FileFor(k) \notin Profiles
    <3>1. OnDisk([key |-> k, db |-> f]) = None
      BY <1>3, <2>3 DEF OnDisk
    <3>2. Seen[path] = None
      BY <1>1, <2>1, <2>3 DEF OnDisk
    <3> QED BY <3>1, <3>2 DEF Vault!Kept
  <2> QED BY <2>2, <2>3
<1>5. CASE ~Visible(SavedDisk[path], k)
  <2>1. FileFor(k) = Blank
    BY <1>5 DEF FileFor
  <2>2. f \notin Profiles
    BY <1>3, <2>1 DEF Profiles
  <2>3. OnDisk([key |-> k, db |-> f]) = None
    BY <2>2 DEF OnDisk
  <2>4. Seen[path] = None \/ Seen[path].key # k
    BY <1>1, <1>5 DEF OnDisk, Visible
  <2> QED BY <2>3, <2>4 DEF Vault!Kept
<1> QED BY <1>4, <1>5

LEMMA VaultStep == Inv /\ [Next]_vars => [Vault!Next]_(Vault!vaultVars)
<1> SUFFICES ASSUME Inv, [Next]_vars
             PROVE  Vault!Next \/ UNCHANGED Vault!vaultVars
  OBVIOUS
<1> USE DEF Vault!Next
<1>0. TypeOK /\ SessionWhole /\ disk \in [Paths -> DiskState]
  BY DEF Inv, TypeOK, DiskState
<1>a. ASSUME UNCHANGED <<container, device, db, born>>,
             \A p \in Paths : OnDisk(disk'[p]) = OnDisk(disk[p])
      PROVE  UNCHANGED Vault!vaultVars
  <2>1. Seen' = Seen /\ ProfilesOn(disk)' = ProfilesOn(disk) /\ OpenPath' = OpenPath
    BY <1>a DEF Seen, ProfilesOn, OpenPath, Pending
  <2> QED BY <1>a, <2>1 DEF Vault!vaultVars
<1>b. ASSUME disk' = SavedDisk, NothingOpen, born' = born PROVE Vault!Next
  BY <1>b, ClosingStep, SavedIsSeen
<1>1. ASSUME NEW p \in Paths, CreateContainer(p) PROVE UNCHANGED Vault!vaultVars
  <2>1. \A q \in Paths : OnDisk(disk'[q]) = OnDisk(disk[q])
    BY <1>0, <1>1 DEF CreateContainer, OnDisk
  <2> QED BY <1>1, <1>a, <2>1 DEF CreateContainer, session
<1>2. ASSUME NEW p \in Paths, Start(p) PROVE UNCHANGED Vault!vaultVars
  BY <1>2, <1>a DEF Start, session
<1>3. CASE OpenFails
  BY <1>3, <1>b DEF OpenFails
<1>4. ASSUME NEW k \in Keys, OpenProfileWithoutRecord(k) PROVE Vault!Next
  <2> DEFINE entry == [key |-> k, db |-> Loaded(SavedDisk[path].db)]
  <2>1. path \in Paths /\ Loaded(SavedDisk[path].db) \notin Profiles
    BY <1>4, OpenedType DEF OpenProfileWithoutRecord, Profiles
  <2>2. OnDisk(entry) = None
    BY <2>1 DEF OnDisk
  <2>3. SavedDisk[path].db \notin Profiles
    BY <2>1 DEF Loaded, Profiles
  <2>4. OnDisk(SavedDisk[path]) = None
    BY <2>3 DEF OnDisk
  <2>5. disk' = [SavedDisk EXCEPT ![path] = entry]
    BY <1>4 DEF OpenProfileWithoutRecord
  <2>6. ProfilesOn(disk') = [Seen EXCEPT ![path] = None]
    <3> HIDE DEF entry
    <3>1. ProfilesOn(disk') = [ProfilesOn(SavedDisk) EXCEPT ![path] = OnDisk(entry)]
      BY <2>1, <2>5, SavedDiskType, ProfilesOnExcept
    <3> QED BY <2>2, <3>1, SavedIsSeen
  <2>7. Seen[path] = None
    BY <2>1, <2>4, SavedIsSeen DEF ProfilesOn
  <2>8. ProfilesOn(disk') = Seen
    BY <2>6, <2>7 DEF Seen
  <2> QED BY <1>4, <2>8, ClosingStep DEF OpenProfileWithoutRecord
<1>5. ASSUME NEW k \in Keys, NEW a \in Ids \cup {None}, OpenProfile(k, a)
      PROVE  Vault!Next
  <2> DEFINE d == Loaded(SavedDisk[path].db)
  <2>1. /\ path \in Paths /\ d \in Database /\ d.prof # None
        /\ SavedDisk[path] \in [key : Keys, db : FileContent] /\ SavedDisk[path].key = k
    BY <1>5, OpenedType DEF OpenProfile
  <2>2. SavedDisk[path].db = d /\ d \in Profiles
    BY <2>1 DEF Loaded, NoRecords, Profiles
  <2>3. SavedDisk[path] = [key |-> k, db |-> d] /\ SavedDisk[path] \notin {NoFile, None}
    BY <2>1, <2>2
  <2>4. Seen[path] = [key |-> k, db |-> d] /\ Seen[path] # None
    BY <2>1, <2>2, <2>3, SavedIsSeen DEF ProfilesOn, OnDisk
  <2>5. OpenedAs(k, d, FALSE, a) /\ disk' = SavedDisk /\ path' = path /\ born' = born
    BY <1>5 DEF OpenProfile
  <2>6. /\ container' # None /\ container'.path = path /\ container'.key = k
        /\ Pending' = d
    BY <2>1, <2>5 DEF OpenedAs, Pending
  <2>7. OpenPath' = path /\ ProfilesOn(disk)' = Seen
    BY <2>5, <2>6, SavedIsSeen DEF OpenPath, ProfilesOn
  <2>8. Seen' = Seen
    <3>1. \A p \in Paths : Seen'[p] = Seen[p]
      <4> TAKE p \in Paths
      <4>1. CASE p = path
        BY <2>4, <2>6, <4>1 DEF Seen
      <4>2. CASE p # path
        <5>1. Seen'[p] = OnDisk(SavedDisk[p])
          BY <2>5, <2>6, <4>2 DEF Seen
        <5> QED BY <5>1, SavedIsSeen DEF ProfilesOn
      <4> QED BY <4>1, <4>2
    <3> QED BY <3>1 DEF Seen
  <2>9. Vault!Open(path)
    BY <2>4, <2>5, <2>7, <2>8 DEF Vault!Open
  <2> QED BY <2>1, <2>9
<1>6. ASSUME NEW k \in Keys, NEW n \in Ids, NEW stored \in BOOLEAN,
             CreateProfile(k, n, stored)
      PROVE  Vault!Next
  <2> DEFINE old == Loaded(FileFor(k))
             new == [old EXCEPT !.prof = n,
                                !.personas = IF stored THEN @ \cup {n} ELSE @]
             found == [key |-> k, db |-> FileFor(k)]
  <2>1. isContainerInitialized /\ path \in Paths /\ old \in Database /\ FileFor(k) \in FileContent
    BY <1>6, OpenedType DEF CreateProfile
  <2>2. new \in Profiles /\ new.prof = n
    BY <2>1 DEF Profiles, Database
  <2>3. /\ OpenedAs(k, new, TRUE, n) /\ n \notin born /\ born' = born \cup {n}
        /\ disk' = [SavedDisk EXCEPT ![path] = found] /\ path' = path
    BY <1>6 DEF CreateProfile
  <2> HIDE DEF new
  <2>4. ProfilesOn(disk') = [Seen EXCEPT ![path] = Vault!Kept(path, k)]
    <3>1. OnDisk(found) = Vault!Kept(path, k)
      BY <2>1, KeptOnDisk
    <3> HIDE DEF found
    <3>2. ProfilesOn(disk') = [ProfilesOn(SavedDisk) EXCEPT ![path] = OnDisk(found)]
      BY <2>1, <2>3, SavedDiskType, ProfilesOnExcept
    <3> QED BY <3>1, <3>2, SavedIsSeen
  <2>5. /\ container' # None /\ container'.path = path /\ container'.key = k
        /\ Pending' = new
    <3>1. new # None
      BY <2>2 DEF Profiles
    <3> QED BY <2>1, <2>3, <3>1 DEF OpenedAs, Pending
  <2>6. OpenPath' = path /\ ProfilesOn(disk)' = ProfilesOn(disk')
    BY <2>5 DEF OpenPath, ProfilesOn
  <2>7. Seen' = [Seen EXCEPT ![path] = [key |-> k, db |-> new]]
    <3>1. \A p \in Paths :
            Seen'[p] = IF p = path THEN [key |-> k, db |-> new] ELSE Seen[p]
      <4> TAKE p \in Paths
      <4>1. CASE p = path
        BY <2>5, <4>1 DEF Seen
      <4>2. CASE p # path
        <5>1. Seen'[p] = OnDisk(SavedDisk[p])
          BY <2>3, <2>5, <4>2, SavedDiskType DEF Seen
        <5> QED BY <4>2, <5>1, SavedIsSeen DEF ProfilesOn
      <4> QED BY <4>1, <4>2
    <3> QED BY <2>1, <3>1 DEF Seen
  <2>8. Vault!Create(path, k)
    BY <2>2, <2>3, <2>4, <2>6, <2>7 DEF Vault!Create
  <2> QED BY <2>1, <2>8
<1>7. ASSUME NEW k \in Keys, NEW loaded \in BOOLEAN, CreateProfileFails(k, loaded)
      PROVE  Vault!Next
  <2> DEFINE f == IF loaded THEN Loaded(FileFor(k)) ELSE FileFor(k)
             entry == [key |-> k, db |-> f]
  <2>1. isContainerInitialized /\ path \in Paths
    BY <1>7, OpenedType DEF CreateProfileFails
  <2>2. disk' = [SavedDisk EXCEPT ![path] = entry] /\ NothingOpen /\ born' = born
    BY <1>7 DEF CreateProfileFails
  <2>3. OnDisk(entry) = Vault!Kept(path, k)
    BY <2>1, KeptOnDisk
  <2>4. ProfilesOn(disk') = [Seen EXCEPT ![path] = Vault!Kept(path, k)]
    <3> HIDE DEF entry
    <3>1. ProfilesOn(disk') = [ProfilesOn(SavedDisk) EXCEPT ![path] = OnDisk(entry)]
      BY <2>1, <2>2, SavedDiskType, ProfilesOnExcept
    <3> QED BY <2>3, <3>1, SavedIsSeen
  <2>5. OpenPath' = None /\ Seen' = ProfilesOn(disk') /\ ProfilesOn(disk)' = ProfilesOn(disk')
    BY <2>2 DEF OpenPath, NothingOpen, Seen, ProfilesOn
  <2>6. Vault!CreateFails(path, k)
    BY <2>2, <2>4, <2>5 DEF Vault!CreateFails
  <2> QED BY <2>1, <2>6
<1>8. CASE CloseProfile
  BY <1>8, <1>b DEF CloseProfile
<1>9. CASE DeleteCurrentProfile
  <2>1. /\ disk' = [SavedDisk EXCEPT ![OpenPath] = None] /\ OpenPath \in Paths
        /\ OpenPath # None /\ NothingOpen /\ born' = born
    BY <1>9, SeenOpen, PendingType DEF DeleteCurrentProfile, isProfileOpen
  <2>2. OnDisk(None) = None
    BY DEF OnDisk
  <2>3. ProfilesOn(disk') = [Seen EXCEPT ![OpenPath] = None]
    <3>1. ProfilesOn(disk') = [ProfilesOn(SavedDisk) EXCEPT ![OpenPath] = OnDisk(None)]
      BY <2>1, SavedDiskType, ProfilesOnExcept
    <3> QED BY <2>2, <3>1, SavedIsSeen
  <2>4. OpenPath' = None /\ Seen' = ProfilesOn(disk') /\ ProfilesOn(disk)' = ProfilesOn(disk')
    BY <2>1 DEF OpenPath, NothingOpen, Seen, ProfilesOn
  <2> QED BY <2>1, <2>3, <2>4 DEF Vault!Delete
<1>10. ASSUME NEW r \in Rests \cup {None}, NEW ok \in BOOLEAN, StoreRecord(r, ok)
       PROVE  Vault!Next
  <2>1. isProfileOpen /\ db \in Database
    BY <1>0, <1>10 DEF StoreRecord, isProfileOpen, TypeOK
  <2>2. db' \in Database /\ db'.prof = db.prof
    BY <1>10, <2>1 DEF StoreRecord, Database
  <2> QED BY <1>10, <2>1, <2>2, EditStep DEF StoreRecord
<1>11. ASSUME NEW i \in Ids, NEW r \in Rests \cup {None}, NEW ok \in BOOLEAN,
              DeletePersona(i, r, ok)
       PROVE  Vault!Next
  <2>1. isProfileOpen /\ db \in Database
    BY <1>0, <1>11 DEF DeletePersona, isProfileOpen, TypeOK
  <2>2. db' \in Database /\ db'.prof = db.prof
    BY <1>11, <2>1 DEF DeletePersona, Database
  <2> QED BY <1>11, <2>1, <2>2, EditStep DEF DeletePersona
<1>12. ASSUME NEW i \in Ids, SetActivePersona(i) PROVE UNCHANGED Vault!vaultVars
  BY <1>12, <1>a DEF SetActivePersona
<1>13. CASE Exit
  BY <1>13, <1>b DEF Exit
<1>14. CASE PluginsDown
  <2>1. container # None => Pending' = Pending
    <3>1. CASE container # None
      <4>1. db # None
        BY <1>0, <1>14, <3>1 DEF PluginsDown, SessionWhole
      <4>2. device' = Flushed(db) /\ db' = None
        BY <1>14, <4>1 DEF PluginsDown
      <4> QED BY <4>1, <4>2 DEF Pending, Flushed
    <3> QED BY <3>1
  <2>2. UNCHANGED <<disk, container, born>>
    BY <1>14 DEF PluginsDown
  <2>3. Seen' = Seen /\ ProfilesOn(disk)' = ProfilesOn(disk) /\ OpenPath' = OpenPath
    BY <2>1, <2>2 DEF Seen, ProfilesOn, OpenPath
  <2> QED BY <2>2, <2>3 DEF Vault!vaultVars
<1>15. CASE FinalClose
  BY <1>15, <1>b DEF FinalClose
<1>16. CASE Crash
  <2>1. OpenPath' = None /\ Seen' = ProfilesOn(disk)' /\ born' = born
    BY <1>16 DEF Crash, OpenPath, NothingOpen, Seen, ProfilesOn
  <2>2. \/ ProfilesOn(disk)' = ProfilesOn(disk)
        \/ OpenPath # None /\ \E f \in {Seen[OpenPath], None} :
             ProfilesOn(disk)' = [ProfilesOn(disk) EXCEPT ![OpenPath] = f]
    <3>1. CASE disk' = disk
      BY <3>1 DEF ProfilesOn
    <3>2. ASSUME container # None, NEW f \in {Pending, Broken},
                 disk' = [disk EXCEPT ![container.path] = [key |-> container.key, db |-> f]]
          PROVE  OpenPath # None /\ \E g \in {Seen[OpenPath], None} :
                   ProfilesOn(disk)' = [ProfilesOn(disk) EXCEPT ![OpenPath] = g]
      <4> DEFINE entry == [key |-> container.key, db |-> f]
      <4>1. OnDisk(entry) \in {Seen[OpenPath], None}
        <5>1. CASE f = Pending
          BY <3>2, <5>1, SeenOpen DEF OnDisk
        <5>2. CASE f = Broken
          BY <5>2 DEF OnDisk, Profiles
        <5> QED BY <5>1, <5>2
      <4>2. ProfilesOn(disk') = [ProfilesOn(disk) EXCEPT ![OpenPath] = OnDisk(entry)]
        <5>1. disk' = [disk EXCEPT ![OpenPath] = entry] /\ OpenPath \in Paths
          BY <3>2, SeenOpen, PendingType
        <5> HIDE DEF entry
        <5> QED BY <1>0, <5>1, ProfilesOnExcept
      <4>3. ProfilesOn(disk)' = ProfilesOn(disk')
        BY DEF ProfilesOn
      <4> QED BY <3>2, <4>1, <4>2, <4>3, SeenOpen
    <3> QED BY <1>16, <3>1, <3>2 DEF Crash
  <2> QED BY <2>1, <2>2 DEF Vault!Crash
<1>17. CASE UNCHANGED vars
  BY <1>17, <1>a DEF vars
<1>18. ASSUME NEW k \in Keys, NEW n \in Ids, ImportProfile(k, n) PROVE Vault!Next
  BY <1>6, <1>18 DEF ImportProfile
<1> QED
  BY <1>1, <1>2, <1>3, <1>4, <1>5, <1>6, <1>7, <1>8, <1>9, <1>10, <1>11, <1>12,
     <1>13, <1>14, <1>15, <1>16, <1>17, <1>18 DEF Next

\* Core over the plugin chain implements the vault: no opening, closing, ending
\* of the program or failure on the way loses what the user saw, and a crash
\* costs at most the edits since the profile was opened or the one profile
\* being written back.
THEOREM CoreImplementsVault == Spec => ImplementsVault
<1>1. Init => Inv
  BY DEF Init, Inv, TypeOK, SessionWhole
<1>2. Init => Vault!Init
  BY DEF Init, Vault!Init, Seen, ProfilesOn, OnDisk, OpenPath
<1> QED BY <1>1, <1>2, StepInv, VaultStep, PTL DEF Spec, ImplementsVault, Vault!Spec

-----------------------------------------------------------------------------
(* What a new profile takes over *)

\* Every persona stored was given out, and a database without profile record
\* has no records: the operations leave nothing behind that a later createProfile
\* could meet without its profile.
Grown(d, given) == d.personas \subseteq given /\ (d.prof = None => d = NoRecords)
GrownOn(D, given) ==
  \A p \in Paths : D[p] \notin {NoFile, None} /\ D[p].db \in Database => Grown(D[p].db, given)
AllGrown == GrownOn(disk, born) /\ (container # None => Grown(Pending, born))

LEMMA GrownMonotonic ==
  ASSUME NEW d, NEW B, NEW C, B \subseteq C, Grown(d, B) PROVE Grown(d, C)
BY DEF Grown

LEMMA LoadedGrown ==
  ASSUME NEW f \in FileContent, NEW B, f \in Database => Grown(f, B) PROVE Grown(Loaded(f), B)
BY DEF Grown, Loaded, NoRecords

LEMMA WrittenGrown ==
  ASSUME NEW D \in [Paths -> DiskState], NEW B, GrownOn(D, B), NEW p \in Paths, NEW k,
         NEW f, f \in Database => Grown(f, B), NEW E, E = [D EXCEPT ![p] = [key |-> k, db |-> f]]
  PROVE  GrownOn(E, B)
<1> SUFFICES ASSUME NEW q \in Paths, E[q] \notin {NoFile, None}, E[q].db \in Database
             PROVE  Grown(E[q].db, B)
  BY DEF GrownOn
<1>1. CASE q = p
  <2>1. E[q].db = f
    BY <1>1
  <2> QED BY <2>1
<1>2. CASE q # p
  BY <1>2 DEF GrownOn
<1> QED BY <1>1, <1>2

LEMMA SavedGrown == ASSUME Inv, AllGrown PROVE GrownOn(SavedDisk, born)
<1>1. CASE container # None /\ MustWrite
  <2>1. disk \in [Paths -> DiskState] /\ container.path \in Paths
    BY <1>1, PendingType DEF Inv, TypeOK, DiskState
  <2>2. SavedDisk = [disk EXCEPT ![container.path] = [key |-> container.key, db |-> Pending]]
    BY <1>1 DEF SavedDisk
  <2>3. GrownOn(disk, born) /\ Grown(Pending, born)
    BY <1>1 DEF AllGrown
  <2> QED BY <2>1, <2>2, <2>3, WrittenGrown
<1>2. CASE ~(container # None /\ MustWrite)
  BY <1>2 DEF SavedDisk, AllGrown
<1> QED BY <1>1, <1>2

\* Steps that close everything.
LEMMA NothingOpenGrown ==
  ASSUME NothingOpen, GrownOn(disk', born) , born' = born PROVE AllGrown'
BY DEF NothingOpen, AllGrown, GrownOn

LEMMA FileForGrown ==
  ASSUME Inv, AllGrown, isContainerInitialized, NEW k \in Keys
  PROVE  /\ FileFor(k) \in Database => Grown(FileFor(k), born)
         /\ Grown(Loaded(FileFor(k)), born)
         /\ Visible(SavedDisk[path], k) => Grown(Loaded(SavedDisk[path].db), born)
<1>1. path \in Paths /\ FileFor(k) \in FileContent
  BY OpenedType
<1>2. Visible(SavedDisk[path], k) =>
        SavedDisk[path] \notin {NoFile, None} /\ SavedDisk[path].db \in FileContent
  BY OpenedType DEF Visible
<1>3. Visible(SavedDisk[path], k) /\ SavedDisk[path].db \in Database => Grown(SavedDisk[path].db, born)
  BY <1>1, <1>2, SavedGrown DEF GrownOn
<1>4. FileFor(k) \in Database => Grown(FileFor(k), born)
  BY <1>3 DEF FileFor
<1>5. Visible(SavedDisk[path], k) => Grown(Loaded(SavedDisk[path].db), born)
  BY <1>2, <1>3, LoadedGrown
<1> QED BY <1>1, <1>4, <1>5, LoadedGrown

\* An open profile.
LEMMA OpenedGrown ==
  ASSUME NEW k, NEW d \in Database, NEW dirty, NEW a, OpenedAs(k, d, dirty, a),
         GrownOn(disk', born'), Grown(d, born')
  PROVE  AllGrown'
<1>1. db' = d /\ d # None
  BY DEF OpenedAs
<1>2. Pending' = d
  BY <1>1 DEF Pending
<1>3. Grown(Pending, born)'
  BY <1>2 DEF Grown
<1>4. GrownOn(disk, born)'
  BY DEF GrownOn
<1> QED BY <1>3, <1>4 DEF AllGrown

LEMMA CreateGrown ==
  ASSUME Inv, AllGrown, NEW k \in Keys, NEW n \in Ids, NEW stored \in BOOLEAN,
         CreateProfile(k, n, stored)
  PROVE  AllGrown'
<1> DEFINE old == Loaded(FileFor(k))
           new == [old EXCEPT !.prof = n, !.personas = IF stored THEN @ \cup {n} ELSE @]
<1>1. path \in Paths /\ FileFor(k) \in FileContent /\ old \in Database
  BY OpenedType DEF CreateProfile
<1>2. (FileFor(k) \in Database => Grown(FileFor(k), born)) /\ Grown(old, born)
  BY FileForGrown DEF CreateProfile
<1>3. born' = born \cup {n} /\ OpenedAs(k, new, TRUE, n)
  BY DEF CreateProfile
<1>4. new \in Database /\ new.prof = n /\ new.personas \subseteq old.personas \cup {n}
  BY <1>1 DEF Database
<1>5. Grown(new, born')
  BY <1>2, <1>3, <1>4 DEF Grown
<1>6. GrownOn(disk', born)
  BY <1>1, <1>2, SavedGrown, SavedDiskType, WrittenGrown DEF CreateProfile
<1>7. GrownOn(disk', born')
  BY <1>3, <1>6 DEF GrownOn, Grown
<1> HIDE DEF new
<1> QED BY <1>3, <1>4, <1>5, <1>7, OpenedGrown

\* An edit never takes the profile record or adds a persona.
LEMMA EditGrown ==
  ASSUME Inv, AllGrown, isProfileOpen, db' \in Database, db'.prof = db.prof,
         db'.personas \subseteq db.personas, UNCHANGED <<disk, container, born>>
  PROVE  AllGrown'
<1>1. Pending = db /\ Pending' = db' /\ container # None
  BY DEF Pending, isProfileOpen
<1>2. db.prof # None /\ Grown(db, born)
  BY <1>1, PendingType DEF AllGrown, Profiles
<1>3. Grown(Pending, born)'
  BY <1>1, <1>2 DEF Grown
<1>4. GrownOn(disk, born)'
  BY DEF AllGrown, GrownOn
<1> QED BY <1>3, <1>4 DEF AllGrown

LEMMA GrownStep == Inv /\ AllGrown /\ [Next]_vars => AllGrown'
<1> SUFFICES ASSUME Inv, AllGrown, [Next]_vars PROVE AllGrown'
  OBVIOUS
<1>0. disk \in [Paths -> DiskState] /\ SavedDisk \in [Paths -> DiskState]
  BY SavedDiskType DEF Inv, TypeOK, DiskState
<1>1. ASSUME NEW p \in Paths, CreateContainer(p) PROVE AllGrown'
  <2>1. GrownOn(disk', born)
    <3> SUFFICES ASSUME NEW q \in Paths, disk'[q] \notin {NoFile, None}, disk'[q].db \in Database
                 PROVE  Grown(disk'[q].db, born)
      BY DEF GrownOn
    <3>1. disk'[q] = disk[q]
      BY <1>0, <1>1 DEF CreateContainer
    <3> QED BY <3>1 DEF AllGrown, GrownOn
  <2>2. UNCHANGED <<container, device, db, born>>
    BY <1>1 DEF CreateContainer, session
  <2> QED BY <2>1, <2>2 DEF AllGrown, GrownOn, Pending, Grown
<1>2. ASSUME NEW p \in Paths, Start(p) PROVE AllGrown'
  BY <1>2 DEF Start, session, AllGrown, GrownOn, Pending, Grown
<1>3. CASE OpenFails \/ CloseProfile \/ Exit \/ FinalClose
  BY <1>3, SavedGrown, NothingOpenGrown DEF OpenFails, CloseProfile, Exit, FinalClose
<1>4. ASSUME NEW k \in Keys, OpenProfileWithoutRecord(k) PROVE AllGrown'
  <2> DEFINE d == Loaded(SavedDisk[path].db)
  <2>1. path \in Paths /\ Grown(d, born)
    BY <1>4, OpenedType, FileForGrown DEF OpenProfileWithoutRecord
  <2>2. disk' = [SavedDisk EXCEPT ![path] = [key |-> k, db |-> d]]
    BY <1>4 DEF OpenProfileWithoutRecord
  <2>3. GrownOn(disk', born)
    BY <1>0, <2>1, <2>2, SavedGrown, WrittenGrown
  <2> QED BY <1>4, <2>3, NothingOpenGrown DEF OpenProfileWithoutRecord
<1>5. ASSUME NEW k \in Keys, NEW a \in Ids \cup {None}, OpenProfile(k, a) PROVE AllGrown'
  <2> DEFINE d == Loaded(SavedDisk[path].db)
  <2>1. d \in Database /\ Grown(d, born)
    BY <1>5, OpenedType, FileForGrown DEF OpenProfile
  <2>2. OpenedAs(k, d, FALSE, a) /\ disk' = SavedDisk /\ born' = born
    BY <1>5 DEF OpenProfile
  <2> HIDE DEF d
  <2> QED BY <2>1, <2>2, SavedGrown, OpenedGrown
<1>6. ASSUME NEW k \in Keys, NEW n \in Ids, NEW stored \in BOOLEAN, CreateProfile(k, n, stored)
      PROVE  AllGrown'
  BY <1>6, CreateGrown
<1>7. ASSUME NEW k \in Keys, NEW n \in Ids, ImportProfile(k, n) PROVE AllGrown'
  BY <1>7, CreateGrown DEF ImportProfile
<1>8. ASSUME NEW k \in Keys, NEW loaded \in BOOLEAN, CreateProfileFails(k, loaded)
      PROVE  AllGrown'
  <2> DEFINE f == IF loaded THEN Loaded(FileFor(k)) ELSE FileFor(k)
  <2>1. path \in Paths /\ (f \in Database => Grown(f, born))
    BY <1>8, OpenedType, FileForGrown DEF CreateProfileFails
  <2>2. disk' = [SavedDisk EXCEPT ![path] = [key |-> k, db |-> f]]
    BY <1>8 DEF CreateProfileFails
  <2> HIDE DEF f
  <2>3. GrownOn(disk', born)
    BY <1>0, <2>1, <2>2, SavedGrown, WrittenGrown
  <2> QED BY <1>8, <2>3, NothingOpenGrown DEF CreateProfileFails
<1>9. CASE DeleteCurrentProfile
  <2>1. disk' = [SavedDisk EXCEPT ![container.path] = None]
    BY <1>9 DEF DeleteCurrentProfile
  <2>2. GrownOn(disk', born)
    BY <1>0, <2>1, SavedGrown DEF GrownOn
  <2> QED BY <1>9, <2>2, NothingOpenGrown DEF DeleteCurrentProfile
<1>10. ASSUME NEW r \in Rests \cup {None}, NEW ok \in BOOLEAN, StoreRecord(r, ok)
       PROVE  AllGrown'
  <2>1. db \in Database /\ db' = [db EXCEPT !.rest = r]
    BY <1>10 DEF StoreRecord, isProfileOpen, Inv, TypeOK
  <2>2. db' \in Database /\ db'.prof = db.prof /\ db'.personas = db.personas
    BY <2>1 DEF Database
  <2> QED BY <1>10, <2>2, EditGrown DEF StoreRecord
<1>11. ASSUME NEW i \in Ids, NEW r \in Rests \cup {None}, NEW ok \in BOOLEAN,
              DeletePersona(i, r, ok)
       PROVE  AllGrown'
  <2>1. db \in Database /\ db' = [db EXCEPT !.rest = r, !.personas = IF ok THEN @ \ {i} ELSE @]
    BY <1>11 DEF DeletePersona, isProfileOpen, Inv, TypeOK
  <2>2. db' \in Database /\ db'.prof = db.prof /\ db'.personas \subseteq db.personas
    BY <2>1 DEF Database
  <2> QED BY <1>11, <2>2, EditGrown DEF DeletePersona
<1>12. ASSUME NEW i \in Ids, SetActivePersona(i) PROVE AllGrown'
  BY <1>12 DEF SetActivePersona, AllGrown, GrownOn, Pending, Grown
<1>13. CASE PluginsDown
  <2>1. container # None => Pending' = Pending
    <3>1. CASE db # None
      <4>1. Flushed(db).buf = db
        BY DEF Flushed
      <4> QED BY <1>13, <3>1, <4>1 DEF PluginsDown, Pending
    <3>2. CASE db = None
      BY <1>13, <3>2 DEF PluginsDown, Pending
    <3> QED BY <3>1, <3>2
  <2>2. UNCHANGED <<disk, container, born>>
    BY <1>13 DEF PluginsDown
  <2> QED BY <2>1, <2>2 DEF AllGrown, GrownOn, Grown
<1>14. CASE Crash
  <2>1. GrownOn(disk', born)
    <3>1. CASE disk' = disk
      BY <3>1 DEF AllGrown
    <3>2. ASSUME container # None, NEW f \in {Pending, Broken},
                 disk' = [disk EXCEPT ![container.path] = [key |-> container.key, db |-> f]]
          PROVE  GrownOn(disk', born)
      <4>1. container.path \in Paths /\ GrownOn(disk, born)
        BY <3>2, PendingType DEF AllGrown
      <4>2. f \in Database => Grown(f, born)
        BY <3>2 DEF AllGrown
      <4> QED BY <1>0, <3>2, <4>1, <4>2, WrittenGrown
    <3> QED BY <1>14, <3>1, <3>2 DEF Crash
  <2> QED BY <1>14, <2>1, NothingOpenGrown DEF Crash
<1>15. CASE UNCHANGED vars
  BY <1>15 DEF vars, AllGrown, GrownOn, Pending, Grown
<1> QED
  BY <1>1, <1>2, <1>3, <1>4, <1>5, <1>6, <1>7, <1>8, <1>9, <1>10, <1>11, <1>12, <1>13,
     <1>14, <1>15 DEF Next

\* What a created profile finds is what was last seen of its own container and
\* passphrase.
LEMMA CreateInherits ==
  ASSUME Inv, AllGrown, NEW k \in Keys, NEW n \in Ids, NEW stored \in BOOLEAN,
         CreateProfile(k, n, stored)
  PROVE  LET seen == Seen[path]
             own == seen # None /\ seen.key = container'.key
         IN /\ db'.personas \ {db'.prof} = IF own THEN seen.db.personas ELSE {}
            /\ db'.rest = IF own THEN seen.db.rest ELSE None
<1> DEFINE old == Loaded(FileFor(k))
           seen == Seen[path]
<1>1. path \in Paths /\ old \in Database /\ FileFor(k) \in FileContent
  BY OpenedType DEF CreateProfile
<1>2. Grown(old, born) /\ n \notin born
  BY FileForGrown DEF CreateProfile
<1>3. db' = [old EXCEPT !.prof = n, !.personas = IF stored THEN @ \cup {n} ELSE @]
      /\ container' = [path |-> path, key |-> k]
  BY DEF CreateProfile, OpenedAs
<1>4. db'.prof = n /\ db'.rest = old.rest /\ db'.personas \ {n} = old.personas
  BY <1>1, <1>2, <1>3 DEF Database, Grown
<1>5. seen = OnDisk(SavedDisk[path])
  BY <1>1, SavedIsSeen DEF ProfilesOn
<1>6. CASE seen # None /\ seen.key = k
  <2>1. SavedDisk[path] = seen /\ seen.db \in Profiles /\ SavedDisk[path] \notin {NoFile, None}
    BY <1>5, <1>6 DEF OnDisk
  <2>2. old = seen.db
    BY <1>6, <2>1 DEF FileFor, Visible, Loaded, Profiles
  <2> QED BY <1>3, <1>4, <1>6, <2>2
<1>7. CASE ~(seen # None /\ seen.key = k)
  <2>1. old = NoRecords
    <3>1. CASE Visible(SavedDisk[path], k)
      <4>1. SavedDisk[path].db \notin Profiles
        BY <1>5, <1>7, <3>1 DEF OnDisk, Visible
      <4>2. old.prof = None
        BY <3>1, <4>1 DEF FileFor, Loaded, Profiles, NoRecords
      <4> QED BY <1>2, <4>2 DEF Grown
    <3>2. CASE ~Visible(SavedDisk[path], k)
      BY <3>2 DEF FileFor, Loaded
    <3> QED BY <3>1, <3>2
  <2> QED BY <1>3, <1>4, <1>7, <2>1 DEF NoRecords
<1> QED BY <1>6, <1>7

\* What a new profile finds is from the profile seen in its own container under
\* its own passphrase, never from another one (createProfile).
THEOREM NewProfileInheritsOwn == Spec => InheritsOwnOnly
<1>1. Init => Inv /\ AllGrown
  BY DEF Init, Inv, TypeOK, SessionWhole, AllGrown, GrownOn
<1> DEFINE Inherits ==
      born' # born =>
        LET old == Seen[path]
            own == old # None /\ old.key = container'.key
        IN \/ db'.personas \subseteq {db'.prof} /\ db'.rest = None
           \/ /\ own
              /\ db'.personas \subseteq old.db.personas \cup {db'.prof}
              /\ db'.rest \in {None, old.db.rest}
<1>2. Inv /\ AllGrown /\ [Next]_vars => [Inherits]_vars
  <2> SUFFICES ASSUME Inv, AllGrown, Next, born' # born PROVE Inherits
    BY DEF vars
  <2>1. \/ \E k \in Keys, n \in Ids, stored \in BOOLEAN : CreateProfile(k, n, stored)
        \/ \E k \in Keys, n \in Ids : CreateProfile(k, n, TRUE)
    BY DEF Next, CreateContainer, Start, OpenFails, OpenProfileWithoutRecord, OpenProfile,
           ImportProfile, CreateProfileFails, CloseProfile, DeleteCurrentProfile, StoreRecord,
           DeletePersona, SetActivePersona, Exit, PluginsDown, FinalClose, Crash
  <2>2. PICK k \in Keys, n \in Ids, stored \in BOOLEAN : CreateProfile(k, n, stored)
    BY <2>1
  <2> QED BY <2>2, CreateInherits
<1> QED BY <1>1, <1>2, StepInv, GrownStep, PTL DEF Spec, InheritsOwnOnly
=============================================================================
