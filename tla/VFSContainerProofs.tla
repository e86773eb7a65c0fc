------------------------- MODULE VFSContainerProofs -------------------------
(***************************************************************************)
(* Theorems about VFSContainer, for any number of passphrases, names,      *)
(* slots, handles and blocks.                                              *)
(*                                                                         *)
(* The first part is about callers of any kind (Careful or not).  The      *)
(* second is about callers that keep to one handle per file, delete no     *)
(* open file and rename onto no existing name, as Core does: names lead to *)
(* one file, handles to the file they were opened on.  With one            *)
(* passphrase, close() loses nothing: a file that needs no write-back      *)
(* holds in RAM what its last write-back left on disk.  And then the       *)
(* container is a FileStore.                                               *)
(***************************************************************************)
EXTENDS VFSContainer, TLAPS

\* The number of blocks of a blob is a natural number.
LEMMA BlobBlocksType == \A len \in Nat : BlobBlocks(len) \in Nat
<1>1. ASSUME NEW x \in Nat, NEW y \in Nat \ {0} PROVE x \div y \in Nat
  BY <1>1, SMT
<1>2. QED BY <1>1, SizesAssumption DEF BlobBlocks

\* A content has a length, and its blob a number of blocks.
LEMMA ContentType ==
  \A c \in Contents : c.len \in 0 .. MaxLen /\ BlobBlocks(c.len) \in Nat
<1>1. \A c \in Contents : c.len \in 0 .. MaxLen
  BY SizesAssumption DEF Contents, Empty
<1>2. QED BY <1>1, BlobBlocksType, SizesAssumption

\* readBlobFromDisk gives a content or nothing.
LEMMA ReadBlobType == \A k, fp : ReadBlob(k, fp) \in Contents
BY DEF ReadBlob, Contents

\* While a write-back runs, the container is open and the file known.
ControlOK ==
  /\ pc = "closed" <=> key = None
  /\ pc \in {"blob", "header"} =>
       /\ cur \in Handles /\ vf[cur] \in VirtualFile
       /\ files[vf[cur].slot] \in FilePointer

TypeInv == TypeOK /\ ControlOK

\* An entry of m_files or of the header that is there is a file pointer.
LEMMA EntryType ==
  ASSUME TypeOK, NEW k, NEW s \in Slots
  PROVE  Entry(k, s) \in {None} \cup FilePointer
<1>1. slot[s] \in {None} \cup Header
  BY DEF TypeOK
<1>2. QED BY <1>1 DEF Entry, Header

\* The blocks after a blob, whole or cut short, was written.
LEMMA BlobWrittenType ==
  ASSUME TypeOK, key \in Keys, NEW fp \in FilePointer, NEW c \in Contents, NEW n
  PROVE  BlobWritten(fp, c, n) \in [Blocks -> {None} \cup Cell]
<1>1. [key |-> key, id |-> fp.id, content |-> c, at |-> fp.off] \in Cell
  BY DEF FilePointer, Cell
<1>2. \A b \in Blocks : data[b] \in {None} \cup Cell
  BY DEF TypeOK
<1>3. QED BY <1>1, <1>2 DEF BlobWritten

LEMMA InitTypeInv == Init => TypeInv
<1> SUFFICES ASSUME Init PROVE TypeInv OBVIOUS
<1>1. ControlOK
  BY DEF Init, ControlOK
<1>2. fsize \in 0 .. DataBlocks
  BY SizesAssumption DEF Init
<1>3. rank \in [Slots -> Nat]
  BY SizesAssumption DEF Init, Slots
<1>4. slot \in [Slots -> {None} \cup Header]
      /\ data \in [Blocks -> {None} \cup Cell]
      /\ files \in [Slots -> {None} \cup FilePointer]
      /\ vf \in [Handles -> {None} \cup VirtualFile]
      /\ saved \in [FileIds -> {None} \cup Contents]
  BY DEF Init
<1>5. QED BY <1>1, <1>2, <1>3, <1>4 DEF Init, TypeInv, TypeOK

\* What a write-back does before its first disk write keeps the types.
LEMMA WriteBackType ==
  ASSUME TypeInv, key # None, NEW h \in Handles, NEW reason \in {"flush", "close", "shutdown"},
         WriteBack(h, reason)
  PROVE  /\ files' \in [Slots -> {None} \cup FilePointer]
         /\ fsize' \in 0 .. DataBlocks
         /\ vf[h] \in VirtualFile /\ files'[vf[h].slot] \in FilePointer
<1> DEFINE s == vf[h].slot
<1>1. vf[h] \in VirtualFile /\ s \in Slots /\ vf[h].buf \in Contents
  BY DEF WriteBack, TypeInv, TypeOK, VirtualFile
<1>2. files[s] \in FilePointer
  BY <1>1 DEF WriteBack, MustWrite, TypeInv, TypeOK
<1>3. vf[h].buf.len \in 0 .. MaxLen
  BY <1>1, ContentType
<1>4. CASE vf[h].buf = Empty /\ files' = [files EXCEPT ![s].used = 0] /\ UNCHANGED fsize
  BY <1>1, <1>2, <1>4, SizesAssumption DEF TypeInv, TypeOK, FilePointer
<1>5. CASE Fit(h)
  BY <1>1, <1>2, <1>3, <1>5 DEF Fit, TypeInv, TypeOK, FilePointer
<1>6. CASE Relocate(h)
  <2>1. PICK e \in Blocks, a \in 1 .. DataBlocks, size \in 0 .. DataBlocks :
          /\ fsize' = size
          /\ files' = [files EXCEPT ![s].off = e, ![s].alloc = a, ![s].used = vf[h].buf.len]
    BY <1>6 DEF Relocate
  <2>2. e \in Nat /\ a \in Nat
    BY SizesAssumption DEF Blocks
  <2>3. QED BY <1>1, <1>2, <1>3, <2>1, <2>2 DEF TypeInv, TypeOK, FilePointer
<1>7. QED BY <1>1, <1>4, <1>5, <1>6 DEF WriteBack

\* Every step keeps the types and the control state.
LEMMA NextTypeInv == TypeInv /\ [Next]_vars => TypeInv'
<1> SUFFICES ASSUME TypeInv, [Next]_vars PROVE TypeInv'
  OBVIOUS
<1> USE DEF TypeInv
<1>0. /\ slot \in [Slots -> {None} \cup Header]
      /\ files \in [Slots -> {None} \cup FilePointer]
      /\ rank \in [Slots -> Nat] /\ vf \in [Handles -> {None} \cup VirtualFile]
      /\ saved \in [FileIds -> {None} \cup Contents] /\ fsize \in 0 .. DataBlocks
  BY DEF TypeOK
<1>1. ASSUME NEW k \in Keys, Open(k) PROVE TypeInv'
  <2>1. \A s \in Slots : Entry(k, s) \in {None} \cup FilePointer
    BY EntryType
  <2>2. [s \in Slots |-> s] \in [Slots -> Nat]
    BY SizesAssumption DEF Slots
  <2>3. QED
    BY <1>1, <2>1, <2>2, NoneAssumption DEF Open, TypeOK, ControlOK, diskVars, history
<1>2. ASSUME NEW h \in Handles, NEW n \in Names, NEW truncate \in BOOLEAN,
             OpenExisting(h, n, truncate)
      PROVE TypeInv'
  <2>1. PICK s \in Slots :
          /\ files[s] # None
          /\ vf' = [vf EXCEPT ![h] =
               [slot |-> s, id |-> files[s].id, dirty |-> FALSE, att |-> TRUE,
                buf |-> IF truncate \/ files[s].used = 0 THEN Empty
                        ELSE ReadBlob(key, files[s])]]
    BY <1>2 DEF OpenExisting, FoundAt
  <2>2. files[s] \in FilePointer
    BY <1>0, <2>1
  <2>3. (IF truncate \/ files[s].used = 0 THEN Empty ELSE ReadBlob(key, files[s])) \in Contents
    BY ReadBlobType DEF Contents
  <2>4. vf' \in [Handles -> {None} \cup VirtualFile]
    BY <1>0, <2>1, <2>2, <2>3 DEF VirtualFile, FilePointer
  <2>5. QED
    BY <1>2, <2>4 DEF OpenExisting, TypeOK, ControlOK, diskVars, memVars, ctlVars, history
<1>3. ASSUME NEW h \in Handles, NEW n \in Names, OpenNew(h, n) PROVE TypeInv'
  <2>1. PICK s \in Slots, id \in FileIds, e \in Blocks, size \in 0 .. DataBlocks,
             r \in 0 .. SlotCount + Cardinality(FileIds) :
          /\ FreeSlot(s) /\ saved[id] = None /\ EndOfData(e) /\ Covers(e + 1, size) /\ NewRank(r)
          /\ fsize' = size
          /\ files' = [files EXCEPT ![s] =
                         [id |-> id, name |-> n, off |-> e, alloc |-> 1, used |-> 0]]
          /\ slot' = [slot EXCEPT ![s] = [key |-> key, fp |-> files'[s]]]
          /\ rank' = [rank EXCEPT ![s] = r]
          /\ vf' = [vf EXCEPT ![h] = [slot |-> s, id |-> id, buf |-> Empty,
                                      dirty |-> FALSE, att |-> TRUE]]
          /\ saved' = [saved EXCEPT ![id] = Empty]
    BY <1>3 DEF OpenNew
  <2>2. [id |-> id, name |-> n, off |-> e, alloc |-> 1, used |-> 0] \in FilePointer
    BY <1>3, SizesAssumption DEF OpenNew, FilePointer, Blocks
  <2>3. key \in Keys
    BY <1>3 DEF OpenNew, ControlOK, TypeOK
  <2>4. r \in Nat
    OBVIOUS
  <2>5. /\ files' \in [Slots -> {None} \cup FilePointer] /\ files'[s] \in FilePointer
        /\ rank' \in [Slots -> Nat]
    BY <1>0, <2>1, <2>2, <2>4
  <2>6. slot' \in [Slots -> {None} \cup Header]
    BY <1>0, <2>1, <2>3, <2>5 DEF Header
  <2>7. /\ vf' \in [Handles -> {None} \cup VirtualFile]
        /\ saved' \in [FileIds -> {None} \cup Contents]
    BY <1>0, <2>1 DEF VirtualFile, Contents
  <2>8. QED
    BY <1>3, <2>1, <2>5, <2>6, <2>7 DEF OpenNew, TypeOK, ControlOK, ctlVars
<1>4. ASSUME NEW h \in Handles, NEW c \in Contents, Write(h, c) PROVE TypeInv'
  <2>1. vf' \in [Handles -> {None} \cup VirtualFile]
    BY <1>0, <1>4, ZenonT(30) DEF Write, VirtualFile
  <2>2. QED
    BY <1>4, <2>1 DEF Write, TypeOK, ControlOK, diskVars, memVars, ctlVars, history
<1>5. CASE PutBlob
  <2>1. /\ key \in Keys /\ CurFile \in FilePointer /\ vf[cur].buf \in Contents
    BY <1>5 DEF PutBlob, ControlOK, TypeOK, CurFile, VirtualFile
  <2>2. data' \in [Blocks -> {None} \cup Cell]
    BY <1>5, <2>1, BlobWrittenType DEF PutBlob
  <2>3. QED
    BY <1>5, <2>2 DEF PutBlob, TypeOK, ControlOK, memVars, history
<1>6. CASE PutHeader
  <2>1. /\ key \in Keys /\ cur \in Handles /\ vf[cur] \in VirtualFile
        /\ CurFile \in FilePointer /\ vf[cur].buf \in Contents /\ vf[cur].slot \in Slots
    BY <1>6 DEF PutHeader, ControlOK, TypeOK, CurFile, VirtualFile
  <2>2. slot' \in [Slots -> {None} \cup Header]
    BY <1>0, <1>6, <2>1 DEF PutHeader, Header
  <2>3. saved' \in [FileIds -> {None} \cup Contents]
    BY <1>0, <1>6, <2>1 DEF PutHeader
  <2>4. vf' \in [Handles -> {None} \cup VirtualFile]
    <3>1. CASE why = "close"
      BY <1>0, <1>6, <2>1, <3>1 DEF PutHeader
    <3>2. CASE why # "close"
      BY <1>0, <1>6, <2>1, <3>2 DEF PutHeader, VirtualFile
    <3>3. QED BY <3>1, <3>2
  <2>5. QED
    BY <1>6, <2>1, <2>2, <2>3, <2>4 DEF PutHeader, TypeOK, ControlOK, memVars
<1>7. ASSUME NEW h \in Handles, NEW reason \in {"flush", "close", "shutdown"},
             pc \in {"idle", "closing"}, WriteBack(h, reason)
      PROVE TypeInv'
  <2>1. key # None
    BY <1>7 DEF ControlOK
  <2>2. /\ files' \in [Slots -> {None} \cup FilePointer] /\ fsize' \in 0 .. DataBlocks
        /\ vf[h] \in VirtualFile /\ files'[vf[h].slot] \in FilePointer
    BY <1>7, <2>1, WriteBackType
  <2>3. QED
    BY <1>7, <2>1, <2>2 DEF WriteBack, TypeOK, ControlOK, history
<1>8. ASSUME NEW h \in Handles, Flush(h) PROVE TypeInv'
  BY <1>7, <1>8 DEF Flush
<1>9. ASSUME NEW h \in Handles, CloseFile(h) PROVE TypeInv'
  <2>1. CASE pc = "idle" /\ WriteBack(h, "close")
    BY <1>7, <2>1
  <2>2. CASE /\ pc \in {"idle", "closed"}
             /\ vf' = [vf EXCEPT ![h] = None]
             /\ UNCHANGED <<diskVars, memVars, ctlVars, history>>
    BY <1>0, <2>2 DEF TypeOK, ControlOK, diskVars, memVars, ctlVars, history
  <2>3. QED BY <1>9, <2>1, <2>2 DEF CloseFile
<1>10. CASE CloseContainer
  BY <1>10 DEF CloseContainer, TypeOK, ControlOK, diskVars, memVars, history
<1>11. ASSUME NEW h \in Handles, CloseFlush(h) PROVE TypeInv'
  <2>1. CASE WriteBack(h, "shutdown")
    BY <1>7, <1>11, <2>1 DEF CloseFlush
  <2>2. CASE ~WriteBack(h, "shutdown")
    BY <1>11, <2>2 DEF CloseFlush, TypeOK, ControlOK, diskVars, memVars, history
  <2>3. QED BY <2>1, <2>2
<1>12. CASE CloseDone
  <2>1. vf' \in [Handles -> {None} \cup VirtualFile]
    BY <1>0, <1>12 DEF CloseDone, VirtualFile
  <2>2. [s \in Slots |-> s] \in [Slots -> Nat]
    BY SizesAssumption DEF Slots
  <2>3. QED
    BY <1>12, <2>1, <2>2 DEF CloseDone, TypeOK, ControlOK, diskVars, history
<1>13. ASSUME NEW n \in Names, DeleteFile(n) PROVE TypeInv'
  <2>1. PICK s \in Slots :
          /\ files[s] # None
          /\ slot' = [slot EXCEPT ![s] = None] /\ files' = [files EXCEPT ![s] = None]
          /\ rank' = [rank EXCEPT ![s] = s]
          /\ saved' = [saved EXCEPT ![files[s].id] = Empty]
          /\ damaged' = damaged \ {files[s].id}
    BY <1>13 DEF DeleteFile, FoundAt
  <2>2. /\ slot' \in [Slots -> {None} \cup Header]
        /\ files' \in [Slots -> {None} \cup FilePointer]
    BY <1>0, <2>1
  <2>3. rank' \in [Slots -> Nat]
    BY <1>0, <2>1, SizesAssumption DEF Slots
  <2>4. saved' \in [FileIds -> {None} \cup Contents]
    BY <1>0, <2>1 DEF Contents, FilePointer
  <2>5. QED
    BY <1>13, <2>1, <2>2, <2>3, <2>4 DEF DeleteFile, TypeOK, ControlOK, ctlVars
<1>14. ASSUME NEW old \in Names, NEW new \in Names, RenameFile(old, new) PROVE TypeInv'
  <2>1. PICK s \in Slots :
          /\ files[s] # None /\ files' = [files EXCEPT ![s].name = new]
          /\ slot' = [slot EXCEPT ![s] = [key |-> key, fp |-> files'[s]]]
    BY <1>14 DEF RenameFile, FoundAt
  <2>2. files' \in [Slots -> {None} \cup FilePointer] /\ files'[s] \in FilePointer
    BY <1>0, <1>14, <2>1 DEF RenameFile, FilePointer
  <2>3. key \in Keys
    BY <1>14 DEF RenameFile, ControlOK, TypeOK
  <2>4. slot' \in [Slots -> {None} \cup Header]
    BY <1>0, <2>1, <2>2, <2>3 DEF Header
  <2>5. QED
    BY <1>14, <2>2, <2>4 DEF RenameFile, TypeOK, ControlOK, ctlVars, history
<1>15. CASE Crash
  <2>1. data' \in [Blocks -> {None} \cup Cell]
    <3>1. CASE pc = "blob"
      <4>1. key \in Keys /\ CurFile \in FilePointer /\ vf[cur].buf \in Contents
        BY <3>1 DEF ControlOK, TypeOK, CurFile, VirtualFile
      <4>2. PICK n : data' = BlobWritten(CurFile, vf[cur].buf, n)
        BY <1>15, <3>1 DEF Crash
      <4>3. QED BY <4>1, <4>2, BlobWrittenType
    <3>2. CASE pc # "blob"
      BY <1>15, <3>2 DEF Crash, TypeOK
    <3>3. QED BY <3>1, <3>2
  <2>2. damaged' \subseteq FileIds
    <3>1. \A s \in Slots : AtRisk(s) => slot[s].fp.id \in FileIds
      BY <1>0 DEF AtRisk, InPlace, FilePointer, Header
    <3>2. QED BY <1>15, <3>1 DEF Crash, TypeOK
  <2>3. [s \in Slots |-> s] \in [Slots -> Nat]
    BY SizesAssumption DEF Slots
  <2>4. QED
    BY <1>15, <2>1, <2>2, <2>3 DEF Crash, TypeOK, ControlOK
<1>16. CASE UNCHANGED vars
  BY <1>16 DEF vars, TypeOK, ControlOK
<1>17. QED
  BY <1>1, <1>2, <1>3, <1>4, <1>5, <1>6, <1>8, <1>9, <1>10, <1>11, <1>12, <1>13, <1>14,
     <1>15, <1>16 DEF Next

\* The container and its virtual files always have their types, and a
\* write-back always runs for a file that is known and open.
THEOREM TypeCorrect == Spec => []TypeInv
<1>1. QED BY InitTypeInv, NextTypeInv, PTL DEF Spec

\* The type invariant the runs check.
THEOREM TypesHold == Spec => []TypeOK
<1>1. TypeInv => TypeOK
  BY DEF TypeInv
<1>2. QED BY <1>1, TypeCorrect, PTL

-----------------------------------------------------------------------------
(* Blocks and headers *)

\* m_files and the headers of the open key agree, but for the file whose
\* write-back has changed m_files and not yet its header.
MemSync ==
  /\ key = None => \A s \in Slots : files[s] = None
  /\ key # None => \A s \in Slots :
       pc \notin {"blob", "header"} \/ s # vf[cur].slot => files[s] = Entry(key, s)

\* The inductive invariant: MemSync is what makes the disk inherit, at the
\* header write, the disjointness established in RAM by allocateBlock.
AllocInv == TypeInv /\ MemSync /\ MemDisjoint /\ DiskDisjoint /\ InsideContainer

\* A header written for a file that shares no block with the other files the
\* open key reveals keeps the headers disjoint.
LEMMA PutSlotDisjoint ==
  ASSUME TypeOK, key \in Keys, DiskDisjoint, NEW s \in Slots, NEW g \in FilePointer,
         slot' = [slot EXCEPT ![s] = [key |-> key, fp |-> g]],
         \A t \in Slots \ {s} : files[t] = Entry(key, t),
         \A t \in Slots \ {s} : files[t] # None =>
            DisjointBlocks(g, files[t]) /\ DisjointBlocks(files[t], g)
  PROVE  DiskDisjoint'
<1>1. \A k \in Keys : Entry(k, s)' = IF k = key THEN g ELSE None
  <2>1. [key |-> key, fp |-> g] # None
    BY NoneAssumption DEF Header
  <2>2. QED BY <2>1 DEF Entry, TypeOK
<1>2. \A k \in Keys, t \in Slots \ {s} : Entry(k, t)' = Entry(k, t)
  BY DEF Entry, TypeOK
<1>3. QED BY <1>1, <1>2 DEF DiskDisjoint

\* allocateBlock's offset lies behind every block of the open key.
LEMMA BehindAll ==
  ASSUME NEW e \in Nat, EndOfData(e), NEW g, g.off = e, NEW t \in Slots,
         files[t] \in FilePointer, files[t] # None, g.alloc \in Nat
  PROVE  DisjointBlocks(g, files[t]) /\ DisjointBlocks(files[t], g)
BY DEF EndOfData, DisjointBlocks, FilePointer

\* growContainer never shrinks the file and makes room for what it was asked.
LEMMA CoversEnd ==
  ASSUME NEW end \in Nat, NEW size \in 0 .. DataBlocks, fsize \in 0 .. DataBlocks,
         Covers(end, size)
  PROVE  end <= size /\ fsize <= size
BY SizesAssumption DEF Covers

\* A write-back changes, before its first disk write, only the entry of its
\* file, which keeps its blocks or gets new ones inside the grown container.
LEMMA WriteBackAlloc ==
  ASSUME AllocInv, pc \in {"idle", "closing"}, NEW h \in Handles,
         NEW reason \in {"flush", "close", "shutdown"}, WriteBack(h, reason)
  PROVE  AllocInv'
<1> DEFINE s == vf[h].slot
<1> USE DEF AllocInv, TypeInv
<1>1. key # None
  BY DEF ControlOK
<1>2. /\ files' \in [Slots -> {None} \cup FilePointer] /\ fsize' \in 0 .. DataBlocks
      /\ vf[h] \in VirtualFile /\ files'[s] \in FilePointer
  BY <1>1, WriteBackType
<1>3. s \in Slots /\ files[s] \in FilePointer /\ files[s] # None /\ vf[h].buf.len \in 0 .. MaxLen
  BY <1>2, ContentType DEF VirtualFile, WriteBack, MustWrite, TypeOK
<1>4. TypeInv'
  BY <1>1, <1>2 DEF WriteBack, TypeOK, ControlOK, history
<1>5. \A t \in Slots \ {s} : files'[t] = files[t]
  BY <1>2, <1>3 DEF WriteBack, Fit, Relocate, TypeOK
<1>6. /\ fsize <= fsize'
      /\ files'[s].off + files'[s].alloc <= fsize'
      /\ \A t \in Slots \ {s} : files[t] # None =>
           DisjointBlocks(files'[s], files[t]) /\ DisjointBlocks(files[t], files'[s])
  <2>1. CASE files'[s].off = files[s].off /\ files'[s].alloc = files[s].alloc /\ fsize' = fsize
    BY <1>3, <2>1 DEF MemDisjoint, InsideContainer, DisjointBlocks, TypeOK
  <2>2. CASE vf[h].buf = Empty /\ files' = [files EXCEPT ![s].used = 0] /\ UNCHANGED fsize
    BY <1>3, <2>1, <2>2 DEF TypeOK, FilePointer
  <2>3. CASE Fit(h)
    BY <1>3, <2>1, <2>3 DEF Fit, TypeOK, FilePointer
  <2>4. CASE Relocate(h)
    <3>1. PICK e \in Blocks, a \in 1 .. DataBlocks, size \in 0 .. DataBlocks :
            /\ EndOfData(e) /\ PowerOf2For(BlobBlocks(vf[h].buf.len), a) /\ Covers(e + a, size)
            /\ fsize' = size
            /\ files' = [files EXCEPT ![s].off = e, ![s].alloc = a, ![s].used = vf[h].buf.len]
      BY <2>4 DEF Relocate
    <3>2. files'[s].off = e /\ files'[s].alloc = a /\ e \in Nat /\ a \in Nat
      BY <1>3, <3>1, SizesAssumption, SMTT(20) DEF TypeOK, FilePointer, Blocks
    <3>3. e + a <= size /\ fsize <= size
      <4>1. e + a \in Nat /\ fsize \in 0 .. DataBlocks /\ Covers(e + a, size)
        BY <3>1, <3>2 DEF TypeOK
      <4>2. QED BY <4>1, CoversEnd
    <3>4. \A t \in Slots : files[t] # None =>
            DisjointBlocks(files'[s], files[t]) /\ DisjointBlocks(files[t], files'[s])
      BY <3>1, <3>2, BehindAll DEF TypeOK
    <3>5. QED BY <3>1, <3>2, <3>3, <3>4
  <2>5. QED BY <2>2, <2>3, <2>4 DEF WriteBack
<1>7. MemDisjoint'
  BY <1>3, <1>5, <1>6 DEF MemDisjoint, DisjointBlocks
<1>8. slot' = slot /\ key' = key /\ cur' = h /\ vf' = vf /\ pc' \in {"blob", "header"}
  BY DEF WriteBack
<1>9. DiskDisjoint'
  BY <1>8 DEF DiskDisjoint, Entry, DisjointBlocks
<1>10. MemSync'
  BY <1>1, <1>5, <1>8 DEF MemSync, Entry
<1>11. InsideContainer'
  BY <1>2, <1>3, <1>5, <1>6, <1>8 DEF InsideContainer, TypeOK, FilePointer, Header
<1>12. QED BY <1>4, <1>7, <1>9, <1>10, <1>11

\* Actions that change neither the headers nor m_files nor the file size.
LEMMA SameAlloc ==
  ASSUME AllocInv, TypeInv', slot' = slot, files' = files, fsize' = fsize, key' = key,
         \A s \in Slots : pc' \notin {"blob", "header"} \/ s # (vf[cur].slot)'
           => files[s] = Entry(key, s) \/ key = None
  PROVE  AllocInv'
BY DEF AllocInv, MemSync, MemDisjoint, DiskDisjoint, InsideContainer, Entry, DisjointBlocks

\* A new or changed entry of slot s, in m_files and in its header at once.
LEMMA BothAlloc ==
  ASSUME AllocInv, TypeInv', pc = "idle", pc' = "idle", key' = key,
         NEW s \in Slots, NEW g \in FilePointer,
         files' = [files EXCEPT ![s] = g],
         slot' = [slot EXCEPT ![s] = [key |-> key, fp |-> g]],
         fsize <= fsize', g.off + g.alloc <= fsize',
         \A t \in Slots \ {s} : files[t] # None =>
            DisjointBlocks(g, files[t]) /\ DisjointBlocks(files[t], g)
  PROVE  AllocInv'
<1> USE DEF AllocInv, TypeInv
<1>1. key \in Keys /\ key # None
  BY NoneAssumption DEF ControlOK, TypeOK
<1>2. files'[s] = g /\ \A t \in Slots \ {s} : files'[t] = files[t]
  BY DEF TypeOK
<1>3. slot'[s] = [key |-> key, fp |-> g] /\ \A t \in Slots \ {s} : slot'[t] = slot[t]
  BY DEF TypeOK
<1>4. \A t \in Slots : files[t] = Entry(key, t)
  BY <1>1 DEF MemSync
<1>5. DiskDisjoint'
  BY <1>1, <1>4, PutSlotDisjoint
<1>6. MemDisjoint'
  BY <1>2 DEF MemDisjoint, DisjointBlocks
<1>7. MemSync'
  <2>1. [key |-> key, fp |-> g] # None
    BY <1>1, NoneAssumption DEF Header
  <2>2. QED BY <1>1, <1>2, <1>3, <1>4, <2>1 DEF MemSync, Entry
<1>8. InsideContainer'
  BY <1>2, <1>3 DEF InsideContainer, TypeOK, FilePointer, Header
<1>9. QED BY <1>5, <1>6, <1>7, <1>8

\* With no file open the headers alone must be in order.
LEMMA ClosedAlloc ==
  ASSUME AllocInv, TypeInv', slot' = slot, fsize' = fsize, key' = None,
         files' = [s \in Slots |-> None]
  PROVE  AllocInv'
BY DEF AllocInv, MemSync, MemDisjoint, DiskDisjoint, InsideContainer, Entry, DisjointBlocks

LEMMA InitAllocInv == Init => AllocInv
<1>1. Init => TypeInv
  BY InitTypeInv
<1>2. QED
  BY <1>1 DEF Init, AllocInv, MemSync, MemDisjoint, DiskDisjoint, InsideContainer, Entry

\* Every step keeps headers and m_files in step and their blocks disjoint.
LEMMA NextAllocInv == AllocInv /\ [Next]_vars => AllocInv'
<1> SUFFICES ASSUME AllocInv, [Next]_vars PROVE AllocInv'
  OBVIOUS
<1> USE DEF AllocInv, TypeInv
<1>0. TypeInv'
  BY NextTypeInv
<1>1. ASSUME NEW k \in Keys, Open(k) PROVE AllocInv'
  <2>1. k # None /\ key' = k /\ slot' = slot /\ fsize' = fsize /\ pc' = "idle"
        /\ files' = [s \in Slots |-> Entry(k, s)]
    BY <1>1, NoneAssumption DEF Open, diskVars
  <2>2. MemDisjoint'
    BY <2>1 DEF MemDisjoint, DiskDisjoint, DisjointBlocks
  <2>3. DiskDisjoint'
    BY <2>1 DEF DiskDisjoint, Entry, DisjointBlocks
  <2>4. MemSync'
    BY <2>1 DEF MemSync, Entry
  <2>5. InsideContainer'
    BY <2>1 DEF InsideContainer, Entry
  <2>6. QED BY <1>0, <2>2, <2>3, <2>4, <2>5
<1>2. ASSUME NEW h \in Handles, NEW n \in Names, NEW truncate \in BOOLEAN,
             OpenExisting(h, n, truncate)
      PROVE AllocInv'
  BY <1>0, <1>2, SameAlloc DEF OpenExisting, diskVars, memVars, ctlVars, MemSync
<1>3. ASSUME NEW h \in Handles, NEW n \in Names, OpenNew(h, n) PROVE AllocInv'
  <2>1. PICK s \in Slots, id \in FileIds, e \in Blocks, size \in 0 .. DataBlocks,
             r \in 0 .. SlotCount + Cardinality(FileIds) :
          /\ FreeSlot(s) /\ saved[id] = None /\ EndOfData(e) /\ Covers(e + 1, size) /\ NewRank(r)
          /\ fsize' = size
          /\ files' = [files EXCEPT ![s] =
                         [id |-> id, name |-> n, off |-> e, alloc |-> 1, used |-> 0]]
          /\ slot' = [slot EXCEPT ![s] = [key |-> key, fp |-> files'[s]]]
          /\ rank' = [rank EXCEPT ![s] = r]
          /\ vf' = [vf EXCEPT ![h] = [slot |-> s, id |-> id, buf |-> Empty,
                                      dirty |-> FALSE, att |-> TRUE]]
          /\ saved' = [saved EXCEPT ![id] = Empty]
    BY <1>3 DEF OpenNew
  <2> DEFINE g == [id |-> id, name |-> n, off |-> e, alloc |-> 1, used |-> 0]
  <2>2. e \in Nat /\ e + 1 \in Nat /\ fsize \in 0 .. DataBlocks
    BY SizesAssumption DEF Blocks, TypeOK
  <2>3. g \in FilePointer
    BY <1>3, <2>2, SizesAssumption DEF OpenNew, FilePointer
  <2>4. e + 1 <= size /\ fsize <= size
    BY <2>1, <2>2, CoversEnd
  <2>5. g.off = e /\ g.alloc = 1
    OBVIOUS
  <2>6. \A t \in Slots \ {s} : files[t] # None =>
          DisjointBlocks(g, files[t]) /\ DisjointBlocks(files[t], g)
    <3> HIDE DEF g
    <3>1. g.off = e /\ g.alloc \in Nat
      BY <2>5
    <3>2. QED BY <2>1, <2>2, <3>1, BehindAll DEF TypeOK
  <2>7. slot' = [slot EXCEPT ![s] = [key |-> key, fp |-> g]]
    BY <2>1 DEF TypeOK
  <2>8. pc = "idle" /\ pc' = "idle" /\ key' = key
    BY <1>3 DEF OpenNew, ctlVars
  <2>9. files' = [files EXCEPT ![s] = g] /\ fsize <= fsize' /\ g.off + g.alloc <= fsize'
    BY <2>1, <2>4, <2>5
  <2> HIDE DEF g
  <2>10. QED BY <1>0, <2>3, <2>6, <2>7, <2>8, <2>9, BothAlloc
<1>4. ASSUME NEW h \in Handles, NEW c \in Contents, Write(h, c) PROVE AllocInv'
  BY <1>0, <1>4, SameAlloc DEF Write, diskVars, memVars, ctlVars, MemSync
<1>5. CASE PutBlob
  BY <1>0, <1>5, SameAlloc DEF PutBlob, memVars, MemSync
<1>6. CASE PutHeader
  <2> DEFINE s == vf[cur].slot
  <2>1. key \in Keys /\ key # None /\ s \in Slots /\ CurFile \in FilePointer /\ CurFile = files[s]
        /\ CurFile # None
    BY <1>6, NoneAssumption DEF PutHeader, ControlOK, TypeOK, CurFile, VirtualFile
  <2>2. /\ slot' = [slot EXCEPT ![s] = [key |-> key, fp |-> CurFile]]
        /\ key' = key /\ files' = files /\ fsize' = fsize /\ pc' \in {"idle", "closing"}
        /\ pc = "header"
    BY <1>6 DEF PutHeader, memVars
  <2>3. \A t \in Slots \ {s} : files[t] = Entry(key, t)
    BY <2>1 DEF MemSync
  <2>4. \A t \in Slots \ {s} : files[t] # None =>
          DisjointBlocks(CurFile, files[t]) /\ DisjointBlocks(files[t], CurFile)
    BY <2>1 DEF MemDisjoint
  <2>5. slot'[s] = [key |-> key, fp |-> CurFile] /\ \A t \in Slots \ {s} : slot'[t] = slot[t]
    BY <2>1, <2>2 DEF TypeOK
  <2>6. DiskDisjoint'
    BY <2>1, <2>2, <2>3, <2>4, PutSlotDisjoint
  <2>7. MemDisjoint'
    BY <2>2 DEF MemDisjoint, DisjointBlocks
  <2>8. MemSync'
    <3>1. [key |-> key, fp |-> CurFile] # None
      BY <2>1, NoneAssumption DEF Header
    <3>2. QED BY <2>1, <2>2, <2>3, <2>5, <3>1 DEF MemSync, Entry
  <2>9. InsideContainer'
    BY <2>1, <2>2, <2>5 DEF InsideContainer
  <2>10. QED BY <1>0, <2>6, <2>7, <2>8, <2>9
<1>7. ASSUME NEW h \in Handles, Flush(h) PROVE AllocInv'
  BY <1>7, WriteBackAlloc DEF Flush
<1>8. ASSUME NEW h \in Handles, CloseFile(h) PROVE AllocInv'
  <2>1. CASE pc = "idle" /\ WriteBack(h, "close")
    BY <2>1, WriteBackAlloc
  <2>2. CASE /\ pc \in {"idle", "closed"}
             /\ UNCHANGED <<diskVars, memVars, ctlVars, history>>
    BY <1>0, <2>2, SameAlloc DEF diskVars, memVars, ctlVars, MemSync
  <2>3. QED BY <1>8, <2>1, <2>2 DEF CloseFile
<1>9. CASE CloseContainer
  BY <1>0, <1>9, SameAlloc DEF CloseContainer, diskVars, memVars, MemSync
<1>10. ASSUME NEW h \in Handles, CloseFlush(h) PROVE AllocInv'
  <2>1. CASE WriteBack(h, "shutdown")
    BY <1>10, <2>1, WriteBackAlloc DEF CloseFlush
  <2>2. CASE ~WriteBack(h, "shutdown")
    BY <1>0, <1>10, <2>2, SameAlloc DEF CloseFlush, diskVars, memVars, MemSync
  <2>3. QED BY <2>1, <2>2
<1>11. CASE CloseDone
  BY <1>0, <1>11, ClosedAlloc DEF CloseDone, diskVars
<1>12. ASSUME NEW n \in Names, DeleteFile(n) PROVE AllocInv'
  <2>1. PICK s \in Slots :
          /\ files[s] # None
          /\ slot' = [slot EXCEPT ![s] = None] /\ files' = [files EXCEPT ![s] = None]
    BY <1>12 DEF DeleteFile, FoundAt
  <2>2. /\ files'[s] = None /\ \A t \in Slots \ {s} : files'[t] = files[t]
        /\ slot'[s] = None /\ \A t \in Slots \ {s} : slot'[t] = slot[t]
    BY <2>1 DEF TypeOK
  <2>3. pc = "idle" /\ pc' = "idle" /\ key' = key /\ fsize' = fsize
    BY <1>12 DEF DeleteFile, ctlVars
  <2>4. MemDisjoint'
    BY <2>2 DEF MemDisjoint, DisjointBlocks
  <2>5. DiskDisjoint'
    BY <2>2 DEF DiskDisjoint, DisjointBlocks, Entry
  <2>6. MemSync'
    BY <2>2, <2>3 DEF MemSync, Entry
  <2>7. InsideContainer'
    BY <2>2, <2>3 DEF InsideContainer
  <2>8. QED BY <1>0, <2>4, <2>5, <2>6, <2>7
<1>13. ASSUME NEW old \in Names, NEW new \in Names, RenameFile(old, new) PROVE AllocInv'
  <2>1. PICK s \in Slots :
          /\ files[s] # None /\ files' = [files EXCEPT ![s].name = new]
          /\ slot' = [slot EXCEPT ![s] = [key |-> key, fp |-> files'[s]]]
    BY <1>13 DEF RenameFile, FoundAt
  <2>2. PICK g : g = files'[s]
    OBVIOUS
  <2>3. files[s] \in FilePointer /\ new \in Names \ LongNames
    BY <1>13, <2>1 DEF TypeOK, RenameFile
  <2>4. g \in FilePointer /\ g.off = files[s].off /\ g.alloc = files[s].alloc
    BY <2>1, <2>2, <2>3 DEF TypeOK, FilePointer
  <2>5. files' = [files EXCEPT ![s] = g] /\ slot' = [slot EXCEPT ![s] = [key |-> key, fp |-> g]]
    BY <2>1, <2>2 DEF TypeOK
  <2>6. pc = "idle" /\ pc' = "idle" /\ key' = key /\ fsize' = fsize
    BY <1>13 DEF RenameFile, ctlVars
  <2>7. fsize <= fsize' /\ g.off + g.alloc <= fsize'
    BY <2>1, <2>4, <2>6 DEF InsideContainer, TypeOK
  <2>8. \A t \in Slots \ {s} : files[t] # None =>
          DisjointBlocks(g, files[t]) /\ DisjointBlocks(files[t], g)
    BY <2>1, <2>4 DEF MemDisjoint, DisjointBlocks
  <2>9. QED BY <1>0, <2>4, <2>5, <2>6, <2>7, <2>8, BothAlloc
<1>14. CASE Crash
  BY <1>0, <1>14, ClosedAlloc DEF Crash
<1>15. CASE UNCHANGED vars
  BY <1>0, <1>15, SameAlloc DEF vars, MemSync
<1>16. QED
  BY <1>1, <1>2, <1>3, <1>4, <1>5, <1>6, <1>7, <1>8, <1>9, <1>10, <1>11, <1>12, <1>13, <1>14,
     <1>15 DEF Next

LEMMA AllocAlways == Spec => []AllocInv
<1>1. QED BY InitAllocInv, NextAllocInv, PTL DEF Spec

\* For every number of passphrases, files and blocks, and whatever a crash
\* interrupts, no two files of one passphrase share a block.
THEOREM AllocatedBlocksDisjoint == Spec => []BlocksDisjoint
<1>1. AllocInv => BlocksDisjoint
  BY DEF AllocInv, BlocksDisjoint
<1>2. QED BY <1>1, AllocAlways, PTL

\* Every allocation lies inside the container file.
THEOREM AllocatedInside == Spec => []InsideContainer
<1>1. AllocInv => InsideContainer
  BY DEF AllocInv
<1>2. QED BY <1>1, AllocAlways, PTL

\* Outside a write-back m_files is what a reopen would load.
THEOREM HeaderInStep == Spec => []HeaderTracksMemory
<1>1. AllocInv => HeaderTracksMemory
  BY DEF AllocInv, TypeInv, ControlOK, MemSync, HeaderTracksMemory
<1>2. QED BY <1>1, AllocAlways, PTL

-----------------------------------------------------------------------------
(* What was saved can be read back *)

OneKeyInUse == \A k, l \in Keys : k = l

SlotSync ==
  /\ key = None => \A s \in Slots : files[s] = None
  /\ key # None => \A s \in Slots :
       /\ files[s] = None <=> slot[s] = None
       /\ files[s] # None => files[s].id = slot[s].fp.id /\ slot[s].key = key
       /\ pc \notin {"blob", "header"} /\ files[s] # None => files[s] = slot[s].fp
IdsUnique == \A s, t \in Slots :
  s # t /\ slot[s] # None /\ slot[t] # None => slot[s].fp.id # slot[t].fp.id
BlobFits(fp) == fp.used > 0 => BlobBlocks(fp.used) <= fp.alloc
Readable(s) == Authentic(slot[s].key, slot[s].fp, saved[slot[s].fp.id])
HeadersFit == \A s \in Slots : slot[s] # None => BlobFits(slot[s].fp)

\* The write-back in progress: the entry in RAM describes the new blob, which
\* is on disk before the header is written, and never lies over the old one
\* unless it starts where the old one starts.
WriteBackOK ==
  pc \in {"blob", "header"} =>
    /\ CurFile.used = vf[cur].buf.len /\ BlobFits(CurFile)
    /\ pc = "blob" => vf[cur].buf # Empty
    /\ pc = "header" /\ vf[cur].buf # Empty => Holds(data, key, CurFile, vf[cur].buf)
    /\ vf[cur].buf # Empty /\ ~InPlace =>
         DisjointBlocks(slot[vf[cur].slot].fp, CurFile)

SaveInv == AllocInv /\ SlotSync /\ IdsUnique /\ HeadersFit /\ WriteBackOK /\ SavedReadable

\* Writing a blob inside its allocation leaves the blob of a file that shares
\* no block with it as it was, however short the write is cut.
LEMMA HoldsElsewhere ==
  ASSUME NEW fp \in FilePointer, NEW g \in FilePointer, NEW c \in Contents, NEW w \in Contents,
         NEW k, NEW n \in Nat, n <= g.alloc, DisjointBlocks(fp, g) \/ DisjointBlocks(g, fp),
         BlobBlocks(c.len) <= fp.alloc, Holds(data, k, fp, c)
  PROVE  Holds(BlobWritten(g, w, n), k, fp, c)
<1>1. /\ fp.off \in Nat /\ fp.alloc \in Nat /\ g.off \in Nat /\ g.alloc \in Nat
      /\ BlobBlocks(c.len) \in Nat
  BY ContentType DEF FilePointer
<1>2. SUFFICES ASSUME NEW b \in Blocks, fp.off <= b, b < fp.off + BlobBlocks(c.len)
               PROVE BlobWritten(g, w, n)[b] = data[b]
  BY DEF Holds
<1>3. b \in Nat
  BY SizesAssumption DEF Blocks
<1>4. ~(g.off <= b /\ b < g.off + n)
  BY <1>1, <1>2, <1>3 DEF DisjointBlocks
<1>5. QED BY <1>2, <1>4 DEF BlobWritten

\* A whole write leaves the blob on disk.
LEMMA HoldsWritten ==
  ASSUME NEW g \in FilePointer, NEW w \in Contents, BlobBlocks(w.len) <= g.alloc
  PROVE  Holds(BlobWritten(g, w, Extent(g, w)), key, g, w)
<1>1. g.off \in Nat /\ g.alloc \in Nat /\ BlobBlocks(w.len) \in Nat
  BY ContentType DEF FilePointer
<1>2. Extent(g, w) = g.alloc
  BY <1>1 DEF Extent
<1>3. ASSUME NEW b \in Blocks, g.off <= b, b < g.off + BlobBlocks(w.len)
      PROVE  b < g.off + g.alloc
  BY <1>1, <1>3, SizesAssumption DEF Blocks
<1>4. QED BY <1>2, <1>3 DEF Holds, BlobWritten

LEMMA InitSaveInv == OneKeyInUse /\ Init => SaveInv
<1>1. Init => AllocInv
  BY InitAllocInv
<1>2. QED
  BY <1>1 DEF Init, SaveInv, SlotSync, IdsUnique, HeadersFit, WriteBackOK, SavedReadable

\* Steps that leave the disk and its history alone, outside a write-back.
LEMMA SameSave ==
  ASSUME SaveInv, AllocInv', SlotSync', slot' = slot, data' = data, saved' = saved,
         damaged' = damaged, pc \notin {"blob", "header"}, pc' \notin {"blob", "header"}
  PROVE  SaveInv'
<1>1. IdsUnique' /\ HeadersFit' /\ WriteBackOK'
  BY DEF SaveInv, IdsUnique, HeadersFit, BlobFits, WriteBackOK
<1>2. SavedReadable'
  BY DEF SaveInv, SavedReadable, AtRisk, Authentic, Holds
<1>3. QED BY <1>1, <1>2 DEF SaveInv

\* m_files and the headers agree again after a step outside a write-back
\* that changes neither.
LEMMA SameSync ==
  ASSUME SlotSync, slot' = slot, files' = files, key' = key, pc \notin {"blob", "header"}
  PROVE  SlotSync'
BY DEF SlotSync

\* The start of a write-back changes nothing on disk.
LEMMA WriteBackSave ==
  ASSUME SaveInv, pc \in {"idle", "closing"}, NEW h \in Handles,
         NEW reason \in {"flush", "close", "shutdown"}, WriteBack(h, reason)
  PROVE  SaveInv'
<1> DEFINE s == vf[h].slot
<1> USE DEF SaveInv, AllocInv, TypeInv
<1>1. AllocInv'
  BY WriteBackAlloc
<1>2. key # None
  BY DEF ControlOK
<1>3. /\ files' \in [Slots -> {None} \cup FilePointer] /\ vf[h] \in VirtualFile
      /\ files'[s] \in FilePointer
  BY <1>2, WriteBackType
<1>4. /\ s \in Slots /\ files[s] \in FilePointer /\ files[s] # None
      /\ vf[h].buf \in Contents /\ vf[h].buf.len \in 0 .. MaxLen
  BY <1>3, ContentType DEF VirtualFile, WriteBack, MustWrite, TypeOK
<1>5. \A t \in Slots \ {s} : files'[t] = files[t]
  BY <1>3, <1>4 DEF WriteBack, Fit, Relocate, TypeOK
<1>6. /\ slot' = slot /\ data' = data /\ key' = key /\ cur' = h /\ vf' = vf
      /\ saved' = saved /\ damaged' = damaged /\ pc' \in {"blob", "header"}
  BY DEF WriteBack, history
<1>7. files[s] = slot[s].fp /\ slot[s] # None
  BY <1>2, <1>4 DEF SlotSync
<1>8. /\ files'[s].id = files[s].id /\ files'[s].used = vf[h].buf.len /\ BlobFits(files'[s])
      /\ pc' = "blob" => vf[h].buf # Empty
      /\ pc' = "header" => vf[h].buf = Empty
      /\ files'[s].off = files[s].off \/ DisjointBlocks(files[s], files'[s])
  <2>1. CASE vf[h].buf = Empty /\ files' = [files EXCEPT ![s].used = 0] /\ pc' = "header"
    <3>1. Empty.len = 0
      BY DEF Empty
    <3>2. QED BY <1>4, <2>1, <3>1 DEF TypeOK, FilePointer, BlobFits
  <2>2. CASE vf[h].buf # Empty /\ Fit(h) /\ pc' = "blob"
    BY <1>4, <2>2 DEF Fit, TypeOK, FilePointer, BlobFits
  <2>3. CASE vf[h].buf # Empty /\ Relocate(h) /\ pc' = "blob"
    <3>1. PICK e \in Blocks, a \in 1 .. DataBlocks, size \in 0 .. DataBlocks :
            /\ EndOfData(e) /\ PowerOf2For(BlobBlocks(vf[h].buf.len), a) /\ Covers(e + a, size)
            /\ fsize' = size
            /\ files' = [files EXCEPT ![s].off = e, ![s].alloc = a, ![s].used = vf[h].buf.len]
      BY <2>3 DEF Relocate
    <3>2. /\ files'[s].off = e /\ files'[s].alloc = a /\ e \in Nat /\ a \in Nat
          /\ files'[s].used = vf[h].buf.len /\ files'[s].id = files[s].id
      <4>1. e \in Nat /\ a \in Nat
        BY SizesAssumption DEF Blocks
      <4>2. files'[s].off = e /\ files'[s].alloc = a /\ files'[s].used = vf[h].buf.len
        BY <1>4, <3>1 DEF TypeOK, FilePointer
      <4>3. files'[s].id = files[s].id
        BY <1>4, <3>1 DEF TypeOK, FilePointer
      <4>4. QED BY <4>1, <4>2, <4>3
    <3>3. DisjointBlocks(files[s], files'[s])
      BY <1>4, <3>1, <3>2, BehindAll
    <3>4. BlobFits(files'[s])
      BY <3>1, <3>2 DEF BlobFits, PowerOf2For
    <3>5. QED BY <2>3, <3>2, <3>3, <3>4
  <2>4. QED BY <2>1, <2>2, <2>3 DEF WriteBack
<1>9. SlotSync'
  BY <1>2, <1>4, <1>5, <1>3, <1>6, <1>7, <1>8, NoneAssumption DEF SlotSync
<1>10. IdsUnique' /\ HeadersFit'
  BY <1>6 DEF IdsUnique, HeadersFit, BlobFits
<1>11. WriteBackOK'
  BY <1>6, <1>7, <1>8 DEF WriteBackOK, CurFile, InPlace, BlobFits, DisjointBlocks
<1>12. SavedReadable'
  BY <1>6 DEF SavedReadable, AtRisk, Authentic, Holds
<1>13. QED BY <1>1, <1>9, <1>10, <1>11, <1>12

\* A blob being written, whole or in part, disturbs only the old blob of its
\* own file, and that only in place.
LEMMA BlobSave ==
  ASSUME SaveInv, pc = "blob", NEW n \in Nat, n <= Extent(CurFile, vf[cur].buf),
         NEW s \in Slots, slot[s] # None, slot[s].fp.id \notin damaged, ~AtRisk(s)
  PROVE  LET c == saved[slot[s].fp.id]
             d == BlobWritten(CurFile, vf[cur].buf, n)
         IN  c.len = slot[s].fp.used
             /\ (slot[s].fp.used > 0 => Holds(d, slot[s].key, slot[s].fp, c))
<1> USE DEF SaveInv, AllocInv, TypeInv
<1> DEFINE c == saved[slot[s].fp.id]
<1>1. /\ key \in Keys /\ key # None /\ cur \in Handles /\ vf[cur] \in VirtualFile
      /\ CurFile \in FilePointer /\ CurFile = files[vf[cur].slot] /\ vf[cur].slot \in Slots
      /\ vf[cur].buf \in Contents /\ vf[cur].buf # Empty /\ CurFile # None
  BY NoneAssumption DEF ControlOK, TypeOK, CurFile, VirtualFile, WriteBackOK
<1>2. slot[s].fp \in FilePointer /\ slot[s].fp.id \in FileIds
  BY DEF TypeOK, Header, FilePointer
<1>3. c \in Contents
  BY <1>2 DEF SavedReadable, TypeOK
<1>4. c.len = slot[s].fp.used /\ (slot[s].fp.used > 0 => Holds(data, slot[s].key, slot[s].fp, c))
  BY DEF SavedReadable, Authentic
<1>5. CurFile.alloc \in Nat /\ CurFile.used \in 0 .. MaxLen /\ slot[s].fp.used \in 0 .. MaxLen
      /\ BlobBlocks(vf[cur].buf.len) \in Nat
  BY <1>1, <1>2, ContentType DEF FilePointer
<1>6. n <= CurFile.alloc
  <2>1. vf[cur].buf.len > 0
    BY <1>1, SizesAssumption DEF Contents
  <2>2. BlobBlocks(vf[cur].buf.len) <= CurFile.alloc
    BY <2>1 DEF WriteBackOK, BlobFits
  <2>3. QED BY <1>5, <2>2 DEF Extent
<1>7. CASE slot[s].fp.used > 0
  <2>1. DisjointBlocks(slot[s].fp, CurFile) \/ DisjointBlocks(CurFile, slot[s].fp)
    <3>1. CASE s = vf[cur].slot
      <4>1. ~InPlace
        BY <1>1, <1>7, <3>1 DEF AtRisk
      <4>2. QED BY <1>1, <3>1, <4>1 DEF WriteBackOK
    <3>2. CASE s # vf[cur].slot
      <4>1. files[s] = Entry(key, s)
        BY <1>1, <3>2 DEF MemSync
      <4>2. files[s] # None /\ slot[s].key = key
        BY <1>1 DEF SlotSync
      <4>3. files[s] = slot[s].fp
        BY <4>1, <4>2 DEF Entry
      <4>4. QED BY <1>1, <3>2, <4>2, <4>3 DEF MemDisjoint
    <3>3. QED BY <3>1, <3>2
  <2>2. BlobBlocks(c.len) <= slot[s].fp.alloc
    BY <1>4, <1>7 DEF HeadersFit, BlobFits
  <2>3. QED BY <1>1, <1>2, <1>3, <1>4, <1>6, <1>7, <2>1, <2>2, HoldsElsewhere
<1>8. CASE ~(slot[s].fp.used > 0)
  BY <1>4, <1>8
<1>9. QED BY <1>7, <1>8

\* A header written for a new empty file, or rewritten for a renamed one.
LEMMA BothSave ==
  ASSUME SaveInv, OneKeyInUse, AllocInv', pc = "idle", pc' = "idle", key' = key, data' = data,
         damaged' = damaged, NEW s \in Slots, NEW g \in FilePointer, BlobFits(g),
         files' = [files EXCEPT ![s] = g],
         slot' = [slot EXCEPT ![s] = [key |-> key, fp |-> g]],
         \A t \in Slots \ {s} : slot[t] # None =>
            slot[t].fp.id # g.id /\ saved'[slot[t].fp.id] = saved[slot[t].fp.id],
         saved'[g.id] # None,
         g.id \notin damaged =>
           saved'[g.id].len = g.used /\ (g.used > 0 => Holds(data, key, g, saved'[g.id]))
  PROVE  SaveInv'
<1> USE DEF SaveInv, AllocInv, TypeInv
<1>1. key \in Keys /\ key # None
  BY NoneAssumption DEF ControlOK, TypeOK
<1>2. g # None /\ [key |-> key, fp |-> g] # None
  BY <1>1, NoneAssumption DEF Header
<1>3. /\ files'[s] = g /\ \A t \in Slots \ {s} : files'[t] = files[t]
      /\ slot'[s] = [key |-> key, fp |-> g] /\ \A t \in Slots \ {s} : slot'[t] = slot[t]
  BY DEF TypeOK
<1>4. SlotSync'
  BY <1>1, <1>2, <1>3 DEF SlotSync
<1>5. IdsUnique' /\ HeadersFit' /\ WriteBackOK'
  BY <1>3 DEF IdsUnique, HeadersFit, BlobFits, WriteBackOK
<1>6. SavedReadable'
  <2>1. \A t \in Slots \ {s} :
          /\ slot'[t] # None => saved'[slot'[t].fp.id] # None
          /\ slot'[t] # None /\ slot'[t].fp.id \notin damaged'
               => Authentic(slot[t].key, slot[t].fp, saved[slot[t].fp.id])
    BY <1>3 DEF SavedReadable, AtRisk
  <2>2. QED
    BY <1>3, <2>1 DEF SavedReadable, Authentic, Holds
<1>7. QED BY <1>4, <1>5, <1>6

\* Every step keeps what was saved readable.
LEMMA NextSaveInv == OneKeyInUse /\ SaveInv /\ [Next]_vars => SaveInv'
<1> SUFFICES ASSUME OneKeyInUse, SaveInv, [Next]_vars PROVE SaveInv'
  OBVIOUS
<1> USE DEF SaveInv, AllocInv, TypeInv
<1>0. AllocInv'
  BY NextAllocInv
<1>1. ASSUME NEW k \in Keys, Open(k) PROVE SaveInv'
  <2>1. k # None /\ key' = k /\ slot' = slot /\ pc = "closed" /\ pc' = "idle"
        /\ files' = [s \in Slots |-> Entry(k, s)] /\ data' = data /\ history' = history
    BY <1>1, NoneAssumption DEF Open, diskVars
  <2>2. \A s \in Slots : slot[s] # None => slot[s].key = k /\ slot[s].fp # None
    BY NoneAssumption DEF OneKeyInUse, TypeOK, Header
  <2>3. SlotSync'
    BY <2>1, <2>2 DEF SlotSync, Entry
  <2>4. QED BY <1>0, <2>1, <2>3, SameSave DEF history
<1>2. ASSUME NEW h \in Handles, NEW n \in Names, NEW truncate \in BOOLEAN,
             OpenExisting(h, n, truncate)
      PROVE SaveInv'
  BY <1>0, <1>2, SameSave, SameSync DEF OpenExisting, diskVars, memVars, ctlVars, history
<1>3. ASSUME NEW h \in Handles, NEW n \in Names, OpenNew(h, n) PROVE SaveInv'
  <2>1. PICK s \in Slots, id \in FileIds, e \in Blocks, size \in 0 .. DataBlocks,
             r \in 0 .. SlotCount + Cardinality(FileIds) :
          /\ FreeSlot(s) /\ saved[id] = None /\ EndOfData(e) /\ Covers(e + 1, size) /\ NewRank(r)
          /\ fsize' = size
          /\ files' = [files EXCEPT ![s] =
                         [id |-> id, name |-> n, off |-> e, alloc |-> 1, used |-> 0]]
          /\ slot' = [slot EXCEPT ![s] = [key |-> key, fp |-> files'[s]]]
          /\ rank' = [rank EXCEPT ![s] = r]
          /\ vf' = [vf EXCEPT ![h] = [slot |-> s, id |-> id, buf |-> Empty,
                                      dirty |-> FALSE, att |-> TRUE]]
          /\ saved' = [saved EXCEPT ![id] = Empty]
    BY <1>3 DEF OpenNew
  <2> DEFINE g == [id |-> id, name |-> n, off |-> e, alloc |-> 1, used |-> 0]
  <2>2. g \in FilePointer
    BY <1>3, SizesAssumption DEF OpenNew, FilePointer, Blocks
  <2>3. g.id = id /\ g.used = 0 /\ BlobFits(g)
    BY DEF BlobFits
  <2>4. files' = [files EXCEPT ![s] = g] /\ slot' = [slot EXCEPT ![s] = [key |-> key, fp |-> g]]
    BY <2>1 DEF TypeOK
  <2>5. saved'[id] = Empty /\ Empty # None /\ Empty.len = 0
    BY <2>1, NoneAssumption DEF TypeOK, Contents, Empty
  <2>6. \A t \in Slots \ {s} : slot[t] # None =>
          slot[t].fp.id # id /\ saved'[slot[t].fp.id] = saved[slot[t].fp.id]
    BY <2>1 DEF SavedReadable, TypeOK
  <2>7. /\ pc = "idle" /\ pc' = "idle" /\ key' = key /\ data' = data /\ damaged' = damaged
    BY <1>3 DEF OpenNew, ctlVars
  <2> HIDE DEF g
  <2>8. /\ saved'[g.id] # None
        /\ g.id \notin damaged =>
             saved'[g.id].len = g.used /\ (g.used > 0 => Holds(data, key, g, saved'[g.id]))
        /\ \A t \in Slots \ {s} : slot[t] # None =>
             slot[t].fp.id # g.id /\ saved'[slot[t].fp.id] = saved[slot[t].fp.id]
    BY <2>3, <2>5, <2>6
  <2>9. BlobFits(g)
    BY <2>3
  <2>10. QED BY <1>0, <2>2, <2>4, <2>7, <2>8, <2>9, BothSave
<1>4. ASSUME NEW h \in Handles, NEW c \in Contents, Write(h, c) PROVE SaveInv'
  BY <1>0, <1>4, SameSave, SameSync DEF Write, diskVars, memVars, ctlVars, history
<1>5. CASE PutBlob
  <2>1. /\ pc = "blob" /\ pc' = "header" /\ slot' = slot /\ key' = key /\ files' = files
        /\ cur' = cur /\ vf' = vf /\ saved' = saved /\ damaged' = damaged
        /\ data' = BlobWritten(CurFile, vf[cur].buf, Extent(CurFile, vf[cur].buf))
    BY <1>5 DEF PutBlob, memVars, history
  <2>2. /\ CurFile \in FilePointer /\ vf[cur].buf \in Contents /\ vf[cur].buf # Empty
    BY <2>1 DEF ControlOK, TypeOK, CurFile, VirtualFile, WriteBackOK
  <2>3. SlotSync' /\ IdsUnique' /\ HeadersFit'
    BY <2>1 DEF SlotSync, IdsUnique, HeadersFit, BlobFits
  <2>4. BlobBlocks(vf[cur].buf.len) <= CurFile.alloc
    <3>1. vf[cur].buf.len > 0
      BY <2>2, SizesAssumption DEF Contents
    <3>2. QED BY <2>1, <3>1 DEF WriteBackOK, BlobFits
  <2>5. WriteBackOK'
    <3>1. Holds(data', key, CurFile, vf[cur].buf)
      BY <2>1, <2>2, <2>4, HoldsWritten
    <3>2. QED BY <2>1, <3>1 DEF WriteBackOK, CurFile, InPlace, Holds, BlobFits, DisjointBlocks
  <2>6. SavedReadable'
    <3>1. Extent(CurFile, vf[cur].buf) \in Nat
      BY <2>2, ContentType DEF Extent, FilePointer
    <3>2. Extent(CurFile, vf[cur].buf) <= Extent(CurFile, vf[cur].buf)
      BY <3>1
    <3>3. ASSUME NEW s \in Slots, slot[s] # None, slot[s].fp.id \notin damaged, ~AtRisk(s)
          PROVE  LET c == saved[slot[s].fp.id]
                 IN  c.len = slot[s].fp.used
                     /\ (slot[s].fp.used > 0 => Holds(data', slot[s].key, slot[s].fp, c))
      BY <2>1, <3>1, <3>2, <3>3, BlobSave
    <3>4. \A s \in Slots : AtRisk(s) <=> AtRisk(s)'
      BY <2>1 DEF AtRisk, InPlace, CurFile
    <3>5. QED BY <2>1, <3>3, <3>4 DEF SavedReadable, Authentic, Holds
  <2>7. QED BY <1>0, <2>3, <2>5, <2>6
<1>6. CASE PutHeader
  <2>0. PICK s, g : s = vf[cur].slot /\ g = CurFile
    OBVIOUS
  <2>1. /\ key \in Keys /\ key # None /\ s \in Slots /\ g \in FilePointer /\ g = files[s] /\ g # None
        /\ vf[cur].buf \in Contents
    BY <1>6, <2>0, NoneAssumption DEF PutHeader, ControlOK, TypeOK, CurFile, VirtualFile
  <2>2. /\ slot' = [slot EXCEPT ![s] = [key |-> key, fp |-> g]]
        /\ saved' = [saved EXCEPT ![g.id] = vf[cur].buf] /\ damaged' = damaged \ {g.id}
        /\ key' = key /\ files' = files /\ data' = data
        /\ pc = "header" /\ pc' \in {"idle", "closing"}
    BY <1>6, <2>0 DEF PutHeader, memVars
  <2>3. slot'[s] = [key |-> key, fp |-> g] /\ \A t \in Slots \ {s} : slot'[t] = slot[t]
    BY <2>1, <2>2 DEF TypeOK
  <2>4. [key |-> key, fp |-> g] # None
    BY <2>1, NoneAssumption DEF Header
  <2>5. slot[s] # None /\ slot[s].fp.id = g.id /\ g.id \in FileIds
    BY <2>1 DEF SlotSync, FilePointer
  <2>6. SlotSync'
    <3>1. \A t \in Slots \ {s} : files[t] # None => files[t] = slot[t].fp
      BY <2>0, <2>1, <2>2 DEF MemSync, SlotSync, Entry
    <3>2. QED BY <2>1, <2>2, <2>3, <2>4, <2>5, <3>1 DEF SlotSync
  <2>7. IdsUnique'
    BY <2>3, <2>5 DEF IdsUnique
  <2>8. HeadersFit'
    BY <2>0, <2>2, <2>3 DEF HeadersFit, WriteBackOK, BlobFits
  <2>9. WriteBackOK'
    BY <2>2 DEF WriteBackOK
  <2>10. SavedReadable'
    <3>1. saved'[g.id] = vf[cur].buf /\ vf[cur].buf # None
      BY <2>1, <2>2, <2>5, NoneAssumption DEF TypeOK
    <3>2. vf[cur].buf.len = g.used /\ (g.used > 0 => Holds(data, key, g, vf[cur].buf))
      <4>1. Empty.len = 0
        BY DEF Empty
      <4>2. QED BY <2>0, <2>2, <4>1 DEF WriteBackOK
    <3>3. \A t \in Slots \ {s} : slot[t] # None =>
            /\ slot[t].fp.id # g.id /\ saved'[slot[t].fp.id] = saved[slot[t].fp.id]
            /\ saved[slot[t].fp.id] # None
            /\ slot[t].fp.id \notin damaged
                 => Authentic(slot[t].key, slot[t].fp, saved[slot[t].fp.id])
      <4>1. \A t \in Slots \ {s} : slot[t] # None => slot[t].fp.id # g.id
        BY <2>1, <2>5 DEF IdsUnique
      <4>2. \A t \in Slots \ {s} : ~AtRisk(t)
        BY <2>0 DEF AtRisk
      <4>3. QED BY <2>2, <4>1, <4>2 DEF SavedReadable, TypeOK
    <3>4. \A t \in Slots \ {s} :
            /\ slot'[t] # None => saved'[slot'[t].fp.id] # None
            /\ slot'[t] # None /\ slot'[t].fp.id \notin damaged'
                 => Readable(t)'
      <4>1. SUFFICES ASSUME NEW t \in Slots \ {s}, slot[t] # None
                     PROVE  /\ saved'[slot'[t].fp.id] # None
                            /\ slot[t].fp.id \notin damaged' => Readable(t)'
        BY <2>3
      <4>2. slot'[t] = slot[t] /\ saved'[slot[t].fp.id] = saved[slot[t].fp.id]
        BY <2>3, <3>3, <4>1
      <4>3. slot[t].fp.id \notin damaged' => Readable(t)
        BY <2>2, <3>3, <4>1 DEF Readable
      <4>4. Readable(t) => Readable(t)'
        BY <2>2, <4>2 DEF Readable, Authentic, Holds
      <4>5. QED BY <3>3, <4>1, <4>2, <4>3, <4>4
    <3>5. slot'[s] # None /\ saved'[slot'[s].fp.id] # None
      BY <2>3, <2>4, <3>1
    <3>6. Readable(s)'
      BY <2>2, <2>3, <3>1, <3>2 DEF Readable, Authentic, Holds
    <3>7. QED
      BY <3>4, <3>5, <3>6 DEF SavedReadable, Readable
  <2>11. QED BY <1>0, <2>6, <2>7, <2>8, <2>9, <2>10
<1>7. ASSUME NEW h \in Handles, Flush(h) PROVE SaveInv'
  BY <1>7, WriteBackSave DEF Flush
<1>8. ASSUME NEW h \in Handles, CloseFile(h) PROVE SaveInv'
  <2>1. CASE pc = "idle" /\ WriteBack(h, "close")
    BY <2>1, WriteBackSave
  <2>2. CASE /\ pc \in {"idle", "closed"}
             /\ UNCHANGED <<diskVars, memVars, ctlVars, history>>
    BY <1>0, <2>2, SameSave, SameSync DEF diskVars, memVars, ctlVars, history
  <2>3. QED BY <1>8, <2>1, <2>2 DEF CloseFile
<1>9. CASE CloseContainer
  BY <1>0, <1>9, SameSave, SameSync DEF CloseContainer, diskVars, memVars, history
<1>10. ASSUME NEW h \in Handles, CloseFlush(h) PROVE SaveInv'
  <2>1. CASE WriteBack(h, "shutdown")
    BY <1>10, <2>1, WriteBackSave DEF CloseFlush
  <2>2. CASE ~WriteBack(h, "shutdown")
    BY <1>0, <1>10, <2>2, SameSave, SameSync DEF CloseFlush, diskVars, memVars, history
  <2>3. QED BY <2>1, <2>2
<1>11. CASE CloseDone
  <2>1. SlotSync'
    BY <1>11 DEF CloseDone, SlotSync
  <2>2. QED BY <1>0, <1>11, <2>1, SameSave DEF CloseDone, diskVars, history
<1>12. ASSUME NEW n \in Names, DeleteFile(n) PROVE SaveInv'
  <2>1. PICK s \in Slots :
          /\ files[s] # None
          /\ slot' = [slot EXCEPT ![s] = None] /\ files' = [files EXCEPT ![s] = None]
          /\ saved' = [saved EXCEPT ![files[s].id] = Empty]
          /\ damaged' = damaged \ {files[s].id}
    BY <1>12 DEF DeleteFile, FoundAt
  <2>2. /\ files'[s] = None /\ \A t \in Slots \ {s} : files'[t] = files[t]
        /\ slot'[s] = None /\ \A t \in Slots \ {s} : slot'[t] = slot[t]
    BY <2>1 DEF TypeOK
  <2>3. pc = "idle" /\ pc' = "idle" /\ key' = key /\ data' = data /\ key # None
    BY <1>12 DEF DeleteFile, ctlVars, ControlOK
  <2>4. slot[s] # None /\ slot[s].fp.id = files[s].id
    BY <2>1, <2>3 DEF SlotSync
  <2>5. \A t \in Slots \ {s} : slot[t] # None =>
          /\ slot[t].fp.id # files[s].id /\ saved'[slot[t].fp.id] = saved[slot[t].fp.id]
          /\ saved[slot[t].fp.id] # None
          /\ slot[t].fp.id \notin damaged
               => Authentic(slot[t].key, slot[t].fp, saved[slot[t].fp.id])
    <3>1. \A t \in Slots \ {s} : slot[t] # None => slot[t].fp.id # files[s].id
      BY <2>4 DEF IdsUnique
    <3>2. \A t \in Slots \ {s} : ~AtRisk(t)
      BY <2>3 DEF AtRisk
    <3>3. QED BY <2>1, <3>1, <3>2 DEF SavedReadable, TypeOK
  <2>6. SlotSync'
    BY <2>2, <2>3 DEF SlotSync
  <2>7. IdsUnique' /\ HeadersFit' /\ WriteBackOK'
    BY <2>2, <2>3 DEF IdsUnique, HeadersFit, BlobFits, WriteBackOK
  <2>8. SavedReadable'
    <3>1. \A t \in Slots \ {s} :
            /\ slot'[t] # None => saved'[slot'[t].fp.id] # None
            /\ slot'[t] # None /\ slot'[t].fp.id \notin damaged'
                 => Readable(t)'
      <4>1. SUFFICES ASSUME NEW t \in Slots \ {s}, slot[t] # None
                     PROVE  /\ saved'[slot'[t].fp.id] # None
                            /\ slot[t].fp.id \notin damaged' => Readable(t)'
        BY <2>2
      <4>2. slot'[t] = slot[t] /\ saved'[slot[t].fp.id] = saved[slot[t].fp.id]
        BY <2>2, <2>5, <4>1
      <4>3. slot[t].fp.id \notin damaged' => Readable(t)
        BY <2>1, <2>5, <4>1 DEF Readable
      <4>4. Readable(t) => Readable(t)'
        BY <2>3, <4>2 DEF Readable, Authentic, Holds
      <4>5. QED BY <2>5, <4>1, <4>2, <4>3, <4>4
    <3>2. slot'[s] = None
      BY <2>2
    <3>3. QED BY <3>1, <3>2 DEF SavedReadable, Readable
  <2>9. QED BY <1>0, <2>6, <2>7, <2>8
<1>13. ASSUME NEW old \in Names, NEW new \in Names, RenameFile(old, new) PROVE SaveInv'
  <2>1. PICK s \in Slots :
          /\ files[s] # None /\ files' = [files EXCEPT ![s].name = new]
          /\ slot' = [slot EXCEPT ![s] = [key |-> key, fp |-> files'[s]]]
    BY <1>13 DEF RenameFile, FoundAt
  <2>2. PICK g : g = files'[s]
    OBVIOUS
  <2>3. files[s] \in FilePointer /\ new \in Names \ LongNames
    BY <1>13, <2>1 DEF TypeOK, RenameFile
  <2>4. /\ g \in FilePointer /\ g.off = files[s].off /\ g.alloc = files[s].alloc
        /\ g.used = files[s].used /\ g.id = files[s].id
    BY <2>1, <2>2, <2>3 DEF TypeOK, FilePointer
  <2>5. files' = [files EXCEPT ![s] = g] /\ slot' = [slot EXCEPT ![s] = [key |-> key, fp |-> g]]
    BY <2>1, <2>2 DEF TypeOK
  <2>6. /\ pc = "idle" /\ pc' = "idle" /\ key' = key /\ data' = data
        /\ saved' = saved /\ damaged' = damaged /\ key # None
    BY <1>13 DEF RenameFile, ctlVars, history, ControlOK
  <2>7. slot[s] # None /\ slot[s].fp = files[s] /\ slot[s].key = key
    BY <2>1, <2>6 DEF SlotSync
  <2>8. BlobFits(g)
    BY <2>4, <2>7 DEF HeadersFit, BlobFits
  <2>9. \A t \in Slots \ {s} : slot[t] # None => slot[t].fp.id # g.id
    BY <2>4, <2>7 DEF IdsUnique
  <2>10. /\ saved[g.id] # None
         /\ g.id \notin damaged =>
              saved[g.id].len = g.used /\ (g.used > 0 => Holds(data, key, g, saved[g.id]))
    <3>1. ~AtRisk(s)
      BY <2>6 DEF AtRisk
    <3>2. QED BY <2>4, <2>7, <3>1 DEF SavedReadable, Authentic, Holds
  <2>11. QED BY <1>0, <2>4, <2>5, <2>6, <2>8, <2>9, <2>10, BothSave
<1>14. CASE Crash
  <2>1. /\ pc' = "closed" /\ key' = None /\ files' = [s \in Slots |-> None]
        /\ slot' = slot /\ saved' = saved
        /\ damaged' = damaged \cup {slot[s].fp.id : s \in {t \in Slots : AtRisk(t)}}
    BY <1>14 DEF Crash
  <2>2. SlotSync' /\ IdsUnique' /\ HeadersFit' /\ WriteBackOK'
    BY <2>1 DEF SlotSync, IdsUnique, HeadersFit, BlobFits, WriteBackOK
  <2>3. ASSUME NEW s \in Slots, slot[s] # None, slot[s].fp.id \notin damaged'
        PROVE  LET c == saved[slot[s].fp.id]
               IN  c.len = slot[s].fp.used
                   /\ (slot[s].fp.used > 0 => Holds(data', slot[s].key, slot[s].fp, c))
    <3>1. slot[s].fp.id \notin damaged /\ ~AtRisk(s)
      BY <2>1, <2>3
    <3>2. CASE pc = "blob"
      <4>1. CurFile \in FilePointer /\ vf[cur].buf \in Contents
        BY <3>2 DEF ControlOK, TypeOK, CurFile, VirtualFile
      <4>2. Extent(CurFile, vf[cur].buf) \in Nat
        BY <4>1, ContentType DEF Extent, FilePointer
      <4>3. PICK n \in 0 .. Extent(CurFile, vf[cur].buf) :
              data' = BlobWritten(CurFile, vf[cur].buf, n)
        BY <1>14, <3>2 DEF Crash
      <4>4. n \in Nat /\ n <= Extent(CurFile, vf[cur].buf)
        BY <4>2
      <4>5. QED BY <2>3, <3>1, <3>2, <4>3, <4>4, BlobSave
    <3>3. CASE pc # "blob"
      <4>1. data' = data
        BY <1>14, <3>3 DEF Crash
      <4>2. QED BY <2>3, <3>1, <4>1 DEF SavedReadable, Authentic
    <3>4. QED BY <3>2, <3>3
  <2>4. SavedReadable'
    BY <2>1, <2>3 DEF SavedReadable, Authentic, Holds
  <2>5. QED BY <1>0, <2>2, <2>4
<1>15. CASE UNCHANGED vars
  BY <1>0, <1>15 DEF vars, SlotSync, IdsUnique, HeadersFit, BlobFits, WriteBackOK, SavedReadable,
     AtRisk, InPlace, CurFile, Authentic, Holds, DisjointBlocks
<1>16. QED
  BY <1>1, <1>2, <1>3, <1>4, <1>5, <1>6, <1>7, <1>8, <1>9, <1>10, <1>11, <1>12, <1>13, <1>14,
     <1>15 DEF Next

\* With one passphrase in use, what was written back last to a file can be
\* read back at every point a crash could come, unless the crash caught that
\* very file while its blob was rewritten in place.
THEOREM SavedStaysReadable ==
  ASSUME OneKeyInUse
  PROVE  Spec => []SavedReadable
<1>1. Init => SaveInv
  BY InitSaveInv
<1>2. SaveInv /\ [Next]_vars => SaveInv'
  BY NextSaveInv
<1>3. SaveInv => SavedReadable
  BY DEF SaveInv
<1>4. QED BY <1>1, <1>2, <1>3, PTL DEF Spec

-----------------------------------------------------------------------------
(* Callers like Core *)

SameName(f, g) == f # None /\ g # None /\ f.name = g.name

\* Of the files one passphrase reveals no two have the same name.
MemNames == \A s, t \in Slots : SameName(files[s], files[t]) => s = t
DiskNames == \A k \in Keys, s, t \in Slots : SameName(Entry(k, s), Entry(k, t)) => s = t

\* An attached handle's slot holds the file the handle was opened on.
Linked(h) ==
  vf[h] # None /\ vf[h].att =>
    /\ pc # "closed"
    /\ files[vf[h].slot] # None /\ files[vf[h].slot].id = vf[h].id
AllLinked == /\ \A h \in Handles : Linked(h)
             /\ pc \in {"blob", "header"} => vf[cur].att

LinkInv == AllocInv /\ MemNames /\ DiskNames /\ AllLinked

-----------------------------------------------------------------------------
LEMMA InitLinkInv == Init => LinkInv
<1>1. Init => MemNames /\ DiskNames /\ AllLinked
  BY DEF Init, MemNames, DiskNames, SameName, Entry, AllLinked, Linked
<1> QED BY <1>1, InitAllocInv DEF LinkInv

\* Names and ids of m_files as they were, and no header changed.
LEMMA SameNames ==
  ASSUME MemNames, DiskNames, slot' = slot,
         \A s \in Slots : files'[s] # None => files[s] # None /\ files'[s].name = files[s].name
  PROVE  MemNames' /\ DiskNames'
<1>1. MemNames'
  BY DEF MemNames, SameName
<1>2. DiskNames'
  BY DEF DiskNames, SameName, Entry
<1> QED BY <1>1, <1>2

\* An entry and its header changed together, under a name no other file has.
LEMMA BothNames ==
  ASSUME AllocInv, MemNames, DiskNames, pc = "idle",
         NEW s \in Slots, NEW g \in FilePointer,
         files' = [files EXCEPT ![s] = g],
         slot' = [slot EXCEPT ![s] = [key |-> key, fp |-> g]],
         \A t \in Slots \ {s} : files[t] # None => files[t].name # g.name
  PROVE  MemNames' /\ DiskNames'
<1>1. key \in Keys /\ key # None
  BY NoneAssumption DEF AllocInv, TypeInv, ControlOK, TypeOK
<1>2. /\ files'[s] = g /\ \A t \in Slots \ {s} : files'[t] = files[t]
      /\ slot'[s] = [key |-> key, fp |-> g] /\ \A t \in Slots \ {s} : slot'[t] = slot[t]
  BY DEF AllocInv, TypeInv, TypeOK
<1>3. \A t \in Slots : files[t] = Entry(key, t)
  BY <1>1 DEF AllocInv, MemSync
<1>4. MemNames'
  BY <1>2 DEF MemNames, SameName
<1>5. DiskNames'
  <2> SUFFICES ASSUME NEW k \in Keys, NEW t \in Slots, NEW u \in Slots,
                      SameName(Entry(k, t), Entry(k, u))'
               PROVE  t = u
    BY DEF DiskNames
  <2>1. \A v \in Slots \ {s} : Entry(k, v)' = Entry(k, v)
    BY <1>2 DEF Entry
  <2>2. Entry(k, s)' = IF k = key THEN g ELSE None
    <3>1. [key |-> key, fp |-> g] # None
      BY <1>1, NoneAssumption DEF Header
    <3> QED BY <1>2, <3>1 DEF Entry
  <2>3. CASE t # s /\ u # s
    BY <2>1, <2>3 DEF DiskNames, SameName
  <2>4. CASE t = s /\ u # s
    BY <1>3, <2>1, <2>2, <2>4 DEF SameName
  <2>5. CASE t # s /\ u = s
    BY <1>3, <2>1, <2>2, <2>5 DEF SameName
  <2> QED BY <2>3, <2>4, <2>5
<1> QED BY <1>4, <1>5

LEMMA HandleType ==
  ASSUME LinkInv, NEW h \in Handles, vf[h] # None PROVE vf[h] \in VirtualFile /\ vf[h].slot \in Slots
BY DEF LinkInv, AllocInv, TypeInv, TypeOK, VirtualFile

\* A write-back keeps the name and the id of its file.
LEMMA WriteBackLinks ==
  ASSUME LinkInv, AllocInv', pc # "closed", NEW h \in Handles, NEW reason, WriteBack(h, reason)
  PROVE  LinkInv'
<1> DEFINE s == vf[h].slot
<1>b. files \in [Slots -> {None} \cup FilePointer]
  BY DEF LinkInv, AllocInv, TypeInv, TypeOK
<1>1. vf[h] \in VirtualFile /\ s \in Slots
  BY DEF WriteBack, LinkInv, AllocInv, TypeInv, TypeOK, VirtualFile
<1>2. files[s] \in FilePointer /\ files[s] # None /\ vf[h].att /\ vf[h] # None
  BY <1>1 DEF WriteBack, MustWrite, LinkInv, AllocInv, TypeInv, TypeOK
<1>3. cur' = h /\ pc' \in {"blob", "header"} /\ vf' = vf /\ slot' = slot
  BY DEF WriteBack
<1>4. files' \in [Slots -> {None} \cup FilePointer] /\ files'[s] \in FilePointer
  BY <1>1, <1>3 DEF AllocInv, TypeInv, TypeOK, ControlOK
<1>5. \A t \in Slots \ {s} : files'[t] = files[t]
  BY <1>1, <1>2 DEF WriteBack, Fit, Relocate, LinkInv, AllocInv, TypeInv, TypeOK
<1>6. files'[s].name = files[s].name /\ files'[s].id = files[s].id
  <2>1. CASE files' = [files EXCEPT ![s].used = 0]
    BY <1>1, <1>2, <1>b, <2>1 DEF FilePointer
  <2>2. CASE Fit(h)
    BY <1>1, <1>2, <1>b, <2>2 DEF Fit, FilePointer
  <2>3. CASE Relocate(h)
    <3>1. PICK e \in Blocks, a \in 1 .. DataBlocks, size \in 0 .. DataBlocks :
            files' = [files EXCEPT ![s].off = e, ![s].alloc = a, ![s].used = vf[h].buf.len]
      BY <2>3 DEF Relocate
    <3> QED BY <1>1, <1>2, <1>b, <3>1 DEF FilePointer
  <2> QED BY <2>1, <2>2, <2>3 DEF WriteBack
<1>7. MemNames' /\ DiskNames'
  BY <1>2, <1>3, <1>5, <1>6, SameNames DEF LinkInv
<1>8. files'[s] # None
  BY <1>4, NoneAssumption
<1>9. AllLinked'
  <2> SUFFICES ASSUME NEW g \in Handles, vf[g] # None, vf[g].att
               PROVE  files'[vf[g].slot] # None /\ files'[vf[g].slot].id = vf[g].id
    BY <1>2, <1>3 DEF AllLinked, Linked
  <2>1. vf[g].slot \in Slots /\ files[vf[g].slot] # None /\ files[vf[g].slot].id = vf[g].id
    BY HandleType DEF LinkInv, AllLinked, Linked
  <2>2. CASE vf[g].slot = s
    BY <1>6, <1>8, <2>1, <2>2
  <2>3. CASE vf[g].slot # s
    BY <1>5, <2>1, <2>3
  <2> QED BY <2>2, <2>3
<1> QED BY <1>7, <1>9 DEF LinkInv

\* Steps that leave m_files and the headers alone.
LEMMA SameLinks ==
  ASSUME LinkInv, AllocInv', files' = files, slot' = slot, AllLinked'
  PROVE  LinkInv'
BY SameNames DEF LinkInv

\* Every step keeps names and handles to one file each.
LEMMA NextLinkInv == Careful /\ LinkInv /\ [Next]_vars => LinkInv'
<1> SUFFICES ASSUME Careful, LinkInv, [Next]_vars PROVE LinkInv'
  OBVIOUS
<1>a. AllocInv'
  BY NextAllocInv DEF LinkInv
<1>b. /\ files \in [Slots -> {None} \cup FilePointer] /\ vf \in [Handles -> {None} \cup VirtualFile]
      /\ slot \in [Slots -> {None} \cup Header] /\ MemNames /\ DiskNames /\ AllLinked /\ AllocInv
  BY DEF LinkInv, AllocInv, TypeInv, TypeOK
<1>1. ASSUME NEW k \in Keys, Open(k) PROVE LinkInv'
  <2>1. /\ pc = "closed" /\ pc' = "idle" /\ vf' = vf /\ slot' = slot
        /\ files' = [s \in Slots |-> Entry(k, s)]
    BY <1>1 DEF Open, diskVars
  <2>2. MemNames'
    BY <1>b, <2>1 DEF MemNames, DiskNames, SameName
  <2>3. DiskNames'
    BY <1>b, <2>1 DEF DiskNames, SameName, Entry
  <2>4. AllLinked'
    BY <1>b, <2>1 DEF AllLinked, Linked
  <2> QED BY <1>a, <2>2, <2>3, <2>4 DEF LinkInv
<1>2. ASSUME NEW h \in Handles, NEW n \in Names, NEW truncate \in BOOLEAN,
             OpenExisting(h, n, truncate)
      PROVE LinkInv'
  <2>1. UNCHANGED <<slot, files, pc, cur>> /\ pc = "idle"
    BY <1>2 DEF OpenExisting, diskVars, memVars, ctlVars
  <2>2. PICK s \in Slots :
          /\ files[s] # None
          /\ vf' = [vf EXCEPT ![h] = [slot |-> s, id |-> files[s].id, dirty |-> FALSE, att |-> TRUE,
                      buf |-> IF truncate \/ files[s].used = 0 THEN Empty ELSE ReadBlob(key, files[s])]]
    BY <1>2 DEF OpenExisting, FoundAt
  <2>3. vf'[h].slot = s /\ vf'[h].id = files[s].id /\ \A g \in Handles \ {h} : vf'[g] = vf[g]
    BY <1>b, <2>2
  <2>4. AllLinked'
    BY <1>b, <2>1, <2>2, <2>3 DEF AllLinked, Linked
  <2> QED BY <1>a, <2>1, <2>4, SameLinks
<1>3. ASSUME NEW h \in Handles, NEW n \in Names, OpenNew(h, n) PROVE LinkInv'
  <2>1. PICK s \in Slots, id \in FileIds, e \in Blocks :
          /\ FreeSlot(s)
          /\ files' = [files EXCEPT ![s] =
                         [id |-> id, name |-> n, off |-> e, alloc |-> 1, used |-> 0]]
          /\ slot' = [slot EXCEPT ![s] = [key |-> key, fp |-> files'[s]]]
          /\ vf' = [vf EXCEPT ![h] = [slot |-> s, id |-> id, buf |-> Empty,
                                      dirty |-> FALSE, att |-> TRUE]]
    BY <1>3, ZenonT(30) DEF OpenNew
  <2> DEFINE g == [id |-> id, name |-> n, off |-> e, alloc |-> 1, used |-> 0]
  <2>2. g \in FilePointer /\ g.name = n /\ g.id = id
    BY <1>3, SizesAssumption DEF OpenNew, FilePointer, Blocks
  <2>3. g # None
    BY <2>2, NoneAssumption
  <2>4. files'[s] = g /\ \A t \in Slots \ {s} : files'[t] = files[t]
    BY <1>b, <2>1
  <2>5. slot' = [slot EXCEPT ![s] = [key |-> key, fp |-> g]]
    BY <2>1, <2>4
  <2>6. \A t \in Slots : files[t] # None => files[t].name # n
    BY <1>3 DEF OpenNew, Known
  <2>7. pc = "idle" /\ pc' = "idle" /\ files[s] = None
    BY <1>3, <2>1 DEF OpenNew, FreeSlot, ctlVars
  <2>8. files' = [files EXCEPT ![s] = g]
    BY <2>1
  <2>9. vf'[h].slot = s /\ vf'[h].id = id /\ \A f \in Handles \ {h} : vf'[f] = vf[f]
    BY <1>b, <2>1
  <2> HIDE DEF g
  <2>10. MemNames' /\ DiskNames'
    BY <1>b, <2>2, <2>5, <2>6, <2>7, <2>8, BothNames
  <2>11. AllLinked'
    <3> SUFFICES ASSUME NEW f \in Handles, vf'[f] # None, vf'[f].att
                 PROVE  files'[vf'[f].slot] # None /\ files'[vf'[f].slot].id = vf'[f].id
      BY <2>7 DEF AllLinked, Linked
    <3>1. CASE f = h
      BY <2>2, <2>3, <2>4, <2>9, <3>1
    <3>2. CASE f # h
      <4>1. /\ vf'[f] = vf[f] /\ vf[f].slot \in Slots
            /\ files[vf[f].slot] # None /\ files[vf[f].slot].id = vf[f].id
        BY <1>b, <2>9, <3>2, HandleType DEF AllLinked, Linked
      <4> QED BY <2>4, <2>7, <4>1
    <3> QED BY <3>1, <3>2
  <2> QED BY <1>a, <2>10, <2>11 DEF LinkInv
<1>4. ASSUME NEW h \in Handles, NEW c \in Contents, Write(h, c) PROVE LinkInv'
  <2>1. UNCHANGED <<slot, files, pc, cur>> /\ vf[h] # None
        /\ vf' = [vf EXCEPT ![h].buf = c, ![h].dirty = TRUE]
    BY <1>4 DEF Write, diskVars, memVars, ctlVars
  <2>2. /\ vf'[h].slot = vf[h].slot /\ vf'[h].id = vf[h].id /\ vf'[h].att = vf[h].att
        /\ \A g \in Handles \ {h} : vf'[g] = vf[g]
    BY <1>b, <2>1 DEF VirtualFile
  <2>3. AllLinked'
    BY <1>b, <1>4, <2>1, <2>2 DEF AllLinked, Linked, Write
  <2> QED BY <1>a, <2>1, <2>3, SameLinks
<1>5. CASE PutBlob
  <2>1. UNCHANGED <<slot, files, vf, cur>> /\ pc = "blob" /\ pc' = "header"
    BY <1>5 DEF PutBlob, memVars
  <2>2. AllLinked'
    BY <1>b, <2>1 DEF AllLinked, Linked
  <2> QED BY <1>a, <2>1, <2>2, SameLinks
<1>6. CASE PutHeader
  <2>0. PICK s : s = vf[cur].slot
    OBVIOUS
  <2>1. /\ key \in Keys /\ key # None /\ s \in Slots /\ files[s] \in FilePointer /\ files[s] # None
        /\ cur \in Handles /\ vf[cur] # None
    BY <1>6, <2>0, NoneAssumption DEF PutHeader, LinkInv, AllocInv, TypeInv, ControlOK, TypeOK, VirtualFile
  <2>2. /\ slot' = [slot EXCEPT ![s] = [key |-> key, fp |-> files[s]]]
        /\ files' = files /\ pc' \in {"idle", "closing"}
        /\ \/ vf' = [vf EXCEPT ![cur] = None]
           \/ vf' = [vf EXCEPT ![cur].dirty = FALSE]
    BY <1>6, <2>0 DEF PutHeader, memVars, CurFile
  <2>3. \A t \in Slots \ {s} : files[t] = Entry(key, t)
    BY <2>0, <2>1 DEF LinkInv, AllocInv, MemSync
  <2>4. slot'[s] = [key |-> key, fp |-> files[s]] /\ \A t \in Slots \ {s} : slot'[t] = slot[t]
    BY <1>b, <2>1, <2>2
  <2>5. DiskNames'
    <3> SUFFICES ASSUME NEW k \in Keys, NEW t \in Slots, NEW u \in Slots,
                        SameName(Entry(k, t), Entry(k, u))'
                 PROVE  t = u
      BY DEF DiskNames
    <3>1. \A v \in Slots \ {s} : Entry(k, v)' = Entry(k, v)
      BY <2>4 DEF Entry
    <3>2. Entry(k, s)' = IF k = key THEN files[s] ELSE None
      <4>1. [key |-> key, fp |-> files[s]] # None
        BY <2>1, NoneAssumption DEF Header
      <4> QED BY <2>4, <4>1 DEF Entry
    <3>3. CASE t # s /\ u # s
      BY <1>b, <3>1, <3>3 DEF DiskNames, SameName
    <3>4. CASE t = s /\ u # s
      BY <1>b, <2>1, <2>3, <3>1, <3>2, <3>4 DEF MemNames, SameName
    <3>5. CASE t # s /\ u = s
      BY <1>b, <2>1, <2>3, <3>1, <3>2, <3>5 DEF MemNames, SameName
    <3> QED BY <3>3, <3>4, <3>5
  <2>6. MemNames'
    BY <1>b, <2>2 DEF MemNames, SameName
  <2>7. \A g \in Handles : vf'[g] # None /\ vf'[g].att =>
          vf[g] # None /\ vf[g].att /\ vf'[g].slot = vf[g].slot /\ vf'[g].id = vf[g].id
    <3>1. CASE vf' = [vf EXCEPT ![cur] = None]
      BY <1>b, <2>1, <3>1
    <3>2. CASE vf' = [vf EXCEPT ![cur].dirty = FALSE]
      BY <1>b, <2>1, <3>2 DEF VirtualFile
    <3> QED BY <2>2, <3>1, <3>2
  <2>8. AllLinked'
    BY <1>b, <2>2, <2>7 DEF AllLinked, Linked
  <2> QED BY <1>a, <2>5, <2>6, <2>8 DEF LinkInv
<1>7. ASSUME NEW h \in Handles, Flush(h) PROVE LinkInv'
  BY <1>a, <1>7, WriteBackLinks DEF Flush
<1>8. ASSUME NEW h \in Handles, CloseFile(h) PROVE LinkInv'
  <2>1. CASE pc = "idle" /\ WriteBack(h, "close")
    BY <1>a, <2>1, WriteBackLinks
  <2>2. CASE vf' = [vf EXCEPT ![h] = None] /\ pc \in {"idle", "closed"}
             /\ UNCHANGED <<diskVars, memVars, ctlVars, history>>
    <3>1. UNCHANGED <<slot, files, pc, cur>>
      BY <2>2 DEF diskVars, memVars, ctlVars
    <3>2. AllLinked'
      BY <1>b, <2>2, <3>1 DEF AllLinked, Linked
    <3> QED BY <1>a, <3>1, <3>2, SameLinks
  <2> QED BY <1>8, <2>1, <2>2 DEF CloseFile
<1>9. CASE CloseContainer
  <2>1. UNCHANGED <<slot, files, vf>> /\ pc' = "closing"
    BY <1>9 DEF CloseContainer, diskVars, memVars
  <2>2. AllLinked'
    BY <1>b, <2>1 DEF AllLinked, Linked
  <2> QED BY <1>a, <2>1, <2>2, SameLinks
<1>10. ASSUME NEW h \in Handles, CloseFlush(h) PROVE LinkInv'
  <2>1. CASE WriteBack(h, "shutdown")
    BY <1>a, <1>10, <2>1, WriteBackLinks DEF CloseFlush
  <2>2. CASE ~WriteBack(h, "shutdown")
    <3>1. UNCHANGED <<slot, files, vf, pc, cur>>
      BY <1>10, <2>2 DEF CloseFlush, diskVars, memVars
    <3>2. AllLinked'
      BY <1>b, <3>1 DEF AllLinked, Linked
    <3> QED BY <1>a, <3>1, <3>2, SameLinks
  <2> QED BY <2>1, <2>2
<1>11. CASE CloseDone
  <2>1. /\ slot' = slot /\ files' = [s \in Slots |-> None] /\ pc' = "closed"
        /\ vf' = [h \in Handles |-> IF vf[h] = None THEN None ELSE [vf[h] EXCEPT !.att = FALSE]]
    BY <1>11 DEF CloseDone, diskVars
  <2>2. MemNames' /\ DiskNames'
    BY <1>b, <2>1, SameNames
  <2>3. \A h \in Handles : vf'[h] # None => ~vf'[h].att
    BY <1>b, <2>1 DEF VirtualFile
  <2>4. AllLinked'
    BY <2>1, <2>3 DEF AllLinked, Linked
  <2> QED BY <1>a, <2>2, <2>4 DEF LinkInv
<1>12. ASSUME NEW n \in Names, DeleteFile(n) PROVE LinkInv'
  <2>1. PICK s \in Slots :
          /\ files[s] # None /\ ~Attached(s)
          /\ slot' = [slot EXCEPT ![s] = None] /\ files' = [files EXCEPT ![s] = None]
    BY <1>12 DEF DeleteFile, FoundAt
  <2>2. /\ files'[s] = None /\ \A t \in Slots \ {s} : files'[t] = files[t]
        /\ slot'[s] = None /\ \A t \in Slots \ {s} : slot'[t] = slot[t]
    BY <1>b, <2>1
  <2>3. vf' = vf /\ pc' = pc /\ pc = "idle"
    BY <1>12 DEF DeleteFile, ctlVars
  <2>4. MemNames'
    BY <1>b, <2>2 DEF MemNames, SameName
  <2>5. DiskNames'
    BY <1>b, <2>2 DEF DiskNames, SameName, Entry
  <2>6. AllLinked'
    <3> SUFFICES ASSUME NEW h \in Handles, vf[h] # None, vf[h].att
                 PROVE  files'[vf[h].slot] # None /\ files'[vf[h].slot].id = vf[h].id
      BY <2>3 DEF AllLinked, Linked
    <3>1. vf[h].slot \in Slots \ {s}
      BY <2>1, HandleType DEF Attached
    <3> QED BY <1>b, <2>2, <3>1 DEF AllLinked, Linked
  <2> QED BY <1>a, <2>4, <2>5, <2>6 DEF LinkInv
<1>13. ASSUME NEW old \in Names, NEW new \in Names, RenameFile(old, new) PROVE LinkInv'
  <2>1. PICK s \in Slots :
          /\ files[s] # None /\ files' = [files EXCEPT ![s].name = new]
          /\ slot' = [slot EXCEPT ![s] = [key |-> key, fp |-> files'[s]]]
    BY <1>13 DEF RenameFile, FoundAt
  <2>2. PICK g : g = files'[s]
    OBVIOUS
  <2>3. files[s] \in FilePointer /\ new \in Names \ LongNames
    BY <1>b, <1>13, <2>1 DEF RenameFile
  <2>4. g \in FilePointer /\ g.name = new /\ g.id = files[s].id
    BY <1>b, <2>1, <2>2, <2>3 DEF FilePointer
  <2>5. files' = [files EXCEPT ![s] = g] /\ slot' = [slot EXCEPT ![s] = [key |-> key, fp |-> g]]
    BY <1>b, <2>1, <2>2
  <2>6. pc = "idle" /\ pc' = "idle" /\ vf' = vf
    BY <1>13 DEF RenameFile, ctlVars
  <2>7. \A t \in Slots : files[t] # None => files[t].name # new
    BY <1>13 DEF RenameFile, Known
  <2>8. MemNames' /\ DiskNames'
    BY <1>b, <2>4, <2>5, <2>6, <2>7, BothNames
  <2>9. g # None
    BY <2>4, NoneAssumption
  <2>10. AllLinked'
    <3> SUFFICES ASSUME NEW h \in Handles, vf[h] # None, vf[h].att
                 PROVE  files'[vf[h].slot] # None /\ files'[vf[h].slot].id = vf[h].id
      BY <2>6 DEF AllLinked, Linked
    <3>1. vf[h].slot \in Slots /\ files[vf[h].slot] # None /\ files[vf[h].slot].id = vf[h].id
      BY <1>b, HandleType DEF AllLinked, Linked
    <3> QED BY <1>b, <2>4, <2>5, <2>9, <3>1
  <2> QED BY <1>a, <2>8, <2>10 DEF LinkInv
<1>14. CASE Crash
  <2>1. /\ slot' = slot /\ files' = [s \in Slots |-> None] /\ pc' = "closed"
        /\ vf' = [h \in Handles |-> None]
    BY <1>14 DEF Crash
  <2>2. MemNames' /\ DiskNames'
    BY <1>b, <2>1, SameNames
  <2>3. AllLinked'
    BY <2>1 DEF AllLinked, Linked
  <2> QED BY <1>a, <2>2, <2>3 DEF LinkInv
<1>15. CASE UNCHANGED vars
  <2>1. UNCHANGED <<slot, files, vf, pc, cur>>
    BY <1>15 DEF vars
  <2>2. AllLinked'
    BY <1>b, <2>1 DEF AllLinked, Linked
  <2> QED BY <1>a, <2>1, <2>2, SameLinks
<1> QED
  BY <1>1, <1>2, <1>3, <1>4, <1>5, <1>6, <1>7, <1>8, <1>9, <1>10, <1>11, <1>12, <1>13, <1>14,
     <1>15 DEF Next

LEMMA LinkAlways == ASSUME Careful PROVE Spec => []LinkInv
<1>1. [Next]_vars /\ LinkInv => LinkInv'
  BY NextLinkInv
<1> QED BY <1>1, InitLinkInv, PTL DEF Spec

-----------------------------------------------------------------------------
\* A name leads to the file it would lead to after a reopen (findFileSlot,
\* loadSlots): under such callers no name is ever given twice.
THEOREM NamesLeadToOneFile == ASSUME Careful PROVE Spec => []ReopenFindsSame
<1>1. LinkInv => ReopenFindsSame
  <2> SUFFICES ASSUME LinkInv, NEW n \in Names, NEW s \in Slots, NEW t \in Slots,
                      FoundAt(n, s), files[t] # None, files[t].name = n
               PROVE  s <= t
    BY DEF ReopenFindsSame
  <2>1. s = t
    BY DEF LinkInv, MemNames, SameName, FoundAt
  <2> QED BY <2>1, SizesAssumption DEF Slots
<1> QED BY <1>1, LinkAlways, PTL

\* A write-back lands on the file its VirtualFile was opened on, though the slot
\* index is all a VirtualFile keeps (VirtualFile::flush, writeFileData).
THEOREM WritesLandAtHome == ASSUME Careful PROVE Spec => OwnFileOnly
<1>1. LinkInv => (PutHeader => files[vf[cur].slot].id = vf[cur].id)
  <2> SUFFICES ASSUME LinkInv, PutHeader PROVE files[vf[cur].slot].id = vf[cur].id
    OBVIOUS
  <2>1. cur \in Handles /\ vf[cur] \in VirtualFile /\ vf[cur].att
    BY DEF PutHeader, LinkInv, AllocInv, TypeInv, ControlOK, AllLinked
  <2>2. vf[cur] # None
    BY <2>1, NoneAssumption
  <2> QED BY <2>1, <2>2 DEF LinkInv, AllLinked, Linked
<1> QED BY <1>1, LinkAlways, PTL DEF OwnFileOnly

-----------------------------------------------------------------------------
(* Closing, and the container as a FileStore *)

IsOpen(h) == vf[h] # None /\ vf[h].att

\* A handle that was not written to since holds what was saved.
CleanSaved ==
  \A h \in Handles :
    IsOpen(h) /\ ~vf[h].dirty /\ vf[h].buf # Empty /\ vf[h].id \notin damaged
      => saved[vf[h].id] = vf[h].buf
\* One handle per file.
Alone == \A g, h \in Handles : IsOpen(g) /\ IsOpen(h) /\ vf[g].slot = vf[h].slot => g = h
\* close() has flushed what is not to be flushed any more.
Flushed ==
  pc = "closing" \/ (pc \in {"blob", "header"} /\ why = "shutdown") =>
    \A h \in Handles \ todo : IsOpen(h) => ~vf[h].dirty

HandlesInv == CleanSaved /\ Alone /\ Flushed
Whole == SaveInv /\ LinkInv
CloseInv == Whole /\ HandlesInv

-----------------------------------------------------------------------------
\* Where an open handle stands.
LEMMA OpenFacts ==
  ASSUME Whole, NEW h \in Handles, IsOpen(h)
  PROVE  /\ vf[h] \in VirtualFile /\ vf[h].slot \in Slots /\ pc # "closed" /\ key # None
         /\ files[vf[h].slot] # None /\ files[vf[h].slot].id = vf[h].id
         /\ slot[vf[h].slot] # None /\ slot[vf[h].slot].fp.id = vf[h].id
         /\ slot[vf[h].slot].key = key
         /\ saved[vf[h].id] # None /\ vf[h].id \in FileIds
<1>1. vf[h] \in VirtualFile /\ vf[h].slot \in Slots
  BY HandleType DEF Whole, IsOpen
<1>2. pc # "closed" /\ files[vf[h].slot] # None /\ files[vf[h].slot].id = vf[h].id
  BY DEF Whole, IsOpen, LinkInv, AllLinked, Linked
<1>3. key # None
  BY <1>2 DEF Whole, LinkInv, AllocInv, TypeInv, ControlOK
<1>4. /\ slot[vf[h].slot] # None /\ slot[vf[h].slot].fp.id = vf[h].id
      /\ slot[vf[h].slot].key = key
  BY <1>1, <1>2, <1>3 DEF Whole, SaveInv, SlotSync
<1>5. saved[vf[h].id] # None
  BY <1>1, <1>4 DEF Whole, SaveInv, SavedReadable
<1> QED BY <1>1, <1>2, <1>3, <1>4, <1>5 DEF VirtualFile

\* Two open handles have different files.
LEMMA OtherFile ==
  ASSUME Whole, Alone, NEW g \in Handles, NEW h \in Handles, IsOpen(g), IsOpen(h), g # h
  PROVE  vf[g].slot # vf[h].slot /\ vf[g].id # vf[h].id
<1>1. vf[g].slot # vf[h].slot
  BY DEF Alone
<1>2. vf[g].slot \in Slots /\ slot[vf[g].slot] # None /\ slot[vf[g].slot].fp.id = vf[g].id
  BY OpenFacts
<1>3. vf[h].slot \in Slots /\ slot[vf[h].slot] # None /\ slot[vf[h].slot].fp.id = vf[h].id
  BY OpenFacts
<1> QED BY <1>1, <1>2, <1>3 DEF Whole, SaveInv, IdsUnique

\* A blob of a content that is not empty has a block.
LEMMA SomeBlock == \A len \in Nat : len > 0 => BlobBlocks(len) >= 1
<1>1. ASSUME NEW x \in Nat, NEW y \in Nat \ {0}, x >= y PROVE x \div y >= 1
  BY <1>1, SMT
<1>2. \A len \in Nat : len > 0 => len + Overhead + BlockBytes - 1 \in Nat
                                  /\ len + Overhead + BlockBytes - 1 >= BlockBytes
  BY SizesAssumption
<1> QED BY <1>1, <1>2, SizesAssumption DEF BlobBlocks

\* A blob authenticates as one content only.
LEMMA OneContent ==
  ASSUME NEW k, NEW fp \in FilePointer, NEW c \in Contents, NEW e \in Contents,
         Authentic(k, fp, c), Authentic(k, fp, e), fp.used > 0, BlobFits(fp),
         fp.off + fp.alloc <= fsize, fsize \in 0 .. DataBlocks
  PROVE  c = e
<1>1. fp.off \in Nat /\ fp.alloc \in Nat /\ fp.used \in 0 .. MaxLen
  BY DEF FilePointer
<1>2. /\ c.len = fp.used /\ Holds(data, k, fp, c) /\ e.len = fp.used /\ Holds(data, k, fp, e)
      /\ BlobBlocks(fp.used) \in Nat
  BY ContentType DEF Authentic
<1>3. BlobBlocks(fp.used) >= 1
  BY <1>1, <1>2, SomeBlock
<1>4. fp.off \in Blocks /\ fp.off < fp.off + BlobBlocks(fp.used)
  BY <1>1, <1>2, <1>3, SizesAssumption DEF Blocks, BlobFits
<1>5. data[fp.off] = [key |-> k, id |-> fp.id, content |-> c, at |-> fp.off]
  BY <1>1, <1>2, <1>4 DEF Holds
<1>6. data[fp.off] = [key |-> k, id |-> fp.id, content |-> e, at |-> fp.off]
  BY <1>1, <1>2, <1>4 DEF Holds
<1> QED BY <1>5, <1>6

\* What readBlobFromDisk reads is what was saved.
LEMMA ReadsSaved ==
  ASSUME Whole, pc = "idle", NEW s \in Slots, files[s] # None, files[s].used # 0,
         files[s].id \notin damaged
  PROVE  saved[files[s].id] = ReadBlob(key, files[s])
<1>1. key # None /\ slot[s] # None /\ slot[s].fp = files[s] /\ slot[s].key = key
  BY DEF Whole, SaveInv, SlotSync, AllocInv, TypeInv, ControlOK
<1>2. files[s] \in FilePointer /\ fsize \in 0 .. DataBlocks
  BY DEF Whole, SaveInv, AllocInv, TypeInv, TypeOK
<1>3. Authentic(key, files[s], saved[files[s].id]) /\ saved[files[s].id] # None
  BY <1>1 DEF Whole, SaveInv, SavedReadable, AtRisk
<1>4. saved[files[s].id] \in Contents
  BY <1>2, <1>3 DEF Whole, SaveInv, AllocInv, TypeInv, TypeOK, FilePointer
<1>5. ReadBlob(key, files[s]) \in Contents /\ Authentic(key, files[s], ReadBlob(key, files[s]))
  BY <1>3, <1>4 DEF ReadBlob
<1>6. files[s].used > 0 /\ BlobFits(files[s]) /\ files[s].off + files[s].alloc <= fsize
  BY <1>1, <1>2, SizesAssumption
     DEF Whole, SaveInv, HeadersFit, AllocInv, InsideContainer, FilePointer
<1> QED BY <1>2, <1>3, <1>4, <1>5, <1>6, OneContent
-----------------------------------------------------------------------------
(* Steps *)

\* Steps that change no handle and nothing of the history.
LEMMA SameHandles ==
  ASSUME HandlesInv, vf' = vf, saved' = saved, damaged' = damaged PROVE CleanSaved' /\ Alone'
<1>1. \A h \in Handles : IsOpen(h)' = IsOpen(h)
  BY DEF IsOpen
<1> QED BY <1>1 DEF HandlesInv, CleanSaved, Alone

\* Steps that change one handle h, which is then shut or to be written back.
LEMMA OneHandle ==
  ASSUME HandlesInv, NEW h \in Handles, saved' = saved, damaged' = damaged,
         \A g \in Handles \ {h} : vf'[g] = vf[g],
         IsOpen(h)' => vf'[h].dirty /\ IsOpen(h) /\ vf'[h].slot = vf[h].slot
  PROVE  CleanSaved' /\ Alone'
<1>1. \A g \in Handles \ {h} : IsOpen(g)' = IsOpen(g)
  BY DEF IsOpen
<1>2. CleanSaved'
  BY <1>1 DEF HandlesInv, CleanSaved
<1>3. Alone'
  BY <1>1 DEF HandlesInv, Alone
<1> QED BY <1>2, <1>3

LEMMA WriteBackHandles ==
  ASSUME CloseInv, pc \in {"idle", "closing"}, NEW h \in Handles, NEW reason, WriteBack(h, reason),
         reason = "shutdown" => pc = "closing"
  PROVE  HandlesInv'
<1>1. /\ vf' = vf /\ saved' = saved /\ damaged' = damaged /\ todo' = todo /\ why' = reason
      /\ pc' \in {"blob", "header"}
  BY DEF WriteBack, history
<1>2. CleanSaved' /\ Alone'
  BY <1>1, SameHandles DEF CloseInv
<1>3. Flushed'
  BY <1>1 DEF CloseInv, HandlesInv, Flushed, IsOpen
<1> QED BY <1>2, <1>3 DEF HandlesInv

\* A file opened anew is the only one at its slot, and clean.
LEMMA OpenedHandles ==
  ASSUME CloseInv, pc = "idle", pc' = "idle", NEW h \in Handles, vf[h] = None,
         NEW s \in Slots, NEW id, NEW buf, \A g \in Handles : IsOpen(g) => vf[g].slot # s,
         vf' = [vf EXCEPT ![h] = [slot |-> s, id |-> id, buf |-> buf, dirty |-> FALSE, att |-> TRUE]],
         \A g \in Handles : IsOpen(g) => saved'[vf[g].id] = saved[vf[g].id],
         damaged' = damaged, buf # Empty /\ id \notin damaged => saved'[id] = buf
  PROVE  HandlesInv'
<1>1. /\ vf'[h] = [slot |-> s, id |-> id, buf |-> buf, dirty |-> FALSE, att |-> TRUE]
      /\ \A g \in Handles \ {h} : vf'[g] = vf[g]
  BY DEF CloseInv, Whole, SaveInv, AllocInv, TypeInv, TypeOK
<1>2. \A g \in Handles \ {h} : IsOpen(g)' = IsOpen(g)
  BY <1>1 DEF IsOpen
<1>3. vf'[h].slot = s /\ vf'[h].id = id /\ vf'[h].buf = buf
  BY <1>1
<1>4. CleanSaved'
  BY <1>1, <1>2, <1>3 DEF CloseInv, HandlesInv, CleanSaved
<1>5. Alone'
  BY <1>1, <1>2, <1>3 DEF CloseInv, HandlesInv, Alone
<1>6. Flushed'
  BY DEF Flushed
<1> QED BY <1>4, <1>5, <1>6 DEF HandlesInv

\* The write-back ends: what is saved is what the handle holds.
LEMMA PutHeaderHandles ==
  ASSUME CloseInv, PutHeader PROVE HandlesInv'
<1>0. PICK s, g : s = vf[cur].slot /\ g = CurFile
  OBVIOUS
<1>1. cur \in Handles /\ vf[cur] \in VirtualFile /\ IsOpen(cur)
  BY NoneAssumption
     DEF PutHeader, CloseInv, Whole, LinkInv, AllLinked, AllocInv, TypeInv, ControlOK, IsOpen
<1>2. g.id = vf[cur].id /\ g.id \in FileIds
  BY <1>0, <1>1, OpenFacts DEF CloseInv, CurFile
<1>3. /\ saved' = [saved EXCEPT ![g.id] = vf[cur].buf] /\ damaged' = damaged \ {g.id}
      /\ vf' = [vf EXCEPT ![cur] = IF why = "close" THEN None ELSE [@ EXCEPT !.dirty = FALSE]]
      /\ todo' = todo \ {cur} /\ pc = "header"
      /\ pc' = IF why = "shutdown" THEN "closing" ELSE "idle"
  BY <1>0 DEF PutHeader
<1>4. /\ \A h \in Handles \ {cur} : vf'[h] = vf[h]
      /\ vf'[cur] = IF why = "close" THEN None ELSE [vf[cur] EXCEPT !.dirty = FALSE]
  BY <1>1, <1>3 DEF CloseInv, Whole, SaveInv, AllocInv, TypeInv, TypeOK
<1>5. \A h \in Handles \ {cur} : IsOpen(h)' = IsOpen(h)
  BY <1>4 DEF IsOpen
<1>6. vf'[cur] # None => /\ vf'[cur].slot = vf[cur].slot /\ vf'[cur].id = vf[cur].id
                         /\ vf'[cur].buf = vf[cur].buf /\ ~vf'[cur].dirty
  BY <1>1, <1>4 DEF VirtualFile
<1>7. saved \in [FileIds -> {None} \cup Contents]
  BY DEF CloseInv, Whole, SaveInv, AllocInv, TypeInv, TypeOK
<1>8. CleanSaved'
  <2> SUFFICES ASSUME NEW h \in Handles, IsOpen(h)', ~vf'[h].dirty, vf'[h].buf # Empty,
                      vf'[h].id \notin damaged'
               PROVE  saved'[vf'[h].id] = vf'[h].buf
    BY DEF CleanSaved
  <2>1. CASE h = cur
    BY <1>2, <1>3, <1>6, <1>7, <2>1 DEF IsOpen
  <2>2. CASE h # cur
    <3>1. IsOpen(h) /\ vf'[h] = vf[h]
      BY <1>4, <1>5, <2>2
    <3>2. vf[h].id # g.id /\ vf[h].id \in FileIds
      BY <1>1, <1>2, <2>2, <3>1, OpenFacts, OtherFile DEF CloseInv, HandlesInv
    <3>3. ~vf[h].dirty /\ vf[h].buf # Empty /\ vf[h].id \notin damaged
      <4>1. ~vf[h].dirty /\ vf[h].buf # Empty
        BY <3>1
      <4>2. vf[h].id \notin damaged'
        BY <3>1
      <4> QED BY <1>3, <3>2, <4>1, <4>2
    <3>4. saved[vf[h].id] = vf[h].buf
      BY <3>1, <3>3 DEF CloseInv, HandlesInv, CleanSaved
    <3> QED BY <1>3, <1>7, <3>1, <3>2, <3>4
  <2> QED BY <2>1, <2>2
<1>9. Alone'
  <2>1. \A h \in Handles : IsOpen(h)' => IsOpen(h) /\ vf'[h].slot = vf[h].slot
    <3> SUFFICES ASSUME NEW h \in Handles, IsOpen(h)' PROVE IsOpen(h) /\ vf'[h].slot = vf[h].slot
      OBVIOUS
    <3>1. CASE h = cur
      BY <1>1, <1>6, <3>1 DEF IsOpen
    <3>2. CASE h # cur
      BY <1>4, <1>5, <3>2
    <3> QED BY <3>1, <3>2
  <2> QED BY <2>1 DEF CloseInv, HandlesInv, Alone
<1>10. Flushed'
  <2> SUFFICES ASSUME why = "shutdown", NEW h \in Handles \ todo', IsOpen(h)' PROVE ~vf'[h].dirty
    BY <1>3 DEF Flushed
  <2>1. CASE h = cur
    BY <1>6, <2>1 DEF IsOpen
  <2>2. CASE h # cur
    BY <1>3, <1>4, <1>5, <2>2 DEF CloseInv, HandlesInv, Flushed
  <2> QED BY <2>1, <2>2
<1> QED BY <1>8, <1>9, <1>10 DEF HandlesInv

\* Every step keeps the open handles and what was saved together.
LEMMA NextHandles == Careful /\ CloseInv /\ Whole' /\ [Next]_vars => HandlesInv'
<1> SUFFICES ASSUME Careful, CloseInv, Whole', [Next]_vars PROVE HandlesInv'
  OBVIOUS
<1>a. /\ files \in [Slots -> {None} \cup FilePointer] /\ vf \in [Handles -> {None} \cup VirtualFile]
      /\ saved \in [FileIds -> {None} \cup Contents] /\ Whole /\ HandlesInv
  BY DEF CloseInv, Whole, SaveInv, AllocInv, TypeInv, TypeOK
<1>1. ASSUME NEW k \in Keys, Open(k) PROVE HandlesInv'
  <2>1. vf' = vf /\ saved' = saved /\ damaged' = damaged /\ pc' = "idle"
    BY <1>1 DEF Open, history
  <2> QED BY <1>a, <2>1, SameHandles DEF HandlesInv, Flushed
<1>2. ASSUME NEW h \in Handles, NEW n \in Names, NEW truncate \in BOOLEAN,
             OpenExisting(h, n, truncate)
      PROVE HandlesInv'
  <2>1. UNCHANGED <<saved, damaged, pc>> /\ pc = "idle" /\ vf[h] = None
    BY <1>2 DEF OpenExisting, ctlVars, history
  <2>2. PICK s \in Slots :
          /\ files[s] # None /\ ~Attached(s)
          /\ vf' = [vf EXCEPT ![h] = [slot |-> s, id |-> files[s].id, dirty |-> FALSE, att |-> TRUE,
                      buf |-> IF truncate \/ files[s].used = 0 THEN Empty ELSE ReadBlob(key, files[s])]]
    BY <1>2 DEF OpenExisting, FoundAt
  <2>3. PICK buf : buf = IF truncate \/ files[s].used = 0 THEN Empty ELSE ReadBlob(key, files[s])
    OBVIOUS
  <2>4. vf' = [vf EXCEPT ![h] = [slot |-> s, id |-> files[s].id, buf |-> buf, dirty |-> FALSE,
                                 att |-> TRUE]]
    BY <2>2, <2>3
  <2>5. \A g \in Handles : IsOpen(g) => vf[g].slot # s
    BY <2>2 DEF Attached, IsOpen
  <2>6. buf # Empty /\ files[s].id \notin damaged => saved[files[s].id] = buf
    BY <1>a, <2>1, <2>2, <2>3, ReadsSaved
  <2>7. /\ \A g \in Handles : IsOpen(g) => saved'[vf[g].id] = saved[vf[g].id]
        /\ damaged' = damaged /\ pc' = "idle"
        /\ buf # Empty /\ files[s].id \notin damaged => saved'[files[s].id] = buf
    BY <2>1, <2>6
  <2> QED BY <2>1, <2>4, <2>5, <2>7, OpenedHandles
<1>3. ASSUME NEW h \in Handles, NEW n \in Names, OpenNew(h, n) PROVE HandlesInv'
  <2>1. PICK s \in Slots, id \in FileIds :
          /\ FreeSlot(s) /\ saved[id] = None
          /\ vf' = [vf EXCEPT ![h] = [slot |-> s, id |-> id, buf |-> Empty,
                                      dirty |-> FALSE, att |-> TRUE]]
          /\ saved' = [saved EXCEPT ![id] = Empty]
    BY <1>3 DEF OpenNew
  <2>2. pc = "idle" /\ pc' = "idle" /\ vf[h] = None /\ damaged' = damaged
    BY <1>3 DEF OpenNew, ctlVars
  <2>3. \A g \in Handles : IsOpen(g) => vf[g].slot # s /\ vf[g].id # id
    BY <1>a, <2>1, OpenFacts DEF FreeSlot
  <2>4. \A g \in Handles : IsOpen(g) => saved'[vf[g].id] = saved[vf[g].id]
    BY <1>a, <2>1, <2>3
  <2> QED BY <2>1, <2>2, <2>3, <2>4, OpenedHandles
<1>4. ASSUME NEW h \in Handles, NEW c \in Contents, Write(h, c) PROVE HandlesInv'
  <2>1. /\ saved' = saved /\ damaged' = damaged /\ pc' = pc /\ pc \in {"idle", "closed"} /\ vf[h] # None
        /\ vf' = [vf EXCEPT ![h].buf = c, ![h].dirty = TRUE]
    BY <1>4 DEF Write, ctlVars, history
  <2>2. /\ \A g \in Handles \ {h} : vf'[g] = vf[g]
        /\ vf'[h].slot = vf[h].slot /\ vf'[h].dirty /\ vf'[h].att = vf[h].att
    BY <1>a, <2>1 DEF VirtualFile
  <2>3. CleanSaved' /\ Alone'
    BY <1>a, <2>1, <2>2, OneHandle DEF IsOpen
  <2> QED BY <2>1, <2>3 DEF HandlesInv, Flushed
<1>5. CASE PutBlob
  <2>1. /\ vf' = vf /\ saved' = saved /\ damaged' = damaged /\ todo' = todo /\ why' = why
        /\ pc = "blob" /\ pc' = "header"
    BY <1>5 DEF PutBlob, history
  <2>2. Flushed'
    BY <1>a, <2>1 DEF HandlesInv, Flushed, IsOpen
  <2> QED BY <1>a, <2>1, <2>2, SameHandles DEF HandlesInv
<1>6. CASE PutHeader
  BY <1>6, PutHeaderHandles
<1>7. ASSUME NEW h \in Handles, Flush(h) PROVE HandlesInv'
  BY <1>7, WriteBackHandles DEF Flush
<1>8. ASSUME NEW h \in Handles, CloseFile(h) PROVE HandlesInv'
  <2>1. CASE pc = "idle" /\ WriteBack(h, "close")
    BY <2>1, WriteBackHandles
  <2>2. CASE vf' = [vf EXCEPT ![h] = None] /\ pc \in {"idle", "closed"}
             /\ UNCHANGED <<diskVars, memVars, ctlVars, history>>
    <3>1. UNCHANGED <<saved, damaged, pc>>
      BY <2>2 DEF ctlVars, history
    <3>2. vf'[h] = None /\ \A g \in Handles \ {h} : vf'[g] = vf[g]
      BY <1>a, <2>2
    <3>3. CleanSaved' /\ Alone'
      BY <1>a, <3>1, <3>2, OneHandle DEF IsOpen
    <3> QED BY <2>2, <3>1, <3>3 DEF HandlesInv, Flushed
  <2> QED BY <1>8, <2>1, <2>2 DEF CloseFile
<1>9. CASE CloseContainer
  <2>1. /\ vf' = vf /\ saved' = saved /\ damaged' = damaged
        /\ pc' = "closing" /\ todo' = {h \in Handles : IsOpen(h)}
    BY <1>9 DEF CloseContainer, history, IsOpen
  <2>2. Flushed'
    BY <2>1 DEF Flushed, IsOpen
  <2> QED BY <1>a, <2>1, <2>2, SameHandles DEF HandlesInv
<1>10. ASSUME NEW h \in Handles, CloseFlush(h) PROVE HandlesInv'
  <2>1. CASE WriteBack(h, "shutdown")
    BY <1>10, <2>1, WriteBackHandles DEF CloseFlush
  <2>2. CASE ~MustWrite(h) /\ todo' = todo \ {h} /\ UNCHANGED <<vf, pc, saved, damaged>>
    <3>1. pc = "closing"
      BY <1>10 DEF CloseFlush
    <3>2. IsOpen(h) => ~vf[h].dirty
      BY <1>a, <2>2, OpenFacts DEF MustWrite, IsOpen
    <3>3. Flushed'
      BY <1>a, <2>2, <3>1, <3>2 DEF HandlesInv, Flushed, IsOpen
    <3> QED BY <1>a, <2>2, <3>3, SameHandles DEF HandlesInv
  <2> QED BY <1>10, <2>1, <2>2 DEF CloseFlush, history
<1>11. CASE CloseDone
  <2>1. vf' = [h \in Handles |-> IF vf[h] = None THEN None ELSE [vf[h] EXCEPT !.att = FALSE]]
        /\ pc' = "closed"
    BY <1>11 DEF CloseDone
  <2>2. \A h \in Handles : ~IsOpen(h)'
    BY <1>a, <2>1 DEF IsOpen, VirtualFile
  <2> QED BY <2>1, <2>2 DEF HandlesInv, CleanSaved, Alone, Flushed
<1>12. ASSUME NEW n \in Names, DeleteFile(n) PROVE HandlesInv'
  <2>1. PICK s \in Slots :
          /\ files[s] # None /\ ~Attached(s)
          /\ saved' = [saved EXCEPT ![files[s].id] = Empty] /\ damaged' = damaged \ {files[s].id}
    BY <1>12 DEF DeleteFile, FoundAt
  <2>2. vf' = vf /\ pc' = pc /\ pc = "idle" /\ key # None
    BY <1>12, <1>a DEF DeleteFile, ctlVars, Whole, SaveInv, AllocInv, TypeInv, ControlOK
  <2>3. \A h \in Handles : IsOpen(h) => vf[h].slot # s
    BY <2>1 DEF Attached, IsOpen
  <2>4. slot[s] # None /\ slot[s].fp.id = files[s].id
    BY <1>a, <2>1, <2>2 DEF Whole, SaveInv, SlotSync
  <2>5. \A h \in Handles : IsOpen(h) => vf[h].id # files[s].id
    <3> SUFFICES ASSUME NEW h \in Handles, IsOpen(h) PROVE vf[h].id # files[s].id
      OBVIOUS
    <3>1. /\ vf[h].slot \in Slots /\ slot[vf[h].slot] # None
          /\ slot[vf[h].slot].fp.id = vf[h].id /\ vf[h].slot # s
      BY <1>a, <2>3, OpenFacts
    <3> QED BY <1>a, <2>4, <3>1 DEF Whole, SaveInv, IdsUnique
  <2>6. \A h \in Handles : IsOpen(h) =>
          saved'[vf[h].id] = saved[vf[h].id] /\ (vf[h].id \notin damaged' => vf[h].id \notin damaged)
    BY <1>a, <2>1, <2>5, OpenFacts
  <2>7. CleanSaved' /\ Alone'
    BY <1>a, <2>2, <2>6 DEF HandlesInv, CleanSaved, Alone, IsOpen
  <2> QED BY <2>2, <2>7 DEF HandlesInv, Flushed
<1>13. ASSUME NEW old \in Names, NEW new \in Names, RenameFile(old, new) PROVE HandlesInv'
  <2>1. vf' = vf /\ saved' = saved /\ damaged' = damaged /\ pc' = pc /\ pc = "idle"
    BY <1>13 DEF RenameFile, ctlVars, history
  <2> QED BY <1>a, <2>1, SameHandles DEF HandlesInv, Flushed
<1>14. CASE Crash
  <2>1. \A h \in Handles : ~IsOpen(h)'
    BY <1>14 DEF Crash, IsOpen
  <2> QED BY <1>14, <2>1 DEF Crash, HandlesInv, CleanSaved, Alone, Flushed
<1>15. CASE UNCHANGED vars
  <2>1. UNCHANGED <<vf, saved, damaged, pc, why, todo>>
    BY <1>15 DEF vars
  <2>2. Flushed'
    BY <1>a, <2>1 DEF HandlesInv, Flushed, IsOpen
  <2> QED BY <1>a, <2>1, <2>2, SameHandles DEF HandlesInv
<1> QED
  BY <1>1, <1>2, <1>3, <1>4, <1>5, <1>6, <1>7, <1>8, <1>9, <1>10, <1>11, <1>12, <1>13, <1>14,
     <1>15 DEF Next

LEMMA CloseAlways == ASSUME Careful, OneKeyInUse PROVE Spec => []CloseInv
<1>1. Init => CloseInv
  <2>1. Init => HandlesInv
    BY DEF Init, HandlesInv, CleanSaved, Alone, Flushed, IsOpen
  <2> QED BY <2>1, InitSaveInv, InitLinkInv DEF CloseInv, Whole
<1>2. CloseInv /\ [Next]_vars => CloseInv'
  <2>1. CloseInv /\ [Next]_vars => Whole'
    BY NextSaveInv, NextLinkInv DEF CloseInv, Whole
  <2> QED BY <2>1, NextHandles DEF CloseInv
<1> QED BY <1>1, <1>2, PTL DEF Spec

-----------------------------------------------------------------------------
\* close() flushes the files still open and loses none of them
\* (EncryptedVFSContainer::close, VirtualFile::flush): afterwards each that was
\* open with a content has it on disk.
THEOREM ClosingSavesAll == ASSUME Careful, OneKeyInUse PROVE Spec => CloseSavesAll
<1>1. CloseInv => (CloseDone => \A h \in Handles :
        vf[h] # None /\ vf[h].att /\ vf[h].buf # Empty /\ vf[h].id \notin damaged
          => Authentic(key, slot[vf[h].slot].fp, vf[h].buf))
  <2> SUFFICES ASSUME CloseInv, CloseDone, NEW h \in Handles, IsOpen(h), vf[h].buf # Empty,
                      vf[h].id \notin damaged
               PROVE  Authentic(key, slot[vf[h].slot].fp, vf[h].buf)
    BY DEF IsOpen
  <2>1. pc = "closing" /\ ~vf[h].dirty
    BY DEF CloseDone, CloseInv, HandlesInv, Flushed
  <2>2. saved[vf[h].id] = vf[h].buf
    BY <2>1 DEF CloseInv, HandlesInv, CleanSaved
  <2>3. /\ vf[h].slot \in Slots /\ slot[vf[h].slot] # None
        /\ slot[vf[h].slot].fp.id = vf[h].id /\ slot[vf[h].slot].key = key
    BY OpenFacts DEF CloseInv
  <2>4. ~AtRisk(vf[h].slot)
    BY <2>1 DEF AtRisk
  <2> QED BY <2>2, <2>3, <2>4 DEF CloseInv, Whole, SaveInv, SavedReadable
<1> QED BY <1>1, CloseAlways, PTL DEF CloseSavesAll

-----------------------------------------------------------------------------
(* The container keeps the promise of FileStore.                             *)

\* What is read of the file whose header is in slot s.
Reads(s) == {c \in Contents : Authentic(slot[s].key, slot[s].fp, c)}
Value(s) == IF Reads(s) = {} THEN Torn ELSE CHOOSE c \in Reads(s) : TRUE
Holder(n, s) == slot[s] # None /\ slot[s].fp.name = n

\* Slot by slot, what a reopen finds under a name.
FoundInSlot == \A n \in Names, s \in Slots : Holder(n, s) => Found[n] = Value(s)
FoundNowhere == \A n \in Names : (\A s \in Slots : ~Holder(n, s)) => Found[n] = None

\* The header of the file being saved has its name already.
SavingNamed == pc \in {"blob", "header"} => Holder(CurFile.name, vf[cur].slot)
StoreInv == Whole /\ SavingNamed

LEMMA ValueType == \A s \in Slots : Value(s) \in Contents \cup {Torn} /\ Value(s) # None
<1>1. \A s \in Slots : Value(s) \in Contents \cup {Torn}
  BY DEF Value, Reads
<1> QED BY <1>1, TornAssumption, NoneAssumption

\* Something definite is found under every name.
LEMMA FoundType == Found' \in [Names -> Contents \cup {Torn, None}]
<1>1. \A n \in Names : Readings(n)' # {} => (CHOOSE c \in Readings(n)' : TRUE) \in Contents
  BY DEF Readings
<1> QED BY <1>1 DEF Found

\* Under one passphrase a name has one header.
LEMMA FoundBySlot == ASSUME OneKeyInUse PROVE Whole => FoundInSlot /\ FoundNowhere
<1> SUFFICES ASSUME Whole PROVE FoundInSlot /\ FoundNowhere
  OBVIOUS
<1>1. slot \in [Slots -> {None} \cup Header]
  BY DEF Whole, SaveInv, AllocInv, TypeInv, TypeOK
<1>2. \A s, t \in Slots : slot[s] # None /\ slot[t] # None => slot[s].key = slot[t].key
  BY <1>1 DEF OneKeyInUse, Header
<1>3. \A s \in Slots : slot[s] # None => slot[s].key \in Keys /\ slot[s].fp # None
  BY <1>1, NoneAssumption DEF Header
<1>4. FoundInSlot
  <2> SUFFICES ASSUME NEW n \in Names, NEW s \in Slots, Holder(n, s) PROVE Found[n] = Value(s)
    BY DEF FoundInSlot
  <2>1. \A t \in Slots : Holder(n, t) => t = s
    <3> SUFFICES ASSUME NEW t \in Slots, Holder(n, t) PROVE t = s
      OBVIOUS
    <3>1. Entry(slot[s].key, s) = slot[s].fp /\ Entry(slot[s].key, t) = slot[t].fp
      BY <1>2 DEF Entry, Holder
    <3>2. SameName(Entry(slot[s].key, s), Entry(slot[s].key, t))
      BY <1>3, <3>1 DEF SameName, Holder
    <3> QED BY <1>3, <3>2 DEF Whole, LinkInv, DiskNames, Holder
  <2>2. Named(n) = {slot[s]}
    <3>1. slot[s] \in Named(n)
      BY DEF Named, Headers, Holder
    <3>2. \A e \in Named(n) : e = slot[s]
      BY <2>1 DEF Named, Headers, Holder
    <3> QED BY <3>1, <3>2
  <2>3. Readings(n) = Reads(s)
    BY <2>2 DEF Readings, Reads
  <2> QED BY <2>2, <2>3 DEF Found, Value
<1>5. FoundNowhere
  <2> SUFFICES ASSUME NEW n \in Names, \A s \in Slots : ~Holder(n, s) PROVE Found[n] = None
    BY DEF FoundNowhere
  <2>1. Named(n) = {}
    BY DEF Named, Headers, Holder
  <2> QED BY <2>1 DEF Found
<1> QED BY <1>4, <1>5

\* The same facts of the state after a step.
LEMMA FoundBySlotNext == ASSUME OneKeyInUse PROVE Whole' => (FoundInSlot /\ FoundNowhere)'
<1>1. Whole => FoundInSlot /\ FoundNowhere
  BY FoundBySlot
<1> QED BY <1>1, PTL

\* What decides what is read: key, id, place, length, and the blocks of the blob.
LEMMA SameValue ==
  ASSUME NEW s \in Slots, slot[s].fp \in FilePointer, BlobFits(slot[s].fp),
         slot'[s].key = slot[s].key, slot'[s].fp.id = slot[s].fp.id,
         slot'[s].fp.off = slot[s].fp.off, slot'[s].fp.used = slot[s].fp.used,
         slot[s].fp.used > 0 => \A b \in Blocks :
           slot[s].fp.off <= b /\ b < slot[s].fp.off + slot[s].fp.alloc => data'[b] = data[b]
  PROVE  Value(s)' = Value(s)
<1>1. \A c \in Contents : Authentic(slot[s].key, slot[s].fp, c)' <=> Authentic(slot[s].key, slot[s].fp, c)
  <2> SUFFICES ASSUME NEW c \in Contents, c.len = slot[s].fp.used, slot[s].fp.used > 0
               PROVE  Holds(data, slot[s].key, slot[s].fp, c)' <=> Holds(data, slot[s].key, slot[s].fp, c)
    BY DEF Authentic
  <2>1. \A b \in Blocks : slot[s].fp.off <= b /\ b < slot[s].fp.off + BlobBlocks(c.len)
                            => b < slot[s].fp.off + slot[s].fp.alloc
    <3>1. /\ BlobBlocks(c.len) \in Nat /\ slot[s].fp.alloc \in Nat /\ slot[s].fp.off \in Nat
          /\ BlobBlocks(c.len) <= slot[s].fp.alloc /\ Blocks \subseteq Nat
      BY ContentType, SizesAssumption DEF BlobFits, FilePointer, Blocks
    <3> QED BY <3>1
  <2> QED BY <2>1 DEF Holds
<1>2. Reads(s)' = Reads(s)
  BY <1>1 DEF Reads
<1> QED BY <1>2 DEF Value

\* A name found in the same slot before and after, and with the same to read.
LEMMA KeepsFound ==
  ASSUME FoundInSlot, FoundNowhere, FoundInSlot', FoundNowhere', NEW n \in Names,
         \A s \in Slots : /\ Holder(n, s)' <=> Holder(n, s)
                          /\ Holder(n, s) => Value(s)' = Value(s)
  PROVE  Found'[n] = Found[n]
<1>1. CASE \A s \in Slots : ~Holder(n, s)
  BY <1>1 DEF FoundNowhere
<1>2. ASSUME NEW s \in Slots, Holder(n, s) PROVE Found'[n] = Found[n]
  BY <1>2 DEF FoundInSlot
<1> QED BY <1>1, <1>2

\* What is found depends on the disk alone.
LEMMA SameFound == ASSUME slot' = slot, data' = data PROVE Found' = Found
BY DEF Found, Named, Headers, Readings, Authentic, Holds

\* A step that leaves the disk alone, outside a write-back.
LEMMA Stutters ==
  ASSUME slot' = slot, data' = data, pc \notin {"blob", "header"}, pc' \notin {"blob", "header"}
  PROVE  UNCHANGED <<Found, Saving>>
BY SameFound DEF Saving

\* A step that touches no header but that of slot s, nor a block of another file.
LEMMA OthersFound ==
  ASSUME Whole, FoundInSlot, FoundNowhere, FoundInSlot', FoundNowhere', NEW s \in Slots, NEW ns,
         \A t \in Slots \ {s} : slot'[t] = slot[t], data' = data,
         \A n \in Names \ ns : ~Holder(n, s) /\ ~Holder(n, s)'
  PROVE  Files!Only(ns)
<1>1. ASSUME NEW n \in Names \ ns PROVE Found'[n] = Found[n]
  <2>1. ASSUME NEW t \in Slots
        PROVE  (Holder(n, t)' <=> Holder(n, t)) /\ (Holder(n, t) => Value(t)' = Value(t))
    <3>1. CASE t = s
      BY <1>1, <3>1
    <3>2. CASE t # s
      <4>1. slot'[t] = slot[t]
        BY <3>2
      <4>2. slot[t] # None => slot[t].fp \in FilePointer /\ BlobFits(slot[t].fp)
        BY DEF Whole, SaveInv, HeadersFit, AllocInv, TypeInv, TypeOK, Header
      <4>3. Holder(n, t) => Value(t)' = Value(t)
        BY <4>1, <4>2, SameValue DEF Holder
      <4> QED BY <4>1, <4>3 DEF Holder
    <3> QED BY <3>1, <3>2
  <2> QED BY <1>1, <2>1, KeepsFound
<1> QED BY <1>1, FoundType DEF Files!Only

\* Where the running write-back stands.
SavingKnown ==
  pc \in {"blob", "header"} =>
    /\ cur \in Handles /\ vf[cur].slot \in Slots /\ vf[cur].buf \in Contents
    /\ CurFile \in FilePointer /\ CurFile.name \in Names /\ key \in Keys
    /\ slot[vf[cur].slot] # None /\ slot[vf[cur].slot].key = key
    /\ slot[vf[cur].slot].fp \in FilePointer
    /\ slot[vf[cur].slot].fp.id = CurFile.id /\ slot[vf[cur].slot].fp.name = CurFile.name
    /\ Saving = [name |-> CurFile.name, content |-> vf[cur].buf]

LEMMA SavingFacts == StoreInv => SavingKnown
<1> SUFFICES ASSUME StoreInv, pc \in {"blob", "header"} PROVE SavingKnown
  BY DEF SavingKnown
<1>1. /\ cur \in Handles /\ vf[cur] \in VirtualFile /\ CurFile \in FilePointer /\ key \in Keys
      /\ key # None
  BY NoneAssumption
     DEF StoreInv, Whole, SaveInv, AllocInv, TypeInv, TypeOK, ControlOK, CurFile
<1>2. CurFile # None /\ vf[cur].slot \in Slots /\ CurFile.name \in Names
  BY <1>1, NoneAssumption DEF VirtualFile, FilePointer
<1>3. slot[vf[cur].slot] # None /\ slot[vf[cur].slot].fp.name = CurFile.name
  BY DEF StoreInv, SavingNamed, Holder
<1>4. slot[vf[cur].slot].fp \in FilePointer
  BY <1>2, <1>3 DEF StoreInv, Whole, SaveInv, AllocInv, TypeInv, TypeOK, Header
<1>5. slot[vf[cur].slot].key = key /\ slot[vf[cur].slot].fp.id = CurFile.id
  BY <1>1, <1>2 DEF StoreInv, Whole, SaveInv, SlotSync, CurFile
<1> QED BY <1>1, <1>2, <1>3, <1>4, <1>5 DEF SavingKnown, VirtualFile, Saving

LEMMA SavingFactsNext == StoreInv' => SavingKnown'
BY SavingFacts, PTL

\* What the blob being written, whole or cut short, does to what is read: the
\* old blob of the file itself may be gone, everything else is as it was.
LEMMA BlobValue ==
  ASSUME StoreInv, pc = "blob", slot' = slot, NEW n \in Nat, n <= Extent(CurFile, vf[cur].buf),
         data' = BlobWritten(CurFile, vf[cur].buf, n), NEW s \in Slots, slot[s] # None
  PROVE  /\ s # vf[cur].slot => Value(s)' = Value(s)
         /\ Value(s)' \in {Value(s), Torn, vf[cur].buf}
<1> DEFINE g == CurFile
           w == vf[cur].buf
           fp == slot[s].fp
<1>1. /\ g \in FilePointer /\ w \in Contents /\ key \in Keys /\ vf[cur].slot \in Slots
      /\ slot[vf[cur].slot] # None /\ slot[vf[cur].slot].key = key /\ w # Empty
  BY SavingFacts DEF SavingKnown, StoreInv, Whole, SaveInv, WriteBackOK
<1>2. fp \in FilePointer /\ slot[s].key \in Keys /\ BlobFits(fp) /\ fp.off + fp.alloc <= fsize
  BY DEF StoreInv, Whole, SaveInv, HeadersFit, AllocInv, InsideContainer, TypeInv, TypeOK, Header
<1>3. /\ g.off \in Nat /\ g.alloc \in Nat /\ fp.off \in Nat /\ fp.alloc \in Nat
      /\ fp.used \in 0 .. MaxLen /\ BlobBlocks(w.len) \in Nat /\ w.len > 0
      /\ BlobBlocks(fp.used) \in Nat
  <2>1. w.len > 0
    BY <1>1, SizesAssumption DEF Contents
  <2> QED BY <1>1, <1>2, <2>1, ContentType, BlobBlocksType, SizesAssumption DEF FilePointer
<1>4. BlobBlocks(w.len) <= g.alloc /\ n <= g.alloc /\ BlobBlocks(w.len) >= 1
  <2>1. BlobBlocks(w.len) <= g.alloc
    BY <1>3 DEF StoreInv, Whole, SaveInv, WriteBackOK, BlobFits
  <2>2. BlobBlocks(w.len) >= 1
    BY <1>3, <1>1, ContentType, SomeBlock
  <2> QED BY <1>3, <2>1, <2>2 DEF Extent
<1>5. ASSUME DisjointBlocks(fp, g) \/ DisjointBlocks(g, fp) PROVE Value(s)' = Value(s)
  <2>1. ASSUME NEW b \in Blocks, fp.off <= b, b < fp.off + fp.alloc PROVE data'[b] = data[b]
    <3>1. b \in Nat
      BY SizesAssumption DEF Blocks
    <3>2. ~(g.off <= b /\ b < g.off + n)
      BY <1>3, <1>4, <1>5, <2>1, <3>1 DEF DisjointBlocks
    <3> QED BY <3>2 DEF BlobWritten
  <2> QED BY <1>2, <2>1, SameValue
<1>6. CASE s # vf[cur].slot
  <2>1. DisjointBlocks(fp, g) \/ DisjointBlocks(g, fp)
    <3>1. key # None /\ g # None
      BY <1>1, NoneAssumption
    <3>2. files[s] = Entry(key, s) /\ files[s] # None /\ slot[s].key = key
      BY <1>6, <3>1 DEF StoreInv, Whole, SaveInv, SlotSync, AllocInv, MemSync
    <3>3. files[s] = fp
      BY <3>2 DEF Entry
    <3> QED BY <1>1, <1>6, <3>1, <3>2, <3>3
            DEF StoreInv, Whole, SaveInv, AllocInv, MemDisjoint, CurFile
  <2> QED BY <1>5, <1>6, <2>1
<1>7. CASE s = vf[cur].slot /\ ~InPlace
  <2>1. DisjointBlocks(fp, g)
    BY <1>1, <1>7 DEF StoreInv, Whole, SaveInv, WriteBackOK
  <2> QED BY <1>5, <1>7, <2>1
<1>8. CASE s = vf[cur].slot /\ InPlace
  <2>1. fp.off = g.off
    BY <1>8 DEF InPlace
  <2>2. CASE fp.used = 0
    BY <1>2, <1>8, <2>2, SameValue
  <2>3. CASE n = 0
    <3>1. \A b \in Blocks : b \in Nat
      BY SizesAssumption DEF Blocks
    <3>2. \A b \in Blocks : data'[b] = data[b]
      BY <1>3, <2>3, <3>1 DEF BlobWritten
    <3> QED BY <1>2, <1>8, <3>2, SameValue
  <2>4. CASE fp.used > 0 /\ n > 0
    <3>1. BlobBlocks(fp.used) >= 1 /\ fp.alloc >= 1
      BY <1>2, <1>3, <2>4, SizesAssumption, SomeBlock DEF BlobFits
    <3>2. fp.off \in Blocks
      <4>1. fsize \in 0 .. DataBlocks
        BY DEF StoreInv, Whole, SaveInv, AllocInv, TypeInv, TypeOK
      <4> QED BY <1>2, <1>3, <3>1, <4>1, SizesAssumption DEF Blocks
    <3>3. data'[fp.off] = [key |-> key, id |-> g.id, content |-> w, at |-> g.off]
      BY <1>3, <1>4, <2>1, <2>4, <3>2 DEF BlobWritten
    <3>4. ASSUME NEW c \in Contents, Authentic(slot[s].key, fp, c)' PROVE c = w
      <4>1. BlobBlocks(c.len) >= 1 /\ Holds(data', slot[s].key, fp, c)
        BY <2>4, <3>1, <3>4 DEF Authentic
      <4>2. data'[fp.off] = [key |-> slot[s].key, id |-> fp.id, content |-> c, at |-> fp.off]
        BY <1>3, <3>2, <4>1, ContentType DEF Holds
      <4> QED BY <3>3, <4>2
    <3>5. Reads(s)' = {} \/ Reads(s)' = {w}
      BY <3>4 DEF Reads
    <3> QED BY <1>8, <3>5 DEF Value
  <2> QED BY <1>3, <2>2, <2>3, <2>4
<1> QED BY <1>6, <1>7, <1>8

\* Every write-back finds its file under the name it is saved by.
LEMMA NextNamed == StoreInv /\ Whole' /\ [Next]_vars => SavingNamed'
<1> SUFFICES ASSUME StoreInv, Whole', [Next]_vars, pc' \in {"blob", "header"}
             PROVE  Holder(CurFile.name, vf[cur].slot)'
  BY DEF SavingNamed
<1>1. ASSUME NEW h \in Handles, NEW reason, WriteBack(h, reason), pc \in {"idle", "closing"}
      PROVE  Holder(CurFile.name, vf[cur].slot)'
  <2>1. /\ slot' = slot /\ vf' = vf /\ cur' = h /\ vf[h] # None /\ files[vf[h].slot] # None
    BY <1>1 DEF WriteBack, MustWrite
  <2>2. vf[h].slot \in Slots /\ files[vf[h].slot] \in FilePointer
    BY <2>1 DEF StoreInv, Whole, SaveInv, AllocInv, TypeInv, TypeOK, VirtualFile
  <2>3. slot[vf[h].slot] # None /\ slot[vf[h].slot].fp = files[vf[h].slot]
    BY <1>1, <2>1, <2>2
       DEF StoreInv, Whole, SaveInv, SlotSync, AllocInv, TypeInv, ControlOK
  <2>4. files'[vf[h].slot].name = files[vf[h].slot].name
    <3>1. files \in [Slots -> {None} \cup FilePointer]
      BY DEF StoreInv, Whole, SaveInv, AllocInv, TypeInv, TypeOK
    <3>2. CASE files' = [files EXCEPT ![vf[h].slot].used = 0]
      BY <2>2, <3>1, <3>2 DEF FilePointer
    <3>3. CASE Fit(h)
      BY <2>2, <3>1, <3>3 DEF Fit, FilePointer
    <3>4. CASE Relocate(h)
      <4>1. PICK e, a : files' = [files EXCEPT ![vf[h].slot].off = e, ![vf[h].slot].alloc = a,
                                               ![vf[h].slot].used = vf[h].buf.len]
        BY <3>4 DEF Relocate
      <4> QED BY <2>2, <3>1, <4>1 DEF FilePointer
    <3> QED BY <1>1, <3>2, <3>3, <3>4 DEF WriteBack
  <2> QED BY <2>1, <2>3, <2>4 DEF Holder, CurFile
<1>2. CASE PutBlob
  BY <1>2 DEF PutBlob, memVars, StoreInv, SavingNamed, Holder, CurFile
<1>3. CASE UNCHANGED vars
  BY <1>3 DEF vars, StoreInv, SavingNamed, Holder, CurFile
<1>4. ASSUME NEW h \in Handles, Flush(h) \/ CloseFile(h) \/ CloseFlush(h)
      PROVE  Holder(CurFile.name, vf[cur].slot)'
  BY <1>1, <1>4 DEF Flush, CloseFile, CloseFlush, ctlVars
<1> QED
  BY <1>2, <1>3, <1>4
     DEF Next, Open, OpenExisting, OpenNew, Write, PutHeader, CloseContainer, CloseDone,
         DeleteFile, RenameFile, Crash, ctlVars

\* A write-back begins on a file that is there, and moves nothing on the disk.
LEMMA BeginsSaving ==
  ASSUME StoreInv, StoreInv', FoundInSlot, NEW h \in Handles, NEW reason, WriteBack(h, reason),
         pc \in {"idle", "closing"}
  PROVE  Files!Next
<1>1. slot' = slot /\ data' = data /\ pc' \in {"blob", "header"}
  BY DEF WriteBack
<1>2. PICK n, c : n = CurFile'.name /\ c = vf'[cur'].buf
  OBVIOUS
<1>3. /\ n \in Names /\ c \in Contents /\ vf'[cur'].slot \in Slots
      /\ Saving' = [name |-> n, content |-> c]
      /\ slot'[vf'[cur'].slot] # None /\ slot'[vf'[cur'].slot].fp.name = n
  BY <1>1, <1>2, SavingFactsNext DEF SavingKnown
<1>4. Found[n] # None
  BY <1>1, <1>3, ValueType DEF FoundInSlot, Holder
<1>5. Files!Begin(n, c)
  BY <1>1, <1>3, <1>4, SameFound DEF Files!Begin, Saving
<1> QED BY <1>3, <1>5 DEF Files!Next

\* While a blob is written, only the file being saved may read otherwise.
LEMMA PutsBlob ==
  ASSUME StoreInv, StoreInv', FoundInSlot, FoundNowhere, FoundInSlot', FoundNowhere',
         pc = "blob", slot' = slot, NEW n \in Nat, n <= Extent(CurFile, vf[cur].buf),
         data' = BlobWritten(CurFile, vf[cur].buf, n)
  PROVE  Files!Disturbs(Saving.name)
<1>1. /\ vf[cur].slot \in Slots /\ Holder(Saving.name, vf[cur].slot) /\ Saving.name \in Names
      /\ Saving.content = vf[cur].buf
  BY SavingFacts DEF SavingKnown, Holder
<1>2. \A s \in Slots : slot[s] # None =>
        /\ s # vf[cur].slot => Value(s)' = Value(s)
        /\ Value(s)' \in {Value(s), Torn, vf[cur].buf}
  BY BlobValue
<1>3. \A m \in Names, s \in Slots : Holder(m, s)' <=> Holder(m, s)
  BY DEF Holder
<1>4. Found'[Saving.name] \in {Found[Saving.name], Torn, Saving.content}
  BY <1>1, <1>2, <1>3 DEF FoundInSlot, Holder
<1>5. ASSUME NEW m \in Names \ {Saving.name} PROVE Found'[m] = Found[m]
  <2>1. \A s \in Slots : Holder(m, s) => s # vf[cur].slot
    BY <1>1, <1>5 DEF Holder
  <2>2. \A s \in Slots : Holder(m, s) => Value(s)' = Value(s)
    BY <1>2, <2>1 DEF Holder
  <2> QED BY <1>3, <2>2, KeepsFound
<1>6. Files!Only({Saving.name})
  BY <1>5, FoundType DEF Files!Only
<1> QED BY <1>4, <1>6 DEF Files!Disturbs

\* Once its header is written, a file reads as what was saved.
LEMMA PutsHeader ==
  ASSUME StoreInv, StoreInv', FoundInSlot, FoundNowhere, FoundInSlot', FoundNowhere', PutHeader
  PROVE  Files!Finish
<1>0. PICK s, g, w : s = vf[cur].slot /\ g = CurFile /\ w = vf[cur].buf
  OBVIOUS
<1>1. /\ s \in Slots /\ w \in Contents /\ g \in FilePointer /\ g.name \in Names /\ key \in Keys
      /\ Holder(g.name, s) /\ Saving = [name |-> g.name, content |-> w]
  BY <1>0, SavingFacts DEF SavingKnown, Holder, PutHeader
<1>2. /\ slot' = [slot EXCEPT ![s] = [key |-> key, fp |-> g]] /\ data' = data
      /\ pc = "header" /\ pc' \notin {"blob", "header"}
  BY <1>0 DEF PutHeader
<1>3. /\ slot'[s] = [key |-> key, fp |-> g] /\ \A t \in Slots \ {s} : slot'[t] = slot[t]
      /\ slot'[s] # None
  BY <1>1, <1>2, NoneAssumption DEF StoreInv, Whole, SaveInv, AllocInv, TypeInv, TypeOK, Header
<1>4. Holder(g.name, s)' /\ \A m \in Names \ {g.name} : ~Holder(m, s) /\ ~Holder(m, s)'
  BY <1>1, <1>3 DEF Holder
<1>5. Files!Only({g.name})
  BY <1>1, <1>2, <1>3, <1>4, OthersFound DEF StoreInv
<1>6. Reads(s)' = {w}
  <2>1. g.used = w.len /\ BlobFits(g) /\ (w # Empty => Holds(data, key, g, w))
    BY <1>0, <1>2 DEF StoreInv, Whole, SaveInv, WriteBackOK
  <2>2. Authentic(key, g, w)
    BY <1>1, <2>1, SizesAssumption DEF Authentic, Contents, Empty
  <2>3. ASSUME NEW c \in Contents, Authentic(key, g, c) PROVE c = w
    <3>1. CASE g.used > 0
      <4>1. g.off + g.alloc <= fsize /\ fsize \in 0 .. DataBlocks
        BY <1>0, <1>1, NoneAssumption
           DEF StoreInv, Whole, SaveInv, AllocInv, InsideContainer, TypeInv, TypeOK, CurFile
      <4> QED BY <1>1, <2>1, <2>2, <2>3, <3>1, <4>1, OneContent
    <3>2. CASE ~(g.used > 0)
      BY <1>1, <2>1, <2>3, <3>2, ContentType, SizesAssumption DEF Authentic, Contents, Empty
    <3> QED BY <3>1, <3>2
  <2>4. \A c \in Contents : Authentic(slot[s].key, slot[s].fp, c)' <=> Authentic(key, g, c)
    BY <1>2, <1>3 DEF Authentic, Holds
  <2> QED BY <1>1, <2>2, <2>3, <2>4 DEF Reads
<1>7. Found'[g.name] = w
  BY <1>1, <1>4, <1>6 DEF FoundInSlot, Value
<1>8. Saving # None /\ Saving' = None
  BY <1>1, <1>2, TornAssumption DEF Saving
<1> QED BY <1>1, <1>5, <1>7, <1>8 DEF Files!Finish

\* The file that was deleted is gone, and no other.
LEMMA Deletes ==
  ASSUME StoreInv, StoreInv', FoundInSlot, FoundNowhere, FoundInSlot', FoundNowhere',
         NEW n \in Names, DeleteFile(n)
  PROVE  Files!Next
<1>1. PICK s \in Slots : FoundAt(n, s) /\ slot' = [slot EXCEPT ![s] = None]
  BY DEF DeleteFile
<1>2. data' = data /\ pc = "idle" /\ pc' = "idle" /\ key # None
  BY DEF DeleteFile, ctlVars, StoreInv, Whole, SaveInv, AllocInv, TypeInv, ControlOK
<1>3. slot'[s] = None /\ \A t \in Slots \ {s} : slot'[t] = slot[t]
  BY <1>1 DEF StoreInv, Whole, SaveInv, AllocInv, TypeInv, TypeOK
<1>4. Holder(n, s) /\ ~Holder(n, s)'
  BY <1>1, <1>2, <1>3 DEF FoundAt, Holder, StoreInv, Whole, SaveInv, SlotSync
<1>5. \A m \in Names \ {n} : ~Holder(m, s) /\ ~Holder(m, s)'
  BY <1>3, <1>4 DEF Holder
<1>6. Files!Only({n})
  BY <1>2, <1>3, <1>5, OthersFound DEF StoreInv
<1>7. \A t \in Slots : ~Holder(n, t)'
  <2> SUFFICES ASSUME NEW t \in Slots \ {s}, Holder(n, t) PROVE FALSE
    BY <1>3, <1>4 DEF Holder
  <2>1. /\ files[s] # None /\ files[s].name = n /\ files[t] # None /\ files[t] = slot[t].fp
    BY <1>1, <1>2 DEF FoundAt, Holder, StoreInv, Whole, SaveInv, SlotSync
  <2> QED BY <2>1 DEF Holder, StoreInv, Whole, LinkInv, MemNames, SameName
<1>8. Found[n] # None /\ Found'[n] = None
  BY <1>4, <1>7, ValueType DEF FoundInSlot, FoundNowhere
<1>9. Files!Delete(n)
  BY <1>2, <1>6, <1>8 DEF Files!Delete, Saving
<1> QED BY <1>8, <1>9 DEF Files!Next

\* A file renamed is found under its new name, with what it held.
LEMMA Renames ==
  ASSUME Careful, StoreInv, StoreInv', FoundInSlot, FoundNowhere, FoundInSlot', FoundNowhere',
         NEW old \in Names, NEW new \in Names, RenameFile(old, new)
  PROVE  Files!Next
<1>1. PICK s \in Slots :
        /\ FoundAt(old, s) /\ files' = [files EXCEPT ![s].name = new]
        /\ slot' = [slot EXCEPT ![s] = [key |-> key, fp |-> files'[s]]]
  BY DEF RenameFile
<1>2. data' = data /\ pc = "idle" /\ pc' = "idle" /\ key \in Keys /\ key # None /\ ~Known(new)
  BY NoneAssumption
     DEF RenameFile, ctlVars, StoreInv, Whole, SaveInv, AllocInv, TypeInv, TypeOK, ControlOK
<1>3. \A t \in Slots : /\ files[t] = None <=> slot[t] = None
                       /\ files[t] # None => files[t] = slot[t].fp /\ slot[t].key = key
  BY <1>2 DEF StoreInv, Whole, SaveInv, SlotSync
<1>4. /\ files[s] \in FilePointer /\ files[s] # None /\ files[s].name = old
      /\ BlobFits(files[s]) /\ slot[s] # None
  BY <1>1, <1>3 DEF FoundAt, StoreInv, Whole, SaveInv, HeadersFit, AllocInv, TypeInv, TypeOK
<1>5. /\ files'[s].name = new /\ files'[s].id = files[s].id /\ files'[s].off = files[s].off
      /\ files'[s].used = files[s].used /\ files'[s] \in FilePointer
  <2>1. new \in Names \ LongNames /\ files \in [Slots -> {None} \cup FilePointer]
    BY DEF RenameFile, StoreInv, Whole, SaveInv, AllocInv, TypeInv, TypeOK
  <2> QED BY <1>1, <1>4, <2>1 DEF FilePointer
<1>6. PICK g : g = files'[s]
  OBVIOUS
<1>7. /\ slot'[s] = [key |-> key, fp |-> g] /\ \A t \in Slots \ {s} : slot'[t] = slot[t]
      /\ slot'[s] # None
  BY <1>1, <1>2, <1>5, <1>6, NoneAssumption
     DEF StoreInv, Whole, SaveInv, AllocInv, TypeInv, TypeOK, Header
<1>8. Holder(old, s) /\ Holder(new, s)' /\ old # new
  <2>1. slot[s].fp.name = old /\ g.name = new
    BY <1>3, <1>4, <1>5, <1>6
  <2>2. Holder(old, s) /\ Holder(new, s)'
    BY <1>4, <1>7, <2>1 DEF Holder
  <2>3. old # new
    BY <1>2, <1>4 DEF Known
  <2> QED BY <2>2, <2>3
<1>9. Files!Only({old, new})
  <2>1. \A m \in Names \ {old, new} : ~Holder(m, s) /\ ~Holder(m, s)'
    BY <1>8 DEF Holder
  <2> QED BY <1>2, <1>7, <2>1, OthersFound DEF StoreInv
<1>10. \A t \in Slots : ~Holder(new, t)
  BY <1>2, <1>3 DEF Known, Holder
<1>11. \A t \in Slots : ~Holder(old, t)'
  <2> SUFFICES ASSUME NEW t \in Slots \ {s}, Holder(old, t) PROVE FALSE
    BY <1>7, <1>8 DEF Holder
  <2>1. files[t] # None /\ files[t].name = old
    BY <1>3 DEF Holder
  <2> QED BY <1>4, <2>1 DEF StoreInv, Whole, LinkInv, MemNames, SameName
<1>12. Value(s)' = Value(s)
  BY <1>2, <1>3, <1>4, <1>5, <1>6, <1>7, SameValue
<1>13. /\ Found[new] = None /\ Found'[new] = Found[old] /\ Found'[old] = None
       /\ Found'[new] # None
  BY <1>8, <1>10, <1>11, <1>12, ValueType DEF FoundInSlot, FoundNowhere
<1>14. Files!Rename(new)
  BY <1>2, <1>9, <1>13 DEF Files!Rename, Saving
<1> QED BY <1>13, <1>14 DEF Files!Next

\* A new file is found empty.
LEMMA Creates ==
  ASSUME StoreInv, StoreInv', FoundInSlot, FoundNowhere, FoundInSlot', FoundNowhere',
         NEW h \in Handles, NEW n \in Names, OpenNew(h, n)
  PROVE  Files!Next
<1>0. PICK s \in Slots, id \in FileIds, e \in Blocks, size \in 0 .. DataBlocks,
           r \in 0 .. SlotCount + Cardinality(FileIds) :
        /\ FreeSlot(s) /\ saved[id] = None /\ EndOfData(e) /\ Covers(e + 1, size) /\ NewRank(r)
        /\ fsize' = size
        /\ files' = [files EXCEPT ![s] =
                       [id |-> id, name |-> n, off |-> e, alloc |-> 1, used |-> 0]]
        /\ slot' = [slot EXCEPT ![s] = [key |-> key, fp |-> files'[s]]]
  BY ZenonT(30) DEF OpenNew
<1>a. PICK g : g = [id |-> id, name |-> n, off |-> e, alloc |-> 1, used |-> 0]
  OBVIOUS
<1>1. /\ FreeSlot(s) /\ g = [id |-> id, name |-> n, off |-> e, alloc |-> 1, used |-> 0]
      /\ slot' = [slot EXCEPT ![s] = [key |-> key, fp |-> files'[s]]]
      /\ files' = [files EXCEPT ![s] = g]
  BY <1>0, <1>a
<1>2. /\ data' = data /\ pc = "idle" /\ pc' = "idle" /\ key \in Keys /\ key # None /\ ~Known(n)
  BY NoneAssumption
     DEF OpenNew, ctlVars, StoreInv, Whole, SaveInv, AllocInv, TypeInv, TypeOK, ControlOK
<1>3. \A t \in Slots : /\ files[t] = None <=> slot[t] = None
                       /\ files[t] # None => files[t] = slot[t].fp /\ slot[t].key = key
  BY <1>2 DEF StoreInv, Whole, SaveInv, SlotSync
<1>4. g \in FilePointer /\ g.name = n /\ g.used = 0
  BY <1>1, SizesAssumption DEF OpenNew, FilePointer, Blocks
<1>5. /\ slot'[s] = [key |-> key, fp |-> g] /\ \A t \in Slots \ {s} : slot'[t] = slot[t]
      /\ slot'[s] # None
  BY <1>1, <1>2, <1>4, NoneAssumption
     DEF StoreInv, Whole, SaveInv, AllocInv, TypeInv, TypeOK, Header
<1>6. slot[s] = None
  BY <1>1, <1>3 DEF FreeSlot
<1>7. Holder(n, s)' /\ \A m \in Names \ {n} : ~Holder(m, s) /\ ~Holder(m, s)'
  BY <1>4, <1>5, <1>6 DEF Holder
<1>8. Files!Only({n})
  BY <1>2, <1>5, <1>7, OthersFound DEF StoreInv
<1>9. \A t \in Slots : ~Holder(n, t)
  BY <1>2, <1>3 DEF Known, Holder
<1>10. Reads(s)' = {Empty}
  <2>1. \A c \in Contents : c.len = 0 <=> c = Empty
    BY SizesAssumption DEF Contents, Empty
  <2>2. \A c \in Contents : Authentic(slot[s].key, slot[s].fp, c)' <=> c = Empty
    BY <1>4, <1>5, <2>1 DEF Authentic
  <2> QED BY <2>2 DEF Reads, Contents
<1>11. Found[n] = None /\ Found'[n] = Empty /\ Empty # None
  <2>1. Value(s)' = Empty
    BY <1>10 DEF Value
  <2> QED BY <1>7, <1>9, <2>1, NoneAssumption DEF FoundInSlot, FoundNowhere, Contents
<1>12. Files!Create(n)
  BY <1>2, <1>8, <1>11 DEF Files!Create, Saving
<1> QED BY <1>11, <1>12 DEF Files!Next

\* Every step of the container is a step of FileStore, or none.
LEMMA NextFiles ==
  ASSUME Careful, StoreInv, StoreInv', FoundInSlot, FoundNowhere, FoundInSlot', FoundNowhere',
         [Next]_vars
  PROVE  [Files!Next]_<<Found, Saving>>
<1>1. ASSUME NEW h \in Handles, NEW reason, WriteBack(h, reason), pc \in {"idle", "closing"}
      PROVE  Files!Next
  BY <1>1, BeginsSaving
<1>2. ASSUME slot' = slot, data' = data, pc \notin {"blob", "header"}, pc' \notin {"blob", "header"}
      PROVE  UNCHANGED <<Found, Saving>>
  BY <1>2, Stutters
<1>3. ASSUME NEW h \in Handles, CloseFile(h) PROVE Files!Next \/ UNCHANGED <<Found, Saving>>
  BY <1>1, <1>2, <1>3 DEF CloseFile, diskVars, ctlVars
<1>4. ASSUME NEW h \in Handles, CloseFlush(h) PROVE Files!Next \/ UNCHANGED <<Found, Saving>>
  BY <1>1, <1>2, <1>4 DEF CloseFlush, diskVars
<1>5. ASSUME NEW h \in Handles, Flush(h) PROVE Files!Next
  BY <1>1, <1>5 DEF Flush
<1>6. CASE PutBlob
  <2>1. /\ pc = "blob" /\ pc' = "header" /\ slot' = slot /\ vf' = vf /\ cur' = cur /\ files' = files
        /\ data' = BlobWritten(CurFile, vf[cur].buf, Extent(CurFile, vf[cur].buf))
    BY <1>6 DEF PutBlob, memVars
  <2>2. Extent(CurFile, vf[cur].buf) \in Nat
    BY <2>1, SavingFacts, ContentType DEF SavingKnown, Extent, FilePointer
  <2>3. Files!Disturbs(Saving.name)
    <3>1. Extent(CurFile, vf[cur].buf) <= Extent(CurFile, vf[cur].buf)
      BY <2>2
    <3> QED BY <2>1, <2>2, <3>1, PutsBlob
  <2>4. Saving # None /\ Saving' = Saving
    <3>1. Saving # None
      BY <2>1, SavingFacts, TornAssumption DEF SavingKnown
    <3>2. Saving' = Saving
      BY <2>1 DEF Saving, CurFile
    <3> QED BY <3>1, <3>2
  <2> QED BY <2>3, <2>4 DEF Files!Next, Files!Disturb
<1>7. CASE PutHeader
  BY <1>7, PutsHeader DEF Files!Next
<1>8. CASE Crash
  <2>1. pc' = "closed" /\ slot' = slot
    BY <1>8 DEF Crash
  <2>2. CASE pc \notin {"blob", "header"}
    BY <1>2, <1>8, <2>1, <2>2 DEF Crash
  <2>3. CASE pc \in {"blob", "header"}
    <3>1. Saving # None /\ Saving' = None
      BY <2>1, <2>3, SavingFacts, TornAssumption DEF SavingKnown, Saving
    <3>2. CASE pc = "blob"
      <4>1. PICK n \in 0 .. Extent(CurFile, vf[cur].buf) :
              data' = BlobWritten(CurFile, vf[cur].buf, n)
        BY <1>8, <3>2 DEF Crash
      <4>2. n \in Nat /\ n <= Extent(CurFile, vf[cur].buf)
        <5>1. Extent(CurFile, vf[cur].buf) \in Nat
          BY <3>2, SavingFacts, ContentType DEF SavingKnown, Extent, FilePointer
        <5> QED BY <5>1
      <4>3. Files!Disturbs(Saving.name)
        BY <2>1, <3>2, <4>1, <4>2, PutsBlob
      <4> QED BY <3>1, <4>3 DEF Files!Next, Files!Crash
    <3>3. CASE pc = "header"
      <4>1. Found' = Found
        BY <1>8, <2>1, <3>3, SameFound DEF Crash
      <4>2. Files!Disturbs(Saving.name)
        BY <4>1, FoundType DEF Files!Disturbs, Files!Only
      <4> QED BY <3>1, <4>2 DEF Files!Next, Files!Crash
    <3> QED BY <2>3, <3>2, <3>3
  <2> QED BY <2>2, <2>3
<1>9. CASE UNCHANGED vars
  <2>1. UNCHANGED <<slot, data, pc, files, vf, cur>>
    BY <1>9 DEF vars
  <2> QED BY <2>1, SameFound DEF Saving, CurFile
<1>10. ASSUME NEW h \in Handles, NEW n \in Names, OpenNew(h, n) PROVE Files!Next
  BY <1>10, Creates
<1>11. ASSUME NEW n \in Names, DeleteFile(n) PROVE Files!Next
  BY <1>11, Deletes
<1>12. ASSUME NEW old \in Names, NEW new \in Names, RenameFile(old, new) PROVE Files!Next
  BY <1>12, Renames
<1>13. ASSUME NEW k \in Keys, Open(k) PROVE UNCHANGED <<Found, Saving>>
  BY <1>2, <1>13 DEF Open, diskVars
<1>14. ASSUME NEW h \in Handles, NEW n \in Names, NEW t \in BOOLEAN, OpenExisting(h, n, t)
       PROVE  UNCHANGED <<Found, Saving>>
  BY <1>2, <1>14 DEF OpenExisting, diskVars, ctlVars
<1>15. ASSUME NEW h \in Handles, NEW c \in Contents, Write(h, c) PROVE UNCHANGED <<Found, Saving>>
  BY <1>2, <1>15 DEF Write, diskVars, ctlVars
<1>16. CASE CloseContainer \/ CloseDone
  BY <1>2, <1>16 DEF CloseContainer, CloseDone, diskVars
<1> QED
  BY <1>3, <1>4, <1>5, <1>6, <1>7, <1>8, <1>9, <1>10, <1>11, <1>12, <1>13, <1>14, <1>15, <1>16
     DEF Next

-----------------------------------------------------------------------------
\* For every number of files, handles and blocks, a container used under one
\* passphrase by callers like Core is a FileStore (writeFileData's two writes,
\* deleteFile, renameFile, openFile): a crash costs at most the file being saved.
THEOREM FilesKeptApart == ASSUME Careful, OneKeyInUse PROVE Spec => ImplementsFileStore
<1>1. Init => StoreInv
  BY InitSaveInv, InitLinkInv DEF StoreInv, Whole, SavingNamed, Init
<1>2. StoreInv /\ [Next]_vars => StoreInv'
  <2>1. StoreInv /\ [Next]_vars => Whole'
    BY NextSaveInv, NextLinkInv DEF StoreInv, Whole
  <2> QED BY <2>1, NextNamed DEF StoreInv
<1>3. StoreInv /\ StoreInv' /\ [Next]_vars => [Files!Next]_<<Found, Saving>>
  <2>1. StoreInv => FoundInSlot /\ FoundNowhere
    BY FoundBySlot DEF StoreInv
  <2>2. StoreInv' => FoundInSlot' /\ FoundNowhere'
    BY FoundBySlotNext DEF StoreInv
  <2> QED BY <2>1, <2>2, NextFiles
<1>4. Init => Files!Init
  <2>1. Init => \A n \in Names : Named(n) = {}
    BY DEF Init, Named, Headers
  <2>2. Init => Found = [n \in Names |-> None] /\ Saving = None
    BY <2>1 DEF Found, Saving, Init
  <2> QED BY <2>2 DEF Files!Init
<1> QED BY <1>1, <1>2, <1>3, <1>4, PTL
        DEF Spec, ImplementsFileStore, Files!Spec, Files!fileVars
=============================================================================
