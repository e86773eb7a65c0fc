---------------------------- MODULE VFSContainer ----------------------------
(***************************************************************************)
(* The encrypted container of plugins/vfs-cake: EncryptedVFSContainer (the *)
(* *.vfs file: header slots, data blocks, one key open at a time) and      *)
(* VirtualFile (a file of the container held in RAM, written back when it  *)
(* is flushed or closed).                                                  *)
(*                                                                         *)
(* Unit of the data area: one DATA_ALIGNMENT block.  Every offset and      *)
(* allocation of the code is a multiple of it, so its round-ups to         *)
(* DATA_ALIGNMENT are the identity here.                                   *)
(*                                                                         *)
(* writeFileData is the one operation that makes two dependent writes to   *)
(* the disk, the blob and then the header slot.  It is cut there (pc       *)
(* "blob", "header"), so that a crash can fall between the two; one thread *)
(* at a time calls the container, so nothing else does.                    *)
(***************************************************************************)
EXTENDS Naturals, FiniteSets

CONSTANTS
  Keys,       \* passphrases; Argon2id with the container's salt keeps them apart
  Names,      \* virtual file names
  LongNames,  \* those of more than MAX_FILENAME_BYTES bytes
  SlotCount,  \* SLOT_COUNT
  FileIds,    \* UUIDs: bounds how many files are ever created
  Handles,    \* VirtualFile objects
  Vers,       \* tells apart two contents of the same length
  MaxLen,     \* longest content, in bytes of the model
  BlockBytes, \* DATA_ALIGNMENT, in bytes of the model
  Overhead,   \* NONCE_SIZE + MAC_SIZE
  MaxExp,     \* allocations are powers of two up to 2^MaxExp blocks
  DataBlocks, \* bound on the size of the data area
  MaxPad,     \* bound on the random padding of growContainer
  InitBlocks, \* sizes createContainer may draw
  Careful,    \* TRUE: only calls that keep to one handle per file, delete no
              \* file that is open and rename onto no existing name, as Core does
  None,       \* no key, no entry, no handle; a block or slot of random bytes
  Torn        \* what is read of a blob that does not authenticate

Slots == 0 .. SlotCount - 1
Blocks == 0 .. DataBlocks - 1
Empty == [ver |-> 0, len |-> 0]
Contents == {Empty} \cup [ver : Vers, len : 1 .. MaxLen]

FilePointer == [id : FileIds, name : Names \ LongNames, off : Nat, alloc : Nat, used : 0 .. MaxLen]
Header == [key : Keys, fp : FilePointer]
Cell == [key : Keys, id : FileIds, content : Contents, at : Nat]
VirtualFile == [slot : Slots, id : FileIds, buf : Contents, dirty : BOOLEAN,
                att : BOOLEAN]  \* id: history, the file it was opened on

ASSUME SizesAssumption ==
  /\ SlotCount \in Nat /\ MaxLen \in Nat /\ DataBlocks \in Nat /\ MaxPad \in Nat
  /\ BlockBytes \in Nat \ {0} /\ Overhead \in Nat \ {0} /\ MaxExp \in Nat
  /\ InitBlocks \subseteq 0 .. DataBlocks
  /\ Careful \in BOOLEAN
ASSUME NoneAssumption ==
  None \notin Keys \cup Handles \cup Contents \cup FilePointer \cup Header \cup Cell \cup VirtualFile
ASSUME TornAssumption ==
  Torn \notin Contents \cup {None} /\ None \notin [name : Names, content : Contents]

VARIABLES
  slot,    \* disk: header slots; [key, fp] decrypts under key, None under no key
  data,    \* disk: data blocks; a block of a blob, or None
  fsize,   \* disk: length of the data area
  key,     \* m_key, None when the container is not open
  files,   \* m_files, by slot index
  rank,    \* position in m_files, by slot index (only the order counts)
  vf,      \* the VirtualFile objects
  pc,      \* where the container's code stands
  cur,     \* the VirtualFile being written back
  why,     \* what asked for the write-back
  todo,    \* the part of close()'s snapshot not flushed yet
  saved,   \* history: the content last written back to each file
  damaged  \* history: files a crash caught while they were rewritten in place

diskVars == <<slot, data, fsize>>
memVars == <<key, files, rank>>
ctlVars == <<pc, cur, why, todo>>
history == <<saved, damaged>>
vars == <<slot, data, fsize, key, files, rank, vf, pc, cur, why, todo, saved, damaged>>

-----------------------------------------------------------------------------
(* Helpers of EncryptedVFSContainer *)

\* Blocks of the blob nonce + ciphertext + MAC of a content of length len.
BlobBlocks(len) == (len + Overhead + BlockBytes - 1) \div BlockBytes

\* findFileSlot: s holds the first entry of m_files with that name.
FoundAt(n, s) ==
  /\ files[s] # None /\ files[s].name = n
  /\ \A t \in Slots : files[t] # None /\ files[t].name = n => rank[s] <= rank[t]
Known(n) == \E s \in Slots : files[s] # None /\ files[s].name = n

\* findFreeSlot: the lowest slot no file of THIS key occupies.
MutFreeSlot(s) == s = 0
FreeSlot(s) == files[s] = None /\ \A t \in 0 .. s - 1 : files[t] # None

\* allocateBlock: the end of the last block allocated to a file of THIS key.
MutEndOfData(e) ==
  /\ \A s \in Slots : files[s] # None => files[s].off <= e
  /\ e = 0 \/ \E s \in Slots : files[s] # None /\ e = files[s].off
EndOfData(e) ==
  /\ \A s \in Slots : files[s] # None => files[s].off + files[s].alloc <= e
  /\ e = 0 \/ \E s \in Slots : files[s] # None /\ e = files[s].off + files[s].alloc

\* growContainer: the file covers end, with some random padding if it had to grow.
MutCovers(end, size) == size = fsize
Covers(end, size) ==
  IF end <= fsize THEN size = fsize
                  ELSE size \in end .. end + MaxPad /\ size <= DataBlocks

\* nextPowerOf2, in blocks.
PowerOf2For(n, a) ==
  /\ n <= a
  /\ \E x \in 0 .. MaxExp : a = 2 ^ x /\ \A y \in 0 .. MaxExp : n <= 2 ^ y => a <= 2 ^ y

\* The blob of content c at file fp, under key k, is whole on disk.
Holds(d, k, fp, c) ==
  \A b \in Blocks : fp.off <= b /\ b < fp.off + BlobBlocks(c.len) =>
    d[b] = [key |-> k, id |-> fp.id, content |-> c, at |-> fp.off]

\* readBlobFromDisk: what authenticates at that place with that length.
Authentic(k, fp, c) == c.len = fp.used /\ (fp.used > 0 => Holds(data, k, fp, c))
ReadBlob(k, fp) ==
  IF \E c \in Contents : Authentic(k, fp, c)
  THEN CHOOSE c \in Contents : Authentic(k, fp, c)
  ELSE Empty

\* writeBlobToDisk, cut short after upTo blocks; a whole write (Extent) also
\* fills the rest of the allocation with random bytes.
Extent(fp, c) == IF BlobBlocks(c.len) > fp.alloc THEN BlobBlocks(c.len) ELSE fp.alloc
BlobWritten(fp, c, upTo) ==
  [b \in Blocks |->
     IF fp.off <= b /\ b < fp.off + upTo /\ b < fp.off + BlobBlocks(c.len)
     THEN [key |-> key, id |-> fp.id, content |-> c, at |-> fp.off]
     ELSE IF fp.off <= b /\ b < fp.off + upTo THEN None ELSE data[b]]

\* m_files keeps its order, a new entry goes last.
NewRank(r) ==
  /\ \A t \in Slots : files[t] # None => rank[t] < r
  /\ r = 0 \/ \E t \in Slots : files[t] # None /\ r = rank[t] + 1

\* What decrypts in slot s under k (loadSlots).
Entry(k, s) == IF slot[s] # None /\ slot[s].key = k THEN slot[s].fp ELSE None

\* VirtualFile::flush has something to write and writeFileData knows the slot.
MustWrite(h) == /\ vf[h].dirty /\ vf[h].att
                /\ files[vf[h].slot] # None
Attached(s) == \E h \in Handles : vf[h] # None /\ vf[h].att /\ vf[h].slot = s

CurFile == files[vf[cur].slot]
InPlace == slot[vf[cur].slot] # None /\ slot[vf[cur].slot].fp.off = CurFile.off
\* The window in which the old blob is gone and the header still describes it.
AtRisk(s) == /\ pc \in {"blob", "header"} /\ s = vf[cur].slot
             /\ InPlace /\ vf[cur].buf # Empty /\ slot[s].fp.used > 0

-----------------------------------------------------------------------------
(* The container just made by createContainer: random bytes everywhere. *)

Init ==
  /\ slot = [s \in Slots |-> None] /\ data = [b \in Blocks |-> None]
  /\ fsize \in InitBlocks
  /\ key = None /\ files = [s \in Slots |-> None] /\ rank = [s \in Slots |-> s]
  /\ vf = [h \in Handles |-> None]
  /\ pc = "closed" /\ cur = None /\ why = None /\ todo = {}
  /\ saved = [id \in FileIds |-> None] /\ damaged = {}

\* open and loadSlots: the passphrase reveals the slots it decrypts.
Open(k) ==
  /\ pc = "closed"
  /\ key' = k /\ files' = [s \in Slots |-> Entry(k, s)]
  /\ rank' = [s \in Slots |-> s]
  /\ pc' = "idle"
  /\ UNCHANGED <<diskVars, vf, cur, why, todo, history>>

\* openFile on a name that is known: its content is decrypted into RAM.
OpenExisting(h, n, truncate) ==
  /\ pc = "idle" /\ vf[h] = None
  /\ \E s \in Slots :
       /\ FoundAt(n, s)
       /\ Careful => ~Attached(s)
       /\ vf' = [vf EXCEPT ![h] =
            [slot |-> s, id |-> files[s].id, dirty |-> FALSE, att |-> TRUE,
             buf |-> IF truncate \/ files[s].used = 0 THEN Empty
                     ELSE ReadBlob(key, files[s])]]
  /\ UNCHANGED <<diskVars, memVars, ctlVars, history>>

\* openFile on a new name: a slot, one block and an empty file, header written.
MutOpenNew(h, n) ==
  /\ pc = "idle" /\ vf[h] = None
  /\ n \notin LongNames
  /\ \E s \in Slots, id \in FileIds, e \in Blocks, size \in 0 .. DataBlocks,
        r \in 0 .. SlotCount + Cardinality(FileIds) :
       /\ FreeSlot(s) /\ saved[id] = None /\ EndOfData(e) /\ Covers(e + 1, size) /\ NewRank(r)
       /\ fsize' = size
       /\ files' = [files EXCEPT ![s] =
                      [id |-> id, name |-> n, off |-> e, alloc |-> 1, used |-> 0]]
       /\ slot' = [slot EXCEPT ![s] = [key |-> key, fp |-> files'[s]]]
       /\ rank' = [rank EXCEPT ![s] = r]
       /\ vf' = [vf EXCEPT ![h] = [slot |-> s, id |-> id, buf |-> Empty,
                                   dirty |-> FALSE, att |-> TRUE]]
       /\ saved' = [saved EXCEPT ![id] = Empty]
  /\ UNCHANGED <<data, key, ctlVars, damaged>>
OpenNew(h, n) ==
  /\ pc = "idle" /\ vf[h] = None
  /\ ~Known(n) /\ n \notin LongNames
  /\ \E s \in Slots, id \in FileIds, e \in Blocks, size \in 0 .. DataBlocks,
        r \in 0 .. SlotCount + Cardinality(FileIds) :
       /\ FreeSlot(s) /\ saved[id] = None /\ EndOfData(e) /\ Covers(e + 1, size) /\ NewRank(r)
       /\ fsize' = size
       /\ files' = [files EXCEPT ![s] =
                      [id |-> id, name |-> n, off |-> e, alloc |-> 1, used |-> 0]]
       /\ slot' = [slot EXCEPT ![s] = [key |-> key, fp |-> files'[s]]]
       /\ rank' = [rank EXCEPT ![s] = r]
       /\ vf' = [vf EXCEPT ![h] = [slot |-> s, id |-> id, buf |-> Empty,
                                   dirty |-> FALSE, att |-> TRUE]]
       /\ saved' = [saved EXCEPT ![id] = Empty]
  /\ UNCHANGED <<data, key, ctlVars, damaged>>

\* writeData, and the resize that serialiseToDevice adds: RAM only.
Write(h, c) ==
  /\ pc \in {"idle", "closed"} /\ vf[h] # None
  /\ vf' = [vf EXCEPT ![h].buf = c, ![h].dirty = TRUE]
  /\ UNCHANGED <<diskVars, memVars, ctlVars, history>>

\* writeFileData up to its first disk write: the entry of m_files is changed.
MutFit(h) ==
  /\ files' = [files EXCEPT ![vf[h].slot].used = vf[h].buf.len]
  /\ UNCHANGED fsize
Fit(h) ==
  LET s == vf[h].slot IN
  /\ BlobBlocks(vf[h].buf.len) <= files[s].alloc
  /\ files' = [files EXCEPT ![s].used = vf[h].buf.len]
  /\ UNCHANGED fsize
Relocate(h) ==
  LET s == vf[h].slot IN
  /\ BlobBlocks(vf[h].buf.len) > files[s].alloc
  /\ \E e \in Blocks, a \in 1 .. DataBlocks, size \in 0 .. DataBlocks :
       /\ EndOfData(e) /\ PowerOf2For(BlobBlocks(vf[h].buf.len), a) /\ Covers(e + a, size)
       /\ fsize' = size
       /\ files' = [files EXCEPT ![s].off = e, ![s].alloc = a, ![s].used = vf[h].buf.len]

WriteBack(h, reason) ==
  /\ vf[h] # None /\ MustWrite(h)
  /\ cur' = h /\ why' = reason
  /\ \/ /\ vf[h].buf = Empty
        /\ files' = [files EXCEPT ![vf[h].slot].used = 0]
        /\ pc' = "header" /\ UNCHANGED fsize
     \/ vf[h].buf # Empty /\ Fit(h) /\ pc' = "blob"
     \/ vf[h].buf # Empty /\ Relocate(h) /\ pc' = "blob"
  /\ UNCHANGED <<slot, data, key, rank, vf, todo, history>>

\* writeBlobToDisk.
PutBlob ==
  /\ pc = "blob"
  /\ data' = BlobWritten(CurFile, vf[cur].buf, Extent(CurFile, vf[cur].buf))
  /\ pc' = "header"
  /\ UNCHANGED <<slot, fsize, memVars, vf, cur, why, todo, history>>

\* encryptSlot; then VirtualFile::flush, and whoever called it, goes on.
PutHeader ==
  /\ pc = "header"
  /\ slot' = [slot EXCEPT ![vf[cur].slot] = [key |-> key, fp |-> CurFile]]
  /\ saved' = [saved EXCEPT ![CurFile.id] = vf[cur].buf]
  /\ damaged' = damaged \ {CurFile.id}
  /\ vf' = [vf EXCEPT ![cur] = IF why = "close" THEN None ELSE [@ EXCEPT !.dirty = FALSE]]
  /\ todo' = todo \ {cur}
  /\ pc' = IF why = "shutdown" THEN "closing" ELSE "idle"
  /\ cur' = None /\ why' = None
  /\ UNCHANGED <<data, fsize, memVars>>

\* VirtualFile::flush and VirtualFile::close.
Flush(h) == pc = "idle" /\ WriteBack(h, "flush")
CloseFile(h) ==
  /\ vf[h] # None
  /\ \/ pc = "idle" /\ WriteBack(h, "close")
     \/ /\ pc \in {"idle", "closed"} /\ ~MustWrite(h)
        /\ vf' = [vf EXCEPT ![h] = None]
        /\ UNCHANGED <<diskVars, memVars, ctlVars, history>>

\* close: flush every registered file, then forget the key and the files.
MutCloseContainer ==
  /\ pc = "idle"
  /\ pc' = "closing" /\ todo' = {}
  /\ UNCHANGED <<diskVars, memVars, vf, cur, why, history>>
CloseContainer ==
  /\ pc = "idle"
  /\ pc' = "closing" /\ todo' = {h \in Handles : vf[h] # None /\ vf[h].att}
  /\ UNCHANGED <<diskVars, memVars, vf, cur, why, history>>
CloseFlush(h) ==
  /\ pc = "closing" /\ h \in todo
  /\ \/ WriteBack(h, "shutdown")
     \/ /\ ~MustWrite(h)
        /\ todo' = todo \ {h}
        /\ UNCHANGED <<diskVars, memVars, vf, pc, cur, why, history>>
CloseDone ==
  /\ pc = "closing" /\ todo = {}
  /\ key' = None /\ files' = [s \in Slots |-> None] /\ rank' = [s \in Slots |-> s]
  /\ vf' = [h \in Handles |-> IF vf[h] = None THEN None ELSE [vf[h] EXCEPT !.att = FALSE]]
  /\ pc' = "closed"
  /\ UNCHANGED <<diskVars, cur, why, todo, history>>

\* deleteFile and clearSlot: the slot is random again, the blocks are garbage.
MutDeleteFile(n) ==
  /\ pc = "idle"
  /\ \E s \in Slots :
       /\ FoundAt(n, s) /\ (Careful => ~Attached(s))
       /\ files' = [files EXCEPT ![s] = None]
       /\ rank' = [rank EXCEPT ![s] = s]
       /\ saved' = [saved EXCEPT ![files[s].id] = Empty]
       /\ damaged' = damaged \ {files[s].id}
  /\ UNCHANGED <<diskVars, key, vf, ctlVars>>
DeleteFile(n) ==
  /\ pc = "idle"
  /\ \E s \in Slots :
       /\ FoundAt(n, s) /\ (Careful => ~Attached(s))
       /\ slot' = [slot EXCEPT ![s] = None]
       /\ files' = [files EXCEPT ![s] = None]
       /\ rank' = [rank EXCEPT ![s] = s]
       /\ saved' = [saved EXCEPT ![files[s].id] = Empty]
       /\ damaged' = damaged \ {files[s].id}
  /\ UNCHANGED <<data, fsize, key, vf, ctlVars>>

MutRenameFile(old, new) ==
  /\ pc = "idle"
  /\ Careful => ~Known(new)
  /\ \E s \in Slots :
       /\ FoundAt(old, s)
       /\ files' = [files EXCEPT ![s].name = new]
       /\ slot' = [slot EXCEPT ![s] = [key |-> key, fp |-> files'[s]]]
  /\ UNCHANGED <<data, fsize, key, rank, vf, ctlVars, history>>
\* renameFile: the header slot only; nothing is asked about the new name but
\* its length.
RenameFile(old, new) ==
  /\ pc = "idle" /\ new \notin LongNames
  /\ Careful => ~Known(new)
  /\ \E s \in Slots :
       /\ FoundAt(old, s)
       /\ files' = [files EXCEPT ![s].name = new]
       /\ slot' = [slot EXCEPT ![s] = [key |-> key, fp |-> files'[s]]]
  /\ UNCHANGED <<data, fsize, key, rank, vf, ctlVars, history>>

\* The process dies: RAM is gone, a blob being written is cut short.
Crash ==
  /\ pc' = "closed" /\ key' = None
  /\ files' = [s \in Slots |-> None] /\ rank' = [s \in Slots |-> s]
  /\ vf' = [h \in Handles |-> None]
  /\ cur' = None /\ why' = None /\ todo' = {}
  /\ IF pc = "blob"
     THEN \E n \in 0 .. Extent(CurFile, vf[cur].buf) : data' = BlobWritten(CurFile, vf[cur].buf, n)
     ELSE UNCHANGED data
  /\ damaged' = damaged \cup {slot[s].fp.id : s \in {t \in Slots : AtRisk(t)}}
  /\ UNCHANGED <<slot, fsize, saved>>

Next ==
  \/ \E k \in Keys : Open(k)
  \/ \E h \in Handles, n \in Names, truncate \in BOOLEAN : OpenExisting(h, n, truncate)
  \/ \E h \in Handles, n \in Names : OpenNew(h, n)
  \/ \E h \in Handles, c \in Contents : Write(h, c)
  \/ PutBlob
  \/ PutHeader
  \/ \E h \in Handles : Flush(h)
  \/ \E h \in Handles : CloseFile(h)
  \/ CloseContainer
  \/ \E h \in Handles : CloseFlush(h)
  \/ CloseDone
  \/ \E n \in Names : DeleteFile(n)
  \/ \E old, new \in Names : RenameFile(old, new)
  \/ Crash

Spec == Init /\ [][Next]_vars

-----------------------------------------------------------------------------
(* Properties *)

\* Type invariant.
TypeOK ==
  /\ slot \in [Slots -> {None} \cup Header]
  /\ data \in [Blocks -> {None} \cup Cell]
  /\ fsize \in 0 .. DataBlocks
  /\ key \in {None} \cup Keys
  /\ files \in [Slots -> {None} \cup FilePointer]
  /\ rank \in [Slots -> Nat]
  /\ vf \in [Handles -> {None} \cup VirtualFile]
  /\ pc \in {"closed", "idle", "blob", "header", "closing"}
  /\ cur \in {None} \cup Handles
  /\ why \in {None, "flush", "close", "shutdown"}
  /\ todo \subseteq Handles
  /\ saved \in [FileIds -> {None} \cup Contents]
  /\ damaged \subseteq FileIds

DisjointBlocks(f, g) == f.off + f.alloc <= g.off \/ g.off + g.alloc <= f.off

MemDisjoint == \A s, t \in Slots :
  s # t /\ files[s] # None /\ files[t] # None => DisjointBlocks(files[s], files[t])
DiskDisjoint == \A k \in Keys, s, t \in Slots :
  s # t /\ Entry(k, s) # None /\ Entry(k, t) # None => DisjointBlocks(Entry(k, s), Entry(k, t))

\* Of the files one passphrase reveals, no two share a block: neither as the
\* open container knows them nor as the headers on disk describe them, between
\* the two writes of a write-back and after a crash included (allocateBlock).
BlocksDisjoint == MemDisjoint /\ DiskDisjoint

\* Every allocation lies inside the container file, on disk and in RAM
\* (allocateBlock grows the file before anything is written behind its end).
InsideContainer ==
  \A s \in Slots : /\ files[s] # None => files[s].off + files[s].alloc <= fsize
                   /\ slot[s] # None => slot[s].fp.off + slot[s].fp.alloc <= fsize

\* Outside a write-back, m_files is exactly what a reopen under the same
\* passphrase would load: no operation forgets the header, the open key sees
\* no file of another one (openFile, deleteFile, renameFile, writeFileData).
HeaderTracksMemory ==
  pc \in {"idle", "closing"} => \A s \in Slots : files[s] = Entry(key, s)

\* A name leads to the file it would lead to after a reopen, whatever the
\* order in which slots were freed and taken again (findFileSlot over m_files
\* against loadSlots's slot order).
ReopenFindsSame ==
  pc = "idle" => \A n \in Names, s, t \in Slots :
    FoundAt(n, s) /\ files[t] # None /\ files[t].name = n => s <= t

\* What was written back last is what the disk gives for the file, at every
\* point a crash could come, unless the file is one a crash caught (or the
\* running write-back holds) while its blob was rewritten in place.  With one
\* passphrase in use.
SavedReadable ==
  \A s \in Slots :
    /\ slot[s] # None => saved[slot[s].fp.id] # None
    /\ slot[s] # None /\ slot[s].fp.id \notin damaged /\ ~AtRisk(s)
         => Authentic(slot[s].key, slot[s].fp, saved[slot[s].fp.id])

\* A write-back lands on the file its VirtualFile was opened on (the slot
\* index is all a VirtualFile keeps).
OwnFileOnly == [][PutHeader => files[vf[cur].slot].id = vf[cur].id]_vars

\* Once close() is done, every file that was open with a content has that
\* content on disk, also the ones never flushed by their owner.
CloseSavesAll ==
  [][CloseDone => \A h \in Handles :
       vf[h] # None /\ vf[h].att /\ vf[h].buf # Empty /\ vf[h].id \notin damaged
         => Authentic(key, slot[vf[h].slot].fp, vf[h].buf)]_vars

\* Working under one passphrase touches nothing another one reveals.
LayersIndependent ==
  [][/\ \A s \in Slots : slot[s] # None /\ slot[s].key # key => slot'[s] = slot[s]
     /\ \A b \in Blocks : data[b] # None /\ data[b].key # key => data'[b] = data[b]]_vars

-----------------------------------------------------------------------------
(* The container as a FileStore, from what is on the disk: the files a       *)
(* reopen would find and what it would read of them.                         *)

Headers == {slot[s] : s \in Slots} \ {None}
Named(n) == {e \in Headers : e.fp.name = n}
Readings(n) == UNION {{c \in Contents : Authentic(e.key, e.fp, c)} : e \in Named(n)}
Found ==
  [n \in Names |-> IF Named(n) = {} THEN None
                   ELSE IF Readings(n) = {} THEN Torn ELSE CHOOSE c \in Readings(n) : TRUE]
Saving ==
  IF pc \in {"blob", "header"} THEN [name |-> CurFile.name, content |-> vf[cur].buf] ELSE None

Files == INSTANCE FileStore WITH store <- Found, saving <- Saving, Fresh <- Empty

\* Under one passphrase, and with callers like Core, every step of the container
\* is one of FileStore: two writes to the disk and a table in RAM come to files
\* that are saved one at a time, and a crash costs at most the one being saved.
ImplementsFileStore == Files!Spec
=============================================================================
