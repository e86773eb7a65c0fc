# A verification model of aSocial

aSocial is a local-first social application: a small Qt host (`src/src`) with a
Core, everything else a plugin. A profile lives in an encrypted container file
on disk; a passphrase reveals some of the virtual files inside it; one of them
holds a key-value database of protobuf records; console and Qt Quick front ends
work on it through the Core. This directory holds TLA+ modules for the parts of
it in which steps, orders and failures matter, the TLC configurations that check
them on small instances, and proofs checked by TLAPS.

## The system and its parts

In GUI mode everything runs in the Qt main thread. In console mode the front end
is a thread of its own: it reads commands and calls Core while the main thread
sits in the event loop and, at the end, takes everything down; its spinner is a
third. The rest of the hard behaviour comes from state held in several copies
(disk, the container's table, a virtual file's buffer, RocksDB's memory, Core's
fields) with a crash or a shutdown between their updates, from plugins, proxies
and singletons that point to each other while they come and go, and from
validation generated from the schema, which decides what Core's operations can
do at all.

| Part | State | Operations | Talks to | What must hold |
| --- | --- | --- | --- | --- |
| vfs-cake, `plugins/vfs-cake` | header slots and data blocks on disk; key, file table; open `VirtualFile` buffers | open, close, openFile, readFile, writeFileData, deleteFile, renameFile | Core; the database writes into its devices | no two files share a block; the table in RAM is what a reopen loads; what was saved reads back after a crash; layers under two passphrases do not harm each other |
| dbkv-rocksdb, `plugins/dbkv-rocksdb` | in-memory RocksDB, the device it mirrors | open on a device, put, get, remove, list, flush, close | Core; a VirtualFile | the device holds the database after flush and close; a failed load never overwrites the device |
| Core profile, `src/core.cpp` 148-426 | container, device, profile id, active persona | create container, open, create, close, delete profile, params, import, export | vfs, dbkv, front ends | device, container and database open and close together; a wrong passphrase destroys nothing; what `store*` reported saved survives |
| Core entities, `src/core.cpp` 444-1156 and generated helpers | records under hierarchical keys | create, store, delete, list of personas, contacts, groups, members, messages, events | dbkv | references stay valid, what is created can be stored, deletes leave nothing dangling |
| Plugins, `src/plugins.cpp` | known, wanted and active plugins by interface, activation order, a Core proxy per name | find, activate, deactivate, shutdown | Core, settings | deactivation in reverse order, each plugin once and with its proxy alive until then, several libraries of one name or not |
| Settings, `src/settings.cpp` | name/value store | get and set; its change signal is connected to nothing | Plugins | - |
| Core access proxy, `src/CoreAccessProxy.cpp`, `include/PluginPermissions.h` | permission mask per plugin | every Core call, checked | Core | no call without its permission; the front ends' own calls all pass |
| Main, `src/main.cpp` | application object, SIGINT socket | start, event loop, runShutdown, exception handler | all | what the console uses outlives it; who asks the program to end sees it end; nothing unsaved |
| ui-console, commands, `ConsoleUI.cpp` | thread, log queue | some fifty commands with their prompts | Core proxy, log | the thread ends when told to; a command refused or cancelled changed nothing; what others log does not break the line typed |
| ui-console, input, `console/*` | bytes read, line edited, history, menu, prompt, spinner thread, terminal mode | read a key, edit, complete, browse, dispatch, ask, spin | ConsoleUI | keys are read whole; the screen shows what will be sent; the command run is the one meant; the terminal is given back |
| ui-gui, `plugins/ui-gui` | GuiBackend, the QML that binds to it | invokable methods, two signals | Core proxy | views show what Core has |
| dbkv-json, `plugins/dbkv-json` | one file per key below a directory | same interface as rocksdb, no device mode, flush does nothing | activated, but no database is opened with it | a stored object survives the next store |
| comm-tox | none yet (stub) | init, deinit | - | - |
| asocial_tpl | template source, nodes, render context | parse, render | asocial_protogen | sources are parsed as written, no text is lost, loops leave the context as it was |
| asocial_protogen | the schema | generates C++ at build time | asocial_tpl, build | the generated validation follows the schema |
| asocial_log | tree of logs, the root's sink | log, setSink | all threads | no line reaches a plugin that is gone |

## Modules

| Modules | Model | Proofs |
| --- | --- | --- |
| `FileStore`, `VFSContainer` | what a container promises about the files in it; vfs-cake | `VFSContainerProofs` |
| `ProfileVault`, `CoreProfile` | what Core promises about profiles; Core's profile operations over vfs-cake and dbkv-rocksdb | `CoreProfileProofs` |
| `EntityStore` | Core's operations on records, with the generated keys and validation | `EntityStoreProofs` |
| `AppLifecycle` | `main()` and the console thread | `AppLifecycleProofs` |
| `CoreAccess`, `PluginHost` | the permission proxy, the plugin registry | `PluginHostProofs` |
| `ConsoleCommands`, `GuiHandlers`, `FrontEnds`, with `Tables` | what the two front ends ask of Core | `FrontEndsProofs` |
| `Terminal`, `CommandRouter`, `ConsoleInput` | the console at the keyboard | `ConsoleInputProofs` |
| `TemplateData`, `TemplateExpr`, `TemplateEval`, `Template` | the template engine | `TemplateProofs` |

They fit together by what each may take for granted. `AppLifecycle` and
`PluginHost` show that whoever calls Core finds it there; so the other modules
take a call as a step. `FrontEnds` shows which calls the front ends make, in
which order; `CoreProfile` and `EntityStore` take every order of calls.
`CoreProfile` uses a virtual file as `FileStore` has it, which `VFSContainer`
is shown to implement, and `ProfileVault` is what is left of all that for a caller. `MC*` modules give the
constants of the runs; `CoreAccess` is shared by `PluginHost` and `FrontEnds`.

### FileStore and VFSContainer

One open container (`EncryptedVFSContainer`) and its `VirtualFile`s. `slot`,
`data` and `fsize` are the disk; `key`, `files` and `rank` are `m_key` and
`m_files` (an entry by slot, and its position in the vector, which decides
which of two files of one name `findFileSlot` returns); `vf` are the devices
handed out. Encryption is modelled by what it does: a header slot opens under
one key, and a blob authenticates only if all its blocks are those one write
put there, for that key, that file id, that offset and that length
(`Authentic`). Offsets and sizes count in blocks of `DATA_ALIGNMENT`, to which
the code rounds all of them.

Actions are the public operations. `writeFileData` is cut between its effects:
`WriteBack` changes `m_files` (and grows the file), `PutBlob` writes the blob,
`PutHeader` the header slot and then returns to whoever asked for it. Core is
called by one thread at a time, so between those only `Crash` may happen; a crash
inside the blob leaves any prefix of it. Crashes are crashes of the process:
writes reach the disk in the order the code makes them. `saved` and `damaged`
are history variables: the content each file was last written back with, and
the files a crash caught while their blob was rewritten in place (the code
overwrites a blob that still fits where it stands, so it cannot promise those).

`Careful` limits the callers to what the Core does: one device per file, no
`deleteFile` of a file that is open, no rename onto an existing name. The runs
set it to TRUE; the proofs hold for both. With FALSE, TLC finds `OwnFileOnly`
violated: a device kept open over `deleteFile` writes its buffer into the next
file that takes the slot, for `writeFileData` knows a file by its slot only.

`FileStore` is all of this as who keeps files in a container sees it: `store`,
what is found under each name, and `saving`, the file being saved. A file is
created empty, saved, renamed, deleted; whatever happens to one, all others read
as they did, and a crash costs at most the one being saved (`Torn`), until it is
saved again. `VFSContainer` implements it from what is on the disk alone: `store`
is `Found`, the headers that decrypt and the contents that authenticate, so
m_files, blocks and devices do not occur in it; `saving` is the write-back in
progress, and `WriteBack`, `PutBlob`, `PutHeader` and `Crash` are its `Begin`,
`Disturb`, `Finish` and `Crash`. `ImplementsFileStore` needs one passphrase and
`Careful` callers, for two files of one name are one name.

| Run | Question | Bounds |
| --- | --- | --- |
| `vfs_crash` | do blocks stay apart and inside the file, does what was saved read back at every crash point, is `m_files` what a reopen loads, is all of it a `FileStore` | 2 files of one block that move to two with the first write and are rewritten there, 2 contents, 6 data blocks, one device |
| `vfs_two_open` | does each write-back land on its own file, does `close` save all, do names lead to the same file after a reopen | 2 devices, 2 slots for 3 files, so a freed slot is taken again; one block each, 2 contents |
| `vfs_layers` (violation) | does work under one passphrase leave the other's slots and blocks alone | 2 passphrases |

The bounds are small because the interesting cases need little: two files to
collide, a content that outgrows one block (relocation) and another of the same
length written over it (in place, so a crash may leave one block of each), a third
file to take a freed slot. Two versions of one length tell an old blob from a new
one. Handles, file ids and versions are
symmetric in every definition; only safety is checked under symmetry.

### VFSContainerProofs

From `SizesAssumption` (the sizes are naturals, a block has at least a byte),
`NoneAssumption` and `TornAssumption` (the sentinels are none of the values), for
every value of the constants:

| Theorem | Property | Also assumes |
| --- | --- | --- |
| `TypesHold` | `TypeOK` | |
| `AllocatedBlocksDisjoint` | `BlocksDisjoint` | |
| `AllocatedInside` | `InsideContainer` | |
| `HeaderInStep` | `HeaderTracksMemory` | |
| `SavedStaysReadable` | `SavedReadable` | one passphrase in use |
| `NamesLeadToOneFile` | `ReopenFindsSame` | `Careful` |
| `WritesLandAtHome` | `OwnFileOnly` | `Careful` |
| `ClosingSavesAll` | `CloseSavesAll` | `Careful`, one passphrase |
| `FilesKeptApart` | `ImplementsFileStore` | `Careful`, one passphrase |

`BlocksDisjoint` alone is not inductive: a header is written from RAM, so the
disk inherits disjointness only if RAM and disk agree on every other file.
`AllocInv` adds `MemSync`, which says they do but for the file being written
back, and that a running write-back belongs to a known file of an open
container (`ControlOK`). `SavedReadable` needs more (`SaveInv`): file ids are
unique, blobs fit their allocation in the headers and in RAM (`BlobFits`), the
blob is whole before its header is written and never overlaps the old one
unless it starts at the same block (`WriteBackOK`). Each step then keeps the
blocks of every other file (`HoldsElsewhere`, `BlobSave`).

A `VirtualFile` keeps a slot index and no more. `LinkInv` says what callers like
Core make of it: no name is given twice, in RAM or on disk (`MemNames`,
`DiskNames`), and the slot of a device still attached holds the file it was
opened on (`AllLinked`). `close` is a loop with write-backs in it: `CloseInv` adds
that a clean buffer is what the disk has (`CleanSaved`), that no two devices
share a slot (`Alone`), and that once the loop is done all are clean (`Flushed`).
Its last step needs that a header slot authenticates one content only.

The refinement goes slot by slot. `SaveInv` and `LinkInv` give every name at most
one header, so what is found under it is the `Value` of one slot
(`FoundBySlot`), and a step can be judged by the slots and blocks it leaves alone
(`SameValue`, `KeepsFound`). The one invariant to add is `SavingNamed`: the
header on disk has the name of the entry being saved. The hard step is a blob cut
short (`BlobValue`): written elsewhere it changes no slot's value, written in place
its first block decides that nothing but the new content can authenticate.

With two passphrases in use `SavedReadable` is false in the code
(`vfs_layers`), which is why three theorems assume one.

### ProfileVault and CoreProfile

`ProfileVault` is what Core promises about profiles: a container holds at most
one, one at a time is open, only the open one changes, by an edit or by its
deletion, opening and closing change nothing, a crash costs at most what was
edited since the profile was opened, or the profile that was being written
back.

`CoreProfile` is `src/core.cpp` over the plugins: a profile is a temporary
RocksDB (`db`), serialised into the buffer of a virtual file (`device`) at each
flush and written back to the container (`disk`) when the device is closed.
`container`, `device`, `current`, `active` and `path` are Core's fields of those
names; `phase` is how far `main()` has come. One action per operation of Core,
the failing exits of `openProfile` and `createProfile` as actions or branches of
their own; the database plugin going down before Core closes the profile
(`PluginsDown`, `FinalClose`) is the order of `runShutdown`. The virtual file is
used as `VFSContainer` shows it behaves under one passphrase, and creation under
another one replaces what it would overwrite (`vfs_layers`).

The refinement maps the vault to `Seen`, the open database or else the profile
on the disk, and its durable part to the disk alone.

| Run | Question | Bounds |
| --- | --- | --- |
| `core_session` | is the session whole or closed after every step, does every step implement the vault, whose records does a new profile find | 2 containers, 2 passphrases, 2 ids, 2 contents of everything else; shutdown and crash at any point |
| `CoreFreshProfile.cfg` (refuted) | is a new profile brand-new | the same |

Two ids are two profiles, or a profile and the one that replaces it; two
containers and passphrases are what opening one over another needs.

`createProfile` under a passphrase in use keeps the old file and writes a new
profile record into it, although CoreInterface.h:96 calls the profile brand-new:
`NewProfileFresh` fails. `InheritsOwnOnly` is what can still be said: what a new
profile finds in its database is from the profile seen in the same container
under the same passphrase, and never from another one, also not from the session
that had to be closed first.

### CoreProfileProofs

For any containers, passphrases, ids and contents, from `IdsAssumption` and
`SentinelsAssumption`: `TypesHold`, `SessionStaysWhole`, `CoreImplementsVault`
and `NewProfileInheritsOwn`. The invariant is `TypeOK /\ SessionWhole`, inductive
as it stands (`StepInv`); its last conjunct, a clean device equals the disk, is
there because a clean device is not written back. The refinement has one step
lemma per kind of change: closing writes exactly what was seen (`SavedIsSeen`,
`ClosingStep`), edits change only the open entry (`EditStep`), creation and
deletion one entry (`VaultStep`). `NewProfileInheritsOwn` needs that a database
without a profile record has no other record either, and that profiles stored
anywhere were given out before (`AllGrown`), or the file of a creation cut short
could hold records nobody saw.

### EntityStore

The records of one profile: `store` is the set of keys in its database, made by
the generated key helpers, `drafts` the objects callers hold, `defaults` the
personas marked so, `active` Core's field. Contents are abstracted to what
validation asks: whether the required fields are filled, and whose keys exist.
`keyExists` is the prefix search of the code; UUIDs have one length, so a
segment is a prefix of another only if they are equal. Store operations take any
object ever handed out, under any persona, before or after its deletion, for
nothing in Core ties an object to a session. `born` is a history variable, every
UUID is drawn once; `last` is the answer of the latest store operation.
`DeletesFail` lets single deletes of the database fail inside `deletePersona`,
which looks at the last one only; with TRUE, `OwnersExist` is violated by a
deletion that leaves a contact behind.

| Run | Question | Bounds |
| --- | --- | --- |
| `entity_store` | no record without its persona, what does a deletion take with it | 4 ids, each a persona or a record: two personas with a record each, or one with three |
| `entity_persona` (violation) | can a persona with all its fields be stored | 4 ids |
| `EntityFactory.cfg` (refuted) | can a contact, group or event be stored as the factory made it | 4 ids |
| `EntityMembership.cfg` (refuted) | can a stored contact be added to a stored group of its persona | 4 ids |
| `EntityMessage.cfg` (refuted) | can a complete message between two stored contacts be stored | 4 ids |

The four claims fail for four causes: personas look for the profile under a key
that does not exist; fields the factories leave empty are required; memberships
look their group and contact up without the persona; messages do too, and want a
recipient that is a contact and a group at once. The passing run is nevertheless
about all orders of calls, with objects whose fields callers filled in.

`RemovalsScoped` says what a deletion takes with it. Contacts, groups, messages and
events go only from the active persona, or with the persona they belong to.
Memberships carry no persona, and `deleteGroup` (core.cpp:923) and
`removeGroupMember` (core.cpp:956) take them away whosever group it is: of them it
says only that they go with the profile, with the persona of their group, or by a
call that names the group and takes nothing of another.

### EntityStoreProofs

For any ids and parameters, from `NoneAssumption`: `TypesHold` and
`OwnersAlwaysExist` if deletes do not fail, `RemovalsAlwaysScoped` always.
`OwnersExist` is not inductive alone: that a persona "is found" by prefix means
it exists only because persona keys have a single segment, in the store and in
the drafts that may be stored (`PersonaKeysWhole`). Every operation is an instance
of four shapes (`Stored`, `Deleted`, `Created`, a change of session), each with a
lemma, and `deletePersona` has its own.

### AppLifecycle

`main()`, `runShutdown`, plugin activation and deactivation, the log's sink and
the thread of `ConsoleUI::run`, in console mode. `main` and `repl` say where the
two threads are; `order`, `proxies`, `inited` are the registry's activation
order, its proxies, and the plugins between `init` and `deinit`; `sink` and
`deleted` are what the threads share. The steps of the main thread are cut
where the other thread can see the difference. Any set of plugins may be found.
SIGINT, the end of the input and, with `Throws`, exceptions may come at any step;
destructors throw nothing. Fatal log lines abort the process if the log has no sink
(log.cpp:169): without a console plugin, which main.cpp:188 reports before a sink is
set, and in the handlers (main.cpp:222, 230) before the sink is set or after the
shutdown cleared it. `main = "killed"` is where that ends, with nothing shut down.

It is what justifies a call of Core as one step in `CoreProfile` and
`EntityStore`: `ReplOnLiveObjects` says the main thread comes to the plugins and
to Core only after the console thread has ended.

| Run | Question | Bounds |
| --- | --- | --- |
| `app_start_to_end` | does the console thread only meet objects that are there, does no log line reach a plugin that is gone, does Core go after all plugins, does an exit that was heard end the process | none: the model is finite, `Throws` is TRUE |
| `app_asked_to_end` (violation) | does the program end when asked to by command, SIGINT or end of input | `Throws` is FALSE |

Fairness: the main thread's steps and the console's own steps are weakly fair,
for both threads are scheduled and nothing in them waits but where the model
says so (`Joined` waits for the thread, `LoopEnds` for an event). A command ends
(strong fairness, since log lines come in between): its loops are over finite
lists. Nothing the user does is fair; a prompt may wait for ever, which is why
`AskedToEnd` can fail. Under `Throws` exceptions are not fair either; the
invariants about order are then claimed until the first one (`~handling`), for
the handler does not know how far the shutdown got.

### AppLifecycleProofs

The module has no constant but `Throws`, so its run is exhaustive; the proofs say
why it passes. The inductive invariant follows the program: nothing else runs
while plugins are activated (`Starting`), the console comes last (`UiLast`), what
is initialised is what is still to be deactivated, but for the console while its
thread is waited for (`Accounted`), nothing is left once Core goes (`Emptied`),
the thread has its plugins while it works (`Attended`), and the sink is taken back
before a plugin goes (`SinkLive`). From it: `TypesHold` (which no run checks), `ConsoleOnLiveObjects`,
`CoreGoesLast`, `LogsReachLivePlugin`.

### CoreAccess and PluginHost

`CoreAccess` is the table of `CoreAccessProxy`: which flag each call asks for
(`Gate`), which bits the flags have (three share the bit of another), what a
Write implies. `PluginHost` is the registry of `src/plugins.cpp`: libraries are
loaded in any order, plugins are known by name and interface, objects by library.
Libraries of one name may differ in what they offer and declare, as two versions
found in two of the directories searched do; then the second is registered for the
interfaces the first has not, and one name stands for two objects. Activation makes a proxy per name for what
the object declares and calls `init` once per object, whose answer is ignored;
`deactivateInterface` calls `deinit` with the last interface of an object; the
shutdown counts down over the activation order and finds each entry again by
name. `wanted` are the plugins a setting switches on.

| Run | Question | Bounds |
| --- | --- | --- |
| `plugin_host` | who keeps its proxy, does the shutdown leave nothing behind and go in reverse order, who declared a call passed on | two libraries of one name, the second with an interface and a permission more, and a front end; eight calls behind eight different flags |
| `PluginProxy.cfg` (refuted) | is no plugin left with a deleted proxy | the same |
| `PluginCalls.cfg` (refuted) | did the plugin that calls declare the call | the same |

Two interfaces are what it takes to deactivate one and keep the object, two
libraries to have one name for two objects; that the second has what the first has
not is what gets it registered. `deactivateInterface` deletes the proxy of the name
when one object has no interface left, and `activateInterface` makes none if the
name has one, so `CoreReachable` and `CallsOwnDeclared` fail for two objects of a
name. `ProxyKept` and `CallsDeclared` are what holds: a plugin in use has its proxy
until the shutdown, and to its own `deinit` if it is alone under its name; a call
passed on was declared by some object of the caller's name. Deadlock is not checked: the program
stops after the shutdown.

### PluginHostProofs

For any libraries, names, interfaces and declared permissions, several libraries of
one name and different in both among them, from `PluginsAssumption` (the tables
have the types of tables): `TypesHold`, `ProxyStays`, `ShutdownIsComplete`,
`ReverseOrder`, `PassedCallsDeclared`. A name and an interface stand for one object
(`Registry`), though a name may stand for several. `OrderActive`, `ActiveKnown` and
`OrderUnique` make the order list and the set of active pairs two views of one
thing, `InitedActive` and `ProxyUsed` tie `init` and the proxies to it; `Proxied`
says which of the active still have their proxy, and `ProxyDeclared` for whom it
was made.

### ConsoleCommands, GuiHandlers, FrontEnds

Every command of `ConsoleUI.cpp` and every invokable method of `GuiBackend.cpp` is
a script: the tests it makes, what it asks for, what it calls, what it ignores,
the signals it sends, in the order of the code. `FrontEnds` runs them, one at a
time, over Core as a front end sees it: a call may answer whatever `CoreProfile`
and `EntityStore` let it. Prompts return what `Prompt.cpp` returns: the null
string for Ctrl-C, and also for Enter before any key; each command makes of it
what its test makes of it. `askNumber` alone has no answer for Ctrl-C and returns
its default; `left` remembers the kind of prompt at which Ctrl-C was pressed. For
the GUI, `stale` holds what QML shows and has not read again since it changed; a
signal makes it read what is bound to it. The groups drawn as rings around the
central persona (MainScreen.qml:183) are bound to nothing: they are read with the
screen and never again. QML calls
handlers only from the screens in `Wired`; `ui = "api"` calls all of them. The
scripts stand in tables by subject, as the commands do in the source; `Tables`
joins them, for the provers have no definition of TLC's `@@`.

| Run | Question | Bounds |
| --- | --- | --- |
| `front_ends` | is no call of a front end refused for want of a permission, does a command refused or cancelled leave everything as it was, is the active persona one of the profile's, do the views show what Core has | 2 personas; up to 3 arguments given on the line; all commands and handlers |
| `FrontCtrlC.cfg` (refuted) | does Ctrl-C cancel at every prompt | the same |
| `FrontCentral.cfg` (refuted) | are the groups around the central persona those of the active one | the same |

Scripts are finite and straight, so a run of all of them, one after another, meets
every order of two; two personas are one active and one to delete. Deadlock is not
checked: the program ends with an exit. `RefusedChangesNothing` leaves out Ctrl-C at
a number's prompt, which `init` takes for an answer (`CtrlCCancels` has it), and
`ViewsFresh` the rings (`CentralPersonaFresh`).

### FrontEndsProofs

For any set of personas, from `PersonasAssumption`:

| Theorem | Property | Inductive part |
| --- | --- | --- |
| `FrontEndTyped` | `TypeOK` | `JobOK`: what is under way is a script of the front end in use |
| `FrontEndsAllowed` | `NoCallDenied` | - |
| `RefusedUntouched` | `RefusedChangesNothing` | `AskedFirst`: after a change the rest of the script asks nothing |
| `ActiveStored` | `ActivePersonaStored` | `StoredInv`, `Spared`: between `NotActive` and the deletion nothing but the confirmation happens |
| `GuiFresh` | `ViewsFresh` | `ViewsInv`: what QML shows is true or a signal is still to come, and nothing before it ends the script |

The argument has two halves. What the scripts have in common is read off their
steps, table by table: they consist of the steps there are (`Steps`), ask before
they change (`Sound`), compare a persona with the active one right before they
delete it (`Careful`), and the wired ones tell of a change on the screens that
show it (`WiredTells`). A script that broke one of these would falsify the lemma
of its table. The other half never looks at a script: a step of the interpreter is
one of a few kinds (`StepKinds`), an answer of Core keeps what `AnswerOK` says, and
the inductive part moves from one place of a script to the next. TLC checked the
inductive parts before they were proved.

### Terminal, CommandRouter, ConsoleInput

`Terminal` reads keys from bytes as `readKey` does and moves a cursor on a line;
`CommandRouter` splits a line into words, with quotes and escapes, and finds the
longest chain of menu names; `ConsoleInput` is the loop around them:
`LineEditor::readLine`, `Prompt`, `Spinner` with its thread, the log queue, and the
end of `ConsoleUI`, by exit or by an exception out of Core. Lines logged go to the
queue while the log has its sink. The main thread may take that away at any time
(`setSink`, the first thing `runShutdown` does; it waits for the console later, as
`AppLifecycle` has it), and from then on `output` prints each line where the cursor
is: what Qt writes to standard error is taken to go to the same terminal, in raw
mode without going back to the first column. The person presses
keys at any time, ahead of the program too; `sent` and `garbled` remember what was
pressed and whether its bytes came late. A paste is a command line written with
the quotes its words need.

| Run | Question | Bounds |
| --- | --- | --- |
| `console_input` | are keys read whole, does the screen show what will be sent, is the command run the one meant, does the typed text come back from the history, do the stars of a password go, is the terminal given back | lines edited up to 1 character, pasted ones any length; history of 2; one key ahead; one log line; a menu with two commands and five ways to write them |
| `ConsoleLogs.cfg` (refuted) | does the log queue keep log lines off the line that is edited, in the shutdown too | the same |
| `ConsoleEscapes.cfg` (refuted) | does an escaped space at the end of a line reach the command | the same |

One character is enough for the cursor to be before and behind it; longer lines
come from pastes, completion and the history. `Rare` keys (F5, Ctrl-L, Delete)
and late bytes are tried with an empty history (`MaxLate` = 0), and so are lines
printed without a sink, from the columns the edited line has (`1 + MaxLen`): what
they do does not depend on it. `ScreenShows` and `PasswordWiped` claim nothing once
the sink is gone, `LogsKeptOff` claims what the queue is for and fails.
`run()` trims the line before it is cut into words, so `CommandMeant` leaves out
lines that end in an escaped space, the only ones it takes anything from; they are
what `EscapesMeant` fails on. Two lines of history are what a walk up, up, down, down needs.
Deadlock is not checked: the console ends.

### ConsoleInputProofs

For command trees, keys, lines, texts and histories of any size:

| Theorem | Property | Inductive part |
| --- | --- | --- |
| `EditorTyped` | `TypeOK` | `Typed`: texts and histories are sequences over one set of letters, the command is of the tree |
| `ScreenTrue` | `ScreenShows` | `Drawn`, while the log has its sink: what is on the screen at each place, cleared under the line or not |
| `NoStarLeft` | `PasswordWiped` | `Drawn`: the cursor of a password is behind its last star |
| `KeysInOrder` | `KeysWhole` | `KeysOK`: nothing under way (`Silent`), a key partly read whose rest is first on the wire (`Coming`), or a key read (`Came`) |
| `CommandsMeant` | `CommandMeant` | `JobMeant`: the menu with the tokens of the line is the node with the arguments |
| `DraftAlwaysBack` | `DraftComesBack` | `DraftOK`: what was typed is what is edited outside the history, and what is kept aside in it |
| `LeavesTerminal` | `LeftAsFound` | `TerminalOK`: who has the terminal, where the spinner's thread is |

They assume what the run's constants are checked for:

- `InputAssumption`, `TreeAssumption`: commands have prompts of two kinds; menus
  and commands form a tree, as `addMenu` and `addCommand` build it.
- `KeyAssumption`: the bytes of a key are one byte, a character of UTF-8 with its
  lead byte, ESC O and a byte, or ESC [ and one byte, two if the first is a digit.
  These are the keys that terminals send and `readKey` knows. Keys that send
  anything else (F5) are `Untidy`; the theorem says nothing of them until their
  bytes are gone, as `KeysWhole` does.
- `LineAssumption`: a line is written in one of the three styles, has no empty
  word, which the tokenizer drops, and no word with a quote in single quotes, which
  cannot be written.

`ScreenTrue` rests on the algebra of `Terminal`: `redrawLine` draws anything
(`RedrawShows`), a text's tail rewritten behind an insertion or a removal is the
text (`InsertShows`, `RemoveShows`), a star more or less is a star more or less
(`StarShows`, `StarGoes`). `^L` makes it delicate: on a screen cleared under a
password any number of stars up to its length may be left, and `NoStarLeft` has to
wipe all of them.

`CommandsMeant` is about two inverses. `Leads(s, x, t)` says the scanner comes from
s to t by the characters x; pieces behind each other lead from place to place
(`FlatLeads`), so a character escaped, a word in each of the styles
(`QuotedLeads`), and the words of a line (`SheetRead`: `tokenize(Sheet[l]) =
l.words`) are one induction each. `DispatchMeant` adds that `dispatch` cuts the
tokens in two and loses none, and `SheetBegins` and `TrimmedSame` that trimming takes
nothing off a line whose last character is no space: what is quoted never begins with
one (`QuotedBegins`).

Lines have any length, so these need induction over it. `Counting` is induction
over a set of numbers, from the well-foundedness of < (`Least`); with it the
scanner's recursive function (`ScannedSteps`) and the community modules'
`FlattenSeq` (`FlatSteps`, `FlatConcat`) can be reasoned about step by step.

### TemplateData, TemplateExpr, TemplateEval, Template

`TemplateData` has what the others share: expression trees, values, the case of
names. `TemplateExpr` parses expressions by the code's descent through the
precedences, `TemplateEval` evaluates them with the values and filters of the
renderer. `Template` is the engine as actions: `tokenize()` cuts one chunk a
step, the block parser takes one chunk a step, with the code's ways to go on
after an end tag that is missing, stray or crossed, and the renderer one node or
one round of a loop a step. Parser and renderer call themselves in the code; here
the calls in progress are two stacks, `blocks` (the bodies that are open) and
`frames` (what is left of each node list, and what a loop has hidden).
`Template` takes the expression parser, the evaluator, and how values become text
as constants, which the run gives from `TemplateExpr` and `TemplateEval`.

`Write` writes nodes down with as few parentheses and tags as the syntax asks
for; that is what parsing is held against (`ParsedAsWritten`). `SpelledOut`
lays nodes out flat, tags and bodies; that is what `TextKept` compares the chunks
with.

| Run | Question | Bounds |
| --- | --- | --- |
| `template` | is what is written parsed as meant, is no text lost whatever the tags, do loops leave the context as it was, do names survive the filters the generator puts them through | expressions two operators deep; blocks two deep; any three pieces of fourteen, any four of those that open and close blocks; three contexts |

Two operators are a pair of precedences, and every pair is tried on both sides;
two blocks are what it takes to cross, shadow or nest. Deadlock is not an issue:
a template that is made is rendered again and again.

### TemplateProofs

For any sources, nodes of any size and nesting, and any contexts:

| Theorem | Property | Inductive part |
| --- | --- | --- |
| `NoTraceLeft` | `LoopsLeaveNoTrace` | `FrameInv`: what a name gets back when the loops in progress end, from the outermost loop that hides it, is what the render was given |
| `NamesSurvive` | `NamesComeBack` | `NameInv`: how far the render of the one node is |
| `NoTextLost` | `TextKept` | `TextInv`: the open blocks are nodes under way, and the text parsed so far is that of the chunks so far |

`NamesSurvive` uses `NameAssumption`: the name is in Pascal case, and the
expression applies its two filters from the inside, which is what `evalExpr` does
(TLC evaluates it for the run's contexts). `NoTextLost` uses `SourceAssumption`:
sources are sequences of strings. `NoTraceLeft` assumes nothing.

`NoTextLost` is the long one. The text of the nodes is taken after they are spelled
out as deep as there are chunks, so the proof must know what a node becomes when
it is spelled out again and again (`Deep`, `Becomes`): a block of tags and bodies
whose texts are those of its bodies, in order. `Kept` gives each open block the
text that comes before it; text stands in the order block, what was parsed of it,
next block inside, and every step of the parser moves its chunk's text to the
end of that. Texts grow by concatenation only (`FlatMap`), so the cases of a block
that opens, turns to its `else`, ends, or is cut short by the end of the source,
come down to regrouping sequences.

Names, lists and nesting have no bound, so these too need induction over numbers
(`Least`, `Counting`), and are why parser and renderer are stacks and not
RECURSIVE operators. What stays out of the proofs is what `TemplateExpr`'s
descent computes, which only TLC checks (`ParsedAsWritten`).

## What the checks found

| Where | What | Run or configuration |
| --- | --- | --- |
| `findFreeSlot`, `allocateBlock` | a second passphrase's first file overwrites the first's | `vfs_layers` |
| `createProfile` | under a passphrase in use the new profile has the old one's records | `CoreFreshProfile.cfg` |
| `storePersona` | refuses every persona: the profile is looked for under a key it does not have | `entity_persona` |
| generated validation | fields that factories leave empty are required | `EntityFactory.cfg` |
| `addGroupMember` | finds neither group nor contact: their keys have the persona in them | `EntityMembership.cfg` |
| `storeMessage` | the same, and a recipient has to be a contact and a group | `EntityMessage.cfg` |
| `stopUI`, `readLine`, `Core::exit` | SIGINT, end of input, an early exit do not end the program | `app_asked_to_end` |
| `deactivateInterface` | the proxy of a name goes while another object of the name uses it | `PluginProxy.cfg` |
| `activateInterface` | the second object of a name calls with the first one's permissions | `PluginCalls.cfg` |
| `askNumber` | Ctrl-C at the size of a new container creates it | `FrontCtrlC.cfg` |
| `MainScreen.qml` | the central persona keeps the groups of the persona before | `FrontCentral.cfg` |
| `runShutdown`, `Log::output` | what the shutdown logs is printed over the line being typed | `ConsoleLogs.cfg` |
| `ConsoleUI::run` | a space escaped at the end of the line is trimmed away | `ConsoleEscapes.cfg` |

Three of these are runs that expect their violation: another passphrase's file is
lost, no persona can be stored, the program does not end. The other configurations (`CoreFreshProfile.cfg` and so on)
are kept beside the runs and are not among them: each is its module's passing
configuration with one claim of a header, a comment or a test in place of the
properties, and TLC answers each with a counterexample in seconds. The passing
run of the module, and the proofs, state what is left where the claim fails.

| Configuration | Claim | Said by | What is left |
| --- | --- | --- | --- |
| `CoreFreshProfile.cfg` | `NewProfileFresh` | CoreInterface.h:96 "Create a brand-new profile", :98 "Derives a fresh encryption layer" | `InheritsOwnOnly` |
| `EntityFactory.cfg` | `FactoryResultStored` | CoreInterface.h:284 "uid and personaUid must be set"; console_integration_tests.cpp:175 | - |
| `EntityMembership.cfg` | `MembershipStored` | CoreInterface.h:347 "Add a contact to a group (auto-persisted relationship)" | - |
| `EntityMessage.cfg` | `MessageStored` | CoreInterface.h:405 "uid, personaUid, createdAt must be set"; console_integration_tests.cpp:201 | - |
| `PluginProxy.cfg` | `CoreReachable` | plugins.cpp:157, the proxy goes "once all interfaces are deactivated" | `ProxyKept` |
| `PluginCalls.cfg` | `CallsOwnDeclared` | plugins.h:35 "per-plugin CoreAccessProxy" whose mask matches what the plugin declares | `CallsDeclared` |
| `FrontCtrlC.cfg` | `CtrlCCancels` | Prompt.h:38 "cancellation (Ctrl-C) is indicated by a null/empty return or -1" | `RefusedChangesNothing` |
| `FrontCentral.cfg` | `CentralPersonaFresh` | MainScreen.qml:178 "Central persona (the active persona)" | `ViewsFresh` |
| `ConsoleLogs.cfg` | `LogsKeptOff` | ConsoleUI.cpp:1435 "flushed so raw terminal is not broken" | `ScreenShows` |
| `ConsoleEscapes.cfg` | `EscapesMeant` | CommandRouter.h:108 "respecting quoted strings and backslash escapes" | `CommandMeant` |

Read in the code while it was modelled, kept as the code has it in the models, and
not the subject of a configuration:

- `flushProfile` brings what was stored into the RAM of the virtual file; nothing
  reaches the disk before `closeProfile` (README.md:64 says store operations
  persist). `ProfileVault` allows for the loss.
- `deletePersona` lets the active, the default and the last persona go
  (CoreInterface.h:202, profile.proto:31); the console's command does not.
- An exception unwinds the application object before the plugins, which
  main.cpp:59 denies; the handler's own fatal log line then aborts the process if
  the log has no sink (log.cpp:169).
- `deleteGroup` and `removeGroupMember` do not ask whose group it is (core.cpp:923,
  956); `RemovalsScoped` says what is left to say.
- A `for` tag that ends with "in" has no " in " once it is trimmed, and opens no loop
  (Template.cpp:596).
- `openProfile` takes a file a crash left unreadable for an empty database and
  writes that back (core.cpp:243).
- Opening an existing virtual file with Truncate writes nothing back unless
  something is written to it (EncryptedVFSContainer.cpp:144).
- The documented superset, Write includes Read, does not hold for the flags of
  profiles (PluginPermissions.h:129).
- `GuiBackend::createPersona`, `updatePersona`, `deletePersona` and a failing
  `openProfile` emit no `stateChanged` (GuiBackend.h:244); the QML that is there
  does not need it.
- What `startUI()` answers is ignored (main.cpp:192).
- `exportProfile` writes plain JSON lines, `importProfile` reads base64.
- An empty quoted argument is dropped (CommandRouter.cpp:117), words after the
  name of a menu are ignored (CommandRouter.cpp:180).
- F5 and other long sequences leave their tail to the next key; Ctrl-L clears the
  screen and is dropped without a redraw; at the end of input `readKey` answers
  Unknown for ever.
- No caller of the template engine asks for its error.

## Proved, model-checked, not modelled

Proved for every value of the constants: the theorems above. They state all
properties of the passing runs but two.

Only model-checked:

- `AppLifecycle`'s `ExitHeardEnds`: liveness under fairness is beyond the prover.
- `Template`'s `ParsedAsWritten`: it compares the parse with a second definition of
  how trees are written, and the descent of `TemplateExpr` is recursive over its
  input, of which the prover knows nothing.

The runs that expect a violation need no proof.

Not modelled:

- writes that fail without the code noticing (the results of `QFile::write` and
  `resize` are ignored); key derivation and secure wiping;
- Settings: one value per name, and a change signal connected to nothing;
- dbkv-json: activated, but Core opens no database with it; comm-tox: a stub;
- RocksDB itself, and its mode with a path, which Core does not use;
- the formats of export and import; the text the generator makes (what it makes,
  keys, validation and access tables, is in `EntityStore` and `CoreAccess`);
- in the console: lines wider than the terminal, the arrows of `askSelect`, an end
  of input at a prompt (`AppLifecycle` has it at the line), the wording of output;
- in the GUI: layout, the chat bubbles, QML that is not wired;
- in templates: "/" and decimal numbers, line numbers of chunks, an empty text to
  replace.

PROJECT.json lists the hazards; two have no property, for the first and the
fifth of these reasons.

## What is left

1. Writes that fail and go on in `VFSContainer`: `writeBlobToDisk` and
   `encryptSlot` with a short write; expected to refute `SavedReadable`.
2. `CoreProfile` over an instance of `FileStore` in place of its own account of a
   virtual file.
3. `EntityStore`'s operations as edits of the vault.
4. `askSelect` and lines that wrap in `ConsoleInput`.
5. `DbkvJson`: one file per key, with crashes, against a map; worth it once Core
   opens a database with it.
