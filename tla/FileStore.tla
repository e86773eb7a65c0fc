------------------------------ MODULE FileStore ------------------------------
(***************************************************************************)
(* What a container promises to who keeps files in it under one            *)
(* passphrase: files by name, created empty, saved one at a time, renamed  *)
(* and deleted.  Whatever is done to a file, and whenever the process      *)
(* dies, every other file reads as it was last saved; the one being saved  *)
(* reads as before, as saved, or as torn, until it is saved again.         *)
(***************************************************************************)
CONSTANTS
  Names,
  Contents,
  Fresh,   \* the content of a new file
  Torn,    \* what is found of a file that can not be read
  None     \* no file of that name; nothing being saved

VARIABLES
  store,   \* what a reopen now would find under each name
  saving   \* the file being saved and its new content, or None

fileVars == <<store, saving>>

Init == store = [n \in Names |-> None] /\ saving = None

\* No other file changes.
Only(ns) ==
  /\ \A m \in Names \ ns : store'[m] = store[m]
  /\ store' \in [Names -> Contents \cup {Torn, None}]

Create(n) ==
  /\ saving = None /\ saving' = None
  /\ store[n] = None /\ store'[n] = Fresh
  /\ Only({n})

Delete(n) ==
  /\ saving = None /\ saving' = None
  /\ store[n] # None /\ store'[n] = None
  /\ Only({n})

Rename(new) ==
  /\ saving = None /\ saving' = None
  /\ store[new] = None /\ store'[new] # None
  /\ \E old \in Names : store'[new] = store[old] /\ store'[old] = None /\ Only({old, new})

Begin(n, c) ==
  /\ saving = None /\ saving' = [name |-> n, content |-> c]
  /\ store[n] # None /\ UNCHANGED store

\* The file being saved is on its way; only the end of saving makes it whole.
Disturbs(n) == store'[n] \in {store[n], Torn, saving.content} /\ Only({n})

Disturb == saving # None /\ saving' = saving /\ Disturbs(saving.name)

Finish ==
  /\ saving # None /\ saving' = None
  /\ store'[saving.name] = saving.content /\ Only({saving.name})

Crash == saving # None /\ saving' = None /\ Disturbs(saving.name)

Next ==
  \/ \E n \in {m \in Names : store'[m] # store[m]} : Create(n) \/ Delete(n) \/ Rename(n)
  \/ \E n \in Names, c \in Contents : Begin(n, c)
  \/ Disturb \/ Finish \/ Crash

Spec == Init /\ [][Next]_fileVars
=============================================================================
