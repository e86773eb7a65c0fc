---------------------------- MODULE ProfileVault ----------------------------
(***************************************************************************)
(* What Core promises about profiles, whatever the plugins below it do:    *)
(* each container holds at most one profile, one at a time is open, only   *)
(* the open one changes and only by an edit or its deletion, opening and   *)
(* closing change nothing, and a crash costs at most what was edited since *)
(* the profile was opened, or the profile that was being written back.     *)
(***************************************************************************)
CONSTANTS
  Paths,     \* container files
  Keys,      \* passphrases
  Ids,       \* profile ids
  Contents,  \* contents of a profile; c.prof names it
  None

VARIABLES
  vault,    \* per container: the profile and its passphrase, as the user sees it
  durable,  \* per container: what a crash now would leave of it
  session,  \* the container whose profile is open
  born      \* the ids given out so far

vaultVars == <<vault, durable, session, born>>

Vaults == [Paths -> {None} \cup [key : Keys, db : Contents]]

Init ==
  /\ vault = [p \in Paths |-> None] /\ durable = vault
  /\ session = None /\ born = {}

\* Closing what is open saves it.
Close ==
  /\ session' = None /\ durable' = vault
  /\ UNCHANGED <<vault, born>>

\* Opening closes what was open.
Open(p) ==
  /\ vault[p] # None
  /\ session' = p /\ durable' = vault
  /\ UNCHANGED <<vault, born>>

\* A creation under a passphrase takes the place of what another one holds.
Kept(p, k) == IF vault[p] # None /\ vault[p].key = k THEN vault[p] ELSE None

Create(p, k) ==
  /\ \E c \in Contents :
       /\ c.prof \in Ids \ born
       /\ born' = born \cup {c.prof}
       /\ vault' = [vault EXCEPT ![p] = [key |-> k, db |-> c]]
  /\ durable' = [vault EXCEPT ![p] = Kept(p, k)]
  /\ session' = p

CreateFails(p, k) ==
  /\ vault' = [vault EXCEPT ![p] = Kept(p, k)] /\ durable' = vault'
  /\ session' = None /\ UNCHANGED born

\* Only the content changes, never the profile it belongs to.
Edit ==
  /\ session # None /\ vault[session] # None
  /\ \E c \in Contents :
       /\ c.prof = vault[session].db.prof
       /\ vault' = [vault EXCEPT ![session] = [key |-> vault[session].key, db |-> c]]
  /\ UNCHANGED <<durable, session, born>>

Delete ==
  /\ session # None
  /\ vault' = [vault EXCEPT ![session] = None] /\ durable' = vault'
  /\ session' = None /\ UNCHANGED born

Crash ==
  /\ \/ durable' = durable
     \/ session # None /\ \E f \in {vault[session], None} :
          durable' = [durable EXCEPT ![session] = f]
  /\ vault' = durable' /\ session' = None /\ UNCHANGED born

Next ==
  \/ Close \/ Edit \/ Delete \/ Crash
  \/ \E p \in Paths : Open(p)
  \/ \E p \in Paths, k \in Keys : Create(p, k) \/ CreateFails(p, k)

Spec == Init /\ [][Next]_vaultVars
=============================================================================
