------------------------------ MODULE SyncJob ------------------------------
(***************************************************************************)
(* What synchronization promises, without threads, requests, batches, a    *)
(* message queue or files: one job at a time copies rows into the          *)
(* catalogue; its success puts the whole catalogue on the screen; a        *)
(* timestamp is written only over a catalogue that holds all that the API  *)
(* told the job to store.  The process may stop at any moment and only the *)
(* catalogue and the timestamp outlive it.  Sync implements this           *)
(* specification.                                                          *)
(***************************************************************************)
EXTENDS Catalog

VARIABLES
  on,         \* the process runs
  outcome,    \* of the job: "" (none yet), "running", "success", "failure"
  catalogue,  \* what is stored
  shown,      \* the categories the user sees
  promise     \* what the timestamp vouches for, NoPromise without one

jobVars == <<on, outcome, catalogue, shown, promise>>

NoPromise == [cats |-> {}, links |-> {}, since |-> 0]

\* Everything in p is stored, with content no older than edition p.since.
Kept(p, store) ==
  /\ \A c \in p.cats : store.cats[c] >= p.since
  /\ \A l \in p.links : l \in store.links /\ store.cwes[l[1]] >= p.since

\* No row is lost, none gets older content, and links join stored rows.
Grows(old, new) ==
  /\ \A c \in Cat : new.cats[c] >= old.cats[c]
  /\ \A w \in Cwe : new.cwes[w] >= old.cwes[w]
  /\ old.links \subseteq new.links
  /\ ReferencesStored(new)

Init ==
  /\ on = FALSE
  /\ outcome = ""
  /\ catalogue = EmptyCatalog
  /\ shown = {}
  /\ promise = NoPromise

\* The program starts, with a background sync or without one.
Start ==
  /\ ~on /\ on'
  /\ outcome' \in {"", "running"}
  /\ shown' = StoredCats(catalogue)
  /\ UNCHANGED <<catalogue, promise>>

\* A job begins; none is running.
Begin ==
  /\ on /\ outcome # "running"
  /\ outcome' = "running"
  /\ UNCHANGED <<on, catalogue, shown, promise>>

\* The running job stores rows.
Store ==
  /\ on /\ outcome = "running"
  /\ Grows(catalogue, catalogue')
  /\ UNCHANGED <<on, outcome, shown, promise>>

\* The running job withdraws the timestamp or writes a new one.
Vouch ==
  /\ on /\ outcome = "running"
  /\ Kept(promise', catalogue)
  /\ UNCHANGED <<on, outcome, catalogue, shown>>

\* The user learns how the job ended, once; success shows what is stored.
Report ==
  /\ on /\ outcome = "running"
  /\ \/ outcome' = "success" /\ shown' = StoredCats(catalogue)
     \/ outcome' = "failure" /\ shown' = shown
  /\ UNCHANGED <<on, catalogue, promise>>

\* The program ends or dies.
Stop ==
  /\ on /\ ~on'
  /\ outcome' = ""
  /\ shown' = {}
  /\ UNCHANGED <<catalogue, promise>>

Next == Start \/ Begin \/ Store \/ Vouch \/ Report \/ Stop

Spec == Init /\ [][Next]_jobVars
=============================================================================
