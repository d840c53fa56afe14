-------------------------------- MODULE Sync --------------------------------
(***************************************************************************)
(* The synchronization of the local catalogue with the CWE REST API:       *)
(*   - the detached worker thread, class Sync (src/api/Sync.cpp) over      *)
(*     CweClient (src/api/CweClient.cpp), which writes the catalogue and   *)
(*     the timestamp file while the UI runs;                               *)
(*   - the UI thread of class App (src/app/App.cpp): start-up, start_sync, *)
(*     the callbacks the worker posts to the screen, quitting;             *)
(*   - crashes and restarts of the process between any two steps.          *)
(*                                                                         *)
(* The catalogue and the timestamp file survive the process, everything    *)
(* else is lost with it.                                                   *)
(***************************************************************************)
EXTENDS Catalog, Sequences, FiniteSets

CONSTANTS
  Worker,           \* slots for worker threads; more than one, so that two
                    \* syncs at once are not excluded by the model
  MaxEdition,       \* number of upstream editions (bounds Publish)
  Members,          \* Members[e]: the categories of the view in edition e
  Rel,              \* Rel[e][c]: the weaknesses of category c in edition e
  BatchSize,        \* BATCH_SIZE, 20 in the code
  AutoSyncEnabled,  \* config_.auto_sync_enabled
  EarlyPostsKept    \* external: does ScreenInteractive::Post keep a task
                    \* posted before Loop() runs?  FTXUI 6.1.9 drops it.

Edition == 1 .. MaxEdition

ASSUME SyncAssumption ==
  /\ IsFiniteSet(Cat) /\ IsFiniteSet(Cwe)
  /\ MaxEdition \in Nat \ {0}
  /\ Members \in [Edition -> SUBSET Cat]
  /\ Rel \in [Edition -> [Cat -> SUBSET Cwe]]
  /\ BatchSize \in Nat \ {0}
  /\ AutoSyncEnabled \in BOOLEAN
  /\ EarlyPostsKept \in BOOLEAN
  /\ "none" \notin Cat
  /\ "none" \notin Cwe

VARIABLES
  edition,      \* external: the edition the API serves
  db,           \* cwe.db, see Catalog
  stamp,        \* sync_state.txt: "none" (missing, empty), "fresh" or "stale"
  phase,        \* the process: "off", "ready" (App built, Loop not entered),
                \* "loop", "teardown" (Loop returned, objects destroyed)
  sync_running, \* App::sync_running_
  posts,        \* tasks posted to the screen and not yet run, oldest first
  status,       \* AppState::status_message, as far as sync sets it
  loaded,       \* AppState::categories
  db_empty,     \* AppState::db_empty
  job,          \* job[w]: the locals of Sync::run on worker thread w
  owed,         \* history: what the API told worker w to store
  stamped       \* history: owed[w] of the worker that last wrote the stamp

vars == <<edition, db, stamp, phase, sync_running, posts, status, loaded,
          db_empty, job, owed, stamped>>

\* The UI thread's share of the state.
uiVars == <<phase, sync_running, status, loaded, db_empty>>

Pc == {"idle", "view", "next", "category", "batch", "row", "link",
       "stamp", "text", "ok", "error"}

\* todo: the members still to visit; cat: the one being synced; ids: its
\* weaknesses still to ask for; batch: those of the last answer still to
\* link; cwe: the one being stored; from: the edition of that answer.
Job == {j \in [pc : Pc, todo : SUBSET Cat, cat : Cat \cup {"none"},
               ids : SUBSET Cwe, batch : SUBSET Cwe, cwe : Cwe \cup {"none"},
               from : Nat] :
          /\ j.pc \in {"category", "batch", "row", "link"} => j.cat \in Cat
          /\ j.pc = "link" => j.cwe \in Cwe}

NoJob == [pc |-> "idle", todo |-> {}, cat |-> "none", ids |-> {},
          batch |-> {}, cwe |-> "none", from |-> 0]

\* since: the edition served when the sync started.
Debt == [cats : SUBSET Cat, links : SUBSET (Cwe \X Cat), since : Nat]
NoDebt == [cats |-> {}, links |-> {}, since |-> 0]

Message == {"progress", "success", "failure"}

Active(w) == job[w].pc # "idle"

-----------------------------------------------------------------------------
(* The UI thread.                                                          *)

\* Mutant of LoadData: the categories are read once.
LoadDataOnce(cats) ==
  /\ db_empty' = ~HasData(db)
  /\ loaded' = IF HasData(db) /\ cats = {} THEN StoredCats(db) ELSE cats

\* App::load_data(), given what AppState held before.
LoadData(cats) ==
  /\ db_empty' = ~HasData(db)
  /\ loaded' = IF HasData(db) THEN StoredCats(db) ELSE cats

\* App::start_sync() past its guard: a thread is created and detached.
SpawnWorker ==
  \E w \in Worker :
    /\ ~Active(w)
    /\ job' = [job EXCEPT ![w] = [NoJob EXCEPT !.pc = "view"]]
    /\ owed' = [owed EXCEPT ![w] = [NoDebt EXCEPT !.since = edition]]

\* Sync::sync_needed(): no readable timestamp, or one that is too old.
SyncNeeded == stamp # "fresh"

\* App::App() and App::run() up to the call of screen.Loop().  The posts of
\* the new worker come in later steps.
Launch ==
  /\ phase = "off"
  /\ phase' = "ready"
  /\ LoadData({})
  /\ IF HasData(db) /\ AutoSyncEnabled /\ SyncNeeded
       THEN /\ sync_running' = TRUE
            /\ status' = "syncing"
            /\ SpawnWorker
       ELSE /\ sync_running' = FALSE
            /\ status' = ""
            /\ UNCHANGED <<job, owed>>
  /\ UNCHANGED <<edition, db, stamp, posts, stamped>>

\* screen.Loop(root) installs the screen: from here on it runs posted tasks.
EnterLoop ==
  /\ phase = "ready"
  /\ phase' = "loop"
  /\ UNCHANGED <<edition, db, stamp, sync_running, posts, status, loaded,
                 db_empty, job, owed, stamped>>

\* Mutant of SyncCommand: no guard.
SyncCommandUnguarded ==
  /\ phase = "loop"
  /\ sync_running' = TRUE
  /\ status' = "syncing"
  /\ SpawnWorker
  /\ UNCHANGED <<edition, db, stamp, phase, posts, loaded, db_empty,
                 stamped>>

\* The user's :sync: start_sync() from the event loop.
SyncCommand ==
  /\ phase = "loop"
  /\ IF sync_running
       THEN /\ status' = "busy"
            /\ UNCHANGED <<sync_running, job, owed>>
       ELSE /\ sync_running' = TRUE
            /\ status' = "syncing"
            /\ SpawnWorker
  /\ UNCHANGED <<edition, db, stamp, phase, posts, loaded, db_empty,
                 stamped>>

\* Mutant of RunPost: every callback ends the sync.
RunPostEndsSync ==
  /\ phase = "loop"
  /\ posts # << >>
  /\ posts' = Tail(posts)
  /\ status' = Head(posts)
  /\ IF Head(posts) = "success" THEN LoadData(loaded)
                                ELSE UNCHANGED <<loaded, db_empty>>
  /\ sync_running' = FALSE
  /\ UNCHANGED <<edition, db, stamp, phase, job, owed, stamped>>

\* The loop runs the oldest posted task: a progress or a completion callback
\* of start_sync().
RunPost ==
  /\ phase = "loop"
  /\ posts # << >>
  /\ posts' = Tail(posts)
  /\ status' = Head(posts)
  /\ IF Head(posts) = "success" THEN LoadData(loaded)
                                ELSE UNCHANGED <<loaded, db_empty>>
  /\ sync_running' = (sync_running /\ Head(posts) = "progress")
  /\ UNCHANGED <<edition, db, stamp, phase, job, owed, stamped>>

\* Mutant of Quit: quitting forgets the sync that is running.
QuitForgetsSync ==
  /\ phase = "loop"
  /\ phase' = "teardown"
  /\ posts' = << >>
  /\ sync_running' = FALSE
  /\ UNCHANGED <<edition, db, stamp, status, loaded, db_empty, job, owed,
                 stamped>>

\* screen.Exit(): Loop returns and its pending tasks are dropped; then the
\* screen and the App are destroyed.  Nobody joins the detached worker.
Quit ==
  /\ phase = "loop"
  /\ phase' = "teardown"
  /\ posts' = << >>
  /\ UNCHANGED <<edition, db, stamp, sync_running, status, loaded, db_empty,
                 job, owed, stamped>>

\* The process is gone, with its threads and its memory.
ProcessEnds ==
  /\ phase' = "off"
  /\ sync_running' = FALSE
  /\ posts' = << >>
  /\ status' = ""
  /\ loaded' = {}
  /\ db_empty' = TRUE
  /\ job' = [w \in Worker |-> NoJob]
  /\ owed' = [w \in Worker |-> NoDebt]
  /\ UNCHANGED <<edition, db, stamp, stamped>>

\* main() returns.
Exit == phase = "teardown" /\ ProcessEnds

\* The process dies at any point: a signal, a power cut, an exception that
\* leaves the event loop, or one of Sync's constructor, which runs on the
\* worker thread outside any try block.
Crash == phase \in {"ready", "loop"} /\ ProcessEnds

-----------------------------------------------------------------------------
(* The worker thread: Sync::run().                                         *)

\* In "teardown" a step of the worker races with the destructors of what it
\* refers to.  Its outcomes are: it gets through, the process dies (Exit), or
\* it never ends.
Step(w, from, to) ==
  /\ phase # "off"
  /\ job[w].pc = from
  /\ job' = [job EXCEPT ![w] = to]
  /\ UNCHANGED <<edition, stamped>>
  /\ UNCHANGED uiVars

\* screen.Post(task).
Post(msg) ==
  posts' = IF phase = "loop" \/ (phase = "ready" /\ EarlyPostsKept)
             THEN Append(posts, msg) ELSE posts

\* The first progress callback, then GET /cwe/view/{id}.
FetchView(w) ==
  /\ Step(w, "view", [job[w] EXCEPT !.pc = "next", !.todo = Members[edition]])
  /\ owed' = [owed EXCEPT ![w].cats = Members[edition]]
  /\ Post("progress")
  /\ UNCHANGED <<db, stamp>>

\* Mutant of NextCategory: the category is not remembered.
NextCategoryForgotten(w) ==
  \/ \E c \in job[w].todo :
       /\ Step(w, "next", [job[w] EXCEPT !.pc = "category", !.todo = @ \ {c}])
       /\ Post("progress")
       /\ UNCHANGED <<db, stamp, owed>>
  \/ /\ job[w].todo = {}
     /\ Step(w, "next", [job[w] EXCEPT !.pc = "stamp"])
     /\ UNCHANGED <<db, stamp, posts, owed>>

\* Head of the category loop: the next member with its progress callback, or
\* the end of the loop.
NextCategory(w) ==
  \/ \E c \in job[w].todo :
       /\ Step(w, "next", [job[w] EXCEPT !.pc = "category", !.cat = c,
                                         !.todo = @ \ {c}])
       /\ Post("progress")
       /\ UNCHANGED <<db, stamp, owed>>
  \/ /\ job[w].todo = {}
     /\ Step(w, "next", [job[w] EXCEPT !.pc = "stamp"])
     /\ UNCHANGED <<db, stamp, posts, owed>>

\* GET /cwe/category/{id} answers without data: warn and continue.
CategoryWithoutData(w) ==
  /\ Step(w, "category", [job[w] EXCEPT !.pc = "next"])
  /\ owed' = [owed EXCEPT ![w].cats = @ \ {job[w].cat}]
  /\ UNCHANGED <<db, stamp, posts>>

\* GET /cwe/category/{id} answers: store the category, collect the ids.
FetchCategory(w) ==
  LET c == job[w].cat
      ids == Rel[edition][c]
  IN /\ Step(w, "category",
             [job[w] EXCEPT !.pc = IF ids = {} THEN "next" ELSE "batch",
                            !.ids = ids])
     /\ db' = UpsertCategory(db, c, edition)
     /\ owed' = [owed EXCEPT ![w].links = @ \cup (ids \X {c})]
     /\ UNCHANGED <<stamp, posts>>

\* Where the loops go when the current batch is finished.
AfterBatch(ids) == IF ids = {} THEN "next" ELSE "batch"

SmallerOf(m, n) == IF m <= n THEN m ELSE n

\* Mutant of FetchWeaknesses: what the API left out is asked for again.
FetchWeaknessesAgain(w) ==
  \E asked \in SUBSET job[w].ids : \E got \in SUBSET asked :
    LET rest == job[w].ids \ got
    IN /\ Cardinality(asked) = SmallerOf(BatchSize, Cardinality(job[w].ids))
       /\ Step(w, "batch",
               [job[w] EXCEPT !.pc = IF got = {} THEN AfterBatch(rest)
                                                 ELSE "row",
                              !.ids = rest, !.batch = got, !.from = edition])
       /\ UNCHANGED <<db, stamp, posts, owed>>

\* GET /cwe/weakness/{ids} for the next BatchSize ids.  The API may leave out
\* some of them, or all (no "Weaknesses" in the answer).
FetchWeaknesses(w) ==
  \E asked \in SUBSET job[w].ids : \E got \in SUBSET asked :
    LET c == job[w].cat
        rest == job[w].ids \ asked
    IN /\ Cardinality(asked) = SmallerOf(BatchSize, Cardinality(job[w].ids))
       /\ Step(w, "batch",
               [job[w] EXCEPT !.pc = IF got = {} THEN AfterBatch(rest)
                                                 ELSE "row",
                              !.ids = rest, !.batch = got, !.from = edition])
       /\ owed' = [owed EXCEPT ![w].links = @ \ ((asked \ got) \X {c})]
       /\ UNCHANGED <<db, stamp, posts>>

\* Mutant of StoreWeakness: the link comes first.
StoreWeaknessLater(w) ==
  \E x \in job[w].batch :
    /\ Step(w, "row", [job[w] EXCEPT !.pc = "link", !.cwe = x])
    /\ UNCHANGED <<db, stamp, posts, owed>>

\* repo_.upsert_cwe(cwe) for the next weakness of the answer.
StoreWeakness(w) ==
  \E x \in job[w].batch :
    /\ Step(w, "row", [job[w] EXCEPT !.pc = "link", !.cwe = x])
    /\ db' = UpsertCwe(db, x, job[w].from)
    /\ UNCHANGED <<stamp, posts, owed>>

\* repo_.link_cwe_category(cwe.id, category.id); an insert that the foreign
\* keys refuse is a Fail.
LinkWeakness(w) ==
  LET x == job[w].cwe
      rest == job[w].batch \ {x}
  IN /\ Step(w, "link",
             [job[w] EXCEPT !.pc = IF rest # {} THEN "row"
                                                ELSE AfterBatch(job[w].ids),
                            !.batch = rest])
     /\ LinkAllowed(db, x, job[w].cat)
     /\ db' = LinkCweCategory(db, x, job[w].cat)
     /\ UNCHANGED <<stamp, posts, owed>>

\* write_sync_timestamp(): opening the file truncates it.  A file that cannot
\* be opened raises no exception.
OpenStamp(w) ==
  \/ /\ Step(w, "stamp", [job[w] EXCEPT !.pc = "text"])
     /\ stamp' = "none"
     /\ UNCHANGED <<db, posts, owed>>
  \/ /\ Step(w, "stamp", [job[w] EXCEPT !.pc = "ok"])
     /\ UNCHANGED <<db, stamp, posts, owed>>

\* The text reaches the file when the stream is closed, unless the write
\* fails, which raises no exception either.
WriteStamp(w) ==
  /\ phase # "off"
  /\ job[w].pc = "text"
  /\ job' = [job EXCEPT ![w].pc = "ok"]
  /\ \/ stamp' = "fresh" /\ stamped' = owed[w]
     \/ UNCHANGED <<stamp, stamped>>
  /\ UNCHANGED <<edition, db, posts, owed>>
  /\ UNCHANGED uiVars

\* Mutant of Complete: a failed sync is not reported.
CompleteQuietly(w) ==
  /\ \/ Step(w, "ok", NoJob) /\ Post("success")
     \/ Step(w, "error", NoJob) /\ UNCHANGED posts
  /\ owed' = [owed EXCEPT ![w] = NoDebt]
  /\ UNCHANGED <<db, stamp>>

\* on_complete(true, ...) or on_complete(false, ...); the thread returns.
Complete(w) ==
  /\ \/ Step(w, "ok", NoJob) /\ Post("success")
     \/ Step(w, "error", NoJob) /\ Post("failure")
  /\ owed' = [owed EXCEPT ![w] = NoDebt]
  /\ UNCHANGED <<db, stamp>>

\* Mutant of Fail: an exception skips the category and the sync goes on.
FailOneCategory(w) ==
  /\ \E pc \in {"category", "batch", "row", "link"} :
       Step(w, pc, [job[w] EXCEPT !.pc = "next"])
  /\ UNCHANGED <<db, stamp, posts, owed>>

\* An exception inside Sync::run's try block: an HTTP status, a time-out, an
\* answer that does not parse, a statement that fails.
Fail(w) ==
  /\ \E pc \in {"view", "next", "category", "batch", "row", "link", "stamp"} :
       Step(w, pc, [job[w] EXCEPT !.pc = "error"])
  /\ UNCHANGED <<db, stamp, posts, owed>>

WorkerStep(w) ==
  \/ FetchView(w) \/ NextCategory(w)
  \/ CategoryWithoutData(w) \/ FetchCategory(w)
  \/ FetchWeaknesses(w) \/ StoreWeakness(w) \/ LinkWeakness(w)
  \/ OpenStamp(w) \/ WriteStamp(w)
  \/ Complete(w) \/ Fail(w)

-----------------------------------------------------------------------------
(* The environment.                                                        *)

\* The CWE project publishes the next edition.
Publish ==
  /\ edition < MaxEdition
  /\ edition' = edition + 1
  /\ UNCHANGED <<db, stamp, posts, job, owed, stamped>>
  /\ UNCHANGED uiVars

\* auto_sync_interval_days pass.
Age ==
  /\ stamp = "fresh"
  /\ stamp' = "stale"
  /\ UNCHANGED <<edition, db, posts, job, owed, stamped>>
  /\ UNCHANGED uiVars

Init ==
  /\ edition = 1
  /\ db = EmptyCatalog
  /\ stamp = "none"
  /\ phase = "off"
  /\ sync_running = FALSE
  /\ posts = << >>
  /\ status = ""
  /\ loaded = {}
  /\ db_empty = TRUE
  /\ job = [w \in Worker |-> NoJob]
  /\ owed = [w \in Worker |-> NoDebt]
  /\ stamped = NoDebt

Next ==
  \/ Launch \/ EnterLoop \/ SyncCommand \/ RunPost \/ Quit \/ Exit \/ Crash
  \/ \E w \in Worker : WorkerStep(w)
  \/ Publish \/ Age

Spec == Init /\ [][Next]_vars

\* A running worker goes on: every request ends within CURLOPT_TIMEOUT, and
\* an answer or a time-out is a step.  The UI thread enters its loop and runs
\* what is posted to it.  Nothing is assumed of the user, of a crash or of
\* what the API answers.
Fairness ==
  /\ \A w \in Worker : WF_vars(WorkerStep(w))
  /\ WF_vars(EnterLoop)
  /\ WF_vars(RunPost)

FairSpec == Spec /\ Fairness

-----------------------------------------------------------------------------
(* Properties.                                                             *)

TypeOK ==
  /\ edition \in Edition
  /\ db \in CatalogType
  /\ stamp \in {"none", "fresh", "stale"}
  /\ phase \in {"off", "ready", "loop", "teardown"}
  /\ sync_running \in BOOLEAN
  /\ posts \in Seq(Message)
  /\ status \in Message \cup {"", "syncing", "busy"}
  /\ loaded \in SUBSET Cat
  /\ db_empty \in BOOLEAN
  /\ job \in [Worker -> Job]
  /\ owed \in [Worker -> Debt]
  /\ stamped \in Debt

\* start_sync() lets one sync run at a time: no two workers are alive
\* together, and sync_running_ is set for as long as one is.
OneWorker ==
  /\ \A v, w \in Worker : Active(v) /\ Active(w) => v = w
  /\ (\E w \in Worker : Active(w)) => sync_running

\* The callbacks of a sync run in the order they were posted and the last one
\* clears sync_running_: once it is clear nothing of that sync is left in the
\* queue, so no late progress text and no late reload can follow.
QuietWhenIdle ==
  ~sync_running => posts = << >> /\ status \notin {"syncing", "progress", "busy"}

\* The upserts come before the link that refers to them: the links on disk
\* never dangle, after any crash, and no link a worker is about to insert is
\* refused by the foreign keys.
LinksResolve ==
  /\ ReferencesStored(db)
  /\ \A w \in Worker :
       job[w].pc = "link" => LinkAllowed(db, job[w].cwe, job[w].cat)

\* What sync d was told to store is on disk, with content no older than the
\* edition the sync began with.
Stored(d) ==
  /\ \A c \in d.cats : db.cats[c] >= d.since
  /\ \A l \in d.links : l \in db.links /\ db.cwes[l[1]] >= d.since

\* A timestamp on disk vouches for a whole sync: every category and every
\* relationship the API gave to the sync that wrote it is stored.  A sync that
\* failed or died half way leaves no new timestamp, so it is repeated.
StampVouches == stamp # "none" => Stored(stamped)

\* "Sync completed successfully" is shown over the whole catalogue: the
\* categories in AppState are those in the database.
SuccessShowsAll ==
  /\ loaded \subseteq StoredCats(db)
  /\ status = "success" => loaded = StoredCats(db) /\ db_empty = ~HasData(db)

RowsGrow ==
  /\ \A c \in Cat : db'.cats[c] >= db.cats[c]
  /\ \A x \in Cwe : db'.cwes[x] >= db.cwes[x]
  /\ db.links \subseteq db'.links

\* No step replaces a row by older content and none deletes a row or a link:
\* an interrupted sync leaves the catalogue usable, and a slow worker cannot
\* undo a newer one.
RowsNeverRegress == [][RowsGrow]_vars

\* A sync that was started is reported and :sync becomes available again,
\* unless the process ends first.
SyncEnds == sync_running ~> (~sync_running \/ phase = "teardown")

\* The sections of Sync::run: the first request, the loop over the members, the
\* timestamp, the report.
Section(pc) ==
  CASE pc = "view" -> 0
    [] pc = "stamp" -> 2
    [] pc = "text" -> 3
    [] pc \in {"ok", "error"} -> 4
    [] pc = "idle" -> 5
    [] OTHER -> 1

\* The parts of an iteration of that loop: the category's request, its
\* weaknesses, the next member.
Part(pc) ==
  CASE pc = "category" -> 0
    [] pc \in {"batch", "row", "link"} -> 1
    [] OTHER -> 2

Fewer(s, t) == s \subseteq t /\ s # t

\* Sync::run with locals k is further than with locals j: in a later section,
\* or with fewer members to visit, or in a later part of the same iteration, or
\* with fewer weaknesses to ask for, or fewer to store, or one of them stored.
Further(k, j) ==
  \/ Section(j.pc) < Section(k.pc)
  \/ /\ Section(j.pc) = 1 /\ Section(k.pc) = 1
     /\ \/ Fewer(k.todo, j.todo)
        \/ /\ k.todo = j.todo
           /\ \/ Part(j.pc) < Part(k.pc)
              \/ /\ Part(j.pc) = 1 /\ Part(k.pc) = 1
                 /\ \/ Fewer(k.ids, j.ids)
                    \/ k.ids = j.ids /\ Fewer(k.batch, j.batch)
                    \/ /\ k.ids = j.ids /\ k.batch = j.batch
                       /\ j.pc = "row" /\ k.pc = "link"

\* A sync that has begun only goes forward, whatever the API answers or leaves
\* out: no category is visited twice and no batch is asked for again, so with
\* each request ended by its time-out the loops of Sync::run end.
GoesForward ==
  \A w \in Worker :
    Active(w) => job'[w] \in {job[w], NoJob} \/ Further(job'[w], job[w])
WorkersGoForward == [][GoesForward]_vars

\* A worker never outlives the screen it posts to (DEVELOPER.md, app/App.cpp:
\* background sync "posts status updates back to the interactive screen").
WorkerHasScreen == phase = "teardown" => \A w \in Worker : ~Active(w)

\* The threads, requests, posts and files above implement the promises of
\* SyncJob.  The outcome the user sees is "running" for as long as start_sync()
\* would refuse another one.
Abstract == INSTANCE SyncJob WITH
         on        <- phase # "off",
         outcome   <- IF sync_running THEN "running" ELSE status,
         catalogue <- db,
         shown     <- loaded,
         promise   <- IF stamp = "none" THEN NoDebt ELSE stamped

\* One sync at a time writes the catalogue, only while the screen still says
\* so; its report is the last thing heard of it and comes once; its timestamp
\* covers what it was told to store; and a dying process keeps what it stored.
JobSpec == Abstract!Spec
=============================================================================
