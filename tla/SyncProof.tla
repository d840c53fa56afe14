----------------------------- MODULE SyncProof -----------------------------
(***************************************************************************)
(* Proofs about Sync, for every value of its constants: any number of      *)
(* worker slots, categories, weaknesses and editions, any view.  First the *)
(* types, then the UI thread and the worker: one sync at a time, no        *)
(* callback of a sync after its last one, and a reported success shown     *)
(* over the whole catalogue.                                               *)
(***************************************************************************)
EXTENDS Sync, SequenceTheorems, FiniteSetTheorems, TLAPS

-----------------------------------------------------------------------------
(* Typing.                                                                 *)

\* The catalogue operations keep the tables' type.
LEMMA CatalogTyped ==
  ASSUME NEW d \in CatalogType, NEW e \in Nat
  PROVE  /\ \A c \in Cat : UpsertCategory(d, c, e) \in CatalogType
         /\ \A x \in Cwe : UpsertCwe(d, x, e) \in CatalogType
         /\ \A x \in Cwe, c \in Cat : LinkCweCategory(d, x, c) \in CatalogType
BY DEF CatalogType, UpsertCategory, UpsertCwe, LinkCweCategory

\* A step of a worker keeps the type of all that Step itself determines.
LEMMA StepTyped ==
  ASSUME TypeOK, NEW w \in Worker, NEW pc, NEW to \in Job, Step(w, pc, to)
  PROVE  /\ edition' \in Edition
         /\ phase' \in {"off", "ready", "loop", "teardown"}
         /\ sync_running' \in BOOLEAN
         /\ status' \in Message \cup {"", "syncing", "busy"}
         /\ loaded' \in SUBSET Cat
         /\ db_empty' \in BOOLEAN
         /\ job' \in [Worker -> Job]
         /\ stamped' \in Debt
BY DEF TypeOK, Step, uiVars

\* screen.Post() appends a message or drops it.
LEMMA PostTyped ==
  ASSUME TypeOK, NEW m \in Message, Post(m)
  PROVE  posts' \in Seq(Message)
<1>1. posts \in Seq(Message)
  BY DEF TypeOK
<1>2. Append(posts, m) \in Seq(Message)
  BY <1>1, AppendProperties
<1> QED  BY <1>1, <1>2 DEF Post

\* load_data() keeps the type of what it sets.
LEMMA LoadDataTyped ==
  ASSUME TypeOK, NEW cats \in SUBSET Cat, LoadData(cats)
  PROVE  /\ db_empty' \in BOOLEAN
         /\ loaded' \in SUBSET Cat
BY DEF TypeOK, LoadData, HasData, StoredCats

\* The upstream catalogue of the edition served is typed, as SyncAssumption has it.
LEMMA SourceTyped ==
  ASSUME TypeOK
  PROVE  /\ edition \in Nat /\ edition > 0
         /\ Members[edition] \subseteq Cat
         /\ \A c \in Cat : Rel[edition][c] \subseteq Cwe
<1>1. edition \in Edition
  BY DEF TypeOK
<1>2. Members[edition] \in SUBSET Cat
  BY <1>1, SyncAssumption
<1>3. Rel[edition] \in [Cat -> SUBSET Cwe]
  BY <1>1, SyncAssumption
<1> QED  BY <1>1, <1>2, <1>3, SyncAssumption DEF Edition

\* start_sync() past its guard makes a typed worker.
LEMMA SpawnTyped ==
  ASSUME TypeOK, SpawnWorker
  PROVE  /\ job' \in [Worker -> Job]
         /\ owed' \in [Worker -> Debt]
<1>1. PICK w \in Worker :
        /\ job' = [job EXCEPT ![w] = [NoJob EXCEPT !.pc = "view"]]
        /\ owed' = [owed EXCEPT ![w] = [NoDebt EXCEPT !.since = edition]]
  BY DEF SpawnWorker
<1>2. [NoJob EXCEPT !.pc = "view"] \in Job
  BY DEF NoJob, Job, Pc
<1>3. [NoDebt EXCEPT !.since = edition] \in Debt
  BY SourceTyped DEF NoDebt, Debt
<1> QED  BY <1>1, <1>2, <1>3 DEF TypeOK

\* A step of the UI thread, of the process or of the environment keeps the types.
LEMMA UITyped == TypeOK /\ (Launch \/ EnterLoop \/ SyncCommand \/ RunPost
                            \/ Quit \/ Exit \/ Crash) => TypeOK'
<1> SUFFICES ASSUME TypeOK,
                    Launch \/ EnterLoop \/ SyncCommand \/ RunPost \/ Quit
                    \/ Exit \/ Crash
             PROVE  TypeOK'
  OBVIOUS
<1>1. CASE Launch
  <2>1. db_empty' \in BOOLEAN /\ loaded' \in SUBSET Cat
    BY <1>1, LoadDataTyped DEF Launch
  <2>2. job' \in [Worker -> Job] /\ owed' \in [Worker -> Debt]
    BY <1>1, SpawnTyped DEF Launch, TypeOK
  <2> QED  BY <1>1, <2>1, <2>2 DEF Launch, TypeOK
<1>2. CASE EnterLoop
  BY <1>2 DEF EnterLoop, TypeOK
<1>3. CASE SyncCommand
  <2>1. job' \in [Worker -> Job] /\ owed' \in [Worker -> Debt]
    BY <1>3, SpawnTyped DEF SyncCommand, TypeOK
  <2> QED  BY <1>3, <2>1 DEF SyncCommand, TypeOK
<1>4. CASE RunPost
  <2>1. /\ posts \in Seq(Message) /\ posts # << >>
        /\ loaded \in SUBSET Cat /\ db_empty \in BOOLEAN
    BY <1>4 DEF RunPost, TypeOK
  <2>2. Head(posts) \in Message /\ Tail(posts) \in Seq(Message)
    BY <2>1, HeadTailProperties
  <2>3. CASE Head(posts) = "success"
    <3>1. LoadData(loaded)
      BY <1>4, <2>3 DEF RunPost
    <3>2. db_empty' \in BOOLEAN /\ loaded' \in SUBSET Cat
      BY <2>1, <3>1, LoadDataTyped
    <3> QED  BY <1>4, <2>2, <3>2 DEF RunPost, TypeOK
  <2>4. CASE Head(posts) # "success"
    BY <1>4, <2>1, <2>2, <2>4 DEF RunPost, TypeOK
  <2> QED  BY <2>3, <2>4
<1>5. CASE Quit
  BY <1>5, EmptySeq DEF Quit, TypeOK
<1>6. CASE Exit \/ Crash
  <2>1. NoJob \in Job /\ NoDebt \in Debt
    BY DEF NoJob, Job, Pc, NoDebt, Debt
  <2> QED  BY <1>6, <2>1, EmptySeq DEF Exit, Crash, ProcessEnds, TypeOK
<1> QED  BY <1>1, <1>2, <1>3, <1>4, <1>5, <1>6

\* A step of Sync::run keeps the types.
LEMMA WorkerTyped ==
  ASSUME TypeOK, NEW w \in Worker, WorkerStep(w)
  PROVE  TypeOK'
<1>a. /\ job[w] \in Job /\ owed[w] \in Debt /\ edition \in Nat
      /\ Members[edition] \subseteq Cat
      /\ \A c \in Cat : Rel[edition][c] \subseteq Cwe
  BY SourceTyped DEF TypeOK
<1>b. {"progress", "success", "failure"} = Message
  BY DEF Message
<1>1. CASE FetchView(w)
  <2>1. [job[w] EXCEPT !.pc = "next", !.todo = Members[edition]] \in Job
    BY <1>a DEF Job, Pc
  <2>2. owed' \in [Worker -> Debt]
    BY <1>1, <1>a DEF FetchView, TypeOK, Debt
  <2> QED  BY <1>1, <1>b, <2>1, <2>2, StepTyped, PostTyped
           DEF FetchView, TypeOK
<1>2. CASE NextCategory(w)
  <2>1. ASSUME NEW c \in job[w].todo
        PROVE  [job[w] EXCEPT !.pc = "category", !.cat = c,
                              !.todo = @ \ {c}] \in Job
    BY <1>a DEF Job, Pc
  <2>2. [job[w] EXCEPT !.pc = "stamp"] \in Job
    BY <1>a DEF Job, Pc
  <2> QED  BY <1>2, <1>b, <2>1, <2>2, StepTyped, PostTyped
           DEF NextCategory, TypeOK
<1>3. CASE CategoryWithoutData(w)
  <2>1. [job[w] EXCEPT !.pc = "next"] \in Job
    BY <1>a DEF Job, Pc
  <2>2. owed' \in [Worker -> Debt]
    BY <1>3, <1>a DEF CategoryWithoutData, TypeOK, Debt
  <2> QED  BY <1>3, <2>1, <2>2, StepTyped DEF CategoryWithoutData, TypeOK
<1>4. CASE FetchCategory(w)
  <2> DEFINE ids == Rel[edition][job[w].cat]
  <2>1. job[w].cat \in Cat
    BY <1>4, <1>a DEF FetchCategory, Step, Job
  <2>2. [job[w] EXCEPT !.pc = IF ids = {} THEN "next" ELSE "batch",
                       !.ids = ids] \in Job
    BY <1>a, <2>1 DEF Job, Pc
  <2>3. db' \in CatalogType
    BY <1>4, <1>a, <2>1, CatalogTyped DEF FetchCategory, TypeOK
  <2>4. owed' \in [Worker -> Debt]
    BY <1>4, <1>a, <2>1 DEF FetchCategory, TypeOK, Debt
  <2> QED  BY <1>4, <2>2, <2>3, <2>4, StepTyped DEF FetchCategory, TypeOK
<1>5. CASE FetchWeaknesses(w)
  <2> DEFINE rest(asked) == job[w].ids \ asked
             jobNext(asked, got) ==
               [job[w] EXCEPT !.pc = IF got = {} THEN AfterBatch(rest(asked))
                                                 ELSE "row",
                              !.ids = rest(asked), !.batch = got,
                              !.from = edition]
  <2>1. PICK asked \in SUBSET job[w].ids, got \in SUBSET job[w].ids :
          /\ got \subseteq asked
          /\ Step(w, "batch", jobNext(asked, got))
          /\ owed' = [owed EXCEPT ![w].links =
                                    @ \ ((asked \ got) \X {job[w].cat})]
          /\ UNCHANGED <<db, stamp, posts>>
    BY <1>5 DEF FetchWeaknesses
  <2>2. job[w].pc = "batch"
    BY <2>1 DEF Step
  <2>3. jobNext(asked, got) \in Job
    BY <1>a, <2>2 DEF Job, Pc, AfterBatch
  <2>4. owed' \in [Worker -> Debt]
    BY <1>a, <2>1 DEF TypeOK, Debt
  <2> HIDE DEF jobNext
  <2> QED  BY <2>1, <2>3, <2>4, StepTyped DEF TypeOK
<1>6. CASE StoreWeakness(w)
  <2>1. PICK x \in job[w].batch :
          /\ Step(w, "row", [job[w] EXCEPT !.pc = "link", !.cwe = x])
          /\ db' = UpsertCwe(db, x, job[w].from)
          /\ UNCHANGED <<stamp, posts, owed>>
    BY <1>6 DEF StoreWeakness
  <2>2. /\ x \in Cwe /\ job[w].from \in Nat /\ job[w].pc = "row"
    BY <1>a, <2>1 DEF Job, Step
  <2>4. [job[w] EXCEPT !.pc = "link", !.cwe = x] \in Job
    BY <1>a, <2>2 DEF Job, Pc
  <2>3. db' \in CatalogType
    BY <2>1, <2>2, CatalogTyped DEF TypeOK
  <2> QED  BY <2>1, <2>3, <2>4, StepTyped DEF TypeOK
<1>7. CASE LinkWeakness(w)
  <2> DEFINE rest == job[w].batch \ {job[w].cwe}
             jobNext == [job[w] EXCEPT !.pc = IF rest # {}
                                             THEN "row"
                                             ELSE AfterBatch(job[w].ids),
                                    !.batch = rest]
  <2>1. /\ Step(w, "link", jobNext)
        /\ db' = LinkCweCategory(db, job[w].cwe, job[w].cat)
        /\ UNCHANGED <<stamp, posts, owed>>
    BY <1>7 DEF LinkWeakness
  <2>2. job[w].pc = "link"
    BY <2>1 DEF Step
  <2>3. job[w].cat \in Cat /\ job[w].cwe \in Cwe /\ jobNext \in Job
    BY <1>a, <2>2 DEF Job, Pc, AfterBatch
  <2>4. db' \in CatalogType
    BY <2>1, <2>3, CatalogTyped DEF TypeOK
  <2> HIDE DEF jobNext
  <2> QED  BY <2>1, <2>3, <2>4, StepTyped DEF TypeOK
<1>8. CASE OpenStamp(w)
  <2>1. /\ [job[w] EXCEPT !.pc = "text"] \in Job
        /\ [job[w] EXCEPT !.pc = "ok"] \in Job
    BY <1>a DEF Job, Pc
  <2> QED  BY <1>8, <2>1, StepTyped DEF OpenStamp, TypeOK
<1>9. CASE WriteStamp(w)
  <2>1. job' \in [Worker -> Job]
    BY <1>9, <1>a DEF WriteStamp, TypeOK, Job, Pc
  <2> QED  BY <1>9, <1>a, <2>1 DEF WriteStamp, TypeOK, uiVars
<1>10. CASE Complete(w)
  <2>1. NoJob \in Job /\ NoDebt \in Debt
    BY DEF NoJob, Job, Pc, NoDebt, Debt
  <2> QED  BY <1>10, <1>b, <2>1, StepTyped, PostTyped DEF Complete, TypeOK
<1>11. CASE Fail(w)
  <2>1. [job[w] EXCEPT !.pc = "error"] \in Job
    BY <1>a DEF Job, Pc
  <2> QED  BY <1>11, <2>1, StepTyped DEF Fail, TypeOK
<1> QED  BY <1>1, <1>2, <1>3, <1>4, <1>5, <1>6, <1>7, <1>8, <1>9, <1>10, <1>11
         DEF WorkerStep

\* A fresh installation is well typed.
LEMMA TypeInit == Init => TypeOK
<1>1. NoJob \in Job /\ NoDebt \in Debt
  BY DEF NoJob, Job, Pc, NoDebt, Debt
<1>2. EmptyCatalog \in CatalogType /\ 1 \in Edition
  BY SyncAssumption DEF EmptyCatalog, CatalogType, Edition
<1> QED  BY <1>1, <1>2, EmptySeq DEF Init, TypeOK

\* Every step of the program keeps the types.
LEMMA TypeNext == TypeOK /\ [Next]_vars => TypeOK'
<1> SUFFICES ASSUME TypeOK, [Next]_vars
             PROVE  TypeOK'
  OBVIOUS
<1>1. CASE Publish
  <2>1. edition' \in Edition
    <3>1. MaxEdition \in Nat
      BY SyncAssumption
    <3>2. edition \in 1 .. MaxEdition
      BY DEF TypeOK, Edition
    <3> QED  BY <1>1, <3>1, <3>2 DEF Publish, Edition
  <2> QED  BY <1>1, <2>1 DEF Publish, TypeOK, uiVars
<1>2. CASE Age
  BY <1>2 DEF Age, TypeOK, uiVars
<1>3. CASE UNCHANGED vars
  BY <1>3 DEF vars, TypeOK
<1> QED  BY <1>1, <1>2, <1>3, UITyped, WorkerTyped DEF Next

\* Type correctness: every reachable state of Sync has the types its C++
\* declarations give it, and a local of the worker is set where it is used.
THEOREM TypeCorrect == Spec => []TypeOK
BY TypeInit, TypeNext, PTL DEF Spec

-----------------------------------------------------------------------------
(* The UI thread and the worker.                                           *)

\* The inductive invariant.  OneWorker and QuietWhenIdle are not inductive:
\* a completion could be queued behind a worker that is still running, or
\* ahead of progress texts, unless the queue has the shape given here.
Completed == \A w \in Worker : ~Active(w)

QueueShape ==
  \A i \in 1 .. Len(posts) :
    posts[i] # "progress" => i = Len(posts) /\ Completed

SuccessState == status = "success" => Completed

ThreadInv ==
  /\ TypeOK
  /\ OneWorker
  /\ QuietWhenIdle
  /\ phase = "off" => ~sync_running
  /\ QueueShape
  /\ SuccessState
  /\ SuccessShowsAll

-----------------------------------------------------------------------------
\* Before the first start there is no worker and no callback.
LEMMA ThreadInit == Init => ThreadInv
<1> SUFFICES ASSUME Init PROVE ThreadInv
  OBVIOUS
<1>1. TypeOK
  BY TypeInit
<1>2. Completed
  BY DEF Init, Completed, Active, NoJob
<1>3. SuccessShowsAll
  <2>1. loaded = {} /\ status = ""
    BY DEF Init
  <2> QED  BY <2>1 DEF SuccessShowsAll
<1>4. QueueShape
  <2>1. posts = << >> /\ Len(posts) = 0
    BY DEF Init
  <2> QED  BY <2>1 DEF QueueShape
<1>5. OneWorker /\ SuccessState
  BY <1>2 DEF OneWorker, SuccessState, Completed
<1>6. QuietWhenIdle
  BY DEF Init, QuietWhenIdle
<1> QED  BY <1>1, <1>2, <1>3, <1>4, <1>5, <1>6 DEF Init, ThreadInv

\* What every step of a worker does to the threads and to the queue.
LEMMA WorkerFrame ==
  ASSUME TypeOK, NEW w \in Worker, WorkerStep(w)
  PROVE  /\ phase # "off" /\ Active(w)
         /\ UNCHANGED uiVars
         /\ \A v \in Worker : v # w => Active(v)' = Active(v)
         /\ \/ posts' = posts
            \/ posts' = Append(posts, "progress") /\ Active(w)'
            \/ /\ posts' \in {Append(posts, "success"), Append(posts, "failure")}
               /\ ~Active(w)'
<1>1. job[w] \in Job /\ job \in [Worker -> Job]
  BY DEF TypeOK
<1>2. \A to : job' = [job EXCEPT ![w] = to] =>
        /\ \A v \in Worker : v # w => Active(v)' = Active(v)
        /\ Active(w)' <=> to.pc # "idle"
  BY <1>1 DEF Active
<1>3. ASSUME NEW pc, NEW to, Step(w, pc, to), pc # "idle"
      PROVE  /\ phase # "off" /\ Active(w) /\ UNCHANGED uiVars
             /\ \A v \in Worker : v # w => Active(v)' = Active(v)
             /\ Active(w)' <=> to.pc # "idle"
  BY <1>2, <1>3 DEF Step, Active
<1>4. \A m : Post(m) => posts' = posts \/ posts' = Append(posts, m)
  BY DEF Post
<1>5. CASE FetchView(w)
  <2>1. [job[w] EXCEPT !.pc = "next", !.todo = Members[edition]].pc = "next"
    BY <1>1 DEF Job
  <2> QED  BY <1>3, <1>4, <1>5, <2>1 DEF FetchView
<1>6. CASE NextCategory(w)
  <2>1. /\ [job[w] EXCEPT !.pc = "stamp"].pc = "stamp"
        /\ \A c : [job[w] EXCEPT !.pc = "category", !.cat = c,
                                 !.todo = @ \ {c}].pc = "category"
    BY <1>1 DEF Job
  <2> QED  BY <1>3, <1>4, <1>6, <2>1 DEF NextCategory
<1>7. CASE Complete(w)
  <2>1. NoJob.pc = "idle"
    BY DEF NoJob
  <2> QED  BY <1>3, <1>4, <1>7, <2>1 DEF Complete
<1>8. CASE WriteStamp(w)
  BY <1>1, <1>8 DEF WriteStamp, Active
<1>9. ASSUME \/ CategoryWithoutData(w) \/ FetchCategory(w)
             \/ FetchWeaknesses(w) \/ StoreWeakness(w) \/ LinkWeakness(w)
             \/ OpenStamp(w) \/ Fail(w)
      PROVE  posts' = posts /\ \E pc, to : pc # "idle" /\ Step(w, pc, to)
  BY <1>9 DEF CategoryWithoutData, FetchCategory, FetchWeaknesses,
              StoreWeakness, LinkWeakness, OpenStamp, Fail
<1> QED  BY <1>3, <1>5, <1>6, <1>7, <1>8, <1>9 DEF WorkerStep

\* No step of a worker removes a category.
LEMMA CatsGrow ==
  ASSUME TypeOK, NEW w \in Worker, WorkerStep(w)
  PROVE  StoredCats(db) \subseteq StoredCats(db)'
<1>1. \A c \in Cat, e \in Nat : e > 0 =>
        StoredCats(db) \subseteq StoredCats(UpsertCategory(db, c, e))
  BY DEF TypeOK, CatalogType, StoredCats, UpsertCategory
<1>2. \A x, e : StoredCats(UpsertCwe(db, x, e)) = StoredCats(db)
  BY DEF TypeOK, CatalogType, StoredCats, UpsertCwe
<1>3. \A x, c : StoredCats(LinkCweCategory(db, x, c)) = StoredCats(db)
  BY DEF TypeOK, CatalogType, StoredCats, LinkCweCategory
<1>4. CASE FetchCategory(w)
  <2>1. job[w].cat \in Cat
    BY <1>4 DEF FetchCategory, Step, TypeOK, Job
  <2> QED  BY <1>1, <1>4, <2>1, SourceTyped DEF FetchCategory, StoredCats
<1>5. CASE StoreWeakness(w) \/ LinkWeakness(w)
  BY <1>2, <1>3, <1>5 DEF StoreWeakness, LinkWeakness, StoredCats
<1>6. ASSUME \/ FetchView(w) \/ NextCategory(w) \/ CategoryWithoutData(w)
             \/ FetchWeaknesses(w) \/ OpenStamp(w) \/ WriteStamp(w)
             \/ Complete(w) \/ Fail(w)
      PROVE  db' = db
  BY <1>6 DEF FetchView, NextCategory, CategoryWithoutData, FetchWeaknesses,
              OpenStamp, WriteStamp, Complete, Fail
<1> QED  BY <1>4, <1>5, <1>6 DEF WorkerStep, StoredCats

\* A step of Sync::run keeps ThreadInv.
LEMMA ThreadWorker ==
  ASSUME ThreadInv, NEW w \in Worker, WorkerStep(w)
  PROVE  ThreadInv'
<1> USE DEF ThreadInv
<1>1. TypeOK'
  BY WorkerTyped
<1>2. /\ phase # "off" /\ Active(w) /\ sync_running /\ ~Completed
      /\ \A v \in Worker : v # w => ~Active(v) /\ ~Active(v)'
      /\ UNCHANGED uiVars
  BY WorkerFrame DEF OneWorker, Completed
<1>3. status # "success" /\ status' # "success"
  BY <1>2 DEF SuccessState, uiVars
<1>4. \A i \in 1 .. Len(posts) : posts[i] = "progress"
  BY <1>2 DEF QueueShape
<1>5. posts \in Seq(Message) /\ Len(posts) \in Nat
  BY LenProperties DEF TypeOK
<1>6. QueueShape'
  <2>1. CASE posts' = posts
    BY <1>4, <2>1 DEF QueueShape
  <2>2. ASSUME NEW m \in Message, posts' = Append(posts, m),
               m = "progress" \/ ~Active(w)'
        PROVE  QueueShape'
    <3>1. /\ Len(posts') = Len(posts) + 1
          /\ \A i \in 1 .. Len(posts) : posts'[i] = "progress"
          /\ posts'[Len(posts) + 1] = m
      BY <1>4, <1>5, <2>2, AppendProperties
    <3>2. m # "progress" => Completed'
      BY <1>2, <2>2 DEF Completed
    <3> QED  BY <1>5, <3>1, <3>2 DEF QueueShape
  <2>3. {"progress", "success", "failure"} = Message
    BY DEF Message
  <2> QED  BY <2>1, <2>2, <2>3, WorkerFrame
<1>7. OneWorker' /\ QuietWhenIdle' /\ (phase = "off" => ~sync_running)'
  BY <1>2 DEF OneWorker, QuietWhenIdle, uiVars
<1>8. SuccessState' /\ SuccessShowsAll'
  BY <1>2, <1>3, CatsGrow DEF SuccessState, SuccessShowsAll, uiVars
<1> QED  BY <1>1, <1>6, <1>7, <1>8

\* load_data() leaves AppState equal to the database.
LEMMA LoadDataShows ==
  ASSUME NEW cats \in SUBSET StoredCats(db), LoadData(cats), db' = db
  PROVE  loaded' = StoredCats(db)' /\ db_empty' = ~HasData(db)'
BY DEF LoadData, HasData, StoredCats

\* start_sync() past its guard makes the only worker.
LEMMA SpawnOne ==
  ASSUME TypeOK, Completed, SpawnWorker
  PROVE  \A v, w \in Worker : Active(v)' /\ Active(w)' => v = w
<1>1. PICK u \in Worker : job' = [job EXCEPT ![u] = [NoJob EXCEPT !.pc = "view"]]
  BY DEF SpawnWorker
<1>2. \A v \in Worker : v # u => ~Active(v)'
  BY <1>1 DEF TypeOK, Completed, Active
<1> QED  BY <1>2

\* A step of the UI thread, the process or the environment keeps ThreadInv.
LEMMA ThreadUI ==
  ASSUME ThreadInv,
         Launch \/ EnterLoop \/ SyncCommand \/ RunPost \/ Quit \/ Exit \/ Crash
  PROVE  ThreadInv'
<1> USE DEF ThreadInv
<1>a. TypeOK'
  BY UITyped
<1>1. CASE Launch
  <2>1. ~sync_running /\ Completed /\ posts' = << >> /\ phase' = "ready" /\ db' = db
    BY <1>1 DEF Launch, OneWorker, QuietWhenIdle, Completed
  <2>2. loaded' = StoredCats(db)' /\ db_empty' = ~HasData(db)'
    <3>1. LoadData({}) /\ {} \in SUBSET StoredCats(db)
      BY <1>1 DEF Launch
    <3> QED  BY <2>1, <3>1, LoadDataShows
  <2>3. /\ status' \in {"syncing", ""}
        /\ ~sync_running' => status' = ""
        /\ (sync_running' /\ SpawnWorker) \/ UNCHANGED job
    BY <1>1 DEF Launch
  <2>4. OneWorker'
    BY <2>1, <2>3, SpawnOne DEF OneWorker, Completed, Active
  <2>5. QueueShape'
    <3>1. Len(posts') = 0
      BY <2>1
    <3> QED  BY <3>1 DEF QueueShape
  <2>6. QuietWhenIdle' /\ SuccessState' /\ SuccessShowsAll'
    BY <2>1, <2>2, <2>3 DEF QuietWhenIdle, SuccessState, SuccessShowsAll
  <2> QED  BY <1>a, <2>1, <2>4, <2>5, <2>6
<1>2. CASE EnterLoop
  BY <1>a, <1>2 DEF EnterLoop, OneWorker, QuietWhenIdle, QueueShape, Completed,
                    Active, SuccessState, SuccessShowsAll, StoredCats, HasData
<1>3. CASE SyncCommand
  <2>1. /\ UNCHANGED <<posts, phase, loaded, db_empty, db>>
        /\ phase = "loop" /\ status' \in {"busy", "syncing"} /\ sync_running'
        /\ \/ sync_running /\ UNCHANGED job
           \/ ~sync_running /\ SpawnWorker
    <3>1. CASE sync_running
      BY <1>3, <3>1 DEF SyncCommand
    <3>2. CASE ~sync_running
      BY <1>3, <3>2 DEF SyncCommand
    <3> QED  BY <3>1, <3>2
  <2>2. OneWorker'
    BY <2>1, SpawnOne DEF OneWorker, Completed, Active
  <2>3. QueueShape'
    <3>1. CASE sync_running
      BY <2>1, <3>1 DEF QueueShape, Completed, Active
    <3>2. CASE ~sync_running
      <4>1. posts' = << >> /\ Len(posts') = 0
        BY <2>1, <3>2 DEF QuietWhenIdle
      <4> QED  BY <4>1 DEF QueueShape
    <3> QED  BY <3>1, <3>2
  <2> QED  BY <1>a, <2>1, <2>2, <2>3
           DEF QuietWhenIdle, SuccessState, SuccessShowsAll, StoredCats
<1>4. CASE RunPost
  <2>1. /\ UNCHANGED <<db, phase, job>> /\ phase = "loop"
        /\ status' = Head(posts) /\ posts' = Tail(posts)
        /\ sync_running' = (sync_running /\ Head(posts) = "progress")
    BY <1>4 DEF RunPost
  <2>2. /\ posts \in Seq(Message) /\ posts # << >> /\ sync_running
    BY <1>4 DEF RunPost, QuietWhenIdle, TypeOK
  <2>3. /\ Len(posts) \in Nat \ {0} /\ Len(posts') = Len(posts) - 1
        /\ \A i \in 1 .. Len(posts') : posts'[i] = posts[i + 1]
        /\ Head(posts) = posts[1] /\ Head(posts) \in Message
        /\ posts' \in Seq(Message)
    BY <2>1, <2>2, HeadTailProperties, EmptySeq
  <2>4. QueueShape'
    <3>1. Completed' <=> Completed
      BY <2>1 DEF Completed, Active
    <3>2. \A i \in 1 .. Len(posts') :
            i + 1 \in 1 .. Len(posts) /\ (i + 1 = Len(posts) => i = Len(posts'))
      BY <2>3
    <3> QED  BY <2>3, <3>1, <3>2 DEF QueueShape
  <2>5. Head(posts) # "progress" => Completed /\ posts' = << >>
    BY <2>3, EmptySeq DEF QueueShape
  <2>6. OneWorker'
    BY <2>1, <2>2, <2>5 DEF OneWorker, Completed, Active
  <2>7. QuietWhenIdle' /\ SuccessState'
    BY <2>1, <2>2, <2>3, <2>5 DEF QuietWhenIdle, SuccessState, Completed, Active,
                                  Message
  <2>8. SuccessShowsAll'
    <3>1. CASE Head(posts) = "success"
      <4>1. LoadData(loaded) /\ loaded \in SUBSET StoredCats(db)
        BY <1>4, <3>1 DEF RunPost, SuccessShowsAll
      <4>2. loaded' = StoredCats(db)' /\ db_empty' = ~HasData(db)'
        BY <2>1, <4>1, LoadDataShows
      <4> QED  BY <4>2 DEF SuccessShowsAll
    <3>2. CASE Head(posts) # "success"
      BY <1>4, <2>1, <3>2 DEF RunPost, SuccessShowsAll, StoredCats
    <3> QED  BY <3>1, <3>2
  <2> QED  BY <1>a, <2>1, <2>4, <2>6, <2>7, <2>8
<1>5. CASE Quit
  <2>1. Len(posts') = 0
    BY <1>5 DEF Quit
  <2>2. QueueShape'
    BY <2>1 DEF QueueShape
  <2> QED  BY <1>a, <1>5, <2>2
           DEF Quit, OneWorker, QuietWhenIdle, Completed, Active,
               SuccessState, SuccessShowsAll, StoredCats, HasData
<1>6. CASE Exit \/ Crash
  <2>1. /\ phase' = "off" /\ ~sync_running' /\ posts' = << >> /\ status' = ""
        /\ loaded' = {} /\ job' = [w \in Worker |-> NoJob]
    BY <1>6 DEF Exit, Crash, ProcessEnds
  <2>2. \A w \in Worker : ~Active(w)'
    BY <2>1 DEF Active, NoJob
  <2>3. QueueShape'
    <3>1. Len(posts') = 0
      BY <2>1
    <3> QED  BY <3>1 DEF QueueShape
  <2>4. SuccessShowsAll' /\ SuccessState' /\ QuietWhenIdle'
    BY <2>1 DEF SuccessShowsAll, SuccessState, QuietWhenIdle
  <2> QED  BY <1>a, <2>1, <2>2, <2>3, <2>4 DEF OneWorker
<1> QED  BY <1>1, <1>2, <1>3, <1>4, <1>5, <1>6

\* Every step of the program keeps ThreadInv.
LEMMA ThreadNext == ThreadInv /\ [Next]_vars => ThreadInv'
<1> SUFFICES ASSUME ThreadInv, [Next]_vars PROVE ThreadInv'
  OBVIOUS
<1>1. CASE Publish \/ Age \/ UNCHANGED vars
  <2>1. TypeOK'
    BY <1>1, TypeNext DEF ThreadInv
  <2>2. UNCHANGED <<db, posts, job, phase, sync_running, status, loaded, db_empty>>
    BY <1>1 DEF Publish, Age, uiVars, vars
  <2> QED  BY <2>1, <2>2
           DEF ThreadInv, OneWorker, QuietWhenIdle, QueueShape, Completed,
               Active, SuccessState, SuccessShowsAll, StoredCats, HasData
<1> QED  BY <1>1, ThreadUI, ThreadWorker DEF Next

\* sync_running_, the worker and the queue of callbacks agree in every reachable
\* state: ThreadInv is inductive.
THEOREM ThreadInductive == Spec => []ThreadInv
BY ThreadInit, ThreadNext, PTL DEF Spec

\* start_sync() lets one sync run at a time, however many threads there could
\* be: sync_running_ covers the whole life of a worker and its last callback.
THEOREM OneSyncAtATime == Spec => []OneWorker
<1>1. ThreadInv => OneWorker
  BY DEF ThreadInv
<1> QED  BY <1>1, ThreadInductive, PTL

\* Nothing of a sync is left in the queue of the UI when sync_running_ is
\* clear: no late progress text, no late reload.
THEOREM NothingAfterCompletion == Spec => []QuietWhenIdle
<1>1. ThreadInv => QuietWhenIdle
  BY DEF ThreadInv
<1> QED  BY <1>1, ThreadInductive, PTL

\* The categories held by the UI are in the database, and all of them are
\* held while a success is reported.
THEOREM SuccessIsShown == Spec => []SuccessShowsAll
<1>1. ThreadInv => SuccessShowsAll
  BY DEF ThreadInv
<1> QED  BY <1>1, ThreadInductive, PTL
-----------------------------------------------------------------------------
(* The loops of Sync::run go forward.                                      *)

\* A worker asks for a batch only while ids are left, and links a weakness of
\* the answer it is storing.
JobSound(j) ==
  /\ j.pc = "batch" => j.ids # {}
  /\ j.pc = "link" => j.cwe \in j.batch

LoopInv == TypeOK /\ \A w \in Worker : JobSound(job[w])

\* A request of BATCH_SIZE ids, or of all that are left, asks for at least one.
LEMMA AsksForSome ==
  ASSUME NEW ids \in SUBSET Cwe, ids # {}, NEW asked \in SUBSET ids,
         Cardinality(asked) = SmallerOf(BatchSize, Cardinality(ids))
  PROVE  Fewer(ids \ asked, ids)
<1>1. IsFiniteSet(ids)
  BY SyncAssumption, FS_Subset
<1>2. Cardinality(ids) \in Nat /\ Cardinality(ids) # 0
  BY <1>1, FS_CardinalityType, FS_EmptySet
<1>3. Cardinality(asked) # 0
  BY <1>2, SyncAssumption DEF SmallerOf
<1>4. asked # {}
  BY <1>3, FS_EmptySet
<1> QED  BY <1>4 DEF Fewer

\* A step of Sync::run takes the worker further, or ends it, and leaves its
\* locals sound.
LEMMA WorkerFurther ==
  ASSUME LoopInv, NEW w \in Worker, WorkerStep(w)
  PROVE  /\ job' = [job EXCEPT ![w] = job'[w]]
         /\ job'[w] = NoJob \/ Further(job'[w], job[w])
         /\ JobSound(job'[w])
<1>1. /\ job \in [Worker -> Job] /\ job[w] \in Job /\ JobSound(job[w])
      /\ DOMAIN job[w] = {"pc", "todo", "cat", "ids", "batch", "cwe", "from"}
  BY DEF LoopInv, TypeOK, Job
<1>2. ASSUME NEW pc, NEW to, Step(w, pc, to)
      PROVE  /\ job[w].pc = pc /\ job'[w] = to
             /\ job' = [job EXCEPT ![w] = job'[w]]
  BY <1>1, <1>2 DEF Step
<1>3. CASE FetchView(w)
  <2>1. /\ job[w].pc = "view" /\ job' = [job EXCEPT ![w] = job'[w]]
        /\ job'[w] = [job[w] EXCEPT !.pc = "next", !.todo = Members[edition]]
    BY <1>2, <1>3 DEF FetchView
  <2>2. job'[w].pc = "next"
    BY <1>1, <2>1
  <2> QED  BY <2>1, <2>2 DEF Further, Section, JobSound
<1>4. CASE NextCategory(w)
  <2>1. CASE \E c \in job[w].todo :
               Step(w, "next", [job[w] EXCEPT !.pc = "category", !.cat = c,
                                              !.todo = @ \ {c}])
    <3>1. PICK c \in job[w].todo :
            Step(w, "next", [job[w] EXCEPT !.pc = "category", !.cat = c,
                                           !.todo = @ \ {c}])
      BY <2>1
    <3>2. /\ job[w].pc = "next" /\ job' = [job EXCEPT ![w] = job'[w]]
          /\ job'[w] = [job[w] EXCEPT !.pc = "category", !.cat = c,
                                      !.todo = @ \ {c}]
      BY <1>2, <3>1
    <3>3. job'[w].pc = "category" /\ Fewer(job'[w].todo, job[w].todo)
      BY <1>1, <3>2 DEF Fewer
    <3> QED  BY <3>2, <3>3 DEF Further, Section, JobSound
  <2>2. CASE Step(w, "next", [job[w] EXCEPT !.pc = "stamp"])
    BY <1>1, <1>2, <2>2 DEF Job, Further, Section, JobSound
  <2> QED  BY <1>4, <2>1, <2>2 DEF NextCategory
<1>5. CASE CategoryWithoutData(w)
  BY <1>1, <1>2, <1>5
     DEF CategoryWithoutData, Job, Further, Section, Part, JobSound
<1>6. CASE FetchCategory(w)
  <2> DEFINE ids == Rel[edition][job[w].cat]
  <2>1. /\ job[w].pc = "category" /\ job' = [job EXCEPT ![w] = job'[w]]
        /\ job'[w] = [job[w] EXCEPT !.pc = IF ids = {} THEN "next" ELSE "batch",
                                    !.ids = ids]
    BY <1>2, <1>6 DEF FetchCategory
  <2> QED  BY <1>1, <2>1 DEF Further, Section, Part, JobSound
<1>7. CASE FetchWeaknesses(w)
  <2> DEFINE to(asked, got) ==
               [job[w] EXCEPT !.pc = IF got = {}
                                       THEN AfterBatch(job[w].ids \ asked)
                                       ELSE "row",
                              !.ids = job[w].ids \ asked, !.batch = got,
                              !.from = edition]
  <2>1. PICK asked \in SUBSET job[w].ids, got \in SUBSET job[w].ids :
          /\ Cardinality(asked) = SmallerOf(BatchSize, Cardinality(job[w].ids))
          /\ Step(w, "batch", to(asked, got))
    BY <1>7 DEF FetchWeaknesses
  <2>2. /\ job[w].pc = "batch" /\ job'[w] = to(asked, got)
        /\ job' = [job EXCEPT ![w] = job'[w]]
    <3> HIDE DEF to
    <3> QED  BY <1>2, <2>1
  <2>3. job[w].ids \in SUBSET Cwe /\ job[w].ids # {}
    BY <1>1, <2>2 DEF Job, JobSound
  <2>4. Fewer(job[w].ids \ asked, job[w].ids)
    BY <2>1, <2>3, AsksForSome
  <2> QED  BY <1>1, <2>2, <2>4
           DEF Job, Further, Section, Part, AfterBatch, JobSound
<1>8. CASE StoreWeakness(w)
  <2>1. PICK x \in job[w].batch :
          Step(w, "row", [job[w] EXCEPT !.pc = "link", !.cwe = x])
    BY <1>8 DEF StoreWeakness
  <2>2. /\ job[w].pc = "row" /\ job' = [job EXCEPT ![w] = job'[w]]
        /\ job'[w] = [job[w] EXCEPT !.pc = "link", !.cwe = x]
    BY <1>2, <2>1
  <2> QED  BY <1>1, <2>2 DEF Further, Section, Part, JobSound
<1>9. CASE LinkWeakness(w)
  <2> DEFINE rest == job[w].batch \ {job[w].cwe}
             to == [job[w] EXCEPT !.pc = IF rest # {}
                                           THEN "row"
                                           ELSE AfterBatch(job[w].ids),
                                  !.batch = rest]
  <2>1. /\ job[w].pc = "link" /\ job'[w] = to
        /\ job' = [job EXCEPT ![w] = job'[w]]
    <3>1. Step(w, "link", to)
      BY <1>9 DEF LinkWeakness
    <3> HIDE DEF to
    <3> QED  BY <1>2, <3>1
  <2>2. Fewer(rest, job[w].batch)
    BY <1>1, <2>1 DEF JobSound, Fewer
  <2> QED  BY <1>1, <2>1, <2>2
           DEF Job, Further, Section, Part, AfterBatch, JobSound
<1>10. CASE OpenStamp(w)
  BY <1>1, <1>2, <1>10 DEF OpenStamp, Job, Further, Section, JobSound
<1>11. CASE WriteStamp(w)
  BY <1>1, <1>11 DEF WriteStamp, Job, Further, Section, JobSound
<1>12. CASE Complete(w)
  BY <1>1, <1>2, <1>12 DEF Complete, NoJob, JobSound
<1>13. CASE Fail(w)
  BY <1>1, <1>2, <1>13 DEF Fail, Job, Further, Section, JobSound
<1> QED  BY <1>3, <1>4, <1>5, <1>6, <1>7, <1>8, <1>9, <1>10, <1>11, <1>12, <1>13
         DEF WorkerStep

\* No step of the program takes a sync back or makes its locals unsound.
LEMMA LoopNext == LoopInv /\ [Next]_vars => LoopInv' /\ GoesForward
<1> SUFFICES ASSUME LoopInv, [Next]_vars PROVE LoopInv' /\ GoesForward
  OBVIOUS
<1>1. TypeOK' /\ job \in [Worker -> Job]
  BY TypeNext DEF LoopInv, TypeOK
<1>2. CASE \E w \in Worker : WorkerStep(w)
  <2>1. PICK w \in Worker : WorkerStep(w)
    BY <1>2
  <2>2. \A v \in Worker : v # w => job'[v] = job[v]
    BY <1>1, <2>1, WorkerFurther
  <2> QED  BY <1>1, <2>1, <2>2, WorkerFurther DEF LoopInv, GoesForward
<1>3. CASE SpawnWorker
  <2>1. PICK w \in Worker :
          /\ ~Active(w)
          /\ job' = [job EXCEPT ![w] = [NoJob EXCEPT !.pc = "view"]]
    BY <1>3 DEF SpawnWorker
  <2>2. job'[w] = [NoJob EXCEPT !.pc = "view"]
    BY <1>1, <2>1
  <2>3. JobSound(job'[w])
    BY <2>2 DEF JobSound, NoJob
  <2>4. \A v \in Worker : v # w => job'[v] = job[v]
    BY <1>1, <2>1
  <2> QED  BY <1>1, <2>1, <2>3, <2>4 DEF LoopInv, GoesForward
<1>4. CASE ProcessEnds
  <2>1. \A w \in Worker : job'[w] = NoJob
    BY <1>4 DEF ProcessEnds
  <2> QED  BY <1>1, <2>1 DEF LoopInv, JobSound, NoJob, GoesForward
<1>5. CASE UNCHANGED job
  BY <1>1, <1>5 DEF LoopInv, GoesForward
<1> QED  BY <1>2, <1>3, <1>4, <1>5
         DEF Next, vars, Launch, EnterLoop, SyncCommand, RunPost, Quit, Exit,
             Crash, Publish, Age

\* The loops of Sync::run go forward, for any view, any batch size and any
\* answers: no category is visited twice, no batch is asked for again.  The
\* safety half of SyncEnds.
THEOREM SyncGoesForward == Spec => WorkersGoForward
<1>1. Init => LoopInv
  <2>1. JobSound(NoJob)
    BY DEF JobSound, NoJob
  <2>2. Init => \A w \in Worker : job[w] = NoJob
    BY DEF Init
  <2> QED  BY <2>1, <2>2, TypeInit DEF LoopInv
<1> QED  BY <1>1, LoopNext, PTL DEF Spec, WorkersGoForward

\* A nonempty family of subsets of a finite set has a smallest member.
LEMMA SmallestMember ==
  ASSUME NEW U, IsFiniteSet(U), NEW F \in SUBSET (SUBSET U), F # {}
  PROVE  \E s \in F : \A t \in F : ~Fewer(t, s)
<1>1. FiniteSubsetsOf(U) = SUBSET U
  BY FS_FiniteSubsetsOfFinite
<1>2. IsWellFoundedOn(StrictSubsetOrdering(U), SUBSET U)
  BY <1>1, FS_StrictSubsetOrderingWellFounded
<1>3. PICK s \in F : \A t \in F : <<t, s>> \notin StrictSubsetOrdering(U)
  BY <1>2, WFMin
<1>4. ASSUME NEW t \in F PROVE ~Fewer(t, s)
  <2>1. t \in SUBSET U /\ s \in SUBSET U
    OBVIOUS
  <2> QED  BY <1>3, <2>1 DEF StrictSubsetOrdering, Fewer
<1> QED  BY <1>4

\* Of the workers of a set inside one iteration of the category loop, at one
\* category and at its weaknesses, one is furthest.
LEMMA FurthestAtWeaknesses ==
  ASSUME NEW J \in SUBSET Job, J # {}, NEW todo,
         \A j \in J : Section(j.pc) = 1 /\ Part(j.pc) = 1 /\ j.todo = todo
  PROVE  \E j \in J : \A k \in J : ~Further(k, j)
<1> DEFINE F == {j.ids : j \in J}
<1>1. F \in SUBSET (SUBSET Cwe) /\ F # {}
  BY DEF Job
<1>2. PICK ids \in F : \A t \in F : ~Fewer(t, ids)
  <2> HIDE DEF F
  <2> QED  BY <1>1, SyncAssumption, SmallestMember
<1> DEFINE K == {j \in J : j.ids = ids}
           G == {j.batch : j \in K}
<1>3. G \in SUBSET (SUBSET Cwe) /\ G # {}
  BY <1>2 DEF Job
<1>4. PICK batch \in G : \A t \in G : ~Fewer(t, batch)
  <2> HIDE DEF G
  <2> QED  BY <1>3, SyncAssumption, SmallestMember
<1>5. PICK i \in K : i.batch = batch
  BY <1>4
<1>6. PICK j \in K : /\ j.batch = batch
                     /\ \A k \in K : k.batch = batch /\ k.pc = "link"
                                     => j.pc = "link"
  BY <1>5
<1>7. ASSUME NEW k \in J, Further(k, j) PROVE FALSE
  <2>1. /\ Section(j.pc) = 1 /\ Section(k.pc) = 1 /\ k.todo = j.todo
        /\ Part(j.pc) = 1 /\ Part(k.pc) = 1
    OBVIOUS
  <2>2. ~Fewer(k.todo, j.todo)
    BY <2>1 DEF Fewer
  <2>3. \/ Fewer(k.ids, j.ids)
        \/ k.ids = j.ids /\ Fewer(k.batch, j.batch)
        \/ /\ k.ids = j.ids /\ k.batch = j.batch
           /\ j.pc = "row" /\ k.pc = "link"
    BY <1>7, <2>1, <2>2 DEF Further
  <2>4. ~Fewer(k.ids, j.ids)
    BY <1>2
  <2>5. ASSUME k.ids = j.ids PROVE k \in K /\ ~Fewer(k.batch, j.batch)
    <3>1. k \in K /\ k.batch \in G
      BY <2>5
    <3> QED  BY <1>4, <1>6, <3>1
  <2> QED  BY <1>6, <2>3, <2>4, <2>5
<1> QED  BY <1>7

\* Of the workers of a set inside the category loop one is furthest.
LEMMA FurthestInLoop ==
  ASSUME NEW J \in SUBSET Job, J # {}, \A j \in J : Section(j.pc) = 1
  PROVE  \E j \in J : \A k \in J : ~Further(k, j)
<1> DEFINE F == {j.todo : j \in J}
<1>1. F \in SUBSET (SUBSET Cat) /\ F # {}
  BY DEF Job
<1>2. PICK todo \in F : \A t \in F : ~Fewer(t, todo)
  <2> HIDE DEF F
  <2> QED  BY <1>1, SyncAssumption, SmallestMember
<1> DEFINE K == {j \in J : j.todo = todo}
           Furthest(j) == \A k \in J : ~Further(k, j)
<1>3. \A j \in J : Part(j.pc) \in {0, 1, 2}
  BY DEF Part
<1>4. PICK i \in K : TRUE
  BY <1>2
<1>5. ASSUME NEW j \in K, NEW k \in J, Further(k, j)
      PROVE  /\ k \in K
             /\ (Part(j.pc) < Part(k.pc)) \/ (Part(j.pc) = 1 /\ Part(k.pc) = 1)
  <2>1. ~Fewer(k.todo, j.todo)
    BY <1>2
  <2>2. Section(j.pc) = 1 /\ Section(k.pc) = 1
    OBVIOUS
  <2>3. k.todo = j.todo
    BY <1>5, <2>1, <2>2 DEF Further
  <2>4. k \in K
    BY <2>3
  <2> HIDE DEF K
  <2> QED  BY <1>5, <2>1, <2>2, <2>4 DEF Further
<1>6. CASE \E j \in K : Part(j.pc) = 2
  <2>1. PICK j \in K : Part(j.pc) = 2
    BY <1>6
  <2> QED  BY <1>3, <1>5, <2>1
<1>7. CASE /\ \A j \in K : Part(j.pc) # 2
           /\ \E j \in K : Part(j.pc) = 1
  <2> DEFINE L == {j \in K : Part(j.pc) = 1}
  <2>1. PICK j \in L : \A k \in L : ~Further(k, j)
    <3>1. L \in SUBSET Job /\ L # {}
      BY <1>7
    <3>2. \A j \in L : Section(j.pc) = 1 /\ Part(j.pc) = 1 /\ j.todo = todo
      OBVIOUS
    <3> HIDE DEF L
    <3> QED  BY <3>1, <3>2, FurthestAtWeaknesses
  <2> QED  BY <1>3, <1>5, <1>7, <2>1
<1>8. CASE \A j \in K : Part(j.pc) = 0
  <2>1. \A k \in J : ~Further(k, i)
    BY <1>4, <1>5, <1>8
  <2> QED  BY <2>1
<1> QED  BY <1>3, <1>6, <1>7, <1>8

\* Locals of Sync::run and those that are further.
FurtherOrder == {p \in Job \X Job : Further(p[1], p[2])}

\* Going forward has an end: there is no infinite sequence of locals of
\* Sync::run, each further than the one before.  With SyncGoesForward, the
\* loops of a sync end if each of its requests does.
THEOREM SyncLoopsEnd == IsWellFoundedOn(FurtherOrder, Job)
<1>1. ASSUME NEW J \in SUBSET Job, J # {}
      PROVE  \E j \in J : \A k \in J : ~Further(k, j)
  <2> DEFINE At(n) == {j \in J : Section(j.pc) = n}
  <2>1. \A j \in J : Section(j.pc) \in {0, 1, 2, 3, 4, 5}
    BY DEF Section
  <2>2. PICK n \in {0, 1, 2, 3, 4, 5} :
          At(n) # {} /\ \A m \in {0, 1, 2, 3, 4, 5} : m > n => At(m) = {}
    <3>1. At(0) # {} \/ At(1) # {} \/ At(2) # {} \/ At(3) # {} \/ At(4) # {}
          \/ At(5) # {}
      BY <1>1, <2>1
    <3> HIDE DEF At
    <3> QED  BY <3>1
  <2>3. ASSUME NEW j \in At(n), NEW k \in J, Further(k, j)
        PROVE  k \in At(n) /\ n = 1
    <3>1. Section(k.pc) \in {0, 1, 2, 3, 4, 5} /\ Section(j.pc) = n
          /\ k \in At(Section(k.pc))
      BY <2>1
    <3>2. ~(n < Section(k.pc))
      <4> HIDE DEF At
      <4> QED  BY <2>2, <3>1
    <3> QED  BY <2>3, <3>1, <3>2 DEF Further
  <2>4. CASE n = 1
    <3>1. At(1) \in SUBSET Job /\ \A j \in At(1) : Section(j.pc) = 1
      OBVIOUS
    <3>2. PICK j \in At(1) : \A k \in At(1) : ~Further(k, j)
      <4> HIDE DEF At
      <4> QED  BY <2>2, <2>4, <3>1, FurthestInLoop
    <3> QED  BY <2>3, <2>4, <3>2
  <2>5. CASE n # 1
    BY <2>2, <2>3, <2>5
  <2> QED  BY <2>4, <2>5
<1>2. ASSUME NEW J, J \subseteq Job, J # {}
      PROVE  \E j \in J : \A k \in J : <<k, j>> \notin FurtherOrder
  BY <1>1, <1>2 DEF FurtherOrder
<1> HIDE DEF FurtherOrder
<1> QED  BY <1>2, MinWF
=============================================================================
