--------------------------- MODULE SyncStoreProof --------------------------
(***************************************************************************)
(* What is on disk, for every value of the constants of Sync and through   *)
(* any crash: links never dangle, content never gets older, and a          *)
(* timestamp vouches for everything its sync was told to store.  With that *)
(* and the invariants of the threads, Sync implements SyncJob: its initial *)
(* state is one of SyncJob, and every step is a step of SyncJob or leaves  *)
(* the abstract state alone.                                               *)
(***************************************************************************)
EXTENDS SyncProof

\* The rows on disk come from editions already published.
RowsSound ==
  /\ \A c \in Cat : db.cats[c] <= edition
  /\ \A x \in Cwe : db.cwes[x] <= edition

\* No row is newer than the answer a worker with locals j is storing: no one
\* else writes, and an answer is stored before the next is asked for.
AnswerSound(j) ==
  j.pc \in {"row", "link"} =>
    /\ j.from > 0 /\ j.from <= edition
    /\ \A x \in Cwe : db.cwes[x] <= j.from

\* Both ends of the link that worker will insert are there in time.
EndsSound(j) ==
  /\ j.pc \in {"batch", "row", "link"} => db.cats[j.cat] > 0
  /\ j.pc = "link" => db.cwes[j.cwe] > 0

\* Link l is among those the worker has still to insert.
StillToLink(j, l) ==
  /\ l[2] = j.cat
  /\ \/ j.pc \in {"batch", "row", "link"} /\ l[1] \in j.ids
     \/ j.pc \in {"row", "link"} /\ l[1] \in j.batch

CatSettled(j, since, c) ==
  \/ db.cats[c] >= since
  \/ c \in j.todo
  \/ j.pc = "category" /\ c = j.cat

LinkSettled(j, since, l) ==
  \/ l \in db.links /\ db.cwes[l[1]] >= since
  \/ StillToLink(j, l)

\* What the worker owes is stored or still on its lists.
DebtSound(j, d) ==
  /\ d.since <= edition
  /\ j.pc \in {"row", "link"} => d.since <= j.from
  /\ j.pc = "link" => db.cwes[j.cwe] >= d.since
  /\ j.pc \in {"stamp", "text", "ok"} => j.todo = {}
  /\ j.pc # "error" => /\ \A c \in d.cats : CatSettled(j, d.since, c)
                       /\ \A l \in d.links : LinkSettled(j, d.since, l)

WorkerSound(w) ==
  Active(w) => /\ AnswerSound(job[w])
               /\ EndsSound(job[w])
               /\ DebtSound(job[w], owed[w])

StoreInv ==
  /\ ThreadInv
  /\ RowsSound
  /\ ReferencesStored(db)
  /\ \A w \in Worker : WorkerSound(w)
  /\ StampVouches

-----------------------------------------------------------------------------
\* An empty catalogue without a timestamp owes nothing.
LEMMA StoreInit == Init => StoreInv
<1> SUFFICES ASSUME Init PROVE StoreInv
  OBVIOUS
<1>1. ThreadInv
  BY ThreadInit
<1>2. RowsSound /\ ReferencesStored(db)
  <2>1. /\ db.cats = [c \in Cat |-> 0] /\ db.cwes = [x \in Cwe |-> 0]
        /\ db.links = {} /\ edition = 1
    BY DEF Init, EmptyCatalog
  <2> QED  BY <2>1 DEF RowsSound, ReferencesStored
<1>3. \A w \in Worker : WorkerSound(w)
  BY DEF Init, WorkerSound, Active, NoJob
<1>4. StampVouches
  BY DEF Init, StampVouches
<1> QED  BY <1>1, <1>2, <1>3, <1>4 DEF StoreInv

\* A step of worker w leaves the other workers' locals alone.
LEMMA OthersKept ==
  ASSUME TypeOK, NEW w \in Worker, WorkerStep(w)
  PROVE  /\ edition' = edition
         /\ \/ stamped' = stamped /\ (stamp' # "none" => stamp # "none")
            \/ job[w].pc = "text" /\ stamped' = owed[w]
         /\ \A v \in Worker : v # w => job'[v] = job[v]
<1>1. job \in [Worker -> Job]
  BY DEF TypeOK
<1>2. ASSUME NEW pc, NEW to, Step(w, pc, to), stamp' = stamp \/ stamp' = "none"
      PROVE  /\ edition' = edition
             /\ stamped' = stamped /\ (stamp' # "none" => stamp # "none")
             /\ \A v \in Worker : v # w => job'[v] = job[v]
  BY <1>1, <1>2 DEF Step
<1>3. CASE WriteStamp(w)
  <2>1. /\ edition' = edition /\ job[w].pc = "text"
        /\ \/ stamped' = owed[w]
           \/ stamp' = stamp /\ stamped' = stamped
    BY <1>3 DEF WriteStamp
  <2>2. job' = [job EXCEPT ![w].pc = "ok"]
    BY <1>3 DEF WriteStamp
  <2> QED  BY <1>1, <2>1, <2>2
<1>4. ASSUME \/ FetchView(w) \/ NextCategory(w) \/ CategoryWithoutData(w)
             \/ FetchCategory(w) \/ FetchWeaknesses(w) \/ StoreWeakness(w)
             \/ LinkWeakness(w) \/ OpenStamp(w) \/ Complete(w) \/ Fail(w)
      PROVE  \E pc, to : /\ Step(w, pc, to)
                         /\ stamp' = stamp \/ stamp' = "none"
  BY <1>4 DEF FetchView, NextCategory, CategoryWithoutData, FetchCategory,
              FetchWeaknesses, StoreWeakness, LinkWeakness, OpenStamp,
              Complete, Fail
<1> QED  BY <1>2, <1>3, <1>4 DEF WorkerStep

\* The steps of a worker that leave the catalogue alone.
QuietStep(w) ==
  \/ FetchView(w) \/ NextCategory(w) \/ CategoryWithoutData(w)
  \/ FetchWeaknesses(w) \/ OpenStamp(w) \/ WriteStamp(w)
  \/ Complete(w) \/ Fail(w)

\* The steps of Sync::run that send a request, decide or fail write no row.
LEMMA QuietStepKeepsCatalog ==
  ASSUME NEW w \in Worker, QuietStep(w)
  PROVE  db' = db
BY DEF QuietStep, FetchView, NextCategory, CategoryWithoutData,
       FetchWeaknesses, OpenStamp, WriteStamp, Complete, Fail

\* What the three steps that write the catalogue do to it.
CategoryStored(w) ==
  /\ job[w].cat \in Cat
  /\ db'.cats = [db.cats EXCEPT ![job[w].cat] = edition]
  /\ db'.cwes = db.cwes
  /\ db'.links = db.links

WeaknessStored(w, x) ==
  /\ Step(w, "row", [job[w] EXCEPT !.pc = "link", !.cwe = x])
  /\ db'.cwes = [db.cwes EXCEPT ![x] = job[w].from]
  /\ db'.cats = db.cats
  /\ db'.links = db.links

WeaknessLinked(w) ==
  /\ job[w].cwe \in Cwe /\ job[w].cat \in Cat
  /\ db'.links = db.links \cup {<<job[w].cwe, job[w].cat>>}
  /\ db'.cats = db.cats
  /\ db'.cwes = db.cwes

\* What a step of Sync::run may do to the tables: nothing, one upsert, one link.
LEMMA CatalogEffect ==
  ASSUME TypeOK, NEW w \in Worker
  PROVE  /\ FetchCategory(w) => CategoryStored(w)
         /\ StoreWeakness(w) =>
              \E x \in Cwe : x \in job[w].batch /\ WeaknessStored(w, x)
         /\ LinkWeakness(w) => WeaknessLinked(w)
<1>1. job[w] \in Job /\ db \in CatalogType
  BY DEF TypeOK
<1>2. \A c, e : /\ UpsertCategory(db, c, e).cats = [db.cats EXCEPT ![c] = e]
                /\ UpsertCategory(db, c, e).cwes = db.cwes
                /\ UpsertCategory(db, c, e).links = db.links
  BY <1>1 DEF CatalogType, UpsertCategory
<1>3. \A x, e : /\ UpsertCwe(db, x, e).cwes = [db.cwes EXCEPT ![x] = e]
                /\ UpsertCwe(db, x, e).cats = db.cats
                /\ UpsertCwe(db, x, e).links = db.links
  BY <1>1 DEF CatalogType, UpsertCwe
<1>4. \A x, c : /\ LinkCweCategory(db, x, c).links = db.links \cup {<<x, c>>}
                /\ LinkCweCategory(db, x, c).cats = db.cats
                /\ LinkCweCategory(db, x, c).cwes = db.cwes
  BY <1>1 DEF CatalogType, LinkCweCategory
<1>5. /\ job[w].batch \subseteq Cwe
      /\ job[w].pc = "category" => job[w].cat \in Cat
      /\ job[w].pc = "link" => job[w].cat \in Cat /\ job[w].cwe \in Cwe
  BY <1>1 DEF Job
<1>6. ASSUME FetchCategory(w) PROVE CategoryStored(w)
  <2>1. /\ job[w].pc = "category"
        /\ db' = UpsertCategory(db, job[w].cat, edition)
    BY <1>6 DEF FetchCategory, Step
  <2> QED  BY <1>2, <1>5, <2>1 DEF CategoryStored
<1>7. ASSUME LinkWeakness(w) PROVE WeaknessLinked(w)
  <2>1. /\ job[w].pc = "link"
        /\ db' = LinkCweCategory(db, job[w].cwe, job[w].cat)
    BY <1>7 DEF LinkWeakness, Step
  <2> QED  BY <1>4, <1>5, <2>1 DEF WeaknessLinked
<1>8. ASSUME StoreWeakness(w)
      PROVE  \E x \in Cwe : x \in job[w].batch /\ WeaknessStored(w, x)
  <2>1. PICK x \in job[w].batch :
          /\ Step(w, "row", [job[w] EXCEPT !.pc = "link", !.cwe = x])
          /\ db' = UpsertCwe(db, x, job[w].from)
    BY <1>8 DEF StoreWeakness
  <2> QED  BY <1>3, <1>5, <2>1 DEF WeaknessStored
<1> QED  BY <1>6, <1>7, <1>8

\* RowsNeverRegress, for a step of a worker.
LEMMA WorkerGrows ==
  ASSUME StoreInv, NEW w \in Worker, WorkerStep(w)
  PROVE  RowsGrow
<1>1. TypeOK /\ RowsSound /\ WorkerSound(w) /\ Active(w)
  BY WorkerFrame DEF StoreInv, ThreadInv
<1>2. /\ db.cats \in [Cat -> Nat] /\ db.cwes \in [Cwe -> Nat]
      /\ edition \in Nat /\ job[w].from \in Nat
  BY <1>1, SourceTyped DEF TypeOK, CatalogType, Job
<1>3. CASE FetchCategory(w)
  <2>1. CategoryStored(w)
    BY <1>1, <1>3, CatalogEffect
  <2> QED  BY <1>1, <1>2, <2>1 DEF RowsSound, RowsGrow, CategoryStored
<1>4. CASE StoreWeakness(w)
  <2>1. PICK x \in Cwe : WeaknessStored(w, x)
    BY <1>1, <1>4, CatalogEffect
  <2>2. db.cwes[x] <= job[w].from
    BY <1>1, <2>1 DEF WeaknessStored, Step, WorkerSound, AnswerSound
  <2> QED  BY <1>2, <2>1, <2>2 DEF RowsGrow, WeaknessStored
<1>5. CASE LinkWeakness(w)
  <2>1. WeaknessLinked(w)
    BY <1>1, <1>5, CatalogEffect
  <2> QED  BY <1>2, <2>1 DEF RowsGrow, WeaknessLinked
<1>6. CASE QuietStep(w)
  BY <1>2, <1>6, QuietStepKeepsCatalog DEF RowsGrow
<1> QED  BY <1>3, <1>4, <1>5, <1>6 DEF WorkerStep, QuietStep

\* What a step that leaves the catalogue alone does to the worker's lists.
LEMMA QuietStepKeepsSound ==
  ASSUME StoreInv, NEW w \in Worker, QuietStep(w)
  PROVE  WorkerSound(w)'
<1> DEFINE j == job[w]
           d == owed[w]
<1>1. WorkerStep(w)
  BY DEF QuietStep, WorkerStep
<1>2. /\ TypeOK /\ RowsSound /\ db' = db /\ edition' = edition
      /\ AnswerSound(j) /\ EndsSound(j) /\ DebtSound(j, d)
  BY <1>1, WorkerFrame, OthersKept, QuietStepKeepsCatalog
     DEF StoreInv, ThreadInv, WorkerSound
<1>3. /\ j \in Job /\ d \in Debt /\ job \in [Worker -> Job]
      /\ owed \in [Worker -> Debt] /\ edition \in Nat /\ edition > 0
  BY <1>2, SourceTyped DEF TypeOK
<1>4. CASE FetchView(w)
  <2>1. /\ j.pc = "view"
        /\ job'[w] = [j EXCEPT !.pc = "next", !.todo = Members[edition]]
        /\ owed'[w] = [d EXCEPT !.cats = Members[edition]]
    BY <1>3, <1>4 DEF FetchView, Step
  <2>2. /\ job'[w].pc = "next" /\ job'[w].todo = Members[edition]
        /\ owed'[w].cats = Members[edition] /\ owed'[w].links = d.links
        /\ owed'[w].since = d.since
    BY <1>3, <2>1 DEF Job, Debt
  <2> QED  BY <1>2, <2>1, <2>2
           DEF WorkerSound, AnswerSound, EndsSound, DebtSound, CatSettled,
               LinkSettled, StillToLink
<1>5. CASE NextCategory(w)
  <2>1. /\ j.pc = "next" /\ owed' = owed
        /\ \/ \E c \in j.todo :
                job'[w] = [j EXCEPT !.pc = "category", !.cat = c,
                                    !.todo = @ \ {c}]
           \/ j.todo = {} /\ job'[w] = [j EXCEPT !.pc = "stamp"]
    BY <1>3, <1>5 DEF NextCategory, Step
  <2>2. CASE \E c \in j.todo :
               job'[w] = [j EXCEPT !.pc = "category", !.cat = c,
                                   !.todo = @ \ {c}]
    <3>1. PICK c \in j.todo :
            /\ job'[w].pc = "category" /\ job'[w].cat = c
            /\ job'[w].todo = j.todo \ {c}
      BY <1>3, <2>2 DEF Job
    <3> QED  BY <1>2, <2>1, <3>1
             DEF WorkerSound, AnswerSound, EndsSound, DebtSound, CatSettled,
                 LinkSettled, StillToLink
  <2>3. CASE j.todo = {} /\ job'[w] = [j EXCEPT !.pc = "stamp"]
    <3>1. job'[w].pc = "stamp" /\ job'[w].todo = {}
      BY <1>3, <2>3 DEF Job
    <3> QED  BY <1>2, <2>1, <2>3, <3>1
             DEF WorkerSound, AnswerSound, EndsSound, DebtSound, CatSettled,
                 LinkSettled, StillToLink
  <2> QED  BY <2>1, <2>2, <2>3
<1>6. CASE CategoryWithoutData(w)
  <2>1. /\ j.pc = "category"
        /\ job'[w] = [j EXCEPT !.pc = "next"]
        /\ owed'[w] = [d EXCEPT !.cats = @ \ {j.cat}]
    BY <1>3, <1>6 DEF CategoryWithoutData, Step
  <2>2. /\ job'[w].pc = "next" /\ job'[w].todo = j.todo
        /\ owed'[w].cats = d.cats \ {j.cat} /\ owed'[w].links = d.links
        /\ owed'[w].since = d.since
    BY <1>3, <2>1 DEF Job, Debt
  <2> QED  BY <1>2, <2>1, <2>2
           DEF WorkerSound, AnswerSound, EndsSound, DebtSound, CatSettled,
               LinkSettled, StillToLink
<1>7. CASE FetchWeaknesses(w)
  <2>1. PICK asked \in SUBSET j.ids, got \in SUBSET j.ids :
          /\ got \subseteq asked /\ j.pc = "batch"
          /\ job'[w] = [j EXCEPT !.pc = IF got = {} THEN AfterBatch(j.ids \ asked)
                                                    ELSE "row",
                                 !.ids = j.ids \ asked, !.batch = got,
                                 !.from = edition]
          /\ owed'[w] = [d EXCEPT !.links = @ \ ((asked \ got) \X {j.cat})]
    BY <1>3, <1>7 DEF FetchWeaknesses, Step
  <2>2. /\ job'[w].pc = IF got = {} THEN AfterBatch(j.ids \ asked) ELSE "row"
        /\ job'[w].ids = j.ids \ asked /\ job'[w].batch = got
        /\ job'[w].from = edition /\ job'[w].cat = j.cat
        /\ job'[w].todo = j.todo
    BY <1>3, <2>1 DEF Job
  <2>3. /\ owed'[w].cats = d.cats /\ owed'[w].since = d.since
        /\ owed'[w].links = d.links \ ((asked \ got) \X {j.cat})
    BY <1>3, <2>1 DEF Debt
  <2>4. /\ AnswerSound(job[w])' /\ EndsSound(job[w])'
    BY <1>2, <1>3, <2>1, <2>2 DEF AnswerSound, EndsSound, RowsSound, AfterBatch
  <2>5. \A c \in owed'[w].cats : CatSettled(job[w], owed[w].since, c)'
    BY <1>2, <2>1, <2>2, <2>3 DEF DebtSound, CatSettled
  <2>6. ASSUME NEW l \in owed'[w].links
        PROVE  LinkSettled(job[w], owed[w].since, l)'
    <3>1. LinkSettled(j, d.since, l) /\ l \in d.links
      BY <1>2, <2>1, <2>3, <2>6 DEF DebtSound
    <3>2. CASE l \in db.links /\ db.cwes[l[1]] >= d.since
      BY <1>2, <2>3, <3>2 DEF LinkSettled
    <3>3. CASE StillToLink(j, l)
      <4>1. l[2] = j.cat /\ l[1] \in j.ids
        BY <2>1, <3>3 DEF StillToLink
      <4>2. l = <<l[1], l[2]>>
        BY <1>3, <3>1 DEF Debt
      <4>3. l[1] \notin asked \ got
        BY <2>3, <2>6, <4>1, <4>2
      <4> QED  BY <2>1, <2>2, <4>1, <4>3
               DEF LinkSettled, StillToLink, AfterBatch
    <3> QED  BY <3>1, <3>2, <3>3 DEF LinkSettled
  <2> QED  BY <1>2, <1>3, <2>1, <2>2, <2>3, <2>4, <2>5, <2>6
           DEF WorkerSound, DebtSound, AfterBatch
<1>8. CASE OpenStamp(w) \/ WriteStamp(w)
  <2>1. /\ j.pc \in {"stamp", "text"} /\ owed' = owed
        /\ \E pc \in {"text", "ok"} : job'[w] = [j EXCEPT !.pc = pc]
    BY <1>3, <1>8 DEF OpenStamp, WriteStamp, Step
  <2>2. job'[w].pc \in {"text", "ok"} /\ job'[w].todo = j.todo
    BY <1>3, <2>1 DEF Job
  <2> QED  BY <1>2, <2>1, <2>2
           DEF WorkerSound, AnswerSound, EndsSound, DebtSound, CatSettled,
               LinkSettled, StillToLink
<1>9. CASE Complete(w)
  <2>1. job'[w] = NoJob
    BY <1>3, <1>9 DEF Complete, Step
  <2> QED  BY <2>1 DEF WorkerSound, Active, NoJob
<1>10. CASE Fail(w)
  <2>1. job'[w] = [j EXCEPT !.pc = "error"] /\ owed' = owed
    BY <1>3, <1>10 DEF Fail, Step
  <2>2. job'[w].pc = "error"
    BY <1>3, <2>1 DEF Job
  <2> QED  BY <1>2, <2>1, <2>2
           DEF WorkerSound, AnswerSound, EndsSound, DebtSound
<1> QED  BY <1>4, <1>5, <1>6, <1>7, <1>8, <1>9, <1>10 DEF QuietStep

\* A step of Sync::run that writes a row or a link keeps its accounts right.
LEMMA WritingStepKeepsSound ==
  ASSUME StoreInv, NEW w \in Worker,
         FetchCategory(w) \/ StoreWeakness(w) \/ LinkWeakness(w)
  PROVE  WorkerSound(w)'
<1> DEFINE j == job[w]
           d == owed[w]
<1>1. WorkerStep(w)
  BY DEF WorkerStep
<1>2. /\ TypeOK /\ RowsSound /\ edition' = edition /\ RowsGrow
      /\ AnswerSound(j) /\ EndsSound(j) /\ DebtSound(j, d)
  BY <1>1, WorkerFrame, OthersKept, WorkerGrows
     DEF StoreInv, ThreadInv, WorkerSound
<1>3. /\ j \in Job /\ d \in Debt /\ job \in [Worker -> Job]
      /\ owed \in [Worker -> Debt] /\ edition \in Nat /\ edition > 0
      /\ db.cats \in [Cat -> Nat] /\ db.cwes \in [Cwe -> Nat]
  BY <1>2, SourceTyped DEF TypeOK, CatalogType
<1>4. /\ db'.cats \in [Cat -> Nat] /\ db'.cwes \in [Cwe -> Nat]
  BY <1>1, <1>2, WorkerTyped DEF TypeOK, CatalogType
\* What was stored stays stored.
<1>5. /\ \A c \in Cat, n \in Nat : db.cats[c] >= n => db'.cats[c] >= n
      /\ \A x \in Cwe, n \in Nat : db.cwes[x] >= n => db'.cwes[x] >= n
      /\ db.links \subseteq db'.links
  BY <1>2, <1>3, <1>4 DEF RowsGrow
<1>6. /\ d.since \in Nat /\ d.cats \subseteq Cat
      /\ \A l \in d.links : l[1] \in Cwe /\ l[2] \in Cat /\ l = <<l[1], l[2]>>
  BY <1>3 DEF Debt
<1>7. CASE FetchCategory(w)
  <2> DEFINE ids == Rel[edition][j.cat]
  <2>1. CategoryStored(w)
    BY <1>2, <1>7, CatalogEffect
  <2>2. /\ j.pc = "category"
        /\ job'[w] = [j EXCEPT !.pc = IF ids = {} THEN "next" ELSE "batch",
                               !.ids = ids]
        /\ owed'[w] = [d EXCEPT !.links = @ \cup (ids \X {j.cat})]
    BY <1>3, <1>7 DEF FetchCategory, Step
  <2>3. /\ job'[w].pc = IF ids = {} THEN "next" ELSE "batch"
        /\ job'[w].ids = ids /\ job'[w].cat = j.cat /\ job'[w].todo = j.todo
        /\ owed'[w].cats = d.cats /\ owed'[w].since = d.since
        /\ owed'[w].links = d.links \cup (ids \X {j.cat})
    BY <1>3, <2>2 DEF Job, Debt
  <2>4. AnswerSound(job[w])' /\ EndsSound(job[w])'
    BY <1>3, <2>1, <2>3 DEF AnswerSound, EndsSound, CategoryStored
  <2>5. ASSUME NEW c \in d.cats
        PROVE  CatSettled(job[w], owed[w].since, c)'
    <3>1. CatSettled(j, d.since, c)
      BY <1>2, <2>2 DEF DebtSound
    <3>2. CASE c = j.cat
      <4>1. db'.cats[c] = edition
        BY <1>3, <2>1, <3>2 DEF CategoryStored
      <4> QED  BY <1>2, <1>6, <2>3, <4>1 DEF CatSettled, DebtSound
    <3>3. CASE c # j.cat
      BY <1>5, <1>6, <2>3, <3>1, <3>3 DEF CatSettled
    <3> QED  BY <3>2, <3>3
  <2>6. ASSUME NEW l \in owed'[w].links
        PROVE  LinkSettled(job[w], owed[w].since, l)'
    <3>1. CASE l \in d.links
      <4>1. l \in db.links /\ db.cwes[l[1]] >= d.since
        BY <1>2, <2>2, <3>1 DEF DebtSound, LinkSettled, StillToLink
      <4> QED  BY <1>5, <1>6, <2>3, <3>1, <4>1 DEF LinkSettled
    <3>2. CASE l \in ids \X {j.cat}
      BY <2>3, <3>2 DEF LinkSettled, StillToLink
    <3> QED  BY <2>3, <2>6, <3>1, <3>2
  <2> QED  BY <1>2, <2>3, <2>4, <2>5, <2>6 DEF WorkerSound, DebtSound
<1>8. CASE StoreWeakness(w)
  <2>1. PICK x \in Cwe : x \in j.batch /\ WeaknessStored(w, x)
    BY <1>2, <1>8, CatalogEffect
  <2>2. /\ j.pc = "row" /\ owed' = owed
        /\ job'[w] = [j EXCEPT !.pc = "link", !.cwe = x]
    BY <1>3, <1>8, <2>1 DEF StoreWeakness, WeaknessStored, Step
  <2>3. /\ job'[w].pc = "link" /\ job'[w].cwe = x /\ job'[w].from = j.from
        /\ job'[w].cat = j.cat /\ job'[w].todo = j.todo
        /\ job'[w].ids = j.ids /\ job'[w].batch = j.batch
    BY <1>3, <2>2 DEF Job
  <2>4. /\ j.from \in Nat /\ j.from > 0 /\ d.since <= j.from
        /\ db'.cwes = [db.cwes EXCEPT ![x] = j.from] /\ db'.cats = db.cats
    BY <1>2, <1>3, <2>1, <2>2
       DEF AnswerSound, DebtSound, WeaknessStored, Job
  <2>5. AnswerSound(job[w])' /\ EndsSound(job[w])'
    BY <1>2, <1>3, <2>2, <2>3, <2>4 DEF AnswerSound, EndsSound
  <2>6. ASSUME NEW l \in d.links
        PROVE  LinkSettled(job[w], owed[w].since, l)'
    <3>1. LinkSettled(j, d.since, l)
      BY <1>2, <2>2 DEF DebtSound
    <3> QED  BY <1>5, <1>6, <2>2, <2>3, <3>1 DEF LinkSettled, StillToLink
  <2>7. \A c \in d.cats : CatSettled(job[w], owed[w].since, c)'
    BY <1>2, <2>2, <2>3, <2>4 DEF CatSettled, DebtSound
  <2>8. db'.cwes[x] >= d.since
    BY <1>3, <1>6, <2>4
  <2> QED  BY <1>2, <2>2, <2>3, <2>4, <2>5, <2>6, <2>7, <2>8
           DEF WorkerSound, DebtSound
<1>9. CASE LinkWeakness(w)
  <2> DEFINE rest == j.batch \ {j.cwe}
  <2>1. WeaknessLinked(w)
    BY <1>2, <1>9, CatalogEffect
  <2>2. /\ j.pc = "link" /\ owed' = owed
        /\ job'[w] = [j EXCEPT !.pc = IF rest # {} THEN "row"
                                                  ELSE AfterBatch(j.ids),
                               !.batch = rest]
    BY <1>3, <1>9 DEF LinkWeakness, Step
  <2>3. /\ job'[w].pc = IF rest # {} THEN "row" ELSE AfterBatch(j.ids)
        /\ job'[w].from = j.from /\ job'[w].batch = rest
        /\ job'[w].cat = j.cat /\ job'[w].todo = j.todo /\ job'[w].ids = j.ids
    BY <1>3, <2>2 DEF Job
  <2>4. AnswerSound(job[w])' /\ EndsSound(job[w])'
    BY <1>2, <2>1, <2>2, <2>3
       DEF AnswerSound, EndsSound, WeaknessLinked, AfterBatch
  <2>5. \A c \in d.cats : CatSettled(job[w], owed[w].since, c)'
    BY <1>2, <2>1, <2>2, <2>3 DEF CatSettled, DebtSound, WeaknessLinked
  <2>6. ASSUME NEW l \in d.links
        PROVE  LinkSettled(job[w], owed[w].since, l)'
    <3>1. LinkSettled(j, d.since, l)
      BY <1>2, <2>2 DEF DebtSound
    <3>2. CASE l \in db.links /\ db.cwes[l[1]] >= d.since
      BY <1>5, <1>6, <2>2, <3>2 DEF LinkSettled
    <3>3. CASE l = <<j.cwe, j.cat>>
      <4>1. l \in db'.links /\ db'.cwes[l[1]] = db.cwes[j.cwe]
        BY <2>1, <3>3 DEF WeaknessLinked
      <4> QED  BY <1>2, <2>2, <4>1 DEF LinkSettled, DebtSound
    <3>4. CASE StillToLink(j, l) /\ l # <<j.cwe, j.cat>>
      <4>1. l[2] = j.cat /\ l[1] # j.cwe
        BY <1>6, <3>4 DEF StillToLink
      <4> QED  BY <2>2, <2>3, <3>4, <4>1
               DEF LinkSettled, StillToLink, AfterBatch
    <3> QED  BY <3>1, <3>2, <3>3, <3>4 DEF LinkSettled
  <2> QED  BY <1>2, <2>1, <2>2, <2>3, <2>4, <2>5, <2>6
           DEF WorkerSound, DebtSound, AfterBatch
<1> QED  BY <1>7, <1>8, <1>9

\* Stored(d) is never undone, since no row or link is.
LEMMA StoredKept ==
  ASSUME TypeOK, TypeOK', RowsGrow, NEW d \in Debt, Stored(d)
  PROVE  Stored(d)'
<1>1. /\ db.cats \in [Cat -> Nat] /\ db.cwes \in [Cwe -> Nat]
      /\ db'.cats \in [Cat -> Nat] /\ db'.cwes \in [Cwe -> Nat]
      /\ d.since \in Nat /\ d.cats \subseteq Cat
      /\ \A l \in d.links : l[1] \in Cwe
  BY DEF TypeOK, CatalogType, Debt
<1>2. \A c \in d.cats : db'.cats[c] >= d.since
  BY <1>1 DEF Stored, RowsGrow
<1>3. \A l \in d.links : l \in db'.links /\ db'.cwes[l[1]] >= d.since
  BY <1>1 DEF Stored, RowsGrow
<1> QED  BY <1>2, <1>3 DEF Stored

\* A step of Sync::run writes the timestamp only over a whole sync.
LEMMA WorkerKeepsStamp ==
  ASSUME StoreInv, NEW w \in Worker, WorkerStep(w)
  PROVE  StampVouches'
<1>1. /\ TypeOK /\ TypeOK' /\ RowsGrow
      /\ stamped \in Debt /\ owed[w] \in Debt
  BY WorkerTyped, WorkerGrows DEF StoreInv, ThreadInv, TypeOK
<1>2. CASE stamped' = stamped /\ (stamp' # "none" => stamp # "none")
  <2>1. stamp' # "none" => Stored(stamped)'
    BY <1>1, <1>2, StoredKept DEF StoreInv, StampVouches, Stored
  <2> QED  BY <2>1 DEF StampVouches
<1>3. CASE job[w].pc = "text" /\ stamped' = owed[w]
  <2>1. DebtSound(job[w], owed[w])
    BY <1>3, WorkerFrame DEF StoreInv, ThreadInv, WorkerSound
  <2>2. Stored(owed[w])
    BY <1>3, <2>1 DEF DebtSound, CatSettled, LinkSettled, StillToLink, Stored
  <2>3. db' = db
    BY <1>3 DEF WorkerStep, FetchView, NextCategory, CategoryWithoutData,
                FetchCategory, FetchWeaknesses, StoreWeakness, LinkWeakness,
                OpenStamp, WriteStamp, Complete, Fail, Step
  <2> QED  BY <1>3, <2>2, <2>3 DEF StampVouches, Stored
<1> QED  BY <1>1, <1>2, <1>3, OthersKept

\* A step of Sync::run never leaves a dangling link or a refused insert.
LEMMA WorkerKeepsRows ==
  ASSUME StoreInv, NEW w \in Worker, WorkerStep(w)
  PROVE  RowsSound' /\ ReferencesStored(db)'
<1>1. /\ TypeOK /\ TypeOK' /\ RowsSound /\ RowsGrow /\ edition' = edition
      /\ ReferencesStored(db) /\ WorkerSound(w) /\ Active(w)
  BY WorkerFrame, WorkerTyped, WorkerGrows, OthersKept
     DEF StoreInv, ThreadInv
<1>2. /\ db.cats \in [Cat -> Nat] /\ db.cwes \in [Cwe -> Nat]
      /\ db'.cats \in [Cat -> Nat] /\ db'.cwes \in [Cwe -> Nat]
      /\ db.links \subseteq Cwe \X Cat /\ edition \in Nat
      /\ job[w] \in Job
  BY <1>1, SourceTyped DEF TypeOK, CatalogType
<1>3. /\ \A c \in Cat : db.cats[c] > 0 => db'.cats[c] > 0
      /\ \A x \in Cwe : db.cwes[x] > 0 => db'.cwes[x] > 0
  BY <1>1, <1>2 DEF RowsGrow
<1>4. \A l \in db.links : LinkAllowed(db, l[1], l[2])'
  BY <1>1, <1>2, <1>3 DEF ReferencesStored, LinkAllowed
<1>5. CASE FetchCategory(w)
  <2>1. CategoryStored(w)
    BY <1>1, <1>5, CatalogEffect
  <2> QED  BY <1>1, <1>2, <1>4, <2>1
           DEF RowsSound, ReferencesStored, CategoryStored
<1>6. CASE StoreWeakness(w)
  <2>1. PICK x \in Cwe : WeaknessStored(w, x)
    BY <1>1, <1>6, CatalogEffect
  <2>2. job[w].from <= edition /\ job[w].from \in Nat
    BY <1>1, <1>2, <2>1
       DEF WeaknessStored, Step, WorkerSound, AnswerSound, Job
  <2> QED  BY <1>1, <1>2, <1>4, <2>1, <2>2
           DEF RowsSound, ReferencesStored, WeaknessStored
<1>7. CASE LinkWeakness(w)
  <2>1. WeaknessLinked(w)
    BY <1>1, <1>7, CatalogEffect
  <2>2. LinkAllowed(db, job[w].cwe, job[w].cat)
    BY <1>7 DEF LinkWeakness
  <2>3. LinkAllowed(db', job[w].cwe, job[w].cat)
    BY <2>1, <2>2 DEF LinkAllowed, WeaknessLinked
  <2>4. \A l \in db.links : LinkAllowed(db', l[1], l[2])
    BY <1>4 DEF LinkAllowed
  <2>5. ReferencesStored(db')
    BY <2>1, <2>3, <2>4 DEF ReferencesStored, WeaknessLinked
  <2> QED  BY <1>1, <2>1, <2>5
           DEF RowsSound, ReferencesStored, WeaknessLinked
<1>8. CASE QuietStep(w)
  BY <1>1, <1>8, QuietStepKeepsCatalog DEF RowsSound, ReferencesStored
<1> QED  BY <1>5, <1>6, <1>7, <1>8 DEF WorkerStep, QuietStep

\* A step of Sync::run keeps StoreInv.
LEMMA StoreWorker ==
  ASSUME StoreInv, NEW w \in Worker, WorkerStep(w)
  PROVE  StoreInv'
<1>1. ThreadInv'
  BY ThreadWorker DEF StoreInv
<1>2. WorkerSound(w)'
  BY QuietStepKeepsSound, WritingStepKeepsSound DEF WorkerStep, QuietStep
<1>3. ASSUME NEW v \in Worker, v # w
      PROVE  WorkerSound(v)'
  <2>1. ~Active(v)'
    BY <1>3, WorkerFrame DEF StoreInv, ThreadInv, OneWorker
  <2> QED  BY <2>1 DEF WorkerSound
<1>4. \A v \in Worker : WorkerSound(v)'
  BY <1>2, <1>3
<1> QED  BY <1>1, <1>4, WorkerKeepsRows, WorkerKeepsStamp DEF StoreInv

\* A new worker owes nothing yet.
LEMMA SpawnSound ==
  ASSUME TypeOK, Completed, SpawnWorker, edition' = edition
  PROVE  \A w \in Worker : WorkerSound(w)'
<1>1. PICK u \in Worker :
        /\ job' = [job EXCEPT ![u] = [NoJob EXCEPT !.pc = "view"]]
        /\ owed' = [owed EXCEPT ![u] = [NoDebt EXCEPT !.since = edition]]
  BY DEF SpawnWorker
<1>2. /\ job'[u].pc = "view" /\ owed'[u].cats = {} /\ owed'[u].links = {}
      /\ owed'[u].since = edition
  BY <1>1 DEF TypeOK, NoJob, NoDebt
<1>3. \A w \in Worker : w # u => ~Active(w)'
  BY <1>1 DEF TypeOK, Completed, Active
<1>4. WorkerSound(u)'
  BY <1>2, SourceTyped
     DEF WorkerSound, AnswerSound, EndsSound, DebtSound, CatSettled, LinkSettled
<1> QED  BY <1>3, <1>4 DEF WorkerSound

\* A step of the UI thread, the process or the environment keeps StoreInv.
LEMMA StoreUI ==
  ASSUME StoreInv,
         Launch \/ EnterLoop \/ SyncCommand \/ RunPost \/ Quit \/ Exit \/ Crash
  PROVE  StoreInv'
<1>1. ThreadInv /\ ThreadInv' /\ TypeOK
  BY ThreadUI DEF StoreInv, ThreadInv
<1>2. UNCHANGED <<edition, db, stamp, stamped>>
  BY DEF Launch, EnterLoop, SyncCommand, RunPost, Quit, Exit, Crash, ProcessEnds
<1>3. RowsSound' /\ ReferencesStored(db)' /\ StampVouches'
  BY <1>2 DEF StoreInv, RowsSound, ReferencesStored, LinkAllowed, StampVouches,
              Stored
<1>4. \/ UNCHANGED <<job, owed>>
      \/ ~sync_running /\ SpawnWorker
      \/ job' = [w \in Worker |-> NoJob]
  <2>1. CASE Launch
    <3>1. ~sync_running
      BY <1>1, <2>1 DEF Launch, ThreadInv
    <3> QED  BY <2>1, <3>1 DEF Launch
  <2> QED  BY <2>1 DEF EnterLoop, SyncCommand, RunPost, Quit, Exit, Crash,
                       ProcessEnds
<1>5. \A w \in Worker : WorkerSound(w)'
  <2>1. CASE UNCHANGED <<job, owed>>
    BY <1>2, <2>1 DEF StoreInv, WorkerSound, Active, AnswerSound, EndsSound,
                      DebtSound, CatSettled, LinkSettled, StillToLink
  <2>2. CASE ~sync_running /\ SpawnWorker
    <3>1. Completed
      BY <1>1, <2>2 DEF ThreadInv, OneWorker, Completed
    <3> QED  BY <1>1, <1>2, <2>2, <3>1, SpawnSound
  <2>3. CASE job' = [w \in Worker |-> NoJob]
    BY <2>3 DEF WorkerSound, Active, NoJob
  <2> QED  BY <1>4, <2>1, <2>2, <2>3
<1> QED  BY <1>1, <1>3, <1>5 DEF StoreInv

\* Every step of the program keeps StoreInv.
LEMMA StoreNext == StoreInv /\ [Next]_vars => StoreInv'
<1> SUFFICES ASSUME StoreInv, [Next]_vars PROVE StoreInv'
  OBVIOUS
<1>1. CASE Publish \/ Age \/ UNCHANGED vars
  <2>1. ThreadInv' /\ TypeOK /\ TypeOK'
    BY ThreadNext DEF StoreInv, ThreadInv
  <2>2. /\ UNCHANGED <<db, job, owed, stamped>>
        /\ stamp' # "none" => stamp # "none"
        /\ edition' = edition \/ edition' = edition + 1
    BY <1>1 DEF Publish, Age, vars
  <2>3. edition \in Nat /\ edition' >= edition /\ edition' \in Nat
    BY <2>1, <2>2, SourceTyped
  <2>4. /\ \A n \in Nat : n <= edition => n <= edition'
    BY <2>3
  <2>5. RowsSound' /\ ReferencesStored(db)' /\ StampVouches'
    BY <2>1, <2>2, <2>4
       DEF StoreInv, RowsSound, ReferencesStored, LinkAllowed, StampVouches,
           Stored, TypeOK, CatalogType
  <2>6. ASSUME NEW w \in Worker PROVE WorkerSound(w)'
    <3>1. job[w].from \in Nat /\ owed[w].since \in Nat
      BY <2>1 DEF TypeOK, Job, Debt
    <3> QED  BY <2>2, <2>4, <3>1
             DEF StoreInv, WorkerSound, Active, AnswerSound, EndsSound,
                 DebtSound, CatSettled, LinkSettled, StillToLink
  <2> QED  BY <2>1, <2>5, <2>6 DEF StoreInv
<1> QED  BY <1>1, StoreUI, StoreWorker DEF Next

\* What the worker was told, has stored and still has to store add up at every
\* point of Sync::run: StoreInv is inductive.
THEOREM StoreInductive == Spec => []StoreInv
BY StoreInit, StoreNext, PTL DEF Spec

\* Links on disk never dangle and no insert of a link is refused, after any
\* crash and whatever the API left out.
THEOREM LinksNeverDangle == Spec => []LinksResolve
<1>1. StoreInv => LinksResolve
  BY DEF StoreInv, LinksResolve, WorkerSound, Active, EndsSound, LinkAllowed
<1> QED  BY <1>1, StoreInductive, PTL

\* A timestamp vouches for a whole sync: a sync that failed or died half way
\* leaves none, so that the next start repeats it.
THEOREM StampIsEarned == Spec => []StampVouches
<1>1. StoreInv => StampVouches
  BY DEF StoreInv
<1> QED  BY <1>1, StoreInductive, PTL

\* No step of the program gives a row older content or deletes a row or link.
THEOREM CatalogueOnlyGrows == Spec => RowsNeverRegress
<1>1. StoreInv /\ [Next]_vars => [RowsGrow]_vars
  <2> SUFFICES ASSUME StoreInv, Next PROVE RowsGrow
    BY DEF vars
  <2>1. ASSUME db' = db PROVE RowsGrow
    <3>1. db.cats \in [Cat -> Nat] /\ db.cwes \in [Cwe -> Nat]
      BY DEF StoreInv, ThreadInv, TypeOK, CatalogType
    <3> QED  BY <2>1, <3>1 DEF RowsGrow
  <2>2. CASE \/ Launch \/ EnterLoop \/ SyncCommand \/ RunPost \/ Quit \/ Exit
             \/ Crash \/ Publish \/ Age
    BY <2>1, <2>2 DEF Launch, EnterLoop, SyncCommand, RunPost, Quit, Exit,
                      Crash, ProcessEnds, Publish, Age
  <2> QED  BY <2>2, WorkerGrows DEF Next
<1> QED  BY <1>1, StoreInductive, PTL DEF Spec, RowsNeverRegress

-----------------------------------------------------------------------------
(* The refinement of SyncJob.                                              *)

\* The abstract state, as the instance in Sync maps it.
outcomeMap == IF sync_running THEN "running" ELSE status
promiseMap == IF stamp = "none" THEN NoDebt ELSE stamped
mapped == <<phase # "off", outcomeMap, db, loaded, promiseMap>>

\* Launching is Start: the categories shown are those stored.
LEMMA LaunchStarts ==
  ASSUME StoreInv, Launch
  PROVE  Abstract!Start
<1>1. /\ phase = "off" /\ phase' = "ready"
      /\ UNCHANGED <<db, stamp, stamped>>
  BY DEF Launch
<1>2. loaded' = StoredCats(db)
  BY DEF Launch, LoadData, HasData, StoredCats
<1>3. outcomeMap' \in {"", "running"}
  BY DEF Launch, outcomeMap
<1> QED  BY <1>1, <1>2, <1>3
         DEF Abstract!Start, Abstract!StoredCats, StoredCats, outcomeMap

\* The steps of the UI thread: :sync is Begin, the completion callback is
\* Report, the end of the process is Stop; the rest is not seen.
LEMMA UIImplements ==
  ASSUME StoreInv, EnterLoop \/ SyncCommand \/ RunPost \/ Quit \/ Exit \/ Crash
  PROVE  Abstract!Next \/ UNCHANGED mapped
<1>1. ThreadInv /\ TypeOK /\ QuietWhenIdle /\ SuccessShowsAll /\ ThreadInv'
      /\ SuccessShowsAll'
  BY ThreadUI DEF StoreInv, ThreadInv
<1>2. CASE EnterLoop \/ Quit
  BY <1>2 DEF EnterLoop, Quit, mapped, outcomeMap, promiseMap
<1>3. CASE SyncCommand
  <2>1. CASE sync_running
    BY <1>3, <2>1 DEF SyncCommand, mapped, outcomeMap, promiseMap
  <2>2. CASE ~sync_running
    <3>1. /\ phase = "loop" /\ sync_running' = TRUE
          /\ UNCHANGED <<phase, db, stamp, stamped, loaded>>
      BY <1>3, <2>2 DEF SyncCommand
    <3>2. status # "running"
      BY <1>1 DEF TypeOK, Message
    <3> QED  BY <2>2, <3>1, <3>2 DEF Abstract!Next, Abstract!Begin
  <2> QED  BY <2>1, <2>2
<1>4. CASE RunPost
  <2>1. /\ sync_running /\ phase = "loop" /\ status' = Head(posts)
        /\ UNCHANGED <<phase, db, stamp, stamped>>
        /\ Head(posts) # "success" => loaded' = loaded
    BY <1>1, <1>4 DEF RunPost, QuietWhenIdle
  <2>2. Head(posts) \in Message
    BY <1>1, <1>4, HeadTailProperties DEF RunPost, TypeOK
  <2>3. CASE Head(posts) = "progress"
    BY <1>4, <2>1, <2>3 DEF RunPost, mapped, outcomeMap, promiseMap
  <2>4. CASE Head(posts) # "progress"
    <3>1. ~sync_running'
      BY <1>4, <2>4 DEF RunPost
    <3>2. \/ status' = "success" /\ loaded' = StoredCats(db)
          \/ status' = "failure" /\ loaded' = loaded
      <4>1. status' \in {"success", "failure"}
        BY <2>1, <2>2, <2>4 DEF Message
      <4>2. status' = "success" => loaded' = StoredCats(db)
        BY <1>1, <2>1 DEF SuccessShowsAll, StoredCats
      <4> QED  BY <2>1, <4>1, <4>2
    <3> QED  BY <2>1, <3>1, <3>2
             DEF Abstract!Next, Abstract!Report, Abstract!StoredCats, StoredCats
  <2> QED  BY <2>3, <2>4
<1>5. CASE Exit \/ Crash
  <2>1. /\ phase # "off" /\ phase' = "off" /\ ~sync_running' /\ status' = ""
        /\ loaded' = {} /\ UNCHANGED <<db, stamp, stamped>>
    BY <1>5 DEF Exit, Crash, ProcessEnds
  <2> QED  BY <2>1 DEF Abstract!Next, Abstract!Stop
<1> QED  BY <1>2, <1>3, <1>4, <1>5

\* A step of the worker that keeps the timestamp is Store; one that touches
\* it keeps the catalogue, and is Vouch.
LEMMA WorkerImplements ==
  ASSUME StoreInv, NEW w \in Worker, WorkerStep(w)
  PROVE  Abstract!Next \/ UNCHANGED mapped
<1>1. /\ phase # "off" /\ sync_running /\ UNCHANGED uiVars
      /\ StoreInv'
  <2>1. TypeOK /\ OneWorker
    BY DEF StoreInv, ThreadInv
  <2>2. phase # "off" /\ Active(w) /\ UNCHANGED uiVars
    BY <2>1, WorkerFrame
  <2> QED  BY <2>1, <2>2, StoreWorker DEF OneWorker
<1>2. UNCHANGED <<phase, sync_running, status, loaded>>
  BY <1>1 DEF uiVars
<1>3. CASE UNCHANGED <<stamp, stamped>>
  <2>1. RowsGrow /\ ReferencesStored(db)'
    BY <1>1, WorkerGrows DEF StoreInv
  <2>2. Abstract!Grows(db, db')
    BY <2>1 DEF Abstract!Grows, RowsGrow, Abstract!ReferencesStored,
                ReferencesStored, Abstract!LinkAllowed, LinkAllowed
  <2> QED  BY <1>1, <1>2, <1>3, <2>2 DEF Abstract!Next, Abstract!Store
<1>4. CASE db' = db
  <2>1. Abstract!Kept(promiseMap', db)
    <3>1. CASE stamp' = "none"
      BY <3>1 DEF promiseMap, NoDebt, Abstract!Kept
    <3>2. CASE stamp' # "none"
      <4>1. Stored(stamped)'
        BY <1>1, <3>2 DEF StoreInv, StampVouches
      <4> QED  BY <1>4, <3>2, <4>1 DEF promiseMap, Stored, Abstract!Kept
    <3> QED  BY <3>1, <3>2
  <2> QED  BY <1>1, <1>2, <1>4, <2>1
           DEF Abstract!Next, Abstract!Vouch, promiseMap
<1>5. UNCHANGED <<stamp, stamped>> \/ db' = db
  BY DEF WorkerStep, FetchView, NextCategory, CategoryWithoutData,
         FetchCategory, FetchWeaknesses, StoreWeakness, LinkWeakness, OpenStamp,
         WriteStamp, Complete, Fail, Step
<1> QED  BY <1>3, <1>4, <1>5

\* Synchronization keeps its promises: every behaviour of the threads, posts,
\* requests and files of Sync, through any crash, is one of SyncJob.
THEOREM SyncImplementsJob == Spec => JobSpec
<1>1. Init => Abstract!Init
  BY DEF Init, Abstract!Init, Abstract!EmptyCatalog, EmptyCatalog,
         Abstract!NoPromise, NoDebt
<1>2. StoreInv /\ [Next]_vars => [Abstract!Next]_(Abstract!jobVars)
  <2> SUFFICES ASSUME StoreInv, [Next]_vars
               PROVE  Abstract!Next \/ UNCHANGED mapped
    BY DEF mapped, outcomeMap, promiseMap, Abstract!jobVars
  <2>1. CASE UNCHANGED vars \/ Publish
    BY <2>1 DEF vars, Publish, uiVars, mapped, outcomeMap, promiseMap
  <2>2. CASE Age
    BY <2>2 DEF Age, uiVars, mapped, outcomeMap, promiseMap
  <2>3. CASE Launch
    BY <2>3, LaunchStarts DEF Abstract!Next
  <2> QED  BY <2>1, <2>2, <2>3, UIImplements, WorkerImplements DEF Next
<1> QED  BY <1>1, <1>2, StoreInductive, PTL
         DEF Spec, JobSpec, Abstract!Spec
=============================================================================
