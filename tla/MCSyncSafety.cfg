\* Crashes, restarts, quitting, a new edition half way, start-up sync.
SPECIFICATION Spec
CONSTANTS
  c1 = c1
  c2 = c2
  w1 = w1
  w2 = w2
  t1 = t1
  t2 = t2
  Cat <- MCCat
  Cwe <- MCCwe
  Worker <- MCWorker
  MaxEdition = 2
  Members <- MCMembers
  Rel <- MCRel
  BatchSize = 1
  AutoSyncEnabled = TRUE
  EarlyPostsKept = FALSE
SYMMETRY MCWorkerSymmetry
INVARIANTS
  TypeOK
  OneWorker
  QuietWhenIdle
  LinksResolve
  StampVouches
  SuccessShowsAll
PROPERTIES
  RowsNeverRegress
  JobSpec
