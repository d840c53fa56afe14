\* Quitting while a sync runs.
SPECIFICATION Spec
CONSTANTS
  c1 = c1
  c2 = c2
  w1 = w1
  w2 = w2
  t1 = t1
  t2 = t2
  Cat <- MCCat
  Cwe <- MCCwe
  Worker <- MCOneWorker
  MaxEdition = 1
  Members <- MCMembers
  Rel <- MCRel
  BatchSize = 1
  AutoSyncEnabled = FALSE
  EarlyPostsKept = FALSE
INVARIANT
  WorkerHasScreen
