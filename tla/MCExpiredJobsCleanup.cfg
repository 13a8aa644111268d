\* Two replicas clean two jobs, one per batch, while the jobs live on.
SPECIFICATION Spec
CONSTANTS
  Jobs = {j1, j2}
  NoJob = NoJob
  Cleaners = {c1, c2}
  BatchSize = 1
  LockLoss = FALSE
  RebindMatches = TRUE
SYMMETRY JobAndCleanerSymmetry
INVARIANTS TypeOK
PROPERTIES LifecycleImplemented NoPrematureDeletion
