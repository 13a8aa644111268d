\* Three jobs, batches of two; the cleanup of one job never succeeds.
SPECIFICATION OrderFairSpec
CONSTANTS
  Jobs = {j1, j2, j3}
  NoJob = NoJob
  Cleaners = {c1}
  BatchSize = 2
  LockLoss = TRUE
  RebindMatches = FALSE
  Stubborn = {j1}
  Dispatched = {j2}
INVARIANTS OrderTypeOK
PROPERTIES NobodyIsHeldUp
