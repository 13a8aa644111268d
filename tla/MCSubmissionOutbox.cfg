\* Two replicas, one job submitted up to twice, one abandoned call at a time, any number of crashes.
SPECIFICATION Spec
CONSTANTS
  Jobs = {j1}
  NoJob = NoJob
  Replicas = {d1, d2}
  MaxRows = 2
  BatchSize = 2
  Concurrency = 1
  MaxAttempts = 2
  MaxLate = 1
  RebindMatches = TRUE
SYMMETRY ReplicaSymmetry
INVARIANTS TypeOK SubmittedHasPendingRow PublishedWasSent
PROPERTIES OnlySentRowsAreDropped LifecycleImplemented
