\* Fair replicas: every submission is dispatched or uses up its attempts.
SPECIFICATION FairSpec
CONSTANTS
  Jobs = {j1}
  NoJob = NoJob
  Replicas = {d1, d2}
  MaxRows = 1
  BatchSize = 1
  Concurrency = 1
  MaxAttempts = 2
  MaxLate = 2
  RebindMatches = FALSE
PROPERTIES DispatchedOrExhausted
