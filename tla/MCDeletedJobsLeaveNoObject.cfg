\* The job-manager's README on storage assets, against the code.
SPECIFICATION Spec
CONSTANTS
  Jobs = {j1}
  NoJob = NoJob
  Cleaners = {c1}
  BatchSize = 1
  LockLoss = FALSE
  RebindMatches = FALSE
PROPERTIES DeletedJobsLeaveNoObject
