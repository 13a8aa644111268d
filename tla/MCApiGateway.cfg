\* One request, of any kind, for one job.
SPECIFICATION FairSpec
CONSTANTS
  Jobs = {j1}
  Requests = {r1}
  Buckets = {bucket}
  DefaultBucket = bucket
  None = None
  RebindMatches = TRUE
INVARIANTS TypeOK AnswersWereTrue ServedWithinRetention
PROPERTIES EveryRequestIsAnswered
