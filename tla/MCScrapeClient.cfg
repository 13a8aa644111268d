\* Three items, two at a time, that all ask for one URL; or a single run.
SPECIFICATION FairSpec
CONSTANTS
  JobCount = 3
  UrlCount = 1
  Concurrency = 2
INVARIANTS TypeOK CountsAddUp ZeroMeansCompleted
PROPERTIES RunEnds
