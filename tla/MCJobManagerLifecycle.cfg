\* Two lanes, batches of up to two messages, one abandoned call at a time.
SPECIFICATION FairSpec
CONSTANTS
  Lanes = {l1, l2}
  LateSlots = {s1}
  MaxBatch = 2
  Prefetch = 1
  MaxConnections = 3
INVARIANTS TypeOK OneConnection CleanClose NoPublishCutOff
PROPERTIES NoBatchAfterStop CloseEnds
