\* Two messages, one deduplicated, two channels, two copies at a time, three attempts.
SPECIFICATION FairSpec
CONSTANTS
  Messages = {m1, m2}
  NoMessage = NoMessage
  Workers = {w1, w2}
  NoWorker = NoWorker
  MaxCopies = 2
  MaxAttempts = 3
  Prefetch = 1
  Deduplicated = {m1}
INVARIANTS TypeOK NoTwinCopies
PROPERTIES PromiseKept MessagesSettle
