\* Fair handlers and consumers: a published job gets an outcome, or a message
\* of it is given up on.
SPECIFICATION FairSpec
CONSTANTS
  Jobs = {j1}
  Workers = {w1, w2}
  None = None
  MaxAttempts = 2
  StatusAttempts = 1
  MaxPublishes = 1
  RebindMatches = TRUE
PROPERTIES JobsEnd
