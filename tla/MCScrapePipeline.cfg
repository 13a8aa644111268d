\* One job published twice, two handlers, two attempts on either queue.
SPECIFICATION Spec
CONSTANTS
  Jobs = {j1}
  Workers = {w1, w2}
  None = None
  MaxAttempts = 2
  StatusAttempts = 2
  MaxPublishes = 2
  RebindMatches = FALSE
SYMMETRY WorkerSymmetry
INVARIANTS TypeOK ResultIsStored NoSilentLoss
PROPERTIES LifecycleImplemented
