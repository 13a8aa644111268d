\* Three calls, two of them on one host, for two slots, two attempts each.
SPECIFICATION FairSpec
CONSTANTS
  f1 = f1
  f2 = f2
  f3 = f3
  h1 = h1
  h2 = h2
  Fetches = {f1, f2, f3}
  Hosts = {h1, h2}
  HostOf <- F3Elsewhere
  MaxConcurrent = 2
  MaxRetryAttempts = 2
  MinInterval = 2
  BaseRetryDelay = 1
  AgentCount = 2
  MaxLag = 1
INVARIANTS TypeOK SlotAccounting NoLostWakeup
PROPERTIES HostSpacing EveryFetchFinishes
