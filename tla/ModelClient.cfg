CONSTANTS
  c1 = c1
  c2 = c2
  Threads = {c1, c2}
  Configured <- MCConfigured
  Preferred = "nvidia"
  MaxRequests = 2
  Window = 3
  MaxRetries = 2
  Backoff <- MCBackoff
  MaxCalls = 1
  Horizon = 1
  None = None
SPECIFICATION FairSpec
INVARIANTS
  WindowNeverExceeded
  EveryRequestPaced
PROPERTIES
  EveryCallEnds
CHECK_DEADLOCK FALSE
