SPECIFICATION FairSpec
CONSTANTS
  commit = commit
  read = read
  Controls = {commit, read}
  Risky = {commit}
  Extracts = {read}
  MaxSteps = 11
  DeadEndThreshold = 3
  LoopThreshold = 2
  MaxExtractRejections = 2
  None = None
CHECK_DEADLOCK FALSE
INVARIANTS
  StuckAgentAsksForHelp
  FinishIsHeard
PROPERTIES
  RiskyActionsConfirmed
  DiscoveryReturns
