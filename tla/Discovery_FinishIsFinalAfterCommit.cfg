SPECIFICATION Spec
CONSTANTS
  commit = commit
  read = read
  Controls = {commit, read}
  Risky = {commit}
  Extracts = {read}
  MaxSteps = 4
  DeadEndThreshold = 3
  LoopThreshold = 3
  MaxExtractRejections = 2
  None = None
CHECK_DEADLOCK FALSE
PROPERTIES
  FinishIsFinalAfterCommit
