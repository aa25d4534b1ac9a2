CONSTANTS
  s1 = s1
  l1 = l1
  Runs = {s1, l1}
  Local = {l1}
  Http = Http
  PoolSize = 1
  MaxFaults = 2
  MaxDeaths = 2
SPECIFICATION Spec
INVARIANTS
  RowTellsTheTruth
  NoContainerOutlivesItsRun
  CallsNeverRaise
PROPERTIES
  EndedRowsStayEnded
  SeenEndsStay
CHECK_DEADLOCK FALSE
