SPECIFICATION Spec
CONSTANTS
  Requests = {r1, r2}
  server = server
  Processes = {server}
  Process <- OneProcess
  MaxBodies = 2
  MaxFaults = 1
  None = None
SYMMETRY RequestSymmetry
INVARIANTS
  TypeOK
  LiveStepsReviewed
PROPERTIES
  LoneSetDefaultHeals
  RecordingsNeverCollide
