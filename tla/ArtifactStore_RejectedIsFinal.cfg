SPECIFICATION Spec
CONSTANTS
  Requests = {r1, r2}
  server = server
  Processes = {server}
  Process <- OneProcess
  MaxBodies = 1
  MaxFaults = 0
  None = None
PROPERTY RejectedIsFinal
