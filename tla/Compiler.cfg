CONSTANTS
  Recordable <- MCRecordable
  Place = {"start", "page", "button", "field", "table", "cell"}
  StartUrl = "start"
  Outputs = {"balance", "total", "sum"}
  Params = {"member", "date"}
  Declared <- MCDeclared
  Page <- MCPage
  Blank <- MCBlank
  After <- MCAfter
  Read <- MCRead
  Sum <- MCSum
  MaxSteps = 4
  None = None
SPECIFICATION Spec
INVARIANTS ReplayReturnsWhatWasRead ArtifactFitsItsSchemas
