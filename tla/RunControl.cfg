SPECIFICATION FairSpec
CONSTANTS
  Requests = {r1, r2}
  MaxIterations = 2
  MaxPasses = 2
INVARIANTS
  AgentNeverDrivesWhileEscalated
  OneAnswerPerEscalation
  DeletedOnlyAfterWorkerEnded
  InterruptHeardAtNextBoundary
PROPERTIES
  ImplementsLifecycle
  InterruptEndsRun
  CancelEndsRun
  QueuedNoteWakesWorker
