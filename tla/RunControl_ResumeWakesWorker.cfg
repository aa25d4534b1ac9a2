SPECIFICATION FairSpec
CONSTANTS
  Requests = {r1, r2}
  MaxIterations = 2
  MaxPasses = 2
PROPERTY ResumeWakesWorker
