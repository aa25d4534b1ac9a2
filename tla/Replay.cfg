SPECIFICATION FairSpec
CONSTANTS
  NSteps = 2
  denial = denial
  dialog = dialog
  maintenance = maintenance
  broken = broken
  Own = {dialog}
  Library = {denial, maintenance, broken}
  Addresses = {a1, a2}
  None = None
  Outcome <- MCOutcome
  MaxRetries <- MCMaxRetries
  Recovery <- MCRecovery
  Elsewhere = {dialog}
CHECK_DEADLOCK FALSE
INVARIANTS
  TypeOK
  NothingSkipped
  SuccessEarned
  OwnRetriesWithinBudget
  RecoveryNotBlamed
PROPERTIES
  RiskyActionsConfirmed
  LandingsScreened
  EngineReturns
