SPECIFICATION FairSpec
CONSTANTS
  q1 = q1
  q2 = q2
  balance = balance
  Requests = {q1, q2}
  Capabilities = {balance}
  MaxMessages = 4
  None = None
CHECK_DEADLOCK FALSE
INVARIANTS
  OneRunPerProposal
  OpenIsPending
PROPERTIES
  FailsOnlyWhenOvertaken
  ImplementsAgreement
  MessagesAreAnswered
