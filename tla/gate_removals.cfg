SPECIFICATION Spec
CONSTANTS
  c1 = c1
  c2 = c2
  o1 = o1
  Call <- TwoCalls
  Object <- OneObject
  Methods <- Changing
  MaxEpoch = 1
  MaxDeaths = 1
INVARIANTS ApprovedExecution NoPhantomRemoval LateAnswerRefused
PROPERTY EveryCallAnswered
