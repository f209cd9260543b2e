SPECIFICATION Spec
CONSTANTS
  c1 = c1
  c2 = c2
  o1 = o1
  Call <- TwoCalls
  Object <- OneObject
  Methods <- Unlocking
  MaxEpoch = 2
  MaxDeaths = 0
INVARIANTS ApprovedIsUnlocked OneReopening NothingLeftBehind
PROPERTY ImplementsConsent
SYMMETRY Exchangeable
