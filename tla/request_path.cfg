SPECIFICATION FairSpec
CONSTANTS
  Procs = {1, 2}
  Plans <- AllPlans
  Ids = {1, 2, 3}
  NoItem = NoItem
  NoUrl = NoUrl
  NoVault = NoVault
  Vaults = {0, 1, 2}
  Secrets = {"k1", "k2"}
  Programs <- Paths
  Contents = {"a", "b", "c"}
  SizeOf <- Size
  Exts <- PathExt
  Threshold = 1
  MaxWalk = 3
  MaxTouch = 1
  Honest = TRUE
  NoFile = NoFile
  NoPath = NoPath
  NoDir = NoDir
  NoMeta = NoMeta
  NoPrint = NoPrint
  NoBody = NoBody
  Unreadable = Unreadable
INVARIANTS  HashAnswersNow AckedOnce RuleCoversItsDir EditsChain 
PROPERTIES RunningNeverPassedOver EveryCommandEnds
