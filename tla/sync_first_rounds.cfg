SPECIFICATION FairSpec
CONSTANTS
  phone = phone
  laptop = laptop
  note = note
  rule = rule
  Device = {phone, laptop}
  Syncer = {phone, laptop}
  Home <- OwnHome
  Item = {note}
  Rule = {rule}
  Content = {0}
  Clock <- ApartClock
  SkewedClocks = FALSE
  RoundsMayOverlap = FALSE
  OnlineInGrace = TRUE
  IndexMayBeLost = FALSE
  Seed = {}
  MaxRev = 4
  MaxFailures = 0
  MaxIndexRetries = 1
  MaxPushRetries = 1
INVARIANTS TypeOK SettledMeansAgreed IndexedBodiesExist
PROPERTIES Converges
