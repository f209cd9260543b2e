SPECIFICATION FairSpec
CONSTANTS
  phone = phone
  laptop = laptop
  note = note
  rule = rule
  Device = {phone, laptop}
  Syncer = {phone, laptop}
  Home <- OwnHome
  Item = {}
  Rule = {rule}
  Content = {0}
  Clock <- ApartClock
  SkewedClocks = FALSE
  RoundsMayOverlap = FALSE
  OnlineInGrace = TRUE
  IndexMayBeLost = TRUE
  Seed = {rule}
  MaxRev = 4
  MaxFailures = 1
  MaxIndexRetries = 1
  MaxPushRetries = 1
PROPERTIES Converges
