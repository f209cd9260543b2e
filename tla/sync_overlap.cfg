SPECIFICATION Spec
CONSTANTS
  phone = phone
  laptop = laptop
  note = note
  rule = rule
  Device = {phone, laptop}
  Syncer = {phone, laptop}
  Home <- OwnHome
  Item = {note}
  Rule = {rule}
  Content = {0}
  Clock <- ApartClock
  SkewedClocks = FALSE
  RoundsMayOverlap = TRUE
  OnlineInGrace = TRUE
  IndexMayBeLost = FALSE
  Seed = {note, rule}
  MaxRev = 3
  MaxFailures = 1
  MaxIndexRetries = 1
  MaxPushRetries = 1
INVARIANTS FreshBase
PROPERTIES LocalNeverRegresses LiveNeverHardDeleted NoUnseenOverwrite
