SPECIFICATION Spec
CONSTANTS
  phone = phone
  laptop = laptop
  note = note
  rule = rule
  Device = {phone, laptop}
  Syncer = {phone, laptop}
  Home <- OwnHome
  Item = {note}
  Rule = {}
  Content = {0}
  Clock <- ApartClock
  SkewedClocks = FALSE
  RoundsMayOverlap = TRUE
  OnlineInGrace = TRUE
  IndexMayBeLost = TRUE
  Seed = {note}
  MaxRev = 4
  MaxFailures = 1
  MaxIndexRetries = 1
  MaxPushRetries = 1
INVARIANTS VaultConsistent SettledItemsAgree
