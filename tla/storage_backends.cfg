SPECIFICATION Spec
CONSTANTS
  c1 = c1
  c2 = c2
  b1 = b1
  b2 = b2
  Clients <- Devices
  Blobs <- Contents
  MaxKey = 3
  Foreign = {2}
  Backends = {"local", "webdav", "s3"}
  Shared = FALSE
  PathStyle = TRUE
  Prefixed = TRUE
  PageSize = 1
  MaxCalls = 3
  MaxFaults = 1
  Absent = Absent
  NoTag = NoTag
  NoBlob = NoBlob
  NoKey = NoKey
  Written = Written
  Conflict = Conflict
  Done = Done
  Error = Error
SYMMETRY Alike
INVARIANTS ListingComplete
PROPERTIES KeepsPromise
CHECK_DEADLOCK FALSE
