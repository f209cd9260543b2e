SPECIFICATION Spec
CONSTANTS
  a1 = a1
  a2 = a2
  Item = {note}
  Rule = {rule}
  Attach <- Files
  NoObject = NoObject
  NoAttach = NoAttach
  Synced = {TRUE, FALSE}
  MaxKey = 3
  MaxRev = 3
  MaxFaults = 1
SYMMETRY Alike
INVARIANTS KeysAgree AckedSurvives IndexNeverAhead AttachmentsWhole DeletionRecorded
