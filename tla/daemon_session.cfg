SPECIFICATION FairSpec
CONSTANTS
  Threshold = 1
  Cap = 1
  MaxKey = 2
  MaxToken = 2
  MaxEvents = 3
  MaxGuesses = 2
  MaxTime = 1
  MaxFlaps = 1
  MaxStops = 1
  MaxLosses = 1
INVARIANTS SessionSound GuessesPaced NoFalseAlarm
PROPERTIES AnchorCatchesUp
