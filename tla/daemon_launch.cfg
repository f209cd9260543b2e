SPECIFICATION FairSpec
CONSTANTS
  Client = {c1}
  MaxPid = 2
  Probes = 3
  Polls = 1
  MaxFlakes = 2
  MaxFaults = 1
PROPERTIES NoInnocentKill ServedInTheEnd
