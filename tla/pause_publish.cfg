SPECIFICATION Spec
CONSTANTS
  Jobs = {1}
  Dispatchers = {d1}
  Clients = {c1}
  Cli = {}
  Commands = {"submit", "pause"}
  NoJob = NoJob
  MaxLaps = 0
  MaxFaults = 0
INVARIANT PauseStopsBeforePublication
CHECK_DEADLOCK FALSE
