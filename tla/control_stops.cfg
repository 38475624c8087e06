SPECIFICATION Spec
CONSTANTS
  Jobs = {1}
  Dispatchers = {d1}
  Clients = {c1,c2}
  Cli = {c2}
  Commands = {"submit", "cancel", "pause", "run_next"}
  NoJob = NoJob
  MaxLaps = 1
  MaxFaults = 0
INVARIANTS AtMostOneRunner PublishedIsCommitted CleanStopHolds
PROPERTY ContextOnceAnswered
CHECK_DEADLOCK FALSE
