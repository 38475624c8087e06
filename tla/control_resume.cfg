SPECIFICATION Spec
CONSTANTS
  Jobs = {1}
  Dispatchers = {d1}
  Clients = {c1}
  Cli = {}
  Commands = {"submit", "submit_cookies", "cancel", "pause", "resume", "run_next", "pause_queue", "resume_queue"}
  NoJob = NoJob
  MaxLaps = 0
  MaxFaults = 1
INVARIANTS TypeOK CancelHolds
PROPERTIES NoStartWhilePaused
CHECK_DEADLOCK FALSE
