SPECIFICATION LiveSpec
CONSTANTS
  Jobs = {1,2}
  Dispatchers = {d1}
  Clients = {c1}
  Cli = {}
  Commands = {"submit", "pause_queue", "resume_queue"}
  NoJob = NoJob
  MaxLaps = 0
  MaxFaults = 1
INVARIANT ActiveHasRunner
PROPERTIES AcceptedIsHeld JobsSettle LifecycleSpec
CHECK_DEADLOCK FALSE
