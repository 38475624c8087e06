\* Requests about pairings and envelopes, and the relays of the Apple clients.
SPECIFICATION DevicesSpec
CONSTANTS
  w = w
  t1 = t1
  t2 = t2
  k1 = k1
  i1 = i1
  i2 = i2
  i3 = i3
  view = view
  None = None
  Blank = Blank
  Torn = Torn
  Procs = {w}
  Threads = {t1, t2}
  ProcOf <- OneProc
  Pairings = {k1, k2}
  Envelopes = {e1}
  PairingOf <- OfTheFirst
  Inodes = {i1, i2, i3}
  TTL = 2
  Retention = 3
  Patience = 1
  MaxTime = 5
  TVMessages = {"a", "b"}
  WatchMessages = {"c", "d"}
  MacMessages = {"e", "f"}
  Transports = {view}
  MaxRestarts = 2
SYMMETRY Alike
INVARIANTS OpenedOnce AnswerIsPersisted FailedSendIsKept
PROPERTY ConfirmationHolds
CHECK_DEADLOCK FALSE
