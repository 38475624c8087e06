\* For whom a thread runs a job, what a job finds, and how a candidate is acquired.
SPECIFICATION MediaSpec
CONSTANTS
  Threads = {t1, t2}
  Jobs = {j1, j2}
  Pairings = {p1}
  Surfaces = {"chrome", "ios", "watchos"}
  Capabilities = {"acquire.http", "acquire.ytdlp"}
  MaxRuns = 2
  Locators <- EveryLocator
  Samples <- SomeSamples
  Candidates <- Offers
  PlanCapabilities <- SomeCapabilities
  WorkerCapabilities <- SomeCapabilities
  Names <- SortedNames
  Suffix = {"source.mp4"}
  MaxKindRuns = 2
  None = None
SYMMETRY Same
INVARIANTS RunsAsItsOwner NoInheritedPower KindsAreKept SignalsCount AcquiredIsSound
PROPERTY EncryptionIsTerminal
CHECK_DEADLOCK FALSE
