\* Grants of cookie files and registrations of artifacts.
SPECIFICATION StoresSpec
CONSTANTS
  w = w
  v = v
  g1 = g1
  g2 = g2
  g3 = g3
  j1 = j1
  j2 = j2
  f1 = f1
  None = None
  Procs = {w, v}
  Grants = {g1, g2, g3}
  IssuerOf <- Issuers
  JobOf <- Bound
  Jobs = {j1, j2}
  FileOf <- OneFile
  Files = {f1}
  Pipelines = {w, v}
  Calls <- Registrations
  CallerOf <- Callers
  Digests = {"a", "b"}
  DigestOf <- Bytes
  RoleOf <- Roles
  ParentsOf <- Parents
  MaxRuns = 3
  MaxCrashes = 2
INVARIANTS IssuedIsKept IndexFollowsMemory
PROPERTY MergeKeeps
CHECK_DEADLOCK FALSE
