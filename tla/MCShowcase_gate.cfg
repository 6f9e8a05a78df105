SPECIFICATION Spec
CONSTANTS
  Visitors = {v1}
  Limits <- SmallLimits
  Window = 2
  MaxKeys = 2
  Requests = {r1, r2}
  Kinds = {"mutation", "upload", "purge", "status"}
  SeedCount = 2
  SeedDirectories = 1
  UsageTtl = 1
  NoRequest = NoRequest
  MaxGeneration = 2
  MaxLate = 1
SYMMETRY AnyRequest
INVARIANTS GateExcludes ResetsAreClean LimiterHolds
CHECK_DEADLOCK FALSE
