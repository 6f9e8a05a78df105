SPECIFICATION FairSpec
CONSTANTS
  Visitors = {v1}
  Limits <- SmallLimits
  Window = 1
  MaxKeys = 2
  Requests = {r1, r2}
  Kinds = {"upload", "status"}
  SeedCount = 2
  SeedDirectories = 1
  UsageTtl = 1
  NoRequest = NoRequest
  MaxGeneration = 2
  MaxLate = 1
PROPERTIES GateOpensAgain RequestsAreAnswered
CHECK_DEADLOCK FALSE
