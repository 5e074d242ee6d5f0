CONSTANTS
  TargetCount = 2
  Plan <- SourcePlan
  FailFastPolicies = {FALSE}
  UsesSsh = FALSE
  PathOf <- DistinctPaths
  MaxFetched = 0
SPECIFICATION CommandSafe
INVARIANTS EveryFileIsListed
CHECK_DEADLOCK FALSE
