CONSTANTS
  TargetCount = 1
  Plan <- SourcePlan
  FailFastPolicies = {FALSE}
  UsesSsh = FALSE
  PathOf <- DistinctPaths
SPECIFICATION SafeSpec
INVARIANTS NoFailureHidden
CHECK_DEADLOCK FALSE
