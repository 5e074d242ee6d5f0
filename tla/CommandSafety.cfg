CONSTANTS
  TargetCount = 2
  Plan <- MixedPlan
  FailFastPolicies = {TRUE, FALSE}
  UsesSsh = TRUE
  PathOf <- DistinctPaths
  MaxFetched = 1
SPECIFICATION CommandSpec
INVARIANTS ExitZeroIsComplete PartialRunIsWritten ResourcesClosed ReportsAreDecided EnvelopeIsTruthful SummariesMatchTargets MachineAnswersOnce
PROPERTIES HtmlFollowsJson CommandEnds
CHECK_DEADLOCK FALSE
