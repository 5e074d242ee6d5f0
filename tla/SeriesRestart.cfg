CONSTANTS
  Keys = {k1, k2}
  Metrics <- RateMetric
  Budgets <- WideBudget
  Absent = Absent
  Gap = Gap
  NoObservation = NoObservation
  NoBudget = NoBudget
  MaxGrowth = 3
  MaxRestarts = 1
  MaxPoints = 2
SPECIFICATION Spec
PROPERTIES RestartCreatesGap
CHECK_DEADLOCK FALSE
