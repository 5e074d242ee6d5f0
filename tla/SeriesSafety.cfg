CONSTANTS
  Keys = {k1, k2}
  Metrics <- PackMetrics
  Budgets <- TightBudgets
  Absent = Absent
  Gap = Gap
  NoObservation = NoObservation
  NoBudget = NoBudget
  MaxGrowth = 2
  MaxRestarts = 1
  MaxPoints = 3
SPECIFICATION Spec
INVARIANTS TypeOK BudgetHolds OmissionsAreReported TableIsTheTop StatusIsHonest
PROPERTIES PointsAreExact
CHECK_DEADLOCK FALSE
