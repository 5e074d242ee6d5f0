CONSTANTS
  Tids = {1, 2}
  PidOf <- FreshPids
  Limits = {1, 2}
  NoProcess = NoProcess
  NoSelection = NoSelection
  NoPid = NoPid
  NoRate = NoRate
  MaxWork = 2
  MaxStarts = 3
  MaxPoints = 4
SPECIFICATION Spec
INVARIANTS GapsAreReported
PROPERTIES ThreadRatesAreTrue RatesResume
CHECK_DEADLOCK FALSE
