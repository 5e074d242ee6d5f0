CONSTANTS
  a = a
  b = b
  SqlSources = {a, b}
  HostSources = {p}
  Scope <- MixedScopes
  Last = 2
  SqlConcurrency = 1
  UsesIostat = TRUE
  NoSlot = NoSlot
  NoTime = NoTime
SPECIFICATION SafeSpec
INVARIANTS NothingLeftRunning RatesSpanNeighbours
CHECK_DEADLOCK FALSE
