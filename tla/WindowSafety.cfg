CONSTANTS
  a = a
  b = b
  SqlSources = {a, b}
  HostSources = {}
  Scope <- EverySnapshot
  Last = 2
  SqlConcurrency = 1
  UsesIostat = FALSE
  NoSlot = NoSlot
  NoTime = NoTime
SPECIFICATION Spec
INVARIANTS EverySlotDecidedOnce PermitsConserved
PROPERTIES ImplementsLedger
CHECK_DEADLOCK FALSE
