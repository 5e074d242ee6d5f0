CONSTANTS
  Queries = {q1, q2}
  Detector = detect
  Servers = {s1, s2}
  NoServer = NoServer
  NoCall = NoCall
  WorkerCount = 2
  ReconnectAttempts = 1
  MaxFailovers = 1
SPECIFICATION SafeSpec
SYMMETRY Symmetry
INVARIANTS NoMixedServers NoForeignStatement RegistryMatchesWork ClosedIsIdle
PROPERTIES SessionSafety
CHECK_DEADLOCK FALSE
