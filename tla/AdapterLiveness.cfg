CONSTANTS
  Queries = {q1, q2}
  Detector = detect
  Servers = {s1}
  NoServer = NoServer
  NoCall = NoCall
  WorkerCount = 1
  ReconnectAttempts = 1
  MaxFailovers = 0
SPECIFICATION Spec
PROPERTIES ImplementsSession CloseReturns
CHECK_DEADLOCK FALSE
