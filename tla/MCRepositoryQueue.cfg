SPECIFICATION Spec
CONSTANTS
  r1 = r1
  r2 = r2
  f1 = f1
  w1 = w1
  w2 = w2
  w3 = w3
  None = None
  Repos = {r1, r2}
  Events = {e1, e2, f1}
  Workers = {w1, w2, w3}
  getPrefix <- RepositoryOf
INVARIANTS
  TypeOK
  SerialPerRepository
  InOrderNoLoss
  NoStrandedQueue
  DrainedBeforeClose
PROPERTIES
  ImplementsSerialQueue
  AcceptedIsHandled
  ShutdownEnds
CHECK_DEADLOCK FALSE
