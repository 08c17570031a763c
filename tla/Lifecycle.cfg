SPECIFICATION Spec
CONSTANTS
  Processes = {p1, p2}
  Clients = {c1}
  MaxStarts = 3
  MaxOutages = 1
INVARIANTS
  TypeOK
  RequestsFindServer
  PoolOutlivesRequests
  CleanExitLosesNothing
  MigrationIsIdempotent
PROPERTIES
  SignalEndsProcess
