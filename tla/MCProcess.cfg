SPECIFICATION FairSpec
CONSTANTS
  Requests = {r1, r2}
  Statements = 2
  PoolSizes = {1, 2}
  RequestTimeouts = {0, 1}
  ReadTimeouts = {0, 2}
  WriteTimeouts = {2}
  NewConnGrace = 1
  ShutdownTimeout = 4
INVARIANTS
  TypeOK
  GracefulStop
PROPERTIES
  RequestsEnd
  ProcessStops
  WaitsOnlyForStuck
CHECK_DEADLOCK FALSE
