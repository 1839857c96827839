SPECIFICATION Spec
CONSTANTS
  Requests = {r1}
  Statements = 2
  PoolSizes = {1}
  RequestTimeouts = {1}
  ReadTimeouts = {1}
  WriteTimeouts = {1}
  NewConnGrace = 1
  ShutdownTimeout = 3
INVARIANT FailuresAreReported
CHECK_DEADLOCK FALSE
