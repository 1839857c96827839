SPECIFICATION WalkSpec
CONSTANTS
  NULL = NULL
  GroupIds = {1, 2}
  PersonIds = {1, 2}
  DefaultLimit = 1
  MaxLimit = 1
  Limits = {NULL}
  Offsets = {NULL}
  Filters = {NULL}
INVARIANTS
  SkipsAreShifts
  RepeatsAreShifts
PROPERTY ReadsHangOnlyOnCycles
