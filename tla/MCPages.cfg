SPECIFICATION Spec
CONSTANTS
  NULL = NULL
  GroupIds = {1, 2, 3}
  PersonIds = {1, 2}
  DefaultLimit = 2
  MaxLimit = 3
  Limits = {NULL, 0, 1, 5}
  Offsets = {NULL, 1, 2}
  Filters = {NULL}
INVARIANTS
  QuietAnswersAreExact
  PagesAreConsistent
  NobodyTwice
