SPECIFICATION Spec
CONSTANTS
  NULL = NULL
  GroupIds = {1, 2, 3}
  PersonIds = {1, 2}
  DefaultLimit = 2
  MaxLimit = 3
  Limits = {NULL}
  Offsets = {NULL}
  Filters = {NULL}
INVARIANT CountsAgree
