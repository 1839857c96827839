SPECIFICATION Spec
CONSTANTS
  NULL = NULL
  GroupIds = {g1, g2}
  PersonIds = {}
  Handlers = {h1, h2}
  Operations = {"CreateGroup", "UpdateGroup"}
INVARIANT Acyclic
