SPECIFICATION FairSpec
CONSTANTS
  NULL = NULL
  GroupIds = {g1, g2, g3}
  PersonIds = {}
  Handlers = {h1, h2}
  Operations = {"CreateGroup", "UpdateGroup"}
PROPERTY HangsOnlyOnCycles
