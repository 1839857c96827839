SPECIFICATION Spec
CONSTANTS
  NULL = NULL
  GroupIds = {g1, g2, g3}
  PersonIds = {p1}
  Handlers = {h1, h2}
  Operations = {"CreateGroup", "UpdateGroup", "DeleteGroup", "CreatePerson", "UpdatePerson", "DeletePerson"}
SYMMETRY Symmetry
INVARIANTS
  TypeOK
  Inv
  SubtreeIsCTE
  ReferentialIntegrity
PROPERTIES
  CyclesComeFromRaces
  CyclesAreSticky
  ImplementsDirectory
  RacesAreMapped
