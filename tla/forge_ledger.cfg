CONSTANTS
  llm = llm
  gemx = gemx
  lance = lance
  kimodo = kimodo
  native = native
  moss = moss
  Nobody = Nobody
  Everything = Everything
  VramMb <- MCVram
  Persist <- MCPersist
  Available = 22
  Reserved = 2
  MinCofree = 4
  Slack = 1
  Foreign = 1
  Services = {llm, gemx, lance, kimodo, moss}
  Calls = {c1, c2, c3}
  Measured = {}
  Switching = {}
  Footprint <- MCFootprint
  LockedOps = {"invoke", "preload", "release"}
  StatusPolled = FALSE
  SlowLoads = {}
  SlowDriver = FALSE
  Requests <- MCRequests
SYMMETRY CallSymmetry
SPECIFICATION Spec
INVARIANTS
  TypeOK
  OneAtATime
  ServedAlone
  LedgerConserved
  DeclaredNeverOvercommit
  LedgerIsReal
  NoLeakedReservation
PROPERTIES
  RefusalJustified
  PreloadEvictsInOrder
  ArbiterSpec
