CONSTANTS
  llm = llm
  gemx = gemx
  lance = lance
  kimodo = kimodo
  native = native
  moss = moss
  Nobody = Nobody
  Everything = Everything
  VramMb <- MCVram
  Persist <- MCPersist
  Available = 22
  Reserved = 2
  MinCofree = 4
  Slack = 1
  Foreign = 1
  Services = {llm, gemx}
  Calls = {c1, c2}
  Measured = {}
  Switching = {}
  Footprint <- MCFootprint
  LockedOps = {"invoke", "preload", "release"}
  StatusPolled = TRUE
  SlowLoads = {}
  SlowDriver = FALSE
  Requests <- MCRequests
SYMMETRY CallSymmetry
SPECIFICATION Spec
CONSTRAINT LedgerBound
INVARIANTS
  LedgerConserved
