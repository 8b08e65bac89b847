CONSTANTS
  gemx = gemx
  Native = native
  Nobody = Nobody
  Everything = Everything
  VramMb <- MCVram
  Persist <- MCPersist
  Available = 5
  Reserved = 0
  MinCofree = 1
  Slack = 0
  Foreign = 0
  Services = {native, gemx}
  Calls = {c1, f1, f2}
  Flows = {f1, f2}
  Objects = {o1, o2, o3, o4}
  MaxLoads = 1
  Measured = {native}
  Switching = {}
  Footprint <- MCFootprint
  LockedOps = {"invoke", "preload", "release"}
  StatusPolled = TRUE
  SlowLoads = {}
  SlowDriver = FALSE
  Requests <- MCRequests
SPECIFICATION FlowSpec
SYMMETRY PipelineSymmetry
CONSTRAINT LedgerBound
INVARIANTS
  KnownUnlessPulled
  AloneIsProxied
