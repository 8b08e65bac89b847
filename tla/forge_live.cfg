CONSTANTS
  llm = llm
  gemx = gemx
  lance = lance
  kimodo = kimodo
  native = native
  moss = moss
  Nobody = Nobody
  Everything = Everything
  VramMb <- MCVram
  Persist <- MCPersist
  Available = 22
  Reserved = 2
  MinCofree = 4
  Slack = 1
  Foreign = 1
  Services = {llm, native}
  Calls = {c1, c2}
  Measured = {native}
  Switching = {native}
  Footprint <- HangingFootprint
  LockedOps = {"invoke", "preload", "release"}
  StatusPolled = TRUE
  SlowLoads = {llm}
  SlowDriver = FALSE
  Requests <- MCRequests
SPECIFICATION FairSpec
CONSTRAINT LedgerBound
PROPERTIES
  EveryCallEnds
