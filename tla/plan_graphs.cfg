CONSTANT
  Steps = {pose, image, video, mix}
SPECIFICATION Spec
CHECK_DEADLOCK FALSE
INVARIANTS
  TypeOK
  GroupsRespectDeps
  PlannedOrCyclic
  AsParallelAsPossible
  RerunReachesDownstream
