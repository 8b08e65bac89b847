CONSTANTS
  Pipelines = {p1, p2}
  Clients = {c1}
  ForgeSlots = 2
  MaxSteps = 2
  MaxCrashes = 1
SPECIFICATION FairSpec
CHECK_DEADLOCK FALSE
INVARIANTS
  TypeOK
  AnswerIsOutcome
  NothingGoesOn
PROPERTIES
  EndsUnlessCrowded
  EveryPipelineEnds
