CONSTANTS
  pose = pose
  image = image
  music = music
  video = video
  mix = mix
  NoTask = NoTask
  Deps <- MCDeps
  Steps = {image, pose, music, video, mix}
  Interactive = {pose}
  Tasks = {t1}
  SkipReview = FALSE
  Commands = {"start", "cancel", "approve"}
  RerunIn = {}
  ExecuteIn = {}
  Impatient = FALSE
  MaxRestarts = 1
SPECIFICATION Spec
CHECK_DEADLOCK FALSE
INVARIANTS
  TypeOK
  RunningIsExecuted
  EndedIsQuiet
PROPERTIES
  DagRunSpec
