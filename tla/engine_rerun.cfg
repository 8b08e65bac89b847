CONSTANTS
  pose = pose
  image = image
  music = music
  video = video
  mix = mix
  NoTask = NoTask
  Deps <- MCDeps
  Steps = {image, pose, video, music}
  Interactive = {pose}
  Tasks = {t1, t2}
  SkipReview = FALSE
  Commands = {"manual", "cancel", "approve"}
  RerunIn = {"completed"}
  ExecuteIn = {"pending"}
  Impatient = FALSE
  MaxRestarts = 0
SPECIFICATION FairSpec
CHECK_DEADLOCK FALSE
INVARIANTS
  OneExecution
  WaitingIsAwaited
PROPERTIES
  DependenciesFirst
  NothingRedone
  DoneIsCompleted
  RunEnds
