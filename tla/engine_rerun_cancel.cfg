CONSTANTS
  pose = pose
  image = image
  music = music
  video = video
  mix = mix
  NoTask = NoTask
  Deps <- MCDeps
  Steps = {image, video}
  Interactive = {}
  Tasks = {t1, t2}
  SkipReview = TRUE
  Commands = {"start", "cancel"}
  RerunIn = {"running"}
  ExecuteIn = {}
  Impatient = TRUE
  MaxRestarts = 0
SPECIFICATION Spec
SYMMETRY TaskSymmetry
CHECK_DEADLOCK FALSE
PROPERTIES
  CancelHolds
