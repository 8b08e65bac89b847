-------------------------- MODULE MCWorkflowEngine --------------------------
(* Instances of WorkflowEngine: a small DAG with a parallel group.          *)
EXTENDS WorkflowEngine, TLC

CONSTANTS pose, image, music, video, mix

\* image and pose in parallel, then video from both and music from image, then
\* mix from video and music.
MCDeps ==
  [s \in Steps |-> CASE s = video -> {image, pose} \cap Steps
                     [] s = music -> {image} \cap Steps
                     [] s = mix -> {video, music} \cap Steps
                     [] OTHER -> {}]

TaskSymmetry == Permutations(Tasks)
=============================================================================
