---------------------------- MODULE MCModelStore ----------------------------
(* Instances of ModelStore: four places in two directories; contents a and b *)
(* have the same size.                                                       *)
EXTENDS ModelStore, TLC

CONSTANTS p1, p2, p3, p4, a, b, c

MCBefore ==
  [p \in Paths |-> CASE p = p1 -> {} [] p = p2 -> {p1} [] p = p3 -> {p1, p2}
                     [] p = p4 -> {p1, p2, p3}]
MCDirOf == [p \in Paths |-> IF p = p3 THEN "comfyui" ELSE "models"]
MCSizeOf == [x \in Contents |-> IF x = c THEN 2 ELSE 1]
StoreSymmetry == Permutations(Inodes) \cup Permutations({a, b})
=============================================================================
