-------------------------- MODULE MCGuardedPasses --------------------------
(* GuardedPasses, and with it Leadership, with two interchangeable Pods.   *)
(* No property distinguishes them, and none is a liveness property, so the *)
(* symmetry is sound.                                                      *)
EXTENDS GuardedPasses, TLC

PodSymmetry == Permutations(Pods)
=============================================================================
