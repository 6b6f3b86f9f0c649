---------------------------- MODULE MCLevelEngine ----------------------------
(* Instances of LevelEngine for TLC.                                       *)
EXTENDS LevelEngine, TLC

CONSTANTS w1, w2, r1, r2

MCSymmetry == Permutations(Workers) \cup Permutations(Roles)
=============================================================================
