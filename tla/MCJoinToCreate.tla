--------------------------- MODULE MCJoinToCreate ---------------------------
(* Instances of JoinToCreate for TLC.                                      *)
EXTENDS JoinToCreate, TLC

CONSTANTS u1, u2, c1, c2, w1, w2

MCSymmetry == Permutations(Users) \cup Permutations(Rooms) \cup Permutations(Workers)
=============================================================================
