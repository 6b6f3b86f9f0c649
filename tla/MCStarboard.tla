----------------------------- MODULE MCStarboard -----------------------------
(* Instances of Starboard for TLC.                                         *)
EXTENDS Starboard, TLC

CONSTANTS alice, bob, author, bot, p1, p2, p3, w1, w2

MCSymmetry ==
  Permutations({alice, bob}) \cup Permutations(Posts) \cup Permutations(Workers)
=============================================================================
