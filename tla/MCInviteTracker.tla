-------------------------- MODULE MCInviteTracker --------------------------
(* Instances of InviteTracker for TLC.                                     *)
EXTENDS InviteTracker, TLC

CONSTANTS w1, w2

MCSymmetry == Permutations(Workers)
=============================================================================
