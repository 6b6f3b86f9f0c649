--------------------------- MODULE MCMusicPlayer ---------------------------
(* Instances of MusicPlayer for TLC.                                       *)
EXTENDS MusicPlayer

CONSTANTS e1, e2, e3, e4, p1, p2, c1, c2, l1

MCSymmetry == Permutations(Entries) \cup Permutations(Players)
                \cup Permutations(Callers)

\* Below, inside and beyond any queue of at most three entries.
MCMoveTargets == {-1, 1, 5}
=============================================================================
