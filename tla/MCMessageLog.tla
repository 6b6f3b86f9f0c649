---------------------------- MODULE MCMessageLog ----------------------------
(* Instances of MessageLog for TLC: one channel holds every message.       *)
EXTENDS MessageLog

CONSTANTS m1, m2, c1, h1, h2, none, a, b

MCChannelOf == [m \in Messages |-> c1]
MCSymmetry == Permutations(Messages) \cup Permutations(Handlers)
                \cup Permutations({a, b})
=============================================================================
