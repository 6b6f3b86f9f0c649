----------------------------- MODULE MCReactions -----------------------------
(* The two components that reactions drive, for TLC: the starboard and the *)
(* reaction roles.  They share no state, so one of them runs and the other *)
(* keeps an initial state.                                                 *)
EXTENDS MCStarboard, Sequences

CONSTANTS
  Emojis, MenuRoles, Titles, Tasks, Established, MaxCalls, MaxMishaps,
  e1, e2, r1, r2, t1, t2

VARIABLES
  running,
  menuPost, caption, offered, reacted, roles, mode, name, entries, task, calls,
  mishaps, alone, onlyAdds, editsMixed

\* The menu that exists from the start has entries like any other.
ASSUME MenusAssumption ==
  Established \in Seq([emoji : Emojis, role : MenuRoles]) /\ MaxMishaps \in Nat

Menus == INSTANCE ReactionRoles WITH posted <- menuPost

menuVars == <<menuPost, caption, offered, reacted, roles, mode, name, entries, task, calls,
              mishaps, alone, onlyAdds, editsMixed>>

MCEstablished == <<[emoji |-> e1, role |-> r1], [emoji |-> e2, role |-> r2]>>

MCInit ==
  /\ running \in {"starboard", "menus"}
  /\ Init /\ Menus!Init
  /\ running # "starboard" => cfg = [enabled |-> TRUE, threshold |-> 1, selfStar |-> TRUE]
  /\ running # "menus" => menuPost = "none" /\ roles = {}

MCNext ==
  \/ running = "starboard" /\ Next /\ UNCHANGED <<menuVars, running>>
  \/ running = "menus" /\ Menus!Next /\ UNCHANGED <<vars, running>>

MCSpec == MCInit /\ [][MCNext]_<<vars, menuVars, running>>

RolesSymmetry == MCSymmetry \cup Permutations(Tasks)

\* ReactionRoles!CalmOutcome, SomeRoleKept and MenuShown.
CalmOutcome  == Menus!CalmOutcome
SomeRoleKept == Menus!SomeRoleKept
MenuShown    == Menus!MenuShown
=============================================================================
