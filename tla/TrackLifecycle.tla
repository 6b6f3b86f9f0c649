--------------------------- MODULE TrackLifecycle ---------------------------
(***************************************************************************)
(* What the music package promises about one queue entry, with the guild   *)
(* players, the goroutines and Lavalink left out.  An entry is accepted    *)
(* once, waits in a queue, becomes the current track at most once, and     *)
(* once gone never comes back.  MusicPlayer is shown to implement this     *)
(* specification.                                                          *)
(***************************************************************************)
EXTENDS Naturals

CONSTANT Entries    \* the QIDs that newTrack may hand out

VARIABLE stage      \* stage[e]: how far entry e has come

Stages == {"new", "queued", "current", "gone"}

StagesOK == stage \in [Entries -> Stages]

LifeInit == stage = [e \in Entries |-> "new"]

\* A batch is accepted: its entries wait, except that one may start at once.
Accept(S, first) ==
  /\ S # {}
  /\ \A e \in S : stage[e] = "new"
  /\ stage' = [e \in Entries |-> IF e \notin S THEN stage[e]
                                 ELSE IF e \in first THEN "current"
                                 ELSE "queued"]

\* A waiting entry takes over from whatever was current in its player.
Promote(e, old) ==
  /\ stage[e] = "queued"
  /\ \A f \in old : stage[f] = "current"
  /\ stage' = [f \in Entries |-> IF f = e THEN "current"
                                 ELSE IF f \in old THEN "gone"
                                 ELSE stage[f]]

\* Entries are played out, removed, or discarded with the player's state.
Drop(S) ==
  /\ \A e \in S : stage[e] \in {"queued", "current"}
  /\ stage' = [e \in Entries |-> IF e \in S THEN "gone" ELSE stage[e]]

LifeNext ==
  \/ \E S \in SUBSET Entries :
       \/ Accept(S, {})
       \/ \E e \in S : Accept(S, {e})
       \/ Drop(S)
  \/ \E e \in Entries :
       \/ Promote(e, {})
       \/ \E f \in Entries : Promote(e, {f})

LifeSpec == LifeInit /\ [][LifeNext]_stage
=============================================================================
