----------------------------- MODULE MCCommands ------------------------------
(* Join-to-create rooms, the locks of channels and rooms, and the rapsheet *)
(* that moderators keep, for TLC.  They share no state here, so one of     *)
(* them runs and the others keep an initial state.                         *)
EXTENDS MCJoinToCreate

CONSTANTS
  Callers, Chiefs, Guest, Nobody, Missing, MaxOrders, MaxHands, MaxSlips,
  Mods, Admins, Owner, MaxCommands, MaxFaults, MaxRules,
  root, caller

\* A guild has finitely many moderators.
ASSUME ModsAssumption == IsFiniteSet(Mods)

VARIABLES
  running,
  voice, everyone, cached, news, personal, roomOwner, inRoom, order, orders, byHand, slips,
  overtaken, lingers,
  rules, rank, banned, inside, sheet, warnings, command, issued, modFaults, ruled, done, lost

Locks == INSTANCE ChannelLocks
Mod   == INSTANCE Moderation

lockVars == <<voice, everyone, cached, news, personal, roomOwner, inRoom, order, orders,
              byHand, slips, overtaken, lingers>>
modVars  == <<rules, rank, banned, inside, sheet, warnings, command, issued, modFaults, ruled,
              done, lost>>

MCInit ==
  /\ running \in {"rooms", "locks", "moderation"}
  /\ Init /\ Locks!Init /\ Mod!Init
  /\ running # "locks" => ~voice /\ everyone = Locks!NoBits /\ cached = Missing
  /\ running # "moderation" => \A m \in DOMAIN rank : rank[m] = 1

MCNext ==
  \/ running = "rooms" /\ Next /\ UNCHANGED <<lockVars, modVars, running>>
  \/ running = "locks" /\ Locks!Next /\ UNCHANGED <<vars, modVars, running>>
  \/ running = "moderation" /\ Mod!Next /\ UNCHANGED <<vars, lockVars, running>>

MCSpec == MCInit /\ [][MCNext]_<<vars, lockVars, modVars, running>>

\* ChannelLocks!NoUndueChange and RejectedOut, Moderation!RapsheetTrue.
NoUndueChange == Locks!NoUndueChange
RejectedOut   == Locks!RejectedOut
RapsheetTrue  == Mod!RapsheetTrue
=============================================================================
