---------------------------- MODULE JoinToCreate ----------------------------
(***************************************************************************)
(* voice.Manager for one guild: a member who joins the trigger channel     *)
(* gets a room of its own, and a room is deleted when it is left empty.    *)
(* Beside it: Discord, which moves members and deletes channels at once;   *)
(* the gateway, which reports that in order but later; the session's state *)
(* cache, which lags behind with it; and the jtc_channels table.           *)
(*                                                                         *)
(* Each voice event is handled in a goroutine of its own (Workers); every  *)
(* call of Discord and every query is a step, and may fail.  Room names,   *)
(* limits, permissions and owners (/voice) are left out.                   *)
(***************************************************************************)
EXTENDS Integers, Sequences, FiniteSets

CONSTANTS
  Users,
  Rooms,      \* channels the bot can create; Discord never reuses an ID
  Trigger,    \* jtc_config.trigger_channel
  Lobby,      \* a voice channel that is not the bot's
  Nowhere,    \* not in a voice channel; no room
  NoUser,     \* the member of no event
  Workers,    \* goroutines running HandleVoiceUpdate
  MaxMoves,   \* bound: what members do of their own accord
  MaxFailures, \* bound: failed calls
  MaxRestarts, \* bound: restarts of the process
  MaxQueue    \* bound: events the gateway has not delivered

Channels == {Trigger, Lobby} \cup Rooms
Places   == Channels \cup {Nowhere}

ASSUME JTCAssumption ==
  /\ Trigger # Lobby /\ Nowhere \notin Channels
  /\ Trigger \notin Rooms /\ Lobby \notin Rooms
  /\ IsFiniteSet(Users) /\ NoUser \notin Users
  /\ MaxMoves \in Nat /\ MaxFailures \in Nat /\ MaxRestarts \in Nat /\ MaxQueue \in Nat

VARIABLES
  exist,    \* the voice channels of the guild
  born,     \* rooms created so far
  where,    \* where each member is
  gateway,  \* voice events under way to the bot
  seen,     \* where the state cache has each member
  recorded, \* the rooms with a row in jtc_channels
  enabled,  \* jtc_config.enabled
  pc,       \* what a worker does next
  event,    \* its event: the member, and where it was and is
  room,     \* the room it has created
  stale,    \* records CleanupStale has still to look at
  moves,    \* bound: moves so far
  failures, \* bound: failed calls so far
  restarts, \* bound: restarts so far
  missed    \* history: rooms left, or never entered, before they were recorded

discordVars == <<exist, born, where, gateway>>
botVars     == <<seen, pc, event, room, stale>>
vars        == <<discordVars, recorded, enabled, botVars, moves, failures, restarts, missed>>

NoEvent == [user |-> NoUser, old |-> Nowhere, new |-> Nowhere]

All(x) == [w \in Workers |-> x]

Init ==
  /\ exist = {Trigger, Lobby}
  /\ born = {}
  /\ where = [u \in Users |-> Nowhere]
  /\ gateway = <<>>
  /\ seen = where
  /\ recorded = {}
  /\ enabled = TRUE
  /\ pc = All("idle")
  /\ event = All(NoEvent)
  /\ room = All(Nowhere)
  /\ stale = {}
  /\ moves = 0
  /\ failures = 0
  /\ restarts = 0
  /\ missed = {}

-----------------------------------------------------------------------------
(* Discord                                                                 *)

In(c) == {u \in Users : where[u] = c}

Report(u, to) == [user |-> u, to |-> to]

\* A member joins a channel, leaves, or changes in place (mutes, streams).
Go ==
  \E u \in Users, to \in exist \cup {Nowhere} :
    /\ moves < MaxMoves
    /\ Len(gateway) < MaxQueue
    /\ where[u] # Nowhere \/ to # Nowhere
    /\ where' = [where EXCEPT ![u] = to]
    /\ gateway' = Append(gateway, Report(u, to))
    /\ moves' = moves + 1
    /\ UNCHANGED <<exist, born, recorded, enabled, botVars, failures, restarts, missed>>

\* The configuration is switched on or off.
Configure ==
  /\ moves < MaxMoves
  /\ moves' = moves + 1
  /\ enabled' = ~enabled
  /\ UNCHANGED <<discordVars, recorded, botVars, failures, restarts, missed>>

\* The next voice event updates the state cache and gets a goroutine.
Dispatch(w) ==
  /\ pc[w] = "idle"
  /\ gateway # <<>>
  /\ LET e == Head(gateway)
     IN  /\ seen' = [seen EXCEPT ![e.user] = e.to]
         /\ event' = [event EXCEPT ![w] =
                        [user |-> e.user, old |-> seen[e.user], new |-> e.to]]
  /\ gateway' = Tail(gateway)
  /\ pc' = [pc EXCEPT ![w] = "config"]
  /\ UNCHANGED <<exist, born, where, recorded, enabled, room, stale, moves, failures, restarts, missed>>

-----------------------------------------------------------------------------
(* HandleVoiceUpdate                                                       *)

Goto(w, step) == pc' = [pc EXCEPT ![w] = step]

\* The handler returns.
Return(w) ==
  /\ Goto(w, "idle")
  /\ event' = [event EXCEPT ![w] = NoEvent]
  /\ room' = [room EXCEPT ![w] = Nowhere]

Fail == failures < MaxFailures /\ failures' = failures + 1

\* The member left a channel, for another one or altogether.
Left(e) == e.old # Nowhere /\ e.old # e.new

\* What follows the creation half of the handler.
ThenCleanUp(w) ==
  \/ Left(event[w]) /\ Goto(w, "lookup") /\ UNCHANGED <<event, room>>
  \/ ~Left(event[w]) /\ Return(w)

LoadConfig(w) ==
  /\ pc[w] = "config"
  /\ \/ /\ enabled /\ event[w].new = Trigger
        /\ Goto(w, "create")
        /\ UNCHANGED <<event, room, failures>>
     \/ /\ ~(enabled /\ event[w].new = Trigger)
        /\ ThenCleanUp(w)
        /\ UNCHANGED failures
     \/ Fail /\ Return(w)
  /\ UNCHANGED <<discordVars, recorded, enabled, seen, stale, moves, restarts, missed>>

\* GuildChannelCreateComplex.
CreateRoom(w) ==
  /\ pc[w] = "create"
  /\ \/ \E c \in Rooms \ born :
          /\ exist' = exist \cup {c}
          /\ born' = born \cup {c}
          /\ room' = [room EXCEPT ![w] = c]
          /\ Goto(w, "move")
          /\ UNCHANGED <<event, failures>>
     \/ Fail /\ ThenCleanUp(w) /\ UNCHANGED <<exist, born>>
  /\ UNCHANGED <<where, gateway, recorded, enabled, seen, stale, moves, restarts, missed>>

\* GuildMemberMove: it fails for a member who is in no voice channel, and a
\* failure is only logged.
MoveMember(w) ==
  /\ pc[w] = "move"
  /\ Goto(w, "record")
  /\ LET u == event[w].user
     IN  \/ /\ where[u] # Nowhere /\ room[w] \in exist
            /\ Len(gateway) < MaxQueue
            /\ where' = [where EXCEPT ![u] = room[w]]
            /\ gateway' = Append(gateway, Report(u, room[w]))
            /\ UNCHANGED <<failures, missed>>
         \/ /\ where[u] = Nowhere \/ room[w] \notin exist
            /\ missed' = missed \cup {room[w]}
            /\ UNCHANGED <<where, gateway, failures>>
         \/ Fail /\ UNCHANGED <<where, gateway, missed>>
  /\ UNCHANGED <<exist, born, recorded, enabled, seen, event, room, stale, moves, restarts>>

\* AddJTCChannel.
RecordRoom(w) ==
  /\ pc[w] = "record"
  /\ \/ recorded' = recorded \cup {room[w]} /\ UNCHANGED failures
     \/ Fail /\ UNCHANGED recorded
  /\ ThenCleanUp(w)
  /\ UNCHANGED <<discordVars, enabled, seen, stale, moves, restarts, missed>>

\* Wrong variant: any channel that is left empty is deleted.
LookUpAny(w) ==
  /\ pc[w] = "lookup"
  /\ Goto(w, "members")
  /\ UNCHANGED <<discordVars, recorded, enabled, seen, event, room, stale, moves,
                 failures, restarts, missed>>

\* GetJTCChannel: a channel without a record is not the bot's to delete.
LookUp(w) ==
  /\ pc[w] = "lookup"
  /\ LET c == event[w].old
     IN  \/ /\ c \in recorded
            /\ Goto(w, "members")
            /\ UNCHANGED <<event, room, failures, missed>>
         \/ /\ c \notin recorded
            /\ missed' = missed \cup ({c} \cap Rooms)
            /\ Return(w)
            /\ UNCHANGED failures
         \/ Fail /\ Return(w) /\ UNCHANGED missed
  /\ UNCHANGED <<discordVars, recorded, enabled, seen, stale, moves, restarts>>

\* Wrong variant: the member who left is still counted, so no room is empty.
CheckMembersBefore(w) ==
  /\ pc[w] = "members"
  /\ Return(w)
  /\ UNCHANGED <<discordVars, recorded, enabled, seen, stale, moves, failures,
                 restarts, missed>>

\* channelHasMembers, by the state cache: a channel that is gone, which the
\* cache may or may not have heard of, counts as empty there.
CheckMembers(w) ==
  /\ pc[w] = "members"
  /\ \/ /\ \/ \A u \in Users : seen[u] # event[w].old
           \/ event[w].old \notin exist
        /\ Goto(w, "delete")
        /\ UNCHANGED <<event, room>>
     \/ (\E u \in Users : seen[u] = event[w].old) /\ Return(w)
  /\ UNCHANGED <<discordVars, recorded, enabled, seen, stale, moves, failures, restarts, missed>>

\* ChannelDelete: Discord disconnects whoever is still there.
DeleteRoom(w) ==
  /\ pc[w] = "delete"
  /\ Goto(w, "unrecord")
  /\ LET c == event[w].old
     IN  \/ /\ c \in exist
            /\ exist' = exist \ {c}
            /\ where' = [u \in Users |-> IF where[u] = c THEN Nowhere ELSE where[u]]
            /\ Len(gateway) + Cardinality(In(c)) <= MaxQueue
            /\ \E order \in [1..Cardinality(In(c)) -> In(c)] :
                 /\ {order[i] : i \in DOMAIN order} = In(c)
                 /\ gateway' = gateway \o
                      [i \in DOMAIN order |-> Report(order[i], Nowhere)]
            /\ UNCHANGED failures
         \/ c \notin exist /\ UNCHANGED <<exist, where, gateway, failures>>
         \/ Fail /\ UNCHANGED <<exist, where, gateway>>
  /\ UNCHANGED <<born, recorded, enabled, seen, event, room, stale, moves, restarts, missed>>

\* RemoveJTCChannel, whether the deletion worked or not.
RemoveRecord(w) ==
  /\ pc[w] = "unrecord"
  /\ \/ recorded' = recorded \ {event[w].old} /\ UNCHANGED failures
     \/ Fail /\ UNCHANGED recorded
  /\ Return(w)
  /\ UNCHANGED <<discordVars, enabled, seen, stale, moves, restarts, missed>>

-----------------------------------------------------------------------------
(* Restart                                                                 *)

\* The process dies and comes back: the gateway sends the guild's state
\* afresh, and CleanupStale lists the records.
Restart ==
  /\ restarts < MaxRestarts
  /\ restarts' = restarts + 1
  /\ gateway' = <<>>
  /\ seen' = where
  /\ pc' = All("idle")
  /\ event' = All(NoEvent)
  /\ room' = All(Nowhere)
  /\ \/ stale' = recorded /\ UNCHANGED failures
     \/ Fail /\ stale' = {}
  /\ UNCHANGED <<exist, born, where, recorded, enabled, moves, missed>>

\* Wrong variant: a listed record is removed without a look at its channel.
CleanupUnseen(c) ==
  /\ c \in stale
  /\ stale' = stale \ {c}
  /\ recorded' = recorded \ {c}
  /\ UNCHANGED <<discordVars, enabled, seen, pc, event, room, moves, failures,
                 restarts, missed>>

\* Wrong variant: only a record whose channel is there is removed.
CleanupReversed(c) ==
  /\ c \in stale
  /\ stale' = stale \ {c}
  /\ recorded' = IF c \in exist THEN recorded \ {c} ELSE recorded
  /\ UNCHANGED <<discordVars, enabled, seen, pc, event, room, moves, failures,
                 restarts, missed>>

\* A record goes when its channel cannot be loaded, for whatever reason.
CleanupStale(c) ==
  /\ c \in stale
  /\ stale' = stale \ {c}
  /\ \/ c \in exist /\ UNCHANGED <<recorded, failures>>
     \/ c \notin exist /\ recorded' = recorded \ {c} /\ UNCHANGED failures
     \/ Fail /\ recorded' = recorded \ {c}
     \/ Fail /\ UNCHANGED recorded
  /\ UNCHANGED <<discordVars, enabled, seen, pc, event, room, moves, restarts, missed>>

Next ==
  \/ Go
  \/ Configure
  \/ \E w \in Workers :
       \/ Dispatch(w)
       \/ LoadConfig(w)
       \/ CreateRoom(w)
       \/ MoveMember(w)
       \/ RecordRoom(w)
       \/ LookUp(w)
       \/ CheckMembers(w)
       \/ DeleteRoom(w)
       \/ RemoveRecord(w)
  \/ Restart
  \/ \E c \in Rooms : CleanupStale(c)

Spec == Init /\ [][Next]_vars

-----------------------------------------------------------------------------
(* Properties                                                              *)

Quiet == gateway = <<>> /\ stale = {} /\ \A w \in Workers : pc[w] = "idle"

Empty == {c \in exist \cap Rooms : In(c) = {}}

\* "deleting empty JTC channels on leave": when no call failed, nothing was
\* restarted and nothing is under way, no room stands empty.
NoEmptyRooms == Quiet /\ failures = 0 /\ restarts = 0 => Empty = {}

\* However the handlers of members who leave at the same time interleave, a
\* room is deleted unless it was left, or not even entered, before it was
\* recorded.
KnownRoomsDeleted == Quiet /\ failures = 0 /\ restarts = 0 => Empty \subseteq missed

\* Only the bot's own rooms are ever deleted.
OthersKept == {Trigger, Lobby} \subseteq exist

\* After restarts at any point, once CleanupStale is through, every record is
\* of a room that exists.
NoStaleRecords == Quiet /\ failures = 0 => recorded \subseteq exist

\* As long as no call fails, no room that exists loses its record, without
\* which it would never be deleted.
RecordsKept ==
  [][failures' = 0 => recorded \cap exist' \subseteq recorded']_vars
=============================================================================
