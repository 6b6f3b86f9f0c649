---------------------------- MODULE CommandProofs ----------------------------
(***************************************************************************)
(* Theorems about what members and moderators do by command or by joining  *)
(* a channel: the rooms of JoinToCreate, the locks of ChannelLocks and the *)
(* rapsheet of Moderation, for any number of members, rooms, moderators    *)
(* and handlers.                                                           *)
(***************************************************************************)
EXTENDS MCCommands, FiniteSetTheorems, TLAPS

-----------------------------------------------------------------------------
(* Join-to-create rooms                                                    *)

JSteps == {"idle", "config", "create", "move", "record", "lookup", "members", "delete",
           "unrecord"}
Reports     == [user : Users, to : Places]
VoiceEvents == [user : Users \cup {NoUser}, old : Places, new : Places]

WorkersOK ==
  /\ pc \in [Workers -> JSteps]
  /\ event \in [Workers -> VoiceEvents]
  /\ room \in [Workers -> Rooms \cup {Nowhere}]
  /\ \A w \in Workers : pc[w] # "idle" => event[w].user \in Users

PlacesOK ==
  /\ exist \subseteq Channels /\ born \subseteq Rooms
  /\ recorded \subseteq born
  /\ where \in [Users -> Places]
  /\ seen \in [Users -> Places]
  /\ gateway \in Seq(Reports)
  /\ failures \in Nat /\ restarts \in Nat

RoomsTyped == WorkersOK /\ PlacesOK

Creating(w) == pc[w] \in {"move", "record"}
Deleting(w) == pc[w] \in {"members", "delete", "unrecord"}

\* A room that is being made is nobody else's business yet, and what is being
\* deleted was once a room of the bot's.
RoomsOK ==
  /\ exist \cap Rooms \subseteq born
  /\ {Trigger, Lobby} \subseteq exist
  /\ \A w \in Workers : Creating(w) => room[w] \in (exist \cap born) \ recorded
  /\ \A w \in Workers : Deleting(w) => event[w].old \in born
  /\ \A v, w \in Workers : Creating(v) /\ Creating(w) /\ v # w => room[v] # room[w]
  /\ \A v, w \in Workers : Creating(v) /\ Deleting(w) => room[v] # event[w].old

\* While no call has failed, a record is left behind by a room only until
\* the handler that deleted it, or CleanupStale, takes it away.
GoneOK == failures = 0 =>
  /\ \A w \in Workers : pc[w] = "unrecord" => event[w].old \notin exist
  /\ \A c \in recorded \ exist :
       c \in stale \/ \E w \in Workers : pc[w] = "unrecord" /\ event[w].old = c

\* The last report under way tells where a member is; without one the cache does.
LatestOK == \A u \in Users :
  /\ seen[u] = where[u] \/ \E i \in DOMAIN gateway : gateway[i].user = u
  /\ \A i \in DOMAIN gateway : gateway[i].user = u =>
       gateway[i].to = where[u] \/ \E j \in DOMAIN gateway : j > i /\ gateway[j].user = u

\* The bot takes a room to have a member, will be told of one, is about to move
\* one in, or has yet to look whether the one who left was the last.
Watched(c) ==
  \/ \E u \in Users : seen[u] = c
  \/ \E i \in DOMAIN gateway : gateway[i].to = c
  \/ \E w \in Workers : pc[w] = "move" /\ room[w] = c
  \/ \E w \in Workers : pc[w] \notin {"idle", "unrecord"} /\ event[w].old = c /\ Left(event[w])

WatchedOK == failures = 0 /\ restarts = 0 => \A c \in (exist \cap Rooms) \ missed : Watched(c)

RoomsInv == RoomsTyped /\ RoomsOK /\ GoneOK /\ LatestOK /\ WatchedOK

-----------------------------------------------------------------------------

\* The three ways in which the queue of reports changes.
LEMMA QueueAppend ==
  ASSUME NEW s \in Seq(Reports), NEW r \in Reports
  PROVE  /\ Append(s, r) \in Seq(Reports)
         /\ Len(s) \in Nat /\ DOMAIN s = 1..Len(s)
         /\ DOMAIN Append(s, r) = 1..(Len(s) + 1)
         /\ \A i \in 1..Len(s) : Append(s, r)[i] = s[i]
         /\ Append(s, r)[Len(s) + 1] = r
OBVIOUS

LEMMA QueueTail ==
  ASSUME NEW s \in Seq(Reports), s # <<>>
  PROVE  /\ Tail(s) \in Seq(Reports) /\ Head(s) \in Reports
         /\ Len(s) \in Nat \ {0} /\ DOMAIN s = 1..Len(s)
         /\ DOMAIN Tail(s) = 1..(Len(s) - 1)
         /\ Head(s) = s[1]
         /\ \A i \in 1..(Len(s) - 1) : Tail(s)[i] = s[i + 1]
OBVIOUS

LEMMA QueueConcat ==
  ASSUME NEW s \in Seq(Reports), NEW n \in Nat, NEW t \in [1..n -> Reports]
  PROVE  /\ s \o t \in Seq(Reports)
         /\ Len(s) \in Nat /\ DOMAIN s = 1..Len(s)
         /\ DOMAIN (s \o t) = 1..(Len(s) + n)
         /\ \A i \in 1..Len(s) : (s \o t)[i] = s[i]
         /\ \A i \in 1..n : (s \o t)[Len(s) + i] = t[i]
<1>1. t \in Seq(Reports) /\ Len(t) = n
  OBVIOUS
<1> QED
  BY <1>1

\* What every other worker is at stays as it was.
Untouched(w) ==
  \A v \in Workers \ {w} : pc'[v] = pc[v] /\ event'[v] = event[v] /\ room'[v] = room[v]

\* What a handler does next, seen worker by worker.
LEMMA WorkerGoes ==
  ASSUME WorkersOK, NEW w \in Workers, pc[w] # "idle", NEW s \in JSteps \ {"idle"}, Goto(w, s),
         event' = event, room' = room
  PROVE  WorkersOK' /\ Untouched(w) /\ pc'[w] = s
BY DEF WorkersOK, Untouched, Goto

LEMMA WorkerReturns ==
  ASSUME WorkersOK, NEW w \in Workers, Return(w)
  PROVE  WorkersOK' /\ Untouched(w) /\ pc'[w] = "idle"
<1>1. NoEvent \in VoiceEvents /\ "idle" \in JSteps
  BY DEF NoEvent, VoiceEvents, Places, JSteps
<1> QED
  BY <1>1 DEF WorkersOK, Untouched, Return, Goto

LEMMA WorkerCleansUp ==
  ASSUME WorkersOK, NEW w \in Workers, pc[w] # "idle", ThenCleanUp(w)
  PROVE  /\ WorkersOK' /\ Untouched(w)
         /\ \/ pc'[w] = "lookup" /\ event'[w] = event[w] /\ Left(event[w])
            \/ pc'[w] = "idle" /\ ~Left(event[w])
BY WorkerGoes, WorkerReturns DEF ThenCleanUp, JSteps

\* Going, moving and deleting report whom they concern; nobody else moves.
LEMMA Disconnected ==
  ASSUME JTCAssumption, RoomsTyped, NEW c \in Channels,
         NEW list \in [1..Cardinality(In(c)) -> In(c)],
         {list[i] : i \in DOMAIN list} = In(c)
  PROVE  LET t == [i \in DOMAIN list |-> Report(list[i], Nowhere)]
             n == Cardinality(In(c))
             q == gateway \o t IN
         /\ n \in Nat /\ q \in Seq(Reports)
         /\ Len(gateway) \in Nat /\ DOMAIN gateway = 1..Len(gateway)
         /\ DOMAIN q = 1..(Len(gateway) + n)
         /\ \A i \in 1..Len(gateway) : q[i] = gateway[i]
         /\ \A i \in 1..n : q[Len(gateway) + i] = Report(list[i], Nowhere)
<1> DEFINE n == Cardinality(In(c))
           t == [i \in DOMAIN list |-> Report(list[i], Nowhere)]
<1>1. n \in Nat
  BY FS_Subset, FS_CardinalityType DEF JTCAssumption, In
<1>2. t \in [1..n -> Reports]
  BY DEF Report, Reports, In, Places
<1>3. gateway \in Seq(Reports)
  BY DEF RoomsTyped, PlacesOK
<1> QED
  BY <1>1, <1>2, <1>3, QueueConcat

LEMMA RoomsTypedStep ==
  ASSUME JTCAssumption, RoomsTyped, RoomsOK, [Next]_vars
  PROVE  RoomsTyped'
<1>1. CASE Go
  BY <1>1, QueueAppend
  DEF Go, Report, Reports, botVars, RoomsTyped, WorkersOK, PlacesOK, Places, Channels
<1>2. CASE Configure
  BY <1>2 DEF Configure, discordVars, botVars, RoomsTyped, WorkersOK, PlacesOK
<1>3. ASSUME NEW w \in Workers, Dispatch(w) PROVE RoomsTyped'
  <2>1. Head(gateway) \in Reports /\ Tail(gateway) \in Seq(Reports)
    BY <1>3, QueueTail DEF Dispatch, RoomsTyped, PlacesOK
  <2>2. PlacesOK'
    BY <1>3, <2>1 DEF Dispatch, Reports, RoomsTyped, PlacesOK
  <2> QED
    BY <1>3, <2>1, <2>2 DEF Dispatch, Reports, RoomsTyped, WorkersOK, PlacesOK, VoiceEvents, JSteps
<1>4. ASSUME NEW w \in Workers, LoadConfig(w) PROVE RoomsTyped'
  BY <1>4, WorkerGoes, WorkerReturns, WorkerCleansUp
  DEF LoadConfig, Fail, discordVars, RoomsTyped, PlacesOK, JSteps
<1>5. ASSUME NEW w \in Workers, CreateRoom(w) PROVE RoomsTyped'
  <2>1. WorkersOK'
    <3>1. CASE ThenCleanUp(w)
      BY <1>5, <3>1, WorkerCleansUp DEF CreateRoom, RoomsTyped
    <3>2. CASE \E c \in Rooms \ born : room' = [room EXCEPT ![w] = c] /\ Goto(w, "move") /\ event' = event
      BY <1>5, <3>2 DEF CreateRoom, RoomsTyped, WorkersOK, Goto, JSteps
    <3> QED
      BY <1>5, <3>1, <3>2 DEF CreateRoom
  <2> QED
    BY <1>5, <2>1 DEF CreateRoom, Fail, RoomsTyped, PlacesOK, Channels
<1>6. ASSUME NEW w \in Workers, MoveMember(w) PROVE RoomsTyped'
  <2>1. WorkersOK'
    BY <1>6, WorkerGoes DEF MoveMember, RoomsTyped, JSteps
  <2>2. CASE UNCHANGED <<where, gateway>>
    BY <1>6, <2>1, <2>2 DEF MoveMember, Fail, RoomsTyped, PlacesOK
  <2>3. CASE /\ where[event[w].user] # Nowhere
             /\ where' = [where EXCEPT ![event[w].user] = room[w]]
             /\ gateway' = Append(gateway, Report(event[w].user, room[w]))
    <3>1. event[w].user \in Users /\ room[w] \in Places
      BY <1>6 DEF MoveMember, RoomsTyped, WorkersOK, Places, Channels
    <3>2. Report(event[w].user, room[w]) \in Reports
      BY <3>1 DEF Report, Reports
    <3> QED
      BY <1>6, <2>1, <2>3, <3>1, <3>2, QueueAppend DEF MoveMember, Fail, RoomsTyped, PlacesOK
  <2> QED
    BY <1>6, <2>2, <2>3 DEF MoveMember
<1>7. ASSUME NEW w \in Workers, RecordRoom(w) PROVE RoomsTyped'
  BY <1>7, WorkerCleansUp
  DEF RecordRoom, Fail, RoomsTyped, RoomsOK, Creating, PlacesOK, discordVars
<1>8. ASSUME NEW w \in Workers, LookUp(w) PROVE RoomsTyped'
  <2>1. WorkersOK'
    BY <1>8, WorkerGoes, WorkerReturns DEF LookUp, RoomsTyped, JSteps
  <2> QED
    BY <1>8, <2>1 DEF LookUp, Fail, RoomsTyped, PlacesOK, discordVars
<1>9. ASSUME NEW w \in Workers, CheckMembers(w) PROVE RoomsTyped'
  BY <1>9, WorkerGoes, WorkerReturns DEF CheckMembers, RoomsTyped, PlacesOK, discordVars, JSteps
<1>10. ASSUME NEW w \in Workers, DeleteRoom(w) PROVE RoomsTyped'
  <2>1. WorkersOK'
    BY <1>10, WorkerGoes DEF DeleteRoom, RoomsTyped, JSteps
  <2>2. CASE UNCHANGED <<exist, where, gateway>>
    BY <1>10, <2>1, <2>2 DEF DeleteRoom, Fail, RoomsTyped, PlacesOK
  <2>3. CASE event[w].old \in exist /\ ~UNCHANGED <<exist, where, gateway>>
    <3>1. event[w].old \in Channels
      BY <2>3 DEF RoomsTyped, PlacesOK
    <3>2. gateway' \in Seq(Reports)
      BY <1>10, <2>3, <3>1, Disconnected DEF DeleteRoom
    <3> QED
      BY <1>10, <2>1, <2>3, <3>2 DEF DeleteRoom, Fail, RoomsTyped, PlacesOK, Places
  <2> QED
    BY <1>10, <2>2, <2>3 DEF DeleteRoom
<1>11. ASSUME NEW w \in Workers, RemoveRecord(w) PROVE RoomsTyped'
  BY <1>11, WorkerReturns DEF RemoveRecord, Fail, RoomsTyped, PlacesOK, discordVars
<1>12. CASE Restart
  BY <1>12
  DEF Restart, Fail, All, NoEvent, RoomsTyped, WorkersOK, PlacesOK, JSteps, VoiceEvents, Places
<1>13. ASSUME NEW c \in Rooms, CleanupStale(c) PROVE RoomsTyped'
  BY <1>13 DEF CleanupStale, Fail, discordVars, RoomsTyped, WorkersOK, PlacesOK
<1>14. CASE UNCHANGED vars
  BY <1>14 DEF vars, discordVars, botVars, RoomsTyped, WorkersOK, PlacesOK
<1> QED
  BY <1>1, <1>2, <1>3, <1>4, <1>5, <1>6, <1>7, <1>8, <1>9, <1>10, <1>11, <1>12, <1>13, <1>14
  DEF Next

LEMMA RoomsStep ==
  ASSUME JTCAssumption, RoomsTyped, RoomsOK, [Next]_vars
  PROVE  RoomsOK'
<1> USE DEF RoomsOK, Creating, Deleting, Untouched
<1>0. WorkersOK /\ PlacesOK
  BY DEF RoomsTyped
<1>1. CASE Go
  BY <1>1 DEF Go, botVars
<1>2. CASE Configure
  BY <1>2 DEF Configure, discordVars, botVars
<1>3. ASSUME NEW w \in Workers, Dispatch(w) PROVE RoomsOK'
  BY <1>0, <1>3 DEF Dispatch, WorkersOK
<1>4. ASSUME NEW w \in Workers, LoadConfig(w) PROVE RoomsOK'
  <2>1. Untouched(w) /\ pc'[w] \in {"create", "lookup", "idle"}
    BY <1>0, <1>4, WorkerGoes, WorkerReturns, WorkerCleansUp DEF LoadConfig, JSteps
  <2> QED
    BY <1>4, <2>1 DEF LoadConfig, discordVars
<1>5. ASSUME NEW w \in Workers, CreateRoom(w) PROVE RoomsOK'
  <2>1. CASE ThenCleanUp(w) /\ UNCHANGED <<exist, born>>
    <3>1. Untouched(w) /\ pc'[w] \in {"lookup", "idle"}
      BY <1>0, <1>5, <2>1, WorkerCleansUp DEF CreateRoom
    <3> QED
      BY <1>5, <2>1, <3>1 DEF CreateRoom
  <2>2. ASSUME NEW c \in Rooms \ born, exist' = exist \cup {c}, born' = born \cup {c},
               room' = [room EXCEPT ![w] = c], Goto(w, "move"), event' = event
        PROVE RoomsOK'
    BY <1>0, <1>5, <2>2 DEF CreateRoom, Goto, WorkersOK, PlacesOK
  <2> QED
    BY <1>5, <2>1, <2>2 DEF CreateRoom
<1>6. ASSUME NEW w \in Workers, MoveMember(w) PROVE RoomsOK'
  BY <1>0, <1>6, WorkerGoes DEF MoveMember, JSteps
<1>7. ASSUME NEW w \in Workers, RecordRoom(w) PROVE RoomsOK'
  <2>1. Untouched(w) /\ pc'[w] \in {"lookup", "idle"}
    BY <1>0, <1>7, WorkerCleansUp DEF RecordRoom
  <2> QED
    BY <1>7, <2>1 DEF RecordRoom, discordVars
<1>8. ASSUME NEW w \in Workers, LookUp(w) PROVE RoomsOK'
  <2>1. Untouched(w)
    BY <1>0, <1>8, WorkerGoes, WorkerReturns DEF LookUp, JSteps
  <2>2. pc'[w] = "idle" \/ (pc'[w] = "members" /\ event' = event /\ event[w].old \in recorded)
    BY <1>0, <1>8, WorkerGoes, WorkerReturns DEF LookUp, JSteps
  <2> QED
    BY <1>0, <1>8, <2>1, <2>2 DEF LookUp, discordVars, PlacesOK
<1>9. ASSUME NEW w \in Workers, CheckMembers(w) PROVE RoomsOK'
  <2>1. Untouched(w) /\ (pc'[w] = "idle" \/ (pc'[w] = "delete" /\ event' = event))
    BY <1>0, <1>9, WorkerGoes, WorkerReturns DEF CheckMembers, JSteps
  <2> QED
    BY <1>9, <2>1 DEF CheckMembers, discordVars
<1>10. ASSUME NEW w \in Workers, DeleteRoom(w) PROVE RoomsOK'
  <2>1. Untouched(w) /\ pc'[w] = "unrecord"
    BY <1>0, <1>10, WorkerGoes DEF DeleteRoom, JSteps
  <2> QED
    BY <1>0, <1>10, <2>1 DEF DeleteRoom, JTCAssumption, PlacesOK
<1>11. ASSUME NEW w \in Workers, RemoveRecord(w) PROVE RoomsOK'
  <2>1. Untouched(w) /\ pc'[w] = "idle"
    BY <1>0, <1>11, WorkerReturns DEF RemoveRecord
  <2> QED
    BY <1>11, <2>1 DEF RemoveRecord, discordVars
<1>12. CASE Restart
  BY <1>12 DEF Restart, All
<1>13. ASSUME NEW c \in Rooms, CleanupStale(c) PROVE RoomsOK'
  BY <1>13 DEF CleanupStale, discordVars
<1>14. CASE UNCHANGED vars
  BY <1>14 DEF vars, discordVars, botVars
<1> QED
  BY <1>1, <1>2, <1>3, <1>4, <1>5, <1>6, <1>7, <1>8, <1>9, <1>10, <1>11, <1>12, <1>13, <1>14
  DEF Next

\* A call that failed is never forgotten.
LEMMA FailCounts ==
  ASSUME PlacesOK, Fail
  PROVE  failures' # 0
BY DEF PlacesOK, Fail

LEMMA GoneStep ==
  ASSUME JTCAssumption, RoomsTyped, RoomsOK, GoneOK, [Next]_vars
  PROVE  GoneOK'
<1> USE DEF GoneOK, Untouched
<1>0. WorkersOK /\ PlacesOK
  BY DEF RoomsTyped
<1>1. CASE Go
  <2>1. exist' = exist /\ UNCHANGED <<recorded, stale, failures, pc, event>>
    BY <1>1 DEF Go, botVars
  <2> QED
    BY <2>1
<1>2. CASE Configure
  BY <1>2 DEF Configure, discordVars, botVars
<1>3. ASSUME NEW w \in Workers, Dispatch(w) PROVE GoneOK'
  BY <1>0, <1>3 DEF Dispatch, WorkersOK
<1>4. ASSUME NEW w \in Workers, LoadConfig(w) PROVE GoneOK'
  <2>1. Untouched(w) /\ pc'[w] # "unrecord"
    BY <1>0, <1>4, WorkerGoes, WorkerReturns, WorkerCleansUp DEF LoadConfig, JSteps
  <2>2. pc[w] # "unrecord" /\ UNCHANGED <<exist, recorded, stale>>
    BY <1>4 DEF LoadConfig, discordVars
  <2>3. failures' = 0 => failures = 0
    BY <1>0, <1>4, FailCounts DEF LoadConfig
  <2> QED
    BY <2>1, <2>2, <2>3
<1>5. ASSUME NEW w \in Workers, CreateRoom(w) PROVE GoneOK'
  <2>1. Untouched(w) /\ pc'[w] # "unrecord"
    <3>1. CASE ThenCleanUp(w)
      BY <1>0, <1>5, <3>1, WorkerCleansUp DEF CreateRoom
    <3>2. CASE \E c \in Rooms \ born : room' = [room EXCEPT ![w] = c] /\ Goto(w, "move") /\ event' = event
      BY <1>0, <3>2 DEF Goto, WorkersOK
    <3> QED
      BY <1>5, <3>1, <3>2 DEF CreateRoom
  <2>2. pc[w] # "unrecord" /\ UNCHANGED <<recorded, stale>>
    BY <1>5 DEF CreateRoom
  <2>3. failures' = 0 => failures = 0
    BY <1>0, <1>5, FailCounts DEF CreateRoom
  <2>4. UNCHANGED exist \/ \E c \in Rooms \ born : exist' = exist \cup {c}
    BY <1>5 DEF CreateRoom
  <2>5. \A v \in Workers : pc[v] = "unrecord" => event[v].old \in born
    BY DEF RoomsOK, Deleting
  <2> QED
    BY <2>1, <2>2, <2>3, <2>4, <2>5
<1>6. ASSUME NEW w \in Workers, MoveMember(w) PROVE GoneOK'
  <2>1. Untouched(w) /\ pc'[w] # "unrecord"
    BY <1>0, <1>6, WorkerGoes DEF MoveMember, JSteps
  <2>2. pc[w] # "unrecord" /\ UNCHANGED <<exist, recorded, stale>>
    BY <1>6 DEF MoveMember
  <2>3. failures' = 0 => failures = 0
    BY <1>0, <1>6, FailCounts DEF MoveMember
  <2> QED
    BY <2>1, <2>2, <2>3
<1>7. ASSUME NEW w \in Workers, RecordRoom(w) PROVE GoneOK'
  <2>1. Untouched(w) /\ pc'[w] # "unrecord"
    BY <1>0, <1>7, WorkerCleansUp DEF RecordRoom
  <2>2. pc[w] = "record" /\ UNCHANGED <<exist, stale>> /\ recorded' \subseteq recorded \cup {room[w]}
    BY <1>7 DEF RecordRoom, discordVars
  <2>3. failures' = 0 => failures = 0
    BY <1>0, <1>7, FailCounts DEF RecordRoom
  <2>4. room[w] \in exist
    BY <2>2 DEF RoomsOK, Creating
  <2> QED
    BY <2>1, <2>2, <2>3, <2>4
<1>8. ASSUME NEW w \in Workers, LookUp(w) PROVE GoneOK'
  <2>1. Untouched(w) /\ pc'[w] # "unrecord"
    BY <1>0, <1>8, WorkerGoes, WorkerReturns DEF LookUp, JSteps
  <2>2. pc[w] # "unrecord" /\ UNCHANGED <<exist, recorded, stale>>
    BY <1>8 DEF LookUp, discordVars
  <2>3. failures' = 0 => failures = 0
    BY <1>0, <1>8, FailCounts DEF LookUp
  <2> QED
    BY <2>1, <2>2, <2>3
<1>9. ASSUME NEW w \in Workers, CheckMembers(w) PROVE GoneOK'
  <2>1. Untouched(w) /\ pc'[w] # "unrecord"
    BY <1>0, <1>9, WorkerGoes, WorkerReturns DEF CheckMembers, JSteps
  <2>2. pc[w] # "unrecord" /\ UNCHANGED <<exist, recorded, stale, failures>>
    BY <1>9 DEF CheckMembers, discordVars
  <2> QED
    BY <2>1, <2>2
<1>10. ASSUME NEW w \in Workers, DeleteRoom(w) PROVE GoneOK'
  <2>1. Untouched(w) /\ pc'[w] = "unrecord" /\ event' = event
    BY <1>0, <1>10, WorkerGoes DEF DeleteRoom, JSteps
  <2>2. UNCHANGED <<recorded, stale>>
    BY <1>10 DEF DeleteRoom
  <2>3. failures' = 0 => failures = 0 /\ exist' = exist \ {event[w].old}
    BY <1>0, <1>10, FailCounts DEF DeleteRoom
  <2> QED
    BY <2>1, <2>2, <2>3
<1>11. ASSUME NEW w \in Workers, RemoveRecord(w) PROVE GoneOK'
  <2>1. Untouched(w) /\ pc'[w] = "idle"
    BY <1>0, <1>11, WorkerReturns DEF RemoveRecord
  <2>2. UNCHANGED <<exist, stale>>
    BY <1>11 DEF RemoveRecord, discordVars
  <2>3. failures' = 0 => failures = 0 /\ recorded' = recorded \ {event[w].old}
    BY <1>0, <1>11, FailCounts DEF RemoveRecord
  <2> QED
    BY <2>1, <2>2, <2>3
<1>12. CASE Restart
  <2>1. failures' = 0 => stale' = recorded
    BY <1>0, <1>12, FailCounts DEF Restart
  <2> QED
    BY <1>12, <2>1 DEF Restart, All
<1>13. ASSUME NEW c \in Rooms, CleanupStale(c) PROVE GoneOK'
  <2>1. /\ UNCHANGED <<exist, pc, event>> /\ stale' = stale \ {c}
    BY <1>13 DEF CleanupStale, discordVars
  <2>2. failures' = 0 => failures = 0 /\ (recorded' = recorded \ {c} \/ (c \in exist /\ recorded' = recorded))
    BY <1>0, <1>13, FailCounts DEF CleanupStale
  <2> QED
    BY <2>1, <2>2
<1>14. CASE UNCHANGED vars
  BY <1>14 DEF vars, discordVars, botVars
<1> QED
  BY <1>1, <1>2, <1>3, <1>4, <1>5, <1>6, <1>7, <1>8, <1>9, <1>10, <1>11, <1>12, <1>13, <1>14
  DEF Next

\* The members and the queue of reports change in five ways only.
LEMMA LatestStep ==
  ASSUME JTCAssumption, RoomsTyped, LatestOK, [Next]_vars
  PROVE  LatestOK'
<1>0. WorkersOK /\ PlacesOK
  BY DEF RoomsTyped
<1>1. CASE UNCHANGED <<where, gateway, seen>>
  BY <1>1 DEF LatestOK
<1>2. ASSUME NEW u \in Users, NEW to \in Places, where' = [where EXCEPT ![u] = to],
             gateway' = Append(gateway, Report(u, to)), seen' = seen
      PROVE  LatestOK'
  <2>1. Report(u, to) \in Reports
    BY DEF Report, Reports
  <2> DEFINE n == Len(gateway)
  <2>2. /\ n \in Nat /\ DOMAIN gateway = 1..n /\ DOMAIN gateway' = 1..(n + 1)
        /\ \A i \in 1..n : gateway'[i] = gateway[i]
        /\ gateway'[n + 1].user = u /\ gateway'[n + 1].to = to
    BY <1>0, <1>2, <2>1, QueueAppend DEF PlacesOK, Report
  <2> HIDE DEF n
  <2>3. \A x \in Users : where'[x] = IF x = u THEN to ELSE where[x]
    BY <1>0, <1>2 DEF PlacesOK
  <2> QED
    BY <1>2, <2>2, <2>3 DEF LatestOK
<1>3. ASSUME NEW w \in Workers, Dispatch(w) PROVE LatestOK'
  <2> DEFINE n == Len(gateway)
             e == Head(gateway)
  <2>2. /\ n \in Nat \ {0} /\ DOMAIN gateway = 1..n /\ DOMAIN gateway' = 1..(n - 1)
        /\ e = gateway[1] /\ e \in Reports
        /\ \A i \in 1..(n - 1) : gateway'[i] = gateway[i + 1]
    BY <1>0, <1>3, QueueTail DEF PlacesOK, Dispatch
  <2>3. seen' = [seen EXCEPT ![e.user] = e.to] /\ where' = where
    BY <1>3 DEF Dispatch
  <2> HIDE DEF n, e
  <2>4. \A x \in Users : seen'[x] = IF x = e.user THEN e.to ELSE seen[x]
    BY <1>0, <2>3 DEF PlacesOK
  <2> SUFFICES ASSUME NEW x \in Users
               PROVE  /\ seen'[x] = where[x] \/ \E i \in DOMAIN gateway' : gateway'[i].user = x
                      /\ \A i \in DOMAIN gateway' : gateway'[i].user = x =>
                           \/ gateway'[i].to = where[x]
                           \/ \E j \in DOMAIN gateway' : j > i /\ gateway'[j].user = x
    BY <2>3 DEF LatestOK
  <2>5. \A i \in 2..n : gateway'[i - 1] = gateway[i] /\ i - 1 \in 1..(n - 1)
    BY <2>2
  <2>6. seen'[x] = where[x] \/ \E i \in DOMAIN gateway' : gateway'[i].user = x
    <3>1. ASSUME NEW j \in 2..n, gateway[j].user = x
          PROVE  \E i \in DOMAIN gateway' : gateway'[i].user = x
      <4>1. gateway'[j - 1].user = x /\ j - 1 \in DOMAIN gateway'
        BY <2>2, <2>5, <3>1
      <4> QED
        BY <4>1
    <3>2. CASE e.user = x
      <4>1. e.to = where[x] \/ \E j \in 1..n : j > 1 /\ gateway[j].user = x
        BY <2>2, <3>2 DEF LatestOK
      <4>2. \A j \in 1..n : j > 1 => j \in 2..n
        BY <2>2
      <4> QED
        BY <2>4, <3>1, <3>2, <4>1, <4>2
    <3>3. CASE e.user # x
      <4>1. seen[x] = where[x] \/ \E j \in 1..n : gateway[j].user = x
        BY <2>2 DEF LatestOK
      <4>2. \A j \in 1..n : j = 1 \/ j \in 2..n
        BY <2>2
      <4> QED
        BY <2>2, <2>4, <3>1, <3>3, <4>1, <4>2
    <3> QED
      BY <3>2, <3>3
  <2>7. ASSUME NEW i \in DOMAIN gateway', gateway'[i].user = x, gateway'[i].to # where[x]
        PROVE  \E j \in DOMAIN gateway' : j > i /\ gateway'[j].user = x
    <3>1. i + 1 \in DOMAIN gateway /\ gateway[i + 1] = gateway'[i]
      BY <2>2
    <3>2. PICK j \in DOMAIN gateway : j > i + 1 /\ gateway[j].user = x
      BY <2>7, <3>1 DEF LatestOK
    <3>3. j \in 2..n /\ j - 1 > i /\ j - 1 \in DOMAIN gateway'
      BY <2>2, <3>2
    <3>4. gateway'[j - 1].user = x
      BY <2>5, <3>2, <3>3
    <3> QED
      BY <3>3, <3>4
  <2> QED
    BY <2>6, <2>7
<1>4. ASSUME NEW w \in Workers, DeleteRoom(w), ~UNCHANGED <<where, gateway, seen>>
      PROVE  LatestOK'
  <2> DEFINE c == event[w].old
             m == Len(gateway)
             n == Cardinality(In(c))
  <2>1. c \in exist /\ c \in Channels
    BY <1>0, <1>4 DEF DeleteRoom, PlacesOK
  <2>2. PICK list \in [1..n -> In(c)] :
          /\ {list[i] : i \in DOMAIN list} = In(c)
          /\ gateway' = gateway \o [i \in DOMAIN list |-> Report(list[i], Nowhere)]
    BY <1>4 DEF DeleteRoom
  <2>3. /\ n \in Nat /\ m \in Nat /\ DOMAIN gateway = 1..m /\ DOMAIN gateway' = 1..(m + n)
        /\ \A i \in 1..m : gateway'[i] = gateway[i]
        /\ \A i \in 1..n : gateway'[m + i] = Report(list[i], Nowhere)
    BY <2>1, <2>2, Disconnected
  <2>4. seen' = seen /\ \A x \in Users : where'[x] = IF x \in In(c) THEN Nowhere ELSE where[x]
    BY <1>4 DEF DeleteRoom, In
  <2>5. \A i \in 1..n : m + i \in 1..(m + n) /\ gateway'[m + i].user \in In(c) /\ gateway'[m + i].to = Nowhere
    BY <2>2, <2>3 DEF Report
  <2>6. \A x \in In(c) : \E i \in 1..n : gateway'[m + i].user = x
    <3>1. \A x \in In(c) : \E i \in 1..n : list[i] = x
      BY <2>2
    <3>2. ASSUME NEW i \in 1..n PROVE gateway'[m + i].user = list[i]
      <4>1. gateway'[m + i] = Report(list[i], Nowhere)
        BY <2>3
      <4> QED
        BY <4>1 DEF Report
    <3> QED
      BY <3>1, <3>2
  <2>7. \A i \in 1..(m + n) : i \in 1..m \/ \E k \in 1..n : i = m + k
    <3> SUFFICES ASSUME NEW i \in 1..(m + n), i \notin 1..m PROVE \E k \in 1..n : i = m + k
      OBVIOUS
    <3>1. i - m \in 1..n /\ i = m + (i - m)
      BY <2>3
    <3> QED
      BY <3>1
  <2> HIDE DEF c, m, n
  <2> SUFFICES ASSUME NEW x \in Users
               PROVE  /\ seen[x] = where'[x] \/ \E i \in DOMAIN gateway' : gateway'[i].user = x
                      /\ \A i \in DOMAIN gateway' : gateway'[i].user = x =>
                           \/ gateway'[i].to = where'[x]
                           \/ \E j \in DOMAIN gateway' : j > i /\ gateway'[j].user = x
    BY <2>4 DEF LatestOK
  <2>8. CASE x \in In(c)
    <3>1. PICK k \in 1..n : gateway'[m + k].user = x
      BY <2>6, <2>8
    <3>2. where'[x] = Nowhere
      BY <2>4, <2>8
    <3>3. m + k \in DOMAIN gateway'
      BY <2>3, <2>5, <3>1
    <3>4. \A i \in 1..m : m + k > i
      BY <2>3, <3>1
    <3>5. ASSUME NEW i \in DOMAIN gateway', gateway'[i].user = x
          PROVE  gateway'[i].to = where'[x] \/ \E j \in DOMAIN gateway' : j > i /\ gateway'[j].user = x
      <4>1. CASE i \in 1..m
        BY <3>1, <3>3, <3>4, <4>1
      <4>2. CASE \E l \in 1..n : i = m + l
        BY <2>5, <3>2, <4>2
      <4> QED
        BY <2>3, <2>7, <4>1, <4>2
    <3> QED
      BY <3>1, <3>3, <3>5
  <2>9. CASE x \notin In(c)
    <3>1. where'[x] = where[x]
      BY <2>4, <2>9
    <3>2. \A i \in DOMAIN gateway' : gateway'[i].user = x => i \in DOMAIN gateway
      BY <2>3, <2>5, <2>7, <2>9
    <3>3. \A i \in DOMAIN gateway : i \in DOMAIN gateway' /\ gateway'[i] = gateway[i]
      BY <2>3
    <3> QED
      BY <3>1, <3>2, <3>3 DEF LatestOK
  <2> QED
    BY <2>8, <2>9
<1>5. CASE Go
  <2>1. PICK u \in Users, to \in exist \cup {Nowhere} :
          /\ where' = [where EXCEPT ![u] = to] /\ gateway' = Append(gateway, Report(u, to))
    BY <1>5 DEF Go
  <2>2. to \in Places
    BY <1>0 DEF PlacesOK, Places
  <2> QED
    BY <1>2, <1>5, <2>1, <2>2 DEF Go, botVars
<1>6. ASSUME NEW w \in Workers, MoveMember(w), ~UNCHANGED <<where, gateway, seen>>
      PROVE  LatestOK'
  <2>1. event[w].user \in Users /\ room[w] \in Places
    BY <1>0, <1>6 DEF MoveMember, WorkersOK, Places, Channels
  <2> QED
    BY <1>2, <1>6, <2>1 DEF MoveMember
<1>7. CASE Restart
  BY <1>7 DEF Restart, LatestOK
<1>8. ASSUME NEW w \in Workers, CreateRoom(w) PROVE LatestOK'
  BY <1>1, <1>8 DEF CreateRoom
<1>9. ASSUME NEW w \in Workers,
             LoadConfig(w) \/ RecordRoom(w) \/ LookUp(w) \/ CheckMembers(w) \/ RemoveRecord(w)
      PROVE  LatestOK'
  BY <1>1, <1>9 DEF LoadConfig, RecordRoom, LookUp, CheckMembers, RemoveRecord, discordVars
<1>10. CASE Configure \/ UNCHANGED vars \/ \E c \in Rooms : CleanupStale(c)
  BY <1>1, <1>10 DEF Configure, CleanupStale, vars, discordVars, botVars
<1> QED
  BY <1>1, <1>3, <1>4, <1>5, <1>6, <1>7, <1>8, <1>9, <1>10 DEF Next

\* Watched, but for the handler w.
Awaited(w, c) ==
  \/ \E u \in Users : seen[u] = c
  \/ \E i \in DOMAIN gateway : gateway[i].to = c
  \/ \E v \in Workers \ {w} : pc[v] = "move" /\ room[v] = c
  \/ \E v \in Workers \ {w} :
       pc[v] \notin {"idle", "unrecord"} /\ event[v].old = c /\ Left(event[v])

\* A step of w that leaves the reports alone keeps every room watched that
\* another handler or a report is responsible for.
LEMMA StillAwaited ==
  ASSUME NEW w \in Workers, Untouched(w), seen' = seen, gateway' = gateway, NEW c, Awaited(w, c)
  PROVE  Watched(c)'
BY DEF Awaited, Watched, Untouched, Left

LEMMA WatchedStep ==
  ASSUME JTCAssumption, RoomsTyped, RoomsOK, GoneOK, WatchedOK, [Next]_vars
  PROVE  WatchedOK'
<1>0. WorkersOK /\ PlacesOK
  BY DEF RoomsTyped
<1> SUFFICES ASSUME failures' = 0, restarts' = 0,
                    NEW c \in (exist' \cap Rooms) \ missed'
             PROVE  Watched(c)'
  BY DEF WatchedOK
<1>a. ~Fail /\ failures = 0 /\ restarts = 0 /\ ~Restart
  BY <1>0, FailCounts
  DEF Restart, PlacesOK, Next, vars, discordVars, botVars, Go, Configure, Dispatch, LoadConfig,
      CreateRoom, MoveMember, RecordRoom, LookUp, CheckMembers, DeleteRoom, RemoveRecord, CleanupStale
<1>b. c \in exist \ missed => Watched(c)
  BY <1>a DEF WatchedOK
<1>1. CASE UNCHANGED <<seen, gateway, pc, room, event, exist, missed>>
  BY <1>b, <1>1 DEF Watched, Left
<1>2. ASSUME NEW r \in Reports, gateway' = Append(gateway, r), UNCHANGED <<seen, pc, room, event>>,
             Watched(c)
      PROVE  Watched(c)'
  <2>1. /\ Len(gateway) \in Nat /\ DOMAIN gateway = 1..Len(gateway)
        /\ DOMAIN gateway' = 1..(Len(gateway) + 1)
        /\ \A i \in 1..Len(gateway) : gateway'[i] = gateway[i]
    BY <1>0, <1>2, QueueAppend DEF PlacesOK
  <2> QED
    BY <1>2, <2>1 DEF Watched, Left
<1>3. CASE Go
  <2>1. PICK u \in Users, to \in exist \cup {Nowhere} : gateway' = Append(gateway, Report(u, to))
    BY <1>3 DEF Go
  <2>2. Report(u, to) \in Reports
    BY <1>0 DEF Report, Reports, PlacesOK, Places
  <2> QED
    BY <1>2, <1>3, <1>b, <2>1, <2>2 DEF Go, botVars
<1>4. ASSUME NEW w \in Workers, Dispatch(w) PROVE Watched(c)'
  <2> DEFINE n == Len(gateway)
             e == Head(gateway)
  <2>1. /\ n \in Nat \ {0} /\ DOMAIN gateway = 1..n /\ DOMAIN gateway' = 1..(n - 1)
        /\ e = gateway[1] /\ e \in Reports
        /\ \A i \in 1..(n - 1) : gateway'[i] = gateway[i + 1]
    BY <1>0, <1>4, QueueTail DEF PlacesOK, Dispatch
  <2>2. /\ seen' = [seen EXCEPT ![e.user] = e.to] /\ pc[w] = "idle"
        /\ event' = [event EXCEPT ![w] = [user |-> e.user, old |-> seen[e.user], new |-> e.to]]
        /\ pc' = [pc EXCEPT ![w] = "config"] /\ room' = room
        /\ UNCHANGED <<exist, missed>>
    BY <1>4 DEF Dispatch
  <2> HIDE DEF n, e
  <2>3. /\ \A x \in Users : seen'[x] = IF x = e.user THEN e.to ELSE seen[x]
        /\ e.user \in Users
    BY <1>0, <2>1, <2>2 DEF PlacesOK, Reports
  <2>4. /\ Untouched(w) /\ pc'[w] = "config" /\ event'[w].old = seen[e.user] /\ event'[w].new = e.to
    BY <1>0, <2>2 DEF WorkersOK, Untouched
  <2>5. Watched(c)
    BY <1>b, <2>2
  <2>6. CASE \E u \in Users : seen[u] = c
    <3>1. PICK u \in Users : seen[u] = c
      BY <2>6
    <3>2. CASE u = e.user /\ e.to # c
      <4>1. c # Nowhere
        BY DEF JTCAssumption, Channels
      <4> QED
        BY <2>4, <3>1, <3>2, <4>1 DEF Watched, Left
    <3>3. CASE ~(u = e.user /\ e.to # c)
      BY <2>3, <3>1, <3>3 DEF Watched
    <3> QED
      BY <3>2, <3>3
  <2>7. CASE \E i \in DOMAIN gateway : gateway[i].to = c
    <3>1. PICK i \in 1..n : gateway[i].to = c
      BY <2>1, <2>7
    <3>2. CASE i = 1
      BY <2>1, <2>3, <3>1, <3>2 DEF Watched
    <3>3. CASE i # 1
      <4>1. i - 1 \in 1..(n - 1) /\ (i - 1) + 1 = i
        BY <2>1, <3>3
      <4>2. gateway'[i - 1] = gateway[i]
        BY <2>1, <4>1
      <4> QED
        BY <2>1, <3>1, <4>1, <4>2 DEF Watched
    <3> QED
      BY <3>2, <3>3
  <2>8. CASE \E v \in Workers : pc[v] = "move" /\ room[v] = c
    BY <2>2, <2>4, <2>8 DEF Watched, Untouched
  <2>9. CASE \E v \in Workers : pc[v] \notin {"idle", "unrecord"} /\ event[v].old = c /\ Left(event[v])
    BY <2>2, <2>4, <2>9 DEF Watched, Untouched, Left
  <2> QED
    BY <2>5, <2>6, <2>7, <2>8, <2>9 DEF Watched
<1>5. ASSUME NEW w \in Workers, Watched(c), pc[w] # "move" \/ room[w] # c,
             Untouched(w), seen' = seen, gateway' = gateway,
             \/ pc'[w] \notin {"idle", "unrecord"} /\ event'[w] = event[w]
             \/ ~(event[w].old = c /\ Left(event[w]))
             \/ pc[w] = "unrecord"
      PROVE  Watched(c)'
  <2>1. CASE Awaited(w, c)
    BY <1>5, <2>1, StillAwaited
  <2>2. CASE ~Awaited(w, c)
    <3>1. pc[w] # "unrecord" /\ event[w].old = c /\ Left(event[w])
      BY <1>5, <2>2 DEF Awaited, Watched
    <3> QED
      BY <1>5, <3>1 DEF Watched, Left
  <2> QED
    BY <2>1, <2>2
<1>6. ASSUME NEW w \in Workers, LoadConfig(w) PROVE Watched(c)'
  <2>1. UNCHANGED <<exist, missed, seen, gateway>> /\ pc[w] = "config"
    BY <1>6 DEF LoadConfig, discordVars
  <2>2. /\ Untouched(w)
        /\ \/ pc'[w] \in {"create", "lookup"} /\ event'[w] = event[w]
           \/ ~Left(event[w])
    BY <1>0, <1>6, <1>a, WorkerGoes, WorkerCleansUp DEF LoadConfig, JSteps
  <2> QED
    BY <1>5, <1>b, <2>1, <2>2
<1>7. ASSUME NEW w \in Workers, CreateRoom(w) PROVE Watched(c)'
  <2>1. PICK d \in Rooms \ born :
          /\ exist' = exist \cup {d} /\ room' = [room EXCEPT ![w] = d]
          /\ Goto(w, "move") /\ event' = event
    BY <1>7, <1>a DEF CreateRoom
  <2>2. Untouched(w) /\ pc'[w] = "move" /\ room'[w] = d /\ event'[w] = event[w]
    BY <1>0, <2>1 DEF WorkersOK, Untouched, Goto
  <2>3. UNCHANGED <<missed, seen, gateway>> /\ pc[w] = "create"
    BY <1>7 DEF CreateRoom
  <2>4. CASE c = d
    BY <2>2, <2>4 DEF Watched
  <2>5. CASE c # d
    BY <1>5, <1>b, <2>1, <2>2, <2>3, <2>5
  <2> QED
    BY <2>4, <2>5
<1>8. ASSUME NEW w \in Workers, MoveMember(w) PROVE Watched(c)'
  <2>1. /\ Untouched(w) /\ pc'[w] = "record" /\ event' = event /\ room' = room
        /\ UNCHANGED <<exist, seen>> /\ pc[w] = "move"
    BY <1>0, <1>8, WorkerGoes DEF MoveMember, JSteps
  <2>2. CASE UNCHANGED gateway
    <3>1. missed' = missed \cup {room[w]}
      <4>1. CASE gateway' = Append(gateway, Report(event[w].user, room[w]))
        <5>1. Report(event[w].user, room[w]) \in Reports
          BY <1>0, <2>1 DEF Report, Reports, WorkersOK, Places, Channels
        <5> QED
          BY <1>0, <2>2, <4>1, <5>1, QueueAppend DEF PlacesOK
      <4> QED
        BY <1>8, <1>a, <4>1 DEF MoveMember
    <3> QED
      BY <1>5, <1>b, <2>1, <2>2, <3>1
  <2>3. CASE /\ gateway' = Append(gateway, Report(event[w].user, room[w]))
             /\ missed' = missed
    <3>1. Report(event[w].user, room[w]) \in Reports
      BY <1>0, <2>1 DEF Report, Reports, WorkersOK, Places, Channels
    <3>2. /\ Len(gateway) \in Nat /\ DOMAIN gateway = 1..Len(gateway)
          /\ DOMAIN gateway' = 1..(Len(gateway) + 1)
          /\ \A i \in 1..Len(gateway) : gateway'[i] = gateway[i]
          /\ gateway'[Len(gateway) + 1] = Report(event[w].user, room[w])
      BY <1>0, <2>3, <3>1, QueueAppend DEF PlacesOK
    <3>3. CASE room[w] = c
      <4>1. gateway'[Len(gateway) + 1].to = c /\ Len(gateway) + 1 \in DOMAIN gateway'
        BY <3>2, <3>3 DEF Report
      <4> QED
        BY <4>1 DEF Watched
    <3>4. CASE room[w] # c
      <4>1. Watched(c)
        BY <1>b, <2>1, <2>3
      <4>2. \A i \in DOMAIN gateway : i \in DOMAIN gateway' /\ gateway'[i] = gateway[i]
        BY <3>2
      <4> QED
        BY <2>1, <3>4, <4>1, <4>2 DEF Watched, Untouched, Left
    <3> QED
      BY <3>3, <3>4
  <2> QED
    BY <1>8, <1>a, <2>2, <2>3 DEF MoveMember
<1>9. ASSUME NEW w \in Workers, RecordRoom(w) PROVE Watched(c)'
  <2>1. UNCHANGED <<exist, missed, seen, gateway>> /\ pc[w] = "record"
    BY <1>9 DEF RecordRoom, discordVars
  <2>2. /\ Untouched(w)
        /\ \/ pc'[w] = "lookup" /\ event'[w] = event[w]
           \/ ~Left(event[w])
    BY <1>0, <1>9, WorkerCleansUp DEF RecordRoom
  <2> QED
    BY <1>5, <1>b, <2>1, <2>2
<1>10. ASSUME NEW w \in Workers, LookUp(w) PROVE Watched(c)'
  <2>1. UNCHANGED <<exist, seen, gateway>> /\ pc[w] = "lookup" /\ missed \subseteq missed'
    BY <1>10, <1>a DEF LookUp, discordVars
  <2>2. /\ Untouched(w)
        /\ \/ pc'[w] = "members" /\ event'[w] = event[w]
           \/ missed' = missed \cup ({event[w].old} \cap Rooms)
    BY <1>0, <1>10, <1>a, WorkerGoes, WorkerReturns DEF LookUp, JSteps
  <2> QED
    BY <1>5, <1>b, <2>1, <2>2
<1>11. ASSUME NEW w \in Workers, CheckMembers(w) PROVE Watched(c)'
  <2>1. UNCHANGED <<exist, missed, seen, gateway>> /\ pc[w] = "members"
    BY <1>11 DEF CheckMembers, discordVars
  <2>2. /\ Untouched(w)
        /\ \/ pc'[w] = "delete" /\ event'[w] = event[w]
           \/ \E u \in Users : seen[u] = event[w].old
    BY <1>0, <1>11, WorkerGoes, WorkerReturns DEF CheckMembers, JSteps
  <2>3. CASE \E u \in Users : seen[u] = c
    BY <2>1, <2>3 DEF Watched
  <2>4. CASE ~\E u \in Users : seen[u] = c
    BY <1>5, <1>b, <2>1, <2>2, <2>4
  <2> QED
    BY <2>3, <2>4
<1>12. ASSUME NEW w \in Workers, DeleteRoom(w) PROVE Watched(c)'
  <2> DEFINE d == event[w].old
  <2>1. /\ Untouched(w) /\ event' = event /\ UNCHANGED <<missed, seen, room>> /\ pc[w] = "delete"
    BY <1>0, <1>12, WorkerGoes DEF DeleteRoom, JSteps
  <2>2. exist' = exist \ {d}
    BY <1>12, <1>a DEF DeleteRoom
  <2>3. c # d /\ Watched(c)
    BY <1>b, <2>1, <2>2
  <2>4. \A i \in DOMAIN gateway : i \in DOMAIN gateway' /\ gateway'[i] = gateway[i]
    <3>1. CASE gateway' = gateway
      BY <3>1
    <3>2. CASE d \in exist /\ gateway' # gateway
      <4>1. d \in Channels
        BY <1>0, <3>2 DEF PlacesOK
      <4>2. PICK list \in [1..Cardinality(In(d)) -> In(d)] :
              /\ {list[i] : i \in DOMAIN list} = In(d)
              /\ gateway' = gateway \o [i \in DOMAIN list |-> Report(list[i], Nowhere)]
        BY <1>12, <3>2 DEF DeleteRoom
      <4>3. /\ Cardinality(In(d)) \in Nat /\ Len(gateway) \in Nat /\ DOMAIN gateway = 1..Len(gateway)
            /\ DOMAIN gateway' = 1..(Len(gateway) + Cardinality(In(d)))
            /\ \A i \in 1..Len(gateway) : gateway'[i] = gateway[i]
        BY <4>1, <4>2, Disconnected
      <4> QED
        BY <4>3
    <3> QED
      BY <1>12, <3>1, <3>2 DEF DeleteRoom
  <2> QED
    BY <2>1, <2>3, <2>4 DEF Watched, Untouched, Left
<1>13. ASSUME NEW w \in Workers, RemoveRecord(w) PROVE Watched(c)'
  <2>1. UNCHANGED <<exist, missed, seen, gateway>> /\ pc[w] = "unrecord"
    BY <1>13 DEF RemoveRecord, discordVars
  <2>2. Untouched(w)
    BY <1>0, <1>13, WorkerReturns DEF RemoveRecord
  <2> QED
    BY <1>5, <1>b, <2>1, <2>2
<1>14. CASE Configure \/ UNCHANGED vars \/ \E d \in Rooms : CleanupStale(d)
  BY <1>1, <1>14 DEF Configure, CleanupStale, vars, discordVars, botVars
<1> QED
  BY <1>a, <1>3, <1>4, <1>6, <1>7, <1>8, <1>9, <1>10, <1>11, <1>12, <1>13, <1>14 DEF Next

-----------------------------------------------------------------------------

LEMMA RoomsInitially == JTCAssumption /\ Init => RoomsInv
<1> SUFFICES ASSUME JTCAssumption, Init PROVE RoomsInv
  OBVIOUS
<1>1. RoomsTyped
  <2>1. NoEvent \in VoiceEvents /\ "idle" \in JSteps
    BY DEF NoEvent, VoiceEvents, JSteps, Places
  <2> QED
    BY <2>1 DEF Init, All, RoomsTyped, WorkersOK, PlacesOK, Channels, Places
<1>2. RoomsOK
  BY DEF Init, All, RoomsOK, Creating, Deleting, JTCAssumption
<1>3. GoneOK /\ LatestOK
  BY DEF Init, All, GoneOK, LatestOK
<1>4. WatchedOK
  BY DEF Init, WatchedOK, JTCAssumption
<1> QED
  BY <1>1, <1>2, <1>3, <1>4 DEF RoomsInv

LEMMA RoomsInvariant == Spec => []RoomsInv
<1>1. Init => RoomsInv
  BY RoomsInitially, JTCAssumption
<1>2. RoomsInv /\ [Next]_vars => RoomsInv'
  BY RoomsTypedStep, RoomsStep, GoneStep, LatestStep, WatchedStep, JTCAssumption DEF RoomsInv
<1> QED
  BY <1>1, <1>2, PTL DEF Spec

\* The bot never deletes a channel it has not made: the trigger and every other
\* channel survive whatever handleChannelLeave does, also after failures,
\* restarts and any interleaving of handlers.
THEOREM OthersSurvive == Spec => []OthersKept
<1>1. RoomsInv => OthersKept
  BY DEF RoomsInv, RoomsOK, OthersKept
<1> QED
  BY <1>1, RoomsInvariant, PTL

\* Once CleanupStale is through, no row of jtc_channels is left for a channel
\* that is gone, whatever restarts interrupted its deletion.
THEOREM RecordsAreTrue == Spec => []NoStaleRecords
<1>1. RoomsInv => NoStaleRecords
  BY DEF RoomsInv, GoneOK, NoStaleRecords, Quiet
<1> QED
  BY <1>1, RoomsInvariant, PTL

\* However many members leave at once, every room that was entered and recorded
\* before it was left is deleted when the handlers are through.
THEOREM LastOneOut == Spec => []KnownRoomsDeleted
<1>1. RoomsInv => KnownRoomsDeleted
  <2> SUFFICES ASSUME RoomsInv, Quiet, failures = 0, restarts = 0,
                      NEW c \in Empty, c \notin missed
               PROVE  FALSE
    BY DEF KnownRoomsDeleted
  <2>1. Watched(c)
    BY DEF RoomsInv, WatchedOK, Empty
  <2>2. PICK u \in Users : seen[u] = c
    BY <2>1 DEF Watched, Quiet
  <2>3. where[u] = c
    BY <2>2 DEF RoomsInv, LatestOK, Quiet
  <2> QED
    BY <2>3 DEF Empty, In
<1> QED
  BY <1>1, RoomsInvariant, PTL

\* As long as no call fails, RemoveJTCChannel and CleanupStale only take the
\* records of rooms that are gone.
THEOREM RecordsStay == Spec => RecordsKept
<1>1. ASSUME RoomsInv, [Next]_vars, failures' = 0, NEW c \in recorded \cap exist'
      PROVE  c \in recorded'
  <2>0. PlacesOK /\ WorkersOK /\ RoomsOK /\ GoneOK
    BY <1>1 DEF RoomsInv, RoomsTyped
  <2>1. ASSUME NEW w \in Workers, RemoveRecord(w) PROVE c \in recorded'
    <3>1. failures = 0 /\ exist' = exist /\ recorded' = recorded \ {event[w].old}
      BY <1>1, <2>0, <2>1, FailCounts DEF RemoveRecord, discordVars
    <3>2. event[w].old \notin exist
      BY <2>0, <2>1, <3>1 DEF GoneOK, RemoveRecord
    <3> QED
      BY <1>1, <3>1, <3>2
  <2>2. ASSUME NEW d \in Rooms, CleanupStale(d) PROVE c \in recorded'
    BY <1>1, <2>0, <2>2, FailCounts DEF CleanupStale, discordVars
  <2>3. ASSUME NEW w \in Workers, RecordRoom(w) PROVE c \in recorded'
    BY <1>1, <2>3 DEF RecordRoom
  <2>4. ASSUME NEW w \in Workers,
               \/ Dispatch(w) \/ LoadConfig(w) \/ CreateRoom(w) \/ MoveMember(w)
               \/ LookUp(w) \/ CheckMembers(w) \/ DeleteRoom(w)
        PROVE  c \in recorded'
    BY <1>1, <2>4
    DEF Dispatch, LoadConfig, CreateRoom, MoveMember, LookUp, CheckMembers, DeleteRoom
  <2>5. CASE Go \/ Configure \/ Restart \/ UNCHANGED vars
    BY <1>1, <2>5 DEF Go, Configure, Restart, vars
  <2> QED
    BY <1>1, <2>1, <2>2, <2>3, <2>4, <2>5 DEF Next
<1>2. RoomsInv /\ [Next]_vars => [failures' = 0 => recorded \cap exist' \subseteq recorded']_vars
  BY <1>1
<1> QED
  BY <1>2, RoomsInvariant, PTL DEF Spec, RecordsKept

-----------------------------------------------------------------------------
(* The locks of channels and rooms                                         *)

Overwrites == [allow : SUBSET Locks!Bits, deny : SUBSET Locks!Bits]

Orders ==
  {Locks!Free}
    \cup [step : {"fetch"}, by : {"voice", "here", "named"}, what : {"lock", "unlock"}]
    \cup [step : {"set"}, by : {"voice", "here", "named"}, what : {"lock", "unlock"},
           read : Overwrites, failed : BOOLEAN]
    \cup [step : {"permit", "deny", "move", "transfer"}, who : Locks!People]

LocksTyped ==
  /\ voice \in BOOLEAN
  /\ everyone \in Overwrites
  /\ cached \in Overwrites \cup {Missing} /\ news \in Seq(Overwrites)
  /\ personal \in [Locks!People -> {"none", "allow", "deny"}]
  /\ order \in [Callers -> Orders]
  /\ slips \in Nat

\* A handler that nobody has overtaken writes back what is there, unless it could
\* read nothing, and the caller of /voice still may.
NotOvertaken ==
  \A c \in Callers : c \notin overtaken =>
    /\ order[c].step = "set" /\ ~order[c].failed => order[c].read = everyone
    /\ order[c].step \in {"fetch", "set"} /\ order[c].by = "voice" =>
         c = roomOwner \/ c \in Chiefs

\* Who is kept out and still in is about to be put out, lingers, or is somebody
\* whom nothing keeps out.
PutOut ==
  \A p \in inRoom \ (lingers \cup Chiefs) : p \in Locks!People /\ personal[p] = "deny" =>
    \E c \in Callers : order[c].step = "move" /\ order[c].who = p

\* Only in a room is anybody, and does anybody come and go.
InRoomOK == inRoom \subseteq Locks!People

LocksInv == LocksTyped /\ NotOvertaken /\ PutOut /\ InRoomOK

\* What the step of an order says of its other fields.
LEMMA OrderFields ==
  ASSUME LocksTyped, NEW c \in Callers
  PROVE  /\ order[c] = Locks!Free <=> order[c].step = "idle"
         /\ order[c].step \in {"fetch", "set"} =>
              order[c].what \in {"lock", "unlock"} /\ order[c].by \in {"voice", "here", "named"}
         /\ order[c].step = "set" => order[c].read \in Overwrites /\ order[c].failed \in BOOLEAN
         /\ order[c].step \in {"permit", "deny", "move", "transfer"} => order[c].who \in Locks!People
BY DEF LocksTyped, Orders, Locks!Free

\* The order of one caller changes, and no other.
LEMMA OrderChanges ==
  ASSUME LocksTyped, NEW c \in Callers, NEW job \in Orders, order' = [order EXCEPT ![c] = job]
  PROVE  /\ order' \in [Callers -> Orders]
         /\ order'[c] = job
         /\ \A x \in Callers \ {c} : order'[x] = order[x]
BY DEF LocksTyped

\* What Discord has, what it has said and what was heard are overwrites.
LEMMA ChannelTyped ==
  ASSUME LocksTyped
  PROVE  /\ \A ow \in Overwrites : Locks!Change(ow) =>
              /\ everyone' = ow /\ everyone' \in Overwrites
              /\ cached' = cached /\ news' \in Seq(Overwrites)
         /\ news # << >> => Head(news) \in Overwrites /\ Tail(news) \in Seq(Overwrites)
BY DEF LocksTyped, Locks!Change

LEMMA LocksStep ==
  ASSUME LocksInv, [Locks!Next]_lockVars
  PROVE  LocksInv'
<1> USE DEF LocksInv, Locks!channelVars
<1>0. \A c \in Callers : order[c] \in Orders
  BY DEF LocksTyped
<1>1. CASE Locks!Edit
  <2>1. PICK ow \in Overwrites : Locks!Change(ow)
    BY <1>1 DEF Locks!Edit, LocksTyped, Overwrites, Locks!Bits
  <2>2. overtaken' = {x \in Callers : order[x] # Locks!Free}
        /\ UNCHANGED <<voice, personal, roomOwner, inRoom, order, slips, lingers>>
    BY <1>1 DEF Locks!Edit
  <2>3. everyone' \in Overwrites /\ cached' = cached /\ news' \in Seq(Overwrites)
    BY <2>1, ChannelTyped
  <2>4. NotOvertaken'
    BY <2>2, OrderFields DEF NotOvertaken
  <2> QED
    BY <2>2, <2>3, <2>4 DEF LocksTyped, PutOut, InRoomOK
<1>11. CASE Locks!Hear
  <2>1. /\ cached' \in Overwrites /\ news' \in Seq(Overwrites)
        /\ UNCHANGED <<voice, everyone, personal, roomOwner, inRoom, order, slips, overtaken, lingers>>
    BY <1>11, ChannelTyped DEF Locks!Hear
  <2> QED
    BY <2>1 DEF LocksTyped, NotOvertaken, PutOut, InRoomOK
<1>2. ASSUME NEW p \in Locks!People, Locks!ComeAndGo(p) PROVE LocksInv'
  <2>1. UNCHANGED <<voice, everyone, cached, news, personal, roomOwner, order, slips, overtaken>>
    BY <1>2 DEF Locks!ComeAndGo
  <2>2. LocksTyped' /\ NotOvertaken'
    BY <2>1 DEF LocksTyped, NotOvertaken
  <2>3. CASE p \in inRoom
    BY <1>2, <2>1, <2>2, <2>3 DEF Locks!ComeAndGo, PutOut, InRoomOK
  <2>4. CASE p \notin inRoom
    <3>1. p \in Chiefs \/ personal[p] # "deny"
      BY <1>2, <2>4 DEF Locks!ComeAndGo, Locks!MayConnect
    <3> QED
      BY <1>2, <2>1, <2>2, <2>4, <3>1 DEF Locks!ComeAndGo, PutOut, InRoomOK
  <2> QED
    BY <2>3, <2>4
<1>3. ASSUME NEW c \in Callers, Locks!Command(c) \/ Locks!LockCommand(c) PROVE LocksInv'
  <2>1. PICK job \in Orders \ {Locks!Free} :
          /\ job.step \notin {"set", "move"} /\ Locks!Give(c, job)
          /\ job.step = "fetch" /\ job.by = "voice" => c = roomOwner \/ c \in Chiefs
    <3>1. CASE Locks!LockCommand(c)
      BY <3>1 DEF Locks!LockCommand, Orders, Locks!Free
    <3>2. CASE Locks!Command(c)
      BY <3>2 DEF Locks!Command, Locks!ownedChannel, Orders, Locks!Free, Locks!Rejection
    <3> QED
      BY <1>3, <3>1, <3>2
  <2>2. /\ order' \in [Callers -> Orders] /\ order'[c] = job
        /\ \A x \in Callers \ {c} : order'[x] = order[x]
    BY <2>1, OrderChanges DEF Locks!Give
  <2>3. order[c].step = "idle"
    BY <2>1 DEF Locks!Give, Locks!Free
  <2>4. /\ overtaken' = overtaken \ {c}
        /\ UNCHANGED <<voice, everyone, cached, news, personal, roomOwner, inRoom, slips, lingers>>
    BY <2>1 DEF Locks!Give
  <2>5. NotOvertaken'
    BY <2>1, <2>2, <2>4 DEF NotOvertaken
  <2>6. PutOut'
    BY <2>2, <2>3, <2>4 DEF PutOut
  <2> QED
    BY <2>2, <2>4, <2>5, <2>6 DEF LocksTyped, InRoomOK
<1>4. ASSUME NEW c \in Callers, Locks!Fetch(c) \/ Locks!FetchNamed(c) PROVE LocksInv'
  <2>1. PICK ow \in Overwrites, failed \in BOOLEAN :
          /\ Locks!HasRead(c, ow, failed)
          /\ c \notin overtaken' => failed \/ ow = everyone
          /\ c \notin overtaken' /\ order[c].by = "voice" => c \notin overtaken
    <3>1. everyone \in Overwrites /\ Locks!NoBits \in Overwrites
      BY DEF LocksTyped, Locks!NoBits, Overwrites
    <3>2. CASE Locks!Fetch(c)
      BY <3>1, <3>2 DEF Locks!Fetch
    <3>3. CASE Locks!FetchNamed(c)
      BY <3>1, <3>3 DEF Locks!FetchNamed, LocksTyped
    <3> QED
      BY <1>4, <3>2, <3>3
  <2> DEFINE job == [step |-> "set", by |-> order[c].by, what |-> order[c].what,
                     read |-> ow, failed |-> failed]
  <2>2. /\ order[c].step = "fetch" /\ order[c] # Locks!Free
        /\ UNCHANGED <<voice, everyone, cached, news, personal, roomOwner, inRoom, lingers>>
        /\ overtaken \ {c} = overtaken' \ {c} /\ slips' \in Nat
    <3>1. order[c].step = "fetch" /\ order[c] # Locks!Free
      <4>1. order[c].step = "fetch"
        BY <1>4 DEF Locks!Fetch, Locks!FetchNamed
      <4> QED
        BY <4>1 DEF Locks!Free
    <3>2. UNCHANGED <<voice, everyone, cached, news, personal, roomOwner, inRoom, lingers>>
      BY <1>4 DEF Locks!Fetch, Locks!FetchNamed
    <3>3. overtaken' \in {overtaken, overtaken \ {c}, overtaken \cup {c}}
      BY <1>4 DEF Locks!Fetch, Locks!FetchNamed
    <3>4. slips' = slips \/ slips' = slips + 1
      <4>1. Locks!Fetch(c) => UNCHANGED slips
        BY DEF Locks!Fetch
      <4>2. Locks!FetchNamed(c) => UNCHANGED slips \/ Locks!Slip
        BY DEF Locks!FetchNamed
      <4> QED
        BY <1>4, <4>1, <4>2 DEF Locks!Slip
    <3> QED
      BY <3>1, <3>2, <3>3, <3>4 DEF LocksTyped
  <2>3. job \in Orders
    BY <2>2, OrderFields DEF Orders
  <2>4. /\ order' \in [Callers -> Orders] /\ order'[c] = job
        /\ \A x \in Callers \ {c} : order'[x] = order[x]
    BY <2>1, <2>3, OrderChanges DEF Locks!HasRead
  <2>5. job.step = "set" /\ job.read = ow /\ job.failed = failed /\ job.by = order[c].by
    OBVIOUS
  <2> HIDE DEF job
  <2>6. NotOvertaken'
    <3>1. ASSUME NEW x \in Callers \ {c}, x \notin overtaken'
          PROVE  /\ order'[x] = order[x] /\ x \notin overtaken
      BY <2>2, <2>4, <3>1
    <3>2. c \notin overtaken' =>
            /\ failed \/ ow = everyone
            /\ order[c].by = "voice" => c = roomOwner \/ c \in Chiefs
      BY <2>1, <2>2 DEF NotOvertaken
    <3> QED
      BY <2>2, <2>4, <2>5, <3>1, <3>2 DEF NotOvertaken
  <2>7. PutOut'
    BY <2>2, <2>4, <2>5 DEF PutOut
  <2> QED
    BY <2>2, <2>4, <2>6, <2>7 DEF LocksTyped, InRoomOK
<1>c. ASSUME NEW c \in Callers, Locks!Complete(c)
      PROVE  /\ order' \in [Callers -> Orders] /\ order'[c] = Locks!Free
             /\ \A x \in Callers \ {c} : order'[x] = order[x]
  <2>1. Locks!Free \in Orders
    BY DEF Orders
  <2> QED
    BY <1>c, <2>1, OrderChanges DEF Locks!Complete
<1>5. ASSUME NEW c \in Callers, Locks!setLock(c) PROVE LocksInv'
  <2>1. /\ order' \in [Callers -> Orders] /\ order'[c] = Locks!Free
        /\ \A x \in Callers \ {c} : order'[x] = order[x]
    BY <1>5, <1>c DEF Locks!setLock
  <2>2. everyone' \in Overwrites /\ cached' = cached /\ news' \in Seq(Overwrites)
    <3>1. PICK ow \in Overwrites : Locks!Change(ow)
      BY <1>5, OrderFields DEF Locks!setLock, Locks!Locked, Locks!OwnBit, Overwrites, Locks!Bits
    <3> QED
      BY <3>1, ChannelTyped
  <2>3. /\ overtaken' = (overtaken \cup {x \in Callers : order[x] # Locks!Free}) \ {c}
        /\ order[c].step = "set"
        /\ UNCHANGED <<voice, personal, roomOwner, inRoom, slips, lingers>>
    BY <1>5 DEF Locks!setLock, Locks!Overtakes
  <2>4. NotOvertaken'
    BY <2>1, <2>3, OrderFields DEF NotOvertaken, Locks!Free
  <2>5. PutOut'
    BY <2>1, <2>3 DEF PutOut
  <2> QED
    BY <2>1, <2>2, <2>3, <2>4, <2>5 DEF LocksTyped, InRoomOK
<1>6. ASSUME NEW c \in Callers, Locks!permit(c) PROVE LocksInv'
  <2>1. /\ order' \in [Callers -> Orders] /\ order'[c] = Locks!Free
        /\ \A x \in Callers \ {c} : order'[x] = order[x]
    BY <1>6, <1>c DEF Locks!permit
  <2>2. /\ order[c].step = "permit" /\ order[c].who \in Locks!People
        /\ personal' = [personal EXCEPT ![order[c].who] = "allow"]
        /\ lingers' = lingers \ {order[c].who}
        /\ UNCHANGED <<voice, everyone, cached, news, roomOwner, inRoom, slips, overtaken>>
    BY <1>6, OrderFields DEF Locks!permit
  <2>3. NotOvertaken'
    BY <2>1, <2>2, OrderFields DEF NotOvertaken, Locks!Free
  <2>4. PutOut'
    BY <2>1, <2>2 DEF PutOut, LocksTyped
  <2> QED
    BY <2>1, <2>2, <2>3, <2>4 DEF LocksTyped, InRoomOK
<1>7. ASSUME NEW c \in Callers, Locks!reject(c) PROVE LocksInv'
  <2> DEFINE p == order[c].who
  <2>1. p \in Locks!People /\ order[c] # Locks!Free
    BY <1>7, OrderFields DEF Locks!reject
  <2>2. CASE order[c].step = "deny"
    <3>1. /\ order' = [order EXCEPT ![c] = [step |-> "move", who |-> p]]
          /\ personal' = [personal EXCEPT ![p] = "deny"] /\ inRoom' = inRoom
          /\ UNCHANGED <<voice, everyone, cached, news, roomOwner, slips, overtaken, lingers>>
      BY <1>7, <2>2 DEF Locks!reject, Locks!After, Locks!Rejection
    <3>2. [step |-> "move", who |-> p] \in Orders
      BY <2>1 DEF Orders
    <3>3. /\ order' \in [Callers -> Orders] /\ order'[c] = [step |-> "move", who |-> p]
          /\ \A x \in Callers \ {c} : order'[x] = order[x]
      BY <3>1, <3>2, OrderChanges
    <3>4. order'[c].step = "move" /\ order'[c].who = p /\ order'[c] # Locks!Free
      BY <3>3 DEF Locks!Free
    <3>5. NotOvertaken'
      BY <3>1, <3>3, <3>4 DEF NotOvertaken
    <3>6. PutOut'
      BY <2>1, <2>2, <3>1, <3>3, <3>4 DEF PutOut, LocksTyped
    <3> QED
      BY <2>1, <3>1, <3>3, <3>5, <3>6 DEF LocksTyped, InRoomOK
  <2>3. CASE order[c].step = "move"
    <3>1. /\ Locks!Complete(c) /\ personal' = personal /\ inRoom' = inRoom \ {p}
          /\ UNCHANGED <<voice, everyone, cached, news, roomOwner, slips, overtaken, lingers>>
      BY <1>7, <2>3 DEF Locks!reject, Locks!After, Locks!Rejection
    <3>2. /\ order' \in [Callers -> Orders] /\ order'[c] = Locks!Free
          /\ \A x \in Callers \ {c} : order'[x] = order[x]
      BY <1>c, <3>1
    <3>3. NotOvertaken'
      BY <3>1, <3>2 DEF NotOvertaken, Locks!Free
    <3>4. PutOut'
      BY <3>1, <3>2 DEF PutOut
    <3> QED
      BY <3>1, <3>2, <3>3, <3>4 DEF LocksTyped, InRoomOK
  <2> QED
    BY <1>7, <2>2, <2>3 DEF Locks!reject
<1>8. ASSUME NEW c \in Callers, Locks!transfer(c) PROVE LocksInv'
  <2>1. /\ order' \in [Callers -> Orders] /\ order'[c] = Locks!Free
        /\ \A x \in Callers \ {c} : order'[x] = order[x]
    BY <1>8, <1>c DEF Locks!transfer
  <2>2. /\ overtaken' = (overtaken \cup {x \in Callers : order[x] # Locks!Free}) \ {c}
        /\ order[c].step = "transfer"
        /\ UNCHANGED <<voice, everyone, cached, news, personal, inRoom, slips, lingers>>
    BY <1>8 DEF Locks!transfer, Locks!Overtakes
  <2>3. NotOvertaken'
    BY <2>1, <2>2, OrderFields DEF NotOvertaken, Locks!Free
  <2>4. PutOut'
    BY <2>1, <2>2 DEF PutOut
  <2> QED
    BY <2>1, <2>2, <2>3, <2>4 DEF LocksTyped, InRoomOK
<1>9. ASSUME NEW c \in Callers, Locks!OrderFails(c) PROVE LocksInv'
  <2>1. /\ order' \in [Callers -> Orders] /\ order'[c] = Locks!Free
        /\ \A x \in Callers \ {c} : order'[x] = order[x]
    BY <1>9, <1>c DEF Locks!OrderFails
  <2>2. /\ lingers' = IF order[c].step = "move" THEN lingers \cup {order[c].who} ELSE lingers
        /\ slips' \in Nat
        /\ UNCHANGED <<voice, everyone, cached, news, personal, roomOwner, inRoom, overtaken>>
    BY <1>9 DEF Locks!OrderFails, Locks!Slip, LocksTyped
  <2>3. NotOvertaken'
    BY <2>1, <2>2, OrderFields DEF NotOvertaken, Locks!Free
  <2>4. PutOut'
    BY <2>1, <2>2 DEF PutOut
  <2> QED
    BY <2>1, <2>2, <2>3, <2>4 DEF LocksTyped, InRoomOK
<1>10. CASE UNCHANGED lockVars
  BY <1>10 DEF lockVars, LocksTyped, NotOvertaken, PutOut, InRoomOK
<1> QED
  BY <1>1, <1>2, <1>3, <1>4, <1>5, <1>6, <1>7, <1>8, <1>9, <1>10, <1>11 DEF Locks!Next

LEMMA LocksInitially == Locks!Init => LocksInv
<1> SUFFICES ASSUME Locks!Init PROVE LocksInv
  OBVIOUS
<1>1. LocksTyped
  <2>1. /\ everyone \in Overwrites
        /\ cached \in Overwrites \cup {Missing} /\ news \in Seq(Overwrites)
    <3>1. everyone \in Overwrites
      BY DEF Locks!Init, Overwrites, Locks!Bits
    <3>2. << >> \in Seq(Overwrites) /\ <<everyone>> \in Seq(Overwrites)
      BY <3>1
    <3>3. (cached = everyone /\ news = << >>) \/ (cached = Missing /\ news = <<everyone>>)
      BY DEF Locks!Init
    <3> QED
      BY <3>1, <3>2, <3>3
  <2>2. Locks!Free \in Orders
    BY DEF Orders
  <2> QED
    BY <2>1, <2>2 DEF Locks!Init, LocksTyped
<1>2. NotOvertaken /\ PutOut /\ InRoomOK
  BY DEF Locks!Init, NotOvertaken, PutOut, InRoomOK, Locks!People, Locks!Free
<1> QED
  BY <1>1, <1>2 DEF LocksInv

LEMMA LocksInvariant == Locks!Spec => []LocksInv
<1>1. LocksInv /\ [Locks!Next]_Locks!lockVars => LocksInv'
  BY LocksStep DEF lockVars, Locks!lockVars
<1> QED
  BY <1>1, LocksInitially, PTL DEF Locks!Spec

\* A member whom its room's owner rejected for good has been put out and cannot
\* come back, however the owner's requests interleave with those of others.  Not
\* so administrators, whom no overwrite keeps out (permit).
THEOREM RejectedStayOut == Locks!Spec => []RejectedOut
<1>1. LocksInv => RejectedOut
  BY DEF LocksInv, PutOut, InRoomOK, RejectedOut, Locks!RejectedOut, Locks!Free
<1> QED
  BY <1>1, LocksInvariant, PTL

\* Of an order's writes: the order is one of setLock, and the rest is as it was.
LEMMA OnlySetLockWrites ==
  ASSUME LocksInv, [Locks!Next]_lockVars, NEW c \in Callers,
         order[c].step = "set", order'[c] = Locks!Free, slips' = slips
  PROVE  Locks!setLock(c)
<1>0. LocksTyped /\ order[c] # Locks!Free
  BY DEF LocksInv, Locks!Free
<1>1. order' # order
  BY <1>0
<1>2. ASSUME NEW x \in Callers, NEW job, order' = [order EXCEPT ![x] = job]
      PROVE  x = c
  BY <1>0, <1>2 DEF LocksTyped
<1>3. ~Locks!Edit /\ ~Locks!Hear /\ ~\E p \in Locks!People : Locks!ComeAndGo(p)
  BY <1>1 DEF Locks!Edit, Locks!Hear, Locks!ComeAndGo
<1>4. ~UNCHANGED lockVars
  BY <1>1 DEF lockVars
<1>5. PICK x \in Callers :
        \/ Locks!Command(x) \/ Locks!LockCommand(x) \/ Locks!Fetch(x) \/ Locks!FetchNamed(x)
        \/ Locks!setLock(x) \/ Locks!permit(x) \/ Locks!reject(x) \/ Locks!transfer(x)
        \/ Locks!OrderFails(x)
  BY <1>3, <1>4 DEF Locks!Next
<1>6. ~Locks!OrderFails(x)
  BY <1>0 DEF Locks!OrderFails, Locks!Slip, LocksTyped
<1>7. CASE Locks!Command(x) \/ Locks!LockCommand(x)
  <2>1. PICK job : Locks!Give(x, job)
    BY <1>7 DEF Locks!Command, Locks!LockCommand
  <2> QED
    BY <1>0, <1>2, <2>1 DEF Locks!Give
<1>8. CASE Locks!Fetch(x) \/ Locks!FetchNamed(x)
  <2>1. order[x].step = "fetch" /\ \E ow, failed : Locks!HasRead(x, ow, failed)
    BY <1>8 DEF Locks!Fetch, Locks!FetchNamed
  <2>2. x = c
    BY <1>2, <2>1 DEF Locks!HasRead
  <2> QED
    BY <2>1, <2>2
<1>9. CASE Locks!setLock(x) \/ Locks!permit(x) \/ Locks!reject(x) \/ Locks!transfer(x)
  <2>1. x = c
    BY <1>2, <1>9
    DEF Locks!setLock, Locks!permit, Locks!reject, Locks!transfer, Locks!Complete
  <2> QED
    BY <1>9, <2>1 DEF Locks!permit, Locks!reject, Locks!transfer
<1> QED
  BY <1>5, <1>6, <1>7, <1>8, <1>9

\* /lock, /unlock and /voice lock change nothing but their own bit of the
\* overwrite, and /voice lock only for whom it may be, unless they were overtaken
\* (by an edit, another handler, or the state cache being behind) or could not
\* read the channel that was named (handleLock, handleUnlock, setLock).
THEOREM LocksOnlyLock == Locks!Spec => NoUndueChange
<1>1. ASSUME LocksInv, [Locks!Next]_lockVars, NEW c \in Callers, Locks!Writes(c)
      PROVE  /\ order[c].failed \/ Locks!OtherBitsKept(Locks!OwnBit(order[c]))
             /\ order[c].by = "voice" => c = roomOwner \/ c \in Chiefs
  <2>1. Locks!setLock(c)
    BY <1>1, OnlySetLockWrites DEF Locks!Writes
  <2>2. /\ ~order[c].failed => order[c].read = everyone
        /\ order[c].by = "voice" => c = roomOwner \/ c \in Chiefs
    BY <1>1 DEF LocksInv, NotOvertaken, Locks!Writes
  <2>3. everyone' = Locks!Locked(order[c].read, order[c].what = "lock", Locks!OwnBit(order[c]))
    BY <2>1 DEF Locks!setLock, Locks!Change
  <2>4. everyone \in Overwrites
    BY <1>1 DEF LocksInv, LocksTyped
  <2>5. ~order[c].failed => Locks!OtherBitsKept(Locks!OwnBit(order[c]))
    BY <2>2, <2>3, <2>4 DEF Locks!Locked, Locks!OtherBitsKept, Overwrites
  <2> QED
    BY <2>2, <2>5
<1>2. LocksInv /\ [Locks!Next]_Locks!lockVars =>
        [\A c \in Callers : Locks!Writes(c) =>
           /\ order[c].failed \/ Locks!OtherBitsKept(Locks!OwnBit(order[c]))
           /\ order[c].by = "voice" => c = roomOwner \/ c \in Chiefs]_Locks!lockVars
  BY <1>1 DEF lockVars, Locks!lockVars
<1> QED
  BY <1>2, LocksInvariant, PTL DEF Locks!Spec, NoUndueChange, Locks!NoUndueChange

-----------------------------------------------------------------------------
(* The rapsheet                                                            *)

Handlers ==
  {Mod!Nothing}
    \cup [step : {"check", "rank", "act", "record"}, what : Mod!Commands]
    \cup [step : Mod!Clearing]

ModTyped ==
  /\ sheet \in [Mod!Kinds -> Nat] /\ done \in [Mod!Kinds -> Nat]
  /\ warnings \in Nat
  /\ command \in [Mods -> Handlers]
  /\ lost \in BOOLEAN

\* The moderators whose command of kind k is done and not yet entered.
DueMods(k) == {m \in Mods : command[m].step = "record" /\ command[m].what.kind = k}

Entered == ~lost => \A k \in Mod!Kinds : sheet[k] + Cardinality(DueMods(k)) = done[k]

\* Between the two deletions of a clearing, and only then, warnings are left that
\* the rapsheet does not show.
WarningsShown ==
  ~lost => warnings <= done["warn"] \/ \E m \in Mods : command[m].step = "clear warnings"

ModInv == ModTyped /\ Entered /\ WarningsShown

\* What the step of a handler says of its command.
LEMMA HandlerFields ==
  ASSUME ModTyped, NEW m \in Mods
  PROVE  /\ command[m] = Mod!Nothing <=> command[m].step = "idle"
         /\ command[m].step \in {"check", "rank", "act", "record"} =>
              /\ command[m].what \in Mod!Commands /\ command[m].what.kind \in Mod!Kinds
<1>1. /\ command[m] = Mod!Nothing <=> command[m].step = "idle"
      /\ command[m].step \in {"check", "rank", "act", "record"} => command[m].what \in Mod!Commands
  <2>1. command[m] \in Handlers
    BY DEF ModTyped
  <2>2. CASE command[m] = Mod!Nothing
    BY <2>2 DEF Mod!Nothing
  <2>3. CASE command[m] \in [step : {"check", "rank", "act", "record"}, what : Mod!Commands]
    BY <2>3 DEF Mod!Nothing
  <2>4. CASE command[m] \in [step : Mod!Clearing]
    <3>1. command[m].step \in {"clear actions", "clear warnings"}
      BY <2>4 DEF Mod!Clearing
    <3>2. command[m].step \notin {"idle", "check", "rank", "act", "record"}
      BY <3>1
    <3>3. Mod!Nothing.step = "idle"
      BY DEF Mod!Nothing
    <3>4. command[m] # Mod!Nothing
      BY <3>2, <3>3
    <3> QED
      BY <3>2, <3>4
  <2> QED
    BY <2>1, <2>2, <2>3, <2>4 DEF Handlers
<1>2. ASSUME NEW c \in Mod!Commands PROVE c.kind \in Mod!Kinds
  BY DEF Mod!Commands, Mod!Kinds, Mod!handleBan, Mod!handleUnban, Mod!handleKick,
     Mod!handleTimeout, Mod!warnAdd, Mod!handleMassban
<1> QED
  BY <1>1, <1>2

\* The instance counts as FiniteSets does.
LEMMA ModCardinality ==
  ASSUME NEW S
  PROVE  Mod!Cardinality(S) = Cardinality(S)
BY Zenon DEF Cardinality, Mod!Cardinality

LEMMA DueFinite ==
  ASSUME NEW k
  PROVE  IsFiniteSet(DueMods(k)) /\ Cardinality(DueMods(k)) \in Nat
BY FS_Subset, FS_CardinalityType, ModsAssumption DEF DueMods

\* A handler that neither comes to its entry nor leaves it changes nothing due.
LEMMA SameDue ==
  ASSUME ModTyped, NEW m \in Mods, command[m].step # "record", NEW job \in Handlers,
         command' = [command EXCEPT ![m] = job], job.step # "record", NEW k
  PROVE  DueMods(k)' = DueMods(k)
BY DEF DueMods, ModTyped

LEMMA ModStep ==
  ASSUME ModInv, [Mod!Next]_modVars
  PROVE  ModInv'
<1> USE DEF ModInv
<1>0. Mod!Nothing \in Handlers /\ Mod!Nothing.step = "idle"
  BY DEF Handlers, Mod!Nothing
<1>w. warnings \in Nat /\ done["warn"] \in Nat
  BY DEF ModTyped, Mod!Kinds
\* The handler of m goes on; nothing is done, entered or deleted.
<1>1. ASSUME NEW m \in Mods, NEW job \in Handlers, command' = [command EXCEPT ![m] = job],
             command[m].step \notin {"record", "clear warnings"}, job.step # "record",
             UNCHANGED <<sheet, warnings, done, lost>>
      PROVE  ModInv'
  <2>1. \A k : DueMods(k)' = DueMods(k)
    BY <1>1, SameDue
  <2>2. \A x \in Mods : command[x].step = "clear warnings" => command'[x].step = "clear warnings"
    BY <1>1 DEF ModTyped
  <2>3. ModTyped'
    BY <1>1 DEF ModTyped
  <2>4. Entered'
    BY <1>1, <2>1 DEF Entered
  <2>5. WarningsShown'
    BY <1>1, <2>2 DEF WarningsShown
  <2> QED
    BY <2>3, <2>4, <2>5
<1>2. ASSUME UNCHANGED <<sheet, done, command, lost>>, warnings' \in Nat, warnings' <= warnings
      PROVE  ModInv'
  <2>1. \A k : DueMods(k)' = DueMods(k)
    BY <1>2 DEF DueMods
  <2>2. ModTyped'
    BY <1>2 DEF ModTyped
  <2>3. Entered'
    BY <1>2, <2>1 DEF Entered
  <2>4. warnings <= done["warn"] => warnings' <= done["warn"]
    BY <1>2, <1>w
  <2>5. WarningsShown'
    BY <1>2, <2>4 DEF WarningsShown
  <2> QED
    BY <2>2, <2>3, <2>5
<1>3. CASE Mod!handleAccessSave \/ Mod!Surroundings \/ UNCHANGED modVars
  BY <1>2, <1>3 DEF Mod!handleAccessSave, Mod!Surroundings, modVars, ModTyped
<1>4. CASE Mod!warnRemove
  <2>1. UNCHANGED <<sheet, done, command, lost>> /\ warnings > 0 /\ warnings' = warnings - 1
    BY <1>4 DEF Mod!warnRemove
  <2>2. warnings' \in Nat /\ warnings' <= warnings
    BY <2>1 DEF ModTyped
  <2> QED
    BY <1>2, <2>1, <2>2
<1>5. CASE Mod!CrashMods
  <2>1. command' = [m \in Mods |-> Mod!Nothing] /\ lost' = TRUE /\ UNCHANGED <<sheet, warnings, done>>
    BY <1>5 DEF Mod!CrashMods
  <2> QED
    BY <1>0, <2>1 DEF ModTyped, Entered, WarningsShown
<1>6. ASSUME NEW m \in Mods, Mod!Issue(m) PROVE ModInv'
  <2>1. PICK c \in Mod!Commands : command' = [command EXCEPT ![m] = [step |-> "check", what |-> c]]
    BY <1>6 DEF Mod!Issue
  <2>2. [step |-> "check", what |-> c] \in Handlers
    BY DEF Handlers
  <2>3. command[m].step = "idle" /\ UNCHANGED <<sheet, warnings, done, lost>>
    BY <1>6, <1>0 DEF Mod!Issue
  <2> QED
    BY <1>1, <2>1, <2>2, <2>3
<1>7. ASSUME NEW m \in Mods, Mod!Check(m) PROVE ModInv'
  <2>1. command[m].step = "check" /\ UNCHANGED <<sheet, warnings, done, lost>>
    BY <1>7 DEF Mod!Check
  <2>2. \/ Mod!Goes(m, "rank") \/ Mod!Goes(m, "act") \/ Mod!Ends(m)
    BY <1>7 DEF Mod!Check
  <2>3. command[m].what \in Mod!Commands
    BY <2>1, HandlerFields
  <2>4. \A s \in {"rank", "act"} : [step |-> s, what |-> command[m].what] \in Handlers
    BY <2>3 DEF Handlers
  <2> QED
    BY <1>0, <1>1, <2>1, <2>2, <2>4 DEF Mod!Goes, Mod!Ends, Mod!Nothing
<1>8. ASSUME NEW m \in Mods, Mod!CanActOn(m) PROVE ModInv'
  <2>1. command[m].step = "rank" /\ UNCHANGED <<sheet, warnings, done, lost>>
    BY <1>8 DEF Mod!CanActOn
  <2>2. \/ Mod!Goes(m, "act") \/ Mod!Ends(m)
    BY <1>8 DEF Mod!CanActOn
  <2>3. command[m].what \in Mod!Commands
    BY <2>1, HandlerFields
  <2>4. [step |-> "act", what |-> command[m].what] \in Handlers
    BY <2>3 DEF Handlers
  <2> QED
    BY <1>0, <1>1, <2>1, <2>2, <2>4 DEF Mod!Goes, Mod!Ends, Mod!Nothing
<1>9. ASSUME NEW m \in Mods, Mod!Act(m) PROVE ModInv'
  <2> DEFINE job == [step |-> "record", what |-> command[m].what]
  <2>0. PICK k : k = command[m].what.kind
    OBVIOUS
  <2>1. /\ command[m].step = "act" /\ command' = [command EXCEPT ![m] = job]
        /\ warnings' = IF k = "warn" THEN warnings + 1 ELSE warnings
        /\ done' = [done EXCEPT ![k] = @ + 1]
        /\ UNCHANGED <<sheet, lost>>
    BY <1>9, <2>0 DEF Mod!Act, Mod!Goes
  <2>2. command[m].what \in Mod!Commands /\ k \in Mod!Kinds
    BY <2>0, <2>1, HandlerFields
  <2>3. job \in Handlers
    BY <2>2 DEF Handlers
  <2>4. job.step = "record" /\ job.what = command[m].what
    OBVIOUS
  <2>5. ModTyped'
    BY <2>1, <2>2, <2>3 DEF ModTyped
  <2>6. command'[m].step = "record" /\ command'[m].what = command[m].what
        /\ \A x \in Mods \ {m} : command'[x] = command[x]
    BY <2>1, <2>4 DEF ModTyped
  <2> HIDE DEF job
  <2>7. DueMods(k)' = DueMods(k) \cup {m} /\ m \notin DueMods(k)
    BY <2>0, <2>1, <2>6 DEF DueMods
  <2>8. \A l \in Mod!Kinds \ {k} : DueMods(l)' = DueMods(l)
    BY <2>0, <2>1, <2>6 DEF DueMods
  <2>9. Cardinality(DueMods(k)') = Cardinality(DueMods(k)) + 1
    BY <2>7, DueFinite, FS_AddElement
  <2>10. Entered'
    <3>1. \A l \in Mod!Kinds : Cardinality(DueMods(l)) \in Nat
      BY DueFinite
    <3>2. done'[k] = done[k] + 1 /\ \A l \in Mod!Kinds \ {k} : done'[l] = done[l]
      BY <2>1, <2>2 DEF ModTyped
    <3>3. ASSUME ~lost, NEW l \in Mod!Kinds
          PROVE  sheet'[l] + Cardinality(DueMods(l)') = done'[l]
      <4>1. sheet'[l] = sheet[l] /\ sheet[l] \in Nat /\ sheet[l] + Cardinality(DueMods(l)) = done[l]
        BY <2>1, <3>3 DEF ModTyped, Entered
      <4>2. CASE l = k
        <5>1. sheet'[k] = sheet[k] /\ sheet[k] \in Nat /\ sheet[k] + Cardinality(DueMods(k)) = done[k]
          BY <4>1, <4>2
        <5>2. sheet'[k] + Cardinality(DueMods(k)') = done'[k]
          BY <2>2, <2>9, <3>1, <3>2, <5>1
        <5> QED
          BY <4>2, <5>2
      <4>3. CASE l # k
        <5>1. DueMods(l)' = DueMods(l)
          BY <2>8, <4>3
        <5> QED
          BY <3>2, <4>1, <4>3, <5>1
      <4> QED
        BY <4>2, <4>3
    <3> QED
      BY <2>1, <3>3 DEF Entered
  <2>11. WarningsShown'
    <3>1. \A x \in Mods : command[x].step = "clear warnings" => command'[x].step = "clear warnings"
      BY <2>1, <2>6
    <3>2. warnings <= done["warn"] => warnings' <= done'["warn"]
      BY <1>w, <2>1, <2>2 DEF ModTyped, Mod!Kinds
    <3> QED
      BY <2>1, <3>1, <3>2 DEF WarningsShown
  <2> QED
    BY <2>5, <2>10, <2>11
<1>10. ASSUME NEW m \in Mods, Mod!ActFails(m) PROVE ModInv'
  BY <1>0, <1>1, <1>10 DEF Mod!ActFails, Mod!RecordNothing, Mod!Ends, Mod!Nothing
<1>11. ASSUME NEW m \in Mods, Mod!recordAndLog(m) PROVE ModInv'
  <2>0. PICK k : k = command[m].what.kind
    OBVIOUS
  <2>1. /\ command[m].step = "record" /\ command' = [command EXCEPT ![m] = Mod!Nothing]
        /\ UNCHANGED <<warnings, done>>
        /\ \/ sheet' = [sheet EXCEPT ![k] = @ + 1] /\ lost' = lost
           \/ sheet' = sheet /\ lost' = TRUE
    BY <1>11, <2>0 DEF Mod!recordAndLog, Mod!Ends
  <2>2. command[m].what \in Mod!Commands /\ k \in Mod!Kinds
    BY <2>0, <2>1, HandlerFields
  <2>3. ModTyped'
    <3>1. sheet' \in [Mod!Kinds -> Nat]
      BY <2>1, <2>2 DEF ModTyped
    <3> QED
      BY <1>0, <2>1, <3>1 DEF ModTyped
  <2>4. command'[m].step = "idle" /\ \A x \in Mods \ {m} : command'[x] = command[x]
    BY <2>1 DEF ModTyped, Mod!Nothing
  <2>5. m \in DueMods(k) /\ DueMods(k)' = DueMods(k) \ {m}
    BY <2>0, <2>1, <2>4 DEF DueMods
  <2>6. \A l \in Mod!Kinds \ {k} : DueMods(l)' = DueMods(l)
    BY <2>0, <2>1, <2>4 DEF DueMods
  <2>7. Cardinality(DueMods(k)') = Cardinality(DueMods(k)) - 1
    BY <2>5, DueFinite, FS_RemoveElement
  <2>8. Entered'
    <3>1. \A l \in Mod!Kinds : Cardinality(DueMods(l)) \in Nat
      BY DueFinite
    <3>2. ASSUME ~lost', NEW l \in Mod!Kinds
          PROVE  sheet'[l] + Cardinality(DueMods(l)') = done'[l]
      <4>1. ~lost /\ sheet' = [sheet EXCEPT ![k] = @ + 1]
        BY <2>1, <3>2
      <4>2. done'[l] = done[l] /\ sheet[l] \in Nat /\ sheet[l] + Cardinality(DueMods(l)) = done[l]
        BY <2>1, <3>2, <4>1 DEF ModTyped, Entered
      <4>3. CASE l = k
        <5>1. sheet'[l] = sheet[l] + 1
          BY <3>2, <4>1, <4>3 DEF ModTyped
        <5>2. sheet'[k] = sheet[k] + 1 /\ done'[k] = done[k] /\ sheet[k] \in Nat
              /\ sheet[k] + Cardinality(DueMods(k)) = done[k]
          BY <4>2, <4>3, <5>1
        <5>3. sheet'[k] + Cardinality(DueMods(k)') = done'[k]
          BY <2>2, <2>7, <3>1, <5>2
        <5> QED
          BY <4>3, <5>3
      <4>4. CASE l # k
        <5>1. DueMods(l)' = DueMods(l) /\ sheet'[l] = sheet[l]
          BY <2>6, <4>1, <4>4 DEF ModTyped
        <5> QED
          BY <4>2, <5>1
      <4> QED
        BY <4>3, <4>4
    <3> QED
      BY <3>2 DEF Entered
  <2>9. WarningsShown'
    BY <2>1, <2>4 DEF WarningsShown
  <2> QED
    BY <2>3, <2>8, <2>9
<1>12. ASSUME NEW m \in Mods, Mod!clearconfirm(m) PROVE ModInv'
  <2>1. [step |-> "clear actions"] \in Handlers
    BY DEF Handlers, Mod!Clearing
  <2>2. command[m].step = "idle" /\ UNCHANGED <<sheet, warnings, done, lost>>
        /\ command' = [command EXCEPT ![m] = [step |-> "clear actions"]]
    BY <1>0, <1>12 DEF Mod!clearconfirm
  <2> QED
    BY <1>1, <2>1, <2>2
<1>13. ASSUME NEW m \in Mods, Mod!Clear(m) PROVE ModInv'
  <2>1. CASE command[m].step = "clear actions"
    <3> DEFINE job == [step |-> "clear warnings"]
    <3>0. Mod!Order[1] = "clear actions"
      BY DEF Mod!Order
    <3>1. /\ command' = [command EXCEPT ![m] = job] /\ warnings' = warnings
          /\ \/ /\ sheet' = Mod!NoEntries /\ lost' = lost
                /\ done' = [k \in Mod!Kinds |-> Cardinality(DueMods(k))]
             \/ sheet' = sheet /\ done' = done /\ lost' = TRUE
      <4>1. /\ command' = [command EXCEPT ![m] = job] /\ warnings' = warnings
            /\ \/ /\ sheet' = Mod!NoEntries /\ lost' = lost
                  /\ done' = [k \in Mod!Kinds |-> Mod!Cardinality({x \in Mods :
                                command[x].step = "record" /\ command[x].what.kind = k})]
               \/ sheet' = sheet /\ done' = done /\ lost' = TRUE
        BY <1>13, <2>1, <3>0 DEF Mod!Clear
      <4> QED
        BY <4>1, ModCardinality, Zenon DEF DueMods
    <3>2. job \in Handlers /\ job.step = "clear warnings"
      BY DEF Handlers, Mod!Clearing
    <3> HIDE DEF job
    <3>3. \A k : DueMods(k)' = DueMods(k)
      BY <2>1, <3>1, <3>2, SameDue
    <3>4. \A k : Cardinality(DueMods(k)) \in Nat
      BY DueFinite
    <3>5. ModTyped'
      <4>1. sheet' \in [Mod!Kinds -> Nat] /\ done' \in [Mod!Kinds -> Nat]
        BY <3>1, <3>4 DEF ModTyped, Mod!NoEntries
      <4>2. command' \in [Mods -> Handlers] /\ warnings' \in Nat
        BY <3>1, <3>2 DEF ModTyped
      <4>3. lost' \in BOOLEAN
        BY <3>1, Zenon DEF ModTyped
      <4> QED
        BY <4>1, <4>2, <4>3 DEF ModTyped
    <3>6. Entered'
      BY <3>1, <3>3, <3>4 DEF Entered, Mod!NoEntries
    <3>7. WarningsShown'
      <4>1. command'[m].step = "clear warnings"
        BY <3>1, <3>2 DEF ModTyped
      <4> QED
        BY <4>1 DEF WarningsShown
    <3> QED
      BY <3>5, <3>6, <3>7
  <2>2. CASE command[m].step = "clear warnings"
    <3>1. /\ command' = [command EXCEPT ![m] = Mod!Nothing] /\ UNCHANGED <<sheet, done>>
          /\ \/ warnings' = 0 /\ lost' = lost
             \/ warnings' = warnings /\ lost' = TRUE
      BY <1>13, <2>2 DEF Mod!Clear, Mod!Order
    <3>2. Mod!Nothing.step = "idle"
      BY DEF Mod!Nothing
    <3>3. \A k : DueMods(k)' = DueMods(k)
      BY <1>0, <2>2, <3>1, <3>2, SameDue
    <3>4. ModTyped'
      <4>1. command' \in [Mods -> Handlers] /\ warnings' \in Nat
        BY <1>0, <3>1 DEF ModTyped
      <4>2. lost' \in BOOLEAN
        BY <3>1, Zenon DEF ModTyped
      <4> QED
        BY <3>1, <4>1, <4>2 DEF ModTyped
    <3>5. Entered'
      BY <3>1, <3>3 DEF Entered
    <3>6. WarningsShown'
      <4>1. 0 <= done["warn"]
        BY <1>w
      <4> QED
        BY <3>1, <4>1 DEF WarningsShown
    <3> QED
      BY <3>4, <3>5, <3>6
  <2> QED
    BY <1>13, <2>1, <2>2 DEF Mod!Clear, Mod!Clearing
<1> QED
  BY <1>3, <1>4, <1>5, <1>6, <1>7, <1>8, <1>9, <1>10, <1>11, <1>12, <1>13 DEF Mod!Next

LEMMA ModInitially == Mod!Init => ModInv
<1> SUFFICES ASSUME Mod!Init PROVE ModInv
  OBVIOUS
<1>1. \A k : DueMods(k) = {}
  BY DEF Mod!Init, Mod!Nothing, DueMods
<1>2. \A k : Cardinality(DueMods(k)) = 0
  BY <1>1, FS_EmptySet
<1>3. ModTyped
  BY DEF Mod!Init, ModTyped, Mod!NoEntries, Handlers
<1>4. Entered /\ WarningsShown
  BY <1>2 DEF Mod!Init, Entered, WarningsShown, Mod!NoEntries, Mod!Kinds
<1> QED
  BY <1>3, <1>4 DEF ModInv

LEMMA ModInvariant == Mod!Spec => []ModInv
<1>1. ModInv /\ [Mod!Next]_Mod!modVars => ModInv'
  BY ModStep DEF modVars, Mod!modVars
<1> QED
  BY <1>1, ModInitially, PTL DEF Mod!Spec

\* While no query fails and nothing crashes, the rapsheet holds what was done and
\* is due no more and no less, and shows every active warning, whatever commands
\* and clearings any number of moderators have under way.
THEOREM RapsheetComplete == Mod!Spec => []RapsheetTrue
<1>1. ModInv => RapsheetTrue
  <2> SUFFICES ASSUME ModInv, ~lost
               PROVE  /\ \A k \in Mod!Kinds : sheet[k] + Cardinality(DueMods(k)) = done[k]
                      /\ (\A m \in Mods : command[m].step \notin Mod!Clearing) => warnings <= done["warn"]
    <3>1. \A k : Mod!Cardinality({m \in Mods : command[m].step = "record" /\ command[m].what.kind = k})
                   = Cardinality(DueMods(k))
      BY ModCardinality, Zenon DEF DueMods
    <3> QED
      BY <3>1, Zenon DEF RapsheetTrue, Mod!RapsheetTrue
  <2>1. \A k \in Mod!Kinds : sheet[k] + Cardinality(DueMods(k)) = done[k]
    BY DEF ModInv, Entered
  <2>2. (\A m \in Mods : command[m].step \notin Mod!Clearing) => warnings <= done["warn"]
    BY DEF ModInv, WarningsShown, Mod!Clearing
  <2> QED
    BY <2>1, <2>2
<1> QED
  BY <1>1, ModInvariant, PTL
=============================================================================
