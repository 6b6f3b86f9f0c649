----------------------------- MODULE InviteProofs -----------------------------
(***************************************************************************)
(* Type correctness of InviteTracker, that no baseline is ahead of         *)
(* Discord, and that a join nothing disturbs is attributed, proved for any *)
(* number of invites, joins and goroutines.                                *)
(***************************************************************************)
EXTENDS InviteTracker, FiniteSetTheorems, TLAPS

\* The parts of TypeOK.
DiscordOK == live \subseteq Codes /\ uses \in [Codes -> 0..MaxUses] /\ inGuild \in BOOLEAN
TrackerOK == invites \in Maps \cup {NoMap} /\ owner \in Workers \cup {NoWorker}
HistoryOK == calm \in [Workers -> BOOLEAN] /\ aborted \in BOOLEAN

WorkersOK ==
  /\ pc \in [Workers -> Steps]
  /\ arg \in [Workers -> Codes \cup {NoCode}]
  /\ fetched \in [Workers -> Maps \cup {NoMap}]
  /\ prev \in [Workers -> Maps \cup {NoMap}]
  /\ used \in [Workers -> Codes \cup {NoCode}]

\* What a worker has when it gets to a step.
StepOK(w) ==
  /\ pc[w] \in {"add", "remove"} => arg[w] \in Codes
  /\ pc[w] \in {"swap", "diff", "primeStore"} => fetched[w] \in Maps
  /\ pc[w] = "diff" => prev[w] \in Maps
  /\ owner = w => pc[w] = "diff"

TypeInv == DiscordOK /\ TrackerOK /\ HistoryOK /\ WorkersOK /\ \A w \in Workers : StepOK(w)

\* No use is made up.
Behind(map) == map # NoMap => \A c \in Codes : map[c] <= uses[c]

CountInv == Behind(invites) /\ \A w \in Workers : Behind(fetched[w]) /\ Behind(prev[w])

IInv == TypeInv /\ CountInv

-----------------------------------------------------------------------------

LEMMA TypeParts == TypeInv <=> TypeOK
BY DEF TypeInv, TypeOK, DiscordOK, TrackerOK, HistoryOK, WorkersOK, StepOK

\* The invites as listed are a map of counts, of the uses there were.
LEMMA ListedOK == DiscordOK => Listed \in Maps /\ Behind(Listed)
<1> SUFFICES ASSUME DiscordOK PROVE Listed \in Maps /\ Behind(Listed)
  OBVIOUS
<1>1. \A c \in Codes : uses[c] \in 0..MaxUses
  BY DEF DiscordOK
<1>2. \A c \in Codes : (IF c \in live THEN uses[c] ELSE Absent) \in Absent..MaxUses
  BY <1>1, InviteAssumption DEF Absent
<1> QED
  BY <1>1, <1>2 DEF Listed, Maps, Behind, Absent

\* An event adds an unused invite or removes one.
LEMMA WrittenOK ==
  ASSUME DiscordOK, NEW map \in Maps, Behind(map), NEW c \in Codes, NEW n \in {Absent, 0}
  PROVE  [map EXCEPT ![c] = n] \in Maps /\ Behind([map EXCEPT ![c] = n])
<1>1. \A x \in Codes : uses[x] \in 0..MaxUses /\ map[x] \in Absent..MaxUses
  BY DEF DiscordOK, Maps
<1>2. [map EXCEPT ![c] = n] \in Maps
  BY <1>1, InviteAssumption DEF Maps, Absent
<1>3. map # NoMap
  BY InviteAssumption
<1> QED
  BY <1>1, <1>2, <1>3 DEF Maps, Behind, Absent

LEMMA EmptyOK ==
  DiscordOK => [c \in Codes |-> Absent] \in Maps /\ Behind([c \in Codes |-> Absent])
BY InviteAssumption DEF DiscordOK, Maps, Behind, Absent

\* The handler returns.
LEMMA DoneOK ==
  ASSUME WorkersOK, \A w \in Workers : StepOK(w), NEW w \in Workers, Done(w),
         owner' \in {owner, NoWorker}, pc[w] # "diff" \/ owner' = NoWorker,
         \A v \in Workers : Behind(fetched[v]) /\ Behind(prev[v]), uses' = uses
  PROVE  /\ WorkersOK' /\ \A v \in Workers : StepOK(v)'
         /\ \A v \in Workers : Behind(fetched[v])' /\ Behind(prev[v])'
<1>1. WorkersOK'
  BY DEF WorkersOK, Done, Steps
<1>2. \A v \in Workers : StepOK(v)'
  BY InviteAssumption DEF WorkersOK, StepOK, Done
<1>3. \A v \in Workers : Behind(fetched[v])' /\ Behind(prev[v])'
  BY DEF WorkersOK, Behind, Done
<1> QED
  BY <1>1, <1>2, <1>3

LEMMA InitInv == Init => IInv
<1> SUFFICES ASSUME Init PROVE IInv
  OBVIOUS
<1>1. DiscordOK /\ TrackerOK
  <2>1. 0 \in 0..MaxUses /\ live \subseteq Codes
    BY InviteAssumption DEF Init
  <2> QED
    BY <2>1 DEF Init, DiscordOK, TrackerOK
<1>2. HistoryOK
  BY DEF Init, HistoryOK, All
<1>3. WorkersOK
  BY DEF Init, WorkersOK, All, Steps
<1>4. \A w \in Workers : StepOK(w)
  BY InviteAssumption DEF Init, StepOK, All
<1>5. CountInv
  BY DEF Init, CountInv, Behind, All
<1> QED
  BY <1>1, <1>2, <1>3, <1>4, <1>5 DEF IInv, TypeInv

\* An event starts a handler; a join is counted.
LEMMA StartOK ==
  ASSUME IInv, NEW w \in Workers, NEW step \in Steps \ {"diff", "swap", "primeStore"},
         NEW c \in Codes \cup {NoCode}, step \in {"add", "remove"} => c \in Codes,
         Start(w, step, c), UNCHANGED trackerVars,
         DiscordOK', \A x \in Codes : uses[x] <= uses'[x]
  PROVE  TrackerOK' /\ WorkersOK' /\ (\A v \in Workers : StepOK(v)') /\ CountInv'
<1> USE DEF IInv, TypeInv
<1>1. TrackerOK' /\ WorkersOK'
  BY DEF Start, trackerVars, TrackerOK, WorkersOK
<1>2. \A v \in Workers : StepOK(v)'
  BY DEF Start, trackerVars, WorkersOK, StepOK
<1>3. ASSUME NEW map \in Maps \cup {NoMap}, Behind(map), NEW x \in Codes, map # NoMap
      PROVE  map[x] <= uses'[x]
  <2>1. map[x] \in Int /\ uses[x] \in Int /\ uses'[x] \in Int
    BY <1>3, InviteAssumption DEF Maps, DiscordOK, Absent
  <2>2. map[x] <= uses[x] /\ uses[x] <= uses'[x]
    BY <1>3 DEF Behind
  <2> QED
    BY <2>1, <2>2
<1>4. CountInv'
  BY <1>3 DEF CountInv, Behind, Start, trackerVars, TrackerOK, WorkersOK
<1> QED
  BY <1>1, <1>2, <1>4

LEMMA StepInv == IInv /\ [Next]_vars => IInv'
<1> SUFFICES ASSUME IInv, [Next]_vars PROVE IInv'
  OBVIOUS
<1> USE InviteAssumption DEF IInv, TypeInv
<1>1. CASE UNCHANGED vars
  BY <1>1 DEF vars, discordVars, trackerVars, workerVars, DiscordOK, TrackerOK, HistoryOK,
              WorkersOK, StepOK, CountInv, Behind
<1>2. ASSUME NEW w \in Workers, \/ CreateInvite(w) \/ DeleteInvite(w) \/ JoinOtherwise(w)
                                \/ GuildCreate(w) \/ GuildDelete(w)
      PROVE  IInv'
  <2>1. DiscordOK' /\ uses' = uses /\ UNCHANGED trackerVars
    BY <1>2 DEF CreateInvite, DeleteInvite, JoinOtherwise, GuildCreate, GuildDelete,
                discordVars, DiscordOK
  <2>2. HistoryOK'
    BY <1>2 DEF CreateInvite, DeleteInvite, JoinOtherwise, GuildCreate, GuildDelete,
                Start, Disturb, All, HistoryOK
  <2>3. PICK step \in Steps \ {"diff", "swap", "primeStore"}, c \in Codes \cup {NoCode} :
          Start(w, step, c) /\ (step \in {"add", "remove"} => c \in Codes)
    BY <1>2 DEF CreateInvite, DeleteInvite, JoinOtherwise, GuildCreate, GuildDelete,
                DiscordOK, Steps
  <2>4. \A x \in Codes : uses[x] <= uses'[x]
    BY <2>1 DEF DiscordOK
  <2> QED
    BY <2>1, <2>2, <2>3, <2>4, StartOK
<1>3. ASSUME NEW w \in Workers, NEW v \in Workers, JoinVia(w, v) PROVE IInv'
  <2>1. PICK c \in live :
          /\ uses[c] < MaxUses
          /\ uses' = [uses EXCEPT ![c] = @ + 1]
          /\ UNCHANGED <<inGuild, trackerVars>>
          /\ calm' = [x \in Workers |-> x = w /\ Accurate]
          /\ pc[w] = "idle" /\ UNCHANGED <<fetched, prev, used, aborted>>
          /\ \/ live' = live /\ Start(w, "fetch", c)
             \/ /\ v # w /\ pc[v] = "idle"
                /\ live' = live \ {c}
                /\ pc' = [pc EXCEPT ![w] = "fetch", ![v] = "remove"]
                /\ arg' = [arg EXCEPT ![w] = c, ![v] = c]
    BY <1>3 DEF JoinVia, Start
  <2>2. c \in Codes
    BY DEF DiscordOK
  <2>3. DiscordOK' /\ \A x \in Codes : uses[x] <= uses'[x]
    BY <2>1, <2>2 DEF DiscordOK
  <2>4. HistoryOK'
    BY <2>1 DEF HistoryOK
  <2>5. TrackerOK' /\ WorkersOK'
    BY <2>1, <2>2 DEF Start, trackerVars, TrackerOK, WorkersOK, Steps
  <2>6. \A x \in Workers : StepOK(x)'
    BY <2>1, <2>2 DEF Start, trackerVars, WorkersOK, StepOK
  <2>7. ASSUME NEW map \in Maps \cup {NoMap}, Behind(map), NEW x \in Codes, map # NoMap
        PROVE  map[x] <= uses'[x]
    <3>1. map[x] \in Int /\ uses[x] \in Int /\ uses'[x] \in Int
      BY <2>3, <2>7 DEF Maps, DiscordOK, Absent
    <3>2. map[x] <= uses[x] /\ uses[x] <= uses'[x]
      BY <2>3, <2>7 DEF Behind
    <3> QED
      BY <3>1, <3>2
  <2>8. CountInv'
    BY <2>1, <2>7 DEF CountInv, Behind, trackerVars, TrackerOK, WorkersOK
  <2> QED
    BY <2>3, <2>4, <2>5, <2>6, <2>8
<1>4. ASSUME NEW w \in Workers,
             Fetch(w, "fetch", "swap") \/ Fetch(w, "primeFetch", "primeStore")
      PROVE  IInv'
  <2>1. UNCHANGED <<discordVars, trackerVars, calm, aborted>> /\ pc[w] \in {"fetch", "primeFetch"}
    BY <1>4 DEF Fetch
  <2>2. DiscordOK' /\ TrackerOK' /\ HistoryOK' /\ Behind(invites)'
    BY <2>1 DEF discordVars, trackerVars, DiscordOK, TrackerOK, HistoryOK, CountInv, Behind
  <2>3. CASE Done(w)
    <3>1. /\ WorkersOK' /\ \A v \in Workers : StepOK(v)'
          /\ \A v \in Workers : Behind(fetched[v])' /\ Behind(prev[v])'
      BY <2>1, <2>3, DoneOK DEF discordVars, trackerVars, CountInv
    <3> QED
      BY <2>2, <3>1 DEF CountInv
  <2>4. CASE /\ fetched' = [fetched EXCEPT ![w] = Listed]
             /\ pc' = [pc EXCEPT ![w] = "swap"] \/ pc' = [pc EXCEPT ![w] = "primeStore"]
             /\ UNCHANGED <<arg, prev, used>>
    <3>1. Listed \in Maps /\ Behind(Listed)
      BY ListedOK
    <3>2. WorkersOK' /\ \A v \in Workers : StepOK(v)'
      BY <2>1, <2>4, <3>1 DEF trackerVars, WorkersOK, StepOK, Steps
    <3>3. CountInv'
      BY <2>1, <2>2, <2>4, <3>1 DEF discordVars, CountInv, WorkersOK, Behind
    <3> QED
      BY <2>2, <3>2, <3>3
  <2> QED
    BY <1>4, <2>3, <2>4 DEF Fetch
<1>5. ASSUME NEW w \in Workers, StorePrimed(w) \/ Forget(w) PROVE IInv'
  <2>1. /\ Done(w) /\ Disturb /\ owner' = NoWorker /\ UNCHANGED <<discordVars, aborted>>
        /\ invites' \in {fetched[w], NoMap}
    BY <1>5 DEF StorePrimed, Forget
  <2>2. DiscordOK' /\ TrackerOK' /\ HistoryOK' /\ Behind(invites)'
    BY <2>1 DEF discordVars, Disturb, All, DiscordOK, TrackerOK, HistoryOK, WorkersOK,
                CountInv, Behind
  <2>3. /\ WorkersOK' /\ \A v \in Workers : StepOK(v)'
        /\ \A v \in Workers : Behind(fetched[v])' /\ Behind(prev[v])'
    BY <2>1, DoneOK DEF discordVars, CountInv
  <2> QED
    BY <2>2, <2>3 DEF CountInv
<1>6. ASSUME NEW w \in Workers, SwapBaseline(w) PROVE IInv'
  <2>1. /\ pc[w] = "swap" /\ invites' = fetched[w] /\ UNCHANGED <<discordVars, aborted>>
        /\ calm' = [x \in Workers |-> x = w /\ calm[x]]
    BY <1>6 DEF SwapBaseline
  <2>2. DiscordOK' /\ HistoryOK' /\ Behind(invites)' /\ invites' \in Maps
    BY <2>1 DEF discordVars, DiscordOK, HistoryOK, CountInv, Behind, StepOK
  <2>3. CASE invites = NoMap /\ owner' = NoWorker /\ Done(w)
    <3>1. /\ WorkersOK' /\ \A v \in Workers : StepOK(v)'
          /\ \A v \in Workers : Behind(fetched[v])' /\ Behind(prev[v])'
      BY <2>1, <2>3, DoneOK DEF discordVars, CountInv
    <3> QED
      BY <2>2, <2>3, <3>1 DEF CountInv, TrackerOK
  <2>4. CASE /\ invites # NoMap
             /\ owner' = w
             /\ prev' = [prev EXCEPT ![w] = invites]
             /\ pc' = [pc EXCEPT ![w] = "diff"]
             /\ UNCHANGED <<arg, fetched, used>>
    <3>1. TrackerOK' /\ WorkersOK'
      BY <2>2, <2>4 DEF TrackerOK, WorkersOK, Steps
    <3>2. \A v \in Workers : StepOK(v)'
      BY <2>1, <2>4 DEF TrackerOK, WorkersOK, StepOK
    <3>3. CountInv'
      BY <2>1, <2>2, <2>4 DEF discordVars, CountInv, WorkersOK, Behind
    <3> QED
      BY <2>2, <3>1, <3>2, <3>3
  <2> QED
    BY <1>6, <2>3, <2>4 DEF SwapBaseline
<1>7. ASSUME NEW w \in Workers, Compare(w) PROVE IInv'
  <2>1. /\ pc[w] = "diff" /\ UNCHANGED <<discordVars, invites, arg, calm, aborted>>
        /\ pc' = [pc EXCEPT ![w] = "log"]
        /\ fetched' = [fetched EXCEPT ![w] = NoMap]
        /\ prev' = [prev EXCEPT ![w] = NoMap]
        /\ owner' = IF owner = w THEN NoWorker ELSE owner
    BY <1>7 DEF Compare
  <2>2. PICK c \in Resolved(prev[w], fetched[w]) : used' = [used EXCEPT ![w] = c]
    BY <1>7 DEF Compare
  <2>3. c \in Codes \cup {NoCode}
    BY DEF Resolved
  <2>4. DiscordOK' /\ TrackerOK' /\ HistoryOK'
    BY <2>1 DEF discordVars, DiscordOK, TrackerOK, HistoryOK
  <2>5. WorkersOK'
    BY <2>1, <2>2, <2>3 DEF WorkersOK, Steps
  <2>6. \A v \in Workers : StepOK(v)'
    BY <2>1 DEF WorkersOK, StepOK, TrackerOK
  <2>7. CountInv'
    BY <2>1 DEF discordVars, CountInv, WorkersOK, Behind
  <2> QED
    BY <2>4, <2>5, <2>6, <2>7
<1>8. ASSUME NEW w \in Workers, LogJoin(w) PROVE IInv'
  <2>1. /\ Done(w) /\ pc[w] = "log" /\ calm' = [calm EXCEPT ![w] = FALSE]
        /\ UNCHANGED <<discordVars, trackerVars, aborted>>
    BY <1>8 DEF LogJoin
  <2>2. DiscordOK' /\ TrackerOK' /\ HistoryOK' /\ Behind(invites)'
    BY <2>1 DEF discordVars, trackerVars, DiscordOK, TrackerOK, HistoryOK, CountInv, Behind
  <2>3. /\ WorkersOK' /\ \A v \in Workers : StepOK(v)'
        /\ \A v \in Workers : Behind(fetched[v])' /\ Behind(prev[v])'
    BY <2>1, DoneOK DEF discordVars, trackerVars, CountInv
  <2> QED
    BY <2>2, <2>3 DEF CountInv
\* The map that is written may be the one the owner compares.
<1>9. ASSUME NEW w \in Workers, pc[w] \in {"add", "remove"}, NEW map \in Maps, Behind(map),
             WriteShared(w, map)
      PROVE  IInv'
  <2>1. /\ invites' = map /\ Disturb /\ UNCHANGED <<discordVars, owner, aborted>>
        /\ pc' = [pc EXCEPT ![w] = "idle"] /\ arg' = [arg EXCEPT ![w] = NoCode]
        /\ fetched' = IF owner = NoWorker THEN fetched ELSE [fetched EXCEPT ![owner] = map]
        /\ UNCHANGED <<prev, used>>
    BY <1>9 DEF WriteShared, Write
  <2>2. DiscordOK' /\ TrackerOK' /\ HistoryOK'
    BY <2>1 DEF discordVars, Disturb, All, DiscordOK, TrackerOK, HistoryOK
  <2>3. \A v \in Workers : fetched'[v] \in {fetched[v], map}
    BY <2>1 DEF TrackerOK, WorkersOK
  <2>4. fetched' \in [Workers -> Maps \cup {NoMap}]
    BY <2>1 DEF TrackerOK, WorkersOK
  <2>5. WorkersOK'
    BY <2>1, <2>4 DEF WorkersOK, Steps
  <2>6. \A v \in Workers : StepOK(v)'
    BY <1>9, <2>1, <2>3 DEF WorkersOK, StepOK
  <2>7. CountInv'
    BY <1>9, <2>1, <2>3 DEF discordVars, CountInv, Behind
  <2> QED
    BY <2>2, <2>5, <2>6, <2>7
<1>10. ASSUME NEW w \in Workers, AddInvite(w) PROVE IInv'
  <2> DEFINE old == IF invites = NoMap THEN [c \in Codes |-> Absent] ELSE invites
  <2>1. pc[w] = "add" /\ arg[w] \in Codes /\ WriteShared(w, [old EXCEPT ![arg[w]] = 0])
    BY <1>10 DEF AddInvite, StepOK
  <2>2. old \in Maps /\ Behind(old)
    BY EmptyOK DEF TrackerOK, CountInv
  <2> HIDE DEF old
  <2>3. [old EXCEPT ![arg[w]] = 0] \in Maps /\ Behind([old EXCEPT ![arg[w]] = 0])
    BY <2>1, <2>2, WrittenOK
  <2> QED
    BY <1>9, <2>1, <2>3
<1>11. ASSUME NEW w \in Workers, RemoveInvite(w) PROVE IInv'
  <2>1. pc[w] = "remove" /\ arg[w] \in Codes
    BY <1>11 DEF RemoveInvite, StepOK
  <2>2. CASE invites # NoMap /\ WriteShared(w, [invites EXCEPT ![arg[w]] = Absent])
    <3>1. invites \in Maps /\ Behind(invites)
      BY <2>2 DEF TrackerOK, CountInv
    <3>2. /\ [invites EXCEPT ![arg[w]] = Absent] \in Maps
          /\ Behind([invites EXCEPT ![arg[w]] = Absent])
      BY <2>1, <3>1, WrittenOK
    <3> QED
      BY <1>9, <2>1, <2>2, <3>2
  <2>3. CASE Done(w) /\ UNCHANGED <<discordVars, trackerVars, calm, aborted>>
    <3>1. DiscordOK' /\ TrackerOK' /\ HistoryOK' /\ Behind(invites)'
      BY <2>3 DEF discordVars, trackerVars, DiscordOK, TrackerOK, HistoryOK, CountInv, Behind
    <3>2. /\ WorkersOK' /\ \A v \in Workers : StepOK(v)'
          /\ \A v \in Workers : Behind(fetched[v])' /\ Behind(prev[v])'
      BY <2>1, <2>3, DoneOK DEF discordVars, trackerVars, CountInv
    <3> QED
      BY <3>1, <3>2 DEF CountInv
  <2> QED
    BY <1>11, <2>2, <2>3 DEF RemoveInvite
<1>12. CASE Abort
  <2>1. DiscordOK' /\ TrackerOK'
    BY <1>12 DEF Abort, discordVars, DiscordOK, TrackerOK
  <2>2. HistoryOK'
    BY <1>12 DEF Abort, HistoryOK, All
  <2>3. WorkersOK' /\ \A w \in Workers : StepOK(w)'
    BY <1>12 DEF Abort, WorkersOK, StepOK, All, Steps
  <2>4. CountInv'
    BY <1>12 DEF Abort, CountInv, Behind, All
  <2> QED
    BY <2>1, <2>2, <2>3, <2>4
<1> QED
  BY <1>1, <1>2, <1>3, <1>4, <1>5, <1>6, <1>7, <1>8, <1>10, <1>11, <1>12 DEF Next

\* Every variable of InviteTracker holds what it may hold however handlers and
\* aborts interleave: a handler that compares has both maps, one that writes has
\* a code, and only a handler that compares shares its map with the baseline.
THEOREM InvitesTyped == Spec => []TypeOK
<1>1. IInv => TypeOK
  BY TypeParts DEF IInv
<1> QED
  BY InitInv, StepInv, <1>1, PTL DEF Spec

\* However late a fetched list is installed, and whatever handlers write to it
\* meanwhile, no baseline credits an invite with uses it has not had: a join
\* through it still shows as a use (Tracker.Prime, ResolveJoin, AddInvite).
THEOREM BaselineNeverAhead == Spec => []NeverAhead
<1>1. IInv => NeverAhead
  BY DEF IInv, CountInv, Behind, NeverAhead
<1> QED
  BY InitInv, StepInv, <1>1, PTL DEF Spec

-----------------------------------------------------------------------------
(* A join that nothing disturbs                                            *)

\* The map old tells a join through c from Discord's list: it differs where c
\* was used or, being for a single use, has gone; elsewhere it lacks at most
\* invites that nobody has used.
Tells(old, c) ==
  \A x \in Codes :
    IF x # c THEN old[x] = Listed[x] \/ (old[x] = Absent /\ uses[x] = 0)
    ELSE IF x \in SingleUse THEN x \notin live /\ old[x] # Absent
    ELSE /\ x \in live /\ uses[x] > 0
         /\ old[x] = uses[x] - 1 \/ (old[x] = Absent /\ uses[x] = 1)

\* Where each step of ResolveJoin leaves the maps.
CalmState(w) ==
  /\ pc[w] \in {"fetch", "swap"} => invites # NoMap /\ Tells(invites, arg[w])
  /\ pc[w] \in {"swap", "diff"} => fetched[w] = Listed
  /\ pc[w] = "diff" => Tells(prev[w], arg[w])
  /\ pc[w] = "log" => used[w] = arg[w]

CalmInv == \A w \in Workers : calm[w] => CalmState(w)

\* The comparison of such a map with the list finds the invite of the join.
LEMMA ToldResolved ==
  ASSUME DiscordOK, NEW old \in Maps, NEW c \in Codes \cup {NoCode}, Tells(old, c)
  PROVE  Resolved(old, Listed) = {c}
<1> DEFINE grown == {x \in Codes : \/ old[x] # Absent /\ Listed[x] > old[x]
                                   \/ old[x] = Absent /\ Listed[x] > 0}
           gone  == {x \in Codes : old[x] # Absent /\ Listed[x] = Absent}
<1>1. \A x \in Codes : /\ Listed[x] = IF x \in live THEN uses[x] ELSE -1
                       /\ uses[x] \in Nat /\ old[x] \in Int
  BY InviteAssumption DEF DiscordOK, Listed, Maps, Absent
<1>2. \A x \in Codes \ {c} : x \notin grown /\ x \notin gone
  BY <1>1 DEF Tells, Absent
<1>3. c \in Codes => IF c \in SingleUse THEN c \notin grown /\ c \in gone ELSE c \in grown
  <2>1. ASSUME c \in Codes, c \in SingleUse PROVE c \notin grown /\ c \in gone
    <3>1. old[c] # -1 /\ Listed[c] = -1 /\ old[c] \in -1..MaxUses
      BY <1>1, <2>1 DEF Tells, Absent, Maps
    <3> QED
      BY <2>1, <3>1, InviteAssumption DEF Absent
  <2>2. ASSUME c \in Codes, c \notin SingleUse PROVE c \in grown
    <3>1. Listed[c] = uses[c] /\ uses[c] > 0 /\ (old[c] = uses[c] - 1 \/ (old[c] = -1 /\ uses[c] = 1))
      BY <1>1, <2>2 DEF Tells, Absent
    <3>2. IF old[c] = -1 THEN Listed[c] > 0 ELSE Listed[c] > old[c]
      BY <1>1, <2>2, <3>1
    <3> QED
      BY <2>2, <3>2 DEF Absent
  <2> QED
    BY <2>1, <2>2
<1>4. Resolved(old, Listed) = IF grown # {} THEN grown
                              ELSE IF Cardinality(gone) = 1 THEN gone ELSE {NoCode}
  BY DEF Resolved
<1>5. grown \subseteq Codes /\ gone \subseteq Codes
  OBVIOUS
<1> HIDE DEF grown, gone
<1>6. CASE c \in Codes /\ c \notin SingleUse
  <2>1. grown = {c}
    BY <1>2, <1>3, <1>5, <1>6
  <2> QED
    BY <1>4, <2>1
<1>7. CASE c \in SingleUse
  <2>1. grown = {} /\ gone = {c}
    BY <1>2, <1>3, <1>5, <1>7, InviteAssumption
  <2>2. Cardinality(gone) = 1
    BY <2>1, FS_Singleton
  <2> QED
    BY <1>4, <2>1, <2>2
<1>8. CASE c = NoCode
  <2>1. grown = {} /\ gone = {}
    BY <1>2, <1>5, <1>8, InviteAssumption
  <2>2. Cardinality(gone) = 0
    BY <2>1, FS_EmptySet
  <2> QED
    BY <1>4, <1>8, <2>1, <2>2
<1> QED
  BY <1>6, <1>7, <1>8, InviteAssumption

\* Whatever the step does elsewhere, what it leaves alone stays told apart.
LEMMA CalmKept ==
  ASSUME NEW w \in Workers, CalmState(w), UNCHANGED discordVars,
         pc[w] \in {"fetch", "swap"} => invites' = invites,
         pc'[w] = pc[w], arg'[w] = arg[w], fetched'[w] = fetched[w], prev'[w] = prev[w],
         used'[w] = used[w]
  PROVE  CalmState(w)'
<1>1. Listed' = Listed
  BY DEF discordVars, Listed
<1>2. pc[w] \in {"fetch", "swap"} => (invites # NoMap /\ Tells(invites, arg[w]))'
  BY <1>1 DEF discordVars, CalmState, Tells
<1>3. pc[w] = "diff" => Tells(prev[w], arg[w])'
  BY <1>1 DEF discordVars, CalmState, Tells
<1> QED
  BY <1>1, <1>2, <1>3 DEF CalmState

\* A handler that returns is at no join any more.
LEMMA CalmDone ==
  ASSUME IInv, CalmInv, NEW w \in Workers, Done(w), UNCHANGED <<discordVars, invites>>,
         \A v \in Workers : calm'[v] => calm[v]
  PROVE  CalmInv'
<1>1. /\ \A v \in Workers \ {w} : /\ pc'[v] = pc[v] /\ arg'[v] = arg[v] /\ used'[v] = used[v]
                                  /\ fetched'[v] = fetched[v] /\ prev'[v] = prev[v]
      /\ pc'[w] = "idle"
  BY DEF Done, IInv, TypeInv, WorkersOK
<1>2. ASSUME NEW v \in Workers \ {w}, calm'[v] PROVE CalmState(v)'
  BY <1>1, <1>2, CalmKept DEF CalmInv
<1>3. CalmState(w)'
  BY <1>1 DEF CalmState
<1> QED
  BY <1>2, <1>3 DEF CalmInv

\* A join starts from a baseline that tells it apart.
LEMMA JoinTold ==
  ASSUME IInv, Accurate, NEW c \in Codes \cup {NoCode},
         \/ c = NoCode /\ UNCHANGED <<live, uses>>
         \/ /\ c \in live /\ uses' = [uses EXCEPT ![c] = @ + 1]
            /\ live' = IF c \in SingleUse THEN live \ {c} ELSE live,
         invites' = invites
  PROVE  (invites # NoMap /\ Tells(invites, c))'
<1> USE DEF IInv, TypeInv, DiscordOK
<1>1. \A x \in Codes : /\ Listed[x] = IF x \in live THEN uses[x] ELSE -1
                       /\ Listed'[x] = IF x \in live' THEN uses'[x] ELSE -1
                       /\ uses[x] \in Nat
  BY InviteAssumption DEF Listed, Absent
<1>2. \A x \in Codes : /\ x # c => uses'[x] = uses[x] /\ (x \in live' <=> x \in live)
                       /\ x = c => /\ uses'[x] = uses[x] + 1 /\ x \in live
                                   /\ x \in live' <=> x \notin SingleUse
  BY InviteAssumption
<1>3. \A x \in Codes : \/ invites[x] = Listed[x]
                       \/ invites[x] = Absent /\ uses[x] = 0 /\ x \notin SingleUse
  BY DEF Accurate
<1>4. ASSUME NEW x \in Codes
      PROVE  IF x # c THEN invites[x] = Listed'[x] \/ (invites[x] = Absent /\ uses'[x] = 0)
             ELSE IF x \in SingleUse THEN x \notin live' /\ invites[x] # Absent
             ELSE x \in live' /\ uses'[x] > 0 /\ (invites[x] = uses'[x] - 1 \/ (invites[x] = Absent /\ uses'[x] = 1))
  BY <1>1, <1>2, <1>3 DEF Absent
<1> QED
  BY <1>4 DEF Accurate, Tells

LEMMA CalmStep == IInv /\ CalmInv /\ [Next]_vars => CalmInv'
<1> SUFFICES ASSUME IInv, CalmInv, [Next]_vars PROVE CalmInv'
  OBVIOUS
<1> USE DEF IInv, TypeInv
<1>1. CASE UNCHANGED vars
  BY <1>1, CalmKept DEF vars, trackerVars, workerVars, CalmInv
<1>2. ASSUME \A w \in Workers : ~calm'[w] PROVE CalmInv'
  BY <1>2 DEF CalmInv
<1>3. ASSUME NEW w \in Workers, \/ CreateInvite(w) \/ DeleteInvite(w) \/ GuildCreate(w)
                                \/ GuildDelete(w) \/ StorePrimed(w) \/ Forget(w) \/ AddInvite(w)
      PROVE  CalmInv'
  <2>1. Disturb
    BY <1>3 DEF CreateInvite, DeleteInvite, GuildCreate, GuildDelete, StorePrimed, Forget,
                AddInvite, WriteShared, Write
  <2> QED
    BY <1>2, <2>1 DEF Disturb, All
<1>4. CASE Abort
  BY <1>2, <1>4 DEF Abort, All
<1>5. ASSUME NEW w \in Workers, (\E v \in Workers : JoinVia(w, v)) \/ JoinOtherwise(w)
      PROVE  CalmInv'
  <2>1. calm' = [x \in Workers |-> x = w /\ Accurate] /\ UNCHANGED trackerVars
    BY <1>5 DEF JoinVia, JoinOtherwise
  <2>2. PICK c \in Codes \cup {NoCode} :
          /\ \/ c = NoCode /\ UNCHANGED <<live, uses>>
             \/ /\ c \in live /\ uses' = [uses EXCEPT ![c] = @ + 1]
                /\ live' = IF c \in SingleUse THEN live \ {c} ELSE live
          /\ pc'[w] = "fetch" /\ arg'[w] = c
    <3>1. CASE JoinOtherwise(w)
      BY <3>1 DEF JoinOtherwise, Start, discordVars, WorkersOK
    <3>2. ASSUME NEW v \in Workers, JoinVia(w, v)
          PROVE  \E c \in live : /\ uses' = [uses EXCEPT ![c] = @ + 1]
                                 /\ live' = IF c \in SingleUse THEN live \ {c} ELSE live
                                 /\ pc'[w] = "fetch" /\ arg'[w] = c
      BY <3>2 DEF JoinVia, Start, WorkersOK
    <3> QED
      BY <1>5, <3>1, <3>2 DEF DiscordOK
  <2>3. Accurate => invites' # NoMap /\ Tells(invites, c)'
    BY <2>1, <2>2, JoinTold DEF trackerVars
  <2>4. Accurate => CalmState(w)'
    BY <2>2, <2>3 DEF CalmState
  <2> QED
    BY <2>1, <2>4 DEF CalmInv
<1>6. ASSUME NEW w \in Workers,
             Fetch(w, "fetch", "swap") \/ Fetch(w, "primeFetch", "primeStore")
      PROVE  CalmInv'
  <2>1. UNCHANGED <<discordVars, trackerVars, calm, aborted>>
    BY <1>6 DEF Fetch
  <2>2. CASE Done(w)
    BY <2>1, <2>2, CalmDone DEF trackerVars
  <2>3. CASE /\ fetched' = [fetched EXCEPT ![w] = Listed]
             /\ \/ pc[w] = "fetch" /\ pc' = [pc EXCEPT ![w] = "swap"]
                \/ pc[w] = "primeFetch" /\ pc' = [pc EXCEPT ![w] = "primeStore"]
             /\ UNCHANGED <<arg, prev, used>>
    <3>1. ASSUME NEW v \in Workers \ {w}, calm[v] PROVE CalmState(v)'
      BY <2>1, <2>3, <3>1, CalmKept DEF trackerVars, WorkersOK, CalmInv
    <3>2. ASSUME calm[w] PROVE CalmState(w)'
      <4>1. Listed' = Listed
        BY <2>1 DEF discordVars, Listed
      <4>2. fetched'[w] = Listed /\ pc'[w] \in {"swap", "primeStore"}
            /\ (pc'[w] = "swap" => pc[w] = "fetch")
        BY <2>3 DEF WorkersOK
      <4>3. pc[w] = "fetch" => (invites # NoMap /\ Tells(invites, arg[w]))'
        BY <2>1, <2>3, <3>2, <4>1 DEF CalmInv, CalmState, Tells, trackerVars, discordVars
      <4> QED
        BY <4>1, <4>2, <4>3 DEF CalmState
    <3> QED
      BY <2>1, <3>1, <3>2 DEF CalmInv
  <2> QED
    BY <1>6, <2>2, <2>3 DEF Fetch
<1>7. ASSUME NEW w \in Workers, SwapBaseline(w) PROVE CalmInv'
  <2>1. /\ pc[w] = "swap" /\ UNCHANGED <<discordVars, aborted>>
        /\ calm' = [x \in Workers |-> x = w /\ calm[x]]
    BY <1>7 DEF SwapBaseline
  <2>2. CASE Done(w)
    <3>1. pc'[w] = "idle"
      BY <2>2 DEF Done, WorkersOK
    <3>2. CalmState(w)'
      BY <3>1 DEF CalmState
    <3> QED
      BY <2>1, <3>2 DEF CalmInv
  <2>3. CASE /\ invites # NoMap
             /\ prev' = [prev EXCEPT ![w] = invites]
             /\ pc' = [pc EXCEPT ![w] = "diff"]
             /\ UNCHANGED <<arg, fetched, used>>
    <3>1. prev'[w] = invites /\ pc'[w] = "diff" /\ Listed' = Listed
      BY <2>1, <2>3 DEF WorkersOK, discordVars, Listed
    <3>2. ASSUME calm[w] PROVE CalmState(w)'
      <4>1. fetched[w] = Listed /\ Tells(invites, arg[w])
        BY <2>1, <3>2 DEF CalmInv, CalmState
      <4>2. Tells(prev[w], arg[w])'
        BY <2>1, <2>3, <3>1, <4>1 DEF Tells, discordVars
      <4> QED
        BY <2>3, <3>1, <4>1, <4>2 DEF CalmState
    <3> QED
      BY <2>1, <3>2 DEF CalmInv
  <2> QED
    BY <1>7, <2>2, <2>3 DEF SwapBaseline
<1>8. ASSUME NEW w \in Workers, Compare(w) PROVE CalmInv'
  <2>1. /\ pc[w] = "diff" /\ UNCHANGED <<discordVars, invites, arg, calm, aborted>>
        /\ pc' = [pc EXCEPT ![w] = "log"]
        /\ fetched' = [fetched EXCEPT ![w] = NoMap]
        /\ prev' = [prev EXCEPT ![w] = NoMap]
    BY <1>8 DEF Compare
  <2>2. PICK c \in Resolved(prev[w], fetched[w]) : used' = [used EXCEPT ![w] = c]
    BY <1>8 DEF Compare
  <2>3. ASSUME NEW v \in Workers \ {w}, calm[v] PROVE CalmState(v)'
    BY <2>1, <2>2, <2>3, CalmKept DEF WorkersOK, CalmInv
  <2>4. ASSUME calm[w] PROVE CalmState(w)'
    <3>1. fetched[w] = Listed /\ Tells(prev[w], arg[w])
      BY <2>1, <2>4 DEF CalmInv, CalmState
    <3>2. prev[w] \in Maps /\ arg[w] \in Codes \cup {NoCode}
      BY <2>1 DEF StepOK, WorkersOK
    <3>3. c = arg[w]
      BY <2>2, <3>1, <3>2, ToldResolved
    <3>4. pc'[w] = "log" /\ used'[w] = arg'[w]
      BY <2>1, <2>2, <3>3 DEF WorkersOK
    <3> QED
      BY <3>4 DEF CalmState
  <2> QED
    BY <2>1, <2>3, <2>4 DEF CalmInv
<1>9. ASSUME NEW w \in Workers, LogJoin(w) PROVE CalmInv'
  <2>1. /\ Done(w) /\ calm' = [calm EXCEPT ![w] = FALSE]
        /\ UNCHANGED <<discordVars, trackerVars, aborted>>
    BY <1>9 DEF LogJoin
  <2>2. \A v \in Workers : calm'[v] => calm[v]
    BY <2>1, Zenon DEF HistoryOK
  <2> QED
    BY <2>1, <2>2, CalmDone DEF trackerVars
<1>10. ASSUME NEW w \in Workers, RemoveInvite(w) PROVE CalmInv'
  <2>1. CASE Disturb
    BY <1>2, <2>1 DEF Disturb, All
  <2>2. CASE Done(w) /\ UNCHANGED <<discordVars, trackerVars, calm, aborted>>
    BY <2>2, CalmDone DEF trackerVars
  <2> QED
    BY <1>10, <2>1, <2>2 DEF RemoveInvite, WriteShared, Write
<1> QED
  BY <1>1, <1>3, <1>4, <1>5, <1>6, <1>7, <1>8, <1>9, <1>10 DEF Next

\* A join that nothing got in the way of is attributed to the invite it came
\* through, and to none if it came through none (ResolveJoin, resolveUsed).
THEOREM CalmJoinsAttributed == Spec => []CalmJoinAttributed
<1>1. Init => CalmInv
  BY DEF Init, All, CalmInv
<1>2. CalmInv => CalmJoinAttributed
  BY DEF CalmInv, CalmState, CalmJoinAttributed
<1> QED
  BY InitInv, StepInv, CalmStep, <1>1, <1>2, PTL DEF Spec
=============================================================================
