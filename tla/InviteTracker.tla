---------------------------- MODULE InviteTracker ----------------------------
(***************************************************************************)
(* The invite half of invites.Tracker for one guild, with the gateway      *)
(* handlers that call it.  discordgo runs each event in a goroutine of its *)
(* own (Workers).  A join is attributed by fetching the guild's invites,   *)
(* swapping them in as the new baseline under t.mu, and comparing the two  *)
(* maps after the unlock.  By then the new map is shared: InviteCreate and *)
(* InviteDelete write to it while the comparison reads it.                 *)
(*                                                                         *)
(* A map from codes to use counts stands for a map of inviteSnaps; Absent  *)
(* is a missing key.  The member snapshots are a separate map and left out.*)
(***************************************************************************)
EXTENDS Integers, FiniteSets

CONSTANTS
  Codes,      \* invite codes
  SingleUse,  \* the codes Discord deletes after one use
  MaxUses,    \* bound: uses of an invite
  Workers,    \* goroutines running event handlers
  NoWorker,   \* no goroutine
  NoCode,     \* no invite: the join was not through one, or is not resolved
  NoMap       \* the guild has no entry in t.invites

Absent == -1
Maps   == [Codes -> Absent..MaxUses]

ASSUME InviteAssumption ==
  /\ SingleUse \subseteq Codes
  /\ MaxUses \in Nat
  /\ NoWorker \notin Workers
  /\ NoCode \notin Codes
  /\ NoMap \notin Maps

VARIABLES
  live,      \* the guild's invites, as Discord has them
  uses,      \* how often each code was used
  inGuild,   \* the bot is a member of the guild
  invites,   \* Tracker.invites[guild]
  owner,     \* the worker comparing the map that is also the baseline
  pc,        \* what a worker does next
  arg,       \* the invite of the event it handles; for a join, the one used
  fetched,   \* the invites it fetched
  prev,      \* the baseline ResolveJoin replaced
  used,      \* the invite ResolveJoin found
  calm,      \* history: nothing disturbed the join this worker handles
  aborted    \* history: the Go runtime stopped on concurrent map access

discordVars == <<live, uses, inGuild>>
trackerVars == <<invites, owner>>
workerVars  == <<pc, arg, fetched, prev, used>>
vars        == <<discordVars, trackerVars, workerVars, calm, aborted>>

Steps == {"idle", "fetch", "swap", "diff", "log",
          "primeFetch", "primeStore", "add", "remove", "forget"}

TypeOK ==
  /\ live \subseteq Codes
  /\ uses \in [Codes -> 0..MaxUses]
  /\ inGuild \in BOOLEAN
  /\ invites \in Maps \cup {NoMap}
  /\ owner \in Workers \cup {NoWorker}
  /\ pc \in [Workers -> Steps]
  /\ arg \in [Workers -> Codes \cup {NoCode}]
  /\ fetched \in [Workers -> Maps \cup {NoMap}]
  /\ prev \in [Workers -> Maps \cup {NoMap}]
  /\ used \in [Workers -> Codes \cup {NoCode}]
  /\ calm \in [Workers -> BOOLEAN]
  /\ aborted \in BOOLEAN
  /\ \A w \in Workers :
       /\ pc[w] \in {"add", "remove"} => arg[w] \in Codes
       /\ pc[w] \in {"swap", "diff", "primeStore"} => fetched[w] \in Maps
       /\ pc[w] = "diff" => prev[w] \in Maps
       /\ owner = w => pc[w] = "diff"

All(x) == [w \in Workers |-> x]

Init ==
  /\ live \in SUBSET Codes
  /\ uses = [c \in Codes |-> 0]
  /\ inGuild = TRUE
  /\ invites = NoMap
  /\ owner = NoWorker
  /\ pc = All("idle")
  /\ arg = All(NoCode)
  /\ fetched = All(NoMap)
  /\ prev = All(NoMap)
  /\ used = All(NoCode)
  /\ calm = All(FALSE)
  /\ aborted = FALSE

-----------------------------------------------------------------------------
(* Discord and the events it dispatches                                    *)

Listed == [c \in Codes |-> IF c \in live THEN uses[c] ELSE Absent]

\* The baseline tells this join apart: it agrees with Discord, except that
\* it may lack unused invites that will still be listed after their first use.
Accurate ==
  /\ invites # NoMap
  /\ \A c \in Codes : \/ invites[c] = Listed[c]
                      \/ invites[c] = Absent /\ uses[c] = 0 /\ c \notin SingleUse

Start(w, step, c) ==
  /\ pc[w] = "idle"
  /\ pc' = [pc EXCEPT ![w] = step]
  /\ arg' = [arg EXCEPT ![w] = c]
  /\ UNCHANGED <<fetched, prev, used, aborted>>

\* Whatever a join in flight relied on may have changed.
Disturb == calm' = All(FALSE)

CreateInvite(w) ==
  \E c \in Codes \ live :
    /\ inGuild
    /\ uses[c] = 0
    /\ live' = live \cup {c}
    /\ Start(w, "add", c)
    /\ Disturb
    /\ UNCHANGED <<uses, inGuild, trackerVars>>

DeleteInvite(w) ==
  \E c \in live :
    /\ inGuild
    /\ live' = live \ {c}
    /\ Start(w, "remove", c)
    /\ Disturb
    /\ UNCHANGED <<uses, inGuild, trackerVars>>

\* A join through c; Discord deletes a single-use invite with it, and
\* dispatches a second event.
JoinVia(w, v) ==
  \E c \in live :
    /\ inGuild
    /\ uses[c] < MaxUses
    /\ uses' = [uses EXCEPT ![c] = @ + 1]
    /\ calm' = [x \in Workers |-> x = w /\ Accurate]
    /\ pc[w] = "idle"
    /\ \/ /\ c \notin SingleUse
          /\ v = w
          /\ live' = live
          /\ Start(w, "fetch", c)
       \/ /\ c \in SingleUse
          /\ v # w
          /\ pc[v] = "idle"
          /\ live' = live \ {c}
          /\ pc' = [pc EXCEPT ![w] = "fetch", ![v] = "remove"]
          /\ arg' = [arg EXCEPT ![w] = c, ![v] = c]
          /\ UNCHANGED <<fetched, prev, used, aborted>>
    /\ UNCHANGED <<inGuild, trackerVars>>

\* A join through the vanity URL or server discovery.
JoinOtherwise(w) ==
  /\ inGuild
  /\ Start(w, "fetch", NoCode)
  /\ calm' = [x \in Workers |-> x = w /\ Accurate]
  /\ UNCHANGED <<discordVars, trackerVars>>

\* The bot starts, reconnects, or is added to the guild.
GuildCreate(w) ==
  /\ Start(w, "primeFetch", NoCode)
  /\ inGuild' = TRUE
  /\ Disturb
  /\ UNCHANGED <<live, uses, trackerVars>>

GuildDelete(w) ==
  /\ inGuild
  /\ Start(w, "forget", NoCode)
  /\ inGuild' = FALSE
  /\ Disturb
  /\ UNCHANGED <<live, uses, trackerVars>>

-----------------------------------------------------------------------------
(* Tracker                                                                 *)

Done(w) ==
  /\ pc' = [pc EXCEPT ![w] = "idle"]
  /\ arg' = [arg EXCEPT ![w] = NoCode]
  /\ fetched' = [fetched EXCEPT ![w] = NoMap]
  /\ prev' = [prev EXCEPT ![w] = NoMap]
  /\ used' = [used EXCEPT ![w] = NoCode]

\* GuildInvites, with no lock held; it fails without the permission.
Fetch(w, from, to) ==
  /\ pc[w] = from
  /\ \/ /\ inGuild
        /\ fetched' = [fetched EXCEPT ![w] = Listed]
        /\ pc' = [pc EXCEPT ![w] = to]
        /\ UNCHANGED <<arg, prev, used>>
     \/ Done(w)
  /\ UNCHANGED <<discordVars, trackerVars, calm, aborted>>

\* Prime stores what it fetched as the baseline.
StorePrimed(w) ==
  /\ pc[w] = "primeStore"
  /\ invites' = fetched[w]
  /\ owner' = NoWorker
  /\ Done(w)
  /\ Disturb
  /\ UNCHANGED <<discordVars, aborted>>

\* ResolveJoin's critical section.  Without a baseline there is no answer.
SwapBaseline(w) ==
  /\ pc[w] = "swap"
  /\ invites' = fetched[w]
  /\ \/ /\ invites # NoMap
        /\ owner' = w
        /\ prev' = [prev EXCEPT ![w] = invites]
        /\ pc' = [pc EXCEPT ![w] = "diff"]
        /\ UNCHANGED <<arg, fetched, used>>
     \/ /\ invites = NoMap
        /\ owner' = NoWorker
        /\ Done(w)
  /\ calm' = [x \in Workers |-> x = w /\ calm[x]]
  /\ UNCHANGED <<discordVars, aborted>>

\* Wrong variant: an unchanged use count is taken for a use.
ResolvedLoosely(old, cur) ==
  LET grown == {c \in Codes : cur[c] # Absent /\ cur[c] >= old[c]}
  IN  IF grown # {} THEN grown ELSE {NoCode}

\* The codes the comparison may settle on: one whose count grew or that is
\* new and used, in the map's random order; else the only one that vanished.
Resolved(old, cur) ==
  LET grown == {c \in Codes : \/ old[c] # Absent /\ cur[c] > old[c]
                              \/ old[c] = Absent /\ cur[c] > 0}
      gone  == {c \in Codes : old[c] # Absent /\ cur[c] = Absent}
  IN  IF grown # {} THEN grown
      ELSE IF Cardinality(gone) = 1 THEN gone
      ELSE {NoCode}

Compare(w) ==
  /\ pc[w] = "diff"
  /\ \E c \in Resolved(prev[w], fetched[w]) : used' = [used EXCEPT ![w] = c]
  /\ pc' = [pc EXCEPT ![w] = "log"]
  /\ fetched' = [fetched EXCEPT ![w] = NoMap]
  /\ prev' = [prev EXCEPT ![w] = NoMap]
  /\ owner' = IF owner = w THEN NoWorker ELSE owner
  /\ UNCHANGED <<discordVars, invites, arg, calm, aborted>>

LogJoin(w) ==
  /\ pc[w] = "log"
  /\ Done(w)
  /\ calm' = [calm EXCEPT ![w] = FALSE]
  /\ UNCHANGED <<discordVars, trackerVars, aborted>>

\* The baseline and the map its owner is comparing are one map.
Write(map) ==
  /\ invites' = map
  /\ Disturb
  /\ UNCHANGED <<discordVars, owner, aborted>>

WriteShared(w, map) ==
  /\ Write(map)
  /\ pc' = [pc EXCEPT ![w] = "idle"]
  /\ arg' = [arg EXCEPT ![w] = NoCode]
  /\ fetched' = IF owner = NoWorker THEN fetched ELSE [fetched EXCEPT ![owner] = map]
  /\ UNCHANGED <<prev, used>>

\* Wrong variant: the event's MaxUses is recorded as the use count.
AddInviteSwapped(w) ==
  /\ pc[w] = "add"
  /\ LET old == IF invites = NoMap THEN [c \in Codes |-> Absent] ELSE invites
     IN  WriteShared(w, [old EXCEPT ![arg[w]] = IF arg[w] \in SingleUse THEN 1 ELSE 0])

\* AddInvite makes a map for a guild that has none; an InviteCreate event
\* carries the use count at creation.
AddInvite(w) ==
  /\ pc[w] = "add"
  /\ LET old == IF invites = NoMap THEN [c \in Codes |-> Absent] ELSE invites
     IN  WriteShared(w, [old EXCEPT ![arg[w]] = 0])

RemoveInvite(w) ==
  /\ pc[w] = "remove"
  /\ \/ /\ invites # NoMap
        /\ WriteShared(w, [invites EXCEPT ![arg[w]] = Absent])
     \/ /\ invites = NoMap
        /\ Done(w)
        /\ UNCHANGED <<discordVars, trackerVars, calm, aborted>>

Forget(w) ==
  /\ pc[w] = "forget"
  /\ invites' = NoMap
  /\ owner' = NoWorker
  /\ Done(w)
  /\ Disturb
  /\ UNCHANGED <<discordVars, aborted>>

Writing(w) == pc[w] \in {"add", "remove"} /\ invites # NoMap

\* A write races with the comparison: the Go runtime may stop the process
\* ("concurrent map iteration and map write"), which then starts anew.
Abort ==
  /\ owner # NoWorker
  /\ \E w \in Workers : Writing(w)
  /\ aborted' = TRUE
  /\ invites' = NoMap
  /\ owner' = NoWorker
  /\ pc' = All("idle")
  /\ arg' = All(NoCode)
  /\ fetched' = All(NoMap)
  /\ prev' = All(NoMap)
  /\ used' = All(NoCode)
  /\ calm' = All(FALSE)
  /\ UNCHANGED discordVars

Next ==
  \/ \E w \in Workers :
       \/ CreateInvite(w)
       \/ DeleteInvite(w)
       \/ \E v \in Workers : JoinVia(w, v)
       \/ JoinOtherwise(w)
       \/ GuildCreate(w)
       \/ GuildDelete(w)
       \/ Fetch(w, "fetch", "swap")
       \/ Fetch(w, "primeFetch", "primeStore")
       \/ StorePrimed(w)
       \/ SwapBaseline(w)
       \/ Compare(w)
       \/ LogJoin(w)
       \/ AddInvite(w)
       \/ RemoveInvite(w)
       \/ Forget(w)
  \/ Abort

Spec == Init /\ [][Next]_vars

-----------------------------------------------------------------------------
(* Properties                                                              *)

\* A join nothing else got in the way of is attributed to the invite it came
\* through, brand-new and single-use invites included, and to none if it came
\* through none.
CalmJoinAttributed ==
  \A w \in Workers : pc[w] = "log" /\ calm[w] => used[w] = arg[w]

\* Whatever stale list is installed last, no baseline credits an invite with
\* uses it has not had, which would hide the joins through it to come.
NeverAhead ==
  \A map \in {invites} \cup {fetched[w] : w \in Workers}
                       \cup {prev[w] : w \in Workers} :
    map # NoMap => \A c \in Codes : map[c] <= uses[c]

\* "All state is in-memory and concurrency-safe": the process does not stop
\* on one goroutine writing a map another one reads.
ConcurrencySafe == ~aborted
=============================================================================
