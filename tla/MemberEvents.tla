----------------------------- MODULE MemberEvents -----------------------------
(***************************************************************************)
(* The member half of invites.Tracker for one guild: the snapshots that    *)
(* leave logs are written from, kept by GuildCreate, GuildDelete and the   *)
(* three member events, and the roles a join is given, which raise member  *)
(* events of their own.  Gateway events run in goroutines of their own     *)
(* (Hands); how long the requests before a store take is left open by when *)
(* the store happens.  GuildCreate is taken to carry every member, as it   *)
(* does for guilds of fewer than 250 members.                              *)
(***************************************************************************)
EXTENDS Integers

CONSTANTS
  Members, Bots,  \* users; those of them that are bots
  GuildRoles,
  NoSnap,         \* no entry in t.members[guild]
  Hands,          \* running handlers
  MaxTurns        \* bound: changes of the guild and its members

Rest == [step |-> "idle"]

VARIABLES
  here, online,  \* the bot is in the guild; it is connected to the gateway
  member,        \* who is in the guild
  held,          \* the roles of each
  autorole,      \* the roles a joining human or bot gets
  snaps,         \* Tracker.members[guild]
  hand,          \* what each handler is at, and the members its event carries
  turns,         \* bound
  raced          \* history: members whose last event was missed, or came while the
                 \* handler of an earlier one had not reached the tracker

memberVars == <<here, online, member, held, autorole, snaps, hand, turns, raced>>

Init ==
  /\ here = FALSE /\ online = TRUE
  /\ member = {} /\ held = [m \in Members |-> {}]
  /\ autorole \in [{"human", "bot"} -> SUBSET GuildRoles]
  /\ snaps = [m \in Members |-> NoSnap]
  /\ hand = [h \in Hands |-> Rest]
  /\ turns = 0 /\ raced = {}

-----------------------------------------------------------------------------
(* Events                                                                  *)

Turn == turns < MaxTurns /\ turns' = turns + 1

\* A handler has yet to store or drop the snapshot of m.
Pending(m) ==
  \E h \in Hands : hand[h].step \in {"snapshot", "pop", "forget"} /\ m \in DOMAIN hand[h].about

\* The members of an event, with their roles.
Only(m, R)      == [x \in {m} |-> R]
Carrying(roles) == [x \in member |-> roles[x]]

\* The gateway sends an event about some members.
Event(h, step, add, about) ==
  /\ online /\ hand[h] = Rest
  /\ hand' = [hand EXCEPT ![h] = [step |-> step, add |-> add, about |-> about]]
  /\ raced' = {m \in raced : m \notin DOMAIN about} \cup {m \in DOMAIN about : Pending(m)}

GuildCreate(h) == Event(h, "snapshot", FALSE, Carrying(held))

BotJoins(h) ==
  /\ ~here /\ here' = TRUE /\ Turn
  /\ GuildCreate(h)
  /\ UNCHANGED <<online, member, held, autorole, snaps>>

BotLeaves(h) ==
  /\ here /\ here' = FALSE
  /\ Event(h, "forget", FALSE, held)
  /\ UNCHANGED <<online, member, held, autorole, snaps, turns>>

MemberJoins(m) ==
  /\ m \notin member /\ Turn
  /\ member' = member \cup {m} /\ held' = [held EXCEPT ![m] = {}]

MemberLeaves(m) ==
  /\ m \in member
  /\ member' = member \ {m} /\ UNCHANGED <<held, turns>>

RolesChange(m) ==
  /\ m \in member /\ Turn
  /\ \E R \in SUBSET GuildRoles : R # held[m] /\ held' = [held EXCEPT ![m] = R]
  /\ UNCHANGED member

onGuildMemberAdd(h, m) ==
  /\ here /\ MemberJoins(m)
  /\ Event(h, "snapshot", TRUE, Only(m, {}))
  /\ UNCHANGED <<here, online, autorole, snaps>>

onGuildMemberRemove(h, m) ==
  /\ here /\ MemberLeaves(m)
  /\ Event(h, "pop", FALSE, Only(m, {}))
  /\ UNCHANGED <<here, online, autorole, snaps>>

onGuildMemberUpdate(h, m) ==
  /\ here /\ RolesChange(m)
  /\ Event(h, "snapshot", FALSE, Only(m, held'[m]))
  /\ UNCHANGED <<here, online, autorole, snaps>>

\* The bot is not in the guild, or not connected.
Unseen(m) ==
  /\ ~here \/ ~online
  /\ MemberJoins(m) \/ MemberLeaves(m) \/ RolesChange(m)
  /\ raced' = raced \cup {x \in {m} : here}
  /\ UNCHANGED <<here, online, autorole, snaps, hand>>

\* The bot is removed while it is not connected, and never told.
RemovedUnseen ==
  /\ here /\ ~online
  /\ here' = FALSE /\ raced' = Members
  /\ UNCHANGED <<online, member, held, autorole, snaps, hand, turns>>

\* The connection is lost, or the process ends and its memory is.
Disconnect ==
  /\ online /\ Turn
  /\ online' = FALSE
  /\ UNCHANGED <<here, member, held, autorole, snaps, hand, raced>>

Crash ==
  /\ online /\ Turn
  /\ online' = FALSE
  /\ snaps' = [m \in Members |-> NoSnap] /\ hand' = [h \in Hands |-> Rest] /\ raced' = {}
  /\ UNCHANGED <<here, member, held, autorole>>

Connect(h) ==
  /\ ~online /\ online' = TRUE
  /\ hand[h] = Rest
  /\ hand' = [hand EXCEPT ![h] =
       IF here THEN [step |-> "snapshot", add |-> FALSE, about |-> Carrying(held)] ELSE Rest]
  /\ raced' = IF here THEN (raced \ member) \cup {m \in member : Pending(m)} ELSE raced
  /\ UNCHANGED <<here, member, held, autorole, snaps, turns>>

-----------------------------------------------------------------------------
(* Handlers                                                                *)

\* SnapshotMember, which SnapshotGuild calls for one member after the other.  A
\* join goes on with its roles.
SnapshotMember(h) == LET about == hand[h].about IN
  /\ hand[h].step = "snapshot"
  /\ \E m \in DOMAIN about :
       /\ snaps' = [snaps EXCEPT ![m] = about[m]]
       /\ hand' = [hand EXCEPT ![h] =
            IF hand[h].add
            THEN [step |-> "autorole", who |-> m,
                  todo |-> autorole[IF m \in Bots THEN "bot" ELSE "human"]]
            ELSE [step |-> "snapshot", add |-> FALSE,
                  about |-> [x \in DOMAIN about \ {m} |-> about[x]]]]
  /\ UNCHANGED <<here, online, member, held, autorole, turns, raced>>

\* Every member of the event has been stored.
SnapshotGuild(h) ==
  /\ hand[h].step = "snapshot" /\ DOMAIN hand[h].about = {}
  /\ hand' = [hand EXCEPT ![h] = Rest]
  /\ UNCHANGED <<here, online, member, held, autorole, snaps, turns, raced>>

\* Wrong variant: the snapshot is read and stays.
Read(m) == snaps

Popped(m) == [snaps EXCEPT ![m] = NoSnap]

\* onGuildMemberRemove.
PopMember(h) ==
  /\ hand[h].step = "pop"
  /\ \E m \in DOMAIN hand[h].about : snaps' = Popped(m)
  /\ hand' = [hand EXCEPT ![h] = Rest]
  /\ UNCHANGED <<here, online, member, held, autorole, turns, raced>>

\* onGuildDelete.
Forget(h) ==
  /\ hand[h].step = "forget"
  /\ snaps' = [m \in Members |-> NoSnap]
  /\ hand' = [hand EXCEPT ![h] = Rest]
  /\ UNCHANGED <<here, online, member, held, autorole, turns, raced>>

\* applyAutorole adds its roles one by one and goes on when one fails.  A role
\* added is a member event like any other.
applyAutorole(h, g) ==
  /\ hand[h].step = "autorole" /\ hand[h].todo # {}
  /\ \E r \in hand[h].todo :
       LET m == hand[h].who
           rest == [hand EXCEPT ![h] =
                     [step |-> "autorole", who |-> m, todo |-> hand[h].todo \ {r}]] IN
       \/ hand' = rest /\ UNCHANGED <<held, raced>>
       \/ /\ here /\ online /\ m \in member /\ r \notin held[m]
          /\ hand[g] = Rest
          /\ held' = [held EXCEPT ![m] = @ \cup {r}]
          /\ hand' = [rest EXCEPT ![g] =
               [step |-> "snapshot", add |-> FALSE, about |-> Only(m, held'[m])]]
          /\ raced' = (raced \ {m}) \cup {x \in {m} : Pending(m)}
  /\ UNCHANGED <<here, online, member, autorole, snaps, turns>>

Done(h) ==
  /\ hand[h].step = "autorole" /\ hand[h].todo = {}
  /\ hand' = [hand EXCEPT ![h] = Rest]
  /\ UNCHANGED <<here, online, member, held, autorole, snaps, turns, raced>>

Next ==
  \/ \E m \in Members :
       \/ Unseen(m)
       \/ \E h \in Hands :
            onGuildMemberAdd(h, m) \/ onGuildMemberRemove(h, m) \/ onGuildMemberUpdate(h, m)
  \/ RemovedUnseen \/ Disconnect \/ Crash
  \/ \E h \in Hands :
       \/ BotJoins(h) \/ BotLeaves(h) \/ Connect(h)
       \/ SnapshotMember(h) \/ SnapshotGuild(h) \/ PopMember(h) \/ Forget(h) \/ Done(h)
       \/ \E g \in Hands : applyAutorole(h, g)

Spec == Init /\ [][Next]_memberVars

-----------------------------------------------------------------------------
(* Properties                                                              *)

\* Once the handlers are done, the tracker has the roles of exactly the members
\* of the guild, so that a leave is reported with the roles the member had and
\* nothing is kept of those who are gone, except for members whose last event
\* was missed or overtook an earlier one; a crash, a reconnect or the bot's own
\* leaving costs nothing more.
SnapshotsTrue ==
  (online /\ \A h \in Hands : hand[h] = Rest) =>
    \A m \in Members \ raced :
      snaps[m] = IF here /\ m \in member THEN held[m] ELSE NoSnap
=============================================================================
