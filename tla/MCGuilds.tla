------------------------------ MODULE MCGuilds -------------------------------
(* What is kept of a guild, for TLC: the invites, the provisioning, the    *)
(* member snapshots and the configuration rows.  The four share no state,  *)
(* so one of them runs and the others keep an initial one.                 *)
EXTENDS MCInviteTracker

CONSTANTS
  Runs, MaxStays, MaxSetups, MaxReplays, MaxMishaps,
  Members, Bots, GuildRoles, NoSnap, Hands, MaxTurns,
  Editors, Channels, RoleIds, Unset, Same, Numbers, MaxEdits, MaxRefusals,
  g1, g2, h1, h2, t1

VARIABLES
  running,
  botInGuild, up, known, logs, override, event, run, categories, stays, setups, replays,
  mishaps, peaceful, overlapped, mended,
  here, online, member, held, autorole, snaps, hand, turns, raced,
  kind, row, editor, edits, refusals, since, touched, excused

\* What is typed into a number field is a number.
ASSUME ConfigAssumption == Numbers \subseteq Int

Life  == INSTANCE GuildLifecycle WITH inGuild <- botInGuild, calm <- peaceful
Snaps == INSTANCE MemberEvents
Conf  == INSTANCE ConfigPages

guildVars  == <<botInGuild, up, known, logs, override, event, run, categories, stays, setups,
                replays, mishaps, peaceful, overlapped, mended>>
memberVars == <<here, online, member, held, autorole, snaps, hand, turns, raced>>
confVars   == <<kind, row, editor, edits, refusals, since, touched, excused>>

MCInit ==
  /\ running \in {"invites", "lifecycle", "snapshots", "config"}
  /\ Init /\ Life!Init /\ Snaps!Init /\ Conf!Init
  /\ running # "invites" => live = {}
  /\ running # "lifecycle" => event = "kick"
  /\ running # "snapshots" => autorole = [k \in {"human", "bot"} |-> {}]
  /\ running # "config" => kind = "levels"

MCNext ==
  \/ running = "invites" /\ Next /\ UNCHANGED <<guildVars, memberVars, confVars, running>>
  \/ running = "lifecycle" /\ Life!Next /\ UNCHANGED <<vars, memberVars, confVars, running>>
  \/ running = "snapshots" /\ Snaps!Next /\ UNCHANGED <<vars, guildVars, confVars, running>>
  \/ running = "config" /\ Conf!Next /\ UNCHANGED <<vars, guildVars, memberVars, running>>

MCSpec == MCInit /\ [][MCNext]_<<vars, guildVars, memberVars, confVars, running>>

GuildsSymmetry == MCSymmetry \cup Permutations(Runs) \cup Permutations(Hands)

\* GuildLifecycle!OneCategory, LogsRouted and SetupRepairs, MemberEvents!SnapshotsTrue,
\* ConfigPages!RowValid and OnlyNamedOrRaced.
OneCategory      == Life!OneCategory
LogsRouted       == Life!LogsRouted
SetupRepairs     == Life!SetupRepairs
SnapshotsTrue    == Snaps!SnapshotsTrue
RowValid         == Conf!RowValid
OnlyNamedOrRaced == Conf!OnlyNamedOrRaced
=============================================================================
