---------------------------- MODULE GuildLifecycle ----------------------------
(***************************************************************************)
(* One guild from the bot's joining to its leaving: the guild's row, the   *)
(* log category and channels that GuildCreate and /setup modlogs provision *)
(* (guildsetup.EnsureLogInfrastructure), the override of one event type    *)
(* and the channel modlog.Logger resolves for it.  Gateway events and      *)
(* commands run concurrently (Runs); each query and request is a step.     *)
(* Prime, SnapshotGuild and Forget of the same handlers are modelled in    *)
(* InviteTracker and MemberEvents; guilds.embed_color in ColorCache.       *)
(***************************************************************************)
EXTENDS Naturals, FiniteSets

CONSTANTS
  Runs,                                       \* running handlers
  MaxStays, MaxSetups, MaxReplays, MaxMishaps \* bounds

LogChannelNames == {"general-log", "user-log", "message-log", "warn-log", "kick-log", "ban-log"}
Idle == [step |-> "idle"]

VARIABLES
  inGuild, up,   \* the bot is in the guild; the process runs and is connected
  known,         \* the guild has a row
  logs,          \* the log channels in it
  override,      \* the event's row in modlog_overrides: none, default, channel or off
  event,         \* the event type followed
  run,           \* what each handler is at
  categories,    \* "Specter Logs" categories made in this stay
  stays, setups, replays, mishaps,  \* bounds
  calm,          \* history: since the guild had no row, nothing failed or crashed and the
                 \* bot came and went only while no handler was at work
  overlapped,    \* history: two provisionings of this stay were at work at once
  mended         \* history: a /setup modlogs of this stay succeeded, alone

guildVars == <<inGuild, up, known, logs, override, event, run, categories, stays, setups,
               replays, mishaps, calm, overlapped, mended>>
hist == <<calm, overlapped, mended>>
bounds == <<stays, setups, replays>>

Init ==
  /\ inGuild = FALSE /\ up = TRUE /\ known = FALSE /\ logs = {} /\ override = "none"
  /\ event \in {"member_join", "message_edit", "automod", "kick", "unban", "voice_state"}
  /\ run = [r \in Runs |-> Idle]
  /\ categories = 0 /\ stays = 0 /\ setups = 0 /\ replays = 0 /\ mishaps = 0
  /\ calm = TRUE /\ overlapped = FALSE /\ mended = FALSE

Busy == {r \in Runs : run[r].step # "idle"}
Provisioning(r) == run[r].step \in {"check", "category", "channels", "save"}

\* Handlers that another one's run spoils are marked.
Start(r, step) ==
  run' = [x \in Runs |->
    IF x = r THEN [step |-> step, setup |-> step = "infra", alone |-> Busy = {}, made |-> {}]
    ELSE IF x \in Busy THEN [run[x] EXCEPT !.alone = FALSE] ELSE run[x]]

GoTo(r, step) == run' = [run EXCEPT ![r].step = step]
Finish(r)     == run' = [run EXCEPT ![r] = Idle]

-----------------------------------------------------------------------------
(* The gateway                                                             *)

\* GuildCreate of a new guild.
Join(r) ==
  /\ up /\ ~inGuild /\ run[r] = Idle /\ stays < MaxStays
  /\ inGuild' = TRUE /\ stays' = stays + 1
  /\ categories' = 0 /\ overlapped' = FALSE /\ mended' = FALSE
  /\ calm' = (calm /\ Busy = {})
  /\ Start(r, "ensure")
  /\ UNCHANGED <<up, known, logs, override, event, setups, replays, mishaps>>

\* GuildDelete; one that is only an outage changes nothing.
Leave(r) ==
  /\ up /\ inGuild /\ run[r] = Idle
  /\ inGuild' = FALSE /\ mended' = FALSE
  /\ calm' = (calm /\ Busy = {})
  /\ Start(r, "remove")
  /\ UNCHANGED <<up, known, logs, override, event, categories, bounds, mishaps, overlapped>>

\* GuildCreate again, after a reconnect or an outage.
Replay(r) ==
  /\ up /\ inGuild /\ run[r] = Idle /\ replays < MaxReplays
  /\ replays' = replays + 1
  /\ Start(r, "ensure")
  /\ UNCHANGED <<inGuild, up, known, logs, override, event, categories, stays, setups, mishaps, hist>>

Mishap == mishaps < MaxMishaps /\ mishaps' = mishaps + 1

Crash ==
  /\ up /\ Mishap
  /\ up' = FALSE
  /\ run' = [r \in Runs |-> Idle]
  /\ calm' = (calm /\ Busy = {})
  /\ UNCHANGED <<inGuild, known, logs, override, event, categories, bounds, overlapped, mended>>

\* The bot is removed while it cannot see it: the row stays.
LeaveUnseen ==
  /\ ~up /\ inGuild
  /\ inGuild' = FALSE /\ calm' = FALSE /\ mended' = FALSE
  /\ UNCHANGED <<up, known, logs, override, event, run, categories, bounds, mishaps, overlapped>>

\* Every guild's GuildCreate follows.
Restart(r) ==
  /\ ~up
  /\ up' = TRUE
  /\ IF inGuild THEN Start(r, "ensure") ELSE UNCHANGED run
  /\ UNCHANGED <<inGuild, known, logs, override, event, categories, bounds, mishaps, hist>>

-----------------------------------------------------------------------------
(* Commands and pages                                                      *)

setupModlogs(r) ==
  /\ up /\ inGuild /\ run[r] = Idle /\ setups < MaxSetups
  /\ setups' = setups + 1
  /\ Start(r, "infra")
  /\ UNCHANGED <<inGuild, up, known, logs, override, event, categories, stays, replays, mishaps, hist>>

\* /modlogs, and the page of the dashboard for each of its event types.
SetOverride ==
  /\ up /\ inGuild
  /\ override' \in {"default", "channel", "off"} \ {override}
  /\ calm' = (calm /\ run = [r \in Runs |-> Idle])
  /\ UNCHANGED <<inGuild, up, known, logs, event, run, categories, bounds, mishaps, overlapped, mended>>

ChannelField ==
  CASE event \in {"member_join", "member_leave", "member_update"} -> "user-log"
    [] event \in {"message_delete", "message_edit"} -> "message-log"
    [] event \in {"warn", "timeout", "automod"} -> "warn-log"
    [] event = "kick" -> "kick-log"
    [] event \in {"ban", "unban"} -> "ban-log"
    [] OTHER -> "general-log"

\* Whether an event has a channel to be logged in.
ResolveChannel ==
  \/ override = "channel"
  \/ override # "off" /\ known /\ ChannelField \in logs

-----------------------------------------------------------------------------
(* onGuildCreate and setupModlogs                                          *)

\* A query fails: the handler returns.
Fails(r) ==
  /\ run[r].step \in {"ensure", "infra", "check", "save", "remove"}
  /\ Mishap
  /\ calm' = FALSE
  /\ Finish(r)
  /\ UNCHANGED <<inGuild, up, known, logs, override, event, categories, bounds, overlapped, mended>>

\* EnsureGuild makes the row, with no log channels, and tells whether it did.
EnsureGuild(r) ==
  /\ run[r].step \in {"ensure", "infra"}
  /\ known' = TRUE
  /\ CASE run[r].step = "infra" -> GoTo(r, "check")
       [] run[r].step = "ensure" /\ ~known -> GoTo(r, "infra")
       [] OTHER -> Finish(r)
  /\ overlapped' = (overlapped \/ (run[r].step = "infra" /\ \E x \in Busy : Provisioning(x)))
  /\ UNCHANGED <<inGuild, up, logs, override, event, categories, bounds, mishaps, calm, mended>>

\* Wrong variant: the early return is missing.
ProvisionedNever == FALSE

\* Wrong variant: a guild with a row counts as provisioned.
ProvisionedByRow == known

Provisioned == known /\ "general-log" \in logs

\* EnsureLogInfrastructure reads the row; without one it fails.
CheckLogs(r) ==
  /\ run[r].step = "check"
  /\ IF Provisioned \/ ~known THEN Finish(r) ELSE GoTo(r, "category")
  /\ mended' = (mended \/ (Provisioned /\ run[r].setup /\ run[r].alone))
  /\ UNCHANGED <<inGuild, up, known, logs, override, event, categories, bounds, mishaps,
                 calm, overlapped>>

\* The category; one that cannot be made is reported, and the channels are made
\* without it.
CreateCategory(r) ==
  /\ run[r].step = "category"
  /\ \/ inGuild /\ categories' = categories + 1 /\ UNCHANGED <<mishaps, calm>>
     \/ inGuild /\ Mishap /\ calm' = FALSE /\ UNCHANGED categories
     \/ ~inGuild /\ UNCHANGED <<mishaps, calm, categories>>
  /\ GoTo(r, "channels")
  /\ UNCHANGED <<inGuild, up, known, logs, override, event, bounds, overlapped, mended>>

\* The channels, each of which may fail.
CreateChannels(r) ==
  /\ run[r].step = "channels"
  /\ \E failed \in IF inGuild THEN {{}} \cup {{n} : n \in LogChannelNames} ELSE {LogChannelNames} :
       /\ run' = [run EXCEPT ![r].step = "save", ![r].made = LogChannelNames \ failed]
       /\ IF inGuild /\ failed # {} THEN Mishap /\ calm' = FALSE ELSE UNCHANGED <<mishaps, calm>>
  /\ UNCHANGED <<inGuild, up, known, logs, override, event, categories, bounds, overlapped, mended>>

\* SetLogChannels updates the row, if there still is one.
SetLogChannels(r) ==
  /\ run[r].step = "save"
  /\ logs' = IF known THEN run[r].made ELSE logs
  /\ mended' =
       (mended \/ (known /\ "general-log" \in run[r].made /\ run[r].setup /\ run[r].alone))
  /\ Finish(r)
  /\ UNCHANGED <<inGuild, up, known, override, event, categories, bounds, mishaps, calm, overlapped>>

\* Wrong variant: the overrides stay.
KeptOverrides == override

Overrides == "none"

\* onGuildDelete: one transaction deletes every row of the guild.
DeleteGuild(r) ==
  /\ run[r].step = "remove"
  /\ known' = FALSE /\ logs' = {} /\ override' = Overrides
  /\ calm' = (calm \/ (Busy = {r} /\ ~inGuild))
  /\ Finish(r)
  /\ UNCHANGED <<inGuild, up, event, categories, bounds, mishaps, overlapped, mended>>

Next ==
  \/ Crash \/ LeaveUnseen \/ SetOverride
  \/ \E r \in Runs :
       \/ Join(r) \/ Leave(r) \/ Replay(r) \/ Restart(r) \/ setupModlogs(r)
       \/ Fails(r) \/ EnsureGuild(r) \/ CheckLogs(r) \/ CreateCategory(r)
       \/ CreateChannels(r) \/ SetLogChannels(r) \/ DeleteGuild(r)

Spec == Init /\ [][Next]_guildVars

-----------------------------------------------------------------------------
(* Properties                                                              *)

\* Provisioning may be asked for any number of times: a guild gets one category
\* a stay, unless two provisionings overlap or one of them fails or crashes.
OneCategory == inGuild /\ calm /\ ~overlapped => categories <= 1

\* Once the handlers are done, a guild the bot came to in peace logs every event
\* that was not switched off; one that it left has nothing in the database.
LogsRouted ==
  calm /\ Busy = {} =>
    IF inGuild THEN ResolveChannel <=> override # "off"
    ELSE ~known /\ override = "none"

\* A /setup modlogs that ran alone to its end has given the guild its general
\* log, whatever crash or failure had interrupted the provisioning before.
SetupRepairs == mended => known /\ "general-log" \in logs
=============================================================================
