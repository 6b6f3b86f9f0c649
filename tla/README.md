# A TLA+ model of Specter

Specter (`src/`) is a Discord bot: one Go process with a gateway session
(discordgo), a PostgreSQL database, a Lavalink node for audio and a web
dashboard. This directory models the parts of it that keep state and are
called concurrently, checks them with TLC on small instances, and proves the
most important facts with TLAPS for every size.

Everything here is translated from the code. What the code uses but does not
contain (Discord, the gateway, Lavalink, PostgreSQL, the Go scheduler) is
modelled from how the code uses it and is marked external in `PROJECT.json`,
which also lists, definition by definition, the lines each one stands for.

## 1. Inventory

discordgo starts a goroutine per gateway event, the HTTP server one per
request. Hence almost every handler of the bot may run beside any other, and
beside itself. A handler is a sequence of queries, Discord calls and short
critical sections; what it read before one of them may be stale after it. That
is where the difficulty of this code lies, and what the modules are about.

| Component | State | Operations | Interacts with | Hard behaviour | What makes it correct |
|---|---|---|---|---|---|
| **Music** `internal/music` | per guild: queue, current track, registration in a `sync.Map`; Lavalink's player | Add, Skip, Stop, RemoveByID, MoveByID, Pause, Resume, Leave, Shutdown, Lavalink events | slash commands, dashboard, disgolink listener, voice gateway | updates sent after the unlock; end events that race with Skip; Leave racing with Add; failed updates | an entry is in one place, is started once, keeps its place; no track is stranded; `current` is what plays |
| **Message log** `internal/modlog/cache.go`, `internal/events/message.go` | messages by ID and an eviction order per channel | Put, Get; create, update, delete handlers | gateway, log channels | Get and Put are two critical sections; events out of order; eviction | bounded; no edit swallowed; recent messages kept |
| **Message pipeline** `internal/events/message.go`, `internal/automod` | the AFK row; spam windows in memory | AFK greeting, Evaluate, deletion and punishment, collection of old windows | message handler, `/afk`, moderation | two messages read the status at once; window arithmetic; collection at 60 s | one welcome per absence; a window loses no message |
| **Invite attribution** `internal/invites` | baseline of use counts per guild; member snapshots | Prime, ResolveJoin, AddInvite, RemoveInvite, Forget, SnapshotMember, PopMember | gateway, Discord's invite list | the list is fetched before the lock; the map is compared after it; events overtake each other | a join goes to the invite it came through; snapshots are the members'; no data race |
| **Levels** `internal/levels` | `levels`, `level_rewards`, `level_config` | HandleMessage, reward roles, `/setlevel`, `/levelrole`, dashboard pages | gateway, Discord roles | read, compute, write without a transaction; failing queries | XP is conserved; level matches XP; rewards match level; cooldown holds |
| **Join-to-create** `internal/voice` | `jtc_config`, `jtc_channels`; discordgo's voice-state cache | HandleVoiceUpdate, CleanupStale; `/voice` | gateway, Discord channels | create, move, record are three calls; the cache lags; restarts | empty rooms go, other channels stay, records match rooms |
| **Starboard** `internal/starboard` | `starboard_config`, `starboard_messages`; the posts | sync on every reaction | gateway, Discord messages | overlapping syncs; most errors ignored | one post, showing the count |
| **Reaction roles** `internal/reactionroles` | menus and entries in the database; the menu's message | reaction add and remove in four modes; the subcommands that make and change a menu | gateway, Discord roles | unique mode reads roles, then removes them one by one | the menu's type decides the roles; message and rows agree |
| **Guild lifecycle** `internal/guildsetup`, `internal/events/guild.go`, `internal/modlog` | `guilds` and its children; log channels; overrides | guild create and delete, provisioning, channel resolution | invites, mod log | check then create; crash between row and channels | provisioned once; every event has its channel; nothing left behind |
| **Members** `internal/events/member.go` | member snapshots; the autorole lists | join, leave, update, autorole | invites, gateway | a role given raises an event of its own; a leave overtakes a join | snapshots match the guild |
| **Dashboard** `internal/dashboard` | sessions, guild-list cache, every configuration row | login, logout, pages that read, change and write a row | browser, database, Discord | cache re-filled after logout; late fetches; lost updates | no permission outlives its list; no cached list outlives logout; rows stay valid |
| **Access control** `internal/access` | rules per guild | Check, save | router | rules that cannot be read | precedence of deny and allow |
| **Embed colour cache** `internal/embed` | colour per guild | lookup, Invalidate | every reply | database read outside the lock | a colour saved is a colour shown |
| **Moderation** `internal/commands/moderation` | `mod_actions`, `warnings`; channel overwrites | ban, kick, timeout, warn, massban, unban, clear; lock, unlock | Discord, rapsheet | act and entry are two steps; clearing is two deletions; an overwrite is read and written whole | the rapsheet says what was done; a lock changes one bit |
| **Bot, router, config, DB, fun and utility commands** | none of their own | start, stop, dispatch | everything | shutdown order, retry of Lavalink | clean start and stop |

The hazards these components are exposed to are listed with their lines in
`PROJECT.json`.

## 2. Plan

Most important first: state that several goroutines change, then persistent
state that handlers change in several statements, then pure decisions.

1. *Done* - every component of section 1 that keeps state, with a theorem for
   every safety property a run checks.
2. *Next modules* - volume and the state page of music; exempt channels of
   levels; the room's name and limit; `/clear` and `/slowmode`.
3. *Next compositions* - the bot's leaving across the tracker and the rows in
   one module (`onGuildDelete` forgets and deletes one after the other, beside
   a `GuildCreate` that primes and makes them); the session check in front of a configuration page whose
   editor loses the permission.
4. *Next abstractions* - what the invites, the levels and join-to-create promise,
   as specifications of their own that the modules implement, as `TrackLifecycle`
   is for music; then the refinements proved.

## 3. Modules

| Module | What it is |
|---|---|
| `MusicPlayer` | the music manager, its guild player and Lavalink, for one guild |
| `TrackLifecycle` | what music promises about a queue entry; implemented by `MusicPlayer` |
| `MessageLog` | message cache, create and update handlers |
| `MessagePipeline` | AFK and automod for the messages of one member in one channel |
| `InviteTracker` | baselines, joins and invite events, for one guild |
| `MemberEvents` | member snapshots and autorole, for one guild |
| `GuildLifecycle` | the guild's row, its log channels, `/setup modlogs`, channel resolution |
| `ConfigPages` | the configuration rows and everything that edits one |
| `LevelEngine` | XP, level and reward roles of one member |
| `JoinToCreate` | rooms, voice events, state cache and records, for one guild |
| `ChannelLocks` | `/lock`, `/unlock` and the owner commands of `/voice`, for one channel |
| `Moderation` | the gate, the commands against one member, and the rapsheet |
| `Starboard` | one message, its stars, posts and entry |
| `ReactionRoles` | one menu and the roles of one member |
| `Dashboard` | sessions and the cache of manageable guilds, for one user |
| `ColorCache` | the accent colour of one guild |
| `MusicPlayerProofs` | theorems about `MusicPlayer` |
| `CacheProofs` | theorems about `MessageLog`, `ColorCache` and `Dashboard` |
| `LevelProofs` | theorems about `LevelEngine` and `MessagePipeline` |
| `StarboardProofs` | theorems about `Starboard` and `ReactionRoles` |
| `InviteProofs` | theorems about `InviteTracker` |
| `GuildProofs` | theorems about `GuildLifecycle`, `MemberEvents` and `ConfigPages` |
| `CommandProofs` | theorems about `JoinToCreate`, `ChannelLocks` and `Moderation` |
| `QueueLemmas` | lemmas about sequences |
| `MCMusicPlayer`, `MCMessageLog`, `MCInviteTracker`, `MCLevelEngine`, `MCJoinToCreate`, `MCStarboard` | constants and symmetry for TLC |
| `MCCaches`, `MCGuilds`, `MCMessages`, `MCCommands`, `MCReactions` | the instances of related components for TLC |

No component calls another one of these while holding state, so the modules
are independent: what they share is Discord, of which each models its part.
The five modules of the last row put the modules of related components side by
side, for a run each. Since these share no variable, their interleavings say
nothing new; `running` picks the one whose steps are taken, and the others
keep one initial state. The states of such a run are the sum, not the product,
of the components'.

Conventions: `pc[w]` (or the field `step`) is what goroutine `w` does next; the
other variables indexed by a goroutine are its locals and are reset when it
returns. One action is one query, one Discord or Lavalink call, or one critical
section. History variables are named as such; no guard reads them. Operators
marked "Wrong variant" stand before the definition they vary; no specification
uses them. They record which bug each property would catch.

### MusicPlayer

`registered` is the guild's entry in `Manager.players`, `queue` and `current`
the fields of a `GuildPlayer` (there may be several, since a handler keeps a
pointer to one that is no longer registered: `hold`). `playing`, `paused` and
`ended` are Lavalink's. Handlers change the queue under the lock and enter
`"start"` or `"update"` with the track in `pending`; `SendUpdate` sends it,
in any order relative to the others. Pause and Resume look at the current track
(`CheckPaused`) and send their update later (`SetPaused`). `DeliverEnd` and `Advance` are the
listener's: the code advances whatever track the event was about, and so does
the model. A player already in the map is found, or a new one made, together
with the check that the link is open (`BeginAdd`): nothing can be observed
between the two. A failed update may or may not have reached Lavalink. Leave
and Shutdown are three steps each, so that a call may come between the map, the
queue and the Lavalink player.

### MessageLog

`byID` and `order` are the two maps of `MessageCache`. `Put` is the code's,
with its repeated `append`. A message is its text and its number of
attachments. `sent` is what Discord sends; updates carry any state, in any
order, before or after the create, or for messages older than the bot.

### MessagePipeline

A message goes through `ReadAFK`, `ClearAFK`, `LoadAutomod`, `RecordSpam`,
`DeleteMessage` and `Punish`, as `onMessageCreate` and `Evaluate` do; the XP is
`LevelEngine`'s. What a message says is a record: whether it has an invite, the
hosts it links to, its letters and capitals, its words. `spam` is the checker's
list of times for the key, as how many messages it holds of each time: the rule
counts and drops by time and never looks at the order. A message is counted with
the clock its goroutine read *before* the lock (`handler[t].at`), so it may come
after later ones. `heard` is the list nothing is ever dropped from. Times count
intervals of the collector.

### InviteTracker and MemberEvents

`invites` is the guild's map; `Absent` a missing key. `ResolveJoin` is
`Fetch` (no lock), `SwapBaseline` (lock) and `Compare` (no lock). After the
swap the map being compared *is* the baseline; `owner` says whose, and
`WriteShared` writes both. Comparing and writing at once is a data race: the
comparison may see the write, or not, or the runtime stops the process
(`Abort`). `calm` marks a join that nothing disturbed and whose baseline was
accurate when it happened.

`MemberEvents` has the other map under the same lock: `snaps`. An event carries
the members it is about with their roles (`hand[h].about`), and is handled
later, by `SnapshotMember` (one member at a time, also for a whole guild:
`SnapshotGuild`), `PopMember` or `Forget`. `applyAutorole` gives a
joining member its roles one by one; each is a member event, with a handler of
its own. `raced` names the members whose last event was missed or came while
an earlier one was under way.

### GuildLifecycle

`known` is the guild's row, `logs` the channels in it, `override` the row of
one event type, `ResolveChannel` what the logger makes of the three.
`onGuildCreate` is `EnsureGuild`, which provisions only if it made the row;
`/setup modlogs` always does. Provisioning is `CheckLogs`, `CreateCategory`,
`CreateChannels`, `SetLogChannels`, for whichever handler is at it. `Crash` and
`Restart` lose every handler and replay the guild's create event; the bot may
be removed while it is away (`LeaveUnseen`). `alone` is carried by a handler
that no other one has run beside.

### ConfigPages

One row, of any of seven tables, and the handlers that edit it: `Load` reads
the row or the query's default, `Save` puts a form into that copy, validates
and writes it whole. The operator named after a handler is the set of forms it
may send, with the clamping and omissions it makes: a form has every field of
the row, `Same` where the editor does not name it. `Forms` collects them by
table. `since` are the fields others changed after an editor's read.

### LevelEngine

`row` is the member's row, `NoRow` if there is none. `CheckCooldown` and
`Award` are the two reads, `AddXP` the `INSERT ... ON CONFLICT` that adds the
XP as a delta but sets the level to what the caller computed. The second read
ignores errors, so `Award` may read zero. `ListRewards`, `GrantRole` and
`RevokeRole` are `applyLevelRewards`, working on the roles the message came
with. `sum` and `base` are what has been awarded and overridden.

### JoinToCreate and ChannelLocks

`where` is Discord's truth, `seen` discordgo's cache, `gateway` the events
between them. `Restart` kills every goroutine and lists the records for
`CleanupStale`, which then runs beside the new handlers. A failure may happen
to any call.

In `ChannelLocks`, `everyone` is the overwrite of @everyone (its Send Messages
and Connect bits), `cached` what discordgo's state cache has of it and `news`
the events the session has yet to hear (`Hear`); `personal` is the Connect bit of
the members' own. A command reads the overwrite and writes it whole (`setLock`),
with one bit changed: `/lock` and `/unlock` Send Messages, and after
`ownedChannel` `/voice lock` Connect. Where it reads differs: Discord (`Fetch`),
or, when `/lock` names a channel, the state cache, then Discord, and after a
failed request nothing at all (`FetchNamed`). `MayConnect` lets administrators
past every overwrite, as Discord does. A rejection is two requests, in
`Rejection`'s order.

### Moderation

A command is `Check` (the gate), `CanActOn` where the command compares ranks
(with the owner, who is not compared, among the moderators),
`Act` (Discord, or the insert of a warning) and `recordAndLog`. Which command
compares ranks is a field of it: ban, kick and timeout do, massban and unban do
not. `Clear` is the two deletions of a confirmed clear, in `Order`'s order.
`done` is what was done since the entries were last deleted.

### Starboard and ReactionRoles

`sync` is `Dispatch` (configuration), `CountStars`, `ReadEntry`, then post,
edit or delete, then the entry. Ignored errors go on, checked ones `GiveUp`.
`shown` is the count each post shows. `Strays` are the posts the entry does not
name, `strays` those there were when a sync that is alone began.

A reaction is `LookupMenu`, `LookupEntry`, then by the menu's mode `ListOthers`
and `StripRole` for each entry, which spares the role being given (`Spared`),
`CheckRole` where it is needed, `ChangeRole`. The
commands are `Create`, `AddEntry`, `Delete` and `Edit` with the queries and
requests that follow each.

### Dashboard and ColorCache

A request is `requireSession`, then `lookupGuilds` (under the lock: the cached
list or a fetch), `fetchManageableGuilds`, `storeGuilds`, and `requireGuildAdmin`
for a page of the administrators. The pages of the music player pass
`requireGuildMember` instead and then ask for the same list, to see whether the
member is a manager (`musicPerms`); one that controls the player asks a second
time, for the state it answers with (`Serve`). A fetch that
passes its deadline has failed, so `Tick` waits for it. `Logout` deletes the
row, ignoring the error, and `forgetGuilds` drops the list. `LookupAhead` says
which requests may still ask for it.

`ColorCache` has `guildColor` in three steps (`Lookup`, `Read`, `Store`) and
`/setup color` in two (`Save`, `Invalidate`). `stale` marks a store after an
Invalidate that its read preceded, the one way to keep an old colour.

## 4. Runs

| Run | Checks | Result |
|---|---|---|
| `music_safety` | `TypeOK`, `EntriesDistinct`, `StartedOnce`, `OrderKept`, `Lifecycle` | hold, 670 000 states |
| `music_liveness` | `EveryTrackLeaves` | holds, 700 000 states |
| `music_tracks` | `TracksWhatPlays` | **violated** |
| `message_log` | messages: `TypeOK`, `CacheBounded`, `EveryEditReported`; colours: `ColorFresh`; dashboard: `AdminRecent`, `ForgottenAtLogout` | hold, 3.4 M states |
| `message_eviction` | `KeptUpToCap` | **violated** |
| `invite_safety` | invites: `CalmJoinAttributed`, `NeverAhead`; provisioning: `OneCategory`, `LogsRouted`, `SetupRepairs`; members: `SnapshotsTrue`; configuration: `RowValid`, `OnlyNamedOrRaced` | hold, 2.1 M states |
| `invite_race` | `ConcurrencySafe` | **violated** |
| `levels` | levels: `TypeOK`, `XPConserved`, `LevelNotInflated`, `CalmLevelExact`, `CalmRewards`, `CalmCooldown`; pipeline: `OneWelcomeBack`, `SpamExact` | hold, 2.4 M states |
| `join_to_create` | rooms: `KnownRoomsDeleted`, `OthersKept`, `NoStaleRecords`, `RecordsKept`; locks: `NoUndueChange`, `RejectedOut`; moderation: `RapsheetTrue` | hold, 2.8 M states |
| `join_to_create_orphans` | `NoEmptyRooms` | **violated** |
| `starboard` | starboard: `CalmSyncHeals`, `OnePost`; reaction roles: `CalmOutcome`, `SomeRoleKept`, `MenuShown` | hold, 1.2 M states |
| `starboard_sync` | `InSync` | **violated** |

Every property of a passing run has a mutant of the code under which it fails.

### What the properties say

Most handlers of this code are sequences of calls that nothing serialises, so
that the plain statement ("the level matches the XP") is false, and the true
one names exactly what spoils it. Two forms recur.

- *Whatever happens* - holds under every interleaving, failure and crash in the
  model: `EntriesDistinct`, `XPConserved`, `NeverAhead`, `OneWelcomeBack`,
  `SpamExact`, `RowValid`, `AdminRecent`, `SetupRepairs`, `OthersKept`.
- *Unless* - a history variable says which races, failures or crashes are the
  excuse, as narrowly as possible. The `Calm...` properties excuse a handler
  that met a failure or another actor, and so say that one undisturbed handler
  repairs whatever was there before. (A sync of the starboard repairs row and
  post; a second post that an earlier race left, which the row does not name, it
  does not find: `CalmSyncHeals` says that it adds none.) `OnlyNamedOrRaced`,
  `NoUndueChange`,
  `ColorFresh`, `ForgottenAtLogout`, `SnapshotsTrue`, `LogsRouted`, `OneCategory`
  and `RapsheetTrue` excuse one particular overlap. `RapsheetTrue` says nothing
  of the warnings between the two deletions of a clearing. `RejectedOut` is about
  members that an overwrite can keep out, hence not about administrators, and
  about members who come on their own: a moderator may move anybody in.

### The five violations

Each states a sentence of the code's own comments that the code does not keep.

- **`music_tracks`** - `player.go:32-33`: "this type tracks what we asked it to
  play". Skip and Add (or advance) unlock and then send; the sends swap;
  `current` is one track, Lavalink plays another, or nothing.
  Leave breaks the sentence without any reordering, which TLC shows when `Ops`
  is add and leave alone: it takes the player out of the map and destroys the
  guild's Lavalink player two steps later, when that may be playing for the
  successor an Add has registered in between. The successor keeps its current
  track and no end event will come.
- **`message_eviction`** - `cache.go:51`: "evicting the oldest in the channel
  past the cap". Put appends the ID of an edited message again; the eviction of
  its first listing drops the fresh entry.
- **`invite_race`** - `tracker.go:4`: "concurrency-safe". The map that
  `ResolveJoin` ranges over after the unlock is the one AddInvite and
  RemoveInvite write.
- **`join_to_create_orphans`** - `jtc.go:28-29`: "deleting empty JTC channels on
  leave". The member leaves between the move and the insert, and the look-up
  finds no record; or it leaves before the move, which Discord then refuses, and
  the room is recorded with nobody in it (the trace TLC gives). Nobody looks at
  the room again until somebody happens to join and leave it.
- **`starboard_sync`** - `handler.go:1-3`: "keeping the entry's star count in
  sync". Two syncs overlap; the older count, or a second post, remains.

### Observations

What modelling showed beside them; each is part of the model as the code has it.

- `/lock` with a channel named that is not in the state cache and cannot be
  fetched goes on with a channel that has an ID and no overwrites, and writes over
  what Discord has, against the comment at `lock.go:27` ("Preserve existing
  overwrites for @everyone; only add the SendMessages deny"). A channel the cache
  has is read as it was when the session last heard of it; what changed since is
  undone too. `NoUndueChange` excuses both, by name.
- `autorole` has NOT NULL list columns, and the handlers start from nil lists:
  without a row every `/autorole` subcommand but an `add` of each list is
  refused by the database, and `add` names one list only, so the row can only
  be made on the dashboard, with both lists chosen.
- The access gate takes rules it cannot read for none, and components
  (buttons) do not pass it.
- `/massban` does not compare ranks. `/ban` and `/kick` tell the member before
  they act, also when the act then fails.
- `/warning remove` takes the ID only; both errors of a clear are ignored.
- Two posts of one message, once made (`starboard_sync`, or an edit that failed
  for another reason than that the post is gone), both stay: the row names one,
  and no sync looks for the other.
- A list of guilds cached by a request that was under way at the logout, which
  any page of the player may be, is never dropped.
- The state page of the player asks for the guild list twice in a request that
  controls it.
- A log channel other than the general one that could not be made is never
  made again: provisioning looks at the general one.
- `DeleteGuild` does not invalidate the cached colour.
- `/lock` and then `/unlock` loses an explicit allow of @everyone.
- `/voice reject` disconnects a member from whatever voice channel it is in.
- `ParseDuration` multiplies without a check for overflow, so a duration with
  enough digits may come out short or negative and pass `/timeout`'s limit of
  28 days.
- A spam window configured longer than the collector's 60 seconds loses
  messages; warnings by automod are not in the rapsheet.

### Bounds, and why they are enough

- *Music*: two callers and the listener, two players, batches of up to two.
  The safety run has four entries: the smallest number with which three tracks
  can wait behind a current one, so that removal from the middle and moves
  inward happen. Two players are one
  registered and one orphan. One undelivered event suffices for a late event to meet a Skip. Pause and resume change nothing the safety properties read
  (they only keep a track from ending) and are in the liveness run, where they
  matter; that run has three entries since it cannot use symmetry, and no
  removals, which only make tracks leave sooner.
- *Message log*: a cap of two with two messages and three updates makes a
  message listed twice and evicted; the violation needs no more. Two handlers
  are enough for one Get-Put pair to be cut by another.
- *Pipeline*: two goroutines, three messages, a retention of two intervals and
  a clock of three, so that a window of one or two slides past a message and a
  collection meets a late one; windows of 1 to 3, of which 3 exceeds the
  retention; one absence, one failure or change of configuration.
- *Invites*: two codes, one of them single-use, three uses, two goroutines: a
  join against one other join, invite event, priming or forgetting.
- *Members*: a human and a bot, one role, two handlers, five changes: join,
  leave and come back around a crash, with a role event between.
- *Provisioning*: two handlers, two stays, two `/setup modlogs`, one replay,
  and two failures or crashes: one to interrupt, one to meet the repair.
- *Configuration*: two editors and three edits: one to set, two to overlap;
  numbers 0 and 250 are below and above the limits of the numeric fields (the
  theorems are for all integers); one failure.
- *Levels*: two goroutines; gains of 100 and 300 reach levels 1 and 2 in one
  step or skip one; one override or configuration change; a clock of two ticks
  with a cooldown of one.
- *Join-to-create*: two members, two rooms, two handlers, four moves, one
  failure and one restart: two members leaving at once, a join into a room
  under deletion, and a crash between any two calls.
- *Locks*: two callers, one an administrator, and a guest; two commands, one edit by hand, one failure; a cache that
  is right, behind, or does not know the channel: a lock cut by an edit, by a
  lock or by a transfer.
- *Moderation*: two moderators, one an administrator; three commands, one
  failure or crash, one rule or change of rank: an act and its entry around
  both deletions of a clear.
- *Starboard*: two members, the author and a bot; thresholds 1 and 2; four
  reactions, one failure, hand deletion or configuration change; three posts.
- *Reaction roles*: two emojis and roles, two goroutines, three reactions or
  commands, one failure; a menu that exists or one that is made.
- *Dashboard*: two requests at once of five, one token; a session of 4, a list
  of 2 and a fetch of 1 on a clock of 5: a list expires within a session, a
  session within the run; one failure or change of the guild.
- *Colours*: three colours, one of them the default, two embeds and two
  commands at once, three changes, one failure.

Deadlock checking is off throughout: a bot that nobody talks to is idle, and
the bounds stop every behaviour in the end.

### Fairness

Only `music_liveness` states fairness: a goroutine that has started runs on
(Go's scheduler and the timeouts of each call), disgolink delivers the events
it has received, and Lavalink ends a track that is not paused. Nobody has to
issue a command. Calls do not fail in that run, because a failed update in
`advance` is only logged and does strand the queue; Skip and Stop are left
out for the same reason: their "stop" update can overtake a start
(`music_tracks`) and then no end event will come. The property excuses a
paused player. The other components promise nothing that must happen without
a new event: what their handlers leave behind once all have returned is stated
as safety ("quiet" in those properties).

## 5. Proofs

Every safety property that a passing run checks, invariant or action property,
is also a theorem, listed in `PROJECT.json`, and so is the refinement of
`TrackLifecycle`. All are checked by TLAPS, for any number of goroutines,
entries, players, messages, channels, roles, members, invites, moderators and
so on. Where components share a run, their proofs extend its MC module and are
about the instances in it (`Locks!Spec => []RejectedOut`), so that a theorem and
the run name the same formula. Whatever is called an invariant below is
inductive: it holds initially, every action keeps it, and it implies the
property; each proof has these three parts, the second with a step per action.

The assumptions on the constants are named where these are declared, and TLC
evaluates them in every run:

- `MusicAssumption`, `MessageAssumption`, `LevelAssumption`,
  `StarboardAssumption`, `InviteAssumption`, `JTCAssumption` in the modules;
  `ColorAssumption`, `DashboardAssumption`, `ConfigAssumption`,
  `PipelineAssumption`, `ModsAssumption`, `MenusAssumption` in the MC modules.
- They say that bounds and durations are natural numbers, that marks for
  "nothing" are no values, and what a configuration may hold. Finiteness is
  assumed where something is counted: of the fans of a message, the users of a
  guild and the moderators.

### Music (`MusicPlayerProofs`)

`Inductive`: the invariant is `TypeOK`, `EntriesDistinct` and `StartedOnce`
together. Neither of the last two is inductive alone: that a popped track was
never sent needs `StartedOnce` of the waiting ones, and that it is nowhere else
needs `EntriesDistinct`. `TypeOK` carries the facts about goroutines (one under
way holds a player that was made; only one that is about to send has an update
pending). Each action is first classified (`StepKinds`) as taking entries away,
sending, popping a head, starting a batch or queueing one; each kind is then
shown to preserve the invariants once. `NoEntryTwice`, `NoTrackSentTwice` and
`TypeCorrect` follow. `ImplementsLifecycle` maps the kinds to `Drop`, a stutter,
`Promote` and `Accept` of `TrackLifecycle`, and shows `Spec => Lifecycle`.

`OrderIsKept`: what a step leaves of a queue sits at positions that grow with
the old ones (`PositionsGrow`). It is shown for `Tail`, for taking a batch or
an entry out and for appending (`TailOrder` and its neighbours), then for every
action but `MoveByID`. It needs that no entry is listed twice, since otherwise
"the position of an entry" means nothing.

### Message log, colours, dashboard (`CacheProofs`)

- *Message log.* The invariant adds to `TypeOK` that the order is no longer than
  the cap and lists everything cached (`OrderInv`), and that every text in the
  cache, or found there by a handler, is one the message was sent or updated
  with (`SeenInv`). From it: `CacheStaysBounded`, and `NoEditSwallowed`: a text
  is only taken for a no-op if it was seen before, hence reported before.
- *Colours.* `ColorStaysFresh`: while no command is between its save and its
  Invalidate, what is cached and what is about to be cached is the guild's
  colour (`Coherent`).
- *Dashboard.* `LogoutForgets`: a token whose row is deleted has no list and no
  request past the session check, unless the request was already there
  (`SessionGone`): one past it that may still look the list up, fetch or store it
  (`LookupAhead`), which a page of the player may after it was served.
  `PermissionRecent`: a fetch is never older than its deadline,
  a list that grants the permission was fetched while it was held, and expires
  (`ListsRecent`); the age of what a page is opened with is the sum of both.

### Levels and the message pipeline (`LevelProofs`)

- *Any interleaving.* The invariant adds `ReadsBehind`: what a handler read is
  not ahead of the row, unless an override raced with it. With the monotonicity
  of `LevelForXP` (`LevelMonotone`) this gives `NeverInflated`; `NoXPLost`
  follows from the delta of `AddXP`.
- *A message handled alone.* `CalmState` says what such a handler has got right
  at each step: what the message came with still holds until it is used, the
  reads are the row, and the role changes left to make are exactly those that
  lack (`Ahead`). `CalmLevels`, `CalmRoles` and `CalmPace` are its last step.
- *Pipeline.* `WelcomedOnce` needs no more than the types, since `ClearAFK` decides
  and not the read. `SpamCountExact`: whatever is newer than the retention and
  than the narrowest window used so far is kept, also when it is counted late
  (`SpamKept`). A late message is not in the future: its clock was read before
  (`ClockRead`).

### Starboard and reaction roles (`StarboardProofs`)

- *Types.* `StarboardTyped` needs one strengthening: the reactions not yet
  handled are some of those that happened. That counts stay in range rests on
  the fans being finitely many.
- *One post.* `OnePostAtRest`: as long as no two syncs overlap and nothing
  failed, at most one sync is at work (`OnlyOne`) and `Posted` says what it has
  changed: the posts are what the entry says, except between unposting and
  dropping, and between posting and saving. That a lost post is never replaced
  follows: it cannot be lost.
- *A sync alone.* `SyncHeals` starts from any state, however broken: `CalmState`
  ties the count, the post and the entry to the stars step by step. That no
  further post is left beside the one it keeps needs that nobody else posts,
  deletes or saves while the sync is alone (`PostsStay`, `CountStays`,
  `PostsKept`).
- *A reaction alone.* `RolesComeOutRight`: `Fits` says what a goroutine knows of
  the roles; while a "unique" menu strips, the member's roles of the menu are
  the one to come and those still on the list.
- *Reactions together.* `OneRoleStays`: after a reaction with an emoji of a
  "unique" menu, as long as reactions are only added, the member has a role or
  somebody is still to give one (`AddsInv`): whoever strips gives afterwards.
- *The menu.* `MenusMatch` needs three parts at once, each with the goroutines
  that are between the two halves of a change: row and message exist together
  (`RowInv`), an emoji is offered iff it has an entry (`OfferInv`), the message
  shows the row's name unless edits overlapped (`TitleInv`).

### Invites (`InviteProofs`)

`InvitesTyped`, and `BaselineNeverAhead`: not only the baseline but every list a
handler has fetched or replaced is behind (`Behind`), since any of them may be
installed, or written to through the shared map, later; uses only grow.
`CalmJoinsAttributed`: the baseline differs from Discord's list in the one
invite that was used (`Tells`), from the join through the fetch, the swap and
the comparison; a map that tells is resolved to that invite (`ToldResolved`),
also for a single-use invite, which disappears instead of growing.

### Provisioning, members, configuration (`GuildProofs`)

- *Provisioning.* `RepairLasts` needs that after the repair no handler is left
  that would provision or delete (`MendedOK`); for the repair itself, that a
  handler that is still alone has nobody beside it (`AloneOK`); and for the
  restart, that a crash leaves no handler (`DownOK`). `OneCategoryAStay` and
  `LogsStayRouted`: in peace the row comes with all its channels unless a handler
  is still to make them, and goes with everything that hangs on it (`PeaceOK`);
  without an overlap one handler makes the one category (`CategoryOK`).
- *Members.* `SnapshotsStayTrue`: for a member whose events were not raced, at
  most one handler is about it, and what that will leave, or without one the
  snapshot, is what Discord has, or will be listed at the reconnect (`InOrder`).
- *Configuration.* `RowsStayValid`: the limits hold of the row and of every copy
  an editor has, since a copy is written back whole. `OnlyRacesUndo`: a copy
  differs from the row only in fields that another editor has changed since
  (`LateFields`).

### Rooms, locks, moderation (`CommandProofs`)

- *Rooms.* `OthersSurvive` and `RecordsAreTrue` need that a room being made is
  nobody else's business, and that what is being deleted was a room of the bot's
  (`RoomsOK`, `GoneOK`). `LastOneOut`, that a room does not stay empty
  unless it was left before it was recorded, rests on the order of the reports: the last one under way about a
  member is the truth (`LatestOK`); and on every room being watched: the cache
  has somebody in it, a report of somebody is on its way, a handler is about to
  move somebody in, or has yet to look whether the one who left was the last
  (`WatchedOK`). `RecordsStay` is an action property of the same invariant.
- *Locks.* `LocksOnlyLock`: a handler that nobody has overtaken, that read its
  channel and did not read a cache that was behind, writes back what is there,
  with one bit changed (`NotOvertaken`). `RejectedStayOut`: whoever is kept out
  and still in, and is no administrator, is about to be put out (`PutOut`).
- *Moderation.* `RapsheetComplete`: the entries of a kind and the moderators who
  have acted and not yet recorded it (`DueMods`) add up to what was done
  (`Entered`), hence the finiteness of `Mods`; between the two deletions of a
  clearing, and only then, warnings are left that no entry shows.

`QueueLemmas` has what `Tail`, `\o`, `SubSeq`, `RemoveAt`, `InsertAt` and
`Append` do to the set of elements and to their distinctness.

### What is proved and what is only checked

`StarboardTyped` and `InvitesTyped`, and the typing conjuncts of the invariants
of the other components, are proved and no run checks them; the type invariants
of music, message log and levels are both.

Only model-checked: `EveryTrackLeaves`, since liveness and `ENABLED` are beyond
the prover, and the five violations, which are counterexamples. What a
recursive definition computes for every input could not be proved either; no
module has one.

## 6. Reductions

Where the model takes in one step what the code does in several, and why that
hides nothing the properties are about:

- *Pause and Resume* read the current track and then disgolink's own `Paused`;
  the second reading is taken with the update, which is the same whichever of
  the two states it finds.
- *Ranks* are compared in one step (`CanActOn`): each of its reads is from the
  state cache or, rarely, a request, which may fail.
- *Looking a channel up* and reading its overwrites are one step: the code
  holds a pointer into the state cache in between.

## 7. Not modelled

- *Music*: volume, the voice channel's ID, search and the dashboard's reads.
- *Message log*: the delete handlers (they only read) and rendering.
- *Pipeline*: how invites, links and words are found in a text.
- *Invites and members*: the log entries written from them; guilds so large
  that `GuildCreate` does not carry every member.
- *Provisioning*: the welcome text, the join log of the bot's own guild.
- *Levels*: the announcement, exempt channels and bots (turned away before any
  state is read), the rank card and leaderboard.
- *Join-to-create*: name and limit of a room; channels deleted by hand. The list
  of records is read at the restart itself.
- *Moderation*: the pages of the rapsheet, `/clear`, slowmode, nickname and role
  commands (one request each), notices.
- *Starboard*: a changed starboard channel or emoji; more than 100 reactors;
  `ChannelMessage` and `MessageReactions` are one step. Discord never reuses a
  message ID; the model reuses one after everybody has forgotten it.
- *Dashboard*: pages that only show, image uploads; `PruneSessions`, which
  nothing calls.
- *Start and shutdown* run the other components' starts and stops in a line;
  the retries of Lavalink share only a flag. *Fun, user, utility and system
  commands* answer one interaction and keep nothing. *Database layer,
  migrations and configuration* are read once or generated; what a query does
  is part of the action that makes it.
