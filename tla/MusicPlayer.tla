----------------------------- MODULE MusicPlayer -----------------------------
(***************************************************************************)
(* The music package for one guild: music.Manager and the GuildPlayer it   *)
(* registers, called concurrently by slash-command and dashboard handlers  *)
(* (Callers) and by disgolink's listener (Listeners).  A GuildPlayer keeps *)
(* its queue under gp.mu, but every Lavalink update is sent after the      *)
(* unlock, so each handler is several steps: look the player up, change    *)
(* the queue under the lock, send the update.                              *)
(*                                                                         *)
(* Guilds share nothing but the map, so one guild stands for all.  Volume  *)
(* and the voice channel itself are left out: no property tells them       *)
(* apart.  Lavalink is external: what it plays, whether it is paused, and  *)
(* how many "track ended" or "track stuck" events it has yet to deliver.   *)
(***************************************************************************)
EXTENDS Integers, SequencesExt

CONSTANTS
  Entries,      \* QIDs newTrack may hand out
  Players,      \* GuildPlayer objects newGuildPlayer may allocate
  Callers,      \* goroutines of commands and HTTP requests
  Listeners,    \* goroutines running the Lavalink event listeners
  NoTrack,      \* the nil *Track
  NoPlayer,     \* no entry in Manager.players
  Ops,          \* the calls this instance lets Callers make
  MayFail,      \* whether Lavalink and Discord calls may fail
  MaxBatch,     \* bound: tracks in one Add
  MaxEnded,     \* bound: Lavalink events not yet delivered
  MoveTargets   \* the target positions MoveByID is called with

Threads == Callers \cup Listeners

\* The calls that look the player up with Manager.Get, and the others.
GetOps == {"skip", "stop", "remove", "move", "pause", "resume"}
AllOps == GetOps \cup {"add", "leave", "disconnect"}

ASSUME MusicAssumption ==
  /\ NoTrack \notin Entries
  /\ NoPlayer \notin Players
  /\ Callers \cap Listeners = {}
  /\ Ops \subseteq AllOps
  /\ MayFail \in BOOLEAN
  /\ MaxBatch \in Nat \ {0}
  /\ MaxEnded \in Nat \ {0}
  /\ MoveTargets \subseteq Int

VARIABLES
  registered,   \* Manager.players[guild], or NoPlayer
  made,         \* the GuildPlayers allocated so far
  minted,       \* the QIDs handed out so far
  queue,        \* GuildPlayer.queue
  current,      \* GuildPlayer.current
  open,         \* the Lavalink link has not been shut down
  playing,      \* the track Lavalink plays
  paused,       \* disgolink's Player.Paused
  ended,        \* Lavalink events on their way to the listeners
  asked,        \* history: tracks Lavalink was asked to play
  pc,           \* what a goroutine does next
  hold,         \* the *GuildPlayer it found
  pending       \* the track of the update it is about to send

playerVars   == <<registered, made, minted, queue, current>>
lavalinkVars == <<open, playing, paused, ended, asked>>
threadVars   == <<pc, hold, pending>>
vars         == <<playerVars, lavalinkVars, threadVars>>

\* "join".."giveUp" are the steps of Add, "clear" and "destroy" those of
\* Leave, "unregister" and "close" of Shutdown; "pausing" and "resuming" send
\* the updates of Pause and Resume, and "update" any other whose failure is
\* only reported.
Steps == GetOps \cup
         {"idle", "join", "enqueue", "start", "giveUp", "clear", "destroy",
          "advance", "unregister", "close", "pausing", "resuming", "update"}

TypeOK ==
  /\ made \subseteq Players
  /\ registered \in made \cup {NoPlayer}
  /\ minted \subseteq Entries
  /\ queue \in [Players -> Seq(minted)]
  /\ current \in [Players -> minted \cup {NoTrack}]
  /\ open \in BOOLEAN
  /\ playing \in asked \cup {NoTrack}
  /\ paused \in BOOLEAN
  /\ ended \in 0..MaxEnded
  /\ asked \subseteq minted
  /\ pc \in [Threads -> Steps]
  /\ hold \in [Threads -> made \cup {NoPlayer}]
  /\ pending \in [Threads -> minted \cup {NoTrack}]
  /\ \A t \in Threads :
       /\ pc[t] # "idle" => hold[t] \in made
       /\ pending[t] # NoTrack => pc[t] \in {"start", "update"}

Init ==
  /\ registered = NoPlayer
  /\ made = {}
  /\ minted = {}
  /\ queue = [p \in Players |-> << >>]
  /\ current = [p \in Players |-> NoTrack]
  /\ open = TRUE
  /\ playing = NoTrack
  /\ paused = FALSE
  /\ ended = 0
  /\ asked = {}
  /\ pc = [t \in Threads |-> "idle"]
  /\ hold = [t \in Threads |-> NoPlayer]
  /\ pending = [t \in Threads |-> NoTrack]

-----------------------------------------------------------------------------
(* Helpers                                                                 *)

Goto(t, step) == pc' = [pc EXCEPT ![t] = step]

Call(t, step, p) ==
  /\ Goto(t, step)
  /\ hold' = [hold EXCEPT ![t] = p]

\* The goroutine returns: what it held on its stack is gone.
Return(t) ==
  /\ Goto(t, "idle")
  /\ hold' = [hold EXCEPT ![t] = NoPlayer]
  /\ pending' = [pending EXCEPT ![t] = NoTrack]

\* The goroutine unlocks with an update of track e (NoTrack: stop) to send.
Unlock(t, step, e) ==
  /\ Goto(t, step)
  /\ pending' = [pending EXCEPT ![t] = e]
  /\ UNCHANGED hold

\* The batches Add may be given: sequences of distinct fresh QIDs.
Batches == { b \in UNION {[1..n -> Entries \ minted] : n \in 1..MaxBatch} :
               IsInjective(b) }

\* MoveByID clamps the 0-based target into the queue.
Clamp(to, len) == IF to < 0 THEN 0 ELSE IF to >= len THEN len - 1 ELSE to

\* Wrong variant: the entry is inserted again, but not taken out first.
MovedCopy(q, from, to) == InsertAt(q, Clamp(to, Len(q)) + 1, q[from])

Moved(q, from, to) == InsertAt(RemoveAt(q, from), Clamp(to, Len(q)) + 1, q[from])

\* Wrong variant: the hole is filled with the last entry of the queue.
WithoutUnordered(q, i) ==
  LET last == Len(q) IN SubSeq([q EXCEPT ![i] = q[last]], 1, last - 1)

Without(q, i) == RemoveAt(q, i)

-----------------------------------------------------------------------------
(* Add and Play                                                            *)

\* Ready, and getOrCreate's LoadOrStore: a new GuildPlayer is registered
\* only when the guild has none.
BeginAdd(t) ==
  /\ "add" \in Ops
  /\ pc[t] = "idle"
  /\ open
  /\ \/ /\ registered # NoPlayer
        /\ Call(t, "join", registered)
        /\ UNCHANGED <<registered, made>>
     \/ \E p \in Players \ made :
          /\ registered = NoPlayer
          /\ registered' = p
          /\ made' = made \cup {p}
          /\ Call(t, "join", p)
  /\ UNCHANGED <<minted, queue, current, lavalinkVars, pending>>

\* ChannelVoiceJoinManual; on an error Add returns and leaves the player.
JoinVoice(t) ==
  /\ pc[t] = "join"
  /\ \/ Goto(t, "enqueue") /\ UNCHANGED <<hold, pending>>
     \/ MayFail /\ Return(t)
  /\ UNCHANGED <<playerVars, lavalinkVars>>

\* Under the lock an idle player takes the first track, and the rest go in
\* front of whatever is still queued; a busy one queues them all.
Enqueue(t) ==
  /\ pc[t] = "enqueue"
  /\ \E batch \in Batches : LET p == hold[t] IN
       /\ minted' = minted \cup ToSet(batch)
       /\ \/ /\ current[p] = NoTrack
             /\ current' = [current EXCEPT ![p] = Head(batch)]
             /\ queue' = [queue EXCEPT ![p] = Tail(batch) \o @]
             /\ Unlock(t, "start", Head(batch))
          \/ /\ current[p] # NoTrack
             /\ \/ queue' = [queue EXCEPT ![p] = @ \o batch]
                \/ queue' = [queue EXCEPT ![p] = batch \o @]   \* atFront
             /\ Return(t)
             /\ UNCHANGED current
  /\ UNCHANGED <<registered, made, lavalinkVars>>

\* Wrong variant: the track whose update failed is put back in the queue.
GiveUpRequeue(t) ==
  /\ pc[t] = "giveUp"
  /\ LET p == hold[t] IN
       /\ queue' = IF current[p] = NoTrack THEN queue
                   ELSE [queue EXCEPT ![p] = <<current[p]>> \o @]
       /\ current' = [current EXCEPT ![p] = NoTrack]
  /\ Return(t)
  /\ UNCHANGED <<registered, made, minted, lavalinkVars>>

\* Add's update failed: current is cleared, whoever set it in between.
GiveUp(t) ==
  /\ pc[t] = "giveUp"
  /\ current' = [current EXCEPT ![hold[t]] = NoTrack]
  /\ Return(t)
  /\ UNCHANGED <<registered, made, minted, queue, lavalinkVars>>

-----------------------------------------------------------------------------
(* Player.Update, with no lock held                                        *)

\* Lavalink takes the update: it plays the track (or stops), unless the
\* track cannot be loaded, which it reports as an end that may start next.
\* On an error the update may or may not have reached Lavalink.
SendUpdate(t) ==
  /\ pc[t] \in {"start", "update"}
  /\ asked' = asked \cup ({pending[t]} \ {NoTrack})
  /\ \/ /\ open
        /\ \/ playing' = pending[t] /\ UNCHANGED ended
           \/ /\ pending[t] # NoTrack
              /\ MayFail
              /\ ended < MaxEnded
              /\ playing' = NoTrack
              /\ ended' = ended + 1
        /\ Return(t)
     \/ /\ MayFail \/ ~open
        /\ playing' \in {playing} \cup (IF open THEN {pending[t]} ELSE {})
        /\ IF pc[t] = "start"
           THEN Unlock(t, "giveUp", NoTrack)
           ELSE Return(t)
        /\ UNCHANGED ended
  /\ UNCHANGED <<playerVars, open, paused>>

-----------------------------------------------------------------------------
(* Calls that look the player up with Manager.Get                          *)

\* Wrong variant: the caller goes on although Get found no player.
BeginCallUnchecked(t, op) ==
  /\ pc[t] = "idle"
  /\ Call(t, op, registered)
  /\ UNCHANGED <<playerVars, lavalinkVars, pending>>

BeginCall(t, op) ==
  /\ pc[t] = "idle"
  /\ registered # NoPlayer
  /\ Call(t, op, registered)
  /\ UNCHANGED <<playerVars, lavalinkVars, pending>>

\* Wrong variant: the next track is not taken off the queue.
PopKeepingHead(p) ==
  /\ queue[p] # << >>
  /\ current' = [current EXCEPT ![p] = Head(queue[p])]
  /\ UNCHANGED <<registered, made, minted, queue>>

\* next := gp.queue[0]; gp.queue = gp.queue[1:]; gp.current = &next
Pop(p) ==
  /\ queue[p] # << >>
  /\ current' = [current EXCEPT ![p] = Head(queue[p])]
  /\ queue' = [queue EXCEPT ![p] = Tail(@)]
  /\ UNCHANGED <<registered, made, minted>>

SetIdle(p) ==
  /\ current' = [current EXCEPT ![p] = NoTrack]
  /\ UNCHANGED <<registered, made, minted, queue>>

ClearPlayer(p) ==
  /\ current' = [current EXCEPT ![p] = NoTrack]
  /\ queue' = [queue EXCEPT ![p] = << >>]
  /\ UNCHANGED <<registered, made, minted>>

Skip(t) == LET p == hold[t] IN
  /\ pc[t] = "skip"
  /\ \/ current[p] = NoTrack /\ Return(t) /\ UNCHANGED playerVars
     \/ /\ current[p] # NoTrack
        /\ queue[p] = << >>
        /\ SetIdle(p)
        /\ Unlock(t, "update", NoTrack)
     \/ /\ current[p] # NoTrack
        /\ Pop(p)
        /\ Unlock(t, "update", Head(queue[p]))
  /\ UNCHANGED lavalinkVars

Stop(t) ==
  /\ pc[t] = "stop"
  /\ ClearPlayer(hold[t])
  /\ Unlock(t, "update", NoTrack)
  /\ UNCHANGED lavalinkVars

\* The entry with a given QID is taken out; a QID that is not queued, or no
\* longer, changes nothing.
RemoveByID(t) == LET p == hold[t] IN
  /\ pc[t] = "remove"
  /\ \/ UNCHANGED queue
     \/ \E i \in DOMAIN queue[p] : queue' = [queue EXCEPT ![p] = Without(@, i)]
  /\ Return(t)
  /\ UNCHANGED <<registered, made, minted, current, lavalinkVars>>

MoveByID(t) == LET p == hold[t] IN
  /\ pc[t] = "move"
  /\ \/ UNCHANGED queue
     \/ \E i \in DOMAIN queue[p], to \in MoveTargets :
          queue' = [queue EXCEPT ![p] = Moved(@, i, to)]
  /\ Return(t)
  /\ UNCHANGED <<registered, made, minted, current, lavalinkVars>>

\* Pause and Resume: after the unlock, a player that had a current track is
\* sent an update, unless it needs none; the update may fail.
CheckPaused(t, op, next) ==
  /\ pc[t] = op
  /\ IF current[hold[t]] = NoTrack THEN Return(t)
     ELSE Goto(t, next) /\ UNCHANGED <<hold, pending>>
  /\ UNCHANGED <<playerVars, lavalinkVars>>

SetPaused(t, step, to) ==
  /\ pc[t] = step
  /\ \/ UNCHANGED paused
     \/ open /\ paused' = to
  /\ Return(t)
  /\ UNCHANGED <<playerVars, open, playing, ended, asked>>

-----------------------------------------------------------------------------
(* Leave, Shutdown and the voice websocket                                 *)

\* LoadAndDelete: one caller only takes the player out of the map.
BeginLeave(t) ==
  /\ "leave" \in Ops
  /\ pc[t] = "idle"
  /\ registered # NoPlayer
  /\ Call(t, "clear", registered)
  /\ registered' = NoPlayer
  /\ UNCHANGED <<made, minted, queue, current, lavalinkVars, pending>>

LeaveClear(t) ==
  /\ pc[t] = "clear"
  /\ ClearPlayer(hold[t])
  /\ Goto(t, "destroy")
  /\ UNCHANGED <<lavalinkVars, hold, pending>>

\* Destroy and the voice disconnect, whose errors are ignored.
LeaveDestroy(t) ==
  /\ pc[t] = "destroy"
  /\ \/ playing' = NoTrack /\ paused' = FALSE
     \/ MayFail /\ UNCHANGED <<playing, paused>>
  /\ Return(t)
  /\ UNCHANGED <<playerVars, open, ended, asked>>

\* Shutdown destroys the player, takes it out of the map without touching its
\* queue, and then closes the link, which ends what Lavalink plays.
ShuttingDown == \E t \in Callers : pc[t] \in {"unregister", "close"}

BeginShutdown(t) ==
  /\ "leave" \in Ops
  /\ pc[t] = "idle" /\ open /\ ~ShuttingDown
  /\ registered # NoPlayer
  /\ Call(t, "unregister", registered)
  /\ \/ playing' = NoTrack /\ paused' = FALSE
     \/ MayFail /\ UNCHANGED <<playing, paused>>
  /\ UNCHANGED <<playerVars, open, ended, asked, pending>>

Unregister(t) ==
  /\ pc[t] = "unregister"
  /\ registered' = NoPlayer
  /\ Goto(t, "close")
  /\ UNCHANGED <<made, minted, queue, current, lavalinkVars, hold, pending>>

\* With no player there is nothing to visit before.
CloseLink(t) ==
  /\ "leave" \in Ops
  /\ pc[t] = "close" \/ (pc[t] = "idle" /\ open /\ ~ShuttingDown /\ registered = NoPlayer)
  /\ open' = FALSE
  /\ playing' = NoTrack
  /\ Return(t)
  /\ UNCHANGED <<playerVars, paused, ended, asked>>

\* onWebSocketClosed (4014, or by remote) only deletes the map entry.
WebSocketClosed ==
  /\ "disconnect" \in Ops
  /\ open
  /\ registered # NoPlayer
  /\ registered' = NoPlayer
  /\ UNCHANGED <<made, minted, queue, current, lavalinkVars, threadVars>>

-----------------------------------------------------------------------------
(* Lavalink events and advance                                             *)

\* A track ends (finished or failed) of itself, but not while paused.
TrackEnds ==
  /\ playing # NoTrack
  /\ ~paused
  /\ ended < MaxEnded
  /\ playing' = NoTrack
  /\ ended' = ended + 1
  /\ UNCHANGED <<playerVars, open, paused, asked, threadVars>>

\* A stuck track is reported while it is still Lavalink's track.
TrackSticks ==
  /\ MayFail
  /\ playing # NoTrack
  /\ ended < MaxEnded
  /\ ended' = ended + 1
  /\ UNCHANGED <<playerVars, open, playing, paused, asked, threadVars>>

\* onTrackEnd and onTrackStuck: advance loads the player of the guild,
\* whatever track the event was about.
DeliverEnd(t) ==
  /\ pc[t] = "idle"
  /\ ended > 0
  /\ ended' = ended - 1
  /\ \/ registered = NoPlayer /\ UNCHANGED <<pc, hold>>
     \/ registered # NoPlayer /\ Call(t, "advance", registered)
  /\ UNCHANGED <<playerVars, open, playing, paused, asked, pending>>

\* Wrong variant: the next track is made current but never sent.
AdvanceUnsent(t) == LET p == hold[t] IN
  /\ pc[t] = "advance"
  /\ IF queue[p] = << >> THEN SetIdle(p) ELSE Pop(p)
  /\ Return(t)
  /\ UNCHANGED lavalinkVars

Advance(t) == LET p == hold[t] IN
  /\ pc[t] = "advance"
  /\ \/ queue[p] = << >> /\ SetIdle(p) /\ Return(t)
     \/ Pop(p) /\ Unlock(t, "update", Head(queue[p]))
  /\ UNCHANGED lavalinkVars

-----------------------------------------------------------------------------

\* The rest of a call that has begun.
Continue(t) ==
  \/ JoinVoice(t)
  \/ Enqueue(t)
  \/ SendUpdate(t)
  \/ GiveUp(t)
  \/ Skip(t)
  \/ Stop(t)
  \/ RemoveByID(t)
  \/ MoveByID(t)
  \/ CheckPaused(t, "pause", "pausing")
  \/ SetPaused(t, "pausing", TRUE)
  \/ CheckPaused(t, "resume", "resuming")
  \/ SetPaused(t, "resuming", FALSE)
  \/ LeaveClear(t)
  \/ LeaveDestroy(t)
  \/ Unregister(t)
  \/ pc[t] = "close" /\ CloseLink(t)
  \/ Advance(t)

Next ==
  \/ \E t \in Callers :
       \/ BeginAdd(t)
       \/ BeginLeave(t)
       \/ BeginShutdown(t)
       \/ pc[t] = "idle" /\ CloseLink(t)
       \/ \E op \in Ops \cap GetOps : BeginCall(t, op)
  \/ \E t \in Listeners : DeliverEnd(t)
  \/ \E t \in Threads : Continue(t)
  \/ TrackEnds
  \/ TrackSticks
  \/ WebSocketClosed

Spec == Init /\ [][Next]_vars

\* Started goroutines run on, disgolink delivers its events, and Lavalink
\* ends the track it plays; nobody has to issue a command.
Fairness ==
  /\ \A t \in Threads : WF_vars(Continue(t))
  /\ \A t \in Listeners : WF_vars(DeliverEnd(t))
  /\ WF_vars(TrackEnds)

FairSpec == Spec /\ Fairness

-----------------------------------------------------------------------------
(* Properties                                                              *)

Queued(e)  == \E p \in Players : e \in ToSet(queue[p])
Current(e) == \E p \in Players : current[p] = e

\* A QID names one entry: no interleaving of Add, Skip, RemoveByID, MoveByID
\* and advance leaves it twice in a queue, in two queues, or both waiting
\* and current.
EntriesDistinct ==
  /\ \A p \in Players : IsInjective(queue[p])
  /\ \A p, q \in Players : p # q =>
       /\ ToSet(queue[p]) \cap ToSet(queue[q]) = {}
       /\ current[p] = current[q] => current[p] = NoTrack
  /\ \A e \in Entries : ~(Queued(e) /\ Current(e))

\* Whatever the order in which unlocked updates reach Lavalink, no track is
\* sent to it twice: a waiting track was not sent, an update on its way is
\* the only one of its track, and every current track was sent or will be.
StartedOnce ==
  /\ \A e \in Entries : Queued(e) =>
       e \notin asked /\ \A t \in Threads : pending[t] # e
  /\ \A t \in Threads : pending[t] # NoTrack =>
       /\ pending[t] \notin asked
       /\ \A u \in Threads : pending[u] = pending[t] => u = t
  /\ \A p \in Players : current[p] # NoTrack =>
       current[p] \in asked \/ \E t \in Threads : pending[t] = current[p]

\* Tracks keep the order in which they wait; only MoveByID reorders.
OrderKept ==
  [][ (\E t \in Threads : MoveByID(t)) \/
      \A p \in Players :
        \A i, j \in DOMAIN queue[p], k, l \in DOMAIN queue'[p] :
          (/\ i < j
           /\ queue[p][i] = queue'[p][k]
           /\ queue[p][j] = queue'[p][l]) => k < l ]_vars

\* An entry is accepted once, current at most once, and never comes back.
Stage(e) == IF e \notin minted THEN "new"
            ELSE IF Queued(e) THEN "queued"
            ELSE IF Current(e) THEN "current"
            ELSE "gone"

Life == INSTANCE TrackLifecycle WITH stage <- [e \in Entries |-> Stage(e)]
Lifecycle == Life!LifeSpec

\* With Lavalink answering, and unless somebody pauses the player, every
\* waiting track leaves the queue: it starts, is removed, or goes with its
\* player.
Waiting(e) == registered # NoPlayer /\ e \in ToSet(queue[registered])
EveryTrackLeaves == \A e \in Entries : Waiting(e) ~> (~Waiting(e) \/ paused)

\* "this type tracks what we asked it to play": once every call and event is
\* done, the registered player's current track is the one Lavalink plays.
Quiet == ended = 0 /\ \A t \in Threads : pc[t] = "idle"
TracksWhatPlays ==
  Quiet /\ registered # NoPlayer /\ ~paused => current[registered] = playing
=============================================================================
