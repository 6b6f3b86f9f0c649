------------------------------ MODULE Starboard ------------------------------
(***************************************************************************)
(* starboard.Handler for one message: every reaction added to it or        *)
(* removed from it runs sync, in a goroutine of its own (Workers), which   *)
(* counts the stars, reads the entry and then posts, edits or deletes the  *)
(* message's post on the starboard.  Nothing serialises two syncs.  Each   *)
(* call of Discord and each query is a step, and may fail; most failures   *)
(* are ignored.                                                            *)
(*                                                                         *)
(* A post is known by its message ID and shows a count.  The starboard     *)
(* channel and emoji are fixed; a reaction is a reaction with that emoji.  *)
(***************************************************************************)
EXTENDS Integers, FiniteSets

CONSTANTS
  Fans,         \* who may react
  Bots,         \* those of them that are bots
  Author,       \* the author of the message
  Posts,        \* message IDs a post may get
  NoPost,
  NoEntry,      \* the message has no row in starboard_messages
  Workers,      \* goroutines running sync
  Thresholds,   \* starboard_config.threshold, as it may be configured
  MaxReactions, \* bound: reactions added and removed
  MaxTroubles   \* bound: failed calls and posts deleted by hand

Gone == -1      \* what a post that does not exist shows

ASSUME StarboardAssumption ==
  /\ IsFiniteSet(Fans) /\ Bots \subseteq Fans
  /\ Thresholds \subseteq Nat \ {0}
  /\ NoPost \notin Posts
  /\ MaxReactions \in Nat /\ MaxTroubles \in Nat
  /\ NoEntry \notin [post : Posts, count : Nat]

VARIABLES
  stars,      \* who has reacted
  pending,    \* reaction events not yet handled
  shown,      \* the count each post shows
  entry,      \* the message's row in starboard_messages
  cfg,        \* starboard_config
  pc,         \* what a worker does next
  config,     \* the configuration it read
  count,      \* the stars it counted
  row,        \* the entry it read
  posted,     \* the post it made
  reactions,  \* bound: reactions so far
  troubles,   \* bound: failures so far
  calm,       \* history: the worker has met no failure and no other actor
  overlapped, \* history: two syncs have overlapped
  strays      \* history: the posts no entry led to when a sync began on its own

discordVars == <<stars, shown>>
workerVars  == <<pc, config, count, row, posted>>
vars        == <<discordVars, pending, entry, cfg, workerVars, reactions,
                 troubles, calm, overlapped, strays>>

Steps   == {"idle", "count", "entry", "delete", "drop", "edit", "repost",
            "post", "save", "done"}
Entries == [post : Posts, count : Nat]
Configs == [enabled : BOOLEAN, threshold : Thresholds, selfStar : BOOLEAN]
Off     == [enabled |-> FALSE, threshold |-> 0, selfStar |-> FALSE]

TypeOK ==
  /\ stars \subseteq Fans
  /\ pending \in 0..MaxReactions
  /\ shown \in [Posts -> {Gone} \cup Nat]
  /\ entry \in Entries \cup {NoEntry}
  /\ cfg \in Configs
  /\ pc \in [Workers -> Steps]
  /\ config \in [Workers -> Configs \cup {Off}]
  /\ count \in [Workers -> 0..Cardinality(Fans)]
  /\ row \in [Workers -> Entries \cup {NoEntry}]
  /\ posted \in [Workers -> Posts \cup {NoPost}]
  /\ reactions \in 0..MaxReactions
  /\ troubles \in 0..MaxTroubles
  /\ calm \in [Workers -> BOOLEAN]
  /\ overlapped \in BOOLEAN /\ strays \subseteq Posts
  /\ \A w \in Workers :
       /\ pc[w] \in {"delete", "drop", "edit", "repost"} => row[w] # NoEntry
       /\ pc[w] = "save" => posted[w] # NoPost
       /\ pc[w] \in {"edit", "repost", "post", "save"}
            => count[w] >= config[w].threshold

All(x) == [w \in Workers |-> x]

Init ==
  /\ stars = {}
  /\ pending = 0
  /\ shown = [p \in Posts |-> Gone]
  /\ entry = NoEntry
  /\ cfg \in [enabled : {TRUE}, threshold : Thresholds, selfStar : BOOLEAN]
  /\ pc = All("idle")
  /\ config = All(Off)
  /\ count = All(0)
  /\ row = All(NoEntry)
  /\ posted = All(NoPost)
  /\ reactions = 0
  /\ troubles = 0
  /\ calm = All(FALSE)
  /\ overlapped = FALSE /\ strays = {}

ActsAlone(w) == calm' = [x \in Workers |-> x = w /\ calm[x]]
Disturb      == calm' = All(FALSE)

Trouble == troubles < MaxTroubles /\ troubles' = troubles + 1 /\ Disturb

-----------------------------------------------------------------------------
(* Discord and the administrators                                          *)

\* Bots are never counted, the author only where that is allowed.
Stars(c) ==
  Cardinality(stars \ (Bots \cup IF c.selfStar THEN {} ELSE {Author}))

React ==
  /\ reactions < MaxReactions
  /\ reactions' = reactions + 1
  /\ \E u \in Fans : stars' = IF u \in stars THEN stars \ {u} ELSE stars \cup {u}
  /\ pending' = pending + 1
  /\ Disturb
  /\ UNCHANGED <<shown, entry, cfg, workerVars, troubles, overlapped, strays>>

\* A moderator deletes a post.
DeletePost ==
  /\ Trouble
  /\ \E p \in Posts : shown[p] # Gone /\ shown' = [shown EXCEPT ![p] = Gone]
  /\ UNCHANGED <<stars, pending, entry, cfg, workerVars, reactions, overlapped, strays>>

SaveConfig ==
  /\ Trouble
  /\ cfg' \in Configs
  /\ UNCHANGED <<discordVars, pending, entry, workerVars, reactions, overlapped, strays>>

-----------------------------------------------------------------------------
(* sync                                                                    *)

\* The posts there are, and those that no entry leads to.
PostOf(e) == IF e = NoEntry THEN NoPost ELSE e.post
Live   == {p \in Posts : shown[p] # Gone}
Strays == Live \ {PostOf(entry)}

Goto(w, step) == pc' = [pc EXCEPT ![w] = step]

\* sync returns.
Return(w) ==
  /\ Goto(w, "idle")
  /\ config' = [config EXCEPT ![w] = Off]
  /\ count' = [count EXCEPT ![w] = 0]
  /\ row' = [row EXCEPT ![w] = NoEntry]
  /\ posted' = [posted EXCEPT ![w] = NoPost]
  /\ strays' = {}

\* A call fails, and sync gives up.
GiveUp(w) ==
  /\ Trouble
  /\ Return(w)
  /\ UNCHANGED <<discordVars, pending, entry, cfg, reactions, overlapped>>

\* A reaction event gets a goroutine, which loads the configuration.
Dispatch(w) ==
  /\ pc[w] = "idle"
  /\ pending > 0
  /\ pending' = pending - 1
  /\ IF cfg.enabled
     THEN /\ Goto(w, "count")
          /\ config' = [config EXCEPT ![w] = cfg]
     ELSE UNCHANGED <<pc, config>>
  /\ LET alone == \A v \in Workers : pc[v] = "idle"
     IN  /\ calm' = [x \in Workers |-> x = w /\ alone]
         /\ overlapped' = (overlapped \/ ~alone)
         /\ strays' = IF cfg.enabled /\ alone THEN Strays ELSE {}
  /\ UNCHANGED <<discordVars, entry, cfg, count, row, posted, reactions, troubles>>

\* ChannelMessage and MessageReactions; a failure of the latter counts as no
\* stars.
CountStars(w) ==
  /\ pc[w] = "count"
  /\ \/ /\ count' = [count EXCEPT ![w] = Stars(config[w])]
        /\ ActsAlone(w)
        /\ UNCHANGED troubles
     \/ Trouble /\ UNCHANGED count
  /\ Goto(w, "entry")
  /\ UNCHANGED <<discordVars, pending, entry, cfg, config, row, posted,
                 reactions, overlapped, strays>>

NoMessage(w) == pc[w] = "count" /\ GiveUp(w)

\* Wrong variant: every sync above the threshold posts anew.
NextStepPosting(n, threshold, e) ==
  IF n < threshold THEN IF e # NoEntry THEN "delete" ELSE "done"
  ELSE "post"

\* What sync does about n stars and the entry it read.
NextStep(n, threshold, e) ==
  IF n < threshold THEN IF e # NoEntry THEN "delete" ELSE "done"
  ELSE IF e # NoEntry THEN "edit" ELSE "post"

\* GetStarboardEntry.
ReadEntry(w) ==
  /\ pc[w] = "entry"
  /\ \/ /\ row' = [row EXCEPT ![w] = entry]
        /\ Goto(w, NextStep(count[w], config[w].threshold, entry))
        /\ ActsAlone(w)
        /\ UNCHANGED <<discordVars, pending, entry, cfg, config, count, posted,
                       reactions, troubles, overlapped, strays>>
     \/ GiveUp(w)

\* ChannelMessageDelete; its error is ignored.
UnpostMessage(w) ==
  /\ pc[w] = "delete"
  /\ \/ /\ shown' = [shown EXCEPT ![row[w].post] = Gone]
        /\ ActsAlone(w)
        /\ UNCHANGED troubles
     \/ Trouble /\ UNCHANGED shown
  /\ Goto(w, "drop")
  /\ UNCHANGED <<stars, pending, entry, cfg, config, count, row, posted,
                 reactions, overlapped, strays>>

\* DeleteStarboardEntry; its error is ignored.
DropEntry(w) ==
  /\ pc[w] = "drop"
  /\ \/ entry' = NoEntry /\ ActsAlone(w) /\ UNCHANGED troubles
     \/ Trouble /\ UNCHANGED entry
  /\ Goto(w, "done")
  /\ UNCHANGED <<discordVars, pending, cfg, config, count, row, posted,
                 reactions, overlapped, strays>>

\* ChannelMessageEditComplex: on any error the post is taken to be deleted.
EditPost(w) ==
  /\ pc[w] = "edit"
  /\ LET p == row[w].post
     IN  \/ /\ shown[p] # Gone
            /\ shown' = [shown EXCEPT ![p] = count[w]]
            /\ posted' = [posted EXCEPT ![w] = p]
            /\ Goto(w, "save")
            /\ ActsAlone(w)
            /\ UNCHANGED troubles
         \/ /\ shown[p] = Gone
            /\ Goto(w, "repost")
            /\ ActsAlone(w)
            /\ UNCHANGED <<shown, posted, troubles>>
         \/ Trouble /\ Goto(w, "repost") /\ UNCHANGED <<shown, posted>>
  /\ UNCHANGED <<stars, pending, entry, cfg, config, count, row, reactions, overlapped,
                 strays>>

\* The IDs somebody still knows.  Discord never uses an ID twice; here one is
\* free again once its post is gone and forgotten.
InUse == {PostOf(entry)} \cup UNION {{posted[w], PostOf(row[w])} : w \in Workers}

\* ChannelMessageSendComplex, where nothing was posted before or in place of
\* a lost post, which stays the entry's if the call fails.
SendPost(w) ==
  /\ pc[w] \in {"post", "repost"}
  /\ \E p \in Posts :
       /\ shown[p] = Gone /\ p \notin InUse
       /\ shown' = [shown EXCEPT ![p] = count[w]]
       /\ posted' = [posted EXCEPT ![w] = p]
  /\ Goto(w, "save")
  /\ ActsAlone(w)
  /\ UNCHANGED <<stars, pending, entry, cfg, config, count, row, reactions,
                 troubles, overlapped, strays>>

SendFails(w) ==
  \/ pc[w] = "post" /\ GiveUp(w)
  \/ /\ pc[w] = "repost"
     /\ Trouble
     /\ posted' = [posted EXCEPT ![w] = row[w].post]
     /\ Goto(w, "save")
     /\ UNCHANGED <<discordVars, pending, entry, cfg, config, count, row,
                    reactions, overlapped, strays>>

\* Wrong variant: the entry keeps the post it had.
SavedKeepingPost(w) ==
  [post |-> IF row[w] = NoEntry THEN posted[w] ELSE row[w].post, count |-> count[w]]

\* The entry sync saves.
Saved(w) == [post |-> posted[w], count |-> count[w]]

\* UpsertStarboardEntry; its error is ignored.
SaveEntry(w) ==
  /\ pc[w] = "save"
  /\ \/ entry' = Saved(w) /\ ActsAlone(w) /\ UNCHANGED troubles
     \/ Trouble /\ UNCHANGED entry
  /\ Goto(w, "done")
  /\ UNCHANGED <<discordVars, pending, cfg, config, count, row, posted,
                 reactions, overlapped, strays>>

Finish(w) ==
  /\ pc[w] = "done"
  /\ Return(w)
  /\ ActsAlone(w)
  /\ UNCHANGED <<discordVars, pending, entry, cfg, reactions, troubles, overlapped>>

Next ==
  \/ React
  \/ DeletePost
  \/ SaveConfig
  \/ \E w \in Workers :
       \/ Dispatch(w)
       \/ CountStars(w)
       \/ NoMessage(w)
       \/ ReadEntry(w)
       \/ UnpostMessage(w)
       \/ DropEntry(w)
       \/ EditPost(w)
       \/ SendPost(w)
       \/ SendFails(w)
       \/ SaveEntry(w)
       \/ Finish(w)

Spec == Init /\ [][Next]_vars

-----------------------------------------------------------------------------
(* Properties                                                              *)

Quiet == pending = 0 /\ \A w \in Workers : pc[w] = "idle"

\* The entry is what the stars call for: at the threshold it has the count, and
\* its post shows it; below it there is none.  Of other posts this says nothing.
BoardMatches(c) ==
  IF Stars(c) < c.threshold THEN entry = NoEntry
  ELSE /\ entry # NoEntry
       /\ entry.count = Stars(c)
       /\ shown[entry.post] = Stars(c)

\* A sync that meets no failure and nobody else leaves the entry and its post
\* right, whatever earlier races, failures and deletions had made of them; below
\* the threshold neither is left.  A second post, to which no entry led when it
\* began, stays: sync never finds it again.  But sync leaves no new one behind,
\* when it posts, reposts a lost post, or deletes the entry and its post.
CalmSyncHeals ==
  \A w \in Workers : pc[w] = "done" /\ calm[w] => BoardMatches(config[w]) /\ Strays = strays

\* As long as no two syncs overlap and nothing fails, the message never has
\* two posts, nor one that no entry leads to.
OnePost ==
  Quiet /\ ~overlapped /\ troubles = 0 =>
    Live = IF entry = NoEntry THEN {} ELSE {entry.post}

\* "keeping the entry's star count in sync as reactions are added and removed":
\* when every reaction has been handled and nothing failed, the entry and its
\* post are what the stars call for.
InSync == Quiet /\ troubles = 0 => BoardMatches(cfg)
=============================================================================
