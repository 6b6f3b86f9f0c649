--------------------------- MODULE StarboardProofs ---------------------------
(***************************************************************************)
(* The two components that reactions drive.  Starboard: type correctness,  *)
(* that one post is all a message ever has while syncs neither overlap nor *)
(* fail, and that a sync nobody overlaps heals what earlier ones left.     *)
(* Reaction roles: what a goroutine on its own leaves, that members who    *)
(* only add reactions keep a role, and that row and message match.         *)
(* Proved for any number of reactions, workers, goroutines and entries.    *)
(***************************************************************************)
EXTENDS MCReactions, FiniteSetTheorems, TLAPS

\* The parts of TypeOK, and that a reaction not yet handled was one.
BoardOK ==
  /\ stars \subseteq Fans
  /\ shown \in [Posts -> {Gone} \cup Nat]
  /\ entry \in Entries \cup {NoEntry}
  /\ cfg \in Configs

BoundsOK ==
  /\ reactions \in 0..MaxReactions
  /\ troubles \in 0..MaxTroubles
  /\ pending \in 0..reactions

HistoryOK == calm \in [Workers -> BOOLEAN] /\ overlapped \in BOOLEAN /\ strays \subseteq Posts

WorkersOK ==
  /\ pc \in [Workers -> Steps]
  /\ config \in [Workers -> Configs \cup {Off}]
  /\ count \in [Workers -> 0..Cardinality(Fans)]
  /\ row \in [Workers -> Entries \cup {NoEntry}]
  /\ posted \in [Workers -> Posts \cup {NoPost}]

\* What a worker has when it gets to a step.
StepOK(w) ==
  /\ pc[w] \in {"delete", "drop", "edit", "repost"} => row[w] # NoEntry
  /\ pc[w] = "save" => posted[w] # NoPost
  /\ pc[w] \in {"edit", "repost", "post", "save"} => count[w] >= config[w].threshold

TypeInv ==
  /\ BoardOK /\ BoundsOK /\ HistoryOK /\ WorkersOK
  /\ \A w \in Workers : StepOK(w)

-----------------------------------------------------------------------------

LEMMA FansCounted == Cardinality(Fans) \in Nat /\ 0..Cardinality(Fans) \subseteq Nat
<1>1. Cardinality(Fans) \in Nat
  BY StarboardAssumption, FS_CardinalityType
<1> QED
  BY <1>1

\* Bots are subtracted, so that a count is one of some of the fans.
LEMMA StarsCounted ==
  ASSUME BoardOK, NEW c
  PROVE  Stars(c) \in 0..Cardinality(Fans)
<1> DEFINE S == stars \ (Bots \cup IF c.selfStar THEN {} ELSE {Author})
<1>1. S \subseteq Fans /\ IsFiniteSet(Fans)
  BY StarboardAssumption DEF BoardOK
<1>2. IsFiniteSet(S) /\ Cardinality(S) <= Cardinality(Fans)
  BY <1>1, FS_Subset
<1>3. Cardinality(S) \in Nat /\ Cardinality(Fans) \in Nat
  BY <1>1, <1>2, FS_CardinalityType
<1> QED
  BY <1>2, <1>3 DEF Stars

LEMMA NumbersTyped ==
  ASSUME WorkersOK, NEW w \in Workers
  PROVE  count[w] \in Nat /\ config[w].threshold \in Nat
<1>1. config[w] \in Configs \cup {Off} /\ count[w] \in 0..Cardinality(Fans)
  BY DEF WorkersOK
<1>2. CASE config[w] \in Configs
  BY <1>1, <1>2, FansCounted, StarboardAssumption DEF Configs
<1>3. CASE config[w] = Off
  BY <1>1, <1>3, FansCounted DEF Off
<1> QED
  BY <1>1, <1>2, <1>3

LEMMA HistoryStays ==
  ASSUME HistoryOK, overlapped' = overlapped, strays' \in {strays, {}},
         Disturb \/ \E w \in Workers : ActsAlone(w)
  PROVE  HistoryOK'
BY DEF HistoryOK, Disturb, All, ActsAlone

LEMMA InitType == Init => TypeInv
<1> SUFFICES ASSUME Init PROVE TypeInv
  OBVIOUS
<1>1. BoardOK
  <2>1. cfg \in Configs
    BY DEF Init, Configs
  <2> QED
    BY <2>1 DEF Init, BoardOK
<1>2. BoundsOK
  BY StarboardAssumption DEF Init, BoundsOK
<1>3. HistoryOK
  BY DEF Init, HistoryOK, All
<1>4. WorkersOK
  BY FansCounted DEF Init, WorkersOK, All, Steps
<1>5. \A w \in Workers : StepOK(w)
  BY DEF Init, StepOK, All
<1> QED
  BY <1>1, <1>2, <1>3, <1>4, <1>5 DEF TypeInv

\* sync returns.
LEMMA ReturnType ==
  ASSUME WorkersOK, \A w \in Workers : StepOK(w), NEW w \in Workers, Return(w)
  PROVE  WorkersOK' /\ \A v \in Workers : StepOK(v)'
BY FansCounted DEF WorkersOK, StepOK, Return, Goto, Steps

LEMMA TypeStep == TypeInv /\ [Next]_vars => TypeInv'
<1> SUFFICES ASSUME TypeInv, [Next]_vars PROVE TypeInv'
  OBVIOUS
<1> USE StarboardAssumption DEF TypeInv
<1>1. CASE UNCHANGED vars
  BY <1>1 DEF vars, discordVars, workerVars, BoardOK, BoundsOK, HistoryOK, WorkersOK, StepOK
<1>2. CASE React \/ DeletePost \/ SaveConfig
  <2>1. BoardOK'
    BY <1>2 DEF React, DeletePost, SaveConfig, discordVars, BoardOK
  <2>2. BoundsOK'
    BY <1>2 DEF React, DeletePost, SaveConfig, Trouble, BoundsOK
  <2>3. HistoryOK'
    BY <1>2, HistoryStays DEF React, DeletePost, SaveConfig, Trouble
  <2>4. WorkersOK' /\ \A w \in Workers : StepOK(w)'
    BY <1>2 DEF React, DeletePost, SaveConfig, workerVars, WorkersOK, StepOK
  <2> QED
    BY <2>1, <2>2, <2>3, <2>4
<1>3. ASSUME NEW w \in Workers, GiveUp(w) PROVE TypeInv'
  <2>1. BoardOK' /\ BoundsOK'
    BY <1>3 DEF GiveUp, Trouble, discordVars, BoardOK, BoundsOK
  <2>2. HistoryOK'
    BY <1>3, HistoryStays DEF GiveUp, Trouble, Return
  <2>3. WorkersOK' /\ \A v \in Workers : StepOK(v)'
    BY <1>3, ReturnType DEF GiveUp
  <2> QED
    BY <2>1, <2>2, <2>3
<1>4. ASSUME NEW w \in Workers, Finish(w) PROVE TypeInv'
  <2>1. BoardOK' /\ BoundsOK'
    BY <1>4 DEF Finish, discordVars, BoardOK, BoundsOK
  <2>2. HistoryOK'
    BY <1>4, HistoryStays DEF Finish, Return
  <2>3. WorkersOK' /\ \A v \in Workers : StepOK(v)'
    BY <1>4, ReturnType DEF Finish
  <2> QED
    BY <2>1, <2>2, <2>3
<1>5. ASSUME NEW w \in Workers, Dispatch(w) PROVE TypeInv'
  <2>1. BoardOK' /\ BoundsOK'
    BY <1>5 DEF Dispatch, discordVars, BoardOK, BoundsOK
  <2>2. HistoryOK'
    BY <1>5 DEF Dispatch, HistoryOK, Strays, Live
  <2>3. WorkersOK' /\ \A v \in Workers : StepOK(v)'
    BY <1>5 DEF Dispatch, Goto, Steps, BoardOK, WorkersOK, StepOK
  <2> QED
    BY <2>1, <2>2, <2>3
<1>6. ASSUME NEW w \in Workers, CountStars(w) PROVE TypeInv'
  <2>1. BoardOK'
    BY <1>6 DEF CountStars, discordVars, BoardOK
  <2>2. BoundsOK'
    BY <1>6 DEF CountStars, Trouble, BoundsOK
  <2>3. HistoryOK'
    BY <1>6, HistoryStays DEF CountStars, Trouble
  <2>4. WorkersOK' /\ \A v \in Workers : StepOK(v)'
    BY <1>6, FansCounted, StarsCounted DEF CountStars, Goto, Steps, WorkersOK, StepOK
  <2> QED
    BY <2>1, <2>2, <2>3, <2>4
<1>7. ASSUME NEW w \in Workers, UnpostMessage(w) PROVE TypeInv'
  <2>1. BoardOK'
    BY <1>7 DEF UnpostMessage, Entries, WorkersOK, StepOK, BoardOK
  <2>2. BoundsOK'
    BY <1>7 DEF UnpostMessage, Trouble, BoundsOK
  <2>3. HistoryOK'
    BY <1>7, HistoryStays DEF UnpostMessage, Trouble
  <2>4. WorkersOK' /\ \A v \in Workers : StepOK(v)'
    BY <1>7 DEF UnpostMessage, Goto, Steps, WorkersOK, StepOK
  <2> QED
    BY <2>1, <2>2, <2>3, <2>4
<1>8. ASSUME NEW w \in Workers, DropEntry(w) PROVE TypeInv'
  <2>1. BoardOK'
    BY <1>8 DEF DropEntry, discordVars, BoardOK
  <2>2. BoundsOK'
    BY <1>8 DEF DropEntry, Trouble, BoundsOK
  <2>3. HistoryOK'
    BY <1>8, HistoryStays DEF DropEntry, Trouble
  <2>4. WorkersOK' /\ \A v \in Workers : StepOK(v)'
    BY <1>8 DEF DropEntry, Goto, Steps, WorkersOK, StepOK
  <2> QED
    BY <2>1, <2>2, <2>3, <2>4
<1>9. ASSUME NEW w \in Workers, EditPost(w) PROVE TypeInv'
  <2>1. BoardOK'
    BY <1>9, FansCounted DEF EditPost, Entries, WorkersOK, StepOK, BoardOK
  <2>2. BoundsOK'
    BY <1>9 DEF EditPost, Trouble, BoundsOK
  <2>3. HistoryOK'
    BY <1>9, HistoryStays DEF EditPost, Trouble
  <2>4. WorkersOK' /\ \A v \in Workers : StepOK(v)'
    BY <1>9 DEF EditPost, Goto, Steps, Entries, WorkersOK, StepOK
  <2> QED
    BY <2>1, <2>2, <2>3, <2>4
<1>10. ASSUME NEW w \in Workers, SendPost(w) PROVE TypeInv'
  <2>1. BoardOK'
    BY <1>10, FansCounted DEF SendPost, WorkersOK, BoardOK
  <2>2. BoundsOK'
    BY <1>10 DEF SendPost, Trouble, BoundsOK
  <2>3. HistoryOK'
    BY <1>10, HistoryStays DEF SendPost, Trouble
  <2>4. WorkersOK' /\ \A v \in Workers : StepOK(v)'
    BY <1>10 DEF SendPost, Goto, Steps, WorkersOK, StepOK
  <2> QED
    BY <2>1, <2>2, <2>3, <2>4
<1>11. ASSUME NEW w \in Workers, SaveEntry(w) PROVE TypeInv'
  <2>1. BoardOK'
    BY <1>11, FansCounted DEF SaveEntry, discordVars, Saved, Entries, WorkersOK, StepOK, BoardOK
  <2>2. BoundsOK'
    BY <1>11 DEF SaveEntry, Trouble, BoundsOK
  <2>3. HistoryOK'
    BY <1>11, HistoryStays DEF SaveEntry, Trouble
  <2>4. WorkersOK' /\ \A v \in Workers : StepOK(v)'
    BY <1>11 DEF SaveEntry, Goto, Steps, WorkersOK, StepOK
  <2> QED
    BY <2>1, <2>2, <2>3, <2>4
<1>12. ASSUME NEW w \in Workers, NoMessage(w) PROVE TypeInv'
  BY <1>3, <1>12 DEF NoMessage
<1>13. ASSUME NEW w \in Workers, ReadEntry(w) PROVE TypeInv'
  <2>1. CASE GiveUp(w)
    BY <1>3, <2>1
  <2>2. CASE /\ pc[w] = "entry"
             /\ row' = [row EXCEPT ![w] = entry]
             /\ Goto(w, NextStep(count[w], config[w].threshold, entry))
             /\ ActsAlone(w)
             /\ UNCHANGED <<discordVars, pending, entry, cfg, config, count, posted,
                            reactions, troubles, overlapped, strays>>
    <3>1. BoardOK' /\ BoundsOK'
      BY <2>2 DEF discordVars, BoardOK, BoundsOK
    <3>2. HistoryOK'
      BY <2>2, HistoryStays
    <3>3. count[w] \in Nat /\ config[w].threshold \in Nat
      BY NumbersTyped
    <3>4. WorkersOK' /\ \A v \in Workers : StepOK(v)'
      BY <2>2, <3>3 DEF Goto, NextStep, Steps, BoardOK, WorkersOK, StepOK
    <3> QED
      BY <3>1, <3>2, <3>4
  <2> QED
    BY <1>13, <2>1, <2>2 DEF ReadEntry
<1>14. ASSUME NEW w \in Workers, SendFails(w) PROVE TypeInv'
  <2>1. CASE GiveUp(w)
    BY <1>3, <2>1
  <2>2. CASE /\ pc[w] = "repost"
             /\ Trouble
             /\ posted' = [posted EXCEPT ![w] = row[w].post]
             /\ Goto(w, "save")
             /\ UNCHANGED <<discordVars, pending, entry, cfg, config, count, row,
                            reactions, overlapped, strays>>
    <3>1. BoardOK' /\ BoundsOK'
      BY <2>2 DEF discordVars, Trouble, BoardOK, BoundsOK
    <3>2. HistoryOK'
      BY <2>2, HistoryStays DEF Trouble
    <3>3. WorkersOK' /\ \A v \in Workers : StepOK(v)'
      BY <2>2 DEF Goto, Steps, Entries, WorkersOK, StepOK
    <3> QED
      BY <3>1, <3>2, <3>3
  <2> QED
    BY <1>14, <2>1, <2>2 DEF SendFails
<1> QED
  BY <1>1, <1>2, <1>4, <1>5, <1>6, <1>7, <1>8, <1>9, <1>10, <1>11, <1>12, <1>13,
     <1>14 DEF Next

\* Every variable of Starboard holds what it may hold, whatever the configured
\* threshold and however reactions, syncs and failures interleave: a sync that
\* deletes or edits has an entry to do so for, one that saves has a post, and no
\* post is made or edited for fewer stars than the configuration it read asks for.
THEOREM StarboardTyped == Spec => []TypeOK
<1>1. TypeInv => TypeOK
  BY StarboardAssumption DEF TypeInv, TypeOK, BoardOK, BoundsOK, HistoryOK, WorkersOK, StepOK
<1> QED
  BY InitType, TypeStep, <1>1, PTL DEF Spec

-----------------------------------------------------------------------------
(* One post                                                                *)

OnlyOne == \A v, w \in Workers : pc[v] # "idle" /\ pc[w] # "idle" => v = w

Matches == Live = IF entry = NoEntry THEN {} ELSE {entry.post}

\* What the one sync at work knows, and what it has already changed.
Posted(w) ==
  /\ pc[w] \in {"delete", "edit"} => row[w] = entry
  /\ pc[w] = "post" => entry = NoEntry
  /\ pc[w] # "repost"
  /\ pc[w] = "drop" => Live = {}
  /\ pc[w] = "save" => Live = {posted[w]}

OnePostState ==
  /\ OnlyOne
  /\ \A w \in Workers : Posted(w)
  /\ (\A w \in Workers : pc[w] \notin {"drop", "save"}) => Matches

PostInv == ~overlapped /\ troubles = 0 => OnePostState

LEMMA InitPost == Init => PostInv
BY DEF Init, PostInv, OnePostState, OnlyOne, Posted, Matches, Live, All

\* A failure is counted.
LEMMA Troubled == ASSUME BoundsOK, Trouble PROVE troubles' # 0
BY StarboardAssumption DEF BoundsOK, Trouble

\* The others are idle while the one sync goes from step to step.
Lone(w) == \A v \in Workers \ {w} : pc[v] = "idle"

LEMMA StepsAlone ==
  ASSUME WorkersOK, OnePostState, NEW w \in Workers, pc[w] # "idle", NEW s, Goto(w, s)
  PROVE  /\ Lone(w) /\ Lone(w)' /\ pc'[w] = s /\ OnlyOne'
BY DEF WorkersOK, OnePostState, OnlyOne, Lone, Goto

LEMMA PostStep == TypeInv /\ PostInv /\ [Next]_vars => PostInv'
<1> SUFFICES ASSUME TypeInv, PostInv, [Next]_vars, ~overlapped', troubles' = 0
             PROVE  OnePostState'
  BY DEF PostInv
<1> USE DEF TypeInv
<1>0. ~Trouble
  BY Troubled
<1>1. CASE UNCHANGED vars
  BY <1>1 DEF vars, discordVars, workerVars, PostInv, OnePostState, OnlyOne, Posted, Matches, Live
<1>2. CASE React \/ DeletePost \/ SaveConfig
  <2>1. React
    BY <1>0, <1>2 DEF DeletePost, SaveConfig
  <2> QED
    BY <2>1 DEF React, workerVars, PostInv, OnePostState, OnlyOne, Posted, Matches, Live
<1>3. ASSUME NEW w \in Workers, Dispatch(w) PROVE OnePostState'
  <2>1. (\A v \in Workers : pc[v] = "idle") /\ ~overlapped
    BY <1>3 DEF Dispatch
  <2>2. Matches /\ UNCHANGED <<shown, entry>>
    BY <1>3, <2>1 DEF Dispatch, discordVars, PostInv, OnePostState
  <2>3. \A v \in Workers : pc'[v] \in {"idle", "count"} /\ (v # w => pc'[v] = "idle")
    BY <1>3, <2>1 DEF Dispatch, Goto, WorkersOK
  <2> QED
    BY <2>2, <2>3 DEF OnePostState, OnlyOne, Posted, Matches, Live
<1>4. ASSUME NEW w \in Workers, CountStars(w) PROVE OnePostState'
  <2>1. OnePostState /\ pc[w] = "count" /\ Goto(w, "entry") /\ UNCHANGED <<shown, entry, row, posted>>
    BY <1>4, <1>0 DEF CountStars, discordVars, PostInv
  <2>2. Lone(w) /\ Lone(w)' /\ pc'[w] = "entry" /\ OnlyOne'
    BY <2>1, StepsAlone
  <2> QED
    BY <2>1, <2>2 DEF Lone, OnePostState, Posted, Matches, Live
<1>5. ASSUME NEW w \in Workers, ReadEntry(w) PROVE OnePostState'
  <2>1. /\ OnePostState /\ pc[w] = "entry" /\ UNCHANGED <<shown, entry>>
        /\ row' = [row EXCEPT ![w] = entry]
        /\ Goto(w, NextStep(count[w], config[w].threshold, entry))
    BY <1>5, <1>0 DEF ReadEntry, GiveUp, discordVars, PostInv
  <2> DEFINE s == NextStep(count[w], config[w].threshold, entry)
  <2>2. s \in {"delete", "edit", "done"} \/ (s = "post" /\ entry = NoEntry)
    BY DEF NextStep
  <2> HIDE DEF s
  <2>3. Lone(w) /\ Lone(w)' /\ pc'[w] = s /\ OnlyOne'
    BY <2>1, StepsAlone DEF s
  <2>4. Matches' /\ row'[w] = entry'
    BY <2>1, <2>3 DEF Lone, OnePostState, Matches, Live, WorkersOK
  <2> QED
    BY <2>1, <2>2, <2>3, <2>4 DEF Lone, OnePostState, Posted
<1>6. ASSUME NEW w \in Workers, UnpostMessage(w) PROVE OnePostState'
  <2>1. /\ OnePostState /\ pc[w] = "delete" /\ Goto(w, "drop") /\ UNCHANGED <<entry, row, posted>>
        /\ shown' = [shown EXCEPT ![row[w].post] = Gone]
    BY <1>6, <1>0 DEF UnpostMessage, PostInv
  <2>2. Lone(w) /\ Lone(w)' /\ pc'[w] = "drop" /\ OnlyOne'
    BY <2>1, StepsAlone
  <2>3. Live = {row[w].post}
    BY <2>1, <2>2 DEF Lone, OnePostState, Posted, Matches, StepOK
  <2>4. Live' = {}
    BY <2>1, <2>3 DEF Live, BoardOK
  <2> QED
    BY <2>1, <2>2, <2>4 DEF Lone, OnePostState, Posted
<1>7. ASSUME NEW w \in Workers, DropEntry(w) PROVE OnePostState'
  <2>1. /\ OnePostState /\ pc[w] = "drop" /\ Goto(w, "done")
        /\ UNCHANGED <<shown, row, posted>> /\ entry' = NoEntry
    BY <1>7, <1>0 DEF DropEntry, discordVars, PostInv
  <2>2. Lone(w) /\ Lone(w)' /\ pc'[w] = "done" /\ OnlyOne'
    BY <2>1, StepsAlone
  <2> QED
    BY <2>1, <2>2 DEF Lone, OnePostState, Posted, Matches, Live
<1>8. ASSUME NEW w \in Workers, EditPost(w) PROVE OnePostState'
  <2>1. OnePostState /\ pc[w] = "edit" /\ UNCHANGED <<entry, row>>
    BY <1>8, <1>0 DEF EditPost, PostInv
  <2>2. Lone(w) /\ entry # NoEntry /\ row[w] = entry
    BY <2>1 DEF Lone, OnePostState, OnlyOne, Posted, StepOK
  <2>3. Live = {row[w].post}
    BY <2>1, <2>2 DEF Lone, OnePostState, Matches
  <2>4. shown[row[w].post] # Gone
    BY <2>3 DEF Live
  <2>5. /\ shown' = [shown EXCEPT ![row[w].post] = count[w]]
        /\ posted' = [posted EXCEPT ![w] = row[w].post]
        /\ Goto(w, "save")
    BY <1>8, <1>0, <2>4 DEF EditPost
  <2>6. Lone(w)' /\ pc'[w] = "save" /\ OnlyOne'
    BY <2>1, <2>5, StepsAlone
  <2>7. count[w] # Gone
    BY FansCounted DEF WorkersOK, Gone
  <2>8. Live' = {row[w].post} /\ posted'[w] = row[w].post
    BY <2>3, <2>5, <2>7 DEF Live, BoardOK, WorkersOK
  <2> QED
    BY <2>6, <2>8 DEF Lone, OnePostState, Posted
<1>9. ASSUME NEW w \in Workers, SendPost(w) PROVE OnePostState'
  <2>1. OnePostState /\ pc[w] = "post" /\ Goto(w, "save")
    BY <1>9 DEF SendPost, PostInv, OnePostState, Posted
  <2>2. Lone(w) /\ Lone(w)' /\ pc'[w] = "save" /\ OnlyOne'
    BY <2>1, StepsAlone
  <2>3. Live = {}
    BY <2>1, <2>2 DEF Lone, OnePostState, Posted, Matches
  <2>4. PICK p \in Posts : /\ shown' = [shown EXCEPT ![p] = count[w]]
                           /\ posted' = [posted EXCEPT ![w] = p]
    BY <1>9 DEF SendPost
  <2>5. count[w] # Gone
    BY FansCounted DEF WorkersOK, Gone
  <2>6. Live' = {p} /\ posted'[w] = p
    BY <2>3, <2>4, <2>5 DEF Live, BoardOK, WorkersOK
  <2> QED
    BY <2>2, <2>6 DEF Lone, OnePostState, Posted
<1>10. ASSUME NEW w \in Workers, SaveEntry(w) PROVE OnePostState'
  <2>1. /\ OnePostState /\ pc[w] = "save" /\ Goto(w, "done")
        /\ UNCHANGED <<shown, row, posted>> /\ entry' = Saved(w)
    BY <1>10, <1>0 DEF SaveEntry, discordVars, PostInv
  <2>2. Lone(w) /\ Lone(w)' /\ pc'[w] = "done" /\ OnlyOne'
    BY <2>1, StepsAlone
  <2>3. entry' # NoEntry /\ entry'.post = posted[w]
    BY <2>1, StarboardAssumption, FansCounted DEF Saved, WorkersOK, StepOK
  <2>4. Live' = {posted[w]}
    BY <2>1 DEF OnePostState, Posted, Live
  <2> QED
    BY <2>2, <2>3, <2>4 DEF Lone, OnePostState, Posted, Matches
<1>11. ASSUME NEW w \in Workers, Finish(w) PROVE OnePostState'
  <2>1. /\ OnePostState /\ pc[w] = "done" /\ Goto(w, "idle") /\ UNCHANGED <<shown, entry>>
    BY <1>11 DEF Finish, Return, discordVars, PostInv
  <2>2. Lone(w) /\ Lone(w)' /\ pc'[w] = "idle" /\ OnlyOne'
    BY <2>1, StepsAlone
  <2> QED
    BY <2>1, <2>2 DEF Lone, OnePostState, Posted, Matches, Live
<1>12. ASSUME NEW w \in Workers, NoMessage(w) \/ SendFails(w) PROVE OnePostState'
  <2>1. pc[w] = "repost" /\ Trouble
    BY <1>12, <1>0 DEF NoMessage, SendFails, GiveUp
  <2> QED
    BY <1>0, <2>1
<1> QED
  BY <1>1, <1>2, <1>3, <1>4, <1>5, <1>6, <1>7, <1>8, <1>9, <1>10, <1>11, <1>12 DEF Next

\* As long as no two syncs overlap and nothing fails, the message never has two
\* posts, nor one that no entry leads to, however often its stars cross the
\* threshold (starboard.Handler.sync).
THEOREM OnePostAtRest == Spec => []OnePost
<1>1. TypeInv /\ PostInv /\ [Next]_vars => (TypeInv /\ PostInv)'
  BY TypeStep, PostStep
<1>2. TypeInv /\ PostInv => OnePost
  BY DEF PostInv, OnePostState, Matches, OnePost, Quiet
<1> QED
  BY InitType, InitPost, <1>1, <1>2, PTL DEF Spec

-----------------------------------------------------------------------------
(* A sync that nothing disturbs                                            *)

\* Where each step of sync leaves the posts: the entry's is edited, or deleted
\* and replaced; what no entry led to at the start stays.
PostsStay(w) ==
  /\ pc[w] \in {"count", "entry", "delete", "edit", "done"} => Strays = strays
  /\ pc[w] \in {"delete", "edit"} => row[w] = entry
  /\ pc[w] \in {"drop", "post", "repost"} => Live = strays
  /\ pc[w] = "save" => Live \ {posted[w]} = strays

\* Where it leaves the count, the post and the entry.
CalmState(w) ==
  /\ pc[w] \in Steps \ {"idle", "count", "done"} => count[w] = Stars(config[w])
  /\ pc[w] \in {"delete", "drop"} => Stars(config[w]) < config[w].threshold
  /\ pc[w] = "save" => shown[posted[w]] = count[w]
  /\ pc[w] = "done" => BoardMatches(config[w])

CalmInv == \A w \in Workers : calm[w] => CalmState(w) /\ PostsStay(w)

LEMMA CountStays ==
  ASSUME TypeInv, CalmInv, [Next]_vars, NEW w \in Workers, calm'[w]
  PROVE  CalmState(w)'
<1> USE DEF TypeInv
<1>0. ~Disturb
  BY DEF Disturb, All
<1>1. CASE UNCHANGED vars
  <2>1. CalmState(w)
    BY <1>1 DEF vars, CalmInv
  <2> QED
    BY <1>1, <2>1 DEF vars, discordVars, workerVars, CalmState, BoardMatches, Stars
\* Only the sync itself leaves it calm.
<1>2. ASSUME NEW x \in Workers, ActsAlone(x) PROVE x = w /\ CalmState(w)
  BY <1>2 DEF ActsAlone, CalmInv
\* The stars and the configuration that they are counted for stay.
<1>3. ASSUME UNCHANGED <<stars, config>> PROVE Stars(config[w])' = Stars(config[w])
  BY <1>3 DEF Stars
<1>4. ASSUME NEW x \in Workers, Dispatch(x) PROVE CalmState(w)'
  <2>1. x = w /\ pc[w] = "idle" /\ pc'[w] \in {"idle", "count"}
    BY <1>4 DEF Dispatch, Goto, WorkersOK
  <2> QED
    BY <2>1 DEF CalmState
<1>5. ASSUME NEW x \in Workers, CountStars(x) PROVE CalmState(w)'
  <2>1. ActsAlone(x) /\ count' = [count EXCEPT ![x] = Stars(config[x])]
        /\ Goto(x, "entry") /\ UNCHANGED <<stars, config>>
    BY <1>0, <1>5 DEF CountStars, Trouble, discordVars
  <2>2. pc'[w] = "entry" /\ count'[w] = Stars(config[w])
    BY <1>2, <2>1 DEF Goto, WorkersOK
  <2> QED
    BY <1>3, <2>1, <2>2 DEF CalmState
<1>6. ASSUME NEW x \in Workers, ReadEntry(x) PROVE CalmState(w)'
  <2>1. /\ ActsAlone(x) /\ pc[x] = "entry" /\ UNCHANGED <<stars, shown, entry, config, count, posted>>
        /\ Goto(x, NextStep(count[x], config[x].threshold, entry))
    BY <1>0, <1>6 DEF ReadEntry, GiveUp, Trouble, discordVars
  <2>2. x = w /\ count[w] = Stars(config[w])
    BY <1>2, <2>1 DEF CalmState, Steps
  <2> DEFINE s == NextStep(count[w], config[w].threshold, entry)
  <2>3. /\ s \in {"delete", "done"} => count[w] < config[w].threshold
        /\ s = "done" => entry = NoEntry
        /\ s \in {"delete", "done", "edit", "post"}
    BY DEF NextStep
  <2> HIDE DEF s
  <2>4. pc'[w] = s
    BY <2>1, <2>2 DEF s, Goto, WorkersOK
  <2>5. s = "done" => BoardMatches(config[w])'
    BY <1>3, <2>1, <2>2, <2>3 DEF BoardMatches
  <2> QED
    BY <1>3, <2>1, <2>2, <2>3, <2>4, <2>5 DEF CalmState
<1>7. ASSUME NEW x \in Workers, UnpostMessage(x) PROVE CalmState(w)'
  <2>1. /\ ActsAlone(x) /\ pc[x] = "delete" /\ Goto(x, "drop") /\ UNCHANGED <<stars, config, count>>
    BY <1>0, <1>7 DEF UnpostMessage, Trouble
  <2>2. x = w /\ pc'[w] = "drop" /\ count[w] = Stars(config[w])
        /\ Stars(config[w]) < config[w].threshold
    BY <1>2, <2>1 DEF CalmState, Steps, Goto, WorkersOK
  <2> QED
    BY <1>3, <2>1, <2>2 DEF CalmState
<1>8. ASSUME NEW x \in Workers, DropEntry(x) PROVE CalmState(w)'
  <2>1. /\ ActsAlone(x) /\ pc[x] = "drop" /\ Goto(x, "done") /\ UNCHANGED <<stars, config>>
        /\ entry' = NoEntry
    BY <1>0, <1>8 DEF DropEntry, Trouble, discordVars
  <2>2. x = w /\ pc'[w] = "done" /\ Stars(config[w]) < config[w].threshold
    BY <1>2, <2>1 DEF CalmState, Goto, WorkersOK
  <2> QED
    BY <1>3, <2>1, <2>2 DEF CalmState, BoardMatches
<1>9. ASSUME NEW x \in Workers, EditPost(x) PROVE CalmState(w)'
  <2>1. /\ ActsAlone(x) /\ pc[x] = "edit" /\ UNCHANGED <<stars, config, count, row>>
        /\ \/ /\ shown' = [shown EXCEPT ![row[x].post] = count[x]]
              /\ posted' = [posted EXCEPT ![x] = row[x].post]
              /\ Goto(x, "save")
           \/ Goto(x, "repost")
    BY <1>0, <1>9 DEF EditPost, Trouble
  <2>2. x = w /\ count[w] = Stars(config[w])
    BY <1>2, <2>1 DEF CalmState, Steps
  <2>3. row[w].post \in Posts
    BY <2>1, <2>2 DEF StepOK, WorkersOK, Entries
  <2>4. \/ pc'[w] = "save" /\ shown'[posted'[w]] = count[w]
        \/ pc'[w] = "repost"
    BY <2>1, <2>2, <2>3 DEF Goto, WorkersOK, BoardOK
  <2> QED
    BY <1>3, <2>1, <2>2, <2>4 DEF CalmState
<1>10. ASSUME NEW x \in Workers, SendPost(x) PROVE CalmState(w)'
  <2>1. /\ ActsAlone(x) /\ pc[x] \in {"post", "repost"} /\ Goto(x, "save")
        /\ UNCHANGED <<stars, config, count>>
    BY <1>10 DEF SendPost
  <2>2. PICK p \in Posts : /\ shown' = [shown EXCEPT ![p] = count[x]]
                           /\ posted' = [posted EXCEPT ![x] = p]
    BY <1>10 DEF SendPost
  <2>3. x = w /\ count[w] = Stars(config[w])
    BY <1>2, <2>1 DEF CalmState, Steps
  <2>4. pc'[w] = "save" /\ shown'[posted'[w]] = count[w]
    BY <2>1, <2>2, <2>3 DEF Goto, WorkersOK, BoardOK
  <2> QED
    BY <1>3, <2>1, <2>3, <2>4 DEF CalmState
<1>11. ASSUME NEW x \in Workers, SaveEntry(x) PROVE CalmState(w)'
  <2>1. /\ ActsAlone(x) /\ pc[x] = "save" /\ Goto(x, "done")
        /\ UNCHANGED <<stars, shown, config>> /\ entry' = Saved(x)
    BY <1>0, <1>11 DEF SaveEntry, Trouble, discordVars
  <2>2. x = w /\ pc'[w] = "done" /\ count[w] = Stars(config[w]) /\ shown[posted[w]] = count[w]
    BY <1>2, <2>1 DEF CalmState, Steps, Goto, WorkersOK
  <2>3. entry' = [post |-> posted[w], count |-> count[w]] /\ entry' # NoEntry
    BY <2>1, <2>2, StarboardAssumption, FansCounted DEF Saved, WorkersOK, StepOK
  <2>4. ~(Stars(config[w]) < config[w].threshold)
    BY <2>1, <2>2, NumbersTyped DEF StepOK
  <2>5. entry'.post = posted[w] /\ entry'.count = Stars(config[w])
    BY <2>2, <2>3
  <2>6. BoardMatches(config[w])'
    BY <1>3, <2>1, <2>2, <2>3, <2>4, <2>5 DEF BoardMatches
  <2> QED
    BY <2>2, <2>6 DEF CalmState
<1>12. ASSUME NEW x \in Workers, Finish(x) PROVE CalmState(w)'
  <2>1. x = w /\ pc'[w] = "idle"
    BY <1>2, <1>12 DEF Finish, Return, Goto, WorkersOK
  <2> QED
    BY <2>1 DEF CalmState
<1>13. ~(React \/ DeletePost \/ SaveConfig)
  BY <1>0 DEF React, DeletePost, SaveConfig, Trouble
<1>14. \A x \in Workers : ~NoMessage(x) /\ ~SendFails(x)
  BY <1>0 DEF NoMessage, SendFails, GiveUp, Trouble
<1> QED
  BY <1>1, <1>4, <1>5, <1>6, <1>7, <1>8, <1>9, <1>10, <1>11, <1>12, <1>13, <1>14 DEF Next

LEMMA PostsKept ==
  ASSUME TypeInv, CalmInv, [Next]_vars, NEW w \in Workers, calm'[w]
  PROVE  PostsStay(w)'
<1> USE DEF TypeInv
<1>0. ~Disturb
  BY DEF Disturb, All
<1>1. CASE UNCHANGED vars
  <2>1. PostsStay(w)
    BY <1>1 DEF vars, CalmInv
  <2> QED
    BY <1>1, <2>1 DEF vars, discordVars, workerVars, PostsStay, Strays, Live, PostOf
<1>2. ASSUME NEW x \in Workers, ActsAlone(x) PROVE x = w /\ PostsStay(w)
  BY <1>2 DEF ActsAlone, CalmInv
<1>3. ASSUME UNCHANGED <<shown, entry>> PROVE Live' = Live /\ Strays' = Strays
  BY <1>3 DEF Live, Strays, PostOf
<1>4. ASSUME NEW x \in Workers, Dispatch(x) PROVE PostsStay(w)'
  <2>1. /\ x = w /\ pc'[w] = (IF cfg.enabled THEN "count" ELSE "idle")
        /\ UNCHANGED <<shown, entry>>
        /\ cfg.enabled => strays' = Strays
    BY <1>4 DEF Dispatch, Goto, WorkersOK, discordVars
  <2> QED
    BY <1>3, <2>1 DEF PostsStay
<1>5. ASSUME NEW x \in Workers, CountStars(x) PROVE PostsStay(w)'
  <2>1. ActsAlone(x) /\ pc[x] = "count" /\ Goto(x, "entry") /\ UNCHANGED <<shown, entry, strays>>
    BY <1>0, <1>5 DEF CountStars, Trouble, discordVars
  <2>2. pc[w] = "count" /\ pc'[w] = "entry" /\ PostsStay(w)
    BY <1>2, <2>1 DEF Goto, WorkersOK
  <2> QED
    BY <1>3, <2>1, <2>2 DEF PostsStay
<1>6. ASSUME NEW x \in Workers, ReadEntry(x) PROVE PostsStay(w)'
  <2> DEFINE s == NextStep(count[x], config[x].threshold, entry)
  <2>1. /\ ActsAlone(x) /\ pc[x] = "entry" /\ UNCHANGED <<shown, entry, strays>>
        /\ row' = [row EXCEPT ![x] = entry] /\ Goto(x, s)
    BY <1>0, <1>6 DEF ReadEntry, GiveUp, Trouble, discordVars
  <2>2. s \in {"delete", "done", "edit"} \/ (s = "post" /\ entry = NoEntry)
    BY DEF NextStep
  <2> HIDE DEF s
  <2>3. x = w /\ pc'[w] = s /\ row'[w] = entry /\ Strays = strays
    BY <1>2, <2>1 DEF PostsStay, Goto, WorkersOK
  <2>4. entry = NoEntry => Live = Strays
    BY StarboardAssumption DEF Strays, PostOf, Live
  <2> QED
    BY <1>3, <2>1, <2>2, <2>3, <2>4 DEF PostsStay
<1>7. ASSUME NEW x \in Workers, UnpostMessage(x) PROVE PostsStay(w)'
  <2>1. /\ ActsAlone(x) /\ pc[x] = "delete" /\ Goto(x, "drop") /\ UNCHANGED strays
        /\ shown' = [shown EXCEPT ![row[x].post] = Gone]
    BY <1>0, <1>7 DEF UnpostMessage, Trouble
  <2>2. /\ x = w /\ pc'[w] = "drop"
        /\ Strays = strays /\ row[w] = entry /\ entry # NoEntry
    BY <1>2, <2>1 DEF PostsStay, Goto, WorkersOK, StepOK
  <2>3. Live' = Strays
    BY <2>1, <2>2 DEF Live, Strays, PostOf, BoardOK
  <2> QED
    BY <2>1, <2>2, <2>3 DEF PostsStay
<1>8. ASSUME NEW x \in Workers, DropEntry(x) PROVE PostsStay(w)'
  <2>1. /\ ActsAlone(x) /\ pc[x] = "drop" /\ Goto(x, "done") /\ UNCHANGED <<shown, strays>>
        /\ entry' = NoEntry
    BY <1>0, <1>8 DEF DropEntry, Trouble, discordVars
  <2>2. pc'[w] = "done" /\ Live = strays
    BY <1>2, <2>1 DEF PostsStay, Goto, WorkersOK
  <2>3. Strays' = Live
    BY <2>1, StarboardAssumption DEF Strays, PostOf, Live
  <2> QED
    BY <2>1, <2>2, <2>3 DEF PostsStay
<1>9. ASSUME NEW x \in Workers, EditPost(x) PROVE PostsStay(w)'
  <2> DEFINE p == row[x].post
  <2>1. /\ ActsAlone(x) /\ pc[x] = "edit" /\ UNCHANGED <<entry, strays>>
        /\ \/ /\ shown[p] # Gone /\ shown' = [shown EXCEPT ![p] = count[x]]
              /\ posted' = [posted EXCEPT ![x] = p] /\ Goto(x, "save")
           \/ shown[p] = Gone /\ shown' = shown /\ Goto(x, "repost")
    BY <1>0, <1>9 DEF EditPost, Trouble
  <2>2. /\ x = w /\ Strays = strays /\ row[w] = entry /\ entry # NoEntry /\ p \in Posts
        /\ PostOf(entry) = p /\ count[w] # Gone
    BY <1>2, <2>1, FansCounted DEF PostsStay, StepOK, WorkersOK, Entries, PostOf, Gone
  <2>3. CASE shown[p] # Gone
    <3>1. Live' = Live /\ posted'[w] = p /\ pc'[w] = "save"
      BY <2>1, <2>2, <2>3 DEF Live, Goto, WorkersOK, BoardOK
    <3>2. Live \ {p} = strays
      BY <2>2 DEF Strays
    <3> QED
      BY <2>1, <3>1, <3>2 DEF PostsStay
  <2>4. CASE shown[p] = Gone
    <3>1. Live' = Live /\ pc'[w] = "repost"
      BY <2>1, <2>2, <2>4 DEF Live, Goto, WorkersOK
    <3>2. Live = strays
      BY <2>2, <2>4 DEF Strays, Live
    <3> QED
      BY <2>1, <3>1, <3>2 DEF PostsStay
  <2> QED
    BY <2>3, <2>4
<1>10. ASSUME NEW x \in Workers, SendPost(x) PROVE PostsStay(w)'
  <2>1. ActsAlone(x) /\ pc[x] \in {"post", "repost"} /\ Goto(x, "save") /\ UNCHANGED strays
    BY <1>10 DEF SendPost
  <2>2. PICK p \in Posts : /\ shown[p] = Gone /\ shown' = [shown EXCEPT ![p] = count[x]]
                           /\ posted' = [posted EXCEPT ![x] = p]
    BY <1>10 DEF SendPost
  <2>3. x = w /\ pc'[w] = "save" /\ Live = strays /\ count[w] # Gone /\ posted'[w] = p
    BY <1>2, <2>1, <2>2, FansCounted DEF PostsStay, Goto, WorkersOK, Gone
  <2>4. Live' \ {p} = Live
    BY <2>2, <2>3 DEF Live, BoardOK
  <2> QED
    BY <2>1, <2>3, <2>4 DEF PostsStay
<1>11. ASSUME NEW x \in Workers, SaveEntry(x) PROVE PostsStay(w)'
  <2>1. /\ ActsAlone(x) /\ pc[x] = "save" /\ Goto(x, "done") /\ UNCHANGED <<shown, strays>>
        /\ entry' = Saved(x)
    BY <1>0, <1>11 DEF SaveEntry, Trouble, discordVars
  <2>2. x = w /\ pc'[w] = "done" /\ Live \ {posted[w]} = strays
    BY <1>2, <2>1 DEF PostsStay, Goto, WorkersOK
  <2>3. entry'.post = posted[w] /\ entry' # NoEntry
    BY <2>1, <2>2, StarboardAssumption, FansCounted DEF Saved, WorkersOK, StepOK
  <2>4. Strays' = Live \ {posted[w]}
    BY <2>1, <2>3 DEF Strays, Live, PostOf
  <2> QED
    BY <2>1, <2>2, <2>4 DEF PostsStay
<1>12. ASSUME NEW x \in Workers, Finish(x) PROVE PostsStay(w)'
  <2>1. x = w /\ pc'[w] = "idle"
    BY <1>2, <1>12 DEF Finish, Return, Goto, WorkersOK
  <2> QED
    BY <2>1 DEF PostsStay
<1>13. ~(React \/ DeletePost \/ SaveConfig)
  BY <1>0 DEF React, DeletePost, SaveConfig, Trouble
<1>14. \A x \in Workers : ~NoMessage(x) /\ ~SendFails(x)
  BY <1>0 DEF NoMessage, SendFails, GiveUp, Trouble
<1> QED
  BY <1>1, <1>4, <1>5, <1>6, <1>7, <1>8, <1>9, <1>10, <1>11, <1>12, <1>13, <1>14 DEF Next

LEMMA CalmStep == TypeInv /\ CalmInv /\ [Next]_vars => CalmInv'
<1> SUFFICES ASSUME TypeInv, CalmInv, [Next]_vars, NEW w \in Workers, calm'[w]
             PROVE  CalmState(w)' /\ PostsStay(w)'
  BY DEF CalmInv
<1> QED
  BY CountStays, PostsKept

\* A sync that meets no failure and nobody else leaves the entry and its post as
\* the stars call for, whatever races, failures and deletions had made of them
\* before, and leaves no post behind that no entry leads to but those that were
\* there when it began (starboard.Handler.sync).
THEOREM SyncHeals == Spec => []CalmSyncHeals
<1>1. Init => CalmInv
  BY DEF Init, All, CalmInv
<1>2. TypeInv /\ CalmInv /\ [Next]_vars => (TypeInv /\ CalmInv)'
  BY TypeStep, CalmStep
<1>3. CalmInv => CalmSyncHeals
  BY DEF CalmInv, CalmState, PostsStay, CalmSyncHeals
<1> QED
  BY InitType, <1>1, <1>2, <1>3, PTL DEF Spec

-----------------------------------------------------------------------------
(* Reaction roles: a goroutine that nothing disturbs                       *)

RoleSteps == {"others", "strip", "check", "grant", "revoke", "handled"}

MenuLines == [emoji : Emojis, role : MenuRoles]

MenusTyped ==
  /\ task = [t \in Tasks |-> task[t]]
  /\ entries \in Seq(MenuLines)
  /\ \A t \in Tasks :
       /\ task[t].step = "insert" => task[t].emoji \in Emojis /\ task[t].role \in MenuRoles
       /\ task[t].step = "strip" => task[t].rest \in Seq(MenuRoles)

Names(rest) == {rest[i] : i \in DOMAIN rest}

\* What a goroutine at each step knows of the roles.
Fits(job) ==
  /\ job.step \in {"others", "strip", "check"} => job.added
  /\ job.step = "check" => job.mode = "reverse" /\ (job.had <=> job.role \in roles)
  /\ job.step \in {"others", "strip"} => job.mode = "unique" /\ job.role \in Menus!EntryRoles
  /\ job.step = "strip" =>
       roles \cap Menus!EntryRoles \subseteq {job.role} \cup Names(job.rest)
  /\ job.step = "grant" => job.added /\ ~(job.mode = "reverse" /\ job.had)
  /\ job.step = "grant" /\ job.mode = "unique" =>
       job.role \in Menus!EntryRoles /\ roles \cap Menus!EntryRoles \subseteq {job.role}
  /\ job.step = "revoke" => ~(job.added /\ ~(job.mode = "reverse" /\ job.had))
  /\ job.step = "handled" =>
       /\ (job.role \in roles) <=> (job.added /\ ~(job.mode = "reverse" /\ job.had))
       /\ job.added /\ job.mode = "unique" => roles \cap Menus!EntryRoles = {job.role}

OutcomeInv == \A t \in Tasks : alone[t] => Fits(task[t])

LEMMA TaskChanges ==
  ASSUME MenusTyped, NEW t \in Tasks, NEW job, task' = [task EXCEPT ![t] = job]
  PROVE  /\ task' = [u \in Tasks |-> task'[u]]
         /\ task'[t] = job
         /\ \A u \in Tasks \ {t} : task'[u] = task[u]
BY DEF MenusTyped

\* The steps after which a goroutine has no role in hand.
Plain(t) ==
  \/ Menus!React(t) \/ Menus!LookupMenu(t) \/ Menus!Handled(t) \/ Menus!Create(t)
  \/ Menus!CreateRow(t) \/ Menus!AddEntry(t) \/ Menus!InsertEntry(t) \/ Menus!OfferEmoji(t)
  \/ Menus!Delete(t) \/ Menus!UnpostFails(t) \/ Menus!Unpost(t) \/ Menus!DropMenu(t)
  \/ Menus!Edit(t) \/ Menus!UpdateMenu(t) \/ Menus!Reload(t) \/ Menus!Retitle(t)

\* A job of a goroutine that has no role in hand.
Bare(job) ==
  /\ job.step \notin RoleSteps
  /\ job.step = "insert" => job.emoji \in Emojis /\ job.role \in MenuRoles

Goes(t) == \E job : task' = [task EXCEPT ![t] = job] /\ Bare(job)

LEMMA PlainGoes == ASSUME NEW t \in Tasks, Plain(t) PROVE Goes(t)
<1>1. ASSUME NEW job, Bare(job), Menus!Now(t, job) PROVE Goes(t)
  BY <1>1 DEF Goes, Menus!Now
<1>2. Bare(Menus!Idle)
  BY DEF Bare, RoleSteps, Menus!Idle
<1>3. ASSUME Menus!Return(t) PROVE Goes(t)
  BY <1>1, <1>2, <1>3 DEF Menus!Return
<1>4. ASSUME NEW job, Bare(job), Menus!Start(t, job) PROVE Goes(t)
  BY <1>1, <1>4 DEF Menus!Start
<1>5. \A e, b : Bare([step |-> "menu", added |-> b, emoji |-> e])
  BY DEF Bare, RoleSteps
<1>6. \A e, b, k : Bare([step |-> "entry", added |-> b, emoji |-> e, mode |-> k])
  BY DEF Bare, RoleSteps
<1>7. \A k, n : Bare([step |-> "create", mode |-> k, name |-> n])
  BY DEF Bare, RoleSteps
<1>8. \A e \in Emojis, x \in MenuRoles : Bare([step |-> "insert", emoji |-> e, role |-> x])
  BY DEF Bare, RoleSteps
<1>9. \A e : Bare([step |-> "offer", emoji |-> e])
  BY DEF Bare, RoleSteps
<1>10. \A k \in {"unpost", "drop"} : Bare([step |-> k])
  BY DEF Bare, RoleSteps
<1>11. \A k \in {"update", "reload", "retitle"} : \A n : Bare([step |-> k, name |-> n])
  BY DEF Bare, RoleSteps
<1> HIDE DEF Goes, Bare
<1>12. CASE Menus!React(t)
  BY <1>4, <1>5, <1>12 DEF Menus!React
<1>13. CASE Menus!LookupMenu(t)
  BY <1>1, <1>3, <1>6, <1>13 DEF Menus!LookupMenu
<1>14. CASE Menus!Create(t)
  BY <1>4, <1>7, <1>14 DEF Menus!Create
<1>15. CASE Menus!AddEntry(t)
  BY <1>4, <1>8, <1>15 DEF Menus!AddEntry
<1>16. CASE Menus!InsertEntry(t)
  BY <1>1, <1>3, <1>9, <1>16 DEF Menus!InsertEntry, Menus!Insert
<1>17. CASE Menus!Delete(t)
  <2>1. PICK k \in {"unpost", "drop"} : Menus!Start(t, [step |-> k])
    BY <1>17 DEF Menus!Delete
  <2> QED
    BY <1>4, <1>10, <2>1
<1>18. CASE Menus!UnpostFails(t) \/ Menus!Unpost(t)
  BY <1>1, <1>10, <1>18 DEF Menus!UnpostFails, Menus!Unpost
<1>19. CASE Menus!Edit(t)
  BY <1>4, <1>11, <1>19 DEF Menus!Edit
<1>20. CASE Menus!UpdateMenu(t)
  BY <1>1, <1>3, <1>11, <1>20 DEF Menus!UpdateMenu
<1>21. CASE Menus!Reload(t)
  BY <1>1, <1>3, <1>11, <1>21 DEF Menus!Reload
<1>22. CASE \/ Menus!Handled(t) \/ Menus!CreateRow(t) \/ Menus!OfferEmoji(t) \/ Menus!DropMenu(t)
            \/ Menus!Retitle(t)
  BY <1>3, <1>22
  DEF Menus!Handled, Menus!CreateRow, Menus!OfferEmoji, Menus!DropMenu, Menus!Retitle
<1> QED
  BY <1>12, <1>13, <1>14, <1>15, <1>16, <1>17, <1>18, <1>19, <1>20, <1>21, <1>22 DEF Plain

\* Whoever is left alone is the goroutine that took the step.
LEMMA AloneActs ==
  ASSUME NEW t \in Tasks, NEW u \in Tasks, alone'[u],
         \/ Menus!Smooth(t) \/ Menus!Mishap \/ \E job : Menus!Start(t, job)
  PROVE  u = t /\ (alone[u] \/ \E job : Menus!Start(t, job)) /\ ~Menus!Mishap
BY Zenon DEF Menus!Smooth, Menus!Mishap, Menus!Start

LEMMA PlainAlone ==
  ASSUME NEW t \in Tasks, Plain(t)
  PROVE  \/ Menus!Smooth(t) \/ Menus!Mishap \/ \E job : Menus!Start(t, job)
<1>1. CASE Menus!React(t) \/ Menus!Create(t) \/ Menus!AddEntry(t) \/ Menus!Delete(t) \/ Menus!Edit(t)
  BY <1>1 DEF Menus!React, Menus!Create, Menus!AddEntry, Menus!Delete, Menus!Edit
<1>2. CASE \/ Menus!LookupMenu(t) \/ Menus!Handled(t) \/ Menus!CreateRow(t)
           \/ Menus!InsertEntry(t) \/ Menus!OfferEmoji(t) \/ Menus!UnpostFails(t)
  BY <1>2 DEF Menus!LookupMenu, Menus!Handled, Menus!CreateRow, Menus!InsertEntry,
              Menus!OfferEmoji, Menus!UnpostFails
<1>3. CASE \/ Menus!Unpost(t) \/ Menus!DropMenu(t) \/ Menus!UpdateMenu(t) \/ Menus!Reload(t)
           \/ Menus!Retitle(t)
  BY <1>3 DEF Menus!Unpost, Menus!DropMenu, Menus!UpdateMenu, Menus!Reload, Menus!Retitle
<1> QED
  BY <1>1, <1>2, <1>3 DEF Plain

LEMMA MenusSettle ==
  ASSUME MenusTyped, NEW t \in Tasks, NEW job, task' = [task EXCEPT ![t] = job],
         entries' \in Seq(MenuLines),
         job.step = "insert" => job.emoji \in Emojis /\ job.role \in MenuRoles,
         job.step = "strip" => job.rest \in Seq(MenuRoles)
  PROVE  MenusTyped'
BY TaskChanges DEF MenusTyped

\* Nobody else is alone after a step.
LEMMA OutcomeSettles ==
  ASSUME MenusTyped, NEW t \in Tasks, NEW job, task' = [task EXCEPT ![t] = job],
         \A u \in Tasks : alone'[u] => u = t,
         alone'[t] => Fits(job)'
  PROVE  OutcomeInv'
BY TaskChanges DEF OutcomeInv

LEMMA PlainOutcome ==
  ASSUME MenusTyped, NEW t \in Tasks, Plain(t)
  PROVE  MenusTyped' /\ OutcomeInv'
<1>1. PICK job : task' = [task EXCEPT ![t] = job] /\ Bare(job)
  BY PlainGoes DEF Goes
<1>2. entries' \in Seq(MenuLines)
  <2>1. CASE Menus!InsertEntry(t) /\ entries' # entries
    <3>1. task[t].step = "insert"
      BY <2>1 DEF Menus!InsertEntry, Menus!At
    <3>2. entries' = Append(entries, [emoji |-> task[t].emoji, role |-> task[t].role])
      BY <2>1 DEF Menus!InsertEntry, Menus!Insert
    <3>3. [emoji |-> task[t].emoji, role |-> task[t].role] \in MenuLines
      BY <3>1 DEF MenusTyped, MenuLines
    <3> QED
      BY <3>2, <3>3 DEF MenusTyped
  <2>2. CASE Menus!DropMenu(t)
    <3>1. entries' = <<>> \/ entries' = entries
      BY <2>2 DEF Menus!DropMenu
    <3>2. <<>> \in Seq(MenuLines)
      OBVIOUS
    <3> QED
      BY <3>1, <3>2 DEF MenusTyped
  <2>3. CASE \/ Menus!React(t) \/ Menus!LookupMenu(t) \/ Menus!Handled(t) \/ Menus!Create(t)
             \/ Menus!CreateRow(t) \/ Menus!AddEntry(t) \/ Menus!OfferEmoji(t)
    BY <2>3 DEF Menus!React, Menus!LookupMenu, Menus!Handled, Menus!Create, Menus!CreateRow,
                Menus!AddEntry, Menus!OfferEmoji, Menus!menu, MenusTyped
  <2>4. CASE \/ Menus!Delete(t) \/ Menus!UnpostFails(t) \/ Menus!Unpost(t) \/ Menus!Edit(t)
             \/ Menus!UpdateMenu(t) \/ Menus!Reload(t) \/ Menus!Retitle(t)
    BY <2>4 DEF Menus!Delete, Menus!UnpostFails, Menus!Unpost, Menus!Edit, Menus!UpdateMenu,
                Menus!Reload, Menus!Retitle, Menus!menu, MenusTyped
  <2> QED
    BY <2>1, <2>2, <2>3, <2>4 DEF Plain, MenusTyped
<1>3. Fits(job)'
  BY <1>1 DEF Bare, RoleSteps, Fits
<1>4. job.step # "strip" /\ (job.step = "insert" => job.emoji \in Emojis /\ job.role \in MenuRoles)
  BY <1>1 DEF Bare, RoleSteps
<1>5. \A u \in Tasks : alone'[u] => u = t
  BY PlainAlone, AloneActs
<1> QED
  BY <1>1, <1>2, <1>3, <1>4, <1>5, MenusSettle, OutcomeSettles

LEMMA SmoothAlone ==
  ASSUME NEW t \in Tasks, Menus!Smooth(t)
  PROVE  \A u \in Tasks : alone'[u] => u = t /\ alone[u]
BY Zenon DEF Menus!Smooth

LEMMA MishapAlone == ASSUME Menus!Mishap PROVE \A u \in Tasks : ~alone'[u]
BY Zenon DEF Menus!Mishap

\* A goroutine that has nothing to do.
LEMMA ReturnOutcome ==
  ASSUME MenusTyped, NEW t \in Tasks, Menus!Return(t), UNCHANGED entries,
         Menus!Smooth(t) \/ Menus!Mishap
  PROVE  MenusTyped' /\ OutcomeInv'
<1>1. task' = [task EXCEPT ![t] = Menus!Idle] /\ Menus!Idle.step = "idle"
  BY DEF Menus!Return, Menus!Now, Menus!Idle
<1>2. Fits(Menus!Idle)'
  BY <1>1 DEF Fits
<1>3. \A u \in Tasks : alone'[u] => u = t
  BY SmoothAlone, MishapAlone
<1> HIDE DEF Menus!Idle
<1> QED
  BY <1>1, <1>2, <1>3, MenusSettle, OutcomeSettles DEF MenusTyped

LEMMA LookupEntryOutcome ==
  ASSUME MenusTyped, OutcomeInv, NEW t \in Tasks, Menus!LookupEntry(t)
  PROVE  MenusTyped' /\ OutcomeInv'
<1> DEFINE next == Menus!Response(task[t].added, task[t].mode)
<1>1. UNCHANGED <<roles, entries>>
  BY DEF Menus!LookupEntry, Menus!menu
<1>2. CASE Menus!Return(t) /\ (Menus!Smooth(t) \/ Menus!Mishap)
  BY <1>1, <1>2, ReturnOutcome
<1>3. ASSUME NEW i \in DOMAIN entries, next # "idle", Menus!Smooth(t),
             Menus!Now(t, [step |-> next, added |-> task[t].added, mode |-> task[t].mode,
                           role |-> entries[i].role, had |-> entries[i].role \in roles,
                           rest |-> <<>>])
      PROVE  MenusTyped' /\ OutcomeInv'
  <2> DEFINE found == [step |-> next, added |-> task[t].added, mode |-> task[t].mode,
                       role |-> entries[i].role, had |-> entries[i].role \in roles,
                       rest |-> <<>>]
  <2>1. /\ task' = [task EXCEPT ![t] = found]
        /\ found.step = next /\ (found.added <=> task[t].added)
        /\ found.mode = task[t].mode /\ found.role = entries[i].role
        /\ (found.had <=> entries[i].role \in roles)
    BY <1>3 DEF Menus!Now
  <2> HIDE DEF found
  <2>2. PICK job : /\ task' = [task EXCEPT ![t] = job]
                   /\ job.step = next /\ (job.added <=> task[t].added)
                   /\ job.mode = task[t].mode /\ job.role = entries[i].role
                   /\ (job.had <=> entries[i].role \in roles)
    BY <2>1
  <2>3. job.had <=> job.role \in roles'
    BY <1>1, <2>2
  <2>4. job.role \in Menus!EntryRoles'
    BY <1>1, <2>2 DEF Menus!EntryRoles
  <2>5. /\ next \in {"others", "check", "grant", "revoke"}
        /\ next \in {"others", "check", "grant"} <=> task[t].added
        /\ next = "others" => task[t].mode = "unique"
        /\ next = "check" => task[t].mode = "reverse"
        /\ next = "grant" => task[t].mode \notin {"unique", "reverse"}
    BY <1>3 DEF Menus!Response
  <2> HIDE DEF next
  <2>6. Fits(job)'
    <3>1. CASE next = "others"
      BY <2>2, <2>4, <2>5, <3>1 DEF Fits
    <3>2. CASE next = "check"
      BY <2>2, <2>3, <2>5, <3>2 DEF Fits
    <3>3. CASE next = "grant"
      BY <2>2, <2>5, <3>3 DEF Fits
    <3>4. CASE next = "revoke"
      BY <2>2, <2>5, <3>4 DEF Fits
    <3> QED
      BY <2>5, <3>1, <3>2, <3>3, <3>4
  <2>7. job.step \notin {"insert", "strip"}
    BY <2>2, <2>5
  <2> QED
    BY <1>1, <1>3, <2>2, <2>6, <2>7, SmoothAlone, MenusSettle, OutcomeSettles DEF MenusTyped
<1> QED
  BY <1>2, <1>3 DEF Menus!LookupEntry, Menus!Hits

\* The job of a goroutine that goes on with the role it has found.
LEMMA Serves ==
  ASSUME NEW t \in Tasks, NEW step, NEW rest, Menus!Serve(t, step, rest)
  PROVE  \E job : /\ task' = [task EXCEPT ![t] = job]
                  /\ job.step = step /\ job.rest = rest
                  /\ (job.added <=> task[t].added) /\ (job.had <=> task[t].had)
                  /\ job.mode = task[t].mode /\ job.role = task[t].role
<1> DEFINE job == [step |-> step, added |-> task[t].added, mode |-> task[t].mode,
                   role |-> task[t].role, had |-> task[t].had, rest |-> rest]
<1>1. task' = [task EXCEPT ![t] = job]
  BY DEF Menus!Serve, Menus!Now
<1>2. /\ job.step = step /\ job.rest = rest
      /\ (job.added <=> task[t].added) /\ (job.had <=> task[t].had)
      /\ job.mode = task[t].mode /\ job.role = task[t].role
  OBVIOUS
<1> HIDE DEF job
<1> QED
  BY <1>1, <1>2

LEMMA ListOthersOutcome ==
  ASSUME MenusTyped, OutcomeInv, NEW t \in Tasks, Menus!ListOthers(t)
  PROVE  MenusTyped' /\ OutcomeInv'
<1> DEFINE all == [i \in DOMAIN entries |-> entries[i].role]
<1>1. UNCHANGED <<roles, entries>> /\ task[t].step = "others"
  BY DEF Menus!ListOthers, Menus!menu, Menus!At
<1>2. CASE Menus!Return(t) /\ Menus!Mishap
  BY <1>1, <1>2, ReturnOutcome
<1>3. CASE Menus!Serve(t, "strip", all) /\ Menus!Smooth(t)
  <2>1. all \in Seq(MenuRoles) /\ Names(all) = Menus!EntryRoles
    <3>1. entries \in Seq(MenuLines)
      BY DEF MenusTyped
    <3>2. DOMAIN entries = 1..Len(entries) /\ Len(entries) \in Nat
      BY <3>1
    <3>3. \A i \in 1..Len(entries) : entries[i] \in MenuLines
      BY <3>1
    <3>6. \A i \in 1..Len(entries) : entries[i].role \in MenuRoles
      BY <3>3 DEF MenuLines
    <3>4. all \in [1..Len(entries) -> MenuRoles]
      BY <3>2, <3>6
    <3>5. all \in Seq(MenuRoles)
      BY <3>2, <3>4
    <3> QED
      BY <3>2, <3>5 DEF Names, Menus!EntryRoles
  <2> HIDE DEF all
  <2>2. PICK job : /\ task' = [task EXCEPT ![t] = job]
                   /\ job.step = "strip" /\ job.rest = all
                   /\ (job.added <=> task[t].added) /\ (job.had <=> task[t].had)
                   /\ job.mode = task[t].mode /\ job.role = task[t].role
    BY <1>3, Serves
  <2>3. alone[t] => Fits(task[t])
    BY DEF OutcomeInv
  <2>4. Menus!EntryRoles' = Menus!EntryRoles
    BY <1>1 DEF Menus!EntryRoles
  <2>5. alone[t] => Fits(job)'
    BY <1>1, <2>1, <2>2, <2>3, <2>4 DEF Fits
  <2> QED
    BY <1>1, <1>3, <2>1, <2>2, <2>5, SmoothAlone, MenusSettle, OutcomeSettles DEF MenusTyped
<1> QED
  BY <1>2, <1>3 DEF Menus!ListOthers

LEMMA RestShrinks ==
  ASSUME NEW rest \in Seq(MenuRoles), rest # <<>>
  PROVE  /\ Tail(rest) \in Seq(MenuRoles)
         /\ Names(rest) = {Head(rest)} \cup Names(Tail(rest))
<1>1. Len(rest) \in Nat \ {0} /\ Tail(rest) \in Seq(MenuRoles) /\ Len(Tail(rest)) = Len(rest) - 1
  OBVIOUS
<1>2. \A i \in 1..Len(Tail(rest)) : Tail(rest)[i] = rest[i + 1]
  OBVIOUS
<1>3. Head(rest) = rest[1]
  OBVIOUS
<1>4. DOMAIN rest = 1..Len(rest) /\ DOMAIN Tail(rest) = 1..Len(Tail(rest))
  BY <1>1
<1>5. ASSUME NEW i \in 1..Len(rest) PROVE rest[i] \in {Head(rest)} \cup Names(Tail(rest))
  <2>1. CASE i = 1
    BY <2>1, <1>3
  <2>2. CASE i # 1
    <3>1. i - 1 \in 1..Len(Tail(rest)) /\ rest[i] = Tail(rest)[i - 1]
      BY <1>1, <1>2, <2>2
    <3> QED
      BY <3>1, <1>4 DEF Names
  <2> QED
    BY <2>1, <2>2
<1>6. Head(rest) \in Names(rest)
  BY <1>1, <1>3, <1>4 DEF Names
<1>7. ASSUME NEW i \in 1..Len(Tail(rest)) PROVE Tail(rest)[i] \in Names(rest)
  BY <1>1, <1>2, <1>4, <1>7 DEF Names
<1> QED
  BY <1>1, <1>4, <1>5, <1>6, <1>7 DEF Names

LEMMA StripOutcome ==
  ASSUME MenusTyped, OutcomeInv, NEW t \in Tasks, Menus!StripRole(t)
  PROVE  MenusTyped' /\ OutcomeInv'
<1> DEFINE rest == task[t].rest
<1>1. UNCHANGED entries /\ task[t].step = "strip"
  BY DEF Menus!StripRole, Menus!menu, Menus!At
<1>2. rest \in Seq(MenuRoles)
  BY <1>1 DEF MenusTyped
<1>3. alone[t] => Fits(task[t])
  BY DEF OutcomeInv
<1>4. Menus!EntryRoles' = Menus!EntryRoles
  BY <1>1 DEF Menus!EntryRoles
<1>5. Names(<<>>) = {}
  BY DEF Names
<1>6. CASE rest = <<>>
  <2>1. Menus!Serve(t, "grant", rest) /\ Menus!Smooth(t) /\ UNCHANGED roles
    BY <1>6 DEF Menus!StripRole
  <2>2. PICK job : /\ task' = [task EXCEPT ![t] = job]
                   /\ job.step = "grant" /\ job.rest = rest
                   /\ (job.added <=> task[t].added) /\ (job.had <=> task[t].had)
                   /\ job.mode = task[t].mode /\ job.role = task[t].role
    BY <2>1, Serves
  <2>3. alone[t] => Fits(job)'
    BY <1>1, <1>3, <1>4, <1>5, <1>6, <2>1, <2>2 DEF Fits
  <2> QED
    BY <1>1, <2>1, <2>2, <2>3, SmoothAlone, MenusSettle, OutcomeSettles DEF MenusTyped
<1>7. CASE rest # <<>>
  <2> HIDE DEF rest
  <2>1. /\ Tail(rest) \in Seq(MenuRoles)
        /\ Names(rest) = {Head(rest)} \cup Names(Tail(rest))
    BY <1>2, <1>7, RestShrinks
  <2> DEFINE left == Tail(rest)
  <2>2. /\ Menus!Serve(t, "strip", left)
        /\ \/ /\ roles' = IF Menus!Spared(Head(rest), task[t].role) THEN roles
                          ELSE roles \ {Head(rest)}
              /\ Menus!Smooth(t)
           \/ Menus!Mishap
    BY <1>7 DEF Menus!StripRole, rest
  <2>3. PICK job : /\ task' = [task EXCEPT ![t] = job]
                   /\ job.step = "strip" /\ job.rest = left
                   /\ (job.added <=> task[t].added) /\ (job.had <=> task[t].had)
                   /\ job.mode = task[t].mode /\ job.role = task[t].role
    <3> HIDE DEF left
    <3> QED
      BY <2>2, Serves
  <2>4. CASE Menus!Mishap
    BY <1>1, <2>1, <2>3, <2>4, MishapAlone, MenusSettle, OutcomeSettles DEF MenusTyped
  <2>5. CASE /\ roles' = IF Menus!Spared(Head(rest), task[t].role) THEN roles
                         ELSE roles \ {Head(rest)}
             /\ Menus!Smooth(t)
    <3>1. alone[t] => roles \cap Menus!EntryRoles \subseteq {task[t].role} \cup Names(rest)
      BY <1>1, <1>3 DEF Fits, rest
    <3>2. roles' \subseteq roles /\ (Head(rest) \in roles' => Head(rest) = task[t].role)
      BY <2>5 DEF Menus!Spared
    <3>3. alone[t] => roles' \cap Menus!EntryRoles \subseteq {task[t].role} \cup Names(Tail(rest))
      BY <2>1, <3>1, <3>2
    <3>4. alone[t] => task[t].added /\ task[t].mode = "unique" /\ task[t].role \in Menus!EntryRoles
      BY <1>1, <1>3 DEF Fits
    <3>5. alone[t] => Fits(job)'
      BY <1>4, <2>3, <3>3, <3>4 DEF Fits
    <3> QED
      BY <1>1, <2>1, <2>3, <2>5, <3>5, SmoothAlone, MenusSettle, OutcomeSettles DEF MenusTyped
  <2> QED
    BY <2>2, <2>4, <2>5
<1> QED
  BY <1>6, <1>7

LEMMA CheckOutcome ==
  ASSUME MenusTyped, OutcomeInv, NEW t \in Tasks, Menus!CheckRole(t)
  PROVE  MenusTyped' /\ OutcomeInv'
<1>1. UNCHANGED <<roles, entries>> /\ task[t].step = "check"
  BY DEF Menus!CheckRole, Menus!menu, Menus!At
<1>2. PICK next \in {"revoke", "grant"} :
        /\ Menus!Serve(t, next, <<>>)
        /\ \/ Menus!Smooth(t) /\ (next = "revoke" <=> task[t].role \in roles)
           \/ Menus!Mishap
  BY DEF Menus!CheckRole
<1>3. PICK job : /\ task' = [task EXCEPT ![t] = job]
                 /\ job.step = next /\ job.rest = <<>>
                 /\ (job.added <=> task[t].added) /\ (job.had <=> task[t].had)
                 /\ job.mode = task[t].mode /\ job.role = task[t].role
  BY <1>2, Serves
<1>4. alone[t] => Fits(task[t])
  BY DEF OutcomeInv
<1>5. CASE Menus!Mishap
  BY <1>1, <1>2, <1>3, <1>5, MishapAlone, MenusSettle, OutcomeSettles DEF MenusTyped
<1>6. CASE Menus!Smooth(t) /\ (next = "revoke" <=> task[t].role \in roles)
  <2>1. alone[t] => Fits(job)'
    BY <1>1, <1>2, <1>3, <1>4, <1>6 DEF Fits
  <2> QED
    BY <1>1, <1>2, <1>3, <1>6, <2>1, SmoothAlone, MenusSettle, OutcomeSettles DEF MenusTyped
<1> QED
  BY <1>2, <1>5, <1>6

LEMMA ChangeOutcome ==
  ASSUME MenusTyped, OutcomeInv, NEW t \in Tasks, Menus!ChangeRole(t)
  PROVE  MenusTyped' /\ OutcomeInv'
<1>1. UNCHANGED entries /\ task[t].step \in {"grant", "revoke"} /\ Menus!Serve(t, "handled", <<>>)
  BY DEF Menus!ChangeRole, Menus!menu
<1>2. PICK job : /\ task' = [task EXCEPT ![t] = job]
                 /\ job.step = "handled" /\ job.rest = <<>>
                 /\ (job.added <=> task[t].added) /\ (job.had <=> task[t].had)
                 /\ job.mode = task[t].mode /\ job.role = task[t].role
  BY <1>1, Serves
<1>3. alone[t] => Fits(task[t])
  BY DEF OutcomeInv
<1>4. Menus!EntryRoles' = Menus!EntryRoles
  BY <1>1 DEF Menus!EntryRoles
<1>5. CASE Menus!Mishap
  BY <1>1, <1>2, <1>5, MishapAlone, MenusSettle, OutcomeSettles DEF MenusTyped
<1>6. CASE /\ Menus!Smooth(t)
           /\ roles' = IF task[t].step = "grant" THEN roles \cup {task[t].role}
                       ELSE roles \ {task[t].role}
  <2>1. task[t].step = "revoke" /\ alone[t] => Fits(job)'
    BY <1>2, <1>3, <1>6 DEF Fits
  <2>2. task[t].step = "grant" /\ alone[t] => Fits(job)'
    BY <1>2, <1>3, <1>4, <1>6 DEF Fits
  <2> QED
    BY <1>1, <1>2, <1>6, <2>1, <2>2, SmoothAlone, MenusSettle, OutcomeSettles DEF MenusTyped
<1> QED
  BY <1>5, <1>6 DEF Menus!ChangeRole, Menus!At, Menus!Granted

\* A goroutine on its own can trust what it has read.
LEMMA OutcomeHolds == Menus!Spec => [](MenusTyped /\ OutcomeInv)
<1>1. Menus!Init => MenusTyped /\ OutcomeInv
  <2> SUFFICES ASSUME Menus!Init PROVE MenusTyped /\ OutcomeInv
    OBVIOUS
  <2>1. \A t \in Tasks : ~alone[t] /\ task[t].step = "idle"
    BY Zenon DEF Menus!Init, Menus!Idle
  <2>2. task = [t \in Tasks |-> task[t]]
    BY DEF Menus!Init
  <2>3. entries = <<>> \/ entries = Established
    BY DEF Menus!Init
  <2>4. <<>> \in Seq(MenuLines) /\ Established \in Seq(MenuLines)
    BY MenusAssumption DEF MenuLines
  <2> QED
    BY <2>1, <2>2, <2>3, <2>4 DEF MenusTyped, OutcomeInv
<1>2. MenusTyped /\ OutcomeInv /\ [Menus!Next]_Menus!rolesVars => MenusTyped' /\ OutcomeInv'
  <2> SUFFICES ASSUME MenusTyped, OutcomeInv, [Menus!Next]_Menus!rolesVars
               PROVE  MenusTyped' /\ OutcomeInv'
    OBVIOUS
  <2>1. CASE UNCHANGED Menus!rolesVars
    BY <2>1 DEF Menus!rolesVars, Menus!menu, MenusTyped, OutcomeInv, Fits, Menus!EntryRoles
  <2>2. ASSUME NEW t \in Tasks,
               \/ Plain(t) \/ Menus!LookupEntry(t) \/ Menus!ListOthers(t) \/ Menus!StripRole(t)
               \/ Menus!CheckRole(t) \/ Menus!ChangeRole(t)
        PROVE  MenusTyped' /\ OutcomeInv'
    BY <2>2, PlainOutcome, LookupEntryOutcome, ListOthersOutcome, StripOutcome, CheckOutcome,
       ChangeOutcome
  <2> QED
    BY <2>1, <2>2 DEF Menus!Next, Plain
<1> QED
  BY <1>1, <1>2, PTL DEF Menus!Spec

\* A goroutine of the reaction roles that met no failure and no other goroutine
\* leaves the member with the roles the menu's type calls for, however many
\* entries and roles there are: what it has read is still true at each step.
THEOREM RolesComeOutRight == Menus!Spec => []CalmOutcome
<1>1. OutcomeInv => CalmOutcome
  BY DEF OutcomeInv, Fits, CalmOutcome, Menus!CalmOutcome, Menus!At
<1> QED
  BY <1>1, OutcomeHolds, PTL

-----------------------------------------------------------------------------
(* Reaction roles: members who only add reactions                          *)

\* A goroutine that will give the member a role of a "unique" menu.
Serving(t) ==
  \/ task[t].step \in {"menu", "entry"} /\ task[t].emoji \in Menus!EntryEmojis
  \/ task[t].step \in {"others", "strip", "grant"}

\* A job of a goroutine when nothing but reactions was added.
AddsJob(job) ==
  /\ job.step \in {"idle", "menu", "entry"} \cup RoleSteps
  /\ job.step # "idle" => job.added
  /\ mode = "unique" =>
       /\ job.step \in {"entry"} \cup RoleSteps => job.mode = "unique"
       /\ job.step \notin {"check", "revoke"}

AddsInv ==
  onlyAdds =>
    /\ offered = Menus!EntryEmojis
    /\ \A t \in Tasks : AddsJob(task[t])
    /\ mode = "unique" /\ reacted \cap offered # {} =>
         roles # {} \/ \E t \in Tasks : Serving(t)

\* A failure, a command and a reaction taken back end it.
LEMMA AddsGoOn ==
  ASSUME NEW t \in Tasks, onlyAdds',
         \/ Menus!Smooth(t) \/ Menus!Mishap
         \/ \E job : Menus!Start(t, job) /\ (job.step # "menu" \/ ~job.added)
  PROVE  onlyAdds /\ Menus!Smooth(t) /\ ~Menus!Mishap
BY Zenon DEF Menus!Smooth, Menus!Mishap, Menus!Start

\* A goroutine that passes its work on, or had none.
LEMMA AddsSettle ==
  ASSUME MenusTyped, AddsInv, onlyAdds, NEW t \in Tasks,
         NEW job, task' = [task EXCEPT ![t] = job], AddsJob(job),
         UNCHANGED <<offered, entries, reacted, mode>>,
         mode = "unique" /\ roles # {} => roles' # {} \/ job.step \in {"others", "strip", "grant"},
         mode = "unique" /\ Serving(t) =>
           \/ roles' # {}
           \/ job.step = "entry" /\ job.emoji \in Menus!EntryEmojis
           \/ job.step \in {"others", "strip", "grant"}
  PROVE  AddsInv'
<1>1. Menus!EntryEmojis' = Menus!EntryEmojis
  BY DEF Menus!EntryEmojis
<1>2. /\ task'[t] = job
      /\ \A u \in Tasks \ {t} : task'[u] = task[u]
  BY TaskChanges
<1>3. \A u \in Tasks : AddsJob(task[u])'
  BY <1>2 DEF AddsInv, AddsJob
<1>4. \A u \in Tasks \ {t} : Serving(u) => Serving(u)'
  BY <1>1, <1>2 DEF Serving
<1>5. \/ job.step = "entry" /\ job.emoji \in Menus!EntryEmojis
      \/ job.step \in {"others", "strip", "grant"}
      => Serving(t)'
  BY <1>1, <1>2 DEF Serving
<1>6. ASSUME mode = "unique", reacted \cap offered # {}
      PROVE  roles' # {} \/ \E u \in Tasks : Serving(u)'
  <2>1. roles # {} \/ \E u \in Tasks : Serving(u)
    BY <1>6 DEF AddsInv
  <2> QED
    BY <1>4, <1>5, <1>6, <2>1
<1> QED
  BY <1>1, <1>3, <1>6 DEF AddsInv

LEMMA AddsReturn ==
  ASSUME MenusTyped, AddsInv, onlyAdds, NEW t \in Tasks, Menus!Return(t),
         UNCHANGED <<offered, entries, reacted, mode, roles>>, mode = "unique" => ~Serving(t)
  PROVE  AddsInv'
<1>1. task' = [task EXCEPT ![t] = Menus!Idle] /\ Menus!Idle.step = "idle"
  BY DEF Menus!Return, Menus!Now, Menus!Idle
<1>2. AddsJob(Menus!Idle)
  BY <1>1 DEF AddsJob, RoleSteps
<1> HIDE DEF Menus!Idle
<1> QED
  BY <1>1, <1>2, AddsSettle

LEMMA ReactAdds ==
  ASSUME MenusTyped, AddsInv, NEW t \in Tasks, Menus!React(t)
  PROVE  AddsInv'
<1> SUFFICES ASSUME onlyAdds' PROVE AddsInv'
  BY DEF AddsInv
<1>1. PICK e \in Emojis :
        /\ reacted' = IF e \in reacted THEN reacted \ {e} ELSE reacted \cup {e}
        /\ Menus!Start(t, [step |-> "menu", added |-> e \notin reacted, emoji |-> e])
  BY DEF Menus!React
<1>2. UNCHANGED <<offered, entries, mode, roles>> /\ task[t].step = "idle"
  BY <1>1 DEF Menus!React, Menus!menu, Menus!Start, Menus!At
<1> DEFINE new == [step |-> "menu", added |-> e \notin reacted, emoji |-> e]
<1>3. onlyAdds /\ e \notin reacted
  <2>1. new.step = "menu" /\ (new.added <=> e \notin reacted)
    OBVIOUS
  <2>2. Menus!Start(t, new)
    BY <1>1
  <2> HIDE DEF new
  <2> QED
    BY <2>1, <2>2, Zenon DEF Menus!Start
<1>4. PICK job : /\ task' = [task EXCEPT ![t] = job]
                 /\ job.step = "menu" /\ job.emoji = e /\ job.added
  <2>1. task' = [task EXCEPT ![t] = new]
    BY <1>1 DEF Menus!Start, Menus!Now
  <2>2. new.step = "menu" /\ new.emoji = e /\ new.added
    BY <1>3
  <2> HIDE DEF new
  <2> QED
    BY <2>1, <2>2
<1>5. AddsJob(job)
  BY <1>4 DEF AddsJob, RoleSteps
<1>6. Menus!EntryEmojis' = Menus!EntryEmojis
  BY <1>2 DEF Menus!EntryEmojis
<1>7. /\ task'[t] = job
      /\ \A u \in Tasks \ {t} : task'[u] = task[u]
  BY <1>4, TaskChanges
<1>8. \A u \in Tasks : AddsJob(task[u])'
  BY <1>2, <1>3, <1>5, <1>7 DEF AddsInv, AddsJob
<1>9. \A u \in Tasks : Serving(u) => Serving(u)'
  BY <1>2, <1>6, <1>7 DEF Serving
<1>10. e \in offered => Serving(t)'
  BY <1>3, <1>4, <1>6, <1>7 DEF Serving, AddsInv
<1>11. e \notin offered => reacted' \cap offered = reacted \cap offered
  BY <1>1, <1>3
<1> QED
  BY <1>2, <1>3, <1>6, <1>8, <1>9, <1>10, <1>11 DEF AddsInv

LEMMA LookupAdds ==
  ASSUME MenusTyped, AddsInv, NEW t \in Tasks, Menus!LookupMenu(t) \/ Menus!LookupEntry(t)
  PROVE  AddsInv'
<1> SUFFICES ASSUME onlyAdds' PROVE AddsInv'
  BY DEF AddsInv
<1>1. UNCHANGED <<offered, reacted, entries, mode, roles>>
  BY DEF Menus!LookupMenu, Menus!LookupEntry, Menus!menu, Menus!message
<1>2. onlyAdds /\ ~Menus!Mishap
  BY AddsGoOn DEF Menus!LookupMenu, Menus!LookupEntry
<1>3. AddsJob(task[t])
  BY <1>2 DEF AddsInv
<1>4. CASE Menus!LookupMenu(t)
  <2>1. task[t].step = "menu"
    BY <1>4 DEF Menus!LookupMenu, Menus!At
  <2>2. CASE mode = Menus!NoMenu
    <3>1. Menus!Return(t)
      BY <1>2, <1>4, <2>2 DEF Menus!LookupMenu
    <3> QED
      BY <1>1, <1>2, <2>2, <3>1, AddsReturn DEF Menus!NoMenu
  <2>3. CASE mode # Menus!NoMenu
    <3> DEFINE new == [step |-> "entry", added |-> task[t].added,
                       emoji |-> task[t].emoji, mode |-> mode]
    <3>1. task' = [task EXCEPT ![t] = new]
      BY <1>2, <1>4, <2>3 DEF Menus!LookupMenu, Menus!Now
    <3>2. /\ new.step = "entry" /\ (new.added <=> task[t].added)
          /\ new.emoji = task[t].emoji /\ new.mode = mode
      OBVIOUS
    <3> HIDE DEF new
    <3>3. PICK job : /\ task' = [task EXCEPT ![t] = job]
                     /\ job.step = "entry" /\ (job.added <=> task[t].added)
                     /\ job.emoji = task[t].emoji /\ job.mode = mode
      BY <3>1, <3>2
    <3>4. AddsJob(job)
      BY <1>3, <2>1, <3>3 DEF AddsJob, RoleSteps
    <3>5. Serving(t) => job.emoji \in Menus!EntryEmojis
      BY <2>1, <3>3 DEF Serving
    <3> QED
      BY <1>1, <1>2, <3>3, <3>4, <3>5, AddsSettle
  <2> QED
    BY <2>2, <2>3
<1>5. CASE Menus!LookupEntry(t)
  <2> DEFINE next == Menus!Response(task[t].added, task[t].mode)
  <2>1. task[t].step = "entry"
    BY <1>5 DEF Menus!LookupEntry, Menus!At
  <2>2. task[t].added
    BY <1>3, <2>1 DEF AddsJob
  <2>3. /\ next \in {"others", "check", "grant"}
        /\ mode = "unique" => task[t].mode = "unique" /\ next = "others"
    BY <1>3, <2>1, <2>2 DEF AddsJob, Menus!Response
  <2>4. CASE Menus!Hits(task[t].emoji) = {} /\ Menus!Return(t)
    <3>1. ~Serving(t)
      BY <2>1, <2>4 DEF Serving, Menus!EntryEmojis, Menus!Hits
    <3> QED
      BY <1>1, <1>2, <2>4, <3>1, AddsReturn
  <2>5. ASSUME NEW i \in DOMAIN entries,
               Menus!Now(t, [step |-> next, added |-> task[t].added, mode |-> task[t].mode,
                             role |-> entries[i].role, had |-> entries[i].role \in roles,
                             rest |-> <<>>])
        PROVE  AddsInv'
    <3> DEFINE new == [step |-> next, added |-> task[t].added, mode |-> task[t].mode,
                       role |-> entries[i].role, had |-> entries[i].role \in roles,
                       rest |-> <<>>]
    <3>1. /\ task' = [task EXCEPT ![t] = new]
          /\ new.step = next /\ (new.added <=> task[t].added) /\ new.mode = task[t].mode
      BY <2>5 DEF Menus!Now
    <3> HIDE DEF new, next
    <3>2. PICK job : /\ task' = [task EXCEPT ![t] = job]
                     /\ job.step = next /\ (job.added <=> task[t].added)
                     /\ job.mode = task[t].mode
      BY <3>1
    <3>3. AddsJob(job)
      BY <2>2, <2>3, <3>2 DEF AddsJob, RoleSteps
    <3> QED
      BY <1>1, <1>2, <2>3, <3>2, <3>3, AddsSettle
  <2>6. next # "idle"
    BY <2>3
  <2> HIDE DEF next
  <2> QED
    BY <1>2, <1>5, <2>4, <2>5, <2>6 DEF Menus!LookupEntry, Menus!Hits, next
<1> QED
  BY <1>4, <1>5

LEMMA ServeAdds ==
  ASSUME MenusTyped, AddsInv, NEW t \in Tasks,
         \/ Menus!ListOthers(t) \/ Menus!StripRole(t) \/ Menus!CheckRole(t) \/ Menus!ChangeRole(t)
  PROVE  AddsInv'
<1> SUFFICES ASSUME onlyAdds' PROVE AddsInv'
  BY DEF AddsInv
<1>1. UNCHANGED <<offered, reacted, entries, mode>>
  BY DEF Menus!ListOthers, Menus!StripRole, Menus!CheckRole, Menus!ChangeRole, Menus!menu,
         Menus!message
<1>2. onlyAdds /\ ~Menus!Mishap
  BY AddsGoOn DEF Menus!ListOthers, Menus!StripRole, Menus!CheckRole, Menus!ChangeRole
<1>3. AddsJob(task[t])
  BY <1>2 DEF AddsInv
<1>4. ASSUME NEW step \in RoleSteps, NEW rest, Menus!Serve(t, step, rest),
             task[t].step \in RoleSteps, mode = "unique" => step \notin {"check", "revoke"},
             mode = "unique" => roles' # {} \/ step \in {"others", "strip", "grant"}
      PROVE  AddsInv'
  <2>1. PICK job : /\ task' = [task EXCEPT ![t] = job]
                   /\ job.step = step /\ job.rest = rest
                   /\ (job.added <=> task[t].added) /\ (job.had <=> task[t].had)
                   /\ job.mode = task[t].mode /\ job.role = task[t].role
    BY <1>4, Serves
  <2>2. AddsJob(job)
    BY <1>3, <1>4, <2>1 DEF AddsJob, RoleSteps
  <2> QED
    BY <1>1, <1>2, <1>4, <2>1, <2>2, AddsSettle
<1>5. CASE Menus!ListOthers(t)
  <2>1. task[t].step = "others" /\ \E rest : Menus!Serve(t, "strip", rest)
    BY <1>2, <1>5 DEF Menus!ListOthers, Menus!At
  <2> QED
    BY <1>4, <2>1 DEF RoleSteps
<1>6. CASE Menus!StripRole(t)
  <2>1. task[t].step = "strip" /\ \E step \in {"grant", "strip"} : \E rest : Menus!Serve(t, step, rest)
    BY <1>2, <1>6 DEF Menus!StripRole, Menus!At
  <2> QED
    BY <1>4, <2>1 DEF RoleSteps
<1>7. CASE Menus!CheckRole(t)
  <2>1. task[t].step = "check" /\ \E step \in {"grant", "revoke"} : Menus!Serve(t, step, <<>>)
    BY <1>2, <1>7 DEF Menus!CheckRole, Menus!At
  <2>2. mode # "unique"
    BY <1>3, <2>1 DEF AddsJob
  <2> QED
    BY <1>4, <2>1, <2>2 DEF RoleSteps
<1>8. CASE Menus!ChangeRole(t)
  <2>1. task[t].step \in {"grant", "revoke"} /\ Menus!Serve(t, "handled", <<>>)
    BY <1>8 DEF Menus!ChangeRole
  <2>2. mode = "unique" => roles' = roles \cup {task[t].role}
    BY <1>2, <1>3, <1>8, <2>1 DEF Menus!ChangeRole, Menus!Granted, Menus!At, AddsJob
  <2> QED
    BY <1>4, <2>1, <2>2 DEF RoleSteps
<1> QED
  BY <1>5, <1>6, <1>7, <1>8

LEMMA HandledAdds ==
  ASSUME MenusTyped, AddsInv, NEW t \in Tasks, Menus!Handled(t)
  PROVE  AddsInv'
<1> SUFFICES ASSUME onlyAdds' PROVE AddsInv'
  BY DEF AddsInv
<1>1. /\ UNCHANGED <<offered, reacted, entries, mode, roles>>
      /\ Menus!Return(t) /\ task[t].step = "handled"
  BY DEF Menus!Handled, Menus!menu, Menus!message, Menus!At
<1>2. onlyAdds
  BY AddsGoOn DEF Menus!Handled
<1>3. ~Serving(t)
  BY <1>1 DEF Serving
<1> QED
  BY <1>1, <1>2, <1>3, AddsReturn

\* The commands.
LEMMA CommandsEndIt ==
  ASSUME AddsInv, NEW t \in Tasks, Plain(t), ~Menus!React(t), ~Menus!LookupMenu(t),
         ~Menus!Handled(t)
  PROVE  ~onlyAdds'
<1> SUFFICES ASSUME onlyAdds' PROVE FALSE
  OBVIOUS
<1>1. ASSUME NEW job, Menus!Start(t, job), job.step # "menu" PROVE FALSE
  BY <1>1, Zenon DEF Menus!Start
<1>2. CASE Menus!Create(t) \/ Menus!AddEntry(t) \/ Menus!Delete(t) \/ Menus!Edit(t)
  <2>1. \A k, n : [step |-> "create", mode |-> k, name |-> n].step # "menu"
    OBVIOUS
  <2>2. \A e, x : [step |-> "insert", emoji |-> e, role |-> x].step # "menu"
    OBVIOUS
  <2>3. [step |-> IF mode = Menus!NoMenu THEN "drop" ELSE "unpost"].step # "menu"
    OBVIOUS
  <2>4. \A n : [step |-> "update", name |-> n].step # "menu"
    OBVIOUS
  <2> QED
    BY <1>1, <1>2, <2>1, <2>2, <2>3, <2>4
    DEF Menus!Create, Menus!AddEntry, Menus!Delete, Menus!Edit
<1>3. CASE \/ Menus!CreateRow(t) \/ Menus!InsertEntry(t) \/ Menus!OfferEmoji(t)
           \/ Menus!UnpostFails(t) \/ Menus!Unpost(t) \/ Menus!DropMenu(t) \/ Menus!UpdateMenu(t)
           \/ Menus!Reload(t) \/ Menus!Retitle(t)
  <2>1. Menus!Smooth(t) \/ Menus!Mishap
    BY <1>3 DEF Menus!CreateRow, Menus!InsertEntry, Menus!OfferEmoji, Menus!UnpostFails,
       Menus!Unpost, Menus!DropMenu, Menus!UpdateMenu, Menus!Reload, Menus!Retitle
  <2>2. onlyAdds
    BY <2>1, AddsGoOn
  <2>3. task[t].step \in {"create", "insert", "offer", "unpost", "drop", "update", "reload", "retitle"}
    BY <1>3 DEF Menus!CreateRow, Menus!InsertEntry, Menus!OfferEmoji, Menus!UnpostFails,
       Menus!Unpost, Menus!DropMenu, Menus!UpdateMenu, Menus!Reload, Menus!Retitle, Menus!At
  <2> QED
    BY <2>2, <2>3 DEF AddsInv, AddsJob, RoleSteps
<1> QED
  BY <1>2, <1>3 DEF Plain

\* However many members' reactions to a "unique" menu overlap, one of them with
\* an emoji it offers, whoever strips the last role gives one afterwards.
THEOREM OneRoleStays == Menus!Spec => []SomeRoleKept
<1>1. Menus!Init => AddsInv
  <2> SUFFICES ASSUME Menus!Init PROVE AddsInv
    OBVIOUS
  <2>2. \A t \in Tasks : task[t].step = "idle"
    BY DEF Menus!Init, Menus!Idle
  <2>3. reacted = {} /\ offered = Menus!EntryEmojis
    BY DEF Menus!Init, Menus!EntryEmojis
  <2> QED
    BY <2>2, <2>3 DEF AddsInv, AddsJob, RoleSteps
<1>2. MenusTyped /\ AddsInv /\ [Menus!Next]_Menus!rolesVars => AddsInv'
  <2> SUFFICES ASSUME MenusTyped, AddsInv, [Menus!Next]_Menus!rolesVars
               PROVE  AddsInv'
    OBVIOUS
  <2>1. CASE UNCHANGED Menus!rolesVars
    BY <2>1 DEF Menus!rolesVars, Menus!menu, Menus!message, AddsInv, AddsJob, Serving,
                Menus!EntryEmojis
  <2>2. ASSUME NEW t \in Tasks,
               \/ Plain(t) \/ Menus!LookupEntry(t) \/ Menus!ListOthers(t) \/ Menus!StripRole(t)
               \/ Menus!CheckRole(t) \/ Menus!ChangeRole(t)
        PROVE  AddsInv'
    <3>1. CASE Plain(t) /\ ~Menus!React(t) /\ ~Menus!LookupMenu(t) /\ ~Menus!Handled(t)
      BY <3>1, CommandsEndIt DEF AddsInv
    <3>2. CASE Menus!React(t) \/ Menus!LookupMenu(t) \/ Menus!Handled(t)
      BY <3>2, ReactAdds, LookupAdds, HandledAdds
    <3> QED
      BY <2>2, <3>1, <3>2, LookupAdds, ServeAdds
  <2> QED
    BY <2>1, <2>2 DEF Menus!Next, Plain
<1>3. AddsInv => SomeRoleKept
  BY DEF AddsInv, Serving, SomeRoleKept, Menus!SomeRoleKept, Menus!Quiet, Menus!At
<1> QED
  BY <1>1, <1>2, <1>3, OutcomeHolds, PTL DEF Menus!Spec

-----------------------------------------------------------------------------
(* Reaction roles: the menu, its row and its message                       *)

Editing(t) == task[t].step \in {"update", "reload", "retitle"}

\* The row and the message go together, but for goroutines on their way.
RowInv ==
  /\ menuPost \in {"none", "live", "gone"}
  /\ menuPost = "none" => mode = Menus!NoMenu /\ \A t \in Tasks : task[t].step = "idle"
  /\ menuPost = "live" /\ mode = Menus!NoMenu =>
       /\ \E t \in Tasks : task[t].step = "create"
       /\ \A t \in Tasks : task[t].step \in {"idle", "menu", "create"}
  /\ \A t \in Tasks : task[t].step = "create" =>
       /\ menuPost = "live" /\ mode = Menus!NoMenu
       /\ task[t].mode \in Menus!Modes /\ task[t].name = caption
  /\ \A t, u \in Tasks : task[t].step = "create" /\ task[u].step = "create" => t = u
  /\ menuPost = "gone" /\ mode # Menus!NoMenu => \E t \in Tasks : task[t].step = "drop"
  /\ \A t \in Tasks : task[t].step = "drop" => menuPost = "gone"
  /\ mode = Menus!NoMenu => entries = <<>>

\* An entry's emoji is offered, or about to be.
OfferInv ==
  /\ menuPost # "live" => offered = {}
  /\ menuPost = "live" =>
       /\ offered \subseteq Menus!EntryEmojis
       /\ \A e \in Menus!EntryEmojis :
            e \in offered \/ \E t \in Tasks : task[t].step = "offer" /\ task[t].emoji = e
       /\ \A t \in Tasks : task[t].step = "offer" => task[t].emoji \in Menus!EntryEmojis

\* The message shows the row's name, or the only edit is about to see to it.
TitleInv ==
  ~editsMixed =>
    /\ \A t, u \in Tasks : Editing(t) /\ Editing(u) => t = u
    /\ menuPost = "live" /\ mode # Menus!NoMenu =>
         /\ \A t \in Tasks : task[t].step \in {"reload", "retitle"} => task[t].name = name
         /\ caption = name \/ \E t \in Tasks : task[t].step \in {"reload", "retitle"}

ShownInv ==
  /\ mishaps \in Nat
  /\ mishaps = 0 => RowInv /\ OfferInv /\ TitleInv

LEMMA MishapsCount ==
  ASSUME ShownInv, NEW t \in Tasks,
         \/ Menus!Smooth(t) \/ Menus!Mishap \/ \E job : Menus!Start(t, job)
  PROVE  /\ mishaps' \in Nat
         /\ mishaps' = 0 => mishaps = 0 /\ ~Menus!Mishap
<1>1. Menus!Mishap => mishaps' = mishaps + 1
  BY Zenon DEF Menus!Mishap
<1>2. Menus!Smooth(t) \/ (\E job : Menus!Start(t, job)) => mishaps' = mishaps
  BY Zenon DEF Menus!Smooth, Menus!Start
<1> QED
  BY <1>1, <1>2 DEF ShownInv

\* A step that changes no row and no message, and whose goroutine neither was
\* nor will be at a step the row or the message waits for.
Neutral == {"idle", "menu", "entry", "insert", "unpost"} \cup RoleSteps

LEMMA NeutralShown ==
  ASSUME MenusTyped, RowInv, OfferInv, TitleInv,
         NEW t \in Tasks, NEW job, task' = [task EXCEPT ![t] = job],
         UNCHANGED <<menuPost, caption, offered, mode, name, entries, editsMixed>>,
         task[t].step \in Neutral, job.step \in Neutral \cup {"drop"},
         menuPost = "none" => job.step = "idle",
         menuPost = "live" /\ mode = Menus!NoMenu => job.step \in {"idle", "menu"},
         job.step = "drop" => menuPost = "gone"
  PROVE  RowInv' /\ OfferInv' /\ TitleInv'
<1>1. /\ task'[t] = job
      /\ \A u \in Tasks \ {t} : task'[u] = task[u]
  BY TaskChanges
<1>2. Menus!EntryEmojis' = Menus!EntryEmojis
  BY DEF Menus!EntryEmojis
<1>3. RowInv'
  BY <1>1 DEF RowInv, Neutral, RoleSteps
<1>4. OfferInv'
  BY <1>1, <1>2 DEF OfferInv, Neutral, RoleSteps
<1>5. TitleInv'
  BY <1>1 DEF TitleInv, Editing, Neutral, RoleSteps
<1> QED
  BY <1>3, <1>4, <1>5

LEMMA ReturnShown ==
  ASSUME MenusTyped, RowInv, OfferInv, TitleInv, NEW t \in Tasks, Menus!Return(t),
         UNCHANGED <<menuPost, caption, offered, mode, name, entries, editsMixed>>,
         task[t].step \in Neutral
  PROVE  RowInv' /\ OfferInv' /\ TitleInv'
<1>1. task' = [task EXCEPT ![t] = Menus!Idle] /\ Menus!Idle.step = "idle"
  BY DEF Menus!Return, Menus!Now, Menus!Idle
<1> HIDE DEF Menus!Idle
<1> QED
  BY <1>1, NeutralShown DEF Neutral

LEMMA StartShown ==
  ASSUME MenusTyped, RowInv, OfferInv, TitleInv, NEW t \in Tasks, NEW job, Menus!Start(t, job),
         UNCHANGED <<menuPost, caption, offered, mode, name, entries>>,
         job.step \in {"menu", "insert", "unpost", "drop"}, menuPost # "none",
         menuPost = "live" /\ mode = Menus!NoMenu => job.step = "menu",
         job.step = "drop" => menuPost = "gone"
  PROVE  RowInv' /\ OfferInv' /\ TitleInv'
<1>1. task' = [task EXCEPT ![t] = job] /\ task[t].step = "idle"
  BY DEF Menus!Start, Menus!Now, Menus!At
<1>2. ~editsMixed' => ~editsMixed
  BY Zenon DEF Menus!Start
<1>3. editsMixed => editsMixed'
  BY Zenon DEF Menus!Start
<1>4. /\ task'[t] = job
      /\ \A u \in Tasks \ {t} : task'[u] = task[u]
  BY <1>1, TaskChanges
<1>5. Menus!EntryEmojis' = Menus!EntryEmojis
  BY DEF Menus!EntryEmojis
<1>6. RowInv'
  BY <1>1, <1>4 DEF RowInv
<1>7. OfferInv'
  BY <1>1, <1>4, <1>5 DEF OfferInv
<1>8. TitleInv'
  BY <1>1, <1>2, <1>4 DEF TitleInv, Editing
<1> QED
  BY <1>6, <1>7, <1>8

LEMMA ReactShown ==
  ASSUME MenusTyped, RowInv, OfferInv, TitleInv, NEW t \in Tasks, Menus!React(t)
  PROVE  RowInv' /\ OfferInv' /\ TitleInv'
<1>1. PICK e \in Emojis :
        Menus!Start(t, [step |-> "menu", added |-> e \notin reacted, emoji |-> e])
  BY DEF Menus!React
<1>2. UNCHANGED <<menuPost, caption, offered, mode, name, entries>> /\ menuPost = "live"
  BY DEF Menus!React, Menus!menu
<1>3. PICK b : b = (e \notin reacted)
  OBVIOUS
<1>4. Menus!Start(t, [step |-> "menu", added |-> b, emoji |-> e])
  BY <1>1, <1>3
<1>5. [step |-> "menu", added |-> b, emoji |-> e].step = "menu"
  OBVIOUS
<1> QED
  BY <1>2, <1>4, <1>5, StartShown

LEMMA RolesShown ==
  ASSUME MenusTyped, RowInv, OfferInv, TitleInv, NEW t \in Tasks, ~Menus!Mishap,
         \/ Menus!LookupMenu(t) \/ Menus!LookupEntry(t) \/ Menus!ListOthers(t)
         \/ Menus!StripRole(t) \/ Menus!CheckRole(t) \/ Menus!ChangeRole(t) \/ Menus!Handled(t)
  PROVE  RowInv' /\ OfferInv' /\ TitleInv'
<1>1. UNCHANGED <<menuPost, caption, offered, mode, name, entries, editsMixed>>
  BY DEF Menus!LookupMenu, Menus!LookupEntry, Menus!ListOthers, Menus!StripRole,
         Menus!CheckRole, Menus!ChangeRole, Menus!Handled, Menus!menu, Menus!message
<1>2. task[t].step \in {"menu", "entry"} \cup RoleSteps
  BY DEF Menus!LookupMenu, Menus!LookupEntry, Menus!ListOthers, Menus!StripRole,
         Menus!CheckRole, Menus!ChangeRole, Menus!Handled, Menus!At, RoleSteps
<1>3. menuPost # "none"
  BY <1>2 DEF RowInv, RoleSteps
<1>4. CASE Menus!Return(t)
  BY <1>1, <1>2, <1>4, ReturnShown DEF Neutral
<1>5. CASE Menus!LookupMenu(t) /\ ~Menus!Return(t)
  <2>1. mode # Menus!NoMenu
    BY <1>5 DEF Menus!LookupMenu
  <2>2. PICK b, e, m : b = task[t].added /\ e = task[t].emoji /\ m = mode
    OBVIOUS
  <2>3. Menus!Now(t, [step |-> "entry", added |-> b, emoji |-> e, mode |-> m])
    BY <1>5, <2>2 DEF Menus!LookupMenu
  <2>4. [step |-> "entry", added |-> b, emoji |-> e, mode |-> m].step = "entry"
    OBVIOUS
  <2> QED
    BY <1>1, <1>2, <1>3, <2>1, <2>3, <2>4, NeutralShown DEF Menus!Now, Neutral
<1>6. CASE ~Menus!LookupMenu(t) /\ ~Menus!Return(t)
  <2>1. PICK job : task' = [task EXCEPT ![t] = job] /\ job.step \in RoleSteps
    <3>1. CASE Menus!LookupEntry(t)
      <4> DEFINE next == Menus!Response(task[t].added, task[t].mode)
      <4>1. PICK i \in DOMAIN entries :
              Menus!Now(t, [step |-> next, added |-> task[t].added, mode |-> task[t].mode,
                            role |-> entries[i].role, had |-> entries[i].role \in roles,
                            rest |-> <<>>])
        BY <1>6, <3>1 DEF Menus!LookupEntry, Menus!Hits
      <4>2. next \in RoleSteps
        BY <1>6, <3>1 DEF Menus!LookupEntry, Menus!Response, RoleSteps
      <4> DEFINE new == [step |-> next, added |-> task[t].added, mode |-> task[t].mode,
                         role |-> entries[i].role, had |-> entries[i].role \in roles,
                         rest |-> <<>>]
      <4>3. task' = [task EXCEPT ![t] = new] /\ new.step = next
        BY <4>1 DEF Menus!Now
      <4> HIDE DEF new, next
      <4> QED
        BY <4>2, <4>3
    <3>2. CASE \E step \in RoleSteps : \E rest : Menus!Serve(t, step, rest)
      BY <3>2, Serves
    <3>3. Menus!ListOthers(t) => \E rest : Menus!Serve(t, "strip", rest)
      BY DEF Menus!ListOthers
    <3>4. Menus!StripRole(t) => \E step \in {"grant", "strip"} : \E rest : Menus!Serve(t, step, rest)
      BY DEF Menus!StripRole
    <3>5. Menus!CheckRole(t) => \E step \in {"grant", "revoke"} : Menus!Serve(t, step, <<>>)
      BY DEF Menus!CheckRole
    <3>6. Menus!ChangeRole(t) => Menus!Serve(t, "handled", <<>>)
      BY DEF Menus!ChangeRole
    <3>7. ~Menus!Handled(t) /\ (Menus!ListOthers(t) => ~Menus!Return(t))
      BY <1>6 DEF Menus!Handled
    <3> QED
      BY <1>6, <3>1, <3>2, <3>3, <3>4, <3>5, <3>6, <3>7 DEF RoleSteps, Menus!ListOthers
  <2>2. ~(menuPost = "live" /\ mode = Menus!NoMenu)
    <3>1. task[t].step \in {"entry"} \cup RoleSteps
      BY <1>2, <1>6 DEF Menus!LookupEntry, Menus!ListOthers, Menus!StripRole, Menus!CheckRole,
         Menus!ChangeRole, Menus!Handled, Menus!At, RoleSteps
    <3> QED
      BY <3>1 DEF RowInv, RoleSteps
  <2> QED
    BY <1>1, <1>2, <1>3, <2>1, <2>2, NeutralShown DEF Neutral, RoleSteps
<1> QED
  BY <1>4, <1>5, <1>6

LEMMA CreateShown ==
  ASSUME MenusTyped, RowInv, OfferInv, TitleInv, NEW t \in Tasks, Menus!Create(t)
  PROVE  RowInv' /\ OfferInv' /\ TitleInv'
<1>1. PICK m \in Menus!Modes, n \in Titles :
        caption' = n /\ Menus!Start(t, [step |-> "create", mode |-> m, name |-> n])
  BY DEF Menus!Create
<1> DEFINE job == [step |-> "create", mode |-> m, name |-> n]
<1>2. /\ task' = [task EXCEPT ![t] = job]
      /\ job.step = "create" /\ job.mode = m /\ job.name = n
  BY <1>1 DEF Menus!Start, Menus!Now
<1> HIDE DEF job
<1>3. menuPost = "none" /\ menuPost' = "live" /\ UNCHANGED <<offered, mode, name, entries>>
  BY DEF Menus!Create, Menus!menu
<1>4. /\ mode = Menus!NoMenu /\ entries = <<>> /\ offered = {}
      /\ \A u \in Tasks : task[u].step = "idle"
  BY <1>3 DEF RowInv, OfferInv
<1>5. /\ task'[t] = job
      /\ \A u \in Tasks \ {t} : task'[u] = task[u]
  BY <1>2, TaskChanges
<1>6. Menus!EntryEmojis' = {}
  BY <1>3, <1>4 DEF Menus!EntryEmojis
<1>7. RowInv'
  BY <1>1, <1>2, <1>3, <1>4, <1>5 DEF RowInv
<1>8. OfferInv'
  BY <1>2, <1>3, <1>4, <1>5, <1>6 DEF OfferInv
<1>9. TitleInv'
  BY <1>2, <1>3, <1>4, <1>5 DEF TitleInv, Editing
<1> QED
  BY <1>7, <1>8, <1>9

LEMMA CreateRowShown ==
  ASSUME MenusTyped, RowInv, OfferInv, TitleInv, NEW t \in Tasks, Menus!CreateRow(t), ~Menus!Mishap
  PROVE  RowInv' /\ OfferInv' /\ TitleInv'
<1>1. /\ task' = [task EXCEPT ![t] = Menus!Idle] /\ Menus!Idle.step = "idle"
      /\ task[t].step = "create" /\ mode' = task[t].mode /\ name' = task[t].name
      /\ UNCHANGED <<menuPost, caption, offered, entries, editsMixed>>
  BY DEF Menus!CreateRow, Menus!Return, Menus!Now, Menus!Idle, Menus!At, Menus!message
<1> HIDE DEF Menus!Idle
<1>2. /\ menuPost = "live" /\ mode = Menus!NoMenu /\ entries = <<>>
      /\ mode' # Menus!NoMenu /\ name' = caption
      /\ \A u \in Tasks : task[u].step \in {"idle", "menu", "create"}
      /\ \A u \in Tasks : task[u].step = "create" => u = t
  BY <1>1 DEF RowInv, Menus!Modes, Menus!NoMenu
<1>3. /\ task'[t] = Menus!Idle
      /\ \A u \in Tasks \ {t} : task'[u] = task[u]
  BY <1>1, TaskChanges
<1>4. Menus!EntryEmojis' = Menus!EntryEmojis /\ Menus!EntryEmojis = {}
  BY <1>1, <1>2 DEF Menus!EntryEmojis
<1>5. RowInv'
  BY <1>1, <1>2, <1>3 DEF RowInv
<1>6. OfferInv'
  BY <1>1, <1>2, <1>3, <1>4 DEF OfferInv
<1>7. TitleInv'
  BY <1>1, <1>2, <1>3 DEF TitleInv, Editing
<1> QED
  BY <1>5, <1>6, <1>7

LEMMA AddEntryShown ==
  ASSUME MenusTyped, RowInv, OfferInv, TitleInv, NEW t \in Tasks, Menus!AddEntry(t)
  PROVE  RowInv' /\ OfferInv' /\ TitleInv'
<1>1. PICK e \in Emojis, r \in MenuRoles :
        Menus!Start(t, [step |-> "insert", emoji |-> e, role |-> r])
  BY DEF Menus!AddEntry
<1>2. UNCHANGED <<menuPost, caption, offered, mode, name, entries>> /\ mode # Menus!NoMenu
  BY DEF Menus!AddEntry, Menus!menu, Menus!message
<1>3. [step |-> "insert", emoji |-> e, role |-> r].step = "insert"
  OBVIOUS
<1>4. menuPost # "none"
  BY <1>2 DEF RowInv
<1> QED
  BY <1>1, <1>2, <1>3, <1>4, StartShown

LEMMA InsertEntryShown ==
  ASSUME MenusTyped, RowInv, OfferInv, TitleInv, NEW t \in Tasks, Menus!InsertEntry(t),
         ~Menus!Mishap
  PROVE  RowInv' /\ OfferInv' /\ TitleInv'
<1>1. UNCHANGED <<menuPost, caption, offered, mode, name, editsMixed>> /\ task[t].step = "insert"
  BY DEF Menus!InsertEntry, Menus!message, Menus!At
<1>2. CASE mode = Menus!NoMenu
  <2>1. Menus!Return(t) /\ UNCHANGED entries
    BY <1>2 DEF Menus!InsertEntry, Menus!Insert
  <2> QED
    BY <1>1, <2>1, ReturnShown DEF Neutral
<1>3. CASE mode # Menus!NoMenu
  <2>1. PICK e, r : e = task[t].emoji /\ r = task[t].role
    OBVIOUS
  <2>2. /\ entries' = Append(entries, [emoji |-> e, role |-> r])
        /\ Menus!Now(t, [step |-> "offer", emoji |-> e])
    BY <1>3, <2>1 DEF Menus!InsertEntry, Menus!Insert
  <2> DEFINE job == [step |-> "offer", emoji |-> e]
  <2>3. task' = [task EXCEPT ![t] = job] /\ job.step = "offer" /\ job.emoji = e
    BY <2>2 DEF Menus!Now
  <2> HIDE DEF job
  <2>4. Menus!EntryEmojis' = Menus!EntryEmojis \cup {e}
    <3> DEFINE line == [emoji |-> e, role |-> r]
    <3>1. line.emoji = e /\ line \in MenuLines
      BY <1>1, <2>1 DEF MenusTyped, MenuLines
    <3>2. entries' = Append(entries, line)
      BY <2>2
    <3> HIDE DEF line
    <3>3. entries \in Seq(MenuLines)
      BY DEF MenusTyped
    <3>4. /\ Len(entries) \in Nat /\ DOMAIN entries = 1..Len(entries)
          /\ DOMAIN entries' = 1..(Len(entries) + 1)
          /\ \A i \in 1..Len(entries) : entries'[i] = entries[i]
          /\ entries'[Len(entries) + 1] = line
      BY <3>1, <3>2, <3>3
    <3>5. DOMAIN entries' = DOMAIN entries \cup {Len(entries) + 1}
      BY <3>4
    <3>6. \A i \in DOMAIN entries : entries'[i] = entries[i]
      BY <3>4
    <3> QED
      BY <3>1, <3>4, <3>5, <3>6 DEF Menus!EntryEmojis
  <2>5. /\ task'[t] = job
        /\ \A u \in Tasks \ {t} : task'[u] = task[u]
    BY <2>3, TaskChanges
  <2>6. menuPost # "none" /\ ~(menuPost = "live" /\ mode = Menus!NoMenu)
    BY <1>3 DEF RowInv
  <2>7. RowInv'
    BY <1>1, <1>3, <2>3, <2>5, <2>6 DEF RowInv
  <2>8. OfferInv'
    BY <1>1, <2>3, <2>4, <2>5 DEF OfferInv
  <2>9. TitleInv'
    BY <1>1, <2>3, <2>5 DEF TitleInv, Editing
  <2> QED
    BY <2>7, <2>8, <2>9
<1> QED
  BY <1>2, <1>3

LEMMA OfferEmojiShown ==
  ASSUME MenusTyped, RowInv, OfferInv, TitleInv, NEW t \in Tasks, Menus!OfferEmoji(t),
         ~Menus!Mishap
  PROVE  RowInv' /\ OfferInv' /\ TitleInv'
<1>1. /\ task' = [task EXCEPT ![t] = Menus!Idle] /\ Menus!Idle.step = "idle"
      /\ task[t].step = "offer"
      /\ offered' = IF menuPost = "live" THEN offered \cup {task[t].emoji} ELSE offered
      /\ UNCHANGED <<menuPost, caption, mode, name, entries, editsMixed>>
  BY DEF Menus!OfferEmoji, Menus!Return, Menus!Now, Menus!Idle, Menus!At, Menus!menu
<1> HIDE DEF Menus!Idle
<1>2. /\ task'[t] = Menus!Idle
      /\ \A u \in Tasks \ {t} : task'[u] = task[u]
  BY <1>1, TaskChanges
<1>3. Menus!EntryEmojis' = Menus!EntryEmojis
  BY <1>1 DEF Menus!EntryEmojis
<1>4. RowInv'
  BY <1>1, <1>2 DEF RowInv
<1>5. OfferInv'
  BY <1>1, <1>2, <1>3 DEF OfferInv
<1>6. TitleInv'
  BY <1>1, <1>2 DEF TitleInv, Editing
<1> QED
  BY <1>4, <1>5, <1>6

LEMMA DeleteShown ==
  ASSUME MenusTyped, RowInv, OfferInv, TitleInv, NEW t \in Tasks, Menus!Delete(t)
  PROVE  RowInv' /\ OfferInv' /\ TitleInv'
<1>1. PICK k \in {"drop", "unpost"} :
        Menus!Start(t, [step |-> k]) /\ (k = "drop" <=> mode = Menus!NoMenu)
  BY DEF Menus!Delete
<1>2. /\ UNCHANGED <<menuPost, caption, offered, mode, name, entries>>
      /\ mode # Menus!NoMenu \/ menuPost = "gone"
  BY DEF Menus!Delete, Menus!Announced, Menus!menu, Menus!message
<1>3. [step |-> k].step = k
  OBVIOUS
<1>4. menuPost # "none" /\ ~(menuPost = "live" /\ mode = Menus!NoMenu)
  BY <1>2 DEF RowInv
<1> QED
  BY <1>1, <1>2, <1>3, <1>4, StartShown

LEMMA UnpostShown ==
  ASSUME MenusTyped, RowInv, OfferInv, TitleInv, NEW t \in Tasks, Menus!Unpost(t)
  PROVE  RowInv' /\ OfferInv' /\ TitleInv'
<1> DEFINE job == [step |-> "drop"]
<1>1. /\ task' = [task EXCEPT ![t] = job] /\ job.step = "drop"
      /\ task[t].step = "unpost" /\ menuPost' = "gone" /\ offered' = {}
      /\ UNCHANGED <<caption, mode, name, entries, editsMixed>>
  BY DEF Menus!Unpost, Menus!Now, Menus!At, Menus!menu
<1> HIDE DEF job
<1>2. /\ task'[t] = job
      /\ \A u \in Tasks \ {t} : task'[u] = task[u]
  BY <1>1, TaskChanges
<1>3. RowInv'
  BY <1>1, <1>2 DEF RowInv
<1>4. OfferInv'
  BY <1>1 DEF OfferInv
<1>5. TitleInv'
  BY <1>1, <1>2 DEF TitleInv, Editing
<1> QED
  BY <1>3, <1>4, <1>5

LEMMA DropShown ==
  ASSUME MenusTyped, RowInv, OfferInv, TitleInv, NEW t \in Tasks, Menus!DropMenu(t), ~Menus!Mishap
  PROVE  RowInv' /\ OfferInv' /\ TitleInv'
<1>1. /\ task' = [task EXCEPT ![t] = Menus!Idle] /\ Menus!Idle.step = "idle"
      /\ task[t].step = "drop" /\ mode' = Menus!NoMenu /\ entries' = <<>>
      /\ UNCHANGED <<menuPost, caption, offered, name, editsMixed>>
  BY DEF Menus!DropMenu, Menus!Return, Menus!Now, Menus!Idle, Menus!At, Menus!message
<1> HIDE DEF Menus!Idle
<1>2. /\ task'[t] = Menus!Idle
      /\ \A u \in Tasks \ {t} : task'[u] = task[u]
  BY <1>1, TaskChanges
<1>3. menuPost = "gone"
  BY <1>1 DEF RowInv
<1>4. RowInv'
  BY <1>1, <1>2, <1>3 DEF RowInv
<1>5. OfferInv'
  BY <1>1, <1>3 DEF OfferInv
<1>6. TitleInv'
  BY <1>1, <1>2, <1>3 DEF TitleInv, Editing
<1> QED
  BY <1>4, <1>5, <1>6

LEMMA EditShown ==
  ASSUME MenusTyped, RowInv, OfferInv, TitleInv, NEW t \in Tasks, Menus!Edit(t)
  PROVE  RowInv' /\ OfferInv' /\ TitleInv'
<1>1. PICK n \in Titles : Menus!Start(t, [step |-> "update", name |-> n])
  BY DEF Menus!Edit
<1> DEFINE job == [step |-> "update", name |-> n]
<1>2. task' = [task EXCEPT ![t] = job] /\ job.step = "update" /\ task[t].step = "idle"
  BY <1>1 DEF Menus!Start, Menus!Now, Menus!At
<1> HIDE DEF job
<1>3. /\ UNCHANGED <<menuPost, caption, offered, mode, name, entries>>
      /\ mode # Menus!NoMenu \/ menuPost = "gone"
  BY DEF Menus!Edit, Menus!Announced, Menus!menu, Menus!message
<1>4. ~editsMixed' => ~editsMixed /\ \A v \in Tasks : ~Editing(v)
  <2>1. [step |-> "update", name |-> n].step = "update"
    OBVIOUS
  <2> QED
    BY <1>1, <2>1, Zenon DEF Menus!Start, Editing
<1>5. /\ task'[t] = job
      /\ \A u \in Tasks \ {t} : task'[u] = task[u]
  BY <1>2, TaskChanges
<1>6. menuPost # "none" /\ ~(menuPost = "live" /\ mode = Menus!NoMenu)
  BY <1>3 DEF RowInv
<1>7. Menus!EntryEmojis' = Menus!EntryEmojis
  BY <1>3 DEF Menus!EntryEmojis
<1>8. RowInv'
  BY <1>2, <1>3, <1>5, <1>6 DEF RowInv
<1>9. OfferInv'
  BY <1>2, <1>3, <1>5, <1>7 DEF OfferInv
<1>10. TitleInv'
  BY <1>2, <1>3, <1>4, <1>5 DEF TitleInv, Editing
<1> QED
  BY <1>8, <1>9, <1>10

LEMMA UpdateShown ==
  ASSUME MenusTyped, RowInv, OfferInv, TitleInv, NEW t \in Tasks, ~Menus!Mishap,
         Menus!UpdateMenu(t) \/ Menus!Reload(t)
  PROVE  RowInv' /\ OfferInv' /\ TitleInv'
<1>1. PICK k \in {"reload", "retitle"} :
        /\ task[t].step = IF k = "reload" THEN "update" ELSE "reload"
        /\ IF mode = Menus!NoMenu THEN Menus!Return(t) /\ UNCHANGED name
           ELSE /\ Menus!Now(t, [step |-> k, name |-> task[t].name])
                /\ name' = IF k = "reload" THEN task[t].name ELSE name
        /\ UNCHANGED <<menuPost, caption, offered, mode, entries, editsMixed>>
  <2>1. CASE Menus!UpdateMenu(t)
    BY <2>1 DEF Menus!UpdateMenu, Menus!At, Menus!message
  <2>2. CASE Menus!Reload(t)
    BY <2>2 DEF Menus!Reload, Menus!At, Menus!message, Menus!menu
  <2> QED
    BY <2>1, <2>2
<1>2. PICK job : /\ task' = [task EXCEPT ![t] = job]
                 /\ IF mode = Menus!NoMenu THEN job.step = "idle"
                    ELSE job.step = k /\ job.name = task[t].name
  <2>1. CASE mode = Menus!NoMenu
    <3>1. task' = [task EXCEPT ![t] = Menus!Idle] /\ Menus!Idle.step = "idle"
      BY <1>1, <2>1 DEF Menus!Return, Menus!Now, Menus!Idle
    <3> QED
      BY <2>1, <3>1
  <2>2. CASE mode # Menus!NoMenu
    <3> DEFINE new == [step |-> k, name |-> task[t].name]
    <3>1. task' = [task EXCEPT ![t] = new] /\ new.step = k /\ new.name = task[t].name
      BY <1>1, <2>2 DEF Menus!Now
    <3> HIDE DEF new
    <3> QED
      BY <2>2, <3>1
  <2> QED
    BY <2>1, <2>2
<1>3. /\ task'[t] = job
      /\ \A u \in Tasks \ {t} : task'[u] = task[u]
  BY <1>2, TaskChanges
<1>4. menuPost # "none" /\ ~(menuPost = "live" /\ mode = Menus!NoMenu)
  BY <1>1 DEF RowInv
<1>5. Menus!EntryEmojis' = Menus!EntryEmojis
  BY <1>1 DEF Menus!EntryEmojis
<1>6. task[t].step \in {"update", "reload"} /\ job.step \in {"idle", "reload", "retitle"}
  BY <1>1, <1>2
<1>7. RowInv'
  BY <1>1, <1>3, <1>4, <1>6 DEF RowInv
<1>8. OfferInv'
  BY <1>1, <1>3, <1>5, <1>6 DEF OfferInv
<1>9. TitleInv'
  <2> SUFFICES ASSUME ~editsMixed PROVE TitleInv'
    BY <1>1 DEF TitleInv
  <2>1. \A u \in Tasks \ {t} : ~Editing(u)
    BY <1>6 DEF TitleInv, Editing
  <2>2. \A u \in Tasks \ {t} : ~Editing(u)'
    BY <1>3, <2>1 DEF Editing
  <2>3. menuPost = "live" /\ mode # Menus!NoMenu =>
          job.step \in {"reload", "retitle"} /\ job.name = name'
    BY <1>1, <1>2, <1>6 DEF TitleInv
  <2> QED
    BY <1>1, <1>3, <1>4, <2>2, <2>3 DEF TitleInv, Editing
<1> QED
  BY <1>7, <1>8, <1>9

LEMMA RetitleShown ==
  ASSUME MenusTyped, RowInv, OfferInv, TitleInv, NEW t \in Tasks, Menus!Retitle(t), ~Menus!Mishap
  PROVE  RowInv' /\ OfferInv' /\ TitleInv'
<1>1. /\ task' = [task EXCEPT ![t] = Menus!Idle] /\ Menus!Idle.step = "idle"
      /\ task[t].step = "retitle"
      /\ caption' = IF menuPost = "live" THEN task[t].name ELSE caption
      /\ UNCHANGED <<menuPost, offered, mode, name, entries, editsMixed>>
  BY DEF Menus!Retitle, Menus!Return, Menus!Now, Menus!Idle, Menus!At, Menus!menu
<1> HIDE DEF Menus!Idle
<1>2. /\ task'[t] = Menus!Idle
      /\ \A u \in Tasks \ {t} : task'[u] = task[u]
  BY <1>1, TaskChanges
<1>3. ~(menuPost = "live" /\ mode = Menus!NoMenu)
  BY <1>1 DEF RowInv
<1>4. Menus!EntryEmojis' = Menus!EntryEmojis
  BY <1>1 DEF Menus!EntryEmojis
<1>5. RowInv'
  BY <1>1, <1>2, <1>3 DEF RowInv
<1>6. OfferInv'
  BY <1>1, <1>2, <1>4 DEF OfferInv
<1>7. TitleInv'
  BY <1>1, <1>2, <1>3 DEF TitleInv, Editing
<1> QED
  BY <1>5, <1>6, <1>7

LEMMA NextShown ==
  ASSUME MenusTyped, RowInv, OfferInv, TitleInv, NEW t \in Tasks, ~Menus!Mishap,
         \/ Plain(t) \/ Menus!LookupEntry(t) \/ Menus!ListOthers(t) \/ Menus!StripRole(t)
         \/ Menus!CheckRole(t) \/ Menus!ChangeRole(t)
  PROVE  RowInv' /\ OfferInv' /\ TitleInv'
<1>1. ~Menus!UnpostFails(t)
  BY DEF Menus!UnpostFails
<1>2. CASE \/ Menus!LookupMenu(t) \/ Menus!LookupEntry(t) \/ Menus!ListOthers(t)
           \/ Menus!StripRole(t) \/ Menus!CheckRole(t) \/ Menus!ChangeRole(t) \/ Menus!Handled(t)
  BY <1>2, RolesShown
<1>3. CASE \/ Menus!React(t) \/ Menus!Create(t) \/ Menus!CreateRow(t) \/ Menus!AddEntry(t)
           \/ Menus!InsertEntry(t) \/ Menus!OfferEmoji(t)
  BY <1>3, ReactShown, CreateShown, CreateRowShown, AddEntryShown, InsertEntryShown, OfferEmojiShown
<1>4. CASE \/ Menus!Delete(t) \/ Menus!Unpost(t) \/ Menus!DropMenu(t)
           \/ Menus!Edit(t) \/ Menus!UpdateMenu(t) \/ Menus!Reload(t) \/ Menus!Retitle(t)
  BY <1>4, DeleteShown, UnpostShown, DropShown, EditShown, UpdateShown, RetitleShown
<1> QED
  BY <1>1, <1>2, <1>3, <1>4 DEF Plain

\* Whatever commands overlap, as long as nothing fails: a menu has a row exactly
\* if its message is there, the message offers the emojis of the entries and
\* shows the name of the row, once everybody is done.
THEOREM MenusMatch == Menus!Spec => []MenuShown
<1>1. Menus!Init => ShownInv
  <2> SUFFICES ASSUME Menus!Init PROVE mishaps \in Nat /\ RowInv /\ OfferInv /\ TitleInv
    BY DEF ShownInv
  <2>1. \A t \in Tasks : task[t].step = "idle"
    BY DEF Menus!Init, Menus!Idle
  <2>2. /\ mishaps = 0 /\ name = caption /\ menuPost \in {"none", "live"}
        /\ menuPost = "none" => mode = Menus!NoMenu /\ entries = <<>> /\ offered = {}
        /\ menuPost = "live" => mode \in Menus!Modes /\ offered = Menus!EntryEmojis
    BY DEF Menus!Init
  <2>3. RowInv
    BY <2>1, <2>2 DEF RowInv, Menus!Modes, Menus!NoMenu
  <2>4. OfferInv
    BY <2>1, <2>2 DEF OfferInv
  <2>5. TitleInv
    BY <2>1, <2>2 DEF TitleInv, Editing
  <2> QED
    BY <2>2, <2>3, <2>4, <2>5
<1>2. MenusTyped /\ ShownInv /\ [Menus!Next]_Menus!rolesVars => ShownInv'
  <2> SUFFICES ASSUME MenusTyped, ShownInv, [Menus!Next]_Menus!rolesVars
               PROVE  ShownInv'
    OBVIOUS
  <2>1. CASE UNCHANGED Menus!rolesVars
    BY <2>1 DEF Menus!rolesVars, Menus!menu, Menus!message, ShownInv, RowInv, OfferInv, TitleInv,
                Editing, Menus!EntryEmojis
  <2>2. ASSUME NEW t \in Tasks,
               \/ Plain(t) \/ Menus!LookupEntry(t) \/ Menus!ListOthers(t) \/ Menus!StripRole(t)
               \/ Menus!CheckRole(t) \/ Menus!ChangeRole(t)
        PROVE  ShownInv'
    <3>1. Menus!Smooth(t) \/ Menus!Mishap \/ \E job : Menus!Start(t, job)
      BY <2>2, PlainAlone DEF Menus!LookupEntry, Menus!ListOthers, Menus!StripRole,
         Menus!CheckRole, Menus!ChangeRole
    <3>2. mishaps' \in Nat
      BY <3>1, MishapsCount
    <3>3. mishaps' = 0 => RowInv' /\ OfferInv' /\ TitleInv'
      BY <2>2, <3>1, MishapsCount, NextShown DEF ShownInv
    <3> QED
      BY <3>2, <3>3 DEF ShownInv
  <2> QED
    BY <2>1, <2>2 DEF Menus!Next, Plain
<1>3. ShownInv => MenuShown
  <2> SUFFICES ASSUME ShownInv, \A t \in Tasks : task[t].step = "idle", mishaps = 0
               PROVE  /\ (mode # Menus!NoMenu) <=> (menuPost = "live")
                      /\ offered = Menus!EntryEmojis
                      /\ menuPost = "live" /\ ~editsMixed => caption = name
    BY DEF MenuShown, Menus!MenuShown, Menus!Quiet, Menus!At
  <2>1. RowInv /\ OfferInv /\ TitleInv
    BY DEF ShownInv
  <2>2. (mode # Menus!NoMenu) <=> (menuPost = "live")
    BY <2>1 DEF RowInv
  <2>3. menuPost # "live" => Menus!EntryEmojis = {}
    BY <2>1, <2>2 DEF RowInv, Menus!EntryEmojis
  <2> QED
    BY <2>1, <2>2, <2>3 DEF OfferInv, TitleInv
<1> QED
  BY <1>1, <1>2, <1>3, OutcomeHolds, PTL DEF Menus!Spec
=============================================================================
