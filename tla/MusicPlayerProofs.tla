-------------------------- MODULE MusicPlayerProofs --------------------------
(***************************************************************************)
(* Theorems about MusicPlayer, for any number of entries, players and      *)
(* goroutines.  The inductive invariant is the conjunction of the three    *)
(* invariants the safety run checks.                                       *)
(***************************************************************************)
EXTENDS MusicPlayer, QueueLemmas

IInv == TypeOK /\ EntriesDistinct /\ StartedOnce

-----------------------------------------------------------------------------
(* Queue operators                                                         *)

\* MoveByID permutes the queue: nothing is lost, doubled or let in.
LEMMA MovedElements ==
  ASSUME NEW S, NEW q \in Seq(S), IsInjective(q), NEW from \in DOMAIN q, NEW to \in Int
  PROVE  /\ Moved(q, from, to) \in Seq(S)
         /\ IsInjective(Moved(q, from, to))
         /\ ToSet(Moved(q, from, to)) = ToSet(q)
<1> DEFINE r == RemoveAt(q, from)
           at == Clamp(to, Len(q)) + 1
<1>1. Len(q) \in Nat /\ from \in 1..Len(q) /\ q[from] \in S /\ q[from] \in ToSet(q)
  BY LenProperties DEF ToSet
<1>2. /\ r \in Seq(S) /\ Len(r) = Len(q) - 1 /\ IsInjective(r)
      /\ ToSet(r) = ToSet(q) \ {q[from]}
  BY RemoveAtElements
<1>3. at \in 1..(Len(r) + 1)
  BY <1>1, <1>2 DEF Clamp
<1>4. q[from] \notin ToSet(r)  BY <1>2
<1>5. Moved(q, from, to) = InsertAt(r, at, q[from])  BY DEF Moved
<1>. HIDE DEF r, at
<1>6. /\ InsertAt(r, at, q[from]) \in Seq(S)
      /\ IsInjective(InsertAt(r, at, q[from]))
      /\ ToSet(InsertAt(r, at, q[from])) = ToSet(r) \cup {q[from]}
  BY <1>1, <1>2, <1>3, <1>4, InsertAtElements
<1>. QED  BY <1>1, <1>2, <1>5, <1>6

\* A batch given to Add is a non-empty sequence of distinct, fresh entries.
LEMMA BatchFresh ==
  ASSUME NEW batch \in Batches
  PROVE  /\ batch \in Seq(Entries \ minted)
         /\ batch # << >>
         /\ IsInjective(batch)
         /\ ToSet(batch) \subseteq Entries \ minted
<1>1. PICK n \in 1..MaxBatch : batch \in [1..n -> Entries \ minted]
  BY DEF Batches
<1>2. IsInjective(batch)  BY DEF Batches
<1>3. n \in Nat /\ n # 0  BY MusicAssumption
<1>4. batch \in Seq(Entries \ minted)  BY <1>1, <1>3
<1>5. 1 \in DOMAIN batch  BY <1>1, <1>3
<1>6. batch # << >>  BY <1>5
<1>7. ToSet(batch) \subseteq Entries \ minted  BY <1>1 DEF ToSet
<1>. QED  BY <1>2, <1>4, <1>6, <1>7

-----------------------------------------------------------------------------
(* Type correctness                                                        *)

\* A queue over the old entries is a queue over any larger set of them.
LEMMA QueueMonotonic ==
  ASSUME NEW M, NEW N, M \subseteq N, NEW q \in Seq(M)
  PROVE  q \in Seq(N)
BY SeqMonotonic

\* Each step keeps every variable within its type.
LEMMA TypeStep == IInv /\ [Next]_vars => TypeOK'
<1>. SUFFICES ASSUME TypeOK, \A p \in Players : IsInjective(queue[p]), [Next]_vars
              PROVE  TypeOK'
  BY DEF IInv, EntriesDistinct
<1>. USE DEF TypeOK
<1>1. ASSUME NEW t \in Threads, BeginAdd(t) PROVE TypeOK'
  <2>1. "join" \in Steps  BY DEF Steps
  <2>2. CASE registered # NoPlayer
    BY <1>1, <2>1, <2>2, MusicAssumption DEF BeginAdd, Call, Goto, lavalinkVars
  <2>3. CASE registered = NoPlayer
    BY <1>1, <2>1, <2>3, MusicAssumption DEF BeginAdd, Call, Goto, lavalinkVars
  <2>. QED  BY <2>2, <2>3
<1>2. ASSUME NEW t \in Threads, JoinVoice(t) PROVE TypeOK'
  BY <1>2 DEF JoinVoice, Goto, Return, playerVars, lavalinkVars, Steps
<1>3. ASSUME NEW t \in Threads, Enqueue(t) PROVE TypeOK'
  <2> DEFINE p == hold[t]
  <2>1. p \in made /\ p \in Players  BY <1>3 DEF Enqueue
  <2>2. PICK batch \in Batches :
          /\ minted' = minted \cup ToSet(batch)
          /\ \/ /\ current[p] = NoTrack
                /\ current' = [current EXCEPT ![p] = Head(batch)]
                /\ queue' = [queue EXCEPT ![p] = Tail(batch) \o @]
                /\ Unlock(t, "start", Head(batch))
             \/ /\ current[p] # NoTrack
                /\ \/ queue' = [queue EXCEPT ![p] = @ \o batch]
                   \/ queue' = [queue EXCEPT ![p] = batch \o @]
                /\ Return(t)
                /\ UNCHANGED current
    BY <1>3 DEF Enqueue
  <2>3. /\ batch \in Seq(Entries \ minted) /\ batch # << >>
        /\ ToSet(batch) \subseteq Entries
    BY BatchFresh
  <2>4. minted' \subseteq Entries /\ minted \subseteq minted'  BY <2>2, <2>3
  <2>5. batch \in Seq(minted')
    <3>1. batch \in Seq(ToSet(batch))  BY <2>3, SeqOfRange DEF Range, ToSet
    <3>2. ToSet(batch) \subseteq minted'  BY <2>2
    <3>. QED  BY <3>1, <3>2, QueueMonotonic
  <2>6. Tail(batch) \in Seq(minted') /\ Head(batch) \in minted'
    BY <2>3, <2>5, TailElements
  <2>7. \A q \in Players : queue[q] \in Seq(minted')
    BY <2>4, QueueMonotonic
  <2>8. /\ Tail(batch) \o queue[p] \in Seq(minted')
        /\ queue[p] \o batch \in Seq(minted')
        /\ batch \o queue[p] \in Seq(minted')
    BY <2>1, <2>5, <2>6, <2>7, ConcatElements
  <2>9. queue' \in [Players -> Seq(minted')]
    BY <2>1, <2>2, <2>7, <2>8
  <2>10. current' \in [Players -> minted' \cup {NoTrack}]
    BY <2>1, <2>2, <2>4, <2>6
  <2>11. /\ UNCHANGED <<registered, made, open, playing, paused, ended, asked>>
         /\ pc[t] = "enqueue"
    BY <1>3 DEF Enqueue, lavalinkVars
  <2>12. /\ pc' \in [Threads -> Steps] /\ hold' \in [Threads -> made' \cup {NoPlayer}]
         /\ pending' \in [Threads -> minted' \cup {NoTrack}]
         /\ \A u \in Threads :
              /\ pc'[u] # "idle" => hold'[u] \in made'
              /\ pending'[u] # NoTrack => pc'[u] \in {"start", "update"}
    <3>1. CASE Unlock(t, "start", Head(batch))
      BY <3>1, <2>4, <2>6, <2>11 DEF Unlock, Goto, Steps
    <3>2. CASE Return(t)
      BY <3>2, <2>4, <2>11 DEF Return, Goto, Steps
    <3>. QED  BY <2>2, <3>1, <3>2
  <2>. QED  BY <2>4, <2>9, <2>10, <2>11, <2>12
<1>4. ASSUME NEW t \in Threads, SendUpdate(t) PROVE TypeOK'
  <2>1. asked' = asked \cup ({pending[t]} \ {NoTrack}) /\ asked' \subseteq minted
    BY <1>4 DEF SendUpdate
  <2>2. playing' \in asked' \cup {NoTrack} /\ ended' \in 0..MaxEnded
    BY <1>4, <2>1, MusicAssumption DEF SendUpdate
  <2>3. Return(t) \/ Unlock(t, "giveUp", NoTrack)
    BY <1>4 DEF SendUpdate
  <2>4. UNCHANGED <<registered, made, minted, queue, current, open, paused>>
    BY <1>4 DEF SendUpdate, playerVars
  <2>5. pc[t] \in {"start", "update"}  BY <1>4 DEF SendUpdate
  <2>. QED  BY <2>1, <2>2, <2>3, <2>4, <2>5 DEF Return, Unlock, Goto, Steps
<1>5. ASSUME NEW t \in Threads, GiveUp(t) PROVE TypeOK'
  BY <1>5 DEF GiveUp, Return, Goto, lavalinkVars, Steps
<1>6. ASSUME NEW t \in Threads, NEW op \in GetOps, BeginCall(t, op) PROVE TypeOK'
  <2>1. op \in Steps  BY DEF Steps
  <2>. QED  BY <1>6, <2>1 DEF BeginCall, Call, Goto, playerVars, lavalinkVars
<1>7. ASSUME NEW p \in Players, queue[p] # << >>
      PROVE  Head(queue[p]) \in minted /\ Tail(queue[p]) \in Seq(minted)
  BY <1>7, HeadTailProperties
<1>8. ASSUME NEW t \in Threads, Skip(t) PROVE TypeOK'
  <2>1. hold[t] \in Players /\ pc[t] = "skip"  BY <1>8 DEF Skip
  <2>2. CASE Return(t) /\ UNCHANGED playerVars
    BY <1>8, <2>2 DEF Skip, Return, Goto, playerVars, lavalinkVars, Steps
  <2>3. CASE SetIdle(hold[t]) /\ Unlock(t, "update", NoTrack)
    BY <1>8, <2>1, <2>3 DEF Skip, SetIdle, Unlock, Goto, lavalinkVars, Steps
  <2>4. CASE Pop(hold[t]) /\ Unlock(t, "update", Head(queue[hold[t]]))
    BY <1>7, <1>8, <2>1, <2>4 DEF Skip, Pop, Unlock, Goto, lavalinkVars, Steps
  <2>. QED  BY <1>8, <2>2, <2>3, <2>4 DEF Skip
<1>9. ASSUME NEW t \in Threads, Stop(t) PROVE TypeOK'
  BY <1>9 DEF Stop, ClearPlayer, Unlock, Goto, lavalinkVars, Steps
<1>10. ASSUME NEW t \in Threads, RemoveByID(t) PROVE TypeOK'
  <2> DEFINE p == hold[t]
  <2>1. p \in Players /\ pc[t] = "remove" /\ Return(t)
    BY <1>10 DEF RemoveByID
  <2>2. UNCHANGED <<registered, made, minted, current, open, playing, paused, ended, asked>>
    BY <1>10 DEF RemoveByID, lavalinkVars
  <2>3. queue' \in [Players -> Seq(minted)]
    <3>1. CASE UNCHANGED queue  BY <3>1
    <3>2. CASE \E i \in DOMAIN queue[p] : queue' = [queue EXCEPT ![p] = Without(@, i)]
      <4>1. PICK i \in DOMAIN queue[p] : queue' = [queue EXCEPT ![p] = Without(@, i)]
        BY <3>2
      <4>2. i \in 1..Len(queue[p]) /\ Len(queue[p]) \in Nat  BY <2>1, LenProperties
      <4>3. /\ SubSeq(queue[p], 1, i-1) \in Seq(minted)
            /\ SubSeq(queue[p], i+1, Len(queue[p])) \in Seq(minted)
        BY <2>1, <4>2, SubSeqElements
      <4>4. Without(queue[p], i) \in Seq(minted)
        BY <4>3, ConcatProperties DEF Without, RemoveAt
      <4>. QED  BY <2>1, <4>1, <4>4
    <3>. QED  BY <1>10, <3>1, <3>2 DEF RemoveByID
  <2>. QED  BY <2>1, <2>2, <2>3 DEF Return, Goto, Steps
<1>11. ASSUME NEW t \in Threads, MoveByID(t) PROVE TypeOK'
  <2> DEFINE p == hold[t]
  <2>1. p \in Players /\ pc[t] = "move" /\ Return(t)
    BY <1>11 DEF MoveByID
  <2>2. UNCHANGED <<registered, made, minted, current, open, playing, paused, ended, asked>>
    BY <1>11 DEF MoveByID, lavalinkVars
  <2>3. queue' \in [Players -> Seq(minted)]
    <3>1. CASE UNCHANGED queue  BY <3>1
    <3>2. CASE \E i \in DOMAIN queue[p], to \in MoveTargets :
                 queue' = [queue EXCEPT ![p] = Moved(@, i, to)]
      <4>1. PICK i \in DOMAIN queue[p], to \in MoveTargets :
              queue' = [queue EXCEPT ![p] = Moved(@, i, to)]
        BY <3>2
      <4>2. Moved(queue[p], i, to) \in Seq(minted)
        BY <2>1, MovedElements, MusicAssumption
      <4>. QED  BY <2>1, <4>1, <4>2
    <3>. QED  BY <1>11, <3>1, <3>2 DEF MoveByID
  <2>. QED  BY <2>1, <2>2, <2>3 DEF Return, Goto, Steps
<1>12. ASSUME NEW t \in Threads, NEW op \in {"pausing", "resuming"}, NEW to \in BOOLEAN,
              SetPaused(t, op, to)
       PROVE  TypeOK'
  BY <1>12 DEF SetPaused, Return, Goto, playerVars, Steps
<1>25. ASSUME NEW t \in Threads, NEW op \in {"pause", "resume"},
              NEW next \in {"pausing", "resuming"}, CheckPaused(t, op, next)
       PROVE  TypeOK'
  <2>1. CASE Return(t)
    BY <1>25, <2>1 DEF CheckPaused, Return, Goto, playerVars, lavalinkVars, Steps
  <2>2. CASE Goto(t, next) /\ UNCHANGED <<hold, pending>>
    BY <1>25, <2>2 DEF CheckPaused, Goto, playerVars, lavalinkVars, Steps
  <2>. QED  BY <1>25, <2>1, <2>2 DEF CheckPaused
<1>13. ASSUME NEW t \in Threads, BeginLeave(t) PROVE TypeOK'
  <2>1. "clear" \in Steps  BY DEF Steps
  <2>. QED  BY <1>13, <2>1 DEF BeginLeave, Call, Goto, lavalinkVars
<1>14. ASSUME NEW t \in Threads, LeaveClear(t) PROVE TypeOK'
  BY <1>14 DEF LeaveClear, ClearPlayer, Goto, lavalinkVars, Steps
<1>15. ASSUME NEW t \in Threads, LeaveDestroy(t) PROVE TypeOK'
  BY <1>15 DEF LeaveDestroy, Return, Goto, playerVars, Steps
<1>16. ASSUME NEW t \in Threads, DeliverEnd(t) PROVE TypeOK'
  <2>1. "advance" \in Steps /\ ended' \in 0..MaxEnded
    BY <1>16, MusicAssumption DEF DeliverEnd, Steps
  <2>. QED  BY <1>16, <2>1 DEF DeliverEnd, Call, Goto, playerVars
<1>17. ASSUME NEW t \in Threads, Advance(t) PROVE TypeOK'
  <2>1. hold[t] \in Players /\ pc[t] = "advance"  BY <1>17 DEF Advance
  <2>2. CASE SetIdle(hold[t]) /\ Return(t)
    BY <1>17, <2>1, <2>2 DEF Advance, SetIdle, Return, Goto, lavalinkVars, Steps
  <2>3. CASE Pop(hold[t]) /\ Unlock(t, "update", Head(queue[hold[t]]))
    BY <1>7, <1>17, <2>1, <2>3 DEF Advance, Pop, Unlock, Goto, lavalinkVars, Steps
  <2>. QED  BY <1>17, <2>2, <2>3 DEF Advance
<1>18. ASSUME TrackEnds \/ TrackSticks PROVE TypeOK'
  <2>1. ended' \in 0..MaxEnded
    BY <1>18, MusicAssumption DEF TrackEnds, TrackSticks
  <2>. QED  BY <1>18, <2>1 DEF TrackEnds, TrackSticks, playerVars, threadVars
<1>19. ASSUME NEW t \in Threads, BeginShutdown(t) \/ Unregister(t) \/ CloseLink(t)
       PROVE  TypeOK'
  <2>1. CASE BeginShutdown(t)
    BY <1>19, <2>1, MusicAssumption DEF BeginShutdown, Call, Goto, playerVars, Steps
  <2>2. CASE Unregister(t)
    BY <1>19, <2>2, MusicAssumption DEF Unregister, Goto, lavalinkVars, Steps
  <2>3. CASE CloseLink(t)
    BY <1>19, <2>3, MusicAssumption DEF CloseLink, Return, Goto, playerVars, Steps
  <2>. QED  BY <1>19, <2>1, <2>2, <2>3
<1>20. CASE WebSocketClosed
  BY <1>20 DEF WebSocketClosed, lavalinkVars, threadVars
<1>21. CASE UNCHANGED vars
  BY <1>21 DEF vars, playerVars, lavalinkVars, threadVars
<1>22. ASSUME NEW t \in Threads, Continue(t) PROVE TypeOK'
  BY <1>22, <1>2, <1>3, <1>4, <1>5, <1>8, <1>9, <1>10, <1>11, <1>12, <1>14, <1>15, <1>17,
     <1>19, <1>25 DEF Continue
<1>23. ASSUME NEW t \in Callers,
              \/ BeginAdd(t) \/ BeginLeave(t) \/ BeginShutdown(t) \/ CloseLink(t)
              \/ \E op \in Ops \cap GetOps : BeginCall(t, op)
       PROVE  TypeOK'
  <2>1. t \in Threads  BY DEF Threads
  <2>. QED  BY <1>23, <2>1, <1>1, <1>6, <1>13, <1>19
<1>24. ASSUME NEW t \in Listeners, DeliverEnd(t) PROVE TypeOK'
  <2>1. t \in Threads  BY DEF Threads
  <2>. QED  BY <1>24, <2>1, <1>16
<1>. QED
  BY <1>18, <1>20, <1>21, <1>22, <1>23, <1>24 DEF Next

-----------------------------------------------------------------------------
(* What a step can do to the entries.  Every action of Next is of one of   *)
(* five kinds, and the proofs that follow argue by kind.                   *)

\* Entries leave queues and current; nothing enters, is sent or is minted.
Shrinks ==
  /\ UNCHANGED <<minted, asked, pending>>
  /\ \A p \in Players : /\ IsInjective(queue[p]')
                        /\ ToSet(queue[p]') \subseteq ToSet(queue[p])
                        /\ current[p]' \in {current[p], NoTrack}

\* The head of a queue becomes current, and its update is on its way.
PopsHead(t, p) ==
  /\ queue[p] # << >>
  /\ pending[t] = NoTrack
  /\ queue' = [queue EXCEPT ![p] = Tail(queue[p])]
  /\ current' = [current EXCEPT ![p] = Head(queue[p])]
  /\ pending' = [pending EXCEPT ![t] = Head(queue[p])]
  /\ UNCHANGED <<minted, asked>>

\* The update of a goroutine has been sent.
Sends(t) ==
  /\ asked' = asked \cup ({pending[t]} \ {NoTrack})
  /\ pending' = [pending EXCEPT ![t] = NoTrack]
  /\ UNCHANGED <<minted, queue, current>>

\* An idle player starts a batch.
Starts(t, p, batch) ==
  /\ minted' = minted \cup ToSet(batch)
  /\ pending[t] = NoTrack
  /\ current[p] = NoTrack
  /\ current' = [current EXCEPT ![p] = Head(batch)]
  /\ queue' = [queue EXCEPT ![p] = Tail(batch) \o queue[p]]
  /\ pending' = [pending EXCEPT ![t] = Head(batch)]
  /\ UNCHANGED asked

\* A busy player queues a batch at either end.
Joins(p, batch) ==
  /\ minted' = minted \cup ToSet(batch)
  /\ \/ queue' = [queue EXCEPT ![p] = queue[p] \o batch]
     \/ queue' = [queue EXCEPT ![p] = batch \o queue[p]]
  /\ UNCHANGED <<current, asked, pending>>

StepKind ==
  \/ Shrinks
  \/ \E t \in Threads : Sends(t)
  \/ \E t \in Threads, p \in Players : PopsHead(t, p)
  \/ \E t \in Threads, p \in Players, batch \in Batches : Starts(t, p, batch)
  \/ \E p \in Players, batch \in Batches : Joins(p, batch)

\* Every step is of one of five kinds, by what it does to queues, current tracks
\* and updates; the invariants need no more of it.
LEMMA StepKinds == IInv /\ [Next]_vars => StepKind
<1>. SUFFICES ASSUME TypeOK, \A p \in Players : IsInjective(queue[p]), [Next]_vars
              PROVE  StepKind
  BY DEF IInv, EntriesDistinct
<1>1. UNCHANGED <<minted, asked, pending, queue, current>> => Shrinks
  BY DEF Shrinks
<1>2. \A t \in Threads : pc[t] \notin {"start", "update"} =>
        /\ pending[t] = NoTrack
        /\ [pending EXCEPT ![t] = NoTrack] = pending
  BY DEF TypeOK
<1>3. \A t \in Threads : pc[t] # "idle" => hold[t] \in Players
  BY DEF TypeOK
<1>4. ASSUME NEW t \in Threads, NEW p \in Players, SetIdle(p), UNCHANGED <<asked, pending>>
      PROVE  Shrinks
  BY <1>4 DEF SetIdle, Shrinks, TypeOK
<1>5. ASSUME NEW t \in Threads, NEW p \in Players, ClearPlayer(p), UNCHANGED <<asked, pending>>
      PROVE  Shrinks
  <2>1. ToSet(<< >>) = {} /\ IsInjective(<< >>)  BY DEF ToSet, IsInjective
  <2>. QED  BY <1>5, <2>1 DEF ClearPlayer, Shrinks, TypeOK
<1>6. ASSUME NEW t \in Threads, NEW p \in Players, Pop(p), pending[t] = NoTrack,
             Unlock(t, "update", Head(queue[p])), UNCHANGED asked
      PROVE  PopsHead(t, p)
  BY <1>6 DEF Pop, Unlock, PopsHead, TypeOK
<1>7. ASSUME NEW t \in Threads, Continue(t) PROVE StepKind
  <2>1. CASE JoinVoice(t)
    BY <2>1, <1>1, <1>2 DEF JoinVoice, Return, playerVars, lavalinkVars, StepKind
  <2>2. CASE Enqueue(t)
    <3>1. /\ hold[t] \in Players /\ pending[t] = NoTrack
          /\ [pending EXCEPT ![t] = NoTrack] = pending
      BY <2>2, <1>2, <1>3 DEF Enqueue
    <3>2. PICK batch \in Batches :
            \/ Starts(t, hold[t], batch)
            \/ Joins(hold[t], batch)
      BY <2>2, <3>1 DEF Enqueue, Unlock, Return, lavalinkVars, Starts, Joins, TypeOK
    <3>. QED  BY <3>1, <3>2 DEF StepKind
  <2>3. CASE SendUpdate(t)
    BY <2>3 DEF SendUpdate, Unlock, Return, playerVars, Sends, StepKind
  <2>4. CASE GiveUp(t)
    BY <2>4, <1>2, <1>3, <1>4 DEF GiveUp, Return, lavalinkVars, SetIdle, StepKind
  <2>5. CASE Skip(t)
    <3>1. pending[t] = NoTrack /\ hold[t] \in Players /\ UNCHANGED asked
      BY <2>5, <1>2, <1>3 DEF Skip, lavalinkVars
    <3>2. CASE Return(t) /\ UNCHANGED playerVars
      BY <2>5, <3>1, <3>2, <1>1, <1>2 DEF Skip, Return, playerVars, StepKind
    <3>3. CASE SetIdle(hold[t]) /\ Unlock(t, "update", NoTrack)
      BY <2>5, <3>1, <3>3, <1>2, <1>4 DEF Skip, Unlock, StepKind
    <3>4. CASE Pop(hold[t]) /\ Unlock(t, "update", Head(queue[hold[t]]))
      BY <3>1, <3>4, <1>6 DEF StepKind
    <3>. QED  BY <2>5, <3>2, <3>3, <3>4 DEF Skip
  <2>6. CASE Stop(t)
    BY <2>6, <1>2, <1>3, <1>5 DEF Stop, Unlock, lavalinkVars, StepKind
  <2>7. CASE RemoveByID(t)
    <3> DEFINE p == hold[t]
    <3>1. p \in Players /\ UNCHANGED <<minted, current, asked, pending>>
      BY <2>7, <1>2, <1>3 DEF RemoveByID, Return, lavalinkVars
    <3>2. CASE UNCHANGED queue  BY <3>1, <3>2, <1>1 DEF StepKind
    <3>3. CASE \E i \in DOMAIN queue[p] : queue' = [queue EXCEPT ![p] = Without(@, i)]
      <4>1. PICK i \in DOMAIN queue[p] : queue' = [queue EXCEPT ![p] = Without(@, i)]
        BY <3>3
      <4>2. queue[p] \in Seq(minted) /\ IsInjective(queue[p])  BY <3>1 DEF TypeOK
      <4>3. /\ IsInjective(Without(queue[p], i))
            /\ ToSet(Without(queue[p], i)) \subseteq ToSet(queue[p])
        BY <4>2, RemoveAtElements DEF Without
      <4>. QED  BY <3>1, <4>1, <4>3 DEF TypeOK, Shrinks, StepKind
    <3>. QED  BY <2>7, <3>2, <3>3 DEF RemoveByID
  <2>8. CASE MoveByID(t)
    <3> DEFINE p == hold[t]
    <3>1. p \in Players /\ UNCHANGED <<minted, current, asked, pending>>
      BY <2>8, <1>2, <1>3 DEF MoveByID, Return, lavalinkVars
    <3>2. CASE UNCHANGED queue  BY <3>1, <3>2, <1>1 DEF StepKind
    <3>3. CASE \E i \in DOMAIN queue[p], to \in MoveTargets :
                 queue' = [queue EXCEPT ![p] = Moved(@, i, to)]
      <4>1. PICK i \in DOMAIN queue[p], to \in MoveTargets :
              queue' = [queue EXCEPT ![p] = Moved(@, i, to)]
        BY <3>3
      <4>2. /\ queue[p] \in Seq(minted) /\ IsInjective(queue[p]) /\ to \in Int
        BY <3>1, MusicAssumption DEF TypeOK
      <4>3. /\ IsInjective(Moved(queue[p], i, to))
            /\ ToSet(Moved(queue[p], i, to)) = ToSet(queue[p])
        BY <4>2, MovedElements
      <4>. QED  BY <3>1, <4>1, <4>3 DEF TypeOK, Shrinks, StepKind
    <3>. QED  BY <2>8, <3>2, <3>3 DEF MoveByID
  <2>9. ASSUME NEW op \in {"pausing", "resuming"}, NEW to, SetPaused(t, op, to)
        PROVE  StepKind
    BY <2>9, <1>1, <1>2 DEF SetPaused, Return, playerVars, StepKind
  <2>13. ASSUME NEW op \in {"pause", "resume"}, NEW next, CheckPaused(t, op, next)
         PROVE  StepKind
    BY <2>13, <1>1, <1>2 DEF CheckPaused, Return, Goto, playerVars, lavalinkVars, StepKind
  <2>10. CASE LeaveClear(t)
    BY <2>10, <1>3, <1>5 DEF LeaveClear, lavalinkVars, StepKind
  <2>11. CASE LeaveDestroy(t)
    BY <2>11, <1>1, <1>2 DEF LeaveDestroy, Return, playerVars, StepKind
  <2>14. CASE Unregister(t)
    BY <2>14, <1>1 DEF Unregister, lavalinkVars, StepKind
  <2>15. CASE CloseLink(t)
    BY <2>15, <1>1, <1>2 DEF CloseLink, Return, playerVars, StepKind
  <2>12. CASE Advance(t)
    <3>1. pending[t] = NoTrack /\ hold[t] \in Players /\ UNCHANGED asked
      BY <2>12, <1>2, <1>3 DEF Advance, lavalinkVars
    <3>2. CASE SetIdle(hold[t]) /\ Return(t)
      BY <2>12, <3>1, <3>2, <1>2, <1>4 DEF Advance, Return, StepKind
    <3>3. CASE Pop(hold[t]) /\ Unlock(t, "update", Head(queue[hold[t]]))
      BY <3>1, <3>3, <1>6 DEF StepKind
    <3>. QED  BY <2>12, <3>2, <3>3 DEF Advance
  <2>. QED
    BY <1>7, <2>1, <2>2, <2>3, <2>4, <2>5, <2>6, <2>7, <2>8, <2>9, <2>10, <2>11, <2>12,
       <2>13, <2>14, <2>15 DEF Continue
<1>8. ASSUME NEW t \in Threads,
             \/ BeginAdd(t) \/ BeginLeave(t) \/ BeginShutdown(t) \/ DeliverEnd(t)
             \/ \E op \in Ops : BeginCall(t, op)
      PROVE  Shrinks
  BY <1>8, <1>1 DEF BeginAdd, BeginLeave, BeginShutdown, DeliverEnd, BeginCall, playerVars,
                    lavalinkVars
<1>10. ASSUME NEW t \in Threads, pc[t] = "idle", CloseLink(t) PROVE Shrinks
  BY <1>10, <1>1, <1>2 DEF CloseLink, Return, playerVars
<1>9. ASSUME TrackEnds \/ TrackSticks \/ WebSocketClosed \/ UNCHANGED vars
      PROVE  Shrinks
  BY <1>9, <1>1
     DEF TrackEnds, TrackSticks, WebSocketClosed, vars, playerVars,
         lavalinkVars, threadVars
<1>. QED
  BY <1>7, <1>8, <1>9, <1>10 DEF Next, StepKind, Threads

-----------------------------------------------------------------------------
(* The two safety invariants are inductive, one kind of step at a time.    *)

\* What the invariants say of the present state, in terms of the queues' sets.
LEMMA Facts ==
  ASSUME IInv
  PROVE  /\ NoTrack \notin minted
         /\ \A p \in Players : /\ queue[p] \in Seq(minted)
                               /\ IsInjective(queue[p])
                               /\ ToSet(queue[p]) \subseteq minted
                               /\ \A e \in ToSet(queue[p]) :
                                    /\ e \notin asked
                                    /\ \A t \in Threads : pending[t] # e
                                    /\ \A q \in Players : current[q] # e
         /\ minted \subseteq Entries
<1>1. minted \subseteq Entries /\ NoTrack \notin minted
  BY MusicAssumption DEF IInv, TypeOK
<1>2. ASSUME NEW p \in Players
      PROVE  /\ queue[p] \in Seq(minted) /\ IsInjective(queue[p])
             /\ ToSet(queue[p]) \subseteq minted
  <2>1. queue[p] \in Seq(minted) /\ IsInjective(queue[p])
    BY DEF IInv, TypeOK, EntriesDistinct
  <2>2. \A i \in DOMAIN queue[p] : queue[p][i] \in minted
    BY <2>1, ElementOfSeq, LenProperties
  <2>. QED  BY <2>1, <2>2 DEF ToSet
<1>3. ASSUME NEW p \in Players, NEW e \in ToSet(queue[p])
      PROVE  /\ e \notin asked
             /\ \A t \in Threads : pending[t] # e
             /\ \A q \in Players : current[q] # e
  <2>1. e \in Entries /\ Queued(e)  BY <1>1, <1>2 DEF Queued
  <2>. QED  BY <2>1 DEF IInv, EntriesDistinct, StartedOnce, Current
<1>. QED  BY <1>1, <1>2, <1>3

\* A step that only takes tracks away keeps the invariants.
LEMMA ShrinksSafe ==
  ASSUME IInv, Shrinks
  PROVE  EntriesDistinct' /\ StartedOnce'
<1>1. \A e \in Entries : (Queued(e)' => Queued(e)) /\ (Current(e)' => Current(e))
  BY MusicAssumption DEF Shrinks, Queued, Current
<1>2. EntriesDistinct'
  BY <1>1 DEF IInv, Shrinks, EntriesDistinct
<1>3. StartedOnce'
  BY <1>1 DEF IInv, Shrinks, StartedOnce
<1>. QED  BY <1>2, <1>3

\* Sending an update keeps the invariants: its track was sent by nobody else.
LEMMA SendsSafe ==
  ASSUME IInv, NEW t \in Threads, Sends(t)
  PROVE  EntriesDistinct' /\ StartedOnce'
<1>1. \A e : (Queued(e)' <=> Queued(e)) /\ (Current(e)' <=> Current(e))
  BY DEF Sends, Queued, Current
<1>2. EntriesDistinct'
  BY <1>1 DEF IInv, Sends, EntriesDistinct
<1>3. pending \in [Threads -> minted \cup {NoTrack}]  BY DEF IInv, TypeOK
<1>4. \A u \in Threads : pending'[u] = IF u = t THEN NoTrack ELSE pending[u]
  BY <1>3 DEF Sends
<1>5. asked' = asked \cup ({pending[t]} \ {NoTrack}) /\ UNCHANGED <<queue, current>>
  BY DEF Sends
<1>6. StartedOnce'
  <2>1. \A e \in Entries : Queued(e)' =>
          e \notin asked' /\ \A u \in Threads : pending'[u] # e
    <3>. SUFFICES ASSUME NEW e \in Entries, Queued(e)
                  PROVE  e \notin asked' /\ \A u \in Threads : pending'[u] # e
      BY <1>1
    <3>1. e \notin asked /\ e # NoTrack /\ \A u \in Threads : pending[u] # e
      BY MusicAssumption DEF IInv, StartedOnce
    <3>. QED  BY <1>4, <1>5, <3>1
  <2>2. \A u \in Threads : pending'[u] # NoTrack =>
          /\ pending'[u] \notin asked'
          /\ \A v \in Threads : pending'[v] = pending'[u] => v = u
    BY <1>4, <1>5 DEF IInv, StartedOnce
  <2>3. \A p \in Players : current'[p] # NoTrack =>
          current'[p] \in asked' \/ \E u \in Threads : pending'[u] = current'[p]
    BY <1>4, <1>5 DEF IInv, StartedOnce
  <2>. QED  BY <2>1, <2>2, <2>3 DEF StartedOnce
<1>. QED  BY <1>2, <1>6

\* Popping the head, by Skip or advance, keeps the invariants.
LEMMA PopsHeadSafe ==
  ASSUME IInv, NEW t \in Threads, NEW p \in Players, PopsHead(t, p)
  PROVE  EntriesDistinct' /\ StartedOnce'
<1> DEFINE h == Head(queue[p])
           r == Tail(queue[p])
<1>1. /\ ToSet(queue[p]) = {h} \cup ToSet(r)
      /\ IsInjective(r) /\ h \notin ToSet(r) /\ h \in minted
  BY Facts, TailElements DEF PopsHead
<1>2. /\ queue' = [queue EXCEPT ![p] = r]
      /\ current' = [current EXCEPT ![p] = h]
      /\ pending' = [pending EXCEPT ![t] = h]
      /\ pending[t] = NoTrack
      /\ UNCHANGED <<minted, asked>>
  BY DEF PopsHead
<1>. HIDE DEF h, r
<1>3. /\ queue \in [Players -> Seq(minted)]
      /\ current \in [Players -> minted \cup {NoTrack}]
      /\ pending \in [Threads -> minted \cup {NoTrack}]
  BY DEF IInv, TypeOK
<1>4. /\ \A q \in Players : queue'[q] = IF q = p THEN r ELSE queue[q]
      /\ \A q \in Players : current'[q] = IF q = p THEN h ELSE current[q]
      /\ \A u \in Threads : pending'[u] = IF u = t THEN h ELSE pending[u]
  BY <1>2, <1>3
<1>5. /\ h \notin asked /\ h # NoTrack
      /\ \A u \in Threads : pending[u] # h
      /\ \A q \in Players : current[q] # h
  BY <1>1, Facts
<1>6. /\ \A q \in Players : q # p => h \notin ToSet(queue[q])
      /\ \A q, s \in Players : q # s =>
           /\ ToSet(queue[q]) \cap ToSet(queue[s]) = {}
           /\ current[q] = current[s] => current[q] = NoTrack
  BY <1>1 DEF IInv, EntriesDistinct
<1>7. \A e \in Entries : /\ Queued(e)' => Queued(e) /\ e # h
                         /\ Current(e)' => Current(e) \/ e = h
  BY <1>1, <1>4, <1>6 DEF Queued, Current
<1>8. EntriesDistinct'
  <2>1. \A q \in Players : IsInjective(queue'[q])
    BY <1>1, <1>4, Facts
  <2>2. \A q, s \in Players : q # s =>
          /\ ToSet(queue'[q]) \cap ToSet(queue'[s]) = {}
          /\ current'[q] = current'[s] => current'[q] = NoTrack
    BY <1>1, <1>4, <1>5, <1>6
  <2>3. \A e \in Entries : ~(Queued(e)' /\ Current(e)')
    BY <1>7 DEF IInv, EntriesDistinct
  <2>. QED  BY <2>1, <2>2, <2>3 DEF EntriesDistinct
<1>9. StartedOnce'
  <2>1. \A e \in Entries : Queued(e)' =>
          e \notin asked' /\ \A u \in Threads : pending'[u] # e
    BY <1>2, <1>4, <1>7 DEF IInv, StartedOnce
  <2>2. \A u \in Threads : pending'[u] # NoTrack =>
          /\ pending'[u] \notin asked'
          /\ \A v \in Threads : pending'[v] = pending'[u] => v = u
    BY <1>2, <1>4, <1>5 DEF IInv, StartedOnce
  <2>3. \A q \in Players : current'[q] # NoTrack =>
          current'[q] \in asked' \/ \E u \in Threads : pending'[u] = current'[q]
    BY <1>2, <1>4 DEF IInv, StartedOnce
  <2>. QED  BY <2>1, <2>2, <2>3 DEF StartedOnce
<1>. QED  BY <1>8, <1>9

\* A fresh entry is not in any queue, current, pending or sent.
LEMMA FreshFacts ==
  ASSUME IInv, NEW e, e \notin minted, e # NoTrack
  PROVE  /\ e \notin asked
         /\ \A t \in Threads : pending[t] # e
         /\ \A p \in Players : current[p] # e /\ e \notin ToSet(queue[p])
<1>1. /\ asked \subseteq minted
      /\ current \in [Players -> minted \cup {NoTrack}]
      /\ pending \in [Threads -> minted \cup {NoTrack}]
  BY DEF IInv, TypeOK
<1>. QED  BY <1>1, Facts

\* A batch accepted by an idle player keeps the invariants.
LEMMA StartsSafe ==
  ASSUME IInv, NEW t \in Threads, NEW p \in Players, NEW batch \in Batches,
         Starts(t, p, batch)
  PROVE  EntriesDistinct' /\ StartedOnce'
<1> DEFINE h == Head(batch)
           r == Tail(batch)
           q0 == queue[p]
           qn == r \o q0
<1>1. /\ batch \in Seq(Entries) /\ batch # << >> /\ IsInjective(batch)
      /\ ToSet(batch) \subseteq Entries \ minted
  BY BatchFresh, QueueMonotonic
<1>2. /\ ToSet(batch) = {h} \cup ToSet(r) /\ r \in Seq(Entries)
      /\ IsInjective(r) /\ h \notin ToSet(r)
  BY <1>1, TailElements
<1>3. /\ q0 \in Seq(Entries) /\ IsInjective(q0) /\ ToSet(q0) \subseteq minted
  BY Facts, QueueMonotonic
<1>4. /\ minted' = minted \cup ToSet(batch)
      /\ queue' = [queue EXCEPT ![p] = qn]
      /\ current' = [current EXCEPT ![p] = h]
      /\ pending' = [pending EXCEPT ![t] = h]
      /\ pending[t] = NoTrack /\ current[p] = NoTrack
      /\ UNCHANGED asked
  BY DEF Starts
<1>. HIDE DEF h, r, q0
<1>5. /\ ToSet(qn) = ToSet(r) \cup ToSet(q0)
      /\ IsInjective(qn)
  <2>1. ToSet(r) \cap ToSet(q0) = {}  BY <1>1, <1>2, <1>3
  <2>2. r \in Seq(Entries) /\ IsInjective(r)  BY <1>2
  <2>3. q0 \in Seq(Entries) /\ IsInjective(q0)  BY <1>3
  <2>. QED  BY <2>1, <2>2, <2>3, DisjointConcat
<1>. HIDE DEF qn
<1>6. /\ queue \in [Players -> Seq(minted)]
      /\ current \in [Players -> minted \cup {NoTrack}]
      /\ pending \in [Threads -> minted \cup {NoTrack}]
  BY DEF IInv, TypeOK
<1>7. /\ \A q \in Players : queue'[q] = IF q = p THEN qn ELSE queue[q]
      /\ \A q \in Players : current'[q] = IF q = p THEN h ELSE current[q]
      /\ \A u \in Threads : pending'[u] = IF u = t THEN h ELSE pending[u]
  BY <1>4, <1>6
<1>8. \A e \in ToSet(batch) :
        /\ e \in Entries /\ e # NoTrack
        /\ e \notin asked
        /\ \A u \in Threads : pending[u] # e
        /\ \A q \in Players : current[q] # e /\ e \notin ToSet(queue[q])
  BY <1>1, FreshFacts, MusicAssumption
<1>9. h \in ToSet(batch) /\ ToSet(r) \subseteq ToSet(batch)  BY <1>2
<1>10. \A e \in Entries :
         /\ Queued(e)' => e # h /\ (Queued(e) \/ e \in ToSet(r))
         /\ Current(e)' => Current(e) \/ e = h
  <2>1. ASSUME NEW e \in Entries, Queued(e)'
        PROVE  e # h /\ (Queued(e) \/ e \in ToSet(r))
    <3>1. PICK q \in Players : e \in ToSet(queue'[q])  BY <2>1 DEF Queued
    <3>2. CASE q = p
      <4>1. e \in ToSet(r) \/ e \in ToSet(q0)  BY <1>5, <1>7, <3>1, <3>2
      <4>. QED  BY <4>1, <1>2, <1>8, <1>9 DEF Queued, q0
    <3>3. CASE q # p  BY <1>7, <1>8, <1>9, <3>1, <3>3 DEF Queued
    <3>. QED  BY <3>2, <3>3
  <2>2. ASSUME NEW e \in Entries, Current(e)' PROVE Current(e) \/ e = h
    BY <2>2, <1>7 DEF Current
  <2>. QED  BY <2>1, <2>2
<1>11. EntriesDistinct'
  <2>1. \A q \in Players : IsInjective(queue'[q])
    BY <1>5, <1>7, Facts
  <2>2. \A q, s \in Players : q # s =>
           /\ ToSet(queue[q]) \cap ToSet(queue[s]) = {}
           /\ current[q] = current[s] => current[q] = NoTrack
    BY DEF IInv, EntriesDistinct
  <2>3. \A q \in Players : q # p => ToSet(qn) \cap ToSet(queue[q]) = {}
    BY <1>5, <1>8, <1>9, <2>2 DEF q0
  <2>4. \A q, s \in Players : q # s =>
          /\ ToSet(queue'[q]) \cap ToSet(queue'[s]) = {}
          /\ current'[q] = current'[s] => current'[q] = NoTrack
    BY <1>7, <1>8, <1>9, <2>2, <2>3
  <2>5. \A e \in Entries : ~(Queued(e)' /\ Current(e)')
    BY <1>8, <1>9, <1>10 DEF IInv, EntriesDistinct, Current
  <2>. QED  BY <2>1, <2>4, <2>5 DEF EntriesDistinct
<1>12. StartedOnce'
  <2>1. \A e \in Entries : Queued(e)' =>
          e \notin asked' /\ \A u \in Threads : pending'[u] # e
    BY <1>4, <1>7, <1>8, <1>9, <1>10 DEF IInv, StartedOnce
  <2>2. \A u \in Threads : pending'[u] # NoTrack =>
          /\ pending'[u] \notin asked'
          /\ \A v \in Threads : pending'[v] = pending'[u] => v = u
    BY <1>4, <1>7, <1>8, <1>9 DEF IInv, StartedOnce
  <2>3. \A q \in Players : current'[q] # NoTrack =>
          current'[q] \in asked' \/ \E u \in Threads : pending'[u] = current'[q]
    BY <1>4, <1>7 DEF IInv, StartedOnce
  <2>. QED  BY <2>1, <2>2, <2>3 DEF StartedOnce
<1>. QED  BY <1>11, <1>12

\* A batch queued behind or before the waiting tracks keeps the invariants.
LEMMA JoinsSafe ==
  ASSUME IInv, NEW p \in Players, NEW batch \in Batches, Joins(p, batch)
  PROVE  EntriesDistinct' /\ StartedOnce'
<1> DEFINE q0 == queue[p]
<1>1. /\ batch \in Seq(Entries) /\ IsInjective(batch)
      /\ ToSet(batch) \subseteq Entries \ minted
  BY BatchFresh, QueueMonotonic
<1>2. q0 \in Seq(Entries) /\ IsInjective(q0) /\ ToSet(q0) \subseteq minted
  BY Facts, QueueMonotonic
<1>3. /\ queue' = [queue EXCEPT ![p] = q0 \o batch] \/ queue' = [queue EXCEPT ![p] = batch \o q0]
      /\ UNCHANGED <<current, asked, pending>>
  BY DEF Joins
<1>. HIDE DEF q0
<1>4. PICK qn : /\ queue' = [queue EXCEPT ![p] = qn]
                /\ IsInjective(qn)
                /\ ToSet(qn) = ToSet(batch) \cup ToSet(q0)
  <2>1. ToSet(q0) \cap ToSet(batch) = {} /\ ToSet(batch) \cap ToSet(q0) = {}
    BY <1>1, <1>2
  <2>2. /\ IsInjective(q0 \o batch) /\ ToSet(q0 \o batch) = ToSet(q0) \cup ToSet(batch)
        /\ IsInjective(batch \o q0) /\ ToSet(batch \o q0) = ToSet(batch) \cup ToSet(q0)
    <3>1. q0 \in Seq(Entries) /\ IsInjective(q0)  BY <1>2
    <3>2. batch \in Seq(Entries) /\ IsInjective(batch)  BY <1>1
    <3>3. /\ IsInjective(q0 \o batch)
          /\ ToSet(q0 \o batch) = ToSet(q0) \cup ToSet(batch)
      BY <2>1, <3>1, <3>2, DisjointConcat
    <3>4. /\ IsInjective(batch \o q0)
          /\ ToSet(batch \o q0) = ToSet(batch) \cup ToSet(q0)
      BY <2>1, <3>1, <3>2, DisjointConcat
    <3>. QED  BY <3>3, <3>4
  <2>3. ToSet(q0) \cup ToSet(batch) = ToSet(batch) \cup ToSet(q0)  OBVIOUS
  <2>4. CASE queue' = [queue EXCEPT ![p] = q0 \o batch]  BY <2>2, <2>3, <2>4, Zenon
  <2>5. CASE queue' = [queue EXCEPT ![p] = batch \o q0]  BY <2>2, <2>5, Zenon
  <2>. QED  BY <1>3, <2>4, <2>5
<1>5. \A q \in Players : queue'[q] = IF q = p THEN qn ELSE queue[q]
  BY <1>4 DEF IInv, TypeOK
<1>6. \A e \in ToSet(batch) :
        /\ e \in Entries
        /\ e \notin asked
        /\ \A u \in Threads : pending[u] # e
        /\ \A q \in Players : current[q] # e /\ e \notin ToSet(queue[q])
  BY <1>1, FreshFacts, MusicAssumption
<1>7. \A e \in Entries : /\ Queued(e)' => Queued(e) \/ e \in ToSet(batch)
                         /\ Current(e)' <=> Current(e)
  BY <1>3, <1>4, <1>5 DEF Queued, Current, q0
<1>8. EntriesDistinct'
  <2>1. \A q, s \in Players : q # s =>
           /\ ToSet(queue[q]) \cap ToSet(queue[s]) = {}
           /\ current[q] = current[s] => current[q] = NoTrack
    BY DEF IInv, EntriesDistinct
  <2>2. \A q \in Players : q # p => ToSet(qn) \cap ToSet(queue[q]) = {}
    BY <1>4, <1>6, <2>1 DEF q0
  <2>3. \A q, s \in Players : q # s =>
          /\ ToSet(queue'[q]) \cap ToSet(queue'[s]) = {}
          /\ current'[q] = current'[s] => current'[q] = NoTrack
    BY <1>3, <1>5, <2>1, <2>2
  <2>4. \A q \in Players : IsInjective(queue'[q])
    BY <1>4, <1>5, Facts
  <2>5. \A e \in Entries : ~(Queued(e)' /\ Current(e)')
    BY <1>6, <1>7 DEF IInv, EntriesDistinct, Current
  <2>. QED  BY <2>3, <2>4, <2>5 DEF EntriesDistinct
<1>9. StartedOnce'
  <2>1. \A e \in Entries : Queued(e)' =>
          e \notin asked' /\ \A u \in Threads : pending'[u] # e
    BY <1>3, <1>6, <1>7 DEF IInv, StartedOnce
  <2>. QED  BY <1>3, <2>1 DEF IInv, StartedOnce
<1>. QED  BY <1>8, <1>9

-----------------------------------------------------------------------------
(* The theorems                                                            *)

\* The invariant holds at the start.
LEMMA InitIInv == Init => IInv
<1>. SUFFICES ASSUME Init PROVE IInv
  OBVIOUS
<1>1. ToSet(<< >>) = {} /\ IsInjective(<< >>)  BY DEF ToSet, IsInjective
<1>2. TypeOK
  <2>1. << >> \in Seq({})  BY EmptySeq
  <2>2. 0 \in 0..MaxEnded  BY MusicAssumption
  <2>. QED  BY <2>1, <2>2 DEF Init, TypeOK, Steps
<1>3. \A e \in Entries : ~Queued(e) /\ ~Current(e)
  BY <1>1, MusicAssumption DEF Init, Queued, Current
<1>4. EntriesDistinct  BY <1>1, <1>3 DEF Init, EntriesDistinct
<1>5. StartedOnce  BY <1>1, <1>3 DEF Init, StartedOnce
<1>. QED  BY <1>2, <1>4, <1>5 DEF IInv

\* Every step of a handler or of Lavalink keeps the invariant.
LEMMA NextIInv == IInv /\ [Next]_vars => IInv'
<1>. SUFFICES ASSUME IInv, [Next]_vars PROVE IInv'
  OBVIOUS
<1>1. TypeOK'  BY TypeStep
<1>2. EntriesDistinct' /\ StartedOnce'
  BY StepKinds, ShrinksSafe, SendsSafe, PopsHeadSafe, StartsSafe, JoinsSafe DEF StepKind
<1>. QED  BY <1>1, <1>2 DEF IInv

\* The inductive invariant holds throughout.
THEOREM Inductive == Spec => []IInv
<1>. QED  BY InitIInv, NextIInv, PTL DEF Spec

\* Every variable keeps its type: a goroutine that has begun a call holds a
\* player that was allocated, and only a goroutine about to send holds a track.
THEOREM TypeCorrect == Spec => []TypeOK
<1>1. IInv => TypeOK  BY DEF IInv
<1>. QED  BY <1>1, Inductive, PTL

\* No interleaving puts a queue entry in two places at once.
THEOREM NoEntryTwice == Spec => []EntriesDistinct
<1>1. IInv => EntriesDistinct  BY DEF IInv
<1>. QED  BY <1>1, Inductive, PTL

\* However the unlocked updates are ordered, no track is sent to Lavalink twice.
THEOREM NoTrackSentTwice == Spec => []StartedOnce
<1>1. IInv => StartedOnce  BY DEF IInv
<1>. QED  BY <1>1, Inductive, PTL

-----------------------------------------------------------------------------
(* The order in which tracks wait                                          *)

\* What is in both queues is in the same order.
KeepsOrder(q, r) ==
  \A i, j \in DOMAIN q, k, l \in DOMAIN r :
    (/\ i < j
     /\ q[i] = r[k]
     /\ q[j] = r[l]) => k < l

\* It is if each element of r that was in q was at a position of q that grows
\* with its position in r.
LEMMA PositionsGrow ==
  ASSUME NEW q, IsInjective(q), NEW r, NEW at,
         \A k \in DOMAIN r :
           r[k] \in ToSet(q) => at[k] \in DOMAIN q /\ r[k] = q[at[k]],
         \A k, l \in DOMAIN r : at[k] < at[l] => k < l
  PROVE  KeepsOrder(q, r)
<1> SUFFICES ASSUME NEW i \in DOMAIN q, NEW j \in DOMAIN q, NEW k \in DOMAIN r, NEW l \in DOMAIN r,
                    i < j, q[i] = r[k], q[j] = r[l]
             PROVE  k < l
  BY DEF KeepsOrder
<1>1. r[k] \in ToSet(q) /\ r[l] \in ToSet(q)
  BY DEF ToSet
<1>2. at[k] = i /\ at[l] = j
  BY <1>1 DEF IsInjective
<1> QED
  BY <1>2

LEMMA SameOrder == ASSUME NEW q, IsInjective(q) PROVE KeepsOrder(q, q)
BY DEF KeepsOrder, IsInjective

LEMMA TailOrder ==
  ASSUME NEW S, NEW q \in Seq(S), IsInjective(q), q # << >>
  PROVE  KeepsOrder(q, Tail(q))
<1> DEFINE r == Tail(q)
           at == [k \in DOMAIN r |-> k + 1]
<1>1. /\ Len(q) \in Nat \ {0} /\ DOMAIN q = 1..Len(q)
      /\ DOMAIN r = 1..(Len(q) - 1)
      /\ \A k \in 1..(Len(q) - 1) : r[k] = q[k+1]
  BY HeadTailProperties, EmptySeq, LenProperties
<1>2. \A k \in DOMAIN r : at[k] = k + 1 /\ k \in Nat /\ at[k] \in DOMAIN q /\ r[k] = q[at[k]]
  BY <1>1
<1>3. \A k, l \in DOMAIN r : at[k] < at[l] => k < l
  BY <1>2
<1> HIDE DEF r, at
<1>4. KeepsOrder(q, r)
  BY <1>2, <1>3, PositionsGrow
<1> QED
  BY <1>4 DEF r

LEMMA FrontOrder ==
  ASSUME NEW S, NEW q \in Seq(S), NEW T, NEW s \in Seq(T), IsInjective(q),
         ToSet(s) \cap ToSet(q) = {}
  PROVE  KeepsOrder(q, s \o q)
<1> DEFINE r == s \o q
           at == [k \in DOMAIN r |-> k - Len(s)]
<1>1. /\ Len(q) \in Nat /\ Len(s) \in Nat
      /\ DOMAIN q = 1..Len(q) /\ DOMAIN s = 1..Len(s) /\ DOMAIN r = 1..(Len(s) + Len(q))
      /\ \A k \in 1..(Len(s) + Len(q)) : r[k] = IF k <= Len(s) THEN s[k] ELSE q[k - Len(s)]
  OBVIOUS
<1>2. \A k \in DOMAIN r : at[k] = k - Len(s) /\ k \in Nat
  BY <1>1
<1>3. ASSUME NEW k \in DOMAIN r, r[k] \in ToSet(q)
      PROVE  at[k] \in DOMAIN q /\ r[k] = q[at[k]]
  <2>1. ~(k <= Len(s))
    <3>1. k <= Len(s) => r[k] \in ToSet(s)
      BY <1>1, <1>2 DEF ToSet
    <3> QED
      BY <1>3, <3>1
  <2> QED
    BY <1>1, <1>2, <2>1
<1>4. \A k, l \in DOMAIN r : at[k] < at[l] => k < l
  BY <1>1, <1>2
<1> HIDE DEF r, at
<1>5. KeepsOrder(q, r)
  BY <1>3, <1>4, PositionsGrow
<1> QED
  BY <1>5 DEF r

LEMMA BackOrder ==
  ASSUME NEW S, NEW q \in Seq(S), NEW T, NEW s \in Seq(T), IsInjective(q),
         ToSet(s) \cap ToSet(q) = {}
  PROVE  KeepsOrder(q, q \o s)
<1> DEFINE r == q \o s
           at == [k \in DOMAIN r |-> k]
<1>1. /\ Len(q) \in Nat /\ Len(s) \in Nat
      /\ DOMAIN q = 1..Len(q) /\ DOMAIN s = 1..Len(s) /\ DOMAIN r = 1..(Len(q) + Len(s))
      /\ \A k \in 1..(Len(q) + Len(s)) : r[k] = IF k <= Len(q) THEN q[k] ELSE s[k - Len(q)]
  OBVIOUS
<1>2. \A k \in DOMAIN r : at[k] = k /\ k \in Nat
  BY <1>1
<1>3. ASSUME NEW k \in DOMAIN r, r[k] \in ToSet(q)
      PROVE  at[k] \in DOMAIN q /\ r[k] = q[at[k]]
  <2>1. k <= Len(q)
    <3>1. ~(k <= Len(q)) => r[k] = s[k - Len(q)] /\ k - Len(q) \in DOMAIN s
      BY <1>1, <1>2
    <3>2. ~(k <= Len(q)) => r[k] \in ToSet(s)
      BY <3>1 DEF ToSet
    <3> QED
      BY <1>3, <3>2
  <2> QED
    BY <1>1, <1>2, <2>1
<1>4. \A k, l \in DOMAIN r : at[k] < at[l] => k < l
  BY <1>2
<1> HIDE DEF r, at
<1>5. KeepsOrder(q, r)
  BY <1>3, <1>4, PositionsGrow
<1> QED
  BY <1>5 DEF r

LEMMA WithoutOrder ==
  ASSUME NEW S, NEW q \in Seq(S), IsInjective(q), NEW i \in DOMAIN q
  PROVE  KeepsOrder(q, Without(q, i))
<1> DEFINE r == RemoveAt(q, i)
           at == [k \in DOMAIN r |-> IF k < i THEN k ELSE k + 1]
<1>1. /\ Len(q) \in Nat \ {0} /\ DOMAIN q = 1..Len(q) /\ i \in 1..Len(q)
      /\ DOMAIN r = 1..(Len(q) - 1)
      /\ \A k \in 1..(Len(q) - 1) : r[k] = IF k < i THEN q[k] ELSE q[k+1]
  <2> DEFINE a == SubSeq(q, 1, i-1)
             b == SubSeq(q, i+1, Len(q))
  <2>1. Len(q) \in Nat \ {0} /\ DOMAIN q = 1..Len(q) /\ i \in 1..Len(q)
    BY LenProperties
  <2>2. a \in Seq(S) /\ Len(a) = i - 1 /\ \A k \in 1..(i-1) : a[k] = q[k]
    BY <2>1
  <2>3. b \in Seq(S) /\ Len(b) = Len(q) - i /\ \A k \in 1..(Len(q) - i) : b[k] = q[k+i]
    BY <2>1
  <2>4. r = a \o b
    BY DEF RemoveAt
  <2> HIDE DEF a, b, r
  <2>5. /\ DOMAIN r = 1..((i - 1) + (Len(q) - i))
        /\ \A k \in 1..((i - 1) + (Len(q) - i)) :
             r[k] = IF k <= i - 1 THEN a[k] ELSE b[k - (i - 1)]
    BY <2>1, <2>2, <2>3, <2>4, ConcatProperties
  <2>6. (i - 1) + (Len(q) - i) = Len(q) - 1
    BY <2>1
  <2>7. ASSUME NEW k \in 1..(Len(q) - 1) PROVE r[k] = IF k < i THEN q[k] ELSE q[k+1]
    <3>1. CASE k < i
      BY <2>1, <2>2, <2>5, <2>6, <3>1
    <3>2. CASE ~(k < i)
      <4>1. /\ k \in 1..((i - 1) + (Len(q) - i)) /\ ~(k <= i - 1)
            /\ k - (i - 1) \in 1..(Len(q) - i) /\ (k - (i - 1)) + i = k + 1
        BY <2>1, <3>2
      <4>2. r[k] = b[k - (i - 1)]
        BY <2>5, <4>1
      <4>3. b[k - (i - 1)] = q[k + 1]
        BY <2>3, <4>1
      <4> QED
        BY <3>2, <4>2, <4>3
    <3> QED
      BY <3>1, <3>2
  <2> QED
    BY <2>1, <2>5, <2>6, <2>7
<1>2. \A k \in DOMAIN r :
        at[k] = (IF k < i THEN k ELSE k + 1) /\ k \in Nat /\ at[k] \in DOMAIN q /\ r[k] = q[at[k]]
  BY <1>1
<1>3. \A k, l \in DOMAIN r : at[k] < at[l] => k < l
  BY <1>1, <1>2
<1> HIDE DEF r, at
<1>4. KeepsOrder(q, r)
  BY <1>2, <1>3, PositionsGrow
<1> QED
  BY <1>4 DEF r, Without

LEMMA OrderStep ==
  ASSUME IInv, [Next]_vars
  PROVE  \/ \E t \in Threads : MoveByID(t)
         \/ \A p \in Players : KeepsOrder(queue[p], queue[p]')
<1> DEFINE Kept == \A p \in Players : KeepsOrder(queue[p], queue[p]')
<1>1. \A p \in Players : queue[p] \in Seq(minted) /\ IsInjective(queue[p])
  BY Facts
<1>2. queue = [p \in Players |-> queue[p]]
  BY DEF IInv, TypeOK
<1>3. UNCHANGED queue => Kept
  BY <1>1, SameOrder
<1>4. ASSUME NEW p \in Players, NEW new, queue' = [queue EXCEPT ![p] = new],
             KeepsOrder(queue[p], new)
      PROVE  Kept
  BY <1>1, <1>2, <1>4, SameOrder
<1>5. ASSUME NEW p \in Players, ClearPlayer(p) PROVE Kept
  <2>1. KeepsOrder(queue[p], << >>)
    BY DEF KeepsOrder
  <2> QED
    BY <1>4, <1>5, <2>1 DEF ClearPlayer
<1>6. ASSUME NEW p \in Players, Pop(p) PROVE Kept
  <2>1. queue[p] # << >> /\ queue' = [queue EXCEPT ![p] = Tail(queue[p])]
    BY <1>6 DEF Pop
  <2>2. KeepsOrder(queue[p], Tail(queue[p]))
    BY <1>1, <2>1, TailOrder
  <2> QED
    BY <1>4, <2>1, <2>2
<1>7. \A t \in Threads : pc[t] # "idle" => hold[t] \in Players
  BY DEF IInv, TypeOK
<1> HIDE DEF Kept
<1>8. ASSUME NEW t \in Threads, Continue(t), ~MoveByID(t) PROVE Kept
  <2>1. CASE \/ JoinVoice(t) \/ SendUpdate(t) \/ GiveUp(t) \/ LeaveDestroy(t)
             \/ Unregister(t) \/ CloseLink(t)
    BY <1>3, <2>1 DEF JoinVoice, SendUpdate, GiveUp, LeaveDestroy, Unregister, CloseLink, playerVars
  <2>2. CASE \/ CheckPaused(t, "pause", "pausing") \/ SetPaused(t, "pausing", TRUE)
             \/ CheckPaused(t, "resume", "resuming") \/ SetPaused(t, "resuming", FALSE)
    BY <1>3, <2>2 DEF CheckPaused, SetPaused, playerVars
  <2>3. CASE Stop(t) \/ LeaveClear(t)
    BY <1>5, <1>7, <2>3 DEF Stop, LeaveClear
  <2>4. CASE Skip(t) \/ Advance(t)
    BY <1>3, <1>6, <1>7, <2>4 DEF Skip, Advance, SetIdle, playerVars
  <2>5. CASE Enqueue(t)
    <3> DEFINE p == hold[t]
    <3>1. p \in Players
      BY <1>7, <2>5 DEF Enqueue
    <3>2. PICK batch \in Batches :
            queue' \in {[queue EXCEPT ![p] = Tail(batch) \o queue[p]],
                        [queue EXCEPT ![p] = queue[p] \o batch],
                        [queue EXCEPT ![p] = batch \o queue[p]]}
      BY <2>5 DEF Enqueue
    <3>3. /\ batch \in Seq(Entries \ minted) /\ batch # << >>
          /\ ToSet(batch) \cap ToSet(queue[p]) = {}
      BY <3>1, BatchFresh, Facts
    <3>4. Tail(batch) \in Seq(Entries \ minted) /\ ToSet(Tail(batch)) \cap ToSet(queue[p]) = {}
      BY <3>3, TailElements
    <3>5. /\ KeepsOrder(queue[p], Tail(batch) \o queue[p])
          /\ KeepsOrder(queue[p], batch \o queue[p])
          /\ KeepsOrder(queue[p], queue[p] \o batch)
      BY <1>1, <3>1, <3>3, <3>4, FrontOrder, BackOrder
    <3> QED
      BY <1>4, <3>1, <3>2, <3>5
  <2>6. CASE RemoveByID(t)
    <3> DEFINE p == hold[t]
    <3>1. p \in Players
      BY <1>7, <2>6 DEF RemoveByID
    <3>2. CASE \E i \in DOMAIN queue[p] : queue' = [queue EXCEPT ![p] = Without(queue[p], i)]
      BY <1>1, <1>4, <3>1, <3>2, WithoutOrder
    <3> QED
      BY <1>3, <2>6, <3>2 DEF RemoveByID
  <2> QED
    BY <1>8, <2>1, <2>2, <2>3, <2>4, <2>5, <2>6 DEF Continue
<1>9. ASSUME NEW t \in Threads,
             \/ BeginAdd(t) \/ BeginLeave(t) \/ BeginShutdown(t) \/ DeliverEnd(t)
             \/ \E op \in Ops : BeginCall(t, op)
      PROVE  Kept
  BY <1>3, <1>9 DEF BeginAdd, BeginLeave, BeginShutdown, DeliverEnd, BeginCall, playerVars
<1>11. ASSUME NEW t \in Threads, CloseLink(t) PROVE Kept
  BY <1>3, <1>11 DEF CloseLink, playerVars
<1>10. ASSUME TrackEnds \/ TrackSticks \/ WebSocketClosed \/ UNCHANGED vars
       PROVE  Kept
  BY <1>3, <1>10 DEF TrackEnds, TrackSticks, WebSocketClosed, vars, playerVars
<1> QED
  BY <1>8, <1>9, <1>10, <1>11 DEF Next, Threads, Kept

\* Whatever calls and events interleave, tracks keep the order in which they
\* wait: only MoveByID reorders them.
THEOREM OrderIsKept == Spec => OrderKept
<1>1. IInv /\ [Next]_vars =>
        [ (\E t \in Threads : MoveByID(t)) \/
          \A p \in Players :
            \A i, j \in DOMAIN queue[p], k, l \in DOMAIN queue'[p] :
              (/\ i < j
               /\ queue[p][i] = queue'[p][k]
               /\ queue[p][j] = queue'[p][l]) => k < l ]_vars
  BY OrderStep DEF KeepsOrder
<1> QED
  BY <1>1, Inductive, PTL DEF Spec, OrderKept

-----------------------------------------------------------------------------
(* Refinement: every step moves the entries as TrackLifecycle allows.      *)

St == [e \in Entries |-> Stage(e)]

\* An entry's stage, read off the state.
LEMMA StageIs ==
  ASSUME IInv, NEW e \in Entries
  PROVE  /\ Stage(e) = "new" <=> e \notin minted
         /\ Stage(e) = "queued" <=> Queued(e)
         /\ Stage(e) = "current" <=> Current(e)
         /\ Stage(e) = "gone" <=> e \in minted /\ ~Queued(e) /\ ~Current(e)
         /\ Queued(e) => e \in minted /\ ~Current(e)
         /\ Current(e) => e \in minted /\ ~Queued(e)
<1>1. Queued(e) => e \in minted  BY Facts DEF Queued
<1>2. Current(e) => e \in minted
  BY MusicAssumption DEF Current, IInv, TypeOK
<1>3. ~(Queued(e) /\ Current(e))  BY DEF IInv, EntriesDistinct
<1>. QED  BY <1>1, <1>2, <1>3 DEF Stage

\* At the start every entry is new.
LEMMA InitStages == Init => Life!LifeInit
<1>. SUFFICES ASSUME Init PROVE \A e \in Entries : Stage(e) = "new"
  BY DEF Life!LifeInit
<1>. QED  BY DEF Init, Stage

\* A step that only takes tracks away drops their entries.
LEMMA ShrinksDrops ==
  ASSUME IInv, IInv', Shrinks
  PROVE  \E S \in SUBSET Entries : Life!Drop(S)
<1> DEFINE S == {e \in Entries : Stage(e)' # Stage(e)}
<1>1. ASSUME NEW e \in Entries
      PROVE  /\ Queued(e)' => Queued(e)
             /\ Current(e)' => Current(e)
             /\ e \in minted' <=> e \in minted
  BY MusicAssumption DEF Shrinks, Queued, Current
<1>2. ASSUME NEW e \in S
      PROVE  Stage(e) \in {"queued", "current"} /\ Stage(e)' = "gone"
  BY <1>1, StageIs DEF Stage
<1>3. S \in SUBSET Entries  OBVIOUS
<1>4. Life!Drop(S)
  BY <1>2 DEF Life!Drop
<1>. QED  BY <1>3, <1>4

\* Sending an update leaves every entry at its stage.
LEMMA SendsStutters ==
  ASSUME NEW t \in Threads, Sends(t)
  PROVE  St' = St
BY DEF Sends, St, Stage, Queued, Current

\* Popping the head promotes its entry over the one that was current.
LEMMA PopsHeadPromotes ==
  ASSUME IInv, NEW t \in Threads, NEW p \in Players, PopsHead(t, p)
  PROVE  \E e \in Entries : Life!Promote(e, {}) \/ \E f \in Entries : Life!Promote(e, {f})
<1> DEFINE h == Head(queue[p])
           c == current[p]
           r == Tail(queue[p])
<1>1. /\ ToSet(queue[p]) = {h} \cup ToSet(r) /\ h \notin ToSet(r)
      /\ h \in Entries /\ h \in minted /\ h # NoTrack /\ Queued(h)
  BY Facts, TailElements DEF PopsHead, Queued
<1>2. /\ queue' = [queue EXCEPT ![p] = r]
      /\ current' = [current EXCEPT ![p] = h]
      /\ UNCHANGED minted
  BY DEF PopsHead
<1>3. c \in Entries \cup {NoTrack} /\ c # h /\ (c # NoTrack => Current(c))
  <2>1. c \in minted \cup {NoTrack}  BY DEF IInv, TypeOK
  <2>2. c # h  BY <1>1, Facts
  <2>. QED  BY <2>1, <2>2, Facts DEF Current
<1>. HIDE DEF h, r
<1>4. /\ \A q \in Players : queue'[q] = IF q = p THEN r ELSE queue[q]
      /\ \A q \in Players : current'[q] = IF q = p THEN h ELSE current[q]
  BY <1>2 DEF IInv, TypeOK
<1>5. ASSUME NEW e \in Entries
      PROVE  /\ Queued(e)' <=> Queued(e) /\ e # h
             /\ Current(e)' <=> e = h \/ (Current(e) /\ e # c)
  <2>1. Queued(e)' => Queued(e) /\ e # h
    <3>1. \A q \in Players : q # p => h \notin ToSet(queue[q])
      BY <1>1 DEF IInv, EntriesDistinct
    <3>. QED  BY <3>1, <1>1, <1>4 DEF Queued
  <2>2. Queued(e) /\ e # h => Queued(e)'
    BY <1>1, <1>4 DEF Queued
  <2>3. \A q \in Players : q # p => (current[q] = c => c = NoTrack)
    BY DEF IInv, EntriesDistinct
  <2>4. Current(e)' <=> e = h \/ (Current(e) /\ e # c)
    BY <1>4, <2>3, MusicAssumption DEF Current
  <2>. QED  BY <2>1, <2>2, <2>4
<1>6. ASSUME NEW e \in Entries
      PROVE  Stage(e)' = IF e = h THEN "current" ELSE IF e = c THEN "gone" ELSE Stage(e)
  <2>1. CASE e = h
    BY <2>1, <1>1, <1>2, <1>5 DEF Stage
  <2>2. CASE e # h /\ e = c
    <3>1. Current(e) /\ ~Queued(e) /\ e \in minted
      BY <2>2, <1>3, StageIs, MusicAssumption
    <3>. QED  BY <2>2, <3>1, <1>2, <1>5 DEF Stage
  <2>3. CASE e # h /\ e # c
    BY <2>3, <1>2, <1>5 DEF Stage
  <2>. QED  BY <2>1, <2>2, <2>3
<1>7. Stage(h) = "queued" /\ (c # NoTrack => Stage(c) = "current")
  BY <1>1, <1>3, StageIs
<1>8. CASE c = NoTrack
  <2>1. Life!Promote(h, {})
    BY <1>1, <1>6, <1>7, <1>8, MusicAssumption DEF Life!Promote
  <2>. QED  BY <1>1, <2>1
<1>9. CASE c # NoTrack
  <2>1. c \in Entries  BY <1>3, <1>9
  <2>2. St' = [f \in Entries |-> IF f = h THEN "current"
                               ELSE IF f \in {c} THEN "gone" ELSE St[f]]
    BY <1>6 DEF St
  <2>3. St[h] = "queued" /\ \A f \in {c} : St[f] = "current"
    BY <1>1, <1>7, <1>9, <2>1 DEF St
  <2>4. Life!Promote(h, {c})
    BY <2>2, <2>3 DEF Life!Promote, St
  <2>. QED  BY <1>1, <2>1, <2>4
<1>. QED  BY <1>8, <1>9

\* A batch accepted by an idle player: its first entry becomes current at once.
LEMMA StartsAccepts ==
  ASSUME IInv, NEW t \in Threads, NEW p \in Players, NEW batch \in Batches,
         Starts(t, p, batch)
  PROVE  \E S \in SUBSET Entries : \E e \in S : Life!Accept(S, {e})
<1> DEFINE h == Head(batch)
           r == Tail(batch)
           q0 == queue[p]
           B == ToSet(batch)
<1>1. /\ batch \in Seq(Entries) /\ batch # << >> /\ IsInjective(batch)
      /\ B \subseteq Entries \ minted
  BY BatchFresh, QueueMonotonic
<1>2. /\ B = {h} \cup ToSet(r) /\ r \in Seq(Entries) /\ h \notin ToSet(r)
  BY <1>1, TailElements
<1>3. q0 \in Seq(Entries) /\ ToSet(q0) \subseteq minted
  BY Facts, QueueMonotonic
<1>4. /\ minted' = minted \cup B
      /\ queue' = [queue EXCEPT ![p] = r \o q0]
      /\ current' = [current EXCEPT ![p] = h]
      /\ current[p] = NoTrack
  BY DEF Starts
<1>. HIDE DEF h, r, q0, B
<1>5. ToSet(r \o q0) = ToSet(r) \cup ToSet(q0)
  BY <1>2, <1>3, ConcatElements
<1>6. /\ \A q \in Players : queue'[q] = IF q = p THEN r \o q0 ELSE queue[q]
      /\ \A q \in Players : current'[q] = IF q = p THEN h ELSE current[q]
  BY <1>4 DEF IInv, TypeOK
<1>7. ASSUME NEW e \in Entries
      PROVE  /\ Queued(e)' <=> Queued(e) \/ e \in ToSet(r)
             /\ Current(e)' <=> Current(e) \/ e = h
  <2>1. Queued(e)' <=> Queued(e) \/ e \in ToSet(r)
    BY <1>5, <1>6 DEF Queued, q0
  <2>2. e # NoTrack  BY MusicAssumption
  <2>3. Current(e)' <=> Current(e) \/ e = h
    BY <1>4, <1>6, <2>2 DEF Current
  <2>. QED  BY <2>1, <2>3
<1>8. ASSUME NEW e \in Entries
      PROVE  Stage(e)' = IF e \notin B THEN Stage(e)
                         ELSE IF e = h THEN "current" ELSE "queued"
  <2>1. CASE e \notin B
    BY <2>1, <1>2, <1>4, <1>7 DEF Stage
  <2>2. CASE e \in B
    <3>1. ~Queued(e) /\ ~Current(e)  BY <2>2, <1>1, StageIs
    <3>. QED  BY <2>2, <3>1, <1>2, <1>4, <1>7 DEF Stage
  <2>. QED  BY <2>1, <2>2
<1>9. \A e \in B : Stage(e) = "new"  BY <1>1, StageIs
<1>10. Life!Accept(B, {h})
  BY <1>1, <1>2, <1>8, <1>9 DEF Life!Accept
<1>. QED  BY <1>1, <1>2, <1>10

\* A batch that is queued: all its entries wait.
LEMMA JoinsAccepts ==
  ASSUME IInv, NEW p \in Players, NEW batch \in Batches, Joins(p, batch)
  PROVE  \E S \in SUBSET Entries : Life!Accept(S, {})
<1> DEFINE q0 == queue[p]
           B == ToSet(batch)
<1>1. /\ batch \in Seq(Entries) /\ batch # << >> /\ B \subseteq Entries \ minted
  BY BatchFresh, QueueMonotonic
<1>2. q0 \in Seq(Entries)  BY Facts, QueueMonotonic
<1>3. /\ minted' = minted \cup B
      /\ queue' = [queue EXCEPT ![p] = q0 \o batch] \/ queue' = [queue EXCEPT ![p] = batch \o q0]
      /\ UNCHANGED current
  BY DEF Joins
<1>4. B # {}
  <2>1. Head(batch) \in B  BY <1>1, TailElements
  <2>. QED  BY <2>1
<1>. HIDE DEF q0, B
<1>5. PICK qn : /\ queue' = [queue EXCEPT ![p] = qn]
                /\ ToSet(qn) = B \cup ToSet(q0)
  <2>1. ToSet(q0 \o batch) = B \cup ToSet(q0) /\ ToSet(batch \o q0) = B \cup ToSet(q0)
    BY <1>1, <1>2, ConcatElements DEF B
  <2>2. CASE queue' = [queue EXCEPT ![p] = q0 \o batch]  BY <2>1, <2>2
  <2>3. CASE queue' = [queue EXCEPT ![p] = batch \o q0]  BY <2>1, <2>3
  <2>. QED  BY <1>3, <2>2, <2>3
<1>6. \A q \in Players : queue'[q] = IF q = p THEN qn ELSE queue[q]
  BY <1>5 DEF IInv, TypeOK
<1>7. ASSUME NEW e \in Entries
      PROVE  /\ Queued(e)' <=> Queued(e) \/ e \in B
             /\ Current(e)' <=> Current(e)
  BY <1>3, <1>5, <1>6 DEF Queued, Current, q0
<1>8. ASSUME NEW e \in Entries
      PROVE  Stage(e)' = IF e \notin B THEN Stage(e) ELSE "queued"
  BY <1>3, <1>7 DEF Stage
<1>9. \A e \in B : Stage(e) = "new"  BY <1>1, StageIs
<1>10. St' = [e \in Entries |-> IF e \notin B THEN St[e]
                               ELSE IF e \in {} THEN "current" ELSE "queued"]
  BY <1>8 DEF St
<1>11. \A e \in B : St[e] = "new"  BY <1>1, <1>9 DEF St
<1>12. Life!Accept(B, {})
  BY <1>4, <1>10, <1>11 DEF Life!Accept, St
<1>. QED  BY <1>1, <1>12

\* The guild player implements the life of a queue entry: whatever the
\* interleaving, an entry is accepted once, becomes current at most once and,
\* once gone, never comes back.
THEOREM ImplementsLifecycle == Spec => Lifecycle
<1>1. IInv /\ IInv' /\ [Next]_vars => [Life!LifeNext]_St
  <2>. SUFFICES ASSUME IInv, IInv', [Next]_vars PROVE [Life!LifeNext]_St
    OBVIOUS
  <2>1. CASE Shrinks
    BY <2>1, ShrinksDrops DEF Life!LifeNext
  <2>2. CASE \E t \in Threads : Sends(t)
    BY <2>2, SendsStutters
  <2>3. CASE \E t \in Threads, p \in Players : PopsHead(t, p)
    BY <2>3, PopsHeadPromotes DEF Life!LifeNext
  <2>4. CASE \E t \in Threads, p \in Players, batch \in Batches : Starts(t, p, batch)
    BY <2>4, StartsAccepts DEF Life!LifeNext
  <2>5. CASE \E p \in Players, batch \in Batches : Joins(p, batch)
    BY <2>5, JoinsAccepts DEF Life!LifeNext
  <2>. QED  BY <2>1, <2>2, <2>3, <2>4, <2>5, StepKinds DEF StepKind
<1>. QED
  BY <1>1, InitStages, Inductive, PTL DEF Spec, Lifecycle, Life!LifeSpec, St
=============================================================================
