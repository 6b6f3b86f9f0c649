----------------------------- MODULE LevelProofs -----------------------------
(***************************************************************************)
(* Proofs about LevelEngine: no XP is lost, and a level is never ahead of  *)
(* its XP, whatever the number of handlers and however they interleave.    *)
(***************************************************************************)
EXTENDS MCMessages, FiniteSetTheorems, TLAPS

-----------------------------------------------------------------------------
(* The progression                                                         *)

\* A level is a natural number, whatever the XP.
LEMMA LevelIsNat ==
  ASSUME NEW xp \in Nat
  PROVE  LevelForXP(xp) \in Nat
<1>1. 0 \in Int /\ xp \div 100 \in Int
  OBVIOUS
<1>2. IsFiniteSet(1..(xp \div 100))
  BY <1>1, FS_Interval
<1>3. IsFiniteSet({n \in 1..(xp \div 100) : CalculateXPForLevel(n) <= xp})
  BY <1>2, FS_Subset
<1> QED
  BY <1>3, FS_CardinalityType DEF LevelForXP

\* More XP never gives a lower level.
LEMMA LevelMonotone ==
  ASSUME NEW xp \in Nat, NEW more \in Nat, xp <= more
  PROVE  LevelForXP(xp) <= LevelForXP(more)
<1> DEFINE Reached(x) == {n \in 1..(x \div 100) : CalculateXPForLevel(n) <= x}
<1>1. IsFiniteSet(1..(more \div 100))
  BY FS_Interval
<1>2. IsFiniteSet(Reached(more))
  BY <1>1, FS_Subset
<1>3. Reached(xp) \subseteq Reached(more)
  <2> SUFFICES ASSUME NEW n \in Reached(xp)
               PROVE  n \in Reached(more)
    OBVIOUS
  <2>1. n \in Int /\ 1 <= n /\ n <= xp \div 100 /\ CalculateXPForLevel(n) \in Int
    BY DEF CalculateXPForLevel
  <2>2. xp \div 100 <= more \div 100
    OBVIOUS
  <2> QED
    BY <2>1, <2>2
<1> QED
  BY <1>2, <1>3, FS_Subset DEF LevelForXP

\* The XP of a level gives that level.
LEMMA LevelOfItsXP ==
  ASSUME NEW level \in Nat
  PROVE  /\ CalculateXPForLevel(level) \in Nat
         /\ LevelForXP(CalculateXPForLevel(level)) = level
<1> DEFINE xp == CalculateXPForLevel(level)
           Reached == {n \in 1..(xp \div 100) : CalculateXPForLevel(n) <= xp}
<1>1. level * level \in Nat
  OBVIOUS
<1>2. xp = 100 * (level * level)
  BY <1>1 DEF CalculateXPForLevel
<1>3. xp \in Nat /\ xp \div 100 = level * level
  BY <1>1, <1>2
<1>4. Reached = 1..level
  <2>1. ASSUME NEW n \in 1..level
        PROVE  n \in Reached
    <3>1. n * n <= level * level /\ n * n \in Nat
      OBVIOUS
    <3>2. n <= level * level
      OBVIOUS
    <3>3. CalculateXPForLevel(n) = 100 * (n * n)
      BY DEF CalculateXPForLevel
    <3> QED
      BY <1>1, <1>2, <1>3, <3>1, <3>2, <3>3
  <2>2. ASSUME NEW n \in Reached
        PROVE  n \in 1..level
    <3>1. n \in Nat /\ 1 <= n /\ n * n \in Nat
      BY <1>1, <1>3
    <3>2. CalculateXPForLevel(n) = 100 * (n * n)
      BY <3>1 DEF CalculateXPForLevel
    <3>3. n * n <= level * level
      BY <1>1, <1>2, <3>1, <3>2
    <3>4. n <= level
      BY <3>1, <3>3
    <3> QED
      BY <3>1, <3>4
  <2> QED
    BY <2>1, <2>2
<1>5. Cardinality(1..level) = level
  BY FS_Interval
<1> QED
  BY <1>3, <1>4, <1>5 DEF LevelForXP

-----------------------------------------------------------------------------
(* The inductive invariant                                                 *)

\* No worker's read is ahead of the row, unless an override intervened.
ReadsBehind ==
  ~raced => \A w \in Workers : pc[w] = "add" => prev[w].xp <= XP

IInv ==
  /\ TypeOK
  /\ XPConserved
  /\ LevelNotInflated
  /\ ReadsBehind

\* The columns are numbers when the row is typed.
LEMMA ColumnsTyped ==
  ASSUME TypeOK
  PROVE  XP \in Nat /\ Level \in Nat /\ LastXPAt \in Never..MaxTime
BY LevelAssumption DEF TypeOK, XP, Level, LastXPAt, Rows, Never

\* The row AddXP leaves is a row.
LEMMA AddedTyped ==
  ASSUME TypeOK, NEW w \in Workers
  PROVE  /\ Added(w) \in Rows
         /\ gained[w] \in Nat
         /\ prev[w].xp \in Nat
<1>1. XP \in Nat
  BY ColumnsTyped
<1>2. gained[w] \in Nat /\ prev[w].xp \in Nat /\ msg[w].now \in 0..MaxTime
  <2>1. gained[w] \in Gains \cup {0} /\ prev[w] \in Read /\ msg[w] \in Msgs
    BY DEF TypeOK
  <2>a. Gains \subseteq Nat
    BY LevelAssumption
  <2>b. gained[w] \in Gains \/ gained[w] = 0
    BY <2>1
  <2>c. \A g \in Gains : g \in Nat
    BY <2>a
  <2>2. gained[w] \in Nat
    <3>1. CASE gained[w] \in Gains
      BY <2>c, <3>1, Zenon
    <3>2. CASE gained[w] = 0
      BY <3>2
    <3> QED
      BY <2>b, <3>1, <3>2
  <2>3. prev[w].xp \in Nat
    BY <2>1 DEF Read
  <2>4. msg[w].now \in 0..MaxTime
    BY <2>1 DEF Msgs
  <2> QED
    BY <2>2, <2>3, <2>4
<1>3. prev[w].xp + gained[w] \in Nat
  BY <1>2
<1>4. LevelForXP(prev[w].xp + gained[w]) \in Nat
  BY <1>3, LevelIsNat
<1> QED
  BY <1>1, <1>2, <1>4, LevelAssumption DEF Added, Rows, Never

\* The row an override leaves is a row.
LEMMA OverriddenTyped ==
  ASSUME TypeOK, NEW level \in 0..MaxLevel
  PROVE  /\ level \in Nat
         /\ Overridden(level) \in Rows
         /\ CalculateXPForLevel(level) \in Nat
<1>1. level \in Nat
  BY LevelAssumption
<1>2. CalculateXPForLevel(level) \in Nat
  BY <1>1, LevelOfItsXP
<1>3. LastXPAt \in Never..MaxTime
  BY ColumnsTyped
<1> QED
  BY <1>1, <1>2, <1>3 DEF Overridden, Rows

\* Rewards are roles, so the changes for a level are changes of roles.
LEMMA WorkTyped ==
  ASSUME TypeOK, NEW level, NEW roles \in SUBSET Roles, NEW stack
  PROVE  Work(level, roles, stack) \in [grant : SUBSET Roles, revoke : SUBSET Roles]
<1>1. \A n \in Earned(level) : rewards[n] \in Roles
  BY DEF TypeOK, Earned
<1>2. EarnedRoles(level) \subseteq Roles /\ Highest(level) \subseteq Roles
  BY <1>1 DEF EarnedRoles, Highest
<1> QED
  BY <1>2 DEF Work, NoWork

\* A record is never mistaken for a missing row.
LEMMA RowIsNotNoRow ==
  ASSUME NEW r \in Rows
  PROVE  r # NoRow
BY LevelAssumption DEF Rows, Never

\* The invariant holds at the start.
LEMMA InitIInv == Init => IInv
<1> SUFFICES ASSUME Init
             PROVE  IInv
  OBVIOUS
<1> USE LevelAssumption
<1>1. TypeOK
  <2>1. cfg \in [enabled : BOOLEAN, stack : BOOLEAN] /\ pc \in [Workers -> Steps]
    BY DEF Init, All, Steps
  <2>2. msg \in [Workers -> Msgs] /\ prev \in [Workers -> Read]
    BY DEF Init, All, Msgs, NoMsg, Read, Zero
  <2>3. todo \in [Workers -> [grant : SUBSET Roles, revoke : SUBSET Roles]]
    BY DEF Init, All, NoWork
  <2>4. /\ gained \in [Workers -> Gains \cup {0}]
        /\ calm \in [Workers -> BOOLEAN]
        /\ \A w \in Workers : pc[w] # "add"
    BY DEF Init, All
  <2>5. rewards \in [1..MaxLevel -> Roles \cup {NoRole}]
    BY DEF Init
  <2>6. held \subseteq Roles /\ row \in Rows \cup {NoRow} /\ raced \in BOOLEAN
    BY DEF Init
  <2>7. MaxTime \in Nat /\ MaxEdits \in Nat
    OBVIOUS
  <2>8. /\ clock \in 0..MaxTime /\ edits \in 0..MaxEdits
        /\ sum \in Nat /\ base \in Nat
    BY <2>7 DEF Init
  <2> QED
    BY <2>1, <2>2, <2>3, <2>4, <2>5, <2>6, <2>8 DEF TypeOK
<1>2. XP = 0 /\ Level = 0 /\ sum = 0 /\ base = 0
  BY DEF Init, XP, Level
<1>3. XPConserved
  BY <1>2 DEF XPConserved
<1>4. LevelNotInflated
  BY <1>2, LevelIsNat DEF LevelNotInflated
<1>5. ReadsBehind
  BY DEF Init, ReadsBehind, All
<1> QED
  BY <1>1, <1>3, <1>4, <1>5 DEF IInv

\* What keeps the rows that the invariant speaks of keeps the invariant.
LEMMA QuietKeeps ==
  ASSUME IInv, TypeOK',
         UNCHANGED <<row, sum, base, raced>>,
         \A w \in Workers : pc'[w] = "add" =>
            \/ pc[w] = "add" /\ prev'[w] = prev[w]
            \/ prev'[w].xp <= XP
  PROVE  IInv'
<1>1. XP' = XP /\ Level' = Level
  BY DEF XP, Level
<1>2. XPConserved'
  BY <1>1 DEF IInv, XPConserved
<1>3. LevelNotInflated'
  BY <1>1 DEF IInv, LevelNotInflated
<1>4. ReadsBehind'
  BY <1>1 DEF IInv, ReadsBehind
<1> QED
  BY <1>2, <1>3, <1>4 DEF IInv

\* The type invariant is inductive by itself.
LEMMA NextTypeOK == TypeOK /\ [Next]_vars => TypeOK'
<1> SUFFICES ASSUME TypeOK, [Next]_vars
             PROVE  TypeOK'
  OBVIOUS
<1> USE LevelAssumption DEF TypeOK, Steps
<1>1. ASSUME NEW w \in Workers, Receive(w)
      PROVE  TypeOK'
  BY <1>1 DEF Receive, Msgs, tables, workerVars
<1>2. ASSUME NEW w \in Workers, GiveUp(w)
      PROVE  TypeOK'
  BY <1>2 DEF GiveUp, Idle, ActsAlone, Msgs, NoMsg, Zero, Read, NoWork, tables
<1>3. ASSUME NEW w \in Workers, CheckCooldown(w)
      PROVE  TypeOK'
  BY <1>2, <1>3 DEF CheckCooldown, ActsAlone, tables
<1>4. ASSUME NEW w \in Workers, Award(w)
      PROVE  TypeOK'
  <2>1. [xp |-> XP, level |-> Level] \in Read /\ Zero \in Read
    BY ColumnsTyped DEF Read, Zero
  <2> QED
    <3>a. PICK r \in {[xp |-> XP, level |-> Level], Zero} :
            prev' = [prev EXCEPT ![w] = r]
      BY <1>4 DEF Award
    <3>b. prev' \in [Workers -> Read]
      BY <2>1, <3>a
    <3>c. calm' \in [Workers -> BOOLEAN]
      BY <1>4 DEF Award, ActsAlone, Disturb, All
    <3>1. prev' \in [Workers -> Read] /\ calm' \in [Workers -> BOOLEAN]
      BY <3>b, <3>c
    <3>2. /\ gained' \in [Workers -> Gains \cup {0}]
          /\ pc' \in [Workers -> Steps]
          /\ \A x \in Workers : pc'[x] = "add" => gained'[x] \in Gains
      BY <1>4 DEF Award
    <3> QED
      BY <1>4, <3>1, <3>2 DEF Award, tables
<1>5. ASSUME NEW w \in Workers, AddXP(w)
      PROVE  TypeOK'
  <2>1. CASE GiveUp(w)
    BY <1>2, <2>1
  <2>2. CASE ~GiveUp(w)
    <3>1. Added(w) \in Rows /\ gained[w] \in Nat
      BY AddedTyped
    <3>2. /\ row' = Added(w) /\ sum' = sum + gained[w]
          /\ pc' \in [Workers -> Steps]
          /\ \A x \in Workers : pc'[x] = "add" => pc[x] = "add"
          /\ calm' \in [Workers -> BOOLEAN]
      BY <1>5, <2>2 DEF AddXP, ActsAlone
    <3> QED
      BY <1>5, <2>2, <3>1, <3>2 DEF AddXP
  <2> QED
    BY <2>1, <2>2
<1>6. ASSUME NEW w \in Workers, Finish(w)
      PROVE  TypeOK'
  BY <1>2, <1>6 DEF Finish
<1>7. ASSUME NEW w \in Workers, ListRewards(w)
      PROVE  TypeOK'
  <2>1. CASE GiveUp(w)
    BY <1>2, <2>1
  <2>2. CASE ~GiveUp(w)
    <3> DEFINE work == Work(LevelForXP(prev[w].xp + gained[w]),
                            msg[w].roles, msg[w].stack)
    <3>1. msg[w].roles \in SUBSET Roles
      BY DEF Msgs
    <3>2. work \in [grant : SUBSET Roles, revoke : SUBSET Roles]
      BY <3>1, WorkTyped
    <3>3. /\ todo' = [todo EXCEPT ![w] = work]
          /\ pc' \in [Workers -> Steps]
          /\ \A x \in Workers : pc'[x] = "add" => pc[x] = "add"
          /\ calm' \in [Workers -> BOOLEAN]
      BY <1>7, <2>2 DEF ListRewards, ActsAlone
    <3> HIDE DEF work
    <3> QED
      BY <1>7, <2>2, <3>2, <3>3 DEF ListRewards, tables
  <2> QED
    BY <2>1, <2>2
<1>8. ASSUME NEW w \in Workers, NEW g \in SUBSET Roles, NEW r \in SUBSET Roles,
             NEW h \in SUBSET Roles, Tried(w, g, r, h)
      PROVE  TypeOK'
  BY <1>8 DEF Tried, ActsAlone, Disturb, All, tables
<1>9. ASSUME NEW w \in Workers, GrantRole(w) \/ RevokeRole(w)
      PROVE  TypeOK'
  <2>1. /\ todo[w].grant \in SUBSET Roles
        /\ todo[w].revoke \in SUBSET Roles
    OBVIOUS
  <2>2. CASE GrantRole(w)
    <3>1. PICK r \in todo[w].grant :
            Tried(w, todo[w].grant \ {r}, todo[w].revoke, held \cup {r})
      BY <2>2 DEF GrantRole
    <3>2. todo[w].grant \ {r} \in SUBSET Roles /\ held \cup {r} \in SUBSET Roles
      BY <2>1
    <3> QED
      BY <1>8, <2>1, <3>1, <3>2
  <2>3. CASE RevokeRole(w)
    <3>1. PICK r \in todo[w].revoke :
            Tried(w, {}, todo[w].revoke \ {r}, held \ {r})
      BY <2>3 DEF RevokeRole
    <3>2. todo[w].revoke \ {r} \in SUBSET Roles /\ held \ {r} \in SUBSET Roles
      BY <2>1
    <3> QED
      BY <1>8, <2>1, <3>1, <3>2
  <2> QED
    BY <1>9, <2>2, <2>3
<1>10. ASSUME NEW w \in Workers, RolesDone(w)
       PROVE  TypeOK'
  BY <1>10 DEF RolesDone, ActsAlone, tables
<1>11. CASE SetLevel
  <2> QED
    BY <1>11, OverriddenTyped DEF SetLevel, Edit, Disturb, All, workerVars
<1>12. CASE SetLevelReward
  BY <1>12 DEF SetLevelReward, Edit, Disturb, All, workerVars
<1>13. CASE SaveConfig
  BY <1>13 DEF SaveConfig, Edit, Disturb, All, workerVars
<1>14. CASE Tick
  BY <1>14 DEF Tick, tables, workerVars, history
<1>15. CASE UNCHANGED vars
  BY <1>15 DEF vars, tables, workerVars, history
<1> QED
  BY <1>1, <1>3, <1>4, <1>5, <1>6, <1>7, <1>9, <1>10, <1>11, <1>12, <1>13, <1>14, <1>15
     DEF Next

-----------------------------------------------------------------------------
(* Every step keeps the invariant                                          *)

\* Every step of a handler, an administrator or the clock keeps the invariant.
LEMMA NextIInv == IInv /\ [Next]_vars => IInv'
<1> SUFFICES ASSUME IInv, [Next]_vars
             PROVE  IInv'
  OBVIOUS
<1>1. TypeOK /\ TypeOK'
  BY NextTypeOK DEF IInv
<1>2. ASSUME NEW w \in Workers, GiveUp(w)
      PROVE  IInv'
  BY <1>1, <1>2, QuietKeeps DEF GiveUp, Idle, tables, TypeOK, Steps
<1>3. ASSUME NEW w \in Workers,
             Receive(w) \/ CheckCooldown(w) \/ ListRewards(w) \/ GrantRole(w)
               \/ RevokeRole(w) \/ RolesDone(w) \/ Finish(w)
      PROVE  IInv'
  <2>1. CASE GiveUp(w)
    BY <1>2, <2>1
  <2>2. CASE ~GiveUp(w)
    <3>1. UNCHANGED <<row, sum, base, raced, prev>>
      BY <1>3, <2>2 DEF Receive, CheckCooldown, ListRewards, GrantRole,
           RevokeRole, Tried, RolesDone, Finish, tables
    <3>2. \A x \in Workers : pc'[x] = "add" => pc[x] = "add"
      BY <1>1, <1>3, <2>2 DEF Receive, CheckCooldown, ListRewards, GrantRole,
           RevokeRole, Tried, RolesDone, Finish, TypeOK
    <3> QED
      BY <1>1, <3>1, <3>2, QuietKeeps
  <2> QED
    BY <2>1, <2>2
<1>4. ASSUME NEW w \in Workers, Award(w)
      PROVE  IInv'
  <2>1. UNCHANGED <<row, sum, base, raced>>
    BY <1>4 DEF Award, tables
  <2>2. prev'[w].xp <= XP
    BY <1>1, <1>4, ColumnsTyped DEF Award, Zero, TypeOK
  <2>3. \A x \in Workers : x # w => pc'[x] = pc[x] /\ prev'[x] = prev[x]
    BY <1>1, <1>4 DEF Award, TypeOK
  <2> QED
    BY <1>1, <2>1, <2>2, <2>3, QuietKeeps
<1>5. ASSUME NEW w \in Workers, AddXP(w)
      PROVE  IInv'
  <2>1. CASE GiveUp(w)
    BY <1>2, <2>1
  <2>2. CASE ~GiveUp(w)
    <3>1. /\ row' = Added(w) /\ sum' = sum + gained[w]
          /\ UNCHANGED <<base, raced, prev>>
          /\ pc[w] = "add"
          /\ \A x \in Workers : pc'[x] = "add" => pc[x] = "add"
      BY <1>1, <1>5, <2>2 DEF AddXP, TypeOK
    <3>2. gained[w] \in Nat /\ prev[w].xp \in Nat /\ XP \in Nat /\ row' # NoRow
      BY <1>1, <3>1, AddedTyped, ColumnsTyped, RowIsNotNoRow
    <3>3. /\ XP' = XP + gained[w]
          /\ Level' = LevelForXP(prev[w].xp + gained[w])
      BY <3>1, <3>2 DEF Added, XP, Level
    <3>4. XPConserved'
      BY <1>1, <3>1, <3>2, <3>3 DEF IInv, XPConserved, TypeOK
    <3>5. LevelNotInflated'
      <4> SUFFICES ASSUME ~raced
                   PROVE  Level' <= LevelForXP(XP')
        BY <3>1 DEF LevelNotInflated
      <4>1. prev[w].xp <= XP
        BY <3>1 DEF IInv, ReadsBehind
      <4>2. LevelForXP(prev[w].xp + gained[w]) <= LevelForXP(XP + gained[w])
        BY <3>2, <4>1, LevelMonotone
      <4> QED
        BY <3>3, <4>2
    <3>6. ReadsBehind'
      <4> SUFFICES ASSUME ~raced, NEW x \in Workers, pc[x] = "add"
                   PROVE  prev[x].xp <= XP'
        BY <3>1 DEF ReadsBehind
      <4>1. prev[x].xp <= XP
        BY DEF IInv, ReadsBehind
      <4>2. prev[x].xp \in Nat
        BY <1>1, AddedTyped
      <4> QED
        BY <3>2, <3>3, <4>1, <4>2
    <3> QED
      BY <1>1, <3>4, <3>5, <3>6 DEF IInv
  <2> QED
    BY <2>1, <2>2
<1>6. CASE SetLevel
  <2>1. PICK level \in 0..MaxLevel :
          row' = Overridden(level) /\ base' = CalculateXPForLevel(level)
    BY <1>6 DEF SetLevel
  <2>2. level \in Nat /\ row' # NoRow /\ CalculateXPForLevel(level) \in Nat
    BY <1>1, <2>1, OverriddenTyped, RowIsNotNoRow
  <2>3. XP' = CalculateXPForLevel(level) /\ Level' = level
    BY <2>1, <2>2 DEF Overridden, XP, Level
  <2>4. XPConserved'
    BY <1>6, <2>1, <2>2, <2>3 DEF SetLevel, XPConserved
  <2>5. LevelNotInflated'
    BY <2>2, <2>3, LevelOfItsXP DEF LevelNotInflated
  <2>6. ReadsBehind'
    BY <1>6 DEF SetLevel, ReadsBehind, workerVars
  <2> QED
    BY <1>1, <2>4, <2>5, <2>6 DEF IInv
<1>7. CASE SetLevelReward \/ SaveConfig \/ Tick \/ UNCHANGED vars
  <2>1. UNCHANGED <<row, sum, base, raced, pc, prev>>
    BY <1>7 DEF SetLevelReward, SaveConfig, Tick, vars, tables, workerVars, history
  <2> QED
    BY <1>1, <2>1, QuietKeeps
<1> QED
  BY <1>3, <1>4, <1>5, <1>6, <1>7 DEF Next

\* The invariant holds in every reachable state, for any number of handlers.
THEOREM Inductive == Spec => []IInv
BY InitIInv, NextIInv, PTL DEF Spec

\* The row stays a row with a level, and a handler that is about to add XP has
\* something to add, whatever failed before.
THEOREM TypeCorrect == Spec => []TypeOK
<1>1. IInv => TypeOK
  BY DEF IInv
<1> QED
  BY <1>1, Inductive, PTL

\* No XP is lost or counted twice: AddXP's delta makes concurrent messages add
\* up, whatever they read before.
THEOREM NoXPLost == Spec => []XPConserved
<1>1. IInv => XPConserved
  BY DEF IInv
<1> QED
  BY <1>1, Inductive, PTL

\* The level AddXP writes from a stale read is never ahead of the XP, unless a
\* /setlevel came between the read and the write.
THEOREM NeverInflated == Spec => []LevelNotInflated
<1>1. IInv => LevelNotInflated
  BY DEF IInv
<1> QED
  BY <1>1, Inductive, PTL

-----------------------------------------------------------------------------
(* A message handled alone                                                 *)

OffCooldown(w) == LastXPAt = Never \/ msg[w].now - LastXPAt >= Cooldown

\* What the message came with still holds.
Fresh(w) == msg[w].roles = held /\ msg[w].stack = cfg.stack

\* The role changes left to make are those that lack.
Ahead(w) ==
  IF cfg.stack THEN EarnedRoles(Level) \subseteq held \cup todo[w].grant /\ todo[w].revoke = {}
  ELSE Earned(Level) # {} =>
         /\ Highest(Level) \subseteq held \cup todo[w].grant
         /\ held \cap RewardRoles \subseteq Highest(Level) \cup todo[w].revoke
         /\ todo[w].grant \subseteq Highest(Level)
         /\ todo[w].revoke \cap Highest(Level) = {}

Rewarded ==
  IF cfg.stack THEN EarnedRoles(Level) \subseteq held
  ELSE Earned(Level) = {} \/ held \cap RewardRoles = Highest(Level)

\* Where each step of the handler leaves the member.
CalmState(w) ==
  /\ pc[w] \in {"cooldown", "award", "add", "rewards"} => Fresh(w)
  /\ pc[w] \in {"award", "add"} => OffCooldown(w)
  /\ pc[w] = "add" => prev[w].xp = XP /\ prev[w].level = Level
  /\ pc[w] \in {"rewards", "roles", "settled", "rewarded"} => Level = LevelForXP(XP)
  /\ pc[w] = "rewards" => Level = LevelForXP(prev[w].xp + gained[w])
  /\ pc[w] = "roles" => Ahead(w)
  /\ pc[w] = "rewarded" => Rewarded

CalmInv == \A w \in Workers : calm[w] => CalmState(w)

\* The columns depend on nothing but the row, the roles on nothing but the rewards.
LEMMA SameColumns ==
  ASSUME row' = row
  PROVE  XP' = XP /\ Level' = Level /\ LastXPAt' = LastXPAt
BY DEF XP, Level, LastXPAt

LEMMA SameRewards ==
  ASSUME rewards' = rewards, row' = row
  PROVE  /\ EarnedRoles(Level)' = EarnedRoles(Level)
         /\ Earned(Level)' = Earned(Level)
         /\ Highest(Level)' = Highest(Level)
         /\ RewardRoles' = RewardRoles
BY DEF EarnedRoles, Earned, Highest, RewardRoles, Level

\* The changes computed for a level are those that lack.
LEMMA WorkIsAhead ==
  ASSUME TypeOK, NEW w \in Workers, todo[w] = Work(Level, held, cfg.stack)
  PROVE  Ahead(w)
<1>1. Highest(Level) \subseteq RewardRoles
  BY DEF Highest, RewardRoles, Earned
<1>2. cfg.stack \in BOOLEAN
  BY DEF TypeOK
<1>3. CASE Earned(Level) = {}
  <2>1. EarnedRoles(Level) = {} /\ todo[w].revoke = {}
    BY <1>3 DEF EarnedRoles, Work, NoWork
  <2> QED
    BY <1>3, <2>1 DEF Ahead
<1>4. CASE Earned(Level) # {} /\ cfg.stack
  BY <1>4 DEF Ahead, Work
<1>5. CASE Earned(Level) # {} /\ ~cfg.stack
  <2>1. todo[w] = [grant |-> Highest(Level) \ held,
                   revoke |-> (RewardRoles \cap held) \ Highest(Level)]
    BY <1>5 DEF Work
  <2> QED
    BY <1>5, <2>1 DEF Ahead
<1> QED
  BY <1>2, <1>3, <1>4, <1>5

LEMMA CalmStep ==
  ASSUME TypeOK, CalmInv, [Next]_vars
  PROVE  CalmInv'
<1>1. CASE calm' = All(FALSE)
  BY <1>1 DEF CalmInv, All
<1>2. ASSUME NEW w \in Workers, ActsAlone(w), calm[w] => CalmState(w)'
      PROVE  CalmInv'
  BY <1>2 DEF CalmInv, ActsAlone
<1>3. ASSUME NEW w \in Workers, GiveUp(w)
      PROVE  CalmInv'
  <2>1. pc'[w] = "idle"
    BY <1>3 DEF GiveUp, Idle, TypeOK
  <2> QED
    BY <1>2, <1>3, <2>1 DEF GiveUp, CalmState
<1>4. ASSUME NEW w \in Workers, Receive(w)
      PROVE  CalmInv'
  <2>1. /\ pc'[w] = "cooldown" /\ msg'[w] = [now |-> clock, roles |-> held, stack |-> cfg.stack]
        /\ held' = held /\ cfg' = cfg
    BY <1>4 DEF Receive, TypeOK, tables
  <2>2. CalmState(w)'
    BY <2>1 DEF CalmState, Fresh
  <2>3. \A x \in Workers : calm'[x] => x = w
    BY <1>4 DEF Receive
  <2> QED
    BY <2>2, <2>3 DEF CalmInv
<1>5. ASSUME NEW w \in Workers, CheckCooldown(w), ~GiveUp(w)
      PROVE  CalmInv'
  <2>1. /\ pc[w] = "cooldown" /\ pc'[w] = "award" /\ ActsAlone(w)
        /\ ~OnCooldown(LastXPAt, msg[w].now)
        /\ UNCHANGED <<row, held, cfg, msg>>
    BY <1>5 DEF CheckCooldown, TypeOK, tables
  <2>2. LastXPAt' = LastXPAt
    BY <2>1, SameColumns
  <2>3. OffCooldown(w)'
    <3>1. LastXPAt = Never \/ ~(msg[w].now - LastXPAt < Cooldown)
      BY <2>1 DEF OnCooldown
    <3>2. LastXPAt \in Int /\ msg[w].now \in Int /\ Cooldown \in Int
      BY ColumnsTyped, LevelAssumption DEF TypeOK, Msgs, Never
    <3> QED
      BY <2>1, <2>2, <3>1, <3>2 DEF OffCooldown
  <2>4. calm[w] => CalmState(w)'
    BY <2>1, <2>3 DEF CalmInv, CalmState, Fresh
  <2> QED
    BY <1>2, <2>1, <2>4
<1>6. ASSUME NEW w \in Workers, Award(w)
      PROVE  CalmInv'
  <2>1. CASE Disturb
    BY <1>1, <2>1 DEF Disturb
  <2>2. CASE prev' = [prev EXCEPT ![w] = [xp |-> XP, level |-> Level]] /\ ActsAlone(w)
    <3>1. /\ pc[w] = "award" /\ pc'[w] = "add" /\ UNCHANGED <<row, held, cfg, msg>>
      BY <1>6 DEF Award, TypeOK, tables
    <3>2. prev'[w].xp = XP /\ prev'[w].level = Level
      BY <2>2 DEF TypeOK
    <3>3. XP' = XP /\ Level' = Level /\ LastXPAt' = LastXPAt
      BY <3>1, SameColumns
    <3>4. calm[w] => CalmState(w)'
      BY <3>1, <3>2, <3>3 DEF CalmInv, CalmState, Fresh, OffCooldown
    <3> QED
      BY <1>2, <2>2, <3>4
  <2> QED
    BY <1>6, <2>1, <2>2 DEF Award
<1>7. ASSUME NEW w \in Workers, AddXP(w), ~GiveUp(w)
      PROVE  CalmInv'
  <2>1. /\ pc[w] = "add" /\ pc'[w] \in {"rewards", "settled"} /\ ActsAlone(w) /\ row' = Added(w)
        /\ UNCHANGED <<held, cfg, msg, gained, prev>>
    BY <1>7 DEF AddXP, TypeOK
  <2>2. /\ gained[w] \in Nat /\ prev[w].xp \in Nat /\ row' # NoRow
    BY <2>1, AddedTyped, RowIsNotNoRow
  <2>3. /\ XP' = XP + gained[w]
        /\ Level' = LevelForXP(prev[w].xp + gained[w])
    BY <2>1, <2>2 DEF Added, XP, Level
  <2>4. ASSUME calm[w] PROVE CalmState(w)'
    <3>1. prev[w].xp = XP /\ Fresh(w)
      BY <2>1, <2>4 DEF CalmInv, CalmState
    <3>2. Level' = LevelForXP(XP') /\ Level' = LevelForXP(prev'[w].xp + gained'[w])
      BY <2>1, <2>3, <3>1
    <3>3. LevelForXP(XP)' = LevelForXP(XP') /\ LevelForXP(prev[w].xp + gained[w])' = LevelForXP(prev'[w].xp + gained'[w])
      BY DEF LevelForXP
    <3>4. Fresh(w)'
      BY <2>1, <3>1 DEF Fresh
    <3> QED
      BY <2>1, <3>2, <3>3, <3>4 DEF CalmState
  <2> QED
    BY <1>2, <2>1, <2>4
<1>8. ASSUME NEW w \in Workers, ListRewards(w), ~GiveUp(w)
      PROVE  CalmInv'
  <2>1. /\ pc[w] = "rewards" /\ pc'[w] = "roles" /\ ActsAlone(w)
        /\ todo'[w] = Work(LevelForXP(prev[w].xp + gained[w]), msg[w].roles, msg[w].stack)
        /\ UNCHANGED <<row, rewards, cfg, held>>
    BY <1>8 DEF ListRewards, TypeOK, tables
  <2>2. XP' = XP /\ Level' = Level
    BY <2>1, SameColumns
  <2>3. ASSUME calm[w] PROVE CalmState(w)'
    <3>1. Level = LevelForXP(XP) /\ Level = LevelForXP(prev[w].xp + gained[w]) /\ Fresh(w)
      BY <2>1, <2>3 DEF CalmInv, CalmState
    <3>2. todo'[w] = Work(Level, held, cfg.stack)
      BY <2>1, <3>1 DEF Fresh
    <3>3. Work(Level, held, cfg.stack)' = Work(Level, held, cfg.stack)
      BY <2>1, <2>2 DEF Work, Earned, EarnedRoles, Highest, RewardRoles
    <3>4. TypeOK'
      BY NextTypeOK
    <3>5. Ahead(w)'
      <4>1. (TypeOK /\ todo[w] = Work(Level, held, cfg.stack) => Ahead(w))'
        BY WorkIsAhead, PTL
      <4> QED
        BY <3>2, <3>3, <3>4, <4>1
    <3>6. Level' = LevelForXP(XP)'
      BY <2>2, <3>1 DEF LevelForXP
    <3> QED
      BY <2>1, <3>5, <3>6 DEF CalmState
  <2> QED
    BY <1>2, <2>1, <2>3
<1>9. ASSUME NEW w \in Workers, GrantRole(w) \/ RevokeRole(w)
      PROVE  CalmInv'
  <2>1. CASE Disturb
    BY <1>1, <2>1 DEF Disturb
  <2>2. CASE ~Disturb
    <3>1. PICK r, g, k :
            /\ todo' = [todo EXCEPT ![w] = [grant |-> g, revoke |-> k]]
            /\ ActsAlone(w) /\ pc[w] = "roles"
            /\ \/ /\ r \in todo[w].grant /\ g = todo[w].grant \ {r} /\ k = todo[w].revoke
                  /\ held' = held \cup {r}
               \/ /\ r \in todo[w].revoke /\ g = {} /\ k = todo[w].revoke \ {r}
                  /\ todo[w].grant = {} /\ held' = held \ {r}
      BY <1>9, <2>2 DEF GrantRole, RevokeRole, Tried
    <3>2. UNCHANGED <<row, rewards, cfg, pc>>
      BY <1>9 DEF GrantRole, RevokeRole, Tried, tables
    <3>3. todo'[w].grant = g /\ todo'[w].revoke = k
      BY <3>1 DEF TypeOK
    <3>4. /\ EarnedRoles(Level)' = EarnedRoles(Level) /\ Earned(Level)' = Earned(Level)
          /\ Highest(Level)' = Highest(Level) /\ RewardRoles' = RewardRoles
          /\ Level' = Level /\ XP' = XP
      BY <3>2, SameRewards, SameColumns
    <3>5. ASSUME calm[w] PROVE CalmState(w)'
      <4>1. Ahead(w) /\ Level = LevelForXP(XP)
        BY <3>1, <3>5 DEF CalmInv, CalmState
      <4>2. Ahead(w)'
        <5>0. cfg.stack \in BOOLEAN
          BY DEF TypeOK
        <5>1. CASE cfg.stack
          BY <3>1, <3>2, <3>3, <3>4, <4>1, <5>1 DEF Ahead
        <5>2. CASE ~cfg.stack
          BY <3>1, <3>2, <3>3, <3>4, <4>1, <5>2 DEF Ahead
        <5> QED
          BY <5>0, <5>1, <5>2
      <4>3. Level' = LevelForXP(XP)'
        BY <3>4, <4>1 DEF LevelForXP
      <4> QED
        BY <3>1, <3>2, <4>2, <4>3 DEF CalmState
    <3> QED
      BY <1>2, <3>1, <3>5
  <2> QED
    BY <2>1, <2>2
<1>10. ASSUME NEW w \in Workers, RolesDone(w)
       PROVE  CalmInv'
  <2>1. /\ pc[w] = "roles" /\ pc'[w] = "rewarded" /\ ActsAlone(w) /\ todo[w] = NoWork
        /\ UNCHANGED <<row, rewards, cfg, held>>
    BY <1>10 DEF RolesDone, TypeOK, tables
  <2>2. /\ EarnedRoles(Level)' = EarnedRoles(Level) /\ Earned(Level)' = Earned(Level)
        /\ Highest(Level)' = Highest(Level) /\ RewardRoles' = RewardRoles
        /\ Level' = Level /\ XP' = XP
    BY <2>1, SameRewards, SameColumns
  <2>3. ASSUME calm[w] PROVE CalmState(w)'
    <3>1. Ahead(w) /\ Level = LevelForXP(XP)
      BY <2>1, <2>3 DEF CalmInv, CalmState
    <3>2. Highest(Level) \subseteq RewardRoles
      BY DEF Highest, RewardRoles, Earned
    <3>3. Rewarded
      BY <2>1, <3>1, <3>2 DEF Ahead, Rewarded, NoWork
    <3>4. Rewarded' /\ Level' = LevelForXP(XP)'
      BY <2>1, <2>2, <3>1, <3>3 DEF Rewarded, LevelForXP
    <3> QED
      BY <2>1, <3>4 DEF CalmState
  <2> QED
    BY <1>2, <2>1, <2>3
<1>11. CASE Tick \/ UNCHANGED vars
  <2>1. UNCHANGED <<row, rewards, cfg, held, pc, msg, gained, prev, todo, calm>>
    BY <1>11 DEF Tick, vars, tables, workerVars, history
  <2>2. /\ EarnedRoles(Level)' = EarnedRoles(Level) /\ Earned(Level)' = Earned(Level)
        /\ Highest(Level)' = Highest(Level) /\ RewardRoles' = RewardRoles
        /\ Level' = Level /\ XP' = XP /\ LastXPAt' = LastXPAt
    BY <2>1, SameRewards, SameColumns
  <2> SUFFICES ASSUME NEW w \in Workers, CalmState(w)
               PROVE  CalmState(w)'
    BY <2>1 DEF CalmInv
  <2>3. Fresh(w) => Fresh(w)'
    BY <2>1 DEF Fresh
  <2>4. OffCooldown(w) => OffCooldown(w)'
    BY <2>1, <2>2 DEF OffCooldown
  <2>5. Ahead(w) => Ahead(w)'
    BY <2>1, <2>2 DEF Ahead
  <2>6. Rewarded => Rewarded'
    BY <2>1, <2>2 DEF Rewarded
  <2>7. LevelForXP(XP)' = LevelForXP(XP)
        /\ LevelForXP(prev[w].xp + gained[w])' = LevelForXP(prev[w].xp + gained[w])
    BY <2>1, <2>2 DEF LevelForXP
  <2> QED
    BY <2>1, <2>2, <2>3, <2>4, <2>5, <2>6, <2>7 DEF CalmState
<1>12. CASE SetLevel \/ SetLevelReward \/ SaveConfig
  BY <1>1, <1>12 DEF SetLevel, SetLevelReward, SaveConfig, Edit, Disturb
<1> QED
  BY <1>3, <1>4, <1>5, <1>6, <1>7, <1>8, <1>9, <1>10, <1>11, <1>12 DEF Next, Finish

LEMMA CalmInvariant == Spec => [](TypeOK /\ CalmInv)
<1>1. Init => TypeOK /\ CalmInv
  BY InitIInv DEF IInv, Init, All, CalmInv
<1>2. TypeOK /\ CalmInv /\ [Next]_vars => TypeOK' /\ CalmInv'
  BY NextTypeOK, CalmStep
<1> QED
  BY <1>1, <1>2, PTL DEF Spec

\* A message handled alone and without a failure leaves the level that the XP
\* gives: AddXP writes what the second read and the gain make it.
THEOREM CalmLevels == Spec => []CalmLevelExact
<1>1. CalmInv => CalmLevelExact
  BY DEF CalmInv, CalmState, CalmLevelExact
<1> QED
  BY <1>1, CalmInvariant, PTL

\* A level-up handled alone and without a failure leaves the member with the
\* roles that applyLevelRewards is for.
THEOREM CalmRoles == Spec => []CalmRewards
<1>1. CalmInv => CalmRewards
  BY DEF CalmInv, CalmState, Rewarded, CalmRewards
<1> QED
  BY <1>1, CalmInvariant, PTL

\* A message handled alone gains XP only when a cooldown has passed since the
\* last one that did.
THEOREM CalmPace == Spec => CalmCooldown
<1>1. ASSUME TypeOK, CalmInv, [Next]_vars, NEW w \in Workers,
             calm[w], calm'[w], row' # row, LastXPAt # Never
      PROVE  row'.last - LastXPAt >= Cooldown
  <2>1. PICK x \in Workers : AddXP(x) /\ ~GiveUp(x)
    <3>1. ~SetLevel
      BY <1>1 DEF SetLevel, Edit, Disturb, All
    <3>2. ~(SetLevelReward \/ SaveConfig \/ Tick \/ UNCHANGED vars)
      BY <1>1 DEF SetLevelReward, SaveConfig, Tick, vars, tables
    <3>3. PICK x \in Workers :
            \/ Receive(x) \/ CheckCooldown(x) \/ Award(x) \/ AddXP(x) \/ ListRewards(x)
            \/ GrantRole(x) \/ RevokeRole(x) \/ RolesDone(x) \/ Finish(x)
      BY <1>1, <3>1, <3>2 DEF Next
    <3>4. ~GiveUp(x)
      BY <1>1 DEF GiveUp, tables
    <3> QED
      BY <1>1, <3>3, <3>4
      DEF Receive, CheckCooldown, Award, ListRewards, GrantRole, RevokeRole, Tried, RolesDone,
          Finish, tables
  <2>2. pc[x] = "add" /\ ActsAlone(x) /\ row' = Added(x)
    BY <2>1 DEF AddXP
  <2>3. x = w
    BY <1>1, <2>2 DEF ActsAlone
  <2>4. OffCooldown(w)
    BY <1>1, <2>2, <2>3 DEF CalmInv, CalmState
  <2> QED
    BY <1>1, <2>2, <2>3, <2>4 DEF OffCooldown, Added
<1>2. TypeOK /\ CalmInv /\ [Next]_vars =>
        [\A w \in Workers : calm[w] /\ calm'[w] /\ row' # row /\ LastXPAt # Never
                              => row'.last - LastXPAt >= Cooldown]_vars
  BY <1>1
<1> QED
  BY <1>2, CalmInvariant, PTL DEF Spec, CalmCooldown

-----------------------------------------------------------------------------
(* The pipeline a message goes through                                     *)

PipelineTyped ==
  /\ now \in Pipeline!Times
  /\ automod \in AutomodConfigs
  /\ spam \in [Pipeline!Times -> Nat] /\ heard \in [Pipeline!Times -> Nat]
  /\ narrowest \in Int
  /\ afk \in Nat /\ away \in Nat /\ greeted \in Nat
  /\ handler = [t \in Handlers |-> handler[t]]

\* A handler that has read the clock has read it before.
ClockRead ==
  \A t \in Handlers : handler[t].step = "spam" =>
    handler[t].cfg \in AutomodConfigs /\ handler[t].at \in 0..now

\* What the collector and every rule so far would keep is kept.
SpamKept ==
  \A x \in Pipeline!Times :
    x > now - narrowest /\ x > now - Retention => spam[x] = heard[x]

PipelineInv == PipelineTyped /\ ClockRead /\ SpamKept /\ Pipeline!OneWelcomeBack

\* One handler goes on to another job.
LEMMA JobChanges ==
  ASSUME PipelineTyped, NEW t \in Handlers, NEW job, handler' = [handler EXCEPT ![t] = job]
  PROVE  /\ handler' = [x \in Handlers |-> handler'[x]]
         /\ handler'[t] = job
         /\ \A x \in Handlers \ {t} : handler'[x] = handler[x]
<1>1. DOMAIN handler = Handlers
  BY DEF PipelineTyped
<1> QED
  BY <1>1

\* A step that leaves the counting alone, and after which no handler has read a
\* clock that it had not read before.
LEMMA PipelineKept ==
  ASSUME PipelineInv, UNCHANGED <<now, automod, spam, heard, narrowest, afk, away, greeted>>,
         NEW t \in Handlers, NEW job, handler' = [handler EXCEPT ![t] = job],
         \/ job.step # "spam"
         \/ job.cfg \in AutomodConfigs /\ job.at \in 0..now
  PROVE  PipelineInv'
<1>1. PipelineTyped' /\ ClockRead'
  BY JobChanges DEF PipelineInv, PipelineTyped, ClockRead
<1>2. SpamKept' /\ Pipeline!OneWelcomeBack'
  BY DEF PipelineInv, SpamKept, Pipeline!OneWelcomeBack, Pipeline!NotAFK
<1> QED
  BY <1>1, <1>2 DEF PipelineInv

LEMMA PipelineStep ==
  ASSUME PipelineInv, [Pipeline!Next]_pipeVars
  PROVE  PipelineInv'
<1> USE PipelineAssumption DEF PipelineInv
<1>0. now \in Nat /\ \A x \in Pipeline!Times : x \in Nat
  BY DEF PipelineTyped, Pipeline!Times
<1>1. CASE Pipeline!Tick
  <2>1. /\ now' = now + 1 /\ now < MaxWait
        /\ UNCHANGED <<automod, spam, heard, narrowest, afk, away, greeted, handler>>
    BY <1>1 DEF Pipeline!Tick, Pipeline!member, Pipeline!rule
  <2>2. PipelineTyped'
    BY <1>0, <2>1 DEF PipelineTyped, Pipeline!Times
  <2>3. ClockRead' /\ SpamKept'
    BY <1>0, <2>1 DEF PipelineTyped, ClockRead, SpamKept
  <2> QED
    BY <2>1, <2>2, <2>3 DEF Pipeline!OneWelcomeBack, Pipeline!NotAFK
<1>2. CASE Pipeline!SaveAutomod
  <2>1. /\ automod' \in AutomodConfigs
        /\ UNCHANGED <<now, spam, heard, narrowest, afk, away, greeted, handler>>
    BY <1>2 DEF Pipeline!SaveAutomod, Pipeline!member
  <2> QED
    BY <2>1 DEF PipelineTyped, ClockRead, SpamKept, Pipeline!OneWelcomeBack, Pipeline!NotAFK
<1>3. CASE Pipeline!SetAFK
  <2>1. /\ away' = away + 1 /\ afk' = away + 1
        /\ UNCHANGED <<now, automod, spam, heard, narrowest, greeted, handler>>
    BY <1>3 DEF Pipeline!SetAFK, Pipeline!rule
  <2>2. PipelineTyped' /\ ClockRead' /\ SpamKept'
    BY <2>1 DEF PipelineTyped, ClockRead, SpamKept
  <2>3. greeted <= away
    BY DEF PipelineTyped, Pipeline!OneWelcomeBack
  <2>4. greeted + 1 <= away + 1 /\ away + 1 # 0
    BY <2>3 DEF PipelineTyped
  <2> QED
    BY <2>1, <2>2, <2>4 DEF Pipeline!OneWelcomeBack, Pipeline!NotAFK
<1>4. CASE Pipeline!Collect
  <2>1. /\ spam' = Pipeline!NoTimes /\ ~Pipeline!StillUsed(spam)
        /\ UNCHANGED <<now, automod, heard, narrowest, afk, away, greeted, handler>>
    BY <1>4 DEF Pipeline!Collect, Pipeline!member
  <2>2. \A x \in Pipeline!Times : x > now - Retention => spam[x] = 0
    BY <2>1 DEF Pipeline!StillUsed, PipelineTyped
  <2>3. \A x \in Pipeline!Times : spam'[x] = 0
    BY <2>1 DEF Pipeline!NoTimes
  <2>4. PipelineTyped'
    BY <2>1 DEF PipelineTyped, Pipeline!NoTimes
  <2>5. SpamKept'
    BY <2>1, <2>2, <2>3 DEF SpamKept
  <2> QED
    BY <2>1, <2>4, <2>5 DEF ClockRead, Pipeline!OneWelcomeBack, Pipeline!NotAFK
<1>5. ASSUME NEW t \in Handlers, Pipeline!Send(t) PROVE PipelineInv'
  <2>1. PICK m \in Messages : handler' = [handler EXCEPT ![t] = [step |-> "afk", msg |-> m]]
    BY <1>5 DEF Pipeline!Send
  <2>2. UNCHANGED <<now, automod, spam, heard, narrowest, afk, away, greeted>>
    BY <1>5 DEF Pipeline!Send, Pipeline!member, Pipeline!rule
  <2>3. [step |-> "afk", msg |-> m].step # "spam"
    OBVIOUS
  <2> QED
    BY <2>1, <2>2, <2>3, PipelineKept
<1>6. ASSUME NEW t \in Handlers, Pipeline!ReadAFK(t) PROVE PipelineInv'
  <2>1. PICK s \in {"config", "unafk"} :
          handler' = [handler EXCEPT ![t] = [step |-> s, msg |-> handler[t].msg]]
    BY <1>6 DEF Pipeline!ReadAFK, Pipeline!Goto
  <2>2. UNCHANGED <<now, automod, spam, heard, narrowest, afk, away, greeted>>
    BY <1>6 DEF Pipeline!ReadAFK, Pipeline!member, Pipeline!rule
  <2>3. [step |-> s, msg |-> handler[t].msg].step # "spam"
    OBVIOUS
  <2> QED
    BY <2>1, <2>2, <2>3, PipelineKept
<1>7. ASSUME NEW t \in Handlers, Pipeline!ClearAFK(t) PROVE PipelineInv'
  <2>1. /\ handler' = [handler EXCEPT ![t] = [step |-> "config", msg |-> handler[t].msg]]
        /\ UNCHANGED <<now, automod, spam, heard, narrowest, away>>
    BY <1>7 DEF Pipeline!ClearAFK, Pipeline!Goto, Pipeline!rule
  <2>2. [step |-> "config", msg |-> handler[t].msg].step # "spam"
    OBVIOUS
  <2>3. \/ UNCHANGED <<afk, greeted>>
        \/ afk' = 0 /\ greeted' = IF afk = 0 THEN greeted ELSE greeted + 1
    BY <1>7 DEF Pipeline!ClearAFK, Pipeline!Cleared, Pipeline!NotAFK
  <2>4. afk' \in Nat /\ greeted' \in Nat
    BY <2>3 DEF PipelineTyped
  <2>5. PipelineTyped' /\ ClockRead'
    BY <2>1, <2>2, <2>4, JobChanges DEF PipelineTyped, ClockRead
  <2>6. SpamKept'
    BY <2>1 DEF SpamKept
  <2>7. Pipeline!OneWelcomeBack'
    <3>1. greeted + (IF afk = 0 THEN 0 ELSE 1) <= away
      BY DEF Pipeline!OneWelcomeBack, Pipeline!NotAFK
    <3>2. greeted' + (IF afk' = 0 THEN 0 ELSE 1) <= away
      BY <2>3, <3>1 DEF PipelineTyped
    <3> QED
      BY <2>1, <3>2 DEF Pipeline!OneWelcomeBack, Pipeline!NotAFK
  <2> QED
    BY <2>5, <2>6, <2>7
<1>8. ASSUME NEW t \in Handlers, NEW c, NEW r, Pipeline!Verdict(t, c, r)
      PROVE  \E job : handler' = [handler EXCEPT ![t] = job] /\ job.step # "spam"
  <2>1. Pipeline!Free.step # "spam" /\ [step |-> "delete", action |-> c.action].step # "spam"
    BY DEF Pipeline!Free
  <2> QED
    BY <1>8, <2>1 DEF Pipeline!Verdict, Pipeline!Done
<1>9. ASSUME NEW t \in Handlers, Pipeline!LoadAutomod(t) PROVE PipelineInv'
  <2> DEFINE job == [step |-> "spam", msg |-> handler[t].msg, cfg |-> automod, at |-> now]
  <2>1. UNCHANGED <<now, automod, spam, heard, narrowest, afk, away, greeted>>
    BY <1>9 DEF Pipeline!LoadAutomod, Pipeline!member, Pipeline!rule
  <2>2. CASE handler' = [handler EXCEPT ![t] = job]
    <3>1. job.cfg \in AutomodConfigs /\ job.at \in 0..now
      BY <1>0 DEF PipelineTyped
    <3> HIDE DEF job
    <3> QED
      BY <2>1, <2>2, <3>1, PipelineKept
  <2>3. CASE Pipeline!Done(t)
    <3>1. Pipeline!Free.step # "spam"
      BY DEF Pipeline!Free
    <3> QED
      BY <2>1, <2>3, <3>1, PipelineKept DEF Pipeline!Done
  <2>4. CASE Pipeline!Verdict(t, automod, Pipeline!Broken(handler[t].msg, automod))
    BY <1>8, <2>1, <2>4, PipelineKept
  <2> QED
    BY <1>9, <2>2, <2>3, <2>4 DEF Pipeline!LoadAutomod
<1>10. ASSUME NEW t \in Handlers, Pipeline!RecordSpam(t) PROVE PipelineInv'
  <2>1. PICK c, at : c = handler[t].cfg /\ at = handler[t].at
    OBVIOUS
  <2>2. /\ spam' = Pipeline!Plus(Pipeline!Recent(spam, c.window, at), at)
        /\ heard' = Pipeline!Plus(heard, at)
        /\ narrowest' = IF c.window < narrowest THEN c.window ELSE narrowest
        /\ UNCHANGED <<now, automod, afk, away, greeted>>
        /\ handler[t].step = "spam"
    BY <1>10, <2>1 DEF Pipeline!RecordSpam, Pipeline!At, Pipeline!member
  <2>3. PICK job : handler' = [handler EXCEPT ![t] = job] /\ job.step # "spam"
    <3>1. \E r : Pipeline!Verdict(t, c, r)
      BY <1>10, <2>1 DEF Pipeline!RecordSpam
    <3> QED
      BY <1>8, <3>1
  <2>4. c \in AutomodConfigs /\ c.window \in Nat /\ at \in 0..now /\ at \in Pipeline!Times
    BY <1>0, <2>1, <2>2 DEF ClockRead, PipelineTyped, Pipeline!Times
  <2>5. \A x \in Pipeline!Times :
          /\ heard'[x] = IF x = at THEN heard[x] + 1 ELSE heard[x]
          /\ spam'[x] = (IF x > at - c.window THEN spam[x] ELSE 0) + (IF x = at THEN 1 ELSE 0)
    BY <2>2, <2>4 DEF Pipeline!Plus, Pipeline!Recent, PipelineTyped
  <2>6. spam' \in [Pipeline!Times -> Nat] /\ heard' \in [Pipeline!Times -> Nat]
    BY <2>2, <2>4 DEF Pipeline!Plus, Pipeline!Recent, PipelineTyped
  <2>7. PipelineTyped' /\ ClockRead'
    <3>1. /\ handler' = [x \in Handlers |-> handler'[x]]
          /\ handler'[t] = job
          /\ \A x \in Handlers \ {t} : handler'[x] = handler[x]
      BY <2>3, JobChanges
    <3>2. narrowest' \in Int
      BY <2>2, <2>4 DEF PipelineTyped
    <3>3. PipelineTyped'
      BY <2>2, <2>6, <3>1, <3>2 DEF PipelineTyped
    <3>4. now' = now /\ handler'[t].step # "spam"
      BY <2>2, <2>3, <3>1
    <3>5. ClockRead'
      BY <3>1, <3>4 DEF ClockRead
    <3> QED
      BY <3>3, <3>5
  <2>8. SpamKept'
    <3> SUFFICES ASSUME NEW x \in Pipeline!Times, x > now - narrowest', x > now - Retention
                 PROVE  spam'[x] = heard'[x]
      BY <2>2 DEF SpamKept
    <3>1. x > now - narrowest /\ x > at - c.window
      BY <1>0, <2>2, <2>4 DEF PipelineTyped
    <3>2. spam[x] = heard[x] /\ heard[x] \in Nat
      BY <3>1 DEF SpamKept, PipelineTyped
    <3> QED
      BY <2>5, <3>1, <3>2
  <2> QED
    BY <2>2, <2>7, <2>8 DEF Pipeline!OneWelcomeBack, Pipeline!NotAFK
<1>11. ASSUME NEW t \in Handlers, Pipeline!DeleteMessage(t) PROVE PipelineInv'
  <2>1. handler' = [handler EXCEPT ![t] = [step |-> "punish", action |-> handler[t].action]]
        /\ UNCHANGED <<now, automod, spam, heard, narrowest, afk, away, greeted>>
    BY <1>11 DEF Pipeline!DeleteMessage, Pipeline!member, Pipeline!rule
  <2>2. [step |-> "punish", action |-> handler[t].action].step # "spam"
    OBVIOUS
  <2> QED
    BY <2>1, <2>2, PipelineKept
<1>12. ASSUME NEW t \in Handlers, Pipeline!Punish(t) PROVE PipelineInv'
  <2>1. handler' = [handler EXCEPT ![t] = Pipeline!Free]
        /\ UNCHANGED <<now, automod, spam, heard, narrowest, afk, away, greeted>>
    BY <1>12 DEF Pipeline!Punish, Pipeline!Done, Pipeline!rule
  <2>2. Pipeline!Free.step # "spam"
    BY DEF Pipeline!Free
  <2> QED
    BY <2>1, <2>2, PipelineKept
<1>13. CASE UNCHANGED pipeVars
  BY <1>13 DEF pipeVars, PipelineTyped, ClockRead, SpamKept, Pipeline!OneWelcomeBack, Pipeline!NotAFK
<1> QED
  BY <1>1, <1>2, <1>3, <1>4, <1>5, <1>6, <1>7, <1>9, <1>10, <1>11, <1>12, <1>13
  DEF Pipeline!Next

LEMMA PipelineInvariant == Pipeline!Spec => []PipelineInv
<1>1. ASSUME Pipeline!Init PROVE PipelineInv
  <2>1. PipelineTyped
    BY <1>1, PipelineAssumption DEF Pipeline!Init, PipelineTyped, Pipeline!NoTimes, Pipeline!NotAFK, Pipeline!Times
  <2>2. ClockRead /\ SpamKept
    BY <1>1 DEF Pipeline!Init, ClockRead, SpamKept, Pipeline!Free
  <2>3. Pipeline!OneWelcomeBack
    BY <1>1 DEF Pipeline!Init, Pipeline!OneWelcomeBack, Pipeline!NotAFK
  <2> QED
    BY <2>1, <2>2, <2>3 DEF PipelineInv
<1>2. PipelineInv /\ [Pipeline!Next]_Pipeline!pipeVars => PipelineInv'
  BY PipelineStep DEF pipeVars, Pipeline!pipeVars, Pipeline!member, Pipeline!rule
<1> QED
  BY <1>1, <1>2, PTL DEF Pipeline!Spec

\* However many messages read the status at once, ClearAFK lets one of them say
\* welcome for each /afk.
THEOREM WelcomedOnce == Pipeline!Spec => []OneWelcomeBack
<1>1. PipelineInv => OneWelcomeBack
  BY DEF PipelineInv, OneWelcomeBack
<1> QED
  BY <1>1, PipelineInvariant, PTL

\* A window no wider than the collector's retention and than every window used so
\* far holds every message counted in it: neither a message counted late nor the
\* collector makes the spam rule miss one.
THEOREM SpamCountExact == Pipeline!Spec => []SpamExact
<1>1. PipelineInv => SpamExact
  <2> SUFFICES ASSUME PipelineInv, NEW l \in 1..Retention, l <= narrowest
               PROVE  Pipeline!Recent(spam, l, now) = Pipeline!Recent(heard, l, now)
    BY DEF SpamExact, Pipeline!SpamExact
  <2>1. now \in Nat /\ narrowest \in Int /\ l \in Int /\ Retention \in Int /\ l <= Retention
    BY PipelineAssumption DEF PipelineInv, PipelineTyped, Pipeline!Times
  <2>2. ASSUME NEW x \in Pipeline!Times, x > now - l PROVE spam[x] = heard[x]
    <3>1. x \in Int
      BY DEF Pipeline!Times
    <3>2. x > now - narrowest /\ x > now - Retention
      BY <2>1, <2>2, <3>1
    <3> QED
      BY <3>2 DEF PipelineInv, SpamKept
  <2> QED
    BY <2>2 DEF Pipeline!Recent
<1> QED
  BY <1>1, PipelineInvariant, PTL
=============================================================================
