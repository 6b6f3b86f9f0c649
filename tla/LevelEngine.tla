----------------------------- MODULE LevelEngine -----------------------------
(***************************************************************************)
(* levels.Engine.HandleMessage for one member of one guild, on the levels, *)
(* level_rewards and level_config tables, with /setlevel, /levelrole and   *)
(* the dashboard's level pages writing to the same rows.                   *)
(*                                                                         *)
(* discordgo handles each message in a goroutine of its own (Workers).     *)
(* The handler reads the row twice and then adds the XP as a delta but     *)
(* writes the level as a value computed from what it read.  Each query is  *)
(* a step, and may fail; the second read ignores its error.  Messages the  *)
(* engine turns away without a query (bots, direct messages, exempt        *)
(* channels) and the announcement, which keeps no state, are left out.     *)
(***************************************************************************)
EXTENDS Integers, FiniteSets

CONSTANTS
  Workers,     \* goroutines running the message handler
  Roles,       \* roles a reward may grant
  NoXPRoles,   \* level_config.no_xp_roles
  NoRole,      \* no reward is configured for the level
  NoRow,       \* the member has no row in levels
  Gains,       \* what one message may award (xp_min..xp_max)
  Cooldown,    \* level_config.xp_cooldown_secs
  MaxLevel,    \* bound: levels that can be set or rewarded
  MaxXP,       \* bound: XP a member may have when a message arrives
  MaxTime,     \* bound: the clock
  MaxEdits     \* bound: writes of administrators

Never == -1    \* a NULL last_xp_at

ASSUME LevelAssumption ==
  /\ NoXPRoles \subseteq Roles
  /\ NoRole \notin Roles
  /\ Gains \subseteq Nat
  /\ Cooldown \in Nat
  /\ MaxLevel \in Nat /\ MaxXP \in Nat /\ MaxTime \in Nat /\ MaxEdits \in Nat
  /\ NoRow \notin [xp : Int, level : Int, last : Int]

VARIABLES
  row,      \* the member's row in levels
  rewards,  \* level_rewards: the role of each level
  cfg,      \* level_config
  held,     \* the member's roles, as Discord has them
  clock,
  pc,       \* what a worker does next
  msg,      \* its message: when it was handled, the roles it came with, the mode
  gained,   \* the XP it awards
  prev,     \* the XP and level of its second read
  todo,     \* the role changes it has left to make
  sum,      \* history: XP awarded since the row was created or overridden
  base,     \* history: the XP it had then
  calm,     \* history: the worker's message has met no failure and no other actor
  raced,    \* history: an override came between a worker's read and its write
  edits     \* bound: writes of administrators so far

tables     == <<row, rewards, cfg>>
workerVars == <<pc, msg, gained, prev, todo>>
history    == <<sum, base, calm, raced>>
vars       == <<tables, held, clock, workerVars, history, edits>>

Steps  == {"idle", "cooldown", "award", "add", "rewards", "roles",
          "settled", "rewarded"}
Rows   == [xp : Nat, level : Nat, last : Never..MaxTime]
Msgs   == [now : 0..MaxTime, roles : SUBSET Roles, stack : BOOLEAN]
NoMsg  == [now |-> 0, roles |-> {}, stack |-> FALSE]
Read   == [xp : Nat, level : Nat]
Zero   == [xp |-> 0, level |-> 0]
NoWork == [grant |-> {}, revoke |-> {}]

TypeOK ==
  /\ row \in Rows \cup {NoRow}
  /\ rewards \in [1..MaxLevel -> Roles \cup {NoRole}]
  /\ cfg \in [enabled : BOOLEAN, stack : BOOLEAN]
  /\ held \subseteq Roles
  /\ clock \in 0..MaxTime
  /\ pc \in [Workers -> Steps]
  /\ msg \in [Workers -> Msgs]
  /\ gained \in [Workers -> Gains \cup {0}]
  /\ prev \in [Workers -> Read]
  /\ todo \in [Workers -> [grant : SUBSET Roles, revoke : SUBSET Roles]]
  /\ sum \in Nat /\ base \in Nat
  /\ calm \in [Workers -> BOOLEAN]
  /\ raced \in BOOLEAN
  /\ edits \in 0..MaxEdits
  /\ \A w \in Workers : pc[w] = "add" => gained[w] \in Gains

All(x) == [w \in Workers |-> x]

Init ==
  /\ row = NoRow
  /\ rewards \in [1..MaxLevel -> Roles \cup {NoRole}]
  /\ cfg \in [enabled : {TRUE}, stack : BOOLEAN]
  /\ held = {}
  /\ clock = 0
  /\ pc = All("idle")
  /\ msg = All(NoMsg)
  /\ gained = All(0)
  /\ prev = All(Zero)
  /\ todo = All(NoWork)
  /\ sum = 0 /\ base = 0
  /\ calm = All(FALSE)
  /\ raced = FALSE
  /\ edits = 0

\* The columns of the row; a missing row reads as no XP, never awarded.
XP       == IF row = NoRow THEN 0 ELSE row.xp
Level    == IF row = NoRow THEN 0 ELSE row.level
LastXPAt == IF row = NoRow THEN Never ELSE row.last

\* A worker that acts disturbs the others; anybody else disturbs all.
ActsAlone(w) == calm' = [x \in Workers |-> x = w /\ calm[x]]
Disturb      == calm' = All(FALSE)

-----------------------------------------------------------------------------
(* The progression                                                         *)

CalculateXPForLevel(level) == 100 * level * level

\* floor(0.1 * sqrt(xp)): how many levels the XP suffices for.
LevelForXP(xp) ==
  Cardinality({n \in 1..(xp \div 100) : CalculateXPForLevel(n) <= xp})

\* Wrong variant: the comparison is reversed.
OnCooldownReversed(last, now) == last # Never /\ now - last > Cooldown

OnCooldown(last, now) == last # Never /\ now - last < Cooldown

IsExempt(roles) == roles \cap NoXPRoles # {}

-----------------------------------------------------------------------------
(* HandleMessage                                                           *)

Idle(w) ==
  /\ pc' = [pc EXCEPT ![w] = "idle"]
  /\ msg' = [msg EXCEPT ![w] = NoMsg]
  /\ gained' = [gained EXCEPT ![w] = 0]
  /\ prev' = [prev EXCEPT ![w] = Zero]
  /\ todo' = [todo EXCEPT ![w] = NoWork]

\* The handler returns early: the message is over.
GiveUp(w) ==
  /\ Idle(w)
  /\ ActsAlone(w)
  /\ UNCHANGED <<tables, held, clock, sum, base, raced, edits>>

\* A message arrives with the member's roles, and the configuration is read.
Receive(w) ==
  /\ pc[w] = "idle"
  /\ cfg.enabled
  /\ ~IsExempt(held)
  /\ XP <= MaxXP
  /\ pc' = [pc EXCEPT ![w] = "cooldown"]
  /\ msg' = [msg EXCEPT ![w] = [now |-> clock, roles |-> held, stack |-> cfg.stack]]
  /\ calm' = [x \in Workers |-> x = w /\ \A v \in Workers : pc[v] = "idle"]
  /\ UNCHANGED <<tables, held, clock, gained, prev, todo, sum, base, raced, edits>>

\* The first read of the row.
CheckCooldown(w) ==
  /\ pc[w] = "cooldown"
  /\ \/ /\ ~OnCooldown(LastXPAt, msg[w].now)
        /\ pc' = [pc EXCEPT ![w] = "award"]
        /\ ActsAlone(w)
        /\ UNCHANGED <<tables, held, clock, msg, gained, prev, todo, sum, base, raced, edits>>
     \/ GiveUp(w)

\* Wrong variant: a member without a row is awarded nothing.
AwardExisting(w) ==
  /\ pc[w] = "award"
  /\ \E g \in Gains : gained' = [gained EXCEPT ![w] = IF row = NoRow THEN 0 ELSE g]
  /\ prev' = [prev EXCEPT ![w] = [xp |-> XP, level |-> Level]]
  /\ ActsAlone(w)
  /\ pc' = [pc EXCEPT ![w] = "add"]
  /\ UNCHANGED <<tables, held, clock, msg, todo, sum, base, raced, edits>>

\* The second read: a missing row and a failed query both read as no XP.
Award(w) ==
  /\ pc[w] = "award"
  /\ \E g \in Gains : gained' = [gained EXCEPT ![w] = g]
  /\ \/ /\ prev' = [prev EXCEPT ![w] = [xp |-> XP, level |-> Level]]
        /\ ActsAlone(w)
     \/ /\ prev' = [prev EXCEPT ![w] = Zero]
        /\ Disturb
  /\ pc' = [pc EXCEPT ![w] = "add"]
  /\ UNCHANGED <<tables, held, clock, msg, todo, sum, base, raced, edits>>

\* Wrong variant: the XP, like the level, is written as computed from the read.
AddedToRead(w) ==
  [xp    |-> prev[w].xp + gained[w],
   level |-> LevelForXP(prev[w].xp + gained[w]),
   last  |-> msg[w].now]

\* Wrong variant: the level is computed before the gain is added.
AddedBeforeGain(w) ==
  [xp    |-> XP + gained[w],
   level |-> LevelForXP(prev[w].xp),
   last  |-> msg[w].now]

\* The row AddXP leaves: the XP grows by what was gained, the level and the
\* time are the caller's.
Added(w) ==
  [xp    |-> XP + gained[w],
   level |-> LevelForXP(prev[w].xp + gained[w]),
   last  |-> msg[w].now]

AddXP(w) ==
  /\ pc[w] = "add"
  /\ \/ /\ row' = Added(w)
        /\ sum' = sum + gained[w]
        /\ pc' = [pc EXCEPT ![w] = IF Added(w).level > prev[w].level
                                   THEN "rewards" ELSE "settled"]
        /\ ActsAlone(w)
        /\ UNCHANGED <<rewards, cfg, held, clock, msg, gained, prev, todo, base, raced, edits>>
     \/ GiveUp(w)

Finish(w) ==
  /\ pc[w] \in {"settled", "rewarded"}
  /\ GiveUp(w)

-----------------------------------------------------------------------------
(* applyLevelRewards                                                       *)

RewardRoles == {rewards[n] : n \in {m \in 1..MaxLevel : rewards[m] # NoRole}}
Earned(level) == {n \in 1..MaxLevel : n <= level /\ rewards[n] # NoRole}

\* The roles earned at a level, and the last of them.
EarnedRoles(level) == {rewards[n] : n \in Earned(level)}
Highest(level) ==
  {rewards[n] : n \in {k \in Earned(level) : \A m \in Earned(level) : m <= k}}

\* Wrong variant: replacing looks only at the rewards earned so far.
WorkLeavingHigher(level, roles, stack) ==
  IF stack THEN [grant |-> EarnedRoles(level) \ roles, revoke |-> {}]
  ELSE [grant  |-> Highest(level) \ roles,
        revoke |-> (EarnedRoles(level) \cap roles) \ Highest(level)]

\* The role changes for a level, given the roles the message came with.
Work(level, roles, stack) ==
  IF Earned(level) = {} THEN NoWork
  ELSE IF stack THEN [grant |-> EarnedRoles(level) \ roles, revoke |-> {}]
  ELSE [grant  |-> Highest(level) \ roles,
        revoke |-> (RewardRoles \cap roles) \ Highest(level)]

\* ListLevelRewards; the level is the one the handler wrote.
ListRewards(w) ==
  /\ pc[w] = "rewards"
  /\ \/ /\ todo' = [todo EXCEPT ![w] = Work(LevelForXP(prev[w].xp + gained[w]),
                                            msg[w].roles, msg[w].stack)]
        /\ pc' = [pc EXCEPT ![w] = "roles"]
        /\ ActsAlone(w)
        /\ UNCHANGED <<tables, held, clock, msg, gained, prev, sum, base, raced, edits>>
     \/ GiveUp(w)

Tried(w, grants, revokes, roles) ==
  /\ todo' = [todo EXCEPT ![w] = [grant |-> grants, revoke |-> revokes]]
  /\ \/ held' = roles /\ ActsAlone(w)
     \/ held' = held  /\ Disturb    \* a failed call is only logged
  /\ UNCHANGED <<tables, clock, pc, msg, gained, prev, sum, base, raced, edits>>

GrantRole(w) ==
  /\ pc[w] = "roles"
  /\ \E r \in todo[w].grant :
       Tried(w, todo[w].grant \ {r}, todo[w].revoke, held \cup {r})

RevokeRole(w) ==
  /\ pc[w] = "roles"
  /\ todo[w].grant = {}
  /\ \E r \in todo[w].revoke :
       Tried(w, {}, todo[w].revoke \ {r}, held \ {r})

RolesDone(w) ==
  /\ pc[w] = "roles"
  /\ todo[w] = NoWork
  /\ pc' = [pc EXCEPT ![w] = "rewarded"]
  /\ ActsAlone(w)
  /\ UNCHANGED <<tables, held, clock, msg, gained, prev, todo, sum, base, raced, edits>>

-----------------------------------------------------------------------------
(* Administrators and time                                                 *)

Edit ==
  /\ edits < MaxEdits
  /\ edits' = edits + 1
  /\ Disturb

\* Wrong variant: the level is overridden and the XP is not.
OverriddenKeepingXP(level) ==
  [xp    |-> XP,
   level |-> level,
   last  |-> LastXPAt]

\* /setlevel writes level and XP and leaves last_xp_at alone.
Overridden(level) ==
  [xp    |-> CalculateXPForLevel(level),
   level |-> level,
   last  |-> LastXPAt]

SetLevel ==
  /\ \E level \in 0..MaxLevel :
       /\ row' = Overridden(level)
       /\ base' = CalculateXPForLevel(level)
  /\ sum' = 0
  /\ raced' = (raced \/ \E w \in Workers : pc[w] = "add")
  /\ Edit
  /\ UNCHANGED <<rewards, cfg, held, clock, workerVars>>

\* SetLevelReward and DeleteLevelReward.
SetLevelReward ==
  /\ \E n \in 1..MaxLevel, r \in Roles \cup {NoRole} :
       rewards' = [rewards EXCEPT ![n] = r]
  /\ Edit
  /\ UNCHANGED <<row, cfg, held, clock, workerVars, sum, base, raced>>

SaveConfig ==
  /\ cfg' \in [enabled : BOOLEAN, stack : BOOLEAN]
  /\ Edit
  /\ UNCHANGED <<row, rewards, held, clock, workerVars, sum, base, raced>>

Tick ==
  /\ clock < MaxTime
  /\ clock' = clock + 1
  /\ UNCHANGED <<tables, held, workerVars, history, edits>>

Next ==
  \/ \E w \in Workers :
       \/ Receive(w)
       \/ CheckCooldown(w)
       \/ Award(w)
       \/ AddXP(w)
       \/ ListRewards(w)
       \/ GrantRole(w)
       \/ RevokeRole(w)
       \/ RolesDone(w)
       \/ Finish(w)
  \/ SetLevel
  \/ SetLevelReward
  \/ SaveConfig
  \/ Tick

Spec == Init /\ [][Next]_vars

-----------------------------------------------------------------------------
(* Properties                                                              *)

\* No XP is lost or counted twice: however messages and overrides interleave,
\* the member has what the last override gave plus all that was awarded since.
XPConserved == XP = base + sum

\* The level, written from a stale read, may lag behind the XP but is never
\* ahead of it, unless an override came between the read and the write.
LevelNotInflated ==
  ~raced => Level <= LevelForXP(XP)

\* A message handled alone and without a failure leaves the level that the XP
\* gives, whatever earlier races had left there.
CalmLevelExact ==
  \A w \in Workers :
    pc[w] \in {"settled", "rewarded"} /\ calm[w] => Level = LevelForXP(XP)

\* A level-up handled alone and without a failure leaves the member with every
\* role earned (stacking), or with the highest one earned and no other reward
\* role, those of higher levels included (replacing).
CalmRewards ==
  \A w \in Workers : pc[w] = "rewarded" /\ calm[w] =>
    IF cfg.stack THEN EarnedRoles(Level) \subseteq held
    ELSE Earned(Level) = {} \/ held \cap RewardRoles = Highest(Level)

\* A message handled alone gains XP only when a cooldown has passed since the
\* last one that did.
CalmCooldown ==
  [][\A w \in Workers :
       calm[w] /\ calm'[w] /\ row' # row /\ LastXPAt # Never
         => row'.last - LastXPAt >= Cooldown]_vars
=============================================================================
