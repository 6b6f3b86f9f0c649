----------------------------- MODULE GuildProofs -----------------------------
(***************************************************************************)
(* Theorems about what is kept of a guild: its provisioning                *)
(* (GuildLifecycle), the member snapshots (MemberEvents) and the           *)
(* configuration rows (ConfigPages), for any number of handlers, members,  *)
(* editors, stays, crashes and failures.                                   *)
(***************************************************************************)
EXTENDS MCGuilds, TLAPS

-----------------------------------------------------------------------------
(* Provisioning                                                            *)

LifeSteps == {"ensure", "infra", "check", "category", "channels", "save", "remove"}
LifeJobs  == [step : LifeSteps, setup : BOOLEAN, alone : BOOLEAN, made : SUBSET Life!LogChannelNames]

RunOK == run \in [Runs -> {Life!Idle} \cup LifeJobs]

\* A handler counts as alone only while every other one is idle.
AloneOK ==
  \A r \in Runs : run[r] # Life!Idle /\ run[r].alone => \A x \in Runs \ {r} : run[x] = Life!Idle

\* After the repair no handler is left that could undo it.
MendedOK ==
  mended => /\ known /\ "general-log" \in logs
            /\ \A r \in Runs : run[r].step \notin {"category", "channels", "save", "remove"}

\* A crash ends every handler, and none starts before the restart.
DownOK == up \/ \A r \in Runs : run[r] = Life!Idle

LifeInv == RunOK /\ AloneOK /\ MendedOK /\ DownOK

-----------------------------------------------------------------------------

\* An idle handler has no job, and the other way round.
LEMMA IdleOrJob ==
  ASSUME RunOK, NEW r \in Runs
  PROVE  /\ run[r] = Life!Idle <=> run[r].step = "idle"
         /\ run[r] # Life!Idle => run[r] \in LifeJobs
BY DEF RunOK, LifeJobs, LifeSteps, Life!Idle

\* A handler that starts spoils the others.
LEMMA Started ==
  ASSUME RunOK, AloneOK, NEW r \in Runs, NEW step \in LifeSteps, run[r] = Life!Idle, Life!Start(r, step)
  PROVE  /\ RunOK' /\ AloneOK'
         /\ run'[r].step = step
         /\ \A x \in Runs \ {r} : run'[x].step = run[x].step
         /\ \A x \in Runs \ {r} : run[x] # Life!Idle => run'[x].made = run[x].made
<1> DEFINE job(x) == IF x = r
                     THEN [step |-> step, setup |-> step = "infra", alone |-> Life!Busy = {}, made |-> {}]
                     ELSE IF x \in Life!Busy THEN [run[x] EXCEPT !.alone = FALSE] ELSE run[x]
<1>1. run' = [x \in Runs |-> job(x)]
  BY DEF Life!Start
<1>2. \A x \in Runs : job(x) \in {Life!Idle} \cup LifeJobs
  BY IdleOrJob DEF RunOK, LifeJobs, Life!Busy
<1>3. \A x \in Runs \ {r} : /\ run'[x].step = run[x].step
                          /\ run[x] # Life!Idle => run'[x].made = run[x].made
  BY <1>1, IdleOrJob DEF Life!Busy, LifeJobs
<1>4. AloneOK'
  <2> SUFFICES ASSUME NEW x \in Runs, run'[x] # Life!Idle, run'[x].alone, NEW y \in Runs \ {x}
               PROVE  run'[y] = Life!Idle
    BY DEF AloneOK
  <2>1. x = r
    BY <1>1, IdleOrJob DEF Life!Busy, LifeJobs
  <2>2. Life!Busy = {}
    BY <1>1, <2>1
  <2> QED
    BY <1>1, <2>1, <2>2, IdleOrJob DEF Life!Busy
<1> QED
  BY <1>1, <1>2, <1>3, <1>4 DEF RunOK

\* One that goes on, or ends, leaves the others as they are.
LEMMA Went ==
  ASSUME RunOK, AloneOK, NEW r \in Runs, run[r] # Life!Idle,
         \/ Life!Finish(r)
         \/ \E s \in LifeSteps : Life!GoTo(r, s)
         \/ \E s \in LifeSteps, M \in SUBSET Life!LogChannelNames :
              run' = [run EXCEPT ![r].step = s, ![r].made = M]
  PROVE  /\ RunOK' /\ AloneOK'
         /\ \A x \in Runs \ {r} : run'[x] = run[x]
<1>1. run[r] \in LifeJobs
  BY IdleOrJob
<1> DEFINE To(j) == /\ j \in {Life!Idle} \cup LifeJobs
                    /\ run' = [run EXCEPT ![r] = j]
                    /\ j # Life!Idle => j.alone = run[r].alone
<1>2. \E j : To(j)
  <2>1. CASE Life!Finish(r)
    BY <2>1 DEF Life!Finish
  <2>2. ASSUME NEW s \in LifeSteps, Life!GoTo(r, s) PROVE \E j : To(j)
    <3> DEFINE j == [run[r] EXCEPT !.step = s]
    <3>1. j \in LifeJobs /\ j.alone = run[r].alone
      BY <1>1 DEF LifeJobs
    <3>2. run' = [run EXCEPT ![r] = j]
      BY <2>2 DEF Life!GoTo
    <3> QED
      BY <3>1, <3>2
  <2>3. ASSUME NEW s \in LifeSteps, NEW M \in SUBSET Life!LogChannelNames,
               run' = [run EXCEPT ![r].step = s, ![r].made = M]
        PROVE  \E j : To(j)
    <3> DEFINE j == [run[r] EXCEPT !.step = s, !.made = M]
    <3>1. j \in LifeJobs /\ j.alone = run[r].alone
      BY <1>1 DEF LifeJobs
    <3>2. run' = [run EXCEPT ![r] = j]
      BY <2>3 DEF RunOK
    <3> QED
      BY <3>1, <3>2
  <2> QED
    BY <2>1, <2>2, <2>3
<1>3. RunOK' /\ \A x \in Runs \ {r} : run'[x] = run[x]
  BY <1>2 DEF RunOK
<1>4. AloneOK'
  BY <1>2, <1>3 DEF AloneOK, RunOK
<1> QED
  BY <1>3, <1>4

LEMMA LifeInit == Life!Init => LifeInv
BY DEF Life!Init, LifeInv, RunOK, AloneOK, MendedOK, DownOK

LEMMA LifeStep == LifeInv /\ [Life!Next]_Life!guildVars => LifeInv'
<1> SUFFICES ASSUME LifeInv, [Life!Next]_Life!guildVars PROVE LifeInv'
  OBVIOUS
<1> USE DEF LifeInv
<1>1. CASE UNCHANGED Life!guildVars
  BY <1>1 DEF Life!guildVars, RunOK, AloneOK, MendedOK, DownOK
<1>2. CASE Life!Crash
  BY <1>2 DEF Life!Crash, RunOK, AloneOK, MendedOK, DownOK, Life!Idle
<1>3. CASE Life!LeaveUnseen \/ Life!SetOverride
  BY <1>3 DEF Life!LeaveUnseen, Life!SetOverride, Life!bounds, RunOK, AloneOK, MendedOK, DownOK
<1>4. ASSUME NEW r \in Runs, Life!Join(r) \/ Life!Leave(r) PROVE LifeInv'
  <2>1. run[r] = Life!Idle /\ \E s \in LifeSteps : Life!Start(r, s)
    BY <1>4 DEF Life!Join, Life!Leave, LifeSteps
  <2>2. ~mended' /\ up'
    BY <1>4 DEF Life!Join, Life!Leave
  <2> QED
    BY <2>1, <2>2, Started DEF MendedOK, DownOK
<1>5. ASSUME NEW r \in Runs, Life!Replay(r) \/ Life!setupModlogs(r) PROVE LifeInv'
  <2>1. run[r] = Life!Idle /\ \E s \in {"ensure", "infra"} : Life!Start(r, s)
    BY <1>5 DEF Life!Replay, Life!setupModlogs
  <2>2. UNCHANGED <<mended, known, logs>> /\ up'
    BY <1>5 DEF Life!Replay, Life!setupModlogs, Life!hist
  <2>3. PICK s \in {"ensure", "infra"} : Life!Start(r, s)
    BY <2>1
  <2>4. s \in LifeSteps
    BY DEF LifeSteps
  <2>5. RunOK' /\ AloneOK' /\ run'[r].step = s
        /\ \A x \in Runs \ {r} : run'[x].step = run[x].step
    BY <2>1, <2>3, <2>4, Started
  <2> QED
    BY <2>2, <2>5 DEF MendedOK, DownOK
<1>6. ASSUME NEW r \in Runs, Life!Restart(r) PROVE LifeInv'
  <2>1. UNCHANGED <<mended, known, logs>> /\ up'
    BY <1>6 DEF Life!Restart, Life!hist
  <2>2. CASE UNCHANGED run
    BY <2>1, <2>2 DEF RunOK, AloneOK, MendedOK, DownOK
  <2>3. CASE run[r] = Life!Idle /\ Life!Start(r, "ensure")
    <3>1. "ensure" \in LifeSteps
      BY DEF LifeSteps
    <3>2. RunOK' /\ AloneOK' /\ run'[r].step = "ensure"
          /\ \A x \in Runs \ {r} : run'[x].step = run[x].step
      BY <2>3, <3>1, Started
    <3> QED
      BY <2>1, <3>2 DEF MendedOK, DownOK
  <2> QED
    BY <1>6, <2>2, <2>3 DEF Life!Restart, DownOK
<1> DEFINE handles(r) ==
       \/ Life!Fails(r) \/ Life!EnsureGuild(r) \/ Life!CheckLogs(r) \/ Life!CreateCategory(r)
       \/ Life!CreateChannels(r) \/ Life!SetLogChannels(r) \/ Life!DeleteGuild(r)
<1>0. ASSUME NEW r \in Runs, handles(r) PROVE DownOK'
  <2>1. run[r] # Life!Idle
    BY <1>0 DEF Life!Fails, Life!EnsureGuild, Life!CheckLogs, Life!CreateCategory, Life!CreateChannels,
                 Life!SetLogChannels, Life!DeleteGuild, Life!Idle
  <2>2. up' = up
    BY <1>0 DEF Life!Fails, Life!EnsureGuild, Life!CheckLogs, Life!CreateCategory, Life!CreateChannels,
                 Life!SetLogChannels, Life!DeleteGuild
  <2> QED
    BY <2>1, <2>2 DEF DownOK
<1>7. ASSUME NEW r \in Runs, Life!Fails(r) PROVE LifeInv'
  <2>1. run[r] # Life!Idle /\ Life!Finish(r) /\ UNCHANGED <<mended, known, logs>>
    BY <1>7 DEF Life!Fails, Life!Idle
  <2>2. RunOK' /\ AloneOK' /\ \A x \in Runs \ {r} : run'[x] = run[x]
    BY <2>1, Went
  <2>3. run'[r].step = "idle"
    BY <2>1 DEF Life!Finish, RunOK, Life!Idle
  <2> QED
    BY <1>7, <1>0, <2>1, <2>2, <2>3 DEF MendedOK
<1>8. ASSUME NEW r \in Runs, Life!EnsureGuild(r) PROVE LifeInv'
  <2>1. run[r] # Life!Idle /\ known' /\ UNCHANGED <<mended, logs>>
    BY <1>8 DEF Life!EnsureGuild, Life!Idle
  <2>2. Life!GoTo(r, "check") \/ Life!GoTo(r, "infra") \/ Life!Finish(r)
    BY <1>8 DEF Life!EnsureGuild
  <2>3. RunOK' /\ AloneOK' /\ \A x \in Runs \ {r} : run'[x] = run[x]
    BY <2>1, <2>2, Went DEF LifeSteps
  <2>4. run[r] \in LifeJobs
    BY <2>1, IdleOrJob
  <2>5. run'[r].step \in {"check", "infra", "idle"}
    BY <2>2, <2>4 DEF Life!GoTo, Life!Finish, RunOK, Life!Idle, LifeJobs
  <2> QED
    BY <1>8, <1>0, <2>1, <2>3, <2>5 DEF MendedOK
<1>9. ASSUME NEW r \in Runs, Life!CheckLogs(r) PROVE LifeInv'
  <2>1. run[r] # Life!Idle /\ UNCHANGED <<known, logs>>
    BY <1>9 DEF Life!CheckLogs, Life!Idle
  <2>2. Life!Finish(r) \/ Life!GoTo(r, "category")
    BY <1>9 DEF Life!CheckLogs
  <2>3. RunOK' /\ AloneOK' /\ \A x \in Runs \ {r} : run'[x] = run[x]
    BY <2>1, <2>2, Went DEF LifeSteps
  <2>4. ASSUME mended' PROVE MendedOK'
    <3>1. mended \/ (Life!Provisioned /\ run[r].alone)
      BY <1>9, <2>4 DEF Life!CheckLogs
    <3>2. Life!Provisioned
      BY <3>1 DEF MendedOK, Life!Provisioned
    <3>3. Life!Finish(r)
      BY <1>9, <3>2 DEF Life!CheckLogs
    <3>4. run'[r].step = "idle"
      BY <3>3 DEF Life!Finish, RunOK, Life!Idle
    <3>5. \A x \in Runs \ {r} :
            run[x].step \notin {"category", "channels", "save", "remove"}
      BY <2>1, <3>1 DEF MendedOK, AloneOK, Life!Idle
    <3> QED
      BY <2>1, <2>3, <3>2, <3>4, <3>5 DEF MendedOK, Life!Provisioned
  <2> QED
    BY <1>9, <1>0, <2>3, <2>4 DEF MendedOK
<1>10. ASSUME NEW r \in Runs, Life!CreateCategory(r) \/ Life!CreateChannels(r) PROVE LifeInv'
  <2>1. run[r] # Life!Idle /\ ~mended /\ mended' = mended
    BY <1>10 DEF Life!CreateCategory, Life!CreateChannels, MendedOK, Life!Idle
  <2>2. \/ Life!GoTo(r, "channels")
        \/ \E M \in SUBSET Life!LogChannelNames :
             run' = [run EXCEPT ![r].step = "save", ![r].made = M]
    <3>1. CASE Life!CreateCategory(r)
      BY <3>1 DEF Life!CreateCategory
    <3>2. CASE Life!CreateChannels(r)
      <4>1. PICK failed : run' = [run EXCEPT ![r].step = "save",
                                             ![r].made = Life!LogChannelNames \ failed]
        BY <3>2 DEF Life!CreateChannels
      <4> QED
        BY <4>1
    <3> QED
      BY <1>10, <3>1, <3>2
  <2>3. RunOK' /\ AloneOK'
    BY <2>1, <2>2, Went DEF LifeSteps
  <2> QED
    BY <1>10, <1>0, <2>1, <2>3 DEF MendedOK
<1>11. ASSUME NEW r \in Runs, Life!SetLogChannels(r) PROVE LifeInv'
  <2>1. run[r] # Life!Idle /\ ~mended /\ Life!Finish(r) /\ known' = known
    BY <1>11 DEF Life!SetLogChannels, MendedOK, Life!Idle
  <2>2. RunOK' /\ AloneOK' /\ \A x \in Runs \ {r} : run'[x] = run[x]
    BY <2>1, Went
  <2>3. ASSUME mended' PROVE MendedOK'
    <3>1. known /\ "general-log" \in run[r].made /\ run[r].alone
      BY <1>11, <2>1, <2>3 DEF Life!SetLogChannels
    <3>2. "general-log" \in logs'
      BY <1>11, <3>1 DEF Life!SetLogChannels
    <3>3. \A x \in Runs : run'[x] = Life!Idle
      BY <2>1, <2>2, <3>1 DEF AloneOK, Life!Finish, RunOK
    <3> QED
      BY <2>1, <3>1, <3>2, <3>3 DEF MendedOK, Life!Idle
  <2> QED
    BY <1>11, <1>0, <2>2, <2>3 DEF MendedOK
<1>12. ASSUME NEW r \in Runs, Life!DeleteGuild(r) PROVE LifeInv'
  <2>1. run[r] # Life!Idle /\ ~mended /\ mended' = mended /\ Life!Finish(r)
    BY <1>12 DEF Life!DeleteGuild, MendedOK, Life!Idle
  <2>2. RunOK' /\ AloneOK'
    BY <2>1, Went
  <2> QED
    BY <1>12, <1>0, <2>1, <2>2 DEF MendedOK
<1> QED
  BY <1>1, <1>2, <1>3, <1>4, <1>5, <1>6, <1>7, <1>8, <1>9, <1>10, <1>11, <1>12 DEF Life!Next

\* However handlers, crashes and failures have interleaved before: after a /setup
\* modlogs that ran alone to its end, and until the bot leaves the guild, the
\* guild has its row and its general log, and no handler is left that would
\* provision again or delete (guildsetup.EnsureLogInfrastructure, setupModlogs).
THEOREM RepairLasts == Life!Spec => []SetupRepairs
<1>1. LifeInv => SetupRepairs
  BY DEF LifeInv, MendedOK, SetupRepairs, Life!SetupRepairs
<1> QED
  BY LifeInit, LifeStep, <1>1, PTL DEF Life!Spec

\* A handler that provisions the guild's channels.
Working == {"check", "category", "channels", "save"}

\* In peace the row comes with all its channels, unless a handler is still to
\* make them, and goes with everything that hangs on it.
PeaceOK == peaceful =>
  /\ logs \in {{}, Life!LogChannelNames}
  /\ \A r \in Runs :
       /\ run[r].step = "remove" =>
            ~botInGuild /\ \A x \in Runs \ {r} : run[x].step = "idle"
       /\ run[r].step \notin {"idle", "remove"} => botInGuild
       /\ run[r].step \in Working => known
       /\ run[r].step = "save" => run[r].made = Life!LogChannelNames
  /\ botInGuild /\ known =>
       logs = Life!LogChannelNames \/ \E r \in Runs : run[r].step \in Working \cup {"infra"}
  /\ botInGuild /\ ~known =>
       logs = {} /\ \E r \in Runs : run[r].step \in {"ensure", "infra"}
  /\ ~botInGuild /\ (\A r \in Runs : run[r].step = "idle") =>
       ~known /\ override = "none" /\ logs = {}

\* Without an overlap one handler provisions at a time, and once it has made the
\* category it goes on to the channels; then no other one makes a category.
CategoryOK == peaceful /\ botInGuild /\ ~overlapped =>
  /\ \A r, x \in Runs : run[r].step \in Working /\ run[x].step \in Working => r = x
  /\ \A r \in Runs :
       /\ run[r].step = "category" => categories = 0
       /\ run[r].step \in {"channels", "save"} => categories <= 1
  /\ (\A r \in Runs : run[r].step \notin {"category", "channels", "save"}) =>
       categories = 0 \/ (categories = 1 /\ known /\ "general-log" \in logs)

CalmInv == categories \in Nat /\ PeaceOK /\ CategoryOK

\* What the steps of a handler do to its own step, and that they leave the
\* others as they are.
LEMMA Finished ==
  ASSUME RunOK, NEW r \in Runs, Life!Finish(r)
  PROVE  /\ run'[r].step = "idle"
         /\ \A x \in Runs \ {r} : run'[x] = run[x]
BY DEF Life!Finish, Life!Idle, RunOK

LEMMA Gone ==
  ASSUME RunOK, NEW r \in Runs, NEW s, run[r] # Life!Idle, Life!GoTo(r, s)
  PROVE  /\ run'[r].step = s
         /\ \A x \in Runs \ {r} : run'[x] = run[x]
<1>1. PICK j \in LifeJobs : j = run[r]
  BY IdleOrJob
<1>2. run' = [run EXCEPT ![r] = [j EXCEPT !.step = s]]
  BY <1>1, Zenon DEF Life!GoTo
<1>3. [j EXCEPT !.step = s].step = s
  BY DEF LifeJobs
<1> QED
  BY <1>2, <1>3 DEF RunOK

\* A handler starts while the others go on: it is at work in the guild, and what
\* the others have made stays.
LEMMA StartCalm ==
  ASSUME LifeInv, CalmInv, NEW r \in Runs, NEW step \in {"ensure", "infra"}, run[r] = Life!Idle,
         Life!Start(r, step), botInGuild,
         UNCHANGED <<botInGuild, known, logs, override, categories, peaceful, overlapped>>
  PROVE  CalmInv'
<1>1. step \in LifeSteps /\ run[r].step = "idle"
  BY DEF LifeSteps, Life!Idle
<1>2. /\ run'[r].step = step
      /\ \A x \in Runs \ {r} : run'[x].step = run[x].step
      /\ \A x \in Runs \ {r} : run[x] # Life!Idle => run'[x].made = run[x].made
  BY <1>1, Started DEF LifeInv
<1>3. PeaceOK'
  BY <1>1, <1>2 DEF CalmInv, PeaceOK, Life!Idle, Working
<1>4. CategoryOK'
  BY <1>1, <1>2 DEF CalmInv, CategoryOK, Working
<1> QED
  BY <1>3, <1>4 DEF CalmInv

\* The invariant holds at the start.
LEMMA CalmInit == Life!Init => CalmInv
BY DEF Life!Init, CalmInv, PeaceOK, CategoryOK, Life!Idle, Working

\* Every step keeps it.
LEMMA CalmStep == LifeInv /\ CalmInv /\ [Life!Next]_Life!guildVars => CalmInv'
<1> SUFFICES ASSUME LifeInv, CalmInv, [Life!Next]_Life!guildVars PROVE CalmInv'
  OBVIOUS
<1>0. /\ RunOK /\ AloneOK
      /\ \A r \in Runs : run[r] = Life!Idle <=> run[r].step = "idle"
  BY IdleOrJob DEF LifeInv
<1>1. CASE UNCHANGED Life!guildVars
  BY <1>1 DEF Life!guildVars, CalmInv, PeaceOK, CategoryOK
<1>2. CASE Life!Crash
  <2>1. /\ \A r \in Runs : run'[r] = Life!Idle
        /\ peaceful' => peaceful /\ run' = run
        /\ UNCHANGED <<botInGuild, known, logs, override, categories, overlapped>>
    BY <1>2, <1>0 DEF Life!Crash, Life!Busy, RunOK
  <2> QED
    BY <2>1 DEF CalmInv, PeaceOK, CategoryOK
<1>3. CASE Life!LeaveUnseen
  BY <1>3 DEF Life!LeaveUnseen, Life!bounds, CalmInv, PeaceOK, CategoryOK
<1>4. CASE Life!SetOverride
  BY <1>4 DEF Life!SetOverride, Life!bounds, CalmInv, PeaceOK, CategoryOK
<1>5. ASSUME NEW r \in Runs, Life!Join(r) PROVE CalmInv'
  <2>1. /\ ~botInGuild /\ botInGuild' /\ categories' = 0
        /\ UNCHANGED <<known, logs, override>>
        /\ run[r] = Life!Idle /\ Life!Start(r, "ensure")
        /\ peaceful' => peaceful /\ \A x \in Runs : run[x].step = "idle"
    BY <1>5 DEF Life!Join, Life!Busy
  <2>2. "ensure" \in LifeSteps
    BY DEF LifeSteps
  <2>3. run'[r].step = "ensure" /\ \A x \in Runs \ {r} : run'[x].step = run[x].step
    BY <1>0, <2>1, <2>2, Started
  <2>4. PeaceOK'
    BY <2>1, <2>3 DEF CalmInv, PeaceOK, Working
  <2>5. CategoryOK'
    BY <2>1, <2>3 DEF CategoryOK, Working
  <2> QED
    BY <2>1, <2>4, <2>5 DEF CalmInv
<1>6. ASSUME NEW r \in Runs, Life!Leave(r) PROVE CalmInv'
  <2>1. /\ ~botInGuild'
        /\ UNCHANGED <<known, logs, override, categories>>
        /\ run[r] = Life!Idle /\ Life!Start(r, "remove")
        /\ peaceful' => peaceful /\ \A x \in Runs : run[x].step = "idle"
    BY <1>6 DEF Life!Leave, Life!Busy, Life!bounds
  <2>2. "remove" \in LifeSteps
    BY DEF LifeSteps
  <2>3. run'[r].step = "remove" /\ \A x \in Runs \ {r} : run'[x].step = run[x].step
    BY <1>0, <2>1, <2>2, Started
  <2> QED
    BY <2>1, <2>3 DEF CalmInv, PeaceOK, CategoryOK, Working
<1>7. ASSUME NEW r \in Runs, Life!Replay(r) \/ Life!setupModlogs(r) PROVE CalmInv'
  <2>1. run[r] = Life!Idle /\ botInGuild /\ \E s \in {"ensure", "infra"} : Life!Start(r, s)
    BY <1>7 DEF Life!Replay, Life!setupModlogs
  <2>2. UNCHANGED <<botInGuild, known, logs, override, categories, peaceful, overlapped>>
    BY <1>7 DEF Life!Replay, Life!setupModlogs, Life!hist
  <2> QED
    BY <2>1, <2>2, StartCalm
<1>8. ASSUME NEW r \in Runs, Life!Restart(r) PROVE CalmInv'
  <2>1. UNCHANGED <<botInGuild, known, logs, override, categories, peaceful, overlapped>>
    BY <1>8 DEF Life!Restart, Life!bounds, Life!hist
  <2>2. CASE UNCHANGED run
    BY <2>1, <2>2 DEF CalmInv, PeaceOK, CategoryOK
  <2>3. CASE botInGuild /\ Life!Start(r, "ensure")
    <3>1. run[r] = Life!Idle
      BY <1>8 DEF LifeInv, DownOK, Life!Restart
    <3> QED
      BY <2>1, <2>3, <3>1, StartCalm
  <2> QED
    BY <1>8, <2>2, <2>3 DEF Life!Restart
<1>9. ASSUME NEW r \in Runs, Life!Fails(r) PROVE CalmInv'
  BY <1>9 DEF Life!Fails, Life!bounds, CalmInv, PeaceOK, CategoryOK
<1>10. ASSUME NEW r \in Runs, Life!EnsureGuild(r) PROVE CalmInv'
  <2>1. /\ run[r].step \in {"ensure", "infra"} /\ run[r] # Life!Idle
        /\ known'
        /\ UNCHANGED <<botInGuild, logs, override, categories, peaceful>>
        /\ overlapped' => TRUE
        /\ overlapped => overlapped'
        /\ run[r].step = "infra" /\ ~overlapped' =>
             \A x \in Runs : run[x].step \notin Working
    BY <1>10, <1>0 DEF Life!EnsureGuild, Life!bounds, Life!Busy, Life!Provisioning, Working
  <2>2. \/ run[r].step = "infra" /\ Life!GoTo(r, "check")
        \/ run[r].step = "ensure" /\ ~known /\ Life!GoTo(r, "infra")
        \/ run[r].step = "ensure" /\ known /\ Life!Finish(r)
    BY <1>10 DEF Life!EnsureGuild
  <2>3. /\ \A x \in Runs \ {r} : run'[x] = run[x]
        /\ \/ run[r].step = "infra" /\ run'[r].step = "check"
           \/ run[r].step = "ensure" /\ ~known /\ run'[r].step = "infra"
           \/ run[r].step = "ensure" /\ known /\ run'[r].step = "idle"
    BY <1>0, <2>1, <2>2, Finished, Gone
  <2>4. PeaceOK'
    BY <2>1, <2>3 DEF CalmInv, PeaceOK, Working
  <2>5. CategoryOK'
    BY <2>1, <2>3 DEF CalmInv, CategoryOK, Working
  <2> QED
    BY <2>1, <2>4, <2>5 DEF CalmInv
<1>11. ASSUME NEW r \in Runs, Life!CheckLogs(r) PROVE CalmInv'
  <2>1. /\ run[r].step = "check" /\ run[r] # Life!Idle
        /\ UNCHANGED <<botInGuild, known, logs, override, categories, peaceful, overlapped>>
        /\ IF Life!Provisioned \/ ~known THEN Life!Finish(r) ELSE Life!GoTo(r, "category")
    BY <1>11, <1>0 DEF Life!CheckLogs, Life!bounds
  <2>2. /\ \A x \in Runs \ {r} : run'[x] = run[x]
        /\ IF Life!Provisioned \/ ~known THEN run'[r].step = "idle" ELSE run'[r].step = "category"
    BY <1>0, <2>1, Finished, Gone
  <2>3. PeaceOK'
    BY <2>1, <2>2 DEF CalmInv, PeaceOK, Working, Life!Provisioned
  <2>4. CategoryOK'
    BY <2>1, <2>2 DEF CalmInv, CategoryOK, PeaceOK, Working, Life!Provisioned
  <2> QED
    BY <2>1, <2>3, <2>4 DEF CalmInv
<1>12. ASSUME NEW r \in Runs, Life!CreateCategory(r) PROVE CalmInv'
  <2>1. /\ run[r].step = "category" /\ run[r] # Life!Idle
        /\ UNCHANGED <<botInGuild, known, logs, override, overlapped>>
        /\ Life!GoTo(r, "channels")
        /\ categories' \in {categories, categories + 1}
        /\ peaceful' => peaceful
    BY <1>12, <1>0 DEF Life!CreateCategory, Life!bounds
  <2>2. run'[r].step = "channels" /\ \A x \in Runs \ {r} : run'[x] = run[x]
    BY <1>0, <2>1, Gone
  <2>3. PeaceOK'
    BY <2>1, <2>2 DEF CalmInv, PeaceOK, Working
  <2>4. CategoryOK'
    BY <2>1, <2>2 DEF CalmInv, CategoryOK, Working
  <2> QED
    BY <2>1, <2>3, <2>4 DEF CalmInv
<1>13. ASSUME NEW r \in Runs, Life!CreateChannels(r) PROVE CalmInv'
  <2>1. /\ run[r].step = "channels" /\ run[r] # Life!Idle
        /\ UNCHANGED <<botInGuild, known, logs, override, categories, overlapped>>
        /\ peaceful' => peaceful
    BY <1>13, <1>0 DEF Life!CreateChannels, Life!bounds
  <2>2. PICK failed :
          /\ run' = [run EXCEPT ![r].step = "save", ![r].made = Life!LogChannelNames \ failed]
          /\ failed = {} \/ ~botInGuild \/ ~peaceful'
    BY <1>13 DEF Life!CreateChannels
  <2>3. PICK j \in LifeJobs : j = run[r]
    BY <1>0, <2>1, IdleOrJob
  <2>4. PICK k : k = [j EXCEPT !.step = "save"]
    OBVIOUS
  <2>5. k.step = "save" /\ k \in LifeJobs
    BY <2>4 DEF LifeJobs, LifeSteps
  <2>6. PICK l : l = [k EXCEPT !.made = Life!LogChannelNames \ failed]
    OBVIOUS
  <2>7. l.step = "save" /\ l.made = Life!LogChannelNames \ failed
    BY <2>5, <2>6 DEF LifeJobs
  <2>8. run' = [run EXCEPT ![r] = l]
    BY <2>2, <2>3, <2>4, <2>6, Zenon
  <2>9. /\ run'[r].step = "save" /\ run'[r].made = Life!LogChannelNames \ failed
        /\ \A x \in Runs \ {r} : run'[x] = run[x]
    BY <1>0, <2>7, <2>8 DEF RunOK
  <2>10. PeaceOK'
    BY <2>1, <2>2, <2>9 DEF CalmInv, PeaceOK, Working
  <2>11. CategoryOK'
    BY <2>1, <2>9 DEF CalmInv, CategoryOK, Working
  <2> QED
    BY <2>1, <2>10, <2>11 DEF CalmInv
<1>14. ASSUME NEW r \in Runs, Life!SetLogChannels(r) PROVE CalmInv'
  <2>1. /\ run[r].step = "save" /\ run[r] # Life!Idle
        /\ UNCHANGED <<botInGuild, known, override, categories, peaceful, overlapped>>
        /\ logs' = IF known THEN run[r].made ELSE logs
        /\ Life!Finish(r)
    BY <1>14, <1>0 DEF Life!SetLogChannels, Life!bounds
  <2>2. run'[r].step = "idle" /\ \A x \in Runs \ {r} : run'[x] = run[x]
    BY <1>0, <2>1, Finished
  <2>3. PeaceOK'
    BY <2>1, <2>2 DEF CalmInv, PeaceOK, Working
  <2>4. CategoryOK'
    <3>1. peaceful => known /\ "general-log" \in logs'
      BY <2>1 DEF CalmInv, PeaceOK, Working, Life!LogChannelNames
    <3> QED
      BY <2>1, <2>2, <3>1 DEF CalmInv, CategoryOK, Working
  <2> QED
    BY <2>1, <2>3, <2>4 DEF CalmInv
<1>15. ASSUME NEW r \in Runs, Life!DeleteGuild(r) PROVE CalmInv'
  <2>1. /\ run[r].step = "remove" /\ run[r] # Life!Idle
        /\ UNCHANGED <<botInGuild, categories, overlapped>>
        /\ ~known' /\ logs' = {} /\ override' = "none"
        /\ Life!Finish(r)
        /\ peaceful' => peaceful \/ (~botInGuild /\ \A x \in Runs \ {r} : run[x].step = "idle")
    BY <1>15, <1>0 DEF Life!DeleteGuild, Life!Overrides, Life!bounds, Life!Busy
  <2>2. run'[r].step = "idle" /\ \A x \in Runs \ {r} : run'[x] = run[x]
    BY <1>0, <2>1, Finished
  <2>3. peaceful' => ~botInGuild' /\ \A x \in Runs : run'[x].step = "idle"
    BY <2>1, <2>2 DEF CalmInv, PeaceOK
  <2> QED
    BY <2>1, <2>3 DEF CalmInv, PeaceOK, CategoryOK, Working
<1> QED
  BY <1>1, <1>2, <1>3, <1>4, <1>5, <1>6, <1>7, <1>8, <1>9, <1>10, <1>11, <1>12, <1>13, <1>14, <1>15
     DEF Life!Next

\* A guild gets one log category a stay, however often provisioning is asked for,
\* as long as no two provisionings overlap and none fails or crashes
\* (guildsetup.EnsureLogInfrastructure, onGuildCreate, setupModlogs).
THEOREM OneCategoryAStay == Life!Spec => []OneCategory
<1>1. LifeInv /\ CalmInv => OneCategory
  BY DEF CalmInv, CategoryOK, OneCategory, Life!OneCategory
<1> QED
  BY LifeInit, LifeStep, CalmInit, CalmStep, <1>1, PTL DEF Life!Spec

\* In peace every event has its channel once the handlers are done, and nothing
\* of a guild that was left stays in the database (resolveChannel, DeleteGuild).
THEOREM LogsStayRouted == Life!Spec => []LogsRouted
<1>1. LifeInv /\ CalmInv => LogsRouted
  <2> SUFFICES ASSUME LifeInv, CalmInv, peaceful, Life!Busy = {}
               PROVE  IF botInGuild THEN Life!ResolveChannel <=> override # "off"
                      ELSE ~known /\ override = "none"
    BY DEF LogsRouted, Life!LogsRouted
  <2>1. \A r \in Runs : run[r].step = "idle"
    BY DEF Life!Busy
  <2>2. CASE botInGuild
    <3>1. known /\ logs = Life!LogChannelNames
      BY <2>1, <2>2 DEF CalmInv, PeaceOK, Working
    <3>2. Life!ChannelField \in Life!LogChannelNames
      BY DEF Life!ChannelField, Life!LogChannelNames
    <3> QED
      BY <2>2, <3>1, <3>2 DEF Life!ResolveChannel
  <2>3. CASE ~botInGuild
    BY <2>1, <2>3 DEF CalmInv, PeaceOK
  <2> QED
    BY <2>2, <2>3
<1> QED
  BY LifeInit, LifeStep, CalmInit, CalmStep, <1>1, PTL DEF Life!Spec

-----------------------------------------------------------------------------
(* The configuration rows                                                  *)

Fields == DOMAIN Conf!Default

\* What a row keeps of what its writers clamped and refused, whoever wrote it,
\* and so does a copy of it that a handler has read.
Sound(rec) ==
  /\ DOMAIN rec = Fields
  /\ kind = "starboard" => rec.threshold \in Int /\ rec.threshold >= 1
  /\ kind = "welcome" => rec.zoom \in 100..200

Saving(e) == editor[e].step = "save"

ConfTyped ==
  /\ kind \in Conf!Kinds
  /\ editor = [e \in Editors |-> editor[e]]
  /\ since = [e \in Editors |-> since[e]]

RowsSound ==
  /\ row # Conf!NoRow => Sound(row)
  /\ \A e \in Editors : Saving(e) => Sound(editor[e].read)

\* Where a copy differs from the row, another editor has been there since.
LateFields ==
  \A e \in Editors : Saving(e) =>
    \A f \in Fields : editor[e].read[f] # Conf!Current[f] => f \in since[e]

ConfInv == ConfTyped /\ RowsSound /\ LateFields /\ Conf!RowValid /\ Conf!OnlyNamedOrRaced

\* A row is never taken for none: no table has the field of NoRow.
LEMMA SoundIsARow ==
  ASSUME kind \in Conf!Kinds, NEW rec, Sound(rec)
  PROVE  rec # Conf!NoRow
<1>1. "unset" \in DOMAIN Conf!NoRow
  BY DEF Conf!NoRow
<1>2. "unset" \notin Fields
  BY DEF Fields, Conf!Default, Conf!Kinds, Conf!DefaultLevels, Conf!DefaultAutomod,
         Conf!DefaultStarboard, Conf!DefaultWelcome, Conf!DefaultAutorole,
         Conf!DefaultModSettings, Conf!DefaultJTC
<1> QED
  BY <1>1, <1>2 DEF Sound

\* The defaults are sound (the Get queries).
LEMMA DefaultSound == kind \in Conf!Kinds => Sound(Conf!Default)
<1>1. kind = "starboard" => Conf!Default = Conf!DefaultStarboard
  BY DEF Conf!Default
<1>2. kind = "welcome" => Conf!Default = Conf!DefaultWelcome
  BY DEF Conf!Default
<1> QED
  BY <1>1, <1>2 DEF Sound, Fields, Conf!DefaultStarboard, Conf!DefaultWelcome

LEMMA CurrentSound ==
  ASSUME kind \in Conf!Kinds, row # Conf!NoRow => Sound(row)
  PROVE  Sound(Conf!Current)
BY DefaultSound DEF Conf!Current

\* What the forms put into the fields that no later check guards (clampThreshold,
\* clampInt, the page of the starboard).
LEMMA FormsSound ==
  ASSUME NEW rec, NEW form \in Conf!Forms(rec), kind \in Conf!Kinds
  PROVE  /\ kind = "starboard" /\ "threshold" \in Conf!Named(form) =>
              form.threshold \in Int /\ form.threshold >= 1
         /\ kind = "welcome" /\ "zoom" \in Conf!Named(form) => form.zoom \in 100..200
<1>1. \A n \in Numbers : n \in Int
  BY ConfigAssumption
<1>2. CASE kind = "starboard"
  <2>1. form \in Conf!handleStarboardSave \/ form \in Conf!handleStarboard
    BY <1>2 DEF Conf!Forms
  <2>2. ASSUME form \in Conf!handleStarboardSave, "threshold" \in Conf!Named(form)
        PROVE  form.threshold \in Int /\ form.threshold >= 1
    BY <1>1, <2>2 DEF Conf!handleStarboardSave, Conf!Named, Conf!Given
  <2>3. ASSUME form \in Conf!handleStarboard, "threshold" \in Conf!Named(form)
        PROVE  form.threshold \in Int /\ form.threshold >= 1
    <3> DEFINE T == {Conf!clampThreshold(n) : n \in Numbers}
    <3>1. \A v \in T : v \in Int /\ v >= 1
      BY <1>1 DEF Conf!clampThreshold
    <3>2. \/ form \in [enabled : {TRUE}, channel : Channels, threshold : Conf!Given(T)]
          \/ form \in [enabled : BOOLEAN] \/ form \in [selfStar : BOOLEAN]
          \/ form \in [threshold : T]
      BY <2>3 DEF Conf!handleStarboard
    <3> HIDE DEF T
    <3>3. form.threshold # Same /\ "threshold" \in DOMAIN form
      BY <2>3 DEF Conf!Named
    <3>4. CASE form \in [enabled : {TRUE}, channel : Channels, threshold : Conf!Given(T)]
      BY <3>1, <3>3, <3>4 DEF Conf!Given
    <3>5. CASE form \in [enabled : BOOLEAN] \/ form \in [selfStar : BOOLEAN]
      BY <3>3, <3>5
    <3>6. CASE form \in [threshold : T]
      BY <3>1, <3>6
    <3> QED
      BY <3>2, <3>4, <3>5, <3>6
  <2> QED
    BY <1>2, <2>1, <2>2, <2>3
<1>3. CASE kind = "welcome"
  <2>1. \/ form \in Conf!handleWelcomeSave \/ form \in Conf!handleWelcomeImageURLSave
        \/ form \in Conf!handleWelcomeImageURLRemove \/ form \in Conf!handleWelcome
    BY <1>3 DEF Conf!Forms
  <2>2. form \in Conf!handleWelcomeImageURLSave \/ "zoom" \notin DOMAIN form
    <3>1. ASSUME form \in Conf!handleWelcomeSave PROVE "zoom" \notin DOMAIN form
      BY <3>1 DEF Conf!handleWelcomeSave
    <3>2. ASSUME form \in Conf!handleWelcomeImageURLRemove PROVE "zoom" \notin DOMAIN form
      BY <3>2 DEF Conf!handleWelcomeImageURLRemove
    <3>3. ASSUME form \in Conf!handleWelcome PROVE "zoom" \notin DOMAIN form
      <4>1. \/ form \in [join : BOOLEAN, channel : Conf!Given(Channels), image : Conf!Given(BOOLEAN)]
            \/ form \in [dm : BOOLEAN] \/ form \in [embed : BOOLEAN]
        BY <3>3 DEF Conf!handleWelcome
      <4>2. CASE form \in [join : BOOLEAN, channel : Conf!Given(Channels), image : Conf!Given(BOOLEAN)]
        BY <4>2
      <4>3. CASE form \in [dm : BOOLEAN] \/ form \in [embed : BOOLEAN]
        BY <4>3
      <4> QED
        BY <4>1, <4>2, <4>3
    <3> QED
      BY <2>1, <3>1, <3>2, <3>3
  <2>3. form \in Conf!handleWelcomeImageURLSave => form.zoom \in 100..200
    BY <1>1 DEF Conf!handleWelcomeImageURLSave, Conf!clampInt
  <2> QED
    BY <1>3, <2>2, <2>3 DEF Conf!Named
<1> QED
  BY <1>2, <1>3

\* A form keeps a row sound, and leaves the fields that it does not name.
LEMMA EditedSound ==
  ASSUME kind \in Conf!Kinds, NEW rec, Sound(rec), NEW form \in Conf!Forms(rec)
  PROVE  /\ Sound(Conf!Edited(rec, form))
         /\ \A f \in Fields \ Conf!Named(form) : Conf!Edited(rec, form)[f] = rec[f]
<1> DEFINE new == Conf!Edited(rec, form)
<1>1. DOMAIN new = Fields
  BY DEF Conf!Edited, Sound
<1>2. \A f \in Fields : new[f] = IF f \in Conf!Named(form) THEN form[f] ELSE rec[f]
  BY DEF Conf!Edited, Conf!Named, Sound
<1>3. kind = "starboard" => "threshold" \in Fields
  BY DEF Fields, Conf!Default, Conf!DefaultStarboard
<1>4. kind = "welcome" => "zoom" \in Fields
  BY DEF Fields, Conf!Default, Conf!DefaultWelcome
<1> HIDE DEF new
<1>5. Sound(new)
  BY <1>1, <1>2, <1>3, <1>4, FormsSound DEF Sound
<1> QED
  BY <1>2, <1>5 DEF new

LEMMA ConfInit == Conf!Init => ConfInv
<1> SUFFICES ASSUME Conf!Init PROVE ConfInv
  OBVIOUS
<1>1. \A e \in Editors : ~Saving(e)
  BY DEF Conf!Init, Conf!Away, Saving
<1>2. ConfTyped /\ RowsSound /\ LateFields
  BY <1>1 DEF Conf!Init, ConfTyped, RowsSound, LateFields
<1> QED
  BY <1>2 DEF Conf!Init, ConfInv, Conf!RowValid, Conf!OnlyNamedOrRaced

LEMMA ConfStep == ConfInv /\ [Conf!Next]_Conf!confVars => ConfInv'
<1> SUFFICES ASSUME ConfInv, [Conf!Next]_Conf!confVars PROVE ConfInv'
  OBVIOUS
<1> USE DEF ConfInv
<1>1. ASSUME NEW e \in Editors, Conf!Load(e) PROVE ConfInv'
  <2>1. UNCHANGED <<kind, row, since, touched, excused>>
    BY <1>1 DEF Conf!Load
  <2>2. /\ editor' = [x \in Editors |-> editor'[x]]
        /\ editor'[e] = [step |-> "save", read |-> Conf!Current]
        /\ \A x \in Editors \ {e} : editor'[x] = editor[x]
    BY <1>1 DEF Conf!Load, ConfTyped
  <2>3. Conf!Current' = Conf!Current /\ Fields' = Fields
    BY <2>1 DEF Conf!Current, Fields, Conf!Default
  <2>4. RowsSound'
    BY <2>1, <2>2, <2>3, CurrentSound DEF RowsSound, ConfTyped, Sound, Saving
  <2>5. LateFields'
    BY <2>1, <2>2, <2>3 DEF LateFields, Saving
  <2> QED
    BY <2>1, <2>2, <2>4, <2>5 DEF ConfTyped, Conf!RowValid, Conf!OnlyNamedOrRaced
<1>2. ASSUME NEW e \in Editors, Conf!Save(e) PROVE ConfInv'
  <2>1. PICK form \in Conf!Forms(editor[e].read) :
          /\ Conf!Accepts(Conf!Edited(editor[e].read, form))
          /\ row' = Conf!Edited(editor[e].read, form)
          /\ touched' = {f \in DOMAIN row' : row'[f] # Conf!Current[f]}
          /\ excused' = Conf!Named(form) \cup since[e]
          /\ since' = [x \in Editors |->
               IF x = e \/ editor[x].step = "idle" THEN {} ELSE since[x] \cup touched']
    BY <1>2 DEF Conf!Save, Conf!Stored
  <2>2. /\ editor' = [editor EXCEPT ![e] = Conf!Away] /\ kind' = kind
        /\ Saving(e)
    BY <1>2 DEF Conf!Save, Saving
  <2>3. Sound(row') /\ \A f \in Fields \ Conf!Named(form) : row'[f] = editor[e].read[f]
    BY <2>1, <2>2, EditedSound DEF ConfTyped, RowsSound
  <2>4. Conf!Current' = row' /\ Fields' = Fields
    BY <2>2, <2>3, SoundIsARow DEF Conf!Current, Fields, Conf!Default, ConfTyped
  <2>5. \A f \in Fields : f \notin Conf!Named(form) /\ row'[f] # Conf!Current[f] => f \in since[e]
    BY <2>2, <2>3 DEF LateFields
  <2>6. Conf!OnlyNamedOrRaced'
    BY <2>1, <2>3, <2>5 DEF Conf!OnlyNamedOrRaced, Sound
  <2>7. \A x \in Editors : editor'[x] = IF x = e THEN Conf!Away ELSE editor[x]
    BY <2>2 DEF ConfTyped
  <2>8. \A x \in Editors : Saving(x)' => x # e /\ Saving(x) /\ editor'[x] = editor[x]
    BY <2>7 DEF Saving, Conf!Away
  <2>9. ConfTyped'
    BY <2>1, <2>2 DEF ConfTyped
  <2>10. RowsSound'
    BY <2>2, <2>3, <2>4, <2>8 DEF RowsSound, Sound
  <2>11. LateFields'
    <3> SUFFICES ASSUME NEW x \in Editors, x # e, Saving(x), NEW f \in Fields,
                        editor[x].read[f] # row'[f]
                 PROVE  f \in since'[x]
      BY <2>4, <2>8 DEF LateFields
    <3>1. since'[x] = since[x] \cup touched'
      BY <2>1 DEF Saving
    <3>2. f \in touched' \/ editor[x].read[f] # Conf!Current[f]
      BY <2>1, <2>3 DEF Sound
    <3> QED
      BY <3>1, <3>2 DEF LateFields
  <2>12. Conf!RowValid'
    BY <2>1, <2>2, <2>3 DEF Conf!RowValid, Conf!Accepts, Sound
  <2> QED
    BY <2>6, <2>9, <2>10, <2>11, <2>12
<1>3. ASSUME NEW e \in Editors, Conf!LoadFails(e) \/ Conf!Refuse(e) PROVE ConfInv'
  <2>1. UNCHANGED <<kind, row, touched, excused>>
    BY <1>3 DEF Conf!LoadFails, Conf!Refuse
  <2>2. \/ UNCHANGED <<editor, since>>
        \/ /\ editor' = [editor EXCEPT ![e] = Conf!Away]
           /\ since' = [since EXCEPT ![e] = {}]
    BY <1>3 DEF Conf!LoadFails, Conf!Refuse, Conf!LoadNothing, Conf!Return
  <2>3. \A x \in Editors : Saving(x)' => Saving(x) /\ editor'[x] = editor[x] /\ since'[x] = since[x]
    BY <2>2 DEF ConfTyped, Saving, Conf!Away
  <2>4. Conf!Current' = Conf!Current /\ Fields' = Fields
    BY <2>1 DEF Conf!Current, Fields, Conf!Default
  <2>5. ConfTyped'
    BY <2>1, <2>2 DEF ConfTyped
  <2>6. RowsSound'
    BY <2>1, <2>3, <2>4 DEF RowsSound, Sound
  <2>7. LateFields'
    BY <2>3, <2>4 DEF LateFields
  <2> QED
    BY <2>1, <2>5, <2>6, <2>7 DEF Conf!RowValid, Conf!OnlyNamedOrRaced
<1>4. CASE UNCHANGED Conf!confVars
  <2>1. UNCHANGED <<kind, row, editor, since, touched, excused>>
    BY <1>4 DEF Conf!confVars
  <2>2. Conf!Current' = Conf!Current /\ Fields' = Fields
    BY <2>1 DEF Conf!Current, Fields, Conf!Default
  <2> QED
    BY <2>1, <2>2 DEF ConfTyped, RowsSound, LateFields, Saving, Sound, Conf!RowValid,
                     Conf!OnlyNamedOrRaced
<1> QED
  BY <1>1, <1>2, <1>3, <1>4 DEF Conf!Next

\* However many editors overlap, and whatever they undo of each other, the row
\* is one the program can work with (saveWelcome, saveStarboard, Accepts).
THEOREM RowsStayValid == Conf!Spec => []RowValid
<1>1. ConfInv => RowValid
  BY DEF ConfInv, RowValid, Conf!RowValid
<1> QED
  BY ConfInit, ConfStep, <1>1, PTL DEF Conf!Spec

\* A handler changes a field that its form does not name only by writing back
\* what another handler changed after its read.
THEOREM OnlyRacesUndo == Conf!Spec => []OnlyNamedOrRaced
<1>1. ConfInv => OnlyNamedOrRaced
  BY DEF ConfInv, OnlyNamedOrRaced, Conf!OnlyNamedOrRaced
<1> QED
  BY ConfInit, ConfStep, <1>1, PTL DEF Conf!Spec

-----------------------------------------------------------------------------
(* The member snapshots                                                    *)

\* A handler has yet to store or drop the snapshot of m, and what it will make
\* of it; what the tracker should come to have of m.
Occupied(h, m) == hand[h].step \in {"snapshot", "pop", "forget"} /\ m \in DOMAIN hand[h].about
Outcome(h, m)  == IF hand[h].step = "snapshot" THEN hand[h].about[m] ELSE NoSnap
Wanted(m)      == IF here /\ m \in member THEN held[m] ELSE NoSnap

\* Lost contact: what happened to a member meanwhile is learnt at the next connect.
Awaited(m) == ~online /\ here /\ m \in member

SnapTyped ==
  /\ hand = [h \in Hands |-> hand[h]]
  /\ snaps = [m \in Members |-> snaps[m]]
  /\ held = [m \in Members |-> held[m]]
  /\ \A h \in Hands :
       /\ hand[h].step = "snapshot" /\ hand[h].add => \E m \in Members : DOMAIN hand[h].about = {m}
       /\ hand[h].step = "pop" => \E m \in Members : DOMAIN hand[h].about = {m}
       /\ hand[h].step = "forget" => DOMAIN hand[h].about = Members

\* At most one handler is at the snapshot of a member in order, and it ends with
\* what the tracker should have; with none, the tracker has it.
InOrder(m) ==
  /\ \A h, g \in Hands : Occupied(h, m) /\ Occupied(g, m) => h = g
  /\ \A h \in Hands : Occupied(h, m) => Outcome(h, m) = Wanted(m)
  /\ (\A h \in Hands : ~Occupied(h, m)) => snaps[m] = Wanted(m) \/ Awaited(m)

SnapInv == SnapTyped /\ \A m \in Members \ raced : InOrder(m)

\* An event about m, when no handler was at it.
LEMMA Told ==
  ASSUME NEW m \in Members, NEW h \in Hands, \A x \in Hands : ~Occupied(x, m),
         \A x \in Hands \ {h} : ~Occupied(x, m)',
         Occupied(h, m)', Outcome(h, m)' = Wanted(m)'
  PROVE  InOrder(m)'
BY DEF InOrder

\* A step that says nothing of m.
LEMMA Untold ==
  ASSUME NEW m \in Members, InOrder(m),
         \A x \in Hands : Occupied(x, m)' <=> Occupied(x, m),
         \A x \in Hands : Occupied(x, m) => Outcome(x, m)' = Outcome(x, m),
         Wanted(m)' = Wanted(m), snaps'[m] = snaps[m], Awaited(m) => Awaited(m)'
  PROVE  InOrder(m)'
BY DEF InOrder

LEMMA PendingIsOccupied == ASSUME NEW m PROVE Snaps!Pending(m) <=> \E h \in Hands : Occupied(h, m)
BY DEF Snaps!Pending, Occupied

\* An event of the gateway: the handler h gets it, the members it is about have
\* the state it carries, and nothing changes for the others.
LEMMA EventKeeps ==
  ASSUME SnapInv, NEW h \in Hands, NEW step \in {"snapshot", "pop", "forget"}, NEW add, NEW about,
         hand[h] = Snaps!Rest,
         hand' = [hand EXCEPT ![h] = [step |-> step, add |-> add, about |-> about]],
         \A m \in Members : m \in raced' <=>
           IF m \in DOMAIN about THEN Snaps!Pending(m) ELSE m \in raced,
         held' = [m \in Members |-> held'[m]], snaps' = snaps,
         step = "snapshot" /\ add => \E m \in Members : DOMAIN about = {m},
         step = "pop" => \E m \in Members : DOMAIN about = {m},
         step = "forget" => DOMAIN about = Members,
         \A m \in Members : m \in DOMAIN about =>
           Wanted(m)' = IF step = "snapshot" THEN about[m] ELSE NoSnap,
         \A m \in Members : m \notin DOMAIN about =>
           Wanted(m)' = Wanted(m) /\ (Awaited(m) => Awaited(m)')
  PROVE  SnapInv'
<1> DEFINE job == [step |-> step, add |-> add, about |-> about]
<1>1. \A x \in Hands : hand'[x] = IF x = h THEN job ELSE hand[x]
  BY DEF SnapInv, SnapTyped
<1>2. job.step = step /\ job.add = add /\ job.about = about
  OBVIOUS
<1>3. \A m : ~Occupied(h, m)
  BY DEF Occupied, Snaps!Rest
<1> HIDE DEF job
<1>4. SnapTyped'
  BY <1>1, <1>2 DEF SnapInv, SnapTyped
<1>5. ASSUME NEW m \in Members, m \notin raced' PROVE InOrder(m)'
  <2>1. \A x \in Hands \ {h} : /\ Occupied(x, m)' <=> Occupied(x, m)
                               /\ Outcome(x, m)' = Outcome(x, m)
    BY <1>1 DEF Occupied, Outcome
  <2>2. Occupied(h, m)' <=> m \in DOMAIN about
    BY <1>1, <1>2 DEF Occupied
  <2>3. CASE m \in DOMAIN about
    <3>1. \A x \in Hands : ~Occupied(x, m)
      BY <1>5, <2>3, PendingIsOccupied
    <3>2. Outcome(h, m)' = Wanted(m)'
      BY <1>1, <1>2, <2>3 DEF Outcome
    <3> QED
      BY <2>1, <2>2, <2>3, <3>1, <3>2, Told
  <2>4. CASE m \notin DOMAIN about
    <3>1. InOrder(m)
      BY <1>5, <2>4 DEF SnapInv
    <3> QED
      BY <1>3, <2>1, <2>2, <2>4, <3>1, Untold
  <2> QED
    BY <2>3, <2>4
<1> QED
  BY <1>4, <1>5 DEF SnapInv

\* A handler that is not at a snapshot goes on to something that is none.
LEMMA HandKeeps ==
  ASSUME SnapInv, NEW h \in Hands, hand[h].step = "autorole",
         NEW job, job.step \notin {"snapshot", "pop", "forget"},
         hand' = [hand EXCEPT ![h] = job],
         UNCHANGED <<here, online, member, held, snaps, raced>>
  PROVE  SnapInv'
<1>1. \A x \in Hands : hand'[x] = IF x = h THEN job ELSE hand[x]
  BY DEF SnapInv, SnapTyped
<1>2. SnapTyped'
  BY <1>1 DEF SnapInv, SnapTyped
<1>3. ASSUME NEW m \in Members, m \notin raced PROVE InOrder(m)'
  <2>1. InOrder(m)
    BY <1>3 DEF SnapInv
  <2>2. \A x \in Hands : /\ Occupied(x, m)' <=> Occupied(x, m)
                         /\ Occupied(x, m) => Outcome(x, m)' = Outcome(x, m)
    BY <1>1 DEF Occupied, Outcome
  <2>3. Wanted(m)' = Wanted(m) /\ (Awaited(m) => Awaited(m)')
    BY DEF Wanted, Awaited
  <2> QED
    BY <2>1, <2>2, <2>3, Untold
<1> QED
  BY <1>2, <1>3 DEF SnapInv

\* A handler brings the snapshots of the members it is about to what they should be.
LEMMA StoreKeeps ==
  ASSUME SnapInv, NEW h \in Hands, hand[h].step \in {"snapshot", "pop", "forget"},
         NEW job, job.step \notin {"snapshot", "pop", "forget"},
         hand' = [hand EXCEPT ![h] = job],
         snaps' = [m \in Members |-> IF m \in DOMAIN hand[h].about THEN Outcome(h, m) ELSE snaps[m]],
         UNCHANGED <<here, online, member, held, raced>>
  PROVE  SnapInv'
<1>1. \A x \in Hands : hand'[x] = IF x = h THEN job ELSE hand[x]
  BY DEF SnapInv, SnapTyped
<1>2. SnapTyped'
  BY <1>1 DEF SnapInv, SnapTyped
<1>3. ASSUME NEW m \in Members, m \notin raced PROVE InOrder(m)'
  <2>1. InOrder(m)
    BY <1>3 DEF SnapInv
  <2>2. ~Occupied(h, m)' /\ \A x \in Hands \ {h} : /\ Occupied(x, m)' <=> Occupied(x, m)
                                                   /\ Outcome(x, m)' = Outcome(x, m)
    BY <1>1 DEF Occupied, Outcome
  <2>3. Wanted(m)' = Wanted(m) /\ (Awaited(m) <=> Awaited(m)')
    BY DEF Wanted, Awaited
  <2>4. CASE Occupied(h, m)
    <3>1. snaps'[m] = Wanted(m)
      BY <2>1, <2>4 DEF InOrder, Occupied
    <3>2. \A x \in Hands : ~Occupied(x, m)'
      BY <2>1, <2>2, <2>4 DEF InOrder
    <3> QED
      BY <2>3, <3>1, <3>2 DEF InOrder
  <2>5. CASE ~Occupied(h, m)
    <3>1. snaps'[m] = snaps[m]
      BY <2>5 DEF Occupied
    <3> QED
      BY <2>1, <2>2, <2>3, <2>5, <3>1, Untold
  <2> QED
    BY <2>4, <2>5
<1> QED
  BY <1>2, <1>3 DEF SnapInv

\* A handler of a whole guild stores one member and has the others left to store.
LEMMA StoreOneKeeps ==
  ASSUME SnapInv, NEW h \in Hands, hand[h].step = "snapshot",
         NEW m \in DOMAIN hand[h].about,
         NEW job, job.step = "snapshot", job.add = FALSE,
         job.about = [x \in DOMAIN hand[h].about \ {m} |-> hand[h].about[x]],
         hand' = [hand EXCEPT ![h] = job],
         snaps' = [snaps EXCEPT ![m] = hand[h].about[m]],
         UNCHANGED <<here, online, member, held, raced>>
  PROVE  SnapInv'
<1>1. \A x \in Hands : hand'[x] = IF x = h THEN job ELSE hand[x]
  BY DEF SnapInv, SnapTyped
<1>2. SnapTyped'
  BY <1>1 DEF SnapInv, SnapTyped
<1>3. ASSUME NEW x \in Members, x \notin raced PROVE InOrder(x)'
  <2>1. InOrder(x)
    BY <1>3 DEF SnapInv
  <2>2. \A g \in Hands \ {h} : /\ Occupied(g, x)' <=> Occupied(g, x)
                               /\ Outcome(g, x)' = Outcome(g, x)
    BY <1>1 DEF Occupied, Outcome
  <2>3. Wanted(x)' = Wanted(x) /\ (Awaited(x) <=> Awaited(x)')
    BY DEF Wanted, Awaited
  <2>4. CASE x = m
    <3>1. Occupied(h, m) /\ ~Occupied(h, m)' /\ Outcome(h, m) = hand[h].about[m]
      BY <1>1 DEF Occupied, Outcome
    <3>2. snaps'[m] = Wanted(m)
      BY <2>1, <2>4, <3>1 DEF InOrder, SnapInv, SnapTyped
    <3>3. \A g \in Hands : ~Occupied(g, m)'
      BY <2>1, <2>2, <2>4, <3>1 DEF InOrder
    <3> QED
      BY <2>3, <2>4, <3>2, <3>3 DEF InOrder
  <2>5. CASE x # m
    <3>1. /\ Occupied(h, x)' <=> Occupied(h, x)
          /\ Occupied(h, x) => Outcome(h, x)' = Outcome(h, x)
      BY <1>1, <2>5 DEF Occupied, Outcome
    <3>2. snaps'[x] = snaps[x]
      BY <2>5 DEF SnapInv, SnapTyped
    <3> QED
      BY <2>1, <2>2, <2>3, <3>1, <3>2, Untold
  <2> QED
    BY <2>4, <2>5
<1> QED
  BY <1>2, <1>3 DEF SnapInv

LEMMA SnapInit == Snaps!Init => SnapInv
<1> SUFFICES ASSUME Snaps!Init PROVE SnapInv
  OBVIOUS
<1>1. \A h \in Hands : hand[h].step = "idle"
  BY DEF Snaps!Init, Snaps!Rest
<1>2. SnapTyped
  BY <1>1 DEF Snaps!Init, SnapTyped
<1> QED
  BY <1>1, <1>2 DEF Snaps!Init, SnapInv, InOrder, Occupied, Wanted, Awaited

LEMMA SnapStep == SnapInv /\ [Snaps!Next]_Snaps!memberVars => SnapInv'
<1> SUFFICES ASSUME SnapInv, [Snaps!Next]_Snaps!memberVars PROVE SnapInv'
  OBVIOUS
<1>0. held = [x \in Members |-> held[x]]
  BY DEF SnapInv, SnapTyped
<1>1. ASSUME NEW m \in Members, Snaps!Unseen(m) PROVE SnapInv'
  <2>1. UNCHANGED <<here, online, snaps, hand>> /\ (~here \/ ~online)
        /\ raced' = raced \cup {x \in {m} : here}
    BY <1>1 DEF Snaps!Unseen
  <2>2. /\ held' = [x \in Members |-> held'[x]]
        /\ \A x \in Members \ {m} : held'[x] = held[x] /\ (x \in member' <=> x \in member)
    BY <1>0, <1>1 DEF Snaps!Unseen, Snaps!MemberJoins, Snaps!MemberLeaves, Snaps!RolesChange
  <2>3. SnapTyped'
    BY <2>1, <2>2 DEF SnapInv, SnapTyped
  <2>4. ASSUME NEW x \in Members, x \notin raced' PROVE InOrder(x)'
    <3>1. x \notin raced /\ (x # m \/ ~here)
      BY <2>1, <2>4
    <3>2. InOrder(x)
      BY <3>1 DEF SnapInv
    <3>3. Wanted(x)' = Wanted(x) /\ (Awaited(x) => Awaited(x)')
      BY <2>1, <2>2, <3>1 DEF Wanted, Awaited
    <3>4. \A g \in Hands : (Occupied(g, x)' <=> Occupied(g, x)) /\ Outcome(g, x)' = Outcome(g, x)
      BY <2>1 DEF Occupied, Outcome
    <3> QED
      BY <2>1, <3>2, <3>3, <3>4, Untold
  <2> QED
    BY <2>3, <2>4 DEF SnapInv
<1>2. ASSUME NEW m \in Members, NEW h \in Hands, Snaps!onGuildMemberAdd(h, m) PROVE SnapInv'
  <2> DEFINE about == Snaps!Only(m, {})
  <2>1. /\ here /\ UNCHANGED <<here, online, snaps>> /\ m \notin member
        /\ member' = member \cup {m} /\ held' = [held EXCEPT ![m] = {}]
        /\ Snaps!Event(h, "snapshot", TRUE, about)
    BY <1>2 DEF Snaps!onGuildMemberAdd, Snaps!MemberJoins
  <2>2. DOMAIN about = {m} /\ about[m] = {}
    BY DEF Snaps!Only
  <2> HIDE DEF about
  <2>3. /\ online /\ hand[h] = Snaps!Rest
        /\ hand' = [hand EXCEPT ![h] = [step |-> "snapshot", add |-> TRUE, about |-> about]]
        /\ raced' = {x \in raced : x \notin DOMAIN about} \cup {x \in DOMAIN about : Snaps!Pending(x)}
    BY <2>1 DEF Snaps!Event
  <2>4. held' = [x \in Members |-> held'[x]] /\ held'[m] = {}
    BY <1>0, <2>1
  <2>5. \A x \in Members : x # m => Wanted(x)' = Wanted(x) /\ ~Awaited(x)
    BY <1>0, <2>1, <2>3 DEF Wanted, Awaited
  <2>6. Wanted(m)' = about[m]
    BY <2>1, <2>2, <2>4 DEF Wanted
  <2> QED
    BY <2>1, <2>2, <2>3, <2>4, <2>5, <2>6, EventKeeps
<1>3. ASSUME NEW m \in Members, NEW h \in Hands, Snaps!onGuildMemberRemove(h, m) PROVE SnapInv'
  <2> DEFINE about == Snaps!Only(m, {})
  <2>1. /\ here /\ UNCHANGED <<here, online, held, snaps>> /\ member' = member \ {m}
        /\ Snaps!Event(h, "pop", FALSE, about)
    BY <1>3 DEF Snaps!onGuildMemberRemove, Snaps!MemberLeaves
  <2>2. DOMAIN about = {m}
    BY DEF Snaps!Only
  <2> HIDE DEF about
  <2>3. /\ online /\ hand[h] = Snaps!Rest
        /\ hand' = [hand EXCEPT ![h] = [step |-> "pop", add |-> FALSE, about |-> about]]
        /\ raced' = {x \in raced : x \notin DOMAIN about} \cup {x \in DOMAIN about : Snaps!Pending(x)}
    BY <2>1 DEF Snaps!Event
  <2>4. \A x \in Members : x # m => Wanted(x)' = Wanted(x) /\ ~Awaited(x)
    BY <2>1, <2>3 DEF Wanted, Awaited
  <2>5. Wanted(m)' = NoSnap
    BY <2>1 DEF Wanted
  <2> QED
    BY <1>0, <2>1, <2>2, <2>3, <2>4, <2>5, EventKeeps
<1>4. ASSUME NEW m \in Members, NEW h \in Hands, Snaps!onGuildMemberUpdate(h, m) PROVE SnapInv'
  <2>1. PICK R : R = held'[m]
    OBVIOUS
  <2> DEFINE about == Snaps!Only(m, R)
  <2>2. /\ here /\ UNCHANGED <<here, online, member, snaps>> /\ m \in member
        /\ \E S : held' = [held EXCEPT ![m] = S]
        /\ Snaps!Event(h, "snapshot", FALSE, about)
    BY <1>4, <2>1 DEF Snaps!onGuildMemberUpdate, Snaps!RolesChange
  <2>3. DOMAIN about = {m} /\ about[m] = R
    BY DEF Snaps!Only
  <2> HIDE DEF about
  <2>4. /\ online /\ hand[h] = Snaps!Rest
        /\ hand' = [hand EXCEPT ![h] = [step |-> "snapshot", add |-> FALSE, about |-> about]]
        /\ raced' = {x \in raced : x \notin DOMAIN about} \cup {x \in DOMAIN about : Snaps!Pending(x)}
    BY <2>2 DEF Snaps!Event
  <2>5. held' = [x \in Members |-> held'[x]] /\ \A x \in Members \ {m} : held'[x] = held[x]
    BY <1>0, <2>2
  <2>6. \A x \in Members : x # m => Wanted(x)' = Wanted(x) /\ ~Awaited(x)
    BY <2>2, <2>4, <2>5 DEF Wanted, Awaited
  <2>7. Wanted(m)' = about[m]
    BY <2>1, <2>2, <2>3 DEF Wanted
  <2> QED
    BY <2>2, <2>3, <2>4, <2>5, <2>6, <2>7, EventKeeps
<1>5. CASE Snaps!RemovedUnseen
  <2>1. raced' = Members /\ UNCHANGED <<held, snaps, hand>>
    BY <1>5 DEF Snaps!RemovedUnseen
  <2> QED
    BY <2>1 DEF SnapInv, SnapTyped
<1>6. CASE Snaps!Disconnect
  <2>1. online' = FALSE /\ UNCHANGED <<here, member, held, snaps, hand, raced>>
    BY <1>6 DEF Snaps!Disconnect
  <2>2. SnapTyped'
    BY <2>1 DEF SnapInv, SnapTyped
  <2>3. ASSUME NEW x \in Members, x \notin raced' PROVE InOrder(x)'
    <3>1. InOrder(x)
      BY <2>1, <2>3 DEF SnapInv
    <3>2. Wanted(x)' = Wanted(x) /\ (Awaited(x) => Awaited(x)')
      BY <2>1 DEF Wanted, Awaited
    <3>3. \A g \in Hands : (Occupied(g, x)' <=> Occupied(g, x)) /\ Outcome(g, x)' = Outcome(g, x)
      BY <2>1 DEF Occupied, Outcome
    <3> QED
      BY <2>1, <3>1, <3>2, <3>3, Untold
  <2> QED
    BY <2>2, <2>3 DEF SnapInv
<1>7. CASE Snaps!Crash
  <2>1. /\ online' = FALSE /\ UNCHANGED <<here, member, held>>
        /\ snaps' = [x \in Members |-> NoSnap] /\ hand' = [x \in Hands |-> Snaps!Rest]
    BY <1>7 DEF Snaps!Crash
  <2>2. \A x \in Hands : hand'[x].step = "idle"
    BY <2>1 DEF Snaps!Rest
  <2>3. SnapTyped'
    BY <2>1, <2>2, <1>0 DEF SnapTyped
  <2>4. ASSUME NEW x \in Members PROVE InOrder(x)'
    <3>1. \A g \in Hands : ~Occupied(g, x)'
      BY <2>2 DEF Occupied
    <3>2. Wanted(x)' = NoSnap \/ Awaited(x)'
      BY <2>1 DEF Wanted, Awaited
    <3> QED
      BY <2>1, <3>1, <3>2 DEF InOrder
  <2> QED
    BY <2>3, <2>4 DEF SnapInv
<1>8. ASSUME NEW h \in Hands, Snaps!BotJoins(h) PROVE SnapInv'
  <2> DEFINE about == Snaps!Carrying(held)
  <2>1. /\ ~here /\ here' = TRUE /\ UNCHANGED <<online, member, held, snaps>>
        /\ Snaps!Event(h, "snapshot", FALSE, about)
    BY <1>8 DEF Snaps!BotJoins, Snaps!GuildCreate
  <2>2. DOMAIN about = member /\ \A x \in member : about[x] = held[x]
    BY DEF Snaps!Carrying
  <2> HIDE DEF about
  <2>3. /\ online /\ hand[h] = Snaps!Rest
        /\ hand' = [hand EXCEPT ![h] = [step |-> "snapshot", add |-> FALSE, about |-> about]]
        /\ raced' = {x \in raced : x \notin DOMAIN about} \cup {x \in DOMAIN about : Snaps!Pending(x)}
    BY <2>1 DEF Snaps!Event
  <2>4. \A x \in Members : x \notin member => Wanted(x)' = Wanted(x) /\ ~Awaited(x)
    BY <2>1 DEF Wanted, Awaited
  <2>5. \A x \in Members : x \in member => Wanted(x)' = about[x]
    BY <2>1, <2>2 DEF Wanted
  <2> QED
    BY <1>0, <2>1, <2>2, <2>3, <2>4, <2>5, EventKeeps
<1>9. ASSUME NEW h \in Hands, Snaps!BotLeaves(h) PROVE SnapInv'
  <2>1. /\ here' = FALSE /\ UNCHANGED <<online, member, held, snaps>>
        /\ online /\ hand[h] = Snaps!Rest
        /\ hand' = [hand EXCEPT ![h] = [step |-> "forget", add |-> FALSE, about |-> held]]
        /\ raced' = {x \in raced : x \notin DOMAIN held} \cup {x \in DOMAIN held : Snaps!Pending(x)}
    BY <1>9 DEF Snaps!BotLeaves, Snaps!Event
  <2>2. DOMAIN held = Members
    BY <1>0
  <2>3. \A x \in Members : Wanted(x)' = NoSnap
    BY <2>1 DEF Wanted
  <2> QED
    BY <1>0, <2>1, <2>2, <2>3, EventKeeps
<1>10. ASSUME NEW h \in Hands, Snaps!Connect(h) PROVE SnapInv'
  <2> DEFINE about == Snaps!Carrying(held)
  <2>1. /\ ~online /\ online' = TRUE /\ UNCHANGED <<here, member, held, snaps>>
        /\ hand[h] = Snaps!Rest
        /\ hand' = [hand EXCEPT ![h] =
             IF here THEN [step |-> "snapshot", add |-> FALSE, about |-> about] ELSE Snaps!Rest]
        /\ raced' = IF here THEN (raced \ member) \cup {x \in member : Snaps!Pending(x)} ELSE raced
    BY <1>10 DEF Snaps!Connect
  <2>2. DOMAIN about = member /\ \A x \in member : about[x] = held[x]
    BY DEF Snaps!Carrying
  <2> HIDE DEF about
  <2>3. CASE here
    <3>1. \A x \in Members : x \notin member => Wanted(x)' = Wanted(x) /\ ~Awaited(x)
      BY <2>1 DEF Wanted, Awaited
    <3>2. \A x \in Members : x \in member => Wanted(x)' = about[x]
      BY <2>1, <2>2, <2>3 DEF Wanted
    <3> QED
      BY <1>0, <2>1, <2>2, <2>3, <3>1, <3>2, EventKeeps
  <2>4. CASE ~here
    <3>1. hand' = hand
      BY <2>1, <2>4 DEF SnapInv, SnapTyped
    <3>2. SnapTyped'
      BY <2>1, <3>1 DEF SnapInv, SnapTyped
    <3>3. ASSUME NEW x \in Members, x \notin raced' PROVE InOrder(x)'
      <4>1. InOrder(x)
        BY <2>1, <2>4, <3>3 DEF SnapInv
      <4>2. Wanted(x)' = Wanted(x) /\ ~Awaited(x)
        BY <2>1, <2>4 DEF Wanted, Awaited
      <4>3. \A g \in Hands : (Occupied(g, x)' <=> Occupied(g, x)) /\ Outcome(g, x)' = Outcome(g, x)
        BY <3>1 DEF Occupied, Outcome
      <4> QED
        BY <2>1, <4>1, <4>2, <4>3, Untold
    <3> QED
      BY <3>2, <3>3 DEF SnapInv
  <2> QED
    BY <2>3, <2>4
<1>11. ASSUME NEW h \in Hands, Snaps!SnapshotMember(h) PROVE SnapInv'
  <2>1. /\ hand[h].step = "snapshot" /\ UNCHANGED <<here, online, member, held, raced>>
        /\ hand[h].add => \E m \in Members : DOMAIN hand[h].about = {m}
    BY <1>11 DEF Snaps!SnapshotMember, SnapInv, SnapTyped
  <2>2. PICK m \in DOMAIN hand[h].about :
          /\ snaps' = [snaps EXCEPT ![m] = hand[h].about[m]]
          /\ hand' = [hand EXCEPT ![h] =
               IF hand[h].add
               THEN [step |-> "autorole", who |-> m,
                     todo |-> autorole[IF m \in Bots THEN "bot" ELSE "human"]]
               ELSE [step |-> "snapshot", add |-> FALSE,
                     about |-> [x \in DOMAIN hand[h].about \ {m} |-> hand[h].about[x]]]]
    BY <1>11 DEF Snaps!SnapshotMember
  <2>3. CASE hand[h].add
    <3> DEFINE job == [step |-> "autorole", who |-> m,
                       todo |-> autorole[IF m \in Bots THEN "bot" ELSE "human"]]
    <3>1. job.step = "autorole" /\ hand' = [hand EXCEPT ![h] = job]
      BY <2>2, <2>3
    <3>2. DOMAIN hand[h].about = {m}
      BY <2>1, <2>2, <2>3
    <3>3. snaps' = [x \in Members |->
            IF x \in DOMAIN hand[h].about THEN Outcome(h, x) ELSE snaps[x]]
      BY <2>1, <2>2, <3>2 DEF Outcome, SnapInv, SnapTyped
    <3> HIDE DEF job
    <3> QED
      BY <2>1, <3>1, <3>3, StoreKeeps
  <2>4. CASE ~hand[h].add
    <3> DEFINE job == [step |-> "snapshot", add |-> FALSE,
                       about |-> [x \in DOMAIN hand[h].about \ {m} |-> hand[h].about[x]]]
    <3>1. /\ job.step = "snapshot" /\ job.add = FALSE /\ hand' = [hand EXCEPT ![h] = job]
          /\ job.about = [x \in DOMAIN hand[h].about \ {m} |-> hand[h].about[x]]
      BY <2>2, <2>4
    <3> HIDE DEF job
    <3> QED
      BY <2>1, <2>2, <3>1, StoreOneKeeps
  <2> QED
    BY <2>3, <2>4
<1>17. ASSUME NEW h \in Hands, Snaps!SnapshotGuild(h) PROVE SnapInv'
  <2>1. /\ hand[h].step = "snapshot" /\ DOMAIN hand[h].about = {}
        /\ hand' = [hand EXCEPT ![h] = Snaps!Rest]
        /\ UNCHANGED <<here, online, member, held, snaps, raced>>
    BY <1>17 DEF Snaps!SnapshotGuild
  <2>2. snaps' = [x \in Members |->
          IF x \in DOMAIN hand[h].about THEN Outcome(h, x) ELSE snaps[x]]
    BY <2>1 DEF SnapInv, SnapTyped
  <2>3. Snaps!Rest.step = "idle"
    BY DEF Snaps!Rest
  <2> QED
    BY <2>1, <2>2, <2>3, StoreKeeps
<1>12. ASSUME NEW h \in Hands, Snaps!PopMember(h) PROVE SnapInv'
  <2>1. /\ hand[h].step = "pop" /\ UNCHANGED <<here, online, member, held, raced>>
        /\ hand' = [hand EXCEPT ![h] = Snaps!Rest]
    BY <1>12 DEF Snaps!PopMember
  <2>2. PICK m \in DOMAIN hand[h].about : snaps' = [snaps EXCEPT ![m] = NoSnap]
    BY <1>12 DEF Snaps!PopMember, Snaps!Popped
  <2>3. DOMAIN hand[h].about = {m}
    BY <2>1, <2>2 DEF SnapInv, SnapTyped
  <2>4. snaps' = [x \in Members |->
          IF x \in DOMAIN hand[h].about THEN Outcome(h, x) ELSE snaps[x]]
    BY <2>1, <2>2, <2>3 DEF Outcome, SnapInv, SnapTyped
  <2>5. Snaps!Rest.step = "idle"
    BY DEF Snaps!Rest
  <2> QED
    BY <2>1, <2>4, <2>5, StoreKeeps
<1>13. ASSUME NEW h \in Hands, Snaps!Forget(h) PROVE SnapInv'
  <2>1. /\ hand[h].step = "forget" /\ UNCHANGED <<here, online, member, held, raced>>
        /\ hand' = [hand EXCEPT ![h] = Snaps!Rest] /\ snaps' = [x \in Members |-> NoSnap]
    BY <1>13 DEF Snaps!Forget
  <2>2. DOMAIN hand[h].about = Members
    BY <2>1 DEF SnapInv, SnapTyped
  <2>3. snaps' = [x \in Members |->
          IF x \in DOMAIN hand[h].about THEN Outcome(h, x) ELSE snaps[x]]
    BY <2>1, <2>2 DEF Outcome
  <2>4. Snaps!Rest.step = "idle"
    BY DEF Snaps!Rest
  <2> QED
    BY <2>1, <2>3, <2>4, StoreKeeps
<1>14. ASSUME NEW h \in Hands, Snaps!Done(h) PROVE SnapInv'
  <2>1. /\ hand[h].step = "autorole" /\ hand' = [hand EXCEPT ![h] = Snaps!Rest]
        /\ UNCHANGED <<here, online, member, held, snaps, raced>>
    BY <1>14 DEF Snaps!Done
  <2>2. Snaps!Rest.step = "idle"
    BY DEF Snaps!Rest
  <2> QED
    BY <2>1, <2>2, HandKeeps
<1>15. ASSUME NEW h \in Hands, NEW g \in Hands, Snaps!applyAutorole(h, g) PROVE SnapInv'
  <2>1. PICK m, role : m = hand[h].who /\ role \in hand[h].todo
          /\ LET rest == [hand EXCEPT ![h] =
                   [step |-> "autorole", who |-> m, todo |-> hand[h].todo \ {role}]] IN
             \/ hand' = rest /\ UNCHANGED <<held, raced>>
             \/ /\ here /\ online /\ m \in member /\ hand[g] = Snaps!Rest
                /\ held' = [held EXCEPT ![m] = @ \cup {role}]
                /\ hand' = [rest EXCEPT ![g] =
                     [step |-> "snapshot", add |-> FALSE, about |-> Snaps!Only(m, held'[m])]]
                /\ raced' = (raced \ {m}) \cup {x \in {m} : Snaps!Pending(x)}
    BY <1>15 DEF Snaps!applyAutorole
  <2>2. hand[h].step = "autorole" /\ UNCHANGED <<here, online, member, snaps>>
    BY <1>15 DEF Snaps!applyAutorole
  <2> DEFINE job == [step |-> "autorole", who |-> m, todo |-> hand[h].todo \ {role}]
  <2>3. job.step = "autorole"
    OBVIOUS
  <2> HIDE DEF job
  <2>4. CASE hand' = [hand EXCEPT ![h] = job] /\ UNCHANGED <<held, raced>>
    BY <2>2, <2>3, <2>4, HandKeeps
  <2>5. ASSUME here, online, m \in member, hand[g] = Snaps!Rest,
               held' = [held EXCEPT ![m] = @ \cup {role}],
               hand' = [[hand EXCEPT ![h] = job] EXCEPT ![g] =
                     [step |-> "snapshot", add |-> FALSE, about |-> Snaps!Only(m, held'[m])]],
               raced' = (raced \ {m}) \cup {x \in {m} : Snaps!Pending(x)}
        PROVE  SnapInv'
    <3>1. PICK R : R = held'[m]
      OBVIOUS
    <3> DEFINE told == [step |-> "snapshot", add |-> FALSE, about |-> Snaps!Only(m, R)]
    <3>2. told.step = "snapshot" /\ told.add = FALSE /\ told.about = [x \in {m} |-> R]
      BY DEF Snaps!Only
    <3>3. hand' = [[hand EXCEPT ![h] = job] EXCEPT ![g] = told]
      BY <2>5, <3>1
    <3> HIDE DEF told
    <3>4. g # h
      BY <2>2, <2>5 DEF Snaps!Rest
    <3>5. /\ hand' = [x \in Hands |-> hand'[x]]
          /\ \A x \in Hands : hand'[x] = IF x = g THEN told ELSE IF x = h THEN job ELSE hand[x]
      BY <3>3, <3>4 DEF SnapInv, SnapTyped
    <3>6. held' = [x \in Members |-> held'[x]] /\ \A x \in Members \ {m} : held'[x] = held[x]
      BY <1>0, <2>5
    <3>7. SnapTyped'
      BY <2>2, <2>3, <3>2, <3>5, <3>6 DEF SnapInv, SnapTyped
    <3>8. ~Occupied(g, m) /\ ~Occupied(h, m)
      BY <2>2, <2>5 DEF Occupied, Snaps!Rest
    <3>9. ASSUME NEW x \in Members, x \notin raced' PROVE InOrder(x)'
      <4>1. \A y \in Hands \ {g, h} : /\ Occupied(y, x)' <=> Occupied(y, x)
                                      /\ Outcome(y, x)' = Outcome(y, x)
        BY <3>5 DEF Occupied, Outcome
      <4>2. ~Occupied(h, x) /\ ~Occupied(g, x)
        BY <2>2, <2>5 DEF Occupied, Snaps!Rest
      <4>3. hand'[g] = told /\ hand'[h] = job
        BY <3>4, <3>5
      <4>4. ~Occupied(h, x)'
        BY <2>3, <4>3 DEF Occupied
      <4>5. Occupied(g, x)' <=> x = m
        BY <3>2, <4>3 DEF Occupied
      <4>6. CASE x = m
        <5>1. \A y \in Hands : ~Occupied(y, m)
          BY <2>5, <3>9, <4>6, PendingIsOccupied
        <5>2. Outcome(g, m)' = Wanted(m)'
          <6>1. Outcome(g, m)' = R
            BY <3>2, <4>3 DEF Outcome
          <6>2. Wanted(m)' = R
            BY <2>2, <2>5, <3>1 DEF Wanted
          <6> QED
            BY <6>1, <6>2
        <5> QED
          BY <4>1, <4>2, <4>4, <4>5, <4>6, <5>1, <5>2, Told
      <4>7. CASE x # m
        <5>1. InOrder(x)
          BY <2>5, <3>9, <4>7 DEF SnapInv
        <5>2. Wanted(x)' = Wanted(x) /\ ~Awaited(x)
          BY <2>2, <2>5, <3>6, <4>7 DEF Wanted, Awaited
        <5> QED
          BY <2>2, <4>1, <4>2, <4>4, <4>5, <4>7, <5>1, <5>2, Untold
      <4> QED
        BY <4>6, <4>7
    <3> QED
      BY <3>7, <3>9 DEF SnapInv
  <2> QED
    BY <2>1, <2>4, <2>5 DEF job
<1>16. CASE UNCHANGED Snaps!memberVars
  <2>1. UNCHANGED <<here, online, member, held, snaps, hand, raced>>
    BY <1>16 DEF Snaps!memberVars
  <2> QED
    BY <2>1 DEF SnapInv, SnapTyped, InOrder, Occupied, Outcome, Wanted, Awaited
<1> QED
  BY <1>1, <1>2, <1>3, <1>4, <1>5, <1>6, <1>7, <1>8, <1>9, <1>10, <1>11, <1>12, <1>13,
     <1>14, <1>15, <1>16, <1>17 DEF Snaps!Next

\* Once the handlers are done, the tracker has the roles of the members of the
\* guild and of nobody else, but for those of whom an event was missed or
\* overtook another (SnapshotMember, PopMember, Forget).
THEOREM SnapshotsStayTrue == Snaps!Spec => []SnapshotsTrue
<1>1. SnapInv => SnapshotsTrue
  <2> SUFFICES ASSUME SnapInv, online, \A h \in Hands : hand[h] = Snaps!Rest,
                      NEW m \in Members \ raced
               PROVE  snaps[m] = Wanted(m)
    BY DEF SnapshotsTrue, Snaps!SnapshotsTrue, Wanted
  <2>1. \A h \in Hands : ~Occupied(h, m)
    BY DEF Occupied, Snaps!Rest
  <2> QED
    BY <2>1 DEF SnapInv, InOrder, Awaited
<1> QED
  BY SnapInit, SnapStep, <1>1, PTL DEF Snaps!Spec
=============================================================================
