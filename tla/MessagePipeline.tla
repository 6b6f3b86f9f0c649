--------------------------- MODULE MessagePipeline ---------------------------
(***************************************************************************)
(* What onMessageCreate does with the messages of one member in one        *)
(* channel: the AFK status, then automod, then (LevelEngine) the XP.       *)
(* Every message has a goroutine of its own (Handlers).  Times count       *)
(* intervals of the automod collector's ticker; the caps ratio is exact.   *)
(***************************************************************************)
EXTENDS Integers, SequencesExt

CONSTANTS
  Handlers,     \* goroutines
  Messages,     \* what a message may say: [invite, hosts, letters, upper, long, words]
  MemberRoles, Channel,
  AutomodConfigs, \* rows automod_config may hold
  Retention,    \* the idle time after which the collector drops a key
  MaxMessages, MaxTime, MaxAway, MaxErrors   \* bounds

NotAFK == 0
Times   == 0..MaxTime
NoTimes == [x \in Times |-> 0]
NoRule == "none"
Actions == {"delete", "warn", "timeout", "kick", "ban"}
Free   == [step |-> "idle"]

VARIABLES
  now,        \* the clock
  automod,    \* the row of automod_config
  spam,       \* Checker.spam for the member and the channel: how often it holds each
              \* time stamp (their order is never looked at)
  afk,        \* the row of afk_users: NotAFK or the number of the /afk that wrote it
  standing,   \* the member: "in", "timeout", "kicked" or "banned"
  warned,     \* warnings by automod
  handler,    \* what each goroutine is at
  sent, away, errors, \* bounds: messages, uses of /afk, failures
  greeted,    \* history: "Welcome back" messages
  heard,      \* history: every message the spam rule has counted
  narrowest   \* history: the narrowest window it was counted in

member == <<afk, standing, warned>>
rule   == <<automod, spam, heard, narrowest>>
pipeVars == <<now, member, rule, handler, sent, away, errors, greeted>>

Init ==
  /\ now = 0 /\ automod \in AutomodConfigs
  /\ spam = NoTimes /\ heard = NoTimes /\ narrowest = MaxTime
  /\ afk = NotAFK /\ standing = "in" /\ warned = 0
  /\ handler = [t \in Handlers |-> Free]
  /\ sent = 0 /\ away = 0 /\ errors = 0 /\ greeted = 0

At(t, step) == handler[t].step = step
Goto(t, step) == handler' = [handler EXCEPT ![t] = [step |-> step, msg |-> handler[t].msg]]
Done(t) == handler' = [handler EXCEPT ![t] = Free]
Error   == errors < MaxErrors /\ errors' = errors + 1

Tick ==
  /\ now < MaxTime
  /\ now' = now + 1
  /\ UNCHANGED <<member, rule, handler, sent, away, errors, greeted>>

\* The dashboard or /automod writes the row (ConfigPages).
SaveAutomod ==
  /\ Error
  /\ automod' \in AutomodConfigs \ {automod}
  /\ UNCHANGED <<now, member, spam, heard, narrowest, handler, sent, away, greeted>>

-----------------------------------------------------------------------------
(* AFK                                                                     *)

\* /afk: SetAFK.
SetAFK ==
  /\ away < MaxAway
  /\ away' = away + 1 /\ afk' = away + 1
  /\ UNCHANGED <<now, standing, warned, rule, handler, sent, errors, greeted>>

Send(t) ==
  /\ At(t, "idle") /\ sent < MaxMessages /\ standing = "in"
  /\ sent' = sent + 1
  /\ \E m \in Messages : handler' = [handler EXCEPT ![t] = [step |-> "afk", msg |-> m]]
  /\ UNCHANGED <<now, member, rule, away, errors, greeted>>

\* GetAFK.
ReadAFK(t) ==
  /\ At(t, "afk")
  /\ \/ Goto(t, IF afk = NotAFK THEN "config" ELSE "unafk") /\ UNCHANGED errors
     \/ Error /\ Goto(t, "config")
  /\ UNCHANGED <<now, member, rule, sent, away, greeted>>

\* Wrong variant: whoever has read the status says welcome.
ClearedAny == greeted + 1

\* ClearAFK tells whether it was this call that removed the row.
Cleared == IF afk = NotAFK THEN greeted ELSE greeted + 1

ClearAFK(t) ==
  /\ At(t, "unafk")
  /\ \/ afk' = NotAFK /\ greeted' = Cleared /\ UNCHANGED errors
     \/ Error /\ UNCHANGED <<afk, greeted>>
  /\ Goto(t, "config")
  /\ UNCHANGED <<now, standing, warned, rule, sent, away>>

-----------------------------------------------------------------------------
(* Automod                                                                 *)

RuleAppliesToRoles(scope) ==
  /\ scope.exclude \cap MemberRoles = {}
  /\ scope.include # {} => scope.include \cap MemberRoles # {}

IsExempt(c) == Channel \in c.exemptChannels \/ c.exemptRoles \cap MemberRoles # {}

HasDisallowedLink(m, c) == ~(m.hosts \subseteq c.allowed)

\* CapsRatio is 0 without letters.
ExceedsCaps(m, c) ==
  m.long /\ IF m.letters = 0 THEN c.capsPct <= 0 ELSE 100 * m.upper >= c.capsPct * m.letters

ContainsBadWord(m, c) == m.words \cap c.badWords # {}

\* Rules after "spam", in the order in which Evaluate tries them.
Broken(m, c) ==
  LET caught(r) == /\ r \in c.rules /\ RuleAppliesToRoles(c.scope[r])
                   /\ CASE r = "invite" -> m.invite
                        [] r = "link" -> HasDisallowedLink(m, c)
                        [] r = "caps" -> ExceedsCaps(m, c)
                        [] r = "badwords" -> ContainsBadWord(m, c)
      hits == SelectSeq(<<"invite", "link", "caps", "badwords">>, caught)
  IN  IF hits = <<>> THEN NoRule ELSE hits[1]

CountsSpam(c) == "spam" \in c.rules /\ RuleAppliesToRoles(c.scope["spam"])

\* With a verdict the message is deleted and the member punished; an action
\* that onMessageCreate does not know does neither, and is only logged.
Verdict(t, c, r) ==
  IF r = NoRule \/ c.action \notin Actions THEN Done(t)
  ELSE handler' = [handler EXCEPT ![t] = [step |-> "delete", action |-> c.action]]

\* GetAutomodConfig, and Evaluate up to the spam rule's reading of the clock.
LoadAutomod(t) ==
  /\ At(t, "config")
  /\ \/ /\ UNCHANGED errors
        /\ IF ~automod.enabled \/ IsExempt(automod) THEN Done(t)
           ELSE IF CountsSpam(automod)
           THEN handler' = [handler EXCEPT ![t] =
                  [step |-> "spam", msg |-> handler[t].msg, cfg |-> automod, at |-> now]]
           ELSE Verdict(t, automod, Broken(handler[t].msg, automod))
     \/ Error /\ Done(t)
  /\ UNCHANGED <<now, member, rule, sent, away, greeted>>

Recent(times, window, at) == [x \in Times |-> IF x > at - window THEN times[x] ELSE 0]

Plus(times, at) == [times EXCEPT ![at] = @ + 1]

HowMany(times) == FoldFunction(+, 0, times)

\* RecordAndCheckSpam, with the clock it has read before the lock.
RecordSpam(t) ==
  /\ At(t, "spam")
  /\ LET job == handler[t]
         c   == job.cfg
     IN  /\ spam' = Plus(Recent(spam, c.window, job.at), job.at)
         /\ heard' = Plus(heard, job.at)
         /\ narrowest' = IF c.window < narrowest THEN c.window ELSE narrowest
         /\ Verdict(t, c, IF HowMany(spam') >= c.threshold THEN "spam" ELSE Broken(job.msg, c))
  /\ UNCHANGED <<now, member, automod, sent, away, errors, greeted>>

\* Wrong variant: every time stamp has to be recent.
StillUsedAll(times) == \A x \in Times : times[x] > 0 => x > now - Retention

\* gc keeps a key with a recent time stamp.
StillUsed(times) == \E x \in Times : times[x] > 0 /\ x > now - Retention

Collect ==
  /\ spam # NoTimes /\ ~StillUsed(spam)
  /\ spam' = NoTimes
  /\ UNCHANGED <<now, member, automod, heard, narrowest, handler, sent, away, errors, greeted>>

\* ChannelMessageDelete, which may fail.
DeleteMessage(t) ==
  /\ At(t, "delete")
  /\ handler' = [handler EXCEPT ![t] = [step |-> "punish", action |-> handler[t].action]]
  /\ UNCHANGED errors \/ Error
  /\ UNCHANGED <<now, member, rule, sent, away, greeted>>

\* The action on the member; its error is ignored.  Then the mod log.
Punish(t) ==
  /\ At(t, "punish")
  /\ LET action == handler[t].action IN
     \/ /\ warned' = IF action = "warn" THEN warned + 1 ELSE warned
        /\ standing' = CASE action = "ban" -> "banned"
                         [] action = "kick" /\ standing # "banned" -> "kicked"
                         [] action = "timeout" /\ standing = "in" -> "timeout"
                         [] OTHER -> standing
        /\ UNCHANGED errors
     \/ Error /\ action # "delete" /\ UNCHANGED <<warned, standing>>
  /\ Done(t)
  /\ UNCHANGED <<now, afk, rule, sent, away, greeted>>

Next ==
  \/ Tick \/ SaveAutomod \/ SetAFK \/ Collect
  \/ \E t \in Handlers :
       \/ Send(t) \/ ReadAFK(t) \/ ClearAFK(t) \/ LoadAutomod(t) \/ RecordSpam(t)
       \/ DeleteMessage(t) \/ Punish(t)

Spec == Init /\ [][Next]_pipeVars

-----------------------------------------------------------------------------
(* Properties                                                              *)

\* However many messages read the status at once, each /afk is answered by at
\* most one "Welcome back".
OneWelcomeBack == greeted + (IF afk = NotAFK THEN 0 ELSE 1) <= away

\* A window no wider than the collector's retention and than every window used
\* so far still holds every message that was counted in it, also those counted
\* out of order and those before a collection.
SpamExact ==
  \A w \in 1..Retention : w <= narrowest => Recent(spam, w, now) = Recent(heard, w, now)
=============================================================================
