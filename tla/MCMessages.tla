----------------------------- MODULE MCMessages ------------------------------
(* What a new message sets off, for TLC: the automod and AFK handling of   *)
(* MessagePipeline, and the XP it earns.  The two share no state, so one   *)
(* of them runs and the other keeps an initial state.                      *)
EXTENDS MCLevelEngine

CONSTANTS
  Handlers, Messages, MemberRoles, Channel, AutomodConfigs, Retention,
  MaxMessages, MaxWait, MaxAway, MaxErrors,
  t1, t2, staff, guest, bad, evil, good

\* Windows are whole seconds and the bounds numbers.
ASSUME PipelineAssumption ==
  /\ \A c \in AutomodConfigs : c.window \in Nat
  /\ Retention \in Nat /\ MaxWait \in Nat

VARIABLES
  running,
  now, automod, spam, afk, standing, warned, handler, sent, away, errors, greeted,
  heard, narrowest

Pipeline == INSTANCE MessagePipeline WITH MaxTime <- MaxWait

pipeVars == <<now, automod, spam, afk, standing, warned, handler, sent, away, errors, greeted,
              heard, narrowest>>

\* Configurations that differ in the window, the rules, their scope and the action.
NoScope   == [include |-> {}, exclude |-> {}]
SpamOnly  ==
  [enabled |-> TRUE, rules |-> {"spam"}, threshold |-> 2, window |-> 2, allowed |-> {good},
   capsPct |-> 70, badWords |-> {bad}, exemptRoles |-> {}, exemptChannels |-> {},
   scope |-> [r \in {"spam", "invite", "link", "caps", "badwords"} |-> NoScope],
   action |-> "warn"]

MCConfigs ==
  {SpamOnly,
   [SpamOnly EXCEPT !.window = 3],
   [SpamOnly EXCEPT !.window = 1, !.rules = {"spam", "invite", "link", "caps", "badwords"},
                    !.action = "ban"],
   [SpamOnly EXCEPT !.rules = {"invite", "badwords"}, !.scope["invite"].exclude = {guest},
                    !.action = "kick"],
   [SpamOnly EXCEPT !.exemptRoles = {guest}],
   [SpamOnly EXCEPT !.action = "unheard of"],
   [SpamOnly EXCEPT !.scope["spam"].include = {staff}, !.rules = {"spam", "link", "caps"},
                    !.action = "timeout"]}

Plain == [invite |-> FALSE, hosts |-> {}, letters |-> 12, upper |-> 1, long |-> TRUE,
          words |-> {good}]

MCTexts ==
  {Plain,
   [Plain EXCEPT !.invite = TRUE, !.hosts = {evil}, !.words = {bad}],
   [Plain EXCEPT !.upper = 10, !.hosts = {good}]}

MCInit ==
  /\ running \in {"levels", "pipeline"}
  /\ Init /\ Pipeline!Init
  /\ running # "levels" => rewards = [l \in 1..MaxLevel |-> NoRole] /\ cfg.stack
  /\ running # "pipeline" => automod = SpamOnly

MCNext ==
  \/ running = "levels" /\ Next /\ UNCHANGED <<pipeVars, running>>
  \/ running = "pipeline" /\ Pipeline!Next /\ UNCHANGED <<vars, running>>

MCSpec == MCInit /\ [][MCNext]_<<vars, pipeVars, running>>

PipelineSymmetry == MCSymmetry \cup Permutations(Handlers)

\* MessagePipeline!OneWelcomeBack and SpamExact.
OneWelcomeBack == Pipeline!OneWelcomeBack
SpamExact      == Pipeline!SpamExact
=============================================================================
