----------------------------- MODULE MessageLog -----------------------------
(***************************************************************************)
(* The message cache of the modlog package and the three event handlers    *)
(* that use it.  discordgo runs every event in a goroutine of its own      *)
(* (Handlers), so the events of one message may be handled in any order;   *)
(* MessageCache locks one call at a time, and onMessageUpdate makes two.   *)
(*                                                                         *)
(* A message is abstracted to its text and its number of attachments; the  *)
(* texts only matter for being equal or empty.                             *)
(***************************************************************************)
EXTENDS Integers, FiniteSets, SequencesExt

CONSTANTS
  Messages,     \* message IDs of user messages in one guild
  Channels,     \* its channels
  ChannelOf,    \* the channel a message was sent in
  Texts,        \* contents a message may have
  NoText,       \* the empty content, one of Texts
  MaxFiles,     \* bound: attachments of a message
  Handlers,     \* goroutines running the event handlers
  NoMessage,    \* the cache has no entry; a nil *CachedMessage
  Cap,          \* maxPerChannel
  MaxUpdates    \* bound: MESSAGE_UPDATE events

States == [text : Texts, files : 0..MaxFiles]

ASSUME MessageAssumption ==
  /\ ChannelOf \in [Messages -> Channels]
  /\ NoText \in Texts
  /\ NoMessage \notin States
  /\ MaxFiles \in Nat
  /\ Cap \in Nat \ {0}
  /\ MaxUpdates \in Nat

VARIABLES
  byID,       \* MessageCache.byID
  order,      \* MessageCache.order
  sent,       \* what each message was when it was sent
  announced,  \* messages whose MESSAGE_CREATE has been dispatched
  updates,    \* MESSAGE_UPDATE events dispatched so far
  pc,         \* what a handler does next
  event,      \* the message and the state its event carries
  before,     \* what onMessageUpdate found in the cache
  recorded,   \* history: messages ever Put, with the updates' states
  reported    \* history: edits logged, as message and new text

cacheVars   == <<byID, order>>
discordVars == <<sent, announced, updates>>
handlerVars == <<pc, event, before>>
historyVars == <<recorded, reported>>
vars        == <<cacheVars, discordVars, handlerVars, historyVars>>

Events == [msg : Messages, state : States]

TypeOK ==
  /\ byID \in [Messages -> States \cup {NoMessage}]
  /\ order \in [Channels -> Seq(Messages)]
  /\ sent \in [Messages -> States]
  /\ announced \subseteq Messages
  /\ updates \in 0..MaxUpdates
  /\ pc \in [Handlers -> {"idle", "create", "get", "put", "report"}]
  /\ event \in [Handlers -> Events \cup {NoMessage}]
  /\ before \in [Handlers -> States \cup {NoMessage}]
  /\ recorded \subseteq Events
  /\ reported \subseteq Messages \X Texts
  /\ \A h \in Handlers : pc[h] # "idle" => event[h] \in Events

Init ==
  /\ byID = [m \in Messages |-> NoMessage]
  /\ order = [c \in Channels |-> << >>]
  /\ sent \in [Messages -> States]
  /\ announced = {}
  /\ updates = 0
  /\ pc = [h \in Handlers |-> "idle"]
  /\ event = [h \in Handlers |-> NoMessage]
  /\ before = [h \in Handlers |-> NoMessage]
  /\ recorded = {}
  /\ reported = {}

-----------------------------------------------------------------------------
(* MessageCache                                                            *)

\* Wrong variant: the new ID is cut off instead of the oldest one.
PutDroppingNewest(m, state) ==
  LET longer == Append(order[ChannelOf[m]], m)
  IN  /\ byID' = [byID EXCEPT ![m] = state]
      /\ order' = [order EXCEPT ![ChannelOf[m]] =
                     IF Len(longer) > Cap THEN Front(longer) ELSE longer]

\* Put appends the ID even when it is listed already; past the cap it drops
\* the first ID of the channel, whatever was Put under it since.
Put(m, state) ==
  LET longer == Append(order[ChannelOf[m]], m)
      full   == Len(longer) > Cap
  IN  /\ byID' = [x \in Messages |->
                    IF full /\ x = Head(longer) THEN NoMessage
                    ELSE IF x = m THEN state
                    ELSE byID[x]]
      /\ order' = [order EXCEPT ![ChannelOf[m]] = IF full THEN Tail(longer) ELSE longer]

-----------------------------------------------------------------------------
(* Discord dispatches the events of a message                              *)

Dispatch(h, step, m, state) ==
  /\ pc[h] = "idle"
  /\ pc' = [pc EXCEPT ![h] = step]
  /\ event' = [event EXCEPT ![h] = [msg |-> m, state |-> state]]
  /\ UNCHANGED <<cacheVars, before, historyVars>>

DispatchCreate(h) ==
  \E m \in Messages \ announced :
    /\ announced' = announced \cup {m}
    /\ Dispatch(h, "create", m, sent[m])
    /\ UNCHANGED <<sent, updates>>

\* An edit changes the text or removes attachments, and Discord's own
\* updates (a link preview) change neither.  Messages sent before the bot
\* started are updated too.
DispatchUpdate(h) ==
  \E m \in Messages, state \in States :
    /\ state.files <= sent[m].files
    /\ updates < MaxUpdates
    /\ updates' = updates + 1
    /\ Dispatch(h, "get", m, state)
    /\ UNCHANGED <<sent, announced>>

-----------------------------------------------------------------------------
(* onMessageCreate and onMessageUpdate                                     *)

Finish(h) ==
  /\ pc' = [pc EXCEPT ![h] = "idle"]
  /\ event' = [event EXCEPT ![h] = NoMessage]
  /\ before' = [before EXCEPT ![h] = NoMessage]

RecordCreated(h) ==
  /\ pc[h] = "create"
  /\ Put(event[h].msg, event[h].state)
  /\ Finish(h)
  /\ UNCHANGED <<discordVars, historyVars>>

LookUp(h) ==
  /\ pc[h] = "get"
  /\ before' = [before EXCEPT ![h] = byID[event[h].msg]]
  /\ pc' = [pc EXCEPT ![h] = "put"]
  /\ UNCHANGED <<cacheVars, discordVars, event, historyVars>>

\* Wrong variant: attachments are compared, the text is forgotten.
NoOpByFiles(old, new) == old # NoMessage /\ old.files <= new.files

\* A message that is not cached counts as empty and without attachments.
NoOp(old, new) ==
  IF old = NoMessage THEN new.text = NoText
  ELSE old.text = new.text /\ old.files <= new.files

\* Wrong variant: the event is let go of before the edit is reported.
RecordUpdatedReleased(h) ==
  /\ pc[h] = "put"
  /\ Put(event[h].msg, event[h].state)
  /\ recorded' = recorded \cup {event[h]}
  /\ pc' = [pc EXCEPT ![h] = "report"]
  /\ event' = [event EXCEPT ![h] = NoMessage]
  /\ UNCHANGED <<before, discordVars, reported>>

RecordUpdated(h) ==
  /\ pc[h] = "put"
  /\ Put(event[h].msg, event[h].state)
  /\ recorded' = recorded \cup {event[h]}
  /\ \/ /\ NoOp(before[h], event[h].state)
        /\ Finish(h)
     \/ /\ ~NoOp(before[h], event[h].state)
        /\ pc' = [pc EXCEPT ![h] = "report"]
        /\ UNCHANGED <<event, before>>
  /\ UNCHANGED <<discordVars, reported>>

Report(h) ==
  /\ pc[h] = "report"
  /\ reported' = reported \cup {<<event[h].msg, event[h].state.text>>}
  /\ Finish(h)
  /\ UNCHANGED <<cacheVars, discordVars, recorded>>

Next ==
  \E h \in Handlers :
    \/ DispatchCreate(h)
    \/ DispatchUpdate(h)
    \/ RecordCreated(h)
    \/ LookUp(h)
    \/ RecordUpdated(h)
    \/ Report(h)

Spec == Init /\ [][Next]_vars

-----------------------------------------------------------------------------
(* Properties                                                              *)

CachedIn(c) == {m \in Messages : ChannelOf[m] = c /\ byID[m] # NoMessage}

\* The cache cannot leak: what it holds of a channel stays within the cap,
\* however often its messages are edited, because every cached message is
\* still listed in its channel's order and so will be evicted in turn.
CacheBounded ==
  \A c \in Channels :
    /\ Len(order[c]) <= Cap
    /\ CachedIn(c) \subseteq ToSet(order[c])
    /\ Cardinality(CachedIn(c)) <= Cap

\* Wherever Get and Put of concurrent updates interleave, and whatever was
\* evicted in between, a new non-empty text is never taken for a no-op by
\* every update that carries it: one of them logs the edit, or is about to.
EveryEditReported ==
  \A e \in recorded :
    e.state.text \notin {NoText, sent[e.msg].text} =>
      \/ <<e.msg, e.state.text>> \in reported
      \/ \E h \in Handlers : /\ pc[h] = "report"
                             /\ event[h].msg = e.msg
                             /\ event[h].state.text = e.state.text

\* "Put records a message, evicting the oldest in the channel past the cap":
\* as long as no more messages than the cap were recorded in a channel, the
\* last one recorded by an update is still there.
KeptUpToCap ==
  \A c \in Channels :
    Cardinality({m \in Messages : ChannelOf[m] = c}) <= Cap =>
      \A e \in recorded : ChannelOf[e.msg] = c => byID[e.msg] # NoMessage
=============================================================================
