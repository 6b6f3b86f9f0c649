----------------------------- MODULE CacheProofs ------------------------------
(***************************************************************************)
(* Theorems about the three caches: the message log's (MessageLog), the    *)
(* embed colours' (ColorCache) and the dashboard's lists of manageable     *)
(* guilds with its sessions (Dashboard), for any number of messages,       *)
(* handlers, embeds, commands, requests and tokens.                        *)
(***************************************************************************)
EXTENDS MCCaches, QueueLemmas

-----------------------------------------------------------------------------
(* The message log                                                         *)


\* The part of CacheBounded that is inductive: the count follows from it.
OrderInv ==
  \A c \in Channels : /\ Len(order[c]) <= Cap
                      /\ CachedIn(c) \subseteq ToSet(order[c])

\* The texts a message had when it was sent or came with an update.
Seen == [m \in Messages |->
           {text \in Texts : \/ text = sent[m].text
                             \/ \E e \in recorded : e.msg = m /\ e.state.text = text}]

SeenInv ==
  /\ \A m \in Messages : byID[m] # NoMessage => byID[m].text \in Seen[m]
  /\ \A h \in Handlers :
       /\ pc[h] = "create" => event[h].state = sent[event[h].msg]
       /\ pc[h] = "put" /\ before[h] # NoMessage =>
            before[h].text \in Seen[event[h].msg]

IInv == TypeOK /\ OrderInv /\ SeenInv /\ EveryEditReported

-----------------------------------------------------------------------------
(* Put                                                                     *)

\* Put keeps the types and the bound, leaves cached texts alone, and lets in
\* nothing but the message it was given.
LEMMA PutKeeps ==
  ASSUME TypeOK, OrderInv, NEW m \in Messages, NEW state \in States, Put(m, state)
  PROVE  /\ byID' \in [Messages -> States \cup {NoMessage}]
         /\ order' \in [Channels -> Seq(Messages)]
         /\ OrderInv'
         /\ \A x \in Messages : byID'[x] # NoMessage =>
              byID'[x] = IF x = m THEN state ELSE byID[x]
<1> DEFINE ch == ChannelOf[m]
           longer == Append(order[ch], m)
           full == Len(longer) > Cap
           new == IF full THEN Tail(longer) ELSE longer
<1>1. ch \in Channels /\ order[ch] \in Seq(Messages)
  BY MessageAssumption DEF TypeOK
<1>2. /\ longer \in Seq(Messages) /\ Len(longer) = Len(order[ch]) + 1
      /\ longer # << >> /\ ToSet(longer) = ToSet(order[ch]) \cup {m}
  BY <1>1, AppendElements
<1>3. /\ byID' = [x \in Messages |-> IF full /\ x = Head(longer) THEN NoMessage
                                     ELSE IF x = m THEN state ELSE byID[x]]
      /\ order' = [order EXCEPT ![ch] = new]
  BY DEF Put
<1>. HIDE DEF longer
<1>4. /\ Tail(longer) \in Seq(Messages)
      /\ ToSet(longer) = {Head(longer)} \cup ToSet(Tail(longer))
  BY <1>2, TailElements
<1>5. Len(Tail(longer)) = Len(longer) - 1
  BY <1>2, HeadTailProperties
<1>6. /\ new \in Seq(Messages)
      /\ Len(new) <= Cap
      /\ full \/ ToSet(new) = ToSet(longer)
      /\ ToSet(longer) \subseteq {Head(longer)} \cup ToSet(new)
  <2>1. Len(order[ch]) \in Nat /\ Len(order[ch]) <= Cap /\ Cap \in Nat
    BY <1>1, LenProperties, MessageAssumption DEF OrderInv
  <2>2. CASE full  BY <2>1, <2>2, <1>2, <1>4, <1>5
  <2>3. CASE ~full  BY <2>1, <2>3, <1>2, <1>4
  <2>. QED  BY <2>2, <2>3
<1>. HIDE DEF new, full
<1>7. byID' \in [Messages -> States \cup {NoMessage}]
  BY <1>3 DEF TypeOK
<1>8. order' \in [Channels -> Seq(Messages)]
  BY <1>1, <1>3, <1>6 DEF TypeOK
<1>9. OrderInv'
  <2>. SUFFICES ASSUME NEW c \in Channels
                PROVE  /\ Len(order'[c]) <= Cap
                       /\ \A x \in Messages : ChannelOf[x] = c /\ byID'[x] # NoMessage =>
                            x \in ToSet(order'[c])
    BY DEF OrderInv, CachedIn
  <2>1. /\ Len(order[c]) <= Cap
        /\ \A x \in Messages : ChannelOf[x] = c /\ byID[x] # NoMessage =>
             x \in ToSet(order[c])
    BY DEF OrderInv, CachedIn
  <2>2. CASE c = ch
    <3>1. order'[c] = new  BY <2>2, <1>1, <1>3 DEF TypeOK
    <3>2. ASSUME NEW x \in Messages, ChannelOf[x] = c, byID'[x] # NoMessage
          PROVE  x \in ToSet(new)
      <4>1. ~(full /\ x = Head(longer))  BY <3>2, <1>3
      <4>2. x = m \/ byID[x] # NoMessage  BY <3>2, <1>3
      <4>3. x \in ToSet(longer)  BY <4>2, <3>2, <2>1, <2>2, <1>2
      <4>. QED  BY <4>1, <4>3, <1>6
    <3>. QED  BY <3>1, <3>2, <1>6
  <2>3. CASE c # ch
    <3>1. order'[c] = order[c]  BY <2>3, <1>3 DEF TypeOK
    <3>2. \A x \in Messages : ChannelOf[x] = c /\ byID'[x] # NoMessage => byID[x] # NoMessage
      BY <2>3, <1>3
    <3>. QED  BY <3>1, <3>2, <2>1
  <2>. QED  BY <2>2, <2>3
<1>10. \A x \in Messages : byID'[x] # NoMessage =>
         byID'[x] = IF x = m THEN state ELSE byID[x]
  BY <1>3
<1>. QED  BY <1>7, <1>8, <1>9, <1>10

-----------------------------------------------------------------------------
(* The invariant is inductive                                              *)

\* What counts as accounted for depends on these variables only.
LEMMA SeenStable ==
  ASSUME UNCHANGED <<sent, recorded>>
  PROVE  Seen' = Seen
BY DEF Seen

\* The text a message was sent with is accounted for.
LEMMA SentSeen ==
  ASSUME TypeOK, NEW m \in Messages
  PROVE  sent[m].text \in Seen[m]
BY DEF Seen, TypeOK, States

\* An event that Discord dispatches disturbs nothing that is cached or logged.
LEMMA DispatchSafe ==
  ASSUME IInv, NEW h \in Handlers, DispatchCreate(h) \/ DispatchUpdate(h)
  PROVE  IInv'
<1>1. PICK m \in Messages, state \in States, step \in {"create", "get"} :
        /\ Dispatch(h, step, m, state)
        /\ step = "create" => state = sent[m]
  BY DEF DispatchCreate, DispatchUpdate, IInv, TypeOK
<1>2. /\ announced' \subseteq Messages /\ updates' \in 0..MaxUpdates
      /\ UNCHANGED sent
  BY MessageAssumption DEF DispatchCreate, DispatchUpdate, IInv, TypeOK
<1>3. /\ pc[h] = "idle"
      /\ pc' = [pc EXCEPT ![h] = step]
      /\ event' = [event EXCEPT ![h] = [msg |-> m, state |-> state]]
      /\ UNCHANGED <<byID, order, before, recorded, reported>>
  BY <1>1 DEF Dispatch, cacheVars, historyVars
<1>4. TypeOK'
  BY <1>2, <1>3 DEF IInv, TypeOK, Events
<1>5. OrderInv'
  BY <1>3 DEF IInv, OrderInv, CachedIn
<1>6. SeenInv'
  <2>1. Seen' = Seen  BY <1>2, <1>3, SeenStable
  <2>2. ASSUME NEW g \in Handlers
        PROVE  /\ pc'[g] = "create" => event'[g].state = sent'[event'[g].msg]
               /\ pc'[g] = "put" /\ before'[g] # NoMessage =>
                    before'[g].text \in Seen[event'[g].msg]
    <3>1. CASE g = h  BY <3>1, <1>1, <1>2, <1>3 DEF IInv, TypeOK
    <3>2. CASE g # h  BY <3>2, <1>2, <1>3 DEF IInv, TypeOK, SeenInv
    <3>. QED  BY <3>1, <3>2
  <2>. QED  BY <2>1, <2>2, <1>3 DEF IInv, SeenInv
<1>7. EveryEditReported'
  BY <1>2, <1>3 DEF IInv, TypeOK, EveryEditReported
<1>. QED  BY <1>4, <1>5, <1>6, <1>7 DEF IInv

\* Recording a created message keeps the cache listed, bounded and accounted for.
LEMMA RecordCreatedSafe ==
  ASSUME IInv, NEW h \in Handlers, RecordCreated(h)
  PROVE  IInv'
<1>1. /\ pc[h] = "create" /\ event[h].msg \in Messages /\ event[h].state \in States
      /\ event[h].state = sent[event[h].msg]
      /\ Put(event[h].msg, event[h].state)
  BY DEF RecordCreated, IInv, TypeOK, SeenInv, Events
<1>2. /\ byID' \in [Messages -> States \cup {NoMessage}]
      /\ order' \in [Channels -> Seq(Messages)]
      /\ OrderInv'
      /\ \A x \in Messages : byID'[x] # NoMessage =>
           byID'[x] = IF x = event[h].msg THEN event[h].state ELSE byID[x]
  BY <1>1, PutKeeps DEF IInv
<1>3. /\ pc' = [pc EXCEPT ![h] = "idle"]
      /\ event' = [event EXCEPT ![h] = NoMessage]
      /\ before' = [before EXCEPT ![h] = NoMessage]
      /\ UNCHANGED <<sent, announced, updates, recorded, reported>>
  BY DEF RecordCreated, Finish, discordVars, historyVars
<1>4. TypeOK'
  BY <1>2, <1>3 DEF IInv, TypeOK
<1>5. SeenInv'
  <2>1. Seen' = Seen  BY <1>3, SeenStable
  <2>2. sent[event[h].msg].text \in Seen[event[h].msg]  BY <1>1, SentSeen DEF IInv
  <2>3. \A x \in Messages : byID'[x] # NoMessage => byID'[x].text \in Seen[x]
    BY <1>1, <1>2, <2>2 DEF IInv, SeenInv
  <2>. QED  BY <1>3, <2>1, <2>3 DEF IInv, TypeOK, SeenInv
<1>6. EveryEditReported'
  BY <1>1, <1>3 DEF IInv, TypeOK, EveryEditReported
<1>. QED  BY <1>2, <1>4, <1>5, <1>6 DEF IInv

\* What an update finds in the cache was accounted for, and stays so.
LEMMA LookUpSafe ==
  ASSUME IInv, NEW h \in Handlers, LookUp(h)
  PROVE  IInv'
<1>1. /\ pc[h] = "get" /\ event[h].msg \in Messages
      /\ pc' = [pc EXCEPT ![h] = "put"]
      /\ before' = [before EXCEPT ![h] = byID[event[h].msg]]
      /\ UNCHANGED <<byID, order, sent, announced, updates, event, recorded, reported>>
  BY DEF LookUp, cacheVars, discordVars, historyVars, IInv, TypeOK, Events
<1>2. TypeOK'
  BY <1>1 DEF IInv, TypeOK
<1>3. OrderInv'
  BY <1>1 DEF IInv, OrderInv, CachedIn
<1>4. SeenInv'
  <2>1. Seen' = Seen  BY <1>1, SeenStable
  <2>. QED  BY <1>1, <2>1 DEF IInv, TypeOK, SeenInv
<1>5. EveryEditReported'
  BY <1>1 DEF IInv, TypeOK, EveryEditReported
<1>. QED  BY <1>2, <1>3, <1>4, <1>5 DEF IInv

\* A logged edit takes the place of the handler that was about to log it.
LEMMA ReportSafe ==
  ASSUME IInv, NEW h \in Handlers, Report(h)
  PROVE  IInv'
<1>1. /\ pc[h] = "report" /\ event[h] \in Events
      /\ reported' = reported \cup {<<event[h].msg, event[h].state.text>>}
      /\ pc' = [pc EXCEPT ![h] = "idle"]
      /\ event' = [event EXCEPT ![h] = NoMessage]
      /\ before' = [before EXCEPT ![h] = NoMessage]
      /\ UNCHANGED <<byID, order, sent, announced, updates, recorded>>
  BY DEF Report, Finish, cacheVars, discordVars, IInv, TypeOK
<1>2. event[h].msg \in Messages /\ event[h].state.text \in Texts
  BY <1>1 DEF Events, States
<1>3. TypeOK'
  BY <1>1, <1>2 DEF IInv, TypeOK
<1>4. OrderInv'
  BY <1>1 DEF IInv, OrderInv, CachedIn
<1>5. SeenInv'
  <2>1. Seen' = Seen  BY <1>1, SeenStable
  <2>. QED  BY <1>1, <2>1 DEF IInv, TypeOK, SeenInv
<1>6. EveryEditReported'
  BY <1>1 DEF IInv, TypeOK, EveryEditReported
<1>. QED  BY <1>3, <1>4, <1>5, <1>6 DEF IInv

\* The argument of the module: an update that is taken for a no-op carries a
\* text that was in the cache, and such a text is already accounted for.
LEMMA RecordUpdatedSafe ==
  ASSUME IInv, NEW h \in Handlers, RecordUpdated(h)
  PROVE  IInv'
<1> DEFINE m == event[h].msg
           s == event[h].state
<1>1. /\ pc[h] = "put" /\ event[h] \in Events /\ m \in Messages /\ s \in States
      /\ Put(m, s)
      /\ recorded' = recorded \cup {event[h]}
      /\ UNCHANGED <<sent, announced, updates, reported>>
  BY DEF RecordUpdated, discordVars, IInv, TypeOK, Events
<1>2. /\ byID' \in [Messages -> States \cup {NoMessage}]
      /\ order' \in [Channels -> Seq(Messages)]
      /\ OrderInv'
      /\ \A x \in Messages : byID'[x] # NoMessage =>
           byID'[x] = IF x = m THEN s ELSE byID[x]
  BY <1>1, PutKeeps DEF IInv
<1>3. \/ /\ NoOp(before[h], s)
         /\ pc' = [pc EXCEPT ![h] = "idle"]
         /\ event' = [event EXCEPT ![h] = NoMessage]
         /\ before' = [before EXCEPT ![h] = NoMessage]
      \/ /\ pc' = [pc EXCEPT ![h] = "report"]
         /\ UNCHANGED <<event, before>>
  BY DEF RecordUpdated, Finish
<1>4. TypeOK'
  <2>1. recorded' \subseteq Events  BY <1>1 DEF IInv, TypeOK
  <2>. QED  BY <1>1, <1>2, <1>3, <2>1 DEF IInv, TypeOK
<1>5. \A x \in Messages : Seen[x] \subseteq Seen'[x]
  BY <1>1 DEF Seen
<1>6. s.text \in Seen'[m]
  BY <1>1 DEF Seen, States
<1>7. SeenInv'
  <2>1. ASSUME NEW x \in Messages, byID'[x] # NoMessage
        PROVE  byID'[x].text \in Seen'[x]
    <3>1. CASE x = m  BY <3>1, <2>1, <1>2, <1>6
    <3>2. CASE x # m
      <4>1. byID'[x] = byID[x]  BY <3>2, <2>1, <1>2
      <4>2. byID[x].text \in Seen[x]  BY <2>1, <4>1 DEF IInv, SeenInv
      <4>. QED  BY <4>1, <4>2, <1>5
    <3>. QED  BY <3>1, <3>2
  <2>2. ASSUME NEW g \in Handlers
        PROVE  /\ pc'[g] = "create" => event'[g].state = sent'[event'[g].msg]
               /\ pc'[g] = "put" /\ before'[g] # NoMessage =>
                    before'[g].text \in Seen'[event'[g].msg]
    <3>1. CASE g = h  BY <3>1, <1>3 DEF IInv, TypeOK
    <3>2. CASE g # h
      <4>1. pc'[g] = pc[g] /\ event'[g] = event[g] /\ before'[g] = before[g]
        BY <3>2, <1>3 DEF IInv, TypeOK
      <4>2. event[g] \in Events \/ pc[g] = "idle"  BY DEF IInv, TypeOK
      <4>. QED  BY <4>1, <4>2, <1>1, <1>5 DEF IInv, SeenInv, Events
    <3>. QED  BY <3>1, <3>2
  <2>. QED  BY <2>1, <2>2 DEF SeenInv
<1>8. EveryEditReported'
  <2>. SUFFICES ASSUME NEW e \in recorded', e.state.text \notin {NoText, sent[e.msg].text}
                PROVE  \/ <<e.msg, e.state.text>> \in reported
                       \/ \E g \in Handlers : /\ pc'[g] = "report"
                                              /\ event'[g].msg = e.msg
                                              /\ event'[g].state.text = e.state.text
    BY <1>1 DEF EveryEditReported
  <2>1. ASSUME NEW f \in recorded, f.msg = e.msg, f.state.text = e.state.text
        PROVE  \/ <<e.msg, e.state.text>> \in reported
               \/ \E g \in Handlers : /\ pc[g] = "report"
                                      /\ event[g].msg = e.msg
                                      /\ event[g].state.text = e.state.text
    BY <2>1 DEF IInv, EveryEditReported
  <2>2. \A g \in Handlers : pc[g] = "report" =>
          g # h /\ pc'[g] = pc[g] /\ event'[g] = event[g]
    BY <1>1, <1>3 DEF IInv, TypeOK
  <2>3. CASE \E f \in recorded : f.msg = e.msg /\ f.state.text = e.state.text
    BY <2>1, <2>2, <2>3
  <2>4. CASE ~ \E f \in recorded : f.msg = e.msg /\ f.state.text = e.state.text
    <3>1. e = event[h]  BY <2>4, <1>1
    <3>2. s.text \notin Seen[m]
      <4>1. s.text # sent[m].text  BY <3>1
      <4>2. ~ \E f \in recorded : f.msg = m /\ f.state.text = s.text  BY <2>4, <3>1
      <4>. QED  BY <4>1, <4>2, <1>1 DEF Seen
    <3>3. ~NoOp(before[h], s)
      <4>1. before[h] # NoMessage => before[h].text \in Seen[m]
        BY <1>1 DEF IInv, SeenInv
      <4>2. s.text # NoText  BY <3>1
      <4>. QED  BY <4>1, <4>2, <3>2 DEF NoOp
    <3>4. pc' = [pc EXCEPT ![h] = "report"] /\ UNCHANGED event
      BY <3>3, <1>3
    <3>. QED  BY <3>1, <3>4 DEF IInv, TypeOK
  <2>. QED  BY <2>3, <2>4
<1>. QED  BY <1>2, <1>4, <1>7, <1>8 DEF IInv

\* The invariant holds at the start.
LEMMA InitIInv == Init => IInv
<1>. SUFFICES ASSUME Init PROVE IInv
  OBVIOUS
<1>1. Len(<< >>) = 0 /\ << >> \in Seq(Messages)  BY EmptySeq
<1>2. TypeOK  BY <1>1, MessageAssumption DEF Init, TypeOK
<1>3. OrderInv  BY <1>1, MessageAssumption DEF Init, OrderInv, CachedIn
<1>. QED  BY <1>2, <1>3 DEF Init, IInv, SeenInv, EveryEditReported

\* Every step of a handler keeps the invariant.
LEMMA NextIInv == IInv /\ [Next]_vars => IInv'
<1>. SUFFICES ASSUME IInv, [Next]_vars PROVE IInv'
  OBVIOUS
<1>1. CASE UNCHANGED vars
  <2>1. UNCHANGED <<byID, order, sent, announced, updates, pc, event, before, recorded, reported>>
    BY <1>1 DEF vars, cacheVars, discordVars, handlerVars, historyVars
  <2>2. Seen' = Seen  BY <2>1, SeenStable
  <2>3. TypeOK' /\ OrderInv'
    BY <2>1 DEF IInv, TypeOK, OrderInv, CachedIn
  <2>4. SeenInv' /\ EveryEditReported'
    BY <2>1, <2>2 DEF IInv, SeenInv, EveryEditReported
  <2>. QED  BY <2>3, <2>4 DEF IInv
<1>2. CASE Next
  BY <1>2, DispatchSafe, RecordCreatedSafe, LookUpSafe, RecordUpdatedSafe, ReportSafe
     DEF Next
<1>. QED  BY <1>1, <1>2

\* The invariant holds in every reachable state, for any number of handlers.
THEOREM Inductive == Spec => []IInv
<1>. QED  BY InitIInv, NextIInv, PTL DEF Spec

\* Handlers and the cache stay typed: a handler under way still has its event.
THEOREM TypeCorrect == Spec => []TypeOK
<1>1. IInv => TypeOK  BY DEF IInv
<1>. QED  BY <1>1, Inductive, PTL

\* The cache never holds more than the cap of any channel.
THEOREM CacheStaysBounded == Spec => []CacheBounded
<1>1. IInv => CacheBounded
  <2>. SUFFICES ASSUME IInv, NEW c \in Channels
                PROVE  /\ Len(order[c]) <= Cap
                       /\ CachedIn(c) \subseteq ToSet(order[c])
                       /\ Cardinality(CachedIn(c)) <= Cap
    BY DEF CacheBounded
  <2>1. /\ order[c] \in Seq(Messages) /\ Len(order[c]) <= Cap
        /\ CachedIn(c) \subseteq ToSet(order[c])
    BY DEF IInv, TypeOK, OrderInv
  <2>2. IsFiniteSet(ToSet(order[c])) /\ Cardinality(ToSet(order[c])) <= Len(order[c])
    BY <2>1, ElementsBounded
  <2>3. /\ IsFiniteSet(CachedIn(c))
        /\ Cardinality(CachedIn(c)) <= Cardinality(ToSet(order[c]))
    BY <2>1, <2>2, FS_Subset
  <2>4. /\ Cardinality(CachedIn(c)) \in Nat /\ Cardinality(ToSet(order[c])) \in Nat
        /\ Len(order[c]) \in Nat /\ Cap \in Nat
    BY <2>1, <2>2, <2>3, FS_CardinalityType, LenProperties, MessageAssumption
  <2>. QED  BY <2>1, <2>2, <2>3, <2>4
<1>. QED  BY <1>1, Inductive, PTL

\* No interleaving of updates and evictions swallows an edit.
THEOREM NoEditSwallowed == Spec => []EveryEditReported
<1>1. IInv => EveryEditReported  BY DEF IInv
<1>. QED  BY <1>1, Inductive, PTL

-----------------------------------------------------------------------------
(* The embed colours                                                       *)

ColorTypeOK ==
  /\ color \in Colors
  /\ cached \in Colors \cup {NoColor}
  /\ builder \in [Builders -> Colors \cup {NoColor, "read"}]
  /\ setter \in [Setters -> {"idle", "save", "invalidate"}]
  /\ stale \in BOOLEAN

\* Between the query that saves a colour and the Invalidate that follows, the
\* cache may hold the old one: the command that is there is still to clear it.
Settled == ~stale /\ \A s \in Setters : setter[s] # "invalidate"

\* Then what is cached, and what is about to be, is the guild's colour.
Coherent ==
  Settled => /\ cached \in {NoColor, color}
             /\ \A w \in Builders : builder[w] \in {NoColor, "read", color}

ColorInv == ColorTypeOK /\ Coherent

\* The colours' invariant holds at the start.
LEMMA ColorInit == Colour!Init => ColorInv
BY DEF Colour!Init, ColorInv, ColorTypeOK, Coherent

\* Every step of the colour cache keeps its invariant.
LEMMA ColorStep == ColorInv /\ [Colour!Next]_Colour!colorVars => ColorInv'
<1> SUFFICES ASSUME ColorInv, [Colour!Next]_Colour!colorVars PROVE ColorInv'
  OBVIOUS
<1> USE ColorAssumption DEF ColorInv, ColorTypeOK
<1>1. CASE UNCHANGED Colour!colorVars
  BY <1>1 DEF Colour!colorVars, Coherent, Settled
<1>2. ASSUME NEW w \in Builders, Colour!Lookup(w) PROVE ColorInv'
  BY <1>2 DEF Colour!Lookup, Coherent, Settled
<1>3. ASSUME NEW w \in Builders, Colour!Read(w) PROVE ColorInv'
  BY <1>3 DEF Colour!Read, Colour!Fault, Coherent, Settled
<1>4. ASSUME NEW w \in Builders, Colour!Store(w) PROVE ColorInv'
  BY <1>4 DEF Colour!Store, Coherent, Settled
<1>5. ASSUME NEW s \in Setters, Colour!setupColor(s) PROVE ColorInv'
  <2>1. Settled' => Settled
    BY <1>5 DEF Colour!setupColor, Settled
  <2> QED
    BY <1>5, <2>1 DEF Colour!setupColor, Coherent
<1>6. ASSUME NEW s \in Setters, Colour!Save(s) PROVE ColorInv'
  <2>1. CASE setter' = [setter EXCEPT ![s] = "invalidate"]
    <3>1. ~Settled'
      BY <2>1 DEF Settled
    <3> QED
      BY <1>6, <2>1, <3>1 DEF Colour!Save, Coherent
  <2>2. CASE Colour!Fault /\ setter' = [setter EXCEPT ![s] = "idle"] /\ UNCHANGED color
    <3>1. Settled' => Settled
      BY <1>6, <2>2 DEF Colour!Save, Settled
    <3> QED
      BY <1>6, <2>2, <3>1 DEF Colour!Save, Coherent
  <2> QED
    BY <1>6, <2>1, <2>2 DEF Colour!Save
<1>7. ASSUME NEW s \in Setters, Colour!Invalidate(s) PROVE ColorInv'
  \* A builder that had read before would make the cache stale.
  <2>1. Settled' => \A w \in Builders : builder[w] \in {NoColor, "read"}
    BY <1>7 DEF Colour!Invalidate, Settled
  <2> QED
    BY <1>7, <2>1 DEF Colour!Invalidate, Colour!Cleared, Coherent
<1>8. CASE Colour!Rejoin
  BY <1>8 DEF Colour!Rejoin, Colour!Fault, Coherent, Settled
<1> QED
  BY <1>1, <1>2, <1>3, <1>4, <1>5, <1>6, <1>7, <1>8 DEF Colour!Next

\* Whatever the interleaving of embeds and /setup color commands, a colour read
\* before a command's Invalidate and cached after it is the only way for an
\* embed to show an old colour once the commands are done, as long as queries
\* succeed and the guild keeps its row (colorProvider.guildColor, Invalidate).
THEOREM ColorStaysFresh == Colour!Spec => []ColorFresh
<1>1. ColorInv => ColorFresh
  BY DEF ColorInv, ColorTypeOK, Coherent, Settled, ColorFresh, Colour!ColorFresh
<1> QED
  BY ColorInit, ColorStep, <1>1, PTL DEF Colour!Spec

-----------------------------------------------------------------------------
(* The dashboard's sessions and lists                                      *)

Lists == [has : BOOLEAN, until : Nat]
DashSteps == {"idle", "session", "member", "list", "fetch", "store", "answer", "serve", "forget"}
DashJobs  == [step : DashSteps, token : Tokens \cup {"none"},
              page : {"none", "admin", "player", "control", "home"}, from : Nat, has : BOOLEAN, age : Int]

DashTyped ==
  /\ clock \in Nat /\ lastManaged \in Nat /\ manages \in BOOLEAN
  /\ session \in [Tokens -> Int]
  /\ listed \in [Tokens -> Lists \cup {NoList}]
  /\ request \in [Requests -> DashJobs]
  /\ \A r \in Requests : request[r].step # "idle" => request[r].token \in Tokens

\* Once its row is deleted a token gets no further than the session check, so
\* after a logout only a request that had passed it, with a lookup ahead, can
\* fill the cache again.
SessionGone ==
  /\ \A r \in Requests :
       request[r].step = "forget" /\ request[r].token \notin late =>
         session[request[r].token] = Dash!Deleted
  /\ \A k \in closed \ late :
       /\ k \in Tokens /\ session[k] = Dash!Deleted /\ listed[k] = NoList
       /\ \A r \in Requests : Dash!LookupAhead(r) => request[r].token # k

\* A list that has the guild was fetched while the user had the permission, and
\* a fetch ends by its deadline.
ListsRecent ==
  /\ lastManaged <= clock /\ (manages => lastManaged = clock)
  /\ \A r \in Requests :
       /\ request[r].step \in {"fetch", "store"} =>
            request[r].from <= clock /\ clock <= request[r].from + FetchTime
       /\ request[r].step = "store" /\ request[r].has => request[r].from <= lastManaged
       /\ request[r].step = "answer" /\ request[r].has => request[r].age < CacheLife + FetchTime
  /\ \A k \in Tokens :
       listed[k] # NoList /\ listed[k].has =>
         listed[k].until <= lastManaged + CacheLife + FetchTime

DashInv == DashTyped /\ SessionGone /\ ListsRecent

\* The dashboard's invariant holds at the start.
LEMMA DashInit == Dash!Init => DashInv
BY DashboardAssumption
   DEF Dash!Init, DashInv, DashTyped, SessionGone, ListsRecent, DashJobs, DashSteps, Lists,
       Dash!Refused, Dash!Job, Dash!Hold, Dash!Unissued

\* A request that goes on, or ends, leaves the others as they are.
LEMMA DashMoves ==
  ASSUME DashTyped, NEW r \in Requests, NEW j \in DashJobs, j.step # "idle" => j.token \in Tokens,
         request' = [request EXCEPT ![r] = j]
  PROVE  /\ request' \in [Requests -> DashJobs]
         /\ request'[r] = j
         /\ \A x \in Requests \ {r} : request'[x] = request[x]
         /\ \A x \in Requests : request'[x].step # "idle" => request'[x].token \in Tokens
BY DEF DashTyped

\* What goes on keeps its token and its page.
LEMMA DashHolds ==
  ASSUME DashTyped, NEW r \in Requests, NEW step \in DashSteps, NEW from \in Nat,
         NEW has \in BOOLEAN, NEW age \in Int, request[r].step # "idle",
         Dash!Hold(r, step, from, has, age)
  PROVE  /\ request' \in [Requests -> DashJobs]
         /\ request'[r].step = step /\ request'[r].token = request[r].token
         /\ request'[r].page = request[r].page
         /\ request'[r].from = from /\ request'[r].has = has /\ request'[r].age = age
         /\ \A x \in Requests \ {r} : request'[x] = request[x]
         /\ \A x \in Requests : request'[x].step # "idle" => request'[x].token \in Tokens
<1> DEFINE j == Dash!Job(step, request[r].token, request[r].page, from, has, age)
<1>1. request[r] \in DashJobs /\ request[r].token \in Tokens
  BY DEF DashTyped
<1>2. j \in DashJobs /\ j.token \in Tokens
  BY <1>1 DEF DashJobs, Dash!Job
<1>3. request' = [request EXCEPT ![r] = j]
  BY DEF Dash!Hold
<1>4. /\ j.step = step /\ j.token = request[r].token /\ j.page = request[r].page
      /\ j.from = from /\ j.has = has /\ j.age = age
  BY DEF Dash!Job
<1> HIDE DEF j
<1> QED
  BY <1>2, <1>3, <1>4, DashMoves

\* The same for a step that keeps the rest of what the request holds.
LEMMA DashGoes ==
  ASSUME DashTyped, NEW r \in Requests, NEW step \in DashSteps, request[r].step # "idle",
         Dash!Goto(r, step)
  PROVE  /\ request' \in [Requests -> DashJobs]
         /\ request'[r].step = step /\ request'[r].token = request[r].token
         /\ request'[r].page = request[r].page
         /\ request'[r].from = request[r].from /\ request'[r].has = request[r].has
         /\ request'[r].age = request[r].age
         /\ \A x \in Requests \ {r} : request'[x] = request[x]
         /\ \A x \in Requests : request'[x].step # "idle" => request'[x].token \in Tokens
<1>1. request[r].from \in Nat /\ request[r].has \in BOOLEAN /\ request[r].age \in Int
  BY DEF DashTyped, DashJobs
<1>2. Dash!Hold(r, step, request[r].from, request[r].has, request[r].age)
  BY DEF Dash!Goto
<1> QED
  BY <1>1, <1>2, DashHolds

\* A request that returns holds nothing any more.
LEMMA DashReturns ==
  ASSUME DashTyped, NEW r \in Requests, Dash!Return(r)
  PROVE  /\ request' \in [Requests -> DashJobs]
         /\ request'[r].step = "idle"
         /\ \A x \in Requests \ {r} : request'[x] = request[x]
         /\ \A x \in Requests : request'[x].step # "idle" => request'[x].token \in Tokens
<1>1. Dash!Refused \in DashJobs /\ Dash!Refused.step = "idle"
  BY DEF Dash!Refused, Dash!Job, DashJobs, DashSteps
<1> QED
  BY <1>1, DashMoves DEF Dash!Return

\* One that starts has the token it came with.
LEMMA DashStarts ==
  ASSUME DashTyped, NEW r \in Requests, NEW step \in DashSteps, NEW k \in Tokens,
         NEW page \in {"none", "admin", "player", "control", "home"},
         Dash!Start(r, Dash!Job(step, k, page, 0, FALSE, 0))
  PROVE  /\ request' \in [Requests -> DashJobs]
         /\ request'[r].step = step /\ request'[r].token = k
         /\ \A x \in Requests \ {r} : request'[x] = request[x]
         /\ \A x \in Requests : request'[x].step # "idle" => request'[x].token \in Tokens
<1> DEFINE j == Dash!Job(step, k, page, 0, FALSE, 0)
<1>1. j \in DashJobs /\ j.token = k /\ j.step = step
  BY DEF Dash!Job, DashJobs
<1>2. request' = [request EXCEPT ![r] = j]
  BY DEF Dash!Start
<1> HIDE DEF j
<1> QED
  BY <1>1, <1>2, DashMoves

\* Every step of the dashboard keeps its invariant.
LEMMA DashStep == DashInv /\ [Dash!Next]_Dash!dashVars => DashInv'
<1> SUFFICES ASSUME DashInv, [Dash!Next]_Dash!dashVars PROVE DashInv'
  OBVIOUS
<1> USE DashboardAssumption
    DEF DashInv, DashSteps, Dash!At, Dash!userVars, Dash!LookupAhead, Dash!MusicPages
<1>1. CASE UNCHANGED Dash!dashVars
  BY <1>1 DEF Dash!dashVars, DashTyped, SessionGone, ListsRecent
<1>2. CASE Dash!Tick
  <2>1. DashTyped' /\ SessionGone'
    BY <1>2 DEF Dash!Tick, DashTyped, SessionGone
  <2>2. ListsRecent'
    BY <1>2 DEF Dash!Tick, DashTyped, DashJobs, Lists, ListsRecent
  <2> QED
    BY <2>1, <2>2
<1>3. CASE Dash!ChangeGuild
  <2>1. DashTyped' /\ SessionGone'
    BY <1>3 DEF Dash!ChangeGuild, DashTyped, SessionGone
  <2>2. ListsRecent'
    BY <1>3 DEF Dash!ChangeGuild, DashTyped, DashJobs, Lists, ListsRecent
  <2> QED
    BY <2>1, <2>2
<1>4. ASSUME NEW r \in Requests, Dash!Login(r) PROVE DashInv'
  <2>1. PICK k \in Tokens :
          session[k] = Dash!Unissued /\ session' = [session EXCEPT ![k] = clock + SessionLife]
    BY <1>4 DEF Dash!Login
  <2>2. DashTyped' /\ ListsRecent'
    BY <1>4, <2>1 DEF Dash!Login, DashTyped, ListsRecent
  <2>3. SessionGone'
    BY <1>4, <2>1 DEF Dash!Login, DashTyped, SessionGone, Dash!Unissued, Dash!Deleted
  <2> QED
    BY <2>2, <2>3
<1>5. ASSUME NEW r \in Requests, Dash!Open(r) PROVE DashInv'
  <2>1. PICK k \in Tokens, p \in {"admin", "player", "control", "home"} :
          Dash!Start(r, Dash!Job("session", k, p, 0, FALSE, 0))
    BY <1>5 DEF Dash!Open
  <2>2. UNCHANGED <<clock, manages, session, listed, lastManaged, closed, late>>
    BY <1>5 DEF Dash!Open
  <2>3. /\ request' \in [Requests -> DashJobs]
        /\ request'[r].step = "session"
        /\ \A x \in Requests \ {r} : request'[x] = request[x]
        /\ \A x \in Requests : request'[x].step # "idle" => request'[x].token \in Tokens
    BY <2>1, DashStarts
  <2> QED
    BY <2>2, <2>3 DEF DashTyped, SessionGone, ListsRecent
<1>6. ASSUME NEW r \in Requests, Dash!requireSession(r) PROVE DashInv'
  <2>1. UNCHANGED <<clock, manages, session, listed, lastManaged, closed, late>>
    BY <1>6 DEF Dash!requireSession
  <2>2. CASE Dash!Return(r)
    BY <2>1, <2>2, DashReturns DEF DashTyped, SessionGone, ListsRecent
  <2>3. CASE /\ session[request[r].token] > clock
             /\ Dash!Goto(r, "member") \/ Dash!Goto(r, "list")
    <3>1. request[r].step = "session"
      BY <1>6 DEF Dash!requireSession
    <3>2. request[r].token \notin closed \ late
      BY <2>3 DEF SessionGone, DashTyped, Dash!Deleted
    <3> QED
      BY <2>1, <2>3, <3>1, <3>2, DashGoes DEF DashTyped, SessionGone, ListsRecent
  <2> QED
    BY <1>6, <2>2, <2>3 DEF Dash!requireSession, DashTyped
<1>7. ASSUME NEW r \in Requests, Dash!requireGuildMember(r) PROVE DashInv'
  <2>1. /\ UNCHANGED <<clock, manages, session, listed, lastManaged, closed, late>>
        /\ request[r].step = "member"
        /\ Dash!Return(r) \/ Dash!Goto(r, "list")
    BY <1>7 DEF Dash!requireGuildMember
  <2>2. CASE Dash!Return(r)
    BY <2>1, <2>2, DashReturns DEF DashTyped, SessionGone, ListsRecent
  <2>3. CASE Dash!Goto(r, "list")
    BY <2>1, <2>3, DashGoes DEF DashTyped, SessionGone, ListsRecent
  <2> QED
    BY <2>1, <2>2, <2>3
<1>8. ASSUME NEW r \in Requests, Dash!lookupGuilds(r) PROVE DashInv'
  <2> DEFINE k == request[r].token
  <2>1. /\ UNCHANGED <<clock, manages, session, listed, lastManaged, closed, late>>
        /\ request[r].step = "list" /\ k \in Tokens
    BY <1>8 DEF Dash!lookupGuilds, DashTyped, Dash!Hit
  <2>2. CASE /\ listed[k] # NoList /\ clock < listed[k].until
             /\ Dash!Hold(r, "answer", request[r].from, listed[k].has, Dash!Age)
    <3>1. listed[k] \in Lists /\ request[r].from \in Nat
      BY <2>1, <2>2 DEF DashTyped, DashJobs
    <3>2. listed[k].has \in BOOLEAN /\ listed[k].until \in Nat /\ Dash!Age \in Int
      BY <3>1 DEF Lists, DashTyped, Dash!Age
    <3>3. listed[k].has => Dash!Age < CacheLife + FetchTime
      BY <2>1, <2>2, <3>2 DEF ListsRecent, DashTyped, Dash!Age
    <3>4. /\ request' \in [Requests -> DashJobs]
          /\ request'[r].step = "answer" /\ request'[r].token = k
          /\ request'[r].from = request[r].from /\ request'[r].has = listed[k].has /\ request'[r].age = Dash!Age
          /\ \A x \in Requests \ {r} : request'[x] = request[x]
          /\ \A x \in Requests : request'[x].step # "idle" => request'[x].token \in Tokens
      BY <2>1, <2>2, <3>1, <3>2, DashHolds
    <3>5. DashTyped'
      BY <2>1, <3>4 DEF DashTyped
    <3>6. SessionGone'
      BY <2>1, <3>4 DEF SessionGone
    <3>7. ListsRecent'
      BY <2>1, <3>3, <3>4 DEF ListsRecent
    <3> QED
      BY <3>5, <3>6, <3>7
  <2>3. CASE Dash!Hold(r, "fetch", clock, FALSE, 0)
    <3>1. clock \in Nat /\ FALSE \in BOOLEAN /\ 0 \in Int
      BY DEF DashTyped
    <3>2. /\ request' \in [Requests -> DashJobs]
          /\ request'[r].step = "fetch" /\ request'[r].token = k
          /\ request'[r].from = clock
          /\ \A x \in Requests \ {r} : request'[x] = request[x]
          /\ \A x \in Requests : request'[x].step # "idle" => request'[x].token \in Tokens
      BY <2>1, <2>3, <3>1, DashHolds
    <3>3. DashTyped'
      BY <2>1, <3>2 DEF DashTyped
    <3>4. SessionGone'
      BY <2>1, <3>2 DEF SessionGone
    <3>5. ListsRecent'
      BY <2>1, <3>1, <3>2 DEF ListsRecent
    <3> QED
      BY <3>3, <3>4, <3>5
  <2> QED
    BY <1>8, <2>2, <2>3 DEF Dash!lookupGuilds
<1>9. ASSUME NEW r \in Requests, Dash!fetchManageableGuilds(r) PROVE DashInv'
  <2>1. /\ UNCHANGED <<clock, manages, session, listed, lastManaged, closed, late>>
        /\ request[r].step = "fetch"
    BY <1>9 DEF Dash!fetchManageableGuilds
  <2>2. CASE Dash!Return(r)
    BY <2>1, <2>2, DashReturns DEF DashTyped, SessionGone, ListsRecent
  <2>3. CASE Dash!Hold(r, "store", request[r].from, manages, 0)
    <3>1. request[r].from \in Nat /\ manages \in BOOLEAN
      BY DEF DashTyped, DashJobs
    <3>2. manages => request[r].from <= lastManaged
      BY <2>1 DEF ListsRecent
    <3>3. /\ request' \in [Requests -> DashJobs]
          /\ request'[r].step = "store" /\ request'[r].token = request[r].token
          /\ request'[r].from = request[r].from /\ request'[r].has = manages
          /\ \A x \in Requests \ {r} : request'[x] = request[x]
          /\ \A x \in Requests : request'[x].step # "idle" => request'[x].token \in Tokens
      BY <2>1, <2>3, <3>1, DashHolds
    <3>4. DashTyped'
      BY <2>1, <3>3 DEF DashTyped
    <3>5. SessionGone'
      BY <2>1, <3>3 DEF SessionGone
    <3>6. ListsRecent'
      BY <2>1, <3>2, <3>3 DEF ListsRecent
    <3> QED
      BY <3>4, <3>5, <3>6
  <2>4. CASE Dash!Hold(r, "answer", request[r].from, FALSE, 0)
    <3>1. request[r].from \in Nat /\ FALSE \in BOOLEAN /\ 0 \in Int
      BY DEF DashTyped, DashJobs
    <3>2. /\ request' \in [Requests -> DashJobs]
          /\ request'[r].step = "answer" /\ request'[r].token = request[r].token
          /\ request'[r].from = request[r].from /\ request'[r].has = FALSE
          /\ \A x \in Requests \ {r} : request'[x] = request[x]
          /\ \A x \in Requests : request'[x].step # "idle" => request'[x].token \in Tokens
      BY <2>1, <2>4, <3>1, DashHolds
    <3>3. DashTyped'
      BY <2>1, <3>2 DEF DashTyped
    <3>4. SessionGone'
      BY <2>1, <3>2 DEF SessionGone
    <3>5. ListsRecent'
      BY <2>1, <3>2 DEF ListsRecent
    <3> QED
      BY <3>3, <3>4, <3>5
  <2> QED
    BY <1>9, <2>2, <2>3, <2>4 DEF Dash!fetchManageableGuilds
<1>10. ASSUME NEW r \in Requests, Dash!storeGuilds(r) PROVE DashInv'
  <2> DEFINE k == request[r].token
             l == [has |-> request[r].has, until |-> clock + CacheLife]
  <2>1. /\ UNCHANGED <<clock, manages, session, lastManaged, closed, late>>
        /\ request[r].step = "store" /\ k \in Tokens
        /\ listed' = [listed EXCEPT ![k] = l]
        /\ Dash!Hold(r, "answer", request[r].from, request[r].has, Dash!Age)
    BY <1>10 DEF Dash!storeGuilds, DashTyped
  <2>2. /\ request[r].from \in Nat /\ request[r].has \in BOOLEAN /\ Dash!Age \in Int
        /\ l \in Lists /\ l.has = request[r].has /\ l.until = clock + CacheLife
    BY DEF DashTyped, DashJobs, Dash!Age, Lists
  <2>3. request[r].has => /\ Dash!Age < CacheLife + FetchTime
                          /\ l.until <= lastManaged + CacheLife + FetchTime
    BY <2>1, <2>2 DEF ListsRecent, DashTyped, Dash!Age
  <2>4. k \notin closed \ late
    BY <2>1 DEF SessionGone
  <2>5. /\ request' \in [Requests -> DashJobs]
        /\ request'[r].step = "answer" /\ request'[r].token = k
        /\ request'[r].from = request[r].from /\ request'[r].has = request[r].has /\ request'[r].age = Dash!Age
        /\ \A x \in Requests \ {r} : request'[x] = request[x]
        /\ \A x \in Requests : request'[x].step # "idle" => request'[x].token \in Tokens
    BY <2>1, <2>2, DashHolds
  <2> HIDE DEF l
  <2>6. DashTyped'
    BY <2>1, <2>2, <2>5 DEF DashTyped
  <2>7. SessionGone'
    BY <2>1, <2>4, <2>5 DEF DashTyped, SessionGone
  <2>8. ListsRecent'
    BY <2>1, <2>2, <2>3, <2>5 DEF DashTyped, ListsRecent
  <2> QED
    BY <2>6, <2>7, <2>8
<1>11. ASSUME NEW r \in Requests, Dash!Logout(r) PROVE DashInv'
  <2>1. PICK k \in Tokens :
          /\ Dash!Start(r, Dash!Job("forget", k, "none", 0, FALSE, 0))
          /\ \/ session' = [session EXCEPT ![k] = Dash!Deleted] /\ late' = late
             \/ late' = late \cup {k} /\ session' = session
    BY <1>11 DEF Dash!Logout
  <2>2. UNCHANGED <<clock, manages, listed, lastManaged, closed>>
    BY <1>11 DEF Dash!Logout
  <2>3. /\ request' \in [Requests -> DashJobs]
        /\ request'[r].step = "forget" /\ request'[r].token = k
        /\ \A x \in Requests \ {r} : request'[x] = request[x]
        /\ \A x \in Requests : request'[x].step # "idle" => request'[x].token \in Tokens
    BY <2>1, DashStarts
  <2>4. DashTyped'
    BY <2>1, <2>2, <2>3 DEF DashTyped, Dash!Deleted
  <2>5. SessionGone'
    BY <2>1, <2>2, <2>3 DEF DashTyped, SessionGone
  <2>6. ListsRecent'
    BY <2>2, <2>3 DEF ListsRecent
  <2> QED
    BY <2>4, <2>5, <2>6
<1>12. ASSUME NEW r \in Requests, Dash!forgetGuilds(r) PROVE DashInv'
  <2> DEFINE k == request[r].token
             busy == \E x \in Requests \ {r} : Dash!LookupAhead(x) /\ request[x].token = k
  <2>1. /\ UNCHANGED <<clock, manages, session, lastManaged>>
        /\ request[r].step = "forget" /\ k \in Tokens
        /\ listed' = [listed EXCEPT ![k] = NoList]
        /\ closed' = closed \cup {k}
        /\ late' = IF busy THEN late \cup {k} ELSE late
        /\ Dash!Return(r)
    BY <1>12 DEF Dash!forgetGuilds, Dash!Forget, DashTyped
  <2>2. DashTyped'
    BY <2>1, DashReturns DEF DashTyped
  <2>3. SessionGone'
    BY <2>1, DashReturns DEF DashTyped, SessionGone
  <2>4. ListsRecent'
    BY <2>1, DashReturns DEF DashTyped, ListsRecent
  <2> QED
    BY <2>2, <2>3, <2>4
<1>13. ASSUME NEW r \in Requests, Dash!requireGuildAdmin(r) \/ Dash!musicPerms(r)
       PROVE  DashInv'
  <2>1. /\ UNCHANGED <<clock, manages, session, listed, lastManaged, closed, late>>
        /\ request[r].step = "answer"
        /\ Dash!Return(r) \/ Dash!Goto(r, "serve")
    BY <1>13 DEF Dash!requireGuildAdmin, Dash!musicPerms
  <2>2. CASE Dash!Return(r)
    BY <2>1, <2>2, DashReturns DEF DashTyped, SessionGone, ListsRecent
  <2>3. CASE Dash!Goto(r, "serve")
    BY <2>1, <2>3, DashGoes DEF DashTyped, SessionGone, ListsRecent
  <2> QED
    BY <2>1, <2>2, <2>3
<1>14. ASSUME NEW r \in Requests, Dash!Serve(r) PROVE DashInv'
  <2> DEFINE j == Dash!Job("list", request[r].token, "player", request[r].from, FALSE, 0)
  <2>1. /\ UNCHANGED <<clock, manages, session, listed, lastManaged, closed, late>>
        /\ request[r].step = "serve"
        /\ \/ Dash!Return(r)
           \/ request[r].page = "control" /\ request' = [request EXCEPT ![r] = j]
    BY <1>14 DEF Dash!Serve
  <2>2. CASE Dash!Return(r)
    BY <2>1, <2>2, DashReturns DEF DashTyped, SessionGone, ListsRecent
  <2>3. CASE request[r].page = "control" /\ request' = [request EXCEPT ![r] = j]
    <3>1. request[r].token \in Tokens /\ request[r].from \in Nat
      BY <2>1 DEF DashTyped, DashJobs
    <3>2. j \in DashJobs /\ j.token = request[r].token /\ j.step = "list"
      BY <3>1 DEF Dash!Job, DashJobs
    <3> HIDE DEF j
    <3>3. /\ request' \in [Requests -> DashJobs]
          /\ request'[r].step = "list" /\ request'[r].token = request[r].token
          /\ \A x \in Requests \ {r} : request'[x] = request[x]
          /\ \A x \in Requests : request'[x].step # "idle" => request'[x].token \in Tokens
      BY <2>3, <3>1, <3>2, DashMoves
    <3> QED
      BY <2>1, <2>3, <3>3 DEF DashTyped, SessionGone, ListsRecent
  <2> QED
    BY <2>1, <2>2, <2>3
<1> QED
  BY <1>1, <1>2, <1>3, <1>4, <1>5, <1>6, <1>7, <1>8, <1>9, <1>10, <1>11, <1>12, <1>13, <1>14
     DEF Dash!Next

\* However requests, fetches and logouts interleave, on the pages of the
\* administrators and on the player's: once a logout is over, the token's list is
\* not cached, unless a request past the session check had a lookup, a fetch or a
\* store of it ahead, or the row could not be deleted (handleLogout,
\* requireSession, requireGuildMember, musicPerms, manageableGuilds).
THEOREM LogoutForgets == Dash!Spec => []ForgottenAtLogout
<1>1. DashInv => ForgottenAtLogout
  BY DEF DashInv, SessionGone, ForgottenAtLogout, Dash!ForgottenAtLogout
<1> QED
  BY DashInit, DashStep, <1>1, PTL DEF Dash!Spec

\* Nobody passes for a manager, on any page, on a list older than the longest
\* fetch and the life of a cached list together, for any number of concurrent
\* requests, sessions and changes of the permission (manageableGuilds).
THEOREM PermissionRecent == Dash!Spec => []AdminRecent
<1>1. DashInv => AdminRecent
  BY DEF DashInv, ListsRecent, AdminRecent, Dash!AdminRecent, Dash!At
<1> QED
  BY DashInit, DashStep, <1>1, PTL DEF Dash!Spec
=============================================================================
