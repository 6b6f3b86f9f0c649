----------------------------- MODULE ChannelLocks -----------------------------
(***************************************************************************)
(* Who may speak in a channel and connect to it: /lock and /unlock for     *)
(* moderators, in the channel at hand or in one they name, and /voice for  *)
(* the owner of a join-to-create room.  A lock reads the channel's         *)
(* overwrite for @everyone, changes one bit of it and writes it whole.     *)
(* Handlers run concurrently, one per user, among administrators who edit  *)
(* the overwrite by hand and members who come and go.                      *)
(***************************************************************************)
EXTENDS FiniteSets, Naturals, Sequences

CONSTANTS
  Callers,        \* users who give the commands: moderators and owners of the room
  Chiefs,         \* those of them with the Administrator permission
  Guest,          \* one who only comes and goes
  Nobody,
  Missing,        \* what the state cache has of a channel it does not know
  MaxOrders, MaxHands, MaxSlips  \* bounds

People == Callers \cup {Guest}
Bits == {"send", "connect"}   \* Send Messages and Connect
NoBits == [allow |-> {}, deny |-> {}]
Free == [step |-> "idle"]

VARIABLES
  voice,      \* the channel is a join-to-create room
  everyone,   \* its overwrite for @everyone
  cached,     \* the same in discordgo's state cache, or Missing
  news,       \* the events with it that the session has not heard yet
  personal,   \* the Connect bit of its overwrites for members
  roomOwner,  \* jtc_channels.owner_id, or no row
  inRoom,     \* who is connected to it
  order,      \* what each caller's handler is at
  orders, byHand, slips,  \* bounds
  overtaken,  \* history: the channel or its row changed after what the handler read
  lingers     \* history: members whose rejection was cut short

lockVars == <<voice, everyone, cached, news, personal, roomOwner, inRoom, order, orders,
              byHand, slips, overtaken, lingers>>
channelVars == <<everyone, cached, news>>

Init ==
  /\ voice \in BOOLEAN
  /\ everyone \in {[allow |-> a, deny |-> d] : a \in {{}, {"send"}}, d \in {{}, {"connect"}}}
  /\ \/ cached = everyone /\ news = << >>
     \/ cached = Missing /\ news = <<everyone>>
  /\ personal = [p \in People |-> "none"]
  /\ roomOwner \in IF voice THEN Callers ELSE {Nobody}
  /\ inRoom = IF voice THEN Callers ELSE {}
  /\ order = [c \in Callers |-> Free]
  /\ orders = 0 /\ byHand = 0 /\ slips = 0
  /\ overtaken = {} /\ lingers = {}

Overtakes(c) == overtaken' = (overtaken \cup {x \in Callers : order[x] # Free}) \ {c}
Complete(c) == order' = [order EXCEPT ![c] = Free]

-----------------------------------------------------------------------------
(* The surroundings                                                        *)

Slip == slips < MaxSlips /\ slips' = slips + 1
Hand == byHand < MaxHands /\ byHand' = byHand + 1

\* Discord has a new overwrite, and says so.
Change(overwrite) ==
  /\ everyone' = overwrite
  /\ news' = IF overwrite = everyone THEN news ELSE Append(news, overwrite)
  /\ UNCHANGED cached

\* An administrator changes the overwrite.
Edit ==
  /\ Hand
  /\ \E b \in Bits :
       \/ Change([allow |-> everyone.allow \ {b}, deny |-> everyone.deny \cup {b}])
       \/ Change([allow |-> everyone.allow, deny |-> everyone.deny \ {b}])
  /\ overtaken' = {x \in Callers : order[x] # Free}
  /\ UNCHANGED <<voice, personal, roomOwner, inRoom, order, orders, slips, lingers>>

\* The session hears of the channel: with its guild, or that it has changed.
Hear ==
  /\ news # << >>
  /\ cached' = Head(news) /\ news' = Tail(news)
  /\ UNCHANGED <<voice, everyone, personal, roomOwner, inRoom, order, orders, byHand, slips,
                 overtaken, lingers>>

\* Discord lets in, on their own, administrators and whom the member's overwrite,
\* or else @everyone's, does not keep out.
MayConnect(p) ==
  \/ p \in Chiefs
  \/ personal[p] = "allow"
  \/ personal[p] = "none" /\ "connect" \notin everyone.deny

ComeAndGo(p) ==
  /\ voice
  /\ IF p \in inRoom THEN inRoom' = inRoom \ {p} /\ UNCHANGED byHand
     ELSE MayConnect(p) /\ Hand /\ inRoom' = inRoom \cup {p}
  /\ lingers' = lingers \ {p}
  /\ UNCHANGED <<voice, channelVars, personal, roomOwner, order, orders, slips, overtaken>>

-----------------------------------------------------------------------------
(* The commands                                                            *)

\* Wrong variant: being in the room is enough.
AnyOccupant(c) == c \in inRoom

\* The caller is in the room, which has a row, and owns it or is an administrator.
ownedChannel(c) == c \in inRoom /\ roomOwner # Nobody /\ (c = roomOwner \/ c \in Chiefs)

\* Wrong variant: the member is put out and then kept out.
MovedFirst == <<"move", "deny">>

Rejection == <<"deny", "move">>

Give(c, job) ==
  /\ order[c] = Free /\ orders < MaxOrders
  /\ orders' = orders + 1
  /\ order' = [order EXCEPT ![c] = job]
  /\ overtaken' = overtaken \ {c}
  /\ UNCHANGED <<voice, channelVars, personal, roomOwner, inRoom, byHand, slips, lingers>>

\* /voice, in the caller's room.
Command(c) ==
  /\ voice /\ ownedChannel(c)
  /\ \/ \E what \in {"lock", "unlock"} :
          Give(c, [step |-> "fetch", by |-> "voice", what |-> what])
     \/ \E p \in People \ {c}, step \in {"permit", Rejection[1], "transfer"} :
          Give(c, [step |-> step, who |-> p])

\* /lock or /unlock, in the channel at hand or with the channel's name.
LockCommand(c) ==
  \E what \in {"lock", "unlock"}, by \in {"here", "named"} :
    Give(c, [step |-> "fetch", by |-> by, what |-> what])

\* Before a handler writes: what it has read, or that it could read nothing.
HasRead(c, overwrite, failed) ==
  order' = [order EXCEPT ![c] = [step |-> "set", by |-> order[c].by, what |-> order[c].what,
                                 read |-> overwrite, failed |-> failed]]

\* setLock, and resolveChannel without a name, fetch the channel from Discord.
Fetch(c) ==
  /\ order[c].step = "fetch" /\ order[c].by # "named"
  /\ HasRead(c, everyone, FALSE)
  /\ overtaken' = IF order[c].by = "voice" THEN overtaken ELSE overtaken \ {c}
  /\ UNCHANGED <<voice, channelVars, personal, roomOwner, inRoom, orders, byHand, slips, lingers>>

\* resolveChannel with a name, which never fails: the channel of the state cache,
\* behind Discord or not; if there is none, Discord's; if the request fails, one
\* that has an ID and nothing else.
FetchNamed(c) ==
  /\ order[c].step = "fetch" /\ order[c].by = "named"
  /\ \/ cached # Missing /\ HasRead(c, cached, FALSE) /\ UNCHANGED slips
     \/ cached = Missing /\ HasRead(c, everyone, FALSE) /\ UNCHANGED slips
     \/ cached = Missing /\ HasRead(c, NoBits, TRUE) /\ Slip
  /\ overtaken' = IF cached \in {everyone, Missing} THEN overtaken \ {c} ELSE overtaken \cup {c}
  /\ UNCHANGED <<voice, channelVars, personal, roomOwner, inRoom, orders, byHand, lingers>>

\* /voice locks the connecting, the others the sending of messages.
OwnBit(job) == IF job.by = "voice" THEN "connect" ELSE "send"

\* Wrong variant: the rest of the overwrite is not kept.
Bare(ow, lock, bit) ==
  [allow |-> {}, deny |-> IF lock THEN {bit} ELSE {}]

\* A lock takes the bit from allow to deny; an unlock does not put it back.
Locked(ow, lock, bit) ==
  IF lock THEN [allow |-> ow.allow \ {bit}, deny |-> ow.deny \cup {bit}]
          ELSE [allow |-> ow.allow, deny |-> ow.deny \ {bit}]

setLock(c) ==
  /\ order[c].step = "set"
  /\ Change(Locked(order[c].read, order[c].what = "lock", OwnBit(order[c])))
  /\ Overtakes(c) /\ Complete(c)
  /\ UNCHANGED <<voice, personal, roomOwner, inRoom, orders, byHand, slips, lingers>>

permit(c) ==
  /\ order[c].step = "permit"
  /\ personal' = [personal EXCEPT ![order[c].who] = "allow"]
  /\ lingers' = lingers \ {order[c].who}
  /\ Complete(c)
  /\ UNCHANGED <<voice, channelVars, roomOwner, inRoom, orders, byHand, slips, overtaken>>

\* What a rejection does next.
After(step) ==
  IF step = Rejection[1] THEN Rejection[2] ELSE "idle"

reject(c) ==
  /\ order[c].step \in {"deny", "move"}
  /\ LET p == order[c].who  s == order[c].step IN
       /\ personal' = IF s = "deny" THEN [personal EXCEPT ![p] = "deny"] ELSE personal
       /\ inRoom' = IF s = "move" THEN inRoom \ {p} ELSE inRoom
       /\ IF After(s) = "idle" THEN Complete(c)
          ELSE order' = [order EXCEPT ![c] = [step |-> After(s), who |-> p]]
  /\ UNCHANGED <<voice, channelVars, roomOwner, orders, byHand, slips, overtaken, lingers>>

transfer(c) ==
  /\ order[c].step = "transfer"
  /\ roomOwner' = IF roomOwner = Nobody THEN Nobody ELSE order[c].who
  /\ Overtakes(c) /\ Complete(c)
  /\ UNCHANGED <<voice, channelVars, personal, inRoom, orders, byHand, slips, lingers>>

\* A request or query fails, and the handler ends; a member who cannot be put
\* out stays.
OrderFails(c) ==
  /\ order[c] # Free /\ ~(order[c].step = "fetch" /\ order[c].by = "named")
  /\ Slip
  /\ lingers' = IF order[c].step = "move" THEN lingers \cup {order[c].who} ELSE lingers
  /\ Complete(c)
  /\ UNCHANGED <<voice, channelVars, personal, roomOwner, inRoom, orders, byHand, overtaken>>

Next ==
  \/ Edit \/ Hear
  \/ \E p \in People : ComeAndGo(p)
  \/ \E c \in Callers :
       \/ Command(c) \/ LockCommand(c) \/ Fetch(c) \/ FetchNamed(c) \/ setLock(c)
       \/ permit(c) \/ reject(c) \/ transfer(c) \/ OrderFails(c)

Spec == Init /\ [][Next]_lockVars

-----------------------------------------------------------------------------
(* Properties                                                              *)

\* c's handler writes the overwrite it read, with its bit changed, and what it
\* read was Discord's when it read it and has been since.
Writes(c) ==
  /\ order[c].step = "set" /\ order'[c] = Free /\ slips' = slips
  /\ c \notin overtaken

OtherBitsKept(bit) ==
  /\ everyone'.allow \ {bit} = everyone.allow \ {bit}
  /\ everyone'.deny \ {bit} = everyone.deny \ {bit}

\* A handler changes no bit of the overwrite but its own, Connect for /voice lock
\* and Send Messages for /lock, and /voice lock a room's only for its owner or an
\* administrator.  Excused are handlers that were overtaken: the overwrite, or
\* the owner, changed between the handler's read and its write, or the state
\* cache, from which /lock takes a named channel, was behind; and the one that
\* could not read a named channel and locks it all the same.
NoUndueChange ==
  [][\A c \in Callers : Writes(c) =>
       /\ order[c].failed \/ OtherBitsKept(OwnBit(order[c]))
       /\ order[c].by = "voice" => c = roomOwner \/ c \in Chiefs]_lockVars

\* A member rejected for good is not in the room: it is put out after it has
\* lost the permission to come back.  An administrator, whom no overwrite keeps
\* out, may come back at once.
RejectedOut ==
  voice /\ (\A c \in Callers : order[c] = Free) =>
    \A p \in inRoom \ (lingers \cup Chiefs) : personal[p] # "deny"
=============================================================================
