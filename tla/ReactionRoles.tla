---------------------------- MODULE ReactionRoles ----------------------------
(***************************************************************************)
(* reactionroles.Handler and the /reactionroles commands, for one menu and *)
(* one member.  Every reaction and every command runs in a goroutine of    *)
(* its own (Tasks): each query and each call of Discord is a step, and may *)
(* fail.  Nothing serialises two goroutines.                               *)
(***************************************************************************)
EXTENDS Integers, Sequences

CONSTANTS
  Emojis, MenuRoles,
  Titles,        \* names a menu may get
  Tasks,         \* goroutines
  Established,   \* the entries of a menu that exists from the start
  MaxCalls,      \* bound: reactions and commands
  MaxMishaps     \* bound: failed queries and calls

Modes  == {"normal", "unique", "reverse", "verify"}
NoMenu == "none"
Idle   == [step |-> "idle"]

VARIABLES
  posted,     \* the menu's message: "none", "live" or "gone"
  caption,    \* the name it shows
  offered,    \* emojis the bot has reacted with
  reacted,    \* emojis the member has reacted with
  roles,      \* roles the member has
  mode,       \* reaction_role_menus.type, NoMenu without a row
  name,       \* reaction_role_menus.name
  entries,    \* reaction_role_entries, by id
  task,       \* what each goroutine is at
  calls,      \* bound: reactions and commands so far
  mishaps,    \* bound: failures so far
  alone,      \* history: the goroutine has met no failure and no other one
  onlyAdds,   \* history: nothing but reactions added, none of which failed
  editsMixed  \* history: two edits have overlapped

message  == <<posted, caption, offered, reacted>>
menu     == <<mode, name, entries>>
rolesVars == <<message, roles, menu, task, calls, mishaps, alone, onlyAdds, editsMixed>>

\* What the menu's entries name.
EntryEmojis == {entries[i].emoji : i \in DOMAIN entries}
EntryRoles  == {entries[i].role : i \in DOMAIN entries}

Init ==
  /\ \/ /\ posted = "none" /\ mode = NoMenu
        /\ entries = <<>> /\ offered = {}
     \/ /\ posted = "live" /\ mode \in Modes
        /\ entries = Established /\ offered = EntryEmojis
  /\ caption = CHOOSE t \in Titles : TRUE
  /\ name = caption
  /\ reacted = {}
  /\ roles \in SUBSET MenuRoles
  /\ task = [t \in Tasks |-> Idle]
  /\ calls = 0 /\ mishaps = 0
  /\ alone = [t \in Tasks |-> FALSE]
  /\ onlyAdds = TRUE /\ editsMixed = FALSE

-----------------------------------------------------------------------------
(* Goroutines                                                              *)

At(t, step)  == task[t].step = step
Now(t, job)  == task' = [task EXCEPT ![t] = job]
Return(t)    == Now(t, Idle)

Smooth(t) == alone' = [u \in Tasks |-> u = t /\ alone[u]] /\ UNCHANGED <<mishaps, onlyAdds>>
Mishap    == /\ mishaps < MaxMishaps /\ mishaps' = mishaps + 1
             /\ alone' = [u \in Tasks |-> FALSE] /\ onlyAdds' = FALSE

\* A goroutine starts with a job.
Start(t, job) ==
  /\ At(t, "idle") /\ calls < MaxCalls
  /\ calls' = calls + 1
  /\ Now(t, job)
  /\ alone' = [u \in Tasks |-> u = t /\ \A v \in Tasks : At(v, "idle")]
  /\ onlyAdds' = (onlyAdds /\ job.step = "menu" /\ job.added)
  /\ editsMixed' = \/ editsMixed
                   \/ /\ job.step = "update"
                      /\ \E v \in Tasks : task[v].step \in {"update", "reload", "retitle"}
  /\ UNCHANGED mishaps

-----------------------------------------------------------------------------
(* Reactions                                                               *)

\* The member reacts with an emoji or takes the reaction back.
React(t) ==
  /\ posted = "live"
  /\ \E e \in Emojis :
       /\ reacted' = IF e \in reacted THEN reacted \ {e} ELSE reacted \cup {e}
       /\ Start(t, [step |-> "menu", added |-> e \notin reacted, emoji |-> e])
  /\ UNCHANGED <<posted, caption, offered, roles, menu>>

\* lookup: GetMenuByMessage.
LookupMenu(t) ==
  /\ At(t, "menu")
  /\ \/ /\ IF mode = NoMenu THEN Return(t)
           ELSE Now(t, [step |-> "entry", added |-> task[t].added,
                         emoji |-> task[t].emoji, mode |-> mode])
        /\ Smooth(t)
     \/ Return(t) /\ Mishap
  /\ UNCHANGED <<message, roles, menu, calls, editsMixed>>

\* What HandleAdd and HandleRemove do with a menu's entry.
Response(added, m) ==
  IF added THEN CASE m = "unique" -> "others" [] m = "reverse" -> "check" [] OTHER -> "grant"
  ELSE IF m \in {"verify", "reverse"} THEN "idle" ELSE "revoke"

\* The entries for an emoji.
Hits(emoji) == {i \in DOMAIN entries : entries[i].emoji = emoji}

\* A goroutine goes on with the role it has found.
Serve(t, step, rest) ==
  Now(t, [step |-> step, added |-> task[t].added, mode |-> task[t].mode,
          role |-> task[t].role, had |-> task[t].had, rest |-> rest])

\* lookup: ListEntries; the first entry with the emoji counts.
LookupEntry(t) ==
  /\ At(t, "entry")
  /\ LET hits == Hits(task[t].emoji)
         next == Response(task[t].added, task[t].mode)
     IN  \/ (hits = {} \/ next = "idle") /\ Return(t) /\ Smooth(t)
         \/ /\ next # "idle"
            /\ \E i \in hits :
                 /\ \A j \in hits : i <= j
                 /\ Now(t, [step |-> next, added |-> task[t].added, mode |-> task[t].mode,
                            role |-> entries[i].role, had |-> entries[i].role \in roles,
                            rest |-> <<>>])
            /\ Smooth(t)
         \/ Return(t) /\ Mishap
  /\ UNCHANGED <<message, roles, menu, calls, editsMixed>>

\* applyUnique: ListEntries once more.
ListOthers(t) ==
  /\ At(t, "others")
  /\ \/ Serve(t, "strip", [i \in DOMAIN entries |-> entries[i].role]) /\ Smooth(t)
     \/ Return(t) /\ Mishap
  /\ UNCHANGED <<message, roles, menu, calls, editsMixed>>

\* Wrong variant: applyUnique takes away nothing.
SparedAny(role, own) == TRUE

\* applyUnique leaves the role it is about to give.
Spared(role, own) == role = own

\* applyUnique: one other role is removed; an error is only logged.
StripRole(t) ==
  /\ At(t, "strip")
  /\ LET rest == task[t].rest IN
     IF rest = <<>> THEN Serve(t, "grant", rest) /\ Smooth(t) /\ UNCHANGED roles
     ELSE /\ Serve(t, "strip", Tail(rest))
          /\ \/ /\ roles' = IF Spared(Head(rest), task[t].role) THEN roles
                            ELSE roles \ {Head(rest)}
                /\ Smooth(t)
             \/ ~Spared(Head(rest), task[t].role) /\ Mishap /\ UNCHANGED roles
  /\ UNCHANGED <<message, menu, calls, editsMixed>>

\* hasRole; an error counts as no.
CheckRole(t) ==
  /\ At(t, "check")
  /\ \/ Serve(t, IF task[t].role \in roles THEN "revoke" ELSE "grant", <<>>) /\ Smooth(t)
     \/ Serve(t, "grant", <<>>) /\ Mishap
  /\ UNCHANGED <<message, roles, menu, calls, editsMixed>>

\* Wrong variant: no call for a member who had the role when the entry was read.
GrantedIfNew(job) == IF job.had THEN roles ELSE roles \cup {job.role}

\* addRole.
Granted(job) == roles \cup {job.role}

\* addRole and removeRole; an error is only logged.
ChangeRole(t) ==
  /\ task[t].step \in {"grant", "revoke"}
  /\ \/ /\ roles' = IF At(t, "grant") THEN Granted(task[t]) ELSE roles \ {task[t].role}
        /\ Smooth(t)
     \/ Mishap /\ UNCHANGED roles
  /\ Serve(t, "handled", <<>>)
  /\ UNCHANGED <<message, menu, calls, editsMixed>>

Handled(t) ==
  /\ At(t, "handled")
  /\ Return(t)
  /\ Smooth(t)
  /\ UNCHANGED <<message, roles, menu, calls, editsMixed>>

-----------------------------------------------------------------------------
(* Commands                                                                *)

\* create: the message is posted first.
Create(t) ==
  /\ posted = "none"
  /\ posted' = "live"
  /\ \E m \in Modes, n \in Titles :
       caption' = n /\ Start(t, [step |-> "create", mode |-> m, name |-> n])
  /\ UNCHANGED <<offered, reacted, roles, menu>>

\* CreateMenu.
CreateRow(t) ==
  /\ At(t, "create")
  /\ \/ mode' = task[t].mode /\ name' = task[t].name /\ Smooth(t)
     \/ Mishap /\ UNCHANGED <<mode, name>>
  /\ Return(t)
  /\ UNCHANGED <<message, roles, entries, calls, editsMixed>>

\* addEntry: GetMenu finds the menu.
AddEntry(t) ==
  /\ mode # NoMenu
  /\ \E e \in Emojis, r \in MenuRoles : Start(t, [step |-> "insert", emoji |-> e, role |-> r])
  /\ UNCHANGED <<message, roles, menu>>

\* Wrong variant: the entry is added whether or not its menu is still there.
InsertAnyway(t) ==
  /\ entries' = Append(entries, [emoji |-> task[t].emoji, role |-> task[t].role])
  /\ Now(t, [step |-> "offer", emoji |-> task[t].emoji])

\* The INSERT of an entry, which the foreign key refuses without the menu.
Insert(t) ==
  IF mode = NoMenu THEN Return(t) /\ UNCHANGED entries
  ELSE /\ entries' = Append(entries, [emoji |-> task[t].emoji, role |-> task[t].role])
       /\ Now(t, [step |-> "offer", emoji |-> task[t].emoji])

\* Queries.AddEntry.
InsertEntry(t) ==
  /\ At(t, "insert")
  /\ \/ Insert(t) /\ Smooth(t)
     \/ Return(t) /\ Mishap /\ UNCHANGED entries
  /\ UNCHANGED <<message, roles, mode, name, calls, editsMixed>>

\* MessageReactionAdd.
OfferEmoji(t) ==
  /\ At(t, "offer")
  /\ \/ /\ offered' = IF posted = "live" THEN offered \cup {task[t].emoji} ELSE offered
        /\ Smooth(t)
     \/ Mishap /\ UNCHANGED offered
  /\ Return(t)
  /\ UNCHANGED <<posted, caption, reacted, roles, menu, calls, editsMixed>>

\* The reply to create has told the menu's ID.
Announced == mode # NoMenu \/ posted = "gone"

\* del: GetMenu; DeleteMenu runs whether or not it finds the menu.
Delete(t) ==
  /\ Announced
  /\ Start(t, [step |-> IF mode = NoMenu THEN "drop" ELSE "unpost"])
  /\ UNCHANGED <<message, roles, menu>>

\* GetMenu or ChannelMessageDelete fails.
UnpostFails(t) ==
  /\ At(t, "unpost")
  /\ Now(t, [step |-> "drop"])
  /\ Mishap
  /\ UNCHANGED <<message, roles, menu, calls, editsMixed>>

\* ChannelMessageDelete; its reactions go with it.
Unpost(t) ==
  /\ At(t, "unpost")
  /\ posted' = "gone" /\ offered' = {} /\ reacted' = {}
  /\ Now(t, [step |-> "drop"])
  /\ Smooth(t)
  /\ UNCHANGED <<caption, roles, menu, calls, editsMixed>>

\* DeleteMenu; the entries cascade.
DropMenu(t) ==
  /\ At(t, "drop")
  /\ \/ mode' = NoMenu /\ entries' = <<>> /\ Smooth(t)
     \/ Mishap /\ UNCHANGED <<mode, entries>>
  /\ Return(t)
  /\ UNCHANGED <<message, roles, name, calls, editsMixed>>

Edit(t) ==
  /\ Announced
  /\ \E n \in Titles : Start(t, [step |-> "update", name |-> n])
  /\ UNCHANGED <<message, roles, menu>>

\* UpdateMenu.
UpdateMenu(t) ==
  /\ At(t, "update")
  /\ \/ /\ IF mode = NoMenu THEN Return(t) /\ UNCHANGED name
           ELSE Now(t, [step |-> "reload", name |-> task[t].name]) /\ name' = task[t].name
        /\ Smooth(t)
     \/ Return(t) /\ Mishap /\ UNCHANGED name
  /\ UNCHANGED <<message, roles, mode, entries, calls, editsMixed>>

\* GetMenu, for the message's ID.
Reload(t) ==
  /\ At(t, "reload")
  /\ \/ /\ IF mode = NoMenu THEN Return(t)
           ELSE Now(t, [step |-> "retitle", name |-> task[t].name])
        /\ Smooth(t)
     \/ Return(t) /\ Mishap
  /\ UNCHANGED <<message, roles, menu, calls, editsMixed>>

\* ChannelMessageEditEmbed; its error is ignored.
Retitle(t) ==
  /\ At(t, "retitle")
  /\ \/ /\ caption' = IF posted = "live" THEN task[t].name ELSE caption
        /\ Smooth(t)
     \/ Mishap /\ UNCHANGED caption
  /\ Return(t)
  /\ UNCHANGED <<posted, offered, reacted, roles, menu, calls, editsMixed>>

Next == \E t \in Tasks :
  \/ React(t) \/ LookupMenu(t) \/ LookupEntry(t) \/ ListOthers(t) \/ StripRole(t)
  \/ CheckRole(t) \/ ChangeRole(t) \/ Handled(t)
  \/ Create(t) \/ CreateRow(t) \/ AddEntry(t) \/ InsertEntry(t) \/ OfferEmoji(t)
  \/ Delete(t) \/ UnpostFails(t) \/ Unpost(t) \/ DropMenu(t)
  \/ Edit(t) \/ UpdateMenu(t) \/ Reload(t) \/ Retitle(t)

Spec == Init /\ [][Next]_rolesVars

-----------------------------------------------------------------------------
(* Properties                                                              *)

Quiet == \A t \in Tasks : At(t, "idle")

\* A goroutine that met no failure and nobody else leaves the member with the
\* roles the menu's type calls for, whatever earlier races left behind: with
\* "unique", that one role of the menu and no other.
CalmOutcome ==
  \A t \in Tasks : At(t, "handled") /\ alone[t] =>
    LET job == task[t] IN
    /\ (job.role \in roles) <=> (job.added /\ ~(job.mode = "reverse" /\ job.had))
    /\ job.added /\ job.mode = "unique" =>
         roles \cap EntryRoles = {job.role}

\* Members who only add reactions to a "unique" menu, one of them with an emoji
\* it offers, never end up without a role, however the goroutines that strip
\* each other's roles interleave.
SomeRoleKept ==
  Quiet /\ onlyAdds /\ mode = "unique" /\ reacted \cap offered # {} => roles # {}

\* Whatever commands overlap, as long as nothing fails: once they are done, a
\* menu has a row exactly if its message is there, the message offers the
\* emojis of its entries, and, unless two edits overlapped, shows its name.
MenuShown ==
  Quiet /\ mishaps = 0 =>
    /\ (mode # NoMenu) <=> (posted = "live")
    /\ offered = EntryEmojis
    /\ posted = "live" /\ ~editsMixed => caption = name
=============================================================================
