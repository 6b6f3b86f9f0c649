----------------------------- MODULE ConfigPages -----------------------------
(***************************************************************************)
(* The configuration rows of a guild and the handlers that edit them: the  *)
(* pages of the dashboard and the slash commands.  Every handler reads the *)
(* row, puts the fields it names into its copy, validates the copy and     *)
(* writes the whole row.  One row is followed, of any of the seven tables; *)
(* handlers run concurrently (Editors).                                    *)
(*                                                                         *)
(* A row is a record.  A form is a record too, of fields of the row; those *)
(* that the editor does not name are Same.                                 *)
(***************************************************************************)
EXTENDS Integers

CONSTANTS
  Editors,                    \* requests and interactions
  Channels, RoleIds,
  Unset,                      \* NULL, a nil pointer or slice
  Same,                       \* a field of a form that is left as it is
  Numbers,                    \* what may be typed into a number field
  MaxEdits, MaxRefusals       \* bounds

Kinds == {"levels", "automod", "starboard", "welcome", "autorole", "modnotify", "jtc"}
NoRow == [unset |-> TRUE]
Away  == [step |-> "idle"]

VARIABLES
  kind,      \* the table
  row,       \* the guild's row in it
  editor,    \* what each handler is at
  edits, refusals,            \* bounds: handlers started, queries failed
  since,     \* history: the fields others have changed since the editor's read
  touched,   \* history: the fields the last write changed
  excused    \* history: the fields the last write named or was late for

confVars == <<kind, row, editor, edits, refusals, since, touched, excused>>

-----------------------------------------------------------------------------
(* The forms                                                               *)

Optional(S) == S \cup {Unset}

\* A field that may be left out.
Given(S) == S \cup {Same}

clampThreshold(v) == IF v < 1 THEN 1 ELSE v
clampInt(v, lo, hi) == IF v < lo THEN lo ELSE IF v > hi THEN hi ELSE v

handleLevelsSave ==
  [enabled : BOOLEAN, announce : Optional(Channels),
   xpMin : Given(Numbers), xpMax : Given(Numbers)]

setupLevels ==
  [enabled : Given(BOOLEAN), announce : Given(Channels),
   xpMin : Given(Numbers), xpMax : Given(Numbers)]

saveStack == [stack : BOOLEAN]       \* the level rewards page
levelroleStack == [stack : BOOLEAN]  \* /levelrole stack

handleAutomodSave ==
  [enabled : BOOLEAN, spam : BOOLEAN, exempt : Optional((SUBSET RoleIds) \ {{}}),
   threshold : Given(Numbers), action : Given({"delete", "ban"})]

handleAutomod == [enabled : BOOLEAN]

\* A button of /automod config flips what the handler has read.
handleAutomodComponent(r) == {[enabled |-> ~r.enabled], [spam |-> ~r.spam]}

\* A threshold below 1 is ignored.
handleStarboardSave ==
  [enabled : BOOLEAN, channel : Optional(Channels), selfStar : BOOLEAN,
   threshold : Given({n \in Numbers : n >= 1})]

handleStarboard ==
  [enabled : {TRUE}, channel : Channels, threshold : Given({clampThreshold(n) : n \in Numbers})]
    \cup [enabled : BOOLEAN] \cup [selfStar : BOOLEAN]
    \cup [threshold : {clampThreshold(n) : n \in Numbers}]

handleWelcomeSave ==
  [join : BOOLEAN, channel : Optional(Channels), dm : BOOLEAN, embed : BOOLEAN]

handleWelcomeImageURLSave ==
  [image : BOOLEAN, url : BOOLEAN, zoom : {clampInt(n, 100, 200) : n \in Numbers}]

handleWelcomeImageURLRemove == [url : {FALSE}]

handleWelcome ==
  [join : BOOLEAN, channel : Given(Channels), image : Given(BOOLEAN)]
    \cup [dm : BOOLEAN] \cup [embed : BOOLEAN]

\* A form without a choice yields a nil slice.
handleAutoroleSave ==
  [enabled : BOOLEAN, roles : Optional((SUBSET RoleIds) \ {{}}),
   botRoles : Optional((SUBSET RoleIds) \ {{}})]

addUnique(list, x) == (IF list = Unset THEN {} ELSE list) \cup {x}
remove(list, x)    == IF list = Unset THEN Unset ELSE list \ {x}

handleAutorole(r) ==
  [enabled : BOOLEAN]
    \cup {[roles |-> addUnique(r.roles, x)] : x \in RoleIds}
    \cup {[botRoles |-> addUnique(r.botRoles, x)] : x \in RoleIds}
    \cup {[roles |-> remove(r.roles, x), botRoles |-> remove(r.botRoles, x)] : x \in RoleIds}

handleModNotifySave == [warn : BOOLEAN, ban : BOOLEAN, appeal : BOOLEAN]
handleModNotify == [warn : Given(BOOLEAN), ban : Given(BOOLEAN)] \cup [appeal : BOOLEAN]

setupVoice ==
  [enabled : Given(BOOLEAN), trigger : Given(Channels), limit : Given(Numbers)]

\* What a handler may put into the row r it has read.
Forms(r) ==
  CASE kind = "levels"    -> handleLevelsSave \cup setupLevels \cup saveStack \cup levelroleStack
    [] kind = "automod"   -> handleAutomodSave \cup handleAutomod \cup handleAutomodComponent(r)
    [] kind = "starboard" -> handleStarboardSave \cup handleStarboard
    [] kind = "welcome"   -> handleWelcomeSave \cup handleWelcomeImageURLSave
                               \cup handleWelcomeImageURLRemove \cup handleWelcome
    [] kind = "autorole"  -> handleAutoroleSave \cup handleAutorole(r)
    [] kind = "modnotify" -> handleModNotifySave \cup handleModNotify
    [] kind = "jtc"       -> setupVoice

-----------------------------------------------------------------------------
(* The rows                                                                *)

DefaultLevels    == [enabled |-> TRUE, announce |-> Unset, xpMin |-> 15, xpMax |-> 40,
                     stack |-> TRUE]
DefaultAutomod   == [enabled |-> FALSE, spam |-> FALSE, exempt |-> Unset, threshold |-> 5,
                     action |-> "delete"]
DefaultStarboard == [enabled |-> FALSE, channel |-> Unset, threshold |-> 3, selfStar |-> FALSE]
DefaultWelcome   == [join |-> FALSE, channel |-> Unset, dm |-> FALSE, embed |-> TRUE,
                     image |-> TRUE, url |-> FALSE, zoom |-> 100]
DefaultAutorole  == [enabled |-> FALSE, roles |-> Unset, botRoles |-> Unset]
DefaultModSettings == [warn |-> TRUE, ban |-> TRUE, appeal |-> FALSE]
DefaultJTC       == [enabled |-> FALSE, trigger |-> Unset, limit |-> 0]

\* What the Get query returns without a row.
Default ==
  CASE kind = "levels" -> DefaultLevels [] kind = "automod" -> DefaultAutomod
    [] kind = "starboard" -> DefaultStarboard [] kind = "welcome" -> DefaultWelcome
    [] kind = "autorole" -> DefaultAutorole [] kind = "modnotify" -> DefaultModSettings
    [] kind = "jtc" -> DefaultJTC

\* The fields an editor names, and the row r with these as the editor has them.
Named(form) == {f \in DOMAIN form : form[f] # Same}
Edited(r, form) ==
  [f \in DOMAIN r |-> IF f \in DOMAIN form /\ form[f] # Same THEN form[f] ELSE r[f]]

\* What the handlers refuse, and what the columns do: role_ids and
\* bot_role_ids are NOT NULL.
Accepts(r) ==
  /\ kind = "levels" => r.xpMin <= r.xpMax
  /\ kind = "starboard" => (r.enabled => r.channel # Unset)
  /\ kind = "autorole" => r.roles # Unset /\ r.botRoles # Unset

-----------------------------------------------------------------------------
(* Handlers                                                                *)

Init ==
  /\ kind \in Kinds
  /\ row = NoRow
  /\ editor = [e \in Editors |-> Away]
  /\ edits = 0 /\ refusals = 0
  /\ since = [e \in Editors |-> {}] /\ touched = {} /\ excused = {}

Return(e) ==
  /\ editor' = [editor EXCEPT ![e] = Away]
  /\ since' = [since EXCEPT ![e] = {}]

Refusal == refusals < MaxRefusals /\ refusals' = refusals + 1

\* The Get query's result.
Current == IF row = NoRow THEN Default ELSE row

Load(e) ==
  /\ editor[e].step = "idle" /\ edits < MaxEdits
  /\ edits' = edits + 1
  /\ editor' = [editor EXCEPT ![e] =
       [step |-> "save", read |-> Current]]
  /\ UNCHANGED <<kind, row, refusals, since, touched, excused>>

\* Wrong variant: any error of the Get query counts as "no row".
LoadDefault(e) ==
  /\ editor[e].step = "idle"
  /\ editor' = [editor EXCEPT ![e] = [step |-> "save", read |-> Default]]

\* The Get query fails, and the handler returns.
LoadNothing(e) == editor[e].step = "idle" /\ UNCHANGED editor

LoadFails(e) ==
  /\ Refusal /\ edits < MaxEdits
  /\ edits' = edits + 1
  /\ LoadNothing(e)
  /\ UNCHANGED <<kind, row, since, touched, excused>>

\* Wrong variant: only the columns of the form are written.
StoredFields(e, form) == Edited(Current, form)

\* Upsert writes every column of the handler's copy.
Stored(e, form) == Edited(editor[e].read, form)

\* The Upsert query.
Save(e) ==
  /\ editor[e].step = "save"
  /\ \E form \in Forms(editor[e].read) :
       /\ Accepts(Edited(editor[e].read, form))
       /\ row' = Stored(e, form)
       /\ touched' = {f \in DOMAIN row' : row'[f] # Current[f]}
       /\ excused' = Named(form) \cup since[e]
       /\ since' = [x \in Editors |->
            IF x = e \/ editor[x].step = "idle" THEN {} ELSE since[x] \cup touched']
  /\ editor' = [editor EXCEPT ![e] = Away]
  /\ UNCHANGED <<kind, edits, refusals>>

\* The handler or the database refuses the form, or the query fails.
Refuse(e) ==
  /\ editor[e].step = "save"
  /\ \/ /\ \E form \in Forms(editor[e].read) : ~Accepts(Edited(editor[e].read, form))
        /\ UNCHANGED refusals
     \/ Refusal
  /\ Return(e)
  /\ UNCHANGED <<kind, row, edits, touched, excused>>

Next == \E e \in Editors : Load(e) \/ LoadFails(e) \/ Save(e) \/ Refuse(e)

Spec == Init /\ [][Next]_confVars

-----------------------------------------------------------------------------
(* Properties                                                              *)

\* However editors overlap and whatever they lose of each other's changes, the
\* row is one the rest of the program can work with: the XP range is not empty,
\* an enabled starboard has a channel and a threshold that a message must reach,
\* the card's zoom is in range and the lists of autoroles are lists.
RowValid ==
  row # NoRow =>
    /\ kind = "levels" => row.xpMin <= row.xpMax
    /\ kind = "starboard" => row.threshold >= 1 /\ (row.enabled => row.channel # Unset)
    /\ kind = "welcome" => row.zoom \in 100..200
    /\ kind = "autorole" => Unset \notin {row.roles, row.botRoles}

\* A write changes a field its form does not name only by undoing a change that
\* another editor made after it had read the row.
OnlyNamedOrRaced == touched \subseteq excused
=============================================================================
