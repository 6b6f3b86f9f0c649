------------------------------ MODULE Moderation ------------------------------
(***************************************************************************)
(* The commands that act on one member and what is kept of them: the rows  *)
(* of mod_actions (the rapsheet) and of warnings, written by concurrent    *)
(* moderators, and cleared by administrators in two deletions.  Every      *)
(* command passes access.Gate first.                                       *)
(*                                                                         *)
(* Notices by DM and to the log channels are left out: ban and kick notify *)
(* the member before they act, also when the act then fails.  So are the   *)
(* warnings of automod (MessagePipeline), which are entered nowhere else.  *)
(***************************************************************************)
EXTENDS Integers, FiniteSets

CONSTANTS
  Mods,         \* moderators, each with at most one command under way
  Admins,       \* those of them with the Administrator permission
  Owner,        \* the one that owns the guild, if it is one of them
  MaxCommands, MaxFaults, MaxRules  \* bounds

Kinds == {"ban", "kick", "timeout", "warn", "unban"}

\* What each command enters, and whether it compares ranks before it acts.
handleBan     == [kind |-> "ban", compares |-> TRUE]
handleUnban   == [kind |-> "unban", compares |-> FALSE]
handleKick    == [kind |-> "kick", compares |-> TRUE]
handleTimeout == [kind |-> "timeout", compares |-> TRUE]
warnAdd       == [kind |-> "warn", compares |-> FALSE]
\* A ban of many users by ID, the member among them.
handleMassban == [kind |-> "ban", compares |-> FALSE]

Commands == {handleBan, handleUnban, handleKick, handleTimeout, warnAdd, handleMassban}
Clearing == {"clear actions", "clear warnings"}
Nothing == [step |-> "idle"]

VARIABLES
  rules,       \* access_control: the mods denied, those allowed, a role nobody has allowed
  rank,        \* highest role position: of the member, the bot and each mod
  banned, inside,  \* the member is banned; in the guild
  sheet,       \* mod_actions: entries of the member, by kind
  warnings,    \* active rows of the member in warnings
  command,     \* what each moderator's handler is at
  issued, modFaults, ruled,  \* bounds
  done,        \* history: acts of each kind since the entries were last deleted
  lost         \* history: a query failed or the process stopped after an act

modVars == <<rules, rank, banned, inside, sheet, warnings, command, issued, modFaults, ruled,
             done, lost>>
modDiscord == <<rules, rank, banned, inside>>

NoEntries == [k \in Kinds |-> 0]

Init ==
  /\ rules = [denied |-> {}, allowed |-> {}]
  /\ rank \in [Mods \cup {"bot", "member"} -> 1..2]
  /\ banned = FALSE /\ inside = TRUE
  /\ sheet = NoEntries /\ warnings = 0
  /\ command = [m \in Mods |-> Nothing]
  /\ issued = 0 /\ modFaults = 0 /\ ruled = 0
  /\ done = NoEntries /\ lost = FALSE

Trouble == modFaults < MaxFaults /\ modFaults' = modFaults + 1
Goes(m, step) ==
  command' = [command EXCEPT ![m] = [step |-> step, what |-> command[m].what]]
Ends(m)       == command' = [command EXCEPT ![m] = Nothing]

-----------------------------------------------------------------------------
(* The surroundings                                                        *)

Issue(m) ==
  /\ command[m] = Nothing /\ issued < MaxCommands
  /\ issued' = issued + 1
  /\ \E c \in Commands :
       command' = [command EXCEPT ![m] = [step |-> "check", what |-> c]]
  /\ UNCHANGED <<modDiscord, sheet, warnings, modFaults, ruled, done, lost>>

\* handleAccessSave upserts or deletes one rule.
handleAccessSave ==
  /\ ruled < MaxRules /\ ruled' = ruled + 1
  /\ \E m \in Mods \cup {"role"} : rules' \in
       {[denied |-> rules.denied \cup {m}, allowed |-> rules.allowed \ {m}],
        [denied |-> rules.denied \ {m}, allowed |-> rules.allowed \cup {m}],
        [denied |-> rules.denied \ {m}, allowed |-> rules.allowed \ {m}]}
  /\ UNCHANGED <<rank, banned, inside, sheet, warnings, command, issued, modFaults, done, lost>>

\* The member comes back; the roles change.
Surroundings ==
  /\ ruled < MaxRules /\ ruled' = ruled + 1
  /\ \/ ~banned /\ ~inside /\ inside' = TRUE /\ UNCHANGED rank
     \/ rank' = [rank EXCEPT !["member"] = 3 - @] /\ UNCHANGED inside
  /\ UNCHANGED <<rules, banned, sheet, warnings, command, issued, modFaults, done, lost>>

-----------------------------------------------------------------------------
(* Before the act                                                          *)

\* A deny rule that matches wins; once a group has an allow rule, one must match.
Decide(m, known) ==
  \/ m \in Admins
  \/ m \notin known.denied /\ (known.allowed = {} \/ m \in known.allowed)

\* Gate.Check takes rules it cannot read for none.
Check(m) ==
  /\ command[m].step = "check"
  /\ \E known \in {rules, [denied |-> {}, allowed |-> {}]} :
       /\ IF known = rules THEN UNCHANGED modFaults ELSE Trouble
       /\ IF Decide(m, known)
          THEN Goes(m, IF command[m].what.compares THEN "rank" ELSE "act")
          ELSE Ends(m)
  /\ UNCHANGED <<modDiscord, sheet, warnings, issued, ruled, done, lost>>

\* The member (not the owner, who is refused) must be below the bot and, unless
\* that is the owner, the moderator; one who has left is not compared.  When the
\* guild or the bot cannot be fetched the command ends; a member or a moderator
\* who cannot be fetched is not compared.
CanActOn(m) ==
  /\ command[m].step = "rank"
  /\ LET above(x) == inside => rank["member"] < rank[x]
     IN \/ /\ IF above("bot") /\ (m = Owner \/ above(m)) THEN Goes(m, "act") ELSE Ends(m)
           /\ UNCHANGED modFaults
        \/ Trouble /\ (Goes(m, "act") \/ Ends(m))
  /\ UNCHANGED <<modDiscord, sheet, warnings, issued, ruled, done, lost>>

-----------------------------------------------------------------------------
(* The act and its entry                                                   *)

\* What Discord grants, and AddWarning the database.
Grants(k) ==
  LET below == inside => rank["member"] < rank["bot"]
  IN CASE k = "ban" -> below
       [] k \in {"kick", "timeout"} -> inside /\ below
       [] k = "unban" -> banned
       [] k = "warn"  -> TRUE

Act(m) ==
  /\ command[m].step = "act" /\ Grants(command[m].what.kind)
  /\ LET k == command[m].what.kind IN
       /\ banned' = (k = "ban" \/ (banned /\ k # "unban"))
       /\ inside' = (inside /\ k \notin {"ban", "kick"})
       /\ warnings' = IF k = "warn" THEN warnings + 1 ELSE warnings
       /\ done' = [done EXCEPT ![k] = @ + 1]
  /\ Goes(m, "record")
  /\ UNCHANGED <<rules, rank, sheet, issued, modFaults, ruled, lost>>

\* Wrong variant: a ban of many is entered for every ID it names.
RecordAnyway(m) == IF command[m].what = handleMassban THEN Goes(m, "record") ELSE Ends(m)

RecordNothing(m) == Ends(m)

\* The act is refused, or fails.
ActFails(m) ==
  /\ command[m].step = "act"
  /\ IF Grants(command[m].what.kind) THEN Trouble ELSE UNCHANGED modFaults
  /\ RecordNothing(m)
  /\ UNCHANGED <<modDiscord, sheet, warnings, issued, ruled, done, lost>>

\* recordAndLog; a failed query is only reported.
recordAndLog(m) ==
  /\ command[m].step = "record"
  /\ LET k == command[m].what.kind IN
       \/ sheet' = [sheet EXCEPT ![k] = @ + 1] /\ UNCHANGED <<modFaults, lost>>
       \/ Trouble /\ lost' = TRUE /\ UNCHANGED sheet
  /\ Ends(m)
  /\ UNCHANGED <<modDiscord, warnings, issued, ruled, done>>

\* /warning remove deactivates the warning with the ID it is given.
warnRemove ==
  /\ warnings > 0 /\ issued < MaxCommands
  /\ issued' = issued + 1 /\ warnings' = warnings - 1
  /\ UNCHANGED <<modDiscord, sheet, command, modFaults, ruled, done, lost>>

-----------------------------------------------------------------------------
(* Clearing                                                                *)

\* The confirmed /rapsheet clear, and the same page of the dashboard.
clearconfirm(m) ==
  /\ command[m] = Nothing /\ m \in Admins /\ issued < MaxCommands
  /\ issued' = issued + 1
  /\ command' = [command EXCEPT ![m] = [step |-> "clear actions"]]
  /\ UNCHANGED <<modDiscord, sheet, warnings, modFaults, ruled, done, lost>>

\* Wrong variant: the warnings go first.
Later == <<"clear warnings", "clear actions">>

Order == <<"clear actions", "clear warnings">>

\* The two deletions; the error of either is ignored.
Clear(m) ==
  /\ command[m].step \in Clearing
  /\ LET first == command[m].step = "clear actions"
         what  == Order[IF first THEN 1 ELSE 2] IN
       /\ \/ /\ IF what = "clear actions"
                THEN /\ sheet' = NoEntries /\ UNCHANGED warnings
                     /\ done' = [k \in Kinds |-> Cardinality({x \in Mods :
                          command[x].step = "record" /\ command[x].what.kind = k})]
                ELSE warnings' = 0 /\ UNCHANGED <<sheet, done>>
             /\ UNCHANGED <<modFaults, lost>>
          \/ Trouble /\ lost' = TRUE /\ UNCHANGED <<sheet, warnings, done>>
       /\ command' = [command EXCEPT ![m] =
                        IF first THEN [step |-> "clear warnings"] ELSE Nothing]
  /\ UNCHANGED <<modDiscord, issued, ruled>>

CrashMods ==
  /\ Trouble
  /\ command' = [m \in Mods |-> Nothing] /\ lost' = TRUE
  /\ UNCHANGED <<modDiscord, sheet, warnings, issued, ruled, done>>

Next ==
  \/ handleAccessSave \/ Surroundings \/ warnRemove \/ CrashMods
  \/ \E m \in Mods :
       \/ Issue(m) \/ Check(m) \/ CanActOn(m) \/ Act(m) \/ ActFails(m) \/ recordAndLog(m)
       \/ clearconfirm(m) \/ Clear(m)

Spec == Init /\ [][Next]_modVars

-----------------------------------------------------------------------------
(* Properties                                                              *)

\* Whatever moderators do at once, also in the midst of a clearing: nothing is
\* entered that was not done and a command that ended has its entry; and once no
\* clearing is between its two deletions, no warning is active that was given
\* before the rapsheet was cleared.  Only a failed query or a crash between the
\* act and its entry, or in a clearing, may break this.
RapsheetTrue ==
  ~lost =>
    LET Due(k) == Cardinality({m \in Mods :
                    command[m].step = "record" /\ command[m].what.kind = k})
    IN /\ \A k \in Kinds : sheet[k] + Due(k) = done[k]
       /\ (\A m \in Mods : command[m].step \notin Clearing) => warnings <= done["warn"]
=============================================================================
