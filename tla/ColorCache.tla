----------------------------- MODULE ColorCache ------------------------------
(***************************************************************************)
(* embed.colorProvider for one guild: every embed asks for the guild's     *)
(* accent colour, which /setup color changes.  The lookups under the lock, *)
(* the query between them and the two halves of the command are steps.     *)
(***************************************************************************)
EXTENDS Naturals

CONSTANTS
  Colors,        \* the colours in use
  DefaultColor,  \* the default column value, and of a failed query
  NoColor,       \* nothing cached
  Builders,      \* goroutines building an embed
  Setters,       \* goroutines running /setup color
  MaxColorSets, MaxColorFaults  \* bounds

VARIABLES
  color,      \* guilds.embed_color
  cached,     \* colorProvider.cache
  builder,    \* per builder: NoColor, "read", or the colour it is about to cache
  setter,     \* per setter: "idle", "save" or "invalidate"
  colorSets, colorFaults,  \* bounds
  stale       \* history: an Invalidate came between a builder's query and its caching,
              \* a query failed, or the guild's row was made anew

colorVars == <<color, cached, builder, setter, colorSets, colorFaults, stale>>

Init ==
  /\ color \in Colors /\ cached = NoColor
  /\ builder = [b \in Builders |-> NoColor]
  /\ setter = [s \in Setters |-> "idle"]
  /\ colorSets = 0 /\ colorFaults = 0 /\ stale = FALSE

Fault == colorFaults < MaxColorFaults /\ colorFaults' = colorFaults + 1

\* guildColor: a cached colour ends it.
Lookup(b) ==
  /\ builder[b] = NoColor /\ cached = NoColor
  /\ builder' = [builder EXCEPT ![b] = "read"]
  /\ UNCHANGED <<color, cached, setter, colorSets, colorFaults, stale>>

\* guildColor: GetGuild, whose failure stands for the default colour.
Read(b) ==
  /\ builder[b] = "read"
  /\ \/ builder' = [builder EXCEPT ![b] = color] /\ UNCHANGED <<colorFaults, stale>>
     \/ builder' = [builder EXCEPT ![b] = DefaultColor] /\ Fault /\ stale' = TRUE
  /\ UNCHANGED <<color, cached, setter, colorSets>>

\* guildColor: the colour is cached.
Store(b) ==
  /\ builder[b] \in Colors
  /\ cached' = builder[b]
  /\ builder' = [builder EXCEPT ![b] = NoColor]
  /\ UNCHANGED <<color, setter, colorSets, colorFaults, stale>>

\* setupColor with a valid colour.
setupColor(s) ==
  /\ setter[s] = "idle" /\ colorSets < MaxColorSets
  /\ colorSets' = colorSets + 1
  /\ setter' = [setter EXCEPT ![s] = "save"]
  /\ UNCHANGED <<color, cached, builder, colorFaults, stale>>

\* SetEmbedColor.
Save(s) ==
  /\ setter[s] = "save"
  /\ \/ /\ color' \in Colors
        /\ setter' = [setter EXCEPT ![s] = "invalidate"]
        /\ UNCHANGED colorFaults
     \/ Fault /\ setter' = [setter EXCEPT ![s] = "idle"] /\ UNCHANGED color
  /\ UNCHANGED <<cached, builder, colorSets, stale>>

\* Wrong variant: the colour is still cached.
KeepColor == cached

Cleared == NoColor

Invalidate(s) ==
  /\ setter[s] = "invalidate"
  /\ cached' = Cleared
  /\ setter' = [setter EXCEPT ![s] = "idle"]
  /\ stale' = (stale \/ \E b \in Builders : builder[b] \in Colors)
  /\ UNCHANGED <<color, builder, colorSets, colorFaults>>

\* The bot leaves the guild and comes back: DeleteGuild and EnsureGuild, neither
\* of which invalidates.
Rejoin ==
  /\ Fault
  /\ color' = DefaultColor /\ stale' = TRUE
  /\ UNCHANGED <<cached, builder, setter, colorSets>>

Next ==
  \/ \E b \in Builders : Lookup(b) \/ Read(b) \/ Store(b)
  \/ \E s \in Setters : setupColor(s) \/ Save(s) \/ Invalidate(s)
  \/ Rejoin

Spec == Init /\ [][Next]_colorVars

-----------------------------------------------------------------------------
(* Properties                                                              *)

\* Embeds show the guild's colour as soon as the commands that change it are
\* done, unless an embed had read the old colour before a command invalidated
\* the cache and cached it afterwards, a query failed, or the guild was left.
ColorFresh ==
  (\A s \in Setters : setter[s] = "idle") /\ ~stale => cached \in {NoColor, color}
=============================================================================
