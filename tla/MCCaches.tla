------------------------------ MODULE MCCaches -------------------------------
(* Three caches for TLC: the message log's, the embed colour's and the     *)
(* dashboard's lists of manageable guilds.  They share no state, so one of *)
(* them runs and the others keep an initial one.                           *)
EXTENDS MCMessageLog

CONSTANTS
  Colors, DefaultColor, NoColor, Builders, Setters, MaxColorSets, MaxColorFaults,
  Requests, Tokens, NoList, SessionLife, CacheLife, FetchTime, MaxClock, MaxRequests, MaxFaults,
  r1, r2

\* The default colour is one that can be set, no colour is the mark of a query
\* under way, and a list is told from the lack of one.
ASSUME ColorAssumption == "read" \notin Colors /\ DefaultColor \in Colors
ASSUME DashboardAssumption ==
  /\ SessionLife \in Nat /\ CacheLife \in Nat \ {0} /\ FetchTime \in Nat
  /\ NoList \notin [has : BOOLEAN, until : Nat]

VARIABLES
  running,
  color, cached, builder, setter, colorSets, colorFaults, stale,
  clock, manages, present, session, listed, request, requests, faults, lastManaged, closed, late

Colour == INSTANCE ColorCache
Dash   == INSTANCE Dashboard

colourVars == <<color, cached, builder, setter, colorSets, colorFaults, stale>>
dashVars   == <<clock, manages, present, session, listed, request, requests, faults,
                lastManaged, closed, late>>

MCInit ==
  /\ running \in {"messages", "colours", "dashboard"}
  /\ Init /\ Colour!Init /\ Dash!Init
  /\ running # "messages" => \A m \in Messages : sent[m] = [text |-> NoText, files |-> 1]
  /\ running # "colours" => color = DefaultColor

MCNext ==
  \/ running = "messages" /\ Next /\ UNCHANGED <<colourVars, dashVars, running>>
  \/ running = "colours" /\ Colour!Next /\ UNCHANGED <<vars, dashVars, running>>
  \/ running = "dashboard" /\ Dash!Next /\ UNCHANGED <<vars, colourVars, running>>

MCSpec == MCInit /\ [][MCNext]_<<vars, colourVars, dashVars, running>>

CachesSymmetry == MCSymmetry \cup Permutations(Requests)

\* ColorCache!ColorFresh, Dashboard!AdminRecent and ForgottenAtLogout.
ColorFresh        == Colour!ColorFresh
AdminRecent       == Dash!AdminRecent
ForgottenAtLogout == Dash!ForgottenAtLogout
=============================================================================
