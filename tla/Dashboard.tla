------------------------------ MODULE Dashboard ------------------------------
(***************************************************************************)
(* The dashboard's sessions and its cache of manageable guilds, for one    *)
(* user and one guild.  Requests are served concurrently; a query, a fetch *)
(* from Discord and a section under guildCacheMu are steps.                *)
(***************************************************************************)
EXTENDS Integers

CONSTANTS
  Requests,   \* goroutines serving a request
  Tokens,     \* tokens of sessions
  NoList,     \* no entry of guildCache
  SessionLife, CacheLife, \* of a session (7 days) and of a cached list (60 s)
  FetchTime,  \* the deadline of a fetch (10 s)
  MaxClock, MaxRequests, MaxFaults  \* bounds

Job(step, token, page, from, has, age) ==
  [step |-> step, token |-> token, page |-> page, from |-> from, has |-> has, age |-> age]
Refused == Job("idle", "none", "none", 0, FALSE, 0)
Unissued == 0
Deleted  == -1

VARIABLES
  clock,
  manages,    \* the user has Manage Server; a member stays one without
  present,    \* Specter is in the guild
  session,    \* when each row of sessions expires; Unissued or Deleted without a row
  listed,     \* guildCache: whether the list has the guild, and until when
  request,    \* what each goroutine is at: its token and page, when its fetch began,
              \* whether its list has the guild, and for how long that had been untrue
  requests, faults, \* bounds: requests, failures
  lastManaged,\* history: when the user last had the permission
  closed,     \* history: tokens whose logout is done
  late        \* history: tokens with a request at logout that was past the session
              \* check and had a lookup ahead, or whose row logout failed to delete

dashVars == <<clock, manages, present, session, listed, request, requests, faults,
              lastManaged, closed, late>>
userVars == <<manages, present, lastManaged>>

Init ==
  /\ clock = 1 /\ manages = TRUE /\ present = TRUE /\ lastManaged = 1
  /\ session = [k \in Tokens |-> Unissued]
  /\ listed = [k \in Tokens |-> NoList]
  /\ request = [r \in Requests |-> Refused]
  /\ requests = 0 /\ faults = 0
  /\ closed = {} /\ late = {}

MusicPages == {"player", "control"}

At(r, step) == request[r].step = step
Hold(r, step, from, has, age) ==
  request' = [request EXCEPT
    ![r] = Job(step, request[r].token, request[r].page, from, has, age)]
Goto(r, step) == Hold(r, step, request[r].from, request[r].has, request[r].age)
Return(r)   == request' = [request EXCEPT ![r] = Refused]
Fault       == faults < MaxFaults /\ faults' = faults + 1

Start(r, job) ==
  /\ At(r, "idle") /\ requests < MaxRequests
  /\ requests' = requests + 1
  /\ request' = [request EXCEPT ![r] = job]

\* A fetch that takes longer than its deadline has failed.
Tick ==
  /\ clock < MaxClock
  /\ \A r \in Requests : request[r].step \in {"fetch", "store"} => clock < request[r].from + FetchTime
  /\ clock' = clock + 1
  /\ lastManaged' = IF manages THEN clock' ELSE lastManaged
  /\ UNCHANGED <<manages, present, session, listed, request, requests, faults, closed, late>>

ChangeGuild ==
  /\ Fault
  /\ \/ manages' = ~manages /\ UNCHANGED present
     \/ present' = ~present /\ UNCHANGED manages
  /\ lastManaged' = IF manages' THEN clock ELSE lastManaged
  /\ UNCHANGED <<clock, session, listed, request, requests, closed, late>>

\* handleCallback: whatever fails before CreateSession leaves no row.
Login(r) ==
  /\ At(r, "idle") /\ requests < MaxRequests
  /\ requests' = requests + 1
  /\ \E k \in Tokens :
       session[k] = Unissued /\ session' = [session EXCEPT ![k] = clock + SessionLife]
  /\ UNCHANGED <<clock, userVars, listed, request, faults, closed, late>>

\* A request for a page of the guild's administrators, to show the music player
\* (or set its DJ role), to control it, or for the list of servers.
Open(r) ==
  /\ \E k \in Tokens, p \in {"admin", "player", "control", "home"} :
       Start(r, Job("session", k, p, 0, FALSE, 0))
  /\ UNCHANGED <<clock, userVars, session, listed, faults, closed, late>>

\* requireSession: GetSession.
requireSession(r) ==
  /\ At(r, "session")
  /\ \/ /\ IF session[request[r].token] <= clock THEN Return(r)
           ELSE Goto(r, IF request[r].page \in MusicPages THEN "member" ELSE "list")
        /\ UNCHANGED faults
     \/ Fault /\ Return(r)
  /\ UNCHANGED <<clock, userVars, session, listed, requests, closed, late>>

\* requireGuildMember: refused where the bot or the member is not found.  The
\* handlers of the player then ask for the list.
requireGuildMember(r) ==
  /\ At(r, "member")
  /\ \/ /\ IF present THEN Goto(r, "list") ELSE Return(r)
        /\ UNCHANGED faults
     \/ Fault /\ Return(r)
  /\ UNCHANGED <<clock, userVars, session, listed, requests, closed, late>>

\* For how long the user has been without the permission.
Age == clock - lastManaged

\* Wrong variant: an entry that is used lives longer.
HitKeeps(k) == listed' = [listed EXCEPT ![k].until = clock + CacheLife]

\* A cached list is used as it is.
Hit(k) == UNCHANGED listed

\* manageableGuilds: under the lock, the cached list or a fetch.
lookupGuilds(r) ==
  /\ At(r, "list")
  /\ LET k == request[r].token IN
     IF listed[k] # NoList /\ clock < listed[k].until
     THEN /\ Hold(r, "answer", request[r].from, listed[k].has, Age)
          /\ Hit(k)
     ELSE Hold(r, "fetch", clock, FALSE, 0) /\ UNCHANGED listed
  /\ UNCHANGED <<clock, userVars, session, requests, faults, closed, late>>

\* fetchManageableGuilds: Discord answers, or the list is empty and not cached;
\* with an empty one only the player's handlers go on.
fetchManageableGuilds(r) ==
  /\ At(r, "fetch")
  /\ \/ Hold(r, "store", request[r].from, manages, 0) /\ UNCHANGED faults
     \/ /\ Fault
        /\ IF request[r].page \in MusicPages
           THEN Hold(r, "answer", request[r].from, FALSE, 0) ELSE Return(r)
  /\ UNCHANGED <<clock, userVars, session, listed, requests, closed, late>>

storeGuilds(r) ==
  /\ At(r, "store")
  /\ listed' = [listed EXCEPT ![request[r].token] =
       [has |-> request[r].has, until |-> clock + CacheLife]]
  /\ Hold(r, "answer", request[r].from, request[r].has, Age)
  /\ UNCHANGED <<clock, userVars, session, requests, faults, closed, late>>

\* handleHome, and requireGuildAdmin for the other pages.
requireGuildAdmin(r) ==
  /\ At(r, "answer") /\ request[r].page \notin MusicPages
  /\ IF request[r].page = "admin" /\ request[r].has /\ present
     THEN Goto(r, "serve") ELSE Return(r)
  /\ UNCHANGED <<clock, userVars, session, listed, requests, faults, closed, late>>

\* musicPerms in the handlers of the player: it is shown, or its DJ role set, and
\* that is all; a manager may control it, and so may others, by the DJ role or
\* being in a voice channel.
musicPerms(r) ==
  /\ At(r, "answer") /\ request[r].page \in MusicPages
  /\ \/ request[r].page = "control" /\ Goto(r, "serve")
     \/ ~(request[r].page = "control" /\ request[r].has) /\ Return(r)
  /\ UNCHANGED <<clock, userVars, session, listed, requests, faults, closed, late>>

\* The page's handler (ConfigPages, MusicPlayer).  Whoever has controlled the
\* player is shown its state, for which the list is asked for again.
Serve(r) ==
  /\ At(r, "serve")
  /\ \/ Return(r)
     \/ /\ request[r].page = "control"
        /\ request' = [request EXCEPT
             ![r] = Job("list", request[r].token, "player", request[r].from, FALSE, 0)]
  /\ UNCHANGED <<clock, userVars, session, listed, requests, faults, closed, late>>

\* handleLogout: DeleteSession, whose error is ignored.
Logout(r) ==
  /\ \E k \in Tokens :
       /\ session[k] # Unissued
       /\ Start(r, Job("forget", k, "none", 0, FALSE, 0))
       /\ \/ session' = [session EXCEPT ![k] = Deleted] /\ UNCHANGED <<faults, late>>
          \/ Fault /\ late' = late \cup {k} /\ UNCHANGED session
  /\ UNCHANGED <<clock, userVars, listed, closed>>

\* Wrong variant: an entry is left to expire.
ForgetNothing(k) == UNCHANGED listed

Forget(k) == listed' = [listed EXCEPT ![k] = NoList]

\* A request past the session check that may still look the list up.
LookupAhead(r) ==
  \/ request[r].step \in {"member", "list", "fetch", "store"}
  \/ request[r].step \in {"answer", "serve"} /\ request[r].page = "control"

\* handleLogout: the token's cached list is dropped.
forgetGuilds(r) ==
  /\ At(r, "forget")
  /\ LET k == request[r].token
         busy == \E x \in Requests \ {r} : LookupAhead(x) /\ request[x].token = k
     IN  /\ Forget(k)
         /\ closed' = closed \cup {k}
         /\ late' = IF busy THEN late \cup {k} ELSE late
  /\ Return(r)
  /\ UNCHANGED <<clock, userVars, session, requests, faults>>

Next ==
  \/ Tick \/ ChangeGuild
  \/ \E r \in Requests :
       \/ Login(r) \/ Open(r) \/ requireSession(r) \/ requireGuildMember(r) \/ lookupGuilds(r)
       \/ fetchManageableGuilds(r) \/ storeGuilds(r) \/ requireGuildAdmin(r) \/ musicPerms(r)
       \/ Serve(r) \/ Logout(r) \/ forgetGuilds(r)

Spec == Init /\ [][Next]_dashVars

-----------------------------------------------------------------------------
(* Properties                                                              *)

\* Whatever fetches overlap and overwrite each other's lists, somebody who lost
\* the permission passes for a manager, on the pages of the administrators and
\* on the player's, for no longer than a cached list lives after a fetch of the
\* longest duration.
AdminRecent ==
  \A r \in Requests :
    At(r, "answer") /\ request[r].has => request[r].age < CacheLife + FetchTime

\* A list stays cached for a token that has been logged out, and then for good,
\* only if the row stayed, or if a request of any page that asks for the list,
\* the player's included, had passed the session check before the logout and
\* still had to look the list up, fetch it or store it at its end.
ForgottenAtLogout == \A k \in closed \ late : listed[k] = NoList
=============================================================================
