------------------------------ MODULE Sessions ------------------------------
(***************************************************************************)
(* A browser's session with the portal.  The session lies in the cache,    *)
(* as one dictionary: a request loads it whole, and whole it is saved when *)
(* the request has changed anything in it.  A page saves what it is        *)
(* filtered by or how many rows it has; switch() and switch_region() save  *)
(* the project and the region the user works in from then on.  The tabs of *)
(* a browser send requests that overlap; the token may expire, and the     *)
(* cache may drop the session, at any time.                                *)
(***************************************************************************)
EXTENDS Naturals, FiniteSets

CONSTANTS
  Requests,    \* the browser's requests
  Projects, Regions,
  RegionsOf,   \* RegionsOf[p]: those of the services in the catalogue of p
  MaxLogins,   \* bound: logins; each makes a session, and has its number
  None         \* no session, no region

Sids == 1 .. MaxLogins
Data == [project : Projects, region : Regions]

VARIABLES
  store,       \* the cache
  cookie,      \* the browser: the session it names, 0 for none
  last,        \* the browser: the cookie services_region
  logins,      \* how many there have been
  expired,     \* the sessions whose tokens have expired
  step,        \* how far a request is
  sid, copy,   \* the session it came with, and what it has loaded
  dirty,       \* what changed its copy: "no", the "page" or a "switch"
  fresh,       \* history: has no other request saved its session since?
  first,       \* history: what the login put into a session
  wanted,      \* history: what the last login or switch was to make of a session
  stale,       \* history: the sessions that an old copy has been saved to
  over         \* history: the sessions that are logged out or dropped

vars == <<store, cookie, last, logins, expired, step, sid, copy, dirty, fresh,
          first, wanted, stale, over>>

History == <<first, wanted, stale, over>>
Request == <<sid, copy, dirty, fresh>>

TypeOK ==
  /\ store \in [Sids -> Data \cup {None}]
  /\ cookie \in 0 .. MaxLogins /\ logins \in 0 .. MaxLogins
  /\ last \in Regions \cup {None}
  /\ step \in [Requests -> {"idle", "view", "respond", "done", "login", "400"}]
  /\ sid \in [Requests -> 0 .. MaxLogins]
  /\ copy \in [Requests -> Data \cup {None}]
  /\ dirty \in [Requests -> {"no", "page", "switch"}] /\ fresh \in [Requests -> BOOLEAN]
  /\ first \in [Sids -> Data \cup {None}]
  /\ wanted \in [Sids -> Data \cup {None}]
  /\ \A S \in {expired, stale, over} : S \subseteq Sids

Init ==
  /\ store = [s \in Sids |-> None]
  /\ cookie = 0 /\ last = None /\ logins = 0
  /\ expired = {}
  /\ step = [r \in Requests |-> "idle"]
  /\ sid = [r \in Requests |-> 0]
  /\ copy = [r \in Requests |-> None]
  /\ dirty = [r \in Requests |-> "no"]
  /\ fresh = [r \in Requests |-> TRUE]
  /\ first = [s \in Sids |-> None]
  /\ wanted = [s \in Sids |-> None]
  /\ stale = {} /\ over = {}

-----------------------------------------------------------------------------
Goto(r, s) == step' = [step EXCEPT ![r] = s]

\* default_services_region: the browser's last region, if the project has it,
\* or one it has.
DefaultRegion(p) ==
  IF last \in RegionsOf[p] THEN last
  ELSE CHOOSE g \in RegionsOf[p] : TRUE

\* get_user, is_token_valid
Authenticated(s) == s # 0 /\ store[s] # None /\ s \notin expired

-----------------------------------------------------------------------------
\* login(), for a browser that is not logged in: authenticate() scopes the
\* token to one of the user's projects; the region is the one that was logged
\* into, if Keystone has an endpoint with the URL, whatever the project has.
Login ==
  /\ ~Authenticated(cookie) /\ logins < MaxLogins
  /\ logins' = logins + 1 /\ cookie' = logins'
  /\ \E p \in Projects : \E g \in Regions \cup {DefaultRegion(p)} :
       LET d == [project |-> p, region |-> g] IN
       /\ store' = [store EXCEPT ![logins'] = d]
       /\ first' = [first EXCEPT ![logins'] = d]
       /\ wanted' = [wanted EXCEPT ![logins'] = d]
  /\ UNCHANGED <<last, expired, step, Request, stale, over>>

\* A request arrives, and its session is loaded; whoever is not logged in is
\* sent to the login page.
Arrive(r) ==
  /\ step[r] = "idle"
  /\ IF Authenticated(cookie)
     THEN /\ sid' = [sid EXCEPT ![r] = cookie]
          /\ copy' = [copy EXCEPT ![r] = store[cookie]]
          /\ Goto(r, "view")
     ELSE Goto(r, "login") /\ UNCHANGED <<sid, copy>>
  /\ UNCHANGED <<store, cookie, last, logins, expired, dirty, fresh, History>>

\* A page, which may change something else in the session.
Page(r) ==
  /\ step[r] = "view"
  /\ \E b \in {"no", "page"} : dirty' = [dirty EXCEPT ![r] = b]
  /\ Goto(r, "respond")
  /\ UNCHANGED <<store, cookie, last, logins, expired, sid, copy, fresh,
                 History>>

Changes(r, d) ==
  /\ copy' = [copy EXCEPT ![r] = d]
  /\ dirty' = [dirty EXCEPT ![r] = "switch"]

\* A mutant: the region is left alone.
SwitchedProject(r, p) == [copy[r] EXCEPT !.project = p]

\* What set_session_from_user puts into the session after a switch to p.
Switched(r, p) == [project |-> p, region |-> DefaultRegion(p)]

\* switch(): a token for another project, in exchange for the unscoped one.
Switch(r) ==
  /\ step[r] = "view"
  /\ \/ /\ sid[r] \notin expired
        /\ \E p \in Projects : Changes(r, Switched(r, p))
     \/ UNCHANGED <<copy, dirty>>
  /\ Goto(r, "respond")
  /\ UNCHANGED <<store, cookie, last, logins, expired, sid, fresh, History>>

\* switch_region(): one of the regions of the request's own project.
SwitchRegion(r) ==
  /\ step[r] = "view"
  /\ \E g \in Regions :
       IF g \in RegionsOf[copy[r].project]
       THEN Changes(r, [copy[r] EXCEPT !.region = g]) /\ last' = g
       ELSE last' = copy[r].region /\ UNCHANGED <<copy, dirty>>
  /\ Goto(r, "respond")
  /\ UNCHANGED <<store, cookie, logins, expired, sid, fresh, History>>

\* logout(): the session is flushed.
Logout(r) ==
  /\ step[r] = "view"
  /\ store' = [store EXCEPT ![sid[r]] = None]
  /\ over' = over \cup {sid[r]}
  /\ cookie' = IF cookie = sid[r] THEN 0 ELSE cookie
  /\ Goto(r, "done")
  /\ UNCHANGED <<last, logins, expired, Request, first, wanted, stale>>

-----------------------------------------------------------------------------
\* process_response of the session: the whole copy is saved if it is there.
Respond(r) ==
  /\ step[r] = "respond"
  /\ LET s == sid[r] IN
     \/ dirty[r] = "no" /\ Goto(r, "done") /\ UNCHANGED <<store, fresh, wanted, stale>>
     \/ /\ dirty[r] # "no" /\ store[s] = None
        /\ Goto(r, "400") /\ UNCHANGED <<store, fresh, wanted, stale>>
     \/ /\ dirty[r] # "no" /\ store[s] # None
        /\ store' = [store EXCEPT ![s] = copy[r]]
        /\ wanted' = IF dirty[r] = "switch"
                     THEN [wanted EXCEPT ![s] = copy[r]] ELSE wanted
        /\ stale' = IF fresh[r] THEN stale ELSE stale \cup {s}
        /\ fresh' = [q \in Requests |->
             fresh[q] /\ (q = r \/ sid[q] # s)]
        /\ Goto(r, "done")
  /\ UNCHANGED <<cookie, last, logins, expired, sid, copy, dirty, first, over>>

\* Keystone's tokens run out, and so do the cache's entries.
Expire ==
  /\ \E s \in 1 .. logins : expired' = expired \cup {s}
  /\ UNCHANGED <<store, cookie, last, logins, step, Request, History>>

Drop ==
  /\ \E s \in {s \in Sids : store[s] # None} :
       store' = [store EXCEPT ![s] = None] /\ over' = over \cup {s}
  /\ UNCHANGED <<cookie, last, logins, expired, step, Request, first, wanted,
                 stale>>

Serve(r) ==
  Arrive(r) \/ Page(r) \/ Switch(r) \/ SwitchRegion(r) \/ Logout(r)
    \/ Respond(r)

Next == Login \/ (\E r \in Requests : Serve(r)) \/ Expire \/ Drop
Spec == Init /\ [][Next]_vars

-----------------------------------------------------------------------------
(***************************************************************************)
(* The project and the region of a session belong together, whatever       *)
(* requests overlap: the region is one of the project's, unless both are   *)
(* as the login left them.  They are what the last login or switch made    *)
(* them, unless a request saved the session that had loaded it before      *)
(* another one did.  A session that is over never comes back.              *)
(***************************************************************************)
SessionCoheres ==
  \A s \in Sids : store[s] # None =>
    /\ store[s] = first[s] \/ store[s].region \in RegionsOf[store[s].project]
    /\ s \in stale \/ store[s] = wanted[s]
    /\ s \notin over
=============================================================================
