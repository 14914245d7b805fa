---------------------------- MODULE PortalProofs ----------------------------
(***************************************************************************)
(* What is proved of the table of ADCs (AdcTable) and of a browser's       *)
(* session (Sessions), for any number of requests; and, from the           *)
(* invariants of all the parts, that each of them keeps to its types.      *)
(***************************************************************************)
EXTENDS ServiceProofs, FormsProofs, ListsProofs, RoleFormsProofs

-----------------------------------------------------------------------------
(* The table of ADCs.                                                      *)

TableTypes ==
  /\ adcs \in [Ids -> AdcRows!Status]
  /\ owner \in [Ids -> Projects \cup {None}]
  /\ project \in Projects
  /\ postStep \in [Posts -> {"idle", "load", "loop", "done", "aborted"}]
  /\ kind \in [Posts -> AdcRows!Kind]
  /\ mine \in [Posts -> Projects \cup {None}]
  /\ chosen \in [Posts -> SUBSET Ids]
  /\ todo \in [Posts -> SUBSET Ids]
  /\ ok \in [Posts -> SUBSET Ids]
  /\ bad \in [Posts -> SUBSET Ids]
  /\ denied \in [Posts -> SUBSET Ids]
  /\ accepted \in [Posts -> SUBSET Ids]

\* The rows a POST has come past are in one of its three lists, and those it
\* has still before it in none; what was accepted is a real ADC of its project.
Accounted(q) ==
  /\ postStep[q] \in {"idle", "load"} =>
       ok[q] = {} /\ bad[q] = {} /\ denied[q] = {} /\ accepted[q] = {}
  /\ postStep[q] = "loop" =>
       /\ todo[q] \subseteq chosen[q]
       /\ ok[q] \cup bad[q] \cup denied[q] = chosen[q] \ todo[q]
  /\ postStep[q] = "done" => ok[q] \cup bad[q] \cup denied[q] = chosen[q]
  /\ ok[q] \cap bad[q] = {} /\ (ok[q] \cup bad[q]) \cap denied[q] = {}
  /\ ok[q] \subseteq accepted[q] /\ accepted[q] \subseteq ok[q] \cup bad[q]
  /\ \A i \in accepted[q] :
       kind[q] = "delete" /\ owner[i] = mine[q] /\ adcs[i] # "absent"

TableInv == TableTypes /\ \A q \in Posts : Accounted(q)

-----------------------------------------------------------------------------
\* No POST has come, and there is no ADC.
LEMMA InitTable == AdcRows!Init => TableInv
BY DEF AdcRows!Init, TableInv, TableTypes, Accounted, AdcRows!Status,
   AdcRows!Kind

\* The next row goes from those still to do into exactly one list.
LEMMA ActKeepsInv ==
  ASSUME TableInv, NEW q \in Posts, AdcRows!Act(q)
  PROVE  TableInv'
<1>1. PICK i \in todo[q] :
        /\ todo' = [todo EXCEPT ![q] = @ \ {i}]
        /\ \/ /\ denied' = AdcRows!Into(denied, q, i)
              /\ UNCHANGED <<adcs, ok, bad, accepted>>
           \/ (AdcRows!Succeeds(q, i) \/ AdcRows!Fails(q, i)) /\ UNCHANGED denied
  BY DEF AdcRows!Act
<1>2. postStep[q] = "loop" /\ UNCHANGED <<owner, project, postStep, kind, chosen, mine, data>>
  BY DEF AdcRows!Act
<1>3. i \in Ids /\ i \in chosen[q] /\ i \notin ok[q] \cup bad[q] \cup denied[q]
  BY <1>1, <1>2 DEF TableInv, TableTypes, Accounted
<1>4. CASE /\ denied' = AdcRows!Into(denied, q, i)
           /\ UNCHANGED <<adcs, ok, bad, accepted>>
  <2>1. TableTypes'
    BY <1>1, <1>2, <1>3, <1>4 DEF AdcRows!Into, TableInv, TableTypes
  <2>2. ASSUME NEW p \in Posts PROVE Accounted(p)'
    BY <1>1, <1>2, <1>3, <1>4 DEF AdcRows!Into, TableInv, TableTypes, Accounted
  <2> QED
    BY <2>1, <2>2 DEF TableInv
<1>5. CASE AdcRows!Deletes(q, i) /\ UNCHANGED denied /\ kind[q] = "delete"
           /\ \/ ok' = AdcRows!Into(ok, q, i) /\ UNCHANGED bad
              \/ bad' = AdcRows!Into(bad, q, i) /\ UNCHANGED ok
  <2>1. TableTypes'
    BY <1>1, <1>2, <1>3, <1>5 DEF AdcRows!Deletes, AdcRows!Into, TableInv,
       TableTypes, AdcRows!Status
  <2>2. Accounted(q)'
    BY <1>1, <1>2, <1>3, <1>5 DEF AdcRows!Deletes, AdcRows!Into, TableInv,
       TableTypes, Accounted
  <2>3. ASSUME NEW p \in Posts \ {q} PROVE Accounted(p)'
    BY <1>1, <1>2, <1>3, <1>5 DEF AdcRows!Deletes, AdcRows!Into, TableInv,
       TableTypes, Accounted
  <2> QED
    BY <2>1, <2>2, <2>3 DEF TableInv
<1>6. CASE /\ UNCHANGED <<adcs, accepted, ok, denied>>
           /\ bad' = AdcRows!Into(bad, q, i)
  <2>1. TableTypes'
    BY <1>1, <1>2, <1>3, <1>6 DEF AdcRows!Into, TableInv, TableTypes
  <2>2. ASSUME NEW p \in Posts PROVE Accounted(p)'
    BY <1>1, <1>2, <1>3, <1>6 DEF AdcRows!Into, TableInv, TableTypes, Accounted
  <2> QED
    BY <2>1, <2>2 DEF TableInv
<1>7. CASE AdcRows!Succeeds(q, i) /\ UNCHANGED denied
  BY <1>5, <1>7, Zenon DEF AdcRows!Succeeds
<1>8. CASE AdcRows!Fails(q, i) /\ UNCHANGED denied
  <2>1. CASE kind[q] = "delete" /\ AdcRows!Deletes(q, i)
    BY <1>5, <1>8, <2>1, Zenon DEF AdcRows!Fails
  <2>2. CASE UNCHANGED <<adcs, accepted>>
    BY <1>6, <1>8, <2>2 DEF AdcRows!Fails
  <2> QED
    BY <1>8, <2>1, <2>2, Zenon DEF AdcRows!Fails
<1> QED
  BY <1>1, <1>4, <1>7, <1>8, Zenon

\* The other steps of a POST leave its lists as they are.
LEMMA PostKeepsInv ==
  ASSUME TableInv, NEW q \in Posts, AdcRows!Handle(q)
  PROVE  TableInv'
<1>1. CASE AdcRows!Post(q)
  BY <1>1 DEF AdcRows!Post, AdcRows!Goto, TableInv, TableTypes, Accounted
<1>2. CASE AdcRows!Load(q)
  BY <1>2 DEF AdcRows!Load, AdcRows!Goto, TableInv, TableTypes, Accounted
<1>3. CASE AdcRows!NoMatch(q)
  BY <1>3 DEF AdcRows!NoMatch, AdcRows!Goto, TableInv, TableTypes, Accounted
<1>4. CASE AdcRows!Report(q)
  BY <1>4 DEF AdcRows!Report, AdcRows!Goto, TableInv, TableTypes, Accounted
<1> QED
  BY <1>1, <1>2, <1>3, <1>4, ActKeepsInv DEF AdcRows!Handle

\* An ADC there has ever been keeps its project, whatever becomes of it.
LEMMA ManagerKeepsInv ==
  ASSUME TableInv, AdcRows!Create \/ AdcRows!Settle \/ AdcRows!SwitchProject
  PROVE  TableInv'
<1>0. UNCHANGED AdcRows!Posting
  BY DEF AdcRows!Create, AdcRows!Settle, AdcRows!SwitchProject
<1>1. CASE AdcRows!Create
  BY <1>0, <1>1 DEF AdcRows!Create, AdcRows!Posting, TableInv, TableTypes,
     Accounted, AdcRows!Status
<1>2. CASE AdcRows!Settle
  BY <1>0, <1>2 DEF AdcRows!Settle, AdcRows!Posting, TableInv, TableTypes,
     Accounted, AdcRows!Status
<1>3. CASE AdcRows!SwitchProject
  BY <1>0, <1>3 DEF AdcRows!SwitchProject, AdcRows!Posting, TableInv,
     TableTypes, Accounted
<1> QED
  BY <1>1, <1>2, <1>3

\* Every step of a POST or of the manager keeps the rows accounted for.
LEMMA TableStep == TableInv /\ [AdcRows!Next]_(AdcRows!vars) => TableInv'
<1>1. TableInv /\ UNCHANGED AdcRows!vars => TableInv'
  BY DEF AdcRows!vars, TableInv, TableTypes, Accounted
<1> QED
  BY <1>1, PostKeepsInv, ManagerKeepsInv DEF AdcRows!Next

(***************************************************************************)
(* For any ADCs, projects and POSTs, the rows a batch has come past are in *)
(* its lists, and what the manager has taken is among them                 *)
(* (BatchAction.handle, adc_delete).                                       *)
(***************************************************************************)
THEOREM TableInvariance == PortalSpec => [](part = "adcs" => TableInv)
<1>1. PortalInit => (part = "adcs" => TableInv)
  BY InitTable DEF PortalInit
<1>2. (part = "adcs" => TableInv) /\ [PortalNext]_allvars
        => (part = "adcs" => TableInv)'
  BY StepOfPart, TableStep
<1> QED
  BY <1>1, <1>2, PTL DEF PortalSpec

(***************************************************************************)
(* A deletion that is reported was taken by the manager, from this POST    *)
(* and for the project the user was in when it arrived (adc_delete,        *)
(* BatchAction.handle).                                                    *)
(***************************************************************************)
THEOREM SaidIsAlwaysDone == PortalSpec => []SaidIsDone
<1>1. (part = "adcs" => TableInv) => SaidIsDone
  BY DEF TableInv, Accounted, AdcRows!SaidIsDone, SaidIsDone
<1> QED
  BY <1>1, TableInvariance, PTL

(***************************************************************************)
(* A batch that runs to its end mentions every row once, and only one that *)
(* was left on a missing row may keep silent about a deletion              *)
(* (BatchAction.handle).                                                   *)
(***************************************************************************)
THEOREM RowsAccounted == PortalSpec => []EveryRowAccounted
<1>1. (part = "adcs" => TableInv) => EveryRowAccounted
  BY DEF TableInv, Accounted, AdcRows!EveryRowAccounted, EveryRowAccounted
<1> QED
  BY <1>1, TableInvariance, PTL

-----------------------------------------------------------------------------
(* A browser's session.                                                    *)

\* Every project has a region, and None is no session and no region.
RegionsExist ==
  /\ MaxLogins \in Nat
  /\ \A p \in Tenants : RegionsOf[p] # {} /\ RegionsOf[p] \subseteq Regions
  /\ None \notin Session!Data

Coherent(d) == d.region \in RegionsOf[d.project]

SessionTypes ==
  /\ store \in [Session!Sids -> Session!Data \cup {None}]
  /\ cookie \in 0 .. logins /\ logins \in 0 .. MaxLogins
  /\ requestStep \in [Posts -> {"idle", "view", "respond", "done", "login", "400"}]
  /\ sid \in [Posts -> 0 .. logins]
  /\ copy \in [Posts -> Session!Data \cup {None}]
  /\ dirty \in [Posts -> {"no", "page", "switch"}]
  /\ fresh \in [Posts -> BOOLEAN]
  /\ first \in [Session!Sids -> Session!Data \cup {None}]
  /\ wanted \in [Session!Sids -> Session!Data \cup {None}]
  /\ over \subseteq 1 .. logins

\* What lies in the cache.
Stored(s) ==
  store[s] # None =>
    /\ s <= logins
    /\ store[s] = first[s] \/ Coherent(store[s])
    /\ s \in stale \/ store[s] = wanted[s]
    /\ s \notin over

\* What a request has loaded, and what it has made of it.
Loaded(r) ==
  /\ requestStep[r] \in {"idle", "view"} => dirty[r] = "no"
  /\ requestStep[r] \in {"view", "respond"} =>
       /\ sid[r] \in Session!Sids /\ copy[r] \in Session!Data
       /\ copy[r] = first[sid[r]] \/ Coherent(copy[r])
       /\ fresh[r] /\ dirty[r] # "switch" /\ store[sid[r]] # None
            => copy[r] = store[sid[r]]

SessionInv ==
  /\ SessionTypes
  /\ \A s \in Session!Sids : Stored(s)
  /\ \A r \in Posts : Loaded(r)

-----------------------------------------------------------------------------
\* There is no session yet.
LEMMA InitSession == RegionsExist /\ Session!Init => SessionInv
BY DEF RegionsExist, Session!Init, SessionInv, SessionTypes, Stored, Loaded,
   Session!Sids

\* The region a switch chooses is one of the project's.
LEMMA DefaultExists ==
  ASSUME RegionsExist, NEW p \in Tenants
  PROVE  Session!DefaultRegion(p) \in RegionsOf[p] /\ Session!DefaultRegion(p) \in Regions
<1>1. RegionsOf[p] \subseteq Regions /\ RegionsOf[p] # {}
  BY DEF RegionsExist
<1>2. (CHOOSE g \in RegionsOf[p] : TRUE) \in RegionsOf[p]
  BY <1>1
<1>3. Session!DefaultRegion(p) \in RegionsOf[p]
  BY <1>2 DEF Session!DefaultRegion
<1> QED
  BY <1>1, <1>3

\* A login makes a session that no request has come with.
LEMMA LoginKeepsInv ==
  ASSUME RegionsExist, SessionInv, Session!Login
  PROVE  SessionInv'
<1>1. PICK p \in Tenants, g \in Regions :
        /\ store' = [store EXCEPT ![logins'] = [project |-> p, region |-> g]]
        /\ first' = [first EXCEPT ![logins'] = [project |-> p, region |-> g]]
        /\ wanted' = [wanted EXCEPT ![logins'] = [project |-> p, region |-> g]]
  <2>1. PICK p \in Tenants : \E g \in Regions \cup {Session!DefaultRegion(p)} :
          /\ store' = [store EXCEPT ![logins'] = [project |-> p, region |-> g]]
          /\ first' = [first EXCEPT ![logins'] = [project |-> p, region |-> g]]
          /\ wanted' = [wanted EXCEPT ![logins'] = [project |-> p, region |-> g]]
    BY Zenon DEF Session!Login
  <2>2. Session!DefaultRegion(p) \in Regions
    BY DefaultExists
  <2> QED
    BY <2>1, <2>2, Zenon
<1>2. /\ logins' = logins + 1 /\ logins < MaxLogins /\ cookie' = logins'
      /\ UNCHANGED <<requestStep, sid, copy, dirty, fresh, stale, over>>
  BY DEF Session!Login, Session!Request
<1>3. logins' \in Session!Sids /\ [project |-> p, region |-> g] \in Session!Data
  BY <1>2 DEF RegionsExist, SessionInv, SessionTypes, Session!Sids,
     Session!Data
<1>4. SessionTypes'
  BY <1>1, <1>2, <1>3 DEF RegionsExist, SessionInv, SessionTypes, Session!Sids
<1>5. ASSUME NEW s \in Session!Sids PROVE Stored(s)'
  <2>1. CASE s = logins'
    BY <1>1, <1>2, <1>3, <2>1 DEF SessionInv, SessionTypes, Stored
  <2>2. CASE s # logins'
    <3>1. store'[s] = store[s] /\ first'[s] = first[s] /\ wanted'[s] = wanted[s]
      BY <1>1, <1>3, <2>2 DEF SessionInv, SessionTypes
    <3>2. s <= logins => s <= logins'
      BY <1>2 DEF SessionInv, SessionTypes, Session!Sids, RegionsExist
    <3> QED
      BY <1>2, <3>1, <3>2 DEF SessionInv, Stored, Coherent
  <2> QED
    BY <2>1, <2>2
<1>6. ASSUME NEW r \in Posts PROVE Loaded(r)'
  BY <1>1, <1>2, <1>3 DEF RegionsExist, SessionInv, SessionTypes, Loaded,
     Session!Sids, Coherent
<1> QED
  BY <1>4, <1>5, <1>6 DEF SessionInv

\* A request saves a copy that was coherent when it was loaded, or that it
\* has made coherent; what a later one saves over an older copy is stale.
LEMMA ServeKeepsInv ==
  ASSUME RegionsExist, SessionInv, NEW r \in Posts, Session!Serve(r)
  PROVE  SessionInv'
<1> USE DEF Session!Goto
<1>1. CASE Session!Arrive(r)
  <2>0. /\ requestStep[r] = "idle"
        /\ UNCHANGED <<store, cookie, logins, dirty, fresh, first, wanted, stale, over>>
    BY <1>1 DEF Session!Arrive, Session!History
  <2>1. CASE ~Session!Authenticated(cookie)
    BY <1>1, <2>0, <2>1 DEF Session!Arrive, SessionInv, SessionTypes, Stored,
       Loaded, Coherent
  <2>2. CASE Session!Authenticated(cookie)
    <3>1. /\ sid' = [sid EXCEPT ![r] = cookie]
          /\ copy' = [copy EXCEPT ![r] = store[cookie]]
          /\ requestStep' = [requestStep EXCEPT ![r] = "view"]
      BY <1>1, <2>2 DEF Session!Arrive
    <3>2. /\ cookie \in Session!Sids /\ store[cookie] \in Session!Data
          /\ Stored(cookie) /\ store[cookie] # None
      BY <2>2 DEF Session!Authenticated, RegionsExist, SessionInv,
         SessionTypes, Session!Sids
    <3>3. SessionTypes'
      BY <2>0, <3>1, <3>2 DEF SessionInv, SessionTypes
    <3>4. ASSUME NEW q \in Posts PROVE Loaded(q)'
      BY <2>0, <3>1, <3>2 DEF SessionInv, SessionTypes, Stored, Loaded,
         Coherent
    <3> QED
      BY <2>0, <3>3, <3>4 DEF SessionInv, Stored, Coherent
  <2> QED
    BY <2>1, <2>2
<1>2. CASE Session!Page(r)
  BY <1>2 DEF Session!Page, Session!History, SessionInv, SessionTypes, Stored,
     Loaded, Session!Sids
<1>3. CASE Session!Switch(r) \/ Session!SwitchRegion(r)
  <2>1. /\ requestStep[r] = "view"
        /\ requestStep' = [requestStep EXCEPT ![r] = "respond"]
        /\ UNCHANGED <<store, cookie, logins, expired, sid, fresh, Session!History>>
        /\ \/ UNCHANGED <<copy, dirty>>
           \/ \E d \in Session!Data : Session!Changes(r, d) /\ Coherent(d)
    <3>1. CASE Session!Switch(r)
      <4>1. ASSUME NEW p \in Tenants
            PROVE  /\ Session!Switched(r, p) \in Session!Data
                   /\ Coherent(Session!Switched(r, p))
        BY DefaultExists DEF Session!Switched, Session!Data, Coherent
      <4> QED
        BY <3>1, <4>1 DEF Session!Switch
    <3>2. CASE Session!SwitchRegion(r)
      <4>0. copy[r] \in Session!Data
        BY <3>2 DEF Session!SwitchRegion, SessionInv, Loaded
      <4>1. ASSUME NEW g \in Regions, g \in RegionsOf[copy[r].project]
            PROVE  LET d == [copy[r] EXCEPT !.region = g]
                   IN  d \in Session!Data /\ Coherent(d)
        BY <4>0, <4>1 DEF Session!Data, Coherent
      <4> QED
        BY <3>2, <4>1 DEF Session!SwitchRegion
    <3> QED
      BY <1>3, <3>1, <3>2
  <2>2. CASE UNCHANGED <<copy, dirty>>
    BY <2>1, <2>2 DEF Session!History, SessionInv, SessionTypes, Stored,
       Loaded, Session!Sids
  <2>3. ASSUME NEW d \in Session!Data, Session!Changes(r, d), Coherent(d)
        PROVE  SessionInv'
    BY <2>1, <2>3 DEF Session!Changes, Session!History, SessionInv,
       SessionTypes, Stored, Loaded, Session!Sids, Coherent
  <2> QED
    BY <2>1, <2>2, <2>3
<1>4. CASE Session!Logout(r)
  <2>1. /\ requestStep[r] = "view"
        /\ requestStep' = [requestStep EXCEPT ![r] = "done"]
        /\ store' = [store EXCEPT ![sid[r]] = None]
        /\ over' = over \cup {sid[r]}
        /\ cookie' = 0 \/ cookie' = cookie
        /\ UNCHANGED <<logins, sid, copy, dirty, fresh, first, wanted, stale>>
    BY <1>4 DEF Session!Logout, Session!Request
  <2>2. sid[r] \in Session!Sids /\ sid[r] \in 1 .. logins
    BY <2>1 DEF SessionInv, Loaded, SessionTypes, Session!Sids
  <2>3. SessionTypes'
    <3>1. over' \subseteq 1 .. logins
      BY <2>1, <2>2 DEF SessionInv, SessionTypes
    <3>2. cookie' \in 0 .. logins
      BY <2>1, <2>2 DEF RegionsExist, SessionInv, SessionTypes
    <3> QED
      BY <2>1, <2>2, <3>1, <3>2 DEF SessionInv, SessionTypes
  <2>4. \A s \in Session!Sids : Stored(s)'
    BY <2>1, <2>2 DEF SessionInv, SessionTypes, Stored, Coherent
  <2>5. \A q \in Posts : Loaded(q)'
    BY <2>1, <2>2 DEF SessionInv, SessionTypes, Loaded, Coherent
  <2> QED
    BY <2>3, <2>4, <2>5 DEF SessionInv
<1>5. CASE Session!Respond(r)
  <2>0. /\ requestStep[r] = "respond"
        /\ requestStep' \in {[requestStep EXCEPT ![r] = s] : s \in {"done", "400"}}
        /\ UNCHANGED <<cookie, last, logins, expired, sid, copy, dirty, first, over>>
    BY <1>5 DEF Session!Respond
  <2>1. CASE UNCHANGED <<store, fresh, wanted, stale>>
    <3>1. PICK e \in {"done", "400"} : requestStep' = [requestStep EXCEPT ![r] = e]
      BY <2>0
    <3>2. SessionTypes'
      BY <2>0, <2>1, <3>1 DEF SessionInv, SessionTypes
    <3>3. \A q \in Posts : Loaded(q)'
      BY <2>0, <2>1, <3>1 DEF SessionInv, SessionTypes, Loaded, Coherent
    <3> QED
      BY <2>0, <2>1, <3>2, <3>3 DEF SessionInv, Stored, Coherent
  <2>2. CASE /\ dirty[r] # "no" /\ store[sid[r]] # None
             /\ store' = [store EXCEPT ![sid[r]] = copy[r]]
             /\ wanted' = IF dirty[r] = "switch"
                          THEN [wanted EXCEPT ![sid[r]] = copy[r]] ELSE wanted
             /\ stale' = IF fresh[r] THEN stale ELSE stale \cup {sid[r]}
             /\ fresh' = [q \in Posts |-> fresh[q] /\ (q = r \/ sid[q] # sid[r])]
    <3>1. sid[r] \in Session!Sids /\ copy[r] \in Session!Data /\ Loaded(r)
      BY <2>0 DEF SessionInv, Loaded
    <3>2. SessionTypes'
      BY <2>0, <2>2, <3>1 DEF SessionInv, SessionTypes
    <3>3. ASSUME NEW s \in Session!Sids PROVE Stored(s)'
      BY <2>0, <2>2, <3>1 DEF SessionInv, SessionTypes, Stored, Loaded,
         Coherent
    <3>4. ASSUME NEW q \in Posts PROVE Loaded(q)'
      BY <2>0, <2>2, <3>1 DEF SessionInv, SessionTypes, Loaded, Coherent
    <3> QED
      BY <3>2, <3>3, <3>4 DEF SessionInv
  <2> QED
    BY <1>5, <2>1, <2>2 DEF Session!Respond
<1> QED
  BY <1>1, <1>2, <1>3, <1>4, <1>5 DEF Session!Serve

\* Nothing that is dropped or has expired comes back.
LEMMA OutsideKeepsInv ==
  ASSUME RegionsExist, SessionInv, Session!Expire \/ Session!Drop
  PROVE  SessionInv'
<1>1. CASE Session!Expire
  BY <1>1 DEF Session!Expire, Session!Request, Session!History, SessionInv,
     SessionTypes, Stored, Loaded, Coherent
<1>2. CASE Session!Drop
  BY <1>2 DEF Session!Drop, Session!Request, RegionsExist, SessionInv,
     SessionTypes, Stored, Loaded, Coherent, Session!Sids
<1> QED
  BY <1>1, <1>2

\* The whole makes the assumptions of this part.
LEMMA RegionsDoExist == RegionsExist
BY PortalAssumption DEF RegionsExist

\* Every step of a request or a browser keeps the sessions coherent.
LEMMA SessionStep ==
  ASSUME RegionsExist, SessionInv, [Session!Next]_(Session!vars)
  PROVE  SessionInv'
<1>1. UNCHANGED Session!vars => SessionInv'
  BY DEF Session!vars, Session!Request, SessionInv, SessionTypes, Stored,
     Loaded, Coherent
<1> QED
  BY <1>1, LoginKeepsInv, ServeKeepsInv, OutsideKeepsInv DEF Session!Next

(***************************************************************************)
(* For any requests, projects and regions, a session in the cache and the  *)
(* copies of the requests at work on it fit together                       *)
(* (set_session_from_user, process_response).                              *)
(***************************************************************************)
THEOREM SessionInvariance == PortalSpec => [](part = "session" => SessionInv)
<1>1. PortalInit => (part = "session" => SessionInv)
  BY InitSession, RegionsDoExist DEF PortalInit
<1>2. (part = "session" => SessionInv) /\ [PortalNext]_allvars
        => (part = "session" => SessionInv)'
  BY StepOfPart, SessionStep, RegionsDoExist
<1> QED
  BY <1>1, <1>2, PTL DEF PortalSpec

(***************************************************************************)
(* The region of a session is one of its project's, or both are as the     *)
(* login left them; they are what the last login or switch made them       *)
(* unless an old copy was saved; and a session that is over does not come  *)
(* back (set_session_from_user, switch, switch_region).                    *)
(***************************************************************************)
THEOREM SessionsCohere == PortalSpec => []SessionCoheres
<1>1. (part = "session" => SessionInv) => SessionCoheres
  BY DEF SessionInv, Stored, Coherent, Session!SessionCoheres, SessionCoheres
<1> QED
  BY <1>1, SessionInvariance, PTL
-----------------------------------------------------------------------------
(* Types.                                                                  *)

\* What a POST has loaded of the table are statuses.
LEMMA DataType ==
  ASSUME TableInv, data \in [Posts -> [Ids -> AdcRows!Status]],
         [AdcRows!Next]_(AdcRows!vars)
  PROVE  data' \in [Posts -> [Ids -> AdcRows!Status]]
<1> DEFINE Rows == [Ids -> AdcRows!Status]
<1>1. AdcRows!Nothing \in Rows
  BY DEF AdcRows!Nothing, AdcRows!Status
<1>2. ASSUME NEW p, NEW S PROVE AdcRows!Listed(p, S) \in Rows
  BY DEF AdcRows!Listed, AdcRows!Status, TableInv, TableTypes
<1>3. ASSUME NEW q \in Posts, AdcRows!Handle(q) PROVE data' \in [Posts -> Rows]
  <2>1. \/ UNCHANGED data
        \/ data' = [data EXCEPT ![q] = AdcRows!Listed(mine[q], chosen[q])]
        \/ data' = [data EXCEPT ![q] = AdcRows!Nothing]
    BY <1>3, Zenon DEF AdcRows!Handle, AdcRows!Post, AdcRows!Load,
       AdcRows!Act, AdcRows!NoMatch, AdcRows!Report
  <2> HIDE DEF Rows
  <2> QED
    BY <1>1, <1>2, <2>1 DEF Rows
<1>4. AdcRows!Create \/ AdcRows!Settle \/ AdcRows!SwitchProject
        \/ UNCHANGED AdcRows!vars => UNCHANGED data
  BY DEF AdcRows!Create, AdcRows!Settle, AdcRows!SwitchProject,
     AdcRows!Posting, AdcRows!vars
<1> QED
  BY <1>3, <1>4 DEF AdcRows!Next

\* The table of ADCs keeps to its types.
LEMMA AdcRowsTyped == PortalSpec => [](part = "adcs" => AdcRows!TypeOK)
<1> DEFINE Typed == data \in [Posts -> [Ids -> AdcRows!Status]]
<1>1. PortalInit => (part = "adcs" => Typed)
  BY DEF PortalInit, AdcRows!Init, AdcRows!Status
<1>2. /\ part = "adcs" => TableInv
      /\ part = "adcs" => Typed
      /\ [PortalNext]_allvars
      => (part = "adcs" => Typed)'
  BY StepOfPart, DataType
<1>3. (part = "adcs" => TableInv) /\ (part = "adcs" => Typed)
        => (part = "adcs" => AdcRows!TypeOK)
  BY DEF TableInv, TableTypes, AdcRows!TypeOK
<1> QED
  BY <1>1, <1>2, <1>3, TableInvariance, PTL DEF PortalSpec

\* What the browser and the cache say of sessions they have had.
SessionRest ==
  /\ last \in Regions \cup {None}
  /\ expired \subseteq Session!Sids /\ stale \subseteq Session!Sids

\* Regions and sessions come from where there are such.
LEMMA SessionRestStep ==
  ASSUME RegionsExist, SessionInv, SessionRest, [Session!Next]_(Session!vars)
  PROVE  SessionRest'
<1>1. CASE Session!Login
  BY <1>1 DEF Session!Login, SessionRest
<1>2. ASSUME NEW r \in Posts, Session!Serve(r) PROVE SessionRest'
  <2>1. CASE Session!Arrive(r) \/ Session!Page(r) \/ Session!Switch(r) \/ Session!Logout(r)
    BY <2>1 DEF Session!Arrive, Session!Page, Session!Switch, Session!Logout,
       Session!History, SessionRest
  <2>2. CASE Session!SwitchRegion(r)
    <3>1. copy[r] \in Session!Data
      BY <2>2 DEF Session!SwitchRegion, SessionInv, Loaded
    <3>2. copy[r].region \in Regions
      BY <3>1 DEF Session!Data
    <3>3. last' \in Regions /\ UNCHANGED <<expired, stale>>
      BY <2>2, <3>2 DEF Session!SwitchRegion, Session!History
    <3> QED
      BY <3>3 DEF SessionRest
  <2>3. CASE Session!Respond(r)
    <3>1. sid[r] \in Session!Sids
      BY <2>3 DEF Session!Respond, SessionInv, Loaded
    <3> QED
      BY <2>3, <3>1 DEF Session!Respond, SessionRest
  <2> QED
    BY <1>2, <2>1, <2>2, <2>3 DEF Session!Serve
<1>3. CASE Session!Expire
  <2>1. 1 .. logins \subseteq Session!Sids
    BY DEF RegionsExist, SessionInv, SessionTypes, Session!Sids
  <2> QED
    BY <1>3, <2>1 DEF Session!Expire, Session!History, SessionRest
<1>4. CASE Session!Drop
  BY <1>4 DEF Session!Drop, SessionRest
<1>5. CASE UNCHANGED Session!vars
  BY <1>5 DEF Session!vars, SessionRest
<1> QED
  BY <1>1, <1>2, <1>3, <1>4, <1>5 DEF Session!Next

\* A session keeps to its types.
LEMMA SessionTyped == PortalSpec => [](part = "session" => Session!TypeOK)
<1>1. PortalInit => (part = "session" => SessionRest)
  BY DEF PortalInit, Session!Init, SessionRest
<1>2. /\ part = "session" => SessionInv
      /\ part = "session" => SessionRest
      /\ [PortalNext]_allvars
      => (part = "session" => SessionRest)'
  BY StepOfPart, SessionRestStep, RegionsDoExist
<1>3. (part = "session" => SessionInv) /\ (part = "session" => SessionRest)
        => (part = "session" => Session!TypeOK)
  <2> SUFFICES ASSUME SessionInv, SessionRest PROVE Session!TypeOK
    OBVIOUS
  <2>1. logins \in 0 .. MaxLogins /\ MaxLogins \in Nat
    BY RegionsDoExist DEF SessionInv, SessionTypes, RegionsExist
  <2>2. 0 .. logins \subseteq 0 .. MaxLogins /\ 1 .. logins \subseteq Session!Sids
    BY <2>1 DEF Session!Sids
  <2>3. cookie \in 0 .. MaxLogins /\ sid \in [Posts -> 0 .. MaxLogins]
    BY <2>2 DEF SessionInv, SessionTypes
  <2>4. over \subseteq Session!Sids
    BY <2>2 DEF SessionInv, SessionTypes
  <2> QED
    BY <2>1, <2>3, <2>4 DEF SessionInv, SessionTypes, SessionRest,
       Session!TypeOK
<1> QED
  BY <1>1, <1>2, <1>3, SessionInvariance, PTL DEF PortalSpec

\* Beside the other parts, the role forms do what they do alone: at rest they
\* are in one of their initial states.
LEMMA RolesRun == PortalSpec => []RoleInv
<1>1. PortalInit => Init
  BY DEF PortalInit, RolesAtRest, Init
<1>2. RoleInv /\ [PortalNext]_allvars => RoleInv'
  <2>1. RoleInv /\ [Next]_vars => RoleInv'
    BY CallsInv, OwnInv, StutterInv DEF Next
  <2> QED
    BY <2>1, StepOfPart, StutterInv
<1> QED
  BY <1>1, <1>2, InitInv, PTL DEF PortalSpec

\* Which part runs does not change.
LEMMA PartStays == PortalSpec => [](part \in Parts)
<1>1. PortalInit => part \in Parts
  BY DEF PortalInit
<1>2. part \in Parts /\ [PortalNext]_allvars => (part \in Parts)'
  BY StepOfPart
<1> QED
  BY <1>1, <1>2, PTL DEF PortalSpec

(***************************************************************************)
(* Whichever part runs, and however many users, requests, rows, addresses  *)
(* or logins there are, its variables keep to their types.                 *)
(***************************************************************************)
THEOREM PartsTyped == PortalSpec => []PartsTypeOK
<1> DEFINE Runs ==
      /\ part = "task" => TaskInv /\ Task!TypeOK
      /\ part = "hardware" => HardwareInv
      /\ part = "app" => DeployInv
      /\ part = "fip" => FipInv
      /\ part = "net" => NetInv
      /\ part = "flavor" => FlavorInv
      /\ part = "trunk" => TrunkInv
      /\ part = "memo" => MemoInv
      /\ part = "table" => PageInv
      /\ part = "filter" => FilterInv
      /\ part = "adcs" => AdcRows!TypeOK
      /\ part = "session" => Session!TypeOK
<1>1. HardwareInv => Hardware!TypeOK
  BY DEF HardwareInv
<1>2. DeployInv => App!TypeOK
  BY DEF DeployInv, DeployTypes, App!TypeOK
<1>3. FipInv => Fip!TypeOK
  BY DEF FipInv
<1>4. NetInv => Net!TypeOK
  BY DEF NetInv
<1>5. FlavorInv => Flavor!TypeOK
  <2> SUFFICES ASSUME FlavorInv PROVE Flavor!TypeOK
    OBVIOUS
  <2>1. used \in 0 .. MaxId
    BY PortalAssumption DEF FlavorInv, FlavorTypes
  <2> QED
    BY <2>1 DEF FlavorInv, FlavorTypes, Flavor!TypeOK
<1>6. TrunkInv => Trunk!TypeOK
  BY DEF TrunkInv
<1>7. MemoInv => Memo!TypeOK
  BY DEF MemoInv
<1>8. PageInv => Table!TypeOK
  BY DEF PageInv
<1>9. FilterInv => Filter!TypeOK
  BY DEF FilterInv
<1>10. RoleInv => TypeOK
  BY InvIsGood
<1>11. part \in Parts /\ RoleInv /\ Runs => PartsTypeOK
  <2> SUFFICES ASSUME part \in Parts, RoleInv, Runs PROVE PartsTypeOK
    OBVIOUS
  <2>1. TypeOK
    BY <1>10
  <2>2. part = "flavor" => Flavor!TypeOK
    BY <1>1, <1>2, <1>3, <1>4, <1>5, <1>6, <1>7, <1>8, <1>9, Zenon
  <2>3. part = "table" => Table!TypeOK
    BY <1>1, <1>2, <1>3, <1>4, <1>5, <1>6, <1>7, <1>8, <1>9, Zenon
  <2>4. part = "memo" => Memo!TypeOK
    BY <1>1, <1>2, <1>3, <1>4, <1>5, <1>6, <1>7, <1>8, <1>9, Zenon
  <2>5. part = "adcs" => AdcRows!TypeOK
    BY <1>1, <1>2, <1>3, <1>4, <1>5, <1>6, <1>7, <1>8, <1>9, Zenon
  <2>6. part = "trunk" => Trunk!TypeOK
    BY <1>1, <1>2, <1>3, <1>4, <1>5, <1>6, <1>7, <1>8, <1>9, Zenon
  <2>7. part = "app" => App!TypeOK
    BY <1>1, <1>2, <1>3, <1>4, <1>5, <1>6, <1>7, <1>8, <1>9, Zenon
  <2>8. part = "fip" => Fip!TypeOK
    BY <1>1, <1>2, <1>3, <1>4, <1>5, <1>6, <1>7, <1>8, <1>9, Zenon
  <2>9. part = "task" => Task!TypeOK
    BY <1>1, <1>2, <1>3, <1>4, <1>5, <1>6, <1>7, <1>8, <1>9, Zenon
  <2>10. part = "filter" => Filter!TypeOK
    BY <1>1, <1>2, <1>3, <1>4, <1>5, <1>6, <1>7, <1>8, <1>9, Zenon
  <2>11. part = "net" => Net!TypeOK
    BY <1>1, <1>2, <1>3, <1>4, <1>5, <1>6, <1>7, <1>8, <1>9, Zenon
  <2>12. part = "session" => Session!TypeOK
    BY <1>1, <1>2, <1>3, <1>4, <1>5, <1>6, <1>7, <1>8, <1>9, Zenon
  <2>13. part = "hardware" => Hardware!TypeOK
    BY <1>1, <1>2, <1>3, <1>4, <1>5, <1>6, <1>7, <1>8, <1>9, Zenon
  <2> HIDE DEF Runs
  <2>14. CASE part = "roles"
    BY <2>1, <2>14 DEF PartsTypeOK
  <2>15. CASE part = "flavor"
    BY <2>2, <2>15 DEF PartsTypeOK
  <2>16. CASE part = "table"
    BY <2>3, <2>16 DEF PartsTypeOK
  <2>17. CASE part = "memo"
    BY <2>4, <2>17 DEF PartsTypeOK
  <2>18. CASE part = "adcs"
    BY <2>5, <2>18 DEF PartsTypeOK
  <2>19. CASE part = "trunk"
    BY <2>6, <2>19 DEF PartsTypeOK
  <2>20. CASE part = "app"
    BY <2>7, <2>20 DEF PartsTypeOK
  <2>21. CASE part = "fip"
    BY <2>8, <2>21 DEF PartsTypeOK
  <2>22. CASE part = "task"
    BY <2>9, <2>22 DEF PartsTypeOK
  <2>23. CASE part = "filter"
    BY <2>10, <2>23 DEF PartsTypeOK
  <2>24. CASE part = "net"
    BY <2>11, <2>24 DEF PartsTypeOK
  <2>25. CASE part = "session"
    BY <2>12, <2>25 DEF PartsTypeOK
  <2>26. CASE part = "hardware"
    BY <2>13, <2>26 DEF PartsTypeOK
  <2> QED
    BY <2>14, <2>15, <2>16, <2>17, <2>18, <2>19, <2>20, <2>21, <2>22, <2>23,
       <2>24, <2>25, <2>26 DEF Parts
<1> QED
  BY <1>11, PartStays, RolesRun, TaskRuns, HardwareInvariance,
     DeployInvariance, FipRuns, NetRuns, FlavorInvariance, TrunkRuns,
     MemoRuns, TableRuns, FilterRuns, AdcRowsTyped, SessionTyped, PTL
=============================================================================
