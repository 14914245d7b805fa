---------------------------- MODULE FormsProofs ----------------------------
(***************************************************************************)
(* What is proved of the forms by which the portal makes and changes a     *)
(* network (NetworkForms), a flavor (FlavorForms) and a trunk (TrunkForms),*)
(* for any number of requests and whatever calls fail.                     *)
(***************************************************************************)
EXTENDS PartsProofs

-----------------------------------------------------------------------------
(* The network workflow.                                                   *)

\* What a request has made and said by the time it gets somewhere in handle().
Answered(r) ==
  /\ netStep[r] = "network" => said[r] = {}
  /\ netStep[r] = "subnet" => said[r] = {} /\ network[r] /\ withSubnet[r]
  /\ netStep[r] = "rollback" => said[r] = {"error"} /\ withSubnet[r]
  /\ "success" \in said[r] =>
       netStep[r] = "success" /\ network[r] /\ (withSubnet[r] => subnet[r])
  /\ "info" \in said[r] => netStep[r] = "redirect" /\ ~network[r]
  /\ netStep[r] = "redirect" /\ network[r] => unsure[r] /\ "error" \in said[r]

NetInv == Net!TypeOK /\ \A r \in Posts : Answered(r)

-----------------------------------------------------------------------------
\* A flag that is set or taken back is a flag.
LEMMA FlagType ==
  ASSUME NEW f \in [Posts -> BOOLEAN], NEW r \in Posts, NEW b \in BOOLEAN
  PROVE  Net!Is(f, r, b) \in [Posts -> BOOLEAN]
BY Zenon DEF Net!Is

\* Nothing has been posted.
LEMMA InitNet == Net!Init => NetInv
BY DEF Net!Init, NetInv, Net!TypeOK, Answered, Net!Nowhere, Net!Ended

\* The first call creates the network, or may have, or ends the request.
LEMMA CreateNetworkKeepsInv ==
  ASSUME NetInv, NEW r \in Posts, Net!CreateNetwork(r)
  PROVE  NetInv'
<1>1. Net!TypeOK'
  <2>a. /\ network' \in {network, Net!Is(network, r, TRUE), Net!Is(network, r, FALSE)}
        /\ subnet' \in {subnet, Net!Is(subnet, r, TRUE), Net!Is(subnet, r, FALSE)}
    BY Zenon DEF Net!CreateNetwork
  <2>0. network \in [Posts -> BOOLEAN] /\ subnet \in [Posts -> BOOLEAN]
    BY DEF NetInv, Net!TypeOK
  <2>1. network' \in [Posts -> BOOLEAN] /\ subnet' \in [Posts -> BOOLEAN]
    <3>1. /\ Net!Is(network, r, TRUE) \in [Posts -> BOOLEAN]
          /\ Net!Is(network, r, FALSE) \in [Posts -> BOOLEAN]
          /\ Net!Is(subnet, r, TRUE) \in [Posts -> BOOLEAN]
          /\ Net!Is(subnet, r, FALSE) \in [Posts -> BOOLEAN]
      BY <2>0, FlagType
    <3> QED
      BY <2>0, <2>a, <3>1
  <2>2. unsure' \in [Posts -> BOOLEAN]
    BY FlagType DEF Net!CreateNetwork, NetInv, Net!TypeOK
  <2>3. netStep' \in [Posts -> {"network", "subnet", "rollback"} \cup Net!Ended]
    BY DEF Net!CreateNetwork, Net!Goto, Net!Unauthorized, Net!Redirected,
       Net!Succeeds, NetInv, Net!TypeOK, Net!Ended
  <2>b. \/ said' = said
        \/ said' = [said EXCEPT ![r] = {}]
        \/ \E ms \in {{}, {"error"}, {"success"}} : said' = [said EXCEPT ![r] = @ \cup ms]
    BY DEF Net!CreateNetwork, Net!Says, Net!Unauthorized, Net!Redirected,
       Net!Succeeds
  <2>4. said' \in [Posts -> SUBSET {"success", "info", "error"}]
    BY <2>b DEF NetInv, Net!TypeOK
  <2> QED
    BY <2>1, <2>2, <2>3, <2>4 DEF Net!CreateNetwork, NetInv, Net!TypeOK
<1>2. Answered(r)'
  <2>1. netStep[r] = "network" /\ said[r] = {}
    BY DEF Net!CreateNetwork, NetInv, Answered
  <2>2. CASE /\ network' = Net!Is(network, r, TRUE) /\ withSubnet[r]
             /\ Net!Goto(r, "subnet") /\ UNCHANGED said
    <3>1. netStep'[r] = "subnet" /\ said'[r] = {} /\ network'[r] /\ withSubnet'[r]
      BY <2>1, <2>2 DEF Net!CreateNetwork, Net!Goto, Net!Is, NetInv, Net!TypeOK
    <3> QED
      BY <3>1 DEF Answered
  <2>3. CASE /\ network' = Net!Is(network, r, TRUE) /\ ~withSubnet[r]
             /\ Net!Succeeds(r)
    <3>1. /\ netStep'[r] = "success" /\ said'[r] = {"success"} /\ network'[r]
          /\ ~withSubnet'[r]
      BY <2>1, <2>3 DEF Net!CreateNetwork, Net!Goto, Net!Is, Net!Says,
         Net!Succeeds, NetInv, Net!TypeOK
    <3> QED
      BY <3>1 DEF Answered
  <2>4. CASE Net!Redirected(r, {})
    <3>1. netStep'[r] = "redirect" /\ said'[r] = {"error"} /\ unsure'[r]
      BY <2>1, <2>4 DEF Net!CreateNetwork, Net!Goto, Net!Is, Net!Says,
         Net!Redirected, NetInv, Net!TypeOK
    <3> QED
      BY <3>1 DEF Answered
  <2>5. CASE Net!Unauthorized(r)
    <3>1. netStep'[r] = "403" /\ said'[r] = {}
      BY <2>5 DEF Net!Goto, Net!Unauthorized, NetInv, Net!TypeOK
    <3> QED
      BY <3>1 DEF Answered
  <2> QED
    BY <2>2, <2>3, <2>4, <2>5 DEF Net!CreateNetwork
<1>3. ASSUME NEW q \in Posts, q # r
      PROVE  Answered(q)'
  <2>1. /\ network'[q] = network[q] /\ subnet'[q] = subnet[q]
        /\ netStep'[q] = netStep[q] /\ said'[q] = said[q]
        /\ unsure'[q] = unsure[q]
        /\ withSubnet'[q] = withSubnet[q]
    BY <1>3 DEF Net!CreateNetwork, Net!Goto, Net!Says, Net!Is,
       Net!Unauthorized, Net!Redirected, Net!Succeeds, NetInv, Net!TypeOK
  <2> QED
    BY <2>1 DEF NetInv, Answered
<1> QED
  BY <1>1, <1>2, <1>3 DEF NetInv

\* The second call completes the network, or leads to the rollback.
LEMMA CreateSubnetKeepsInv ==
  ASSUME NetInv, NEW r \in Posts, Net!CreateSubnet(r)
  PROVE  NetInv'
<1>1. Net!TypeOK'
  <2>a. /\ network' \in {network, Net!Is(network, r, TRUE), Net!Is(network, r, FALSE)}
        /\ subnet' \in {subnet, Net!Is(subnet, r, TRUE), Net!Is(subnet, r, FALSE)}
    BY Zenon DEF Net!CreateSubnet
  <2>0. network \in [Posts -> BOOLEAN] /\ subnet \in [Posts -> BOOLEAN]
    BY DEF NetInv, Net!TypeOK
  <2>1. network' \in [Posts -> BOOLEAN] /\ subnet' \in [Posts -> BOOLEAN]
    <3>1. /\ Net!Is(network, r, TRUE) \in [Posts -> BOOLEAN]
          /\ Net!Is(network, r, FALSE) \in [Posts -> BOOLEAN]
          /\ Net!Is(subnet, r, TRUE) \in [Posts -> BOOLEAN]
          /\ Net!Is(subnet, r, FALSE) \in [Posts -> BOOLEAN]
      BY <2>0, FlagType
    <3> QED
      BY <2>0, <2>a, <3>1
  <2>2. unsure' \in [Posts -> BOOLEAN]
    BY FlagType DEF Net!CreateSubnet, NetInv, Net!TypeOK
  <2>3. netStep' \in [Posts -> {"network", "subnet", "rollback"} \cup Net!Ended]
    BY DEF Net!CreateSubnet, Net!Goto, Net!Unauthorized, Net!Succeeds, NetInv,
       Net!TypeOK, Net!Ended
  <2>b. \/ said' = said
        \/ said' = [said EXCEPT ![r] = {}]
        \/ \E ms \in {{}, {"error"}, {"success"}} : said' = [said EXCEPT ![r] = @ \cup ms]
    BY DEF Net!CreateSubnet, Net!Says, Net!Unauthorized, Net!Succeeds
  <2>4. said' \in [Posts -> SUBSET {"success", "info", "error"}]
    BY <2>b DEF NetInv, Net!TypeOK
  <2> QED
    BY <2>1, <2>2, <2>3, <2>4 DEF Net!CreateSubnet, NetInv, Net!TypeOK
<1>2. Answered(r)'
  BY DEF Net!CreateSubnet, Net!Goto, Net!Says, Net!Is, Net!Unauthorized,
     Net!Succeeds, NetInv, Net!TypeOK, Net!Ended, Answered
<1>3. ASSUME NEW q \in Posts, q # r
      PROVE  Answered(q)'
  <2>1. /\ network'[q] = network[q] /\ subnet'[q] = subnet[q]
        /\ netStep'[q] = netStep[q] /\ said'[q] = said[q]
        /\ unsure'[q] = unsure[q]
        /\ withSubnet'[q] = withSubnet[q]
    BY <1>3 DEF Net!CreateSubnet, Net!Goto, Net!Says, Net!Is, Net!Unauthorized,
       Net!Succeeds, NetInv, Net!TypeOK
  <2> QED
    BY <2>1 DEF NetInv, Answered
<1> QED
  BY <1>1, <1>2, <1>3 DEF NetInv

\* The rollback: what is said to be deleted is gone, and a network that is
\* left is one whose deletion has failed.
LEMMA DeleteNetworkKeepsInv ==
  ASSUME NetInv, NEW r \in Posts, Net!DeleteNetwork(r)
  PROVE  NetInv'
<1>1. Net!TypeOK'
  <2>a. /\ network' \in {network, Net!Is(network, r, TRUE), Net!Is(network, r, FALSE)}
        /\ subnet' \in {subnet, Net!Is(subnet, r, TRUE), Net!Is(subnet, r, FALSE)}
    BY Zenon DEF Net!DeleteNetwork
  <2>0. network \in [Posts -> BOOLEAN] /\ subnet \in [Posts -> BOOLEAN]
    BY DEF NetInv, Net!TypeOK
  <2>1. network' \in [Posts -> BOOLEAN] /\ subnet' \in [Posts -> BOOLEAN]
    <3>1. /\ Net!Is(network, r, TRUE) \in [Posts -> BOOLEAN]
          /\ Net!Is(network, r, FALSE) \in [Posts -> BOOLEAN]
          /\ Net!Is(subnet, r, TRUE) \in [Posts -> BOOLEAN]
          /\ Net!Is(subnet, r, FALSE) \in [Posts -> BOOLEAN]
      BY <2>0, FlagType
    <3> QED
      BY <2>0, <2>a, <3>1
  <2>2. unsure' \in [Posts -> BOOLEAN]
    BY FlagType DEF Net!DeleteNetwork, NetInv, Net!TypeOK
  <2>3. netStep' \in [Posts -> {"network", "subnet", "rollback"} \cup Net!Ended]
    BY DEF Net!DeleteNetwork, Net!Goto, Net!Unauthorized, Net!Redirected,
       NetInv, Net!TypeOK, Net!Ended
  <2>b. \/ said' = said
        \/ said' = [said EXCEPT ![r] = {}]
        \/ \E ms \in {{}, {"error"}, {"info", "error"}} : said' = [said EXCEPT ![r] = @ \cup ms]
    BY DEF Net!DeleteNetwork, Net!Says, Net!Unauthorized, Net!Redirected
  <2>4. said' \in [Posts -> SUBSET {"success", "info", "error"}]
    BY <2>b DEF NetInv, Net!TypeOK
  <2> QED
    BY <2>1, <2>2, <2>3, <2>4 DEF Net!DeleteNetwork, NetInv, Net!TypeOK
<1>2. Answered(r)'
  BY DEF Net!DeleteNetwork, Net!Goto, Net!Says, Net!Is, Net!Unauthorized,
     Net!Redirected, NetInv, Net!TypeOK, Net!Ended, Answered
<1>3. ASSUME NEW q \in Posts, q # r
      PROVE  Answered(q)'
  <2>1. /\ network'[q] = network[q] /\ subnet'[q] = subnet[q]
        /\ netStep'[q] = netStep[q] /\ said'[q] = said[q]
        /\ unsure'[q] = unsure[q]
        /\ withSubnet'[q] = withSubnet[q]
    BY <1>3 DEF Net!DeleteNetwork, Net!Goto, Net!Says, Net!Is,
       Net!Unauthorized, Net!Redirected, NetInv, Net!TypeOK
  <2> QED
    BY <2>1 DEF NetInv, Answered
<1> QED
  BY <1>1, <1>2, <1>3 DEF NetInv

\* Every step of a network request keeps what it was told in its place.
LEMMA NetStep == NetInv /\ [Net!Next]_(Net!vars) => NetInv'
<1> SUFFICES ASSUME NetInv, [Net!Next]_(Net!vars)
             PROVE  NetInv'
  OBVIOUS
<1>1. CASE \E r \in Posts : Net!Handle(r)
  BY <1>1, CreateNetworkKeepsInv, CreateSubnetKeepsInv, DeleteNetworkKeepsInv
     DEF Net!Handle
<1>2. CASE \E r \in Posts : Net!PortComes(r)
  BY <1>2 DEF Net!PortComes, Net!Is, NetInv, Net!TypeOK, Answered
<1>3. CASE UNCHANGED Net!vars
  BY <1>3 DEF Net!vars, NetInv, Net!TypeOK, Answered
<1> QED
  BY <1>1, <1>2, <1>3 DEF Net!Next

\* The same of the whole, while this part runs.
LEMMA NetRuns == PortalSpec => [](part = "net" => NetInv)
<1>1. PortalInit => (part = "net" => NetInv)
  BY InitNet DEF PortalInit
<1>2. (part = "net" => NetInv) /\ [PortalNext]_allvars
        => (part = "net" => NetInv)'
  BY StepOfPart, NetStep
<1> QED
  BY <1>1, <1>2, PTL DEF PortalSpec

-----------------------------------------------------------------------------
(***************************************************************************)
(* Success means the network and its subnet; "Delete the created network"  *)
(* is said only of one that is gone; and a user is sent back with a        *)
(* network left only with an error message, after a call about the network *)
(* itself has failed (CreateNetwork.handle).                               *)
(***************************************************************************)
THEOREM NetworkWholeOrNothing == PortalSpec => []WholeOrNothing
<1>1. (part = "net" => NetInv) => WholeOrNothing
  BY DEF NetInv, Answered, Net!WholeOrNothing, WholeOrNothing
<1> QED
  BY NetRuns, <1>1, PTL

-----------------------------------------------------------------------------
(* The flavor workflows.                                                   *)

\* Ids can be given out, and None is no flavor.
FlavorConstants == MaxId \in Nat \ {0} /\ None \notin Flavor!Flavor

FlavorTypes ==
  /\ flavors \in [Flavor!FlavorIds -> Flavor!Flavor \cup {None}]
  /\ used \in 1 .. MaxId
  /\ flavorStep \in [Posts -> Flavor!Step]
  /\ target \in [Posts -> Flavor!FlavorIds]
  /\ info \in [Posts -> Infos]
  /\ access \in [Posts -> SUBSET Projects]
  /\ extras \in [Posts -> BOOLEAN]
  /\ drop \in [Posts -> SUBSET Projects]
  /\ add \in [Posts -> SUBSET Projects]
  /\ flavorErrors \in [Posts -> BOOLEAN]
  /\ flavorAlone \in [Posts -> BOOLEAN]
  /\ open \in [Posts -> BOOLEAN]

\* What a request has before it; one that edits a public flavor's choice of
\* projects alone does so in place.
Pending(r) ==
  /\ flavorStep[r] \notin {"modify", "done", "failed"} => ~open[r]
  /\ flavorStep[r] = "idle" => flavorAlone[r]
  /\ flavorStep[r] \in {"idle", "list"} => drop[r] = {} /\ ~extras[r]
  /\ flavorStep[r] \in {"extras", "delete", "create", "setextras", "setup", "new"} =>
       drop[r] = {}
  /\ flavorStep[r] \in {"extras", "delete", "create", "setextras"} => add[r] = access[r]

\* What the flavor is like while nobody else changes it: as the form says, up
\* to what is pending.
Edited(r, f) ==
  /\ flavorStep[r] \in {"list", "modify", "setextras", "setup", "new", "done"} =>
       f # None /\ f.info = info[r]
  /\ flavorStep[r] \in {"modify", "setup", "new", "done"} /\ extras[r] => f.extras
  /\ flavorStep[r] = "list" => ~f.public
  /\ flavorStep[r] = "modify" =>
       IF f.public
       THEN open[r] /\ drop[r] = {} /\ access[r] \subseteq f.access \cup add[r]
       ELSE /\ ~open[r]
            /\ drop[r] = f.access \ access[r] /\ add[r] = access[r] \ f.access
  /\ flavorStep[r] \in {"setextras", "setup", "new"} =>
       /\ f.public => access[r] = {}
       /\ f.access \subseteq access[r] /\ add[r] = access[r] \ f.access
  /\ flavorStep[r] = "done" =>
       IF f.public THEN access[r] = {} \/ (open[r] /\ access[r] \subseteq f.access)
       ELSE ~open[r] /\ f.access = access[r]

Editing(r) == Pending(r) /\ (flavorAlone[r] /\ ~flavorErrors[r] => Edited(r, Flavor!Mine(r)))

\* The flavor that is there is the only one; if it is not, somebody knows.
OneFlavor ==
  \A i, j \in Flavor!FlavorIds : flavors[i] # None /\ flavors[j] # None => i = j

Known ==
  \/ \E i \in Flavor!FlavorIds : flavors[i] # None
  \/ \E r \in Posts : flavorStep[r] = "create" \/ flavorErrors[r]
  \/ \A r \in Posts : flavorStep[r] \in {"idle", "failed"}

FlavorInv ==
  FlavorTypes /\ OneFlavor /\ Known /\ \A r \in Posts : Editing(r)

-----------------------------------------------------------------------------
\* No form has been posted, and there is one flavor or none.
LEMMA InitFlavor == FlavorConstants /\ Flavor!Init => FlavorInv
<1> SUFFICES ASSUME FlavorConstants, Flavor!Init PROVE FlavorInv
  OBVIOUS
<1>1. FlavorTypes
  BY DEF Flavor!Init, FlavorConstants, FlavorTypes, Flavor!FlavorIds,
     Flavor!Step
<1>2. OneFlavor
  BY DEF Flavor!Init, OneFlavor
<1> QED
  BY <1>1, <1>2 DEF Flavor!Init, FlavorInv, Known, Editing, Pending, Edited

\* The requests that a call of r does not belong to: they are left alone, or are
\* no longer alone.
FlavorSpared(r, q) ==
  /\ flavorStep'[q] = flavorStep[q] /\ target'[q] = target[q]
  /\ info'[q] = info[q]
  /\ access'[q] = access[q] /\ extras'[q] = extras[q] /\ drop'[q] = drop[q]
  /\ add'[q] = add[q] /\ flavorErrors'[q] = flavorErrors[q]
  /\ open'[q] = open[q]
  /\ \/ flavors' = flavors /\ flavorAlone'[q] = flavorAlone[q]
     \/ flavorAlone'[q] = (flavorAlone[q] /\ flavorStep[q] = "idle")

\* What is said of a request survives what it is spared.
LEMMA SparedKeepsEditing ==
  ASSUME FlavorInv, NEW r \in Posts, NEW q \in Posts, FlavorSpared(r, q)
  PROVE  Editing(q)'
BY DEF FlavorSpared, FlavorInv, FlavorTypes, Editing, Pending, Edited,
   Flavor!Mine

\* Another request changes nothing of q.
LEMMA UpdateSpares ==
  ASSUME FlavorInv, NEW r \in Posts, Flavor!Update(r) \/ Flavor!Create(r),
         NEW q \in Posts, q # r
  PROVE  FlavorSpared(r, q)
<1> USE DEF FlavorSpared, FlavorInv, FlavorTypes, Flavor!Goto, Flavor!Fails,
        Flavor!EndsWithError, Flavor!Put, Flavor!Untouched, Flavor!Created,
        Flavor!Added, Flavor!Dropped
<1>1. CASE Flavor!Get(r) \/ Flavor!ListAccess(r) \/ Flavor!GetExtras(r) \/ Flavor!Finish(r)
  BY <1>1 DEF Flavor!Get, Flavor!ListAccess, Flavor!GetExtras, Flavor!Finish
<1>2. CASE Flavor!Remove(r) \/ Flavor!Add(r)
  BY <1>2 DEF Flavor!Remove, Flavor!Add
<1>3. CASE Flavor!AccessFails(r)
  BY <1>3 DEF Flavor!AccessFails
<1>4. CASE Flavor!Delete(r) \/ Flavor!Recreate(r) \/ Flavor!SetExtras(r)
  BY <1>4 DEF Flavor!Delete, Flavor!Recreate, Flavor!SetExtras
<1>5. CASE Flavor!ChangeFails(r)
  BY <1>5 DEF Flavor!ChangeFails
<1>6. CASE Flavor!Create(r)
  BY <1>6 DEF Flavor!Create
<1> QED
  BY <1>1, <1>2, <1>3, <1>4, <1>5, <1>6 DEF Flavor!Update

\* A flavor whose access list or extra specs have been changed.
LEMMA ChangedAccess ==
  ASSUME NEW f \in Flavor!Flavor, NEW S \in SUBSET Projects
  PROVE  LET g == [f EXCEPT !.access = S] IN
         /\ g \in Flavor!Flavor /\ g.access = S
         /\ g.info = f.info /\ g.public = f.public /\ g.extras = f.extras
BY DEF Flavor!Flavor

\* A flavor with extra specs is the same flavor otherwise.
LEMMA ChangedExtras ==
  ASSUME NEW f \in Flavor!Flavor
  PROVE  LET g == [f EXCEPT !.extras = TRUE] IN
         /\ g \in Flavor!Flavor /\ g.extras
         /\ g.info = f.info /\ g.public = f.public /\ g.access = f.access
BY DEF Flavor!Flavor

\* What a step of r has to establish besides.
Kept(r) == FlavorTypes' /\ OneFlavor' /\ Known' /\ Editing(r)'

\* The steps that leave the flavor alone.
LEMMA ReadingKeeps ==
  ASSUME FlavorConstants, FlavorInv, NEW r \in Posts,
         Flavor!Get(r) \/ Flavor!ListAccess(r) \/ Flavor!GetExtras(r) \/ Flavor!Finish(r)
  PROVE  Kept(r)
<1> USE DEF Flavor!Goto, Flavor!Fails, FlavorInv, Flavor!Untouched
<1>1. CASE Flavor!Get(r)
  <2>0. /\ flavorStep[r] = "idle" /\ flavorStep' \in [Posts -> Flavor!Step]
        /\ flavorStep'[r] # "idle"
        /\ \A q \in Posts \ {r} : flavorStep'[q] = flavorStep[q]
        /\ UNCHANGED flavors
    BY <1>1 DEF Flavor!Get, FlavorTypes, Flavor!Step
  <2>1. FlavorTypes'
    <3>1. target' \in [Posts -> Flavor!FlavorIds]
      <4>1. 1 .. used \subseteq Flavor!FlavorIds
        BY DEF FlavorTypes, Flavor!FlavorIds, FlavorConstants
      <4> QED
        BY <1>1, <4>1 DEF Flavor!Get, FlavorTypes
    <3>2. flavorErrors' \in [Posts -> BOOLEAN] /\ flavorAlone' \in [Posts -> BOOLEAN]
      BY <1>1 DEF Flavor!Get, FlavorTypes
    <3>3. add' = add \/ add' = [add EXCEPT ![r] = access[r]]
      BY <1>1, Zenon DEF Flavor!Get
    <3>4. add' \in [Posts -> SUBSET Projects]
      BY <3>3 DEF FlavorTypes
    <3>5. open' \in [Posts -> BOOLEAN]
      BY <1>1 DEF Flavor!Get, FlavorTypes
    <3> QED
      BY <1>1, <2>0, <3>1, <3>2, <3>4, <3>5 DEF Flavor!Get, FlavorTypes
  <2>2. OneFlavor'
    BY <2>0 DEF OneFlavor
  <2>3. Known'
    BY <1>1, <2>0 DEF Flavor!Get, Known, FlavorTypes, Flavor!FlavorIds,
       FlavorConstants
  <2>4. Editing(r)'
    BY <1>1 DEF Flavor!Get, FlavorTypes, Flavor!FlavorIds, FlavorConstants,
       Editing, Pending, Edited, Flavor!Mine, Flavor!Flavor
  <2> QED
    BY <2>1, <2>2, <2>3, <2>4 DEF Kept
<1>2. CASE Flavor!ListAccess(r)
  <2>1. FlavorTypes'
    <3>1. Flavor!Mine(r).access \subseteq Projects /\ access[r] \subseteq Projects
      BY <1>2 DEF Flavor!ListAccess, Flavor!Mine, FlavorTypes, Flavor!Flavor
    <3>2. /\ Flavor!Mine(r).access \ access[r] \in SUBSET Projects
          /\ access[r] \ Flavor!Mine(r).access \in SUBSET Projects
      BY <3>1
    <3> QED
      BY <1>2, <3>2 DEF Flavor!ListAccess, FlavorTypes, Flavor!Step
  <2>2. OneFlavor' /\ Known'
    BY <1>2 DEF Flavor!ListAccess, FlavorTypes, OneFlavor, Known, Flavor!Mine
  <2>3. Editing(r)'
    BY <1>2 DEF Flavor!ListAccess, FlavorTypes, Editing, Pending, Edited,
       Flavor!Mine
  <2> QED
    BY <2>1, <2>2, <2>3 DEF Kept
<1>3. CASE Flavor!GetExtras(r)
  BY <1>3 DEF Flavor!GetExtras, Kept, FlavorTypes, Flavor!Step, OneFlavor,
     Known, Editing, Pending, Edited, Flavor!Mine, Flavor!Flavor
<1>4. CASE Flavor!Finish(r)
  <2>1. FlavorTypes'
    BY <1>4 DEF Flavor!Finish, FlavorTypes, Flavor!Step
  <2>2. OneFlavor' /\ Known'
    BY <1>4 DEF Flavor!Finish, FlavorTypes, OneFlavor, Known
  <2>3. Editing(r)'
    <3>1. /\ flavorStep[r] \in {"modify", "setup", "new"}
          /\ flavorStep'[r] = "done"
          /\ drop[r] = {} /\ add[r] = {}
          /\ UNCHANGED <<flavors, target, flavorAlone, info, access, open, extras, drop, add, flavorErrors>>
      BY <1>4 DEF Flavor!Finish, FlavorTypes
    <3>2. Pending(r)'
      BY <3>1 DEF Pending
    <3>3. ASSUME Edited(r, Flavor!Mine(r)) PROVE Edited(r, Flavor!Mine(r))'
      <4>1. Flavor!Mine(r)' = Flavor!Mine(r)
        BY <3>1 DEF Flavor!Mine
      <4>2. CASE flavorStep[r] = "modify"
        BY <3>1, <3>3, <4>1, <4>2 DEF Edited
      <4>3. CASE flavorStep[r] \in {"setup", "new"}
        <5>1. /\ Flavor!Mine(r).access \subseteq access[r]
              /\ access[r] \ Flavor!Mine(r).access = {}
          BY <3>1, <3>3, <4>3 DEF Edited
        <5>2. Flavor!Mine(r).access = access[r] /\ ~open[r]
          BY <4>3, <5>1 DEF Editing, Pending
        <5> QED
          BY <3>1, <3>3, <4>1, <4>3, <5>2 DEF Edited
      <4> QED
        BY <3>1, <4>2, <4>3
    <3> QED
      BY <3>1, <3>2, <3>3 DEF Editing
  <2> QED
    BY <2>1, <2>2, <2>3 DEF Kept
<1> QED
  BY <1>1, <1>2, <1>3, <1>4

\* The calls on the access list change nothing but whom the flavor is open
\* to, and what is still pending shrinks by as much.
LEMMA AccessKeeps ==
  ASSUME FlavorConstants, FlavorInv, NEW r \in Posts,
         Flavor!Remove(r) \/ Flavor!Add(r) \/ Flavor!AccessFails(r)
  PROVE  Kept(r)
<1> USE DEF Flavor!Goto, FlavorInv
<1>1. ASSUME NEW p \in Projects, Flavor!CanAdd(r, p), Flavor!Added(r, p)
      PROVE  /\ flavors' \in [Flavor!FlavorIds -> Flavor!Flavor \cup {None}]
             /\ Flavor!Mine(r) \in Flavor!Flavor
             /\ flavors'[target[r]] = [Flavor!Mine(r) EXCEPT !.access = @ \cup {p}]
             /\ \A i \in Flavor!FlavorIds : (flavors'[i] # None) = (flavors[i] # None)
             /\ flavorAlone' \in [Posts -> BOOLEAN]
             /\ flavorAlone'[r] = flavorAlone[r]
  <2>1. Flavor!Mine(r) \in Flavor!Flavor
    BY <1>1 DEF Flavor!CanAdd, Flavor!Mine, FlavorTypes
  <2>2. Flavor!Mine(r).access \in SUBSET Projects
    BY <2>1 DEF Flavor!Flavor
  <2>3. /\ flavors' = [flavors EXCEPT ![target[r]] =
               [Flavor!Mine(r) EXCEPT !.access = Flavor!Mine(r).access \cup {p}]]
        /\ flavorAlone' = [q \in Posts |-> flavorAlone[q] /\ (q = r \/ flavorStep[q] = "idle")]
    BY <1>1, Zenon DEF Flavor!Added, Flavor!Put
  <2>4. [Flavor!Mine(r) EXCEPT !.access = Flavor!Mine(r).access \cup {p}] \in Flavor!Flavor
    BY <2>1, <2>2, ChangedAccess
  <2> QED
    BY <2>1, <2>3, <2>4 DEF Flavor!Mine, FlavorTypes, FlavorConstants
<1>2. ASSUME NEW p \in Projects, Flavor!CanDrop(r, p), Flavor!Dropped(r, p)
      PROVE  /\ flavors' \in [Flavor!FlavorIds -> Flavor!Flavor \cup {None}]
             /\ Flavor!Mine(r) \in Flavor!Flavor
             /\ flavors'[target[r]] = [Flavor!Mine(r) EXCEPT !.access = @ \ {p}]
             /\ \A i \in Flavor!FlavorIds : (flavors'[i] # None) = (flavors[i] # None)
             /\ flavorAlone' \in [Posts -> BOOLEAN]
             /\ flavorAlone'[r] = flavorAlone[r]
  <2>1. Flavor!Mine(r) \in Flavor!Flavor
    BY <1>2 DEF Flavor!CanDrop, Flavor!Mine, FlavorTypes
  <2>2. Flavor!Mine(r).access \in SUBSET Projects
    BY <2>1 DEF Flavor!Flavor
  <2>3. /\ flavors' = [flavors EXCEPT ![target[r]] =
               [Flavor!Mine(r) EXCEPT !.access = Flavor!Mine(r).access \ {p}]]
        /\ flavorAlone' = [q \in Posts |-> flavorAlone[q] /\ (q = r \/ flavorStep[q] = "idle")]
    BY <1>2, Zenon DEF Flavor!Dropped, Flavor!Put
  <2>4. [Flavor!Mine(r) EXCEPT !.access = Flavor!Mine(r).access \ {p}] \in Flavor!Flavor
    BY <2>1, <2>2, ChangedAccess
  <2> QED
    BY <2>1, <2>3, <2>4 DEF Flavor!Mine, FlavorTypes, FlavorConstants
<1>3. CASE Flavor!Remove(r)
  <2>1. PICK p \in drop[r] : Flavor!CanDrop(r, p) /\ Flavor!Dropped(r, p)
                             /\ drop' = [drop EXCEPT ![r] = @ \ {p}]
    BY <1>3 DEF Flavor!Remove
  <2>2. p \in Projects
    BY <2>1 DEF FlavorTypes
  <2>3. FlavorTypes' /\ OneFlavor' /\ Known'
    BY <1>2, <1>3, <2>1, <2>2 DEF Flavor!Remove, FlavorTypes, OneFlavor, Known
  <2>4. Editing(r)'
    <3>1. /\ Flavor!Mine(r) \in Flavor!Flavor
          /\ flavors'[target[r]] =
               [Flavor!Mine(r) EXCEPT !.access = Flavor!Mine(r).access \ {p}]
          /\ flavorAlone'[r] = flavorAlone[r]
      BY <1>2, <2>1, <2>2
    <3>2. LET g == flavors'[target[r]] IN
          /\ g # None /\ g.access = Flavor!Mine(r).access \ {p}
          /\ g.info = Flavor!Mine(r).info /\ g.public = Flavor!Mine(r).public
          /\ g.extras = Flavor!Mine(r).extras
      <4>1. Flavor!Mine(r).access \ {p} \in SUBSET Projects
        BY <2>2, <3>1 DEF Flavor!Flavor
      <4> QED
        BY <3>1, <4>1, ChangedAccess DEF FlavorConstants
    <3>4. Pending(r)'
      BY <1>3, <2>1, <3>1 DEF Flavor!Remove, FlavorTypes, Editing, Pending
    <3>5. ASSUME flavorAlone[r], ~flavorErrors[r]
          PROVE  Edited(r, Flavor!Mine(r))'
      <4>1. Edited(r, Flavor!Mine(r)) /\ Pending(r)
        BY <3>5 DEF Editing
      <4>2. /\ Flavor!Mine(r)' = flavors'[target[r]]
            /\ UNCHANGED <<flavorStep, info, access, open, extras>>
        BY <1>3 DEF Flavor!Remove, Flavor!Mine
      <4>3. /\ drop'[r] = drop[r] \ {p} /\ add'[r] = add[r]
            /\ p \in drop[r] /\ flavorStep[r] = "modify"
        BY <1>3, <2>1 DEF Flavor!Remove, FlavorTypes
      <4> QED
        BY <3>2, <4>1, <4>2, <4>3 DEF Pending, Edited
    <3> QED
      BY <1>3, <3>1, <3>4, <3>5 DEF Flavor!Remove, Editing
  <2> QED
    BY <2>3, <2>4 DEF Kept
<1>4. CASE Flavor!Add(r)
  <2>1. PICK p \in add[r] : Flavor!CanAdd(r, p) /\ Flavor!Added(r, p)
                             /\ add' = [add EXCEPT ![r] = @ \ {p}]
    BY <1>4 DEF Flavor!Add
  <2>2. p \in Projects
    BY <2>1 DEF FlavorTypes
  <2>3. FlavorTypes' /\ OneFlavor' /\ Known'
    BY <1>1, <1>4, <2>1, <2>2 DEF Flavor!Add, FlavorTypes, OneFlavor, Known
  <2>4. Editing(r)'
    <3>1. /\ Flavor!Mine(r) \in Flavor!Flavor
          /\ flavors'[target[r]] =
               [Flavor!Mine(r) EXCEPT !.access = Flavor!Mine(r).access \cup {p}]
          /\ flavorAlone'[r] = flavorAlone[r]
      BY <1>1, <2>1, <2>2
    <3>2. LET g == flavors'[target[r]] IN
          /\ g # None /\ g.access = Flavor!Mine(r).access \cup {p}
          /\ g.info = Flavor!Mine(r).info /\ g.public = Flavor!Mine(r).public
          /\ g.extras = Flavor!Mine(r).extras
      <4>1. Flavor!Mine(r).access \cup {p} \in SUBSET Projects
        BY <2>2, <3>1 DEF Flavor!Flavor
      <4> QED
        BY <3>1, <4>1, ChangedAccess DEF FlavorConstants
    <3>4. Pending(r)'
      BY <1>4, <2>1, <3>1 DEF Flavor!Add, FlavorTypes, Editing, Pending
    <3>5. ASSUME flavorAlone[r], ~flavorErrors[r]
          PROVE  Edited(r, Flavor!Mine(r))'
      <4>1. Edited(r, Flavor!Mine(r)) /\ Pending(r)
        BY <3>5 DEF Editing
      <4>2. /\ Flavor!Mine(r)' = flavors'[target[r]]
            /\ UNCHANGED <<flavorStep, info, access, open, extras>>
        BY <1>4 DEF Flavor!Add, Flavor!Mine
      <4>3. /\ add'[r] = add[r] \ {p} /\ drop'[r] = drop[r]
            /\ p \in add[r] /\ flavorStep[r] \in {"modify", "setup", "new"}
            /\ drop[r] = {}
        BY <1>4, <2>1 DEF Flavor!Add, FlavorTypes
      <4> QED
        BY <3>2, <4>1, <4>2, <4>3 DEF Pending, Edited
    <3> QED
      BY <1>4, <3>1, <3>4, <3>5 DEF Flavor!Add, Editing
  <2> QED
    BY <2>3, <2>4 DEF Kept
<1>5. CASE Flavor!AccessFails(r)
  <2>1. /\ flavors' \in [Flavor!FlavorIds -> Flavor!Flavor \cup {None}]
        /\ \A i \in Flavor!FlavorIds : (flavors'[i] # None) = (flavors[i] # None)
        /\ flavorAlone' \in [Posts -> BOOLEAN]
        /\ add' \in [Posts -> SUBSET Projects]
        /\ UNCHANGED <<used, target, info, access, open, extras, drop>>
    <3>1. add' \in [Posts -> SUBSET Projects]
          /\ UNCHANGED <<used, target, info, access, open, extras, drop>>
      BY <1>5 DEF Flavor!AccessFails, Flavor!Untouched, FlavorTypes
    <3>2. \/ UNCHANGED <<flavors, flavorAlone>>
          \/ \E p \in Projects : Flavor!CanDrop(r, p) /\ Flavor!Dropped(r, p)
          \/ \E p \in Projects : Flavor!CanAdd(r, p) /\ Flavor!Added(r, p)
      BY <1>5 DEF Flavor!AccessFails, Flavor!Untouched, FlavorTypes
    <3>3. CASE UNCHANGED <<flavors, flavorAlone>>
      BY <3>1, <3>3 DEF FlavorTypes
    <3> QED
      BY <1>1, <1>2, <3>1, <3>2, <3>3
  <2>2. /\ \/ flavorStep' = flavorStep /\ flavorStep[r] = "new"
           \/ \E s \in {"done", "failed"} : flavorStep' = [flavorStep EXCEPT ![r] = s]
        /\ flavorErrors' = [flavorErrors EXCEPT ![r] = TRUE]
        /\ flavorStep[r] \in {"list", "modify", "setup", "new"}
    BY <1>5 DEF Flavor!AccessFails, Flavor!EndsWithError
  <2>3. FlavorTypes' /\ OneFlavor' /\ Known' /\ flavorErrors'[r]
    BY <2>1, <2>2 DEF FlavorTypes, Flavor!Step, OneFlavor, Known
  <2>4. Pending(r)'
    BY <2>1, <2>2 DEF FlavorTypes, Editing, Pending
  <2> QED
    BY <2>3, <2>4 DEF Kept, Editing
<1> QED
  BY <1>3, <1>4, <1>5

\* Creating a flavor of the form's data, when there is none.
LEMMA CreatedOne ==
  ASSUME FlavorConstants, FlavorInv, NEW r \in Posts, Flavor!Created(r)
  PROVE  /\ flavors' \in [Flavor!FlavorIds -> Flavor!Flavor \cup {None}]
         /\ used' \in 1 .. MaxId /\ used' \in Flavor!FlavorIds
         /\ flavors'[used'] \in Flavor!Flavor
         /\ flavors'[used'] = [info |-> info[r], public |-> access[r] = {},
                               access |-> {}, extras |-> FALSE]
         /\ OneFlavor' /\ Known'
         /\ flavorAlone' \in [Posts -> BOOLEAN]
         /\ flavorAlone'[r] = flavorAlone[r]
<1>1. used' = used + 1 /\ used' \in 1 .. MaxId /\ used' \in Flavor!FlavorIds
  BY DEF Flavor!Created, FlavorConstants, FlavorInv, FlavorTypes,
     Flavor!FlavorIds
<1>2. [info |-> info[r], public |-> access[r] = {}, access |-> {},
       extras |-> FALSE] \in Flavor!Flavor
  BY DEF Flavor!Flavor, FlavorInv, FlavorTypes
<1>3. /\ flavors' = [flavors EXCEPT ![used'] =
           [info |-> info[r], public |-> access[r] = {}, access |-> {},
            extras |-> FALSE]]
      /\ flavorAlone' = [q \in Posts |-> flavorAlone[q] /\ (q = r \/ flavorStep[q] = "idle")]
      /\ \A i \in Flavor!FlavorIds : flavors[i] = None
  BY <1>1 DEF Flavor!Created, Flavor!Put, Flavor!Live
<1> QED
  BY <1>1, <1>2, <1>3 DEF FlavorInv, FlavorTypes, OneFlavor, Known,
     FlavorConstants

\* The calls that delete a flavor, create one or copy its extra specs: the
\* request that has deleted it is about to create it or reports an error.
LEMMA ReplacingKeeps ==
  ASSUME FlavorConstants, FlavorInv, NEW r \in Posts,
         \/ Flavor!Delete(r) \/ Flavor!Recreate(r) \/ Flavor!SetExtras(r)
         \/ Flavor!ChangeFails(r) \/ Flavor!Create(r)
  PROVE  Kept(r)
<1> USE DEF Flavor!Goto
<1>1. ASSUME Flavor!Put(r, target[r], None)
      PROVE  /\ flavors' \in [Flavor!FlavorIds -> Flavor!Flavor \cup {None}]
             /\ OneFlavor'
             /\ flavorAlone' \in [Posts -> BOOLEAN]
             /\ flavorAlone'[r] = flavorAlone[r]
  BY <1>1 DEF Flavor!Put, FlavorInv, FlavorTypes, OneFlavor
<1>2. CASE Flavor!Delete(r)
  <2>1. FlavorTypes' /\ OneFlavor'
    BY <1>1, <1>2 DEF Flavor!Delete, FlavorInv, FlavorTypes, Flavor!Step
  <2>2. Known'
    BY <1>2 DEF Flavor!Delete, Known, FlavorInv, FlavorTypes
  <2>3. Editing(r)'
    BY <1>2 DEF Flavor!Delete, FlavorInv, FlavorTypes, Editing, Pending, Edited
  <2> QED
    BY <2>1, <2>2, <2>3 DEF Kept
<1>3. CASE Flavor!Recreate(r)
  <2>1. Flavor!Created(r)
    BY <1>3 DEF Flavor!Recreate
  <2>2. FlavorTypes'
    BY <1>3, <2>1, CreatedOne DEF Flavor!Recreate, FlavorInv, FlavorTypes,
       Flavor!Step
  <2>3. Editing(r)'
    <3>1. /\ Flavor!Mine(r)' = flavors'[used']
          /\ flavorStep'[r] = IF extras[r] THEN "setextras" ELSE "setup"
          /\ UNCHANGED <<info, access, open, extras, drop, add, flavorErrors>>
      BY <1>3, <2>1, CreatedOne DEF Flavor!Recreate, FlavorInv, FlavorTypes,
         Flavor!Mine
    <3>2. drop[r] = {} /\ add[r] = access[r] /\ ~open[r]
      BY <1>3 DEF Flavor!Recreate, FlavorInv, Editing, Pending
    <3>3. /\ Flavor!Mine(r)' # None /\ Flavor!Mine(r)'.info = info[r]
          /\ ~Flavor!Mine(r)'.extras
          /\ Flavor!Mine(r)'.public = (access[r] = {})
          /\ Flavor!Mine(r)'.access = {} /\ access[r] \ {} = access[r]
      <4>1. Flavor!Mine(r)' # None /\ access[r] \ {} = access[r]
        BY <2>1, <3>1, CreatedOne DEF FlavorConstants
      <4>2. Flavor!Mine(r)' = [info |-> info[r], public |-> access[r] = {}, access |-> {},
                        extras |-> FALSE]
        BY <2>1, <3>1, CreatedOne
      <4>3. /\ Flavor!Mine(r)'.info = info[r] /\ Flavor!Mine(r)'.extras = FALSE
            /\ Flavor!Mine(r)'.access = {}
        BY <4>2
      <4>4. Flavor!Mine(r)'.public = (access[r] = {})
        BY <4>2
      <4> QED
        BY <4>1, <4>3, <4>4
    <3> QED
      BY <3>1, <3>2, <3>3 DEF Editing, Pending, Edited
  <2> QED
    BY <2>1, <2>2, <2>3, CreatedOne DEF Kept
<1>4. CASE Flavor!SetExtras(r)
  <2>1. Flavor!Mine(r) \in Flavor!Flavor
    BY <1>4 DEF Flavor!SetExtras, Flavor!Mine, FlavorInv, FlavorTypes
  <2>2. /\ flavors' = [flavors EXCEPT ![target[r]] = [Flavor!Mine(r) EXCEPT !.extras = TRUE]]
        /\ flavorAlone' = [q \in Posts |-> flavorAlone[q] /\ (q = r \/ flavorStep[q] = "idle")]
        /\ flavorStep' = [flavorStep EXCEPT ![r] = "setup"]
        /\ flavorStep[r] = "setextras"
        /\ UNCHANGED <<used, target, info, access, open, extras, drop, add, flavorErrors>>
    BY <1>4, Zenon DEF Flavor!SetExtras, Flavor!Put
  <2>3. PICK g \in Flavor!Flavor :
          /\ g = [Flavor!Mine(r) EXCEPT !.extras = TRUE] /\ g.extras
          /\ g # None
          /\ g.info = Flavor!Mine(r).info /\ g.public = Flavor!Mine(r).public
          /\ g.access = Flavor!Mine(r).access
    BY <2>1, ChangedExtras DEF FlavorConstants
  <2>4. /\ flavors'[target[r]] = g
        /\ \A i \in Flavor!FlavorIds : flavors'[i] # None <=> flavors[i] # None
    BY <2>1, <2>2, <2>3 DEF Flavor!Mine, FlavorInv, FlavorTypes,
       FlavorConstants
  <2>5. FlavorTypes' /\ OneFlavor' /\ Known'
    <3>1. FlavorTypes'
      BY <2>2, <2>3 DEF FlavorInv, FlavorTypes, Flavor!Step
    <3>2. OneFlavor'
      BY <2>4 DEF FlavorInv, OneFlavor
    <3>3. Known'
      <4>1. target[r] \in Flavor!FlavorIds
        BY DEF FlavorInv, FlavorTypes
      <4> QED
        BY <2>3, <2>4, <4>1 DEF Known
    <3> QED
      BY <3>1, <3>2, <3>3
  <2>6. Editing(r)'
    <3>1. Flavor!Mine(r)' = g /\ flavorStep'[r] = "setup" /\ flavorAlone'[r] = flavorAlone[r]
      BY <2>2, <2>4 DEF Flavor!Mine, FlavorInv, FlavorTypes
    <3> QED
      BY <2>2, <2>3, <3>1 DEF FlavorInv, Editing, Pending, Edited
  <2> QED
    BY <2>5, <2>6 DEF Kept
<1>5. CASE Flavor!ChangeFails(r)
  <2>1. /\ flavorStep' = [flavorStep EXCEPT ![r] = "failed"]
        /\ flavorErrors' = [flavorErrors EXCEPT ![r] = TRUE]
        /\ UNCHANGED <<target, info, access, open, extras, drop, add>>
    BY <1>5 DEF Flavor!ChangeFails, Flavor!Fails
  <2>2. /\ flavors' \in [Flavor!FlavorIds -> Flavor!Flavor \cup {None}]
        /\ OneFlavor'
        /\ flavorAlone' \in [Posts -> BOOLEAN] /\ used' \in 1 .. MaxId
    <3>1. \/ Flavor!Untouched
          \/ Flavor!Put(r, target[r], None) /\ UNCHANGED used
          \/ Flavor!Created(r)
      BY <1>5, Zenon DEF Flavor!ChangeFails
    <3>2. CASE Flavor!Untouched
      BY <3>2 DEF Flavor!Untouched, FlavorInv, FlavorTypes, OneFlavor
    <3>3. CASE Flavor!Put(r, target[r], None) /\ UNCHANGED used
      BY <1>1, <3>3 DEF FlavorInv, FlavorTypes
    <3>4. CASE Flavor!Created(r)
      BY <3>4, CreatedOne
    <3> QED
      BY <3>1, <3>2, <3>3, <3>4
  <2>3. FlavorTypes' /\ Known' /\ flavorErrors'[r] /\ Pending(r)'
    BY <2>1, <2>2 DEF FlavorInv, FlavorTypes, Flavor!Step, Known, Pending
  <2> QED
    BY <2>2, <2>3 DEF Kept, Editing
<1>6. CASE Flavor!Create(r)
  <2>0. flavorStep[r] = "idle" /\ UNCHANGED <<info, access, open, extras, drop>>
    BY <1>6 DEF Flavor!Create
  <2>1. CASE /\ Flavor!Created(r)
             /\ target' = [target EXCEPT ![r] = used']
             /\ add' = [add EXCEPT ![r] = access[r]]
             /\ flavorStep' = [flavorStep EXCEPT ![r] = "new"]
             /\ UNCHANGED flavorErrors
    <3>1. FlavorTypes'
      BY <2>0, <2>1, CreatedOne DEF FlavorInv, FlavorTypes, Flavor!Step
    <3>2. Editing(r)'
      <4>1. /\ Flavor!Mine(r)' = flavors'[used'] /\ flavorStep'[r] = "new"
            /\ add'[r] = access[r]
            /\ UNCHANGED <<info, access, open, extras, drop, flavorErrors>>
        BY <2>0, <2>1, CreatedOne DEF FlavorInv, FlavorTypes, Flavor!Mine
      <4>2. drop[r] = {} /\ ~extras[r] /\ ~open[r]
        BY <2>0 DEF FlavorInv, Editing, Pending
      <4>3. /\ Flavor!Mine(r)' # None /\ Flavor!Mine(r)'.info = info[r]
            /\ Flavor!Mine(r)'.public = (access[r] = {})
            /\ Flavor!Mine(r)'.access = {} /\ access[r] \ {} = access[r]
        <5>1. Flavor!Mine(r)' # None /\ access[r] \ {} = access[r]
          BY <2>1, <4>1, CreatedOne DEF FlavorConstants
        <5>2. Flavor!Mine(r)' = [info |-> info[r], public |-> access[r] = {}, access |-> {},
                          extras |-> FALSE]
          BY <2>1, <4>1, CreatedOne
        <5>3. /\ Flavor!Mine(r)'.info = info[r]
              /\ Flavor!Mine(r)'.extras = FALSE
              /\ Flavor!Mine(r)'.access = {}
          BY <5>2
        <5>4. Flavor!Mine(r)'.public = (access[r] = {})
          BY <5>2
        <5> QED
          BY <5>1, <5>3, <5>4
      <4> QED
        BY <4>1, <4>2, <4>3 DEF Editing, Pending, Edited
    <3> QED
      BY <2>1, <3>1, <3>2, CreatedOne DEF Kept
  <2>2. CASE /\ Flavor!Created(r) \/ Flavor!Untouched
             /\ Flavor!Fails(r) /\ UNCHANGED <<target, add>>
    <3>1. /\ flavors' \in [Flavor!FlavorIds -> Flavor!Flavor \cup {None}]
          /\ OneFlavor'
          /\ flavorAlone' \in [Posts -> BOOLEAN] /\ used' \in 1 .. MaxId
      <4>1. CASE Flavor!Untouched
        BY <4>1 DEF Flavor!Untouched, FlavorInv, FlavorTypes, OneFlavor
      <4> QED
        BY <2>2, <4>1, CreatedOne
    <3>2. FlavorTypes' /\ Known' /\ flavorErrors'[r] /\ Pending(r)'
      BY <2>0, <2>2, <3>1 DEF Flavor!Fails, FlavorInv, FlavorTypes,
         Flavor!Step, Known, Pending
    <3> QED
      BY <3>1, <3>2 DEF Kept, Editing
  <2> QED
    BY <1>6, <2>1, <2>2 DEF Flavor!Create
<1> QED
  BY <1>2, <1>3, <1>4, <1>5, <1>6

\* Every step keeps the invariant, of the request at work and of the others.
LEMMA FlavorStep ==
  ASSUME FlavorConstants, FlavorInv, [Flavor!Next]_(Flavor!vars)
  PROVE  FlavorInv'
<1>1. ASSUME NEW r \in Posts, Flavor!Update(r) \/ Flavor!Create(r)
      PROVE  FlavorInv'
  <2>1. Kept(r)
    BY <1>1, ReadingKeeps, AccessKeeps, ReplacingKeeps DEF Flavor!Update
  <2>2. \A q \in Posts \ {r} : Editing(q)'
    BY <1>1, UpdateSpares, SparedKeepsEditing
  <2> QED
    BY <2>1, <2>2 DEF FlavorInv, Kept
<1>2. CASE UNCHANGED Flavor!vars
  BY <1>2 DEF Flavor!vars, FlavorInv, FlavorTypes, OneFlavor, Known, Editing,
     Pending, Edited, Flavor!Mine
<1> QED
  BY <1>1, <1>2 DEF Flavor!Next

\* The whole makes the assumptions of this part.
LEMMA FlavorConstantsHold == FlavorConstants
BY PortalAssumption DEF FlavorConstants

(***************************************************************************)
(* For any projects, flavors and requests, while nobody else changes the   *)
(* flavor it is as the form says up to the calls still pending, but for    *)
(* one that is edited in place and stays public, whose list comes to hold  *)
(* the projects of the form; and there is never more than one of the name  *)
(* (UpdateFlavor.handle, CreateFlavor.handle).                             *)
(***************************************************************************)
THEOREM FlavorInvariance == PortalSpec => [](part = "flavor" => FlavorInv)
<1>1. PortalInit => (part = "flavor" => FlavorInv)
  BY InitFlavor, FlavorConstantsHold DEF PortalInit
<1>2. (part = "flavor" => FlavorInv) /\ [PortalNext]_allvars
        => (part = "flavor" => FlavorInv)'
  BY StepOfPart, FlavorStep, FlavorConstantsHold
<1> QED
  BY <1>1, <1>2, PTL DEF PortalSpec

(***************************************************************************)
(* A form that ends without an error, and whose flavor nobody else         *)
(* changed, leaves the one flavor it describes, or, if it was public and   *)
(* is edited in place, one that is open to everyone still and lists the    *)
(* projects of the form (UpdateFlavor.handle, CreateFlavor.handle).        *)
(***************************************************************************)
THEOREM EditsTakeEffect == PortalSpec => []EditTakesEffect
<1>1. (part = "flavor" => FlavorInv) => EditTakesEffect
  BY DEF FlavorInv, FlavorTypes, OneFlavor, Editing, Edited,
     Flavor!EditTakesEffect, Flavor!Succeeded, Flavor!Live, Flavor!Mine,
     EditTakesEffect
<1> QED
  BY <1>1, FlavorInvariance, PTL

(***************************************************************************)
(* A flavor is not lost without a word: a request is about to create it    *)
(* again, or has reported an error (UpdateFlavor.handle).                  *)
(***************************************************************************)
THEOREM FlavorsNotLost == PortalSpec => []NotLostSilently
<1>1. (part = "flavor" => FlavorInv) => NotLostSilently
  BY DEF FlavorInv, Known, Flavor!NotLostSilently, Flavor!Live, NotLostSilently
<1> QED
  BY <1>1, FlavorInvariance, PTL

-----------------------------------------------------------------------------
(* The trunks.                                                             *)

\* What Neutron has of the trunk while no other form changes it.
TrunkAlone(r) ==
  trunkAlone[r] =>
    /\ trunkStep[r] = "update" => trunk = old[r]
    /\ trunkStep[r] = "remove" =>
         trunk.name = new[r].name /\ trunk.sub_ports = old[r].sub_ports
    /\ trunkStep[r] = "add" =>
         /\ trunk.name = new[r].name
         /\ trunk.sub_ports = old[r].sub_ports \cap new[r].sub_ports
    /\ trunkStep[r] = "done" => trunk = new[r]

\* What a form has added or dropped is so, but for another form's doing.
TrunkMerged(r) ==
  /\ trunkStep[r] = "idle" => old[r] = new[r]
  /\ trunkStep[r] = "done" =>
       \A s \in Trunk!ToCreate(r) \ trunk.sub_ports :
         \E q \in Posts \ {r} : s[1] \in Trunk!PortsOf(Trunk!ToDelete(q))
  /\ trunkStep[r] \in {"add", "done"} =>
       \A s \in Trunk!ToDelete(r) \cap trunk.sub_ports :
         \E q \in Posts \ {r} : s \in Trunk!ToCreate(q)

TrunkInv == Trunk!TypeOK /\ \A r \in Posts : TrunkAlone(r) /\ TrunkMerged(r)

-----------------------------------------------------------------------------
(* The three calls.                                                        *)

\* What a trunk is made of.
LEMMA SubPortsOf ==
  ASSUME NEW t \in Trunk!Trunk
  PROVE  /\ t.name \in Names /\ t.sub_ports \subseteq Trunk!SubPort
         /\ Trunk!Valid(t.sub_ports)
BY DEF Trunk!Trunk

\* A trunk is its name and its ports.
LEMMA TrunkEq ==
  ASSUME NEW t \in Trunk!Trunk, NEW u \in Trunk!Trunk, t.name = u.name,
         t.sub_ports = u.sub_ports
  PROVE  t = u
BY DEF Trunk!Trunk

\* With fewer ports there is no more conflict.
LEMMA ValidSubset ==
  ASSUME NEW S, NEW T, S \subseteq T, Trunk!Valid(T)
  PROVE  Trunk!Valid(S)
BY DEF Trunk!Valid

\* A call that Neutron agrees to leaves a trunk.
LEMMA ResultIsTrunk ==
  ASSUME Trunk!TypeOK, NEW r \in Posts, Trunk!Calling(r), Trunk!Agrees(r)
  PROVE  /\ Trunk!Result(r) \in Trunk!Trunk
         /\ trunkStep[r] = "update" =>
              /\ Trunk!Result(r).name = new[r].name
              /\ Trunk!Result(r).sub_ports = trunk.sub_ports
         /\ trunkStep[r] # "update" => Trunk!Result(r).name = trunk.name
         /\ trunkStep[r] = "remove" =>
              Trunk!Result(r).sub_ports =
                {s \in trunk.sub_ports : s[1] \notin Trunk!PortsOf(Trunk!ToDelete(r))}
         /\ trunkStep[r] = "add" =>
              Trunk!Result(r).sub_ports = trunk.sub_ports \cup Trunk!ToCreate(r)
<1>1. trunk \in Trunk!Trunk /\ old[r] \in Trunk!Trunk /\ new[r] \in Trunk!Trunk
  BY DEF Trunk!TypeOK
<1>2. /\ trunk.sub_ports \subseteq Trunk!SubPort
      /\ Trunk!Valid(trunk.sub_ports)
      /\ new[r].sub_ports \subseteq Trunk!SubPort /\ new[r].name \in Names
  BY <1>1, SubPortsOf
<1>3. CASE trunkStep[r] = "update"
  <2>1. Trunk!Result(r) = [trunk EXCEPT !.name = new[r].name]
    BY <1>3 DEF Trunk!Result
  <2> QED
    BY <1>1, <1>2, <1>3, <2>1 DEF Trunk!Trunk
<1>4. CASE trunkStep[r] = "remove"
  <2> DEFINE S == {s \in trunk.sub_ports : s[1] \notin Trunk!PortsOf(Trunk!ToDelete(r))}
  <2>1. Trunk!Result(r) = [trunk EXCEPT !.sub_ports = S]
    BY <1>4 DEF Trunk!Result
  <2>2. S \subseteq Trunk!SubPort /\ Trunk!Valid(S)
    BY <1>2, ValidSubset
  <2> QED
    BY <1>1, <1>4, <2>1, <2>2 DEF Trunk!Trunk
<1>5. CASE trunkStep[r] = "add"
  <2> DEFINE S == trunk.sub_ports \cup Trunk!ToCreate(r)
  <2>1. Trunk!Result(r) = [trunk EXCEPT !.sub_ports = S]
    BY <1>5 DEF Trunk!Result
  <2>2. S \subseteq Trunk!SubPort /\ Trunk!Valid(S)
    BY <1>2, <1>5 DEF Trunk!Agrees, Trunk!ToCreate
  <2> QED
    BY <1>1, <1>5, <2>1, <2>2 DEF Trunk!Trunk
<1> QED
  BY <1>3, <1>4, <1>5 DEF Trunk!Calling

\* To delete subports leaves those both states have, since a port has one.
LEMMA DeletionExact ==
  ASSUME Trunk!TypeOK, NEW r \in Posts
  PROVE  {s \in old[r].sub_ports : s[1] \notin Trunk!PortsOf(Trunk!ToDelete(r))}
           = old[r].sub_ports \cap new[r].sub_ports
<1>1. Trunk!Valid(old[r].sub_ports)
  BY SubPortsOf DEF Trunk!TypeOK
<1> QED
  BY <1>1 DEF Trunk!Valid, Trunk!PortsOf, Trunk!ToDelete

-----------------------------------------------------------------------------
\* No form has been opened.
LEMMA InitTrunk == Trunk!Init => TrunkInv
BY DEF Trunk!Init, TrunkInv, Trunk!TypeOK, TrunkAlone, TrunkMerged

\* A form is filled in from the trunk as it is.
LEMMA EditKeepsInv ==
  ASSUME TrunkInv, NEW r \in Posts, Trunk!Edit(r)
  PROVE  TrunkInv'
<1>0. /\ trunkStep[r] = "idle" /\ trunkStep'[r] = "update" /\ old'[r] = trunk
      /\ UNCHANGED <<trunk, trunkAlone>>
      /\ \A q \in Posts \ {r} :
           trunkStep'[q] = trunkStep[q] /\ old'[q] = old[q] /\ new'[q] = new[q]
  BY DEF Trunk!Edit, Trunk!Goto, TrunkInv, Trunk!TypeOK
<1>1. Trunk!TypeOK'
  BY DEF Trunk!Edit, Trunk!Goto, TrunkInv, Trunk!TypeOK
<1>2. ASSUME NEW q \in Posts
      PROVE  TrunkAlone(q)'
  BY <1>0 DEF TrunkInv, TrunkAlone
<1>3. ASSUME NEW q \in Posts
      PROVE  TrunkMerged(q)'
  <2>1. Trunk!ToDelete(r) = {} /\ Trunk!ToCreate(r) = {}
    BY <1>0 DEF TrunkInv, TrunkMerged, Trunk!ToDelete, Trunk!ToCreate
  <2>2. \A p \in Posts \ {r} :
          Trunk!ToDelete(p)' = Trunk!ToDelete(p) /\ Trunk!ToCreate(p)' = Trunk!ToCreate(p)
    BY <1>0 DEF Trunk!ToDelete, Trunk!ToCreate
  <2>3. Trunk!PortsOf(Trunk!ToDelete(r)) = {}
    BY <2>1 DEF Trunk!PortsOf
  <2>4. CASE q = r
    BY <1>0, <2>4 DEF TrunkMerged
  <2>5. CASE q # r
    <3>1. \A p \in Posts \ {r} : Trunk!PortsOf(Trunk!ToDelete(p))' = Trunk!PortsOf(Trunk!ToDelete(p))
      BY <2>2 DEF Trunk!PortsOf
    <3>2. /\ trunkStep[q] = "idle" => old[q] = new[q]
          /\ trunkStep[q] = "done" =>
               \A s \in Trunk!ToCreate(q) \ trunk.sub_ports :
                 \E p \in Posts \ {q} : s[1] \in Trunk!PortsOf(Trunk!ToDelete(p))
          /\ trunkStep[q] \in {"add", "done"} =>
               \A s \in Trunk!ToDelete(q) \cap trunk.sub_ports :
                 \E p \in Posts \ {q} : s \in Trunk!ToCreate(p)
      BY DEF TrunkInv, TrunkMerged
    <3>3. trunkStep'[q] = "done" =>
            \A s \in Trunk!ToCreate(q)' \ trunk.sub_ports :
              \E p \in Posts \ {q} : s[1] \in Trunk!PortsOf(Trunk!ToDelete(p))'
      BY <1>0, <2>2, <2>3, <2>5, <3>1, <3>2
    <3>4. trunkStep'[q] \in {"add", "done"} =>
            \A s \in Trunk!ToDelete(q)' \cap trunk.sub_ports :
              \E p \in Posts \ {q} : s \in Trunk!ToCreate(p)'
      BY <1>0, <2>1, <2>2, <2>5, <3>2
    <3> QED
      BY <1>0, <2>5, <3>2, <3>3, <3>4 DEF TrunkMerged
  <2> QED
    BY <2>4, <2>5
<1> QED
  BY <1>1, <1>2, <1>3 DEF TrunkInv

\* What a form is to add and drop is decided when it is opened.
LEMMA PlansStay ==
  ASSUME UNCHANGED <<old, new>>
  PROVE  \A q \in Posts :
           /\ Trunk!ToDelete(q)' = Trunk!ToDelete(q)
           /\ Trunk!ToCreate(q)' = Trunk!ToCreate(q)
           /\ Trunk!PortsOf(Trunk!ToDelete(q))' = Trunk!PortsOf(Trunk!ToDelete(q))
BY DEF Trunk!ToDelete, Trunk!ToCreate, Trunk!PortsOf

\* A call that is not needed leaves the trunk as a call without effect does.
LEMMA SkipKeepsInv ==
  ASSUME TrunkInv, NEW r \in Posts, Trunk!Skip(r)
  PROVE  TrunkInv'
<1>0. /\ Trunk!Calling(r) /\ ~Trunk!Needed(r)
      /\ UNCHANGED <<trunk, old, new, trunkAlone>>
      /\ trunkStep'[r] = Trunk!After(trunkStep[r])
      /\ \A q \in Posts \ {r} : trunkStep'[q] = trunkStep[q]
  BY DEF Trunk!Skip, Trunk!Goto, TrunkInv, Trunk!TypeOK
<1>1. Trunk!TypeOK'
  BY DEF Trunk!Skip, Trunk!Goto, Trunk!After, Trunk!Calling, TrunkInv,
     Trunk!TypeOK
<1>a. trunk \in Trunk!Trunk /\ old[r] \in Trunk!Trunk /\ new[r] \in Trunk!Trunk
  BY DEF TrunkInv, Trunk!TypeOK
<1>2. ASSUME NEW q \in Posts
      PROVE  TrunkAlone(q)'
  <2>1. CASE q = r
    <3>1. CASE trunkStep[r] = "update"
      BY <1>0, <2>1, <3>1 DEF Trunk!After, Trunk!Needed, TrunkInv, TrunkAlone
    <3>2. CASE trunkStep[r] = "remove"
      <4>1. old[r].sub_ports \subseteq new[r].sub_ports
        BY <1>0, <3>2 DEF Trunk!Needed, Trunk!ToDelete
      <4> QED
        BY <1>0, <2>1, <3>2, <4>1 DEF Trunk!After, TrunkInv, TrunkAlone
    <3>3. CASE trunkStep[r] = "add"
      <4>1. new[r].sub_ports \subseteq old[r].sub_ports
        BY <1>0, <3>3 DEF Trunk!Needed, Trunk!ToCreate
      <4>a. trunkAlone[r] => trunk.name = new[r].name
                          /\ trunk.sub_ports = new[r].sub_ports
        BY <3>3, <4>1 DEF TrunkInv, TrunkAlone
      <4>2. trunkAlone[r] => trunk = new[r]
        BY <1>a, <4>a, TrunkEq
      <4> QED
        BY <1>0, <2>1, <3>3, <4>2 DEF Trunk!After, TrunkAlone
    <3> QED
      BY <1>0, <3>1, <3>2, <3>3 DEF Trunk!Calling
  <2>2. CASE q # r
    BY <1>0, <2>2 DEF TrunkInv, TrunkAlone
  <2> QED
    BY <2>1, <2>2
<1>3. ASSUME NEW q \in Posts
      PROVE  TrunkMerged(q)'
  <2>1. CASE q = r
    <3>1. trunkStep[r] = "remove" => Trunk!ToDelete(r) = {}
      BY <1>0 DEF Trunk!Needed
    <3>2. trunkStep[r] = "add" => Trunk!ToCreate(r) = {}
      BY <1>0 DEF Trunk!Needed
    <3>3. /\ trunkStep'[r] = "done" => trunkStep[r] = "add"
          /\ trunkStep'[r] = "add" => trunkStep[r] = "remove"
          /\ trunkStep'[r] # "idle"
      BY <1>0 DEF Trunk!After, Trunk!Calling
    <3> QED
      BY <1>0, <2>1, <3>1, <3>2, <3>3, PlansStay DEF TrunkInv, TrunkMerged
  <2>2. CASE q # r
    BY <1>0, <2>2, PlansStay DEF TrunkInv, TrunkMerged
  <2> QED
    BY <2>1, <2>2
<1> QED
  BY <1>1, <1>2, <1>3 DEF TrunkInv

\* A call that had its effect, whether it was answered or not.
LEMMA EffectKeepsInv ==
  ASSUME TrunkInv, NEW r \in Posts, Trunk!Calling(r), Trunk!Needed(r), Trunk!Agrees(r),
         Trunk!Put(r, Trunk!Result(r)), Trunk!Goto(r, Trunk!After(trunkStep[r])) \/ Trunk!Goto(r, "failed"),
         UNCHANGED <<old, new>>
  PROVE  TrunkInv'
<1>0. /\ trunk' = Trunk!Result(r)
      /\ trunkStep'[r] \in {Trunk!After(trunkStep[r]), "failed"}
      /\ \A q \in Posts \ {r} : trunkStep'[q] = trunkStep[q]
  BY DEF Trunk!Put, Trunk!Goto, TrunkInv, Trunk!TypeOK
<1>a. /\ trunkAlone' \in [Posts -> BOOLEAN]
      /\ \A q \in Posts : trunkAlone'[q] => trunkAlone[q]
      /\ \A q \in Posts \ {r} :
           trunkAlone'[q] => trunk' = trunk \/ trunkStep[q] = "idle"
  BY Zenon, <1>0 DEF Trunk!Put, TrunkInv, Trunk!TypeOK
<1>b. trunk \in Trunk!Trunk /\ old[r] \in Trunk!Trunk /\ new[r] \in Trunk!Trunk
  BY DEF TrunkInv, Trunk!TypeOK
<1>c. /\ trunk' \in Trunk!Trunk
      /\ trunkStep[r] = "update" =>
           trunk'.name = new[r].name /\ trunk'.sub_ports = trunk.sub_ports
      /\ trunkStep[r] # "update" => trunk'.name = trunk.name
      /\ trunkStep[r] = "remove" =>
           trunk'.sub_ports =
             {s \in trunk.sub_ports : s[1] \notin Trunk!PortsOf(Trunk!ToDelete(r))}
      /\ trunkStep[r] = "add" =>
           trunk'.sub_ports = trunk.sub_ports \cup Trunk!ToCreate(r)
  BY <1>0, ResultIsTrunk DEF TrunkInv
<1>1. Trunk!TypeOK'
  <2>1. trunkStep' \in [Posts -> {"idle", "update", "remove", "add", "done",
                                "failed"}]
    BY DEF Trunk!Goto, Trunk!After, Trunk!Calling, TrunkInv, Trunk!TypeOK
  <2> QED
    BY <1>a, <1>c, <2>1 DEF TrunkInv, Trunk!TypeOK
<1>2. ASSUME NEW q \in Posts
      PROVE  TrunkAlone(q)'
  <2>1. CASE q = r
    <3>1. CASE trunkStep[r] = "update"
      BY <1>0, <1>a, <1>c, <2>1, <3>1 DEF Trunk!After, TrunkInv, TrunkAlone
    <3>2. CASE trunkStep[r] = "remove"
      <4>1. trunkAlone[r] =>
              trunk'.sub_ports = old[r].sub_ports \cap new[r].sub_ports
        BY <1>c, <3>2, DeletionExact DEF TrunkInv, TrunkAlone
      <4> QED
        BY <1>0, <1>a, <1>c, <2>1, <3>2, <4>1 DEF Trunk!After, TrunkInv,
           TrunkAlone
    <3>3. CASE trunkStep[r] = "add"
      <4>1. trunkAlone[r] => trunk'.sub_ports = new[r].sub_ports
        BY <1>c, <3>3 DEF TrunkInv, TrunkAlone, Trunk!ToCreate
      <4>2. trunkAlone[r] => trunk' = new[r]
        BY <1>b, <1>c, <3>3, <4>1, TrunkEq DEF TrunkInv, TrunkAlone
      <4> QED
        BY <1>0, <1>a, <2>1, <3>3, <4>2 DEF Trunk!After, TrunkAlone
    <3> QED
      BY <3>1, <3>2, <3>3 DEF Trunk!Calling
  <2>2. CASE q # r
    BY <1>0, <1>a, <2>2 DEF TrunkInv, TrunkAlone
  <2> QED
    BY <2>1, <2>2
<1>3. ASSUME NEW q \in Posts
      PROVE  TrunkMerged(q)'
  <2>1. CASE q = r
    <3>1. /\ trunkStep'[r] = "done" => trunkStep[r] = "add"
          /\ trunkStep'[r] = "add" => trunkStep[r] = "remove"
          /\ trunkStep'[r] # "idle"
      BY <1>0 DEF Trunk!After, Trunk!Calling
    <3>2. trunkStep[r] = "remove" => Trunk!ToDelete(r) \cap trunk'.sub_ports = {}
      BY <1>c DEF Trunk!PortsOf
    <3>3. Trunk!ToDelete(r) \cap Trunk!ToCreate(r) = {}
      BY DEF Trunk!ToDelete, Trunk!ToCreate
    <3> QED
      BY <1>0, <1>c, <2>1, <3>1, <3>2, <3>3, PlansStay DEF TrunkInv,
         TrunkMerged
  <2>2. CASE q # r
    <3>1. \A s \in trunk.sub_ports \ trunk'.sub_ports :
            s[1] \in Trunk!PortsOf(Trunk!ToDelete(r))
      BY <1>c DEF Trunk!Calling
    <3>2. \A s \in trunk'.sub_ports \ trunk.sub_ports : s \in Trunk!ToCreate(r)
      BY <1>c DEF Trunk!Calling
    <3> QED
      BY <1>0, <2>2, <3>1, <3>2, PlansStay DEF TrunkInv, TrunkMerged
  <2> QED
    BY <2>1, <2>2
<1> QED
  BY <1>1, <1>2, <1>3 DEF TrunkInv

\* A form whose call fails does nothing more.
LEMMA FailKeepsInv ==
  ASSUME TrunkInv, NEW r \in Posts, Trunk!Fail(r)
  PROVE  TrunkInv'
<1>1. CASE Trunk!Agrees(r) /\ Trunk!Put(r, Trunk!Result(r))
  BY <1>1, EffectKeepsInv DEF Trunk!Fail
<1>2. CASE UNCHANGED <<trunk, trunkAlone>>
  <2>0. /\ UNCHANGED <<trunk, trunkAlone, old, new>>
        /\ trunkStep'[r] = "failed"
        /\ \A q \in Posts \ {r} : trunkStep'[q] = trunkStep[q]
    BY <1>2 DEF Trunk!Fail, Trunk!Goto, TrunkInv, Trunk!TypeOK
  <2>1. Trunk!TypeOK'
    BY <1>2 DEF Trunk!Fail, Trunk!Goto, TrunkInv, Trunk!TypeOK
  <2>2. ASSUME NEW q \in Posts
        PROVE  TrunkAlone(q)' /\ TrunkMerged(q)'
    BY <2>0, PlansStay DEF TrunkInv, TrunkAlone, TrunkMerged
  <2> QED
    BY <2>1, <2>2 DEF TrunkInv
<1> QED
  BY <1>1, <1>2 DEF Trunk!Fail

\* Every step of a form keeps the trunk merged.
LEMMA TrunkStep == TrunkInv /\ [Trunk!Next]_(Trunk!vars) => TrunkInv'
<1> SUFFICES ASSUME TrunkInv, [Trunk!Next]_(Trunk!vars)
             PROVE  TrunkInv'
  OBVIOUS
<1>1. CASE UNCHANGED Trunk!vars
  BY <1>1, PlansStay DEF Trunk!vars, TrunkInv, Trunk!TypeOK, TrunkAlone,
     TrunkMerged
<1>2. ASSUME NEW r \in Posts, Trunk!Call(r)
      PROVE  TrunkInv'
  BY <1>2, EffectKeepsInv DEF Trunk!Call
<1> QED
  BY <1>1, <1>2, EditKeepsInv, SkipKeepsInv, FailKeepsInv DEF Trunk!Next

\* The same of the whole, while this part runs.
LEMMA TrunkRuns == PortalSpec => [](part = "trunk" => TrunkInv)
<1>1. PortalInit => (part = "trunk" => TrunkInv)
  BY InitTrunk DEF PortalInit
<1>2. (part = "trunk" => TrunkInv) /\ [PortalNext]_allvars
        => (part = "trunk" => TrunkInv)'
  BY StepOfPart, TrunkStep
<1> QED
  BY <1>1, <1>2, PTL DEF PortalSpec

-----------------------------------------------------------------------------
(***************************************************************************)
(* "We have to delete old subports before creating new ones to avoid       *)
(* conflicts": Neutron refuses none of the calls of an update, and at the  *)
(* end has the trunk of the form, as long as no other changes it           *)
(* (trunk_update).                                                         *)
(***************************************************************************)
THEOREM UpdatesDoNotConflict == PortalSpec => []NoConflict
<1>1. (part = "trunk" => TrunkInv) => NoConflict
  <2> SUFFICES ASSUME part = "trunk", TrunkInv, NEW r \in Posts, trunkAlone[r]
               PROVE  /\ Trunk!Calling(r) /\ Trunk!Needed(r) => Trunk!Agrees(r)
                      /\ trunkStep[r] = "done" => trunk = new[r]
    BY DEF Trunk!NoConflict, NoConflict
  <2>1. CASE trunkStep[r] = "remove"
    BY <2>1 DEF TrunkInv, TrunkAlone, Trunk!Agrees, Trunk!ToDelete,
       Trunk!PortsOf
  <2>2. CASE trunkStep[r] = "add"
    <3>1. trunk.sub_ports \cup Trunk!ToCreate(r) = new[r].sub_ports
      BY <2>2 DEF TrunkInv, TrunkAlone, Trunk!ToCreate
    <3>2. Trunk!Valid(new[r].sub_ports)
      BY SubPortsOf DEF TrunkInv, Trunk!TypeOK
    <3> QED
      BY <2>2, <3>1, <3>2 DEF Trunk!Agrees
  <2>3. CASE trunkStep[r] = "update"
    BY <2>3 DEF Trunk!Agrees
  <2>4. trunkStep[r] = "done" => trunk = new[r]
    BY DEF TrunkInv, TrunkAlone
  <2> QED
    BY <2>1, <2>2, <2>3, <2>4 DEF Trunk!Calling
<1> QED
  BY TrunkRuns, <1>1, PTL

(***************************************************************************)
(* What a form has added is undone only by a form that dropped that port,  *)
(* and what it has dropped comes back only by a form that added it         *)
(* (trunk_update).                                                         *)
(***************************************************************************)
THEOREM UpdatesMerge == PortalSpec => []EditsMerge
<1>1. (part = "trunk" => TrunkInv) => EditsMerge
  BY DEF TrunkInv, TrunkMerged, Trunk!EditsMerge, EditsMerge
<1> QED
  BY TrunkRuns, <1>1, PTL
=============================================================================
