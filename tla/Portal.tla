-------------------------------- MODULE Portal --------------------------------
(***************************************************************************)
(* The parts of the portal and of the service that share no state, as one  *)
(* system: `part' says which of them runs, and never changes.  The         *)
(* variables of the others have one value, that of a part at rest for the  *)
(* role forms, whose properties are stated as they are, and Off for the    *)
(* rest, whose properties are stated of the part that runs.                *)
(***************************************************************************)
EXTENDS RoleForms, Naturals

CONSTANTS
  None, Off, Posts,                               \* of several parts
  Projects, Infos, MaxId,                         \* FlavorForms
  MaxRows, Size,                                  \* Paging
  Threads, Args, MaxCalls,                        \* Memoized
  Ids,                                            \* AdcTable
  Ports, Segments, Names,                         \* TrunkForms
  Apps, Decls, Deployments,                       \* AppDeploy
  Adcs, MaxFips,                                  \* FipClaims
  Jobs, Tries, MaxTokens,                         \* BigIqTask
  MaxValues, MaxLen, KeyLen, Limit, MaxBase,      \* LongFilters
  Tenants, Regions, RegionsOf, MaxLogins,         \* Sessions
  Patches                                         \* HardwareAdc

VARIABLES
  part,
  flavors, used, flavorStep, target, info, access, extras, drop, add,
  flavorErrors, flavorAlone, open,
  rows, born, page, more, prev, pageFresh, way, owed,
  live, made, arg, pc, call, mutex, locks, holder, cache, value, kept, waited,
  raised, outside,
  adcs, owner, project, postStep, kind, chosen, mine, data, todo, ok, bad,
  denied, accepted,
  trunk, trunkStep, old, new, trunkAlone,
  partition, deployed, fixedIps, deployStep, op, app, decl, ips, there, took,
  overlap,
  fip, port, down, fipsBorn, fipStep, found, rcd, created, raced, late,
  age, token, jobStep, held, task, tries, told,
  lens, holds, base, listStep, from, chunk, got,
  network, subnet, netPort, withSubnet, netStep, said, unsure,
  store, cookie, last, logins, expired, requestStep, sid, copy, dirty, fresh,
  first, wanted, stale, over,
  row, place, device, reclaim, patch, trusted, lost, early

flavorVars == <<flavors, used, flavorStep, target, info, access, extras, drop,
  add, flavorErrors, flavorAlone, open>>
tableVars == <<rows, born, page, more, prev, pageFresh, way, owed>>
memoVars == <<live, made, arg, pc, call, mutex, locks, holder, cache, value,
  kept, waited, raised, outside>>
adcRowsVars == <<adcs, owner, project, postStep, kind, chosen, mine, data,
  todo, ok, bad, denied, accepted>>
trunkVars == <<trunk, trunkStep, old, new, trunkAlone>>
appVars == <<partition, deployed, fixedIps, deployStep, op, app, decl, ips,
  there, took, overlap>>
fipVars == <<fip, port, down, fipsBorn, fipStep, found, rcd, created, raced,
  late>>
taskVars == <<age, token, jobStep, held, task, tries, told>>
filterVars == <<lens, holds, base, listStep, from, chunk, got>>
netVars == <<network, subnet, netPort, withSubnet, netStep, said, unsure>>
sessionVars == <<store, cookie, last, logins, expired, requestStep, sid, copy,
  dirty, fresh, first, wanted, stale, over>>
hardwareVars == <<row, place, device, reclaim, patch, trusted, lost, early>>

Flavor == INSTANCE FlavorForms WITH Requests <- Posts, step <- flavorStep,
            errors <- flavorErrors, alone <- flavorAlone
Table == INSTANCE Paging WITH fresh <- pageFresh
Memo == INSTANCE Memoized
AdcRows == INSTANCE AdcTable WITH step <- postStep
Trunk == INSTANCE TrunkForms WITH Requests <- Posts, step <- trunkStep,
           alone <- trunkAlone
App == INSTANCE AppDeploy WITH Requests <- Deployments, step <- deployStep
Fip == INSTANCE FipClaims WITH born <- fipsBorn, step <- fipStep
Task == INSTANCE BigIqTask WITH step <- jobStep
Filter == INSTANCE LongFilters WITH kind <- holds, step <- listStep
Hardware == INSTANCE HardwareAdc WITH Deletes <- Posts, known <- device
Net == INSTANCE NetworkForms WITH Requests <- Posts, port <- netPort,
         step <- netStep

Session == INSTANCE Sessions WITH Requests <- Posts, Projects <- Tenants,
             step <- requestStep

\* What the code is given: room for a first flavor, row and call; pages that
\* hold a row; attributes and values that have a length; catalogues whose
\* regions exist; and None is none of what it stands beside.
ASSUME PortalAssumption ==
  /\ MaxId \in Nat \ {0} /\ None \notin Flavor!Flavor
  /\ MaxRows \in Nat /\ Size \in Nat \ {0}
  /\ MaxCalls \in Nat /\ None \notin 1 .. MaxCalls /\ None \notin Threads
  /\ MaxFips \in Nat /\ None \notin 0 .. MaxFips /\ None \notin Adcs
  /\ Tries \in Nat /\ MaxTokens \in Nat
  /\ MaxValues \in Nat /\ MaxLen \in Nat /\ KeyLen \in Nat
  /\ Limit \in Nat /\ MaxBase \in Nat
  /\ MaxLogins \in Nat /\ None \notin Session!Data
  /\ \A p \in Tenants : RegionsOf[p] # {} /\ RegionsOf[p] \subseteq Regions

-----------------------------------------------------------------------------
RolesAtRest ==
  /\ object = "project" /\ exists = FALSE /\ assigned = Nobody
  /\ step = [r \in Requests |-> "idle"]
  /\ form = [r \in Requests |-> [p \in Editable |-> {}]]
  /\ seen = [r \in Requests |-> [u \in Users |-> {}]]
  /\ left = [r \in Requests |-> {}] /\ known = [r \in Requests |-> {}]
  /\ grant = [r \in Requests |-> {}] /\ revoke = [r \in Requests |-> {}]
  /\ errors = [r \in Requests |-> FALSE]
  /\ before = [r \in Requests |-> Nobody]
  /\ company = [r \in Requests |-> "unread"]

-----------------------------------------------------------------------------
Parts == {"roles", "flavor", "table", "memo", "adcs", "trunk", "app", "fip",
          "task", "filter", "net", "session", "hardware"}

PortalInit ==
  /\ part \in Parts
  /\ IF part = "roles" THEN Init ELSE RolesAtRest
  /\ IF part = "flavor" THEN Flavor!Init
     ELSE /\ flavors = Off /\ used = Off /\ flavorStep = Off /\ target = Off
          /\ info = Off /\ access = Off /\ extras = Off /\ drop = Off
          /\ add = Off /\ flavorErrors = Off /\ flavorAlone = Off
          /\ open = Off
  /\ IF part = "table" THEN Table!Init
     ELSE /\ rows = Off /\ born = Off /\ page = Off /\ more = Off
          /\ prev = Off /\ pageFresh = Off /\ way = Off /\ owed = Off
  /\ IF part = "memo" THEN Memo!Init
     ELSE /\ live = Off /\ made = Off /\ arg = Off /\ pc = Off /\ call = Off
          /\ mutex = Off /\ locks = Off /\ holder = Off /\ cache = Off
          /\ value = Off /\ kept = Off /\ waited = Off /\ raised = Off
          /\ outside = Off
  /\ IF part = "adcs" THEN AdcRows!Init
     ELSE /\ adcs = Off /\ owner = Off /\ project = Off /\ postStep = Off
          /\ kind = Off /\ chosen = Off /\ mine = Off /\ data = Off
          /\ todo = Off /\ ok = Off /\ bad = Off /\ denied = Off
          /\ accepted = Off
  /\ IF part = "trunk" THEN Trunk!Init
     ELSE /\ trunk = Off /\ trunkStep = Off /\ old = Off /\ new = Off
          /\ trunkAlone = Off
  /\ IF part = "app" THEN App!Init
     ELSE /\ partition = Off /\ deployed = Off /\ fixedIps = Off
          /\ deployStep = Off /\ op = Off /\ app = Off /\ decl = Off
          /\ ips = Off /\ there = Off /\ took = Off /\ overlap = Off
  /\ IF part = "fip" THEN Fip!Init
     ELSE /\ fip = Off /\ port = Off /\ fipsBorn = Off /\ fipStep = Off
          /\ found = Off /\ rcd = Off /\ created = Off /\ raced = Off
          /\ down = Off /\ late = Off
  /\ IF part = "task" THEN Task!Init
     ELSE /\ age = Off /\ token = Off /\ jobStep = Off /\ held = Off
          /\ task = Off /\ tries = Off /\ told = Off
  /\ IF part = "filter" THEN Filter!Init
     ELSE /\ lens = Off /\ holds = Off /\ base = Off /\ listStep = Off
          /\ from = Off /\ chunk = Off /\ got = Off
  /\ IF part = "net" THEN Net!Init
     ELSE /\ network = Off /\ subnet = Off /\ netPort = Off
          /\ withSubnet = Off /\ netStep = Off /\ said = Off /\ unsure = Off
  /\ IF part = "session" THEN Session!Init
     ELSE /\ store = Off /\ cookie = Off /\ last = Off /\ logins = Off
          /\ expired = Off /\ requestStep = Off /\ sid = Off /\ copy = Off
          /\ dirty = Off /\ fresh = Off /\ first = Off /\ wanted = Off
          /\ stale = Off /\ over = Off
  /\ IF part = "hardware" THEN Hardware!Init
     ELSE /\ row = Off /\ place = Off /\ device = Off /\ reclaim = Off
          /\ patch = Off /\ trusted = Off /\ lost = Off /\ early = Off

\* Everything but the part that runs stays as it is.
Rest(p) ==
  /\ UNCHANGED part
  /\ IF p = "roles" THEN TRUE ELSE UNCHANGED vars
  /\ IF p = "flavor" THEN TRUE ELSE UNCHANGED flavorVars
  /\ IF p = "table" THEN TRUE ELSE UNCHANGED tableVars
  /\ IF p = "memo" THEN TRUE ELSE UNCHANGED memoVars
  /\ IF p = "adcs" THEN TRUE ELSE UNCHANGED adcRowsVars
  /\ IF p = "trunk" THEN TRUE ELSE UNCHANGED trunkVars
  /\ IF p = "app" THEN TRUE ELSE UNCHANGED appVars
  /\ IF p = "fip" THEN TRUE ELSE UNCHANGED fipVars
  /\ IF p = "task" THEN TRUE ELSE UNCHANGED taskVars
  /\ IF p = "filter" THEN TRUE ELSE UNCHANGED filterVars
  /\ IF p = "net" THEN TRUE ELSE UNCHANGED netVars
  /\ IF p = "session" THEN TRUE ELSE UNCHANGED sessionVars
  /\ IF p = "hardware" THEN TRUE ELSE UNCHANGED hardwareVars

PortalNext ==
  \/ part = "roles" /\ Next /\ Rest("roles")
  \/ part = "flavor" /\ Flavor!Next /\ Rest("flavor")
  \/ part = "table" /\ Table!Next /\ Rest("table")
  \/ part = "memo" /\ Memo!Next /\ Rest("memo")
  \/ part = "adcs" /\ AdcRows!Next /\ Rest("adcs")
  \/ part = "trunk" /\ Trunk!Next /\ Rest("trunk")
  \/ part = "app" /\ App!Next /\ Rest("app")
  \/ part = "fip" /\ Fip!Next /\ Rest("fip")
  \/ part = "task" /\ Task!Next /\ Rest("task")
  \/ part = "filter" /\ Filter!Next /\ Rest("filter")
  \/ part = "net" /\ Net!Next /\ Rest("net")
  \/ part = "session" /\ Session!Next /\ Rest("session")
  \/ part = "hardware" /\ Hardware!Next /\ Rest("hardware")

allvars ==
  <<part, vars, flavorVars, tableVars, memoVars, adcRowsVars, trunkVars,
    appVars, fipVars, taskVars, filterVars, netVars, sessionVars,
    hardwareVars>>

PortalSpec == PortalInit /\ [][PortalNext]_allvars

-----------------------------------------------------------------------------
\* Every part keeps to its types: the variables range over what the code's do.
PartsTypeOK ==
  CASE part = "roles" -> TypeOK
    [] part = "flavor" -> Flavor!TypeOK
    [] part = "table" -> Table!TypeOK
    [] part = "memo" -> Memo!TypeOK
    [] part = "adcs" -> AdcRows!TypeOK
    [] part = "trunk" -> Trunk!TypeOK
    [] part = "app" -> App!TypeOK
    [] part = "fip" -> Fip!TypeOK
    [] part = "task" -> Task!TypeOK
    [] part = "filter" -> Filter!TypeOK
    [] part = "net" -> Net!TypeOK
    [] part = "session" -> Session!TypeOK
    [] part = "hardware" -> Hardware!TypeOK

\* FlavorForms!EditTakesEffect: a flavor edit that reports success leaves one
\* flavor, as the form says, but for a public one (UpdateFlavor.handle).
EditTakesEffect == part = "flavor" => Flavor!EditTakesEffect

\* FlavorForms!NotLostSilently: a flavor that is deleted to be created again
\* is not lost without an error message (UpdateFlavor.handle).
NotLostSilently == part = "flavor" => Flavor!NotLostSilently

\* Paging!LinksAreTrue: a page has the links it should (update_pagination).
LinksAreTrue == part = "table" => Table!LinksAreTrue

\* Paging!NothingSkipped: who pages to the end has seen every row
\* (update_pagination, PagedTableMixin).
NothingSkipped == part = "table" => Table!NothingSkipped

\* Memoized!CalledOnce: a memoized call is made once, but for a TypeError
\* (memoized).
CalledOnce == part = "memo" => Memo!CalledOnce

\* Memoized!NothingKept: what is memoized goes with its argument (memoized).
NothingKept == part = "memo" => Memo!NothingKept

\* AdcTable!SaidIsDone: a deletion that is reported was taken, and in the
\* user's project (BatchAction.handle, adc_delete).
SaidIsDone == part = "adcs" => AdcRows!SaidIsDone

\* AdcTable!EveryRowAccounted: a batch mentions every row (BatchAction.handle).
EveryRowAccounted == part = "adcs" => AdcRows!EveryRowAccounted

\* TrunkForms!NoConflict: the calls of one update are not refused for their
\* order (trunk_update).
NoConflict == part = "trunk" => Trunk!NoConflict

\* TrunkForms!EditsMerge: two updates of a trunk are merged (trunk_update).
EditsMerge == part = "trunk" => Trunk!EditsMerge

\* AppDeploy!SparesOthers: a deployment by the default declaration touches no
\* other application (deployById).
SparesOthers == [][part = "app" => App!SparesOthersStep]_allvars

\* AppDeploy!AddressesServe: what is reported deployed has its address on the
\* port (proxyDeploy, TryBindVirtualAddressToExt).
AddressesServe == part = "app" => App!AddressesServe

\* FipClaims!RecordedIsBound: an ADC has the floating IP it records, unless
\* another raced it or the status was late (cNet).
RecordedIsBound == part = "fip" => Fip!RecordedIsBound

\* FipClaims!UsersFipStays: a user's floating IP is not deleted with an ADC
\* (cNet, deleteOn).
UsersFipStays == [][part = "fip" => Fip!UsersFipStep]_allvars

\* BigIqTask!OutcomeFollowsTask: a license follows its task (assign).
OutcomeFollowsTask == part = "task" => Task!OutcomeFollowsTask

\* LongFilters!AllAskedFor: the chunks are neither too long nor incomplete
\* (list_resources_with_long_filters).
AllAskedFor == part = "filter" => Filter!AllAskedFor

\* NetworkForms!WholeOrNothing: a network comes with its subnet or not at all
\* (CreateNetwork.handle).
WholeOrNothing == part = "net" => Net!WholeOrNothing

\* Sessions!SessionCoheres: project and region of a session belong together
\* and are what the user chose (switch, switch_region).
SessionCoheres == part = "session" => Session!SessionCoheres

\* HardwareAdc!DeviceFindable: a trusted device is named by its row (trustAdc,
\* deleteById).
DeviceFindable == part = "hardware" => Hardware!DeviceFindable
=============================================================================
