----------------------------- MODULE AdcLifecycle -----------------------------
(***************************************************************************)
(* One virtual-edition ADC of the control plane (AdcController): the       *)
(* database row, the background job its POST starts, the background jobs   *)
(* its DELETE requests start, PATCH requests, and the resources these jobs *)
(* acquire and release in OpenStack, BIG-IQ and the ASG.                   *)
(*                                                                         *)
(* Every job works on its own copy of the record and writes that whole     *)
(* copy back (serialize).  A step of the model is the code between two     *)
(* awaits of external calls; an awaited serialize is one step, a serialize *)
(* nobody awaits is a step of its own that may happen any time later.      *)
(***************************************************************************)
EXTENDS AdcStates

CONSTANTS
  Networks,  \* keys of adc.networks
  Floating,  \* those of them the request asks a floating IP for
  Deletes,   \* DELETE requests
  Patches,   \* PATCH requests
  OwnKey,    \* TRUE: the request brings a license key (adc.license)
  Faults,    \* the steps whose external call may fail
  CanCrash,  \* TRUE: the server process may stop and restart
  NoNet      \* not a network

\* The steps that can fail on their own: a stage of creation, a check of
\* readyTo, or a step of reclaiming.
FaultPoint == Stage \union {"createPort", "floatingIp", "createServer", "check",
                            "untrust", "revoke", "deleteServer", "deletePort",
                            "deleteFloatingIp"}

ASSUME ConstantsAssumption ==
  /\ Floating \subseteq Networks
  /\ NoNet \notin Networks
  /\ OwnKey \in BOOLEAN
  /\ CanCrash \in BOOLEAN
  /\ Faults \subseteq FaultPoint

VARIABLES
  row,      \* the ADC's row in the database
  creator,  \* the job POST starts: where it is, and its copy of the ADC
  reclaim,  \* for each DELETE request: where it is, and its copy
  patch,    \* for each PATCH request: where it is, and the row it has read
  held,     \* external resources that exist for this ADC
  device,   \* what the BIG-IP has reached: a set of features
  astray,   \* history: resources a failing call put out of reach
  mishap    \* history: overlapping writers the code does not exclude

vars == <<row, creator, reclaim, patch, held, device, astray, mishap>>
outside == <<held, device, astray>>
-------------------------------------------------------------------------------
(***************************************************************************)
(* External resources.  An ADC record names those it knows: Server is      *)
(* management.vmId with management.connection (set and cleared together),  *)
(* Port(n) is management.networks[n].portId, Fip(n) is                     *)
(* management.networks[n].floatingIpId with floatingIpCreated, Trust is    *)
(* management.trustedDeviceId.  No field of the record names the Licence.  *)
(***************************************************************************)
Port(n) == <<"port", n>>
Fip(n) == <<"fip", n>>
Server == <<"server", NoNet>>
Trust == <<"trust", NoNet>>
Licence == <<"licence", NoNet>>

Infra == {Server} \union {Port(n) : n \in Networks} \union {Fip(n) : n \in Networks}
Resource == Infra \union {Trust, Licence}

Feature == {"boot", "do", "license", "onboard", "as3", "partition"}

Adc == [status : Status, res : SUBSET Resource]
NewAdc == [status |-> "NEW", res |-> {}]

\* The row before POST and after it has been removed.
NoRow == [status |-> "none", res |-> {}]

CreatorPhase == {"gate", "begin", "work", "fip", "save", "wait"}
Live == {"check", "enter", "trust", "license", "vm", "network", "fip",
         "remove", "fail"}
Accepted == Live \ {"check"}
Over == {"removed", "failed", "rejected", "dead"}

CreatorState == [stage : Stage \union {"POST", "SETUP", "END"},
                 phase : CreatorPhase,
                 net   : Networks \union {NoNet},
                 adc   : Adc,
                 late  : BOOLEAN]

ReclaimState == [phase : Live \union Over \union {"idle"},
                 adc   : Adc,
                 todo  : SUBSET Networks,
                 net   : Networks \union {NoNet}]

PatchState == [phase : {"idle", "write", "done"}, adc : Adc]

TypeOK ==
  /\ row \in Adc \union {NoRow}
  /\ creator \in CreatorState
  /\ reclaim \in [Deletes -> ReclaimState]
  /\ patch \in [Patches -> PatchState]
  /\ held \subseteq Resource
  /\ device \subseteq Feature
  /\ astray \subseteq Resource
  /\ mishap \subseteq {"overlap", "stalePatch"}

Init ==
  /\ row = NoRow
  /\ creator = [stage |-> "POST", phase |-> "gate", net |-> NoNet,
                adc |-> NewAdc, late |-> FALSE]
  /\ reclaim = [d \in Deletes |->
                  [phase |-> "idle", adc |-> NewAdc, todo |-> {}, net |-> NoNet]]
  /\ patch = [p \in Patches |-> [phase |-> "idle", adc |-> NewAdc]]
  /\ held = {} /\ device = {} /\ astray = {} /\ mishap = {}

\* The POST's job still runs, or has a write it did not wait for.
Busy == creator.stage # "END" \/ creator.late

Gone == row = NoRow /\ creator.stage # "POST"
-------------------------------------------------------------------------------
(* Checks of AdcStateCtrlr, on a job's copy `adc'. *)

Reachable(adc) == Server \in adc.res /\ Server \in held
Managed(adc) == Reachable(adc) /\ Trust \in adc.res /\ Trust \in held

\* When the check function of a table row can answer yes.
Passes(entry, adc) ==
  CASE entry = "POWERON"     -> Reachable(adc) /\ "boot" \in device
    [] entry = "DOINSTALLED" -> Reachable(adc) /\ "do" \in device
    [] entry = "LICENSED"    -> Reachable(adc) /\ "license" \in device
    [] entry = "ONBOARDED"   -> Reachable(adc) /\ {"license", "onboard"} \subseteq device
    [] entry = "TRUSTED"     -> Trust \in adc.res /\ Trust \in held
    [] entry = "INSTALLED"   -> Managed(adc) /\ "as3" \in device
    [] entry = "PARTITIONED" -> Managed(adc) /\ "partition" \in device
    [] entry = "RECLAIMED"   -> /\ Server \notin adc.res
                                /\ Trust \notin adc.res
                                /\ \A n \in Networks : Port(n) \notin adc.res
    [] OTHER                 -> TRUE

\* The checks that call no other system cannot fail for a moment.
LocalCheck == {"NEW", "ACTIVE", "RECLAIMED", NoEntry}

\* The answers a check can give: no, whenever the call behind it fails.
Answers(entry, adc) ==
  {Passes(entry, adc)} \union
  (IF "check" \in Faults /\ entry \notin LocalCheck THEN {FALSE} ELSE {})

ReadyAnswers(adc, state) ==
  {ReadyTo(adc.status, state, passed) : passed \in Answers(StateEntry(adc.status), adc)}
-------------------------------------------------------------------------------
(* serialize: update the copy in memory, then write all of it over the row, *)
(* if there is one (CommonRepository.updateById finds it first).            *)

\* Mutant: an update that creates the row again when it is gone.
WriteUpserting(adc) == row' = adc

Write(adc) == row' = IF row = NoRow THEN NoRow ELSE adc

With(adc, status) == [adc EXCEPT !.status = status]

Move(stage, phase) == [creator EXCEPT !.stage = stage, !.phase = phase]

\* The rejection of an awaited write on a removed row unwinds to createFunc.
Aborted == [creator EXCEPT !.stage = "END", !.phase = "gate", !.net = NoNet]

\* An awaited serialize of the creator, and where it goes on.
Save(adc, stage, phase) ==
  /\ Write(adc)
  /\ creator' = IF row = NoRow
                THEN Aborted
                ELSE [creator EXCEPT !.stage = stage, !.phase = phase,
                                     !.net = NoNet, !.adc = adc]

\* A serialize of the creator that nobody awaits.
SaveLater(adc, stage) ==
  /\ creator' = [creator EXCEPT !.stage = stage, !.phase = "gate",
                                !.adc = adc, !.late = TRUE]
  /\ UNCHANGED row

At(stage, phase) == creator.stage = stage /\ creator.phase = phase

\* An external call of the creator fails; `lost' is what it created although
\* the caller saw it fail.
CallFails(point, candidates, lost) ==
  /\ point \in Faults
  /\ lost \subseteq candidates
  /\ held' = held \union lost
  /\ UNCHANGED device

\* The calls to the BIG-IP fail, too, once its server has been deleted.
MayFail(stage) == stage \in Faults \/ Server \notin held

others == <<reclaim, patch, mishap>>
-------------------------------------------------------------------------------
(* POST /adcs and the gates of createFunc and setupOn. *)

Create ==
  /\ creator.stage = "POST"
  /\ row' = NewAdc
  /\ creator' = [creator EXCEPT !.stage = "POWERON"]
  /\ UNCHANGED <<outside, others>>

\* Where createFunc and setupOn go when a gate says no.
After(stage) ==
  CASE stage = "POWERON"     -> "DOINSTALLED"
    [] stage = "DOINSTALLED" -> "LICENSED"
    [] stage = "LICENSED"    -> "ONBOARDED"
    [] stage = "ONBOARDED"   -> "SETUP"
    [] stage = "SETUP"       -> "END"
    [] stage = "TRUSTED"     -> "INSTALLED"
    [] stage = "INSTALLED"   -> "PARTITIONED"
    [] stage = "PARTITIONED" -> "END"

\* createFunc asks for TRUSTED before it calls setupOn, which asks again.
Gate ==
  /\ creator.phase = "gate"
  /\ creator.stage \in Stage \union {"SETUP"}
  /\ \E ready \in ReadyAnswers(creator.adc, IF creator.stage = "SETUP"
                                            THEN "TRUSTED" ELSE creator.stage) :
       creator' = IF ~ready THEN Move(After(creator.stage), "gate")
                  ELSE IF creator.stage = "SETUP" THEN Move("TRUSTED", "gate")
                  ELSE Move(creator.stage, "begin")
  /\ UNCHANGED <<row, outside, others>>

\* A stage writes its in-progress status first; licenseAdc does not.
Begin(stage) ==
  /\ At(stage, "begin")
  /\ Save(With(creator.adc, ProgressOf(stage)), stage, "work")
  /\ UNCHANGED <<outside, others>>

\* An awaited write of the stage's failure.
Fail(stage, next) == Save(With(creator.adc, FailureOf(stage)), next, "gate")
-------------------------------------------------------------------------------
(* createOn, cNet, cSvr: ports, floating IPs, the server, and its boot. *)

\* createOn rejects after POWERERROR: createFunc asks no further gate.
PowerFails(point, candidates) ==
  \E lost \in SUBSET candidates :
    /\ CallFails(point, candidates, lost)
    /\ astray' = astray \union lost
    /\ Fail("POWERON", "END")

CreatePort(n) ==
  /\ At("POWERON", "work")
  /\ Port(n) \notin creator.adc.res
  /\ \/ /\ held' = held \union {Port(n)}
        /\ creator' = [creator EXCEPT !.adc.res = @ \union {Port(n)},
                                      !.phase = IF n \in Floating THEN "fip" ELSE "save",
                                      !.net = n]
        /\ UNCHANGED <<row, device, astray>>
     \/ PowerFails("createPort", {Port(n)})
  /\ UNCHANGED others

\* A floating IP that exists already is bound if it is DOWN, and not recorded
\* as created; one in use fails the stage, like a failing call.
FloatingIp ==
  /\ At("POWERON", "fip")
  /\ \/ /\ creator' = Move("POWERON", "save")
        /\ UNCHANGED <<row, outside>>
     \/ /\ held' = held \union {Fip(creator.net)}
        /\ creator' = [creator EXCEPT !.adc.res = @ \union {Fip(creator.net)},
                                      !.phase = "save"]
        /\ UNCHANGED <<row, device, astray>>
     \/ PowerFails("floatingIp", {Fip(creator.net)})
  /\ UNCHANGED others

SaveNetwork ==
  /\ At("POWERON", "save")
  /\ Save(creator.adc, "POWERON", "work")
  /\ UNCHANGED <<outside, others>>

\* Mutant: the new server's id is not recorded.
CreateServerUnrecorded ==
  /\ At("POWERON", "work")
  /\ \A n \in Networks : Port(n) \in creator.adc.res
  /\ held' = held \union {Server}
  /\ device' = {}
  /\ creator' = Move("POWERON", "wait")
  /\ UNCHANGED <<row, astray, others>>

\* The image may carry a license already.
CreateServer ==
  /\ At("POWERON", "work")
  /\ \A n \in Networks : Port(n) \in creator.adc.res
  /\ \/ /\ held' = held \union {Server}
        /\ device' \in {{}, {"license"}}
        /\ creator' = [creator EXCEPT !.adc.res = @ \union {Server}, !.phase = "wait"]
        /\ UNCHANGED <<row, astray>>
     \/ PowerFails("createServer", {Server})
  /\ UNCHANGED others

WaitPowerOn ==
  /\ At("POWERON", "wait")
  /\ \/ /\ Server \in held
        /\ device' = device \union {"boot"}
        /\ SaveLater(With(creator.adc, "POWERON"), "DOINSTALLED")
        /\ UNCHANGED <<held, astray>>
     \/ /\ MayFail("POWERON")
        /\ Fail("POWERON", "END")
        /\ UNCHANGED outside
  /\ UNCHANGED others

CreateOn ==
  \/ Begin("POWERON")
  \/ \E n \in Networks : CreatePort(n)
  \/ FloatingIp
  \/ SaveNetwork
  \/ CreateServer
  \/ WaitPowerOn
-------------------------------------------------------------------------------
(* The other stages: a call, then checkAndWait on the stage's check. *)

\* The call of a stage is accepted, or fails.
Call(stage, next) ==
  /\ At(stage, "work")
  /\ \/ /\ Server \in held
        /\ creator' = Move(stage, "wait")
        /\ UNCHANGED row
     \/ /\ MayFail(stage)
        /\ Fail(stage, next)
  /\ UNCHANGED <<outside, others>>

\* checkAndWait finds the feature, or the stage fails as `failed' says.
Await(stage, feature, done, failed) ==
  /\ At(stage, "wait")
  /\ \/ /\ Server \in held
        /\ device' = device \union {feature}
        /\ done
     \/ /\ MayFail(stage)
        /\ failed
        /\ UNCHANGED device
  /\ UNCHANGED <<held, astray, others>>

InstallDO ==
  \/ Begin("DOINSTALLED")
  \/ Call("DOINSTALLED", "LICENSED")
  \/ Await("DOINSTALLED", "do",
           SaveLater(With(creator.adc, "DOINSTALLED"), "LICENSED"),
           Fail("DOINSTALLED", "LICENSED"))

\* licenseAdc leaves at once when the device is licensed already.
LicenseCheck ==
  /\ At("LICENSED", "begin")
  /\ \E already \in Answers("LICENSED", creator.adc) :
       IF already
       THEN Save(With(creator.adc, "LICENSED"), "ONBOARDED", "gate")
       ELSE creator' = Move("LICENSED", "work") /\ UNCHANGED row
  /\ UNCHANGED <<outside, others>>

\* Mutant: a license is taken from BIG-IQ although the request brought a key.
AssignLicenseAlways ==
  /\ At("LICENSED", "work")
  /\ Server \in held
  /\ held' = held \union {Licence}
  /\ creator' = Move("LICENSED", "wait")
  /\ UNCHANGED <<row, device, astray, others>>

\* BIG-IQ assigns the license without the device, which then has to take it.
AssignLicense ==
  /\ At("LICENSED", "work")
  /\ \/ /\ OwnKey
        /\ creator' = Move("LICENSED", "wait")
        /\ UNCHANGED <<row, held>>
     \/ /\ ~OwnKey
        /\ Server \in held
        /\ held' = held \union {Licence}
        /\ creator' = Move("LICENSED", "wait")
        /\ UNCHANGED row
     \/ /\ ~OwnKey
        /\ MayFail("LICENSED")
        /\ held' \in {held, held \union {Licence}}
        /\ Fail("LICENSED", "ONBOARDED")
  /\ UNCHANGED <<device, astray, others>>

LicenseAdc ==
  \/ LicenseCheck
  \/ AssignLicense
  \/ Await("LICENSED", "license",
           Save(With(creator.adc, "LICENSED"), "ONBOARDED", "gate"),
           Fail("LICENSED", "ONBOARDED"))

\* onboard rejects when its own calls throw; a poll that gives up is written
\* without waiting, and createFunc goes on to the next gate.
Onboard ==
  \/ Begin("ONBOARDED")
  \/ Call("ONBOARDED", "END")
  \/ Await("ONBOARDED", "onboard",
           SaveLater(With(creator.adc, "ONBOARDED"), "SETUP"),
           SaveLater(With(creator.adc, "ONBOARDERROR"), "SETUP"))

\* The trusted device's id is recorded only once the ASG reports it ACTIVE.
TrustCall ==
  /\ At("TRUSTED", "work")
  /\ \/ /\ held' = held \union {Trust}
        /\ creator' = Move("TRUSTED", "wait")
        /\ UNCHANGED <<row, device, astray>>
     \/ \E lost \in SUBSET {Trust} :
          /\ CallFails("TRUSTED", {Trust}, lost)
          /\ astray' = astray \union lost
          /\ Fail("TRUSTED", "INSTALLED")
  /\ UNCHANGED others

TrustWait ==
  /\ At("TRUSTED", "wait")
  /\ \/ /\ {Server, Trust} \subseteq held
        /\ Save([status |-> "TRUSTED", res |-> creator.adc.res \union {Trust}],
                "INSTALLED", "gate")
        /\ UNCHANGED astray
     \/ /\ MayFail("TRUSTED")
        /\ astray' = astray \union (held \intersect {Trust})
        /\ Fail("TRUSTED", "INSTALLED")
  /\ UNCHANGED <<held, device, others>>

TrustAdc == Begin("TRUSTED") \/ TrustCall \/ TrustWait

InstallAS3 ==
  \/ Begin("INSTALLED")
  \/ Call("INSTALLED", "PARTITIONED")
  \/ Await("INSTALLED", "as3",
           Save(With(creator.adc, "INSTALLED"), "PARTITIONED", "gate"),
           Fail("INSTALLED", "PARTITIONED"))

\* The status PARTITIONED is never written: the stage ends in ACTIVE.
InstallPartition ==
  \/ Begin("PARTITIONED")
  \/ Call("PARTITIONED", "END")
  \/ Await("PARTITIONED", "partition",
           SaveLater(With(creator.adc, "ACTIVE"), "END"),
           SaveLater(With(creator.adc, "PARTITIONERROR"), "END"))

\* A serialize nobody awaited reaches the database: it writes the copy as it
\* is by then.
LateWrite ==
  /\ creator.late
  /\ Write(creator.adc)
  /\ creator' = [creator EXCEPT !.late = FALSE]
  /\ UNCHANGED <<outside, others>>

Creation ==
  \/ Gate \/ CreateOn \/ InstallDO \/ LicenseAdc \/ Onboard
  \/ TrustAdc \/ InstallAS3 \/ InstallPartition \/ LateWrite
-------------------------------------------------------------------------------
(* DELETE /adcs/{adcId}: deleteById and, in the background, deleteOn. *)

rest == <<creator, patch>>

To(d, phase) == reclaim' = [reclaim EXCEPT ![d].phase = phase]

\* findById
DeleteLoad(d) ==
  /\ reclaim[d].phase = "idle"
  /\ creator.stage # "POST"
  /\ reclaim' = [reclaim EXCEPT ![d] =
                   IF row = NoRow THEN [@ EXCEPT !.phase = "rejected"]
                   ELSE [@ EXCEPT !.phase = "check", !.adc = row]]
  /\ UNCHANGED <<row, rest, outside, mishap>>

\* readyTo(RECLAIMED), on the copy loaded before
DeleteCheck(d) ==
  /\ reclaim[d].phase = "check"
  /\ \E ready \in ReadyAnswers(reclaim[d].adc, "RECLAIMED") :
       /\ To(d, IF ready THEN "enter" ELSE "rejected")
       /\ mishap' = IF ready /\ (Busy \/ ~(row.res \subseteq reclaim[d].adc.res))
                    THEN mishap \union {"overlap"} ELSE mishap
  /\ UNCHANGED <<row, rest, outside>>

\* An awaited serialize of deleteOn; on a removed row it rejects.
SaveReclaim(d, adc, phase, todo) ==
  /\ Write(adc)
  /\ reclaim' = [reclaim EXCEPT ![d] =
                   IF row = NoRow THEN [@ EXCEPT !.phase = "fail"]
                   ELSE [@ EXCEPT !.phase = phase, !.adc = adc, !.todo = todo]]

\* Mutant: RECLAIMING is not written before the first release.
ReclaimBeginSilently(d) ==
  /\ reclaim[d].phase = "enter"
  /\ To(d, "trust")
  /\ UNCHANGED <<row, rest, outside, mishap>>

ReclaimBegin(d) ==
  /\ reclaim[d].phase = "enter"
  /\ SaveReclaim(d, With(reclaim[d].adc, "RECLAIMING"), "trust", {})
  /\ UNCHANGED <<rest, outside, mishap>>

\* Mutant: an ADC that has never been trusted is not let through.
UntrustAlways(d) ==
  /\ reclaim[d].phase = "trust"
  /\ \/ /\ Trust \in reclaim[d].adc.res \intersect held
        /\ held' = held \ {Trust}
        /\ To(d, "license")
     \/ /\ Trust \notin reclaim[d].adc.res \intersect held
        /\ To(d, "fail")
        /\ UNCHANGED held
  /\ UNCHANGED <<row, rest, device, astray, mishap>>

\* deleteOn ignores the answer of untrustAdc, which leaves trustedDeviceId in
\* the record when it succeeds and writes TRUSTERROR when it does not.
\* The ASG may call a device it does not know deleted or an error.
Untrust(d) ==
  /\ reclaim[d].phase = "trust"
  /\ \/ /\ Trust \notin reclaim[d].adc.res
        /\ To(d, "license")
        /\ UNCHANGED <<row, held, astray>>
     \/ /\ Trust \in reclaim[d].adc.res
        /\ held' = held \ {Trust}
        /\ To(d, "license")
        /\ UNCHANGED <<row, astray>>
     \/ /\ Trust \in reclaim[d].adc.res
        /\ "untrust" \in Faults \/ Trust \notin held
        /\ astray' = astray \union (held \intersect {Trust})
        /\ SaveReclaim(d, With(reclaim[d].adc, "TRUSTERROR"), "license", {})
        /\ UNCHANGED held
  /\ UNCHANGED <<rest, device, mishap>>

\* Mutant: reclaiming goes on when revoking the license fails.
RevokeLeniently(d) ==
  /\ reclaim[d].phase = "license"
  /\ held' \in {held \ {Licence}} \union (IF "revoke" \in Faults THEN {held} ELSE {})
  /\ To(d, "vm")
  /\ UNCHANGED <<row, rest, device, astray, mishap>>

\* getDoEndpoint throws when the copy has no connection.
Revoke(d) ==
  /\ reclaim[d].phase = "license"
  /\ \/ /\ Server \notin reclaim[d].adc.res
        /\ To(d, "fail")
        /\ UNCHANGED held
     \/ /\ Server \in reclaim[d].adc.res
        /\ held' = IF OwnKey THEN held ELSE held \ {Licence}
        /\ To(d, "vm")
     \/ /\ Server \in reclaim[d].adc.res
        /\ ~OwnKey
        /\ "revoke" \in Faults
        /\ held' \in {held, held \ {Licence}}
        /\ To(d, "fail")
  /\ UNCHANGED <<row, rest, device, astray, mishap>>

PortsOf(adc) == {n \in Networks : Port(n) \in adc.res}

\* Mutant: reclaiming goes on when deleting the server fails.
DeleteServerLeniently(d) ==
  /\ reclaim[d].phase = "vm"
  /\ \/ held' = held \ {Server} /\ device' = {}
     \/ "deleteServer" \in Faults /\ UNCHANGED <<held, device>>
  /\ reclaim' = [reclaim EXCEPT ![d].phase = "network",
                                ![d].adc.res = @ \ {Server},
                                ![d].todo = PortsOf(reclaim[d].adc)]
  /\ UNCHANGED <<row, rest, astray, mishap>>

\* Mutant: a failing deletion of the server is tried again from the license on.
DeleteServerAgain(d) ==
  /\ reclaim[d].phase = "vm"
  /\ \/ /\ Server \in held
        /\ held' = held \ {Server} /\ device' = {}
        /\ reclaim' = [reclaim EXCEPT ![d].phase = "network",
                                      ![d].adc.res = @ \ {Server},
                                      ![d].todo = PortsOf(reclaim[d].adc)]
     \/ /\ "deleteServer" \in Faults \/ Server \notin held
        /\ To(d, "license")
        /\ UNCHANGED <<held, device>>
  /\ UNCHANGED <<row, rest, astray, mishap>>

\* Reached only with a connection, hence with a vmId.
DeleteServer(d) ==
  /\ reclaim[d].phase = "vm"
  /\ \/ /\ Server \in held
        /\ held' = held \ {Server}
        /\ device' = {}
        /\ reclaim' = [reclaim EXCEPT ![d].phase = "network",
                                      ![d].adc.res = @ \ {Server},
                                      ![d].todo = PortsOf(reclaim[d].adc)]
     \/ /\ "deleteServer" \in Faults \/ Server \notin held
        /\ \/ UNCHANGED <<held, device>>
           \/ held' = held \ {Server} /\ device' = {}
        /\ To(d, "fail")
  /\ UNCHANGED <<row, rest, astray, mishap>>

\* deletePort; the error of one network is logged and the loop goes on.
DeletePort(d, n) ==
  /\ reclaim[d].phase = "network"
  /\ n \in reclaim[d].todo
  /\ \/ /\ Port(n) \in held
        /\ held' = held \ {Port(n)}
        /\ reclaim' = IF Fip(n) \in reclaim[d].adc.res
                      THEN [reclaim EXCEPT ![d].phase = "fip", ![d].net = n,
                                           ![d].todo = @ \ {n}]
                      ELSE [reclaim EXCEPT ![d].adc.res = @ \ {Port(n)},
                                           ![d].todo = @ \ {n}]
        /\ UNCHANGED astray
     \/ /\ "deletePort" \in Faults \/ Port(n) \notin held
        /\ astray' = astray \union (held \intersect {Port(n), Fip(n)})
        /\ reclaim' = [reclaim EXCEPT ![d].todo = @ \ {n}]
        /\ UNCHANGED held
  /\ UNCHANGED <<row, rest, device, mishap>>

DeleteFloatingIp(d) ==
  /\ reclaim[d].phase = "fip"
  /\ LET n == reclaim[d].net
     IN  \/ /\ Fip(n) \in held
            /\ held' = held \ {Fip(n)}
            /\ reclaim' = [reclaim EXCEPT ![d].phase = "network", ![d].net = NoNet,
                                          ![d].adc.res = @ \ {Port(n), Fip(n)}]
            /\ UNCHANGED astray
         \/ /\ "deleteFloatingIp" \in Faults \/ Fip(n) \notin held
            /\ astray' = astray \union (held \intersect {Fip(n)})
            /\ reclaim' = [reclaim EXCEPT ![d].phase = "network", ![d].net = NoNet]
            /\ UNCHANGED held
  /\ UNCHANGED <<row, rest, device, mishap>>

ReclaimEnd(d) ==
  /\ reclaim[d].phase = "network"
  /\ reclaim[d].todo = {}
  /\ SaveReclaim(d, With(reclaim[d].adc, "RECLAIMED"), "remove", {})
  /\ UNCHANGED <<rest, outside, mishap>>

\* adcRepository.deleteById
RemoveRow(d) ==
  /\ reclaim[d].phase = "remove"
  /\ row' = NoRow
  /\ To(d, "removed")
  /\ UNCHANGED <<rest, outside, mishap>>

\* Mutant: a rejected deleteOn writes nothing.
ReclaimFailSilently(d) ==
  /\ reclaim[d].phase = "fail"
  /\ To(d, "failed")
  /\ UNCHANGED <<row, rest, outside, mishap>>

\* The last, unawaited serialize of a deleteOn that rejected.
ReclaimFail(d) ==
  /\ reclaim[d].phase = "fail"
  /\ Write(With(reclaim[d].adc, "RECLAIMERROR"))
  /\ To(d, "failed")
  /\ UNCHANGED <<rest, outside, mishap>>

DeleteOn(d) ==
  \/ ReclaimBegin(d) \/ Untrust(d) \/ Revoke(d) \/ DeleteServer(d)
  \/ \E n \in Networks : DeletePort(d, n)
  \/ DeleteFloatingIp(d) \/ ReclaimEnd(d) \/ RemoveRow(d) \/ ReclaimFail(d)

DeleteById(d) == DeleteLoad(d) \/ DeleteCheck(d) \/ DeleteOn(d)
-------------------------------------------------------------------------------
(* PATCH /adcs/{adcId}: CommonRepository.updateById reads the row, puts the *)
(* changed fields (none of them modelled) into it and replaces the row.     *)

PatchRead(p) ==
  /\ patch[p].phase = "idle"
  /\ row # NoRow
  /\ patch' = [patch EXCEPT ![p] = [phase |-> "write", adc |-> row]]
  /\ UNCHANGED <<row, creator, reclaim, outside, mishap>>

\* Mutant: the update replaces the row by the request's fields.
PatchWriteReplacing(p) ==
  /\ patch[p].phase = "write"
  /\ Write([patch[p].adc EXCEPT !.res = {}])
  /\ patch' = [patch EXCEPT ![p].phase = "done"]
  /\ mishap' = mishap
  /\ UNCHANGED <<creator, reclaim, outside>>

PatchWrite(p) ==
  /\ patch[p].phase = "write"
  /\ Write(patch[p].adc)
  /\ patch' = [patch EXCEPT ![p].phase = "done"]
  /\ mishap' = IF row # NoRow /\ row # patch[p].adc
               THEN mishap \union {"stalePatch"} ELSE mishap
  /\ UNCHANGED <<creator, reclaim, outside>>

\* The process stops: every job is lost, and nothing resumes one at restart.
Crash ==
  /\ CanCrash
  /\ creator.stage # "POST"
  /\ creator' = [Aborted EXCEPT !.late = FALSE]
  /\ reclaim' = [d \in Deletes |-> IF reclaim[d].phase \in Live
                                   THEN [reclaim[d] EXCEPT !.phase = "dead"]
                                   ELSE reclaim[d]]
  /\ patch' = [p \in Patches |-> IF patch[p].phase = "write"
                                 THEN [patch[p] EXCEPT !.phase = "done"]
                                 ELSE patch[p]]
  /\ UNCHANGED <<row, outside, mishap>>

Next ==
  \/ Create
  \/ Creation
  \/ \E d \in Deletes : DeleteById(d)
  \/ \E p \in Patches : PatchRead(p) \/ PatchWrite(p)
  \/ Crash

Spec == Init /\ [][Next]_vars

\* Node's event loop keeps running the jobs it has started; requests come or
\* do not come.  Polls end: checkAndWait counts its tries down.
Fairness ==
  /\ WF_vars(Creation)
  /\ \A d \in Deletes : WF_vars(DeleteCheck(d) \/ DeleteOn(d))

FairSpec == Spec /\ Fairness
-------------------------------------------------------------------------------
(* Properties. *)

\* The infrastructure that exists and that no failing call has lost.
Owned == (held \ astray) \intersect Infra

\* Statuses the row has while createOn still acquires infrastructure.
Early == {"NEW", "POWERING"}

\* What a copy of the record has to know once creation is past createOn.
Knows(adc) == adc.status \notin Early => Owned \subseteq adc.res

\* Every port, floating IP and server that exists is named in the row, from the
\* moment the row leaves POWERING: whichever jobs have since written their own
\* copies over it, a DELETE that reads the row finds everything to release.
\* (cNet, cSvr and serialize record; deleteOn forgets only what is released.)
NothingForgotten == row # NoRow => Knows(row)

\* When the row is gone, so are its server, ports and floating IPs, except
\* those a failing call put out of reach; this holds with DELETE requests that
\* overlap each other or the creation, stale PATCH writes, and crashes.
NoInfraLeft == Gone => held \intersect Infra \subseteq astray

\* When the row is gone, the trusted device and the license are released too,
\* unless a failing call lost them, the DELETE was accepted on a copy that the
\* creation still changed, or a PATCH wrote an old row back.
NothingLeft == Gone /\ mishap = {} => held \subseteq astray

\* An ADC shown ACTIVE has its server, its trust and every feature the stages
\* install: no gate lets a stage pass that did not complete, and deleteOn
\* releases nothing before the row says RECLAIMING.
ActiveIsReal ==
  row.status = "ACTIVE" /\ mishap = {} =>
    {Server, Trust} \subseteq held /\ device = Feature

\* A row does not stay NEW or in progress for ever: each job ends by writing
\* a settled status or a failure, or by removing the row, also when a DELETE
\* takes the device away under the creation.
Settles == <>[](row = NoRow \/ row.status \notin InProgress \union {"NEW"})

\* When no step of reclaiming fails, a DELETE that has been accepted removes
\* the row in the end.
ReclaimCompletes ==
  \A d \in Deletes : reclaim[d].phase = "enter" ~> row = NoRow

\* Code does otherwise.  The failure text of a DELETE asks for another try
\* ("Please try again."), which would complete when no step of it fails; but
\* the license step needs the connection of a server that was never created.
RetryReclaims ==
  \A d \in Deletes :
    reclaim[d].phase = "enter" /\ reclaim[d].adc.status = "RECLAIMERROR" ~> row = NoRow

\* Code does otherwise.  PATCH refuses a status ("Not changable properties."),
\* but its update writes back the whole row it has read before.
PatchKeepsStatus ==
  [][\A p \in Patches :
       patch'[p] # patch[p] /\ row # NoRow => row'.status = row.status]_vars

\* Code does otherwise.  A row that says RECLAIMED names nothing any more, which
\* is what the check `reclaimed' asks of that state; but untrustAdc leaves the
\* trusted device's id, and a port whose deletion failed stays recorded.
ReclaimedIsClean == row.status = "RECLAIMED" => Passes("RECLAIMED", row)

\* The ADC as an entry of the ledger.
Entry == IF creator.stage = "POST" THEN "none"
         ELSE IF row = NoRow THEN "closed" ELSE "listed"

\* The infrastructure of the ADC, seen through the ledger's eyes.
Ledger == INSTANCE ResourceLedger WITH
  Resource <- Infra,
  entry    <- Entry,
  held     <- held \intersect Infra,
  astray   <- astray \intersect Infra

\* The ADC's life keeps the ledger's promise: nothing is acquired for a row
\* that has been removed, and the row goes last.
KeepsLedger == Ledger!Spec
-------------------------------------------------------------------------------
(* The inductive invariant behind NothingForgotten and NoInfraLeft. *)

\* cNet and cSvr put every resource into the creator's own copy at once.
CreatorKnows == Owned \subseteq creator.adc.res

\* Every copy that can still be written over the row knows what is owned.
WritersKnow ==
  /\ row # NoRow => Knows(row)
  /\ \A p \in Patches : patch[p].phase = "write" => Knows(patch[p].adc)
  /\ \A d \in Deletes :
       /\ reclaim[d].phase = "check" => Knows(reclaim[d].adc)
       /\ reclaim[d].phase \in Accepted => Owned \subseteq reclaim[d].adc.res

\* While createOn acquires, no copy has a status a DELETE could start from.
CreationExclusive ==
  creator.stage \in {"POST", "POWERON"} =>
    /\ creator.adc.status \in Early
    /\ ~creator.late
    /\ row.status \in Early \/ (row = NoRow /\ creator.stage = "POST")
    /\ \A p \in Patches : patch[p].phase = "write" => patch[p].adc.status \in Early
    /\ \A d \in Deletes :
         /\ reclaim[d].phase = "check" => reclaim[d].adc.status \in Early
         /\ reclaim[d].phase \notin Accepted

\* A floating IP is recorded only beside its port.
FipHasPort(adc) == \A n \in Networks : Fip(n) \in adc.res => Port(n) \in adc.res

CopiesPaired ==
  /\ FipHasPort(creator.adc)
  /\ creator.phase = "fip" => /\ creator.net \in Networks
                              /\ Port(creator.net) \in creator.adc.res
  /\ FipHasPort(row)
  /\ \A p \in Patches : FipHasPort(patch[p].adc)
  /\ \A d \in Deletes : FipHasPort(reclaim[d].adc)

\* How far a deleteOn has come, measured by what is still owned.
Progress(r) ==
  /\ r.phase \in {"network", "fip", "remove"} => Server \notin Owned
  /\ r.phase = "network" =>
       \A n \in Networks : (Port(n) \in Owned \/ Fip(n) \in Owned) => n \in r.todo
  /\ r.phase = "fip" =>
       /\ r.net \in Networks
       /\ Port(r.net) \notin Owned
       /\ \A n \in Networks :
            (Port(n) \in Owned \/ Fip(n) \in Owned) => n \in r.todo \union {r.net}
  /\ r.phase = "remove" => Owned = {}

ReclaimProgress == \A d \in Deletes : Progress(reclaim[d])

InfraInv ==
  /\ TypeOK
  /\ CreatorKnows
  /\ WritersKnow
  /\ CreationExclusive
  /\ CopiesPaired
  /\ ReclaimProgress
  /\ NoInfraLeft
=============================================================================
