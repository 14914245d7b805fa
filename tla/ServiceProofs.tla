--------------------------- MODULE ServiceProofs ---------------------------
(***************************************************************************)
(* What is proved of the parts of the service, for any number of jobs,     *)
(* requests, applications, ADCs, tries and tokens: licensing (BigIqTask),  *)
(* a hardware ADC (HardwareAdc), deployments (AppDeploy), floating IPs     *)
(* (FipClaims).                                                            *)
(***************************************************************************)
EXTENDS PartsProofs

-----------------------------------------------------------------------------
(* Licensing.                                                              *)

\* What a job has been told by the time it gets somewhere in assign: it asks
\* for the license only after it has heard that the task is finished, and it
\* is only then that it is told so.
Told(j) ==
  /\ jobStep[j] \in {"login", "assign", "poll"} => told[j] # "FINISHED"
  /\ jobStep[j] \in {"license", "done"} => task[j] = "FINISHED"
  /\ jobStep[j] = "failed" => told[j] # "FINISHED"

TaskInv ==
  /\ jobStep \in [Jobs ->
                 {"login", "assign", "poll", "license", "done", "failed"}]
  /\ task \in [Jobs -> Task!Status]
  /\ told \in [Jobs -> Task!Status \cup {"error"}]
  /\ \A j \in Jobs : Told(j)

-----------------------------------------------------------------------------
\* No task is started, and nobody has been told anything.
LEMMA InitTask == Task!Init => TaskInv
BY DEF Task!Init, TaskInv, Told, Task!Status

\* A step of one job leaves the others' as they were.
LEMMA JobKeepsInv ==
  ASSUME TaskInv, NEW j \in Jobs, Task!Job(j)
  PROVE  TaskInv'
<1>1. CASE Task!Login(j)
  BY <1>1 DEF Task!Login, Task!Goto, TaskInv, Told
<1>2. CASE Task!Assign(j)
  BY <1>2 DEF Task!Assign, Task!Goto, TaskInv, Told, Task!Status
<1>3. CASE Task!Poll(j)
  <2>1. PICK s \in Task!Status \cup {"error"} :
          /\ Task!Hears(j, s)
          /\ told' = [told EXCEPT ![j] = s]
          /\ IF Task!Quits(s) THEN Task!Goto(j, "license")
             ELSE UNCHANGED jobStep
    BY <1>3 DEF Task!Poll
  <2>2. UNCHANGED task
    BY <1>3 DEF Task!Poll
  <2>3. CASE s = "FINISHED"
    BY <2>1, <2>2, <2>3 DEF Task!Hears, Task!Quits, Task!Goto, TaskInv, Told
  <2>4. CASE s # "FINISHED"
    BY <1>3, <2>1, <2>2, <2>4 DEF Task!Poll, Task!Quits, TaskInv, Told
  <2> QED
    BY <2>3, <2>4
<1>4. CASE Task!Timeout(j)
  BY <1>4 DEF Task!Timeout, Task!Goto, TaskInv, Told
<1>5. CASE Task!ReadLicense(j)
  BY <1>5 DEF Task!ReadLicense, Task!Hears, Task!Goto, TaskInv, Told
<1> QED
  BY <1>1, <1>2, <1>3, <1>4, <1>5 DEF Task!Job

\* A task that has ended keeps its status.
LEMMA WorksKeepsInv ==
  ASSUME TaskInv, Task!Works
  PROVE  TaskInv'
BY DEF Task!Works, TaskInv, Told, Task!Status

\* Every step of a job or of the BIG-IQ keeps what jobs were told in its place.
LEMMA TaskStep == TaskInv /\ [Task!Next]_(Task!vars) => TaskInv'
<1> SUFFICES ASSUME TaskInv, [Task!Next]_(Task!vars)
             PROVE  TaskInv'
  OBVIOUS
<1>1. CASE \E j \in Jobs : Task!Job(j)
  BY <1>1, JobKeepsInv
<1>2. CASE Task!Works
  BY <1>2, WorksKeepsInv
<1>3. CASE Task!Tick
  BY <1>3 DEF Task!Tick, TaskInv, Told
<1>4. CASE UNCHANGED Task!vars
  BY <1>4 DEF Task!vars, TaskInv, Told
<1> QED
  BY <1>1, <1>2, <1>3, <1>4 DEF Task!Next

\* No job has logged in.
LEMMA InitTaskTypes == Task!Init => Task!TypeOK
BY PortalAssumption DEF Task!Init, Task!TypeOK, Task!Age, Task!Status,
   Task!Tokens

\* Tokens and tries stay within their bounds.
LEMMA TaskTypes == Task!TypeOK /\ [Task!Next]_(Task!vars) => Task!TypeOK'
<1> SUFFICES ASSUME Task!TypeOK, [Task!Next]_(Task!vars)
             PROVE  Task!TypeOK'
  OBVIOUS
<1> USE PortalAssumption DEF Task!TypeOK, Task!Status, Task!Age, Task!Goto
<1>1. ASSUME NEW j \in Jobs, Task!Login(j) PROVE Task!TypeOK'
  BY <1>1 DEF Task!Login, Task!MustLogin, Task!Tokens
<1>2. ASSUME NEW j \in Jobs, Task!Assign(j) PROVE Task!TypeOK'
  BY <1>2 DEF Task!Assign
<1>3. ASSUME NEW j \in Jobs, Task!Poll(j) PROVE Task!TypeOK'
  BY <1>3 DEF Task!Poll
<1>4. ASSUME NEW j \in Jobs, Task!Timeout(j) \/ Task!ReadLicense(j)
      PROVE  Task!TypeOK'
  BY <1>4 DEF Task!Timeout, Task!ReadLicense
<1>5. CASE Task!Works \/ Task!Tick
  BY <1>5 DEF Task!Works, Task!Tick
<1>6. CASE UNCHANGED Task!vars
  BY <1>6 DEF Task!vars
<1> QED
  BY <1>1, <1>2, <1>3, <1>4, <1>5, <1>6 DEF Task!Next, Task!Job

\* The same of the whole, while this part runs.
LEMMA TaskRuns == PortalSpec => [](part = "task" => TaskInv /\ Task!TypeOK)
<1>1. PortalInit => (part = "task" => TaskInv /\ Task!TypeOK)
  BY InitTask, InitTaskTypes DEF PortalInit
<1>2. (part = "task" => TaskInv /\ Task!TypeOK) /\ [PortalNext]_allvars
        => (part = "task" => TaskInv /\ Task!TypeOK)'
  BY StepOfPart, TaskStep, TaskTypes
<1> QED
  BY <1>1, <1>2, PTL DEF PortalSpec

-----------------------------------------------------------------------------
(***************************************************************************)
(* A license is handed out only for a task that has FINISHED, and a job    *)
(* that fails has never been told that its task has (BigIqManager.assign). *)
(***************************************************************************)
THEOREM OutcomeFollows == PortalSpec => []OutcomeFollowsTask
<1>1. (part = "task" => TaskInv /\ Task!TypeOK) => OutcomeFollowsTask
  BY DEF TaskInv, Told, Task!OutcomeFollowsTask, OutcomeFollowsTask
<1> QED
  BY TaskRuns, <1>1, PTL

-----------------------------------------------------------------------------
(* A hardware ADC.                                                         *)

\* No request has read the row yet, or, while the device is being named, none
\* but an early one.
ReadersEarly ==
  /\ place = "idle" => /\ row = "none" /\ \A d \in Posts : reclaim[d].at = "idle"
                       /\ \A p \in Patches : patch[p].at = "idle"
  /\ place \in Hardware!Naming =>
       /\ \A d \in Posts : reclaim[d].at # "idle" => reclaim[d].early
       /\ \A p \in Patches : patch[p].at # "idle" => patch[p].early
       /\ row = "none" => early

\* What the creation's place says of the device and of its copy.
PlaceOK ==
  /\ place \in {"idle", "created", "trust"} => ~trusted
  /\ place = "pollFailed" => lost
  /\ place = "trustFailed" /\ trusted => lost \/ early \/ device = "naming"
  /\ place \in Hardware!Installing => device = "naming"

\* A request about to put an end to what the row says does no harm that is not
\* accounted for.
RequestOK ==
  /\ \A d \in Posts :
       /\ reclaim[d].at \in {"untrust", "untrustFailed"} => reclaim[d].adc = "naming"
       /\ reclaim[d].at = "remove" /\ ~reclaim[d].early /\ trusted => lost \/ early
  /\ \A p \in Patches :
       patch[p].at = "write" /\ ~patch[p].early /\ patch[p].adc = "bare" /\ trusted
         => lost \/ early

HardwareInv ==
  /\ Hardware!TypeOK /\ Hardware!DeviceFindable /\ ReadersEarly /\ PlaceOK
  /\ RequestOK
  /\ row = "none" /\ trusted => lost \/ early


\* Nothing is trusted, and there is no row to read.
LEMMA InitHardware == Hardware!Init => HardwareInv
<1> SUFFICES ASSUME Hardware!Init PROVE HardwareInv
  OBVIOUS
<1>1. Hardware!Idle \in Hardware!Request /\ Hardware!Idle.at = "idle"
  BY DEF Hardware!Idle, Hardware!Request, Hardware!Record
<1>2. Hardware!TypeOK
  BY <1>1 DEF Hardware!Init, Hardware!TypeOK, Hardware!Record, Hardware!Place
<1>3. /\ \A d \in Posts : reclaim[d].at = "idle"
      /\ \A p \in Patches : patch[p].at = "idle"
  BY <1>1 DEF Hardware!Init
<1> QED
  BY <1>2, <1>3 DEF Hardware!Init, HardwareInv, Hardware!DeviceFindable,
     ReadersEarly, PlaceOK, RequestOK, Hardware!Naming, Hardware!Installing

\* The creation keeps its copy ahead of the row: once the device is named
\* every later write names it.
LEMMA CreationKeepsInv == HardwareInv /\ Hardware!Creation => HardwareInv'
<1> SUFFICES ASSUME HardwareInv, Hardware!Creation PROVE HardwareInv'
  OBVIOUS
<1> USE DEF HardwareInv, Hardware!TypeOK, Hardware!DeviceFindable,
        ReadersEarly, PlaceOK, RequestOK, Hardware!Record, Hardware!Place,
        Hardware!Naming, Hardware!Installing
<1>1. CASE Hardware!Post
  BY <1>1 DEF Hardware!Post
<1>2. CASE Hardware!WriteTrusting
  BY <1>2 DEF Hardware!WriteTrusting, Hardware!Serialize
<1>3. CASE Hardware!TrustDevice
  <2>1. \/ trusted' = TRUE /\ place' = "poll" /\ lost' = lost
        \/ place' = "trustFailed" /\ trusted' \in BOOLEAN /\ lost' = trusted'
    BY <1>3 DEF Hardware!TrustDevice
  <2>2. place = "trust" /\ UNCHANGED <<row, device, reclaim, patch, early>>
    BY <1>3 DEF Hardware!TrustDevice
  <2>3. Hardware!TypeOK'
    BY <2>1, <2>2
  <2>4. ReadersEarly'
    BY <2>1, <2>2
  <2>5. Hardware!DeviceFindable' /\ PlaceOK'
    BY <2>1, <2>2
  <2>6. RequestOK' /\ (row = "none" /\ trusted => lost \/ early)'
    BY <2>1, <2>2
  <2> QED
    BY <2>3, <2>4, <2>5, <2>6
<1>4. CASE Hardware!PollTrust
  BY <1>4 DEF Hardware!PollTrust
<1>5. CASE Hardware!WriteTrusted
  BY <1>5 DEF Hardware!WriteTrusted, Hardware!Serialize
<1>6. CASE Hardware!WriteTrustError
  BY <1>6 DEF Hardware!WriteTrustError, Hardware!Serialize
<1>7. CASE Hardware!WriteInstalling
  BY <1>7 DEF Hardware!WriteInstalling, Hardware!Serialize
<1>8. CASE Hardware!InstallAS3
  BY <1>8 DEF Hardware!InstallAS3
<1>9. CASE Hardware!WriteInstalled
  BY <1>9 DEF Hardware!WriteInstalled, Hardware!Serialize
<1> QED
  BY <1>1, <1>2, <1>3, <1>4, <1>5, <1>6, <1>7, <1>8, <1>9 DEF Hardware!Creation

\* A DELETE comes to remove the row of a trusted device only if it had read
\* it before the device was named.
LEMMA DeleteKeepsInv ==
  ASSUME HardwareInv, NEW d \in Posts,
         \/ Hardware!Load(d) \/ Hardware!Untrust(d)
         \/ Hardware!WriteUntrustError(d) \/ Hardware!Remove(d)
  PROVE  HardwareInv'
<1> USE DEF HardwareInv, Hardware!DeviceFindable, ReadersEarly, PlaceOK,
        RequestOK, Hardware!Naming, Hardware!Installing
<1>1. CASE Hardware!Load(d)
  <2>1. Hardware!TypeOK'
    BY <1>1 DEF Hardware!Load, Hardware!Read, Hardware!TypeOK,
       Hardware!Request, Hardware!Record
  <2>2. /\ reclaim'[d].early = (place \in Hardware!Naming)
        /\ reclaim'[d].adc = row
        /\ reclaim'[d].at = IF row = "naming" THEN "untrust" ELSE "remove"
        /\ \A e \in Posts \ {d} : reclaim'[e] = reclaim[e]
    BY <1>1 DEF Hardware!Load, Hardware!Read, Hardware!TypeOK
  <2>3. row # "none" /\ UNCHANGED <<row, place, device, patch, trusted, lost, early>>
    BY <1>1 DEF Hardware!Load
  <2>4. ReadersEarly' /\ PlaceOK' /\ Hardware!DeviceFindable'
    BY <2>2, <2>3
  <2>5. RequestOK'
    BY <2>2, <2>3
  <2> QED
    BY <2>1, <2>3, <2>4, <2>5
<1>2. CASE Hardware!Untrust(d)
  <2>1. Hardware!TypeOK'
    BY <1>2 DEF Hardware!Untrust, Hardware!TypeOK, Hardware!Request
  <2>2. /\ reclaim'[d].early = reclaim[d].early
        /\ reclaim'[d].adc = reclaim[d].adc
        /\ reclaim'[d].at \in {"remove", "untrustFailed"}
        /\ reclaim'[d].at = "remove" => ~trusted'
        /\ \A e \in Posts \ {d} : reclaim'[e] = reclaim[e]
    BY <1>2 DEF Hardware!Untrust, Hardware!TypeOK, Hardware!Request
  <2>3. /\ reclaim[d].at = "untrust" /\ (trusted' => trusted)
        /\ UNCHANGED <<row, place, device, patch, lost, early>>
    <3>1. /\ reclaim[d].at = "untrust"
          /\ UNCHANGED <<row, place, device, patch, lost, early>>
      BY <1>2 DEF Hardware!Untrust
    <3>2. trusted' => trusted
      BY <1>2, Zenon DEF Hardware!Untrust
    <3> QED
      BY <3>1, <3>2
  <2>4. ReadersEarly' /\ PlaceOK' /\ Hardware!DeviceFindable'
    BY <2>2, <2>3
  <2>5. RequestOK'
    BY <2>2, <2>3
  <2> QED
    BY <2>1, <2>3, <2>4, <2>5
<1>3. CASE Hardware!WriteUntrustError(d)
  <2>1. Hardware!TypeOK'
    BY <1>3 DEF Hardware!WriteUntrustError, Hardware!TypeOK, Hardware!Request
  <2> QED
    BY <1>3, <2>1 DEF Hardware!WriteUntrustError, Hardware!TypeOK,
       Hardware!Request
<1>4. CASE Hardware!Remove(d)
  <2>1. Hardware!TypeOK'
    BY <1>4 DEF Hardware!Remove, Hardware!TypeOK, Hardware!Request
  <2> QED
    BY <1>4, <2>1 DEF Hardware!Remove, Hardware!TypeOK, Hardware!Request
<1> QED
  BY <1>1, <1>2, <1>3, <1>4

\* A PATCH writes back what it has read, which names the device unless it was
\* read early.
LEMMA PatchKeepsInv ==
  ASSUME HardwareInv, NEW p \in Patches, Hardware!PatchRead(p) \/ Hardware!PatchWrite(p)
  PROVE  HardwareInv'
<1> USE DEF HardwareInv, Hardware!DeviceFindable, ReadersEarly, PlaceOK,
        RequestOK, Hardware!Naming, Hardware!Installing
<1>1. CASE Hardware!PatchRead(p)
  <2>1. Hardware!TypeOK'
    BY <1>1 DEF Hardware!PatchRead, Hardware!Read, Hardware!TypeOK,
       Hardware!Request, Hardware!Record
  <2>2. /\ patch'[p].early = (place \in Hardware!Naming) /\ patch'[p].adc = row
        /\ patch'[p].at = "write"
        /\ \A q \in Patches \ {p} : patch'[q] = patch[q]
    BY <1>1 DEF Hardware!PatchRead, Hardware!Read, Hardware!TypeOK
  <2>3. /\ row # "none"
        /\ UNCHANGED <<row, place, device, reclaim, trusted, lost, early>>
    BY <1>1 DEF Hardware!PatchRead
  <2>4. ReadersEarly' /\ PlaceOK' /\ Hardware!DeviceFindable'
    BY <2>2, <2>3
  <2>5. RequestOK'
    BY <2>2, <2>3
  <2> QED
    BY <2>1, <2>3, <2>4, <2>5
<1>2. CASE Hardware!PatchWrite(p)
  <2>1. Hardware!TypeOK'
    BY <1>2 DEF Hardware!PatchWrite, Hardware!TypeOK, Hardware!Request
  <2> QED
    BY <1>2, <2>1 DEF Hardware!PatchWrite, Hardware!TypeOK, Hardware!Request,
       Hardware!Record
<1> QED
  BY <1>1, <1>2

\* A restart loses the id of a device that is trusted and not yet named.
LEMMA RestartKeepsInv == HardwareInv /\ Hardware!Restart => HardwareInv'
<1> SUFFICES ASSUME HardwareInv, Hardware!Restart PROVE HardwareInv'
  OBVIOUS
<1>1. Hardware!TypeOK'
  BY DEF Hardware!Restart, HardwareInv, Hardware!TypeOK, Hardware!Request,
     Hardware!Place
<1>2. /\ \A d \in Posts : reclaim'[d].at \in {"idle", "done"}
      /\ \A p \in Patches : patch'[p].at \in {"idle", "done"}
  BY DEF Hardware!Restart, HardwareInv, Hardware!TypeOK, Hardware!Request
<1> QED
  BY <1>1, <1>2 DEF Hardware!Restart, HardwareInv, Hardware!DeviceFindable,
     ReadersEarly, PlaceOK, RequestOK, Hardware!Naming, Hardware!Installing,
     Hardware!TypeOK, Hardware!Record

\* Every step keeps the copies of the record in agreement with the device.
LEMMA HardwareStep == HardwareInv /\ [Hardware!Next]_(Hardware!vars) => HardwareInv'
<1>1. HardwareInv /\ UNCHANGED Hardware!vars => HardwareInv'
  BY DEF Hardware!vars, HardwareInv, Hardware!TypeOK, Hardware!DeviceFindable,
     ReadersEarly, PlaceOK, RequestOK
<1> QED
  BY <1>1, CreationKeepsInv, DeleteKeepsInv, PatchKeepsInv,
     RestartKeepsInv DEF Hardware!Next

(***************************************************************************)
(* The copies of the record, the places of the creation and of the         *)
(* requests, and the trusted device fit together, for any number of        *)
(* DELETEs and PATCHes (trustAdc, deleteById, updateById).                 *)
(***************************************************************************)
THEOREM HardwareInvariance == PortalSpec => [](part = "hardware" => HardwareInv)
<1>1. PortalInit => (part = "hardware" => HardwareInv)
  BY InitHardware DEF PortalInit
<1>2. (part = "hardware" => HardwareInv) /\ [PortalNext]_allvars
        => (part = "hardware" => HardwareInv)'
  BY StepOfPart, HardwareStep
<1> QED
  BY <1>1, <1>2, PTL DEF PortalSpec

(***************************************************************************)
(* A device that is trusted at the ASG is named by the row, or about to    *)
(* be, unless a failing call, a restart or a request that had read the row *)
(* too early has lost it (trustAdc, deleteById, updateById).               *)
(***************************************************************************)
THEOREM DeviceStaysFindable == PortalSpec => []DeviceFindable
<1>1. (part = "hardware" => HardwareInv) => DeviceFindable
  BY DEF HardwareInv, DeviceFindable
<1> QED
  BY <1>1, HardwareInvariance, PTL

-----------------------------------------------------------------------------
(* Deployments.                                                            *)

DeployTypes ==
  /\ deployStep \in [Deployments -> App!Step]
  /\ op \in [Deployments -> App!Op]
  /\ app \in [Deployments -> Apps]
  /\ decl \in [Deployments -> Decls]
  /\ deployed \in App!Content
  /\ there \in [Deployments -> App!Content]
  /\ took \in [Deployments -> BOOLEAN]
  /\ overlap \in [Deployments -> BOOLEAN]
  /\ ips \in [Deployments -> SUBSET Apps]
  /\ fixedIps \subseteq Apps

\* A deployment declares the whole tenant only if it found nothing there; one
\* that has bound its address finds it again in whatever is read later, and
\* in whatever is written without an overlap.
Deploying(r) ==
  /\ deployStep[r] = "patch" => op[r] = "deploy"
  /\ deployStep[r] \in {"read", "update"} => op[r] = "proxyDeploy"
  /\ deployStep[r] = "declare" => op[r] \in {"deploy", "proxyDeploy"}
  /\ deployStep[r] = "remove" => op[r] = "cleanup"
  /\ deployStep[r] = "declare" /\ op[r] = "deploy" => there[r] = App!Nothing
  /\ deployStep[r] = "204" /\ op[r] = "proxyDeploy" => took[r]

\* The address of r is on the port, to stay.
Bound(r) == op[r] = "proxyDeploy" /\ deployStep[r] \in {"declare", "204"} /\ ~overlap[r]

DeployInv ==
  /\ DeployTypes /\ partition \in BOOLEAN
  /\ ~partition => deployed = App!Nothing
  /\ \A r \in Deployments : Deploying(r)
  /\ \A r \in Deployments : Bound(r) =>
       /\ app[r] \in fixedIps
       /\ \A q \in Deployments : deployStep[q] = "update" => app[r] \in ips[q]

-----------------------------------------------------------------------------
\* Nothing is deployed, and nobody is past the beginning.
LEMMA InitDeploy == App!Init => DeployInv
BY DEF App!Init, DeployInv, DeployTypes, Deploying, Bound, App!Content,
   App!Nothing, App!Step

\* A request keeps the addresses of the others unless it overlaps with them.
LEMMA DeployKeepsInv ==
  ASSUME DeployInv, NEW r \in Deployments, App!Handle(r)
  PROVE  DeployInv'
<1> USE DEF App!Goto
<1>0. /\ DeployTypes /\ (~partition => deployed = App!Nothing)
      /\ \A q \in Deployments : Deploying(q)
      /\ \A p \in Deployments : Bound(p) =>
           /\ app[p] \in fixedIps
           /\ \A q \in Deployments : deployStep[q] = "update" => app[p] \in ips[q]
  BY DEF DeployInv
<1>1. CASE App!Start(r)
  <2>1. deployStep[r] = "idle" /\ deployStep'[r] \in {"patch", "read", "remove"}
    BY <1>0, <1>1 DEF App!Start, DeployTypes, App!Op
  <2> QED
    BY <1>0, <1>1, <2>1 DEF App!Start, DeployInv, DeployTypes, Deploying,
       Bound, App!Step, App!Op
<1>2. CASE App!Patch(r)
  <2>1. CASE App!Patched(r) /\ App!Goto(r, "204")
    BY <1>0, <1>2, <2>1 DEF App!Patch, App!Patched, DeployInv,
       DeployTypes, Deploying, Bound, App!Step, App!Content
  <2>2. CASE ~partition /\ App!NotTaken /\ App!Goto(r, "declare")
    BY <1>0, <1>2, <2>2 DEF App!Patch, App!NotTaken, DeployInv,
       DeployTypes, Deploying, Bound, App!Step
  <2>3. CASE App!NotTaken /\ App!Goto(r, "204")
    BY <1>0, <1>2, <2>3 DEF App!Patch, App!NotTaken, DeployInv,
       DeployTypes, Deploying, Bound, App!Step
  <2> QED
    BY <1>2, <2>1, <2>2, <2>3, Zenon DEF App!Patch
<1>3. CASE App!Declare(r)
  <2>1. CASE App!Declared(r) /\ (App!Goto(r, "204") \/ App!Goto(r, "error"))
    BY <1>0, <1>3, <2>1 DEF App!Declare, App!Declared, DeployInv,
       DeployTypes, Deploying, Bound, App!Step, App!Content, App!Nothing
  <2>2. CASE App!NotTaken /\ App!Goto(r, "error")
    BY <1>0, <1>3, <2>2 DEF App!Declare, App!NotTaken, DeployInv,
       DeployTypes, Deploying, Bound, App!Step
  <2> QED
    BY <1>3, <2>1, <2>2, Zenon DEF App!Declare
<1>4. CASE App!GetPortInfo(r)
  BY <1>0, <1>4 DEF App!GetPortInfo, DeployInv, DeployTypes, Deploying,
     Bound, App!Step
<1>5. CASE App!UpdatePort(r)
  <2>0. /\ deployStep[r] = "update"
        /\ UNCHANGED <<partition, deployed, op, app, decl, ips, there, took>>
    BY <1>5 DEF App!UpdatePort
  <2>1. CASE App!Goto(r, "error") /\ UNCHANGED <<fixedIps, overlap>>
    BY <1>0, <2>0, <2>1 DEF DeployInv, DeployTypes, Deploying, Bound, App!Step
  <2>2. ASSUME NEW s \in {"declare", "error"}, App!Goto(r, s),
               fixedIps' = App!Written(r),
               overlap' = [q \in Deployments |->
                 \/ overlap[q]
                 \/ q # r /\ deployStep[q] = "update"
                 \/ q = r /\ \E p \in Deployments \ {r} : deployStep[p] = "update"]
        PROVE  DeployInv'
    <3>1. DeployTypes' /\ \A q \in Deployments : Deploying(q)'
      BY <1>0, <2>0, <2>2 DEF App!Written, DeployTypes, Deploying, App!Step
    <3>2. /\ overlap'[r] = (overlap[r] \/ \E p \in Deployments \ {r} : deployStep[p] = "update")
          /\ \A q \in Deployments \ {r} : overlap'[q] = (overlap[q] \/ deployStep[q] = "update")
      BY <2>2, Zenon
    <3>3. deployStep'[r] = s /\ \A q \in Deployments \ {r} : deployStep'[q] = deployStep[q]
      BY <1>0, <2>2 DEF DeployTypes
    <3>4. ASSUME NEW p \in Deployments, Bound(p)'
          PROVE  /\ app[p] \in App!Written(r)
                 /\ \A q \in Deployments : deployStep'[q] = "update" => app[p] \in ips[q]
      <4>1. CASE p = r
        BY <2>2, <3>2, <3>3, <3>4, <4>1 DEF Bound, App!Written
      <4>2. CASE p # r
        <5>1. Bound(p)
          BY <2>0, <3>2, <3>3, <3>4, <4>2 DEF Bound
        <5> QED
          BY <1>0, <2>0, <2>2, <3>3, <5>1 DEF App!Written
      <4> QED
        BY <4>1, <4>2
    <3> QED
      BY <1>0, <2>0, <2>2, <3>1, <3>4 DEF DeployInv
  <2> QED
    BY <1>5, <2>1, <2>2 DEF App!UpdatePort
<1>6. CASE App!Remove(r)
  <2>1. CASE App!Removed(r) /\ (App!Goto(r, "204") \/ App!Goto(r, "error"))
    BY <1>0, <1>6, <2>1 DEF App!Remove, App!Removed, DeployInv,
       DeployTypes, Deploying, Bound, App!Step, App!Content
  <2>2. CASE App!NotTaken /\ App!Goto(r, "error")
    BY <1>0, <1>6, <2>2 DEF App!Remove, App!NotTaken, DeployInv,
       DeployTypes, Deploying, Bound, App!Step
  <2> QED
    BY <1>6, <2>1, <2>2, Zenon DEF App!Remove
<1> QED
  BY <1>1, <1>2, <1>3, <1>4, <1>5, <1>6 DEF App!Handle

\* Every step keeps the invariant.
LEMMA DeployStep == DeployInv /\ [App!Next]_(App!vars) => DeployInv'
<1>1. DeployInv /\ UNCHANGED App!vars => DeployInv'
  BY DEF App!vars, DeployInv, DeployTypes, Deploying, Bound
<1> QED
  BY <1>1, DeployKeepsInv DEF App!Next

(***************************************************************************)
(* For any applications, contents and requests, what a request has read    *)
(* and done fits what the BIG-IP and the port hold (deployById,            *)
(* proxyDeploy, cleanupById).                                              *)
(***************************************************************************)
THEOREM DeployInvariance == PortalSpec => [](part = "app" => DeployInv)
<1>1. PortalInit => (part = "app" => DeployInv)
  BY InitDeploy DEF PortalInit
<1>2. (part = "app" => DeployInv) /\ [PortalNext]_allvars
        => (part = "app" => DeployInv)'
  BY StepOfPart, DeployStep
<1> QED
  BY <1>1, <1>2, PTL DEF PortalSpec

\* What a deployment by the default declaration changes on the BIG-IP is of
\* its own application, and a whole tenant is declared only over nothing.
LEMMA SparesStep == DeployInv /\ [App!Next]_(App!vars) => App!SparesOthersStep
<1> SUFFICES ASSUME DeployInv, [App!Next]_(App!vars), NEW r \in Deployments,
                    op[r] = "deploy", deployStep'[r] # deployStep[r],
                    NEW a \in Apps \ {app[r]}, there[r][a] # None
             PROVE  deployed'[a] = deployed[a]
  BY DEF App!SparesOthersStep
<1>1. App!Handle(r)
  <2>1. ASSUME NEW q \in Deployments \ {r}, App!Handle(q)
        PROVE  deployStep'[r] = deployStep[r]
    BY <2>1 DEF App!Handle, App!Start, App!Patch, App!Declare,
       App!GetPortInfo, App!UpdatePort, App!Remove, App!Goto,
       DeployInv, DeployTypes
  <2>2. UNCHANGED App!vars => deployStep'[r] = deployStep[r]
    BY DEF App!vars
  <2> QED
    BY <2>1, <2>2 DEF App!Next
<1>2. Deploying(r) /\ app[r] \in Apps /\ deployed \in App!Content
  BY DEF DeployInv, DeployTypes
<1>3. CASE App!Start(r)
  BY <1>3 DEF App!Start
<1>4. CASE App!Patch(r)
  <2>1. CASE App!Patched(r)
    BY <1>2, <2>1 DEF App!Patched, App!Content
  <2>2. CASE App!NotTaken
    BY <2>2 DEF App!NotTaken
  <2> QED
    BY <1>4, <2>1, <2>2, Zenon DEF App!Patch
<1>5. CASE App!Declare(r)
  BY <1>2, <1>5 DEF App!Declare, Deploying, App!Nothing
<1>6. ~App!GetPortInfo(r) /\ ~App!UpdatePort(r) /\ ~App!Remove(r)
  BY <1>2 DEF App!GetPortInfo, App!UpdatePort, App!Remove, Deploying
<1> QED
  BY <1>1, <1>3, <1>4, <1>5, <1>6 DEF App!Handle

(***************************************************************************)
(* To deploy an application by its default declaration touches no other    *)
(* that the BIG-IP ran when it was asked (deployById).                     *)
(***************************************************************************)
THEOREM DeploymentsSpareOthers == PortalSpec => SparesOthers
<1>1. (part = "app" => DeployInv) /\ [PortalNext]_allvars
        => [part = "app" => App!SparesOthersStep]_allvars
  BY StepOfPart, SparesStep
<1> QED
  BY DeployInvariance, <1>1, PTL DEF PortalSpec, SparesOthers

(***************************************************************************)
(* A declaration reported deployed by its own route was taken, and its     *)
(* address is on the port and stays there, unless requests overlapped at   *)
(* the port (proxyDeploy, TryBindVirtualAddressToExt).                     *)
(***************************************************************************)
THEOREM AddressesStay == PortalSpec => []AddressesServe
<1>1. (part = "app" => DeployInv) => AddressesServe
  BY DEF DeployInv, Deploying, Bound, App!AddressesServe, DeployTypes,
     AddressesServe
<1> QED
  BY DeployInvariance, <1>1, PTL
-----------------------------------------------------------------------------
(* Floating IPs.                                                           *)

FipConstants == MaxFips \in Nat /\ None \notin Fip!Fips /\ None \notin Adcs

\* An ADC knows the floating IPs there have been; and the one that was created
\* for it is none that was there before.
FipsKnown(c) ==
  /\ found[c] \in 0 .. fipsBorn \cup {None}
  /\ fipStep[c] = "bind" => found[c] # None
  /\ created[c] => rcd[c] \in 1 .. fipsBorn /\ fipStep[c] \in {"bound", "unfip", "reclaimed"}
  /\ fipStep[c] = "bound" => rcd[c] \in 0 .. fipsBorn
  /\ fipStep[c] = "unfip" => created[c]

\* A floating IP that was created for an ADC that has not given it up is the
\* ADC's, and nobody has found it free, unless its status was late.
OwnFip(c) ==
  fipStep[c] = "bound" /\ created[c] /\ rcd[c] \notin late =>
    /\ fip = rcd[c] => port = c
    /\ \A d \in Adcs : fipStep[d] = "bind" => found[d] # rcd[c]

\* While nothing has come between and no status was late, nobody is about to
\* bind, create or delete the floating IP an ADC has recorded.
BoundAlone(c) ==
  fipStep[c] = "bound" /\ ~raced[c] /\ rcd[c] \notin late =>
    /\ fip = rcd[c] /\ port = c
    /\ \A d \in Adcs \ {c} :
         /\ fipStep[d] \notin {"bind", "create"}
         /\ fipStep[d] = "unfip" => rcd[d] # rcd[c]

\* Two ADCs were not given the same floating IP by creating it.
FipsDistinct ==
  \A c, d \in Adcs : created[c] /\ created[d] /\ rcd[c] = rcd[d] => c = d

FipInv ==
  /\ Fip!TypeOK
  /\ fip \in 0 .. fipsBorn \cup {None}
  /\ FipsDistinct
  /\ \A c \in Adcs : FipsKnown(c) /\ OwnFip(c) /\ BoundAlone(c)

-----------------------------------------------------------------------------
\* No ADC has looked for a floating IP.
LEMMA InitFip == FipConstants /\ Fip!Init => FipInv
BY DEF FipConstants, Fip!Init, FipInv, Fip!TypeOK, Fip!Fips, Fip!Step,
   FipsDistinct, FipsKnown, OwnFip, BoundAlone

\* An ADC finds an address that is free, or none, or one whose status is late.
LEMMA LookupKeepsInv ==
  ASSUME FipConstants, FipInv, NEW c \in Adcs, Fip!Lookup(c)
  PROVE  FipInv'
<1>0. /\ UNCHANGED <<fip, port, down, fipsBorn, rcd, created, raced>>
      /\ found' = [found EXCEPT ![c] = fip]
      /\ late' = IF fip # None /\ port # None /\ down THEN late \cup {fip}
                 ELSE late
      /\ fipStep[c] = "idle"
      /\ Fip!Goto(c, IF fip = None THEN "create" ELSE IF down THEN "bind"
                     ELSE "failed")
  BY DEF Fip!Lookup, Fip!Answered
<1>a. /\ found'[c] = fip /\ fipStep'[c] \notin {"bound", "unfip", "reclaimed"}
      /\ fipStep'[c] = "bind" => fip # None /\ (port = None \/ fip \in late')
      /\ fipStep'[c] = "create" => fip = None
      /\ \A d \in Adcs \ {c} : fipStep'[d] = fipStep[d] /\ found'[d] = found[d]
  BY <1>0 DEF Fip!Goto, FipInv, Fip!TypeOK
<1>b. late \subseteq late'
  BY <1>0
<1>1. Fip!TypeOK'
  <2>1. late' \subseteq Fip!Fips
    BY <1>0 DEF FipInv, Fip!TypeOK
  <2> QED
    BY <1>0, <2>1 DEF Fip!Goto, FipInv, Fip!TypeOK, Fip!Step
<1>2. FipsDistinct'
  BY <1>0 DEF FipInv, FipsDistinct
<1>3. ASSUME NEW d \in Adcs
      PROVE  FipsKnown(d)'
  BY <1>0, <1>a DEF FipInv, FipsKnown
<1>4. ASSUME NEW d \in Adcs
      PROVE  OwnFip(d)'
  BY <1>0, <1>a, <1>b DEF FipInv, OwnFip, FipConstants
<1>5. ASSUME NEW d \in Adcs
      PROVE  BoundAlone(d)'
  <2>1. fipStep[d] = "bound" => rcd[d] # None
    BY DEF FipInv, FipsKnown, FipConstants, Fip!Fips, Fip!TypeOK
  <2> QED
    BY <1>0, <1>a, <1>b, <2>1 DEF FipInv, BoundAlone, FipConstants
<1> QED
  BY <1>0, <1>1, <1>2, <1>3, <1>4, <1>5 DEF FipInv

\* What the agents report is the status alone.
LEMMA ReportKeepsInv ==
  ASSUME FipInv, Fip!Report
  PROVE  FipInv'
BY DEF Fip!Report, FipInv, Fip!TypeOK, FipsDistinct, FipsKnown, OwnFip, BoundAlone

\* What a call of c leaves of the history.
LEMMA TouchRaces ==
  ASSUME Fip!TypeOK, NEW c \in Adcs, Fip!Touch(c)
  PROVE  /\ raced' \in [Adcs -> BOOLEAN]
         /\ \A d \in Adcs : raced[d] => raced'[d]
         /\ \A d \in Adcs \ {c} :
              fipStep[d] \in {"bind", "create", "unfip"} => raced'[d] /\ raced'[c]
BY Zenon DEF Fip!Touch, Fip!Between, Fip!TypeOK

\* What is bound is what was found, unless another came first.
LEMMA BindKeepsInv ==
  ASSUME FipConstants, FipInv, NEW c \in Adcs, Fip!Bind(c)
  PROVE  FipInv'
<1>0. /\ fipStep[c] = "bind" /\ UNCHANGED <<fip, down, fipsBorn, found, late>>
      /\ fipStep' = [fipStep EXCEPT ![c] = "bound"] \/ fipStep' = [fipStep EXCEPT ![c] = "failed"]
      /\ \A d \in Adcs \ {c} : fipStep'[d] = fipStep[d]
  BY DEF Fip!Bind, Fip!Goto, FipInv, Fip!TypeOK
<1>a. ~created[c]
  BY <1>0 DEF FipInv, FipsKnown
<1>b. CASE /\ fip = found[c] /\ port' = c /\ Fip!Touch(c)
           /\ rcd' = [rcd EXCEPT ![c] = fip]
           /\ created' = [created EXCEPT ![c] = FALSE]
           /\ Fip!Goto(c, "bound")
  <2>0. /\ raced' \in [Adcs -> BOOLEAN]
        /\ \A d \in Adcs : raced[d] => raced'[d]
        /\ \A d \in Adcs \ {c} :
             fipStep[d] \in {"bind", "create", "unfip"} => raced'[d] /\ raced'[c]
    BY <1>b, TouchRaces DEF FipInv
  <2>a. /\ fipStep'[c] = "bound" /\ rcd'[c] = fip /\ ~created'[c]
        /\ \A d \in Adcs \ {c} : rcd'[d] = rcd[d] /\ created'[d] = created[d]
    BY <1>b DEF Fip!Goto, FipInv, Fip!TypeOK
  <2>b. fip \in 0 .. fipsBorn
    BY <1>0, <1>b DEF FipInv, FipsKnown
  <2>1. Fip!TypeOK'
    BY <1>0, <1>b, <2>0 DEF FipInv, Fip!TypeOK, Fip!Step
  <2>2. FipsDistinct'
    BY <2>a DEF FipInv, FipsDistinct
  <2>3. ASSUME NEW d \in Adcs
        PROVE  FipsKnown(d)'
    BY <1>0, <2>a, <2>b DEF FipInv, FipsKnown
  <2>4. ASSUME NEW d \in Adcs
        PROVE  OwnFip(d)'
    BY <1>0, <1>b, <2>a DEF FipInv, OwnFip
  <2>5. ASSUME NEW d \in Adcs
        PROVE  BoundAlone(d)'
    <3>1. CASE d = c
      BY <1>0, <1>b, <2>0, <2>a, <3>1 DEF BoundAlone
    <3>2. CASE d # c
      BY <1>0, <2>0, <2>a, <3>2 DEF FipInv, BoundAlone
    <3> QED
      BY <3>1, <3>2
  <2> QED
    BY <1>0, <2>1, <2>2, <2>3, <2>4, <2>5 DEF FipInv
<1>c. CASE /\ Fip!Goto(c, "failed") /\ UNCHANGED <<rcd, created>>
           /\ \/ fip = found[c] /\ port' = c /\ Fip!Touch(c)
              \/ UNCHANGED <<port, raced>>
  <2>0. /\ raced' \in [Adcs -> BOOLEAN]
        /\ \A d \in Adcs : raced[d] => raced'[d]
    BY <1>c, TouchRaces DEF FipInv, Fip!TypeOK
  <2>a. fipStep'[c] = "failed"
    BY <1>c DEF Fip!Goto, FipInv, Fip!TypeOK
  <2>1. Fip!TypeOK'
    BY <1>0, <1>c, <2>0 DEF FipInv, Fip!TypeOK, Fip!Step
  <2>2. FipsDistinct'
    BY <1>c DEF FipInv, FipsDistinct
  <2>3. ASSUME NEW d \in Adcs
        PROVE  FipsKnown(d)'
    BY <1>0, <1>a, <1>c, <2>a DEF FipInv, FipsKnown
  <2>4. ASSUME NEW d \in Adcs
        PROVE  OwnFip(d)'
    BY <1>0, <1>c, <2>a DEF FipInv, OwnFip
  <2>5. ASSUME NEW d \in Adcs
        PROVE  BoundAlone(d)'
    BY <1>0, <1>c, <2>0, <2>a DEF FipInv, BoundAlone
  <2> QED
    BY <1>0, <2>1, <2>2, <2>3, <2>4, <2>5 DEF FipInv
<1> QED
  BY <1>b, <1>c DEF Fip!Bind

\* An address that is created is nobody else's.
LEMMA CreateKeepsInv ==
  ASSUME FipConstants, FipInv, NEW c \in Adcs, Fip!Create(c)
  PROVE  FipInv'
<1>0. /\ fipStep[c] = "create" /\ UNCHANGED <<found, late>>
      /\ fipStep' = [fipStep EXCEPT ![c] = "bound"] \/ fipStep' = [fipStep EXCEPT ![c] = "failed"]
      /\ \A d \in Adcs \ {c} : fipStep'[d] = fipStep[d]
  BY DEF Fip!Create, Fip!Goto, FipInv, Fip!TypeOK
<1>a. ~created[c] /\ fipsBorn \in 0 .. MaxFips
  BY <1>0 DEF FipInv, FipsKnown, Fip!TypeOK, Fip!Fips
<1>b. CASE /\ fip = None /\ fipsBorn < MaxFips
           /\ fipsBorn' = fipsBorn + 1 /\ fip' = fipsBorn' /\ port' = c
           /\ down' = TRUE
           /\ Fip!Touch(c)
           /\ \/ /\ rcd' = [rcd EXCEPT ![c] = fip']
                 /\ created' = [created EXCEPT ![c] = TRUE]
                 /\ Fip!Goto(c, "bound")
              \/ Fip!Goto(c, "failed") /\ UNCHANGED <<rcd, created>>
  <2>0. /\ raced' \in [Adcs -> BOOLEAN]
        /\ \A d \in Adcs : raced[d] => raced'[d]
        /\ \A d \in Adcs \ {c} :
             fipStep[d] \in {"bind", "create", "unfip"} => raced'[d] /\ raced'[c]
    BY <1>b, TouchRaces DEF FipInv
  <2>a. /\ \/ fipStep'[c] = "bound" /\ rcd'[c] = fip' /\ created'[c]
           \/ fipStep'[c] = "failed" /\ rcd'[c] = rcd[c] /\ ~created'[c]
        /\ \A d \in Adcs \ {c} : rcd'[d] = rcd[d] /\ created'[d] = created[d]
    BY <1>a, <1>b DEF Fip!Goto, FipInv, Fip!TypeOK
  <2>b. /\ 0 .. fipsBorn \subseteq 0 .. fipsBorn'
        /\ 1 .. fipsBorn \subseteq 1 .. fipsBorn'
        /\ fip' \in 1 .. fipsBorn' /\ fip' \in 0 .. fipsBorn'
        /\ fip' \notin 0 .. fipsBorn
        /\ fip' \notin 1 .. fipsBorn /\ fipsBorn' \in Fip!Fips
    BY <1>a, <1>b DEF Fip!Fips, FipConstants
  <2>1. Fip!TypeOK'
    <3>1. rcd' \in [Adcs -> Fip!Fips \cup {None}] /\ created' \in [Adcs -> BOOLEAN]
      BY <1>b, <2>b DEF FipInv, Fip!TypeOK
    <3> QED
      BY <1>0, <1>b, <2>0, <2>b, <3>1 DEF FipInv, Fip!TypeOK, Fip!Step
  <2>2. FipsDistinct'
    BY <2>a, <2>b DEF FipInv, FipsDistinct, FipsKnown
  <2>3. ASSUME NEW d \in Adcs
        PROVE  FipsKnown(d)'
    BY <1>0, <2>a, <2>b DEF FipInv, FipsKnown
  <2>4. ASSUME NEW d \in Adcs
        PROVE  OwnFip(d)'
    <3>1. CASE d = c
      <4>1. \A e \in Adcs : found[e] # fip'
        BY <1>b, <2>b DEF FipInv, FipsKnown, FipConstants
      <4> QED
        BY <1>0, <1>b, <2>a, <3>1, <4>1 DEF OwnFip
    <3>2. CASE d # c
      BY <1>0, <2>a, <2>b, <3>2 DEF FipInv, OwnFip, FipsKnown
    <3> QED
      BY <3>1, <3>2
  <2>5. ASSUME NEW d \in Adcs
        PROVE  BoundAlone(d)'
    <3>1. CASE d = c
      BY <1>0, <1>b, <2>0, <2>a, <2>b, <3>1 DEF FipInv, BoundAlone, FipsKnown
    <3>2. CASE d # c
      BY <1>0, <2>0, <2>a, <3>2 DEF FipInv, BoundAlone
    <3> QED
      BY <3>1, <3>2
  <2>6. fip' \in 0 .. fipsBorn' \cup {None}
    BY <2>b
  <2> QED
    BY <2>1, <2>2, <2>3, <2>4, <2>5, <2>6 DEF FipInv
<1>c. CASE /\ Fip!Goto(c, "failed")
           /\ UNCHANGED <<fip, port, down, fipsBorn, rcd, created, raced>>
  <2>a. fipStep'[c] = "failed"
    BY <1>c DEF Fip!Goto, FipInv, Fip!TypeOK
  <2>1. Fip!TypeOK'
    BY <1>0, <1>c DEF FipInv, Fip!TypeOK, Fip!Step
  <2>2. FipsDistinct'
    BY <1>c DEF FipInv, FipsDistinct
  <2>3. ASSUME NEW d \in Adcs
        PROVE  FipsKnown(d)' /\ OwnFip(d)' /\ BoundAlone(d)'
    BY <1>0, <1>a, <1>c, <2>a DEF FipInv, FipsKnown, OwnFip, BoundAlone
  <2> QED
    BY <1>0, <1>c, <2>1, <2>2, <2>3 DEF FipInv
<1> QED
  BY <1>b, <1>c DEF Fip!Create

\* With its port an ADC loses its address, which stays.
LEMMA DeletePortKeepsInv ==
  ASSUME FipConstants, FipInv, NEW c \in Adcs, Fip!DeletePort(c)
  PROVE  FipInv'
<1>0. /\ fipStep[c] \in {"bound", "failed"}
      /\ UNCHANGED <<fip, down, fipsBorn, found, rcd, created, raced, late>>
      /\ port' \in {port, IF port = c THEN None ELSE port}
      /\ \/ fipStep'[c] = "unfip" /\ created[c]
         \/ fipStep'[c] = "reclaimed"
      /\ \A d \in Adcs \ {c} : fipStep'[d] = fipStep[d]
  BY DEF Fip!DeletePort, Fip!Goto, FipInv, Fip!TypeOK
<1>a. created[c] => fipStep[c] = "bound"
  BY <1>0 DEF FipInv, FipsKnown
<1>1. Fip!TypeOK'
  BY <1>0 DEF Fip!DeletePort, Fip!Goto, FipInv, Fip!TypeOK, Fip!Step
<1>2. FipsDistinct'
  BY <1>0 DEF FipInv, FipsDistinct
<1>3. ASSUME NEW d \in Adcs
      PROVE  FipsKnown(d)'
  BY <1>0, <1>a DEF FipInv, FipsKnown
<1>4. ASSUME NEW d \in Adcs
      PROVE  OwnFip(d)'
  BY <1>0 DEF FipInv, OwnFip
<1>5. ASSUME NEW d \in Adcs
      PROVE  BoundAlone(d)'
  <2>1. SUFFICES ASSUME fipStep'[d] = "bound", ~raced'[d], rcd'[d] \notin late'
                 PROVE  /\ fip' = rcd'[d] /\ port' = d
                        /\ \A e \in Adcs \ {d} :
                             /\ fipStep'[e] \notin {"bind", "create"}
                             /\ fipStep'[e] = "unfip" => rcd'[e] # rcd'[d]
    BY DEF BoundAlone
  <2>2. d # c /\ fipStep[d] = "bound" /\ ~raced[d] /\ rcd[d] \notin late
    BY <1>0, <2>1
  <2>3. /\ fip = rcd[d] /\ port = d
        /\ \A e \in Adcs \ {d} :
             /\ fipStep[e] \notin {"bind", "create"}
             /\ fipStep[e] = "unfip" => rcd[e] # rcd[d]
    BY <2>2 DEF FipInv, BoundAlone
  <2>4. fipStep'[c] = "unfip" => rcd[c] # rcd[d]
    BY <1>0, <1>a, <2>2, <2>3 DEF FipInv, OwnFip
  <2> QED
    BY <1>0, <2>2, <2>3, <2>4
<1> QED
  BY <1>0, <1>1, <1>2, <1>3, <1>4, <1>5 DEF FipInv

\* An ADC deletes what it has created.
LEMMA DeleteFipKeepsInv ==
  ASSUME FipConstants, FipInv, NEW c \in Adcs, Fip!DeleteFip(c)
  PROVE  FipInv'
<1>0. /\ fipStep[c] = "unfip" /\ UNCHANGED <<down, fipsBorn, found, late>>
      /\ fipStep'[c] = "reclaimed"
      /\ fipStep' = [fipStep EXCEPT ![c] = "reclaimed"]
      /\ \A d \in Adcs \ {c} : fipStep'[d] = fipStep[d]
      /\ \/ fip = rcd[c] /\ fip' = None /\ port' = None /\ Fip!Touch(c)
         \/ UNCHANGED <<fip, port, raced>>
      /\ \/ /\ rcd' = [rcd EXCEPT ![c] = None]
            /\ created' = [created EXCEPT ![c] = FALSE]
         \/ UNCHANGED <<rcd, created>>
  BY DEF Fip!DeleteFip, Fip!Goto, FipInv, Fip!TypeOK
<1>a. /\ raced' \in [Adcs -> BOOLEAN]
      /\ \A d \in Adcs : raced[d] => raced'[d]
  BY <1>0, TouchRaces DEF FipInv, Fip!TypeOK
<1>b. /\ \/ rcd'[c] = rcd[c] /\ created'[c] = created[c]
         \/ ~created'[c]
      /\ \A d \in Adcs \ {c} : rcd'[d] = rcd[d] /\ created'[d] = created[d]
  BY <1>0 DEF FipInv, Fip!TypeOK
<1>1. Fip!TypeOK'
  <2>1. fip' \in Fip!Fips \cup {None} /\ port' \in Adcs \cup {None}
    BY <1>0 DEF FipInv, Fip!TypeOK
  <2>2. /\ rcd' \in [Adcs -> Fip!Fips \cup {None}]
        /\ created' \in [Adcs -> BOOLEAN]
    BY <1>0 DEF FipInv, Fip!TypeOK
  <2>3. fipStep' \in [Adcs -> Fip!Step]
    BY <1>0 DEF FipInv, Fip!TypeOK, Fip!Step
  <2> QED
    BY <1>0, <1>a, <2>1, <2>2, <2>3 DEF FipInv, Fip!TypeOK
<1>2. FipsDistinct'
  BY <1>b DEF FipInv, FipsDistinct
<1>3. ASSUME NEW d \in Adcs
      PROVE  FipsKnown(d)'
  BY <1>0, <1>b DEF FipInv, FipsKnown
<1>4. ASSUME NEW d \in Adcs
      PROVE  OwnFip(d)'
  <2>1. CASE d = c
    BY <1>0, <2>1 DEF OwnFip
  <2>2. CASE d # c
    <3>1. fipStep[d] = "bound" => rcd[d] # None
      BY DEF FipInv, FipsKnown, FipConstants, Fip!Fips, Fip!TypeOK
    <3> QED
      BY <1>0, <1>b, <2>2, <3>1 DEF FipInv, OwnFip
  <2> QED
    BY <2>1, <2>2
<1>5. ASSUME NEW d \in Adcs
      PROVE  BoundAlone(d)'
  <2>1. CASE d = c
    BY <1>0, <2>1 DEF BoundAlone
  <2>2. CASE d # c
    BY <1>0, <1>a, <1>b, <2>2 DEF FipInv, BoundAlone
  <2> QED
    BY <2>1, <2>2
<1>6. fip' \in 0 .. fipsBorn' \cup {None}
  BY <1>0 DEF FipInv
<1> QED
  BY <1>1, <1>2, <1>3, <1>4, <1>5, <1>6 DEF FipInv

\* Every step of a job keeps the addresses apart.
LEMMA FipStep == FipConstants /\ FipInv /\ [Fip!Next]_(Fip!vars) => FipInv'
<1> SUFFICES ASSUME FipConstants, FipInv, [Fip!Next]_(Fip!vars)
             PROVE  FipInv'
  OBVIOUS
<1>1. CASE UNCHANGED Fip!vars
  BY <1>1 DEF Fip!vars, FipInv, Fip!TypeOK, FipsDistinct, FipsKnown, OwnFip,
     BoundAlone
<1>2. ASSUME NEW c \in Adcs, Fip!Act(c)
      PROVE  FipInv'
  BY <1>2, LookupKeepsInv, BindKeepsInv, CreateKeepsInv, DeletePortKeepsInv,
     DeleteFipKeepsInv DEF Fip!Act
<1> QED
  BY <1>1, <1>2, ReportKeepsInv DEF Fip!Next

\* The whole makes the assumptions of this part.
LEMMA FipConstantsHold == FipConstants
BY PortalAssumption DEF FipConstants, Fip!Fips

\* The same of the whole, while this part runs.
LEMMA FipRuns == PortalSpec => [](part = "fip" => FipInv)
<1>1. PortalInit => (part = "fip" => FipInv)
  BY InitFip, FipConstantsHold DEF PortalInit
<1>2. (part = "fip" => FipInv) /\ [PortalNext]_allvars
        => (part = "fip" => FipInv)'
  BY StepOfPart, FipStep, FipConstantsHold
<1> QED
  BY <1>1, <1>2, PTL DEF PortalSpec

(***************************************************************************)
(* An ADC whose creation has recorded a floating IP has it, unless another *)
(* ADC has come between a lookup and a binding, or between the two calls   *)
(* by which one is given up, or the floating IP was found DOWN while it    *)
(* was bound (createOn's cNet, deleteOn).                                  *)
(***************************************************************************)
THEOREM RecordedStaysBound == PortalSpec => []RecordedIsBound
<1>1. (part = "fip" => FipInv) => RecordedIsBound
  BY DEF FipInv, BoundAlone, Fip!RecordedIsBound, RecordedIsBound
<1> QED
  BY FipRuns, <1>1, PTL

\* A floating IP that is deleted was created for the ADC, later than the user's.
LEMMA FipStepSpares ==
  ASSUME FipInv, [Fip!Next]_(Fip!vars)
  PROVE  Fip!UsersFipStep
<1> SUFFICES ASSUME fip = 0
             PROVE  fip' = 0
  BY DEF Fip!UsersFipStep
<1>1. CASE UNCHANGED Fip!vars
  BY <1>1 DEF Fip!vars
<1>2. CASE Fip!Report
  BY <1>2 DEF Fip!Report
<1>3. CASE \E c \in Adcs : Fip!Act(c)
  <2>1. PICK c \in Adcs : Fip!Act(c)
    BY <1>3
  <2>2. CASE Fip!Lookup(c) \/ Fip!Bind(c) \/ Fip!DeletePort(c)
    BY <2>2 DEF Fip!Lookup, Fip!Answered, Fip!Bind, Fip!DeletePort
  <2>3. CASE Fip!Create(c)
    BY <2>3, FipConstantsHold DEF Fip!Create, FipConstants, Fip!Fips
  <2>4. CASE Fip!DeleteFip(c)
    <3>1. rcd[c] # 0
      BY <2>4 DEF Fip!DeleteFip, FipInv, FipsKnown, Fip!TypeOK, Fip!Fips
    <3> QED
      BY <2>4, <3>1 DEF Fip!DeleteFip
  <2> QED
    BY <2>1, <2>2, <2>3, <2>4 DEF Fip!Act
<1> QED
  BY <1>1, <1>2, <1>3 DEF Fip!Next

(***************************************************************************)
(* No reclaim deletes a floating IP that was there before the ADCs: what   *)
(* deleteOn deletes is recorded as created for the ADC, and such a one has *)
(* an id that Neutron gave out later (deleteOn, deleteFloatingIp).         *)
(***************************************************************************)
THEOREM UsersFipIsSpared == PortalSpec => UsersFipStays
<1>1. (part = "fip" => FipInv) /\ [PortalNext]_allvars
        => [part = "fip" => Fip!UsersFipStep]_allvars
  BY StepOfPart, FipStepSpares
<1> QED
  BY FipRuns, <1>1, PTL DEF PortalSpec, UsersFipStays
=============================================================================
