-------------------------- MODULE AdcLifecycleProofs --------------------------
(***************************************************************************)
(* Proofs about AdcLifecycle, for every set of networks, DELETE and PATCH  *)
(* requests and faults, with or without restarts: InfraInv is inductive,   *)
(* the row names what exists, nothing is left when it is gone, and the     *)
(* ADC's life implements ResourceLedger; CalmInv is inductive beside it,   *)
(* and gives NothingLeft and ActiveIsReal; and WorkInv gives Attended and  *)
(* JobsAdvance.  Each part has lemmas on the forms a step takes first,     *)
(* then one lemma per operation, then the theorems.                        *)
(***************************************************************************)
EXTENDS AdcJobs, TLAPS

\* The resources of an ADC are told apart by kind and network, and the trusted
\* device and the license are no infrastructure.
LEMMA Resources ==
  /\ Server \in Infra
  /\ \A n \in Networks : Port(n) \in Infra /\ Fip(n) \in Infra
  /\ Trust \notin Infra /\ Licence \notin Infra
  /\ Infra \subseteq Resource /\ Trust \in Resource /\ Licence \in Resource
  /\ \A n, m \in Networks :
       /\ Port(n) = Port(m) => n = m
       /\ Fip(n) = Fip(m) => n = m
       /\ Port(n) # Fip(m) /\ Port(n) # Server /\ Fip(n) # Server
BY SMT DEF Infra, Resource, Server, Port, Fip, Trust, Licence

\* Before POST nothing exists and no job has a copy to write.
LEMMA InitInv == ASSUME Init PROVE InfraInv
<1>1. TypeOK
  BY DEF Init, TypeOK, NoRow, CreatorState, ReclaimState, PatchState, NewAdc, Adc,
         Status, TableState, Stage, CreatorPhase
<1>2. Owned = {}
  BY DEF Init, Owned
<1> QED
  BY <1>1, <1>2 DEF Init, InfraInv, CreatorKnows, WritersKnow, CreationExclusive,
     CopiesPaired, ReclaimProgress, Progress, NoInfraLeft, FipHasPort, Knows, Early, NewAdc,
     NoRow, Accepted, Live, Gone

\* A step of the creation keeps InfraInv when the row stays or becomes the
\* creator's copy, and the copy, which never forgets, knows what is owned.
LEMMA CreatorStep ==
  ASSUME InfraInv, TypeOK', creator.stage # "POST", UNCHANGED <<reclaim, patch>>,
         row' = row \/ (row # NoRow /\ row' = creator'.adc),
         creator.adc.res \subseteq creator'.adc.res,
         Owned' \subseteq creator'.adc.res,
         Owned' \subseteq Owned \/ creator'.stage = "POWERON",
         creator'.stage # "POST",
         creator'.stage = "POWERON" =>
           creator.stage = "POWERON" /\ creator'.adc.status \in Early /\ ~creator'.late,
         FipHasPort(creator'.adc),
         creator'.phase = "fip" => /\ creator'.net \in Networks
                                   /\ Port(creator'.net) \in creator'.adc.res
  PROVE  InfraInv'
<1>0. NoRow \notin Adc
  BY DEF NoRow, Adc, Status, TableState, Stage, Failure, CreateFailure, InProgress
<1>1. row' = NoRow <=> row = NoRow
  BY <1>0 DEF TypeOK, CreatorState
<1>2. CreatorKnows'
  BY DEF CreatorKnows
<1>3. WritersKnow'
  BY <1>1 DEF InfraInv, WritersKnow, CreationExclusive, Knows
<1>4. CreationExclusive'
  BY <1>1 DEF InfraInv, CreationExclusive
<1>5. CopiesPaired'
  BY DEF InfraInv, CopiesPaired, FipHasPort
<1>6. ReclaimProgress'
  <2>1. CASE creator'.stage = "POWERON"
    BY <2>1 DEF InfraInv, CreationExclusive, ReclaimProgress, Progress, Accepted, Live
  <2>2. CASE Owned' \subseteq Owned
    BY <2>2 DEF InfraInv, ReclaimProgress, Progress
  <2> QED BY <2>1, <2>2
<1>7. NoInfraLeft'
  <2> SUFFICES ASSUME row = NoRow PROVE Owned' = {}
    BY <1>1 DEF NoInfraLeft, Gone, Owned
  <2>1. Owned = {}
    BY DEF InfraInv, NoInfraLeft, Gone, Owned
  <2>2. creator.stage # "POWERON"
    BY DEF InfraInv, CreationExclusive, NoRow, Early
  <2> QED BY <2>1, <2>2
<1> QED
  BY <1>2, <1>3, <1>4, <1>5, <1>6, <1>7 DEF InfraInv

\* What a step does outside, when it brings no infrastructure into being that
\* it does not lose at once.
NothingGained ==
  /\ held' \subseteq Resource /\ device' \subseteq Feature /\ astray' \subseteq Resource
  /\ Owned' \subseteq Owned

\* A step that touches nothing outside the database gains nothing.
LEMMA OutsideUnchanged ==
  ASSUME InfraInv, UNCHANGED outside PROVE NothingGained
BY DEF InfraInv, TypeOK, outside, NothingGained, Owned

\* The creator's stages after POST, where its copy may be written.
LaterStage == Stage \union {"SETUP", "END"}

\* What InfraInv says of the creator's copy, in the form the steps use.
LEMMA CreatorTyped ==
  ASSUME InfraInv
  PROVE  /\ creator \in CreatorState
         /\ creator.adc \in Adc /\ creator.adc.res \subseteq Resource
         /\ creator.adc.status \in Status
         /\ FipHasPort(creator.adc)
         /\ Owned \subseteq creator.adc.res
         /\ creator.stage = "POWERON" => creator.adc.status \in Early /\ ~creator.late
BY DEF InfraInv, TypeOK, CreatorState, Adc, CopiesPaired, CreatorKnows, CreationExclusive

\* A new status leaves a copy typed and its floating IPs beside their ports.
LEMMA WithTyped ==
  ASSUME InfraInv, NEW status \in Status
  PROVE  /\ With(creator.adc, status) \in Adc
         /\ With(creator.adc, status).res = creator.adc.res
         /\ With(creator.adc, status).status = status
         /\ FipHasPort(With(creator.adc, status))
BY CreatorTyped DEF With, Adc, FipHasPort

\* A step that only moves the creation on (createFunc, setupOn) keeps InfraInv.
LEMMA MoveStep ==
  ASSUME InfraInv, creator.stage # "POST", NothingGained, UNCHANGED <<row, others>>,
         NEW stage \in LaterStage, NEW phase \in CreatorPhase \ {"fip"},
         creator' = Move(stage, phase),
         stage = "POWERON" => creator.stage = "POWERON"
  PROVE  InfraInv'
<1>1. /\ creator' \in CreatorState
      /\ creator'.stage = stage /\ creator'.phase = phase
      /\ creator'.adc = creator.adc /\ creator'.late = creator.late
  BY CreatorTyped DEF Move, CreatorState, LaterStage
<1>2. TypeOK'
  BY <1>1 DEF InfraInv, TypeOK, NothingGained, others
<1> QED
  BY <1>1, <1>2, CreatorTyped, CreatorStep DEF NothingGained, others, LaterStage, Stage

\* An awaited serialize of the creation keeps InfraInv.
LEMMA SaveStep ==
  ASSUME InfraInv, creator.stage # "POST", NothingGained, UNCHANGED others,
         NEW adc \in Adc, NEW stage \in LaterStage, NEW phase \in CreatorPhase \ {"fip"},
         Save(adc, stage, phase),
         creator.adc.res \subseteq adc.res, FipHasPort(adc),
         stage = "POWERON" => creator.stage = "POWERON" /\ adc.status \in Early
  PROVE  InfraInv'
<1>1. CASE row = NoRow
  <2>1. /\ creator' \in CreatorState
        /\ creator'.stage = "END" /\ creator'.phase = "gate"
        /\ creator'.adc = creator.adc
        /\ row' = row
    BY <1>1, CreatorTyped DEF Save, Write, Aborted, CreatorState, CreatorPhase
  <2>2. TypeOK'
    BY <2>1 DEF InfraInv, TypeOK, NothingGained, others
  <2> QED
    BY <2>1, <2>2, CreatorTyped, CreatorStep DEF NothingGained, others
<1>2. CASE row # NoRow
  <2>1. /\ creator' \in CreatorState
        /\ creator'.stage = stage /\ creator'.phase = phase
        /\ creator'.adc = adc /\ creator'.late = creator.late
        /\ row' = adc
    BY <1>2, CreatorTyped DEF Save, Write, CreatorState, LaterStage
  <2>2. TypeOK'
    BY <2>1 DEF InfraInv, TypeOK, NothingGained, others
  <2> QED
    BY <1>2, <2>1, <2>2, CreatorTyped, CreatorStep DEF NothingGained, others, LaterStage, Stage
<1> QED BY <1>1, <1>2

\* A serialize nobody awaits keeps InfraInv when it is issued.
LEMMA SaveLaterStep ==
  ASSUME InfraInv, creator.stage # "POST", NothingGained, UNCHANGED others,
         NEW status \in Status, NEW stage \in LaterStage \ {"POWERON"},
         SaveLater(With(creator.adc, status), stage)
  PROVE  InfraInv'
<1>1. /\ creator' \in CreatorState
      /\ creator'.stage = stage /\ creator'.phase = "gate"
      /\ creator'.adc = With(creator.adc, status)
      /\ row' = row
  BY CreatorTyped, WithTyped DEF SaveLater, CreatorState, LaterStage, CreatorPhase
<1>2. TypeOK'
  BY <1>1 DEF InfraInv, TypeOK, NothingGained, others
<1> QED
  BY <1>1, <1>2, CreatorTyped, WithTyped, CreatorStep DEF NothingGained, others, LaterStage, Stage

\* The names the stages write are statuses, and POWERING is an early one.
LEMMA StatusNames ==
  /\ \A s \in Stage : FailureOf(s) \in Status /\ s \in Status
  /\ \A s \in Stage \ {"LICENSED"} : ProgressOf(s) \in Status
  /\ ProgressOf("POWERON") \in Early /\ "ACTIVE" \in Status /\ "RECLAIMED" \in Status
  /\ "RECLAIMING" \in Status /\ "RECLAIMERROR" \in Status
BY DEF FailureOf, ProgressOf, Status, TableState, Stage, Failure, CreateFailure,
       InProgress, Early, NoEntry

\* POST keeps InfraInv.
LEMMA CreateInv == ASSUME InfraInv, Create PROVE InfraInv'
<1>1. /\ creator' \in CreatorState /\ creator'.stage = "POWERON"
      /\ creator'.phase = creator.phase /\ creator'.net = creator.net
      /\ creator'.adc = creator.adc /\ creator'.late = creator.late
  BY CreatorTyped DEF Create, CreatorState, Stage
<1>2. NewAdc \in Adc /\ NewAdc # NoRow /\ NewAdc.res = {} /\ NewAdc.status = "NEW"
  BY DEF NewAdc, NoRow, Adc, Status, TableState
<1>3. TypeOK'
  BY <1>1, <1>2 DEF Create, InfraInv, TypeOK, outside, others
<1>4. Owned' = Owned
  BY DEF Create, outside, Owned
<1>5. CreatorKnows'
  BY <1>1, <1>4 DEF InfraInv, CreatorKnows
<1>6. WritersKnow'
  BY <1>2, <1>4 DEF InfraInv, WritersKnow, Knows, Create, others, Early
<1>7. CreationExclusive'
  BY <1>1, <1>2 DEF InfraInv, CreationExclusive, Create, others, Early
<1>8. CopiesPaired'
  BY <1>1, <1>2 DEF InfraInv, CopiesPaired, FipHasPort, Create, others
<1>9. ReclaimProgress'
  BY <1>4 DEF InfraInv, ReclaimProgress, Progress, Create, others
<1>10. NoInfraLeft'
  BY <1>2 DEF NoInfraLeft, Gone, Create
<1> QED
  BY <1>3, <1>5, <1>6, <1>7, <1>8, <1>9, <1>10 DEF InfraInv

\* The gates of createFunc and setupOn keep InfraInv.
LEMMA GateInv == ASSUME InfraInv, Gate PROVE InfraInv'
<1>1. PICK ready \in BOOLEAN :
        creator' = IF ~ready THEN Move(After(creator.stage), "gate")
                   ELSE IF creator.stage = "SETUP" THEN Move("TRUSTED", "gate")
                   ELSE Move(creator.stage, "begin")
  BY DEF Gate, ReadyAnswers, ReadyTo
<1>2. After(creator.stage) \in LaterStage \ {"POWERON"}
  BY DEF Gate, After, Stage, LaterStage
<1>3. creator.stage # "POST" /\ creator.stage \in LaterStage
  BY DEF Gate, LaterStage, Stage
<1>4. PICK stage \in LaterStage, phase \in CreatorPhase \ {"fip"} :
        /\ creator' = Move(stage, phase)
        /\ stage = "POWERON" => creator.stage = "POWERON"
  BY <1>1, <1>2, <1>3 DEF CreatorPhase, LaterStage, Stage
<1>5. NothingGained
  BY OutsideUnchanged DEF Gate
<1> QED
  BY <1>3, <1>4, <1>5, MoveStep DEF Gate

\* The in-progress write a stage begins with keeps InfraInv.
LEMMA BeginInv ==
  ASSUME InfraInv, NEW s \in Stage \ {"LICENSED"}, Begin(s) PROVE InfraInv'
<1>1. NothingGained
  BY OutsideUnchanged DEF Begin
<1> QED
  BY <1>1, StatusNames, WithTyped, SaveStep
     DEF Begin, At, LaterStage, CreatorPhase, Stage

\* An awaited failure write, after a step that gained nothing.
LEMMA FailInv ==
  ASSUME InfraInv, creator.stage # "POST", NothingGained, UNCHANGED others,
         NEW s \in Stage, NEW next \in LaterStage \ {"POWERON"}, Fail(s, next)
  PROVE  InfraInv'
BY StatusNames, WithTyped, SaveStep DEF Fail, CreatorPhase

\* A stage's call to the device, done or failed, keeps InfraInv.
LEMMA CallInv ==
  ASSUME InfraInv, NEW s \in Stage, NEW next \in LaterStage \ {"POWERON"}, Call(s, next),
         s # "POWERON"
  PROVE  InfraInv'
<1>1. NothingGained
  BY OutsideUnchanged DEF Call
<1>2. creator.stage # "POST"
  BY DEF Call, At, Stage
<1>3. CASE creator' = Move(s, "wait") /\ UNCHANGED row
  BY <1>1, <1>2, <1>3, MoveStep DEF Call, LaterStage, CreatorPhase, others
<1>4. CASE Fail(s, next)
  BY <1>1, <1>2, <1>4, FailInv DEF Call
<1> QED BY <1>3, <1>4 DEF Call

\* What the device reaches during a poll is no infrastructure.
LEMMA AwaitGainsNothing ==
  ASSUME InfraInv, NEW feature \in Feature, UNCHANGED <<held, astray>>,
         device' = device \/ device' = device \union {feature}
  PROVE  NothingGained
BY DEF InfraInv, TypeOK, NothingGained, Owned

\* A failing call of createOn loses what it creates, and POWERERROR is written.
LEMMA PowerFailsInv ==
  ASSUME InfraInv, creator.stage = "POWERON", UNCHANGED others,
         NEW point, NEW r \in Resource, PowerFails(point, {r})
  PROVE  InfraInv'
<1>1. PICK lost \in SUBSET {r} : /\ CallFails(point, {r}, lost)
                                 /\ astray' = astray \union lost
                                 /\ Fail("POWERON", "END")
  BY DEF PowerFails
<1>2. NothingGained
  BY <1>1 DEF CallFails, InfraInv, TypeOK, NothingGained, Owned
<1> QED
  BY <1>1, <1>2, FailInv DEF LaterStage, Stage

\* A resource that comes into being while createOn runs is in its copy at once.
LEMMA AcquireStep ==
  ASSUME InfraInv, creator.stage = "POWERON", UNCHANGED <<row, others>>,
         NEW r \in Infra, held' = held \union {r}, UNCHANGED astray,
         device' \subseteq Feature,
         creator' \in CreatorState, creator'.stage = "POWERON",
         creator'.adc.res = creator.adc.res \union {r},
         creator'.adc.status = creator.adc.status, creator'.late = creator.late,
         FipHasPort(creator'.adc),
         creator'.phase = "fip" => /\ creator'.net \in Networks
                                   /\ Port(creator'.net) \in creator'.adc.res
  PROVE  InfraInv'
<1>1. TypeOK'
  BY Resources DEF InfraInv, TypeOK, others
<1>2. Owned' \subseteq Owned \union {r}
  BY DEF Owned
<1> QED
  BY <1>1, <1>2, CreatorTyped, CreatorStep DEF others

\* What the assignment of a new resource makes of the creator.
LEMMA Acquired ==
  ASSUME InfraInv, creator.stage = "POWERON", NEW r \in Resource,
         NEW phase \in CreatorPhase, NEW net \in Networks \union {NoNet},
         creator' = [creator EXCEPT !.adc.res = @ \union {r}, !.phase = phase, !.net = net]
  PROVE  /\ creator' \in CreatorState
         /\ creator'.stage = "POWERON" /\ creator'.phase = phase /\ creator'.net = net
         /\ creator'.adc.res = creator.adc.res \union {r}
         /\ creator'.adc.status = creator.adc.status
         /\ creator'.late = creator.late
<1> DEFINE adc == [creator.adc EXCEPT !.res = @ \union {r}]
<1>1. adc \in Adc /\ adc.res = creator.adc.res \union {r} /\ adc.status = creator.adc.status
  BY CreatorTyped DEF Adc
<1>2. creator' = [creator EXCEPT !.adc = adc, !.phase = phase, !.net = net]
  BY CreatorTyped DEF CreatorState
<1> HIDE DEF adc
<1> QED
  BY <1>1, <1>2, CreatorTyped DEF CreatorState

\* cNet creating a port keeps InfraInv.
LEMMA CreatePortInv ==
  ASSUME InfraInv, NEW n \in Networks, CreatePort(n) PROVE InfraInv'
<1>1. Port(n) \in Infra /\ Port(n) \in Resource
  BY Resources
<1>2. creator.stage = "POWERON" /\ UNCHANGED others
  BY DEF CreatePort, At
<1>3. CASE PowerFails("createPort", {Port(n)})
  BY <1>1, <1>2, <1>3, PowerFailsInv
<1>4. CASE /\ held' = held \union {Port(n)}
           /\ creator' = [creator EXCEPT !.adc.res = @ \union {Port(n)},
                                         !.phase = IF n \in Floating THEN "fip" ELSE "save",
                                         !.net = n]
           /\ UNCHANGED <<row, device, astray>>
  <2> DEFINE phase == IF n \in Floating THEN "fip" ELSE "save"
  <2>1. phase \in CreatorPhase
    BY DEF CreatorPhase
  <2> HIDE DEF phase
  <2>2. /\ creator' \in CreatorState
        /\ creator'.stage = "POWERON" /\ creator'.phase = phase /\ creator'.net = n
        /\ creator'.adc.res = creator.adc.res \union {Port(n)}
        /\ creator'.adc.status = creator.adc.status
        /\ creator'.late = creator.late
    BY <1>1, <1>2, <1>4, <2>1, Acquired DEF phase
  <2>3. FipHasPort(creator'.adc)
    BY <2>2, Resources, CreatorTyped DEF FipHasPort
  <2>4. device' \subseteq Feature
    BY <1>4 DEF InfraInv, TypeOK
  <2> QED
    BY <1>1, <1>2, <1>4, <2>2, <2>3, <2>4, AcquireStep
<1> QED
  BY <1>3, <1>4 DEF CreatePort

\* cNet creating and binding a floating IP keeps InfraInv.
LEMMA FloatingIpInv == ASSUME InfraInv, FloatingIp PROVE InfraInv'
<1> DEFINE n == creator.net
<1>1. creator.stage = "POWERON" /\ creator.phase = "fip" /\ UNCHANGED others
  BY DEF FloatingIp, At
<1>2. n \in Networks /\ Port(n) \in creator.adc.res
  BY <1>1 DEF InfraInv, CopiesPaired
<1>3. Fip(n) \in Infra /\ Fip(n) \in Resource
  BY <1>2, Resources
<1>4. CASE creator' = Move("POWERON", "save") /\ UNCHANGED <<row, outside>>
  BY <1>1, <1>4, OutsideUnchanged, MoveStep DEF LaterStage, Stage, CreatorPhase, others
<1>5. CASE PowerFails("floatingIp", {Fip(n)})
  BY <1>1, <1>3, <1>5, PowerFailsInv
<1>6. CASE /\ held' = held \union {Fip(n)}
           /\ creator' = [creator EXCEPT !.adc.res = @ \union {Fip(n)}, !.phase = "save"]
           /\ UNCHANGED <<row, device, astray>>
  <2>1. creator' = [creator EXCEPT !.adc.res = @ \union {Fip(n)}, !.phase = "save", !.net = n]
    BY <1>6, CreatorTyped DEF CreatorState
  <2>2. device' \subseteq Feature /\ n \in Networks \union {NoNet} /\ "save" \in CreatorPhase
    BY <1>2, <1>6 DEF InfraInv, TypeOK, CreatorPhase
  <2> HIDE DEF n
  <2>3. /\ creator' \in CreatorState
        /\ creator'.stage = "POWERON" /\ creator'.phase = "save"
        /\ creator'.adc.res = creator.adc.res \union {Fip(n)}
        /\ creator'.adc.status = creator.adc.status
        /\ creator'.late = creator.late
    BY <1>1, <1>3, <2>1, <2>2, Acquired
  <2>4. FipHasPort(creator'.adc)
    BY <1>2, <2>3, Resources, CreatorTyped DEF FipHasPort
  <2> QED
    BY <1>1, <1>3, <1>6, <2>2, <2>3, <2>4, AcquireStep
<1> QED
  BY <1>4, <1>5, <1>6 DEF FloatingIp

\* cNet recording a network keeps InfraInv.
LEMMA SaveNetworkInv == ASSUME InfraInv, SaveNetwork PROVE InfraInv'
BY CreatorTyped, OutsideUnchanged, SaveStep
   DEF SaveNetwork, At, LaterStage, Stage, CreatorPhase

\* cSvr keeps InfraInv.
LEMMA CreateServerInv == ASSUME InfraInv, CreateServer PROVE InfraInv'
<1>1. creator.stage = "POWERON" /\ UNCHANGED others
  BY DEF CreateServer, At
<1>2. Server \in Infra /\ Server \in Resource
  BY Resources
<1>3. CASE PowerFails("createServer", {Server})
  BY <1>1, <1>2, <1>3, PowerFailsInv
<1>4. CASE /\ held' = held \union {Server}
           /\ device' \in {{}, {"license"}}
           /\ creator' = [creator EXCEPT !.adc.res = @ \union {Server}, !.phase = "wait"]
           /\ UNCHANGED <<row, astray>>
  <2>1. creator' = [creator EXCEPT !.adc.res = @ \union {Server}, !.phase = "wait",
                                   !.net = creator.net]
    BY <1>4, CreatorTyped DEF CreatorState
  <2>2. /\ device' \subseteq Feature /\ "wait" \in CreatorPhase
        /\ creator.net \in Networks \union {NoNet}
    BY <1>4, CreatorTyped DEF Feature, CreatorPhase, CreatorState
  <2>3. /\ creator' \in CreatorState
        /\ creator'.stage = "POWERON" /\ creator'.phase = "wait"
        /\ creator'.adc.res = creator.adc.res \union {Server}
        /\ creator'.adc.status = creator.adc.status
        /\ creator'.late = creator.late
    BY <1>1, <1>2, <2>1, <2>2, Acquired
  <2>4. FipHasPort(creator'.adc)
    BY <2>3, Resources, CreatorTyped DEF FipHasPort
  <2> QED
    BY <1>1, <1>2, <1>4, <2>2, <2>3, <2>4, AcquireStep
<1> QED
  BY <1>3, <1>4 DEF CreateServer

\* createOn's wait for the boot keeps InfraInv.
LEMMA WaitPowerOnInv == ASSUME InfraInv, WaitPowerOn PROVE InfraInv'
<1>1. creator.stage # "POST" /\ UNCHANGED others
  BY DEF WaitPowerOn, At
<1>2. CASE SaveLater(With(creator.adc, "POWERON"), "DOINSTALLED")
           /\ device' = device \union {"boot"} /\ UNCHANGED <<held, astray>>
  BY <1>1, <1>2, AwaitGainsNothing, SaveLaterStep, StatusNames
     DEF Feature, LaterStage, Stage
<1>3. CASE Fail("POWERON", "END") /\ UNCHANGED outside
  BY <1>1, <1>3, OutsideUnchanged, FailInv DEF LaterStage, Stage
<1> QED
  BY <1>2, <1>3 DEF WaitPowerOn

\* createOn keeps InfraInv.
LEMMA CreateOnInv == ASSUME InfraInv, CreateOn PROVE InfraInv'
BY BeginInv, CreatePortInv, FloatingIpInv, SaveNetworkInv, CreateServerInv,
   WaitPowerOnInv DEF CreateOn, Stage

\* installDO keeps InfraInv.
LEMMA InstallDOInv == ASSUME InfraInv, InstallDO PROVE InfraInv'
<1>1. CASE Await("DOINSTALLED", "do",
                 SaveLater(With(creator.adc, "DOINSTALLED"), "LICENSED"),
                 Fail("DOINSTALLED", "LICENSED"))
  <2>1. NothingGained
    BY <1>1, AwaitGainsNothing DEF Await, Feature
  <2> QED
    BY <1>1, <2>1, SaveLaterStep, FailInv, StatusNames DEF Await, At, LaterStage, Stage
<1> QED
  BY <1>1, BeginInv, CallInv DEF InstallDO, LaterStage, Stage

\* licenseAdc keeps InfraInv: the license is no infrastructure.
LEMMA LicenseAdcInv == ASSUME InfraInv, LicenseAdc PROVE InfraInv'
<1>1. CASE LicenseCheck
  <2>1. creator.stage # "POST" /\ NothingGained /\ UNCHANGED others
    BY <1>1, OutsideUnchanged DEF LicenseCheck, At
  <2>2. CASE Save(With(creator.adc, "LICENSED"), "ONBOARDED", "gate")
    BY <2>1, <2>2, WithTyped, StatusNames, SaveStep DEF LaterStage, Stage, CreatorPhase
  <2>3. CASE creator' = Move("LICENSED", "work") /\ UNCHANGED row
    BY <2>1, <2>3, MoveStep DEF LaterStage, Stage, CreatorPhase, others
  <2> QED
    BY <1>1, <2>2, <2>3 DEF LicenseCheck
<1>2. CASE AssignLicense
  <2>1. creator.stage # "POST" /\ UNCHANGED others
    BY <1>2 DEF AssignLicense, At
  <2>2. held' \in {held, held \union {Licence}} /\ UNCHANGED <<device, astray>>
    BY <1>2 DEF AssignLicense
  <2>3. NothingGained
    BY <2>2, Resources DEF InfraInv, TypeOK, NothingGained, Owned
  <2>4. CASE creator' = Move("LICENSED", "wait") /\ UNCHANGED row
    BY <2>1, <2>3, <2>4, MoveStep DEF LaterStage, Stage, CreatorPhase, others
  <2>5. CASE Fail("LICENSED", "ONBOARDED")
    BY <2>1, <2>3, <2>5, FailInv DEF LaterStage, Stage
  <2> QED
    BY <1>2, <2>4, <2>5 DEF AssignLicense
<1>3. CASE Await("LICENSED", "license",
                 Save(With(creator.adc, "LICENSED"), "ONBOARDED", "gate"),
                 Fail("LICENSED", "ONBOARDED"))
  <2>1. creator.stage # "POST" /\ NothingGained /\ UNCHANGED others
    BY <1>3, AwaitGainsNothing DEF Await, At, Feature
  <2>2. CASE Save(With(creator.adc, "LICENSED"), "ONBOARDED", "gate")
    BY <2>1, <2>2, WithTyped, StatusNames, SaveStep DEF LaterStage, Stage, CreatorPhase
  <2>3. CASE Fail("LICENSED", "ONBOARDED")
    BY <2>1, <2>3, FailInv DEF LaterStage, Stage
  <2> QED
    BY <1>3, <2>2, <2>3 DEF Await
<1> QED
  BY <1>1, <1>2, <1>3 DEF LicenseAdc

\* onboard keeps InfraInv.
LEMMA OnboardInv == ASSUME InfraInv, Onboard PROVE InfraInv'
<1>1. CASE Await("ONBOARDED", "onboard",
                 SaveLater(With(creator.adc, "ONBOARDED"), "SETUP"),
                 SaveLater(With(creator.adc, "ONBOARDERROR"), "SETUP"))
  <2>1. NothingGained
    BY <1>1, AwaitGainsNothing DEF Await, Feature
  <2>2. "ONBOARDERROR" \in Status
    BY DEF Status, Failure, CreateFailure
  <2> QED
    BY <1>1, <2>1, <2>2, SaveLaterStep, StatusNames DEF Await, At, LaterStage, Stage
<1> QED
  BY <1>1, BeginInv, CallInv DEF Onboard, LaterStage, Stage

\* trustAdc keeps InfraInv: the trusted device is no infrastructure.
LEMMA TrustAdcInv == ASSUME InfraInv, TrustAdc PROVE InfraInv'
<1>1. CASE TrustCall
  <2>1. creator.stage # "POST" /\ UNCHANGED others
    BY <1>1 DEF TrustCall, At
  <2>2. CASE /\ held' = held \union {Trust}
             /\ creator' = Move("TRUSTED", "wait")
             /\ UNCHANGED <<row, device, astray>>
    <3>1. NothingGained
      BY <2>2, Resources DEF InfraInv, TypeOK, NothingGained, Owned
    <3> QED
      BY <2>1, <2>2, <3>1, MoveStep DEF LaterStage, Stage, CreatorPhase, others
  <2>3. CASE \E lost \in SUBSET {Trust} : /\ CallFails("TRUSTED", {Trust}, lost)
                                         /\ astray' = astray \union lost
                                         /\ Fail("TRUSTED", "INSTALLED")
    <3>1. NothingGained
      BY <2>3, Resources DEF CallFails, InfraInv, TypeOK, NothingGained, Owned
    <3> QED
      BY <2>1, <2>3, <3>1, FailInv DEF LaterStage, Stage
  <2> QED
    BY <1>1, <2>2, <2>3 DEF TrustCall
<1>2. CASE TrustWait
  <2>1. creator.stage # "POST" /\ UNCHANGED others
    BY <1>2 DEF TrustWait, At
  <2>2. NothingGained
    BY <1>2, Resources DEF TrustWait, InfraInv, TypeOK, NothingGained, Owned
  <2>3. CASE Save([status |-> "TRUSTED", res |-> creator.adc.res \union {Trust}],
                  "INSTALLED", "gate")
    <3> DEFINE adc == [status |-> "TRUSTED", res |-> creator.adc.res \union {Trust}]
    <3>1. /\ adc \in Adc /\ creator.adc.res \subseteq adc.res
          /\ adc.res = creator.adc.res \union {Trust}
      BY CreatorTyped, Resources, StatusNames DEF Adc, Stage
    <3>2. FipHasPort(adc)
      BY <3>1, CreatorTyped, Resources DEF FipHasPort
    <3> HIDE DEF adc
    <3> QED
      BY <2>1, <2>2, <2>3, <3>1, <3>2, SaveStep DEF adc, LaterStage, Stage, CreatorPhase
  <2>4. CASE Fail("TRUSTED", "INSTALLED")
    BY <2>1, <2>2, <2>4, FailInv DEF LaterStage, Stage
  <2> QED
    BY <1>2, <2>3, <2>4 DEF TrustWait
<1> QED
  BY <1>1, <1>2, BeginInv DEF TrustAdc, Stage

\* installAS3 keeps InfraInv.
LEMMA InstallAS3Inv == ASSUME InfraInv, InstallAS3 PROVE InfraInv'
<1>1. CASE Await("INSTALLED", "as3",
                 Save(With(creator.adc, "INSTALLED"), "PARTITIONED", "gate"),
                 Fail("INSTALLED", "PARTITIONED"))
  <2>1. creator.stage # "POST" /\ NothingGained /\ UNCHANGED others
    BY <1>1, AwaitGainsNothing DEF Await, At, Feature
  <2>2. CASE Save(With(creator.adc, "INSTALLED"), "PARTITIONED", "gate")
    BY <2>1, <2>2, WithTyped, StatusNames, SaveStep DEF LaterStage, Stage, CreatorPhase
  <2>3. CASE Fail("INSTALLED", "PARTITIONED")
    BY <2>1, <2>3, FailInv DEF LaterStage, Stage
  <2> QED
    BY <1>1, <2>2, <2>3 DEF Await
<1> QED
  BY <1>1, BeginInv, CallInv DEF InstallAS3, LaterStage, Stage

\* installPartition keeps InfraInv.
LEMMA InstallPartitionInv == ASSUME InfraInv, InstallPartition PROVE InfraInv'
<1>1. CASE Await("PARTITIONED", "partition",
                 SaveLater(With(creator.adc, "ACTIVE"), "END"),
                 SaveLater(With(creator.adc, "PARTITIONERROR"), "END"))
  <2>1. NothingGained
    BY <1>1, AwaitGainsNothing DEF Await, Feature
  <2>2. "PARTITIONERROR" \in Status
    BY DEF Status, Failure, CreateFailure
  <2> QED
    BY <1>1, <2>1, <2>2, SaveLaterStep, StatusNames DEF Await, At, LaterStage, Stage
<1> QED
  BY <1>1, BeginInv, CallInv DEF InstallPartition, LaterStage, Stage

\* A write nobody awaited keeps InfraInv whenever it reaches the database.
LEMMA LateWriteInv == ASSUME InfraInv, LateWrite PROVE InfraInv'
<1>1. /\ creator' \in CreatorState
      /\ creator'.stage = creator.stage /\ creator'.phase = creator.phase
      /\ creator'.net = creator.net /\ creator'.adc = creator.adc
      /\ creator'.late = FALSE
  BY CreatorTyped DEF LateWrite, CreatorState
<1>2. NothingGained
  BY OutsideUnchanged DEF LateWrite
<1>3. TypeOK'
  BY <1>1, <1>2, CreatorTyped DEF LateWrite, Write, InfraInv, TypeOK, NothingGained, others
<1>4. creator.stage # "POST"
  BY DEF LateWrite, InfraInv, CreationExclusive
<1>5. /\ Port(creator.net) \in creator.adc.res
      /\ creator.net \in Networks
      \/ creator.phase # "fip"
  BY DEF InfraInv, CopiesPaired
<1> QED
  BY <1>1, <1>2, <1>3, <1>4, <1>5, CreatorTyped, CreatorStep
     DEF LateWrite, Write, NothingGained, others

\* Every step of the job POST starts keeps InfraInv.
LEMMA CreationInv == ASSUME InfraInv, Creation PROVE InfraInv'
BY GateInv, CreateOnInv, InstallDOInv, LicenseAdcInv, OnboardInv, TrustAdcInv,
   InstallAS3Inv, InstallPartitionInv, LateWriteInv DEF Creation

-------------------------------------------------------------------------------
(* Reclaiming. *)

\* What InfraInv says of the copy of a DELETE, in the form the steps use.
LEMMA ReclaimTyped ==
  ASSUME InfraInv, NEW d \in Deletes
  PROVE  /\ reclaim[d] \in ReclaimState
         /\ reclaim[d].adc \in Adc /\ reclaim[d].adc.res \subseteq Resource
         /\ reclaim[d].adc.status \in Status
         /\ FipHasPort(reclaim[d].adc)
         /\ reclaim[d].phase \in Accepted =>
              /\ Owned \subseteq reclaim[d].adc.res
              /\ creator.stage \notin {"POST", "POWERON"}
         /\ Progress(reclaim[d])
BY DEF InfraInv, TypeOK, ReclaimState, Adc, CopiesPaired, WritersKnow,
       CreationExclusive, ReclaimProgress

\* A step of one DELETE: it may write a copy over the row that names what is
\* owned, or remove the row when nothing is.
LEMMA ReclaimStep ==
  ASSUME InfraInv, NEW d \in Deletes, NEW r \in ReclaimState,
         reclaim' = [reclaim EXCEPT ![d] = r],
         UNCHANGED <<creator, patch>>, mishap' \subseteq {"overlap", "stalePatch"},
         NothingGained,
         \/ row' = row
         \/ row' = NoRow /\ Owned' = {}
         \/ row # NoRow /\ row' \in Adc /\ FipHasPort(row') /\ Owned' \subseteq row'.res,
         \/ creator.stage \notin {"POST", "POWERON"}
         \/ /\ row' = row /\ r.phase \notin Accepted
            /\ r.phase = "check" => r.adc.status \in Early,
         FipHasPort(r.adc),
         r.phase = "check" /\ r.adc.status \notin Early => Owned' \subseteq r.adc.res,
         r.phase \in Accepted => Owned' \subseteq r.adc.res,
         Progress(r)'
  PROVE  InfraInv'
<1>0. NoRow \notin Adc
  BY DEF NoRow, Adc, Status, TableState, Stage, Failure, CreateFailure, InProgress
<1>1. /\ reclaim'[d] = r
      /\ \A e \in Deletes \ {d} : reclaim'[e] = reclaim[e]
      /\ Owned' \subseteq Owned
  BY DEF InfraInv, TypeOK, NothingGained
<1>2. TypeOK'
  BY DEF InfraInv, TypeOK, NothingGained
<1>3. CreatorKnows'
  BY <1>1 DEF InfraInv, CreatorKnows
<1>4. WritersKnow'
  <2>1. (row # NoRow => Knows(row))'
    BY <1>1 DEF InfraInv, WritersKnow, Knows
  <2>2. \A p \in Patches : patch'[p].phase = "write" => Knows(patch[p].adc)'
    BY <1>1 DEF InfraInv, WritersKnow, Knows
  <2>3. \A e \in Deletes :
          /\ reclaim'[e].phase = "check" => Knows(reclaim[e].adc)'
          /\ reclaim'[e].phase \in Accepted => Owned' \subseteq reclaim'[e].adc.res
    BY <1>1 DEF InfraInv, WritersKnow, Knows
  <2> QED BY <2>1, <2>2, <2>3 DEF WritersKnow
<1>5. CreationExclusive'
  BY <1>1 DEF InfraInv, CreationExclusive
<1>6. CopiesPaired'
  BY <1>1 DEF InfraInv, CopiesPaired, FipHasPort, NoRow
<1>7. ReclaimProgress'
  BY <1>1 DEF InfraInv, ReclaimProgress, Progress
<1>8. NoInfraLeft'
  BY <1>0, <1>1 DEF InfraInv, NoInfraLeft, Gone, Owned
<1> QED
  BY <1>2, <1>3, <1>4, <1>5, <1>6, <1>7, <1>8 DEF InfraInv

\* deleteById reading the row keeps InfraInv.
LEMMA DeleteLoadInv == ASSUME InfraInv, NEW d \in Deletes, DeleteLoad(d) PROVE InfraInv'
<1>1. NothingGained /\ Owned' = Owned
  BY OutsideUnchanged DEF DeleteLoad, outside, Owned
<1>2. mishap' \subseteq {"overlap", "stalePatch"}
  BY DEF DeleteLoad, InfraInv, TypeOK
<1>3. CASE row = NoRow
  <2>0. PICK r \in ReclaimState : r = [reclaim[d] EXCEPT !.phase = "rejected"]
    BY ReclaimTyped DEF ReclaimState, Over
  <2>1. r.adc = reclaim[d].adc /\ r.phase = "rejected"
    BY <2>0, ReclaimTyped DEF ReclaimState
  <2>2. reclaim' = [reclaim EXCEPT ![d] = r]
    BY <1>3, <2>0 DEF DeleteLoad
  <2>3. Progress(r)'
    BY <2>1 DEF Progress
  <2> QED
    BY <1>1, <1>2, <2>1, <2>2, <2>3, ReclaimTyped, ReclaimStep
       DEF DeleteLoad, rest, Accepted, Live
<1>4. CASE row # NoRow
  <2>0. PICK r \in ReclaimState : r = [reclaim[d] EXCEPT !.phase = "check", !.adc = row]
    BY <1>4, ReclaimTyped DEF ReclaimState, Live, InfraInv, TypeOK
  <2>1. r.adc = row /\ r.phase = "check"
    BY <2>0, ReclaimTyped DEF ReclaimState
  <2>2. reclaim' = [reclaim EXCEPT ![d] = r]
    BY <1>4, <2>0 DEF DeleteLoad
  <2>3. Progress(r)'
    BY <2>1 DEF Progress
  <2>4. /\ FipHasPort(row)
        /\ row.status \notin Early => Owned \subseteq row.res
        /\ creator.stage \in {"POST", "POWERON"} => row.status \in Early
    BY <1>4 DEF InfraInv, CopiesPaired, WritersKnow, Knows, CreationExclusive
  <2> QED
    BY <1>1, <1>2, <2>1, <2>2, <2>3, <2>4, ReclaimStep DEF DeleteLoad, rest, Accepted, Live
<1> QED BY <1>3, <1>4

\* readyTo(RECLAIMED) says no to NEW and to every in-progress status.
LEMMA EarlyNotReady ==
  ASSUME NEW status \in Early, NEW passed \in BOOLEAN
  PROVE  ~ReadyTo(status, "RECLAIMED", passed)
BY DEF Early, ReadyTo, StateEntry, TableState, Stage, NextOf, Failure, CreateFailure, NoEntry

\* readyTo(RECLAIMED) accepts no DELETE while createOn acquires.
LEMMA DeleteCheckInv == ASSUME InfraInv, NEW d \in Deletes, DeleteCheck(d) PROVE InfraInv'
<1>1. NothingGained /\ Owned' = Owned
  BY OutsideUnchanged DEF DeleteCheck, outside, Owned
<1>2. mishap' \subseteq {"overlap", "stalePatch"}
  BY DEF DeleteCheck, InfraInv, TypeOK
<1>3. PICK ready \in ReadyAnswers(reclaim[d].adc, "RECLAIMED") :
        To(d, IF ready THEN "enter" ELSE "rejected")
  BY DEF DeleteCheck
<1>4. PICK passed \in BOOLEAN : ready = ReadyTo(reclaim[d].adc.status, "RECLAIMED", passed)
  <2>1. \A entry : Passes(entry, reclaim[d].adc) \in BOOLEAN
    BY DEF Passes, Reachable, Managed
  <2>2. Answers(StateEntry(reclaim[d].adc.status), reclaim[d].adc) \subseteq BOOLEAN
    BY <2>1 DEF Answers
  <2> QED BY <2>2 DEF ReadyAnswers
<1>5. ready => reclaim[d].adc.status \notin Early
  BY <1>4, EarlyNotReady
<1>6. reclaim[d].phase = "check"
  BY DEF DeleteCheck
<1>7. ready => /\ creator.stage \notin {"POST", "POWERON"}
               /\ Owned \subseteq reclaim[d].adc.res
  BY <1>5, <1>6 DEF InfraInv, CreationExclusive, WritersKnow, Knows
<1> DEFINE phase == IF ready THEN "enter" ELSE "rejected"
<1>0. PICK r \in ReclaimState : r = [reclaim[d] EXCEPT !.phase = phase]
  BY ReclaimTyped DEF ReclaimState, Live, Over
<1>8. r.adc = reclaim[d].adc /\ r.phase = phase
  BY <1>0, ReclaimTyped DEF ReclaimState
<1>9. reclaim' = [reclaim EXCEPT ![d] = r]
  BY <1>0, <1>3 DEF To, InfraInv, TypeOK
<1>10. Progress(r)'
  BY <1>8 DEF Progress
<1> QED
  BY <1>1, <1>2, <1>7, <1>8, <1>9, <1>10, ReclaimTyped, ReclaimStep
     DEF DeleteCheck, rest, Accepted, Live

\* A deleteOn goes on, or ends, without writing.
LEMMA ToStep ==
  ASSUME InfraInv, NEW d \in Deletes, reclaim[d].phase \in Accepted,
         NEW phase \in (Live \union Over) \ {"check", "network", "fip", "remove"},
         To(d, phase), NothingGained, UNCHANGED <<rest, mishap>>,
         row' = row \/ (row' = NoRow /\ Owned' = {})
  PROVE  InfraInv'
<1>1. PICK r \in ReclaimState : r = [reclaim[d] EXCEPT !.phase = phase]
  BY ReclaimTyped DEF ReclaimState
<1>2. r.adc = reclaim[d].adc /\ r.phase = phase
  BY <1>1, ReclaimTyped DEF ReclaimState
<1>3. reclaim' = [reclaim EXCEPT ![d] = r]
  BY <1>1 DEF To, InfraInv, TypeOK
<1>4. Progress(r)'
  BY <1>2 DEF Progress
<1>5. mishap' \subseteq {"overlap", "stalePatch"}
  BY DEF InfraInv, TypeOK
<1> QED
  BY <1>2, <1>3, <1>4, <1>5, ReclaimTyped, ReclaimStep DEF rest, NothingGained

\* An awaited serialize of deleteOn keeps InfraInv.
LEMMA SaveReclaimStep ==
  ASSUME InfraInv, NEW d \in Deletes, reclaim[d].phase \in Accepted,
         NEW adc \in Adc, NEW phase \in {"trust", "license", "remove"},
         SaveReclaim(d, adc, phase, {}), NothingGained, UNCHANGED <<rest, mishap>>,
         adc.res = reclaim[d].adc.res,
         phase = "remove" => Owned' = {}
  PROVE  InfraInv'
<1>1. FipHasPort(adc) /\ Owned' \subseteq adc.res
  BY ReclaimTyped DEF FipHasPort, NothingGained
<1>2. mishap' \subseteq {"overlap", "stalePatch"}
  BY DEF InfraInv, TypeOK
<1>3. CASE row = NoRow
  <2>1. reclaim' = [reclaim EXCEPT ![d] = [reclaim[d] EXCEPT !.phase = "fail"]]
    BY <1>3 DEF SaveReclaim
  <2>2. row' = row
    BY <1>3 DEF SaveReclaim, Write
  <2>3. To(d, "fail")
    BY <2>1 DEF To
  <2> QED
    BY <2>2, <2>3, ToStep DEF Live
<1>4. CASE row # NoRow
  <2>1. PICK r \in ReclaimState :
          r = [reclaim[d] EXCEPT !.phase = phase, !.adc = adc, !.todo = {}]
    BY ReclaimTyped DEF ReclaimState, Live
  <2>2. r.adc = adc /\ r.phase = phase
    BY <2>1, ReclaimTyped DEF ReclaimState
  <2>3. reclaim' = [reclaim EXCEPT ![d] = r] /\ row' = adc
    BY <1>4, <2>1 DEF SaveReclaim, Write
  <2>4. Progress(r)'
    BY <2>2, Resources DEF Progress
  <2> QED
    BY <1>1, <1>2, <1>4, <2>2, <2>3, <2>4, ReclaimTyped, ReclaimStep DEF rest
<1> QED BY <1>3, <1>4

\* A new status leaves the copy of a DELETE typed and paired.
LEMMA WithReclaim ==
  ASSUME InfraInv, NEW d \in Deletes, NEW status \in Status
  PROVE  /\ With(reclaim[d].adc, status) \in Adc
         /\ With(reclaim[d].adc, status).res = reclaim[d].adc.res
         /\ FipHasPort(With(reclaim[d].adc, status))
BY ReclaimTyped DEF With, Adc, FipHasPort

\* Writing RECLAIMING keeps InfraInv.
LEMMA ReclaimBeginInv == ASSUME InfraInv, NEW d \in Deletes, ReclaimBegin(d) PROVE InfraInv'
<1>1. NothingGained
  BY OutsideUnchanged DEF ReclaimBegin
<1> QED
  BY <1>1, StatusNames, WithReclaim, SaveReclaimStep DEF ReclaimBegin, Accepted, Live

\* untrustAdc keeps InfraInv.
LEMMA UntrustInv == ASSUME InfraInv, NEW d \in Deletes, Untrust(d) PROVE InfraInv'
<1>1. reclaim[d].phase \in Accepted /\ UNCHANGED <<rest, mishap>>
  BY DEF Untrust, Accepted, Live
<1>2. NothingGained
  <2>1. held' \subseteq held /\ astray \subseteq astray' /\ astray' \subseteq astray \union held
        /\ UNCHANGED device
    BY DEF Untrust
  <2> QED
    BY <2>1 DEF InfraInv, TypeOK, NothingGained, Owned
<1>3. CASE To(d, "license") /\ UNCHANGED row
  BY <1>1, <1>2, <1>3, ToStep DEF Live
<1>4. CASE SaveReclaim(d, With(reclaim[d].adc, "TRUSTERROR"), "license", {})
  <2>1. "TRUSTERROR" \in Status
    BY DEF Status, Failure, CreateFailure
  <2> QED
    BY <1>1, <1>2, <1>4, <2>1, WithReclaim, SaveReclaimStep
<1> QED
  BY <1>3, <1>4 DEF Untrust

\* unLicense keeps InfraInv.
LEMMA RevokeInv == ASSUME InfraInv, NEW d \in Deletes, Revoke(d) PROVE InfraInv'
<1>1. NothingGained
  <2>1. held' \subseteq held /\ UNCHANGED <<device, astray>>
    BY DEF Revoke
  <2> QED
    BY <2>1 DEF InfraInv, TypeOK, NothingGained, Owned
<1>0. reclaim[d].phase \in Accepted /\ UNCHANGED <<row, rest, mishap>>
  BY DEF Revoke, Accepted, Live
<1>2. CASE To(d, "fail")
  BY <1>0, <1>1, <1>2, ToStep DEF Live
<1>3. CASE To(d, "vm")
  BY <1>0, <1>1, <1>3, ToStep DEF Live
<1> QED
  BY <1>2, <1>3 DEF Revoke

\* deleteById of the repository keeps InfraInv: nothing is owned by then.
LEMMA RemoveRowInv == ASSUME InfraInv, NEW d \in Deletes, RemoveRow(d) PROVE InfraInv'
<1>1. NothingGained
  BY OutsideUnchanged DEF RemoveRow
<1>2. Owned' = {}
  <2>1. Owned = {}
    BY ReclaimTyped DEF RemoveRow, Progress
  <2> QED BY <1>1, <2>1 DEF NothingGained
<1>3. reclaim[d].phase \in Accepted /\ row' = NoRow /\ UNCHANGED <<rest, mishap>>
  BY DEF RemoveRow, Accepted, Live
<1>4. To(d, "removed")
  BY DEF RemoveRow
<1> QED
  BY <1>1, <1>2, <1>3, <1>4, ToStep DEF Live, Over

\* Writing RECLAIMED keeps InfraInv: every network has been tried.
LEMMA ReclaimEndInv == ASSUME InfraInv, NEW d \in Deletes, ReclaimEnd(d) PROVE InfraInv'
<1>1. NothingGained
  BY OutsideUnchanged DEF ReclaimEnd
<1>2. Owned' = {}
  <2>1. Owned = {}
    BY ReclaimTyped DEF ReclaimEnd, Progress, Owned, Infra
  <2> QED BY <1>1, <2>1 DEF NothingGained
<1> QED
  BY <1>1, <1>2, StatusNames, WithReclaim, SaveReclaimStep DEF ReclaimEnd, Accepted, Live

\* Writing RECLAIMERROR keeps InfraInv.
LEMMA ReclaimFailInv == ASSUME InfraInv, NEW d \in Deletes, ReclaimFail(d) PROVE InfraInv'
<1>1. NothingGained
  BY OutsideUnchanged DEF ReclaimFail
<1>2. reclaim[d].phase \in Accepted /\ UNCHANGED <<rest, mishap>>
  BY DEF ReclaimFail, Accepted, Live
<1>3. PICK r \in ReclaimState : r = [reclaim[d] EXCEPT !.phase = "failed"]
  BY ReclaimTyped DEF ReclaimState, Over
<1>4. r.adc = reclaim[d].adc /\ r.phase = "failed"
  BY <1>3, ReclaimTyped DEF ReclaimState
<1>5. reclaim' = [reclaim EXCEPT ![d] = r]
  BY <1>3 DEF ReclaimFail, To
<1>6. Progress(r)'
  BY <1>4 DEF Progress
<1>7. PICK adc \in Adc : /\ adc = With(reclaim[d].adc, "RECLAIMERROR")
                         /\ FipHasPort(adc) /\ adc.res = reclaim[d].adc.res
  BY WithReclaim, StatusNames
<1>10. /\ row' = row \/ (row # NoRow /\ row' = adc)
       /\ Owned' \subseteq adc.res
       /\ FipHasPort(reclaim[d].adc) /\ creator.stage \notin {"POST", "POWERON"}
  BY <1>1, <1>2, <1>7, ReclaimTyped DEF ReclaimFail, Write, NothingGained
<1>8. mishap' \subseteq {"overlap", "stalePatch"}
  BY <1>2 DEF InfraInv, TypeOK
<1>9. r.phase \notin Accepted /\ r.phase # "check"
  BY <1>4 DEF Accepted, Live
<1> QED
  BY <1>1, <1>2, <1>4, <1>5, <1>6, <1>8, <1>9, <1>10, <1>7, ReclaimStep DEF rest

\* The vm step of deleteOn keeps InfraInv.
LEMMA DeleteServerInv == ASSUME InfraInv, NEW d \in Deletes, DeleteServer(d) PROVE InfraInv'
<1>1. reclaim[d].phase \in Accepted /\ UNCHANGED <<row, rest, astray, mishap>>
  BY DEF DeleteServer, Accepted, Live
<1>2. held' \subseteq held /\ device' \subseteq Feature
  BY DEF DeleteServer, InfraInv, TypeOK
<1>3. NothingGained
  BY <1>1, <1>2 DEF InfraInv, TypeOK, NothingGained, Owned
<1>4. CASE To(d, "fail")
  BY <1>1, <1>3, <1>4, ToStep DEF Live
<1>5. CASE /\ held' = held \ {Server}
           /\ reclaim' = [reclaim EXCEPT ![d].phase = "network",
                                         ![d].adc.res = @ \ {Server},
                                         ![d].todo = PortsOf(reclaim[d].adc)]
  <2>1. PICK adc \in Adc : adc = [reclaim[d].adc EXCEPT !.res = @ \ {Server}]
    BY ReclaimTyped DEF Adc
  <2>2. adc.res = reclaim[d].adc.res \ {Server}
    BY <2>1, ReclaimTyped DEF Adc
  <2>3. PICK r \in ReclaimState :
          r = [reclaim[d] EXCEPT !.phase = "network", !.adc = adc,
                                 !.todo = PortsOf(reclaim[d].adc)]
    BY ReclaimTyped DEF ReclaimState, Live, PortsOf
  <2>4. r.adc = adc /\ r.phase = "network" /\ r.todo = PortsOf(reclaim[d].adc)
    BY <2>3, ReclaimTyped DEF ReclaimState
  <2>5. reclaim' = [reclaim EXCEPT ![d] = r]
    BY <1>5, <2>1, <2>3, ReclaimTyped DEF ReclaimState, InfraInv, TypeOK
  <2>6. Server \notin Owned' /\ Owned' \subseteq Owned
    BY <1>3, <1>5 DEF Owned, NothingGained
  <2>7. Owned \subseteq reclaim[d].adc.res /\ FipHasPort(reclaim[d].adc)
    BY <1>1, ReclaimTyped
  <2>8. Progress(r)'
    BY <2>4, <2>6, <2>7 DEF Progress, PortsOf, FipHasPort
  <2>9. FipHasPort(adc) /\ Owned' \subseteq adc.res
    BY <2>2, <2>6, <2>7, Resources DEF FipHasPort
  <2>10. mishap' \subseteq {"overlap", "stalePatch"}
    BY <1>1 DEF InfraInv, TypeOK
  <2> QED
    BY <1>1, <1>3, <2>4, <2>5, <2>8, <2>9, <2>10, ReclaimTyped, ReclaimStep DEF rest
<1> QED
  BY <1>4, <1>5 DEF DeleteServer

\* The network loop: the network it has turned to leaves `todo', and what the
\* copy forgets is not owned any more.
LEMMA NetworkStep ==
  ASSUME InfraInv, NEW d \in Deletes, reclaim[d].phase \in Accepted,
         UNCHANGED <<row, rest, mishap>>, NothingGained,
         NEW r \in ReclaimState, reclaim' = [reclaim EXCEPT ![d] = r],
         FipHasPort(r.adc), Owned' \subseteq r.adc.res, Progress(r)'
  PROVE  InfraInv'
<1>1. mishap' \subseteq {"overlap", "stalePatch"}
  BY DEF InfraInv, TypeOK
<1> QED
  BY <1>1, ReclaimTyped, ReclaimStep DEF rest

\* The network step of deleteOn, one port, keeps InfraInv.
LEMMA DeletePortInv ==
  ASSUME InfraInv, NEW d \in Deletes, NEW n \in Networks, DeletePort(d, n)
  PROVE  InfraInv'
<1>1. /\ reclaim[d].phase \in Accepted /\ UNCHANGED <<row, rest, mishap>>
      /\ reclaim[d].phase = "network" /\ UNCHANGED device
  BY DEF DeletePort, Accepted, Live
<1>2. /\ held' \subseteq held /\ astray \subseteq astray'
      /\ astray' \subseteq astray \union held
  BY DEF DeletePort
<1>3. NothingGained /\ Owned' \subseteq Owned
  BY <1>1, <1>2 DEF InfraInv, TypeOK, NothingGained, Owned
<1>4. /\ Owned \subseteq reclaim[d].adc.res /\ FipHasPort(reclaim[d].adc)
      /\ Server \notin Owned
      /\ \A m \in Networks : (Port(m) \in Owned \/ Fip(m) \in Owned) => m \in reclaim[d].todo
  BY <1>1, ReclaimTyped DEF Progress
<1>5. CASE held' = held \ {Port(n)} /\ UNCHANGED astray /\ Fip(n) \in reclaim[d].adc.res
           /\ reclaim' = [reclaim EXCEPT ![d].phase = "fip", ![d].net = n,
                                         ![d].todo = @ \ {n}]
  <2>1. PICK r \in ReclaimState :
          r = [reclaim[d] EXCEPT !.phase = "fip", !.net = n, !.todo = @ \ {n}]
    BY ReclaimTyped DEF ReclaimState, Live
  <2>2. /\ r.adc = reclaim[d].adc /\ r.phase = "fip" /\ r.net = n
        /\ r.todo = reclaim[d].todo \ {n}
    BY <2>1, ReclaimTyped DEF ReclaimState
  <2>3. Port(n) \notin Owned'
    BY <1>5 DEF Owned
  <2>4. Progress(r)'
    BY <1>3, <1>4, <2>2, <2>3 DEF Progress
  <2>5. reclaim' = [reclaim EXCEPT ![d] = r]
    BY <1>5, <2>1, ReclaimTyped DEF InfraInv, TypeOK
  <2> QED
    BY <1>1, <1>3, <1>4, <2>2, <2>4, <2>5, NetworkStep
<1>6. CASE held' = held \ {Port(n)} /\ UNCHANGED astray /\ Fip(n) \notin reclaim[d].adc.res
           /\ reclaim' = [reclaim EXCEPT ![d].adc.res = @ \ {Port(n)},
                                         ![d].todo = @ \ {n}]
  <2>1. PICK adc \in Adc : adc = [reclaim[d].adc EXCEPT !.res = @ \ {Port(n)}]
    BY ReclaimTyped DEF Adc
  <2>2. adc.res = reclaim[d].adc.res \ {Port(n)}
    BY <2>1, ReclaimTyped DEF Adc
  <2>3. PICK r \in ReclaimState : r = [reclaim[d] EXCEPT !.adc = adc, !.todo = @ \ {n}]
    BY ReclaimTyped DEF ReclaimState
  <2>4. r.adc = adc /\ r.phase = "network" /\ r.todo = reclaim[d].todo \ {n}
    BY <1>1, <2>3, ReclaimTyped DEF ReclaimState
  <2>5. Port(n) \notin Owned' /\ Fip(n) \notin Owned'
    BY <1>3, <1>4, <1>6 DEF Owned
  <2>6. Progress(r)'
    BY <1>3, <1>4, <2>4, <2>5 DEF Progress
  <2>7. reclaim' = [reclaim EXCEPT ![d] = r]
    BY <1>6, <2>1, <2>3, ReclaimTyped DEF ReclaimState, InfraInv, TypeOK
  <2>8. FipHasPort(adc) /\ Owned' \subseteq adc.res
    BY <1>3, <1>4, <1>6, <2>2, <2>5, Resources DEF FipHasPort
  <2> QED
    BY <1>1, <1>3, <2>4, <2>6, <2>7, <2>8, NetworkStep
<1>7. CASE astray' = astray \union (held \intersect {Port(n), Fip(n)}) /\ UNCHANGED held
           /\ reclaim' = [reclaim EXCEPT ![d].todo = @ \ {n}]
  <2>1. PICK r \in ReclaimState : r = [reclaim[d] EXCEPT !.todo = @ \ {n}]
    BY ReclaimTyped DEF ReclaimState
  <2>2. r.adc = reclaim[d].adc /\ r.phase = "network" /\ r.todo = reclaim[d].todo \ {n}
    BY <1>1, <2>1, ReclaimTyped DEF ReclaimState
  <2>3. Port(n) \notin Owned' /\ Fip(n) \notin Owned'
    BY <1>7 DEF Owned
  <2>4. Progress(r)'
    BY <1>3, <1>4, <2>2, <2>3 DEF Progress
  <2>5. reclaim' = [reclaim EXCEPT ![d] = r]
    BY <1>7, <2>1
  <2> QED
    BY <1>1, <1>3, <1>4, <2>2, <2>4, <2>5, NetworkStep
<1> QED
  BY <1>5, <1>6, <1>7 DEF DeletePort

\* The network step of deleteOn, one floating IP, keeps InfraInv.
LEMMA DeleteFloatingIpInv ==
  ASSUME InfraInv, NEW d \in Deletes, DeleteFloatingIp(d) PROVE InfraInv'
<1>1. /\ reclaim[d].phase \in Accepted /\ UNCHANGED <<row, rest, mishap>>
      /\ reclaim[d].phase = "fip" /\ UNCHANGED device
  BY DEF DeleteFloatingIp, Accepted, Live
<1>2. /\ held' \subseteq held /\ astray \subseteq astray'
      /\ astray' \subseteq astray \union held
  BY DEF DeleteFloatingIp
<1>3. NothingGained /\ Owned' \subseteq Owned
  BY <1>1, <1>2 DEF InfraInv, TypeOK, NothingGained, Owned
<1>4. PICK n \in Networks : n = reclaim[d].net
  BY <1>1, ReclaimTyped DEF Progress
<1>5. /\ Owned \subseteq reclaim[d].adc.res /\ FipHasPort(reclaim[d].adc)
      /\ Server \notin Owned /\ Port(n) \notin Owned
      /\ \A m \in Networks :
           (Port(m) \in Owned \/ Fip(m) \in Owned) => m \in reclaim[d].todo \union {n}
  BY <1>1, <1>4, ReclaimTyped DEF Progress
<1>6. CASE held' = held \ {Fip(n)} /\ UNCHANGED astray
           /\ reclaim' = [reclaim EXCEPT ![d].phase = "network", ![d].net = NoNet,
                                         ![d].adc.res = @ \ {Port(n), Fip(n)}]
  <2>1. PICK adc \in Adc : adc = [reclaim[d].adc EXCEPT !.res = @ \ {Port(n), Fip(n)}]
    BY ReclaimTyped DEF Adc
  <2>2. adc.res = reclaim[d].adc.res \ {Port(n), Fip(n)}
    BY <2>1, ReclaimTyped DEF Adc
  <2>3. PICK r \in ReclaimState :
          r = [reclaim[d] EXCEPT !.phase = "network", !.net = NoNet, !.adc = adc]
    BY ReclaimTyped DEF ReclaimState, Live
  <2>4. r.adc = adc /\ r.phase = "network" /\ r.todo = reclaim[d].todo
    BY <2>3, ReclaimTyped DEF ReclaimState
  <2>5. Port(n) \notin Owned' /\ Fip(n) \notin Owned'
    BY <1>3, <1>5, <1>6 DEF Owned
  <2>6. Progress(r)'
    BY <1>3, <1>5, <2>4, <2>5 DEF Progress
  <2>7. reclaim' = [reclaim EXCEPT ![d] = r]
    BY <1>6, <2>1, <2>3, ReclaimTyped DEF ReclaimState, InfraInv, TypeOK
  <2>8. FipHasPort(adc) /\ Owned' \subseteq adc.res
    BY <1>3, <1>5, <2>2, <2>5, Resources DEF FipHasPort
  <2> QED
    BY <1>1, <1>3, <2>4, <2>6, <2>7, <2>8, NetworkStep
<1>7. CASE astray' = astray \union (held \intersect {Fip(n)}) /\ UNCHANGED held
           /\ reclaim' = [reclaim EXCEPT ![d].phase = "network", ![d].net = NoNet]
  <2>1. PICK r \in ReclaimState : r = [reclaim[d] EXCEPT !.phase = "network", !.net = NoNet]
    BY ReclaimTyped DEF ReclaimState, Live
  <2>2. r.adc = reclaim[d].adc /\ r.phase = "network" /\ r.todo = reclaim[d].todo
    BY <2>1, ReclaimTyped DEF ReclaimState
  <2>3. Port(n) \notin Owned' /\ Fip(n) \notin Owned'
    BY <1>3, <1>5, <1>7 DEF Owned
  <2>4. Progress(r)'
    BY <1>3, <1>5, <2>2, <2>3 DEF Progress
  <2>5. reclaim' = [reclaim EXCEPT ![d] = r]
    BY <1>7, <2>1, ReclaimTyped DEF InfraInv, TypeOK
  <2> QED
    BY <1>1, <1>3, <1>5, <2>2, <2>4, <2>5, NetworkStep
<1> QED
  BY <1>4, <1>6, <1>7 DEF DeleteFloatingIp

\* Every step of a DELETE request keeps InfraInv.
LEMMA DeleteByIdInv == ASSUME InfraInv, NEW d \in Deletes, DeleteById(d) PROVE InfraInv'
BY DeleteLoadInv, DeleteCheckInv, ReclaimBeginInv, UntrustInv, RevokeInv, DeleteServerInv,
   DeletePortInv, DeleteFloatingIpInv, ReclaimEndInv, RemoveRowInv, ReclaimFailInv
   DEF DeleteById, DeleteOn
-------------------------------------------------------------------------------
(* PATCH requests and the stop of the process. *)

\* CommonRepository.updateById reading the row keeps InfraInv.
LEMMA PatchReadInv == ASSUME InfraInv, NEW p \in Patches, PatchRead(p) PROVE InfraInv'
<1>1. /\ patch'[p] = [phase |-> "write", adc |-> row]
      /\ \A q \in Patches \ {p} : patch'[q] = patch[q]
      /\ patch' \in [Patches -> PatchState]
  BY DEF PatchRead, PatchState, InfraInv, TypeOK
<1>2. row # NoRow /\ Owned' = Owned
  BY DEF PatchRead, outside, Owned
<1>3. TypeOK'
  BY <1>1 DEF PatchRead, outside, InfraInv, TypeOK
<1>4. CreatorKnows'
  BY <1>2 DEF PatchRead, InfraInv, CreatorKnows
<1>5. WritersKnow'
  BY <1>1, <1>2 DEF PatchRead, InfraInv, WritersKnow, Knows
<1>6. CreationExclusive'
  BY <1>1, <1>2 DEF PatchRead, InfraInv, CreationExclusive
<1>7. CopiesPaired'
  BY <1>1 DEF PatchRead, InfraInv, CopiesPaired, FipHasPort
<1>8. ReclaimProgress'
  BY <1>2 DEF PatchRead, InfraInv, ReclaimProgress, Progress
<1>9. NoInfraLeft'
  BY DEF PatchRead, outside, InfraInv, NoInfraLeft, Gone
<1> QED
  BY <1>3, <1>4, <1>5, <1>6, <1>7, <1>8, <1>9 DEF InfraInv

\* A PATCH writing back the row it read keeps InfraInv, however old it is.
LEMMA PatchWriteInv == ASSUME InfraInv, NEW p \in Patches, PatchWrite(p) PROVE InfraInv'
<1>1. /\ patch' \in [Patches -> PatchState]
      /\ \A q \in Patches : patch'[q].adc = patch[q].adc
      /\ \A q \in Patches : patch'[q].phase = "write" => patch[q].phase = "write"
  BY DEF PatchWrite, PatchState, InfraInv, TypeOK
<1>2. /\ patch[p].phase = "write" /\ Owned' = Owned
      /\ \/ row' = row
         \/ row # NoRow /\ row' = patch[p].adc
  BY DEF PatchWrite, Write, outside, Owned
<1>3. patch[p].adc \in Adc /\ NoRow \notin Adc
  BY DEF InfraInv, TypeOK, PatchState, NoRow, Adc, Status, TableState, Stage, Failure,
         CreateFailure, InProgress
<1>4. TypeOK'
  BY <1>1, <1>2, <1>3 DEF PatchWrite, outside, InfraInv, TypeOK
<1>5. CreatorKnows'
  BY <1>2 DEF PatchWrite, InfraInv, CreatorKnows
<1>6. WritersKnow'
  BY <1>1, <1>2 DEF PatchWrite, InfraInv, WritersKnow, Knows
<1>7. CreationExclusive'
  BY <1>1, <1>2 DEF PatchWrite, InfraInv, CreationExclusive
<1>8. CopiesPaired'
  BY <1>1, <1>2 DEF PatchWrite, InfraInv, CopiesPaired, FipHasPort
<1>9. ReclaimProgress'
  BY <1>2 DEF PatchWrite, InfraInv, ReclaimProgress, Progress
<1>10. NoInfraLeft'
  BY <1>2, <1>3 DEF PatchWrite, outside, InfraInv, NoInfraLeft, Gone
<1> QED
  BY <1>4, <1>5, <1>6, <1>7, <1>8, <1>9, <1>10 DEF InfraInv

\* A restart of the server process keeps InfraInv.
LEMMA CrashInv == ASSUME InfraInv, Crash PROVE InfraInv'
<1>1. /\ creator' \in CreatorState /\ creator'.adc = creator.adc
      /\ creator'.stage = "END" /\ creator'.phase = "gate"
  BY CreatorTyped DEF Crash, Aborted, CreatorState, CreatorPhase
<1>2. /\ reclaim' \in [Deletes -> ReclaimState]
      /\ \A d \in Deletes : /\ reclaim'[d].adc = reclaim[d].adc
                            /\ reclaim'[d].phase \notin Live
  <2>1. SUFFICES ASSUME NEW d \in Deletes
                 PROVE  /\ reclaim'[d] \in ReclaimState
                        /\ reclaim'[d].adc = reclaim[d].adc
                        /\ reclaim'[d].phase \notin Live
    BY DEF Crash
  <2>2. CASE reclaim[d].phase \in Live
    BY <2>2, ReclaimTyped DEF Crash, ReclaimState, Live, Over
  <2>3. CASE reclaim[d].phase \notin Live
    BY <2>3, ReclaimTyped DEF Crash
  <2> QED BY <2>2, <2>3
<1>3. /\ patch' \in [Patches -> PatchState]
      /\ \A p \in Patches : patch'[p].adc = patch[p].adc /\ patch'[p].phase # "write"
  <2>1. SUFFICES ASSUME NEW p \in Patches
                 PROVE  /\ patch'[p] \in PatchState
                        /\ patch'[p].adc = patch[p].adc /\ patch'[p].phase # "write"
    BY DEF Crash
  <2> QED BY DEF Crash, InfraInv, TypeOK, PatchState
<1>4. UNCHANGED <<row, held, astray, device, mishap>> /\ Owned' = Owned
  BY DEF Crash, outside, Owned
<1>5. TypeOK'
  BY <1>1, <1>2, <1>3, <1>4 DEF InfraInv, TypeOK
<1>6. CreatorKnows' /\ WritersKnow' /\ CreationExclusive'
  BY <1>1, <1>2, <1>3, <1>4
     DEF InfraInv, CreatorKnows, WritersKnow, Knows, CreationExclusive, Accepted, Live
<1>7. CopiesPaired'
  BY <1>1, <1>2, <1>3, <1>4 DEF InfraInv, CopiesPaired, FipHasPort
<1>8. ReclaimProgress'
  BY <1>2 DEF ReclaimProgress, Progress, Live
<1>9. NoInfraLeft'
  BY <1>4 DEF InfraInv, NoInfraLeft, Gone, Crash
<1> QED
  BY <1>5, <1>6, <1>7, <1>8, <1>9 DEF InfraInv
-------------------------------------------------------------------------------
(* Theorems. *)

\* Every step keeps InfraInv.
LEMMA StepInv == ASSUME InfraInv, [Next]_vars PROVE InfraInv'
<1>1. CASE Next
  BY <1>1, CreateInv, CreationInv, DeleteByIdInv, PatchReadInv, PatchWriteInv, CrashInv
     DEF Next
<1>2. CASE UNCHANGED vars
  BY <1>2 DEF vars, InfraInv, TypeOK, CreatorKnows, WritersKnow, Knows, CreationExclusive,
     CopiesPaired, FipHasPort, ReclaimProgress, Progress, NoInfraLeft, Gone, Owned
<1> QED BY <1>1, <1>2

\* InfraInv is inductive, for every set of networks, requests and faults.
THEOREM InfraInvariance == Spec => []InfraInv
BY InitInv, StepInv, PTL DEF Spec

\* AdcController keeps every variable in its type: no step computes a status
\* outside the enumeration or records an unknown resource.
THEOREM TypeCorrect == Spec => []TypeOK
<1>1. InfraInv => TypeOK
  BY DEF InfraInv
<1> QED BY <1>1, InfraInvariance, PTL

\* cNet, cSvr, deleteOn and serialize: from the moment the row leaves POWERING
\* every port, floating IP and server that exists is named in it.
THEOREM RowForgetsNothing == Spec => []NothingForgotten
<1>1. InfraInv => NothingForgotten
  BY DEF InfraInv, WritersKnow, NothingForgotten
<1> QED BY <1>1, InfraInvariance, PTL

\* deleteById removes the row only when nothing of the infrastructure is left
\* but what a failing call lost; creation, PATCH and a restart do not undo it.
THEOREM InfraReleased == Spec => []NoInfraLeft
<1>1. InfraInv => NoInfraLeft
  BY DEF InfraInv
<1> QED BY <1>1, InfraInvariance, PTL
-------------------------------------------------------------------------------
(* The refinement of the resource ledger. *)

\* A removed row is no ADC.
LEMMA NoRowUntyped == NoRow \notin Adc
BY DEF NoRow, Adc, Status, TableState, Stage, Failure, CreateFailure, InProgress

\* The row stays or goes: only POST and the end of a DELETE change that.
RowStays == row' = NoRow <=> row = NoRow

\* updateById never brings a removed row back.
LEMMA WriteStays ==
  ASSUME NEW adc \in Adc, Write(adc) PROVE RowStays
BY NoRowUntyped DEF Write, RowStays

\* How the creator goes on: past POST, over a row that stays.
GoesOn == creator.stage # "POST" /\ creator'.stage # "POST" /\ RowStays

\* A step that only moves the creation on stays out of the ledger.
LEMMA MoveGoesOn ==
  ASSUME InfraInv, creator.stage # "POST", UNCHANGED row,
         NEW stage \in LaterStage, NEW phase, creator' = Move(stage, phase)
  PROVE  GoesOn
BY CreatorTyped DEF Move, GoesOn, RowStays, CreatorState, LaterStage, Stage

\* An awaited serialize stays out of the ledger.
LEMMA SaveGoesOn ==
  ASSUME InfraInv, creator.stage # "POST", NEW adc \in Adc, NEW stage \in LaterStage,
         NEW phase, Save(adc, stage, phase)
  PROVE  GoesOn
<1>1. RowStays
  BY WriteStays DEF Save
<1> QED
  BY <1>1, CreatorTyped DEF Save, Aborted, GoesOn, CreatorState, LaterStage, Stage

\* The awaited write of a failure stays out of the ledger.
LEMMA FailGoesOn ==
  ASSUME InfraInv, creator.stage # "POST", NEW s \in Stage, NEW next \in LaterStage,
         Fail(s, next)
  PROVE  GoesOn
BY StatusNames, WithTyped, SaveGoesOn DEF Fail

\* A serialize nobody awaits stays out of the ledger.
LEMMA SaveLaterGoesOn ==
  ASSUME InfraInv, creator.stage # "POST", NEW adc, NEW stage \in LaterStage,
         SaveLater(adc, stage)
  PROVE  GoesOn
BY CreatorTyped DEF SaveLater, GoesOn, RowStays, CreatorState, LaterStage, Stage

\* A step the ledger does not see.
Unseen ==
  /\ held' \intersect Infra = held \intersect Infra
  /\ astray' \intersect Infra = astray \intersect Infra
  /\ Entry' = Entry

\* Unseen steps are stuttering steps of the ledger.
LEMMA UnseenStutters == Unseen => UNCHANGED Ledger!vars
BY DEF Unseen, Ledger!vars

\* A step is unseen if it stays out of the row's coming and going and of the
\* infrastructure.
LEMMA GoesOnUnseen ==
  ASSUME GoesOn, held' \ {Trust, Licence} = held \ {Trust, Licence},
         astray' \ {Trust, Licence} = astray \ {Trust, Licence}
  PROVE  Unseen
BY Resources DEF GoesOn, RowStays, Unseen, Entry

\* The gates of createFunc and setupOn are unseen.
LEMMA GateUnseen == ASSUME InfraInv, Gate PROVE Unseen
<1>1. PICK ready \in BOOLEAN :
        creator' = IF ~ready THEN Move(After(creator.stage), "gate")
                   ELSE IF creator.stage = "SETUP" THEN Move("TRUSTED", "gate")
                   ELSE Move(creator.stage, "begin")
  BY DEF Gate, ReadyAnswers, ReadyTo
<1>2. After(creator.stage) \in LaterStage /\ creator.stage \in LaterStage
  BY DEF Gate, After, Stage, LaterStage
<1>3. PICK stage \in LaterStage, phase \in CreatorPhase : creator' = Move(stage, phase)
  BY <1>1, <1>2 DEF LaterStage, Stage, CreatorPhase
<1>4. creator.stage # "POST" /\ UNCHANGED <<row, held, astray>>
  BY DEF Gate, outside, Stage
<1> QED
  BY <1>3, <1>4, MoveGoesOn, GoesOnUnseen

\* The write a stage begins with is unseen.
LEMMA BeginUnseen ==
  ASSUME InfraInv, NEW s \in Stage \ {"LICENSED"}, Begin(s) PROVE Unseen
<1>1. GoesOn
  BY StatusNames, WithTyped, SaveGoesOn DEF Begin, At, LaterStage, Stage
<1> QED
  BY <1>1, GoesOnUnseen DEF Begin, outside

\* A stage's call to the device is unseen.
LEMMA CallUnseen ==
  ASSUME InfraInv, NEW s \in Stage, NEW next \in LaterStage, Call(s, next) PROVE Unseen
<1>1. GoesOn
  BY MoveGoesOn, FailGoesOn DEF Call, At, LaterStage, Stage
<1> QED
  BY <1>1, GoesOnUnseen DEF Call, outside

\* installDO is unseen.
LEMMA InstallDOUnseen == ASSUME InfraInv, InstallDO PROVE Unseen
<1>1. CASE Await("DOINSTALLED", "do",
                 SaveLater(With(creator.adc, "DOINSTALLED"), "LICENSED"),
                 Fail("DOINSTALLED", "LICENSED"))
  <2>1. GoesOn
    BY <1>1, SaveLaterGoesOn, FailGoesOn DEF Await, At, LaterStage, Stage
  <2> QED
    BY <1>1, <2>1, GoesOnUnseen DEF Await
<1> QED
  BY <1>1, BeginUnseen, CallUnseen DEF InstallDO, LaterStage, Stage

\* licenseAdc is unseen.
LEMMA LicenseAdcUnseen == ASSUME InfraInv, LicenseAdc PROVE Unseen
<1>1. With(creator.adc, "LICENSED") \in Adc
  BY WithTyped, StatusNames DEF Stage
<1>2. CASE LicenseCheck
  <2>1. GoesOn
    BY <1>1, <1>2, SaveGoesOn, MoveGoesOn DEF LicenseCheck, At, LaterStage, Stage
  <2> QED
    BY <1>2, <2>1, GoesOnUnseen DEF LicenseCheck, outside
<1>3. CASE AssignLicense
  <2>1. GoesOn
    BY <1>3, FailGoesOn, MoveGoesOn DEF AssignLicense, At, LaterStage, Stage
  <2>2. held' \in {held, held \union {Licence}} /\ UNCHANGED astray
    BY <1>3 DEF AssignLicense
  <2> QED
    BY <2>1, <2>2, GoesOnUnseen
<1>4. CASE Await("LICENSED", "license",
                 Save(With(creator.adc, "LICENSED"), "ONBOARDED", "gate"),
                 Fail("LICENSED", "ONBOARDED"))
  <2>1. GoesOn
    BY <1>1, <1>4, SaveGoesOn, FailGoesOn DEF Await, At, LaterStage, Stage
  <2> QED
    BY <1>4, <2>1, GoesOnUnseen DEF Await
<1> QED
  BY <1>2, <1>3, <1>4 DEF LicenseAdc

\* onboard is unseen.
LEMMA OnboardUnseen == ASSUME InfraInv, Onboard PROVE Unseen
<1>1. CASE Await("ONBOARDED", "onboard",
                 SaveLater(With(creator.adc, "ONBOARDED"), "SETUP"),
                 SaveLater(With(creator.adc, "ONBOARDERROR"), "SETUP"))
  <2>1. GoesOn
    BY <1>1, SaveLaterGoesOn DEF Await, At, LaterStage
  <2> QED
    BY <1>1, <2>1, GoesOnUnseen DEF Await
<1> QED
  BY <1>1, BeginUnseen, CallUnseen DEF Onboard, LaterStage, Stage

\* trustAdc is unseen.
LEMMA TrustAdcUnseen == ASSUME InfraInv, TrustAdc PROVE Unseen
<1>1. CASE TrustCall
  <2>1. GoesOn
    BY <1>1, FailGoesOn, MoveGoesOn DEF TrustCall, At, LaterStage, Stage
  <2> QED
    BY <1>1, <2>1, GoesOnUnseen DEF TrustCall, CallFails
<1>2. CASE TrustWait
  <2>1. [status |-> "TRUSTED", res |-> creator.adc.res \union {Trust}] \in Adc
    BY CreatorTyped, Resources, StatusNames DEF Adc, Stage
  <2>2. GoesOn
    BY <1>2, <2>1, SaveGoesOn, FailGoesOn DEF TrustWait, At, LaterStage, Stage
  <2> QED
    BY <1>2, <2>2, GoesOnUnseen DEF TrustWait
<1> QED
  BY <1>1, <1>2, BeginUnseen DEF TrustAdc, Stage

\* installAS3 is unseen.
LEMMA InstallAS3Unseen == ASSUME InfraInv, InstallAS3 PROVE Unseen
<1>1. CASE Await("INSTALLED", "as3",
                 Save(With(creator.adc, "INSTALLED"), "PARTITIONED", "gate"),
                 Fail("INSTALLED", "PARTITIONED"))
  <2>1. GoesOn
    BY <1>1, WithTyped, StatusNames, SaveGoesOn, FailGoesOn DEF Await, At, LaterStage, Stage
  <2> QED
    BY <1>1, <2>1, GoesOnUnseen DEF Await
<1> QED
  BY <1>1, BeginUnseen, CallUnseen DEF InstallAS3, LaterStage, Stage

\* installPartition is unseen.
LEMMA InstallPartitionUnseen == ASSUME InfraInv, InstallPartition PROVE Unseen
<1>1. CASE Await("PARTITIONED", "partition",
                 SaveLater(With(creator.adc, "ACTIVE"), "END"),
                 SaveLater(With(creator.adc, "PARTITIONERROR"), "END"))
  <2>1. GoesOn
    BY <1>1, SaveLaterGoesOn DEF Await, At, LaterStage
  <2> QED
    BY <1>1, <2>1, GoesOnUnseen DEF Await
<1> QED
  BY <1>1, BeginUnseen, CallUnseen DEF InstallPartition, LaterStage, Stage

\* A late write is unseen.
LEMMA LateWriteUnseen == ASSUME InfraInv, LateWrite PROVE Unseen
<1>1. RowStays
  BY CreatorTyped, WriteStays DEF LateWrite
<1>2. creator.stage # "POST" /\ creator'.stage = creator.stage
  BY CreatorTyped DEF LateWrite, CreatorState, InfraInv, CreationExclusive
<1> QED
  BY <1>1, <1>2, GoesOnUnseen DEF GoesOn, LateWrite, outside

\* What createOn brings into being is acquired for a listed entry.
LEMMA AcquireSeen ==
  ASSUME InfraInv, creator.stage = "POWERON", GoesOn, NEW r \in Infra,
         held' = held \union {r}, astray' \in {astray, astray \union {r}}
  PROVE  Ledger!Next
<1>1. Entry = "listed" /\ Entry' = "listed"
  <2>1. row # NoRow
    BY DEF InfraInv, CreationExclusive, NoRow, Early
  <2> QED BY <2>1 DEF Entry, GoesOn, RowStays
<1>2. /\ held' \intersect Infra = (held \intersect Infra) \union {r}
      /\ astray' \intersect Infra \in
           {astray \intersect Infra, (astray \intersect Infra) \union {r}}
  OBVIOUS
<1>3. Ledger!Acquire(r)
  BY <1>1, <1>2 DEF Ledger!Acquire
<1> QED BY <1>3 DEF Ledger!Next

\* A failing call of createOn is an acquisition that is lost at once, or unseen.
LEMMA PowerFailsSeen ==
  ASSUME InfraInv, creator.stage = "POWERON", NEW point, NEW r \in Infra,
         PowerFails(point, {r})
  PROVE  [Ledger!Next]_(Ledger!vars)
<1>1. PICK lost \in SUBSET {r} : /\ CallFails(point, {r}, lost)
                                 /\ astray' = astray \union lost
                                 /\ Fail("POWERON", "END")
  BY DEF PowerFails
<1>2. GoesOn
  BY <1>1, FailGoesOn DEF LaterStage, Stage
<1>3. CASE lost = {}
  BY <1>1, <1>2, <1>3, GoesOnUnseen, UnseenStutters DEF CallFails
<1>4. CASE lost = {r}
  BY <1>1, <1>2, <1>4, AcquireSeen DEF CallFails
<1> QED BY <1>3, <1>4

\* createOn acquires for a listed row.
LEMMA CreateOnSeen == ASSUME InfraInv, CreateOn PROVE [Ledger!Next]_(Ledger!vars)
<1>1. CASE Begin("POWERON")
  BY <1>1, BeginUnseen, UnseenStutters DEF Stage
<1>2. ASSUME NEW n \in Networks, CreatePort(n) PROVE [Ledger!Next]_(Ledger!vars)
  <2>1. creator.stage = "POWERON" /\ Port(n) \in Infra
    BY <1>2, Resources DEF CreatePort, At
  <2>2. CASE PowerFails("createPort", {Port(n)})
    BY <2>1, <2>2, PowerFailsSeen
  <2>3. CASE /\ held' = held \union {Port(n)}
             /\ creator' = [creator EXCEPT !.adc.res = @ \union {Port(n)},
                                           !.phase = IF n \in Floating THEN "fip" ELSE "save",
                                           !.net = n]
             /\ UNCHANGED <<row, device, astray>>
    <3>1. GoesOn
      BY <2>1, <2>3, CreatorTyped DEF GoesOn, RowStays, CreatorState
    <3> QED BY <2>1, <2>3, <3>1, AcquireSeen
  <2> QED BY <1>2, <2>2, <2>3 DEF CreatePort
<1>3. CASE FloatingIp
  <2>1. creator.stage = "POWERON" /\ Fip(creator.net) \in Infra
    BY <1>3, Resources DEF FloatingIp, At, InfraInv, CopiesPaired
  <2>2. CASE creator' = Move("POWERON", "save") /\ UNCHANGED <<row, outside>>
    BY <2>1, <2>2, MoveGoesOn, GoesOnUnseen, UnseenStutters DEF outside, LaterStage, Stage
  <2>3. CASE PowerFails("floatingIp", {Fip(creator.net)})
    BY <2>1, <2>3, PowerFailsSeen
  <2>4. CASE /\ held' = held \union {Fip(creator.net)}
             /\ creator' = [creator EXCEPT !.adc.res = @ \union {Fip(creator.net)},
                                           !.phase = "save"]
             /\ UNCHANGED <<row, device, astray>>
    <3>1. GoesOn
      BY <2>1, <2>4, CreatorTyped DEF GoesOn, RowStays, CreatorState
    <3> QED BY <2>1, <2>4, <3>1, AcquireSeen
  <2> QED BY <1>3, <2>2, <2>3, <2>4 DEF FloatingIp
<1>4. CASE SaveNetwork
  <2>1. GoesOn
    BY <1>4, CreatorTyped, SaveGoesOn DEF SaveNetwork, At, LaterStage, Stage
  <2> QED BY <1>4, <2>1, GoesOnUnseen, UnseenStutters DEF SaveNetwork, outside
<1>5. CASE CreateServer
  <2>1. creator.stage = "POWERON" /\ Server \in Infra
    BY <1>5, Resources DEF CreateServer, At
  <2>2. CASE PowerFails("createServer", {Server})
    BY <2>1, <2>2, PowerFailsSeen
  <2>3. CASE /\ held' = held \union {Server}
             /\ creator' = [creator EXCEPT !.adc.res = @ \union {Server}, !.phase = "wait"]
             /\ UNCHANGED <<row, astray>>
    <3>1. GoesOn
      BY <2>1, <2>3, CreatorTyped DEF GoesOn, RowStays, CreatorState
    <3> QED BY <2>1, <2>3, <3>1, AcquireSeen
  <2> QED BY <1>5, <2>2, <2>3 DEF CreateServer
<1>6. CASE WaitPowerOn
  <2>1. GoesOn
    BY <1>6, SaveLaterGoesOn, FailGoesOn DEF WaitPowerOn, At, LaterStage, Stage
  <2> QED BY <1>6, <2>1, GoesOnUnseen, UnseenStutters DEF WaitPowerOn, outside
<1> QED BY <1>1, <1>2, <1>3, <1>4, <1>5, <1>6 DEF CreateOn

\* Every step of the job POST starts is a step of the ledger or unseen.
LEMMA CreationSeen == ASSUME InfraInv, Creation PROVE [Ledger!Next]_(Ledger!vars)
BY CreateOnSeen, GateUnseen, InstallDOUnseen, LicenseAdcUnseen, OnboardUnseen,
   TrustAdcUnseen, InstallAS3Unseen, InstallPartitionUnseen, LateWriteUnseen,
   UnseenStutters DEF Creation

\* A DELETE, while it neither releases nor loses infrastructure.
LEMMA ReclaimUnseen ==
  ASSUME UNCHANGED creator, RowStays,
         held' \ {Trust, Licence} = held \ {Trust, Licence},
         astray' \ {Trust, Licence} = astray \ {Trust, Licence}
  PROVE  UNCHANGED Ledger!vars
BY Resources, UnseenStutters DEF RowStays, Unseen, Entry

\* A release, or a release given up.
LEMMA ReleaseSeen ==
  ASSUME UNCHANGED <<creator, row, astray>>, NEW r \in Infra, held' = held \ {r}
  PROVE  Ledger!Next
<1>1. Entry' = Entry
  BY DEF Entry
<1>2. held' \intersect Infra = (held \intersect Infra) \ {r}
  OBVIOUS
<1>3. Ledger!Release(r)
  BY <1>1, <1>2 DEF Ledger!Release
<1> QED BY <1>3 DEF Ledger!Next

\* A release of deleteOn that fails is given up.
LEMMA GiveUpSeen ==
  ASSUME InfraInv, creator.stage # "POST", UNCHANGED <<creator, row, held>>,
         NEW R \in SUBSET Infra, R \subseteq held, astray' = astray \union R
  PROVE  [Ledger!Next]_(Ledger!vars)
<1>1. Entry' = Entry
  BY DEF Entry
<1>2. CASE row = NoRow
  <2>1. R \subseteq astray
    BY <1>2 DEF InfraInv, NoInfraLeft, Gone
  <2> QED
    BY <1>1, <2>1, UnseenStutters DEF Unseen
<1>3. CASE row # NoRow
  <2>1. Entry = "listed"
    BY <1>3 DEF Entry
  <2>2. /\ astray' \intersect Infra = (astray \intersect Infra) \union R
        /\ R \subseteq held \intersect Infra
        /\ held' \intersect Infra = held \intersect Infra
    OBVIOUS
  <2>3. Ledger!GiveUp(R)
    BY <1>1, <2>1, <2>2 DEF Ledger!GiveUp
  <2> QED BY <2>3 DEF Ledger!Next
<1> QED BY <1>2, <1>3

\* Every step of a DELETE is a step of the ledger or unseen; removing the row
\* closes the entry.
LEMMA DeleteByIdSeen ==
  ASSUME InfraInv, NEW d \in Deletes, DeleteById(d)
  PROVE  [Ledger!Next]_(Ledger!vars)
<1>1. CASE DeleteLoad(d) \/ DeleteCheck(d)
  BY <1>1, ReclaimUnseen DEF DeleteLoad, DeleteCheck, rest, outside, RowStays
<1>2. CASE ReclaimBegin(d) \/ ReclaimEnd(d)
  <2>1. RowStays
    BY <1>2, WithReclaim, StatusNames, WriteStays DEF ReclaimBegin, ReclaimEnd, SaveReclaim
  <2> QED BY <1>2, <2>1, ReclaimUnseen DEF ReclaimBegin, ReclaimEnd, rest, outside
<1>3. CASE Untrust(d)
  <2>1. "TRUSTERROR" \in Status
    BY DEF Status, Failure, CreateFailure
  <2>2. RowStays
    BY <1>3, <2>1, WithReclaim, WriteStays DEF Untrust, SaveReclaim, RowStays
  <2> QED BY <1>3, <2>2, ReclaimUnseen DEF Untrust, rest
<1>4. CASE Revoke(d)
  BY <1>4, ReclaimUnseen DEF Revoke, rest, RowStays
<1>5. CASE DeleteServer(d)
  <2>1. UNCHANGED <<creator, row, astray>> /\ (held' = held \/ held' = held \ {Server})
    BY <1>5 DEF DeleteServer, rest
  <2> QED
    BY <2>1, Resources, ReclaimUnseen, ReleaseSeen DEF RowStays
<1>6. ASSUME NEW n \in Networks, DeletePort(d, n) PROVE [Ledger!Next]_(Ledger!vars)
  <2>1. UNCHANGED <<creator, row>> /\ creator.stage # "POST"
    BY <1>6, ReclaimTyped DEF DeletePort, rest, Accepted, Live
  <2>2. \/ held' = held \ {Port(n)} /\ UNCHANGED astray
        \/ UNCHANGED held /\ astray' = astray \union (held \intersect {Port(n), Fip(n)})
    BY <1>6 DEF DeletePort
  <2>3. PICK R \in SUBSET Infra : R = held \intersect {Port(n), Fip(n)}
    BY Resources
  <2> QED
    BY <2>1, <2>2, <2>3, Resources, ReleaseSeen, GiveUpSeen
<1>7. CASE DeleteFloatingIp(d)
  <2>1. UNCHANGED <<creator, row>> /\ creator.stage # "POST"
    BY <1>7, ReclaimTyped DEF DeleteFloatingIp, rest, Accepted, Live
  <2>2. PICK n \in Networks : n = reclaim[d].net
    BY <1>7, ReclaimTyped DEF DeleteFloatingIp, Progress
  <2>3. \/ held' = held \ {Fip(n)} /\ UNCHANGED astray
        \/ UNCHANGED held /\ astray' = astray \union (held \intersect {Fip(n)})
    BY <1>7, <2>2 DEF DeleteFloatingIp
  <2>4. PICK R \in SUBSET Infra : R = held \intersect {Fip(n)}
    BY Resources
  <2> QED
    BY <2>1, <2>3, <2>4, Resources, ReleaseSeen, GiveUpSeen
<1>8. CASE RemoveRow(d)
  <2>1. UNCHANGED <<creator, held, astray>> /\ row' = NoRow
    BY <1>8 DEF RemoveRow, rest, outside
  <2>2. Owned = {} /\ creator.stage # "POST"
    BY <1>8, ReclaimTyped DEF RemoveRow, Progress, Accepted, Live
  <2>3. CASE row = NoRow
    BY <2>1, <2>3, ReclaimUnseen DEF RowStays
  <2>4. CASE row # NoRow
    <3>1. Entry = "listed" /\ Entry' = "closed"
      BY <2>1, <2>2, <2>4 DEF Entry
    <3>2. held \intersect Infra \subseteq astray \intersect Infra
      BY <2>2 DEF Owned
    <3>3. Ledger!Close
      BY <2>1, <3>1, <3>2 DEF Ledger!Close
    <3> QED BY <3>3 DEF Ledger!Next
  <2> QED BY <2>3, <2>4
<1>9. CASE ReclaimFail(d)
  <2>1. RowStays
    BY <1>9, WithReclaim, StatusNames, WriteStays DEF ReclaimFail
  <2> QED BY <1>9, <2>1, ReclaimUnseen DEF ReclaimFail, rest, outside
<1> QED
  BY <1>1, <1>2, <1>3, <1>4, <1>5, <1>6, <1>7, <1>8, <1>9 DEF DeleteById, DeleteOn

\* Every step of AdcLifecycle is a step of the ledger or unseen.
LEMMA LedgerStep == ASSUME InfraInv, [Next]_vars PROVE [Ledger!Next]_(Ledger!vars)
<1>1. CASE Create
  <2>1. Entry = "none" /\ Entry' = "listed"
    <3>1. creator'.stage = "POWERON" /\ row' = NewAdc
      BY <1>1, CreatorTyped DEF Create, CreatorState
    <3> QED BY <1>1, <3>1 DEF Entry, Create, NewAdc, NoRow
  <2>2. Ledger!Register
    BY <1>1, <2>1 DEF Ledger!Register, Create, outside
  <2> QED BY <2>2 DEF Ledger!Next
<1>2. CASE Creation
  BY <1>2, CreationSeen
<1>3. ASSUME NEW d \in Deletes, DeleteById(d) PROVE [Ledger!Next]_(Ledger!vars)
  BY <1>3, DeleteByIdSeen
<1>4. ASSUME NEW p \in Patches, PatchRead(p) \/ PatchWrite(p)
      PROVE  [Ledger!Next]_(Ledger!vars)
  <2>1. RowStays
    <3>1. CASE PatchRead(p)
      BY <3>1 DEF PatchRead, RowStays
    <3>2. CASE PatchWrite(p)
      <4>1. patch[p].adc \in Adc
        BY DEF InfraInv, TypeOK, PatchState
      <4> QED BY <3>2, <4>1, WriteStays DEF PatchWrite
    <3> QED BY <1>4, <3>1, <3>2
  <2> QED BY <1>4, <2>1, ReclaimUnseen DEF PatchRead, PatchWrite, outside
<1>5. CASE Crash
  <2>1. creator.stage # "POST" /\ creator'.stage = "END" /\ UNCHANGED <<row, held, astray>>
    BY <1>5, CreatorTyped DEF Crash, Aborted, CreatorState, outside
  <2> QED
    BY <2>1, UnseenStutters DEF Unseen, Entry
<1>6. CASE UNCHANGED vars
  BY <1>6, UnseenStutters DEF vars, Unseen, Entry
<1> QED
  BY <1>1, <1>2, <1>3, <1>4, <1>5, <1>6 DEF Next

\* The life of the ADC implements the ledger: infrastructure is acquired only
\* for a listed row, and the row goes only when none is left.
THEOREM LedgerRefined == Spec => KeepsLedger
<1>1. Init => Ledger!Init
  BY DEF Init, Ledger!Init, Entry
<1> QED
  BY <1>1, InfraInvariance, LedgerStep, PTL DEF Spec, KeepsLedger, Ledger!Spec
-------------------------------------------------------------------------------
(* While nothing has gone amiss: what statuses fit and say. *)

\* The trusted device, the license and the infrastructure are told apart.
LEMMA TrustApart ==
  /\ Trust # Licence /\ Trust # Server /\ Licence # Server
  /\ \A n \in Networks : /\ Trust # Port(n) /\ Trust # Fip(n)
                         /\ Licence # Port(n) /\ Licence # Fip(n)
BY SMT DEF Trust, Licence, Server, Port, Fip

\* What a status says stays so while the device only gains.
LEMMA SaysMore ==
  ASSUME NEW status, NEW H, NEW F, NEW H2, NEW F2,
         Says(status, H, F), H \subseteq H2, F \subseteq F2
  PROVE  Says(status, H2, F2)
BY DEF Says

\* The early statuses and the failures of creation say nothing.
LEMMA SaysNothing ==
  ASSUME NEW status \in Early \union {FailureOf(s) : s \in Stage}, NEW H, NEW F
  PROVE  Says(status, H, F)
<1>1. status \in {"NEW", "POWERING"} \union CreateFailure
  BY DEF Early, FailureOf, Stage, CreateFailure
<1>2. status \notin SinceBoot
  BY <1>1 DEF CreateFailure, SinceBoot, SinceDO, SinceLicense, SinceOnboard, SinceTrust,
              SinceAS3, SincePartition
<1> QED
  BY <1>2 DEF Says, SinceBoot, SinceDO, SinceLicense, SinceOnboard, SinceTrust, SinceAS3,
              SincePartition

\* A stage that begins says no more than the one before.
LEMMA SaysProgress ==
  ASSUME NEW s \in Stage \ {"POWERON", "LICENSED"}, NEW H, NEW F, Says(Enters(s), H, F)
  PROVE  Says(ProgressOf(s), H, F)
BY DEF Stage, Says, Enters, ProgressOf, SinceBoot, SinceDO, SinceLicense, SinceOnboard,
       SinceTrust, SinceAS3, SincePartition

\* A stage that has ended says one thing more: its own.
LEMMA SaysDone ==
  ASSUME NEW H, NEW F, Server \in H
  PROVE  /\ "boot" \in F => Says("POWERON", H, F)
         /\ Says("DOINSTALLING", H, F) /\ "do" \in F => Says("DOINSTALLED", H, F)
         /\ Says("DOINSTALLED", H, F) /\ "license" \in F => Says("LICENSED", H, F)
         /\ Says("ONBOARDING", H, F) /\ "onboard" \in F => Says("ONBOARDED", H, F)
         /\ Says("TRUSTING", H, F) /\ Trust \in H => Says("TRUSTED", H, F)
         /\ Says("INSTALLING", H, F) /\ "as3" \in F => Says("INSTALLED", H, F)
         /\ Says("PARTITIONING", H, F) /\ "partition" \in F => Says("ACTIVE", H, F)
BY DEF Says, SinceBoot, SinceDO, SinceLicense, SinceOnboard, SinceTrust, SinceAS3,
       SincePartition

\* Only trustAdc, between its writes, has a copy that says TRUSTING, and only the
\* end of creation one that says ACTIVE.
LEMMA FitsApart ==
  ASSUME NEW stage \in LaterStage, NEW phase, NEW status, Fits(stage, phase, status)
  PROVE  /\ status = "TRUSTING" <=> Trusting(stage, phase)
         /\ status = "ACTIVE" => stage = "END" /\ phase = "gate"
<1>1. CASE phase = "gate" /\ status \in AtGate(stage)
  BY <1>1 DEF Trusting, AtGate, AtPower, AtDO, AtLicense, AtOnboard, AtTrust, AtAS3,
              AtPartition, AtEnd, LaterStage, Stage
<1>2. CASE stage = "POWERON" /\ phase # "gate" /\ status \in Early
  BY <1>2 DEF Trusting, Early
<1>3. CASE /\ stage \in Stage \ {"POWERON"}
           /\ phase = "begin" \/ (stage = "LICENSED" /\ phase \in {"work", "wait"})
           /\ status = Enters(stage)
  BY <1>3 DEF Trusting, Enters, Stage
<1>4. CASE /\ stage \in Stage \ {"POWERON", "LICENSED"}
           /\ phase \in {"work", "wait"}
           /\ status = ProgressOf(stage)
  BY <1>4 DEF Trusting, ProgressOf, Stage
<1> QED BY <1>1, <1>2, <1>3, <1>4 DEF Fits

\* A gate that says no leaves a status that fits the next gate.
LEMMA FitsAfter ==
  ASSUME NEW stage \in Stage \union {"SETUP"}, NEW status \in AtGate(stage)
  PROVE  status \in AtGate(After(stage))
BY DEF Stage, AtGate, After, AtPower, AtDO, AtLicense, AtOnboard, AtTrust, AtAS3, AtPartition,
       AtEnd

\* A gate that says yes has the status the stage enters with.
LEMMA FitsEnter ==
  ASSUME NEW stage \in Stage \ {"POWERON"}, NEW status \in AtGate(stage),
         NEW passed \in BOOLEAN, ReadyTo(status, stage, passed)
  PROVE  status = Enters(stage)
BY DEF Stage, AtGate, Enters, AtPower, AtDO, AtLicense, AtOnboard, AtTrust, AtAS3, AtPartition,
       AtEnd, ReadyTo, StateEntry, NextOf, TableState, Failure, CreateFailure, NoEntry

\* A stage that failed leaves a status that fits the gate it goes on to.
LEMMA FitsFailed ==
  /\ FailureOf("POWERON") \in AtGate("END")
  /\ FailureOf("DOINSTALLED") \in AtGate("LICENSED")
  /\ FailureOf("LICENSED") \in AtGate("ONBOARDED")
  /\ FailureOf("ONBOARDED") \in AtGate("SETUP") /\ FailureOf("ONBOARDED") \in AtGate("END")
  /\ FailureOf("TRUSTED") \in AtGate("INSTALLED")
  /\ FailureOf("INSTALLED") \in AtGate("PARTITIONED")
  /\ FailureOf("PARTITIONED") \in AtGate("END")
BY DEF FailureOf, Stage, AtGate, AtPower, AtDO, AtLicense, AtOnboard, AtTrust, AtAS3,
       AtPartition, AtEnd

\* So does a stage that has ended.
LEMMA FitsDone ==
  /\ "POWERON" \in AtGate("DOINSTALLED") /\ "DOINSTALLED" \in AtGate("LICENSED")
  /\ "LICENSED" \in AtGate("ONBOARDED") /\ "ONBOARDED" \in AtGate("SETUP")
  /\ "TRUSTED" \in AtGate("INSTALLED") /\ "INSTALLED" \in AtGate("PARTITIONED")
  /\ "ACTIVE" \in AtGate("END")
BY DEF Stage, AtGate, AtPower, AtDO, AtLicense, AtOnboard, AtTrust, AtAS3, AtPartition, AtEnd
-------------------------------------------------------------------------------
(* While nothing has gone amiss: the creation. *)

\* Calm, while the creation runs, past POST.
Running == Calm /\ Busy /\ creator.stage # "POST"

\* What Running says of the creation.
LEMMA RunningFacts ==
  ASSUME Running
  PROVE  /\ Fits(creator.stage, creator.phase, creator.adc.status)
         /\ Says(creator.adc.status, held, device)
         /\ row # NoRow
         /\ row.status = "TRUSTING" <=> Trusting(creator.stage, creator.phase)
         /\ row.status # "ACTIVE"
         /\ Trusted => Trust \in creator.adc.res \/ Awaited(creator.stage, creator.phase)
         /\ OwnKey => Licence \notin held
         /\ \A d \in Deletes : reclaim[d].phase \notin Accepted
BY DEF Running, Calm, CreationCalm, OwnLicence

\* A step of the creation keeps Calm when it writes its copy or nothing, when
\* its place and its status fit, and when the trusted device is recorded in time.
LEMMA CreatorCalm ==
  ASSUME Running, UNCHANGED <<reclaim, patch>>,
         row' = row \/ (row' = creator'.adc /\ creator'.adc \in Adc),
         creator'.stage \in LaterStage,
         OwnKey => Licence \notin held',
         Fits(creator'.stage, creator'.phase, creator'.adc.status),
         Says(creator'.adc.status, held', device'),
         row' = row => (Trusting(creator'.stage, creator'.phase) <=>
                          Trusting(creator.stage, creator.phase)),
         row' # row => (creator'.adc.status = "ACTIVE" => ~creator'.late),
         Trusted' => Trust \in creator'.adc.res \/ Awaited(creator'.stage, creator'.phase),
         row' = row /\ Trusted' => Trusted \/ Awaited(creator'.stage, creator'.phase)
  PROVE  Calm'
<1>1. /\ row # NoRow /\ row.status # "ACTIVE"
      /\ row.status = "TRUSTING" <=> Trusting(creator.stage, creator.phase)
      /\ \A d \in Deletes : reclaim[d].phase \notin Accepted
  BY RunningFacts
<1>2. row' # NoRow
  BY <1>1, NoRowUntyped
<1>3. /\ creator'.adc.status = "TRUSTING" <=> Trusting(creator'.stage, creator'.phase)
      /\ creator'.adc.status = "ACTIVE" => creator'.stage = "END" /\ creator'.phase = "gate"
  BY FitsApart
<1>4. /\ row'.status = "TRUSTING" <=> Trusting(creator'.stage, creator'.phase)
      /\ row'.status = "ACTIVE" =>
           creator'.adc.status = "ACTIVE" /\ creator'.stage = "END" /\ ~creator'.late
  <2>1. CASE row' = row
    BY <1>1, <2>1
  <2>2. CASE row' # row
    BY <1>3, <2>2
  <2> QED BY <2>1, <2>2
<1>5. CreationCalm'
  BY <1>1, <1>2, <1>4 DEF CreationCalm, Busy, LaterStage, Stage
<1>6. StuckTrusting'
  BY <1>4 DEF StuckTrusting, Trusting, Busy
<1>7. RowTrusts'
  <2>1. Awaited(creator'.stage, creator'.phase) => Trusting(creator'.stage, creator'.phase)
    BY DEF Awaited, Trusting
  <2>2. row # NoRow /\ Trusted => Trust \in row.res \/ row.status = "TRUSTING"
    BY DEF Running, Calm, RowTrusts
  <2> QED BY <1>1, <1>4, <2>1, <2>2 DEF RowTrusts
<1>8. ReclaimCalm'
  <2>1. {"enter", "trust", "vm", "network", "fip", "remove"} \subseteq Accepted
    BY DEF Accepted, Live
  <2> QED BY <1>1, <2>1 DEF ReclaimCalm
<1>9. ActiveCalm'
  BY <1>1, <1>4 DEF ActiveCalm
<1>10. GoneCalm' /\ OwnLicence'
  BY <1>2 DEF GoneCalm, Gone, OwnLicence
<1> QED
  BY <1>5, <1>6, <1>7, <1>8, <1>9, <1>10 DEF Calm

\* A step that moves the creation on without a write.
LEMMA MoveCalm ==
  ASSUME InfraInv, Running, UNCHANGED <<row, others>>,
         NEW stage \in LaterStage, NEW phase \in CreatorPhase,
         creator' = Move(stage, phase),
         OwnKey => Licence \notin held',
         Fits(stage, phase, creator.adc.status),
         Says(creator.adc.status, held', device'),
         Trusting(stage, phase) <=> Trusting(creator.stage, creator.phase),
         Awaited(creator.stage, creator.phase) => Awaited(stage, phase),
         Trusted' => Trusted \/ Awaited(stage, phase)
  PROVE  Calm'
<1>1. /\ creator'.stage = stage /\ creator'.phase = phase
      /\ creator'.adc = creator.adc /\ creator'.late = creator.late
  BY CreatorTyped DEF Move, CreatorState
<1>2. UNCHANGED <<reclaim, patch>>
  BY DEF others
<1>3. Trusted' => Trust \in creator.adc.res \/ Awaited(stage, phase)
  BY RunningFacts
<1> QED
  BY <1>1, <1>2, <1>3, CreatorCalm

\* An awaited write of the creation.
LEMMA SaveCalm ==
  ASSUME InfraInv, Running, UNCHANGED others,
         NEW adc \in Adc, NEW stage \in LaterStage, NEW phase \in CreatorPhase,
         Save(adc, stage, phase),
         OwnKey => Licence \notin held',
         Fits(stage, phase, adc.status),
         Says(adc.status, held', device'),
         stage # "END" \/ adc.status # "ACTIVE",
         Trusted' => Trust \in adc.res \/ Awaited(stage, phase),
         Trusted' => Trusted \/ Awaited(stage, phase)
  PROVE  Calm'
<1>1. row.status = "TRUSTING" <=> Trusting(creator.stage, creator.phase)
  BY RunningFacts
<1>2. row' = adc /\ creator' = [creator EXCEPT !.stage = stage, !.phase = phase,
                                               !.net = NoNet, !.adc = adc]
  BY RunningFacts DEF Save, Write
<1>3. /\ creator'.stage = stage /\ creator'.phase = phase
      /\ creator'.adc = adc /\ creator'.late = creator.late
  BY <1>2, CreatorTyped DEF CreatorState
<1>4. UNCHANGED <<reclaim, patch>>
  BY DEF others
<1>5. adc.status = "TRUSTING" <=> Trusting(stage, phase)
  BY FitsApart
<1>6. row' = row => (Trusting(stage, phase) <=> Trusting(creator.stage, creator.phase))
  BY <1>1, <1>2, <1>5
<1>7. adc.status # "ACTIVE"
  BY FitsApart
<1> QED
  BY <1>2, <1>3, <1>4, <1>6, <1>7, CreatorCalm

\* A write of the creation that nobody awaits, when it is issued.
LEMMA SaveLaterCalm ==
  ASSUME InfraInv, Running, UNCHANGED others,
         NEW adc \in Adc, NEW stage \in LaterStage,
         SaveLater(adc, stage),
         OwnKey => Licence \notin held',
         adc.status \in AtGate(stage),
         Says(adc.status, held', device'),
         ~Trusting(creator.stage, creator.phase),
         creator.adc.res \subseteq adc.res,
         Trusted' => Trusted
  PROVE  Calm'
<1>1. /\ creator'.stage = stage /\ creator'.phase = "gate"
      /\ creator'.adc = adc /\ row' = row
  BY CreatorTyped DEF SaveLater, CreatorState
<1>2. Fits(stage, "gate", adc.status) /\ ~Trusting(stage, "gate")
  BY DEF Fits, Trusting
<1>3. UNCHANGED <<reclaim, patch>>
  BY DEF others
<1>4. Trusted' => Trust \in adc.res
  BY RunningFacts DEF Awaited, Trusting
<1> QED
  BY <1>1, <1>2, <1>3, <1>4, CreatorCalm

\* POST.
LEMMA CreateCalm == ASSUME InfraInv, Calm, Create PROVE Calm'
<1>1. Busy /\ creator.stage = "POST"
  BY DEF Create, Busy
<1>2. /\ row = NoRow /\ creator.phase = "gate" /\ creator.adc = NewAdc
      /\ \A d \in Deletes : reclaim[d].phase \notin Accepted
      /\ ~Trusted
  BY <1>1 DEF Calm, CreationCalm, Awaited, NewAdc
<1>3. /\ creator'.stage = "POWERON" /\ creator'.phase = "gate"
      /\ creator'.adc = NewAdc /\ row' = NewAdc
      /\ UNCHANGED <<reclaim, patch, held, device, astray>>
  BY <1>2, CreatorTyped DEF Create, CreatorState, outside, others
<1>4. NewAdc # NoRow /\ NewAdc.status = "NEW"
  BY DEF NewAdc, NoRow
<1>5. CreationCalm'
  <2>1. Fits("POWERON", "gate", "NEW")
    BY DEF Fits, AtGate, AtPower, Stage
  <2>2. Says("NEW", held', device')
    BY SaysNothing DEF Early
  <2>3. ~Trusting("POWERON", "gate") /\ ~Trusted'
    BY <1>2, <1>3 DEF Trusting, Trusted
  <2> QED
    BY <1>2, <1>3, <1>4, <2>1, <2>2, <2>3 DEF CreationCalm
<1>6. StuckTrusting' /\ RowTrusts'
  BY <1>2, <1>3, <1>4 DEF StuckTrusting, RowTrusts, Trusted
<1>7. ReclaimCalm'
  <2>1. {"enter", "trust", "vm", "network", "fip", "remove"} \subseteq Accepted
    BY DEF Accepted, Live
  <2> QED BY <1>2, <1>3, <2>1 DEF ReclaimCalm
<1>8. ActiveCalm' /\ GoneCalm' /\ OwnLicence'
  BY <1>3, <1>4 DEF ActiveCalm, GoneCalm, Gone, OwnLicence, Calm
<1> QED
  BY <1>5, <1>6, <1>7, <1>8 DEF Calm

\* What the gates and the calls of the creation leave as it is.
LEMMA OutsideStays ==
  ASSUME Running, UNCHANGED outside
  PROVE  /\ Says(creator.adc.status, held', device')
         /\ OwnKey => Licence \notin held'
         /\ Trusted' <=> Trusted
BY RunningFacts DEF outside, Trusted

\* The gates.
LEMMA GateCalm == ASSUME InfraInv, Running, Gate PROVE Calm'
<1>1. /\ creator.stage \in Stage \union {"SETUP"} /\ creator.phase = "gate"
      /\ UNCHANGED <<row, outside, others>>
  BY DEF Gate
<1> DEFINE target == IF creator.stage = "SETUP" THEN "TRUSTED" ELSE creator.stage
<1>2. PICK ready \in ReadyAnswers(creator.adc, target) :
        creator' = IF ~ready THEN Move(After(creator.stage), "gate")
                   ELSE IF creator.stage = "SETUP" THEN Move("TRUSTED", "gate")
                   ELSE Move(creator.stage, "begin")
  BY DEF Gate
<1>3. PICK passed \in BOOLEAN : ready = ReadyTo(creator.adc.status, target, passed)
  <2>1. \A entry : Passes(entry, creator.adc) \in BOOLEAN
    BY DEF Passes, Reachable, Managed
  <2>2. Answers(StateEntry(creator.adc.status), creator.adc) \subseteq BOOLEAN
    BY <2>1 DEF Answers
  <2> QED BY <2>2 DEF ReadyAnswers
<1>4. creator.adc.status \in AtGate(creator.stage)
  BY <1>1, RunningFacts DEF Fits
<1>5. \A stage, phase : phase \in {"gate", "begin"} =>
        ~Trusting(stage, phase) /\ ~Awaited(stage, phase)
  BY DEF Trusting, Awaited
<1>6. After(creator.stage) \in LaterStage
  BY <1>1 DEF After, Stage, LaterStage
<1>7. CASE ~ready
  <2>1. Fits(After(creator.stage), "gate", creator.adc.status)
    BY <1>1, <1>4, FitsAfter DEF Fits
  <2>2. creator' = Move(After(creator.stage), "gate")
    BY <1>2, <1>7
  <2> QED
    BY <1>1, <1>5, <1>6, <2>1, <2>2, OutsideStays, MoveCalm DEF CreatorPhase
<1>8. CASE ready /\ creator.stage = "SETUP"
  <2>1. Fits("TRUSTED", "gate", creator.adc.status)
    BY <1>4, <1>8 DEF Fits, AtGate, Stage
  <2>2. creator' = Move("TRUSTED", "gate")
    BY <1>2, <1>8
  <2> QED
    BY <1>1, <1>5, <2>1, <2>2, OutsideStays, MoveCalm DEF CreatorPhase, LaterStage, Stage
<1>9. CASE ready /\ creator.stage # "SETUP"
  <2>1. Fits(creator.stage, "begin", creator.adc.status)
    <3>1. CASE creator.stage = "POWERON"
      BY <1>4, <3>1 DEF Fits, AtGate, AtPower, Early
    <3>2. CASE creator.stage # "POWERON"
      <4>1. creator.adc.status = Enters(creator.stage)
        BY <1>1, <1>3, <1>4, <1>9, <3>2, FitsEnter
      <4> QED BY <1>1, <1>9, <3>2, <4>1 DEF Fits
    <3> QED BY <3>1, <3>2
  <2>2. creator' = Move(creator.stage, "begin")
    BY <1>2, <1>9
  <2> QED
    BY <1>1, <1>5, <1>9, <2>1, <2>2, OutsideStays, MoveCalm DEF CreatorPhase, LaterStage
<1> QED BY <1>7, <1>8, <1>9

\* The write a stage begins with.
LEMMA BeginCalm ==
  ASSUME InfraInv, Running, NEW s \in Stage \ {"LICENSED"}, Begin(s) PROVE Calm'
<1>1. creator.stage = s /\ creator.phase = "begin" /\ UNCHANGED <<outside, others>>
  BY DEF Begin, At
<1> DEFINE adc == With(creator.adc, ProgressOf(s))
<1>2. adc \in Adc /\ adc.res = creator.adc.res /\ adc.status = ProgressOf(s)
  BY WithTyped, StatusNames
<1>3. Save(adc, s, "work")
  BY DEF Begin
<1>4. Fits(s, "work", ProgressOf(s)) /\ ProgressOf(s) # "ACTIVE"
  BY DEF Fits, ProgressOf, Stage, Early
<1>5. Says(ProgressOf(s), held', device')
  <2>1. CASE s = "POWERON"
    BY <2>1, StatusNames, SaysNothing
  <2>2. CASE s # "POWERON"
    <3>1. creator.adc.status = Enters(s)
      BY <1>1, <2>2, RunningFacts DEF Fits, Stage
    <3> QED BY <1>1, <2>2, <3>1, OutsideStays, SaysProgress
  <2> QED BY <2>1, <2>2
<1>6. Trusted => Trust \in creator.adc.res
  BY <1>1, RunningFacts DEF Awaited
<1> HIDE DEF adc
<1> QED
  BY <1>1, <1>2, <1>3, <1>4, <1>5, <1>6, OutsideStays, SaveCalm DEF LaterStage, CreatorPhase

\* The awaited write of a stage that failed.
LEMMA FailCalm ==
  ASSUME InfraInv, Running, UNCHANGED others, NEW s \in Stage, NEW next \in LaterStage,
         Fail(s, next), FailureOf(s) \in AtGate(next),
         OwnKey => Licence \notin held',
         Trusted' => Trusted,
         Trusted' => Trust \in creator.adc.res
  PROVE  Calm'
<1> DEFINE adc == With(creator.adc, FailureOf(s))
<1>1. adc \in Adc /\ adc.res = creator.adc.res /\ adc.status = FailureOf(s)
  BY WithTyped, StatusNames
<1>2. Save(adc, next, "gate")
  BY DEF Fail
<1>3. Fits(next, "gate", FailureOf(s)) /\ FailureOf(s) # "ACTIVE"
  BY DEF Fits, FailureOf, Stage
<1>4. Says(FailureOf(s), held', device')
  BY SaysNothing
<1> HIDE DEF adc
<1> QED
  BY <1>1, <1>2, <1>3, <1>4, SaveCalm DEF CreatorPhase

\* A stage's call to the device.
LEMMA CallCalm ==
  ASSUME InfraInv, Running, NEW s \in Stage \ {"POWERON", "LICENSED", "TRUSTED"},
         NEW next \in LaterStage, Call(s, next), FailureOf(s) \in AtGate(next)
  PROVE  Calm'
<1>1. creator.stage = s /\ creator.phase = "work" /\ UNCHANGED <<outside, others>>
  BY DEF Call, At
<1>2. creator.adc.status = ProgressOf(s)
  BY <1>1, RunningFacts DEF Fits
<1>3. /\ ~Trusting(s, "wait") /\ ~Awaited(s, "wait")
      /\ ~Trusting(s, "work") /\ ~Awaited(s, "work")
  BY DEF Trusting, Awaited
<1>4. CASE creator' = Move(s, "wait") /\ UNCHANGED row
  <2>1. Fits(s, "wait", creator.adc.status)
    BY <1>2 DEF Fits
  <2> QED
    BY <1>1, <1>3, <1>4, <2>1, OutsideStays, MoveCalm DEF LaterStage, CreatorPhase
<1>5. CASE Fail(s, next)
  BY <1>1, <1>3, <1>5, RunningFacts, OutsideStays, FailCalm
<1> QED BY <1>4, <1>5 DEF Call

\* createOn going on: it acquires infrastructure, and its status says nothing yet.
LEMMA PowerCalm ==
  ASSUME InfraInv, Running, UNCHANGED <<row, others>>,
         creator.stage = "POWERON", creator.phase # "gate",
         creator'.stage = "POWERON", creator'.phase \in CreatorPhase \ {"gate"},
         creator'.adc.status = creator.adc.status,
         creator.adc.res \subseteq creator'.adc.res,
         OwnKey => Licence \notin held',
         Trusted' => Trusted
  PROVE  Calm'
<1>1. creator.adc.status \in Early
  BY CreatorTyped
<1>2. Fits("POWERON", creator'.phase, creator.adc.status)
  BY <1>1 DEF Fits
<1>3. Says(creator.adc.status, held', device')
  BY <1>1, SaysNothing
<1>4. ~Trusting("POWERON", creator'.phase) /\ ~Trusting("POWERON", creator.phase)
  BY DEF Trusting
<1>5. Trusted => Trust \in creator.adc.res
  BY RunningFacts DEF Awaited
<1>6. UNCHANGED <<reclaim, patch>> /\ "POWERON" \in LaterStage
  BY DEF others, LaterStage, Stage
<1> QED
  BY <1>2, <1>3, <1>4, <1>5, <1>6, CreatorCalm

\* What a resource acquired or lost by createOn leaves as it is.
LEMMA AcquiresOnlyInfra ==
  ASSUME Running, NEW r \in Infra,
         held' = held \/ held' = held \union {r},
         astray' = astray \/ astray' = astray \union {r}
  PROVE  /\ OwnKey => Licence \notin held'
         /\ Trusted' => Trusted
BY RunningFacts, Resources DEF Trusted

\* A failing call of createOn.
LEMMA PowerFailsCalm ==
  ASSUME InfraInv, Running, UNCHANGED others, creator.stage = "POWERON",
         NEW point, NEW r \in Infra, PowerFails(point, {r})
  PROVE  Calm'
<1>1. PICK lost \in SUBSET {r} : /\ CallFails(point, {r}, lost)
                                 /\ astray' = astray \union lost
                                 /\ Fail("POWERON", "END")
  BY DEF PowerFails
<1>2. /\ held' = held \/ held' = held \union {r}
      /\ astray' = astray \/ astray' = astray \union {r}
  BY <1>1 DEF CallFails
<1>3. Trusted => Trust \in creator.adc.res
  BY RunningFacts DEF Awaited
<1> QED
  BY <1>1, <1>2, <1>3, AcquiresOnlyInfra, FitsFailed, FailCalm DEF LaterStage, Stage

\* createOn.
LEMMA CreateOnCalm == ASSUME InfraInv, Running, CreateOn PROVE Calm'
<1>1. CASE Begin("POWERON")
  BY <1>1, BeginCalm DEF Stage
<1>2. ASSUME NEW n \in Networks, CreatePort(n) PROVE Calm'
  <2>1. /\ creator.stage = "POWERON" /\ creator.phase = "work"
        /\ UNCHANGED others /\ Port(n) \in Infra /\ Port(n) \in Resource
    BY <1>2, Resources DEF CreatePort, At
  <2>2. CASE PowerFails("createPort", {Port(n)})
    BY <2>1, <2>2, PowerFailsCalm
  <2>3. CASE /\ held' = held \union {Port(n)}
             /\ creator' = [creator EXCEPT !.adc.res = @ \union {Port(n)},
                                           !.phase = IF n \in Floating THEN "fip" ELSE "save",
                                           !.net = n]
             /\ UNCHANGED <<row, device, astray>>
    <3> DEFINE phase == IF n \in Floating THEN "fip" ELSE "save"
    <3>1. phase \in CreatorPhase \ {"gate"}
      BY DEF CreatorPhase
    <3> HIDE DEF phase
    <3>2. /\ creator'.stage = "POWERON" /\ creator'.phase = phase
          /\ creator'.adc.res = creator.adc.res \union {Port(n)}
          /\ creator'.adc.status = creator.adc.status
      BY <2>1, <2>3, <3>1, Acquired DEF phase
    <3>3. UNCHANGED <<row, others>>
      BY <2>1, <2>3
    <3> QED
      BY <2>1, <2>3, <3>1, <3>2, <3>3, AcquiresOnlyInfra, PowerCalm
  <2> QED BY <1>2, <2>2, <2>3 DEF CreatePort
<1>3. CASE FloatingIp
  <2> DEFINE n == creator.net
  <2>1. /\ creator.stage = "POWERON" /\ creator.phase = "fip" /\ UNCHANGED others
        /\ n \in Networks /\ Fip(n) \in Infra /\ Fip(n) \in Resource
    BY <1>3, Resources DEF FloatingIp, At, InfraInv, CopiesPaired
  <2>2. CASE creator' = Move("POWERON", "save") /\ UNCHANGED <<row, outside>>
    <3>1. creator'.stage = "POWERON" /\ creator'.phase = "save" /\ creator'.adc = creator.adc
      BY <2>2, CreatorTyped DEF Move, CreatorState
    <3>2. "save" \in CreatorPhase \ {"gate"} /\ UNCHANGED <<row, others>>
      BY <2>1, <2>2 DEF CreatorPhase
    <3> QED
      BY <2>1, <2>2, <3>1, <3>2, OutsideStays, PowerCalm
  <2>3. CASE PowerFails("floatingIp", {Fip(n)})
    BY <2>1, <2>3, PowerFailsCalm
  <2>4. CASE /\ held' = held \union {Fip(n)}
             /\ creator' = [creator EXCEPT !.adc.res = @ \union {Fip(n)}, !.phase = "save"]
             /\ UNCHANGED <<row, device, astray>>
    <3>1. creator' = [creator EXCEPT !.adc.res = @ \union {Fip(n)}, !.phase = "save", !.net = n]
      BY <2>4, CreatorTyped DEF CreatorState
    <3>2. "save" \in CreatorPhase \ {"gate"} /\ UNCHANGED <<row, others>>
      BY <2>1, <2>4 DEF CreatorPhase
    <3> HIDE DEF n
    <3>3. /\ creator'.stage = "POWERON" /\ creator'.phase = "save"
          /\ creator'.adc.res = creator.adc.res \union {Fip(n)}
          /\ creator'.adc.status = creator.adc.status
      BY <2>1, <3>1, <3>2, Acquired
    <3> QED
      BY <2>1, <2>4, <3>2, <3>3, AcquiresOnlyInfra, PowerCalm
  <2> QED BY <1>3, <2>2, <2>3, <2>4 DEF FloatingIp
<1>4. CASE SaveNetwork
  <2>1. /\ creator.stage = "POWERON" /\ creator.phase = "save"
        /\ creator.adc.status \in Early /\ creator.adc \in Adc
        /\ UNCHANGED <<outside, others>> /\ Save(creator.adc, "POWERON", "work")
    BY <1>4, CreatorTyped DEF SaveNetwork, At
  <2>2. Fits("POWERON", "work", creator.adc.status) /\ creator.adc.status # "ACTIVE"
    BY <2>1 DEF Fits, Early
  <2>3. Trusted => Trust \in creator.adc.res
    BY <2>1, RunningFacts DEF Awaited
  <2> QED
    BY <2>1, <2>2, <2>3, OutsideStays, SaveCalm DEF LaterStage, Stage, CreatorPhase
<1>5. CASE CreateServer
  <2>1. /\ creator.stage = "POWERON" /\ creator.phase = "work"
        /\ UNCHANGED others /\ Server \in Infra /\ Server \in Resource
    BY <1>5, Resources DEF CreateServer, At
  <2>2. CASE PowerFails("createServer", {Server})
    BY <2>1, <2>2, PowerFailsCalm
  <2>3. CASE /\ held' = held \union {Server}
             /\ creator' = [creator EXCEPT !.adc.res = @ \union {Server}, !.phase = "wait"]
             /\ UNCHANGED <<row, astray>>
    <3>1. creator' = [creator EXCEPT !.adc.res = @ \union {Server}, !.phase = "wait",
                                     !.net = creator.net]
      BY <2>3, CreatorTyped DEF CreatorState
    <3>2. /\ "wait" \in CreatorPhase \ {"gate"} /\ UNCHANGED <<row, others>>
          /\ creator.net \in Networks \union {NoNet}
      BY <2>1, <2>3, CreatorTyped DEF CreatorPhase, CreatorState
    <3>3. /\ creator'.stage = "POWERON" /\ creator'.phase = "wait"
          /\ creator'.adc.res = creator.adc.res \union {Server}
          /\ creator'.adc.status = creator.adc.status
      BY <2>1, <3>1, <3>2, Acquired
    <3> QED
      BY <2>1, <2>3, <3>2, <3>3, AcquiresOnlyInfra, PowerCalm
  <2> QED BY <1>5, <2>2, <2>3 DEF CreateServer
<1>6. CASE WaitPowerOn
  <2>1. /\ creator.stage = "POWERON" /\ UNCHANGED others
        /\ ~Trusting(creator.stage, creator.phase)
        /\ Trusted => Trust \in creator.adc.res
    BY <1>6, RunningFacts DEF WaitPowerOn, At, Trusting, Awaited
  <2>2. CASE /\ Server \in held
             /\ device' = device \union {"boot"}
             /\ SaveLater(With(creator.adc, "POWERON"), "DOINSTALLED")
             /\ UNCHANGED <<held, astray>>
    <3>1. /\ With(creator.adc, "POWERON") \in Adc
          /\ With(creator.adc, "POWERON").status = "POWERON"
          /\ With(creator.adc, "POWERON").res = creator.adc.res
      BY WithTyped, StatusNames DEF Stage
    <3>2. Says("POWERON", held', device')
      BY <2>2, SaysDone
    <3>3. (OwnKey => Licence \notin held') /\ (Trusted' => Trusted)
      BY <2>2, RunningFacts DEF Trusted
    <3> QED
      BY <2>1, <2>2, <3>1, <3>2, <3>3, FitsDone, SaveLaterCalm DEF LaterStage, Stage
  <2>3. CASE Fail("POWERON", "END") /\ UNCHANGED outside
    BY <2>1, <2>3, OutsideStays, FitsFailed, FailCalm DEF LaterStage, Stage
  <2> QED BY <1>6, <2>2, <2>3 DEF WaitPowerOn
<1> QED BY <1>1, <1>2, <1>3, <1>4, <1>5, <1>6 DEF CreateOn

\* What a poll knows while it waits, and what it leaves as it is.
LEMMA PollFacts ==
  ASSUME InfraInv, Running, NEW s \in Stage \ {"POWERON", "TRUSTED"},
         creator.stage = s, creator.phase = "wait",
         UNCHANGED <<held, astray>>, NEW f, device' = device \/ device' = device \union {f}
  PROVE  /\ s = "LICENSED" => creator.adc.status = Enters(s)
         /\ s # "LICENSED" => creator.adc.status = ProgressOf(s)
         /\ Says(creator.adc.status, held', device')
         /\ ~Trusting(creator.stage, creator.phase)
         /\ OwnKey => Licence \notin held'
         /\ Trusted' <=> Trusted
         /\ Trusted => Trust \in creator.adc.res
<1>1. Fits(s, "wait", creator.adc.status) /\ Says(creator.adc.status, held, device)
  BY RunningFacts
<1>2. Says(creator.adc.status, held', device')
  BY <1>1, SaysMore
<1>3. ~Trusting(creator.stage, creator.phase) /\ ~Awaited(creator.stage, creator.phase)
  BY DEF Trusting, Awaited
<1>4. /\ s = "LICENSED" => creator.adc.status = Enters(s)
      /\ s # "LICENSED" => creator.adc.status = ProgressOf(s)
  BY <1>1 DEF Fits
<1>5. Trusted' <=> Trusted
  BY DEF Trusted
<1> QED BY <1>2, <1>3, <1>4, <1>5, RunningFacts

\* A poll that ends well: the copy that says so.
LEMMA WithDone ==
  ASSUME InfraInv, NEW s \in (Stage \ {"TRUSTED"}) \union {"ACTIVE"}
  PROVE  /\ With(creator.adc, s) \in Adc
         /\ With(creator.adc, s).status = s
         /\ With(creator.adc, s).res = creator.adc.res
BY WithTyped, StatusNames

\* installDO.
LEMMA InstallDOCalm == ASSUME InfraInv, Running, InstallDO PROVE Calm'
<1>1. CASE Await("DOINSTALLED", "do",
                 SaveLater(With(creator.adc, "DOINSTALLED"), "LICENSED"),
                 Fail("DOINSTALLED", "LICENSED"))
  <2>1. /\ creator.stage = "DOINSTALLED" /\ creator.phase = "wait"
        /\ UNCHANGED <<held, astray>> /\ UNCHANGED others
        /\ device' = device \/ device' = device \union {"do"}
    BY <1>1 DEF Await, At
  <2>2. CASE /\ Server \in held /\ device' = device \union {"do"}
             /\ SaveLater(With(creator.adc, "DOINSTALLED"), "LICENSED")
    <3>1. Says("DOINSTALLED", held', device')
      BY <2>1, <2>2, PollFacts, SaysDone DEF Stage, ProgressOf
    <3> QED
      BY <2>1, <2>2, <3>1, PollFacts, WithDone, FitsDone, SaveLaterCalm DEF LaterStage, Stage
  <2>3. CASE Fail("DOINSTALLED", "LICENSED")
    BY <2>1, <2>3, PollFacts, FitsFailed, FailCalm DEF LaterStage, Stage
  <2> QED BY <1>1, <2>2, <2>3 DEF Await
<1>2. CASE Begin("DOINSTALLED")
  BY <1>2, BeginCalm DEF Stage
<1>3. CASE Call("DOINSTALLED", "LICENSED")
  BY <1>3, CallCalm, FitsFailed DEF LaterStage, Stage
<1> QED BY <1>1, <1>2, <1>3 DEF InstallDO

\* licenseAdc.
LEMMA LicenseAdcCalm == ASSUME InfraInv, Running, LicenseAdc PROVE Calm'
<1>0. /\ With(creator.adc, "LICENSED") \in Adc
      /\ With(creator.adc, "LICENSED").status = "LICENSED"
      /\ With(creator.adc, "LICENSED").res = creator.adc.res
      /\ "LICENSED" \in LaterStage /\ "ONBOARDED" \in LaterStage
      /\ Fits("ONBOARDED", "gate", "LICENSED")
  BY WithDone, FitsDone DEF LaterStage, Stage, Fits
<1>1. \A phase : ~Trusting("LICENSED", phase) /\ ~Awaited("LICENSED", phase)
  BY DEF Trusting, Awaited
<1>2. CASE LicenseCheck
  <2>1. /\ creator.stage = "LICENSED" /\ creator.phase = "begin"
        /\ UNCHANGED <<outside, others>>
    BY <1>2 DEF LicenseCheck, At
  <2>2. creator.adc.status = "DOINSTALLED"
    BY <2>1, RunningFacts DEF Fits, Enters, Stage
  <2>3. Trusted => Trust \in creator.adc.res
    BY <1>1, <2>1, RunningFacts
  <2>4. PICK already \in Answers("LICENSED", creator.adc) :
          IF already
          THEN Save(With(creator.adc, "LICENSED"), "ONBOARDED", "gate")
          ELSE creator' = Move("LICENSED", "work") /\ UNCHANGED row
    BY <1>2 DEF LicenseCheck
  <2>5. CASE already
    <3>1. Passes("LICENSED", creator.adc)
      BY <2>4, <2>5 DEF Answers
    <3>2. Server \in held' /\ "license" \in device'
      BY <2>1, <3>1 DEF Passes, Reachable, outside
    <3>3. Says("LICENSED", held', device')
      BY <2>1, <2>2, <3>2, OutsideStays, SaysDone
    <3>4. Save(With(creator.adc, "LICENSED"), "ONBOARDED", "gate")
      BY <2>4, <2>5
    <3> QED
      BY <1>0, <2>1, <2>3, <3>3, <3>4, OutsideStays, SaveCalm DEF CreatorPhase
  <2>6. CASE ~already
    <3>1. Fits("LICENSED", "work", creator.adc.status)
      BY <2>2 DEF Fits, Enters, Stage
    <3>2. creator' = Move("LICENSED", "work") /\ UNCHANGED <<row, others>>
      BY <2>1, <2>4, <2>6
    <3> QED
      BY <1>0, <1>1, <2>1, <3>1, <3>2, OutsideStays, MoveCalm DEF CreatorPhase
  <2> QED BY <2>5, <2>6
<1>3. CASE AssignLicense
  <2>1. /\ creator.stage = "LICENSED" /\ creator.phase = "work"
        /\ UNCHANGED <<device, astray>> /\ UNCHANGED others
        /\ held' = held \/ held' = held \union {Licence}
        /\ OwnKey => held' = held
    BY <1>3 DEF AssignLicense, At
  <2>2. creator.adc.status = "DOINSTALLED" /\ Fits("LICENSED", "wait", creator.adc.status)
    BY <2>1, RunningFacts DEF Fits, Enters, Stage
  <2>3. /\ Says(creator.adc.status, held', device')
        /\ OwnKey => Licence \notin held'
        /\ Trusted' => Trusted
        /\ Trusted => Trust \in creator.adc.res
    BY <1>1, <2>1, RunningFacts, SaysMore, TrustApart DEF Trusted
  <2>4. CASE creator' = Move("LICENSED", "wait") /\ UNCHANGED row
    BY <1>0, <1>1, <2>1, <2>2, <2>3, <2>4, MoveCalm DEF CreatorPhase
  <2>5. CASE Fail("LICENSED", "ONBOARDED")
    BY <1>0, <2>1, <2>3, <2>5, FitsFailed, FailCalm DEF Stage
  <2> QED BY <1>3, <2>4, <2>5 DEF AssignLicense
<1>4. CASE Await("LICENSED", "license",
                 Save(With(creator.adc, "LICENSED"), "ONBOARDED", "gate"),
                 Fail("LICENSED", "ONBOARDED"))
  <2>1. /\ creator.stage = "LICENSED" /\ creator.phase = "wait"
        /\ UNCHANGED <<held, astray>> /\ UNCHANGED others
        /\ device' = device \/ device' = device \union {"license"}
    BY <1>4 DEF Await, At
  <2>2. CASE /\ Server \in held /\ device' = device \union {"license"}
             /\ Save(With(creator.adc, "LICENSED"), "ONBOARDED", "gate")
    <3>1. Says("LICENSED", held', device')
      BY <2>1, <2>2, PollFacts, SaysDone DEF Stage, Enters
    <3> QED
      BY <1>0, <2>1, <2>2, <3>1, PollFacts, SaveCalm DEF CreatorPhase, Stage
  <2>3. CASE Fail("LICENSED", "ONBOARDED")
    BY <1>0, <2>1, <2>3, PollFacts, FitsFailed, FailCalm DEF Stage
  <2> QED BY <1>4, <2>2, <2>3 DEF Await
<1> QED BY <1>2, <1>3, <1>4 DEF LicenseAdc

\* onboard.
LEMMA OnboardCalm == ASSUME InfraInv, Running, Onboard PROVE Calm'
<1>1. CASE Await("ONBOARDED", "onboard",
                 SaveLater(With(creator.adc, "ONBOARDED"), "SETUP"),
                 SaveLater(With(creator.adc, "ONBOARDERROR"), "SETUP"))
  <2>1. /\ creator.stage = "ONBOARDED" /\ creator.phase = "wait"
        /\ UNCHANGED <<held, astray>> /\ UNCHANGED others
        /\ device' = device \/ device' = device \union {"onboard"}
    BY <1>1 DEF Await, At
  <2>2. CASE /\ Server \in held /\ device' = device \union {"onboard"}
             /\ SaveLater(With(creator.adc, "ONBOARDED"), "SETUP")
    <3>1. Says("ONBOARDED", held', device')
      BY <2>1, <2>2, PollFacts, SaysDone DEF Stage, ProgressOf
    <3> QED
      BY <2>1, <2>2, <3>1, PollFacts, WithDone, FitsDone, SaveLaterCalm DEF LaterStage, Stage
  <2>3. CASE SaveLater(With(creator.adc, "ONBOARDERROR"), "SETUP")
    <3>1. FailureOf("ONBOARDED") = "ONBOARDERROR" /\ "ONBOARDERROR" \in Status
      BY StatusNames DEF FailureOf, Stage
    <3>2. Says("ONBOARDERROR", held', device') /\ "ONBOARDERROR" \in AtGate("SETUP")
      BY <3>1, SaysNothing, FitsFailed DEF Stage
    <3> QED
      BY <2>1, <2>3, <3>1, <3>2, PollFacts, WithTyped, SaveLaterCalm DEF LaterStage, Stage
  <2> QED BY <1>1, <2>2, <2>3 DEF Await
<1>2. CASE Begin("ONBOARDED")
  BY <1>2, BeginCalm DEF Stage
<1>3. CASE Call("ONBOARDED", "END")
  BY <1>3, CallCalm, FitsFailed DEF LaterStage, Stage
<1> QED BY <1>1, <1>2, <1>3 DEF Onboard

\* trustAdc.
LEMMA TrustAdcCalm == ASSUME InfraInv, Running, TrustAdc PROVE Calm'
<1>0. /\ "TRUSTED" \in LaterStage \ {"END"} /\ "INSTALLED" \in LaterStage /\ "TRUSTED" \in Stage
      /\ Trusting("TRUSTED", "work") /\ Trusting("TRUSTED", "wait")
      /\ Awaited("TRUSTED", "wait") /\ ~Awaited("TRUSTED", "work")
  BY DEF LaterStage, Stage, Trusting, Awaited
<1>1. CASE TrustCall
  <2>1. creator.stage = "TRUSTED" /\ creator.phase = "work" /\ UNCHANGED others
    BY <1>1 DEF TrustCall, At
  <2>2. CASE /\ held' = held \union {Trust}
             /\ creator' = Move("TRUSTED", "wait")
             /\ UNCHANGED <<row, device, astray>>
    <3>1. Fits("TRUSTED", "wait", creator.adc.status)
      BY <2>1, RunningFacts DEF Fits, Stage
    <3>2. Says(creator.adc.status, held', device') /\ (OwnKey => Licence \notin held')
      BY <2>2, RunningFacts, SaysMore, TrustApart
    <3>3. UNCHANGED <<row, others>>
      BY <2>1, <2>2
    <3> QED
      BY <1>0, <2>1, <2>2, <3>1, <3>2, <3>3, MoveCalm DEF CreatorPhase
  <2>3. CASE \E lost \in SUBSET {Trust} : /\ CallFails("TRUSTED", {Trust}, lost)
                                         /\ astray' = astray \union lost
                                         /\ Fail("TRUSTED", "INSTALLED")
    <3>1. PICK lost \in SUBSET {Trust} : /\ held' = held \union lost
                                         /\ astray' = astray \union lost
      BY <2>3 DEF CallFails
    <3>2. (OwnKey => Licence \notin held') /\ (Trusted' => Trusted)
      BY <3>1, RunningFacts, TrustApart DEF Trusted
    <3>3. Trusted => Trust \in creator.adc.res
      BY <1>0, <2>1, RunningFacts
    <3> QED
      BY <1>0, <2>1, <2>3, <3>2, <3>3, FitsFailed, FailCalm
  <2> QED BY <1>1, <2>2, <2>3 DEF TrustCall
<1>2. CASE TrustWait
  <2>1. /\ creator.stage = "TRUSTED" /\ creator.phase = "wait"
        /\ UNCHANGED <<held, device>> /\ UNCHANGED others
    BY <1>2 DEF TrustWait, At
  <2>2. CASE /\ {Server, Trust} \subseteq held
             /\ Save([status |-> "TRUSTED", res |-> creator.adc.res \union {Trust}],
                     "INSTALLED", "gate")
             /\ UNCHANGED astray
    <3> DEFINE adc == [status |-> "TRUSTED", res |-> creator.adc.res \union {Trust}]
    <3>1. adc \in Adc /\ Trust \in adc.res /\ adc.status = "TRUSTED"
      BY CreatorTyped, Resources, StatusNames DEF Adc, Stage
    <3>2. creator.adc.status = "TRUSTING" /\ Says(creator.adc.status, held, device)
      BY <2>1, RunningFacts DEF Fits, ProgressOf, Stage
    <3>3. Says("TRUSTED", held', device')
      BY <2>1, <2>2, <3>2, SaysDone
    <3>4. Fits("INSTALLED", "gate", "TRUSTED")
      BY FitsDone DEF Fits
    <3>5. (OwnKey => Licence \notin held') /\ (Trusted' => Trusted)
      BY <2>1, <2>2, RunningFacts DEF Trusted
    <3>6. Save(adc, "INSTALLED", "gate")
      BY <2>2
    <3> HIDE DEF adc
    <3> QED
      BY <1>0, <2>1, <3>1, <3>3, <3>4, <3>5, <3>6, SaveCalm DEF CreatorPhase
  <2>3. CASE Fail("TRUSTED", "INSTALLED") /\ astray' = astray \union (held \intersect {Trust})
    <3>1. (OwnKey => Licence \notin held') /\ ~Trusted'
      BY <2>1, <2>3, RunningFacts DEF Trusted
    <3> QED
      BY <1>0, <2>1, <2>3, <3>1, FitsFailed, FailCalm
  <2> QED BY <1>2, <2>2, <2>3 DEF TrustWait
<1>3. CASE Begin("TRUSTED")
  BY <1>3, BeginCalm DEF Stage
<1> QED BY <1>1, <1>2, <1>3 DEF TrustAdc

\* installAS3.
LEMMA InstallAS3Calm == ASSUME InfraInv, Running, InstallAS3 PROVE Calm'
<1>1. CASE Await("INSTALLED", "as3",
                 Save(With(creator.adc, "INSTALLED"), "PARTITIONED", "gate"),
                 Fail("INSTALLED", "PARTITIONED"))
  <2>1. /\ creator.stage = "INSTALLED" /\ creator.phase = "wait"
        /\ UNCHANGED <<held, astray>> /\ UNCHANGED others
        /\ device' = device \/ device' = device \union {"as3"}
    BY <1>1 DEF Await, At
  <2>2. CASE /\ Server \in held /\ device' = device \union {"as3"}
             /\ Save(With(creator.adc, "INSTALLED"), "PARTITIONED", "gate")
    <3>1. Says("INSTALLED", held', device')
      BY <2>1, <2>2, PollFacts, SaysDone DEF Stage, ProgressOf
    <3>2. Fits("PARTITIONED", "gate", "INSTALLED")
      BY FitsDone DEF Fits
    <3>3. /\ With(creator.adc, "INSTALLED") \in Adc
          /\ With(creator.adc, "INSTALLED").status = "INSTALLED"
          /\ With(creator.adc, "INSTALLED").res = creator.adc.res
      BY WithDone DEF Stage
    <3> QED
      BY <2>1, <2>2, <3>1, <3>2, <3>3, PollFacts, SaveCalm DEF LaterStage, Stage, CreatorPhase
  <2>3. CASE Fail("INSTALLED", "PARTITIONED")
    BY <2>1, <2>3, PollFacts, FitsFailed, FailCalm DEF LaterStage, Stage
  <2> QED BY <1>1, <2>2, <2>3 DEF Await
<1>2. CASE Begin("INSTALLED")
  BY <1>2, BeginCalm DEF Stage
<1>3. CASE Call("INSTALLED", "PARTITIONED")
  BY <1>3, CallCalm, FitsFailed DEF LaterStage, Stage
<1> QED BY <1>1, <1>2, <1>3 DEF InstallAS3

\* installPartition.
LEMMA InstallPartitionCalm == ASSUME InfraInv, Running, InstallPartition PROVE Calm'
<1>1. CASE Await("PARTITIONED", "partition",
                 SaveLater(With(creator.adc, "ACTIVE"), "END"),
                 SaveLater(With(creator.adc, "PARTITIONERROR"), "END"))
  <2>1. /\ creator.stage = "PARTITIONED" /\ creator.phase = "wait"
        /\ UNCHANGED <<held, astray>> /\ UNCHANGED others
        /\ device' = device \/ device' = device \union {"partition"}
    BY <1>1 DEF Await, At
  <2>2. CASE /\ Server \in held /\ device' = device \union {"partition"}
             /\ SaveLater(With(creator.adc, "ACTIVE"), "END")
    <3>1. Says("ACTIVE", held', device')
      BY <2>1, <2>2, PollFacts, SaysDone DEF Stage, ProgressOf
    <3> QED
      BY <2>1, <2>2, <3>1, PollFacts, WithDone, FitsDone, SaveLaterCalm DEF LaterStage, Stage
  <2>3. CASE SaveLater(With(creator.adc, "PARTITIONERROR"), "END")
    <3>1. FailureOf("PARTITIONED") = "PARTITIONERROR" /\ "PARTITIONERROR" \in Status
      BY StatusNames DEF FailureOf, Stage
    <3>2. Says("PARTITIONERROR", held', device') /\ "PARTITIONERROR" \in AtGate("END")
      BY <3>1, SaysNothing, FitsFailed DEF Stage
    <3> QED
      BY <2>1, <2>3, <3>1, <3>2, PollFacts, WithTyped, SaveLaterCalm DEF LaterStage, Stage
  <2> QED BY <1>1, <2>2, <2>3 DEF Await
<1>2. CASE Begin("PARTITIONED")
  BY <1>2, BeginCalm DEF Stage
<1>3. CASE Call("PARTITIONED", "END")
  BY <1>3, CallCalm, FitsFailed DEF LaterStage, Stage
<1> QED BY <1>1, <1>2, <1>3 DEF InstallPartition

\* A write nobody awaited, when it reaches the database.
LEMMA LateWriteCalm == ASSUME InfraInv, Running, LateWrite PROVE Calm'
<1>1. /\ creator'.stage = creator.stage /\ creator'.phase = creator.phase
      /\ creator'.adc = creator.adc /\ creator'.late = FALSE
      /\ row' = creator.adc /\ UNCHANGED <<outside, others>>
  BY CreatorTyped, RunningFacts DEF LateWrite, CreatorState, Write
<1>2. creator.stage \in LaterStage /\ creator.adc \in Adc
  BY CreatorTyped DEF CreatorState, LaterStage, Running
<1>3. UNCHANGED <<reclaim, patch>>
  BY <1>1 DEF others
<1> QED
  BY <1>1, <1>2, <1>3, RunningFacts, OutsideStays, CreatorCalm

\* The job POST starts.
LEMMA CreationCalmly == ASSUME InfraInv, Calm, Creation PROVE Calm'
<1>1. Running
  BY DEF Creation, Running, Busy, Gate, CreateOn, Begin, CreatePort, FloatingIp, SaveNetwork,
         CreateServer, WaitPowerOn, InstallDO, LicenseAdc, LicenseCheck, AssignLicense, Onboard,
         TrustAdc, TrustCall, TrustWait, InstallAS3, InstallPartition, LateWrite, Call, Await,
         At, Stage, InfraInv, CreationExclusive
<1> QED
  BY <1>1, GateCalm, CreateOnCalm, InstallDOCalm, LicenseAdcCalm, OnboardCalm, TrustAdcCalm,
     InstallAS3Calm, InstallPartitionCalm, LateWriteCalm DEF Creation
-------------------------------------------------------------------------------
(* While nothing has gone amiss: reclaiming. *)

\* A DELETE that has been accepted, while nothing has gone amiss.
LEMMA AcceptedFacts ==
  ASSUME InfraInv, Calm, NEW d \in Deletes, reclaim[d].phase \in Accepted
  PROVE  /\ ~Busy /\ creator.stage # "POST"
         /\ row.status # "TRUSTING"
         /\ row.status = "ACTIVE" => reclaim[d].phase = "enter"
         /\ row # NoRow /\ Trusted => Trust \in row.res
         /\ row = NoRow => ~Trusted /\ Licence \notin held
         /\ reclaim[d].phase \in {"enter", "trust"} =>
              (Trusted => Trust \in reclaim[d].adc.res)
         /\ reclaim[d].phase \notin {"enter", "trust"} => ~Trusted
         /\ reclaim[d].phase \in {"vm", "network", "fip", "remove"} => Licence \notin held
<1>1. ~Busy /\ creator.stage # "POST"
  BY ReclaimTyped DEF Calm, CreationCalm
<1>2. row.status # "TRUSTING"
  BY <1>1 DEF Calm, StuckTrusting
<1>3. row.status = "ACTIVE" => reclaim[d].phase = "enter"
  BY DEF Calm, ActiveCalm
<1>4. /\ row # NoRow /\ Trusted => Trust \in row.res
      /\ row = NoRow => ~Trusted /\ Licence \notin held
  BY <1>1, <1>2 DEF Calm, RowTrusts, GoneCalm, Gone
<1> QED BY <1>1, <1>2, <1>3, <1>4 DEF Calm, ReclaimCalm

\* A step of an accepted DELETE keeps Calm when what it leaves behind in the
\* database and in its copy names the trusted device as long as there is one.
LEMMA ReclaimCalmStep ==
  ASSUME InfraInv, Calm, NEW d \in Deletes, reclaim[d].phase \in Accepted,
         \A e \in Deletes \ {d} : reclaim'[e] = reclaim[e],
         UNCHANGED creator, held' \subseteq held, Trusted' => Trusted,
         \/ row' = row /\ (reclaim[d].phase # "enter" \/ row = NoRow)
         \/ /\ row' # NoRow /\ row'.status \notin {"TRUSTING", "ACTIVE"}
            /\ Trusted' => Trust \in row'.res
         \/ row' = NoRow /\ ~Trusted' /\ Licence \notin held',
         reclaim'[d].phase \in {"enter", "trust"} =>
           (Trusted' => Trust \in reclaim'[d].adc.res),
         reclaim'[d].phase \in Accepted \ {"enter", "trust"} => ~Trusted',
         reclaim'[d].phase \in {"vm", "network", "fip", "remove"} => Licence \notin held'
  PROVE  Calm'
<1>1. ~Busy'
  BY AcceptedFacts DEF Busy
<1>2. row'.status # "TRUSTING" /\ row'.status # "ACTIVE"
  <2>1. NoRow.status = "none"
    BY DEF NoRow
  <2> QED BY <2>1, AcceptedFacts
<1>3. CreationCalm' /\ StuckTrusting' /\ ActiveCalm'
  BY <1>1, <1>2 DEF CreationCalm, StuckTrusting, ActiveCalm
<1>4. RowTrusts'
  BY AcceptedFacts DEF RowTrusts
<1>5. ReclaimCalm'
  <2> SUFFICES ASSUME NEW e \in Deletes
               PROVE  /\ reclaim'[e].phase \in {"enter", "trust"} =>
                           (Trusted' => Trust \in reclaim'[e].adc.res)
                      /\ reclaim'[e].phase \in Accepted \ {"enter", "trust"} => ~Trusted'
                      /\ reclaim'[e].phase \in {"vm", "network", "fip", "remove"} =>
                           Licence \notin held'
    BY DEF ReclaimCalm
  <2> QED BY DEF Calm, ReclaimCalm
<1>6. GoneCalm' /\ OwnLicence'
  BY AcceptedFacts DEF GoneCalm, Gone, OwnLicence, Calm
<1> QED BY <1>3, <1>4, <1>5, <1>6 DEF Calm

\* What a deleteOn that goes on to a phase makes of the jobs.
LEMMA ToFields ==
  ASSUME InfraInv, NEW d \in Deletes, NEW phase, To(d, phase)
  PROVE  /\ reclaim'[d].phase = phase /\ reclaim'[d].adc = reclaim[d].adc
         /\ \A e \in Deletes \ {d} : reclaim'[e] = reclaim[e]
BY ReclaimTyped DEF To, InfraInv, TypeOK, ReclaimState

\* An awaited write of deleteOn.
LEMMA SaveReclaimFields ==
  ASSUME InfraInv, NEW d \in Deletes, NEW adc \in Adc, NEW phase, NEW todo,
         SaveReclaim(d, adc, phase, todo)
  PROVE  /\ row = NoRow => /\ row' = row /\ reclaim'[d].phase = "fail"
         /\ row # NoRow => /\ row' = adc /\ row' # NoRow
                           /\ reclaim'[d].phase = phase /\ reclaim'[d].adc = adc
         /\ \A e \in Deletes \ {d} : reclaim'[e] = reclaim[e]
<1>1. row' = IF row = NoRow THEN NoRow ELSE adc
  BY DEF SaveReclaim, Write
<1>2. reclaim' = [reclaim EXCEPT ![d] =
                    IF row = NoRow THEN [reclaim[d] EXCEPT !.phase = "fail"]
                    ELSE [reclaim[d] EXCEPT !.phase = phase, !.adc = adc, !.todo = todo]]
  BY DEF SaveReclaim
<1>3. CASE row = NoRow
  BY <1>1, <1>2, <1>3, ReclaimTyped DEF InfraInv, TypeOK, ReclaimState
<1>4. CASE row # NoRow
  BY <1>1, <1>2, <1>4, NoRowUntyped, ReclaimTyped DEF InfraInv, TypeOK, ReclaimState
<1> QED BY <1>3, <1>4

\* Writing RECLAIMING, and untrustAdc.
LEMMA ReclaimBeginCalm ==
  ASSUME InfraInv, Calm, NEW d \in Deletes, ReclaimBegin(d) PROVE Calm'
<1>1. /\ reclaim[d].phase = "enter" /\ reclaim[d].phase \in Accepted
      /\ UNCHANGED <<creator, held, astray>>
      /\ SaveReclaim(d, With(reclaim[d].adc, "RECLAIMING"), "trust", {})
  BY DEF ReclaimBegin, Accepted, Live, rest, outside
<1>2. /\ With(reclaim[d].adc, "RECLAIMING") \in Adc
      /\ With(reclaim[d].adc, "RECLAIMING").res = reclaim[d].adc.res
      /\ With(reclaim[d].adc, "RECLAIMING").status = "RECLAIMING"
  BY WithReclaim, StatusNames, ReclaimTyped DEF With, Adc
<1>3. Trusted' <=> Trusted
  BY <1>1 DEF Trusted
<1> QED
  BY <1>1, <1>2, <1>3, AcceptedFacts, SaveReclaimFields, ReclaimCalmStep

LEMMA UntrustCalm ==
  ASSUME InfraInv, Calm, NEW d \in Deletes, Untrust(d) PROVE Calm'
<1>1. /\ reclaim[d].phase = "trust" /\ reclaim[d].phase \in Accepted
      /\ UNCHANGED creator
  BY DEF Untrust, Accepted, Live, rest
<1>2. Trusted => Trust \in reclaim[d].adc.res
  BY <1>1, AcceptedFacts
<1>3. held' \subseteq held /\ ~Trusted'
  BY <1>2 DEF Untrust, Trusted
<1>4. CASE To(d, "license") /\ UNCHANGED row
  BY <1>1, <1>3, <1>4, ToFields, ReclaimCalmStep
<1>5. CASE SaveReclaim(d, With(reclaim[d].adc, "TRUSTERROR"), "license", {})
  <2>1. "TRUSTERROR" \in Status
    BY DEF Status, Failure, CreateFailure
  <2>2. /\ With(reclaim[d].adc, "TRUSTERROR") \in Adc
        /\ With(reclaim[d].adc, "TRUSTERROR").status = "TRUSTERROR"
    BY <2>1, WithReclaim, ReclaimTyped DEF With, Adc
  <2> QED
    BY <1>1, <1>3, <1>5, <2>2, SaveReclaimFields, ReclaimCalmStep
<1> QED BY <1>4, <1>5 DEF Untrust

\* unLicense: a license of the request's own was never taken.
LEMMA RevokeCalm ==
  ASSUME InfraInv, Calm, NEW d \in Deletes, Revoke(d) PROVE Calm'
<1>1. /\ reclaim[d].phase = "license" /\ reclaim[d].phase \in Accepted
      /\ UNCHANGED <<creator, row, astray>> /\ held' \subseteq held
  BY DEF Revoke, Accepted, Live, rest
<1>2. ~Trusted'
  BY <1>1, AcceptedFacts DEF Trusted
<1>3. CASE To(d, "fail")
  BY <1>1, <1>2, <1>3, ToFields, ReclaimCalmStep
<1>4. CASE To(d, "vm") /\ held' = IF OwnKey THEN held ELSE held \ {Licence}
  <2>1. Licence \notin held'
    BY <1>4 DEF Calm, OwnLicence
  <2> QED
    BY <1>1, <1>2, <1>4, <2>1, ToFields, ReclaimCalmStep
<1> QED BY <1>3, <1>4 DEF Revoke

\* The steps of deleteOn past the license only release.
LEMMA ReleaseCalm ==
  ASSUME InfraInv, Calm, NEW d \in Deletes,
         reclaim[d].phase \in {"vm", "network", "fip", "remove"},
         \A e \in Deletes \ {d} : reclaim'[e] = reclaim[e],
         UNCHANGED creator, held' \subseteq held, astray \subseteq astray',
         \/ row' = row
         \/ row' = NoRow
         \/ row' # NoRow /\ row'.status \notin {"TRUSTING", "ACTIVE"},
         reclaim'[d].phase \notin {"enter", "trust"}
  PROVE  Calm'
<1>1. reclaim[d].phase \in Accepted /\ reclaim[d].phase # "enter"
  BY DEF Accepted, Live
<1>2. ~Trusted /\ ~Trusted' /\ Licence \notin held'
  BY <1>1, AcceptedFacts DEF Trusted
<1> QED BY <1>1, <1>2, ReclaimCalmStep

\* The vm and network steps of deleteOn, and its end.
LEMMA DeleteServerCalm ==
  ASSUME InfraInv, Calm, NEW d \in Deletes, DeleteServer(d) PROVE Calm'
<1>1. /\ reclaim[d].phase = "vm" /\ UNCHANGED <<creator, row, astray>> /\ held' \subseteq held
  BY DEF DeleteServer, rest
<1>2. /\ reclaim'[d].phase \in {"network", "fail"}
      /\ \A e \in Deletes \ {d} : reclaim'[e] = reclaim[e]
  BY ReclaimTyped DEF DeleteServer, To, InfraInv, TypeOK, ReclaimState
<1> QED BY <1>1, <1>2, ReleaseCalm

LEMMA DeletePortCalm ==
  ASSUME InfraInv, Calm, NEW d \in Deletes, NEW n \in Networks, DeletePort(d, n) PROVE Calm'
<1>1. /\ reclaim[d].phase = "network" /\ UNCHANGED <<creator, row>>
      /\ held' \subseteq held /\ astray \subseteq astray'
  BY DEF DeletePort, rest
<1>2. /\ reclaim'[d].phase \in {"network", "fip"}
      /\ \A e \in Deletes \ {d} : reclaim'[e] = reclaim[e]
  BY ReclaimTyped DEF DeletePort, InfraInv, TypeOK, ReclaimState
<1> QED BY <1>1, <1>2, ReleaseCalm

LEMMA DeleteFloatingIpCalm ==
  ASSUME InfraInv, Calm, NEW d \in Deletes, DeleteFloatingIp(d) PROVE Calm'
<1>1. /\ reclaim[d].phase = "fip" /\ UNCHANGED <<creator, row>>
      /\ held' \subseteq held /\ astray \subseteq astray'
  BY DEF DeleteFloatingIp, rest
<1>2. /\ reclaim'[d].phase = "network"
      /\ \A e \in Deletes \ {d} : reclaim'[e] = reclaim[e]
  BY ReclaimTyped DEF DeleteFloatingIp, InfraInv, TypeOK, ReclaimState
<1> QED BY <1>1, <1>2, ReleaseCalm

LEMMA ReclaimEndCalm ==
  ASSUME InfraInv, Calm, NEW d \in Deletes, ReclaimEnd(d) PROVE Calm'
<1>1. /\ reclaim[d].phase = "network" /\ UNCHANGED <<creator, held, astray>>
      /\ SaveReclaim(d, With(reclaim[d].adc, "RECLAIMED"), "remove", {})
  BY DEF ReclaimEnd, rest, outside
<1>2. /\ With(reclaim[d].adc, "RECLAIMED") \in Adc
      /\ With(reclaim[d].adc, "RECLAIMED").status = "RECLAIMED"
  BY WithReclaim, StatusNames, ReclaimTyped DEF With, Adc
<1> QED BY <1>1, <1>2, SaveReclaimFields, ReleaseCalm

LEMMA RemoveRowCalm ==
  ASSUME InfraInv, Calm, NEW d \in Deletes, RemoveRow(d) PROVE Calm'
<1>1. /\ reclaim[d].phase = "remove" /\ UNCHANGED <<creator, held, astray>>
      /\ row' = NoRow /\ To(d, "removed")
  BY DEF RemoveRow, rest, outside
<1> QED BY <1>1, ToFields, ReleaseCalm

LEMMA ReclaimFailCalm ==
  ASSUME InfraInv, Calm, NEW d \in Deletes, ReclaimFail(d) PROVE Calm'
<1>1. /\ reclaim[d].phase = "fail" /\ reclaim[d].phase \in Accepted
      /\ UNCHANGED <<creator, held, astray>> /\ To(d, "failed")
  BY DEF ReclaimFail, Accepted, Live, rest, outside
<1>2. ~Trusted /\ ~Trusted'
  BY <1>1, AcceptedFacts DEF Trusted
<1>3. /\ With(reclaim[d].adc, "RECLAIMERROR") \in Adc
      /\ With(reclaim[d].adc, "RECLAIMERROR").status = "RECLAIMERROR"
  BY WithReclaim, StatusNames, ReclaimTyped DEF With, Adc
<1>4. \/ row' = row
      \/ row' # NoRow /\ row'.status = "RECLAIMERROR"
  BY <1>3, NoRowUntyped DEF ReclaimFail, Write
<1>5. "failed" \notin Accepted
  BY DEF Accepted, Live
<1> QED BY <1>1, <1>2, <1>4, <1>5, ToFields, ReclaimCalmStep

\* deleteById reading the row.
LEMMA DeleteLoadCalm ==
  ASSUME InfraInv, Calm, NEW d \in Deletes, DeleteLoad(d) PROVE Calm'
<1>1. /\ creator.stage # "POST" /\ UNCHANGED <<row, creator, held, device, astray>>
  BY DEF DeleteLoad, rest, outside
<1>2. /\ \A e \in Deletes \ {d} : reclaim'[e] = reclaim[e]
      /\ reclaim'[d].phase \in {"rejected", "check"}
      /\ reclaim'[d].phase = "check" => reclaim'[d].adc = row
  <2>1. CASE row = NoRow
    <3>1. To(d, "rejected")
      BY <2>1 DEF DeleteLoad, To
    <3> QED BY <3>1, ToFields
  <2>2. CASE row # NoRow
    <3>1. reclaim' = [reclaim EXCEPT ![d] = [reclaim[d] EXCEPT !.phase = "check", !.adc = row]]
      BY <2>2 DEF DeleteLoad
    <3> QED BY <3>1, ReclaimTyped DEF InfraInv, TypeOK, ReclaimState
  <2> QED BY <2>1, <2>2
<1>3. "rejected" \notin Accepted /\ "check" \notin Accepted
  BY DEF Accepted, Live
<1>4. Trusted' <=> Trusted
  BY <1>1 DEF Trusted
<1>5. CreationCalm'
  BY <1>1, <1>2, <1>3, <1>4 DEF Calm, CreationCalm, Busy
<1>6. StuckTrusting'
  BY <1>1, <1>2, <1>3 DEF Calm, StuckTrusting, Busy
<1>7. RowTrusts' /\ GoneCalm' /\ OwnLicence'
  BY <1>1, <1>4 DEF Calm, RowTrusts, GoneCalm, Gone, OwnLicence
<1>8. ReclaimCalm'
  BY <1>1, <1>2, <1>3, <1>4 DEF Calm, ReclaimCalm
<1>9. ActiveCalm'
  BY <1>1, <1>2, <1>3 DEF Calm, ActiveCalm
<1> QED BY <1>5, <1>6, <1>7, <1>8, <1>9 DEF Calm

\* A DELETE accepted without a mishap finds the creation over and knows what
\* the row names; a row left at TRUSTING accepts none.
LEMMA DeleteCheckCalm ==
  ASSUME InfraInv, Calm, NEW d \in Deletes, DeleteCheck(d), mishap' = {} PROVE Calm'
<1>1. /\ reclaim[d].phase = "check" /\ UNCHANGED <<row, creator, held, device, astray>>
  BY DEF DeleteCheck, rest, outside
<1>2. PICK ready \in ReadyAnswers(reclaim[d].adc, "RECLAIMED") :
        /\ To(d, IF ready THEN "enter" ELSE "rejected")
        /\ mishap' = IF ready /\ (Busy \/ ~(row.res \subseteq reclaim[d].adc.res))
                     THEN mishap \union {"overlap"} ELSE mishap
  BY DEF DeleteCheck
<1>3. PICK passed \in BOOLEAN : ready = ReadyTo(reclaim[d].adc.status, "RECLAIMED", passed)
  <2>1. \A entry : Passes(entry, reclaim[d].adc) \in BOOLEAN
    BY DEF Passes, Reachable, Managed
  <2>2. Answers(StateEntry(reclaim[d].adc.status), reclaim[d].adc) \subseteq BOOLEAN
    BY <2>1 DEF Answers
  <2> QED BY <2>2 DEF ReadyAnswers
<1>4. ready => ~Busy /\ row.res \subseteq reclaim[d].adc.res
  BY <1>2
<1>5. /\ \A e \in Deletes \ {d} : reclaim'[e] = reclaim[e]
      /\ reclaim'[d].adc = reclaim[d].adc
      /\ ready => reclaim'[d].phase = "enter"
      /\ ~ready => reclaim'[d].phase = "rejected"
  BY <1>2, ToFields
<1>6. "rejected" \notin Accepted /\ "check" \notin Accepted
  BY DEF Accepted, Live
<1>7. Trusted' <=> Trusted
  BY <1>1 DEF Trusted
<1>8. ready /\ row.status = "TRUSTING" => FALSE
  <2>1. ~ReadyTo("TRUSTING", "RECLAIMED", passed)
    BY DEF ReadyTo, StateEntry, TableState, Stage, NoEntry
  <2>2. ready /\ row.status = "TRUSTING" => reclaim[d].adc.status = "TRUSTING"
    BY <1>1, <1>4 DEF Calm, StuckTrusting
  <2> QED BY <1>3, <2>1, <2>2
<1>9. ready /\ Trusted => Trust \in reclaim[d].adc.res
  <2>1. ready => creator.stage # "POST"
    BY <1>4 DEF Busy
  <2> QED BY <1>4, <1>8, <2>1 DEF Calm, RowTrusts, GoneCalm, Gone
<1>10. CreationCalm'
  BY <1>1, <1>4, <1>5, <1>6, <1>7 DEF Calm, CreationCalm, Busy
<1>11. StuckTrusting'
  BY <1>1, <1>5, <1>6, <1>8 DEF Calm, StuckTrusting, Busy
<1>12. RowTrusts' /\ GoneCalm' /\ OwnLicence'
  BY <1>1, <1>7 DEF Calm, RowTrusts, GoneCalm, Gone, OwnLicence
<1>13. ReclaimCalm'
  <2> SUFFICES ASSUME NEW e \in Deletes
               PROVE  /\ reclaim'[e].phase \in {"enter", "trust"} =>
                           (Trusted' => Trust \in reclaim'[e].adc.res)
                      /\ reclaim'[e].phase \in Accepted \ {"enter", "trust"} => ~Trusted'
                      /\ reclaim'[e].phase \in {"vm", "network", "fip", "remove"} =>
                           Licence \notin held'
    BY DEF ReclaimCalm
  <2> QED
    BY <1>1, <1>5, <1>6, <1>7, <1>9 DEF Calm, ReclaimCalm
<1>14. ActiveCalm'
  BY <1>1, <1>5, <1>6 DEF Calm, ActiveCalm
<1> QED BY <1>10, <1>11, <1>12, <1>13, <1>14 DEF Calm

\* A DELETE.
LEMMA DeleteByIdCalm ==
  ASSUME InfraInv, Calm, NEW d \in Deletes, DeleteById(d), mishap' = {} PROVE Calm'
BY DeleteLoadCalm, DeleteCheckCalm, ReclaimBeginCalm, UntrustCalm, RevokeCalm,
   DeleteServerCalm, DeletePortCalm, DeleteFloatingIpCalm, ReclaimEndCalm, RemoveRowCalm,
   ReclaimFailCalm DEF DeleteById, DeleteOn

\* Calm says nothing of PATCH requests.
LEMMA CalmStays ==
  ASSUME Calm, UNCHANGED <<row, creator, reclaim, outside>> PROVE Calm'
BY DEF outside, Calm, CreationCalm, Busy, StuckTrusting, RowTrusts, ReclaimCalm, ActiveCalm,
       GoneCalm, Gone, OwnLicence, Trusted

\* A restart ends every job.
LEMMA CrashCalm == ASSUME InfraInv, Calm, Crash PROVE Calm'
<1>1. /\ creator.stage # "POST" /\ UNCHANGED <<row, held, device, astray>>
      /\ creator'.stage = "END" /\ ~creator'.late
  BY CreatorTyped DEF Crash, Aborted, CreatorState, outside
<1>2. \A d \in Deletes : reclaim'[d].phase \notin Live
  <2> TAKE d \in Deletes
  <2>1. reclaim[d] \in ReclaimState
    BY ReclaimTyped
  <2> QED BY <2>1 DEF Crash, ReclaimState, Live
<1>3. "check" \in Live /\ Accepted \subseteq Live
      /\ {"enter", "trust", "vm", "network", "fip", "remove"} \subseteq Live
  BY DEF Live, Accepted
<1>4. Trusted' <=> Trusted
  BY <1>1 DEF Trusted
<1>5. CreationCalm' /\ StuckTrusting' /\ ReclaimCalm' /\ ActiveCalm'
  BY <1>1, <1>2, <1>3 DEF CreationCalm, Busy, StuckTrusting, ReclaimCalm, ActiveCalm, Calm
<1>6. RowTrusts' /\ GoneCalm' /\ OwnLicence'
  BY <1>1, <1>4 DEF Calm, RowTrusts, GoneCalm, Gone, OwnLicence
<1> QED BY <1>5, <1>6 DEF Calm

\* A mishap is never forgotten.
LEMMA MishapStays == ASSUME InfraInv, [Next]_vars PROVE mishap \subseteq mishap'
<1>1. CASE Create \/ Crash \/ UNCHANGED vars
  BY <1>1 DEF Create, Crash, vars, others
<1>2. CASE Creation
  BY <1>2 DEF Creation, Gate, CreateOn, Begin, CreatePort, FloatingIp, SaveNetwork,
     CreateServer, WaitPowerOn, InstallDO, LicenseAdc, LicenseCheck, AssignLicense, Onboard,
     TrustAdc, TrustCall, TrustWait, InstallAS3, InstallPartition, LateWrite, Call, Await, others
<1>3. ASSUME NEW d \in Deletes, DeleteById(d) PROVE mishap \subseteq mishap'
  BY <1>3 DEF DeleteById, DeleteOn, DeleteLoad, DeleteCheck, ReclaimBegin, Untrust, Revoke,
     DeleteServer, DeletePort, DeleteFloatingIp, ReclaimEnd, RemoveRow, ReclaimFail
<1>4. ASSUME NEW p \in Patches, PatchRead(p) \/ PatchWrite(p) PROVE mishap \subseteq mishap'
  BY <1>4 DEF PatchRead, PatchWrite
<1> QED BY <1>1, <1>2, <1>3, <1>4 DEF Next

\* Every step keeps CalmInv.
LEMMA CalmStep == ASSUME InfraInv, CalmInv, [Next]_vars PROVE CalmInv'
<1> SUFFICES ASSUME mishap' = {} PROVE Calm'
  BY DEF CalmInv
<1>1. Calm
  BY MishapStays DEF CalmInv
<1>2. CASE Create
  BY <1>1, <1>2, CreateCalm
<1>3. CASE Creation
  BY <1>1, <1>3, CreationCalmly
<1>4. ASSUME NEW d \in Deletes, DeleteById(d) PROVE Calm'
  BY <1>1, <1>4, DeleteByIdCalm
<1>5. ASSUME NEW p \in Patches, PatchRead(p) \/ PatchWrite(p) PROVE Calm'
  <2>1. CASE PatchRead(p)
    BY <1>1, <2>1, CalmStays DEF PatchRead
  <2>2. CASE PatchWrite(p)
    <3>1. row' = row
      BY <2>2 DEF PatchWrite, Write
    <3> QED BY <1>1, <2>2, <3>1, CalmStays DEF PatchWrite
  <2> QED BY <1>5, <2>1, <2>2
<1>6. CASE Crash
  BY <1>1, <1>6, CrashCalm
<1>7. CASE UNCHANGED vars
  BY <1>1, <1>7, CalmStays DEF vars, outside
<1> QED BY <1>2, <1>3, <1>4, <1>5, <1>6, <1>7 DEF Next

\* Calm holds before POST.
LEMMA InitCalm == ASSUME Init PROVE CalmInv
<1>1. /\ row = NoRow /\ held = {} /\ creator.stage = "POST" /\ creator.phase = "gate"
      /\ creator.adc = NewAdc /\ ~creator.late
      /\ \A d \in Deletes : reclaim[d].phase = "idle"
  BY DEF Init
<1>2. "idle" \notin Accepted /\ {"enter", "trust", "vm", "network", "fip", "remove"} \subseteq Accepted
  BY DEF Accepted, Live
<1>3. NoRow.status = "none" /\ NewAdc.status = "NEW"
  BY DEF NoRow, NewAdc
<1>4. Fits("POST", "gate", "NEW") /\ Says("NEW", held, device) /\ ~Trusting("POST", "gate")
  BY SaysNothing DEF Fits, AtGate, AtPower, Trusting, Early
<1>5. CreationCalm
  BY <1>1, <1>2, <1>3, <1>4 DEF CreationCalm, Trusted
<1>6. StuckTrusting /\ RowTrusts /\ ReclaimCalm /\ ActiveCalm /\ GoneCalm /\ OwnLicence
  BY <1>1, <1>2, <1>3 DEF StuckTrusting, RowTrusts, Trusted, ReclaimCalm, ActiveCalm, GoneCalm,
     Gone, OwnLicence
<1> QED BY <1>5, <1>6 DEF CalmInv, Calm

\* CalmInv holds in every state of every behaviour.
THEOREM CalmInvariance == Spec => []CalmInv
<1>1. Init => CalmInv
  BY InitCalm
<1>2. InfraInv /\ CalmInv /\ [Next]_vars => CalmInv'
  BY CalmStep
<1> QED BY <1>1, <1>2, InfraInvariance, PTL DEF Spec

\* When the row is gone, so is everything acquired for it, the trusted device
\* and the license too, unless a failing call lost it or a mishap happened.
THEOREM NothingIsLeft == Spec => []NothingLeft
<1>1. InfraInv /\ CalmInv => NothingLeft
  BY DEF InfraInv, TypeOK, NoInfraLeft, CalmInv, Calm, GoneCalm, Trusted, NothingLeft, Resource
<1> QED BY <1>1, InfraInvariance, CalmInvariance, PTL

\* An ADC shown ACTIVE has its server, its trusted device and every feature the
\* stages install, unless a mishap happened.
THEOREM ActiveMeansReal == Spec => []ActiveIsReal
<1>1. InfraInv /\ CalmInv => ActiveIsReal
  <2> SUFFICES ASSUME InfraInv, CalmInv, row.status = "ACTIVE", mishap = {}
               PROVE  {Server, Trust} \subseteq held /\ device = Feature
    BY DEF ActiveIsReal
  <2>1. Says("ACTIVE", held, device)
    BY DEF CalmInv, Calm, ActiveCalm
  <2>2. device \subseteq Feature
    BY DEF InfraInv, TypeOK
  <2> QED
    BY <2>1, <2>2 DEF Says, SinceBoot, SinceDO, SinceLicense, SinceOnboard, SinceTrust,
       SinceAS3, SincePartition, Feature
<1> QED BY <1>1, InfraInvariance, CalmInvariance, PTL
-------------------------------------------------------------------------------
(* A row in progress is awaited, and no job goes back. *)

\* The statuses that end a stage, well or not, leave nothing to replace.
LEMMA SettledNames ==
  /\ \A s \in Stage : s \notin Unsettled /\ FailureOf(s) \notin Unsettled
  /\ {"ACTIVE", "RECLAIMED", "RECLAIMERROR", "TRUSTERROR", "none"}
       \intersect Unsettled = {}
BY DEF Unsettled, InProgress, Stage, FailureOf

\* A step of the creation comes nearer to its end; it ends a stage only with a
\* settled status, written or about to be, unless the row is gone.
Works ==
  /\ UNCHANGED <<reclaim, mishap>>
  /\ CreatorNearer(creator, creator')
  /\ CreatorPlaced'
  /\ \/ row = NoRow /\ row' = NoRow
     \/ row # NoRow /\ creator'.phase # "gate"
     \/ /\ row # NoRow /\ creator'.adc.status \notin Unsettled
        /\ row' = creator'.adc \/ creator'.late
     \/ /\ UNCHANGED row
        /\ creator.phase = "gate" /\ creator.stage \notin {"POST", "POWERON"}
        /\ creator'.adc = creator.adc /\ creator'.late = creator.late

\* Such a step keeps WorkInv.
LEMMA WorksInv == ASSUME WorkInv, Works PROVE WorkInv'
<1>1. NoRow.status \notin Unsettled
  BY SettledNames DEF NoRow
<1>2. CreatorSettled'
  BY DEF Works, WorkInv, CreatorSettled
<1>3. RowAwaited'
  BY <1>1 DEF Works, WorkInv, CreatorSettled, RowAwaited
<1> QED
  BY <1>2, <1>3 DEF Works, WorkInv

\* The ranks are numbers, and the creation of an ADC that is not at its end can
\* still get there.
LEMMA Ranks ==
  /\ \A s \in LaterStage \union {"POST"} : StageRank(s) \in Nat
  /\ \A s \in Stage \union {"POST", "SETUP"} : StageRank(s) < StageRank("END")
BY DEF StageRank, LaterStage, Stage

\* Moving within a stage or to a later one.
LEMMA MoveWorks ==
  ASSUME InfraInv, WorkInv, UNCHANGED <<row, reclaim, mishap>>,
         creator.phase \notin {"fip", "save"},
         NEW stage \in LaterStage, NEW phase \in {"gate", "begin", "work", "wait"},
         creator' = Move(stage, phase),
         \/ StageRank(creator.stage) < StageRank(stage)
         \/ stage = creator.stage /\ PhaseRank(creator.phase) < PhaseRank(phase),
         phase # "gate" => stage \in Stage,
         phase = "gate" => /\ creator.phase = "gate"
                           /\ creator.stage \notin {"POST", "POWERON"}
                           /\ stage # "POWERON"
  PROVE  Works
<1>1. /\ creator'.stage = stage /\ creator'.phase = phase
      /\ creator'.adc = creator.adc /\ creator'.late = creator.late
      /\ creator'.net = creator.net
  BY CreatorTyped DEF Move, CreatorState
<1>2. CreatorPlaced'
  BY <1>1 DEF WorkInv, CreatorPlaced, LaterStage, Stage
<1>3. CreatorNearer(creator, creator')
  BY <1>1 DEF CreatorNearer, NearerPlace
<1> QED
  BY <1>1, <1>2, <1>3 DEF Works

\* An awaited serialize that begins a stage, goes on with it or ends it.
LEMMA SaveWorks ==
  ASSUME InfraInv, UNCHANGED <<reclaim, mishap>>, creator.stage \in Stage,
         NEW adc \in Adc, NEW stage \in LaterStage, NEW phase \in {"gate", "work"},
         Save(adc, stage, phase),
         \/ StageRank(creator.stage) < StageRank(stage)
         \/ stage = creator.stage /\ PhaseRank(creator.phase) < PhaseRank(phase)
         \/ stage = creator.stage /\ adc = creator.adc /\ creator.phase = "save" /\ phase = "work",
         phase # "gate" => stage \in Stage,
         phase = "gate" => adc.status \notin Unsettled /\ stage # "POWERON"
  PROVE  Works
<1>1. CASE row = NoRow
  <2>1. /\ creator'.stage = "END" /\ creator'.phase = "gate" /\ creator'.net = NoNet
        /\ row' = NoRow
    BY <1>1, CreatorTyped DEF Save, Write, Aborted, CreatorState
  <2>2. CreatorPlaced'
    BY <2>1 DEF CreatorPlaced
  <2>3. CreatorNearer(creator, creator')
    BY <2>1, Ranks DEF CreatorNearer
  <2> QED
    BY <1>1, <2>1, <2>2, <2>3 DEF Works
<1>2. CASE row # NoRow
  <2>1. /\ creator'.stage = stage /\ creator'.phase = phase /\ creator'.net = NoNet
        /\ creator'.adc = adc /\ row' = adc
    BY <1>2, CreatorTyped DEF Save, Write, CreatorState
  <2>2. CreatorPlaced'
    BY <2>1 DEF CreatorPlaced, LaterStage, Stage
  <2>3. CreatorNearer(creator, creator')
    BY <2>1 DEF CreatorNearer, NearerPlace, PhaseRank, NetRank
  <2> QED
    BY <1>2, <2>1, <2>2, <2>3 DEF Works
<1> QED BY <1>1, <1>2

\* The awaited write of a stage's failure.
LEMMA FailWorks ==
  ASSUME InfraInv, UNCHANGED <<reclaim, mishap>>, creator.stage \in Stage,
         NEW s \in Stage, NEW next \in LaterStage, Fail(s, next),
         StageRank(creator.stage) < StageRank(next), next # "POWERON"
  PROVE  Works
<1>1. /\ With(creator.adc, FailureOf(s)) \in Adc
      /\ With(creator.adc, FailureOf(s)).status \notin Unsettled
  BY StatusNames, WithTyped, SettledNames
<1> QED
  BY <1>1, SaveWorks DEF Fail

\* The awaited write of a stage's success.
LEMMA DoneWorks ==
  ASSUME InfraInv, UNCHANGED <<reclaim, mishap>>, creator.stage \in Stage,
         NEW s \in Stage, NEW next \in LaterStage,
         Save(With(creator.adc, s), next, "gate"),
         StageRank(creator.stage) < StageRank(next), next # "POWERON"
  PROVE  Works
<1>1. /\ With(creator.adc, s) \in Adc
      /\ With(creator.adc, s).status \notin Unsettled
  BY StatusNames, WithTyped, SettledNames
<1> QED
  BY <1>1, SaveWorks

\* A serialize nobody awaits ends a stage.
LEMMA SaveLaterWorks ==
  ASSUME InfraInv, WorkInv, UNCHANGED <<reclaim, mishap>>,
         creator.stage \in Stage, creator.phase \notin {"fip", "save"},
         NEW status \in Status \ Unsettled, NEW stage \in LaterStage \ {"POWERON"},
         SaveLater(With(creator.adc, status), stage),
         StageRank(creator.stage) < StageRank(stage)
  PROVE  Works
<1>1. /\ creator'.stage = stage /\ creator'.phase = "gate" /\ creator'.late
      /\ creator'.adc = With(creator.adc, status) /\ creator'.net = creator.net
      /\ row' = row
  BY CreatorTyped DEF SaveLater, CreatorState
<1>2. CreatorPlaced'
  BY <1>1 DEF WorkInv, CreatorPlaced, LaterStage, Stage
<1>3. CreatorNearer(creator, creator')
  BY <1>1 DEF CreatorNearer
<1> QED
  BY <1>1, <1>2, <1>3, WithTyped DEF Works

\* Where the stages stand in a row.
LEMMA StageOrder ==
  /\ StageRank("POWERON") < StageRank("DOINSTALLED")
  /\ StageRank("DOINSTALLED") < StageRank("LICENSED")
  /\ StageRank("LICENSED") < StageRank("ONBOARDED")
  /\ StageRank("ONBOARDED") < StageRank("SETUP")
  /\ StageRank("TRUSTED") < StageRank("INSTALLED")
  /\ StageRank("INSTALLED") < StageRank("PARTITIONED")
  /\ \A s \in Stage \union {"SETUP"} : StageRank(s) < StageRank("END")
  /\ PhaseRank("begin") < PhaseRank("work") /\ PhaseRank("work") < PhaseRank("wait")
BY DEF StageRank, PhaseRank, Stage

\* A gate that says no leads to a later stage.
LEMMA AfterLater ==
  \A s \in Stage \union {"SETUP"} :
    After(s) \in LaterStage /\ After(s) # "POWERON" /\ StageRank(s) < StageRank(After(s))
<1>1. /\ After("POWERON") = "DOINSTALLED" /\ After("DOINSTALLED") = "LICENSED"
      /\ After("LICENSED") = "ONBOARDED" /\ After("ONBOARDED") = "SETUP"
      /\ After("SETUP") = "END" /\ After("TRUSTED") = "INSTALLED"
      /\ After("INSTALLED") = "PARTITIONED" /\ After("PARTITIONED") = "END"
  BY DEF After
<1> QED
  BY <1>1, StageOrder DEF LaterStage, Stage

\* The gates of createFunc and setupOn: that of createOn always says yes.
LEMMA GateWorks == ASSUME InfraInv, WorkInv, Gate PROVE Works
<1>1. PICK ready \in BOOLEAN :
        /\ ready \in ReadyAnswers(creator.adc, IF creator.stage = "SETUP"
                                               THEN "TRUSTED" ELSE creator.stage)
        /\ creator' = IF ~ready THEN Move(After(creator.stage), "gate")
                      ELSE IF creator.stage = "SETUP" THEN Move("TRUSTED", "gate")
                      ELSE Move(creator.stage, "begin")
  BY DEF Gate, ReadyAnswers, ReadyTo
<1>2. creator.phase = "gate" /\ creator.stage \in Stage \union {"SETUP"}
      /\ UNCHANGED <<row, reclaim, mishap>>
  BY DEF Gate, others
<1>3. creator.stage = "POWERON" => ready
  <2> SUFFICES ASSUME creator.stage = "POWERON" PROVE ready
    OBVIOUS
  <2>1. creator.adc.status = "NEW"
    BY <1>2 DEF WorkInv, CreatorPlaced
  <2>2. StateEntry("NEW") = "NEW"
    BY DEF StateEntry, TableState, Stage
  <2>3. Answers("NEW", creator.adc) = {TRUE}
    BY DEF Answers, Passes, LocalCheck
  <2>4. ReadyTo("NEW", "POWERON", TRUE)
    BY <2>2 DEF ReadyTo, NextOf, NoEntry, Failure, CreateFailure
  <2>5. PICK passed \in Answers("NEW", creator.adc) : ready = ReadyTo("NEW", "POWERON", passed)
    BY <1>1, <2>1, <2>2 DEF ReadyAnswers
  <2>6. passed = TRUE
    BY <2>3
  <2> QED
    BY <2>4, <2>5, <2>6
<1>4. CASE ~ready
  <2>1. /\ After(creator.stage) \in LaterStage /\ After(creator.stage) # "POWERON"
        /\ StageRank(creator.stage) < StageRank(After(creator.stage))
    BY <1>2, AfterLater
  <2> QED
    BY <1>1, <1>2, <1>3, <1>4, <2>1, MoveWorks DEF Stage
<1>5. CASE ready /\ creator.stage = "SETUP"
  <2>1. StageRank(creator.stage) < StageRank("TRUSTED")
    BY <1>5 DEF StageRank
  <2> QED
    BY <1>1, <1>2, <1>5, <2>1, MoveWorks DEF LaterStage, Stage
<1>6. CASE ready /\ creator.stage # "SETUP"
  <2>1. PhaseRank(creator.phase) < PhaseRank("begin")
    BY <1>2 DEF PhaseRank
  <2> QED
    BY <1>1, <1>2, <1>6, <2>1, MoveWorks DEF LaterStage, Stage
<1> QED BY <1>4, <1>5, <1>6

\* The write a stage begins with.
LEMMA BeginWorks ==
  ASSUME InfraInv, WorkInv, NEW s \in Stage \ {"LICENSED"}, Begin(s) PROVE Works
<1>1. With(creator.adc, ProgressOf(s)) \in Adc
  BY StatusNames, WithTyped
<1> QED
  BY <1>1, StageOrder, SaveWorks DEF Begin, At, others, LaterStage

\* A stage's call to the device.
LEMMA CallWorks ==
  ASSUME InfraInv, WorkInv, NEW s \in Stage, NEW next \in LaterStage \ {"POWERON"},
         StageRank(s) < StageRank(next), Call(s, next)
  PROVE  Works
<1>1. At(s, "work") /\ UNCHANGED <<reclaim, mishap>>
  BY DEF Call, others
<1>2. CASE creator' = Move(s, "wait") /\ UNCHANGED row
  BY <1>1, <1>2, StageOrder, MoveWorks DEF At, LaterStage
<1>3. CASE Fail(s, next)
  BY <1>1, <1>3, FailWorks DEF At
<1> QED
  BY <1>2, <1>3 DEF Call

\* createOn rejecting.
LEMMA PowerFailsWorks ==
  ASSUME InfraInv, WorkInv, NEW point, NEW candidates, PowerFails(point, candidates),
         creator.stage = "POWERON", UNCHANGED others
  PROVE  Works
BY StageOrder, FailWorks DEF PowerFails, others, LaterStage, Stage

\* cNet creating a port leaves one less to create.
LEMMA CreatePortWorks ==
  ASSUME InfraInv, WorkInv, NEW n \in Networks, CreatePort(n) PROVE Works
<1>1. creator.stage = "POWERON" /\ creator.phase = "work" /\ UNCHANGED <<reclaim, mishap>>
      /\ Port(n) \notin creator.adc.res /\ UNCHANGED others
  BY DEF CreatePort, At, others
<1>2. CASE PowerFails("createPort", {Port(n)})
  BY <1>1, <1>2, PowerFailsWorks
<1>3. CASE /\ creator' = [creator EXCEPT !.adc.res = @ \union {Port(n)},
                                         !.phase = IF n \in Floating THEN "fip" ELSE "save",
                                         !.net = n]
           /\ UNCHANGED row
  <2> DEFINE phase == IF n \in Floating THEN "fip" ELSE "save"
  <2>1. phase \in {"fip", "save"} /\ phase \in CreatorPhase
    BY DEF CreatorPhase
  <2> HIDE DEF phase
  <2>2. /\ creator'.stage = "POWERON" /\ creator'.phase = phase /\ creator'.net = n
        /\ creator'.adc.res = creator.adc.res \union {Port(n)}
    BY <1>1, <1>3, <2>1, Resources, Acquired DEF phase
  <2>3. PortsLeft(creator'.adc) \subseteq PortsLeft(creator.adc)
        /\ PortsLeft(creator'.adc) # PortsLeft(creator.adc)
    <3>1. n \in PortsLeft(creator.adc) /\ n \notin PortsLeft(creator'.adc)
      BY <1>1, <2>2 DEF PortsLeft
    <3>2. PortsLeft(creator'.adc) \subseteq PortsLeft(creator.adc)
      BY <2>2 DEF PortsLeft
    <3> QED BY <3>1, <3>2
  <2>4. PhaseRank(creator.phase) = PhaseRank(creator'.phase)
    BY <1>1, <2>1, <2>2 DEF PhaseRank
  <2>5. CreatorPlaced'
    BY <2>1, <2>2, ConstantsAssumption DEF CreatorPlaced
  <2>6. CreatorNearer(creator, creator')
    BY <1>1, <2>2, <2>3, <2>4 DEF CreatorNearer, NearerPlace
  <2> QED
    BY <1>1, <1>3, <2>1, <2>2, <2>5, <2>6 DEF Works
<1> QED
  BY <1>2, <1>3 DEF CreatePort

\* cNet binding a floating IP goes on with the same network.
LEMMA FloatingIpWorks == ASSUME InfraInv, WorkInv, FloatingIp PROVE Works
<1>1. creator.stage = "POWERON" /\ creator.phase = "fip" /\ UNCHANGED <<reclaim, mishap>>
      /\ UNCHANGED others
  BY DEF FloatingIp, At, others
<1>2. CASE PowerFails("floatingIp", {Fip(creator.net)})
  BY <1>1, <1>2, PowerFailsWorks
<1>3. creator.net \in Networks /\ creator.net # NoNet
  BY <1>1, CreatorTyped DEF WorkInv, CreatorPlaced, CreatorState
<1>4. ASSUME UNCHANGED row, creator'.stage = "POWERON", creator'.phase = "save",
             creator'.net = creator.net, PortsLeft(creator'.adc) = PortsLeft(creator.adc)
      PROVE  Works
  <2>1. CreatorPlaced'
    BY <1>3, <1>4 DEF CreatorPlaced
  <2>2. PhaseRank(creator.phase) = PhaseRank(creator'.phase)
        /\ NetRank(creator.phase) < NetRank(creator'.phase)
    BY <1>1, <1>4 DEF PhaseRank, NetRank
  <2>3. CreatorNearer(creator, creator')
    BY <1>1, <1>4, <2>2 DEF CreatorNearer, NearerPlace
  <2> QED
    BY <1>1, <1>4, <2>1, <2>3 DEF Works
<1>5. CASE creator' = Move("POWERON", "save") /\ UNCHANGED row
  <2>1. /\ creator'.stage = "POWERON" /\ creator'.phase = "save"
        /\ creator'.net = creator.net /\ creator'.adc = creator.adc
    BY <1>5, CreatorTyped DEF Move, CreatorState
  <2> QED BY <1>4, <1>5, <2>1
<1>6. CASE /\ creator' = [creator EXCEPT !.adc.res = @ \union {Fip(creator.net)},
                                         !.phase = "save"]
           /\ UNCHANGED row
  <2>1. creator' = [creator EXCEPT !.adc.res = @ \union {Fip(creator.net)},
                                   !.phase = "save", !.net = creator.net]
    BY <1>6, CreatorTyped DEF CreatorState, Adc
  <2>2. /\ creator'.stage = "POWERON" /\ creator'.phase = "save"
        /\ creator'.net = creator.net
        /\ creator'.adc.res = creator.adc.res \union {Fip(creator.net)}
    BY <1>1, <1>3, <2>1, Resources, Acquired DEF CreatorPhase
  <2>3. PortsLeft(creator'.adc) = PortsLeft(creator.adc)
    BY <1>3, <2>2, Resources DEF PortsLeft
  <2> QED BY <1>4, <1>6, <2>2, <2>3
<1> QED
  BY <1>2, <1>5, <1>6 DEF FloatingIp

\* createOn comes nearer to its end.
LEMMA CreateOnWorks == ASSUME InfraInv, WorkInv, CreateOn PROVE Works
<1>1. CASE SaveNetwork
  BY <1>1, CreatorTyped, SaveWorks DEF SaveNetwork, At, others, LaterStage, Stage
<1>2. CASE CreateServer
  <2>1. creator.stage = "POWERON" /\ creator.phase = "work" /\ UNCHANGED <<reclaim, mishap>>
        /\ UNCHANGED others
    BY <1>2 DEF CreateServer, At, others
  <2>2. CASE /\ creator' = [creator EXCEPT !.adc.res = @ \union {Server}, !.phase = "wait"]
             /\ UNCHANGED row
    <3>1. creator' = [creator EXCEPT !.adc.res = @ \union {Server}, !.phase = "wait",
                                     !.net = creator.net]
      BY <2>2, CreatorTyped DEF CreatorState, Adc
    <3>2. creator.net \in Networks \union {NoNet} /\ creator.net = NoNet
      BY <2>1, CreatorTyped DEF CreatorState, WorkInv, CreatorPlaced
    <3>3. /\ creator'.stage = "POWERON" /\ creator'.phase = "wait"
          /\ creator'.net = creator.net
      BY <2>1, <3>1, <3>2, Resources, Acquired DEF CreatorPhase
    <3>4. CreatorPlaced'
      BY <3>2, <3>3 DEF CreatorPlaced
    <3>5. CreatorNearer(creator, creator')
      BY <2>1, <3>3, StageOrder DEF CreatorNearer, NearerPlace
    <3> QED
      BY <2>1, <2>2, <3>3, <3>4, <3>5 DEF Works
  <2> QED
    BY <1>2, <2>1, <2>2, PowerFailsWorks DEF CreateServer
<1>3. CASE WaitPowerOn
  <2>1. creator.stage = "POWERON" /\ creator.phase = "wait" /\ UNCHANGED <<reclaim, mishap>>
    BY <1>3 DEF WaitPowerOn, At, others
  <2>2. CASE SaveLater(With(creator.adc, "POWERON"), "DOINSTALLED")
    BY <2>1, <2>2, StatusNames, SettledNames, StageOrder, SaveLaterWorks DEF LaterStage, Stage
  <2>3. CASE Fail("POWERON", "END")
    BY <2>1, <2>3, StageOrder, FailWorks DEF LaterStage, Stage
  <2> QED
    BY <1>3, <2>2, <2>3 DEF WaitPowerOn
<1> QED
  BY <1>1, <1>2, <1>3, BeginWorks, CreatePortWorks, FloatingIpWorks DEF CreateOn, Stage

\* installDO comes nearer to its end.
LEMMA InstallDOWorks == ASSUME InfraInv, WorkInv, InstallDO PROVE Works
<1>1. CASE Await("DOINSTALLED", "do",
                 SaveLater(With(creator.adc, "DOINSTALLED"), "LICENSED"),
                 Fail("DOINSTALLED", "LICENSED"))
  BY <1>1, StatusNames, SettledNames, StageOrder, SaveLaterWorks, FailWorks
     DEF Await, At, others, LaterStage, Stage
<1> QED
  BY <1>1, StageOrder, BeginWorks, CallWorks DEF InstallDO, LaterStage, Stage

\* licenseAdc comes nearer to its end, with or without a status of its own.
LEMMA LicenseAdcWorks == ASSUME InfraInv, WorkInv, LicenseAdc PROVE Works
<1>1. CASE LicenseCheck
  <2>1. At("LICENSED", "begin") /\ UNCHANGED <<reclaim, mishap>>
    BY <1>1 DEF LicenseCheck, others
  <2>2. CASE Save(With(creator.adc, "LICENSED"), "ONBOARDED", "gate")
    BY <2>1, <2>2, StageOrder, DoneWorks DEF At, LaterStage, Stage
  <2>3. CASE creator' = Move("LICENSED", "work") /\ UNCHANGED row
    BY <2>1, <2>3, StageOrder, MoveWorks DEF At, LaterStage, Stage
  <2> QED
    BY <1>1, <2>2, <2>3 DEF LicenseCheck
<1>2. CASE AssignLicense
  <2>1. At("LICENSED", "work") /\ UNCHANGED <<reclaim, mishap>>
    BY <1>2 DEF AssignLicense, others
  <2>2. CASE creator' = Move("LICENSED", "wait") /\ UNCHANGED row
    BY <2>1, <2>2, StageOrder, MoveWorks DEF At, LaterStage, Stage
  <2>3. CASE Fail("LICENSED", "ONBOARDED")
    BY <2>1, <2>3, StageOrder, FailWorks DEF At, LaterStage, Stage
  <2> QED
    BY <1>2, <2>2, <2>3 DEF AssignLicense
<1>3. CASE Await("LICENSED", "license",
                 Save(With(creator.adc, "LICENSED"), "ONBOARDED", "gate"),
                 Fail("LICENSED", "ONBOARDED"))
  BY <1>3, StageOrder, DoneWorks, FailWorks DEF Await, At, others, LaterStage, Stage
<1> QED
  BY <1>1, <1>2, <1>3 DEF LicenseAdc

\* onboard comes nearer to its end.
LEMMA OnboardWorks == ASSUME InfraInv, WorkInv, Onboard PROVE Works
<1>1. CASE Await("ONBOARDED", "onboard",
                 SaveLater(With(creator.adc, "ONBOARDED"), "SETUP"),
                 SaveLater(With(creator.adc, "ONBOARDERROR"), "SETUP"))
  <2>1. {"ONBOARDED", "ONBOARDERROR"} \subseteq Status \ Unsettled
    BY DEF Status, TableState, Stage, Failure, CreateFailure, Unsettled, InProgress
  <2> QED
    BY <1>1, <2>1, StageOrder, SaveLaterWorks DEF Await, At, others, LaterStage, Stage
<1> QED
  BY <1>1, StageOrder, BeginWorks, CallWorks DEF Onboard, LaterStage, Stage

\* trustAdc comes nearer to its end.
LEMMA TrustAdcWorks == ASSUME InfraInv, WorkInv, TrustAdc PROVE Works
<1>1. CASE TrustCall
  <2>1. At("TRUSTED", "work") /\ UNCHANGED <<reclaim, mishap>>
    BY <1>1 DEF TrustCall, others
  <2>2. CASE creator' = Move("TRUSTED", "wait") /\ UNCHANGED row
    BY <2>1, <2>2, StageOrder, MoveWorks DEF At, LaterStage, Stage
  <2>3. CASE Fail("TRUSTED", "INSTALLED")
    BY <2>1, <2>3, StageOrder, FailWorks DEF At, LaterStage, Stage
  <2> QED
    BY <1>1, <2>2, <2>3 DEF TrustCall
<1>2. CASE TrustWait
  <2>1. At("TRUSTED", "wait") /\ UNCHANGED <<reclaim, mishap>>
    BY <1>2 DEF TrustWait, others
  <2> DEFINE adc == [status |-> "TRUSTED", res |-> creator.adc.res \union {Trust}]
  <2>2. adc \in Adc /\ adc.status = "TRUSTED"
    BY CreatorTyped, Resources, StatusNames DEF Adc, Stage
  <2> HIDE DEF adc
  <2>3. CASE Save(adc, "INSTALLED", "gate")
    BY <2>1, <2>2, <2>3, StageOrder, SettledNames, SaveWorks DEF At, LaterStage, Stage
  <2>4. CASE Fail("TRUSTED", "INSTALLED")
    BY <2>1, <2>4, StageOrder, FailWorks DEF At, LaterStage, Stage
  <2> QED
    BY <1>2, <2>3, <2>4 DEF TrustWait, adc
<1> QED
  BY <1>1, <1>2, BeginWorks DEF TrustAdc, Stage

\* installAS3 comes nearer to its end.
LEMMA InstallAS3Works == ASSUME InfraInv, WorkInv, InstallAS3 PROVE Works
<1>1. CASE Await("INSTALLED", "as3",
                 Save(With(creator.adc, "INSTALLED"), "PARTITIONED", "gate"),
                 Fail("INSTALLED", "PARTITIONED"))
  BY <1>1, StageOrder, DoneWorks, FailWorks DEF Await, At, others, LaterStage, Stage
<1> QED
  BY <1>1, StageOrder, BeginWorks, CallWorks DEF InstallAS3, LaterStage, Stage

\* installPartition comes to the end of the creation.
LEMMA InstallPartitionWorks == ASSUME InfraInv, WorkInv, InstallPartition PROVE Works
<1>1. CASE Await("PARTITIONED", "partition",
                 SaveLater(With(creator.adc, "ACTIVE"), "END"),
                 SaveLater(With(creator.adc, "PARTITIONERROR"), "END"))
  <2>1. {"ACTIVE", "PARTITIONERROR"} \subseteq Status \ Unsettled
    BY DEF Status, TableState, Stage, Failure, CreateFailure, Unsettled, InProgress
  <2> QED
    BY <1>1, <2>1, StageOrder, SaveLaterWorks DEF Await, At, others, LaterStage, Stage
<1> QED
  BY <1>1, StageOrder, BeginWorks, CallWorks DEF InstallPartition, LaterStage, Stage

\* A late write settles the row, or comes while a stage is at work again.
LEMMA LateWriteWorks ==
  ASSUME InfraInv, WorkInv, LateWrite
  PROVE  WorkInv' /\ CreatorNearer(creator, creator') /\ UNCHANGED reclaim
<1>1. /\ creator'.stage = creator.stage /\ creator'.phase = creator.phase
      /\ creator'.adc = creator.adc /\ creator'.net = creator.net
      /\ creator.late /\ creator' = [creator EXCEPT !.late = FALSE]
      /\ UNCHANGED <<reclaim, mishap>>
  BY CreatorTyped DEF LateWrite, others, CreatorState
<1>2. \/ row = NoRow /\ row' = NoRow
      \/ row # NoRow /\ row' = creator.adc
  BY DEF LateWrite, Write
<1>3. NoRow.status \notin Unsettled
  BY SettledNames DEF NoRow
<1>4. CreatorPlaced'
  BY <1>1 DEF WorkInv, CreatorPlaced
<1>5. CreatorSettled' /\ RowAwaited'
  BY <1>1, <1>2, <1>3 DEF WorkInv, CreatorSettled, RowAwaited
<1>6. CreatorNearer(creator, creator')
  BY <1>1 DEF CreatorNearer, NearerPlace
<1> QED
  BY <1>1, <1>4, <1>5, <1>6 DEF WorkInv

\* Every step of the creation keeps WorkInv and comes nearer to the end.
LEMMA CreationWorks ==
  ASSUME InfraInv, WorkInv, Creation
  PROVE  WorkInv' /\ CreatorNearer(creator, creator') /\ UNCHANGED reclaim
<1>1. CASE LateWrite
  BY <1>1, LateWriteWorks
<1>2. CASE ~LateWrite
  <2>1. Works
    BY <1>2, GateWorks, CreateOnWorks, InstallDOWorks, LicenseAdcWorks, OnboardWorks,
       TrustAdcWorks, InstallAS3Works, InstallPartitionWorks DEF Creation
  <2> QED
    BY <2>1, WorksInv DEF Works
<1> QED BY <1>1, <1>2
-------------------------------------------------------------------------------
(* DELETE, PATCH and restarts. *)

\* A step of one DELETE comes nearer to its end, and goes on after it was
\* accepted, leaves a settled status or no row, or writes nothing.
Reclaims(d) ==
  /\ UNCHANGED creator
  /\ mishap \subseteq mishap'
  /\ row = NoRow => row' = NoRow
  /\ \A e \in Deletes \ {d} : reclaim'[e] = reclaim[e]
  /\ ReclaimNearer(reclaim[d], reclaim'[d])
  /\ \/ reclaim'[d].phase \in Accepted
     \/ row'.status \notin Unsettled
     \/ row' = row /\ reclaim[d].phase \notin Accepted

\* Such a step keeps WorkInv.
LEMMA ReclaimsInv == ASSUME WorkInv, NEW d \in Deletes, Reclaims(d) PROVE WorkInv'
<1>1. CreatorPlaced' /\ CreatorSettled'
  BY DEF Reclaims, WorkInv, CreatorPlaced, CreatorSettled
<1>2. RowAwaited'
  BY DEF Reclaims, WorkInv, RowAwaited
<1> QED BY <1>1, <1>2 DEF WorkInv

\* How the phases of a DELETE follow each other.
LEMMA ReclaimOrder ==
  /\ ReclaimRank("idle") < ReclaimRank("check")
  /\ ReclaimRank("idle") < ReclaimRank("rejected")
  /\ ReclaimRank("check") < ReclaimRank("enter")
  /\ ReclaimRank("check") < ReclaimRank("rejected")
  /\ ReclaimRank("enter") < ReclaimRank("trust")
  /\ ReclaimRank("trust") < ReclaimRank("license")
  /\ ReclaimRank("license") < ReclaimRank("vm")
  /\ ReclaimRank("vm") < ReclaimRank("network")
  /\ ReclaimRank("network") < ReclaimRank("remove")
  /\ ReclaimRank("remove") < ReclaimRank("removed")
  /\ ReclaimRank("fail") < ReclaimRank("failed")
  /\ \A phase \in {"enter", "trust", "license", "vm", "network"} :
       ReclaimRank(phase) < ReclaimRank("fail")
  /\ \A phase \in Live : ReclaimRank(phase) < ReclaimRank("dead")
BY DEF ReclaimRank, Live

\* A DELETE that goes on without writing.
LEMMA ToWorks ==
  ASSUME InfraInv, NEW d \in Deletes, NEW phase, To(d, phase),
         UNCHANGED <<row, creator>>, mishap \subseteq mishap',
         ReclaimRank(reclaim[d].phase) < ReclaimRank(phase),
         phase \in Accepted \/ reclaim[d].phase \notin Accepted
  PROVE  Reclaims(d)
BY ToFields DEF Reclaims, ReclaimNearer

\* An awaited write of deleteOn, or its rejection.
LEMMA SaveReclaimWorks ==
  ASSUME InfraInv, NEW d \in Deletes, NEW adc \in Adc, NEW phase \in Accepted, NEW todo,
         SaveReclaim(d, adc, phase, todo), UNCHANGED <<creator, mishap>>,
         reclaim[d].phase \in {"enter", "trust", "license", "vm", "network"},
         ReclaimRank(reclaim[d].phase) < ReclaimRank(phase)
  PROVE  Reclaims(d)
<1>1. "fail" \in Accepted
  BY DEF Accepted, Live
<1>2. CASE row = NoRow
  BY <1>1, <1>2, SaveReclaimFields, ReclaimOrder DEF Reclaims, ReclaimNearer
<1>3. CASE row # NoRow
  BY <1>3, SaveReclaimFields DEF Reclaims, ReclaimNearer
<1> QED BY <1>2, <1>3

\* A request for deletion, until it is accepted or rejected.
LEMMA DeleteLoadWorks ==
  ASSUME InfraInv, NEW d \in Deletes, DeleteLoad(d) PROVE Reclaims(d)
<1>1. /\ reclaim[d].phase = "idle" /\ UNCHANGED <<row, creator, mishap>>
      /\ reclaim'[d].phase \in {"check", "rejected"}
      /\ \A e \in Deletes \ {d} : reclaim'[e] = reclaim[e]
  BY ReclaimTyped DEF DeleteLoad, rest, InfraInv, TypeOK, ReclaimState
<1>2. "idle" \notin Accepted
  BY DEF Accepted, Live
<1> QED
  BY <1>1, <1>2, ReclaimOrder DEF Reclaims, ReclaimNearer

LEMMA DeleteCheckWorks ==
  ASSUME InfraInv, NEW d \in Deletes, DeleteCheck(d) PROVE Reclaims(d)
<1>1. reclaim[d].phase = "check" /\ UNCHANGED <<row, creator>>
      /\ (To(d, "enter") \/ To(d, "rejected"))
  BY DEF DeleteCheck, rest
<1>2. mishap \subseteq mishap'
  BY DEF DeleteCheck
<1>3. "check" \notin Accepted
  BY DEF Accepted
<1> QED
  BY <1>1, <1>2, <1>3, ReclaimOrder, ToWorks

\* The steps of deleteOn: RECLAIMING and untrustAdc,
LEMMA ReclaimBeginWorks ==
  ASSUME InfraInv, NEW d \in Deletes, ReclaimBegin(d) PROVE Reclaims(d)
<1>1. With(reclaim[d].adc, "RECLAIMING") \in Adc
  BY WithReclaim, StatusNames
<1> QED
  BY <1>1, ReclaimOrder, SaveReclaimWorks DEF ReclaimBegin, rest, Accepted, Live

LEMMA UntrustWorks ==
  ASSUME InfraInv, NEW d \in Deletes, Untrust(d) PROVE Reclaims(d)
<1>1. /\ reclaim[d].phase = "trust" /\ UNCHANGED <<creator, mishap>>
      /\ "license" \in Accepted
  BY DEF Untrust, rest, Accepted, Live
<1>2. CASE To(d, "license") /\ UNCHANGED row
  BY <1>1, <1>2, ReclaimOrder, ToWorks
<1>3. CASE SaveReclaim(d, With(reclaim[d].adc, "TRUSTERROR"), "license", {})
  <2>1. With(reclaim[d].adc, "TRUSTERROR") \in Adc
    BY WithReclaim DEF Status, Failure, CreateFailure
  <2> QED BY <1>1, <1>3, <2>1, ReclaimOrder, SaveReclaimWorks
<1> QED BY <1>2, <1>3 DEF Untrust

\* unLicense and the server,
LEMMA RevokeWorks ==
  ASSUME InfraInv, NEW d \in Deletes, Revoke(d) PROVE Reclaims(d)
<1>1. /\ reclaim[d].phase = "license" /\ UNCHANGED <<row, creator, mishap>>
      /\ (To(d, "vm") \/ To(d, "fail")) /\ {"vm", "fail"} \subseteq Accepted
  BY DEF Revoke, rest, Accepted, Live
<1> QED BY <1>1, ReclaimOrder, ToWorks

LEMMA DeleteServerWorks ==
  ASSUME InfraInv, NEW d \in Deletes, DeleteServer(d) PROVE Reclaims(d)
<1>1. /\ reclaim[d].phase = "vm" /\ UNCHANGED <<row, creator, mishap>>
      /\ {"network", "fail"} \subseteq Accepted
  BY DEF DeleteServer, rest, Accepted, Live
<1>2. /\ reclaim'[d].phase \in {"network", "fail"}
      /\ \A e \in Deletes \ {d} : reclaim'[e] = reclaim[e]
  BY ReclaimTyped DEF DeleteServer, To, InfraInv, TypeOK, ReclaimState
<1> QED
  BY <1>1, <1>2, ReclaimOrder DEF Reclaims, ReclaimNearer

\* the loop over the networks,
LEMMA DeletePortWorks ==
  ASSUME InfraInv, NEW d \in Deletes, NEW n \in Networks, DeletePort(d, n)
  PROVE  Reclaims(d)
<1>1. /\ reclaim[d].phase = "network" /\ UNCHANGED <<row, creator, mishap>>
      /\ n \in reclaim[d].todo /\ {"network", "fip"} \subseteq Accepted
  BY DEF DeletePort, rest, Accepted, Live
<1>2. /\ reclaim'[d].phase \in {"network", "fip"}
      /\ reclaim'[d].todo = reclaim[d].todo \ {n}
      /\ \A e \in Deletes \ {d} : reclaim'[e] = reclaim[e]
  BY ReclaimTyped DEF DeletePort, InfraInv, TypeOK, ReclaimState
<1>3. ReclaimNearer(reclaim[d], reclaim'[d])
  BY <1>1, <1>2 DEF ReclaimNearer
<1> QED
  BY <1>1, <1>2, <1>3 DEF Reclaims

LEMMA DeleteFloatingIpWorks ==
  ASSUME InfraInv, NEW d \in Deletes, DeleteFloatingIp(d) PROVE Reclaims(d)
<1>1. /\ reclaim[d].phase = "fip" /\ UNCHANGED <<row, creator, mishap>>
      /\ "network" \in Accepted
  BY DEF DeleteFloatingIp, rest, Accepted, Live
<1>2. /\ reclaim'[d].phase = "network" /\ reclaim'[d].todo = reclaim[d].todo
      /\ \A e \in Deletes \ {d} : reclaim'[e] = reclaim[e]
  BY ReclaimTyped DEF DeleteFloatingIp, InfraInv, TypeOK, ReclaimState
<1>3. ReclaimNearer(reclaim[d], reclaim'[d])
  BY <1>1, <1>2 DEF ReclaimNearer
<1> QED
  BY <1>1, <1>2, <1>3 DEF Reclaims

\* and its end.
LEMMA ReclaimEndWorks ==
  ASSUME InfraInv, NEW d \in Deletes, ReclaimEnd(d) PROVE Reclaims(d)
<1>1. With(reclaim[d].adc, "RECLAIMED") \in Adc
  BY WithReclaim, StatusNames
<1> QED
  BY <1>1, ReclaimOrder, SaveReclaimWorks DEF ReclaimEnd, rest, Accepted, Live

LEMMA RemoveRowWorks ==
  ASSUME InfraInv, NEW d \in Deletes, RemoveRow(d) PROVE Reclaims(d)
<1>1. /\ reclaim[d].phase = "remove" /\ UNCHANGED <<creator, mishap>>
      /\ row' = NoRow /\ To(d, "removed")
  BY DEF RemoveRow, rest
<1>2. NoRow.status \notin Unsettled
  BY SettledNames DEF NoRow
<1> QED
  BY <1>1, <1>2, ToFields, ReclaimOrder DEF Reclaims, ReclaimNearer

LEMMA ReclaimFailWorks ==
  ASSUME InfraInv, NEW d \in Deletes, ReclaimFail(d) PROVE Reclaims(d)
<1>1. /\ reclaim[d].phase = "fail" /\ UNCHANGED <<creator, mishap>> /\ To(d, "failed")
  BY DEF ReclaimFail, rest
<1>2. With(reclaim[d].adc, "RECLAIMERROR").status = "RECLAIMERROR"
  BY ReclaimTyped DEF With, Adc
<1>3. row'.status \notin Unsettled /\ (row = NoRow => row' = NoRow)
  BY <1>2, SettledNames DEF ReclaimFail, Write, NoRow
<1> QED
  BY <1>1, <1>3, ToFields, ReclaimOrder DEF Reclaims, ReclaimNearer

\* Every step of a DELETE.
LEMMA DeleteByIdWorks ==
  ASSUME InfraInv, NEW d \in Deletes, DeleteById(d) PROVE Reclaims(d)
BY DeleteLoadWorks, DeleteCheckWorks, ReclaimBeginWorks, UntrustWorks, RevokeWorks,
   DeleteServerWorks, DeletePortWorks, DeleteFloatingIpWorks, ReclaimEndWorks,
   RemoveRowWorks, ReclaimFailWorks DEF DeleteById, DeleteOn

\* A PATCH leaves the jobs alone, and the row's status unless it is stale.
LEMMA PatchWorks ==
  ASSUME WorkInv, NEW p \in Patches, PatchRead(p) \/ PatchWrite(p)
  PROVE  WorkInv' /\ UNCHANGED <<creator, reclaim>>
<1>1. /\ UNCHANGED <<creator, reclaim>>
      /\ row = NoRow => row' = NoRow
      /\ mishap \subseteq mishap'
      /\ row' = row \/ "stalePatch" \in mishap'
  BY DEF PatchRead, PatchWrite, Write
<1>2. CreatorPlaced' /\ CreatorSettled'
  BY <1>1 DEF WorkInv, CreatorPlaced, CreatorSettled
<1>3. RowAwaited'
  BY <1>1 DEF WorkInv, RowAwaited
<1> QED BY <1>1, <1>2, <1>3 DEF WorkInv

\* POST starts the creation.
LEMMA CreateWorks ==
  ASSUME InfraInv, WorkInv, Create
  PROVE  WorkInv' /\ CreatorNearer(creator, creator') /\ UNCHANGED reclaim
<1>1. /\ creator.stage = "POST" /\ creator'.stage = "POWERON"
      /\ creator'.phase = creator.phase /\ creator'.adc = creator.adc
      /\ creator'.net = creator.net /\ UNCHANGED reclaim
  BY CreatorTyped DEF Create, CreatorState, others
<1>2. CreatorPlaced'
  BY <1>1 DEF WorkInv, CreatorPlaced
<1>3. CreatorSettled' /\ RowAwaited'
  BY <1>1 DEF CreatorSettled, RowAwaited
<1>4. CreatorNearer(creator, creator')
  BY <1>1 DEF CreatorNearer, StageRank
<1> QED BY <1>1, <1>2, <1>3, <1>4 DEF WorkInv

\* A restart takes every job to its end.
LEMMA CrashWorks ==
  ASSUME InfraInv, WorkInv, Crash
  PROVE  /\ WorkInv'
         /\ creator' # creator => CreatorNearer(creator, creator')
         /\ \A d \in Deletes :
              reclaim'[d] # reclaim[d] => ReclaimNearer(reclaim[d], reclaim'[d])
<1>1. /\ CanCrash /\ creator.stage # "POST"
      /\ creator'.stage = "END" /\ creator'.phase = "gate" /\ creator'.net = NoNet
  BY CreatorTyped DEF Crash, Aborted, CreatorState
<1>2. WorkInv'
  BY <1>1 DEF WorkInv, CreatorPlaced, CreatorSettled, RowAwaited
<1>3. creator' # creator => CreatorNearer(creator, creator')
  <2>1. CASE creator.stage = "END"
    <3>1. creator.phase = "gate" /\ creator.net = NoNet
      BY <2>1, CreatorTyped DEF WorkInv, CreatorPlaced
    <3>2. creator' = [creator EXCEPT !.late = FALSE]
      BY <2>1, <3>1, CreatorTyped DEF Crash, Aborted, CreatorState
    <3>3. ~creator.late => creator' = creator
      BY <3>2, CreatorTyped DEF CreatorState
    <3> QED BY <1>1, <2>1, <3>2, <3>3, CreatorTyped DEF CreatorNearer, NearerPlace, CreatorState
  <2>2. CASE creator.stage # "END"
    <3>1. StageRank(creator.stage) < StageRank("END")
      BY <1>1, <2>2, CreatorTyped, Ranks DEF CreatorState
    <3> QED BY <1>1, <3>1 DEF CreatorNearer
  <2> QED BY <2>1, <2>2
<1>4. ASSUME NEW d \in Deletes, reclaim'[d] # reclaim[d]
      PROVE  ReclaimNearer(reclaim[d], reclaim'[d])
  <2>1. reclaim[d].phase \in Live /\ reclaim'[d] = [reclaim[d] EXCEPT !.phase = "dead"]
    BY <1>4 DEF Crash
  <2>2. reclaim'[d].phase = "dead"
    BY <2>1, ReclaimTyped DEF ReclaimState
  <2> QED BY <2>1, <2>2, ReclaimOrder DEF ReclaimNearer
<1> QED BY <1>2, <1>3, <1>4

\* What a step of the jobs does, in the words of JobsAdvance.
Nearer ==
  /\ creator' # creator => CreatorNearer(creator, creator')
  /\ \A d \in Deletes :
       reclaim'[d] # reclaim[d] => ReclaimNearer(reclaim[d], reclaim'[d])

LEMMA WorkStep == ASSUME InfraInv, WorkInv, [Next]_vars PROVE WorkInv' /\ Nearer
<1>1. CASE Create
  BY <1>1, CreateWorks DEF Nearer
<1>2. CASE Creation
  BY <1>2, CreationWorks DEF Nearer
<1>3. ASSUME NEW d \in Deletes, DeleteById(d) PROVE WorkInv' /\ Nearer
  <2>1. Reclaims(d)
    BY <1>3, DeleteByIdWorks
  <2> QED BY <2>1, ReclaimsInv DEF Reclaims, Nearer
<1>4. ASSUME NEW p \in Patches, PatchRead(p) \/ PatchWrite(p) PROVE WorkInv' /\ Nearer
  BY <1>4, PatchWorks DEF Nearer
<1>5. CASE Crash
  BY <1>5, CrashWorks DEF Nearer
<1>6. CASE UNCHANGED vars
  BY <1>6 DEF vars, Nearer, WorkInv, CreatorPlaced, CreatorSettled, RowAwaited
<1> QED BY <1>1, <1>2, <1>3, <1>4, <1>5, <1>6 DEF Next

\* WorkInv holds in every state of every behaviour.
THEOREM WorkInvariance == Spec => []WorkInv
<1>1. Init => WorkInv
  BY SettledNames DEF Init, WorkInv, CreatorPlaced, CreatorSettled, RowAwaited, NewAdc, NoRow
<1>2. InfraInv /\ WorkInv /\ [Next]_vars => WorkInv'
  BY WorkStep
<1> QED BY <1>1, <1>2, InfraInvariance, PTL DEF Spec

\* A row that is NEW or in progress has a job at work that has yet to write it,
\* unless the server was restarted or a PATCH put a stale row back.
THEOREM RowsAttended == Spec => []Attended
<1>1. WorkInv => Attended
  BY DEF WorkInv, CreatorPlaced, RowAwaited, Attended, AtWork, Busy
<1> QED BY <1>1, WorkInvariance, PTL

\* createFunc, setupOn and deleteOn come nearer to their end with every step.
THEOREM JobsOnlyAdvance == Spec => JobsAdvance
<1>1. InfraInv /\ WorkInv /\ [Next]_vars =>
        [/\ creator' # creator => CreatorNearer(creator, creator')
         /\ \A d \in Deletes :
              reclaim'[d] # reclaim[d] => ReclaimNearer(reclaim[d], reclaim'[d])]_vars
  BY WorkStep DEF Nearer
<1> QED BY <1>1, InfraInvariance, WorkInvariance, PTL DEF Spec, JobsAdvance
=============================================================================
