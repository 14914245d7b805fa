------------------------------- MODULE AdcCalm -------------------------------
(***************************************************************************)
(* The inductive invariant behind NothingLeft and ActiveIsReal.  They hold *)
(* as long as no mishap has happened: the creation then runs to its end    *)
(* before a DELETE is accepted, one stage after the other, and what it has *)
(* reached stays.  The definitions name no code; they say which copies of  *)
(* the record, at which places of createFunc, setupOn and deleteOn, know   *)
(* the trusted device, and what a status says of the device.               *)
(***************************************************************************)
EXTENDS AdcLifecycle

\* The statuses createFunc and setupOn can come to a gate with.
AtPower == {"NEW"}
AtDO == AtPower \union {"POWERON"}
AtLicense == AtDO \union {"DOINSTALLED", "DOINSTALLERR"}
AtOnboard == AtLicense \union {"LICENSED", "LICENSERROR"}
AtTrust == AtOnboard \union {"ONBOARDED", "ONBOARDERROR"}
AtAS3 == AtTrust \union {"TRUSTED", "TRUSTERROR"}
AtPartition == AtAS3 \union {"INSTALLED", "INSTALLERROR"}
AtEnd == AtPartition \union {"ACTIVE", "POWERERROR", "PARTITIONERROR"}

AtGate(stage) ==
  CASE stage \in {"POST", "POWERON"}    -> AtPower
    [] stage = "DOINSTALLED"            -> AtDO
    [] stage = "LICENSED"               -> AtLicense
    [] stage = "ONBOARDED"              -> AtOnboard
    [] stage \in {"SETUP", "TRUSTED"}   -> AtTrust
    [] stage = "INSTALLED"              -> AtAS3
    [] stage = "PARTITIONED"            -> AtPartition
    [] stage = "END"                    -> AtEnd

\* The status with which a gate lets a stage begin.
Enters(stage) ==
  CASE stage = "DOINSTALLED" -> "POWERON"
    [] stage = "LICENSED"    -> "DOINSTALLED"
    [] stage = "ONBOARDED"   -> "LICENSED"
    [] stage = "TRUSTED"     -> "ONBOARDED"
    [] stage = "INSTALLED"   -> "TRUSTED"
    [] stage = "PARTITIONED" -> "INSTALLED"

\* The statuses the creator's copy can have where the creator is.
Fits(stage, phase, status) ==
  \/ phase = "gate" /\ status \in AtGate(stage)
  \/ stage = "POWERON" /\ phase # "gate" /\ status \in Early
  \/ /\ stage \in Stage \ {"POWERON"}
     /\ phase = "begin" \/ (stage = "LICENSED" /\ phase \in {"work", "wait"})
     /\ status = Enters(stage)
  \/ /\ stage \in Stage \ {"POWERON", "LICENSED"}
     /\ phase \in {"work", "wait"}
     /\ status = ProgressOf(stage)

\* The statuses from which on a feature is there.
SincePartition == {"ACTIVE"}
SinceAS3 == SincePartition \union {"INSTALLED", "PARTITIONING"}
SinceTrust == SinceAS3 \union {"TRUSTED", "INSTALLING"}
SinceOnboard == SinceTrust \union {"ONBOARDED", "TRUSTING"}
SinceLicense == SinceOnboard \union {"LICENSED", "ONBOARDING"}
SinceDO == SinceLicense \union {"DOINSTALLED"}
SinceBoot == SinceDO \union {"POWERON", "DOINSTALLING"}

\* What a status says of the resources that exist and of the device.
Says(status, resources, features) ==
  /\ status \in SinceBoot => Server \in resources /\ "boot" \in features
  /\ status \in SinceDO => "do" \in features
  /\ status \in SinceLicense => "license" \in features
  /\ status \in SinceOnboard => "onboard" \in features
  /\ status \in SinceTrust => Trust \in resources
  /\ status \in SinceAS3 => "as3" \in features
  /\ status \in SincePartition => "partition" \in features

\* The trusted device that exists and that no failing call has lost.
Trusted == Trust \in held \ astray

\* trustAdc is between its first write and its last; it waits for the ASG.
Trusting(stage, phase) == stage = "TRUSTED" /\ phase \in {"work", "wait"}
Awaited(stage, phase) == stage = "TRUSTED" /\ phase = "wait"

\* While the creation runs: it stands where its status says, nobody is
\* reclaiming, and the row says TRUSTING exactly while it trusts.
CreationCalm ==
  Busy =>
    /\ Fits(creator.stage, creator.phase, creator.adc.status)
    /\ Says(creator.adc.status, held, device)
    /\ \A d \in Deletes : reclaim[d].phase \notin Accepted
    /\ creator.stage = "POST" =>
         row = NoRow /\ creator.phase = "gate" /\ creator.adc = NewAdc
    /\ creator.stage # "POST" => row # NoRow
    /\ row.status = "TRUSTING" <=> Trusting(creator.stage, creator.phase)
    /\ row.status # "ACTIVE"
    /\ Trusted => Trust \in creator.adc.res \/ Awaited(creator.stage, creator.phase)

\* A row left at TRUSTING stays so: no DELETE is ever accepted for it.
StuckTrusting ==
  ~Busy /\ row.status = "TRUSTING" =>
    \A d \in Deletes :
      /\ reclaim[d].phase \notin Accepted
      /\ reclaim[d].phase = "check" => reclaim[d].adc.status = "TRUSTING"

\* The row names the trusted device, unless it says TRUSTING.
RowTrusts ==
  row # NoRow /\ Trusted => Trust \in row.res \/ row.status = "TRUSTING"

\* A DELETE that has been accepted knows the trusted device until it has
\* untrusted it, and then revokes the license.
ReclaimCalm ==
  \A d \in Deletes :
    /\ reclaim[d].phase \in {"enter", "trust"} =>
         (Trusted => Trust \in reclaim[d].adc.res)
    /\ reclaim[d].phase \in Accepted \ {"enter", "trust"} => ~Trusted
    /\ reclaim[d].phase \in {"vm", "network", "fip", "remove"} => Licence \notin held

\* An ADC shown ACTIVE is so, and no DELETE has got further than its beginning.
ActiveCalm ==
  row.status = "ACTIVE" =>
    /\ Says("ACTIVE", held, device)
    /\ \A d \in Deletes :
         reclaim[d].phase \in Accepted => reclaim[d].phase = "enter"

\* Nothing is left for a row that is gone.
GoneCalm == Gone => ~Trusted /\ Licence \notin held

\* A license of the request's own is not taken from the BIG-IQ.
OwnLicence == OwnKey => Licence \notin held

Calm ==
  /\ CreationCalm /\ StuckTrusting /\ RowTrusts /\ ReclaimCalm
  /\ ActiveCalm /\ GoneCalm /\ OwnLicence

(***************************************************************************)
(* As long as no DELETE was accepted while another job was at work and no  *)
(* PATCH has put a stale row back, the copies of the record that           *)
(* createFunc, deleteOn and serialize hold agree with the device, whatever *)
(* calls fail and wherever a restart comes: the creation stands where its  *)
(* status says, no DELETE is accepted while it runs, its row and an        *)
(* accepted DELETE name the trusted device, an ACTIVE row has all its      *)
(* features, and a row that is gone has left neither trust nor license.    *)
(***************************************************************************)
CalmInv == mishap = {} => Calm
=============================================================================
