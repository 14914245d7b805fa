---------------------------- MODULE PartsProofs ----------------------------
(***************************************************************************)
(* That the whole of Portal is its parts: whichever of them runs, it does  *)
(* what its own module says, and nothing else changes.  The other proof    *)
(* modules build on it.                                                    *)
(***************************************************************************)
EXTENDS Portal, TLAPS

\* What a step of the whole is to the part that runs.
LEMMA StepOfPart ==
  ASSUME [PortalNext]_allvars
  PROVE  /\ part' = part
         /\ part = "roles" => [Next]_vars
         /\ part # "roles" => UNCHANGED vars
         /\ part = "flavor" => [Flavor!Next]_(Flavor!vars)
         /\ part = "table" => [Table!Next]_(Table!vars)
         /\ part = "memo" => [Memo!Next]_(Memo!vars)
         /\ part = "adcs" => [AdcRows!Next]_(AdcRows!vars)
         /\ part = "trunk" => [Trunk!Next]_(Trunk!vars)
         /\ part = "app" => [App!Next]_(App!vars)
         /\ part = "fip" => [Fip!Next]_(Fip!vars)
         /\ part = "task" => [Task!Next]_(Task!vars)
         /\ part = "filter" => [Filter!Next]_(Filter!vars)
         /\ part = "net" => [Net!Next]_(Net!vars)
         /\ part = "session" => [Session!Next]_(Session!vars)
         /\ part = "hardware" => [Hardware!Next]_(Hardware!vars)
<1>1. part' = part
  BY DEF PortalNext, Rest, allvars
<1>2. part = "roles" => [Next]_vars
  BY DEF PortalNext, allvars
<1>3. part # "roles" => UNCHANGED vars
  BY DEF PortalNext, Rest, allvars
<1>4. part = "flavor" => [Flavor!Next]_(Flavor!vars)
  BY DEF PortalNext, allvars, flavorVars, Flavor!vars
<1>5. part = "table" => [Table!Next]_(Table!vars)
  BY DEF PortalNext, allvars, tableVars, Table!vars
<1>6. part = "memo" => [Memo!Next]_(Memo!vars)
  BY DEF PortalNext, allvars, memoVars, Memo!vars
<1>7. part = "adcs" => [AdcRows!Next]_(AdcRows!vars)
  BY DEF PortalNext, allvars, adcRowsVars, AdcRows!vars
<1>8. part = "trunk" => [Trunk!Next]_(Trunk!vars)
  BY DEF PortalNext, allvars, trunkVars, Trunk!vars
<1>9. part = "app" => [App!Next]_(App!vars)
  BY DEF PortalNext, allvars, appVars, App!vars
<1>10. part = "fip" => [Fip!Next]_(Fip!vars)
  BY DEF PortalNext, allvars, fipVars, Fip!vars
<1>11. part = "task" => [Task!Next]_(Task!vars)
  BY DEF PortalNext, allvars, taskVars, Task!vars
<1>12. part = "filter" => [Filter!Next]_(Filter!vars)
  BY DEF PortalNext, allvars, filterVars, Filter!vars
<1>13. part = "net" => [Net!Next]_(Net!vars)
  BY DEF PortalNext, allvars, netVars, Net!vars
<1>14. part = "session" => [Session!Next]_(Session!vars)
  BY DEF PortalNext, allvars, sessionVars, Session!vars
<1>15. part = "hardware" => [Hardware!Next]_(Hardware!vars)
  BY DEF PortalNext, allvars, hardwareVars, Hardware!vars
<1> QED
  BY <1>1, <1>2, <1>3, <1>4, <1>5, <1>6, <1>7, <1>8, <1>9, <1>10, <1>11,
     <1>12, <1>13, <1>14, <1>15

(***************************************************************************)
(* The whole implements the specification of the part that runs, each by   *)
(* itself: nothing in Portal adds a step to a part or takes its initial    *)
(* states away from what its module says of it.                            *)
(***************************************************************************)
THEOREM PartsImplemented ==
  PortalSpec =>
    /\ part = "roles" => Spec
    /\ part = "flavor" => Flavor!Spec
    /\ part = "table" => Table!Spec
    /\ part = "memo" => Memo!Spec
    /\ part = "adcs" => AdcRows!Spec
    /\ part = "trunk" => Trunk!Spec
    /\ part = "app" => App!Spec
    /\ part = "fip" => Fip!Spec
    /\ part = "task" => Task!Spec
    /\ part = "filter" => Filter!Spec
    /\ part = "net" => Net!Spec
    /\ part = "session" => Session!Spec
    /\ part = "hardware" => Hardware!Spec
<1>1. PortalSpec => (part = "roles" => Spec)
  <2>1. PortalInit => (part = "roles" => Init)
    BY DEF PortalInit
  <2>2. part = "roles" /\ [PortalNext]_allvars
          => (part = "roles")' /\ [Next]_vars
    BY StepOfPart
  <2> QED
    BY <2>1, <2>2, PTL DEF PortalSpec, Spec
<1>2. PortalSpec => (part = "flavor" => Flavor!Spec)
  <2>1. PortalInit => (part = "flavor" => Flavor!Init)
    BY DEF PortalInit
  <2>2. part = "flavor" /\ [PortalNext]_allvars
          => (part = "flavor")' /\ [Flavor!Next]_(Flavor!vars)
    BY StepOfPart
  <2> QED
    BY <2>1, <2>2, PTL DEF PortalSpec, Flavor!Spec
<1>3. PortalSpec => (part = "table" => Table!Spec)
  <2>1. PortalInit => (part = "table" => Table!Init)
    BY DEF PortalInit
  <2>2. part = "table" /\ [PortalNext]_allvars
          => (part = "table")' /\ [Table!Next]_(Table!vars)
    BY StepOfPart
  <2> QED
    BY <2>1, <2>2, PTL DEF PortalSpec, Table!Spec
<1>4. PortalSpec => (part = "memo" => Memo!Spec)
  <2>1. PortalInit => (part = "memo" => Memo!Init)
    BY DEF PortalInit
  <2>2. part = "memo" /\ [PortalNext]_allvars
          => (part = "memo")' /\ [Memo!Next]_(Memo!vars)
    BY StepOfPart
  <2> QED
    BY <2>1, <2>2, PTL DEF PortalSpec, Memo!Spec
<1>5. PortalSpec => (part = "adcs" => AdcRows!Spec)
  <2>1. PortalInit => (part = "adcs" => AdcRows!Init)
    BY DEF PortalInit
  <2>2. part = "adcs" /\ [PortalNext]_allvars
          => (part = "adcs")' /\ [AdcRows!Next]_(AdcRows!vars)
    BY StepOfPart
  <2> QED
    BY <2>1, <2>2, PTL DEF PortalSpec, AdcRows!Spec
<1>6. PortalSpec => (part = "trunk" => Trunk!Spec)
  <2>1. PortalInit => (part = "trunk" => Trunk!Init)
    BY DEF PortalInit
  <2>2. part = "trunk" /\ [PortalNext]_allvars
          => (part = "trunk")' /\ [Trunk!Next]_(Trunk!vars)
    BY StepOfPart
  <2> QED
    BY <2>1, <2>2, PTL DEF PortalSpec, Trunk!Spec
<1>7. PortalSpec => (part = "app" => App!Spec)
  <2>1. PortalInit => (part = "app" => App!Init)
    BY DEF PortalInit
  <2>2. part = "app" /\ [PortalNext]_allvars
          => (part = "app")' /\ [App!Next]_(App!vars)
    BY StepOfPart
  <2> QED
    BY <2>1, <2>2, PTL DEF PortalSpec, App!Spec
<1>8. PortalSpec => (part = "fip" => Fip!Spec)
  <2>1. PortalInit => (part = "fip" => Fip!Init)
    BY DEF PortalInit
  <2>2. part = "fip" /\ [PortalNext]_allvars
          => (part = "fip")' /\ [Fip!Next]_(Fip!vars)
    BY StepOfPart
  <2> QED
    BY <2>1, <2>2, PTL DEF PortalSpec, Fip!Spec
<1>9. PortalSpec => (part = "task" => Task!Spec)
  <2>1. PortalInit => (part = "task" => Task!Init)
    BY DEF PortalInit
  <2>2. part = "task" /\ [PortalNext]_allvars
          => (part = "task")' /\ [Task!Next]_(Task!vars)
    BY StepOfPart
  <2> QED
    BY <2>1, <2>2, PTL DEF PortalSpec, Task!Spec
<1>10. PortalSpec => (part = "filter" => Filter!Spec)
  <2>1. PortalInit => (part = "filter" => Filter!Init)
    BY DEF PortalInit
  <2>2. part = "filter" /\ [PortalNext]_allvars
          => (part = "filter")' /\ [Filter!Next]_(Filter!vars)
    BY StepOfPart
  <2> QED
    BY <2>1, <2>2, PTL DEF PortalSpec, Filter!Spec
<1>11. PortalSpec => (part = "net" => Net!Spec)
  <2>1. PortalInit => (part = "net" => Net!Init)
    BY DEF PortalInit
  <2>2. part = "net" /\ [PortalNext]_allvars
          => (part = "net")' /\ [Net!Next]_(Net!vars)
    BY StepOfPart
  <2> QED
    BY <2>1, <2>2, PTL DEF PortalSpec, Net!Spec
<1>12. PortalSpec => (part = "session" => Session!Spec)
  <2>1. PortalInit => (part = "session" => Session!Init)
    BY DEF PortalInit
  <2>2. part = "session" /\ [PortalNext]_allvars
          => (part = "session")' /\ [Session!Next]_(Session!vars)
    BY StepOfPart
  <2> QED
    BY <2>1, <2>2, PTL DEF PortalSpec, Session!Spec
<1>13. PortalSpec => (part = "hardware" => Hardware!Spec)
  <2>1. PortalInit => (part = "hardware" => Hardware!Init)
    BY DEF PortalInit
  <2>2. part = "hardware" /\ [PortalNext]_allvars
          => (part = "hardware")' /\ [Hardware!Next]_(Hardware!vars)
    BY StepOfPart
  <2> QED
    BY <2>1, <2>2, PTL DEF PortalSpec, Hardware!Spec
<1> QED
  BY <1>1, <1>2, <1>3, <1>4, <1>5, <1>6, <1>7, <1>8, <1>9, <1>10, <1>11,
     <1>12, <1>13
=============================================================================
