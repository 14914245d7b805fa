------------------------------ MODULE AdcStates ------------------------------
(***************************************************************************)
(* The status vocabulary of an ADC and the transition table of             *)
(* AdcStateCtrlr (controllers/adc.controller.ts).  A status is one of      *)
(*   - a settled state of the table (NEW, POWERON, ..., ACTIVE),           *)
(*   - the failure name the table pairs with a state (POWERERROR, ...),    *)
(*   - an in-progress name (POWERING, ...), which the table does not know. *)
(***************************************************************************)

\* The stages VE creation goes through, named by the state each ends in.
Stage == {"POWERON", "DOINSTALLED", "LICENSED", "ONBOARDED", "TRUSTED",
          "INSTALLED", "PARTITIONED"}

\* The rows of the states table.
TableState == Stage \union {"NEW", "RECLAIMED", "ACTIVE"}

CreateFailure == {"POWERERROR", "DOINSTALLERR", "LICENSERROR", "ONBOARDERROR",
                  "TRUSTERROR", "INSTALLERROR", "PARTITIONERROR"}

Failure == CreateFailure \union {"RECLAIMERROR"}

\* LICENSING is in the enum too, but no code writes it.
InProgress == {"POWERING", "DOINSTALLING", "ONBOARDING", "TRUSTING",
               "INSTALLING", "PARTITIONING", "RECLAIMING"}

Status == TableState \union Failure \union InProgress

NoEntry == "none"

\* Mutant: the table's TRUSTED row without its failure name.
FailureOfUntrusted(s) ==
  CASE s = "POWERON"     -> "POWERERROR"
    [] s = "DOINSTALLED" -> "DOINSTALLERR"
    [] s = "LICENSED"    -> "LICENSERROR"
    [] s = "ONBOARDED"   -> "ONBOARDERROR"
    [] s = "INSTALLED"   -> "INSTALLERROR"
    [] s = "PARTITIONED" -> "PARTITIONERROR"
    [] s = "RECLAIMED"   -> "RECLAIMERROR"
    [] OTHER             -> NoEntry

\* The failure name of a table state ("none" for NEW and ACTIVE).
FailureOf(s) ==
  CASE s = "POWERON"     -> "POWERERROR"
    [] s = "DOINSTALLED" -> "DOINSTALLERR"
    [] s = "LICENSED"    -> "LICENSERROR"
    [] s = "ONBOARDED"   -> "ONBOARDERROR"
    [] s = "TRUSTED"     -> "TRUSTERROR"
    [] s = "INSTALLED"   -> "INSTALLERROR"
    [] s = "PARTITIONED" -> "PARTITIONERROR"
    [] s = "RECLAIMED"   -> "RECLAIMERROR"
    [] OTHER             -> NoEntry

\* The status a stage writes when it begins; LICENSED writes none.
ProgressOf(s) ==
  CASE s = "POWERON"     -> "POWERING"
    [] s = "DOINSTALLED" -> "DOINSTALLING"
    [] s = "ONBOARDED"   -> "ONBOARDING"
    [] s = "TRUSTED"     -> "TRUSTING"
    [] s = "INSTALLED"   -> "INSTALLING"
    [] s = "PARTITIONED" -> "PARTITIONING"

\* The "next" column of the table.
NextOf(s) ==
  CASE s = "NEW"         -> {"POWERON"}
    [] s = "POWERON"     -> {"DOINSTALLED", "RECLAIMED"}
    [] s = "DOINSTALLED" -> {"LICENSED", "RECLAIMED"}
    [] s = "LICENSED"    -> {"ONBOARDED", "RECLAIMED"}
    [] s = "ONBOARDED"   -> {"TRUSTED", "RECLAIMED"}
    [] s = "TRUSTED"     -> {"INSTALLED", "RECLAIMED"}
    [] s = "INSTALLED"   -> {"PARTITIONED", "RECLAIMED"}
    [] s = "PARTITIONED" -> {"RECLAIMED", "ACTIVE"}
    [] s = "RECLAIMED"   -> {"POWERON"}
    [] s = "ACTIVE"      -> {"RECLAIMED"}

\* getStateEntry: the table row that has this name as state or as failure.
StateEntry(name) ==
  CASE name \in TableState        -> name
    [] name = "POWERERROR"        -> "POWERON"
    [] name = "DOINSTALLERR"      -> "DOINSTALLED"
    [] name = "LICENSERROR"       -> "LICENSED"
    [] name = "ONBOARDERROR"      -> "ONBOARDED"
    [] name = "TRUSTERROR"        -> "TRUSTED"
    [] name = "INSTALLERROR"      -> "INSTALLED"
    [] name = "PARTITIONERROR"    -> "PARTITIONED"
    [] name = "RECLAIMERROR"      -> "RECLAIMED"
    [] OTHER                      -> NoEntry

\* readyTo: may an ADC in this status move to `state'?  `passed' is the answer
\* of the check function of the status's table row; an exception there, and
\* the missing row of an in-progress status, both count as no.
ReadyTo(status, state, passed) ==
  LET entry == StateEntry(status)
  IN  /\ entry # NoEntry
      /\ \/ status \in Failure /\ state \in {entry, "RECLAIMED"}
         \/ status \notin Failure /\ state \in NextOf(entry) /\ passed
=============================================================================
