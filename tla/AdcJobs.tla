------------------------------- MODULE AdcJobs --------------------------------
(***************************************************************************)
(* The safety half of Settles.  A row does not stay NEW or in progress for *)
(* ever because, as long as it is, a job is running that has yet to write  *)
(* it (Attended), and because no job goes back: createFunc, setupOn and    *)
(* deleteOn come nearer to their end with every step (JobsAdvance).  What  *)
(* is left for fairness is that a job that can take a step takes one.  The *)
(* definitions name no code of their own; they order the places of         *)
(* AdcLifecycle's jobs.                                                    *)
(***************************************************************************)
EXTENDS AdcCalm, Naturals

\* The statuses a job has yet to replace.
Unsettled == InProgress \union {"NEW"}

\* A job of POST or of an accepted DELETE is running, or has a write pending.
AtWork == Busy \/ \E d \in Deletes : reclaim[d].phase \in Accepted

\* Without a restart, and unless a PATCH has put a stale row back, no row is
\* left NEW or in progress by a job that has ended, whichever of the jobs of
\* overlapping POST and DELETE requests wrote last: each failure, rejection and
\* unawaited serialize of createFunc and deleteOn leaves a settled status.
Attended ==
  row.status \in Unsettled /\ ~CanCrash /\ "stalePatch" \notin mishap => AtWork
-------------------------------------------------------------------------------
(* How far the job of POST has come. *)

StageRank(stage) ==
  CASE stage = "POST"        -> 0
    [] stage = "POWERON"     -> 1
    [] stage = "DOINSTALLED" -> 2
    [] stage = "LICENSED"    -> 3
    [] stage = "ONBOARDED"   -> 4
    [] stage = "SETUP"       -> 5
    [] stage = "TRUSTED"     -> 6
    [] stage = "INSTALLED"   -> 7
    [] stage = "PARTITIONED" -> 8
    [] stage = "END"         -> 9

\* A stage passes its gate, writes its beginning, works and waits.
PhaseRank(phase) ==
  CASE phase = "gate"  -> 0
    [] phase = "begin" -> 1
    [] phase = "wait"  -> 3
    [] OTHER           -> 2

\* cNet's loop over the networks, and its steps for one of them.
PortsLeft(adc) == {n \in Networks : Port(n) \notin adc.res}

NetRank(phase) ==
  CASE phase = "fip"  -> 0
    [] phase = "save" -> 1
    [] OTHER          -> 2

NearerPlace(old, new) ==
  \/ PhaseRank(old.phase) < PhaseRank(new.phase)
  \/ /\ PhaseRank(old.phase) = PhaseRank(new.phase)
     /\ \/ /\ PortsLeft(new.adc) \subseteq PortsLeft(old.adc)
           /\ PortsLeft(new.adc) # PortsLeft(old.adc)
        \/ /\ PortsLeft(new.adc) = PortsLeft(old.adc)
           /\ NetRank(old.phase) < NetRank(new.phase)
  \/ new = [old EXCEPT !.late = FALSE] /\ old.late

CreatorNearer(old, new) ==
  \/ StageRank(old.stage) < StageRank(new.stage)
  \/ old.stage = new.stage /\ NearerPlace(old, new)
-------------------------------------------------------------------------------
(* How far the job of a DELETE has come. *)

ReclaimRank(phase) ==
  CASE phase = "idle"               -> 0
    [] phase = "check"              -> 1
    [] phase = "enter"              -> 2
    [] phase = "trust"              -> 3
    [] phase = "license"            -> 4
    [] phase = "vm"                 -> 5
    [] phase \in {"network", "fip"} -> 6
    [] phase = "remove"             -> 7
    [] phase = "fail"               -> 8
    [] OTHER                        -> 9

\* deleteOn's loop over the networks ends: one leaves it with every port.
ReclaimNearer(old, new) ==
  \/ ReclaimRank(old.phase) < ReclaimRank(new.phase)
  \/ /\ {old.phase, new.phase} \subseteq {"network", "fip"}
     /\ \/ new.todo \subseteq old.todo /\ new.todo # old.todo
        \/ new.todo = old.todo /\ old.phase = "fip" /\ new.phase = "network"

\* No step takes a job back: not a failing call, not a rejected serialize, not
\* the loops of cNet and deleteOn over the networks, nor a restart.
JobsAdvance ==
  [][/\ creator' # creator => CreatorNearer(creator, creator')
     /\ \A d \in Deletes :
          reclaim'[d] # reclaim[d] => ReclaimNearer(reclaim[d], reclaim'[d])]_vars
-------------------------------------------------------------------------------
(* The inductive invariant behind Attended and JobsAdvance. *)

\* The creation starts with NEW, waits only at gates between the stages, and is
\* at a network only inside cNet's loop.
CreatorPlaced ==
  /\ creator.stage \in {"POST", "POWERON"} /\ creator.phase = "gate" =>
       creator.adc.status = "NEW"
  /\ creator.stage \in {"POST", "SETUP", "END"} => creator.phase = "gate"
  /\ creator.phase \in {"fip", "save"} <=> creator.net # NoNet

\* The creation comes to a gate past createOn with a settled status.
CreatorSettled ==
  /\ row # NoRow /\ ~CanCrash
  /\ creator.phase = "gate" /\ creator.stage \notin {"POST", "POWERON"}
  => creator.adc.status \notin Unsettled

\* The job that will replace the status of the row: the creation inside a stage
\* or with a write pending, or a DELETE.
RowAwaited ==
  row.status \in Unsettled /\ ~CanCrash /\ "stalePatch" \notin mishap =>
    \/ creator.stage \in {"POST", "POWERON"}
    \/ creator.phase # "gate"
    \/ creator.late
    \/ \E d \in Deletes : reclaim[d].phase \in Accepted

WorkInv == CreatorPlaced /\ CreatorSettled /\ RowAwaited
=============================================================================
