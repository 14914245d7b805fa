---------------------------- MODULE MCAdcLifecycle ----------------------------
(* Instances of AdcLifecycle for TLC. *)
EXTENDS AdcJobs, TLC

DeleteSymmetry == Permutations(Deletes)

AllFaults == FaultPoint

\* Creation may fail once the server is up; reclaiming never fails.
ServedFaults == {"LICENSED", "ONBOARDED", "TRUSTED", "INSTALLED"}

\* A failure with the server, in the last stage, at a gate, and in the two
\* steps of reclaiming that write a status of their own or end it.
StageFaults == {"POWERON", "PARTITIONED", "check", "untrust", "deleteServer"}

\* Creation fails before there is a server.
PortFault == {"createPort"}
=============================================================================
