---------------------------- MODULE NetworkForms ----------------------------
(***************************************************************************)
(* The workflow that creates a network and, if asked, its first subnet, in *)
(* two calls.  When the second fails the network is deleted again.  What   *)
(* becomes of an exception depends on its class: exceptions.handle turns   *)
(* most into a message and a redirection, but one of Neutron's refusals    *)
(* for want of rights into NotAuthorized, which leaves the workflow at     *)
(* once.                                                                   *)
(***************************************************************************)
EXTENDS FiniteSets

CONSTANT Requests      \* POSTs of the form

VARIABLES
  network,     \* Neutron: has the request's network been created?
  subnet,      \* Neutron: and its subnet?
  port,        \* Neutron: is somebody's port on the network?
  withSubnet,  \* with_subnet of the form
  step,        \* where handle() is; at the end, how the request was answered
  said,        \* the messages the next page shows
  unsure       \* history: a call about the network itself has failed

vars == <<network, subnet, port, withSubnet, step, said, unsure>>

Ended == {"success", "redirect", "403"}

TypeOK ==
  /\ \A b \in {network, subnet, port, withSubnet, unsure} :
       b \in [Requests -> BOOLEAN]
  /\ step \in [Requests -> {"network", "subnet", "rollback"} \cup Ended]
  /\ said \in [Requests -> SUBSET {"success", "info", "error"}]

Nowhere == [r \in Requests |-> FALSE]

Init ==
  /\ network = Nowhere /\ subnet = Nowhere /\ port = Nowhere
  /\ withSubnet \in [Requests -> BOOLEAN]
  /\ step = [r \in Requests |-> "network"]
  /\ said = [r \in Requests |-> {}]
  /\ unsure = Nowhere

-----------------------------------------------------------------------------
Goto(r, s) == step' = [step EXCEPT ![r] = s]
Says(r, ms) == said' = [said EXCEPT ![r] = @ \cup ms]
Is(flag, r, value) == [flag EXCEPT ![r] = value]

\* handle_unauthorized: NotAuthorized goes through the workflow and the view
\* to the middleware, which answers 403 and drops the messages.
Unauthorized(r) ==
  /\ Goto(r, "403")
  /\ said' = [said EXCEPT ![r] = {}]

\* handle_recoverable and handle_notfound, with a place to redirect to.
Redirected(r, ms) == Says(r, ms \cup {"error"}) /\ Goto(r, "redirect")

\* messages.success of the view.
Succeeds(r) == Says(r, {"success"}) /\ Goto(r, "success")

-----------------------------------------------------------------------------
\* _create_network.  A call that fails may have had its effect.
CreateNetwork(r) ==
  /\ step[r] = "network"
  /\ \/ /\ network' = Is(network, r, TRUE)
        /\ IF withSubnet[r] THEN Goto(r, "subnet") /\ UNCHANGED said
           ELSE Succeeds(r)
     \/ /\ network' \in {network, Is(network, r, TRUE)}
        /\ Redirected(r, {})
     \/ Unauthorized(r) /\ UNCHANGED network
  /\ unsure' = Is(unsure, r, step'[r] = "redirect")
  /\ UNCHANGED <<subnet, port, withSubnet>>

\* A mutant: no rollback.
CreateSubnetOnly(r) ==
  /\ step[r] = "subnet"
  /\ \/ subnet' = Is(subnet, r, TRUE) /\ Succeeds(r)
     \/ subnet' \in {subnet, Is(subnet, r, TRUE)} /\ Redirected(r, {})
  /\ UNCHANGED <<network, port, withSubnet, unsure>>

\* _create_subnet, with no_redirect.
CreateSubnet(r) ==
  /\ step[r] = "subnet"
  /\ \/ subnet' = Is(subnet, r, TRUE) /\ Succeeds(r)
     \/ /\ subnet' \in {subnet, Is(subnet, r, TRUE)}
        /\ Says(r, {"error"}) /\ Goto(r, "rollback")
     \/ Unauthorized(r) /\ UNCHANGED subnet
  /\ UNCHANGED <<network, port, withSubnet, unsure>>

\* _delete_network.  Neutron deletes a network with its subnets, unless a port
\* is on it.  The redirection that is raised after the deletion is caught by
\* the handler of its failure, and adds an error message.
DeleteNetwork(r) ==
  LET Deleted == /\ ~port[r]
                 /\ network' = Is(network, r, FALSE)
                 /\ subnet' = Is(subnet, r, FALSE)
      Kept == UNCHANGED <<network, subnet>>
  IN
  /\ step[r] = "rollback"
  /\ \/ Deleted /\ Redirected(r, {"info"}) /\ UNCHANGED unsure
     \/ /\ Deleted \/ Kept
        /\ Redirected(r, {}) /\ unsure' = Is(unsure, r, TRUE)
     \/ Kept /\ Unauthorized(r) /\ UNCHANGED unsure
  /\ UNCHANGED <<port, withSubnet>>

\* Others see the network as soon as it is there, and use it.
PortComes(r) ==
  /\ network[r] /\ ~port[r]
  /\ port' = Is(port, r, TRUE)
  /\ UNCHANGED <<network, subnet, withSubnet, step, said, unsure>>

Handle(r) == CreateNetwork(r) \/ CreateSubnet(r) \/ DeleteNetwork(r)
Next == \E r \in Requests : Handle(r) \/ PortComes(r)
Spec == Init /\ [][Next]_vars

-----------------------------------------------------------------------------
(***************************************************************************)
(* The network comes with its subnet or not at all: success means both;    *)
(* "Delete the created network" is said only of one that is gone; and a    *)
(* user who is sent back with a network left, although its subnet failed,  *)
(* sees an error message, and only after a call that creates or deletes    *)
(* the network itself has failed.  (A refusal for want of rights ends all  *)
(* at once, with the network there.)                                       *)
(***************************************************************************)
WholeOrNothing ==
  \A r \in Requests :
    /\ "success" \in said[r] => network[r] /\ (withSubnet[r] => subnet[r])
    /\ "info" \in said[r] => ~network[r]
    /\ step[r] = "redirect" /\ network[r] => unsure[r] /\ "error" \in said[r]
=============================================================================
