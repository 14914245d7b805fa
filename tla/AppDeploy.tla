------------------------------ MODULE AppDeploy ------------------------------
(***************************************************************************)
(* How applications come onto an ADC.  /applications/{id}/deploy patches   *)
(* the tenant's configuration on the BIG-IP and, when the BIG-IP has none, *)
(* declares it as a whole; .../declarations/{id}/deploy always declares it *)
(* as a whole, after binding the virtual addresses to the ADC's external   *)
(* port; .../cleanup takes an application out again.  The module follows   *)
(* one tenant on one ADC, and requests that overlap.                       *)
(***************************************************************************)
EXTENDS Naturals, FiniteSets

CONSTANTS
  Apps,        \* applications of the tenant; each has a virtual address
  Decls,       \* contents of declarations
  Requests,    \* deployments and cleanups
  None         \* no content

VARIABLES
  partition,   \* the BIG-IP: does it have a configuration of the tenant?
  deployed,    \* the BIG-IP: what it runs of every application
  fixedIps,    \* Neutron: the addresses on the external port, by application
  step,        \* where a request is; at the end, what it answers
  op,          \* what is asked for: "deploy", "proxyDeploy" or "cleanup"
  app, decl,   \* of which application, and with which content
  ips,         \* portParams.fixedIps: the addresses as they were read
  there,       \* history: what the BIG-IP ran when it answered the patch
  took,        \* history: has the BIG-IP taken what is asked for?
  overlap      \* history: has another request changed the port between the
               \* reading and the writing of this one, or this one of that?

vars == <<partition, deployed, fixedIps, step, op, app, decl, ips, there,
          took, overlap>>

Content == [Apps -> Decls \cup {None}]
Nothing == [a \in Apps |-> None]
Op == {"deploy", "proxyDeploy", "cleanup"}
Step == {"idle", "patch", "declare", "read", "update", "remove", "204",
         "error"}

TypeOK ==
  /\ partition \in BOOLEAN
  /\ deployed \in Content
  /\ fixedIps \subseteq Apps
  /\ step \in [Requests -> Step]
  /\ op \in [Requests -> Op]
  /\ app \in [Requests -> Apps]
  /\ decl \in [Requests -> Decls]
  /\ ips \in [Requests -> SUBSET Apps]
  /\ there \in [Requests -> Content]
  /\ took \in [Requests -> BOOLEAN]
  /\ overlap \in [Requests -> BOOLEAN]

Init ==
  /\ partition \in BOOLEAN
  /\ deployed = Nothing
  /\ fixedIps = {}
  /\ step = [r \in Requests |-> "idle"]
  /\ op \in [Requests -> Op]
  /\ app \in [Requests -> Apps]
  /\ decl \in [Requests -> Decls]
  /\ ips = [r \in Requests |-> {}]
  /\ there = [r \in Requests |-> Nothing]
  /\ took = [r \in Requests |-> FALSE]
  /\ overlap = [r \in Requests |-> FALSE]

-----------------------------------------------------------------------------
Goto(r, s) == step' = [step EXCEPT ![r] = s]

\* AS3 at work: `add' puts an application into a tenant that is there; a
\* declaration replaces the whole tenant by the application it names.
Patched(r) ==
  /\ partition
  /\ deployed' = [deployed EXCEPT ![app[r]] = decl[r]]
  /\ took' = [took EXCEPT ![r] = TRUE]
  /\ UNCHANGED partition

Declared(r) ==
  /\ partition' = TRUE
  /\ deployed' = [Nothing EXCEPT ![app[r]] = decl[r]]
  /\ took' = [took EXCEPT ![r] = TRUE]

Removed(r) ==
  /\ partition /\ deployed[app[r]] # None
  /\ deployed' = [deployed EXCEPT ![app[r]] = None]
  /\ took' = [took EXCEPT ![r] = TRUE]
  /\ UNCHANGED partition

NotTaken == UNCHANGED <<partition, deployed, took>>

\* The rows are read; one that is missing ends the request there.
Start(r) ==
  /\ step[r] = "idle"
  /\ Goto(r, CASE op[r] = "deploy" -> "patch"
               [] op[r] = "proxyDeploy" -> "read"
               [] op[r] = "cleanup" -> "remove")
  /\ UNCHANGED <<partition, deployed, fixedIps, op, app, decl, ips, there,
                 took, overlap>>

-----------------------------------------------------------------------------
(* deployById.                                                             *)

\* A mutant: any failure of the patch is followed by the declaration.
PatchOrDeclare(r) ==
  /\ step[r] = "patch"
  /\ there' = [there EXCEPT ![r] = deployed]
  /\ \/ Patched(r) /\ Goto(r, "204")
     \/ NotTaken /\ Goto(r, "declare")
  /\ UNCHANGED <<fixedIps, op, app, decl, ips, overlap>>

\* The patch is taken; or it is refused since its path does not exist, and
\* the declaration is next; or it fails otherwise, before or after it had its
\* effect, and the request goes on to its end.
Patch(r) ==
  /\ step[r] = "patch"
  /\ there' = [there EXCEPT ![r] = deployed]
  /\ \/ Patched(r) /\ Goto(r, "204")
     \/ ~partition /\ NotTaken /\ Goto(r, "declare")
     \/ NotTaken /\ Goto(r, "204")
  /\ UNCHANGED <<fixedIps, op, app, decl, ips, overlap>>

\* The declaration as a whole, of either route.
Declare(r) ==
  /\ step[r] = "declare"
  /\ \/ Declared(r) /\ Goto(r, "204")
     \/ (Declared(r) \/ NotTaken) /\ Goto(r, "error")
  /\ UNCHANGED <<fixedIps, op, app, decl, ips, there, overlap>>

-----------------------------------------------------------------------------
(* proxyDeploy.  TryBindVirtualAddressToExt reads the port's addresses,    *)
(* adds those of the declaration, and writes them all.                     *)

GetPortInfo(r) ==
  /\ step[r] = "read"
  /\ \/ ips' = [ips EXCEPT ![r] = fixedIps] /\ Goto(r, "update")
     \/ Goto(r, "error") /\ UNCHANGED ips
  /\ UNCHANGED <<partition, deployed, fixedIps, op, app, decl, there, took,
                 overlap>>

WrittenAlone(r) == {app[r]}                         \* a mutant
Written(r) == ips[r] \cup {app[r]}

UpdatePort(r) ==
  /\ step[r] = "update"
  /\ \/ /\ fixedIps' = Written(r)
        /\ overlap' = [q \in Requests |->
             \/ overlap[q]
             \/ q # r /\ step[q] = "update"
             \/ q = r /\ \E p \in Requests \ {r} : step[p] = "update"]
        /\ step' \in {[step EXCEPT ![r] = s] : s \in {"declare", "error"}}
     \/ Goto(r, "error") /\ UNCHANGED <<fixedIps, overlap>>
  /\ UNCHANGED <<partition, deployed, op, app, decl, ips, there, took>>

-----------------------------------------------------------------------------
(* cleanupById.                                                            *)

Remove(r) ==
  /\ step[r] = "remove"
  /\ \/ Removed(r) /\ Goto(r, "204")
     \/ (Removed(r) \/ NotTaken) /\ Goto(r, "error")
  /\ UNCHANGED <<fixedIps, op, app, decl, ips, there, overlap>>

Handle(r) ==
  Start(r) \/ Patch(r) \/ Declare(r) \/ GetPortInfo(r) \/ UpdatePort(r)
    \/ Remove(r)

Next == \E r \in Requests : Handle(r)
Spec == Init /\ [][Next]_vars

-----------------------------------------------------------------------------
(***************************************************************************)
(* To deploy an application by its default declaration touches no other:   *)
(* what the BIG-IP ran when it was asked it still runs as it did.  The     *)
(* whole tenant is declared only where there was nothing to lose, though   *)
(* an application that came meanwhile is lost to it.                       *)
(***************************************************************************)
SparesOthersStep ==
  \A r \in Requests :
    op[r] = "deploy" /\ step'[r] # step[r] =>
      \A a \in Apps \ {app[r]} :
        there[r][a] # None => deployed'[a] = deployed[a]

SparesOthers == [][SparesOthersStep]_vars

(***************************************************************************)
(* A declaration that is reported deployed by its own route was taken by   *)
(* the BIG-IP, and its virtual address is on the port, where it stays      *)
(* whatever is deployed later, unless two requests read and wrote the      *)
(* port's addresses at the same time.                                      *)
(***************************************************************************)
AddressesServe ==
  \A r \in Requests :
    op[r] = "proxyDeploy" /\ step[r] = "204" =>
      /\ took[r]
      /\ overlap[r] \/ app[r] \in fixedIps

(***************************************************************************)
(* "204: Successfully deploy Application resource", "422: Fail to deploy   *)
(* Application resource".                                                  *)
(***************************************************************************)
DeploySaysTrue ==
  \A r \in Requests : op[r] = "deploy" /\ step[r] = "204" => took[r]
=============================================================================
