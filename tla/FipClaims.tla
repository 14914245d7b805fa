------------------------------ MODULE FipClaims ------------------------------
(***************************************************************************)
(* The floating IP of an ADC.  The creation looks the address up, and      *)
(* binds the floating IP it finds or creates one, in a call of its own;    *)
(* the reclaim deletes the ADC's port, and then the floating IP if it was  *)
(* created for the ADC.  Several ADCs may name one address, and nothing    *)
(* but the status that was looked up keeps them apart: one that the agents *)
(* of Neutron set some time after a floating IP has been bound.            *)
(***************************************************************************)
EXTENDS Naturals, FiniteSets

CONSTANTS
  Adcs,        \* ADCs that name the address
  MaxFips,     \* bound: floating IPs there ever are with the address
  None         \* no floating IP, no port

Fips == 0 .. MaxFips     \* 0 is the one the user made beforehand

VARIABLES
  fip,         \* Neutron: the floating IP with the address
  port,        \* Neutron: the ADC whose port it is bound to
  down,        \* Neutron: is its status DOWN?
  born,        \* how many have been created
  step,        \* where an ADC's creation or reclaim is
  found,       \* fips, as the creation looked it up
  rcd,         \* floatingIpId in management.networks
  created,     \* floatingIpCreated in it
  raced,       \* history: has another ADC touched the floating IP between
               \* the lookup and the binding of this one, or this one between
               \* those of another, or while another gave it up?
  late         \* history: the floating IPs that were found DOWN when they were
               \* bound to a port

vars == <<fip, port, down, born, step, found, rcd, created, raced, late>>

Step == {"idle", "bind", "create", "bound", "failed", "unfip", "reclaimed"}

TypeOK ==
  /\ fip \in Fips \cup {None}
  /\ port \in Adcs \cup {None}
  /\ born \in Fips
  /\ step \in [Adcs -> Step]
  /\ found \in [Adcs -> Fips \cup {None}]
  /\ rcd \in [Adcs -> Fips \cup {None}]
  /\ created \in [Adcs -> BOOLEAN]
  /\ raced \in [Adcs -> BOOLEAN]
  /\ down \in BOOLEAN /\ late \subseteq Fips

Init ==
  /\ fip \in {0, None}
  /\ port = None
  /\ born = 0
  /\ step = [c \in Adcs |-> "idle"]
  /\ found = [c \in Adcs |-> None]
  /\ rcd = [c \in Adcs |-> None]
  /\ created = [c \in Adcs |-> FALSE]
  /\ raced = [c \in Adcs |-> FALSE]
  /\ down = TRUE /\ late = {}

-----------------------------------------------------------------------------
Goto(c, s) == step' = [step EXCEPT ![c] = s]

\* The ADCs that act on what they have looked up or are giving up.
Between == {c \in Adcs : step[c] \in {"bind", "create", "unfip"}}

\* A call of c that changes the floating IP.
Touch(c) ==
  raced' = [d \in Adcs |-> raced[d] \/ (d # c /\ d \in Between)
                                   \/ (d = c /\ Between \ {c} # {})]

\* getFloatingIps answers, whether or not the status has caught up.
Answered(c) ==
  /\ found' = [found EXCEPT ![c] = fip]
  /\ late' = IF fip # None /\ port # None /\ down THEN late \cup {fip} ELSE late
  /\ UNCHANGED <<fip, port, down, born, rcd, created, raced>>

\* A mutant: the status is not looked at.
LookupAny(c) ==
  /\ step[c] = "idle"
  /\ Answered(c)
  /\ Goto(c, IF fip = None THEN "create" ELSE "bind")

\* createPort has been called; the address is found or not, and one whose
\* status is not DOWN ends the creation.
Lookup(c) ==
  /\ step[c] = "idle"
  /\ Answered(c)
  /\ Goto(c, IF fip = None THEN "create" ELSE IF down THEN "bind" ELSE "failed")

\* The agents report the floating IP ACTIVE, in ERROR or DOWN at a time of
\* their own, after its binding has changed or before they know that it has.
Report ==
  /\ fip # None
  /\ down' = ~down
  /\ UNCHANGED <<fip, port, born, step, found, rcd, created, raced, late>>

\* A mutant: whatever is bound is deleted with the ADC.
BindAsCreated(c) ==
  /\ step[c] = "bind" /\ fip = found[c]
  /\ port' = c /\ Touch(c)
  /\ rcd' = [rcd EXCEPT ![c] = fip]
  /\ created' = [created EXCEPT ![c] = TRUE]
  /\ Goto(c, "bound")
  /\ UNCHANGED <<fip, down, born, found, late>>

\* bindFloatingIpToPort: Neutron moves one that is bound elsewhere.
Bind(c) ==
  /\ step[c] = "bind"
  /\ \/ /\ fip = found[c]
        /\ port' = c /\ Touch(c)
        /\ \/ /\ rcd' = [rcd EXCEPT ![c] = fip]
              /\ created' = [created EXCEPT ![c] = FALSE]
              /\ Goto(c, "bound")
           \/ Goto(c, "failed") /\ UNCHANGED <<rcd, created>>
     \/ Goto(c, "failed") /\ UNCHANGED <<port, rcd, created, raced>>
  /\ UNCHANGED <<fip, down, born, found, late>>

\* createFloatingIp: Neutron gives an address once, DOWN at first.
Create(c) ==
  /\ step[c] = "create"
  /\ \/ /\ fip = None /\ born < MaxFips
        /\ born' = born + 1 /\ fip' = born' /\ port' = c /\ down' = TRUE
        /\ Touch(c)
        /\ \/ /\ rcd' = [rcd EXCEPT ![c] = fip']
              /\ created' = [created EXCEPT ![c] = TRUE]
              /\ Goto(c, "bound")
           \/ Goto(c, "failed") /\ UNCHANGED <<rcd, created>>
     \/ /\ Goto(c, "failed")
        /\ UNCHANGED <<fip, port, down, born, rcd, created, raced>>
  /\ UNCHANGED <<found, late>>

\* deleteOn, network: the port goes, and with it what was bound to it; when
\* the call fails, with or without effect, the floating IP is not tried.
DeletePort(c) ==
  /\ step[c] \in {"bound", "failed"}
  /\ \/ /\ port' = IF port = c THEN None ELSE port
        /\ Goto(c, IF created[c] THEN "unfip" ELSE "reclaimed")
     \/ /\ port' \in {port, IF port = c THEN None ELSE port}
        /\ Goto(c, "reclaimed")
  /\ UNCHANGED <<fip, down, born, found, rcd, created, raced, late>>

\* deleteFloatingIp, wherever it is bound by now; an error is logged, and the
\* reclaim goes on.
DeleteFip(c) ==
  /\ step[c] = "unfip"
  /\ \/ /\ fip = rcd[c]
        /\ fip' = None /\ port' = None /\ Touch(c)
        /\ \/ /\ rcd' = [rcd EXCEPT ![c] = None]
              /\ created' = [created EXCEPT ![c] = FALSE]
           \/ UNCHANGED <<rcd, created>>
     \/ UNCHANGED <<fip, port, rcd, created, raced>>
  /\ Goto(c, "reclaimed")
  /\ UNCHANGED <<down, born, found, late>>

Act(c) == Lookup(c) \/ Bind(c) \/ Create(c) \/ DeletePort(c) \/ DeleteFip(c)
Next == (\E c \in Adcs : Act(c)) \/ Report
Spec == Init /\ [][Next]_vars

-----------------------------------------------------------------------------
(***************************************************************************)
(* An ADC whose creation has recorded a floating IP has it: the address    *)
(* leads to its port until it is reclaimed.  Two things break that, which  *)
(* the code does not prevent: another ADC has come between the lookup and  *)
(* the binding, or between the two calls by which one is given up; or the  *)
(* status was late, so that an ADC found the floating IP DOWN which        *)
(* another had bound, though none of their calls overlapped.               *)
(***************************************************************************)
RecordedIsBound ==
  \A c \in Adcs : step[c] = "bound" =>
    raced[c] \/ rcd[c] \in late \/ (fip = rcd[c] /\ port = c)

(***************************************************************************)
(* Reclaiming an ADC never deletes a floating IP that was there before it  *)
(* was created: the user's own stays theirs, however creations and         *)
(* reclaims interleave.                                                    *)
(***************************************************************************)
UsersFipStep == fip = 0 => fip' = 0

UsersFipStays == [][UsersFipStep]_vars
=============================================================================
