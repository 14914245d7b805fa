----------------------------- MODULE TrunkForms -----------------------------
(***************************************************************************)
(* The update of a network trunk.  The browser sends the trunk as it was   *)
(* when the form was opened and as it is to be; trunk_update sends Neutron *)
(* the difference in at most three calls, each of which Neutron carries    *)
(* out as a whole or refuses.  Several forms may be open on one trunk.     *)
(***************************************************************************)
EXTENDS Naturals, FiniteSets

CONSTANTS
  Ports,       \* ports that may become subports
  Segments,    \* segmentation (type, ID)s
  Names,       \* what the other properties of a trunk may be
  Requests     \* open forms

SubPort == Ports \X Segments

\* "A single neutron port cannot be two subports at the same time."
Valid(S) == \A s, t \in S : s[1] = t[1] \/ s[2] = t[2] => s = t

Trunk == [name : Names, sub_ports : {S \in SUBSET SubPort : Valid(S)}]

VARIABLES
  trunk,       \* Neutron
  step,        \* the call a form's trunk_update comes to next
  old, new,    \* old_trunk, new_trunk
  alone        \* history: no call of another form took effect since it opened

vars == <<trunk, step, old, new, alone>>

TypeOK ==
  /\ trunk \in Trunk
  /\ step \in [Requests -> {"idle", "update", "remove", "add", "done",
                            "failed"}]
  /\ old \in [Requests -> Trunk] /\ new \in [Requests -> Trunk]
  /\ alone \in [Requests -> BOOLEAN]

Init ==
  /\ trunk \in Trunk
  /\ step = [r \in Requests |-> "idle"]
  /\ old = [r \in Requests |-> trunk] /\ new = [r \in Requests |-> trunk]
  /\ alone = [r \in Requests |-> TRUE]

-----------------------------------------------------------------------------
ToDeleteNow(r) == trunk.sub_ports \ new[r].sub_ports      \* a mutant
ToDelete(r) == old[r].sub_ports \ new[r].sub_ports
ToCreate(r) == new[r].sub_ports \ old[r].sub_ports

PortsOf(S) == {s[1] : s \in S}

Goto(r, s) == step' = [step EXCEPT ![r] = s]

\* A call of r that leaves the trunk as t.
Put(r, t) ==
  /\ trunk' = t
  /\ alone' = [q \in Requests |->
       alone[q] /\ (q = r \/ t = trunk \/ step[q] = "idle")]

\* The three calls: what is to be done by each, whether Neutron agrees, and
\* what it leaves.  The body of the second names only the ports.
Needed(r) ==
  CASE step[r] = "update" -> old[r].name # new[r].name
    [] step[r] = "remove" -> ToDelete(r) # {}
    [] step[r] = "add"    -> ToCreate(r) # {}

Agrees(r) ==
  CASE step[r] = "update" -> TRUE
    [] step[r] = "remove" -> PortsOf(ToDelete(r)) \subseteq PortsOf(trunk.sub_ports)
    [] step[r] = "add"    -> Valid(trunk.sub_ports \cup ToCreate(r))

Result(r) ==
  CASE step[r] = "update" -> [trunk EXCEPT !.name = new[r].name]
    [] step[r] = "remove" -> [trunk EXCEPT !.sub_ports =
                                {s \in @ : s[1] \notin PortsOf(ToDelete(r))}]
    [] step[r] = "add"    -> [trunk EXCEPT !.sub_ports = @ \cup ToCreate(r)]

\* A mutant: additions first.
AfterSwapped(s) ==
  CASE s = "update" -> "add" [] s = "add" -> "remove" [] s = "remove" -> "done"

After(s) ==
  CASE s = "update" -> "remove" [] s = "remove" -> "add" [] s = "add" -> "done"

Calling(r) == step[r] \in {"update", "remove", "add"}

-----------------------------------------------------------------------------
\* The form is opened, and what it is to send is decided.
Edit(r) ==
  /\ step[r] = "idle"
  /\ old' = [old EXCEPT ![r] = trunk]
  /\ \E t \in Trunk : new' = [new EXCEPT ![r] = t]
  /\ Goto(r, "update")
  /\ UNCHANGED <<trunk, alone>>

Skip(r) ==
  /\ Calling(r) /\ ~Needed(r)
  /\ Goto(r, After(step[r]))
  /\ UNCHANGED <<trunk, old, new, alone>>

Call(r) ==
  /\ Calling(r) /\ Needed(r) /\ Agrees(r)
  /\ Put(r, Result(r))
  /\ Goto(r, After(step[r]))
  /\ UNCHANGED <<old, new>>

\* Refused, not heard, or not answered: the exception ends the update.
Fail(r) ==
  /\ Calling(r) /\ Needed(r)
  /\ (Agrees(r) /\ Put(r, Result(r))) \/ UNCHANGED <<trunk, alone>>
  /\ Goto(r, "failed")
  /\ UNCHANGED <<old, new>>

Next == \E r \in Requests : Edit(r) \/ Skip(r) \/ Call(r) \/ Fail(r)
Spec == Init /\ [][Next]_vars

-----------------------------------------------------------------------------
(***************************************************************************)
(* "We have to delete old subports before creating new ones to avoid       *)
(* conflicts": as long as no other form changes the trunk, Neutron refuses *)
(* none of the calls, whatever ports and segments change places; and at    *)
(* the end the trunk is the one of the form.                               *)
(***************************************************************************)
NoConflict ==
  \A r \in Requests : alone[r] =>
    /\ Calling(r) /\ Needed(r) => Agrees(r)
    /\ step[r] = "done" => trunk = new[r]

(***************************************************************************)
(* Two forms open on one trunk are merged: what one has added is undone    *)
(* only by a form that dropped or changed that port, and what one has      *)
(* dropped comes back only by a form that added it, never because the      *)
(* other form was opened earlier and saved later.                          *)
(***************************************************************************)
EditsMerge ==
  \A r \in Requests : step[r] = "done" =>
    /\ \A s \in ToCreate(r) \ trunk.sub_ports :
         \E q \in Requests \ {r} : s[1] \in PortsOf(ToDelete(q))
    /\ \A s \in ToDelete(r) \cap trunk.sub_ports :
         \E q \in Requests \ {r} : s \in ToCreate(q)
=============================================================================
