---------------------------- MODULE ResourceLedger ----------------------------
(***************************************************************************)
(* What the control plane promises about the infrastructure behind an ADC: *)
(* resources are acquired only for an entry that is listed, and an entry   *)
(* is closed only when nothing it acquired is left, except what a failing  *)
(* call put out of reach.                                                  *)
(***************************************************************************)
CONSTANT Resource

VARIABLES
  entry,   \* the API's entry: "none" yet, "listed", or "closed" for good
  held,    \* resources that exist
  astray   \* resources lost to a failing call

vars == <<entry, held, astray>>

Init == entry = "none" /\ held = {} /\ astray = {}

Register ==
  /\ entry = "none"
  /\ entry' = "listed"
  /\ UNCHANGED <<held, astray>>

\* A resource comes into being, known to the entry or lost at once.
Acquire(r) ==
  /\ entry = "listed"
  /\ held' = held \union {r}
  /\ astray' \in {astray, astray \union {r}}
  /\ UNCHANGED entry

\* A release that fails is given up.
GiveUp(R) ==
  /\ entry = "listed"
  /\ R \subseteq held
  /\ astray' = astray \union R
  /\ UNCHANGED <<entry, held>>

Release(r) ==
  /\ held' = held \ {r}
  /\ UNCHANGED <<entry, astray>>

Close ==
  /\ entry = "listed"
  /\ held \subseteq astray
  /\ entry' = "closed"
  /\ UNCHANGED <<held, astray>>

Next ==
  \/ Register
  \/ \E r \in Resource : Acquire(r) \/ Release(r)
  \/ \E R \in SUBSET Resource : GiveUp(R)
  \/ Close

Spec == Init /\ [][Next]_vars
=============================================================================
