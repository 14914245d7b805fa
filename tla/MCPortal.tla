------------------------------ MODULE MCPortal ------------------------------
(* The small instance of Portal that TLC checks.                           *)
EXTENDS Portal, TLC

CONSTANTS
  ann, bob, eve, grp, admin, member, q1,          \* of the role forms
  t1, t2, g1, g2                                  \* of the sessions

Symmetry ==
  Permutations(Posts) \cup Permutations(Projects) \cup Permutations(Ids)

-----------------------------------------------------------------------------
(* The instance of the role forms: ann is an administrator and edits the   *)
(* place they are logged into; a role is moved, taken and given.           *)

Table3(a, b, g) ==
  [p \in Editable |-> CASE p = ann -> a [] p = bob -> b [] p = grp -> g]

MCUserOf == [r \in Requests |-> IF r = q1 THEN ann ELSE bob]
MCForms ==
  {Table3({admin}, {member}, {member}), Table3({member}, {admin}, {}),
   Table3({admin}, {}, {admin})}
MCStarts ==
  {a \in Assignment :
     /\ a[eve] = {member} /\ a[ann] = {admin}
     /\ <<a[bob], a[grp]>> \in {<<{}, {}>>, <<{member}, {member}>>,
                                <<{admin}, {member}>>}}

-----------------------------------------------------------------------------
\* The second of two projects is in one region more.
MCRegionsOf == [p \in {t1, t2} |-> IF p = t1 THEN {g1} ELSE {g1, g2}]
=============================================================================
