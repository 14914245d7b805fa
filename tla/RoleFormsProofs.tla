-------------------------- MODULE RoleFormsProofs --------------------------
(***************************************************************************)
(* Proofs about RoleForms, for any users, groups, roles and requests: the  *)
(* inductive invariant RoleInv, and from it all the module's properties.   *)
(***************************************************************************)
EXTENDS RoleForms, TLAPS

\* What RoleInv says of a request, beside its types.
Good(r) ==
  /\ CallsOK(r) /\ OwnAdminOK(r) /\ ReadOK(r) /\ OrderOK(r) /\ ProgressOK(r)
  /\ Unrivalled(r) => Between(r)

\* RoleInv is the types and what is good of every request.
LEMMA InvIsGood == RoleInv <=> TypeOK /\ \A r \in Requests : Good(r)
BY DEF RoleInv, StaysBetween, Good

\* Nothing is assigned that is not a role, and no request has read anything.
LEMMA InitInv == Init => RoleInv
<1> SUFFICES ASSUME Init PROVE RoleInv
  OBVIOUS
<1>1. TypeOK
  BY RoleFormsAssumption
  DEF Init, TypeOK, Assignment, Nobody, Step, Editable
<1>2. ASSUME NEW r \in Requests PROVE Good(r)
  <2>1. /\ step[r] = "idle" /\ company[r] = "unread" /\ grant[r] = {}
        /\ revoke[r] = {} /\ (~exists => assigned = Nobody)
    BY DEF Init
  <2>2. CallsOK(r) /\ OwnAdminOK(r) /\ ReadOK(r)
    BY <2>1 DEF CallsOK, OwnAdminOK, ReadOK, Through, Creating
  <2>3. OrderOK(r) /\ ProgressOK(r) /\ (Unrivalled(r) => Between(r))
    BY <2>1 DEF OrderOK, ProgressOK, Unrivalled
  <2> QED
    BY <2>2, <2>3 DEF Good
<1> QED
  BY <1>1, <1>2, InvIsGood

-----------------------------------------------------------------------------
(* Types.                                                                  *)

\* A role more or less leaves an assignment.
LEMMA CallType ==
  ASSUME assigned \in Assignment, NEW pr \in Editable \X Roles
  PROVE  /\ With(pr[1], pr[2]) \in Assignment
         /\ Without(pr[1], pr[2]) \in Assignment
<1>1. pr[1] \in Principals /\ pr[2] \in Roles
  BY DEF Editable, Principals
<1> QED
  BY <1>1 DEF With, Without, Assignment

\* A call changes the assignments, and who has company.
LEMMA AssignType ==
  ASSUME TypeOK, NEW r \in Requests, NEW new \in Assignment, Assign(r, new)
  PROVE  /\ assigned' \in Assignment
         /\ company' \in [Requests -> {"unread", "none", "twin", "rival"}]
<1>1. ASSUME NEW q \in Requests
      PROVE  company[q] \in {"unread", "none", "twin", "rival"}
  BY DEF TypeOK
<1> QED
  BY <1>1 DEF Assign

\* Grant keeps the types.
LEMMA TypeGrant ==
  ASSUME RoleInv, NEW r \in Requests, Grant(r)
  PROVE  TypeOK'
<1>1. PICK pr \in grant[r] : /\ grant' = [grant EXCEPT ![r] = @ \ {pr}]
                             /\ Assign(r, With(pr[1], pr[2]))
  BY DEF Grant
<1>2. pr \in Editable \X Roles
  BY <1>1 DEF RoleInv, TypeOK
<1>3. assigned' \in Assignment
      /\ company' \in [Requests -> {"unread", "none", "twin", "rival"}]
  BY <1>1, <1>2, CallType, AssignType DEF RoleInv, TypeOK
<1>4. grant' \in [Requests -> SUBSET (Editable \X Roles)]
  BY <1>1 DEF RoleInv, TypeOK
<1> QED
  BY <1>3, <1>4 DEF Grant, RoleInv, TypeOK

\* Revoke keeps the types.
LEMMA TypeRevoke ==
  ASSUME RoleInv, NEW r \in Requests, Revoke(r)
  PROVE  TypeOK'
<1>1. PICK pr \in revoke[r] : /\ revoke' = [revoke EXCEPT ![r] = @ \ {pr}]
                              /\ Assign(r, Without(pr[1], pr[2]))
  BY DEF Revoke
<1>2. pr \in Editable \X Roles
  BY <1>1 DEF RoleInv, TypeOK
<1>3. assigned' \in Assignment
      /\ company' \in [Requests -> {"unread", "none", "twin", "rival"}]
  BY <1>1, <1>2, CallType, AssignType DEF RoleInv, TypeOK
<1>4. revoke' \in [Requests -> SUBSET (Editable \X Roles)]
  BY <1>1 DEF RoleInv, TypeOK
<1> QED
  BY <1>3, <1>4 DEF Revoke, RoleInv, TypeOK

\* CallFails keeps the types.
LEMMA TypeCallFails ==
  ASSUME RoleInv, NEW r \in Requests, CallFails(r)
  PROVE  TypeOK'
<1>1. assigned' \in Assignment
      /\ company' \in [Requests -> {"unread", "none", "twin", "rival"}]
  <2>1. CASE \E pr \in grant[r] : Assign(r, With(pr[1], pr[2]))
    <3>1. PICK pr \in grant[r] : Assign(r, With(pr[1], pr[2]))
      BY <2>1
    <3> QED
      BY <3>1, CallType, AssignType DEF RoleInv, TypeOK
  <2>2. CASE \E pr \in revoke[r] : Assign(r, Without(pr[1], pr[2]))
    <3>1. PICK pr \in revoke[r] : Assign(r, Without(pr[1], pr[2]))
      BY <2>2
    <3> QED
      BY <3>1, CallType, AssignType DEF RoleInv, TypeOK
  <2>3. CASE UNCHANGED <<assigned, company>>
    BY <2>3 DEF RoleInv, TypeOK
  <2> QED
    BY <2>1, <2>2, <2>3 DEF CallFails
<1>2. /\ step' \in [Requests -> Step]
      /\ errors' \in [Requests -> BOOLEAN]
      /\ left' \in [Requests -> SUBSET Editable]
      /\ grant' \in [Requests -> SUBSET (Editable \X Roles)]
      /\ revoke' \in [Requests -> SUBSET (Editable \X Roles)]
  BY DEF CallFails, Abort, Goto, RoleInv, TypeOK, Step, Creating, Updating
<1> QED
  BY <1>1, <1>2 DEF CallFails, RoleInv, TypeOK

\* Submit keeps the types.
LEMMA TypeSubmit ==
  ASSUME RoleInv, NEW r \in Requests, Submit(r)
  PROVE  TypeOK'
BY RoleFormsAssumption DEF Submit, RoleInv, TypeOK, Goto,
   Step, Updating

\* ReadUsers keeps the types.
LEMMA TypeReadUsers ==
  ASSUME RoleInv, NEW r \in Requests, ReadUsers(r)
  PROVE  TypeOK'
BY DEF ReadUsers, RoleInv, TypeOK, Goto,
   Step, Updating, Editable, Principals, Assignment

\* NextUser keeps the types.
LEMMA TypeNextUser ==
  ASSUME RoleInv, NEW r \in Requests, NextUser(r)
  PROVE  TypeOK'
<1>1. PICK u \in left[r] :
        /\ left' = [left EXCEPT ![r] = @ \ {u}]
        /\ grant' = [grant EXCEPT ![r] = ToGrant(form[r], u, seen[r][u])]
        /\ revoke' = [revoke EXCEPT ![r] =
             IF IsRemovingSelfAdminRole(r, u, seen[r][u] \ form[r][u]) THEN {}
             ELSE ToRevoke(form[r], u, seen[r][u])]
  BY DEF NextUser
<1>2. u \in Users /\ left[r] \subseteq Editable
  BY <1>1 DEF NextUser, RoleInv, ReadOK, TypeOK
<1>3. seen[r][u] \subseteq Roles /\ form[r][u] \subseteq Roles /\ u \in Editable
  BY <1>2 DEF RoleInv, TypeOK, Editable
<1>4. /\ ToGrant(form[r], u, seen[r][u]) \in SUBSET (Editable \X Roles)
      /\ ToRevoke(form[r], u, seen[r][u]) \in SUBSET (Editable \X Roles)
  BY <1>3 DEF ToGrant, ToRevoke
<1>5. left' \in [Requests -> SUBSET Editable]
  BY <1>1, <1>2 DEF RoleInv, TypeOK
<1>6. /\ grant' \in [Requests -> SUBSET (Editable \X Roles)]
      /\ revoke' \in [Requests -> SUBSET (Editable \X Roles)]
  BY <1>1, <1>4 DEF RoleInv, TypeOK
<1> QED
  BY <1>5, <1>6 DEF NextUser, RoleInv, TypeOK

\* NewUsers keeps the types.
LEMMA TypeNewUsers ==
  ASSUME RoleInv, NEW r \in Requests, NewUsers(r)
  PROVE  TypeOK'
BY DEF NewUsers, RoleInv, TypeOK, Through, GrantsOf, Goto,
   Step, Updating, Editable

\* ReadGroups keeps the types.
LEMMA TypeReadGroups ==
  ASSUME RoleInv, NEW r \in Requests, ReadGroups(r)
  PROVE  TypeOK'
BY DEF ReadGroups, RoleInv, TypeOK, Through, Goto,
   Step, Updating, Editable

\* ListGroup keeps the types.
LEMMA TypeListGroup ==
  ASSUME RoleInv, NEW r \in Requests, ListGroup(r)
  PROVE  TypeOK'
<1>1. PICK g \in left[r] : /\ left' = [left EXCEPT ![r] = @ \ {g}]
                           /\ known' = [known EXCEPT ![r] = @ \cup ListedGroups(g)]
  BY DEF ListGroup
<1>2. g \in Groups
  BY <1>1 DEF ListGroup, RoleInv, ReadOK
<1>3. left' \in [Requests -> SUBSET Editable]
  BY <1>1 DEF RoleInv, TypeOK
<1>4. known' \in [Requests -> SUBSET Groups]
  BY <1>1, <1>2 DEF RoleInv, TypeOK, ListedGroups
<1> QED
  BY <1>3, <1>4 DEF ListGroup, RoleInv, TypeOK

\* UpdateGroups keeps the types.
LEMMA TypeUpdateGroups ==
  ASSUME RoleInv, NEW r \in Requests, UpdateGroups(r)
  PROVE  TypeOK'
BY DEF UpdateGroups, RoleInv, TypeOK, Goto,
   Step, Updating, Editable

\* NextGroup keeps the types.
LEMMA TypeNextGroup ==
  ASSUME RoleInv, NEW r \in Requests, NextGroup(r)
  PROVE  TypeOK'
<1>1. PICK g \in left[r] :
        /\ left' = [left EXCEPT ![r] = @ \ {g}]
        /\ grant' = [grant EXCEPT ![r] = ToGrant(form[r], g, assigned[g])]
        /\ revoke' = [revoke EXCEPT ![r] = ToRevoke(form[r], g, assigned[g])]
  BY DEF NextGroup
<1>2. g \in Groups
  BY <1>1 DEF NextGroup, RoleInv, ReadOK
<1>3. assigned[g] \subseteq Roles /\ form[r][g] \subseteq Roles /\ g \in Editable
  BY <1>2 DEF RoleInv, TypeOK, Editable, Assignment, Principals
<1>4. /\ ToGrant(form[r], g, assigned[g]) \in SUBSET (Editable \X Roles)
      /\ ToRevoke(form[r], g, assigned[g]) \in SUBSET (Editable \X Roles)
  BY <1>3 DEF ToGrant, ToRevoke
<1>5. left' \in [Requests -> SUBSET Editable]
  BY <1>1 DEF RoleInv, TypeOK
<1>6. /\ grant' \in [Requests -> SUBSET (Editable \X Roles)]
      /\ revoke' \in [Requests -> SUBSET (Editable \X Roles)]
  BY <1>1, <1>4 DEF RoleInv, TypeOK
<1> QED
  BY <1>5, <1>6 DEF NextGroup, RoleInv, TypeOK

\* NewGroups keeps the types.
LEMMA TypeNewGroups ==
  ASSUME RoleInv, NEW r \in Requests, NewGroups(r)
  PROVE  TypeOK'
BY DEF NewGroups, RoleInv, TypeOK, Through, GrantsOf, UnknownGroups, Goto,
   Step, Updating, Editable

\* UpdateQuota keeps the types.
LEMMA TypeUpdateQuota ==
  ASSUME RoleInv, NEW r \in Requests, UpdateQuota(r)
  PROVE  TypeOK'
BY DEF UpdateQuota, RoleInv, TypeOK, Through, Goto,
   Step, Updating

\* Finish keeps the types.
LEMMA TypeFinish ==
  ASSUME RoleInv, NEW r \in Requests, Finish(r)
  PROVE  TypeOK'
BY DEF Finish, RoleInv, TypeOK, Goto,
   Step

\* ReadFails keeps the types.
LEMMA TypeReadFails ==
  ASSUME RoleInv, NEW r \in Requests, ReadFails(r)
  PROVE  TypeOK'
BY DEF ReadFails, RoleInv, TypeOK, Through, Abort, Goto, Creating,
   Step, Updating

\* CreateProject keeps the types.
LEMMA TypeCreateProject ==
  ASSUME RoleInv, NEW r \in Requests, CreateProject(r)
  PROVE  TypeOK'
<1>1. form' \in [Requests -> [Editable -> SUBSET Roles]]
  BY RoleFormsAssumption DEF CreateProject, RoleInv, TypeOK
<1>2. GrantsOf(form'[r], Users) \in SUBSET (Editable \X Roles)
  BY <1>1 DEF GrantsOf, Editable
<1>3. exists' \in BOOLEAN
  BY DEF CreateProject, RoleInv, TypeOK
<1>4. grant' \in [Requests -> SUBSET (Editable \X Roles)]
  BY <1>2 DEF CreateProject, RoleInv, TypeOK
<1>5. step' \in [Requests -> Step]
  <2>1. "cusers" \in Step /\ "failed" \in Step
    BY DEF Step, Creating
  <2>2. \/ step' = [step EXCEPT ![r] = "cusers"]
        \/ step' = [step EXCEPT ![r] = "failed"]
    BY DEF CreateProject, Goto
  <2> QED
    BY <2>1, <2>2 DEF RoleInv, TypeOK
<1>6. errors' \in [Requests -> BOOLEAN]
  BY DEF CreateProject, RoleInv, TypeOK
<1>8. before' \in [Requests -> Assignment]
  BY DEF CreateProject, RoleInv, TypeOK
<1>7. company' \in [Requests -> {"unread", "none", "twin", "rival"}]
  BY DEF CreateProject, RoleInv, TypeOK
<1> QED
  BY <1>1, <1>3, <1>4, <1>5, <1>6, <1>7, <1>8 DEF CreateProject, RoleInv, TypeOK

\* CreateGroups keeps the types.
LEMMA TypeCreateGroups ==
  ASSUME RoleInv, NEW r \in Requests, CreateGroups(r)
  PROVE  TypeOK'
BY DEF CreateGroups, RoleInv, TypeOK, Through, GrantsOf, Goto,
   Step, Creating, Editable

\* CreateQuota keeps the types.
LEMMA TypeCreateQuota ==
  ASSUME RoleInv, NEW r \in Requests, CreateQuota(r)
  PROVE  TypeOK'
BY DEF CreateQuota, RoleInv, TypeOK, Through, Goto,
   Step, Creating

\* FinishCreate keeps the types.
LEMMA TypeFinishCreate ==
  ASSUME RoleInv, NEW r \in Requests, FinishCreate(r)
  PROVE  TypeOK'
BY DEF FinishCreate, RoleInv, TypeOK, Goto,
   Step

-----------------------------------------------------------------------------
(* The calls.                                                              *)

\* A request whose calls others do not touch and that sees no change of the
\* assignments stays good.
LEMMA Frame ==
  ASSUME NEW q \in Requests, Good(q),
         UNCHANGED <<object, assigned>>, exists => exists',
         step'[q] = step[q], form'[q] = form[q], seen'[q] = seen[q],
         left'[q] = left[q], known'[q] = known[q], grant'[q] = grant[q],
         revoke'[q] = revoke[q], errors'[q] = errors[q],
         before'[q] = before[q], company'[q] = company[q]
  PROVE  Good(q)'
<1>1. CallsOK(q)' /\ OwnAdminOK(q)' /\ OrderOK(q)'
  BY DEF Good, CallsOK, Through, OwnAdminOK, OrderOK, GrantsTo
<1>2. ReadOK(q)'
  BY DEF Good, ReadOK
<1>3. (Unrivalled(q) => Between(q))'
  BY DEF Good, Unrivalled, Between
<1>4. ProgressOK(q)'
  BY DEF Good, ProgressOK, Unrivalled, UnknownGroups, Come, Settled, GrantsTo,
     RevokesFrom, Spared, IsRemovingSelfAdminRole
<1> QED
  BY <1>1, <1>2, <1>3, <1>4 DEF Good

\* Who has company after a call: with another form's, a rival.
LEMMA Company ==
  ASSUME RoleInv, NEW r \in Requests, NEW q \in Requests, NEW new,
         Assign(r, new)
  PROVE  /\ company[q] = "unread" => company'[q] = "unread"
         /\ company'[q] = "none" =>
              company[q] = "none" /\ (q = r \/ assigned' = assigned)
         /\ Unrivalled(q)' =>
              /\ Unrivalled(q)
              /\ q = r \/ assigned' = assigned \/ form[q] = form[r]
BY DEF Assign, Unrivalled, RoleInv, TypeOK

\* Where there is a call pending, there is what the form is about.
LEMMA CallingExists ==
  ASSUME RoleInv, NEW r \in Requests, grant[r] \cup revoke[r] # {}
  PROVE  exists
BY DEF RoleInv, ReadOK, CallsOK, Through

\* What a call of r may leave: a role the form asks for more, one it does not
\* ask for less, or what was there.
Effect(r, new) ==
  \/ new = assigned
  \/ \E p \in Editable, x \in Roles :
       \/ x \in form[r][p] /\ new = With(p, x)
       \/ x \notin form[r][p] /\ new = Without(p, x)

\* Calls of r that agree with the form of q leave q between what it found and
\* what it asks for, and what it has settled settled.
LEMMA EffectKeeps ==
  ASSUME RoleInv, NEW r \in Requests, NEW q \in Requests, form[q] = form[r],
         Effect(r, assigned')
  PROVE  /\ \A p \in Editable :
              /\ assigned[p] \cap form[q][p] \subseteq assigned'[p]
              /\ assigned'[p] \subseteq assigned[p] \cup form[q][p]
         /\ \A p \in Outsiders : assigned'[p] = assigned[p]
<1>1. CASE assigned' = assigned
  BY <1>1
<1>2. ASSUME NEW p \in Editable, NEW x \in Roles,
             x \in form[r][p], assigned' = With(p, x)
      PROVE  /\ \A o \in Editable :
                  /\ assigned[o] \cap form[q][o] \subseteq assigned'[o]
                  /\ assigned'[o] \subseteq assigned[o] \cup form[q][o]
             /\ \A o \in Outsiders : assigned'[o] = assigned[o]
  BY <1>2, RoleFormsAssumption
  DEF With, RoleInv, TypeOK, Assignment, Principals, Editable
<1>3. ASSUME NEW p \in Editable, NEW x \in Roles,
             x \notin form[r][p], assigned' = Without(p, x)
      PROVE  /\ \A o \in Editable :
                  /\ assigned[o] \cap form[q][o] \subseteq assigned'[o]
                  /\ assigned'[o] \subseteq assigned[o] \cup form[q][o]
             /\ \A o \in Outsiders : assigned'[o] = assigned[o]
  BY <1>3, RoleFormsAssumption
  DEF Without, RoleInv, TypeOK, Assignment, Principals, Editable
<1> QED
  BY <1>1, <1>2, <1>3 DEF Effect

\* The other requests stay good at a call of r.
LEMMA OthersStayGood ==
  ASSUME RoleInv, NEW r \in Requests, NEW q \in Requests \ {r},
         Effect(r, assigned'), Assign(r, assigned'), exists,
         UNCHANGED <<object, exists, form, seen, known, before>>,
         step'[q] = step[q], left'[q] = left[q], grant'[q] = grant[q],
         revoke'[q] = revoke[q], errors'[q] = errors[q]
  PROVE  Good(q)'
<1>1. Good(q)
  BY InvIsGood
<1>2. /\ company[q] = "unread" => company'[q] = "unread"
      /\ company'[q] = "none" => company[q] = "none" /\ assigned' = assigned
      /\ Unrivalled(q)' => Unrivalled(q)
      /\ Unrivalled(q)' => assigned' = assigned \/ form[q] = form[r]
  BY Company
<1>3. CASE assigned' = assigned /\ company'[q] = company[q]
  BY <1>1, <1>3, Frame
<1>4. CASE ~(assigned' = assigned /\ company'[q] = company[q])
  <2>1. company'[q] # "none"
    BY <1>2, <1>4 DEF Assign
  <2>2. CallsOK(q)' /\ OwnAdminOK(q)' /\ OrderOK(q)'
    BY <1>1, <2>1 DEF Good, CallsOK, Through, OwnAdminOK, OrderOK
  <2>3. ReadOK(q)'
    BY <1>1, <1>2 DEF Good, ReadOK
  <2>4. Unrivalled(q)' =>
          /\ \A p \in Editable :
               /\ assigned[p] \cap form[q][p] \subseteq assigned'[p]
               /\ assigned'[p] \subseteq assigned[p] \cup form[q][p]
          /\ \A p \in Outsiders : assigned'[p] = assigned[p]
    BY <1>2, EffectKeeps
  <2>5. (Unrivalled(q) => Between(q))'
    BY <1>1, <1>2, <2>4 DEF Good, Between
  <2>6. ASSUME Unrivalled(q)' PROVE ProgressOK(q)'
    <3>1. ASSUME ~errors[q], NEW p \in Come(q), Settled(q, p), p \in Editable
          PROVE  Settled(q, p)'
      BY <2>4, <2>6, <3>1
      DEF Settled, GrantsTo, RevokesFrom, Spared, IsRemovingSelfAdminRole
    <3>2. Come(q) \subseteq Editable /\ Come(q)' = Come(q)
      BY DEF Come, Editable, RoleInv, TypeOK
    <3>3. (~errors[q] => \A p \in Come(q) : Settled(q, p))'
      BY <1>1, <1>2, <2>6, <3>1, <3>2 DEF Good, ProgressOK
    <3>4. \A g \in UnknownGroups(q) : g \in Editable
      BY DEF UnknownGroups, Editable
    <3> QED
      BY <1>1, <1>2, <2>4, <2>6, <3>3, <3>4 DEF Good, ProgressOK, UnknownGroups
  <2> QED
    BY <2>2, <2>3, <2>5, <2>6 DEF Good, ProgressOK
<1> QED
  BY <1>3, <1>4

\* The call of Grant, and what it leaves.
LEMMA GrantCall ==
  ASSUME RoleInv, NEW r \in Requests, NEW pr \in grant[r]
  PROVE  /\ pr[1] \in Editable /\ pr[2] \in Roles /\ pr = <<pr[1], pr[2]>>
         /\ pr[2] \in form[r][pr[1]]
         /\ Effect(r, With(pr[1], pr[2]))
         /\ exists
<1>1. pr \in Editable \X Roles
  BY DEF RoleInv, TypeOK
<1>2. pr[2] \in form[r][pr[1]]
  BY DEF RoleInv, CallsOK
<1> QED
  BY <1>1, <1>2, CallingExists DEF Effect

\* The call of Revoke, and what it leaves.
LEMMA RevokeCall ==
  ASSUME RoleInv, NEW r \in Requests, NEW pr \in revoke[r]
  PROVE  /\ pr[1] \in Editable /\ pr[2] \in Roles /\ pr = <<pr[1], pr[2]>>
         /\ pr[2] \notin form[r][pr[1]]
         /\ Effect(r, Without(pr[1], pr[2]))
         /\ exists
<1>1. pr \in Editable \X Roles
  BY DEF RoleInv, TypeOK
<1>2. pr[2] \notin form[r][pr[1]]
  BY DEF RoleInv, CallsOK
<1> QED
  BY <1>1, <1>2, CallingExists DEF Effect

\* The request that calls has the company it had.
LEMMA OwnCompany ==
  ASSUME RoleInv, NEW r \in Requests, NEW new, Assign(r, new)
  PROVE  company'[r] = company[r]
BY DEF Assign

\* A grant leaves the request that makes it good.
LEMMA GrantGood ==
  ASSUME RoleInv, NEW r \in Requests, Grant(r)
  PROVE  Good(r)'
<1>1. PICK pr \in grant[r] : /\ grant' = [grant EXCEPT ![r] = @ \ {pr}]
                             /\ Assign(r, With(pr[1], pr[2]))
  BY DEF Grant
<1> DEFINE p == pr[1]
           x == pr[2]
<1>2. /\ p \in Editable /\ x \in Roles /\ pr = <<p, x>> /\ x \in form[r][p]
      /\ Effect(r, With(p, x)) /\ exists
  BY GrantCall
<1>3. /\ assigned' = [assigned EXCEPT ![p] = @ \cup {x}]
      /\ grant'[r] = grant[r] \ {<<p, x>>}
      /\ company'[r] = company[r] /\ p \in Principals
  BY <1>1, <1>2, OwnCompany
  DEF Assign, With, RoleInv, TypeOK, Editable, Principals
<1>4. UNCHANGED <<object, exists, step, form, seen, left, known, revoke,
                  errors, before>>
  BY DEF Grant
<1> HIDE DEF p, x
<1>5. Good(r)
  BY InvIsGood
<1>6. CallsOK(r)'
  BY <1>2, <1>3, <1>4, <1>5 DEF Good, CallsOK, Through
<1>7. OwnAdminOK(r)' /\ ReadOK(r)'
  BY <1>2, <1>3, <1>4, <1>5 DEF Good, OwnAdminOK, ReadOK
<1>8. \A o \in Editable :
        /\ assigned[o] \subseteq assigned'[o]
        /\ assigned[o] \cup GrantsTo(r, o) \subseteq
             assigned'[o] \cup GrantsTo(r, o)'
        /\ assigned'[o] \subseteq assigned[o] \cup form[r][o]
  BY <1>2, <1>3, <1>4
  DEF GrantsTo, RoleInv, TypeOK, Assignment, Principals, Editable
<1>9. OrderOK(r)'
  <2>1. \A qr \in revoke[r] : qr[1] \in Editable
    BY RevokeCall
  <2> QED
    BY <1>3, <1>4, <1>5, <1>8, <2>1 DEF Good, OrderOK
<1>10. \A o \in Outsiders : assigned'[o] = assigned[o]
  BY <1>2, <1>3, RoleFormsAssumption
  DEF RoleInv, TypeOK, Assignment, Principals, Editable
<1>11. (Unrivalled(r) => Between(r))'
  BY <1>3, <1>4, <1>5, <1>8, <1>10 DEF Good, Unrivalled, Between
<1>12. ProgressOK(r)'
  <2>1. Come(r) \subseteq Editable /\ Come(r)' = Come(r)
    BY <1>4 DEF Come, Editable, RoleInv, TypeOK
  <2>2. ASSUME NEW o \in Editable, Settled(r, o) PROVE Settled(r, o)'
    BY <1>4, <1>8, <2>2
    DEF Settled, RevokesFrom, Spared, IsRemovingSelfAdminRole
  <2>3. \A g \in UnknownGroups(r) : g \in Editable
    BY DEF UnknownGroups, Editable
  <2> QED
    BY <1>3, <1>4, <1>5, <1>8, <2>1, <2>2, <2>3
    DEF Good, ProgressOK, Unrivalled, UnknownGroups
<1> QED
  BY <1>6, <1>7, <1>9, <1>11, <1>12 DEF Good

\* A revocation leaves the request that makes it good.
LEMMA RevokeGood ==
  ASSUME RoleInv, NEW r \in Requests, Revoke(r)
  PROVE  Good(r)'
<1>1. PICK pr \in revoke[r] : /\ revoke' = [revoke EXCEPT ![r] = @ \ {pr}]
                              /\ Assign(r, Without(pr[1], pr[2]))
  BY DEF Revoke
<1> DEFINE p == pr[1]
           x == pr[2]
<1>2. /\ p \in Editable /\ x \in Roles /\ pr = <<p, x>> /\ x \notin form[r][p]
      /\ Effect(r, Without(p, x)) /\ exists
  BY RevokeCall
<1>3. /\ assigned' = [assigned EXCEPT ![p] = @ \ {x}]
      /\ revoke'[r] = revoke[r] \ {<<p, x>>}
      /\ company'[r] = company[r] /\ p \in Principals
  BY <1>1, <1>2, OwnCompany
  DEF Assign, Without, RoleInv, TypeOK, Editable, Principals
<1>4. /\ UNCHANGED <<object, exists, step, form, seen, left, known, grant,
                     errors, before>>
      /\ grant[r] = {}
  BY DEF Revoke
<1>5. Good(r) /\ <<p, x>> \in revoke[r]
  BY <1>1, <1>2, InvIsGood
<1> HIDE DEF p, x
<1>6. CallsOK(r)'
  BY <1>2, <1>3, <1>4, <1>5 DEF Good, CallsOK, Through
<1>7. OwnAdminOK(r)' /\ ReadOK(r)'
  BY <1>2, <1>3, <1>4, <1>5 DEF Good, OwnAdminOK, ReadOK
<1>8. \A o \in Editable :
        /\ assigned[o] \cap form[r][o] \subseteq assigned'[o]
        /\ assigned'[o] \subseteq assigned[o]
        /\ o # p => assigned'[o] = assigned[o]
        /\ form[r][o] \subseteq assigned[o] => form[r][o] \subseteq assigned'[o]
  BY <1>2, <1>3 DEF RoleInv, TypeOK, Assignment, Principals, Editable
<1>9. OrderOK(r)'
  <2>1. \A qr \in revoke[r] : qr[1] \in Editable
    BY RevokeCall
  <2>2. \A o \in Editable : GrantsTo(r, o) = {} /\ GrantsTo(r, o)' = {}
    BY <1>4 DEF GrantsTo
  <2>3. company[r] = "none" =>
          \A qr \in revoke[r] : form[r][qr[1]] \subseteq assigned[qr[1]]
    BY <1>5, <2>1, <2>2 DEF Good, OrderOK
  <2>4. company[r] = "none" => form[r][p] \subseteq assigned[p]
    BY <1>2, <1>5, <2>3, <1>1 DEF p
  <2>5. company[r] = "none" =>
          \A qr \in revoke'[r] : form[r][qr[1]] \subseteq assigned'[qr[1]]
    BY <1>3, <1>8, <2>1, <2>3
  <2>6. company[r] = "none" =>
          \A o \in Editable : \/ before[r][o] \subseteq assigned'[o]
                              \/ form[r][o] \subseteq assigned'[o]
    BY <1>2, <1>5, <1>8, <2>4 DEF Good, OrderOK
  <2> QED
    BY <1>3, <1>4, <2>5, <2>6 DEF OrderOK
<1>10. \A o \in Outsiders : assigned'[o] = assigned[o]
  BY <1>2, <1>3, RoleFormsAssumption
  DEF RoleInv, TypeOK, Assignment, Principals, Editable
<1>11. (Unrivalled(r) => Between(r))'
  BY <1>3, <1>4, <1>5, <1>8, <1>10 DEF Good, Unrivalled, Between
<1>12. ProgressOK(r)'
  <2>1. Come(r) \subseteq Editable /\ Come(r)' = Come(r)
    BY <1>4 DEF Come, Editable, RoleInv, TypeOK
  <2>2. \A o \in Editable :
          assigned'[o] \ RevokesFrom(r, o)' \subseteq assigned[o] \ RevokesFrom(r, o)
    BY <1>2, <1>3, <1>8
    DEF RevokesFrom, RoleInv, TypeOK, Assignment, Principals, Editable
  <2>3. ASSUME NEW o \in Editable, Settled(r, o) PROVE Settled(r, o)'
    <3>1. form[r][o] \subseteq assigned[o]
      BY <1>4, <2>3 DEF Settled, GrantsTo
    <3>2. form[r][o] \subseteq assigned'[o]
      BY <1>8, <3>1
    <3> QED
      BY <1>4, <2>2, <2>3, <3>2 DEF Settled, Spared, IsRemovingSelfAdminRole
  <2>4. \A g \in UnknownGroups(r) : g \in Editable
    BY DEF UnknownGroups, Editable
  <2> QED
    BY <1>3, <1>4, <1>5, <1>8, <2>1, <2>3, <2>4
    DEF Good, ProgressOK, Unrivalled, UnknownGroups
<1> QED
  BY <1>6, <1>7, <1>9, <1>11, <1>12 DEF Good

\* What a failing call may leave.
LEMMA FailEffect ==
  ASSUME RoleInv, NEW r \in Requests, CallFails(r)
  PROVE  /\ Effect(r, assigned') /\ exists
         /\ Assign(r, assigned') \/ UNCHANGED <<assigned, company>>
         /\ company[r] = "none" => \A p \in Editable :
              \/ before[r][p] \subseteq assigned'[p]
              \/ form[r][p] \subseteq assigned'[p]
<1>1. CASE \E pr \in grant[r] : Assign(r, With(pr[1], pr[2]))
  <2>1. PICK pr \in grant[r] : Assign(r, With(pr[1], pr[2]))
    BY <1>1
  <2>2. /\ Effect(r, With(pr[1], pr[2])) /\ exists
        /\ assigned' = With(pr[1], pr[2])
    BY <2>1, GrantCall DEF Assign
  <2>3. \A p \in Editable : assigned[p] \subseteq assigned'[p]
    BY <2>2, GrantCall DEF With, RoleInv, TypeOK, Assignment, Principals, Editable
  <2> QED
    BY <2>1, <2>2, <2>3 DEF RoleInv, OrderOK
<1>2. CASE grant[r] = {} /\ \E pr \in revoke[r] : Assign(r, Without(pr[1], pr[2]))
  <2>1. PICK pr \in revoke[r] : Assign(r, Without(pr[1], pr[2]))
    BY <1>2
  <2>2. /\ Effect(r, Without(pr[1], pr[2])) /\ exists
        /\ assigned' = Without(pr[1], pr[2])
        /\ pr[1] \in Editable /\ pr[2] \notin form[r][pr[1]]
    BY <2>1, RevokeCall DEF Assign
  <2>3. company[r] = "none" => form[r][pr[1]] \subseteq assigned[pr[1]]
    BY <1>2 DEF RoleInv, OrderOK, GrantsTo
  <2>4. \A p \in Editable \ {pr[1]} : assigned'[p] = assigned[p]
    BY <2>2 DEF Without, RoleInv, TypeOK, Assignment, Principals, Editable
  <2>5. company[r] = "none" => form[r][pr[1]] \subseteq assigned'[pr[1]]
    BY <2>2, <2>3 DEF Without, RoleInv, TypeOK, Assignment, Principals, Editable
  <2>6. company[r] = "none" => \A p \in Editable :
              \/ before[r][p] \subseteq assigned[p]
              \/ form[r][p] \subseteq assigned[p]
    BY DEF RoleInv, OrderOK
  <2> QED
    BY <2>1, <2>2, <2>4, <2>5, <2>6
<1>3. CASE grant[r] \cup revoke[r] # {} /\ UNCHANGED <<assigned, company>>
  BY <1>3, CallingExists DEF Effect, RoleInv, OrderOK
<1> QED
  BY <1>1, <1>2, <1>3 DEF CallFails

\* A failing call leaves the request that makes it good.
LEMMA CallFailsGood ==
  ASSUME RoleInv, NEW r \in Requests, CallFails(r)
  PROVE  Good(r)'
<1>1. /\ errors'[r] = TRUE /\ grant'[r] = {} /\ revoke'[r] = {}
      /\ left'[r] = {}
      /\ step'[r] = "failed" \/ (step'[r] = step[r] /\ step[r] \in Creating)
      /\ UNCHANGED <<object, exists, form, seen, known, before>>
  BY DEF CallFails, Abort, Goto, RoleInv, TypeOK
<1>2. /\ Effect(r, assigned') /\ exists
      /\ company'[r] = company[r]
      /\ company[r] = "none" => \A p \in Editable :
           \/ before[r][p] \subseteq assigned'[p]
           \/ form[r][p] \subseteq assigned'[p]
  BY FailEffect, OwnCompany
<1>3. Good(r) /\ grant[r] \cup revoke[r] # {}
  BY InvIsGood DEF CallFails
<1>4. CallsOK(r)' /\ OwnAdminOK(r)'
  BY <1>1 DEF CallsOK, Through, OwnAdminOK
<1>5. ReadOK(r)'
  BY <1>1, <1>2, <1>3 DEF Good, ReadOK, CallsOK, Through, Creating
<1>6. OrderOK(r)'
  BY <1>1, <1>2 DEF OrderOK
<1>7. (Unrivalled(r) => Between(r))'
  BY <1>1, <1>2, <1>3, EffectKeeps DEF Good, Unrivalled, Between
<1>8. ProgressOK(r)'
  BY <1>1 DEF ProgressOK, Creating
<1> QED
  BY <1>4, <1>5, <1>6, <1>7, <1>8 DEF Good

\* A call keeps the whole invariant.
LEMMA CallsInv ==
  ASSUME RoleInv, NEW r \in Requests, Grant(r) \/ Revoke(r) \/ CallFails(r)
  PROVE  RoleInv'
<1>1. TypeOK'
  BY TypeGrant, TypeRevoke, TypeCallFails
<1>2. Good(r)'
  BY GrantGood, RevokeGood, CallFailsGood
<1>3. ASSUME NEW q \in Requests \ {r} PROVE Good(q)'
  <2>1. /\ UNCHANGED <<object, exists, form, seen, known, before>>
        /\ step'[q] = step[q] /\ left'[q] = left[q] /\ grant'[q] = grant[q]
        /\ revoke'[q] = revoke[q] /\ errors'[q] = errors[q]
    BY DEF Grant, Revoke, CallFails, Abort, Goto, RoleInv, TypeOK
  <2>2. CASE UNCHANGED <<assigned, company>>
    BY <2>1, <2>2, Frame, InvIsGood
  <2>3. CASE ~UNCHANGED <<assigned, company>>
    <3>1. Effect(r, assigned') /\ Assign(r, assigned') /\ exists
      <4>1. CASE Grant(r)
        BY <4>1, GrantCall DEF Grant, Assign
      <4>2. CASE Revoke(r)
        BY <4>2, RevokeCall DEF Revoke, Assign
      <4>3. CASE CallFails(r)
        BY <2>3, <4>3, FailEffect
      <4> QED
        BY <4>1, <4>2, <4>3
    <3> QED
      BY <2>1, <3>1, OthersStayGood
  <2> QED
    BY <2>2, <2>3
<1> QED
  BY <1>1, <1>2, <1>3 DEF RoleInv, StaysBetween, Good
-----------------------------------------------------------------------------
(* What handle() does between the calls.                                   *)

\* A request is good after the submission.
LEMMA SubmitGood ==
  ASSUME RoleInv, TypeOK', NEW r \in Requests, Submit(r)
  PROVE  Good(r)'
<1>1. CallsOK(r)'
  BY DEF Submit, RoleInv, TypeOK, CallsOK, Through, Goto, ReadOK
<1>2. OwnAdminOK(r)'
  BY RoleFormsAssumption DEF Submit, RoleInv, TypeOK, OwnAdminOK, Goto,
     CallsOK, Through, ReadOK
<1>3. ReadOK(r)'
  <2>1. (~exists => step[r] \in {"idle", "failed"} /\ assigned = Nobody)'
    BY DEF Submit, RoleInv, ReadOK, Goto
  <2>2. (step[r] \in {"idle", "read"} => company[r] = "unread")'
    BY DEF Submit, RoleInv, ReadOK, TypeOK, Goto
  <2>3. (step[r] = "users" => left[r] \subseteq Users)'
    BY DEF Submit, RoleInv, ReadOK, TypeOK, Goto
  <2>4. (step[r] = "users" => \A u \in Users : seen[r][u] = before[r][u])'
    BY DEF Submit, RoleInv, ReadOK, TypeOK, Goto
  <2>5. (step[r] \in {"listing", "groups"} => left[r] \subseteq Groups)'
    BY DEF Submit, RoleInv, ReadOK, TypeOK, Goto
  <2>6. (step[r] \in Creating => before[r] = Nobody)'
    BY DEF Submit, RoleInv, ReadOK, TypeOK, Goto, Creating
  <2> QED
    BY <2>1, <2>2, <2>3, <2>4, <2>5, <2>6 DEF ReadOK
<1>4. OrderOK(r)'
  BY DEF Submit, RoleInv, TypeOK, OrderOK, GrantsTo, Goto, CallsOK, Through
<1>5. (Unrivalled(r) => Between(r))'
  BY DEF Submit, RoleInv, TypeOK, Unrivalled, Between, Goto, CallsOK,
     Through, StaysBetween
<1>6. ProgressOK(r)'
  BY DEF Submit, RoleInv, TypeOK, ProgressOK, Unrivalled, Come, Settled,
     GrantsTo, RevokesFrom, Spared, UnknownGroups, IsRemovingSelfAdminRole,
     Goto, CallsOK, Through, Editable, ListedGroups, Between, StaysBetween,
     ReadOK
<1> QED
  BY <1>1, <1>2, <1>3, <1>4, <1>5, <1>6 DEF Good

\* A request is good after the reading of the users.
LEMMA ReadUsersGood ==
  ASSUME RoleInv, TypeOK', NEW r \in Requests, ReadUsers(r)
  PROVE  Good(r)'
<1>1. CallsOK(r)'
  BY DEF ReadUsers, RoleInv, TypeOK, CallsOK, Through, Goto, ReadOK
<1>2. OwnAdminOK(r)'
  BY RoleFormsAssumption DEF ReadUsers, RoleInv, TypeOK, OwnAdminOK, Goto,
     CallsOK, Through, ReadOK
<1>3. ReadOK(r)'
  <2>1. (~exists => step[r] \in {"idle", "failed"} /\ assigned = Nobody)'
    BY DEF ReadUsers, RoleInv, ReadOK, Goto
  <2>2. (step[r] \in {"idle", "read"} => company[r] = "unread")'
    BY DEF ReadUsers, RoleInv, ReadOK, TypeOK, Goto
  <2>3. (step[r] = "users" => left[r] \subseteq Users)'
    BY DEF ReadUsers, RoleInv, ReadOK, TypeOK, Goto
  <2>4. (step[r] = "users" => \A u \in Users : seen[r][u] = before[r][u])'
    BY DEF ReadUsers, RoleInv, ReadOK, TypeOK, Goto, Assignment,
       Principals
  <2>5. (step[r] \in {"listing", "groups"} => left[r] \subseteq Groups)'
    BY DEF ReadUsers, RoleInv, ReadOK, TypeOK, Goto
  <2>6. (step[r] \in Creating => before[r] = Nobody)'
    BY DEF ReadUsers, RoleInv, ReadOK, TypeOK, Goto, Creating
  <2> QED
    BY <2>1, <2>2, <2>3, <2>4, <2>5, <2>6 DEF ReadOK
<1>4. OrderOK(r)'
  BY DEF ReadUsers, RoleInv, TypeOK, OrderOK, GrantsTo, Goto, CallsOK,
     Through
<1>5. (Unrivalled(r) => Between(r))'
  BY DEF ReadUsers, RoleInv, TypeOK, Unrivalled, Between, Goto, CallsOK,
     Through, StaysBetween
<1>6. ProgressOK(r)'
  BY DEF ReadUsers, RoleInv, TypeOK, ProgressOK, Unrivalled, Come, Settled,
     GrantsTo, RevokesFrom, Spared, UnknownGroups, IsRemovingSelfAdminRole,
     Goto, CallsOK, Through, Editable, ListedGroups, Between, StaysBetween,
     ReadOK
<1> QED
  BY <1>1, <1>2, <1>3, <1>4, <1>5, <1>6 DEF Good

\* A request is good after the next user.
LEMMA NextUserGood ==
  ASSUME RoleInv, TypeOK', NEW r \in Requests, NextUser(r)
  PROVE  Good(r)'
<1>0. PICK u \in left[r] :
        /\ left' = [left EXCEPT ![r] = @ \ {u}]
        /\ grant' = [grant EXCEPT ![r] = ToGrant(form[r], u, seen[r][u])]
        /\ revoke' = [revoke EXCEPT ![r] =
             IF IsRemovingSelfAdminRole(r, u, seen[r][u] \ form[r][u]) THEN {}
             ELSE ToRevoke(form[r], u, seen[r][u])]
  BY DEF NextUser
<1>a. /\ u \in Users /\ u \in Editable /\ seen[r][u] = before[r][u]
      /\ UNCHANGED <<object, assigned, step, form, seen, known, errors, before,
                     company>>
      /\ step[r] = "users" /\ Through(r)
  BY <1>0 DEF NextUser, RoleInv, ReadOK, Editable
<1>b. /\ GrantsTo(r, u)' = form[r][u] \ before[r][u]
      /\ \A o \in Editable \ {u} :
           GrantsTo(r, o)' = {} /\ RevokesFrom(r, o)' = {}
      /\ \/ Spared(r, u)' /\ revoke'[r] = {}
         \/ RevokesFrom(r, u)' = before[r][u] \ form[r][u]
  <2>1. form[r][u] \subseteq Roles /\ seen[r][u] \subseteq Roles
    BY <1>a DEF RoleInv, TypeOK
  <2> QED
    BY <1>0, <1>a, <2>1 DEF GrantsTo, RevokesFrom, Spared, ToGrant, ToRevoke,
       IsRemovingSelfAdminRole, RoleInv, TypeOK
<1>c. Unrivalled(r) =>
        /\ before[r][u] \cap form[r][u] \subseteq assigned[u]
        /\ assigned[u] \subseteq before[r][u] \cup form[r][u]
  BY <1>a DEF RoleInv, StaysBetween, Between
<1>1. CallsOK(r)'
  BY DEF NextUser, RoleInv, TypeOK, CallsOK, Through, ToGrant, ToRevoke,
     IsRemovingSelfAdminRole, ReadOK
<1>2. OwnAdminOK(r)'
  BY RoleFormsAssumption DEF NextUser, RoleInv, TypeOK, OwnAdminOK, Through,
     ToGrant, ToRevoke, CallsOK, IsRemovingSelfAdminRole, ReadOK
<1>3. ReadOK(r)'
  <2>1. (~exists => step[r] \in {"idle", "failed"} /\ assigned = Nobody)'
    BY DEF NextUser, RoleInv, ReadOK, Goto, Through
  <2>2. (step[r] \in {"idle", "read"} => company[r] = "unread")'
    BY DEF NextUser, RoleInv, ReadOK, TypeOK, Goto, Through
  <2>3. (step[r] = "users" => left[r] \subseteq Users)'
    BY DEF NextUser, RoleInv, ReadOK, TypeOK, Goto, Through
  <2>4. (step[r] = "users" => \A x \in Users : seen[r][x] = before[r][x])'
    BY DEF NextUser, RoleInv, ReadOK, TypeOK, Goto
  <2>5. (step[r] \in {"listing", "groups"} => left[r] \subseteq Groups)'
    BY DEF NextUser, RoleInv, ReadOK, TypeOK, Goto, Through
  <2>6. (step[r] \in Creating => before[r] = Nobody)'
    BY DEF NextUser, RoleInv, ReadOK, TypeOK, Goto, Creating
  <2> QED
    BY <2>1, <2>2, <2>3, <2>4, <2>5, <2>6 DEF ReadOK
<1>4. OrderOK(r)'
  <2>1. \A pr \in revoke'[r] : pr[1] = u
    BY <1>0 DEF ToRevoke, RoleInv, TypeOK
  <2> QED
    BY <1>a, <1>b, <1>c, <2>1 DEF OrderOK, Unrivalled, RoleInv
<1>5. (Unrivalled(r) => Between(r))'
  BY DEF NextUser, RoleInv, TypeOK, Unrivalled, Between, Through, ToGrant,
     ToRevoke, CallsOK, IsRemovingSelfAdminRole, StaysBetween
<1>6. ProgressOK(r)'
  <2>1. Come(r)' \subseteq Come(r) \cup {u}
    BY <1>0, <1>a DEF Come, RoleInv, TypeOK
  <2>2. ASSUME Unrivalled(r), ~errors[r], NEW o \in Come(r), o # u
        PROVE  Settled(r, o)'
    <3>1. Settled(r, o) /\ o \in Editable
      BY <1>a, <2>2 DEF RoleInv, ProgressOK, Come, Editable, TypeOK
    <3>2. GrantsTo(r, o) = {} /\ RevokesFrom(r, o) = {}
      BY <1>a DEF Through, GrantsTo, RevokesFrom
    <3> QED
      BY <1>a, <1>b, <2>2, <3>1, <3>2
      DEF Settled, Spared, IsRemovingSelfAdminRole
  <2>3. ASSUME Unrivalled(r) PROVE Settled(r, u)'
    BY <1>a, <1>b, <1>c, <2>3 DEF Settled, Spared, IsRemovingSelfAdminRole
  <2> QED
    BY <1>a, <2>1, <2>2, <2>3 DEF ProgressOK, Unrivalled
<1> QED
  BY <1>1, <1>2, <1>3, <1>4, <1>5, <1>6 DEF Good

\* A request is good after the users without a role.
LEMMA NewUsersGood ==
  ASSUME RoleInv, TypeOK', NEW r \in Requests, NewUsers(r)
  PROVE  Good(r)'
<1>a. /\ grant' = [grant EXCEPT ![r] = GrantsOf(form[r], {u \in Users : seen[r][u] = {}})]
      /\ UNCHANGED <<object, assigned, form, seen, known, revoke, errors,
                     before, company>>
      /\ step[r] = "users" /\ step'[r] = "newusers" /\ Through(r)
      /\ grant'[r] = GrantsOf(form[r], {u \in Users : seen[r][u] = {}})
  BY DEF NewUsers, Goto, RoleInv, TypeOK
<1>b. \A o \in Editable :
        /\ RevokesFrom(r, o) = {} /\ RevokesFrom(r, o)' = {}
        /\ GrantsTo(r, o) = {}
        /\ o \in {u \in Users : seen[r][u] = {}} => GrantsTo(r, o)' = form[r][o]
  <2>1. {u \in Users : seen[r][u] = {}} \subseteq Editable
    BY DEF Editable
  <2> QED
    BY <1>a, <2>1 DEF GrantsOf, GrantsTo, RevokesFrom, Through, RoleInv, TypeOK
<1>1. CallsOK(r)'
  BY DEF NewUsers, RoleInv, TypeOK, CallsOK, Through, GrantsOf, Goto, ReadOK
<1>2. OwnAdminOK(r)'
  BY RoleFormsAssumption DEF NewUsers, RoleInv, TypeOK, OwnAdminOK, Through,
     GrantsOf, Goto, CallsOK, ReadOK
<1>3. ReadOK(r)'
  <2>1. (~exists => step[r] \in {"idle", "failed"} /\ assigned = Nobody)'
    BY DEF NewUsers, RoleInv, ReadOK, Goto, Through
  <2>2. (step[r] \in {"idle", "read"} => company[r] = "unread")'
    BY DEF NewUsers, RoleInv, ReadOK, TypeOK, Goto, Through
  <2>3. (step[r] = "users" => left[r] \subseteq Users)'
    BY DEF NewUsers, RoleInv, ReadOK, TypeOK, Goto, Through
  <2>4. (step[r] = "users" => \A u \in Users : seen[r][u] = before[r][u])'
    BY DEF NewUsers, RoleInv, ReadOK, TypeOK, Goto
  <2>5. (step[r] \in {"listing", "groups"} => left[r] \subseteq Groups)'
    BY DEF NewUsers, RoleInv, ReadOK, TypeOK, Goto, Through
  <2>6. (step[r] \in Creating => before[r] = Nobody)'
    BY DEF NewUsers, RoleInv, ReadOK, TypeOK, Goto, Creating
  <2> QED
    BY <2>1, <2>2, <2>3, <2>4, <2>5, <2>6 DEF ReadOK
<1>4. OrderOK(r)'
  BY DEF NewUsers, RoleInv, TypeOK, OrderOK, GrantsTo, Through, GrantsOf,
     Goto, CallsOK
<1>5. (Unrivalled(r) => Between(r))'
  BY DEF NewUsers, RoleInv, TypeOK, Unrivalled, Between, Through, GrantsOf,
     Goto, CallsOK, StaysBetween
<1>6. ProgressOK(r)'
  <2>1. ASSUME Unrivalled(r), ~errors[r], NEW o \in Come(r), o \in Editable
        PROVE  Settled(r, o)'
    BY <1>a, <1>b, <2>1
    DEF RoleInv, ProgressOK, Settled, Spared, IsRemovingSelfAdminRole
  <2>2. ASSUME Unrivalled(r), NEW o \in Users, seen[r][o] = {}
        PROVE  Settled(r, o)'
    <3>1. o \in Editable /\ before[r][o] = {}
      BY <1>a, <2>2 DEF RoleInv, ReadOK, Editable
    <3>2. assigned[o] \subseteq form[r][o]
      BY <2>2, <3>1 DEF RoleInv, StaysBetween, Between
    <3> QED
      BY <1>a, <1>b, <2>2, <3>1, <3>2 DEF Settled
  <2>3. Come(r)' = Users /\ \A o \in Users : seen[r][o] # {} => o \in Come(r)
    BY <1>a DEF NewUsers, Come
  <2> QED
    BY <1>a, <2>1, <2>2, <2>3 DEF ProgressOK, Unrivalled, Editable
<1> QED
  BY <1>1, <1>2, <1>3, <1>4, <1>5, <1>6 DEF Good

\* A request is good after group_list.
LEMMA ReadGroupsGood ==
  ASSUME RoleInv, TypeOK', NEW r \in Requests, ReadGroups(r)
  PROVE  Good(r)'
<1>a. /\ UNCHANGED <<object, assigned, form, seen, grant, revoke, errors,
                     before, company>>
      /\ step[r] = "newusers" /\ step'[r] = "listing" /\ Through(r)
      /\ left'[r] = Groups /\ known'[r] = {}
  BY DEF ReadGroups, Goto, RoleInv, TypeOK
<1>1. CallsOK(r)'
  BY DEF ReadGroups, RoleInv, TypeOK, CallsOK, Through, Goto, ReadOK
<1>2. OwnAdminOK(r)'
  BY RoleFormsAssumption DEF ReadGroups, RoleInv, TypeOK, OwnAdminOK,
     Through, Goto, CallsOK, ReadOK
<1>3. ReadOK(r)'
  <2>1. (~exists => step[r] \in {"idle", "failed"} /\ assigned = Nobody)'
    BY DEF ReadGroups, RoleInv, ReadOK, Goto, Through
  <2>2. (step[r] \in {"idle", "read"} => company[r] = "unread")'
    BY DEF ReadGroups, RoleInv, ReadOK, TypeOK, Goto, Through
  <2>3. (step[r] = "users" => left[r] \subseteq Users)'
    BY DEF ReadGroups, RoleInv, ReadOK, TypeOK, Goto, Through
  <2>4. (step[r] = "users" => \A u \in Users : seen[r][u] = before[r][u])'
    BY DEF ReadGroups, RoleInv, ReadOK, TypeOK, Goto
  <2>5. (step[r] \in {"listing", "groups"} => left[r] \subseteq Groups)'
    BY DEF ReadGroups, RoleInv, ReadOK, TypeOK, Goto, Through
  <2>6. (step[r] \in Creating => before[r] = Nobody)'
    BY DEF ReadGroups, RoleInv, ReadOK, TypeOK, Goto, Creating
  <2> QED
    BY <2>1, <2>2, <2>3, <2>4, <2>5, <2>6 DEF ReadOK
<1>4. OrderOK(r)'
  BY DEF ReadGroups, RoleInv, TypeOK, OrderOK, GrantsTo, Through, Goto,
     CallsOK
<1>5. (Unrivalled(r) => Between(r))'
  BY DEF ReadGroups, RoleInv, TypeOK, Unrivalled, Between, Through, Goto,
     CallsOK, StaysBetween
<1>6. ProgressOK(r)'
  <2>1. Come(r)' = Come(r)
    BY <1>a DEF Come
  <2>2. Come(r) \subseteq Editable
    BY DEF Come, Editable, RoleInv, TypeOK
  <2>3. ASSUME NEW o \in Editable, Settled(r, o) PROVE Settled(r, o)'
    BY <1>a, <2>3
    DEF Settled, GrantsTo, RevokesFrom, Spared, IsRemovingSelfAdminRole
  <2> QED
    BY <1>a, <2>1, <2>2, <2>3 DEF RoleInv, ProgressOK, Unrivalled, UnknownGroups
<1> QED
  BY <1>1, <1>2, <1>3, <1>4, <1>5, <1>6 DEF Good

\* A request is good after a group's roles.
LEMMA ListGroupGood ==
  ASSUME RoleInv, TypeOK', NEW r \in Requests, ListGroup(r)
  PROVE  Good(r)'
<1>1. CallsOK(r)'
  BY DEF ListGroup, RoleInv, TypeOK, CallsOK, Through, ListedGroups, ReadOK
<1>2. OwnAdminOK(r)'
  BY RoleFormsAssumption DEF ListGroup, RoleInv, TypeOK, OwnAdminOK,
     ListedGroups, CallsOK, Through, ReadOK
<1>3. ReadOK(r)'
  <2>1. (~exists => step[r] \in {"idle", "failed"} /\ assigned = Nobody)'
    BY DEF ListGroup, RoleInv, ReadOK, Goto
  <2>2. (step[r] \in {"idle", "read"} => company[r] = "unread")'
    BY DEF ListGroup, RoleInv, ReadOK, TypeOK, Goto
  <2>3. (step[r] = "users" => left[r] \subseteq Users)'
    BY DEF ListGroup, RoleInv, ReadOK, TypeOK, Goto
  <2>4. (step[r] = "users" => \A u \in Users : seen[r][u] = before[r][u])'
    BY DEF ListGroup, RoleInv, ReadOK, TypeOK, Goto
  <2>5. (step[r] \in {"listing", "groups"} => left[r] \subseteq Groups)'
    BY DEF ListGroup, RoleInv, ReadOK, TypeOK, Goto
  <2>6. (step[r] \in Creating => before[r] = Nobody)'
    BY DEF ListGroup, RoleInv, ReadOK, TypeOK, Goto, Creating
  <2> QED
    BY <2>1, <2>2, <2>3, <2>4, <2>5, <2>6 DEF ReadOK
<1>4. OrderOK(r)'
  BY DEF ListGroup, RoleInv, TypeOK, OrderOK, GrantsTo, ListedGroups,
     CallsOK, Through
<1>5. (Unrivalled(r) => Between(r))'
  BY DEF ListGroup, RoleInv, TypeOK, Unrivalled, Between, ListedGroups,
     CallsOK, Through, StaysBetween
<1>6. ProgressOK(r)'
  <2>1. PICK g \in left[r] :
          /\ left' = [left EXCEPT ![r] = @ \ {g}]
          /\ known' = [known EXCEPT ![r] = @ \cup ListedGroups(g)]
    BY DEF ListGroup
  <2>2. /\ UNCHANGED <<object, assigned, step, form, grant, revoke, errors,
                       before, company>>
        /\ step[r] = "listing"
    BY DEF ListGroup
  <2>3. /\ left'[r] = left[r] \ {g}
        /\ UnknownGroups(r)' = UnknownGroups(r) \ ListedGroups(g)
    BY <2>1 DEF UnknownGroups, RoleInv, TypeOK
  <2>4. g \in ListedGroups(g) \/ assigned[g] = {}
    BY DEF ListedGroups
  <2>5. ASSUME Unrivalled(r), NEW h \in UnknownGroups(r)', h \notin left'[r]
        PROVE  assigned[h] \subseteq form[r][h]
    BY <2>2, <2>3, <2>4, <2>5 DEF RoleInv, ProgressOK
  <2>6. Come(r)' = Users /\ Come(r) = Users
    BY <2>2 DEF Come
  <2>7. ASSUME NEW o \in Users, Settled(r, o) PROVE Settled(r, o)'
    BY <2>2, <2>7
    DEF Settled, GrantsTo, RevokesFrom, Spared, IsRemovingSelfAdminRole
  <2> QED
    BY <2>2, <2>5, <2>6, <2>7 DEF RoleInv, ProgressOK, Unrivalled
<1> QED
  BY <1>1, <1>2, <1>3, <1>4, <1>5, <1>6 DEF Good

\* A request is good after the loop over the groups.
LEMMA UpdateGroupsGood ==
  ASSUME RoleInv, TypeOK', NEW r \in Requests, UpdateGroups(r)
  PROVE  Good(r)'
<1>a. /\ UNCHANGED <<object, assigned, form, seen, known, grant, revoke, errors,
                     before, company>>
      /\ step[r] = "listing" /\ step'[r] = "groups" /\ left[r] = {}
      /\ left'[r] = known[r]
  BY DEF UpdateGroups, Goto, RoleInv, TypeOK
<1>1. CallsOK(r)'
  BY DEF UpdateGroups, RoleInv, TypeOK, CallsOK, Through, Goto, ReadOK
<1>2. OwnAdminOK(r)'
  BY RoleFormsAssumption DEF UpdateGroups, RoleInv, TypeOK, OwnAdminOK,
     Goto, CallsOK, Through, ReadOK
<1>3. ReadOK(r)'
  <2>1. (~exists => step[r] \in {"idle", "failed"} /\ assigned = Nobody)'
    BY DEF UpdateGroups, RoleInv, ReadOK, Goto
  <2>2. (step[r] \in {"idle", "read"} => company[r] = "unread")'
    BY DEF UpdateGroups, RoleInv, ReadOK, TypeOK, Goto
  <2>3. (step[r] = "users" => left[r] \subseteq Users)'
    BY DEF UpdateGroups, RoleInv, ReadOK, TypeOK, Goto
  <2>4. (step[r] = "users" => \A u \in Users : seen[r][u] = before[r][u])'
    BY DEF UpdateGroups, RoleInv, ReadOK, TypeOK, Goto
  <2>5. (step[r] \in {"listing", "groups"} => left[r] \subseteq Groups)'
    BY DEF UpdateGroups, RoleInv, ReadOK, TypeOK, Goto
  <2>6. (step[r] \in Creating => before[r] = Nobody)'
    BY DEF UpdateGroups, RoleInv, ReadOK, TypeOK, Goto, Creating
  <2> QED
    BY <2>1, <2>2, <2>3, <2>4, <2>5, <2>6 DEF ReadOK
<1>4. OrderOK(r)'
  BY DEF UpdateGroups, RoleInv, TypeOK, OrderOK, GrantsTo, Goto, CallsOK,
     Through
<1>5. (Unrivalled(r) => Between(r))'
  BY DEF UpdateGroups, RoleInv, TypeOK, Unrivalled, Between, Goto, CallsOK,
     Through, StaysBetween
<1>6. ProgressOK(r)'
  <2>1. Come(r)' = Come(r)
    BY <1>a DEF Come
  <2>2. Come(r) \subseteq Editable
    BY DEF Come, Editable, RoleInv, TypeOK
  <2>3. ASSUME NEW o \in Editable, Settled(r, o) PROVE Settled(r, o)'
    BY <1>a, <2>3
    DEF Settled, GrantsTo, RevokesFrom, Spared, IsRemovingSelfAdminRole
  <2> QED
    BY <1>a, <2>1, <2>2, <2>3 DEF RoleInv, ProgressOK, Unrivalled, UnknownGroups
<1> QED
  BY <1>1, <1>2, <1>3, <1>4, <1>5, <1>6 DEF Good

\* A request is good after the next group.
LEMMA NextGroupGood ==
  ASSUME RoleInv, TypeOK', NEW r \in Requests, NextGroup(r)
  PROVE  Good(r)'
<1>0. PICK g \in left[r] :
        /\ left' = [left EXCEPT ![r] = @ \ {g}]
        /\ grant' = [grant EXCEPT ![r] = ToGrant(form[r], g, assigned[g])]
        /\ revoke' = [revoke EXCEPT ![r] = ToRevoke(form[r], g, assigned[g])]
  BY DEF NextGroup
<1>a. /\ g \in Groups /\ g \in Editable
      /\ UNCHANGED <<object, exists, assigned, step, form, seen, known, errors,
                     before, company>>
      /\ step[r] = "groups" /\ Through(r)
  BY <1>0 DEF NextGroup, RoleInv, ReadOK, Editable
<1>b. /\ GrantsTo(r, g)' = form[r][g] \ assigned[g]
      /\ RevokesFrom(r, g)' = assigned[g] \ form[r][g]
      /\ \A o \in Editable \ {g} :
           GrantsTo(r, o)' = {} /\ RevokesFrom(r, o)' = {}
      /\ \A pr \in revoke'[r] : pr[1] = g
  <2>1. form[r][g] \subseteq Roles /\ assigned[g] \subseteq Roles
    BY <1>a DEF RoleInv, TypeOK, Assignment, Principals, Editable
  <2> QED
    BY <1>0, <1>a, <2>1 DEF GrantsTo, RevokesFrom, ToGrant, ToRevoke,
       RoleInv, TypeOK
<1>1. CallsOK(r)'
  BY DEF NextGroup, RoleInv, TypeOK, CallsOK, Through, ToGrant, ToRevoke,
     ReadOK
<1>2. OwnAdminOK(r)'
  BY <1>a, <1>b, RoleFormsAssumption DEF OwnAdminOK
<1>3. ReadOK(r)'
  BY <1>0, <1>a DEF ReadOK, RoleInv, TypeOK
<1>4. OrderOK(r)'
  BY <1>a, <1>b DEF OrderOK, RoleInv
<1>5. (Unrivalled(r) => Between(r))'
  BY DEF NextGroup, RoleInv, TypeOK, Unrivalled, Between, Through, ToGrant,
     ToRevoke, CallsOK, StaysBetween
<1>6. ProgressOK(r)'
  <2>1. Come(r)' \subseteq Come(r) \cup {g}
    BY <1>0, <1>a DEF Come, RoleInv, TypeOK
  <2>2. ASSUME Unrivalled(r), ~errors[r], NEW o \in Come(r), o # g
        PROVE  Settled(r, o)'
    <3>1. Settled(r, o) /\ o \in Editable
      BY <1>a, <2>2 DEF RoleInv, ProgressOK, Come, Editable, TypeOK
    <3>2. GrantsTo(r, o) = {} /\ RevokesFrom(r, o) = {}
      BY <1>a DEF Through, GrantsTo, RevokesFrom
    <3> QED
      BY <1>a, <1>b, <2>2, <3>1, <3>2
      DEF Settled, Spared, IsRemovingSelfAdminRole
  <2>3. ASSUME Unrivalled(r) PROVE Settled(r, g)'
    BY <1>a, <1>b, <2>3 DEF Settled, Spared, IsRemovingSelfAdminRole
  <2> QED
    BY <1>a, <2>1, <2>2, <2>3 DEF ProgressOK, Unrivalled, UnknownGroups, RoleInv
<1> QED
  BY <1>1, <1>2, <1>3, <1>4, <1>5, <1>6 DEF Good

\* A request is good after the groups without a role.
LEMMA NewGroupsGood ==
  ASSUME RoleInv, TypeOK', NEW r \in Requests, NewGroups(r)
  PROVE  Good(r)'
<1>a. /\ grant' = [grant EXCEPT ![r] = GrantsOf(form[r], UnknownGroups(r))]
      /\ UNCHANGED <<object, assigned, form, seen, known, revoke, errors,
                     before, company>>
      /\ step[r] = "groups" /\ step'[r] = "newgroups" /\ Through(r)
      /\ grant'[r] = GrantsOf(form[r], UnknownGroups(r))
  BY DEF NewGroups, Goto, RoleInv, TypeOK
<1>b. \A o \in Editable :
        /\ RevokesFrom(r, o) = {} /\ RevokesFrom(r, o)' = {}
        /\ GrantsTo(r, o) = {}
        /\ o \in UnknownGroups(r) => GrantsTo(r, o)' = form[r][o]
  <2>1. UnknownGroups(r) \subseteq Editable
    BY DEF Editable, UnknownGroups
  <2> QED
    BY <1>a, <2>1 DEF GrantsOf, GrantsTo, RevokesFrom, Through, RoleInv, TypeOK
<1>1. CallsOK(r)'
  BY DEF NewGroups, RoleInv, TypeOK, CallsOK, Through, GrantsOf,
     UnknownGroups, Goto, ReadOK
<1>2. OwnAdminOK(r)'
  BY RoleFormsAssumption DEF NewGroups, RoleInv, TypeOK, OwnAdminOK,
     Through, GrantsOf, UnknownGroups, Goto, CallsOK, ReadOK
<1>3. ReadOK(r)'
  <2>1. (~exists => step[r] \in {"idle", "failed"} /\ assigned = Nobody)'
    BY DEF NewGroups, RoleInv, ReadOK, Goto, Through
  <2>2. (step[r] \in {"idle", "read"} => company[r] = "unread")'
    BY DEF NewGroups, RoleInv, ReadOK, TypeOK, Goto, Through
  <2>3. (step[r] = "users" => left[r] \subseteq Users)'
    BY DEF NewGroups, RoleInv, ReadOK, TypeOK, Goto, Through
  <2>4. (step[r] = "users" => \A u \in Users : seen[r][u] = before[r][u])'
    BY DEF NewGroups, RoleInv, ReadOK, TypeOK, Goto
  <2>5. (step[r] \in {"listing", "groups"} => left[r] \subseteq Groups)'
    BY DEF NewGroups, RoleInv, ReadOK, TypeOK, Goto, Through
  <2>6. (step[r] \in Creating => before[r] = Nobody)'
    BY DEF NewGroups, RoleInv, ReadOK, TypeOK, Goto, Creating
  <2> QED
    BY <2>1, <2>2, <2>3, <2>4, <2>5, <2>6 DEF ReadOK
<1>4. OrderOK(r)'
  BY DEF NewGroups, RoleInv, TypeOK, OrderOK, GrantsTo, Through, GrantsOf,
     UnknownGroups, Goto, CallsOK
<1>5. (Unrivalled(r) => Between(r))'
  BY DEF NewGroups, RoleInv, TypeOK, Unrivalled, Between, Through, GrantsOf,
     UnknownGroups, Goto, CallsOK, StaysBetween
<1>6. ProgressOK(r)'
  <2>1. ASSUME Unrivalled(r), ~errors[r], NEW o \in Come(r), o \in Editable
        PROVE  Settled(r, o)'
    BY <1>a, <1>b, <2>1
    DEF RoleInv, ProgressOK, Settled, Spared, IsRemovingSelfAdminRole
  <2>2. ASSUME Unrivalled(r), NEW o \in UnknownGroups(r)
        PROVE  Settled(r, o)'
    <3>1. o \in Editable /\ assigned[o] \subseteq form[r][o]
      BY <1>a, <2>2 DEF RoleInv, ProgressOK, UnknownGroups, Editable
    <3> QED
      BY <1>a, <1>b, <2>2, <3>1 DEF Settled
  <2>3. /\ Come(r)' = Editable
        /\ Editable \subseteq Come(r) \cup UnknownGroups(r)
    BY <1>a DEF NewGroups, Come, UnknownGroups, Editable
  <2> QED
    BY <1>a, <2>1, <2>2, <2>3 DEF ProgressOK, Unrivalled
<1> QED
  BY <1>1, <1>2, <1>3, <1>4, <1>5, <1>6 DEF Good

\* A request is good after the quotas.
LEMMA UpdateQuotaGood ==
  ASSUME RoleInv, TypeOK', NEW r \in Requests, UpdateQuota(r)
  PROVE  Good(r)'
<1>1. CallsOK(r)'
  BY DEF UpdateQuota, RoleInv, TypeOK, CallsOK, Through, Goto, ReadOK
<1>2. OwnAdminOK(r)'
  BY RoleFormsAssumption DEF UpdateQuota, RoleInv, TypeOK, OwnAdminOK,
     Through, Goto, CallsOK, ReadOK
<1>3. ReadOK(r)'
  <2>1. (~exists => step[r] \in {"idle", "failed"} /\ assigned = Nobody)'
    BY DEF UpdateQuota, RoleInv, ReadOK, Goto, Through
  <2>2. (step[r] \in {"idle", "read"} => company[r] = "unread")'
    BY DEF UpdateQuota, RoleInv, ReadOK, TypeOK, Goto, Through
  <2>3. (step[r] = "users" => left[r] \subseteq Users)'
    BY DEF UpdateQuota, RoleInv, ReadOK, TypeOK, Goto, Through
  <2>4. (step[r] = "users" => \A u \in Users : seen[r][u] = before[r][u])'
    BY DEF UpdateQuota, RoleInv, ReadOK, TypeOK, Goto
  <2>5. (step[r] \in {"listing", "groups"} => left[r] \subseteq Groups)'
    BY DEF UpdateQuota, RoleInv, ReadOK, TypeOK, Goto, Through
  <2>6. (step[r] \in Creating => before[r] = Nobody)'
    BY DEF UpdateQuota, RoleInv, ReadOK, TypeOK, Goto, Creating
  <2> QED
    BY <2>1, <2>2, <2>3, <2>4, <2>5, <2>6 DEF ReadOK
<1>4. OrderOK(r)'
  BY DEF UpdateQuota, RoleInv, TypeOK, OrderOK, GrantsTo, Through, Goto,
     CallsOK
<1>5. (Unrivalled(r) => Between(r))'
  BY DEF UpdateQuota, RoleInv, TypeOK, Unrivalled, Between, Through, Goto,
     CallsOK, StaysBetween
<1>6. ProgressOK(r)'
  BY DEF UpdateQuota, RoleInv, TypeOK, ProgressOK, Unrivalled, Come,
     Settled, GrantsTo, RevokesFrom, Spared, UnknownGroups,
     IsRemovingSelfAdminRole, Through, Goto, CallsOK, Editable,
     ListedGroups, Between, StaysBetween, ReadOK
<1> QED
  BY <1>1, <1>2, <1>3, <1>4, <1>5, <1>6 DEF Good

\* A request is good after the end of an update.
LEMMA FinishGood ==
  ASSUME RoleInv, TypeOK', NEW r \in Requests, Finish(r)
  PROVE  Good(r)'
<1>1. CallsOK(r)'
  BY DEF Finish, RoleInv, TypeOK, CallsOK, Through, Goto, ReadOK
<1>2. OwnAdminOK(r)'
  BY RoleFormsAssumption DEF Finish, RoleInv, TypeOK, OwnAdminOK, Goto,
     CallsOK, Through, ReadOK
<1>3. ReadOK(r)'
  <2>1. (~exists => step[r] \in {"idle", "failed"} /\ assigned = Nobody)'
    BY DEF Finish, RoleInv, ReadOK, Goto
  <2>2. (step[r] \in {"idle", "read"} => company[r] = "unread")'
    BY DEF Finish, RoleInv, ReadOK, TypeOK, Goto
  <2>3. (step[r] = "users" => left[r] \subseteq Users)'
    BY DEF Finish, RoleInv, ReadOK, TypeOK, Goto
  <2>4. (step[r] = "users" => \A u \in Users : seen[r][u] = before[r][u])'
    BY DEF Finish, RoleInv, ReadOK, TypeOK, Goto
  <2>5. (step[r] \in {"listing", "groups"} => left[r] \subseteq Groups)'
    BY DEF Finish, RoleInv, ReadOK, TypeOK, Goto
  <2>6. (step[r] \in Creating => before[r] = Nobody)'
    BY DEF Finish, RoleInv, ReadOK, TypeOK, Goto, Creating
  <2> QED
    BY <2>1, <2>2, <2>3, <2>4, <2>5, <2>6 DEF ReadOK
<1>4. OrderOK(r)'
  BY DEF Finish, RoleInv, TypeOK, OrderOK, GrantsTo, Goto, CallsOK, Through
<1>5. (Unrivalled(r) => Between(r))'
  BY DEF Finish, RoleInv, TypeOK, Unrivalled, Between, Goto, CallsOK,
     Through, StaysBetween
<1>6. ProgressOK(r)'
  BY DEF Finish, RoleInv, TypeOK, ProgressOK, Unrivalled, Come, Settled,
     GrantsTo, RevokesFrom, Spared, UnknownGroups, IsRemovingSelfAdminRole,
     Goto, CallsOK, Through, Editable, ListedGroups, Between, StaysBetween,
     ReadOK
<1> QED
  BY <1>1, <1>2, <1>3, <1>4, <1>5, <1>6 DEF Good

\* A request is good after a failing read.
LEMMA ReadFailsGood ==
  ASSUME RoleInv, TypeOK', NEW r \in Requests, ReadFails(r)
  PROVE  Good(r)'
<1>1. CallsOK(r)'
  BY DEF ReadFails, RoleInv, TypeOK, CallsOK, Through, Abort, Goto,
     Creating, ReadOK
<1>2. OwnAdminOK(r)'
  BY RoleFormsAssumption DEF ReadFails, RoleInv, TypeOK, OwnAdminOK,
     Through, Abort, Goto, Creating, CallsOK, ReadOK
<1>3. ReadOK(r)'
  <2>1. step'[r] = "failed" /\ step[r] \notin {"idle", "failed"}
    BY DEF ReadFails, Abort, Goto, Creating, RoleInv, TypeOK
  <2>2. (~exists)' => FALSE
    BY <2>1 DEF ReadFails, RoleInv, ReadOK
  <2> QED
    BY <2>1, <2>2 DEF ReadOK, Creating
<1>4. OrderOK(r)'
  <2>1. revoke'[r] = {} /\ UNCHANGED <<assigned, form, before, company>>
    BY DEF ReadFails, Abort, RoleInv, TypeOK
  <2> QED
    BY <2>1 DEF OrderOK, RoleInv
<1>5. (Unrivalled(r) => Between(r))'
  BY DEF ReadFails, RoleInv, TypeOK, Unrivalled, Between, Through, Abort,
     Goto, Creating, CallsOK, StaysBetween
<1>6. ProgressOK(r)'
  BY DEF ReadFails, RoleInv, TypeOK, ProgressOK, Unrivalled, Come, Settled,
     GrantsTo, RevokesFrom, Spared, UnknownGroups, IsRemovingSelfAdminRole,
     Through, Abort, Goto, Creating, CallsOK, Editable, ListedGroups,
     Between, StaysBetween, ReadOK
<1> QED
  BY <1>1, <1>2, <1>3, <1>4, <1>5, <1>6 DEF Good

\* A request is good after tenant_create.
LEMMA CreateProjectGood ==
  ASSUME RoleInv, TypeOK', NEW r \in Requests, CreateProject(r)
  PROVE  Good(r)'
<1>a. /\ step[r] = "idle" /\ Through(r) /\ company[r] = "unread"
      /\ UNCHANGED <<object, assigned, seen, left, known, revoke>>
      /\ form'[r] \in [Editable -> SUBSET Roles]
  BY DEF CreateProject, RoleInv, CallsOK, ReadOK, TypeOK
<1>b. CASE step'[r] = "failed" /\ UNCHANGED <<grant, before, company>>
  <2>1. exists' \/ assigned' = Nobody
    <3>1. exists \/ assigned = Nobody
      BY DEF RoleInv, ReadOK
    <3>2. exists => exists'
      BY DEF CreateProject
    <3> QED
      BY <1>a, <3>1, <3>2
  <2>2. CallsOK(r)' /\ OwnAdminOK(r)' /\ ReadOK(r)'
    BY <1>a, <1>b, <2>1 DEF CallsOK, Through, OwnAdminOK, ReadOK, Creating
  <2>3. OrderOK(r)' /\ ProgressOK(r)' /\ (Unrivalled(r) => Between(r))'
    BY <1>a, <1>b DEF OrderOK, ProgressOK, Unrivalled
  <2> QED
    BY <2>2, <2>3 DEF Good
<1>c. CASE /\ ~exists /\ step'[r] = "cusers"
           /\ grant'[r] = GrantsOf(form'[r], Users)
           /\ before'[r] = assigned /\ company'[r] = "none" /\ exists'
  <2>1. assigned = Nobody /\ revoke'[r] = {}
    BY <1>a, <1>c DEF RoleInv, ReadOK, Through
  <2>2. CallsOK(r)' /\ OwnAdminOK(r)' /\ ReadOK(r)'
    BY <1>a, <1>c, <2>1
    DEF CallsOK, Through, OwnAdminOK, ReadOK, GrantsOf, Creating
  <2>3. OrderOK(r)' /\ (Unrivalled(r) => Between(r))'
    BY <1>a, <1>c, <2>1 DEF OrderOK, Unrivalled, Between
  <2>4. \A o \in Users : Settled(r, o)'
    <3>1. \A o \in Users : GrantsTo(r, o)' = form'[r][o] /\ assigned[o] = {}
      BY <1>a, <1>c, <2>1
      DEF GrantsOf, GrantsTo, Editable, Nobody, Principals
    <3> QED
      BY <1>a, <3>1 DEF Settled
  <2>5. Come(r)' = Users
    BY <1>c DEF Come
  <2> QED
    BY <1>c, <2>2, <2>3, <2>4, <2>5 DEF Good, ProgressOK
<1> QED
  BY <1>b, <1>c DEF CreateProject, Goto, RoleInv, TypeOK

\* A request is good after the groups of a new project.
LEMMA CreateGroupsGood ==
  ASSUME RoleInv, TypeOK', NEW r \in Requests, CreateGroups(r)
  PROVE  Good(r)'
<1>a. /\ grant' = [grant EXCEPT ![r] = GrantsOf(form[r], Groups)]
      /\ UNCHANGED <<object, assigned, form, seen, known, revoke, errors,
                     before, company>>
      /\ step[r] = "cusers" /\ step'[r] = "cgroups" /\ Through(r)
      /\ grant'[r] = GrantsOf(form[r], Groups)
  BY DEF CreateGroups, Goto, RoleInv, TypeOK
<1>b. \A o \in Editable :
        /\ RevokesFrom(r, o) = {} /\ RevokesFrom(r, o)' = {}
        /\ GrantsTo(r, o) = {}
        /\ o \in Groups => GrantsTo(r, o)' = form[r][o]
  <2>1. Groups \subseteq Editable
    BY DEF Editable
  <2> QED
    BY <1>a, <2>1 DEF GrantsOf, GrantsTo, RevokesFrom, Through, RoleInv, TypeOK
<1>1. CallsOK(r)'
  BY DEF CreateGroups, RoleInv, TypeOK, CallsOK, Through, GrantsOf, Goto,
     ReadOK
<1>2. OwnAdminOK(r)'
  BY RoleFormsAssumption DEF CreateGroups, RoleInv, TypeOK, OwnAdminOK,
     Through, GrantsOf, Goto, CallsOK, ReadOK
<1>3. ReadOK(r)'
  <2>1. (~exists => step[r] \in {"idle", "failed"} /\ assigned = Nobody)'
    BY DEF CreateGroups, RoleInv, ReadOK, Goto, Through
  <2>2. (step[r] \in {"idle", "read"} => company[r] = "unread")'
    BY DEF CreateGroups, RoleInv, ReadOK, TypeOK, Goto, Through
  <2>3. (step[r] = "users" => left[r] \subseteq Users)'
    BY DEF CreateGroups, RoleInv, ReadOK, TypeOK, Goto, Through
  <2>4. (step[r] = "users" => \A u \in Users : seen[r][u] = before[r][u])'
    BY DEF CreateGroups, RoleInv, ReadOK, TypeOK, Goto
  <2>5. (step[r] \in {"listing", "groups"} => left[r] \subseteq Groups)'
    BY DEF CreateGroups, RoleInv, ReadOK, TypeOK, Goto, Through
  <2>6. (step[r] \in Creating => before[r] = Nobody)'
    BY DEF CreateGroups, RoleInv, ReadOK, TypeOK, Goto, Creating
  <2> QED
    BY <2>1, <2>2, <2>3, <2>4, <2>5, <2>6 DEF ReadOK
<1>4. OrderOK(r)'
  BY DEF CreateGroups, RoleInv, TypeOK, OrderOK, GrantsTo, Through,
     GrantsOf, Goto, CallsOK
<1>5. (Unrivalled(r) => Between(r))'
  BY DEF CreateGroups, RoleInv, TypeOK, Unrivalled, Between, Through,
     GrantsOf, Goto, CallsOK, StaysBetween
<1>6. ProgressOK(r)'
  <2>1. ASSUME Unrivalled(r), ~errors[r], NEW o \in Come(r), o \in Editable
        PROVE  Settled(r, o)'
    BY <1>a, <1>b, <2>1
    DEF RoleInv, ProgressOK, Settled, Spared, IsRemovingSelfAdminRole
  <2>2. ASSUME Unrivalled(r), NEW o \in Groups
        PROVE  Settled(r, o)'
    <3>1. o \in Editable /\ before[r][o] = {}
      BY <1>a DEF RoleInv, ReadOK, Creating, Nobody, Editable, Principals
    <3>2. assigned[o] \subseteq form[r][o]
      BY <2>2, <3>1 DEF RoleInv, StaysBetween, Between
    <3> QED
      BY <1>a, <1>b, <2>2, <3>1, <3>2 DEF Settled
  <2>3. Come(r) = Users
    BY <1>a DEF Come
  <2> QED
    BY <1>a, <2>1, <2>2, <2>3 DEF ProgressOK, Unrivalled, Come, Editable
<1> QED
  BY <1>1, <1>2, <1>3, <1>4, <1>5, <1>6 DEF Good

\* A request is good after its quotas.
LEMMA CreateQuotaGood ==
  ASSUME RoleInv, TypeOK', NEW r \in Requests, CreateQuota(r)
  PROVE  Good(r)'
<1>1. CallsOK(r)'
  BY DEF CreateQuota, RoleInv, TypeOK, CallsOK, Through, Goto, ReadOK
<1>2. OwnAdminOK(r)'
  BY RoleFormsAssumption DEF CreateQuota, RoleInv, TypeOK, OwnAdminOK,
     Through, Goto, CallsOK, ReadOK
<1>3. ReadOK(r)'
  <2>1. (~exists => step[r] \in {"idle", "failed"} /\ assigned = Nobody)'
    BY DEF CreateQuota, RoleInv, ReadOK, Goto, Through
  <2>2. (step[r] \in {"idle", "read"} => company[r] = "unread")'
    BY DEF CreateQuota, RoleInv, ReadOK, TypeOK, Goto, Through
  <2>3. (step[r] = "users" => left[r] \subseteq Users)'
    BY DEF CreateQuota, RoleInv, ReadOK, TypeOK, Goto, Through
  <2>4. (step[r] = "users" => \A u \in Users : seen[r][u] = before[r][u])'
    BY DEF CreateQuota, RoleInv, ReadOK, TypeOK, Goto
  <2>5. (step[r] \in {"listing", "groups"} => left[r] \subseteq Groups)'
    BY DEF CreateQuota, RoleInv, ReadOK, TypeOK, Goto, Through
  <2>6. (step[r] \in Creating => before[r] = Nobody)'
    BY DEF CreateQuota, RoleInv, ReadOK, TypeOK, Goto, Creating
  <2> QED
    BY <2>1, <2>2, <2>3, <2>4, <2>5, <2>6 DEF ReadOK
<1>4. OrderOK(r)'
  BY DEF CreateQuota, RoleInv, TypeOK, OrderOK, GrantsTo, Through, Goto,
     CallsOK
<1>5. (Unrivalled(r) => Between(r))'
  BY DEF CreateQuota, RoleInv, TypeOK, Unrivalled, Between, Through, Goto,
     CallsOK, StaysBetween
<1>6. ProgressOK(r)'
  BY DEF CreateQuota, RoleInv, TypeOK, ProgressOK, Unrivalled, Come,
     Settled, GrantsTo, RevokesFrom, Spared, UnknownGroups,
     IsRemovingSelfAdminRole, Through, Goto, CallsOK, Editable,
     ListedGroups, Between, StaysBetween, ReadOK
<1> QED
  BY <1>1, <1>2, <1>3, <1>4, <1>5, <1>6 DEF Good

\* A request is good after the end of a creation.
LEMMA FinishCreateGood ==
  ASSUME RoleInv, TypeOK', NEW r \in Requests, FinishCreate(r)
  PROVE  Good(r)'
<1>1. CallsOK(r)'
  BY DEF FinishCreate, RoleInv, TypeOK, CallsOK, Through, Goto, ReadOK
<1>2. OwnAdminOK(r)'
  BY RoleFormsAssumption DEF FinishCreate, RoleInv, TypeOK, OwnAdminOK,
     Goto, CallsOK, Through, ReadOK
<1>3. ReadOK(r)'
  <2>1. (~exists => step[r] \in {"idle", "failed"} /\ assigned = Nobody)'
    BY DEF FinishCreate, RoleInv, ReadOK, Goto
  <2>2. (step[r] \in {"idle", "read"} => company[r] = "unread")'
    BY DEF FinishCreate, RoleInv, ReadOK, TypeOK, Goto
  <2>3. (step[r] = "users" => left[r] \subseteq Users)'
    BY DEF FinishCreate, RoleInv, ReadOK, TypeOK, Goto
  <2>4. (step[r] = "users" => \A u \in Users : seen[r][u] = before[r][u])'
    BY DEF FinishCreate, RoleInv, ReadOK, TypeOK, Goto
  <2>5. (step[r] \in {"listing", "groups"} => left[r] \subseteq Groups)'
    BY DEF FinishCreate, RoleInv, ReadOK, TypeOK, Goto
  <2>6. (step[r] \in Creating => before[r] = Nobody)'
    BY DEF FinishCreate, RoleInv, ReadOK, TypeOK, Goto, Creating
  <2> QED
    BY <2>1, <2>2, <2>3, <2>4, <2>5, <2>6 DEF ReadOK
<1>4. OrderOK(r)'
  BY DEF FinishCreate, RoleInv, TypeOK, OrderOK, GrantsTo, Goto, CallsOK,
     Through
<1>5. (Unrivalled(r) => Between(r))'
  BY DEF FinishCreate, RoleInv, TypeOK, Unrivalled, Between, Goto, CallsOK,
     Through, StaysBetween
<1>6. ProgressOK(r)'
  BY DEF FinishCreate, RoleInv, TypeOK, ProgressOK, Unrivalled, Come,
     Settled, GrantsTo, RevokesFrom, Spared, UnknownGroups,
     IsRemovingSelfAdminRole, Goto, CallsOK, Through, Editable,
     ListedGroups, Between, StaysBetween, ReadOK
<1> QED
  BY <1>1, <1>2, <1>3, <1>4, <1>5, <1>6 DEF Good


-----------------------------------------------------------------------------
(* The invariant.                                                          *)

\* What handle() does between the calls concerns no other request and leaves
\* the assignments alone.
LEMMA Apart ==
  ASSUME RoleInv, NEW r \in Requests, NEW q \in Requests \ {r},
         Update(r) \/ Creation(r)
  PROVE  /\ UNCHANGED <<object, assigned>> /\ (exists => exists')
         /\ step'[q] = step[q] /\ form'[q] = form[q] /\ seen'[q] = seen[q]
         /\ left'[q] = left[q] /\ known'[q] = known[q]
         /\ grant'[q] = grant[q] /\ revoke'[q] = revoke[q]
         /\ errors'[q] = errors[q] /\ before'[q] = before[q]
         /\ company'[q] = company[q]
<1>1. CASE Submit(r)
  BY <1>1 DEF Submit, Goto, RoleInv, TypeOK
<1>2. CASE ReadUsers(r)
  BY <1>2 DEF ReadUsers, Goto, RoleInv, TypeOK
<1>3. CASE NextUser(r)
  BY <1>3 DEF NextUser, Goto, RoleInv, TypeOK
<1>4. CASE NewUsers(r)
  BY <1>4 DEF NewUsers, Goto, RoleInv, TypeOK
<1>5. CASE ReadGroups(r)
  BY <1>5 DEF ReadGroups, Goto, RoleInv, TypeOK
<1>6. CASE ListGroup(r)
  BY <1>6 DEF ListGroup, Goto, RoleInv, TypeOK
<1>7. CASE UpdateGroups(r)
  BY <1>7 DEF UpdateGroups, Goto, RoleInv, TypeOK
<1>8. CASE NextGroup(r)
  BY <1>8 DEF NextGroup, Goto, RoleInv, TypeOK
<1>9. CASE NewGroups(r)
  BY <1>9 DEF NewGroups, Goto, RoleInv, TypeOK
<1>10. CASE UpdateQuota(r)
  BY <1>10 DEF UpdateQuota, Goto, RoleInv, TypeOK
<1>11. CASE Finish(r)
  BY <1>11 DEF Finish, Goto, RoleInv, TypeOK
<1>12. CASE ReadFails(r)
  BY <1>12 DEF ReadFails, Goto, Abort, RoleInv, TypeOK
<1>13. CASE CreateProject(r)
  <2>1. exists => exists'
    BY <1>13 DEF CreateProject
  <2>2. /\ UNCHANGED <<object, assigned, seen, left, known, revoke>>
        /\ step'[q] = step[q] /\ form'[q] = form[q]
    BY <1>13 DEF CreateProject, Goto, RoleInv, TypeOK
  <2>3. /\ grant'[q] = grant[q] /\ errors'[q] = errors[q]
        /\ before'[q] = before[q] /\ company'[q] = company[q]
    BY <1>13 DEF CreateProject, RoleInv, TypeOK
  <2> QED
    BY <2>1, <2>2, <2>3
<1>14. CASE CreateGroups(r)
  BY <1>14 DEF CreateGroups, Goto, RoleInv, TypeOK
<1>15. CASE CreateQuota(r)
  BY <1>15 DEF CreateQuota, Goto, RoleInv, TypeOK
<1>16. CASE FinishCreate(r)
  BY <1>16 DEF FinishCreate, Goto, RoleInv, TypeOK
<1> QED
  BY <1>1, <1>2, <1>3, <1>4, <1>5, <1>6, <1>7, <1>8, <1>9, <1>10, <1>11,
     <1>12, <1>13, <1>14, <1>15, <1>16
  DEF Update, Creation

\* It keeps the whole invariant.
LEMMA OwnInv ==
  ASSUME RoleInv, NEW r \in Requests, Update(r) \/ Creation(r)
  PROVE  RoleInv'
<1>1. TypeOK'
  BY TypeSubmit, TypeReadUsers, TypeNextUser, TypeNewUsers, TypeReadGroups,
     TypeListGroup, TypeUpdateGroups, TypeNextGroup, TypeNewGroups,
     TypeUpdateQuota, TypeFinish, TypeReadFails, TypeCreateProject,
     TypeCreateGroups, TypeCreateQuota, TypeFinishCreate
  DEF Update, Creation
<1>2. Good(r)'
  BY <1>1, SubmitGood, ReadUsersGood, NextUserGood, NewUsersGood,
     ReadGroupsGood, ListGroupGood, UpdateGroupsGood, NextGroupGood,
     NewGroupsGood, UpdateQuotaGood, FinishGood, ReadFailsGood,
     CreateProjectGood, CreateGroupsGood, CreateQuotaGood, FinishCreateGood
  DEF Update, Creation
<1>3. ASSUME NEW q \in Requests \ {r} PROVE Good(q)'
  BY Apart, Frame, InvIsGood
<1> QED
  BY <1>1, <1>2, <1>3 DEF RoleInv, StaysBetween, Good

\* So does doing nothing.
LEMMA StutterInv == RoleInv /\ UNCHANGED vars => RoleInv'
<1> SUFFICES ASSUME RoleInv, UNCHANGED vars PROVE RoleInv'
  OBVIOUS
<1>1. TypeOK'
  BY DEF RoleInv, TypeOK, vars
<1>2. ASSUME NEW q \in Requests PROVE Good(q)'
  BY Frame, InvIsGood DEF vars
<1> QED
  BY <1>1, <1>2 DEF RoleInv, StaysBetween, Good

(***************************************************************************)
(* RoleInv is inductive: the pending calls of every request agree with its *)
(* form and with what it read, whatever the requests, how many of them     *)
(* there are and how their calls interleave and fail.                      *)
(***************************************************************************)
THEOREM RoleInvariant == Spec => []RoleInv
<1>1. RoleInv /\ [Next]_vars => RoleInv'
  BY CallsInv, OwnInv, StutterInv DEF Next
<1> QED
  BY <1>1, InitInv, PTL DEF Spec

(***************************************************************************)
(* A request changes nothing its form does not ask for, and nothing of     *)
(* users the form does not show, at any point, also when it fails.         *)
(***************************************************************************)
THEOREM RequestsStayBetween == Spec => []StaysBetween
<1>1. RoleInv => StaysBetween
  BY DEF RoleInv
<1> QED
  BY <1>1, RoleInvariant, PTL

\* Granting before revoking: nobody loses their last role on the way to
\* another.
THEOREM RequestsKeepMembers == Spec => []KeepsMembers
<1>1. ASSUME RoleInv PROVE KeepsMembers
  <2> SUFFICES ASSUME NEW r \in Requests, company[r] = "none",
                      NEW p \in Editable, before[r][p] # {}, form[r][p] # {}
               PROVE  assigned[p] # {}
    BY DEF KeepsMembers
  <2>1. before[r][p] \subseteq assigned[p] \/ form[r][p] \subseteq assigned[p]
    BY <1>1 DEF RoleInv, OrderOK
  <2> QED
    BY <2>1
<1> QED
  BY <1>1, RoleInvariant, PTL

\* A request that says it is done has made the assignments those of its form.
THEOREM RequestsTakeEffect == Spec => []TakesEffect
<1>1. ASSUME RoleInv PROVE TakesEffect
  <2> SUFFICES ASSUME NEW r \in Requests, step[r] = "done", ~errors[r],
                      Unrivalled(r), NEW p \in Editable
               PROVE  /\ form[r][p] \subseteq assigned[p]
                      /\ Spared(r, p) \/ assigned[p] \subseteq form[r][p]
    BY DEF TakesEffect
  <2>1. Come(r) = Editable
    BY DEF Come
  <2>2. Settled(r, p)
    BY <1>1, <2>1 DEF RoleInv, ProgressOK
  <2>3. GrantsTo(r, p) = {} /\ RevokesFrom(r, p) = {}
    BY <1>1 DEF RoleInv, CallsOK, Through, GrantsTo, RevokesFrom
  <2> QED
    BY <2>2, <2>3 DEF Settled
<1> QED
  BY <1>1, RoleInvariant, PTL

\* No call of a request takes an administrator's role from its own editor.
LEMMA CallsSpareEditor ==
  ASSUME RoleInv, NEW r \in Requests, Grant(r) \/ Revoke(r) \/ CallFails(r),
         object = "domain" \/ r \in Here
  PROVE  AdminRoles \cap assigned[UserOf[r]] \subseteq assigned'[UserOf[r]]
<1>1. \A pr \in revoke[r] : pr[1] = UserOf[r] => pr[2] \notin AdminRoles
  BY DEF RoleInv, OwnAdminOK
<1>2. assigned \in Assignment /\ UserOf[r] \in Principals
  BY RoleFormsAssumption DEF RoleInv, TypeOK, Principals
<1>3. CASE assigned' = assigned
  BY <1>3
<1>4. ASSUME NEW pr \in grant[r], assigned' = With(pr[1], pr[2])
      PROVE  AdminRoles \cap assigned[UserOf[r]] \subseteq assigned'[UserOf[r]]
  BY <1>2, <1>4 DEF With, Assignment
<1>5. ASSUME NEW pr \in revoke[r], assigned' = Without(pr[1], pr[2])
      PROVE  AdminRoles \cap assigned[UserOf[r]] \subseteq assigned'[UserOf[r]]
  BY <1>1, <1>2, <1>5 DEF Without, Assignment
<1>6. \/ assigned' = assigned
      \/ \E pr \in grant[r] : assigned' = With(pr[1], pr[2])
      \/ \E pr \in revoke[r] : assigned' = Without(pr[1], pr[2])
  BY DEF Grant, Revoke, CallFails, Assign
<1> QED
  BY <1>3, <1>4, <1>5, <1>6

(***************************************************************************)
(* However stale the list a request works from, and whoever else is at     *)
(* work: editors keep their own administrator's roles on the project they  *)
(* are logged into, and on a domain.                                       *)
(***************************************************************************)
THEOREM EditorsKeepOwnAdmin == Spec => KeepsOwnAdmin
<1> DEFINE Keeps ==
      \A r \in Requests :
        (grant'[r] # grant[r] \/ revoke'[r] # revoke[r])
          /\ (object = "domain" \/ r \in Here)
        => AdminRoles \cap assigned[UserOf[r]] \subseteq assigned'[UserOf[r]]
<1>1. ASSUME RoleInv, [Next]_vars PROVE [Keeps]_vars
  <2>1. CASE UNCHANGED vars
    BY <2>1
  <2>2. ASSUME NEW r \in Requests, Update(r) \/ Creation(r)
        PROVE  Keeps
    <3>1. assigned' = assigned
      <4>1. CASE Update(r)
        BY <4>1 DEF Update, Submit, ReadUsers, NextUser, NewUsers, ReadGroups,
           ListGroup, UpdateGroups, NextGroup, NewGroups, UpdateQuota, Finish,
           ReadFails
      <4>2. CASE Creation(r)
        BY <4>2 DEF Creation, CreateProject, CreateGroups, CreateQuota,
           FinishCreate
      <4> QED
        BY <2>2, <4>1, <4>2
    <3> QED
      BY <3>1
  <2>3. ASSUME NEW r \in Requests, Grant(r) \/ Revoke(r) \/ CallFails(r)
        PROVE  Keeps
    <3> SUFFICES ASSUME NEW q \in Requests, object = "domain" \/ q \in Here,
                        grant'[q] # grant[q] \/ revoke'[q] # revoke[q]
                 PROVE  AdminRoles \cap assigned[UserOf[q]]
                          \subseteq assigned'[UserOf[q]]
      OBVIOUS
    <3>1. q = r
      BY <1>1, <2>3 DEF Grant, Revoke, CallFails, Abort, RoleInv, TypeOK
    <3> QED
      BY <1>1, <2>3, <3>1, CallsSpareEditor
  <2> QED
    BY <1>1, <2>1, <2>2, <2>3 DEF Next
<1>2. RoleInv /\ [Next]_vars => [Keeps]_vars
  BY <1>1
<1> QED
  BY <1>2, RoleInvariant, PTL DEF Spec, KeepsOwnAdmin
=============================================================================
