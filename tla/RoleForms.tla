----------------------------- MODULE RoleForms -----------------------------
(***************************************************************************)
(* The workflows of the Identity dashboard that set who has which role on  *)
(* a project or a domain.  A form carries, for every role, the users and   *)
(* the groups that are to have it.  Keystone takes no such list: handle()  *)
(* reads what is assigned, and then grants and revokes one role of one     *)
(* principal per call.  Every call may fail, or succeed and lose its       *)
(* answer; nothing is rolled back; and several requests, of several        *)
(* administrators or of one that clicked twice, do this at the same time.  *)
(***************************************************************************)
EXTENDS Naturals, FiniteSets

CONSTANTS
  Users,        \* the users with an account in the domain of the form
  Outsiders,    \* users of other domains, who may have roles here
  Groups,       \* the groups of the domain
  Roles,        \* what role_list answers
  AdminRoles,   \* those of them whose name get_admin_roles holds
  Requests,     \* POSTs of the form
  UserOf,       \* UserOf[r] is request.user
  Here,         \* the requests whose user is logged into the very project
  Forms,        \* what the form may say, a function from principals to roles
  Starts        \* what may be assigned at first

Principals == Users \cup Outsiders \cup Groups
Editable == Users \cup Groups
Assignment == [Principals -> SUBSET Roles]
Nobody == [p \in Principals |-> {}]

ASSUME RoleFormsAssumption ==
  /\ Users \cap Outsiders = {} /\ Groups \cap (Users \cup Outsiders) = {}
  /\ AdminRoles \subseteq Roles
  /\ UserOf \in [Requests -> Users]
  /\ Here \subseteq Requests
  /\ Forms \subseteq [Editable -> SUBSET Roles]
  /\ Starts \subseteq Assignment

VARIABLES
  object,     \* what the form is about: "project" or "domain"
  exists,     \* is it there?
  assigned,   \* Keystone: the roles of every principal on it
  step,       \* how far handle() is, per request
  form,       \* the submitted data
  seen,       \* users_roles: the users' roles when they were read
  left,       \* the principals the running loop has not come to
  known,      \* project_groups: the groups that were found to have a role
  grant,      \* the grants the current pass of a loop has before it
  revoke,     \* the revocations it makes after them
  errors,     \* has the request put an error message on the page?
  before,     \* history: what was assigned when the request read the users
  company     \* history: whose calls have changed assignments since then:
              \* none but its own, a request's with the same form, a rival's

vars == <<object, exists, assigned, step, form, seen, left, known, grant,
          revoke, errors, before, company>>

Updating == {"read", "users", "newusers", "listing", "groups", "newgroups",
             "quota"}
Creating == {"cusers", "cgroups", "cquota"}
Step == {"idle", "done", "failed"} \cup Updating \cup Creating

TypeOK ==
  /\ object \in {"project", "domain"}
  /\ exists \in BOOLEAN
  /\ assigned \in Assignment
  /\ step \in [Requests -> Step]
  /\ form \in [Requests -> [Editable -> SUBSET Roles]]
  /\ seen \in [Requests -> [Users -> SUBSET Roles]]
  /\ left \in [Requests -> SUBSET Editable]
  /\ known \in [Requests -> SUBSET Groups]
  /\ grant \in [Requests -> SUBSET (Editable \X Roles)]
  /\ revoke \in [Requests -> SUBSET (Editable \X Roles)]
  /\ errors \in [Requests -> BOOLEAN]
  /\ before \in [Requests -> Assignment]
  /\ company \in [Requests -> {"unread", "none", "twin", "rival"}]

Init ==
  /\ object \in {"project", "domain"}
  /\ exists \in (IF object = "domain" THEN {TRUE} ELSE BOOLEAN)
  /\ assigned \in (IF exists THEN Starts ELSE {Nobody})
  /\ step = [r \in Requests |-> "idle"]
  /\ form = [r \in Requests |-> [p \in Editable |-> {}]]
  /\ seen = [r \in Requests |-> [u \in Users |-> {}]]
  /\ left = [r \in Requests |-> {}]
  /\ known = [r \in Requests |-> {}]
  /\ grant = [r \in Requests |-> {}]
  /\ revoke = [r \in Requests |-> {}]
  /\ errors = [r \in Requests |-> FALSE]
  /\ before = [r \in Requests |-> Nobody]
  /\ company = [r \in Requests |-> "unread"]

-----------------------------------------------------------------------------
(* What the loops compute.                                                 *)

\* Every grant a form asks for, for the principals in P.
GrantsOf(f, P) == {pr \in P \X Roles : pr[2] \in f[pr[1]]}

ToGrant(f, p, current) == {p} \X (f[p] \ current)
ToRevokeAll(f, p, current) == {p} \X current        \* a mutant
ToRevoke(f, p, current) == {p} \X (current \ f[p])

\* A mutant: domains are forgotten.
IsRemovingSelfProjectRole(r, u, remaining) ==
  u = UserOf[r] /\ r \in Here /\ remaining \cap AdminRoles # {}

\* The remaining roles of the editor's own entry hold an administrator's
\* role of the place the editor is logged into: nothing of it is revoked.
IsRemovingSelfAdminRole(r, u, remaining) ==
  /\ u = UserOf[r]
  /\ object = "domain" \/ r \in Here
  /\ remaining \cap AdminRoles # {}

\* The groups the loop runs over: those found to have a role on the project,
\* or all those of the domain.
ListedGroups(g) == IF object = "project" /\ assigned[g] = {} THEN {} ELSE {g}

\* A mutant: `not filter(...)' of Python 3, where an iterator is always true.
NoUnknownGroups(r) == {}

\* `not filter(...)' of Python 2: the groups that are not in project_groups.
UnknownGroups(r) == Groups \ known[r]

-----------------------------------------------------------------------------
(* The calls.                                                              *)

Goto(r, s) == step' = [step EXCEPT ![r] = s]

\* Keystone takes a call of r that leaves the assignments as `new'.
Assign(r, new) ==
  /\ assigned' = new
  /\ company' = [q \in Requests |->
       IF q = r \/ new = assigned \/ company[q] \in {"unread", "rival"}
       THEN company[q]
       ELSE IF form[q] = form[r] THEN "twin" ELSE "rival"]

\* exceptions.handle: an update ends there; a creation goes on with its next
\* part, unless it is a 401, which is raised again.
Abort(r) ==
  /\ errors' = [errors EXCEPT ![r] = TRUE]
  /\ grant' = [grant EXCEPT ![r] = {}]
  /\ revoke' = [revoke EXCEPT ![r] = {}]
  /\ left' = [left EXCEPT ![r] = {}]
  /\ \/ step[r] \in Creating /\ UNCHANGED step
     \/ Goto(r, "failed")

With(p, role) == [assigned EXCEPT ![p] = @ \cup {role}]
Without(p, role) == [assigned EXCEPT ![p] = @ \ {role}]

Grant(r) ==
  /\ \E pr \in grant[r] :
       /\ grant' = [grant EXCEPT ![r] = @ \ {pr}]
       /\ Assign(r, With(pr[1], pr[2]))
  /\ UNCHANGED <<object, exists, step, form, seen, left, known, revoke,
                 errors, before>>

\* A mutant: the revocations do not wait for the grants.
RevokeEarly(r) ==
  /\ \E pr \in revoke[r] :
       /\ pr[2] \in assigned[pr[1]]
       /\ revoke' = [revoke EXCEPT ![r] = @ \ {pr}]
       /\ Assign(r, Without(pr[1], pr[2]))
  /\ UNCHANGED <<object, exists, step, form, seen, left, known, grant,
                 errors, before>>

\* A role that is no longer there cannot be revoked: Keystone answers 404.
Revoke(r) ==
  /\ grant[r] = {}
  /\ \E pr \in revoke[r] :
       /\ pr[2] \in assigned[pr[1]]
       /\ revoke' = [revoke EXCEPT ![r] = @ \ {pr}]
       /\ Assign(r, Without(pr[1], pr[2]))
  /\ UNCHANGED <<object, exists, step, form, seen, left, known, grant,
                 errors, before>>

\* A call fails, before or after it had its effect.
CallFails(r) ==
  /\ \/ \E pr \in grant[r] : Assign(r, With(pr[1], pr[2]))
     \/ /\ grant[r] = {}
        /\ \E pr \in revoke[r] : Assign(r, Without(pr[1], pr[2]))
     \/ /\ grant[r] \cup revoke[r] # {}
        /\ UNCHANGED <<assigned, company>>
  /\ Abort(r)
  /\ UNCHANGED <<object, exists, form, seen, known, before>>

\* The calls of a pass are made, and nothing has failed.
Through(r) == grant[r] = {} /\ revoke[r] = {}

-----------------------------------------------------------------------------
(* UpdateProject.handle, UpdateDomain.handle.                              *)

\* The data of the project are updated, or the request fails there.
Submit(r) ==
  /\ step[r] = "idle" /\ exists
  /\ \E f \in Forms : form' = [form EXCEPT ![r] = f]
  /\ \E ok \in BOOLEAN :
       /\ Goto(r, IF ok THEN "read" ELSE "failed")
       /\ errors' = [errors EXCEPT ![r] = ~ok]
  /\ company' = [company EXCEPT ![r] = "unread"]
  /\ UNCHANGED <<object, exists, assigned, seen, left, known, grant, revoke,
                 before>>

\* A mutant: the users with a role are not looked up among the domain's.
ReadAllUsers(r) ==
  /\ step[r] = "read"
  /\ seen' = [seen EXCEPT ![r] = [u \in Users |-> assigned[u]]]
  /\ left' = [left EXCEPT ![r] =
       {u \in Users \cup Outsiders : assigned[u] # {}}]
  /\ before' = [before EXCEPT ![r] = assigned]
  /\ company' = [company EXCEPT ![r] = "none"]
  /\ Goto(r, "users")
  /\ UNCHANGED <<object, exists, assigned, form, known, grant, revoke, errors>>

\* get_project_users_roles and user_list: the loop will run over the users
\* that have a role and are in the domain.
ReadUsers(r) ==
  /\ step[r] = "read"
  /\ seen' = [seen EXCEPT ![r] = [u \in Users |-> assigned[u]]]
  /\ left' = [left EXCEPT ![r] = {u \in Users : assigned[u] # {}}]
  /\ before' = [before EXCEPT ![r] = assigned]
  /\ company' = [company EXCEPT ![r] = "none"]
  /\ Goto(r, "users")
  /\ UNCHANGED <<object, exists, assigned, form, known, grant, revoke, errors>>

\* A user of the list: its new roles are granted, then the others revoked.
NextUser(r) ==
  /\ step[r] = "users" /\ Through(r)
  /\ \E u \in left[r] :
       LET remaining == seen[r][u] \ form[r][u] IN
       /\ left' = [left EXCEPT ![r] = @ \ {u}]
       /\ grant' = [grant EXCEPT ![r] = ToGrant(form[r], u, seen[r][u])]
       /\ revoke' = [revoke EXCEPT ![r] =
            IF IsRemovingSelfAdminRole(r, u, remaining) THEN {}
            ELSE ToRevoke(form[r], u, seen[r][u])]
  /\ UNCHANGED <<object, exists, assigned, step, form, seen, known, errors,
                 before, company>>

\* The users of the form that had no role yet.
NewUsers(r) ==
  /\ step[r] = "users" /\ Through(r) /\ left[r] = {}
  /\ grant' = [grant EXCEPT ![r] =
       GrantsOf(form[r], {u \in Users : seen[r][u] = {}})]
  /\ Goto(r, "newusers")
  /\ UNCHANGED <<object, exists, assigned, form, seen, left, known, revoke,
                 errors, before, company>>

\* group_list: every group of the domain is asked for its roles in turn.
ReadGroups(r) ==
  /\ step[r] = "newusers" /\ Through(r)
  /\ left' = [left EXCEPT ![r] = Groups]
  /\ known' = [known EXCEPT ![r] = {}]
  /\ Goto(r, "listing")
  /\ UNCHANGED <<object, exists, assigned, form, seen, grant, revoke, errors,
                 before, company>>

ListGroup(r) ==
  /\ step[r] = "listing"
  /\ \E g \in left[r] :
       /\ left' = [left EXCEPT ![r] = @ \ {g}]
       /\ known' = [known EXCEPT ![r] = @ \cup ListedGroups(g)]
  /\ UNCHANGED <<object, exists, assigned, step, form, seen, grant, revoke,
                 errors, before, company>>

UpdateGroups(r) ==
  /\ step[r] = "listing" /\ left[r] = {}
  /\ left' = [left EXCEPT ![r] = known[r]]
  /\ Goto(r, "groups")
  /\ UNCHANGED <<object, exists, assigned, form, seen, known, grant, revoke,
                 errors, before, company>>

\* A listed group: its roles are read again, in the loop.
NextGroup(r) ==
  /\ step[r] = "groups" /\ Through(r)
  /\ \E g \in left[r] :
       /\ left' = [left EXCEPT ![r] = @ \ {g}]
       /\ grant' = [grant EXCEPT ![r] = ToGrant(form[r], g, assigned[g])]
       /\ revoke' = [revoke EXCEPT ![r] = ToRevoke(form[r], g, assigned[g])]
  /\ UNCHANGED <<object, exists, assigned, step, form, seen, known, errors,
                 before, company>>

NewGroups(r) ==
  /\ step[r] = "groups" /\ Through(r) /\ left[r] = {}
  /\ grant' = [grant EXCEPT ![r] = GrantsOf(form[r], UnknownGroups(r))]
  /\ Goto(r, "newgroups")
  /\ UNCHANGED <<object, exists, assigned, form, seen, left, known, revoke,
                 errors, before, company>>

\* The quotas of a project are set last; a domain has none.
UpdateQuota(r) ==
  /\ step[r] = "newgroups" /\ Through(r)
  /\ Goto(r, IF object = "project" THEN "quota" ELSE "done")
  /\ UNCHANGED <<object, exists, assigned, form, seen, left, known, grant,
                 revoke, errors, before, company>>

Finish(r) ==
  /\ step[r] = "quota"
  /\ Goto(r, "done")
  /\ UNCHANGED <<object, exists, assigned, form, seen, left, known, grant,
                 revoke, errors, before, company>>

\* One of the reads, or the update of the quotas, fails.
ReadFails(r) ==
  /\ \/ step[r] \in {"read", "listing", "quota"}
     \/ step[r] = "newusers" /\ Through(r)
     \/ step[r] = "groups" /\ Through(r) /\ left[r] # {}
  /\ Abort(r)
  /\ UNCHANGED <<object, exists, assigned, form, seen, known, before, company>>

-----------------------------------------------------------------------------
(* CreateProject.handle.                                                   *)

\* tenant_create: the project is there and its members are next; or the call
\* fails, with or without effect, or finds the name in use.
CreateProject(r) ==
  /\ step[r] = "idle" /\ object = "project"
  /\ \E f \in Forms : form' = [form EXCEPT ![r] = f]
  /\ \/ /\ ~exists /\ exists' = TRUE
        /\ Goto(r, "cusers")
        /\ grant' = [grant EXCEPT ![r] = GrantsOf(form'[r], Users)]
        /\ before' = [before EXCEPT ![r] = assigned]
        /\ company' = [company EXCEPT ![r] = "none"]
        /\ UNCHANGED errors
     \/ /\ exists' \in {exists, TRUE}
        /\ Goto(r, "failed")
        /\ errors' = [errors EXCEPT ![r] = TRUE]
        /\ UNCHANGED <<grant, before, company>>
  /\ UNCHANGED <<object, assigned, seen, left, known, revoke>>

CreateGroups(r) ==
  /\ step[r] = "cusers" /\ Through(r)
  /\ grant' = [grant EXCEPT ![r] = GrantsOf(form[r], Groups)]
  /\ Goto(r, "cgroups")
  /\ UNCHANGED <<object, exists, assigned, form, seen, left, known, revoke,
                 errors, before, company>>

CreateQuota(r) ==
  /\ step[r] = "cgroups" /\ Through(r)
  /\ Goto(r, "cquota")
  /\ UNCHANGED <<object, exists, assigned, form, seen, left, known, grant,
                 revoke, errors, before, company>>

\* The creation reports success, whatever became of its parts, a 401 aside.
FinishCreate(r) ==
  /\ step[r] = "cquota"
  /\ \/ /\ errors' \in {errors, [errors EXCEPT ![r] = TRUE]}
        /\ Goto(r, "done")
     \/ /\ errors' = [errors EXCEPT ![r] = TRUE]
        /\ Goto(r, "failed")
  /\ UNCHANGED <<object, exists, assigned, form, seen, left, known, grant,
                 revoke, before, company>>

Update(r) ==
  \/ Submit(r) \/ ReadUsers(r) \/ NextUser(r) \/ NewUsers(r)
  \/ ReadGroups(r) \/ ListGroup(r) \/ UpdateGroups(r) \/ NextGroup(r)
  \/ NewGroups(r) \/ UpdateQuota(r) \/ Finish(r) \/ ReadFails(r)

Creation(r) ==
  CreateProject(r) \/ CreateGroups(r) \/ CreateQuota(r) \/ FinishCreate(r)

Next == \E r \in Requests :
  Grant(r) \/ Revoke(r) \/ CallFails(r) \/ Update(r) \/ Creation(r)

Spec == Init /\ [][Next]_vars

-----------------------------------------------------------------------------
(* Properties.                                                             *)

\* Nobody with another form has changed anything since r read the users.
Unrivalled(r) == company[r] \in {"none", "twin"}

\* The editor's own entry, when it would lose its administrator's roles.
Spared(r, p) ==
  p \in Users /\ IsRemovingSelfAdminRole(r, p, before[r][p] \ form[r][p])

(***************************************************************************)
(* What success means: a request that ends without an error, while nobody  *)
(* submitted another form, leaves every user and group of the domain with  *)
(* the roles of the form; the editor's own entry with at least those when  *)
(* revoking was spared it.  It holds too when the same form was posted     *)
(* twice and the two requests interfere.                                   *)
(***************************************************************************)
TakesEffect ==
  \A r \in Requests :
    step[r] = "done" /\ ~errors[r] /\ Unrivalled(r) =>
      \A p \in Editable :
        /\ form[r][p] \subseteq assigned[p]
        /\ Spared(r, p) \/ assigned[p] \subseteq form[r][p]

(***************************************************************************)
(* What a request may do by the time it fails: at any point of a request,  *)
(* a failed one included, a role that was assigned and is asked for is     *)
(* still assigned, one that was neither is not, and nothing has changed    *)
(* for the users of other domains, whom the form does not show.            *)
(***************************************************************************)
Between(r) ==
  /\ \A p \in Editable :
       /\ before[r][p] \cap form[r][p] \subseteq assigned[p]
       /\ assigned[p] \subseteq before[r][p] \cup form[r][p]
  /\ \A p \in Outsiders : assigned[p] = before[r][p]

StaysBetween == \A r \in Requests : Unrivalled(r) => Between(r)

(***************************************************************************)
(* New roles are granted before old ones are revoked: a principal that had *)
(* a role before and is to have one after is at no time without any, so    *)
(* that nobody's session loses the project because their role is changed.  *)
(***************************************************************************)
KeepsMembers ==
  \A r \in Requests :
    company[r] = "none" =>
      \A p \in Editable :
        before[r][p] # {} /\ form[r][p] # {} => assigned[p] # {}

(***************************************************************************)
(* An editor never takes an administrator's role from their own account    *)
(* on the project they are logged into, or on a domain, however stale the  *)
(* list of roles their request works from and whoever else is at work.     *)
(***************************************************************************)
KeepsOwnAdmin ==
  [][ \A r \in Requests :
        (grant'[r] # grant[r] \/ revoke'[r] # revoke[r])
          /\ (object = "domain" \/ r \in Here)
        => AdminRoles \cap assigned[UserOf[r]] \subseteq assigned'[UserOf[r]]
    ]_vars

-----------------------------------------------------------------------------
(* What all of this rests on, step by step.                                *)

GrantsTo(r, p) == {x \in Roles : <<p, x>> \in grant[r]}
RevokesFrom(r, p) == {x \in Roles : <<p, x>> \in revoke[r]}

\* Calls are pending only inside the loops, and ask for what the form asks.
CallsOK(r) ==
  /\ step[r] \in {"idle", "read", "listing", "quota", "cquota", "done",
                  "failed"} => Through(r)
  /\ \A pr \in grant[r] : pr[2] \in form[r][pr[1]]
  /\ \A pr \in revoke[r] : pr[2] \notin form[r][pr[1]]

\* No pending call takes the editor's own administrator's role.
OwnAdminOK(r) ==
  object = "domain" \/ r \in Here =>
    \A pr \in revoke[r] : pr[1] = UserOf[r] => pr[2] \notin AdminRoles

\* What a request knows is what there was when it read the users.
ReadOK(r) ==
  /\ step[r] \in {"idle", "read"} => company[r] = "unread"
  /\ step[r] = "users" =>
       left[r] \subseteq Users /\ \A u \in Users : seen[r][u] = before[r][u]
  /\ step[r] \in {"listing", "groups"} => left[r] \subseteq Groups
  /\ ~exists => step[r] \in {"idle", "failed"} /\ assigned = Nobody
  /\ step[r] \in Creating => before[r] = Nobody

\* As long as nobody else is at work: a principal about to lose a role has the
\* roles it is to have, or is given them first; and each has all it had, or all
\* it is to have.
OrderOK(r) ==
  company[r] = "none" =>
    /\ \A pr \in revoke[r] :
         form[r][pr[1]] \subseteq assigned[pr[1]] \cup GrantsTo(r, pr[1])
    /\ \A p \in Editable : \/ before[r][p] \subseteq assigned[p]
                           \/ form[r][p] \subseteq assigned[p]

\* The principals a request has dealt with, up to its pending calls.
Come(r) ==
  CASE step[r] = "users" -> {u \in Users : seen[r][u] # {} /\ u \notin left[r]}
    [] step[r] \in {"newusers", "listing", "cusers"} -> Users
    [] step[r] = "groups" -> Users \cup (known[r] \ left[r])
    [] step[r] \in {"newgroups", "quota", "cgroups", "cquota", "done"} -> Editable
    [] OTHER -> {}

Settled(r, p) ==
  /\ form[r][p] \subseteq assigned[p] \cup GrantsTo(r, p)
  /\ Spared(r, p) \/ assigned[p] \subseteq form[r][p] \cup RevokesFrom(r, p)

\* Those are as the form wants them, and a group found without a role has got
\* none since that the form does not ask for.
ProgressOK(r) ==
  Unrivalled(r) =>
    /\ ~errors[r] => \A p \in Come(r) : Settled(r, p)
    /\ step[r] \in {"listing", "groups"} =>
         \A g \in UnknownGroups(r) :
           step[r] = "groups" \/ g \notin left[r] => assigned[g] \subseteq form[r][g]

(***************************************************************************)
(* The inductive invariant of the role forms: the calls a request has      *)
(* before it agree with its form, with what it read, and with the order in *)
(* which handle() makes them.                                              *)
(***************************************************************************)
RoleInv ==
  /\ TypeOK
  /\ StaysBetween
  /\ \A r \in Requests :
       CallsOK(r) /\ OwnAdminOK(r) /\ ReadOK(r) /\ OrderOK(r) /\ ProgressOK(r)
=============================================================================
