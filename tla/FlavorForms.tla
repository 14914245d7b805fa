---------------------------- MODULE FlavorForms ----------------------------
(***************************************************************************)
(* The workflows of the Admin dashboard that create and edit a flavor and  *)
(* choose the projects that may use it.  Nova cannot change a flavor:      *)
(* editing deletes it and creates another of the same name, then copies    *)
(* the extra specs and grants the projects access, in calls of their own.  *)
(* When only the choice of projects changed the access list is edited.     *)
(* The module follows the flavor of one name.                              *)
(***************************************************************************)
EXTENDS Naturals, FiniteSets

CONSTANTS
  Projects,
  Infos,       \* name, memory, vcpus, disks, swap: what is_changed compares
  Requests,    \* POSTs of the form
  MaxId,       \* bound: flavors there ever are
  None         \* no flavor

Flavor == [info: Infos, public: BOOLEAN, access: SUBSET Projects,
           extras: BOOLEAN]
FlavorIds == 1 .. MaxId

VARIABLES
  flavors,     \* Nova: the flavors by id, None where there is none
  used,        \* how many ids have been given out
  step,        \* how far handle() is, per request
  target,      \* the flavor_id of the form, then of the flavor created
  info, access,\* what the form says
  extras,      \* extras_dict: are there extra specs to copy?
  drop, add,   \* the projects to be removed from and added to the access list
  errors,      \* has the request put an error message on the page?
  alone,       \* history: nobody else has changed the flavor since it was read
  open         \* history: was the flavor public whose projects alone change?

vars == <<flavors, used, step, target, info, access, extras, drop, add,
          errors, alone, open>>

Step == {"idle", "get", "list", "modify", "extras", "delete", "create",
         "setextras", "setup", "new", "done", "failed"}

TypeOK ==
  /\ flavors \in [FlavorIds -> Flavor \cup {None}]
  /\ used \in 0 .. MaxId
  /\ step \in [Requests -> Step]
  /\ target \in [Requests -> FlavorIds]
  /\ info \in [Requests -> Infos]
  /\ access \in [Requests -> SUBSET Projects]
  /\ extras \in [Requests -> BOOLEAN]
  /\ drop \in [Requests -> SUBSET Projects]
  /\ add \in [Requests -> SUBSET Projects]
  /\ errors \in [Requests -> BOOLEAN]
  /\ alone \in [Requests -> BOOLEAN]
  /\ open \in [Requests -> BOOLEAN]

Init ==
  /\ \E f \in Flavor \cup {None} :
       flavors = [i \in FlavorIds |-> IF i = 1 THEN f ELSE None]
  /\ used = 1
  /\ step = [r \in Requests |-> "idle"]
  /\ target = [r \in Requests |-> 1]
  /\ info \in [Requests -> Infos]
  /\ access \in [Requests -> SUBSET Projects]
  /\ extras = [r \in Requests |-> FALSE]
  /\ drop = [r \in Requests |-> {}]
  /\ add = [r \in Requests |-> {}]
  /\ errors = [r \in Requests |-> FALSE]
  /\ alone = [r \in Requests |-> TRUE]
  /\ open = [r \in Requests |-> FALSE]

-----------------------------------------------------------------------------
Live == {i \in FlavorIds : flavors[i] # None}
Goto(r, s) == step' = [step EXCEPT ![r] = s]
Mine(r) == flavors[target[r]]

\* Nova holds `f' under the id i after a call of r.
Put(r, i, f) ==
  /\ flavors' = [flavors EXCEPT ![i] = f]
  /\ alone' = [q \in Requests |-> alone[q] /\ (q = r \/ step[q] = "idle")]

Untouched == UNCHANGED <<flavors, used, alone>>

\* A mutant: the failure is not reported.
FailsSilently(r) == Goto(r, "failed") /\ UNCHANGED errors

\* exceptions.handle(request, ignore=True); return False
Fails(r) ==
  /\ Goto(r, "failed")
  /\ errors' = [errors EXCEPT ![r] = TRUE]

\* exceptions.handle with a message, and handle() still returns True.
EndsWithError(r) ==
  /\ Goto(r, "done")
  /\ errors' = [errors EXCEPT ![r] = TRUE]

\* Nova takes a project into a list it is not on, and lets it go from one it
\* is on.  A flavor that is public has a list too, which nobody consults:
\* version 2 of the API without a microversion, which the portal asks for,
\* does not refuse to add to it (only 2.7 and later do).
CanAdd(r, p) == Mine(r) # None /\ p \notin Mine(r).access
CanDrop(r, p) == Mine(r) # None /\ p \in Mine(r).access

Added(r, p) == Put(r, target[r], [Mine(r) EXCEPT !.access = @ \cup {p}])
Dropped(r, p) == Put(r, target[r], [Mine(r) EXCEPT !.access = @ \ {p}])

\* flavor_create: the name must be free; a new id, public when the form
\* selects no project.
Created(r) ==
  LET i == used + 1 IN
  /\ Live = {} /\ used < MaxId
  /\ used' = i
  /\ Put(r, i, [info |-> info[r], public |-> access[r] = {}, access |-> {},
                extras |-> FALSE])

-----------------------------------------------------------------------------
(* UpdateFlavor.handle.                                                    *)

\* The form was filled in for the flavor there was; it is gone, or it is read.
Get(r) ==
  /\ step[r] = "idle"
  /\ \E i \in 1 .. used :
       /\ target' = [target EXCEPT ![r] = i]
       /\ \/ Fails(r) /\ UNCHANGED <<add, open>>
          \/ /\ flavors[i] # None
             /\ Goto(r, IF info[r] # flavors[i].info THEN "extras"
                        ELSE IF flavors[i].public THEN "modify" ELSE "list")
             /\ add' = [add EXCEPT ![r] = access[r]]
             /\ open' = [open EXCEPT ![r] =
                  info[r] = flavors[i].info /\ flavors[i].public]
             /\ UNCHANGED errors
  /\ alone' = [alone EXCEPT ![r] = TRUE]
  /\ UNCHANGED <<flavors, used, info, access, extras, drop>>

\* flavor_access_list, of a flavor that is not public.
ListAccess(r) ==
  /\ step[r] = "list" /\ Mine(r) # None
  /\ drop' = [drop EXCEPT ![r] = Mine(r).access \ access[r]]
  /\ add' = [add EXCEPT ![r] = access[r] \ Mine(r).access]
  /\ Goto(r, "modify")
  /\ Untouched /\ UNCHANGED <<target, info, access, open, extras, errors>>

\* modify_access: first the removals, then the additions.
Remove(r) ==
  /\ step[r] = "modify"
  /\ \E p \in drop[r] :
       /\ CanDrop(r, p) /\ Dropped(r, p)
       /\ drop' = [drop EXCEPT ![r] = @ \ {p}]
  /\ UNCHANGED <<used, step, target, info, access, open, extras, add, errors>>

Add(r) ==
  /\ step[r] \in {"modify", "setup", "new"} /\ drop[r] = {}
  /\ \E p \in add[r] :
       /\ CanAdd(r, p) /\ Added(r, p)
       /\ add' = [add EXCEPT ![r] = @ \ {p}]
  /\ UNCHANGED <<used, step, target, info, access, open, extras, drop, errors>>

\* A call on the access list fails, with or without effect, or is refused.
\* Editing stops there; creating tries the other projects, unless it is a 401,
\* which exceptions.handle raises again.
AccessFails(r) ==
  /\ step[r] \in {"list", "modify", "setup", "new"}
  /\ \/ step[r] = "list" /\ Untouched /\ UNCHANGED add
     \/ /\ \E p \in drop[r] :
             (CanDrop(r, p) /\ Dropped(r, p)) \/ UNCHANGED <<flavors, alone>>
        /\ UNCHANGED <<used, add>>
     \/ /\ drop[r] = {}
        /\ \E p \in add[r] :
             /\ (CanAdd(r, p) /\ Added(r, p)) \/ UNCHANGED <<flavors, alone>>
             /\ add' = [add EXCEPT ![r] = @ \ {p}]
        /\ UNCHANGED used
  /\ IF step[r] = "new"
     THEN errors' = [errors EXCEPT ![r] = TRUE] /\ (UNCHANGED step \/ Goto(r, "failed"))
     ELSE EndsWithError(r)
  /\ UNCHANGED <<target, info, access, open, extras, drop>>

\* flavor_get_extras
GetExtras(r) ==
  /\ step[r] = "extras" /\ Mine(r) # None
  /\ extras' = [extras EXCEPT ![r] = Mine(r).extras]
  /\ Goto(r, "delete")
  /\ Untouched /\ UNCHANGED <<target, info, access, open, drop, add, errors>>

Delete(r) ==
  /\ step[r] = "delete" /\ Mine(r) # None
  /\ Put(r, target[r], None)
  /\ Goto(r, "create")
  /\ UNCHANGED <<used, target, info, access, open, extras, drop, add, errors>>

\* A mutant: the extra specs of the old flavor are not copied.
RecreatePlain(r) ==
  /\ step[r] = "create"
  /\ Created(r)
  /\ target' = [target EXCEPT ![r] = used']
  /\ Goto(r, "setup")
  /\ UNCHANGED <<info, access, open, extras, drop, add, errors>>

Recreate(r) ==
  /\ step[r] = "create"
  /\ Created(r)
  /\ target' = [target EXCEPT ![r] = used']
  /\ Goto(r, IF extras[r] THEN "setextras" ELSE "setup")
  /\ UNCHANGED <<info, access, open, extras, drop, add, errors>>

SetExtras(r) ==
  /\ step[r] = "setextras" /\ Mine(r) # None
  /\ Put(r, target[r], [Mine(r) EXCEPT !.extras = TRUE])
  /\ Goto(r, "setup")
  /\ UNCHANGED <<used, target, info, access, open, extras, drop, add, errors>>

\* One of those calls fails, before or after it had its effect.
ChangeFails(r) ==
  /\ \/ step[r] \in {"extras", "delete", "create", "setextras"} /\ Untouched
     \/ /\ step[r] = "delete" /\ Mine(r) # None
        /\ Put(r, target[r], None) /\ UNCHANGED used
     \/ step[r] = "create" /\ Created(r)
  /\ Fails(r)
  /\ UNCHANGED <<target, info, access, open, extras, drop, add>>

\* Every project has been dealt with.
Finish(r) ==
  /\ step[r] \in {"modify", "setup", "new"}
  /\ drop[r] = {} /\ add[r] = {}
  /\ Goto(r, "done")
  /\ Untouched
  /\ UNCHANGED <<target, info, access, open, extras, drop, add, errors>>

-----------------------------------------------------------------------------
(* CreateFlavor.handle.                                                    *)

Create(r) ==
  /\ step[r] = "idle"
  /\ \/ /\ Created(r)
        /\ target' = [target EXCEPT ![r] = used']
        /\ add' = [add EXCEPT ![r] = access[r]]
        /\ Goto(r, "new")
        /\ UNCHANGED errors
     \/ /\ Created(r) \/ Untouched
        /\ Fails(r)
        /\ UNCHANGED <<target, add>>
  /\ UNCHANGED <<info, access, open, extras, drop>>

Update(r) ==
  \/ Get(r) \/ ListAccess(r) \/ Remove(r) \/ Add(r) \/ AccessFails(r)
  \/ GetExtras(r) \/ Delete(r) \/ Recreate(r) \/ SetExtras(r)
  \/ ChangeFails(r) \/ Finish(r)

Next == \E r \in Requests : Update(r) \/ Create(r)
Spec == Init /\ [][Next]_vars

-----------------------------------------------------------------------------
(* Properties.                                                             *)

Succeeded(r) == step[r] = "done" /\ ~errors[r]

(***************************************************************************)
(* A request that ends without an error message, while nobody else changed *)
(* the flavor, leaves one flavor of that name: with the form's data, with  *)
(* the extra specs the old one had, and open to exactly the projects the   *)
(* form selects.  One kind of edit is excepted, because modify_access does *)
(* not close a flavor: a public one of which only the choice of projects   *)
(* is changed has them all on its list then, but stays open to everyone.   *)
(***************************************************************************)
EditTakesEffect ==
  \A r \in Requests : Succeeded(r) /\ alone[r] =>
    /\ Live = {target[r]}
    /\ Mine(r).info = info[r]
    /\ extras[r] => Mine(r).extras
    /\ access[r] \subseteq Mine(r).access
    /\ IF Mine(r).public THEN access[r] = {} \/ open[r]
       ELSE ~open[r] /\ Mine(r).access \subseteq access[r]

(***************************************************************************)
(* A flavor is never lost without a word: when it has been deleted and no  *)
(* other has taken its place, a request is still about to create it, or    *)
(* has told its administrator that something failed.  Two administrators   *)
(* editing the flavor at once do not lose it either.                       *)
(***************************************************************************)
NotLostSilently ==
  Live = {} /\ (\E r \in Requests : step[r] \notin {"idle", "failed"}) =>
    \E r \in Requests : step[r] = "create" \/ errors[r]

(***************************************************************************)
(* The form says that a flavor is open to all projects when none is        *)
(* selected.                                                               *)
(***************************************************************************)
NoneSelectedIsPublic ==
  \A r \in Requests : Succeeded(r) /\ alone[r] /\ access[r] = {} =>
    Mine(r).public
=============================================================================
