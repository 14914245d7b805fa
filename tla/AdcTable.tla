------------------------------ MODULE AdcTable ------------------------------
(***************************************************************************)
(* The portal's table of ADCs and its batch actions.  The POST names the   *)
(* rows that were ticked on a page of some time ago; the view first loads  *)
(* the table again, for the project the user works in now, and then acts   *)
(* on one row after another, each with a call of its own to the manager.   *)
(* Another tab may switch the project or post as well; the manager carries *)
(* on with the ADCs meanwhile.                                             *)
(***************************************************************************)
EXTENDS Naturals, FiniteSets

CONSTANTS
  Ids,         \* the ADCs there ever are
  Projects,
  Posts,       \* POSTs of the table
  None         \* no project

Status == {"absent", "BUSY", "ACTIVE", "ERROR", "gone"}
Kind == {"delete", "soft_reboot"}

VARIABLES
  adcs,        \* the manager: the status of every ADC
  owner,       \* the manager: the project an ADC belongs to
  project,     \* the session: the project the user works in
  step,        \* where a POST is
  kind,        \* the action it asks for
  chosen,      \* object_ids
  mine,        \* request.user's project, read when the POST arrives
  data,        \* table.data: the status of the chosen rows, as it was loaded
  todo,        \* the rows the loop has not come to
  ok, bad, denied, \* action_success, action_failure, action_not_allowed
  accepted     \* history: the deletions the manager took from the POST

vars == <<adcs, owner, project, step, kind, chosen, mine, data, todo, ok, bad,
          denied, accepted>>

TypeOK ==
  /\ adcs \in [Ids -> Status]
  /\ owner \in [Ids -> Projects \cup {None}]
  /\ project \in Projects
  /\ step \in [Posts -> {"idle", "load", "loop", "done", "aborted"}]
  /\ kind \in [Posts -> Kind]
  /\ mine \in [Posts -> Projects \cup {None}]
  /\ data \in [Posts -> [Ids -> Status]]
  /\ \A s \in {chosen, todo, ok, bad, denied, accepted} :
       s \in [Posts -> SUBSET Ids]

Init ==
  /\ adcs = [i \in Ids |-> "absent"]
  /\ owner = [i \in Ids |-> None]
  /\ project \in Projects
  /\ step = [q \in Posts |-> "idle"]
  /\ kind = [q \in Posts |-> "delete"]
  /\ chosen = [q \in Posts |-> {}]
  /\ mine = [q \in Posts |-> None]
  /\ data = [q \in Posts |-> [i \in Ids |-> "absent"]]
  /\ todo = [q \in Posts |-> {}]
  /\ ok = [q \in Posts |-> {}]
  /\ bad = [q \in Posts |-> {}]
  /\ denied = [q \in Posts |-> {}]
  /\ accepted = [q \in Posts |-> {}]

-----------------------------------------------------------------------------
Nothing == [i \in Ids |-> "absent"]

\* What adc_list answers to project p, its rows and no others, about those in S.
Listed(p, S) ==
  [i \in Ids |-> IF i \in S /\ owner[i] = p /\ adcs[i] # "gone" THEN adcs[i]
                 ELSE "absent"]

\* allowed() on the row as it was loaded.  (Start and stop are never allowed:
\* no ADC has a server's state, nor a power state, and where reading it raises
\* _filter_action says no.)
Allowed(k, status) ==
  k = "delete" \/ (k = "soft_reboot" /\ status = "ACTIVE")

Goto(q, s) == step' = [step EXCEPT ![q] = s]
Into(list, q, i) == [list EXCEPT ![q] = @ \cup {i}]

\* The manager takes the deletion of an ADC of the project, unless it is at
\* work on it.
Deletes(q, i) ==
  /\ owner[i] = mine[q] /\ adcs[i] \in {"ACTIVE", "ERROR"}
  /\ adcs' = [adcs EXCEPT ![i] = "BUSY"]
  /\ accepted' = Into(accepted, q, i)

\* A mutant: adc_delete does not look at the status of the answer.
SucceedsAnyway(q, i) ==
  /\ kind[q] = "delete"
  /\ Deletes(q, i) \/ UNCHANGED <<adcs, accepted>>
  /\ ok' = Into(ok, q, i) /\ UNCHANGED bad

\* adc_delete: 204, anything else raises; so does an answer that is lost.
Succeeds(q, i) ==
  /\ kind[q] = "delete" /\ Deletes(q, i)
  /\ ok' = Into(ok, q, i) /\ UNCHANGED bad

\* A mutant: the row is ignored.
FailsIgnored(q, i) ==
  /\ \/ kind[q] = "delete" /\ Deletes(q, i)
     \/ UNCHANGED <<adcs, accepted>>
  /\ UNCHANGED <<ok, bad>>

Fails(q, i) ==
  /\ \/ kind[q] = "delete" /\ Deletes(q, i)
     \/ UNCHANGED <<adcs, accepted>>
  /\ bad' = Into(bad, q, i) /\ UNCHANGED ok

-----------------------------------------------------------------------------
\* The rows were on a page of one project, of now or of some time ago.
Post(q) ==
  /\ step[q] = "idle"
  /\ \E p \in Projects, k \in Kind :
     \E S \in SUBSET {i \in Ids : owner[i] = p} :
       /\ S # {}
       /\ kind' = [kind EXCEPT ![q] = k]
       /\ chosen' = [chosen EXCEPT ![q] = S]
  /\ mine' = [mine EXCEPT ![q] = project]
  /\ Goto(q, "load")
  /\ UNCHANGED <<adcs, owner, project, data, todo, ok, bad, denied, accepted>>

\* get_data; a list that cannot be had is an empty one.
Load(q) ==
  /\ step[q] = "load"
  /\ \/ data' = [data EXCEPT ![q] = Listed(mine[q], chosen[q])]
     \/ UNCHANGED data
  /\ todo' = [todo EXCEPT ![q] = chosen[q]]
  /\ Goto(q, "loop")
  /\ UNCHANGED <<adcs, owner, project, kind, chosen, mine, ok, bad, denied,
                 accepted>>

\* The next row.  Soft reboot asks Nova for a server with the ADC's id.
Act(q) ==
  /\ step[q] = "loop"
  /\ \E i \in todo[q] :
       /\ data[q][i] # "absent"
       /\ todo' = [todo EXCEPT ![q] = @ \ {i}]
       /\ \/ /\ ~Allowed(kind[q], data[q][i])
             /\ denied' = Into(denied, q, i)
             /\ UNCHANGED <<adcs, ok, bad, accepted>>
          \/ /\ Allowed(kind[q], data[q][i])
             /\ Succeeds(q, i) \/ Fails(q, i)
             /\ UNCHANGED denied
  /\ UNCHANGED <<owner, project, step, kind, chosen, mine, data>>

\* get_object_by_id does not find the row: Http302 leaves the loop, and the
\* page is loaded again without a message about any row.
NoMatch(q) ==
  /\ step[q] = "loop"
  /\ \E i \in todo[q] : data[q][i] = "absent"
  /\ Goto(q, "aborted")
  /\ data' = [data EXCEPT ![q] = Nothing]
  /\ UNCHANGED <<adcs, owner, project, kind, chosen, mine, todo, ok, bad,
                 denied, accepted>>

\* The messages about the three lists.
Report(q) ==
  /\ step[q] = "loop" /\ todo[q] = {}
  /\ Goto(q, "done")
  /\ data' = [data EXCEPT ![q] = Nothing]
  /\ UNCHANGED <<adcs, owner, project, kind, chosen, mine, todo, ok, bad,
                 denied, accepted>>

-----------------------------------------------------------------------------
Posting == <<step, kind, chosen, mine, data, todo, ok, bad, denied, accepted>>

\* adc_create, for the project of the session.
Create ==
  /\ \E i \in Ids :
       /\ adcs[i] = "absent"
       /\ adcs' = [adcs EXCEPT ![i] = "BUSY"]
       /\ owner' = [owner EXCEPT ![i] = project]
  /\ UNCHANGED <<project, Posting>>

\* The manager comes to an end with an ADC.
Settle ==
  /\ \E i \in Ids, s \in {"ACTIVE", "ERROR", "gone"} :
       /\ adcs[i] = "BUSY"
       /\ adcs' = [adcs EXCEPT ![i] = s]
  /\ UNCHANGED <<owner, project, Posting>>

SwitchProject ==
  /\ project' \in Projects \ {project}
  /\ UNCHANGED <<adcs, owner, Posting>>

Handle(q) == Post(q) \/ Load(q) \/ Act(q) \/ NoMatch(q) \/ Report(q)
Next == (\E q \in Posts : Handle(q)) \/ Create \/ Settle \/ SwitchProject
Spec == Init /\ [][Next]_vars

-----------------------------------------------------------------------------
(***************************************************************************)
(* "Scheduled deletion of" is said of an ADC only when the manager has     *)
(* taken that deletion, from this request and for the project the user was *)
(* in when it arrived, whatever page the row was ticked on.                *)
(***************************************************************************)
SaidIsDone ==
  \A q \in Posts :
    /\ ok[q] \subseteq accepted[q]
    /\ \A i \in ok[q] : kind[q] = "delete" /\ owner[i] = mine[q]

(***************************************************************************)
(* A batch that runs to its end accounts for every row: each is in exactly *)
(* one of the three messages, and each deletion that was taken is among    *)
(* those that succeeded or, when its answer was lost, among those that     *)
(* failed.  Only when a row was not found, and the page is loaded again    *)
(* instead, may a deletion go unmentioned.                                 *)
(***************************************************************************)
EveryRowAccounted ==
  \A q \in Posts :
    /\ step[q] = "done" =>
         /\ ok[q] \cup bad[q] \cup denied[q] = chosen[q]
         /\ ok[q] \cap bad[q] = {} /\ (ok[q] \cup bad[q]) \cap denied[q] = {}
    /\ step[q] # "aborted" => accepted[q] \subseteq ok[q] \cup bad[q]
=============================================================================
