------------------------------ MODULE BigIqTask ------------------------------
(***************************************************************************)
(* A license is assigned by a task of the BIG-IQ.  BigIqManager.assign     *)
(* starts it, asks for its status in checkAndWait until it has FINISHED or *)
(* the tries are used up, and asks once more for the license.  All jobs    *)
(* share one token; a job takes it before it starts its task and keeps it  *)
(* to the end, while it grows old.  (revoke does the same without the last *)
(* question.)                                                              *)
(***************************************************************************)
EXTENDS Integers

CONSTANTS
  Jobs,        \* ADCs being licensed
  Tries,       \* polls of checkAndWait, 30 in the code
  MaxTokens    \* bound: logins

Tokens == 1 .. MaxTokens

VARIABLES
  age,         \* age[k]: "young", "old" within 30 s of its expiry, "expired"
  token,       \* BigIqManager.token, 0 before the first login
  step,        \* how far a job is in assign
  held,        \* the token of the job
  task,        \* the BIG-IQ: the status of the job's task
  tries,       \* polls left
  told         \* what the job's last question was answered

vars == <<age, token, step, held, task, tries, told>>

Age == {"none", "young", "old", "expired"}
Status == {"none", "STARTED", "FINISHED", "FAILED"}

TypeOK ==
  /\ age \in [Tokens -> Age]
  /\ token \in 0 .. MaxTokens
  /\ step \in [Jobs -> {"login", "assign", "poll", "license", "done", "failed"}]
  /\ held \in [Jobs -> 0 .. MaxTokens]
  /\ task \in [Jobs -> Status]
  /\ tries \in [Jobs -> 0 .. Tries]
  /\ told \in [Jobs -> Status \cup {"error"}]

Init ==
  /\ age = [k \in Tokens |-> "none"]
  /\ token = 0
  /\ step = [j \in Jobs |-> "login"]
  /\ held = [j \in Jobs |-> 0]
  /\ task = [j \in Jobs |-> "none"]
  /\ tries = [j \in Jobs |-> Tries]
  /\ told = [j \in Jobs |-> "none"]

-----------------------------------------------------------------------------
Goto(j, s) == step' = [step EXCEPT ![j] = s]

\* No token, or one that expires within 30 s.
MustLogin == token \notin {k \in Tokens : age[k] = "young"}

Login(j) ==
  /\ step[j] = "login"
  /\ \/ /\ ~MustLogin
        /\ held' = [held EXCEPT ![j] = token]
        /\ Goto(j, "assign") /\ UNCHANGED <<age, token>>
     \/ /\ MustLogin
        /\ \E k \in Tokens :
             /\ age[k] = "none" /\ \A i \in 1 .. k - 1 : age[i] # "none"
             /\ age' = [age EXCEPT ![k] = "young"]
             /\ token' = k
             /\ held' = [held EXCEPT ![j] = k]
        /\ Goto(j, "assign")
     \/ MustLogin /\ Goto(j, "failed") /\ UNCHANGED <<age, token, held>>
  /\ UNCHANGED <<task, tries, told>>

\* The BIG-IQ takes a call with a token that has not expired.
Takes(j) == age[held[j]] # "expired"

\* assign: the task is started; or the call fails, with or without effect.
Assign(j) ==
  /\ step[j] = "assign"
  /\ \/ Takes(j) /\ task' = [task EXCEPT ![j] = "STARTED"] /\ Goto(j, "poll")
     \/ /\ \/ Takes(j) /\ task' = [task EXCEPT ![j] = "STARTED"]
           \/ UNCHANGED task
        /\ Goto(j, "failed")
  /\ UNCHANGED <<age, token, held, tries, told>>

\* query: the status of the task, or an error.
Hears(j, s) == (s = task[j] /\ Takes(j)) \/ s = "error"

QuitsAtEnd(s) == s \in {"FINISHED", "FAILED"}           \* a mutant

\* taskFinished, as checkAndWait takes it: true ends the wait; false, and a
\* reason that is an Error, count a try.  FAILED falls through to false.
Quits(s) == s = "FINISHED"

\* A mutant: one poll too many.
PollOnceMore(j) ==
  /\ step[j] = "poll"
  /\ \E s \in Status \cup {"error"} :
       /\ Hears(j, s)
       /\ told' = [told EXCEPT ![j] = s]
       /\ IF Quits(s) THEN Goto(j, "license") /\ UNCHANGED tries
          ELSE tries' = [tries EXCEPT ![j] = @ - 1] /\ UNCHANGED step
  /\ UNCHANGED <<age, token, held, task>>

Poll(j) ==
  /\ step[j] = "poll" /\ tries[j] > 0
  /\ \E s \in Status \cup {"error"} :
       /\ Hears(j, s)
       /\ told' = [told EXCEPT ![j] = s]
       /\ IF Quits(s) THEN Goto(j, "license") /\ UNCHANGED tries
          ELSE tries' = [tries EXCEPT ![j] = @ - 1] /\ UNCHANGED step
  /\ UNCHANGED <<age, token, held, task>>

Timeout(j) ==
  /\ step[j] = "poll" /\ tries[j] = 0
  /\ Goto(j, "failed")
  /\ UNCHANGED <<age, token, held, task, tries, told>>

\* The license is read from the finished task.
ReadLicense(j) ==
  /\ step[j] = "license"
  /\ \E s \in Status \cup {"error"} :
       /\ Hears(j, s)
       /\ told' = [told EXCEPT ![j] = s]
       /\ Goto(j, IF s = "error" THEN "failed" ELSE "done")
  /\ UNCHANGED <<age, token, held, task, tries>>

\* The BIG-IQ works, and time passes.
Works ==
  /\ \E j \in Jobs, s \in {"FINISHED", "FAILED"} :
       task[j] = "STARTED" /\ task' = [task EXCEPT ![j] = s]
  /\ UNCHANGED <<age, token, step, held, tries, told>>

Tick ==
  /\ \E k \in Tokens :
       \/ age[k] = "young" /\ age' = [age EXCEPT ![k] = "old"]
       \/ age[k] = "old" /\ age' = [age EXCEPT ![k] = "expired"]
  /\ UNCHANGED <<token, step, held, task, tries, told>>

Job(j) == Login(j) \/ Assign(j) \/ Poll(j) \/ Timeout(j) \/ ReadLicense(j)
Next == (\E j \in Jobs : Job(j)) \/ Works \/ Tick
Spec == Init /\ [][Next]_vars

-----------------------------------------------------------------------------
(***************************************************************************)
(* The outcome of a job follows its task: a license is handed out only     *)
(* when the task has FINISHED, never for one that FAILED while it was      *)
(* polled; and a job that fails, although the BIG-IQ has assigned its      *)
(* license, has not heard so: its last question was asked too early, or    *)
(* went unanswered, perhaps since its token had expired.                   *)
(***************************************************************************)
OutcomeFollowsTask ==
  \A j \in Jobs :
    /\ step[j] = "done" => task[j] = "FINISHED"
    /\ step[j] = "failed" => told[j] # "FINISHED"
=============================================================================
