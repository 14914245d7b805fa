------------------------------ MODULE Memoized ------------------------------
(***************************************************************************)
(* The decorator that keeps the results of the portal's API calls.  The    *)
(* results lie in a dictionary, a lock for every key in another.  A key    *)
(* holds weak references to the arguments (most often the request): every  *)
(* call makes a key of its own, and when an argument dies the references   *)
(* of the keys the dictionaries hold call remove().  Keys are equal as     *)
(* long as their arguments live; after that a key equals only itself.      *)
(***************************************************************************)
EXTENDS Naturals, FiniteSets

CONSTANTS
  Threads,     \* what calls a decorated function: requests and pool threads
  Args,        \* the arguments there ever are
  MaxCalls,    \* bound: calls ever made
  None         \* no key, no lock, no value

Calls == 1 .. MaxCalls   \* a call, and the key it makes

VARIABLES
  live,        \* the arguments that live
  made,        \* how many calls have been made
  arg,         \* arg[c]: what call c was made with
  pc,          \* pc[t]: where a thread is
  call,        \* call[t]: the call it makes
  mutex,       \* mutex[t]: the lock it found under its key
  locks,       \* locks: the key in it for an argument; the lock has its name
  holder,      \* who holds a lock
  cache,       \* cache: the key in it for an argument
  value,       \* value[c]: what call c computed, or found in the cache
  kept,        \* the value in the cache, for an argument
  waited,      \* history: the arguments two threads worked on at a time
  raised,      \* history: the arguments a call with which has raised
  outside      \* history: the calls that got their value outside of the lock

vars == <<live, made, arg, pc, call, mutex, locks, holder, cache, value,
          kept, waited, raised, outside>>

Busy(t) == pc[t] # "idle"
Uses(t, a) == Busy(t) /\ arg[call[t]] = a

TypeOK ==
  /\ live \subseteq Args
  /\ made \in 0 .. MaxCalls
  /\ arg \in [Calls -> Args \cup {None}]
  /\ pc \in [Threads -> {"idle", "wait", "look", "func", "again"}]
  /\ call \in [Threads -> Calls \cup {None}]
  /\ mutex \in [Threads -> Calls \cup {None}]
  /\ locks \in [Args -> Calls \cup {None}]
  /\ holder \in [Calls -> Threads \cup {None}]
  /\ cache \in [Args -> Calls \cup {None}]
  /\ value \in [Calls -> Calls \cup {None}]
  /\ kept \in [Args -> Calls \cup {None}]
  /\ waited \subseteq Args /\ raised \subseteq Args /\ outside \subseteq Calls

Init ==
  /\ live = Args /\ made = 0
  /\ arg = [c \in Calls |-> None]
  /\ pc = [t \in Threads |-> "idle"]
  /\ call = [t \in Threads |-> None]
  /\ mutex = [t \in Threads |-> None]
  /\ locks = [a \in Args |-> None]
  /\ holder = [c \in Calls |-> None]
  /\ cache = [a \in Args |-> None]
  /\ value = [c \in Calls |-> None]
  /\ kept = [a \in Args |-> None]
  /\ waited = {} /\ raised = {} /\ outside = {}

-----------------------------------------------------------------------------
\* The key is made and `locks[key]' evaluated: a defaultdict makes the lock
\* of a key it does not have.
Enter(t) ==
  /\ pc[t] = "idle" /\ made < MaxCalls
  /\ \E a \in live :
       /\ made' = made + 1
       /\ arg' = [arg EXCEPT ![made'] = a]
       /\ call' = [call EXCEPT ![t] = made']
       /\ locks' = [locks EXCEPT ![a] = IF @ = None THEN made' ELSE @]
       /\ mutex' = [mutex EXCEPT ![t] = locks'[a]]
       /\ waited' = IF \E u \in Threads : Uses(u, a) THEN waited \cup {a}
                    ELSE waited
  /\ pc' = [pc EXCEPT ![t] = "wait"]
  /\ UNCHANGED <<live, holder, cache, value, kept, raised, outside>>

\* A mutant: the lock is not waited for.
AcquireHeld(t) ==
  /\ pc[t] = "wait"
  /\ holder' = [holder EXCEPT ![mutex[t]] = t]
  /\ pc' = [pc EXCEPT ![t] = "look"]
  /\ UNCHANGED <<live, made, arg, call, mutex, locks, cache, value, kept,
                 waited, raised, outside>>

Acquire(t) ==
  /\ pc[t] = "wait" /\ holder[mutex[t]] = None
  /\ holder' = [holder EXCEPT ![mutex[t]] = t]
  /\ pc' = [pc EXCEPT ![t] = "look"]
  /\ UNCHANGED <<live, made, arg, call, mutex, locks, cache, value, kept,
                 waited, raised, outside>>

\* The lock is released, and the thread returns or goes on.
Leave(t, next) ==
  /\ holder' = [holder EXCEPT ![mutex[t]] = None]
  /\ pc' = [pc EXCEPT ![t] = next]
  /\ mutex' = [mutex EXCEPT ![t] = None]

Hit(t) ==
  LET a == arg[call[t]] IN
  /\ pc[t] = "look" /\ cache[a] # None
  /\ value' = [value EXCEPT ![call[t]] = kept[a]]
  /\ Leave(t, "idle")
  /\ UNCHANGED <<live, made, arg, call, locks, cache, kept, waited, raised,
                 outside>>

Miss(t) ==
  /\ pc[t] = "look" /\ cache[arg[call[t]]] = None
  /\ pc' = [pc EXCEPT ![t] = "func"]
  /\ UNCHANGED <<live, made, arg, call, mutex, locks, holder, cache, value,
                 kept, waited, raised, outside>>

\* func() returns: a dictionary keeps the key it has when a key is set again.
Computed(t) ==
  LET a == arg[call[t]] IN
  /\ pc[t] = "func"
  /\ value' = [value EXCEPT ![call[t]] = call[t]]
  /\ cache' = [cache EXCEPT ![a] = IF @ = None THEN call[t] ELSE @]
  /\ kept' = [kept EXCEPT ![a] = call[t]]
  /\ Leave(t, "idle")
  /\ UNCHANGED <<live, made, arg, call, locks, waited, raised, outside>>

\* func() raises: nothing is kept, the lock is released.  A TypeError is taken
\* for that of a key that cannot be hashed.
Raised(t) ==
  /\ pc[t] = "func"
  /\ raised' = raised \cup {arg[call[t]]}
  /\ Leave(t, "idle") \/ Leave(t, "again")
  /\ UNCHANGED <<live, made, arg, call, locks, cache, value, kept, waited,
                 outside>>

\* func() is called once more, whoever holds the lock by now and whatever the
\* cache holds; its value is returned and not kept, or it raises again.
Again(t) ==
  /\ pc[t] = "again"
  /\ \/ /\ value' = [value EXCEPT ![call[t]] = call[t]]
        /\ outside' = outside \cup {call[t]}
     \/ UNCHANGED <<value, outside>>
  /\ pc' = [pc EXCEPT ![t] = "idle"]
  /\ UNCHANGED <<live, made, arg, call, mutex, locks, holder, cache, kept,
                 waited, raised>>

\* A mutant: remove() leaves the lock.
DiesLocked(a) ==
  /\ a \in live /\ \A t \in Threads : ~Uses(t, a)
  /\ live' = live \ {a}
  /\ cache' = [cache EXCEPT ![a] = None]
  /\ kept' = [kept EXCEPT ![a] = None]
  /\ UNCHANGED <<made, arg, pc, call, mutex, locks, holder, value, waited,
                 raised, outside>>

\* The last reference to an argument goes, and with it those the keys of the
\* dictionaries hold.  remove() of the key in the cache deletes that, and the
\* lock if it lies under the same key; remove() of another key in locks finds
\* nothing under it in the cache, and ends there.
Dies(a) ==
  /\ a \in live /\ \A t \in Threads : ~Uses(t, a)
  /\ live' = live \ {a}
  /\ cache' = [cache EXCEPT ![a] = None]
  /\ kept' = [kept EXCEPT ![a] = None]
  /\ locks' = [locks EXCEPT ![a] = IF cache[a] = @ THEN None ELSE @]
  /\ UNCHANGED <<made, arg, pc, call, mutex, holder, value, waited, raised,
                 outside>>

Step(t) ==
  \/ Enter(t) \/ Acquire(t) \/ Hit(t) \/ Miss(t) \/ Computed(t) \/ Raised(t)
  \/ Again(t)

Next == (\E t \in Threads : Step(t)) \/ (\E a \in Args : Dies(a))
Spec == Init /\ [][Next]_vars

-----------------------------------------------------------------------------
(***************************************************************************)
(* "The cached value is returned instead of calling the decorated function *)
(* again": whatever threads call at the same time, all the calls with one  *)
(* argument that return what they got under its lock have the value of the *)
(* first that computed one there, and func() never runs twice at a time    *)
(* under it.  What the sentence does not say: after a TypeError of func()  *)
(* it is called again outside of the lock, although another thread may be  *)
(* running it or have cached its value.  What comes of that may differ; it *)
(* goes to its caller alone, and no other call ever returns it.            *)
(***************************************************************************)
CalledOnce ==
  /\ \A c, d \in Calls \ outside :
       value[c] # None /\ value[d] # None /\ arg[c] = arg[d] =>
         value[c] = value[d]
  /\ \A c \in Calls : value[c] \in outside => value[c] = c
  /\ \A t, u \in Threads :
       pc[t] = "func" /\ pc[u] = "func" /\ arg[call[t]] = arg[call[u]] => t = u

(***************************************************************************)
(* The cache keeps nothing for an argument that is gone; nor is the lock   *)
(* kept, unless two threads worked on that argument at the same time or a  *)
(* call raised, and so different calls made the two entries.               *)
(***************************************************************************)
NothingKept ==
  \A a \in Args \ live :
    /\ cache[a] = None
    /\ locks[a] = None \/ a \in waited \cup raised
=============================================================================
