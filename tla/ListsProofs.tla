---------------------------- MODULE ListsProofs ----------------------------
(***************************************************************************)
(* What is proved of memoized calls (Memoized), of paged tables (Paging)   *)
(* and of lists with many filter values (LongFilters), for any number of   *)
(* threads, rows and values.                                               *)
(***************************************************************************)
EXTENDS PartsProofs, FiniteSetTheorems, SequenceTheorems

-----------------------------------------------------------------------------
(* Memoized calls.                                                         *)

MemoConstants == MaxCalls \in Nat /\ None \notin Memo!Calls /\ None \notin Threads

\* A thread that is in the decorator works on an argument that lives, until it
\* calls again with the lock every other thread finds for it; its call has no
\* value yet and is nobody else's.
ThreadOK(t) ==
  /\ Memo!Busy(t) =>
       /\ call[t] \in 1 .. made /\ arg[call[t]] \in live
       /\ value[call[t]] = None /\ call[t] \notin outside
       /\ \A u \in Threads : Memo!Busy(u) /\ call[u] = call[t] => u = t
  /\ pc[t] \in {"wait", "look", "func"} =>
       mutex[t] \in Memo!Calls /\ mutex[t] = locks[arg[call[t]]]
  /\ pc[t] \in {"look", "func"} => holder[mutex[t]] = t
  /\ pc[t] = "func" => cache[arg[call[t]]] = None
  /\ pc[t] = "again" => arg[call[t]] \in raised

\* What a call with a living argument has returned under the lock is what is
\* kept, and what one returned from outside of it is nobody else's.
CallOK(c) ==
  /\ c \notin 1 .. made => value[c] = None /\ c \notin outside
  /\ c \in outside => value[c] = c
  /\ c \notin outside /\ value[c] # None =>
       /\ value[c] \notin outside /\ value[value[c]] # None
       /\ arg[c] \in live => cache[arg[c]] # None /\ kept[arg[c]] = value[c]

\* What is kept was computed under the lock.
KeptOK(a) == kept[a] # None => kept[a] \notin outside /\ value[kept[a]] # None

\* As long as its calls came one at a time and none raised, the entries of an
\* argument lie under one key, or the call at work is about to make the second.
EntriesOK(a) ==
  /\ a \notin live => cache[a] = None
  /\ a \notin waited =>
       \A t, u \in Threads : Memo!Uses(t, a) /\ Memo!Uses(u, a) => t = u
  /\ a \notin waited \cup raised =>
       \/ cache[a] = locks[a]
       \/ /\ cache[a] = None
          /\ \E t \in Threads : Memo!Uses(t, a) /\ locks[a] = call[t]

SameValues ==
  \A c, d \in Memo!Calls \ outside :
    value[c] # None /\ value[d] # None /\ arg[c] = arg[d] =>
      value[c] = value[d]

MemoInv ==
  /\ Memo!TypeOK /\ SameValues
  /\ \A t \in Threads : ThreadOK(t)
  /\ \A c \in Memo!Calls : CallOK(c)
  /\ \A a \in Args : EntriesOK(a) /\ KeptOK(a)

-----------------------------------------------------------------------------
\* Nothing has been called.
LEMMA InitMemo == MemoConstants /\ Memo!Init => MemoInv
BY DEF MemoConstants, Memo!Init, MemoInv, Memo!TypeOK, SameValues, ThreadOK,
   CallOK, EntriesOK, KeptOK, Memo!Busy, Memo!Uses, Memo!Calls

\* Two threads that look into the cache for one argument are one thread.
LEMMA Exclusive ==
  ASSUME MemoInv, NEW t \in Threads, NEW u \in Threads,
         pc[t] \in {"look", "func"}, pc[u] \in {"look", "func"},
         arg[call[t]] = arg[call[u]]
  PROVE  t = u
BY DEF MemoInv, ThreadOK, Memo!Busy

\* A call begins, with the lock it finds or makes.
LEMMA EnterKeepsInv ==
  ASSUME MemoConstants, MemoInv, NEW t \in Threads, Memo!Enter(t)
  PROVE  MemoInv'
<1>0. PICK a \in live :
        /\ made' = made + 1
        /\ arg' = [arg EXCEPT ![made'] = a]
        /\ call' = [call EXCEPT ![t] = made']
        /\ locks' = [locks EXCEPT ![a] = IF @ = None THEN made' ELSE @]
        /\ mutex' = [mutex EXCEPT ![t] = locks'[a]]
        /\ waited' = IF \E u \in Threads : Memo!Uses(u, a) THEN waited \cup {a}
                     ELSE waited
  BY DEF Memo!Enter
<1>a. /\ pc[t] = "idle" /\ pc' = [pc EXCEPT ![t] = "wait"]
      /\ made \in 0 .. MaxCalls /\ made < MaxCalls /\ a \in Args
      /\ UNCHANGED <<live, holder, cache, value, kept, raised, outside>>
  BY DEF Memo!Enter, MemoInv, Memo!TypeOK
<1>b. /\ made' \in Memo!Calls /\ made' \notin 1 .. made /\ made' # None
      /\ 1 .. made \subseteq 1 .. made' /\ made' \in 1 .. made'
      /\ 1 .. made \subseteq Memo!Calls
  BY <1>0, <1>a DEF MemoConstants, Memo!Calls
<1>c. /\ arg'[made'] = a /\ \A c \in Memo!Calls \ {made'} : arg'[c] = arg[c]
      /\ locks'[a] = (IF locks[a] = None THEN made' ELSE locks[a])
      /\ \A b \in Args \ {a} : locks'[b] = locks[b]
  BY <1>0, <1>a, <1>b DEF MemoInv, Memo!TypeOK
<1>d. /\ pc'[t] = "wait" /\ call'[t] = made' /\ mutex'[t] = locks'[a]
      /\ \A u \in Threads \ {t} :
           pc'[u] = pc[u] /\ call'[u] = call[u] /\ mutex'[u] = mutex[u]
  BY <1>0, <1>a DEF MemoInv, Memo!TypeOK
<1>e. /\ locks'[a] \in Memo!Calls
      /\ locks' \in [Args -> Memo!Calls \cup {None}]
  BY <1>0, <1>a, <1>b, <1>c DEF MemoInv, Memo!TypeOK
<1>1. Memo!TypeOK'
  <2>1. /\ arg' \in [Memo!Calls -> Args \cup {None}]
        /\ pc' \in [Threads -> {"idle", "wait", "look", "func", "again"}]
        /\ call' \in [Threads -> Memo!Calls \cup {None}]
        /\ mutex' \in [Threads -> Memo!Calls \cup {None}]
    BY <1>0, <1>a, <1>b, <1>e DEF MemoInv, Memo!TypeOK
  <2>2. made' \in 0 .. MaxCalls
    BY <1>0, <1>a DEF MemoConstants
  <2>3. waited' \subseteq Args
    BY <1>0, <1>a DEF MemoInv, Memo!TypeOK
  <2> QED
    BY <1>a, <1>e, <2>1, <2>2, <2>3 DEF MemoInv, Memo!TypeOK
<1>2. value[made'] = None /\ made' \notin outside
  BY <1>b DEF MemoInv, CallOK
<1>3. SameValues'
  BY <1>2, <1>a, <1>c DEF MemoInv, SameValues
<1>f. \A u \in Threads \ {t} : Memo!Busy(u) => call[u] \in 1 .. made
  BY DEF MemoInv, ThreadOK
<1>4. ASSUME NEW u \in Threads
      PROVE  ThreadOK(u)'
  <2>1. CASE u = t
    <3>1. \A v \in Threads : Memo!Busy(v)' /\ call'[v] = made' => v = t
      BY <1>b, <1>d, <1>f DEF Memo!Busy
    <3> QED
      BY <1>2, <1>a, <1>b, <1>c, <1>d, <1>e, <2>1, <3>1 DEF ThreadOK, Memo!Busy
  <2>2. CASE u # t
    <3>1. CASE Memo!Busy(u)
      <4>1. call[u] \in 1 .. made /\ arg[call[u]] \in live
        BY <3>1 DEF MemoInv, ThreadOK
      <4>2. arg'[call[u]] = arg[call[u]]
        BY <1>b, <1>c, <4>1
      <4>3. pc[u] \in {"wait", "look", "func"} =>
              /\ mutex[u] \in Memo!Calls /\ mutex[u] = locks[arg[call[u]]]
              /\ locks'[arg[call[u]]] = locks[arg[call[u]]]
        BY <1>c, <4>1 DEF MemoConstants, MemoInv, Memo!TypeOK, ThreadOK
      <4>4. \A v \in Threads : Memo!Busy(v)' /\ call'[v] = call'[u] => v = u
        BY <1>b, <1>d, <2>2, <3>1, <4>1 DEF MemoInv, ThreadOK, Memo!Busy
      <4> QED
        BY <1>a, <1>b, <1>d, <2>2, <3>1, <4>1, <4>2, <4>3, <4>4
           DEF MemoInv, ThreadOK, Memo!Busy
    <3>2. CASE ~Memo!Busy(u)
      BY <1>d, <2>2, <3>2 DEF ThreadOK, Memo!Busy
    <3> QED
      BY <3>1, <3>2
  <2> QED
    BY <2>1, <2>2
<1>5. ASSUME NEW c \in Memo!Calls
      PROVE  CallOK(c)'
  BY <1>2, <1>a, <1>b, <1>c DEF MemoInv, CallOK
<1>7. ASSUME NEW b \in Args
      PROVE  KeptOK(b)'
  BY <1>a DEF MemoInv, KeptOK
<1>6. ASSUME NEW b \in Args
      PROVE  EntriesOK(b)'
  <2>1. /\ Memo!Uses(t, b)' <=> b = a
        /\ ~Memo!Uses(t, b)
        /\ \A u \in Threads \ {t} : Memo!Uses(u, b)' <=> Memo!Uses(u, b)
    <3>1. \A u \in Threads \ {t} : Memo!Busy(u) => call[u] \in Memo!Calls \ {made'}
      BY <1>b DEF MemoInv, ThreadOK
    <3> QED
      BY <1>a, <1>c, <1>d, <3>1 DEF Memo!Uses, Memo!Busy
  <2>2. /\ waited \subseteq waited' /\ raised' = raised
        /\ b = a /\ (\E u \in Threads : Memo!Uses(u, a)) => b \in waited'
    BY <1>0, <1>a
  <2>3. b \notin live' => cache'[b] = None
    BY <1>a DEF MemoInv, EntriesOK
  <2>4. ASSUME b \notin waited'
        PROVE  \A u, v \in Threads : Memo!Uses(u, b)' /\ Memo!Uses(v, b)' => u = v
    BY <2>1, <2>2, <2>4 DEF MemoInv, EntriesOK
  <2>5. ASSUME b \notin waited' \cup raised'
        PROVE  \/ cache'[b] = locks'[b]
               \/ /\ cache'[b] = None
                  /\ \E u \in Threads : Memo!Uses(u, b)' /\ locks'[b] = call'[u]
    <3>1. \/ cache[b] = locks[b]
          \/ /\ cache[b] = None
             /\ \E u \in Threads : Memo!Uses(u, b) /\ locks[b] = call[u]
      BY <2>2, <2>5 DEF MemoInv, EntriesOK
    <3>2. CASE b = a
      BY <1>a, <1>c, <1>d, <2>1, <2>2, <2>5, <3>1, <3>2
    <3>3. CASE b # a
      BY <1>a, <1>c, <1>d, <2>1, <3>1, <3>3
    <3> QED
      BY <3>2, <3>3
  <2> QED
    BY <2>3, <2>4, <2>5 DEF EntriesOK
<1> QED
  BY <1>1, <1>3, <1>4, <1>5, <1>6, <1>7 DEF MemoInv

\* What does not move a thread in or out, and leaves the entries.
LEMMA WithinKeepsInv ==
  ASSUME MemoConstants, MemoInv, NEW t \in Threads, Memo!Acquire(t) \/ Memo!Miss(t)
  PROVE  MemoInv'
<1>0. /\ UNCHANGED <<live, made, arg, call, mutex, locks, cache, value, kept,
                     waited, raised, outside>>
      /\ pc[t] \in {"wait", "look"} /\ pc'[t] \in {"look", "func"}
      /\ \A u \in Threads \ {t} : pc'[u] = pc[u]
      /\ pc' \in [Threads -> {"idle", "wait", "look", "func", "again"}]
  BY DEF Memo!Acquire, Memo!Miss, MemoInv, Memo!TypeOK
<1>1. holder' \in [Memo!Calls -> Threads \cup {None}]
  BY DEF Memo!Acquire, Memo!Miss, MemoInv, Memo!TypeOK
<1>2. Memo!TypeOK' /\ SameValues'
  BY <1>0, <1>1 DEF MemoInv, Memo!TypeOK, SameValues
<1>3. \A u \in Threads : Memo!Busy(u)' <=> Memo!Busy(u)
  BY <1>0 DEF Memo!Busy
<1>4. ASSUME NEW u \in Threads
      PROVE  ThreadOK(u)'
  <2>1. CASE Memo!Acquire(t)
    <3>1. /\ holder[mutex[t]] = None /\ pc'[t] = "look"
          /\ holder' = [holder EXCEPT ![mutex[t]] = t]
      BY <2>1 DEF Memo!Acquire, MemoInv, Memo!TypeOK
    <3>2. mutex[t] \in Memo!Calls
      BY <1>0 DEF MemoInv, ThreadOK, Memo!Busy
    <3>3. CASE u = t
      BY <1>0, <1>3, <3>1, <3>2, <3>3 DEF MemoInv, Memo!TypeOK, ThreadOK
    <3>4. CASE u # t
      <4>1. pc[u] \in {"look", "func"} =>
              mutex[u] # mutex[t] /\ mutex[u] \in Memo!Calls
        BY <3>1 DEF MemoInv, ThreadOK, MemoConstants, Memo!Busy
      <4> QED
        BY <1>0, <1>3, <3>1, <3>2, <3>4, <4>1 DEF MemoInv, Memo!TypeOK,
           ThreadOK
    <3> QED
      BY <3>3, <3>4
  <2>2. CASE Memo!Miss(t)
    BY <1>0, <1>3, <2>2 DEF Memo!Miss, MemoInv, ThreadOK
  <2> QED
    BY <2>1, <2>2
<1>5. ASSUME NEW c \in Memo!Calls
      PROVE  CallOK(c)'
  BY <1>0 DEF MemoInv, CallOK
<1>6. ASSUME NEW a \in Args
      PROVE  EntriesOK(a)' /\ KeptOK(a)'
  BY <1>0, <1>3 DEF MemoInv, EntriesOK, KeptOK, Memo!Uses
<1> QED
  BY <1>2, <1>4, <1>5, <1>6 DEF MemoInv

\* What a thread that lets its lock go leaves behind of the threads and locks.
LEMMA LeaveOK ==
  ASSUME MemoConstants, MemoInv, NEW t \in Threads, pc[t] \in {"look", "func"},
         NEW next \in {"idle", "again"}, Memo!Leave(t, next)
  PROVE  /\ pc'[t] = next /\ mutex[t] \in Memo!Calls
         /\ pc' \in [Threads -> {"idle", "wait", "look", "func", "again"}]
         /\ mutex' \in [Threads -> Memo!Calls \cup {None}]
         /\ holder' \in [Memo!Calls -> Threads \cup {None}]
         /\ \A u \in Threads \ {t} :
              /\ pc'[u] = pc[u] /\ mutex'[u] = mutex[u]
              /\ pc[u] \in {"look", "func"} => holder'[mutex[u]] = u
<1>1. mutex[t] \in Memo!Calls /\ holder[mutex[t]] = t
  BY DEF MemoInv, ThreadOK, Memo!Busy
<1>2. ASSUME NEW u \in Threads \ {t}, pc[u] \in {"look", "func"}
      PROVE  holder'[mutex[u]] = u
  <2>1. mutex[u] \in Memo!Calls /\ holder[mutex[u]] = u
    BY <1>2 DEF MemoInv, ThreadOK, Memo!Busy
  <2>2. mutex[u] # mutex[t]
    BY <1>1, <2>1
  <2> QED
    BY <2>1, <2>2 DEF Memo!Leave, MemoInv, Memo!TypeOK
<1> QED
  BY <1>1, <1>2 DEF Memo!Leave, MemoInv, Memo!TypeOK

\* The others do not notice that a thread is done with its call.
LEMMA DoneOK ==
  ASSUME MemoConstants, MemoInv, NEW t \in Threads, Memo!Busy(t), pc'[t] = "idle",
         UNCHANGED <<live, made, arg, call, locks>>,
         raised' = raised, outside' \subseteq outside \cup {call[t]},
         \A c \in Memo!Calls \ {call[t]} : value'[c] = value[c],
         \A u \in Threads \ {t} :
           /\ pc'[u] = pc[u] /\ mutex'[u] = mutex[u]
           /\ pc[u] \in {"look", "func"} => holder'[mutex[u]] = u
           /\ pc[u] = "func" => cache'[arg[call[u]]] = None,
         NEW u \in Threads
  PROVE  ThreadOK(u)'
<1>1. \A v \in Threads : Memo!Busy(v)' <=> v # t /\ Memo!Busy(v)
  BY DEF Memo!Busy
<1>2. CASE u = t
  BY <1>1, <1>2 DEF ThreadOK, Memo!Busy
<1>3. CASE u # t
  <2>1. ASSUME Memo!Busy(u)
        PROVE  value'[call[u]] = None /\ call[u] \notin outside'
    <3>1. call[u] \in Memo!Calls /\ call[u] # call[t]
      BY <1>3, <2>1
         DEF MemoInv, ThreadOK, MemoConstants, Memo!Calls, Memo!TypeOK
    <3> QED
      BY <2>1, <3>1 DEF MemoInv, ThreadOK
  <2>2. ASSUME Memo!Busy(u), NEW v \in Threads, Memo!Busy(v)', call'[v] = call'[u]
        PROVE  v = u
    BY <1>1, <2>2 DEF MemoInv, ThreadOK
  <2> QED
    BY <1>1, <1>3, <2>1, <2>2 DEF MemoInv, ThreadOK, Memo!Busy
<1> QED
  BY <1>2, <1>3

\* A call returns what is cached.
LEMMA HitKeepsInv ==
  ASSUME MemoConstants, MemoInv, NEW t \in Threads, Memo!Hit(t)
  PROVE  MemoInv'
<1> DEFINE a == arg[call[t]]
<1>0. /\ pc[t] = "look" /\ cache[a] # None /\ Memo!Leave(t, "idle")
      /\ value' = [value EXCEPT ![call[t]] = kept[a]]
      /\ UNCHANGED <<live, made, arg, call, locks, cache, kept, waited, raised, outside>>
  BY DEF Memo!Hit
<1>a. /\ call[t] \in 1 .. made /\ call[t] \in Memo!Calls /\ a \in live
      /\ a \in Args /\ value[call[t]] = None /\ call[t] \notin outside
      /\ kept[a] \in Memo!Calls \cup {None}
  BY <1>0 DEF MemoInv, ThreadOK, Memo!Busy, Memo!TypeOK, Memo!Calls,
     MemoConstants
<1>b. /\ pc'[t] = "idle"
      /\ pc' \in [Threads -> {"idle", "wait", "look", "func", "again"}]
      /\ mutex' \in [Threads -> Memo!Calls \cup {None}]
      /\ holder' \in [Memo!Calls -> Threads \cup {None}]
      /\ \A u \in Threads \ {t} :
           /\ pc'[u] = pc[u] /\ mutex'[u] = mutex[u]
           /\ pc[u] \in {"look", "func"} => holder'[mutex[u]] = u
  BY <1>0, LeaveOK
<1>c. /\ value'[call[t]] = kept[a]
      /\ \A c \in Memo!Calls \ {call[t]} : value'[c] = value[c]
      /\ value' \in [Memo!Calls -> Memo!Calls \cup {None}]
  BY <1>0, <1>a DEF MemoInv, Memo!TypeOK
<1>1. Memo!TypeOK'
  BY <1>0, <1>b, <1>c DEF MemoInv, Memo!TypeOK
<1>2. SameValues'
  BY <1>0, <1>a, <1>c DEF MemoInv, SameValues, CallOK
<1>3. ASSUME NEW u \in Threads
      PROVE  ThreadOK(u)'
  <2>1. \A v \in Threads : pc[v] = "func" => cache'[arg[call[v]]] = None
    BY <1>0 DEF MemoInv, ThreadOK
  <2> QED
    BY <1>0, <1>a, <1>b, <1>c, <2>1, DoneOK DEF Memo!Busy
<1>4. ASSUME NEW c \in Memo!Calls
      PROVE  CallOK(c)'
  BY <1>0, <1>a, <1>c DEF MemoInv, Memo!TypeOK, CallOK, KeptOK
<1>6. ASSUME NEW b \in Args
      PROVE  KeptOK(b)'
  BY <1>0, <1>a, <1>c DEF MemoInv, Memo!TypeOK, KeptOK
<1>5. ASSUME NEW b \in Args
      PROVE  EntriesOK(b)'
  <2>1. /\ ~Memo!Uses(t, b)'
        /\ \A u \in Threads \ {t} : Memo!Uses(u, b)' <=> Memo!Uses(u, b)
    BY <1>0, <1>b DEF Memo!Uses, Memo!Busy
  <2>2. CASE b = a
    BY <1>0, <2>1, <2>2 DEF MemoInv, EntriesOK
  <2>3. CASE b # a
    <3>1. ~Memo!Uses(t, b)
      BY <2>3 DEF Memo!Uses
    <3>2. \A u \in Threads : Memo!Uses(u, b)' <=> Memo!Uses(u, b)
      BY <2>1, <3>1
    <3> QED
      BY <1>0, <3>2 DEF MemoInv, EntriesOK
  <2> QED
    BY <2>2, <2>3
<1> QED
  BY <1>1, <1>2, <1>3, <1>4, <1>5, <1>6 DEF MemoInv

\* The value that is computed is the first: with it come the other values.
LEMMA ComputedKeepsInv ==
  ASSUME MemoConstants, MemoInv, NEW t \in Threads, Memo!Computed(t)
  PROVE  MemoInv'
<1> DEFINE a == arg[call[t]]
<1>0. /\ pc[t] = "func" /\ Memo!Leave(t, "idle")
      /\ value' = [value EXCEPT ![call[t]] = call[t]]
      /\ cache' = [cache EXCEPT ![a] = IF @ = None THEN call[t] ELSE @]
      /\ kept' = [kept EXCEPT ![a] = call[t]]
      /\ UNCHANGED <<live, made, arg, call, locks, waited, raised, outside>>
  BY DEF Memo!Computed
<1>a. /\ call[t] \in 1 .. made /\ call[t] \in Memo!Calls /\ a \in live
      /\ a \in Args /\ value[call[t]] = None /\ call[t] \notin outside
      /\ call[t] # None
  BY <1>0 DEF MemoInv, ThreadOK, Memo!Busy, Memo!TypeOK, Memo!Calls,
     MemoConstants
<1>b. /\ pc'[t] = "idle"
      /\ pc' \in [Threads -> {"idle", "wait", "look", "func", "again"}]
      /\ mutex' \in [Threads -> Memo!Calls \cup {None}]
      /\ holder' \in [Memo!Calls -> Threads \cup {None}]
      /\ \A u \in Threads \ {t} :
           /\ pc'[u] = pc[u] /\ mutex'[u] = mutex[u]
           /\ pc[u] \in {"look", "func"} => holder'[mutex[u]] = u
  BY <1>0, LeaveOK
<1>c. /\ value'[call[t]] = call[t]
      /\ \A c \in Memo!Calls \ {call[t]} : value'[c] = value[c]
      /\ value' \in [Memo!Calls -> Memo!Calls \cup {None}]
  BY <1>0, <1>a DEF MemoInv, Memo!TypeOK
<1>d. cache[a] = None
  BY <1>0 DEF MemoInv, ThreadOK
<1>e. /\ cache'[a] = call[t] /\ kept'[a] = call[t]
      /\ \A b \in Args \ {a} : cache'[b] = cache[b] /\ kept'[b] = kept[b]
      /\ cache' \in [Args -> Memo!Calls \cup {None}]
      /\ kept' \in [Args -> Memo!Calls \cup {None}]
  BY <1>0, <1>a, <1>d DEF MemoInv, Memo!TypeOK
<1>f. \A c \in Memo!Calls \ outside : arg[c] = a => value[c] = None
  BY <1>a, <1>d DEF MemoInv, CallOK
<1>1. Memo!TypeOK'
  BY <1>0, <1>b, <1>c, <1>e DEF MemoInv, Memo!TypeOK
<1>2. SameValues'
  BY <1>0, <1>a, <1>c, <1>f DEF MemoInv, SameValues
<1>3. ASSUME NEW u \in Threads
      PROVE  ThreadOK(u)'
  <2>1. ASSUME NEW v \in Threads \ {t}, pc[v] = "func"
        PROVE  cache'[arg[call[v]]] = None
    <3>1. arg[call[v]] # a /\ arg[call[v]] \in Args
      BY <1>0, <2>1, Exclusive DEF MemoInv, ThreadOK, Memo!Busy, Memo!TypeOK
    <3> QED
      BY <1>e, <2>1, <3>1 DEF MemoInv, ThreadOK
  <2> QED
    BY <1>0, <1>b, <1>c, <2>1, DoneOK DEF Memo!Busy
<1>4. ASSUME NEW c \in Memo!Calls
      PROVE  CallOK(c)'
  <2>1. CASE c = call[t]
    BY <1>0, <1>a, <1>c, <1>e, <2>1 DEF CallOK
  <2>2. CASE c # call[t] /\ (arg[c] # a \/ c \in outside)
    <3>1. arg[c] \in live => arg[c] \in Args
      BY DEF MemoInv, Memo!TypeOK
    <3> QED
      BY <1>0, <1>a, <1>c, <1>e, <2>2, <3>1 DEF MemoInv, Memo!TypeOK, CallOK
  <2>3. CASE c # call[t] /\ arg[c] = a /\ c \notin outside
    BY <1>0, <1>c, <1>f, <2>3 DEF MemoInv, CallOK
  <2> QED
    BY <2>1, <2>2, <2>3
<1>6. ASSUME NEW b \in Args
      PROVE  KeptOK(b)'
  BY <1>0, <1>a, <1>c, <1>e DEF MemoInv, Memo!TypeOK, KeptOK
<1>5. ASSUME NEW b \in Args
      PROVE  EntriesOK(b)'
  <2>1. /\ ~Memo!Uses(t, b)'
        /\ \A u \in Threads \ {t} : Memo!Uses(u, b)' <=> Memo!Uses(u, b)
    BY <1>0, <1>b DEF Memo!Uses, Memo!Busy
  <2>2. CASE b = a
    <3>0. Memo!Uses(t, b)
      BY <1>0, <2>2 DEF Memo!Uses, Memo!Busy
    <3>1. b \notin waited => \A u \in Threads : Memo!Uses(u, b) => u = t
      BY <3>0 DEF MemoInv, EntriesOK
    <3>2. b \notin waited \cup raised => locks[b] = call[t]
      <4>1. ASSUME b \notin waited \cup raised
            PROVE  \/ cache[b] = locks[b]
                   \/ \E u \in Threads : Memo!Uses(u, b) /\ locks[b] = call[u]
        BY <4>1 DEF MemoInv, EntriesOK
      <4>2. locks[b] # None
        BY <1>0, <2>2 DEF MemoInv, ThreadOK, Memo!Busy, MemoConstants
      <4> QED
        BY <1>d, <2>2, <3>1, <4>1, <4>2
    <3>3. b \notin waited =>
            \A u, v \in Threads : Memo!Uses(u, b)' /\ Memo!Uses(v, b)' => u = v
      BY <2>1, <3>1
    <3>4. cache'[b] = call[t] /\ b \in live'
      BY <1>0, <1>a, <1>e, <2>2
    <3> QED
      BY <1>0, <3>2, <3>3, <3>4 DEF EntriesOK
  <2>3. CASE b # a
    <3>1. ~Memo!Uses(t, b)
      BY <2>3 DEF Memo!Uses
    <3>2. \A u \in Threads : Memo!Uses(u, b)' <=> Memo!Uses(u, b)
      BY <2>1, <3>1
    <3>3. cache'[b] = cache[b]
      BY <1>e, <2>3
    <3> QED
      BY <1>0, <3>2, <3>3 DEF MemoInv, EntriesOK
  <2> QED
    BY <2>2, <2>3
<1> QED
  BY <1>1, <1>2, <1>3, <1>4, <1>5, <1>6 DEF MemoInv

\* A call that raises keeps nothing and lets its lock go.
LEMMA RaisedKeepsInv ==
  ASSUME MemoConstants, MemoInv, NEW t \in Threads, Memo!Raised(t)
  PROVE  MemoInv'
<1> DEFINE a == arg[call[t]]
<1>0. PICK next \in {"idle", "again"} :
        /\ pc[t] = "func" /\ Memo!Leave(t, next) /\ raised' = raised \cup {a}
        /\ UNCHANGED <<live, made, arg, call, locks, cache, value, kept, waited,
                       outside>>
  BY DEF Memo!Raised
<1>a. a \in Args
  BY <1>0 DEF MemoInv, ThreadOK, Memo!Busy, Memo!TypeOK
<1>b. /\ pc'[t] = next
      /\ pc' \in [Threads -> {"idle", "wait", "look", "func", "again"}]
      /\ mutex' \in [Threads -> Memo!Calls \cup {None}]
      /\ holder' \in [Memo!Calls -> Threads \cup {None}]
      /\ \A u \in Threads \ {t} :
           /\ pc'[u] = pc[u] /\ mutex'[u] = mutex[u]
           /\ pc[u] \in {"look", "func"} => holder'[mutex[u]] = u
  BY <1>0, LeaveOK
<1>c. \A u \in Threads :
        /\ Memo!Busy(u)' => Memo!Busy(u)
        /\ u # t => (Memo!Busy(u)' <=> Memo!Busy(u))
  BY <1>0, <1>b DEF Memo!Busy
<1>1. Memo!TypeOK' /\ SameValues'
  BY <1>0, <1>a, <1>b DEF MemoInv, Memo!TypeOK, SameValues
<1>2. ASSUME NEW u \in Threads
      PROVE  ThreadOK(u)'
  BY <1>0, <1>b, <1>c DEF MemoInv, ThreadOK
<1>3. ASSUME NEW c \in Memo!Calls
      PROVE  CallOK(c)'
  BY <1>0 DEF MemoInv, CallOK
<1>4. ASSUME NEW b \in Args
      PROVE  EntriesOK(b)' /\ KeptOK(b)'
  <2>1. \A u \in Threads :
          /\ Memo!Uses(u, b)' => Memo!Uses(u, b)
          /\ u # t => (Memo!Uses(u, b)' <=> Memo!Uses(u, b))
    BY <1>0, <1>c DEF Memo!Uses
  <2>2. b # a => ~Memo!Uses(t, b)
    BY DEF Memo!Uses
  <2>3. ASSUME b \notin waited' \cup raised'
        PROVE  \/ cache'[b] = locks'[b]
               \/ /\ cache'[b] = None
                  /\ \E u \in Threads : Memo!Uses(u, b)' /\ locks'[b] = call'[u]
    BY <1>0, <2>1, <2>2, <2>3 DEF MemoInv, EntriesOK
  <2> QED
    BY <1>0, <2>1, <2>3 DEF MemoInv, EntriesOK, KeptOK
<1> QED
  BY <1>1, <1>2, <1>3, <1>4 DEF MemoInv

\* What a call gets outside of the lock is nobody else's.
LEMMA AgainKeepsInv ==
  ASSUME MemoConstants, MemoInv, NEW t \in Threads, Memo!Again(t)
  PROVE  MemoInv'
<1>0. /\ pc[t] = "again" /\ pc' = [pc EXCEPT ![t] = "idle"]
      /\ UNCHANGED <<live, made, arg, call, mutex, locks, holder, cache, kept,
                     waited, raised>>
  BY DEF Memo!Again
<1>a. /\ call[t] \in Memo!Calls /\ call[t] \in 1 .. made
      /\ value[call[t]] = None /\ call[t] \notin outside
  BY <1>0 DEF MemoInv, ThreadOK, Memo!Busy, Memo!TypeOK, Memo!Calls,
     MemoConstants
<1>b. /\ pc'[t] = "idle" /\ \A u \in Threads \ {t} : pc'[u] = pc[u]
      /\ pc' \in [Threads -> {"idle", "wait", "look", "func", "again"}]
  BY <1>0 DEF MemoInv, Memo!TypeOK
<1>c. /\ \A c \in Memo!Calls \ {call[t]} :
           value'[c] = value[c] /\ (c \in outside' <=> c \in outside)
      /\ \/ value'[call[t]] = call[t] /\ call[t] \in outside'
         \/ value'[call[t]] = None /\ call[t] \notin outside'
      /\ value' \in [Memo!Calls -> Memo!Calls \cup {None}]
      /\ outside \subseteq outside' /\ outside' \subseteq outside \cup {call[t]}
      /\ outside' \subseteq Memo!Calls
  BY <1>a DEF Memo!Again, MemoInv, Memo!TypeOK
<1>1. Memo!TypeOK' /\ SameValues'
  BY <1>0, <1>b, <1>c DEF MemoInv, Memo!TypeOK, SameValues
<1>2. ASSUME NEW u \in Threads
      PROVE  ThreadOK(u)'
  <2>1. \A v \in Threads \ {t} :
          /\ pc[v] \in {"look", "func"} => holder'[mutex[v]] = v
          /\ pc[v] = "func" => cache'[arg[call[v]]] = None
    BY <1>0 DEF MemoInv, ThreadOK
  <2> QED
    BY <1>0, <1>b, <1>c, <2>1, DoneOK DEF Memo!Busy
<1>3. ASSUME NEW c \in Memo!Calls
      PROVE  CallOK(c)'
  <2>1. CASE c = call[t]
    BY <1>0, <1>a, <1>c, <2>1 DEF CallOK
  <2>2. CASE c # call[t]
    BY <1>0, <1>a, <1>c, <2>2 DEF MemoInv, Memo!TypeOK, CallOK
  <2> QED
    BY <2>1, <2>2
<1>4. ASSUME NEW b \in Args
      PROVE  EntriesOK(b)'
  <2>1. b \notin raised => ~Memo!Uses(t, b)
    BY <1>0 DEF MemoInv, ThreadOK, Memo!Uses
  <2>2. /\ ~Memo!Uses(t, b)'
        /\ \A u \in Threads \ {t} : Memo!Uses(u, b)' <=> Memo!Uses(u, b)
    BY <1>0, <1>b DEF Memo!Uses, Memo!Busy
  <2>3. b \notin raised => \A u \in Threads : Memo!Uses(u, b)' <=> Memo!Uses(u, b)
    BY <2>1, <2>2
  <2>4. ASSUME b \notin waited' \cup raised'
        PROVE  \/ cache'[b] = locks'[b]
               \/ /\ cache'[b] = None
                  /\ \E u \in Threads : Memo!Uses(u, b)' /\ locks'[b] = call'[u]
    BY <1>0, <2>3, <2>4 DEF MemoInv, EntriesOK
  <2> QED
    BY <1>0, <2>2, <2>4 DEF MemoInv, EntriesOK
<1>5. ASSUME NEW b \in Args
      PROVE  KeptOK(b)'
  BY <1>0, <1>a, <1>c DEF MemoInv, Memo!TypeOK, KeptOK
<1> QED
  BY <1>1, <1>2, <1>3, <1>4, <1>5 DEF MemoInv

\* The entries of an argument nobody works on lie under one key, unless two
\* threads did at a time or a call raised: both go.
LEMMA DiesKeepsInv ==
  ASSUME MemoConstants, MemoInv, NEW a \in Args, Memo!Dies(a)
  PROVE  MemoInv'
<1>0. /\ a \in live /\ \A t \in Threads : ~Memo!Uses(t, a)
      /\ live' = live \ {a}
      /\ cache' = [cache EXCEPT ![a] = None]
      /\ kept' = [kept EXCEPT ![a] = None]
      /\ locks' = [locks EXCEPT ![a] = IF cache[a] = @ THEN None ELSE @]
      /\ UNCHANGED <<made, arg, pc, call, mutex, holder, value, waited, raised,
                  outside>>
  BY DEF Memo!Dies
<1>a. /\ cache'[a] = None /\ locks'[a] = (IF cache[a] = locks[a] THEN None
                                          ELSE locks[a])
      /\ \A b \in Args \ {a} :
           cache'[b] = cache[b] /\ kept'[b] = kept[b] /\ locks'[b] = locks[b]
  BY <1>0 DEF MemoInv, Memo!TypeOK
<1>1. Memo!TypeOK'
  BY <1>0 DEF MemoInv, Memo!TypeOK
<1>2. SameValues'
  BY <1>0 DEF MemoInv, SameValues
<1>6. \A b \in Args : KeptOK(b)'
  BY <1>0, <1>a DEF MemoInv, KeptOK
<1>3. ASSUME NEW t \in Threads
      PROVE  ThreadOK(t)'
  <2>1. Memo!Busy(t) => arg[call[t]] # a /\ arg[call[t]] \in Args
    BY <1>0 DEF MemoInv, Memo!TypeOK, ThreadOK, Memo!Uses
  <2> QED
    BY <1>0, <1>a, <2>1 DEF MemoInv, ThreadOK, Memo!Busy
<1>4. ASSUME NEW c \in Memo!Calls
      PROVE  CallOK(c)'
  <2>1. arg[c] \in live' => arg[c] \in Args \ {a} /\ arg[c] \in live
    BY <1>0 DEF MemoInv, Memo!TypeOK
  <2> QED
    BY <1>0, <1>a, <2>1 DEF MemoInv, CallOK
<1>5. ASSUME NEW b \in Args
      PROVE  EntriesOK(b)'
  <2>1. \A t \in Threads : Memo!Uses(t, b)' <=> Memo!Uses(t, b)
    BY <1>0 DEF Memo!Uses, Memo!Busy
  <2> QED
    BY <1>0, <1>a, <2>1 DEF MemoInv, EntriesOK
<1> QED
  BY <1>1, <1>2, <1>3, <1>4, <1>5, <1>6 DEF MemoInv

\* Every step of a thread, and of the garbage collector, keeps the invariant.
LEMMA MemoStep == MemoConstants /\ MemoInv /\ [Memo!Next]_(Memo!vars) => MemoInv'
<1> SUFFICES ASSUME MemoConstants, MemoInv, [Memo!Next]_(Memo!vars)
             PROVE  MemoInv'
  OBVIOUS
<1>1. CASE UNCHANGED Memo!vars
  BY <1>1 DEF Memo!vars, MemoInv, Memo!TypeOK, SameValues, ThreadOK, CallOK,
     EntriesOK, KeptOK, Memo!Busy, Memo!Uses
<1>2. ASSUME NEW t \in Threads, Memo!Step(t)
      PROVE  MemoInv'
  BY <1>2, EnterKeepsInv, WithinKeepsInv, HitKeepsInv, ComputedKeepsInv,
     RaisedKeepsInv, AgainKeepsInv DEF Memo!Step
<1> QED
  BY <1>1, <1>2, DiesKeepsInv DEF Memo!Next

\* The whole makes the assumptions of this part.
LEMMA MemoConstantsHold == MemoConstants
BY PortalAssumption DEF MemoConstants, Memo!Calls

\* The same of the whole, while this part runs.
LEMMA MemoRuns == PortalSpec => [](part = "memo" => MemoInv)
<1>1. PortalInit => (part = "memo" => MemoInv)
  BY InitMemo, MemoConstantsHold DEF PortalInit
<1>2. (part = "memo" => MemoInv) /\ [PortalNext]_allvars
        => (part = "memo" => MemoInv)'
  BY StepOfPart, MemoStep, MemoConstantsHold
<1> QED
  BY <1>1, <1>2, PTL DEF PortalSpec

(***************************************************************************)
(* "The cached value is returned instead of calling the decorated function *)
(* again": all the calls with one argument that return what they got under *)
(* its lock have one value, and the function never runs twice at a time    *)
(* under it; what is got outside of it, after a TypeError, is returned to  *)
(* one caller alone (memoized).                                            *)
(***************************************************************************)
THEOREM MemoizedCalledOnce == PortalSpec => []CalledOnce
<1>1. (part = "memo" => MemoInv) => CalledOnce
  <2> SUFFICES ASSUME part = "memo", MemoInv
               PROVE  Memo!CalledOnce
    BY DEF CalledOnce
  <2>1. ASSUME NEW c \in Memo!Calls, value[c] \in outside
        PROVE  value[c] = c
    <3>1. value[c] # None
      BY <2>1, MemoConstantsHold DEF MemoConstants, MemoInv, Memo!TypeOK
    <3> QED
      BY <2>1, <3>1 DEF MemoInv, CallOK
  <2> QED
    BY <2>1, Exclusive DEF MemoInv, SameValues, Memo!CalledOnce
<1> QED
  BY MemoRuns, <1>1, PTL

(***************************************************************************)
(* The cache keeps nothing for an argument that is gone, nor its lock      *)
(* unless two threads worked on it at a time or a call raised (memoized,   *)
(* remove).                                                                *)
(***************************************************************************)
THEOREM MemoizedKeepsNothing == PortalSpec => []NothingKept
<1>1. (part = "memo" => MemoInv) => NothingKept
  <2> SUFFICES ASSUME part = "memo", MemoInv, NEW a \in Args \ live
               PROVE  /\ cache[a] = None
                      /\ locks[a] = None \/ a \in waited \cup raised
    BY DEF Memo!NothingKept, NothingKept
  <2>1. \A t \in Threads : ~Memo!Uses(t, a)
    BY DEF MemoInv, ThreadOK, Memo!Uses
  <2> QED
    BY <2>1 DEF MemoInv, EntriesOK
<1> QED
  BY MemoRuns, <1>1, PTL

-----------------------------------------------------------------------------
(* The paged tables.                                                       *)

\* Paging counts as FiniteSets does.
LEMMA Counts == \A S : Table!Cardinality(S) = Cardinality(S)
BY Zenon DEF Table!Cardinality, Cardinality

\* The rows that come before or after x in an answer of that order.
Past(S, x, dir) ==
  IF dir = "desc" THEN Table!Above(S, x) ELSE Table!Below(S, x)
Beyond(S, x, dir) ==
  IF dir = "desc" THEN Table!Below(S, x) ELSE Table!Above(S, x)
Orders == {"desc", "asc"}

\* Past is a strict and total order, in either direction.
LEMMA PastIsOrder ==
  ASSUME NEW S \in SUBSET Nat, NEW dir \in Orders
  PROVE  /\ \A x \in S :
              Past(S, x, dir) \subseteq S /\ x \notin Past(S, x, dir)
         /\ \A x, y \in S :
              /\ x = y \/ x \in Past(S, y, dir) \/ y \in Past(S, x, dir)
              /\ y \in Past(S, x, dir) =>
                   /\ x \notin Past(S, y, dir)
                   /\ Past(S, y, dir) \subseteq Past(S, x, dir)
              /\ y \in Beyond(S, x, dir) <=> x \in Past(S, y, dir)
         /\ \A T \in SUBSET S, x \in S :
              Past(T, x, dir) = T \cap Past(S, x, dir)
<1> USE DEF Past, Beyond, Table!Above, Table!Below
<1>1. \A T \in SUBSET S, x \in S : Past(T, x, dir) = T \cap Past(S, x, dir)
  OBVIOUS
<1>2. \A x \in S : Past(S, x, dir) \subseteq S /\ x \notin Past(S, x, dir)
  OBVIOUS
<1>3. ASSUME NEW x \in S, NEW y \in S
      PROVE  /\ x = y \/ x \in Past(S, y, dir) \/ y \in Past(S, x, dir)
             /\ y \in Past(S, x, dir) => x \notin Past(S, y, dir)
             /\ y \in Beyond(S, x, dir) <=> x \in Past(S, y, dir)
  OBVIOUS
<1>4. ASSUME NEW x \in S, NEW y \in S, y \in Past(S, x, dir),
             NEW z \in S, z \in Past(S, y, dir)
      PROVE  z \in Past(S, x, dir)
  BY <1>4
<1> QED
  <2> HIDE DEF Past, Beyond
  <2> QED
    BY <1>1, <1>2, <1>3, <1>4

\* Every set of rows that is not empty has a first and a last one.
LEMMA HasFirst ==
  ASSUME NEW S \in SUBSET Nat, IsFiniteSet(S), S # {}, NEW dir \in Orders
  PROVE  \E x \in S : Past(S, x, dir) = {}
<1> DEFINE T == {Past(S, x, dir) : x \in S}
<1>1. T \subseteq FiniteSubsetsOf(S) /\ T # {}
  <2>1. \A x \in S : Past(S, x, dir) \in SUBSET S
    BY PastIsOrder
  <2>2. \A x \in S : IsFiniteSet(Past(S, x, dir))
    BY <2>1, FS_Subset
  <2> QED
    BY <2>1, <2>2 DEF FiniteSubsetsOf
<1>2. PICK P \in T : \A Q \in T : <<Q, P>> \notin StrictSubsetOrdering(S)
  BY <1>1, FS_StrictSubsetOrderingWellFounded, WFMin, Zenon
<1>3. PICK x \in S : P = Past(S, x, dir)
  BY <1>2
<1>4. ASSUME NEW y \in Past(S, x, dir) PROVE FALSE
  <2>1. /\ y \in S /\ Past(S, x, dir) \subseteq S
        /\ Past(S, y, dir) \subseteq Past(S, x, dir)
        /\ y \notin Past(S, y, dir)
    BY PastIsOrder
  <2>2. <<Past(S, y, dir), P>> \in StrictSubsetOrdering(S)
    BY <2>1, <1>3 DEF StrictSubsetOrdering
  <2> QED
    BY <2>1, <2>2, <1>2
<1> QED
  BY <1>4

\* A set of rows has a last one as well, in either direction.
LEMMA HasLast ==
  ASSUME NEW S \in SUBSET Nat, IsFiniteSet(S), S # {}, NEW dir \in Orders
  PROVE  \E x \in S : Beyond(S, x, dir) = {}
<1> DEFINE back == IF dir = "desc" THEN "asc" ELSE "desc"
<1>1. back \in Orders
  BY DEF Orders
<1>2. PICK x \in S : Past(S, x, back) = {}
  BY <1>1, HasFirst
<1>3. Past(S, x, back) = Beyond(S, x, dir)
  BY DEF Past, Beyond, Orders
<1> QED
  BY <1>2, <1>3

-----------------------------------------------------------------------------
\* What the first rows of an answer are: closed towards its front, and no
\* more than were asked for.
LEMMA FirstRows ==
  ASSUME NEW A \in SUBSET Nat, IsFiniteSet(A), NEW n \in Nat,
         NEW dir \in Orders
  PROVE  LET F == Table!FirstOf(A, n, dir) IN
         /\ F \subseteq A /\ IsFiniteSet(F) /\ Cardinality(F) <= n
         /\ F = {x \in A : Cardinality(Past(A, x, dir)) < n}
         /\ \A x \in F : /\ Past(A, x, dir) \subseteq F
                         /\ Past(F, x, dir) = Past(A, x, dir)
<1> DEFINE F == Table!FirstOf(A, n, dir)
<1>1. F = {x \in A : Cardinality(Past(A, x, dir)) < n}
  BY Counts DEF Table!FirstOf, Past
<1> HIDE DEF F
<1>2. F \subseteq A /\ IsFiniteSet(F)
  BY <1>1, FS_Subset
<1>3. \A x \in A : /\ Past(A, x, dir) \subseteq A
                   /\ IsFiniteSet(Past(A, x, dir))
                   /\ Cardinality(Past(A, x, dir)) \in Nat
  <2>1. \A x \in A : Past(A, x, dir) \in SUBSET A
    BY PastIsOrder
  <2> QED
    BY <2>1, FS_Subset, FS_CardinalityType
<1>4. ASSUME NEW x \in F, NEW y \in Past(A, x, dir) PROVE y \in F
  <2>1. y \in A /\ x \in A /\ Past(A, y, dir) \in SUBSET Past(A, x, dir)
    BY <1>2, <1>3, PastIsOrder
  <2>2. Cardinality(Past(A, y, dir)) <= Cardinality(Past(A, x, dir))
    BY <1>3, <2>1, FS_Subset
  <2> QED
    BY <1>1, <1>3, <2>1, <2>2
<1>5. ASSUME NEW x \in F PROVE Past(F, x, dir) = Past(A, x, dir)
  <2>1. Past(F, x, dir) = F \cap Past(A, x, dir)
    BY <1>2, PastIsOrder
  <2> QED
    BY <1>4, <2>1
<1>6. Cardinality(F) <= n
  <2>1. CASE F = {}
    BY <2>1, FS_EmptySet
  <2>2. CASE F # {}
    <3>1. PICK x \in F : Beyond(F, x, dir) = {}
      BY <1>2, <2>2, HasLast
    <3>2. x \in A /\ F \in SUBSET Nat
      BY <1>2
    <3>3. F = Past(A, x, dir) \cup {x} /\ x \notin Past(A, x, dir)
      <4>1. \A y \in F : y = x \/ y \in Past(F, x, dir)
        BY <3>1, <3>2, PastIsOrder
      <4>2. x \notin Past(A, x, dir) /\ Past(A, x, dir) \subseteq F
        BY <1>4, <3>2, PastIsOrder
      <4> QED
        BY <1>5, <4>1, <4>2
    <3>4. Cardinality(F) = Cardinality(Past(A, x, dir)) + 1
      BY <1>3, <3>2, <3>3, FS_AddElement
    <3> QED
      BY <1>1, <1>3, <3>2, <3>4
  <2> QED
    BY <2>1, <2>2
<1> QED
  BY <1>1, <1>2, <1>4, <1>5, <1>6 DEF F

\* If there is a row that is not among the first n, there are n of these, and
\* the next row has no others before it.
LEMMA RowAfter ==
  ASSUME NEW A \in SUBSET Nat, IsFiniteSet(A), NEW n \in Nat,
         NEW dir \in Orders, A # Table!FirstOf(A, n, dir)
  PROVE  LET F == Table!FirstOf(A, n, dir) IN
         /\ Cardinality(F) = n
         /\ \E x \in A \ F : Past(A, x, dir) = F
<1> DEFINE F == Table!FirstOf(A, n, dir)
<1>1. /\ F \subseteq A /\ IsFiniteSet(F) /\ Cardinality(F) <= n
      /\ F = {x \in A : Cardinality(Past(A, x, dir)) < n}
      /\ \A x \in F : Past(A, x, dir) \subseteq F
  BY FirstRows
<1> HIDE DEF F
<1>2. A \ F \in SUBSET Nat /\ IsFiniteSet(A \ F) /\ A \ F # {}
  BY <1>1, FS_Subset DEF F
<1>3. PICK x \in A \ F : Past(A \ F, x, dir) = {}
  BY <1>2, HasFirst
<1>4. Past(A, x, dir) = F
  <2>1. Past(A \ F, x, dir) = (A \ F) \cap Past(A, x, dir)
    BY PastIsOrder
  <2>2. Past(A, x, dir) \subseteq A
    BY PastIsOrder
  <2>3. ASSUME NEW y \in F PROVE y \in Past(A, x, dir)
    <3>1. x \notin Past(A, y, dir)
      BY <1>1
    <3> QED
      BY <1>1, <3>1, PastIsOrder
  <2> QED
    BY <1>3, <2>1, <2>2, <2>3
<1>5. Cardinality(F) = n
  <2>1. Cardinality(F) \in Nat
    BY <1>1, FS_CardinalityType
  <2>2. ~(Cardinality(F) < n)
    BY <1>1, <1>4
  <2> QED
    BY <1>1, <2>1, <2>2
<1> QED
  BY <1>4, <1>5 DEF F

-----------------------------------------------------------------------------
\* The page a link leads to: what it shows, and what it says there is beyond.
LEMMA PageOf ==
  ASSUME NEW A \in SUBSET Nat, IsFiniteSet(A), NEW dir \in Orders
  PROVE  LET F == Table!FirstOf(A, Size + 1, dir)
             E == Table!FirstOf(F, Size, dir)
         IN  /\ E \subseteq A /\ Cardinality(E) <= Size
             /\ \A x \in E : Past(A, x, dir) \subseteq E
             /\ A # {} => E # {}
             /\ Table!Cardinality(F) > Size <=> A # E
<1> DEFINE F == Table!FirstOf(A, Size + 1, dir)
           E == Table!FirstOf(F, Size, dir)
<1>0. Size \in Nat /\ Size > 0 /\ Size + 1 \in Nat
  BY PortalAssumption
<1>1. /\ F \subseteq A /\ IsFiniteSet(F)
      /\ F = {x \in A : Cardinality(Past(A, x, dir)) < Size + 1}
      /\ \A x \in F : /\ Past(A, x, dir) \subseteq F
                      /\ Past(F, x, dir) = Past(A, x, dir)
  BY <1>0, FirstRows
<1>2. /\ A # F => \E x \in A \ F : Past(A, x, dir) = F
      /\ A # F => Cardinality(F) = Size + 1
  BY <1>0, RowAfter
<1> HIDE DEF F
<1>3. F \in SUBSET Nat /\ IsFiniteSet(F)
  BY <1>1
<1>4. /\ E \subseteq F /\ IsFiniteSet(E) /\ Cardinality(E) <= Size
      /\ \A x \in E : Past(F, x, dir) \subseteq E
  BY <1>0, <1>3, FirstRows
<1>5. ASSUME F # E PROVE Cardinality(E) = Size
  BY <1>0, <1>3, <1>5, RowAfter
<1>6. Cardinality(F) \in Nat /\ Cardinality(E) \in Nat
  BY <1>1, <1>4, FS_CardinalityType
<1> HIDE DEF E
<1>7. \A x \in E : Past(A, x, dir) \subseteq E
  BY <1>1, <1>4
<1>8. ASSUME E = {} PROVE A = {}
  <2>1. F = {}
    BY <1>0, <1>5, <1>8, FS_EmptySet
  <2> QED
    BY <1>0, <1>2, <2>1, FS_EmptySet
<1>9. ASSUME A = E PROVE ~(Cardinality(F) > Size)
  <2>1. F = E
    BY <1>1, <1>4, <1>9
  <2> QED
    BY <1>0, <1>4, <1>6, <2>1
<1>10. ASSUME A # E PROVE Cardinality(F) > Size
  <2>1. CASE A # F
    BY <1>0, <1>2, <2>1
  <2>2. CASE A = F
    <3>1. Cardinality(E) = Size /\ E \in SUBSET F /\ E # F
      BY <1>4, <1>5, <1>10, <2>2
    <3>2. Cardinality(E) <= Cardinality(F) /\ Cardinality(F) # Cardinality(E)
      BY <1>1, <3>1, FS_Subset
    <3> QED
      BY <1>0, <1>6, <3>1, <3>2
  <2> QED
    BY <2>1, <2>2
<1> QED
  BY <1>1, <1>4, <1>7, <1>8, <1>9, <1>10, Counts DEF E, F

-----------------------------------------------------------------------------
\* While the user pages one way, what is owed lies that way; without a link
\* that leads further nothing is.
PageInv ==
  /\ Table!TypeOK /\ Table!LinksAreTrue
  /\ way = "down" =>
       /\ page = {} \/ ~more => owed = {}
       /\ \A x \in owed, y \in page : x < y
  /\ way = "up" =>
       /\ page = {} \/ ~prev => owed = {}
       /\ \A x \in owed, y \in page : x > y

\* No page has been shown.
LEMMA InitPaging == Table!Init => PageInv
BY PortalAssumption DEF Table!Init, PageInv, Table!TypeOK, Table!LinksAreTrue

\* Rows are numbered, and there are finitely many.
LEMMA FiniteRows ==
  ASSUME Table!TypeOK, NEW S \in SUBSET (1 .. born)
  PROVE  S \in SUBSET Nat /\ IsFiniteSet(S)
<1>1. born \in Int /\ 1 .. born \subseteq Nat
  BY DEF Table!TypeOK
<1>2. IsFiniteSet(1 .. born)
  BY <1>1, FS_Interval
<1> QED
  BY <1>1, <1>2, FS_Subset

\* The oldest and the newest row are what they are called.
LEMMA Ends ==
  ASSUME NEW S \in SUBSET Nat, IsFiniteSet(S), S # {}
  PROVE  /\ Table!Oldest(S) \in S /\ \A y \in S : Table!Oldest(S) <= y
         /\ Table!Newest(S) \in S /\ \A y \in S : y <= Table!Newest(S)
<1>1. \E x \in S : \A y \in S : x <= y
  <2>1. PICK x \in S : Past(S, x, "asc") = {}
    BY HasFirst DEF Orders
  <2> QED
    BY <2>1 DEF Past, Table!Below
<1>2. \E x \in S : \A y \in S : y <= x
  <2>1. PICK x \in S : Past(S, x, "desc") = {}
    BY HasFirst DEF Orders
  <2> QED
    BY <2>1 DEF Past, Table!Above
<1> QED
  BY <1>1, <1>2 DEF Table!Oldest, Table!Newest

\* A page that is loaded downwards: from the front, or after the marker.
LEMMA LoadedDown ==
  ASSUME Table!TypeOK, NEW m \in rows \cup {Table!NoMarker}
  PROVE  LET A == Table!Answer(m, "desc")
             E == Table!Entities(m, "desc")
         IN  /\ A \subseteq rows /\ E \subseteq A
             /\ Cardinality(E) <= Size
             /\ E = {} => A = {}
             /\ \A x \in E, y \in rows :
                  y > x => y \in E \/ (m # Table!NoMarker /\ y >= m)
             /\ \A x \in A : m # Table!NoMarker => x < m
             /\ Table!HasMore(m, "desc") <=> A # E
             /\ Table!HasPrev(m, "desc") <=> m # Table!NoMarker
<1> DEFINE A == Table!Answer(m, "desc")
           F == Table!FirstOf(A, Size + 1, "desc")
           E == Table!FirstOf(F, Size, "desc")
<1>1. /\ A \subseteq rows
      /\ m = Table!NoMarker => A = rows
      /\ m # Table!NoMarker => A = {y \in rows : y < m}
  BY DEF Table!Answer, Table!Below
<1>2. rows \in SUBSET Nat /\ rows \in SUBSET (1 .. born)
  BY FiniteRows DEF Table!TypeOK
<1> HIDE DEF A
<1>3. A \in SUBSET Nat /\ IsFiniteSet(A)
  BY <1>1, <1>2, FiniteRows
<1>4. /\ E \subseteq A /\ Cardinality(E) <= Size
      /\ \A x \in E : Past(A, x, "desc") \subseteq E
      /\ A # {} => E # {}
      /\ Table!Cardinality(F) > Size <=> A # E
  BY <1>3, PageOf DEF Orders
<1>5. E = Table!Entities(m, "desc") /\ F = Table!Fetched(m, "desc")
  BY DEF Table!Entities, Table!Fetched, A
<1> HIDE DEF E, F
<1>6. ASSUME NEW x \in E, NEW y \in rows, y > x,
             ~(m # Table!NoMarker /\ y >= m)
      PROVE  y \in E
  <2>1. y \in A /\ x \in Nat /\ y \in Nat
    BY <1>1, <1>2, <1>4, <1>6 DEF Table!NoMarker
  <2>2. y \in Past(A, x, "desc")
    BY <2>1, <1>6 DEF Past, Table!Above
  <2> QED
    BY <2>2, <1>4
<1>7. /\ Table!HasMore(m, "desc") <=> A # E
      /\ Table!HasPrev(m, "desc") <=> m # Table!NoMarker
  BY <1>4, <1>5 DEF Table!HasMore, Table!HasPrev
<1> QED
  BY <1>1, <1>4, <1>5, <1>6, <1>7 DEF A

\* A page that is loaded upwards, from a marker.
LEMMA LoadedUp ==
  ASSUME Table!TypeOK, NEW m \in rows, m # Table!NoMarker
  PROVE  LET A == Table!Answer(m, "asc")
             E == Table!Entities(m, "asc")
         IN  /\ A \subseteq rows /\ E \subseteq A
             /\ Cardinality(E) <= Size
             /\ E = {} => A = {}
             /\ \A x \in E, y \in rows : y < x => y \in E \/ y <= m
             /\ \A x \in A : x > m
             /\ Table!HasMore(m, "asc")
             /\ Table!HasPrev(m, "asc") <=> A # E
<1> DEFINE A == Table!Answer(m, "asc")
           F == Table!FirstOf(A, Size + 1, "asc")
           E == Table!FirstOf(F, Size, "asc")
<1>1. A = {y \in rows : y > m}
  BY DEF Table!Answer, Table!Above
<1>2. rows \in SUBSET Nat /\ rows \in SUBSET (1 .. born)
  BY FiniteRows DEF Table!TypeOK
<1> HIDE DEF A
<1>3. A \in SUBSET Nat /\ IsFiniteSet(A)
  BY <1>1, <1>2, FiniteRows
<1>4. /\ E \subseteq A /\ Cardinality(E) <= Size
      /\ \A x \in E : Past(A, x, "asc") \subseteq E
      /\ A # {} => E # {}
      /\ Table!Cardinality(F) > Size <=> A # E
  BY <1>3, PageOf DEF Orders
<1>5. E = Table!Entities(m, "asc") /\ F = Table!Fetched(m, "asc")
  BY DEF Table!Entities, Table!Fetched, A
<1> HIDE DEF E, F
<1>6. ASSUME NEW x \in E, NEW y \in rows, y < x, ~(y <= m) PROVE y \in E
  <2>1. y \in A /\ x \in Nat /\ y \in Nat
    BY <1>1, <1>2, <1>4, <1>6
  <2>2. y \in Past(A, x, "asc")
    BY <2>1, <1>6 DEF Past, Table!Below
  <2> QED
    BY <2>2, <1>4
<1>7. Table!HasMore(m, "asc") /\ (Table!HasPrev(m, "asc") <=> A # E)
  BY <1>4, <1>5 DEF Table!HasMore, Table!HasPrev
<1> QED
  BY <1>1, <1>4, <1>5, <1>6, <1>7 DEF A

-----------------------------------------------------------------------------
\* What the user finds when the page cannot be had.
LEMMA LoadFailed ==
  ASSUME PageInv, page' = {}, more' = FALSE, prev' = FALSE, pageFresh' = FALSE,
         way' = "none", owed' = {}, UNCHANGED <<rows, born>>
  PROVE  PageInv'
BY DEF PageInv, Table!TypeOK, Table!LinksAreTrue

\* A page from the front, or one after the last row of a page.
LEMMA LoadDown ==
  ASSUME PageInv, NEW m,
         m = Table!NoMarker \/ (page # {} /\ m = Table!Oldest(page)),
         Table!Load(m, "desc")
  PROVE  PageInv'
<1> DEFINE A == Table!Answer(m, "desc")
           E == Table!Entities(m, "desc")
<1>1. CASE page' = {} /\ more' = FALSE /\ prev' = FALSE /\ pageFresh' = FALSE
           /\ way' = "none" /\ owed' = {} /\ UNCHANGED <<rows, born>>
  BY <1>1, LoadFailed
<1>2. CASE /\ m \in rows \cup {Table!NoMarker}
           /\ page' = E
           /\ more' = Table!HasMore(m, "desc")
           /\ prev' = Table!HasPrev(m, "desc")
           /\ way' = "down"
           /\ owed' = (IF m # Table!NoMarker /\ way' = way THEN owed ELSE A)
                        \ page'
           /\ pageFresh' = TRUE /\ UNCHANGED <<rows, born>>
  <2>1. /\ A \subseteq rows /\ E \subseteq A
        /\ Cardinality(E) <= Size
        /\ E = {} => A = {}
        /\ \A x \in E, y \in rows :
             y > x => y \in E \/ (m # Table!NoMarker /\ y >= m)
        /\ \A x \in A : m # Table!NoMarker => x < m
        /\ more' <=> A # E
        /\ prev' <=> m # Table!NoMarker
    BY <1>2, LoadedDown DEF PageInv
  <2>2. \A y \in rows : y \in A \/ (m # Table!NoMarker /\ ~(y < m))
    BY DEF Table!Answer, Table!Below
  <2>3. rows \in SUBSET Nat /\ m \in Nat
    BY <1>2, FiniteRows DEF PageInv, Table!TypeOK, Table!NoMarker
  <2>4. more' \in BOOLEAN /\ prev' \in BOOLEAN
    BY <1>2 DEF Table!HasMore, Table!HasPrev
  <2> HIDE DEF A, E
  <2>5. owed' \subseteq A \ E
    <3>1. CASE m # Table!NoMarker /\ way' = way
      <4>1. \A x \in owed : x \in rows /\ x < m
        <5>1. page # {} /\ m \in page
          BY <3>1, FiniteRows, Ends DEF PageInv, Table!TypeOK
        <5> QED
          BY <1>2, <3>1, <5>1 DEF PageInv, Table!TypeOK
      <4> QED
        BY <1>2, <2>2, <2>3, <3>1, <4>1
    <3>2. CASE ~(m # Table!NoMarker /\ way' = way)
      BY <1>2, <3>2
    <3> QED
      BY <3>1, <3>2
  <2>6. ASSUME NEW x \in A \ E, NEW y \in E PROVE x < y
    BY <2>1, <2>3
  <2>7. Table!TypeOK'
    BY <1>2, <2>1, <2>4, <2>5 DEF PageInv, Table!TypeOK
  <2>8. ASSUME E # {} PROVE Table!LinksAreTrue'
    <3> DEFINE o == Table!Oldest(E)
               n == Table!Newest(E)
    <3>1. o \in E /\ n \in E /\ \A y \in E : o <= y /\ y <= n
      <4>1. E \in SUBSET Nat /\ IsFiniteSet(E)
        BY <2>1, FiniteRows DEF PageInv, Table!TypeOK
      <4> QED
        BY <2>8, <4>1, Ends
    <3>2. /\ Table!Oldest(page)' = o /\ Table!Newest(page)' = n
      BY <1>2
    <3> HIDE DEF o, n
    <3>3. o \in Nat /\ n \in Nat /\ o \in A /\ n \in A
      BY <2>1, <2>3, <3>1
    <3>4. ASSUME NEW y \in rows, y < n, y > o PROVE y \in E
      BY <2>1, <2>3, <3>1, <3>3, <3>4
    <3>5. more' <=> {y \in rows : y < o} # {}
      <4>1. ASSUME NEW y \in A, y \notin E PROVE y \in rows /\ y < o
        BY <2>1, <2>6, <3>1, <4>1
      <4>2. ASSUME NEW y \in rows, y < o PROVE y \in A \ E
        BY <2>1, <2>2, <2>3, <3>1, <3>3, <4>2
      <4> QED
        BY <2>1, <4>1, <4>2
    <3>6. prev' <=> {y \in rows : y > n} # {}
      <4>1. ASSUME m # Table!NoMarker PROVE m \in rows /\ m > n
        BY <1>2, <2>1, <2>3, <3>3, <4>1
      <4>2. ASSUME NEW y \in rows, y > n PROVE m # Table!NoMarker
        BY <2>1, <2>3, <3>1, <3>3, <4>2
      <4> QED
        BY <2>1, <4>1, <4>2
    <3> QED
      BY <1>2, <2>1, <3>2, <3>4, <3>5, <3>6, Counts
      DEF Table!LinksAreTrue, Table!Above, Table!Below
  <2>9. Table!LinksAreTrue'
    BY <1>2, <2>8 DEF Table!LinksAreTrue
  <2> QED
    BY <1>2, <2>1, <2>5, <2>6, <2>7, <2>9 DEF PageInv
<1> QED
  BY <1>1, <1>2 DEF Table!Load

\* A page before the first row of a page.
LEMMA LoadUp ==
  ASSUME PageInv, page # {}, NEW m, m = Table!Newest(page),
         Table!Load(m, "asc")
  PROVE  PageInv'
<1> DEFINE A == Table!Answer(m, "asc")
           E == Table!Entities(m, "asc")
<1>0. m \in page /\ m \in Nat /\ m # Table!NoMarker
  <2>1. page \in SUBSET Nat /\ IsFiniteSet(page) /\ page \subseteq 1 .. born
        /\ born \in Nat
    BY FiniteRows DEF PageInv, Table!TypeOK
  <2>2. m \in page
    BY <2>1, Ends
  <2> QED
    BY <2>1, <2>2 DEF Table!NoMarker
<1>1. CASE page' = {} /\ more' = FALSE /\ prev' = FALSE /\ pageFresh' = FALSE
           /\ way' = "none" /\ owed' = {} /\ UNCHANGED <<rows, born>>
  BY <1>1, LoadFailed
<1>2. CASE /\ m \in rows \cup {Table!NoMarker}
           /\ page' = E
           /\ more' = Table!HasMore(m, "asc")
           /\ prev' = Table!HasPrev(m, "asc")
           /\ way' = "up"
           /\ owed' = (IF m # Table!NoMarker /\ way' = way THEN owed ELSE A)
                        \ page'
           /\ pageFresh' = TRUE /\ UNCHANGED <<rows, born>>
  <2>0. m \in rows
    BY <1>0, <1>2
  <2>1. /\ A \subseteq rows /\ E \subseteq A
        /\ Cardinality(E) <= Size
        /\ E = {} => A = {}
        /\ \A x \in E, y \in rows : y < x => y \in E \/ y <= m
        /\ \A x \in A : x > m
        /\ more'
        /\ prev' <=> A # E
    BY <1>0, <1>2, <2>0, LoadedUp DEF PageInv
  <2>2. \A y \in rows : y \in A \/ ~(y > m)
    BY <1>0 DEF Table!Answer, Table!Above
  <2>3. rows \in SUBSET Nat
    BY FiniteRows DEF PageInv, Table!TypeOK
  <2>4. more' \in BOOLEAN /\ prev' \in BOOLEAN
    BY <1>2 DEF Table!HasMore, Table!HasPrev
  <2> HIDE DEF A, E
  <2>5. owed' \subseteq A \ E
    <3>1. CASE way' = way
      <4>1. \A x \in owed : x \in rows /\ x > m
        BY <1>0, <1>2, <3>1 DEF PageInv, Table!TypeOK
      <4> QED
        BY <1>2, <2>2, <2>3, <3>1, <4>1
    <3>2. CASE way' # way
      BY <1>2, <3>2
    <3> QED
      BY <3>1, <3>2
  <2>6. ASSUME NEW x \in A \ E, NEW y \in E PROVE x > y
    BY <1>0, <2>1, <2>3
  <2>7. Table!TypeOK'
    BY <1>2, <2>1, <2>4, <2>5 DEF PageInv, Table!TypeOK
  <2>8. ASSUME E # {} PROVE Table!LinksAreTrue'
    <3> DEFINE o == Table!Oldest(E)
               n == Table!Newest(E)
    <3>1. o \in E /\ n \in E /\ \A y \in E : o <= y /\ y <= n
      <4>1. E \in SUBSET Nat /\ IsFiniteSet(E)
        BY <2>1, FiniteRows DEF PageInv, Table!TypeOK
      <4> QED
        BY <2>8, <4>1, Ends
    <3>2. /\ Table!Oldest(page)' = o /\ Table!Newest(page)' = n
      BY <1>2
    <3> HIDE DEF o, n
    <3>3. o \in Nat /\ n \in Nat /\ o \in A /\ n \in A
      BY <2>1, <2>3, <3>1
    <3>4. ASSUME NEW y \in rows, y < n, y > o PROVE y \in E
      BY <1>0, <2>1, <2>3, <3>1, <3>3, <3>4
    <3>5. more' /\ {y \in rows : y < o} # {}
      <4>1. m \in rows /\ m < o
        BY <1>0, <2>0, <2>1, <2>3, <3>3
      <4> QED
        BY <2>1, <4>1
    <3>6. prev' <=> {y \in rows : y > n} # {}
      <4>1. ASSUME NEW y \in A, y \notin E PROVE y \in rows /\ y > n
        BY <2>1, <2>6, <3>1, <4>1
      <4>2. ASSUME NEW y \in rows, y > n PROVE y \in A \ E
        BY <1>0, <2>1, <2>2, <2>3, <3>1, <3>3, <4>2
      <4> QED
        BY <2>1, <4>1, <4>2
    <3> QED
      BY <1>2, <2>1, <3>2, <3>4, <3>5, <3>6, Counts
      DEF Table!LinksAreTrue, Table!Above, Table!Below
  <2>9. Table!LinksAreTrue'
    BY <1>2, <2>8 DEF Table!LinksAreTrue
  <2> QED
    BY <1>2, <2>1, <2>5, <2>6, <2>7, <2>9 DEF PageInv
<1> QED
  BY <1>1, <1>2 DEF Table!Load

\* What users and the service do keeps the invariant.
LEMMA PageStep == PageInv /\ [Table!Next]_(Table!vars) => PageInv'
<1> SUFFICES ASSUME PageInv, [Table!Next]_(Table!vars) PROVE PageInv'
  OBVIOUS
<1>1. CASE Table!Open
  BY <1>1, LoadDown DEF Table!Open
<1>2. CASE Table!NextPage
  BY <1>2, LoadDown DEF Table!NextPage, Table!Marker
<1>3. CASE Table!PrevPage
  <2>1. CASE Table!PrevMarker = Table!NoMarker
    BY <1>3, <2>1, LoadDown DEF Table!PrevPage
  <2>2. CASE Table!PrevMarker # Table!NoMarker
    BY <1>3, <2>2, LoadUp DEF Table!PrevPage, Table!PrevMarker
  <2> QED
    BY <2>1, <2>2
<1>4. CASE Table!Created
  <2>1. Table!TypeOK'
    <3>1. born' = born + 1 /\ born \in Nat /\ born' \in 0 .. MaxRows
      BY <1>4, PortalAssumption DEF Table!Created, PageInv, Table!TypeOK
    <3>2. 1 .. born \subseteq 1 .. born' /\ born' \in 1 .. born'
      BY <3>1
    <3> QED
      BY <1>4, <3>1, <3>2 DEF Table!Created, PageInv, Table!TypeOK
  <2> QED
    BY <1>4, <2>1 DEF Table!Created, PageInv, Table!LinksAreTrue
<1>5. CASE Table!Deleted
  <2>1. Table!TypeOK'
    BY <1>5 DEF Table!Deleted, PageInv, Table!TypeOK
  <2> QED
    BY <1>5, <2>1 DEF Table!Deleted, PageInv, Table!LinksAreTrue
<1>6. CASE UNCHANGED Table!vars
  BY <1>6 DEF Table!vars, PageInv, Table!TypeOK, Table!LinksAreTrue,
     Table!Newest, Table!Oldest, Table!Above, Table!Below
<1> QED
  BY <1>1, <1>2, <1>3, <1>4, <1>5, <1>6 DEF Table!Next

\* The same of the whole, while this part runs.
LEMMA TableRuns == PortalSpec => [](part = "table" => PageInv)
<1>1. PortalInit => (part = "table" => PageInv)
  BY InitPaging DEF PortalInit
<1>2. (part = "table" => PageInv) /\ [PortalNext]_allvars
        => (part = "table" => PageInv)'
  BY StepOfPart, PageStep
<1> QED
  BY <1>1, <1>2, PTL DEF PortalSpec

(***************************************************************************)
(* A page that has just been loaded holds adjacent rows, no more than it   *)
(* may, and links to more exactly where there are more, whatever the       *)
(* numbers of rows, the size and the way the user came (update_pagination).*)
(***************************************************************************)
THEOREM PagesLinkTruly == PortalSpec => []LinksAreTrue
<1>1. (part = "table" => PageInv) => LinksAreTrue
  BY DEF PageInv, LinksAreTrue
<1> QED
  BY TableRuns, <1>1, PTL

(***************************************************************************)
(* Who pages one way until there is no link has seen every row that lay    *)
(* that way and is there still, though rows, and markers, come and go      *)
(* between two pages (update_pagination, PagedTableMixin).                 *)
(***************************************************************************)
THEOREM PagesSkipNothing == PortalSpec => []NothingSkipped
<1>1. (part = "table" => PageInv) => NothingSkipped
  BY DEF PageInv, Table!NothingSkipped, NothingSkipped
<1> QED
  BY TableRuns, <1>1, PTL

-----------------------------------------------------------------------------
(* The lists with many filter values.                                      *)

\* Sets of numbers have a least one: what stands in for induction below.
LEMMA HasLeast ==
  ASSUME NEW n \in Nat, NEW S \in SUBSET (0 .. n), S # {}
  PROVE  \E k \in S : \A j \in S : ~(j < k)
<1>1. S \in SUBSET Nat /\ IsFiniteSet(S)
  <2>1. IsFiniteSet(0 .. n)
    BY FS_Interval
  <2>2. IsFiniteSet(S)
    BY <2>1, FS_Subset
  <2> QED
    BY <2>2
<1>2. PICK k \in S : Past(S, k, "asc") = {}
  BY <1>1, HasFirst DEF Orders
<1> QED
  BY <1>2 DEF Past, Table!Below

\* A sum over numbers exists, and is at most so many times the largest.
LEMMA SumExists ==
  ASSUME NEW n \in Nat, NEW w \in [1 .. n -> Nat]
  PROVE  \E f : f = [i \in 0 .. n |-> IF i = 0 THEN 0 ELSE f[i - 1] + w[i]]
<1> DEFINE Sums(f, k) == /\ f \in [0 .. k -> Nat]
                         /\ f[0] = 0
                         /\ \A i \in 1 .. k : f[i] = f[i - 1] + w[i]
           Bad == {k \in 0 .. n : ~ \E f : Sums(f, k)}
<1>1. Bad = {}
  <2> SUFFICES ASSUME Bad # {} PROVE FALSE
    OBVIOUS
  <2>1. Bad \in SUBSET (0 .. n)
    OBVIOUS
  <2>2. PICK k \in Bad : \A j \in Bad : ~(j < k)
    BY <2>1, HasLeast
  <2>3. CASE k = 0
    <3> DEFINE z == [i \in 0 .. 0 |-> 0]
    <3>1. Sums(z, 0)
      OBVIOUS
    <3> QED
      BY <2>2, <2>3, <3>1
  <2>4. CASE k # 0
    <3>1. k \in Nat /\ k \in 1 .. n /\ k - 1 \in 0 .. n /\ k - 1 < k
      BY <2>2, <2>4
    <3>2. PICK f : Sums(f, k - 1)
      BY <2>2, <3>1
    <3> DEFINE g == [i \in 0 .. k |-> IF i = k THEN f[k - 1] + w[k] ELSE f[i]]
    <3>3. g \in [0 .. k -> Nat] /\ g[0] = 0
      BY <3>1, <3>2
    <3>4. ASSUME NEW i \in 1 .. k PROVE g[i] = g[i - 1] + w[i]
      <4>1. /\ i \in 0 .. k /\ i - 1 \in 0 .. k /\ i - 1 # k
            /\ i # k => i \in 1 .. k - 1
        BY <3>1
      <4>2. g[i - 1] = f[i - 1]
        BY <4>1
      <4>3. g[i] = IF i = k THEN f[k - 1] + w[k] ELSE f[i]
        BY <4>1
      <4>4. i # k => f[i] = f[i - 1] + w[i]
        BY <3>2, <4>1
      <4> QED
        BY <4>2, <4>3, <4>4
    <3>5. Sums(g, k)
      BY <3>3, <3>4
    <3> QED
      BY <2>2, <3>5
  <2> QED
    BY <2>3, <2>4
<1>2. PICK f : Sums(f, n)
  <2>1. n \in 0 .. n
    OBVIOUS
  <2> HIDE DEF Sums
  <2> QED
    BY <1>1, <2>1
<1>3. f = [i \in 0 .. n |-> IF i = 0 THEN 0 ELSE f[i - 1] + w[i]]
  BY <1>2
<1> QED
  BY <1>2, <1>3

\* A sum of n numbers of at most M is at most n * M.
LEMMA SumBounded ==
  ASSUME NEW n \in Nat, NEW w \in [1 .. n -> Nat], NEW M \in Nat,
         \A i \in 1 .. n : w[i] <= M,
         NEW f, f = [i \in 0 .. n |-> IF i = 0 THEN 0 ELSE f[i - 1] + w[i]]
  PROVE  f[n] \in Nat /\ f[n] <= n * M
<1> DEFINE Bad == {k \in 0 .. n : ~(f[k] \in Nat /\ f[k] <= k * M)}
<1>1. Bad = {}
  <2> SUFFICES ASSUME Bad # {} PROVE FALSE
    OBVIOUS
  <2>1. Bad \in SUBSET (0 .. n)
    OBVIOUS
  <2>2. PICK k \in Bad : \A j \in Bad : ~(j < k)
    BY <2>1, HasLeast
  <2>3. k # 0
    BY <2>2
  <2>4. k \in Nat /\ k \in 1 .. n /\ k - 1 \in 0 .. n /\ k - 1 < k
    BY <2>2, <2>3
  <2>5. f[k - 1] \in Nat /\ f[k - 1] <= (k - 1) * M
    BY <2>2, <2>4
  <2>6. f[k] = f[k - 1] + w[k] /\ w[k] <= M /\ w[k] \in Nat
    BY <2>4
  <2>7. (k - 1) * M + M = k * M /\ k * M \in Nat /\ (k - 1) * M \in Nat
    BY <2>4
  <2> HIDE DEF Bad
  <2>8. f[k] \in Nat /\ f[k] <= k * M
    <3> DEFINE p == (k - 1) * M
               q == k * M
    <3>1. p + M = q /\ p \in Nat /\ q \in Nat /\ f[k - 1] <= p
      BY <2>5, <2>7
    <3> HIDE DEF p, q
    <3>2. ASSUME NEW a \in Nat, a <= p, NEW b \in Nat, b <= M
          PROVE  a + b \in Nat /\ a + b <= q
      BY <3>1, <3>2
    <3>3. f[k] \in Nat /\ f[k] <= q
      BY <2>5, <2>6, <3>1, <3>2
    <3> QED
      BY <3>3 DEF q
  <2> QED
    BY <2>2, <2>8 DEF Bad
<1>2. n \in 0 .. n
  OBVIOUS
<1> QED
  BY <1>1, <1>2

\* What integer division gives, of the sizes that matter here.
LEMMA Divides ==
  ASSUME NEW a \in Int, NEW b \in Nat \ {0}
  PROVE  /\ a \div b \in Int /\ (a \div b) * b <= a
         /\ a >= b => a \div b >= 1
<1>1. a \div b \in Int
  OBVIOUS
<1>2. (a \div b) * b <= a
  OBVIOUS
<1>3. a >= b => a \div b >= 1
  OBVIOUS
<1> QED
  BY <1>1, <1>2, <1>3

-----------------------------------------------------------------------------
\* There are values, they have a length, and the longest has the largest.
FilterData ==
  /\ lens \in Seq(1 .. MaxLen) /\ Len(lens) \in Nat \ {0}
  /\ base \in 0 .. MaxBase

\* No value takes more room than the longest.
LEMMA LongestParam ==
  ASSUME FilterData
  PROVE  /\ Filter!FilterMaxLen \in Nat \ {0}
         /\ \A i \in 1 .. Len(lens) : /\ Filter!ParamLen(i) \in Nat
                                     /\ Filter!ParamLen(i) <= Filter!FilterMaxLen
<1> DEFINE S == Filter!ToSet(lens)
           n == Len(lens)
<1>1. /\ n \in Nat \ {0} /\ lens \in [1 .. n -> 1 .. MaxLen]
      /\ MaxLen \in Nat /\ KeyLen \in Nat
  BY LenProperties, PortalAssumption DEF FilterData
<1>2. S = {lens[i] : i \in 1 .. n}
  BY <1>1 DEF Filter!ToSet
<1>3. S \in SUBSET (1 .. MaxLen) /\ S # {} /\ \A i \in 1 .. n : lens[i] \in S
  BY <1>1, <1>2
<1> HIDE DEF S, n
<1>4. S \in SUBSET Nat /\ IsFiniteSet(S)
  <2>1. IsFiniteSet(1 .. MaxLen)
    BY <1>1, FS_Interval
  <2>2. IsFiniteSet(S)
    BY <1>3, <2>1, FS_Subset
  <2> QED
    BY <1>3, <2>2
<1>5. PICK x \in S : \A y \in S : x >= y
  <2>1. PICK x \in S : Past(S, x, "desc") = {}
    BY <1>3, <1>4, HasFirst DEF Orders
  <2> QED
    BY <1>4, <2>1 DEF Past, Table!Above
<1>6. Filter!Max(S) \in S /\ \A y \in S : Filter!Max(S) >= y
  BY <1>5 DEF Filter!Max
<1>7. Filter!FilterMaxLen = KeyLen + Filter!Max(S) + 2
  BY DEF Filter!FilterMaxLen, S
<1>8. \A i \in 1 .. n : Filter!ParamLen(i) = KeyLen + lens[i] + 2
  BY DEF Filter!ParamLen
<1>9. ASSUME NEW i \in 1 .. n
      PROVE  /\ Filter!ParamLen(i) \in Nat
             /\ Filter!ParamLen(i) <= Filter!FilterMaxLen
  <2>1. lens[i] \in S /\ lens[i] \in Nat /\ Filter!Max(S) \in Nat
        /\ lens[i] <= Filter!Max(S)
    BY <1>3, <1>4, <1>6
  <2> QED
    BY <1>1, <1>7, <1>8, <2>1
<1>10. Filter!FilterMaxLen \in Nat \ {0}
  <2>1. Filter!Max(S) \in Nat
    BY <1>4, <1>6
  <2> QED
    BY <1>1, <1>7, <2>1
<1> QED
  BY <1>9, <1>10 DEF n

\* What the filter of some of the values is long.
LEMMA FilterLenBounded ==
  ASSUME FilterData, NEW vs \in Seq(1 .. Len(lens))
  PROVE  /\ Filter!FilterLen(vs) \in Nat
         /\ Filter!FilterLen(vs) <= Len(vs) * Filter!FilterMaxLen
<1> DEFINE n == Len(vs)
           w == [i \in 1 .. n |-> Filter!ParamLen(vs[i])]
<1>1. n \in Nat /\ vs \in [1 .. n -> 1 .. Len(lens)]
  BY LenProperties
<1>2. /\ Filter!FilterMaxLen \in Nat
      /\ \A i \in 1 .. n : /\ Filter!ParamLen(vs[i]) \in Nat
                          /\ Filter!ParamLen(vs[i]) <= Filter!FilterMaxLen
  BY <1>1, LongestParam
<1>3. w \in [1 .. n -> Nat] /\ \A i \in 1 .. n : w[i] <= Filter!FilterMaxLen
  BY <1>2
<1> DEFINE IsSum(f) ==
             f = [i \in 0 .. n |->
                    IF i = 0 THEN 0 ELSE f[i - 1] + Filter!ParamLen(vs[i])]
<1>a. \A i \in 0 .. n : i # 0 => i \in 1 .. n /\ w[i] = Filter!ParamLen(vs[i])
  BY <1>1
<1> HIDE DEF w, n
<1>4. ASSUME NEW f
      PROVE  [i \in 0 .. n |-> IF i = 0 THEN 0 ELSE f[i - 1] + w[i]]
             = [i \in 0 .. n |->
                  IF i = 0 THEN 0 ELSE f[i - 1] + Filter!ParamLen(vs[i])]
  BY <1>a
<1>5. \E f : IsSum(f)
  <2>1. PICK f :
          f = [i \in 0 .. n |-> IF i = 0 THEN 0 ELSE f[i - 1] + w[i]]
    BY <1>1, <1>3, SumExists
  <2>2. IsSum(f)
    BY <1>4, <2>1
  <2> HIDE DEF IsSum
  <2> QED
    BY <2>2
<1> DEFINE sum == CHOOSE f : IsSum(f)
<1>6. IsSum(sum)
  BY <1>5
<1>7. Filter!FilterLen(vs) = sum[n]
  BY DEF Filter!FilterLen, n
<1> HIDE DEF sum
<1>8. sum = [i \in 0 .. n |-> IF i = 0 THEN 0 ELSE sum[i - 1] + w[i]]
  BY <1>4, <1>6
<1>10. sum[n] <= n * Filter!FilterMaxLen /\ sum[n] \in Nat
  BY <1>1, <1>2, <1>3, <1>8, SumBounded
<1> QED
  BY <1>7, <1>10 DEF n

\* The values are asked for by their places.
LEMMA ValuesInPlace ==
  ASSUME FilterData
  PROVE  /\ Filter!N \in Nat \ {0}
         /\ Filter!Values \in Seq(1 .. Filter!N)
         /\ Len(Filter!Values) = Filter!N
         /\ \A i \in 1 .. Filter!N : Filter!Values[i] = i
BY DEF FilterData, Filter!N, Filter!Values

\* The values a chunk asks for.
LEMMA SliceInPlace ==
  ASSUME FilterData, from \in Nat, from < Filter!N, chunk \in Nat \ {0}
  PROVE  /\ Filter!Slice \in Seq(1 .. Filter!N)
         /\ Len(Filter!Slice) = IF from + chunk < Filter!N THEN chunk
                               ELSE Filter!N - from
         /\ \A i \in 1 .. Len(Filter!Slice) : Filter!Slice[i] = from + i
<1> DEFINE to == IF from + chunk < Filter!N THEN from + chunk ELSE Filter!N
<1>1. /\ Filter!N \in Nat /\ Filter!Values \in Seq(1 .. Filter!N)
      /\ Len(Filter!Values) = Filter!N
      /\ \A i \in 1 .. Filter!N : Filter!Values[i] = i
  BY ValuesInPlace
<1>2. /\ to \in 1 .. Filter!N /\ from + 1 \in 1 .. Filter!N
      /\ from + 1 <= to /\ to \in Nat /\ from + 1 \in Nat
  BY <1>1
<1>3. to - (from + 1) + 1 = IF from + chunk < Filter!N THEN chunk
                            ELSE Filter!N - from
  BY <1>1
<1>4. Filter!Slice = SubSeq(Filter!Values, from + 1, to)
  BY DEF Filter!Slice
<1> HIDE DEF to
<1>5. /\ Filter!Slice \in Seq(1 .. Filter!N)
      /\ Len(Filter!Slice) = to - (from + 1) + 1
      /\ \A i \in 1 .. to - (from + 1) + 1 :
           Filter!Slice[i] = Filter!Values[(from + 1) + i - 1]
  BY <1>1, <1>2, <1>4, SubSeqProperties
<1>6. ASSUME NEW i \in 1 .. Len(Filter!Slice) PROVE Filter!Slice[i] = from + i
  <2>1. (from + 1) + i - 1 = from + i /\ from + i \in 1 .. Filter!N
    BY <1>1, <1>2, <1>5
  <2> QED
    BY <1>1, <1>5, <2>1
<1> QED
  BY <1>3, <1>5, <1>6

-----------------------------------------------------------------------------
\* What has been listed are the first values, in their order; and a chunk is
\* never empty, nor too long where a value has room.
Room == base + Filter!FilterMaxLen <= Limit
Listed(n) == Len(got) = n /\ \A i \in 1 .. n : got[i] = i
FilterInv ==
  /\ FilterData /\ Filter!TypeOK
  /\ listStep = "try" => from = 0 /\ got = <<>>
  /\ listStep = "loop" => chunk \in Nat \ {0}
  /\ Room =>
       /\ listStep # "refused"
       /\ listStep = "loop" =>
            /\ chunk * Filter!FilterMaxLen <= Limit - base
            /\ Listed(IF from < Filter!N THEN from ELSE Filter!N)
       /\ listStep = "done" => got = Filter!Values

\* Nothing has been asked for.
LEMMA InitFilter == Filter!Init => FilterInv
<1> SUFFICES ASSUME Filter!Init PROVE FilterInv
  OBVIOUS
<1>1. PICK n \in 1 .. MaxValues : lens \in [1 .. n -> 1 .. MaxLen]
  BY PortalAssumption DEF Filter!Init
<1>2. n \in Nat \ {0}
  BY <1>1, PortalAssumption
<1>3. lens \in Seq(1 .. MaxLen)
  BY <1>1, <1>2, SeqDef
<1>4. Len(lens) = n
  BY <1>1, <1>2, <1>3, LenProperties
<1> QED
  BY <1>2, <1>3, <1>4 DEF Filter!Init, FilterInv, FilterData, Filter!TypeOK

\* Listing all the values at once.
LEMMA ListedAll ==
  ASSUME FilterData, Listed(Filter!N), got \in Seq(1 .. Filter!N)
  PROVE  got = Filter!Values
<1>1. /\ Filter!N \in Nat /\ Filter!Values \in Seq(1 .. Filter!N)
      /\ Len(Filter!Values) = Filter!N
      /\ \A i \in 1 .. Filter!N : Filter!Values[i] = i
  BY ValuesInPlace
<1> QED
  BY <1>1, SeqEqual DEF Listed

\* The list with all values is had, or refused for its length.
LEMMA TryKeepsFilter == FilterInv /\ Filter!Try => FilterInv'
<1> SUFFICES ASSUME FilterInv, Filter!Try PROVE FilterInv'
  OBVIOUS
<1> USE DEF Filter!Try, Filter!Ends, Filter!Answered
<1>1. /\ UNCHANGED <<lens, base, Filter!N, Filter!FilterMaxLen, Filter!Values>>
      /\ UNCHANGED <<holds, from, chunk>>
  BY DEF Filter!N, Filter!FilterMaxLen, Filter!Values
<1>2. listStep = "try" /\ listStep' \in {"done", "error"}
  OBVIOUS
<1>3. got' \in Seq(1 .. Filter!N)
  <2>1. Filter!Values \in Seq(1 .. Filter!N) /\ got \in Seq(1 .. Filter!N)
    BY ValuesInPlace DEF FilterInv, Filter!TypeOK
  <2> QED
    BY <2>1, ConcatProperties
<1>4. listStep' = "done" => got' = Filter!Values
  <2>1. Filter!Values \in Seq(1 .. Filter!N) /\ got = <<>>
    BY ValuesInPlace DEF FilterInv
  <2> QED
    BY <2>1, ConcatEmptySeq
<1> QED
  BY <1>1, <1>2, <1>3, <1>4 DEF FilterInv, FilterData, Filter!TypeOK, Room,
     Listed

\* A size of chunks is computed, of which each fits.
LEMMA TooLongKeepsFilter == FilterInv /\ Filter!TooLong => FilterInv'
<1> SUFFICES ASSUME FilterInv, Filter!TooLong PROVE FilterInv'
  OBVIOUS
<1> DEFINE b == Filter!FilterMaxLen
           c == Filter!ChunkSize
<1>1. /\ UNCHANGED <<lens, base, Filter!N, Filter!FilterMaxLen, Filter!Values>>
      /\ UNCHANGED <<holds, from, got>>
  BY DEF Filter!TooLong, Filter!N, Filter!FilterMaxLen, Filter!Values
<1>2. /\ listStep = "try" /\ from = 0 /\ got = <<>> /\ chunk' = c
      /\ listStep' = CASE c > 0 -> "loop"
                       [] c = 0 -> "error"
                       [] c < 0 -> "done"
  BY DEF Filter!TooLong, FilterInv
<1>3. b \in Nat \ {0} /\ base \in Int /\ Limit \in Int
  BY LongestParam, PortalAssumption DEF FilterInv, FilterData
<1>4. c = (Limit - base) \div b
  <2>1. Filter!FilterLen(Filter!Values) \in Nat
    BY FilterLenBounded, ValuesInPlace DEF FilterInv, Filter!N
  <2>2. Filter!AllowedLen = Limit - base
    BY <1>3, <2>1 DEF Filter!AllowedLen, Filter!Excess
  <2> QED
    BY <2>2 DEF Filter!ChunkSize
<1> HIDE DEF b, c
<1>5. c \in Int /\ c * b <= Limit - base /\ (Limit - base >= b => c >= 1)
  BY <1>3, <1>4, Divides
<1>6. Room => c >= 1
  BY <1>3, <1>5 DEF Room, b
<1>7. listStep' \in {"loop", "error", "done"} /\ (listStep' = "loop" => c > 0)
      /\ (c >= 1 => listStep' = "loop")
  BY <1>2, <1>5
<1>8. Room' => Listed(IF from < Filter!N THEN from ELSE Filter!N)'
  BY <1>1, <1>2, ValuesInPlace DEF Listed, FilterInv
<1> QED
  BY <1>1, <1>2, <1>5, <1>6, <1>7, <1>8 DEF FilterInv, FilterData,
     Filter!TypeOK, Room, b

\* The next chunk follows what has been asked for.
LEMMA ChunkKeepsFilter == FilterInv /\ Filter!Chunk => FilterInv'
<1> SUFFICES ASSUME FilterInv, Filter!Chunk PROVE FilterInv'
  OBVIOUS
<1> DEFINE k == Len(Filter!Slice)
<1>1. /\ UNCHANGED <<lens, base, Filter!N, Filter!FilterMaxLen, Filter!Values>>
      /\ UNCHANGED <<holds, chunk>>
  BY DEF Filter!Chunk, Filter!Ends, Filter!N, Filter!FilterMaxLen,
         Filter!Values
<1>2. /\ FilterData /\ from \in Nat /\ from < Filter!N /\ listStep = "loop"
      /\ chunk \in Nat \ {0} /\ Filter!N \in Nat
      /\ got \in Seq(1 .. Filter!N)
  BY ValuesInPlace DEF FilterInv, Filter!TypeOK, Filter!Chunk
<1>3. /\ Filter!Slice \in Seq(1 .. Filter!N)
      /\ k = IF from + chunk < Filter!N THEN chunk ELSE Filter!N - from
      /\ \A i \in 1 .. k : Filter!Slice[i] = from + i
  BY <1>2, SliceInPlace
<1>4. CASE /\ got' = got \o Filter!Slice
           /\ from' = from + chunk /\ UNCHANGED listStep
  <2>1. /\ got' \in Seq(1 .. Filter!N)
        /\ Len(got') = Len(got) + k
        /\ \A i \in 1 .. Len(got) + k :
             got'[i] = IF i <= Len(got) THEN got[i]
                       ELSE Filter!Slice[i - Len(got)]
    BY <1>2, <1>3, <1>4, ConcatProperties
  <2>2. ASSUME Room
        PROVE  Listed(IF from < Filter!N THEN from ELSE Filter!N)'
    <3>1. Len(got) = from /\ \A i \in 1 .. from : got[i] = i
      BY <1>2, <2>2 DEF FilterInv, Listed
    <3>2. k \in Nat
          /\ (IF from < Filter!N THEN from ELSE Filter!N)' = from + k
      BY <1>1, <1>2, <1>3, <1>4
    <3> HIDE DEF k
    <3>3. ASSUME NEW i \in 1 .. from + k PROVE got'[i] = i
      <4>1. CASE i <= from
        BY <1>2, <2>1, <3>1, <3>2, <4>1
      <4>2. CASE ~(i <= from)
        <5>1. i - from \in 1 .. k /\ from + (i - from) = i
          BY <1>2, <3>2, <4>2
        <5> QED
          BY <1>2, <1>3, <2>1, <3>1, <3>2, <4>2, <5>1
      <4> QED
        BY <4>1, <4>2
    <3> QED
      BY <2>1, <3>1, <3>2, <3>3 DEF Listed
  <2> QED
    BY <1>1, <1>2, <1>4, <2>1, <2>2 DEF FilterInv, FilterData, Filter!TypeOK,
       Room
<1>5. CASE /\ Filter!Excess(Filter!Slice) > 0 /\ listStep' = "refused"
           /\ UNCHANGED <<from, got>>
  <2>1. ~Room
    <3> SUFFICES ASSUME Room PROVE FALSE
      OBVIOUS
    <3> DEFINE b == Filter!FilterMaxLen
               l == Filter!FilterLen(Filter!Slice)
    <3>1. chunk * b <= Limit - base
      BY <1>2 DEF FilterInv
    <3>2. b \in Nat /\ l \in Nat /\ l <= k * b
      BY <1>2, <1>3, LongestParam, FilterLenBounded DEF Filter!N
    <3>3. k \in Nat /\ k <= chunk
      BY <1>2, <1>3
    <3>4. base \in Int /\ Limit \in Int /\ base + l - Limit > 0
      BY <1>2, <1>5, PortalAssumption DEF FilterData, Filter!Excess
    <3> HIDE DEF b, l, k
    <3>5. k * b <= chunk * b /\ k * b \in Int /\ chunk * b \in Int
      BY <1>2, <3>2, <3>3
    <3> DEFINE x == k * b
               y == chunk * b
    <3>6. x \in Int /\ y \in Int /\ x <= y /\ y <= Limit - base /\ l <= x
      BY <3>1, <3>2, <3>5
    <3> HIDE DEF x, y
    <3> QED
      BY <3>2, <3>4, <3>6
  <2> QED
    BY <1>1, <1>2, <1>5, <2>1 DEF FilterInv, FilterData, Filter!TypeOK, Room
<1>6. CASE listStep' = "error" /\ UNCHANGED <<from, got>>
  BY <1>1, <1>2, <1>6 DEF FilterInv, FilterData, Filter!TypeOK, Room
<1> QED
  BY <1>4, <1>5, <1>6 DEF Filter!Chunk, Filter!Ends, Filter!Answered

\* At the end everything has been asked for.
LEMMA ReturnKeepsFilter == FilterInv /\ Filter!Return => FilterInv'
<1> SUFFICES ASSUME FilterInv, Filter!Return PROVE FilterInv'
  OBVIOUS
<1> USE DEF Filter!Return, Filter!Ends
<1>1. /\ UNCHANGED <<lens, base, Filter!N, Filter!FilterMaxLen, Filter!Values>>
      /\ UNCHANGED <<holds, from, chunk, got>>
  BY DEF Filter!N, Filter!FilterMaxLen, Filter!Values
<1>2. ASSUME Room PROVE got = Filter!Values
  <2>1. /\ FilterData /\ got \in Seq(1 .. Filter!N)
        /\ from \in Nat /\ from >= Filter!N /\ Filter!N \in Nat
    BY ValuesInPlace DEF FilterInv, Filter!TypeOK
  <2>2. Listed(Filter!N)
    BY <1>2, <2>1 DEF FilterInv
  <2> QED
    BY <2>1, <2>2, ListedAll
<1> QED
  BY <1>1, <1>2 DEF FilterInv, FilterData, Filter!TypeOK, Room

\* Every step of a list keeps the invariant.
LEMMA FilterStep == FilterInv /\ [Filter!Next]_(Filter!vars) => FilterInv'
<1>1. FilterInv /\ UNCHANGED Filter!vars => FilterInv'
  BY DEF Filter!vars, FilterInv, FilterData, Filter!TypeOK, Room, Listed,
     Filter!N, Filter!FilterMaxLen, Filter!Values
<1> QED
  BY <1>1, TryKeepsFilter, TooLongKeepsFilter, ChunkKeepsFilter,
     ReturnKeepsFilter DEF Filter!Next

\* The same of the whole, while this part runs.
LEMMA FilterRuns == PortalSpec => [](part = "filter" => FilterInv)
<1>1. PortalInit => (part = "filter" => FilterInv)
  BY InitFilter DEF PortalInit
<1>2. (part = "filter" => FilterInv) /\ [PortalNext]_allvars
        => (part = "filter" => FilterInv)'
  BY StepOfPart, FilterStep
<1> QED
  BY <1>1, <1>2, PTL DEF PortalSpec

(***************************************************************************)
(* As long as the rest of the URI leaves room for one value, no chunk is   *)
(* too long, whatever the values' lengths, and a list that is returned has *)
(* been asked for with every value once, in its place                      *)
(* (list_resources_with_long_filters).                                     *)
(***************************************************************************)
THEOREM ChunksFit == PortalSpec => []AllAskedFor
<1>1. (part = "filter" => FilterInv) => AllAskedFor
  BY DEF FilterInv, Room, Filter!AllAskedFor, AllAskedFor
<1> QED
  BY FilterRuns, <1>1, PTL
=============================================================================
