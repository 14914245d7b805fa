--------------------------- MODULE AdminTokenProofs ---------------------------
(***************************************************************************)
(* Proofs about AdminToken, for all requests, lifetimes and delays: the    *)
(* recorded expiry of a token is later than the actual one by at most the  *)
(* delay of a message, and a renewed token serves the request that renewed *)
(* it.                                                                     *)
(***************************************************************************)
EXTENDS AdminToken, TLAPS

\* Time wears a token down evenly, so that its skew cannot grow.
LEMMA OlderToken ==
  ASSUME NEW token \in Token
  PROVE  /\ Older(token) \in Token
         /\ Skewed(token) => Skewed(Older(token))
         /\ Older(token).real + 1 >= token.real
         /\ token.local = 0 => Older(token).local = 0
<1>1. ASSUME NEW n \in Left
      PROVE  Less(n) \in Left /\ Less(n) + 1 >= n /\ Less(n) = IF n = 0 THEN 0 ELSE n - 1
  BY TimesAssumption DEF Less, Left
<1>2. token.real \in Left /\ token.local \in Left
  BY DEF Token
<1>3. /\ Older(token).real = Less(token.real)
      /\ Older(token).local = Less(token.local)
      /\ Older(token) \in Token
  BY <1>1, <1>2 DEF Older, Token
<1> QED
  BY <1>1, <1>2, <1>3, TimesAssumption DEF Skewed, Left

\* No token is the weakest of all.
LEMMA NoTokenIsOne == NoToken \in Token /\ Skewed(NoToken)
BY TimesAssumption DEF NoToken, Token, Left, Skewed

\* A step of one request keeps SkewInv when it goes on with a token that is
\* typed and not too skewed.
LEMMA GoesStep ==
  ASSUME SkewInv, NEW r \in Requests, NEW phase \in Phase, NEW token \in Token,
         Goes(r, phase, token), bound' \in Token, Skewed(bound'), up' \in BOOLEAN,
         Skewed(token),
         phase = "reply" => token.real = Lifetime /\ token.local = 0
  PROVE  SkewInv'
<1>1. TypeOK'
  BY TimesAssumption DEF SkewInv, TypeOK, Goes
<1>2. ReplyAge'
  BY TimesAssumption DEF SkewInv, TypeOK, ReplyAge, Goes
<1>3. \A q \in Requests : Skewed(req[q].token)'
  BY DEF SkewInv, TypeOK, Goes, Skewed
<1> QED
  BY <1>1, <1>2, <1>3 DEF SkewInv, Skewed

\* Nothing is bound at first.
LEMMA InitSkew == ASSUME Init PROVE SkewInv
BY NoTokenIsOne, TimesAssumption DEF Init, SkewInv, TypeOK, Phase, ReplyAge

\* The passing of time keeps SkewInv: what has been on its way for MaxDelay
\* arrives first.
LEMMA TickSkew == ASSUME SkewInv, Tick PROVE SkewInv'
<1>1. \A r \in Requests : /\ req[r].token \in Token
                          /\ req[r].age \in 0 .. MaxDelay
                          /\ req[r].phase \in Phase
  BY DEF SkewInv, TypeOK
<1>2. TypeOK'
  <2>1. \A r \in Requests :
          req'[r] \in [phase : Phase, token : Token, age : 0 .. MaxDelay]
    <3> SUFFICES ASSUME NEW r \in Requests
                 PROVE  req'[r] \in [phase : Phase, token : Token, age : 0 .. MaxDelay]
      OBVIOUS
    <3>1. CASE req[r].phase \in Travelling
      <4>1. req'[r] = [req[r] EXCEPT !.token = Older(req[r].token), !.age = req[r].age + 1]
        BY <3>1 DEF SkewInv, TypeOK, Tick
      <4>2. req[r].age + 1 \in 0 .. MaxDelay
        <5>1. req[r].age < MaxDelay
          BY <3>1 DEF Tick
        <5> QED BY <1>1, <5>1, TimesAssumption
      <4>3. /\ req[r] \in [phase : Phase, token : Token, age : 0 .. MaxDelay]
            /\ Older(req[r].token) \in Token
        BY <1>1, OlderToken DEF SkewInv, TypeOK
      <4> QED
        BY <4>1, <4>2, <4>3
    <3>2. CASE req[r].phase \notin Travelling
      BY <1>1, <3>2, OlderToken DEF SkewInv, TypeOK, Tick
    <3> QED BY <3>1, <3>2
  <2> QED
    BY <2>1, OlderToken DEF SkewInv, TypeOK, Tick
<1>3. ReplyAge'
  <2> SUFFICES ASSUME NEW r \in Requests, req'[r].phase = "reply"
               PROVE  /\ req'[r].token.real + req'[r].age >= Lifetime
                      /\ req'[r].token.local = 0
    BY DEF ReplyAge
  <2>1. /\ req[r].phase = "reply"
        /\ req'[r].token = Older(req[r].token)
        /\ req'[r].age = req[r].age + 1
    BY DEF Tick, SkewInv, TypeOK, Travelling
  <2>2. req[r].token.real + req[r].age >= Lifetime /\ req[r].token.local = 0
    BY <2>1 DEF SkewInv, ReplyAge
  <2>3. Older(req[r].token).real + 1 >= req[r].token.real
    BY <1>1, OlderToken
  <2>4. /\ req[r].token.real \in Nat /\ req[r].age \in Nat
        /\ Older(req[r].token).real \in Nat
    BY <1>1, OlderToken, TimesAssumption DEF Token, Left
  <2> QED
    BY <1>1, <2>1, <2>2, <2>3, <2>4, OlderToken, TimesAssumption
<1>4. Skewed(bound)' /\ \A r \in Requests : Skewed(req[r].token)'
  <2>1. Skewed(bound')
    BY OlderToken DEF SkewInv, TypeOK, Tick
  <2>2. \A r \in Requests : Skewed(req'[r].token)
    BY <1>1, OlderToken DEF SkewInv, TypeOK, Tick
  <2> QED BY <2>1, <2>2 DEF Skewed
<1> QED
  BY <1>2, <1>3, <1>4 DEF SkewInv

\* Every step of a request keeps SkewInv: digExpired adds no more skew than
\* the reply's age.
LEMMA RequestSkew == ASSUME SkewInv, NEW r \in Requests, Request(r) PROVE SkewInv'
<1>1. /\ bound \in Token /\ Skewed(bound) /\ up \in BOOLEAN
      /\ req[r].token \in Token /\ Skewed(req[r].token)
      /\ req[r].age \in 0 .. MaxDelay
  BY DEF SkewInv, TypeOK
<1>2. CASE Solve(r)
  BY <1>1, <1>2, NoTokenIsOne, GoesStep DEF Solve, Phase, Skewed
<1>3. CASE Issue(r)
  <2>1. CASE up
    <3> DEFINE new == [real |-> Lifetime, local |-> 0, good |-> TRUE]
    <3>1. new \in Token /\ Skewed(new)
      BY TimesAssumption DEF Token, Left, Skewed
    <3>2. Goes(r, "reply", new)
      BY <1>3, <2>1 DEF Issue
    <3> QED
      BY <1>1, <1>3, <3>1, <3>2, GoesStep DEF Issue, Phase, Skewed
  <2>2. CASE ~up
    BY <1>1, <1>3, <2>2, NoTokenIsOne, GoesStep DEF Issue, Ends, Phase, Skewed
  <2> QED BY <2>1, <2>2
<1>4. CASE Bind(r)
  <2> DEFINE new == [req[r].token EXCEPT !.local = Lifetime]
  <2>1. new \in Token
    BY <1>1, TimesAssumption DEF Token, Left
  <2>2. Skewed(new)
    <3>1. req[r].token.real + req[r].age >= Lifetime
      BY <1>4 DEF Bind, SkewInv, ReplyAge
    <3> QED
      BY <1>1, <3>1, TimesAssumption DEF Token, Left, Skewed
  <2>3. bound' = new /\ Goes(r, "check", new) /\ up' = up
    BY <1>4 DEF Bind
  <2> QED
    BY <1>1, <2>1, <2>2, <2>3, GoesStep DEF Phase
<1>5. CASE Check(r)
  BY <1>1, <1>5, NoTokenIsOne, GoesStep DEF Check, Ends, Phase, Skewed
<1>6. CASE SendAgain(r)
  BY <1>1, <1>6, NoTokenIsOne, GoesStep DEF SendAgain, Ends, Phase, Skewed
<1> QED
  BY <1>2, <1>3, <1>4, <1>5, <1>6 DEF Request

\* Keystone going down, and forgetting its tokens, keeps SkewInv.
LEMMA DownSkew == ASSUME SkewInv, KeystoneDown PROVE SkewInv'
<1>1. PICK good \in BOOLEAN :
        /\ bound' = [bound EXCEPT !.good = good /\ @]
        /\ req' = [r \in Requests |-> [req[r] EXCEPT !.token.good = good /\ @]]
  BY DEF KeystoneDown
<1>2. /\ bound' \in Token
      /\ bound'.real = bound.real /\ bound'.local = bound.local
  BY <1>1 DEF SkewInv, TypeOK, Token
<1>3. \A r \in Requests :
        /\ req'[r] \in [phase : Phase, token : Token, age : 0 .. MaxDelay]
        /\ req'[r].phase = req[r].phase /\ req'[r].age = req[r].age
        /\ req'[r].token.real = req[r].token.real
        /\ req'[r].token.local = req[r].token.local
  BY <1>1 DEF SkewInv, TypeOK, Token
<1>4. TypeOK'
  BY <1>1, <1>2, <1>3 DEF TypeOK, KeystoneDown
<1> QED
  BY <1>2, <1>3, <1>4 DEF SkewInv, ReplyAge, Skewed

\* SkewInv is inductive: a token is recorded as valid for at most the delay of
\* a message longer than it is (AuthedToken.digExpired).
THEOREM SkewInvariance == Spec => []SkewInv
<1>1. Init => SkewInv
  BY InitSkew
<1>2. SkewInv /\ [Next]_vars => SkewInv'
  <2> SUFFICES ASSUME SkewInv, [Next]_vars PROVE SkewInv'
    OBVIOUS
  <2>1. CASE Tick
    BY <2>1, TickSkew
  <2>2. ASSUME NEW r \in Requests, Request(r) PROVE SkewInv'
    BY <2>2, RequestSkew
  <2>3. CASE KeystoneDown
    BY <2>3, DownSkew
  <2>4. CASE KeystoneUp
    BY <2>4 DEF KeystoneUp, SkewInv, TypeOK, ReplyAge, Skewed
  <2>5. CASE UNCHANGED vars
    BY <2>5 DEF vars, SkewInv, TypeOK, ReplyAge, Skewed
  <2> QED
    BY <2>1, <2>2, <2>3, <2>4, <2>5 DEF Next
<1> QED
  BY <1>1, <1>2, PTL DEF Spec

\* A request that has just renewed the admin token is not refused for its age:
\* a message takes less than half of the token's lifetime.
THEOREM RenewalServes == Spec => []FreshTokenServes
<1>1. SkewInv => FreshTokenServes
  <2> SUFFICES ASSUME SkewInv, NEW r \in Requests,
                      req[r].token.local >= Lifetime - MaxDelay
               PROVE  req[r].token.real > 0
    BY DEF FreshTokenServes
  <2>1. Skewed(req[r].token) /\ req[r].token \in Token
    BY DEF SkewInv, TypeOK
  <2> QED
    BY <2>1, TimesAssumption DEF Skewed, Token, Left
<1> QED
  BY <1>1, SkewInvariance, PTL
=============================================================================
