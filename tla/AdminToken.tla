------------------------------ MODULE AdminToken ------------------------------
(***************************************************************************)
(* The admin token every request shares (AuthWithOSIdentity).  Before a    *)
(* request is handled, its user token is validated at Keystone with the    *)
(* admin token, which is bound in the application, renewed by whichever    *)
(* requests find it expired, and trusted until its recorded expiry.        *)
(*                                                                         *)
(* A token is the time it has left: `real' at Keystone, `local' by the     *)
(* expiry the service has recorded.  Every user token is a good one.       *)
(***************************************************************************)
EXTENDS Naturals

CONSTANTS
  Requests,  \* requests that authenticate; a client sends each again
  Lifetime,  \* ticks a new admin token is valid
  MaxDelay   \* ticks a message to or from Keystone is on its way at most

ASSUME TimesAssumption ==
  /\ Lifetime \in Nat
  /\ MaxDelay \in Nat
  /\ 2 * MaxDelay < Lifetime

VARIABLES
  bound,  \* the binding InternalAdminTokenSingleton
  req,    \* for each request: where it is, its token, and for how long
  up      \* whether Keystone answers

vars == <<bound, req, up>>
-------------------------------------------------------------------------------
Left == 0 .. Lifetime

\* `good' is lost when Keystone forgets the token before its time.
Token == [real : Left, local : Left, good : BOOLEAN]

NoToken == [real |-> 0, local |-> 0, good |-> FALSE]

\* "auth": asking for an admin token; "reply": it has been issued and is on
\* its way; "check": the user token is on its way to be validated with it.
Phase == {"idle", "auth", "reply", "check", "served", "refused"}

Travelling == {"reply", "check"}

TypeOK ==
  /\ bound \in Token
  /\ req \in [Requests -> [phase : Phase, token : Token, age : 0 .. MaxDelay]]
  /\ up \in BOOLEAN

Init ==
  /\ bound = NoToken
  /\ req = [r \in Requests |-> [phase |-> "idle", token |-> NoToken, age |-> 0]]
  /\ up = TRUE
-------------------------------------------------------------------------------
Less(n) == IF n = 0 THEN 0 ELSE n - 1

Older(token) == [token EXCEPT !.real = Less(@), !.local = Less(@)]

\* A unit of time passes; what has travelled for MaxDelay arrives before.
Tick ==
  /\ \A r \in Requests : req[r].phase \in Travelling => req[r].age < MaxDelay
  /\ bound' = Older(bound)
  /\ req' = [r \in Requests |->
               [req[r] EXCEPT !.token = Older(@),
                              !.age = IF req[r].phase \in Travelling THEN @ + 1 ELSE @]]
  /\ UNCHANGED up

\* AuthedToken.expired, by the expiry the service has recorded
Expired(token) == token.local = 0

Goes(r, phase, token) ==
  req' = [req EXCEPT ![r] = [phase |-> phase, token |-> token, age |-> 0]]

Ends(r, outcome) == Goes(r, outcome, NoToken)

\* Mutant: a token that is bound is used without asking whether it expired.
SolveBound(r) ==
  /\ req[r].phase = "idle"
  /\ IF bound = NoToken THEN Goes(r, "auth", NoToken) ELSE Goes(r, "check", bound)
  /\ UNCHANGED <<bound, up>>

\* Mutant: the expiry is pushed forward whenever the token is used.
SolveSliding(r) ==
  /\ req[r].phase = "idle"
  /\ bound' = IF Expired(bound) THEN bound ELSE [bound EXCEPT !.local = Lifetime]
  /\ IF Expired(bound) THEN Goes(r, "auth", NoToken) ELSE Goes(r, "check", bound')
  /\ UNCHANGED up

\* solveAdminToken: take the bound token, or ask for a new one
Solve(r) ==
  /\ req[r].phase = "idle"
  /\ IF Expired(bound) THEN Goes(r, "auth", NoToken) ELSE Goes(r, "check", bound)
  /\ UNCHANGED <<bound, up>>

\* adminAuthToken, at Keystone
Issue(r) ==
  /\ req[r].phase = "auth"
  /\ IF up THEN Goes(r, "reply", [real |-> Lifetime, local |-> 0, good |-> TRUE])
     ELSE Ends(r, "refused")
  /\ UNCHANGED <<bound, up>>

\* Mutant: the lifetime is added to the expiry Keystone has set.
BindProlonged(r) ==
  /\ req[r].phase = "reply"
  /\ bound' = [req[r].token EXCEPT !.local = req[r].token.real + Lifetime]
  /\ Goes(r, "check", bound')
  /\ UNCHANGED up

\* The reply: digExpired counts the whole lifetime from now on, and the token
\* is bound, whatever other request has bound one in the meantime.
Bind(r) ==
  /\ req[r].phase = "reply"
  /\ bound' = [req[r].token EXCEPT !.local = Lifetime]
  /\ Goes(r, "check", bound')
  /\ UNCHANGED up

\* validateUserToken, at Keystone: it refuses an admin token it does not know.
Check(r) ==
  /\ req[r].phase = "check"
  /\ Ends(r, IF up /\ req[r].token.good /\ req[r].token.real > 0
             THEN "served" ELSE "refused")
  /\ UNCHANGED <<bound, up>>

\* authRequest has answered 401 or let the request pass; the client may come
\* again.
SendAgain(r) ==
  /\ req[r].phase \in {"served", "refused"}
  /\ Ends(r, "idle")
  /\ UNCHANGED <<bound, up>>

\* Keystone stops answering, and may forget every token it has issued.
KeystoneDown ==
  /\ up
  /\ up' = FALSE
  /\ \E good \in {TRUE, FALSE} :
       /\ bound' = [bound EXCEPT !.good = good /\ @]
       /\ req' = [r \in Requests |-> [req[r] EXCEPT !.token.good = good /\ @]]

KeystoneUp ==
  /\ ~up
  /\ up' = TRUE
  /\ UNCHANGED <<bound, req>>

Request(r) == Solve(r) \/ Issue(r) \/ Bind(r) \/ Check(r) \/ SendAgain(r)

Next ==
  \/ Tick
  \/ \E r \in Requests : Request(r)
  \/ KeystoneDown \/ KeystoneUp

Spec == Init /\ [][Next]_vars

\* Time passes, messages arrive and clients come again.
Fairness == WF_vars(Tick) /\ \A r \in Requests : WF_vars(Request(r))

FairSpec == Spec /\ Fairness
-------------------------------------------------------------------------------
(* Properties. *)

\* How much longer than Keystone the service may trust a token: no longer than
\* the reply that brought it was on its way (solveAdminToken, digExpired).
Skewed(token) == token.local <= token.real + MaxDelay

\* A token that has just been renewed is still valid when the user token it
\* was renewed for reaches Keystone: in spite of the skew, of renewals by
\* several requests at once and of replies that overtake each other, no request
\* is refused for the age of a token it has renewed itself.
FreshTokenServes ==
  \A r \in Requests :
    req[r].phase = "check" /\ req[r].token.local >= Lifetime - MaxDelay
      => req[r].token.real > 0

\* However often Keystone fails or forgets its tokens: once it stays up, the
\* stale binding is replaced in the end and requests are served again and again.
KeepsServing == <>[]up => []<>(\E r \in Requests : req[r].phase = "served")

\* Code does otherwise.  digExpired is there to make the recorded expiry a little
\* earlier than the actual one; it is later, by the time the reply took.
ExpiresFirst == bound.local <= bound.real
-------------------------------------------------------------------------------
(* The inductive invariant behind FreshTokenServes. *)

\* A reply is as old as the time it has been on its way, its token unrecorded.
ReplyAge ==
  \A r \in Requests :
    req[r].phase = "reply" => /\ req[r].token.real + req[r].age >= Lifetime
                              /\ req[r].token.local = 0

SkewInv ==
  /\ TypeOK
  /\ ReplyAge
  /\ Skewed(bound)
  /\ \A r \in Requests : Skewed(req[r].token)
=============================================================================
