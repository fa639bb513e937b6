---- MODULE AuthorizationProofs ----
(***************************************************************************)
(* Proofs about Authorization, for any callers and requests and any        *)
(* lifetime and delay.  The strengthening bounds how old a view of GitHub  *)
(* may be wherever it is held: in an answer on its way, in a stored        *)
(* decision, and in a request that has passed the first question.          *)
(***************************************************************************)
EXTENDS Authorization, TLAPS

Pending == {"asking", "asked", "replied", "reading"}

\* A verdict on a question is right, or it is from before the last change.
HeldUntil(q, c, verdict, t) == access[q][c] = verdict \/ t <= changed[q][c]

\* What a stored decision says held at most a delay and a lifetime before it expires.
DecisionOK(q, c) ==
  LET d == decisions[q][c]
  IN  \/ access[q][c] = d.granted
      \/ ~d.granted /\ ~d.read
      \/ d.expiresAt <= changed[q][c] + MaxDelay + Lifetime

\* What an answer says held when it was sent, after its request arrived.
AnswerOK(r) ==
  LET x == requests[r]
  IN  x.stage \in {"replied", "reading"} =>
        /\ x.arrived <= x.sent
        /\ x.sent <= now
        /\ now <= x.sent + MaxDelay
        /\ x.reply = "yes" => HeldUntil(x.question, x.caller, TRUE, x.sent)
        /\ x.reply \in {"other", "no"} => HeldUntil(x.question, x.caller, FALSE, x.sent)
        /\ x.stage = "reading" => /\ x.reply \in {"yes", "other"}
                                  /\ x.expiresAt <= now + Lifetime
                                  /\ x.expiresAt <= x.sent + MaxDelay + Lifetime

\* A request is not from the future, and when it is at the second question the
\* first was answered with a grant that is right or in doubt.
ProgressOK(r) ==
  LET x == requests[r]
  IN  x # Idle =>
        /\ x.arrived <= now
        /\ x.stage \in Pending /\ x.question = "repository" /\ Steady(r, "admission")
             => access["admission"][x.caller]

AInv ==
  /\ AuthorizationTypeOK
  /\ \A q \in Questions, c \in Callers : changed[q][c] <= now /\ DecisionOK(q, c)
  /\ \A r \in Requests : AnswerOK(r) /\ ProgressOK(r)
  /\ GrantsRunOut
  /\ DenialsRunOut

\* A request that is not idle has the fields of one.
LEMMA OpenRequest ==
  ASSUME AuthorizationTypeOK, NEW r \in Requests, requests[r].stage # "idle"
  PROVE  /\ requests[r] \in RequestType
         /\ requests[r] # Idle
         /\ requests[r].caller \in Callers
         /\ requests[r].question \in Questions
         /\ requests[r].arrived \in Nat
         /\ requests[r].sent \in Nat
         /\ requests[r].expiresAt \in Nat
BY DEF AuthorizationTypeOK, RequestType, Idle

\* A new request has the type of one.
LEMMA NewRequest ==
  ASSUME NEW c \in Callers, NEW t \in Nat, NEW q \in Questions,
         NEW s \in Settled \cup Pending
  PROVE  Request(c, t, q, s) \in RequestType
BY DEF Request, RequestType, Pending

\* Concluding a question with a verdict that is right, or in doubt for the
\* request, keeps the part of the invariant that is about requests.
LEMMA ConcludeKeepsRequests ==
  ASSUME AInv, NEW r \in Requests, requests[r].stage \in Pending,
         NEW d \in DecisionType, Conclude(r, d), UNCHANGED <<now, world>>,
         LET q == requests[r].question
         IN  \/ access[q][requests[r].caller] = d.granted
             \/ ~d.granted /\ ~d.read
             \/ ~Steady(r, q)
  PROVE  /\ requests' \in [Requests -> RequestType \cup {Idle}]
         /\ \A s \in Requests : AnswerOK(s)' /\ ProgressOK(s)'
         /\ GrantsRunOut'
         /\ DenialsRunOut'
<1> DEFINE c == requests[r].caller
           t == requests[r].arrived
           q == requests[r].question
<1>1. c \in Callers /\ t \in Nat /\ q \in Questions /\ t <= now /\ requests[r] # Idle
  <2>1. requests[r].stage # "idle"
    BY DEF Pending
  <2> QED
    BY <2>1, OpenRequest DEF AInv, ProgressOK
<1>2. PICK p \in Questions, st \in {"asking", "passed", "denied", "misread"} :
        /\ requests' = [requests EXCEPT ![r] = Request(c, t, p, st)]
        /\ st = "asking" => d.granted /\ q = "admission" /\ p = "repository"
        /\ st = "passed" => d.granted /\ q = "repository" /\ p = q
        /\ st = "denied" => ~d.granted /\ d.read /\ p = q
  <2>1. d.granted \in BOOLEAN /\ d.read \in BOOLEAN
    BY DEF DecisionType
  <2>2. CASE d.granted /\ q = "admission"
    BY <2>1, <2>2 DEF Conclude, Questions
  <2>3. CASE d.granted /\ q = "repository"
    BY <2>1, <2>3 DEF Conclude, Questions
  <2>4. CASE ~d.granted /\ d.read
    BY <1>1, <2>1, <2>4 DEF Conclude
  <2>5. CASE ~d.granted /\ ~d.read
    BY <1>1, <2>1, <2>5 DEF Conclude
  <2> QED
    BY <1>1, <2>1, <2>2, <2>3, <2>4, <2>5 DEF Questions
<1>3. requests' \in [Requests -> RequestType \cup {Idle}]
  <2>1. Request(c, t, p, st) \in RequestType
    BY <1>1, NewRequest DEF Settled, Pending
  <2> QED
    BY <1>2, <2>1 DEF AInv, AuthorizationTypeOK
<1>4. /\ requests'[r] = Request(c, t, p, st)
      /\ \A s \in Requests \ {r} : requests'[s] = requests[s]
  BY <1>2 DEF AInv, AuthorizationTypeOK
<1>5. \A s \in Requests \ {r}, u \in Questions : Steady(s, u)' <=> Steady(s, u)
  BY <1>4 DEF Steady, world
<1>6. \A u \in Questions : Steady(r, u)' <=> Steady(r, u)
  BY <1>4 DEF Steady, world, Request
<1>7. ASSUME NEW s \in Requests PROVE AnswerOK(s)' /\ ProgressOK(s)'
  <2>1. CASE s = r
    <3>1. AnswerOK(s)'
      BY <1>4, <2>1 DEF AnswerOK, Request
    <3>2. ProgressOK(s)'
      BY <1>1, <1>2, <1>4, <1>6, <2>1
      DEF ProgressOK, Request, Idle, Pending, Questions, world
    <3> QED
      BY <3>1, <3>2
  <2>2. CASE s # r
    BY <1>4, <1>5, <2>2 DEF AInv, AnswerOK, ProgressOK, HeldUntil, Questions, world
  <2> QED
    BY <2>1, <2>2
<1>8. ASSUME NEW s \in Requests, requests'[s].stage = "passed", NEW u \in Questions, Steady(s, u)'
      PROVE  access'[u][requests'[s].caller]
  <2>1. CASE s = r
    <3>1. st = "passed" /\ requests'[s].caller = c /\ Steady(r, u)
      BY <1>4, <1>6, <1>8, <2>1 DEF Request
    <3>2. CASE u = "repository"
      BY <1>2, <3>1, <3>2 DEF world
    <3>3. CASE u = "admission"
      BY <1>1, <1>2, <3>1, <3>3 DEF AInv, ProgressOK, world
    <3> QED
      BY <3>2, <3>3 DEF Questions
  <2>2. CASE s # r
    BY <1>4, <1>5, <1>8, <2>2 DEF AInv, GrantsRunOut, world
  <2> QED
    BY <2>1, <2>2
<1>9. ASSUME NEW s \in Requests, requests'[s].stage = "denied", Steady(s, requests[s].question)'
      PROVE  ~access'[requests'[s].question][requests'[s].caller]
  <2>1. CASE s = r
    <3>1. /\ st = "denied" /\ requests'[s].arrived = t
          /\ requests'[s].caller = c /\ requests'[s].question = q
      BY <1>2, <1>4, <1>9, <2>1 DEF Request
    <3>2. Steady(r, q)
      <4>1. t >= changed'[q][c] + MaxDelay + Lifetime
        BY <1>9, <2>1, <3>1 DEF Steady
      <4> QED
        BY <4>1 DEF Steady, world
    <3> QED
      BY <1>2, <3>1, <3>2, <2>1 DEF world
  <2>2. CASE s # r
    <3>1. requests'[s] = requests[s]
      BY <1>4, <2>2
    <3>2. Steady(s, requests[s].question)
      BY <1>9, <3>1 DEF Steady, world
    <3> QED
      BY <1>9, <3>1, <3>2 DEF AInv, DenialsRunOut, world
  <2> QED
    BY <2>1, <2>2
<1> QED
  BY <1>3, <1>7, <1>8, <1>9 DEF GrantsRunOut, DenialsRunOut

\* Storing a decision of an answered request, one that is right or rests on an
\* answer sent before the last change, keeps the invariant.
LEMMA DecideKeepsInv ==
  ASSUME AInv, NEW r \in Requests, requests[r].stage \in {"replied", "reading"},
         NEW d \in DecisionType, Decide(r, d), UNCHANGED <<now, world>>,
         d.expiresAt <= now + Lifetime,
         d.expiresAt <= requests[r].sent + MaxDelay + Lifetime,
         \/ ~d.granted /\ ~d.read
         \/ HeldUntil(requests[r].question, requests[r].caller, d.granted, requests[r].sent)
  PROVE  AInv'
<1> DEFINE c == requests[r].caller
           q == requests[r].question
<1>1. /\ c \in Callers /\ q \in Questions /\ requests[r].arrived \in Nat
      /\ requests[r].sent \in Nat /\ requests[r].arrived <= requests[r].sent
  BY OpenRequest DEF AInv, AnswerOK
<1>2. changed[q][c] \in Nat /\ now \in Nat /\ Lifetime \in Nat \ {0} /\ MaxDelay \in Nat
  BY <1>1, TimesAssumption DEF AInv, AuthorizationTypeOK
<1>3. \/ access[q][c] = d.granted
      \/ ~d.granted /\ ~d.read
      \/ ~Steady(r, q)
  BY <1>1, <1>2 DEF HeldUntil, Steady
<1>4. /\ requests' \in [Requests -> RequestType \cup {Idle}]
      /\ \A s \in Requests : AnswerOK(s)' /\ ProgressOK(s)'
      /\ GrantsRunOut'
      /\ DenialsRunOut'
  BY <1>3, ConcludeKeepsRequests DEF Decide, Pending
<1>5. decisions' = [decisions EXCEPT ![q][c] = d]
  BY DEF Decide
<1>6. /\ decisions' \in [Questions -> [Callers -> DecisionType]]
      /\ decisions'[q][c] = d
      /\ \A u \in Questions, b \in Callers :
           u # q \/ b # c => decisions'[u][b] = decisions[u][b]
  BY <1>1, <1>5 DEF AInv, AuthorizationTypeOK
<1>7. AuthorizationTypeOK'
  BY <1>4, <1>6 DEF AInv, AuthorizationTypeOK, world
<1>8. ASSUME NEW u \in Questions, NEW b \in Callers PROVE changed'[u][b] <= now' /\ DecisionOK(u, b)'
  <2>1. CASE u = q /\ b = c
    <3>1. \/ access[q][c] = d.granted
          \/ ~d.granted /\ ~d.read
          \/ d.expiresAt <= changed[q][c] + MaxDelay + Lifetime
      BY <1>1, <1>2 DEF HeldUntil, DecisionType
    <3> QED
      BY <1>6, <2>1, <3>1 DEF AInv, DecisionOK, world
  <2>2. CASE ~(u = q /\ b = c)
    BY <1>6, <2>2 DEF AInv, DecisionOK, world
  <2> QED
    BY <2>1, <2>2
<1> QED
  BY <1>4, <1>7, <1>8 DEF AInv

\* A step that gives one request another state and leaves the rest alone.
LEMMA RequestStepKeepsInv ==
  ASSUME AInv, NEW r \in Requests, NEW x \in RequestType \cup {Idle},
         requests' = [requests EXCEPT ![r] = x], UNCHANGED <<now, world, decisions>>,
         x.stage \notin Settled,
         AnswerOK(r)', ProgressOK(r)'
  PROVE  AInv'
<1>1. requests'[r] = x /\ \A s \in Requests \ {r} : requests'[s] = requests[s]
  BY DEF AInv, AuthorizationTypeOK
<1>2. AuthorizationTypeOK'
  BY DEF AInv, AuthorizationTypeOK, world
<1>3. \A q \in Questions, c \in Callers : changed'[q][c] <= now' /\ DecisionOK(q, c)'
  BY DEF AInv, DecisionOK, world
<1>4. \A s \in Requests, u \in Questions : s # r => (Steady(s, u)' <=> Steady(s, u))
  BY <1>1 DEF Steady, world
<1>5. \A s \in Requests : AnswerOK(s)' /\ ProgressOK(s)'
  BY <1>1, <1>4 DEF AInv, AnswerOK, ProgressOK, HeldUntil, Questions, world
<1>6. GrantsRunOut'
  BY <1>1, <1>4 DEF AInv, GrantsRunOut, Settled, world
<1>7. DenialsRunOut'
  BY <1>1 DEF AInv, DenialsRunOut, Settled, Steady, world
<1> QED
  BY <1>2, <1>3, <1>5, <1>6, <1>7 DEF AInv

LEMMA InitEstablishesInv == AuthorizationInit => AInv
<1> SUFFICES ASSUME AuthorizationInit PROVE AInv
  OBVIOUS
<1>1. AuthorizationTypeOK
  BY TimesAssumption DEF AuthorizationInit, AuthorizationTypeOK, NoDecision, DecisionType
<1>2. \A q \in Questions, c \in Callers : changed[q][c] <= now /\ DecisionOK(q, c)
  BY TimesAssumption DEF AuthorizationInit, DecisionOK, NoDecision
<1>3. \A r \in Requests : AnswerOK(r) /\ ProgressOK(r)
  BY DEF AuthorizationInit, AnswerOK, ProgressOK, Idle
<1>4. GrantsRunOut /\ DenialsRunOut
  BY DEF AuthorizationInit, GrantsRunOut, DenialsRunOut, Idle
<1> QED
  BY <1>1, <1>2, <1>3, <1>4 DEF AInv

LEMMA NextKeepsInv == AInv /\ [AuthorizationNext]_authorizationVars => AInv'
<1> SUFFICES ASSUME AInv, [AuthorizationNext]_authorizationVars PROVE AInv'
  OBVIOUS
<1>t. /\ now \in Nat /\ Lifetime \in Nat \ {0} /\ MaxDelay \in Nat
      /\ \A q \in Questions, c \in Callers : changed[q][c] \in Nat /\ changed[q][c] <= now
  BY TimesAssumption DEF AInv, AuthorizationTypeOK
<1>1. CASE Change
  <2>1. PICK q \in Questions, c \in Callers :
          /\ access' = [access EXCEPT ![q][c] = ~access[q][c]]
          /\ changed' = [changed EXCEPT ![q][c] = now]
    BY <1>1 DEF Change
  <2>2. UNCHANGED <<now, decisions, requests>> /\ changes' \in Nat
    BY <1>1 DEF Change, AInv, AuthorizationTypeOK
  <2>3. /\ changed'[q][c] = now
        /\ \A u \in Questions, b \in Callers :
             u # q \/ b # c => changed'[u][b] = changed[u][b] /\ access'[u][b] = access[u][b]
    BY <2>1 DEF AInv, AuthorizationTypeOK
  <2>4. AuthorizationTypeOK'
    BY <2>1, <2>2, <1>t DEF AInv, AuthorizationTypeOK
  <2>5. ASSUME NEW u \in Questions, NEW b \in Callers PROVE changed'[u][b] <= now' /\ DecisionOK(u, b)'
    <3>1. decisions[u][b].expiresAt \in Nat /\ decisions[u][b].expiresAt <= now + Lifetime
      BY DEF AInv, AuthorizationTypeOK, DecisionType
    <3> QED
      BY <1>t, <2>2, <2>3, <3>1 DEF AInv, DecisionOK
  <2>6. ASSUME NEW r \in Requests, requests[r].stage # "idle", NEW u \in Questions, Steady(r, u)'
        PROVE  Steady(r, u) /\ access'[u][requests[r].caller] = access[u][requests[r].caller]
    <3>1. requests[r].caller \in Callers /\ requests[r].arrived \in Nat /\ requests[r].arrived <= now
      BY <2>6, OpenRequest DEF AInv, ProgressOK
    <3> QED
      BY <1>t, <2>2, <2>3, <2>6, <3>1 DEF Steady
  <2>7. ASSUME NEW r \in Requests PROVE AnswerOK(r)' /\ ProgressOK(r)'
    <3>1. AnswerOK(r)'
      <4> SUFFICES ASSUME requests[r].stage \in {"replied", "reading"} PROVE AnswerOK(r)'
        BY <2>2 DEF AnswerOK
      <4>1. /\ requests[r].caller \in Callers /\ requests[r].question \in Questions
            /\ requests[r].sent \in Nat /\ requests[r].sent <= now
        BY OpenRequest DEF AInv, AnswerOK
      <4> QED
        BY <1>t, <2>2, <2>3, <4>1 DEF AInv, AnswerOK, HeldUntil
    <3>2. ProgressOK(r)'
      BY <2>2, <2>6 DEF AInv, ProgressOK, Pending, Questions
    <3> QED
      BY <3>1, <3>2
  <2>8. GrantsRunOut'
    BY <2>2, <2>6 DEF AInv, GrantsRunOut
  <2>9. DenialsRunOut'
    <3> SUFFICES ASSUME NEW r \in Requests, requests[r].stage = "denied",
                        Steady(r, requests[r].question)'
                 PROVE  ~access'[requests[r].question][requests[r].caller]
      BY <2>2 DEF DenialsRunOut
    <3>1. PICK u \in Questions : u = requests[r].question
      BY OpenRequest DEF AInv
    <3>2. Steady(r, u)'
      BY <2>2, <3>1 DEF Steady
    <3> QED
      BY <2>6, <3>1, <3>2 DEF AInv, DenialsRunOut
  <2> QED
    BY <2>4, <2>5, <2>7, <2>8, <2>9 DEF AInv
<1>2. CASE Tick
  <2>1. now' = now + 1 /\ UNCHANGED <<world, decisions, requests>>
    BY <1>2 DEF Tick
  <2>2. \A r \in Requests, u \in Questions : Steady(r, u)' <=> Steady(r, u)
    BY <2>1 DEF Steady, world
  <2>3. AuthorizationTypeOK'
    <3>1. \A q \in Questions, c \in Callers : decisions[q][c].expiresAt \in Nat
      BY DEF AInv, AuthorizationTypeOK, DecisionType
    <3> QED
      BY <1>t, <2>1, <3>1 DEF AInv, AuthorizationTypeOK, world
  <2>4. \A q \in Questions, c \in Callers : changed'[q][c] <= now' /\ DecisionOK(q, c)'
    BY <1>t, <2>1 DEF AInv, DecisionOK, world
  <2>5. ASSUME NEW r \in Requests PROVE AnswerOK(r)' /\ ProgressOK(r)'
    <3>1. AnswerOK(r)'
      <4> SUFFICES ASSUME requests[r].stage \in {"replied", "reading"} PROVE AnswerOK(r)'
        BY <2>1 DEF AnswerOK
      <4>1. /\ requests[r].sent \in Nat /\ requests[r].expiresAt \in Nat
            /\ now < requests[r].sent + MaxDelay
        BY <1>2, OpenRequest DEF AInv, Tick
      <4> QED
        BY <1>t, <2>1, <4>1 DEF AInv, AnswerOK, HeldUntil, world
    <3>2. ProgressOK(r)'
      <4> SUFFICES ASSUME requests[r] # Idle PROVE ProgressOK(r)'
        BY <2>1 DEF ProgressOK
      <4>1. requests[r].arrived \in Nat
        BY DEF AInv, AuthorizationTypeOK, RequestType
      <4> QED
        BY <1>t, <2>1, <2>2, <4>1 DEF AInv, ProgressOK, Questions, world
    <3> QED
      BY <3>1, <3>2
  <2>6. GrantsRunOut' /\ DenialsRunOut'
    BY <2>1 DEF AInv, GrantsRunOut, DenialsRunOut, Steady, world
  <2> QED
    BY <2>3, <2>4, <2>5, <2>6 DEF AInv
<1>3. ASSUME NEW r \in Requests, Arrive(r) PROVE AInv'
  <2>1. PICK c \in Callers : requests' = [requests EXCEPT ![r] = Request(c, now, "admission", "asking")]
    BY <1>3 DEF Arrive
  <2>2. Request(c, now, "admission", "asking") \in RequestType
    BY <1>t, NewRequest DEF Questions, Pending
  <2>3. requests'[r] = Request(c, now, "admission", "asking")
    BY <2>1 DEF AInv, AuthorizationTypeOK
  <2>4. AnswerOK(r)' /\ ProgressOK(r)'
    <3>1. /\ requests'[r].stage = "asking" /\ requests'[r].question = "admission"
          /\ requests'[r].arrived = now /\ now' = now
      BY <1>3, <2>3 DEF Arrive, Request
    <3> QED
      BY <1>t, <3>1 DEF AnswerOK, ProgressOK
  <2> QED
    BY <1>3, <2>1, <2>2, <2>4, RequestStepKeepsInv DEF Arrive, Request, Settled
<1>4. ASSUME NEW r \in Requests, Recall(r) PROVE AInv'
  <2>1. /\ requests[r].caller \in Callers /\ requests[r].question \in Questions
        /\ requests[r].arrived \in Nat /\ requests[r].arrived <= now
    BY <1>4, OpenRequest DEF AInv, Recall, ProgressOK
  <2>2. Stored(r) \in DecisionType /\ Stored(r).expiresAt \in Nat /\ Stored(r).expiresAt > now
    BY <1>4, <2>1 DEF AInv, AuthorizationTypeOK, DecisionType, Recall, InForce, Stored
  <2>3. LET q == requests[r].question
        IN  \/ access[q][requests[r].caller] = Stored(r).granted
            \/ ~Stored(r).granted /\ ~Stored(r).read
            \/ ~Steady(r, q)
    BY <1>t, <2>1, <2>2 DEF AInv, DecisionOK, Stored, Steady
  <2>4. /\ requests' \in [Requests -> RequestType \cup {Idle}]
        /\ \A s \in Requests : AnswerOK(s)' /\ ProgressOK(s)'
        /\ GrantsRunOut'
        /\ DenialsRunOut'
    BY <1>4, <2>2, <2>3, ConcludeKeepsRequests DEF Recall, Pending
  <2>5. UNCHANGED <<now, world, decisions>>
    BY <1>4 DEF Recall
  <2>6. AuthorizationTypeOK'
    BY <2>4, <2>5 DEF AInv, AuthorizationTypeOK, world
  <2> QED
    BY <2>4, <2>5, <2>6 DEF AInv, DecisionOK, world
<1>5. ASSUME NEW r \in Requests, Ask(r) PROVE AInv'
  <2> DEFINE x == Request(requests[r].caller, requests[r].arrived, requests[r].question, "asked")
  <2>1. requests' = [requests EXCEPT ![r] = x] /\ UNCHANGED <<now, world, decisions>>
    BY <1>5 DEF Ask, At
  <2>2. x \in RequestType
    <3>1. requests[r].stage # "idle"
      BY <1>5 DEF Ask
    <3> QED
      BY <3>1, OpenRequest, NewRequest DEF AInv, Pending
  <2>3. requests'[r] = x
    BY <2>1 DEF AInv, AuthorizationTypeOK
  <2>4. AnswerOK(r)'
    BY <2>3 DEF AnswerOK, Request
  <2>5. ProgressOK(r)'
    <3>1. requests[r] # Idle /\ requests[r].stage = "asking"
      BY <1>5 DEF Ask, Idle
    <3> QED
      BY <2>1, <2>3, <3>1 DEF AInv, ProgressOK, Steady, Request, Pending, Questions, world
  <2> QED
    BY <2>1, <2>2, <2>4, <2>5, RequestStepKeepsInv DEF Request, Settled
<1>6. ASSUME NEW r \in Requests, Reply(r) PROVE AInv'
  <2>1. PICK reply \in {"yes", "other", "no", "down"} :
          /\ reply = "yes" => access[requests[r].question][requests[r].caller]
          /\ reply \in {"other", "no"} => ~access[requests[r].question][requests[r].caller]
          /\ requests' = [requests EXCEPT ![r].stage = "replied", ![r].reply = reply, ![r].sent = now]
    BY <1>6 DEF Reply
  <2>2. /\ requests[r] \in RequestType /\ requests[r] # Idle
        /\ requests[r].stage = "asked" /\ requests[r].arrived <= now
        /\ requests[r].question \in Questions /\ requests[r].caller \in Callers
    BY <1>6, OpenRequest DEF AInv, Reply, ProgressOK
  <2> DEFINE x == [requests[r] EXCEPT !.stage = "replied", !.reply = reply, !.sent = now]
  <2>3. requests' = [requests EXCEPT ![r] = x] /\ UNCHANGED <<now, world, decisions>>
    BY <1>6, <2>1 DEF Reply, AInv, AuthorizationTypeOK
  <2>4. /\ x \in RequestType /\ x.stage = "replied" /\ x.reply = reply /\ x.sent = now
        /\ x.caller = requests[r].caller /\ x.arrived = requests[r].arrived
        /\ x.question = requests[r].question
    BY <1>t, <2>2 DEF RequestType
  <2>5. requests'[r] = x
    BY <2>3 DEF AInv, AuthorizationTypeOK
  <2>6. AnswerOK(r)'
    <3>1. access[requests[r].question][requests[r].caller] \in BOOLEAN
      BY <2>2 DEF AInv, AuthorizationTypeOK
    <3>2. /\ requests'[r].stage = "replied" /\ requests'[r].reply = reply
          /\ requests'[r].sent = now /\ now' = now /\ access' = access
          /\ requests'[r].arrived = requests[r].arrived
          /\ requests'[r].question = requests[r].question
          /\ requests'[r].caller = requests[r].caller
      BY <2>3, <2>4, <2>5 DEF world
    <3>3. reply = "yes" => access[requests[r].question][requests[r].caller] = TRUE
      BY <2>1, <3>1
    <3>4. reply \in {"other", "no"} => access[requests[r].question][requests[r].caller] = FALSE
      BY <2>1, <3>1
    <3> QED
      BY <1>t, <2>2, <3>2, <3>3, <3>4 DEF AnswerOK, HeldUntil
  <2>7. ProgressOK(r)'
    BY <2>2, <2>3, <2>4, <2>5 DEF AInv, ProgressOK, Steady, Pending, Questions, world
  <2> QED
    BY <2>3, <2>4, <2>6, <2>7, RequestStepKeepsInv DEF Settled
<1>7. ASSUME NEW r \in Requests, Classify(r) PROVE AInv'
  <2>1. /\ requests[r] \in RequestType /\ requests[r] # Idle /\ requests[r].stage = "replied"
        /\ requests[r].sent \in Nat /\ requests[r].sent <= now /\ now <= requests[r].sent + MaxDelay
        /\ UNCHANGED <<now, world>>
    BY <1>7, OpenRequest DEF AInv, Classify, AnswerOK
  <2>2. Expiry \in Nat /\ Expiry <= now + Lifetime /\ Expiry <= requests[r].sent + MaxDelay + Lifetime
    BY <1>t, <2>1 DEF Expiry
  <2>3. CASE requests[r].reply = "down" /\ requests' = [requests EXCEPT ![r] = Idle] /\ UNCHANGED decisions
    <3>1. requests'[r] = Idle
      BY <2>3 DEF AInv, AuthorizationTypeOK
    <3>2. AnswerOK(r)' /\ ProgressOK(r)'
      BY <3>1 DEF AnswerOK, ProgressOK, Idle
    <3> QED
      BY <2>1, <2>3, <3>2, RequestStepKeepsInv DEF Idle, Settled
  <2>4. CASE requests[r].reply = "no" /\ Decide(r, Decision(FALSE, Expiry, TRUE))
    <3>1. Decision(FALSE, Expiry, TRUE) \in DecisionType
      BY <2>2 DEF Decision, DecisionType
    <3>2. HeldUntil(requests[r].question, requests[r].caller, FALSE, requests[r].sent)
      BY <2>1, <2>4 DEF AInv, AnswerOK
    <3> QED
      BY <2>1, <2>2, <2>4, <3>1, <3>2, DecideKeepsInv DEF Decision
  <2>5. CASE /\ requests[r].reply \in {"yes", "other"}
             /\ requests' = [requests EXCEPT ![r].stage = "reading", ![r].expiresAt = Expiry]
             /\ UNCHANGED decisions
    <3> DEFINE x == [requests[r] EXCEPT !.stage = "reading", !.expiresAt = Expiry]
    <3>1. requests' = [requests EXCEPT ![r] = x]
      BY <2>5 DEF AInv, AuthorizationTypeOK
    <3>2. /\ x \in RequestType /\ x.stage = "reading" /\ x.expiresAt = Expiry
          /\ x.reply = requests[r].reply /\ x.sent = requests[r].sent
          /\ x.caller = requests[r].caller /\ x.arrived = requests[r].arrived
          /\ x.question = requests[r].question
      BY <2>1, <2>2 DEF RequestType
    <3>3. requests'[r] = x
      BY <3>1 DEF AInv, AuthorizationTypeOK
    <3>4. AnswerOK(r)'
      <4>1. /\ requests'[r].stage = "reading" /\ requests'[r].expiresAt = Expiry
            /\ requests'[r].reply = requests[r].reply /\ requests'[r].sent = requests[r].sent
            /\ requests'[r].caller = requests[r].caller
            /\ requests'[r].arrived = requests[r].arrived
            /\ requests'[r].question = requests[r].question
            /\ now' = now /\ access' = access /\ changed' = changed
        BY <2>1, <3>2, <3>3 DEF world
      <4>2. AnswerOK(r)
        BY DEF AInv
      <4> QED
        BY <2>1, <2>2, <2>5, <4>1, <4>2 DEF AnswerOK, HeldUntil
    <3>5. ProgressOK(r)'
      BY <2>1, <3>2, <3>3 DEF AInv, ProgressOK, Steady, Pending, Questions, world
    <3> QED
      BY <2>1, <2>5, <3>1, <3>2, <3>4, <3>5, RequestStepKeepsInv DEF Settled
  <2> QED
    BY <1>7, <2>3, <2>4, <2>5 DEF Classify
<1>8. ASSUME NEW r \in Requests, Read(r) PROVE AInv'
  <2>1. /\ requests[r].stage = "reading" /\ requests[r].reply \in {"yes", "other"}
        /\ requests[r].sent \in Nat /\ requests[r].expiresAt \in Nat
        /\ requests[r].expiresAt <= now + Lifetime
        /\ requests[r].expiresAt <= requests[r].sent + MaxDelay + Lifetime
        /\ UNCHANGED <<now, world>>
    BY <1>8, OpenRequest DEF AInv, Read, AnswerOK
  <2>2. CASE Decide(r, Decision(requests[r].reply = "yes", requests[r].expiresAt, TRUE))
    <3>1. PICK d : d = Decision(requests[r].reply = "yes", requests[r].expiresAt, TRUE)
      OBVIOUS
    <3>2. d \in DecisionType /\ d.expiresAt = requests[r].expiresAt
      BY <2>1, <3>1 DEF Decision, DecisionType
    <3>3. HeldUntil(requests[r].question, requests[r].caller, d.granted, requests[r].sent)
      BY <2>1, <3>1 DEF AInv, AnswerOK, Decision
    <3> QED
      BY <2>1, <2>2, <3>1, <3>2, <3>3, DecideKeepsInv
  <2>3. CASE Decide(r, Decision(FALSE, requests[r].expiresAt, FALSE))
    <3>1. Decision(FALSE, requests[r].expiresAt, FALSE) \in DecisionType
      BY <2>1 DEF Decision, DecisionType
    <3> QED
      BY <2>1, <2>3, <3>1, DecideKeepsInv DEF Decision
  <2> QED
    BY <1>8, <2>2, <2>3 DEF Read
<1>9. ASSUME NEW r \in Requests, Lose(r) PROVE AInv'
  <2>1. requests' = [requests EXCEPT ![r] = Idle] /\ UNCHANGED <<now, world, decisions>>
    BY <1>9 DEF Lose
  <2>2. requests'[r] = Idle
    BY <2>1 DEF AInv, AuthorizationTypeOK
  <2>3. AnswerOK(r)' /\ ProgressOK(r)'
    BY <2>2 DEF AnswerOK, ProgressOK, Idle
  <2> QED
    BY <2>1, <2>3, RequestStepKeepsInv DEF Idle, Settled
<1>10. CASE UNCHANGED authorizationVars
  BY <1>10 DEF authorizationVars, AInv, AuthorizationTypeOK, DecisionOK, AnswerOK, ProgressOK,
     HeldUntil, GrantsRunOut, DenialsRunOut, Steady
<1> QED
  BY <1>1, <1>2, <1>3, <1>4, <1>5, <1>6, <1>7, <1>8, <1>9, <1>10 DEF AuthorizationNext

LEMMA InvHolds == AuthorizationSpec => []AInv
  BY InitEstablishesInv, NextKeepsInv, PTL DEF AuthorizationSpec

\* The state keeps its shape, and no stored decision of either object is in force
\* for longer than a lifetime from now on.
THEOREM AuthorizationTypeCorrect == AuthorizationSpec => []AuthorizationTypeOK
<1>1. AInv => AuthorizationTypeOK
  BY DEF AInv
<1> QED
  BY <1>1, InvHolds, PTL

\* The gate lets no request pass that arrives a lifetime and a delay after its
\* caller lost access, in whatever order answers were stored.
THEOREM RevocationIsBounded == AuthorizationSpec => []GrantsRunOut
<1>1. AInv => GrantsRunOut
  BY DEF AInv
<1> QED
  BY <1>1, InvHolds, PTL

\* The gate answers no request with 404 that arrives as long after its caller was
\* given access, unless the body of an accepted answer was lost.
THEOREM DenialIsBounded == AuthorizationSpec => []DenialsRunOut
<1>1. AInv => DenialsRunOut
  BY DEF AInv
<1> QED
  BY <1>1, InvHolds, PTL
====
