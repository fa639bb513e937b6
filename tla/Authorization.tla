---- MODULE Authorization ----
(***************************************************************************)
(* The gate of src/src/index.ts and the two objects that remember GitHub's *)
(* decisions, AdmissionDurableObjectV2 and #authorize of                   *)
(* src/src/durable-objects.ts.  A request for a package first asks whether *)
(* its caller is a trusted GitHub user, then whether that user may read    *)
(* the repository.  Each object answers from a decision that is still in   *)
(* force, or asks GitHub and stores what it learns.  Both handlers have    *)
(* the same steps, so one handler serves both questions.  Requests await   *)
(* GitHub side by side, and access is given and taken meanwhile.           *)
(*                                                                         *)
(* A caller is a PAT: its HMAC fingerprint names the admission object and  *)
(* the key of the package object.  There is one package.                   *)
(***************************************************************************)
EXTENDS Naturals

CONSTANTS
  Callers,     \* the PATs
  Requests,    \* requests that are under way side by side
  Lifetime,    \* how long a decision is in force, the 60 000 of auth.ts
  MaxDelay,    \* how long an answer of GitHub travels at most
  MaxTime,     \* bound on the clock
  MaxChanges   \* bound on the changes of access

ASSUME TimesAssumption ==
  /\ Lifetime \in Nat \ {0}
  /\ MaxDelay \in Nat
  /\ MaxTime \in Nat
  /\ MaxChanges \in Nat

VARIABLES
  now,         \* Date.now()
  access,      \* whether GitHub and the configuration answer a question with yes
  changed,     \* when access last changed
  changes,     \* how often it did
  decisions,   \* the stored decisions: "admission" and "repository:<fingerprint>"
  requests     \* per request, where it is and what it holds

authorizationVars == <<now, access, changed, changes, decisions, requests>>
world == <<access, changed, changes>>

Questions == {"admission", "repository"}
\* Nothing is stored; like a decision that ran out.
NoDecision == [granted |-> FALSE, expiresAt |-> 0, read |-> TRUE]

\* An AdmissionRecord.  "read" is kept for the properties: does the decision
\* rest on an answer that could be read?
Decision(granted, expiresAt, read) ==
  [granted |-> granted, expiresAt |-> expiresAt, read |-> read]

Idle == [stage |-> "idle"]

\* A request of a caller that arrived at a time, at a stage of a question.
Request(c, t, q, stage) ==
  [caller |-> c, arrived |-> t, question |-> q, stage |-> stage,
   reply |-> "down", sent |-> 0, expiresAt |-> 0]

At(r, stage) ==
  requests' = [requests EXCEPT ![r] =
    Request(requests[r].caller, requests[r].arrived, requests[r].question, stage)]

Stored(r) == decisions[requests[r].question][requests[r].caller]

\* A request that ended with 503 is idle.
Settled == {"passed", "denied", "misread"}

AuthorizationInit ==
  /\ now = 0
  /\ access \in [Questions -> [Callers -> BOOLEAN]]
  /\ changed = [q \in Questions |-> [c \in Callers |-> 0]]
  /\ changes = 0
  /\ decisions = [q \in Questions |-> [c \in Callers |-> NoDecision]]
  /\ requests = [r \in Requests |-> Idle]

\* A user is trusted, revoked or allowed to read the repository, or it is renamed.
Change ==
  /\ changes < MaxChanges
  /\ \E q \in Questions, c \in Callers :
       /\ access' = [access EXCEPT ![q][c] = ~access[q][c]]
       /\ changed' = [changed EXCEPT ![q][c] = now]
  /\ changes' = changes + 1
  /\ UNCHANGED <<now, decisions, requests>>

\* Answers of GitHub are read before they are older than MaxDelay.
Tick ==
  /\ now < MaxTime
  /\ \A r \in Requests :
       requests[r].stage \in {"replied", "reading"} => now < requests[r].sent + MaxDelay
  /\ now' = now + 1
  /\ UNCHANGED <<world, decisions, requests>>

\* A request with a PAT for a package of a configured scope.
Arrive(r) ==
  /\ requests[r].stage \in Settled \cup {"idle"}
  /\ \E c \in Callers :
       requests' = [requests EXCEPT ![r] = Request(c, now, "admission", "asking")]
  /\ UNCHANGED <<now, world, decisions>>

\* The gate: a denial is answered with 404, a grant leads to the next question.
Conclude(r, d) ==
  LET c == requests[r].caller
      t == requests[r].arrived
      q == requests[r].question
  IN  requests' = [requests EXCEPT ![r] =
        CASE d.granted /\ q = "admission" -> Request(c, t, "repository", "asking")
          [] d.granted /\ q = "repository" -> Request(c, t, q, "passed")
          [] ~d.granted /\ d.read -> Request(c, t, q, "denied")
          [] ~d.granted /\ ~d.read -> Request(c, t, q, "misread")]

\* Is there a stored decision that is in force?
InForce(r) == Stored(r).expiresAt > now

\* The object answers from the stored decision,
Recall(r) ==
  /\ requests[r].stage = "asking"
  /\ InForce(r)
  /\ Conclude(r, Stored(r))
  /\ UNCHANGED <<now, world, decisions>>

\* or it sends a request to GitHub.
Ask(r) ==
  /\ requests[r].stage = "asking"
  /\ ~InForce(r)
  /\ At(r, "asked")
  /\ UNCHANGED <<now, world, decisions>>

(***************************************************************************)
(* GitHub answers.  "yes": 200 with a trusted login, or with the expected  *)
(* name of the repository.  "other": 200 with another login or, after a    *)
(* rename, another name.  "no": 401 or 404.  "down": any other status.     *)
(***************************************************************************)
Reply(r) ==
  /\ requests[r].stage = "asked"
  /\ \E reply \in (IF access[requests[r].question][requests[r].caller]
                   THEN {"yes"} ELSE {"other", "no"}) \cup {"down"} :
       requests' = [requests EXCEPT ![r].stage = "replied",
                                    ![r].reply = reply,
                                    ![r].sent = now]
  /\ UNCHANGED <<now, world, decisions>>

\* storage.put and the answer; what is stored already is replaced, also when it
\* is the more recent decision.
Decide(r, d) ==
  /\ decisions' = [decisions EXCEPT ![requests[r].question][requests[r].caller] = d]
  /\ Conclude(r, d)

\* Mutant: a decision is good for twice as long.
TwiceTheLifetime == now + 2 * Lifetime

\* expiresAt of classifyGitHubResponse.
Expiry == now + Lifetime

\* Mutant: an answer that is no decision is stored as a denial.
ClassifyOutageAsDenial(r) ==
  /\ requests[r].stage = "replied"
  /\ \/ /\ requests[r].reply \in {"no", "down"}
        /\ Decide(r, Decision(FALSE, Expiry, TRUE))
     \/ /\ requests[r].reply \in {"yes", "other"}
        /\ requests' = [requests EXCEPT ![r].stage = "reading", ![r].expiresAt = Expiry]
        /\ UNCHANGED decisions
  /\ UNCHANGED <<now, world>>

\* The status and headers arrive: classifyGitHubResponse.  A denial is stored;
\* 200 has a body to read first; the rest is answered with 503 and not stored.
Classify(r) ==
  /\ requests[r].stage = "replied"
  /\ \/ /\ requests[r].reply = "down"
        /\ requests' = [requests EXCEPT ![r] = Idle]
        /\ UNCHANGED decisions
     \/ /\ requests[r].reply = "no"
        /\ Decide(r, Decision(FALSE, Expiry, TRUE))
     \/ /\ requests[r].reply \in {"yes", "other"}
        /\ requests' = [requests EXCEPT ![r].stage = "reading", ![r].expiresAt = Expiry]
        /\ UNCHANGED decisions
  /\ UNCHANGED <<now, world>>

\* Mutant: any user GitHub knows is trusted, any repository is the expected one.
ReadUnchecked(r) ==
  /\ requests[r].stage = "reading"
  /\ Decide(r, Decision(TRUE, requests[r].expiresAt, TRUE))
  /\ UNCHANGED <<now, world>>

\* The body arrives, and is compared with the trusted users or with the name.
\* One that cannot be read (`.catch(() => undefined)`) is stored as a denial.
Read(r) ==
  /\ requests[r].stage = "reading"
  /\ \/ Decide(r, Decision(requests[r].reply = "yes", requests[r].expiresAt, TRUE))
     \/ Decide(r, Decision(FALSE, requests[r].expiresAt, FALSE))
  /\ UNCHANGED <<now, world>>

\* GitHub cannot be reached, or the object is evicted: nothing is stored.
Lose(r) ==
  /\ requests[r].stage \in {"asked", "replied", "reading"}
  /\ requests' = [requests EXCEPT ![r] = Idle]
  /\ UNCHANGED <<now, world, decisions>>

AuthorizationNext ==
  \/ Change
  \/ Tick
  \/ \E r \in Requests : Arrive(r)
  \/ \E r \in Requests : Recall(r)
  \/ \E r \in Requests : Ask(r)
  \/ \E r \in Requests : Reply(r)
  \/ \E r \in Requests : Classify(r)
  \/ \E r \in Requests : Read(r)
  \/ \E r \in Requests : Lose(r)

AuthorizationSpec == AuthorizationInit /\ [][AuthorizationNext]_authorizationVars

-----------------------------------------------------------------------------
DecisionType == [granted : BOOLEAN, expiresAt : Nat, read : BOOLEAN]

RequestType ==
  [caller : Callers, arrived : Nat, question : Questions,
   stage : Settled \cup {"asking", "asked", "replied", "reading"},
   reply : {"yes", "other", "no", "down"}, sent : Nat, expiresAt : Nat]

\* The shape of the state; no decision is in force for longer than Lifetime
\* from now on, whichever request stored it ("at most 60 seconds").
AuthorizationTypeOK ==
  /\ now \in Nat
  /\ access \in [Questions -> [Callers -> BOOLEAN]]
  /\ changed \in [Questions -> [Callers -> Nat]]
  /\ changes \in Nat
  /\ decisions \in [Questions -> [Callers -> DecisionType]]
  /\ \A q \in Questions, c \in Callers :
       decisions[q][c].expiresAt <= now + Lifetime
  /\ requests \in [Requests -> RequestType \cup {Idle}]

\* Had access been as it is for long enough when the request arrived?
Steady(r, q) ==
  requests[r].arrived >= changed[q][requests[r].caller] + MaxDelay + Lifetime

(***************************************************************************)
(* Access that is taken away is gone for every request that arrives a      *)
(* lifetime and the travel of one answer later, whatever the requests      *)
(* before it stored, and in whatever order (DESIGN.md 9.2: "Revocation,    *)
(* allowlist edits ... can therefore take at most 60 seconds to affect an  *)
(* already cached caller").                                                *)
(***************************************************************************)
GrantsRunOut ==
  \A r \in Requests :
    requests[r].stage = "passed" =>
      \A q \in Questions : Steady(r, q) => access[q][requests[r].caller]

(***************************************************************************)
(* Access that is given is there as soon, and an answer that is no         *)
(* decision of GitHub denies nobody ("Do not cache timeouts, connection    *)
(* failures, GitHub 5xx responses").  Requests that are denied because the *)
(* body of an answer was lost, "misread", are not covered.                 *)
(***************************************************************************)
DenialsRunOut ==
  \A r \in Requests :
    requests[r].stage = "denied" =>
      LET q == requests[r].question
      IN  Steady(r, q) => ~access[q][requests[r].caller]
====
