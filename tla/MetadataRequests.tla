---- MODULE MetadataRequests ----
(***************************************************************************)
(* refreshPackageMetadata of src/src/index.ts: requests for a package's    *)
(* meta.json.  Each reads the branch tips from GitHub, has the package     *)
(* object observe them, asks it once to materialize if a job is pending,   *)
(* and answers.  Requests run side by side, and commits are pushed between *)
(* their steps.  A request and the materialization it asks for share a     *)
(* member of Attempts.                                                     *)
(***************************************************************************)
EXTENDS PackageObject

CONSTANTS
  Branch,    \* the default branch, the only visible one
  History    \* the commits in the order in which they are pushed to it

ASSUME HistoryAssumption ==
  /\ History \in Seq(Commits) \ {<<>>}
  /\ \A i, j \in DOMAIN History : History[i] = History[j] => i = j

\* What GitHub lists after the first i pushes; the object takes such an answer.
TipsAt(i) == [default |-> Branch, tips |-> [b \in {Branch} |-> History[i]]]

ASSUME TipsAssumption == \A i \in DOMAIN History : TipsAt(i) \in Discoveries

VARIABLES
  pushed,     \* how many commits of History were pushed; the last is the tip
  requests    \* per request, where it is and what it holds

requestVars == <<objectVars, pushed, requests>>

Waiting == [stage |-> "none"]
Discovered(d) == [stage |-> "discovered", discovery |-> d]
Asking == [stage |-> "asking"]
Materializing == [stage |-> "materializing"]
Unavailable == [stage |-> "unavailable"]
Answered(meta) == [stage |-> "answered", meta |-> meta]

\* Mutant: versions that are being materialized are listed as well.
MetaWithLeased ==
  [v \in {w \in DOMAIN versions : versions[w].state # "pending"} |->
     versions[v].state = "yanked"]

\* meta(): the published versions with their yanked marks.
Meta ==
  [v \in {w \in DOMAIN versions : versions[w].state \in Published} |->
     versions[v].state = "yanked"]

\* The last lines of refreshPackageMetadata: 503 while nothing is published and
\* some job is not done, and the metadata otherwise.
Answer ==
  IF DOMAIN Meta = {} /\ DOMAIN versions # {} THEN Unavailable ELSE Answered(Meta)

SetRequest(r, q) == requests' = [requests EXCEPT ![r] = q]

RequestInit ==
  /\ ObjectInit
  /\ pushed = 1
  /\ requests = [r \in Attempts |-> Waiting]

Push ==
  /\ pushed < Len(History)
  /\ pushed' = pushed + 1
  /\ UNCHANGED <<objectVars, requests>>

Tips == TipsAt(pushed)

\* A request arrives and discoverGitHubBranches lists the branches.
Discover(r) ==
  /\ requests[r].stage \in {"none", "unavailable", "answered"}
  /\ SetRequest(r, Discovered(Tips))
  /\ UNCHANGED <<objectVars, pushed>>

\* GitHub answers an error, or something else than branches: 404, 503 or 502.
DiscoveryFails(r) ==
  /\ requests[r].stage \in {"none", "unavailable", "answered"}
  /\ Fault
  /\ SetRequest(r, Unavailable)
  /\ UNCHANGED <<registryVars, attempts, bucket, batches, pushed>>

\* POST /refresh: the jobs in its answer decide whether to ask for work.
PostRefresh(r) ==
  /\ requests[r].stage = "discovered"
  /\ HandleRefresh(requests[r].discovery)
  /\ SetRequest(r,
       IF \E v \in DOMAIN versions' : versions'[v].state = "pending"
       THEN Asking ELSE Answer')
  /\ UNCHANGED pushed

\* Mutant: without a job to lease the object does not answer.
PostMaterializeWaiting(r) ==
  /\ requests[r].stage = "asking"
  /\ \E origin \in Origins : Materialize(r, origin)
  /\ SetRequest(r, Materializing)
  /\ UNCHANGED pushed

\* POST /materialize: the object leases a job, or has none and answers.
PostMaterialize(r) ==
  /\ requests[r].stage = "asking"
  /\ \/ /\ \E origin \in Origins : Materialize(r, origin)
        /\ SetRequest(r, Materializing)
     \/ /\ Leasable = {}
        /\ SetRequest(r, Answer)
        /\ UNCHANGED objectVars
  /\ UNCHANGED pushed

\* The materialization goes on; when it succeeds its registry is the answer, and
\* when it fails, conflicts or ends the request answers 503.
Continue(r) ==
  /\ ArchiveArrives(r) \/ ContainerAnswers(r) \/ Publish(r)
  /\ UNCHANGED <<pushed, requests>>

Succeed(r) ==
  /\ Finish(r)
  /\ SetRequest(r, IF Completable(attempts[r].version) THEN Answer' ELSE Unavailable)
  /\ UNCHANGED pushed

Fail(r) ==
  /\ \/ ServiceFails(r)
     \/ ContainerRefuses(r)
     \/ PublicationRefused(r)
     \/ StorageThrows(r)
     \/ ErrorBodyBreaks(r)
  /\ SetRequest(r, Unavailable)
  /\ UNCHANGED pushed

\* Mutant: a request whose object went away still waits for it.
LoseUnnoticed ==
  /\ Evict
  /\ UNCHANGED <<pushed, requests>>

\* The package object is evicted, and the requests that await it fail.
Lose ==
  /\ Evict
  /\ requests' = [r \in Attempts |->
       IF requests[r] = Materializing THEN Unavailable ELSE requests[r]]
  /\ UNCHANGED pushed

Elapse ==
  /\ Tick
  /\ UNCHANGED <<pushed, requests>>

Settle(r) ==
  /\ LatePut(r)
  /\ UNCHANGED <<pushed, requests>>

RequestNext ==
  \/ Push
  \/ \E r \in Attempts : Discover(r)
  \/ \E r \in Attempts : DiscoveryFails(r)
  \/ \E r \in Attempts : PostRefresh(r)
  \/ \E r \in Attempts : PostMaterialize(r)
  \/ \E r \in Attempts : Continue(r)
  \/ \E r \in Attempts : Succeed(r)
  \/ \E r \in Attempts : Fail(r)
  \/ \E r \in Attempts : Settle(r)
  \/ Lose
  \/ Elapse

RequestSpec == RequestInit /\ [][RequestNext]_requestVars

\* What a request does next when nothing goes wrong with it.
Proceed(r) ==
  \/ Discover(r)
  \/ PostRefresh(r)
  \/ PostMaterialize(r)
  \/ Continue(r)
  \/ Succeed(r)
  \/ (ContainerRefuses(r) \/ PublicationRefused(r)) /\ Fail(r)

(***************************************************************************)
(* Every request is carried on and clients keep asking, late puts are      *)
(* settled, and time passes.                                               *)
(***************************************************************************)
RequestFairness ==
  /\ \A r \in Attempts : WF_requestVars(Proceed(r)) /\ WF_requestVars(Settle(r))
  /\ WF_requestVars(Elapse)

FairRequestSpec == RequestSpec /\ RequestFairness

-----------------------------------------------------------------------------
\* The shape of the state; a materialization is under way exactly when its
\* request awaits it.
RequestTypeOK ==
  /\ ObjectTypeOK
  /\ pushed \in 1..Len(History)
  /\ \A r \in Attempts :
       /\ requests[r] \in {Waiting, Asking, Materializing, Unavailable}
            \/ requests[r].stage \in {"discovered", "answered"}
       /\ requests[r] = Materializing <=> attempts[r] # Resting

(***************************************************************************)
(* What a client was told stays true: every version in an answered         *)
(* meta.json is still advertised with the same yanked mark, and is stored, *)
(* however much the registry and the bucket have moved on.                 *)
(***************************************************************************)
AnswersStayTrue ==
  \A r \in Attempts :
    requests[r].stage = "answered" =>
      \A v \in DOMAIN requests[r].meta :
        /\ v \in DOMAIN Meta
        /\ Meta[v] = requests[r].meta[v]
        /\ \E o \in Outcomes :
             /\ Store!Complete(v, o)
             /\ o.commit = versions[v].assignment.commit
             /\ o.state = "yanked" <=> requests[r].meta[v]

(***************************************************************************)
(* Every request is answered: it never waits for work another request does *)
(* or for a lease that is not its own.                                     *)
(***************************************************************************)
EveryRequestAnswered ==
  \A r \in Attempts :
    []<>(requests[r].stage \notin {"discovered", "asking", "materializing"})

(***************************************************************************)
(* The requests of clients are enough to publish every commit they have    *)
(* discovered, each request doing one job, unless a handler was abandoned  *)
(* and left its lease behind, or an archive over the limit obstructs it:   *)
(* the job of such a commit fails every time, and is leased again before   *)
(* the jobs that come later in text order.  A job that comes before it is  *)
(* published although the other one fails for ever.                        *)
(***************************************************************************)
Obstructed(c) ==
  \E v, w \in DOMAIN versions :
    /\ versions[v].assignment.commit = c
    /\ versions[w].assignment.commit \in TooLarge
    /\ {versions[v].state, versions[w].state} \cap Published = {}
    /\ w = v \/ TextBefore(w, v)

RequestsPublishCommits ==
  \A c \in Commits : []<>(abandoned > 0 \/ ~Outstanding(c) \/ Obstructed(c))

(***************************************************************************)
(* A later commit has the later version ("later commits within a major     *)
(* continue to match", DESIGN.md), when commits are dated in the order in  *)
(* which they are pushed.                                                  *)
(***************************************************************************)
LaterCommitsMatch ==
  \A r, q \in assignments :
    \A i, j \in DOMAIN History :
      /\ r.major = q.major
      /\ r.commit = History[i]
      /\ q.commit = History[j]
      /\ i < j
      => r.sequence < q.sequence
====
