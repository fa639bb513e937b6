---- MODULE MetadataRequestsProofs ----
(***************************************************************************)
(* Proofs about MetadataRequests, for any number of requests, any history  *)
(* of the default branch and any faults.  Under a request the object takes *)
(* its own steps, so OInv holds throughout; a request holds a discovery of *)
(* the branch, or an answer whose versions were published when it was made *)
(* and are final since.                                                    *)
(***************************************************************************)
EXTENDS MetadataRequests, PackageObjectProofs

\* The metadata of the jobs V, and what a request answers from them.
MetaOf(V) ==
  [v \in {w \in DOMAIN V : V[w].state \in Published} |-> V[v].state = "yanked"]
AnswerOf(V) ==
  IF DOMAIN MetaOf(V) = {} /\ DOMAIN V # {} THEN Unavailable ELSE Answered(MetaOf(V))

\* An answer meta that the jobs V still bear out.
BorneOut(meta, V) ==
  \A v \in DOMAIN meta :
    /\ v \in DOMAIN V
    /\ V[v].state \in Published
    /\ meta[v] = (V[v].state = "yanked")

\* A request q with the materialization t it may have asked for.
RequestOK(q, t, V) ==
  /\ q \in {Waiting, Asking, Materializing, Unavailable}
       \/ q.stage \in {"discovered", "answered"}
  /\ q = Materializing <=> t # Resting
  /\ q.stage = "discovered" => q.discovery \in Discoveries
  /\ q.stage = "answered" => BorneOut(q.meta, V)

RequestsOK ==
  /\ requests = [r \in Attempts |-> requests[r]]
  /\ \A r \in Attempts : RequestOK(requests[r], attempts[r], versions)

QInv ==
  /\ OInv
  /\ pushed \in 1..Len(History)
  /\ RequestsOK

-----------------------------------------------------------------------------
(***************************************************************************)
(* The object under the requests.                                          *)
(***************************************************************************)
LEMMA ObjectContinues ==
  ASSUME OInv, ObjectNext \/ UNCHANGED objectVars
  PROVE  OInv' /\ Continues(versions, versions')
<1>1. RegistryNext \/ UNCHANGED registryVars
  BY ObjectStepOfRegistry
<1>2. QED
  BY <1>1, ObjectStep, RegistryContinues DEF OInv

\* Requests share nothing but the object: what one has survives the others' steps.
LEMMA RequestKept ==
  ASSUME NEW q, NEW t, NEW u, NEW V, NEW W,
         RequestOK(q, t, V), Continues(V, W), t = Resting <=> u = Resting
  PROVE  RequestOK(q, u, W)
<1>1. ASSUME BorneOut(q.meta, V) PROVE BorneOut(q.meta, W)
  BY <1>1 DEF BorneOut, Continues
<1>2. QED
  BY <1>1 DEF RequestOK

\* A step of one request.
LEMMA OneRequest ==
  ASSUME QInv, OInv', Continues(versions, versions'), pushed' \in 1..Len(History),
         NEW r \in Attempts, NEW q, requests' = [requests EXCEPT ![r] = q],
         \A c \in Attempts \ {r} : attempts'[c] = attempts[c],
         RequestOK(q, attempts'[r], versions')
  PROVE  QInv'
<1>1. requests' = [c \in Attempts |-> IF c = r THEN q ELSE requests[c]]
  BY DEF QInv, RequestsOK
<1>2. ASSUME NEW c \in Attempts
      PROVE  RequestOK(requests'[c], attempts'[c], versions')
  <2>1. CASE c = r
    BY <1>1, <2>1
  <2>2. CASE c # r
    <3>1. RequestOK(requests[c], attempts[c], versions) /\ attempts'[c] = attempts[c]
      BY <2>2 DEF QInv, RequestsOK
    <3>2. RequestOK(requests[c], attempts'[c], versions')
      BY <3>1, RequestKept
    <3>3. QED
      BY <1>1, <2>2, <3>2
  <2>3. QED
    BY <2>1, <2>2
<1>3. RequestsOK'
  BY <1>1, <1>2 DEF RequestsOK
<1>4. QED
  BY <1>3 DEF QInv

\* A step in which no request goes on.
LEMMA NoRequest ==
  ASSUME QInv, OInv', Continues(versions, versions'), pushed' \in 1..Len(History),
         UNCHANGED requests,
         \A c \in Attempts : attempts'[c] = Resting <=> attempts[c] = Resting
  PROVE  QInv'
<1>1. ASSUME NEW c \in Attempts
      PROVE  RequestOK(requests'[c], attempts'[c], versions')
  <2>1. RequestOK(requests[c], attempts[c], versions)
    BY DEF QInv, RequestsOK
  <2>2. QED
    BY <2>1, RequestKept
<1>2. RequestsOK'
  BY <1>1 DEF RequestsOK, QInv
<1>3. QED
  BY <1>2 DEF QInv

\* The answer, as a function of the jobs.
LEMMA AnswerIs == Answer = AnswerOf(versions) /\ Answer' = AnswerOf(versions')
BY DEF Answer, AnswerOf, Meta, MetaOf

\* The stages of a request.
LEMMA Stages ==
  /\ Waiting.stage = "none" /\ Asking.stage = "asking"
  /\ Materializing.stage = "materializing" /\ Unavailable.stage = "unavailable"
  /\ \A d : Discovered(d).stage = "discovered" /\ Discovered(d).discovery = d
  /\ \A meta : Answered(meta).stage = "answered" /\ Answered(meta).meta = meta
BY DEF Waiting, Asking, Materializing, Unavailable, Discovered, Answered

\* An answer is borne out by the jobs it was made of.
LEMMA AnswerFits ==
  ASSUME NEW V
  PROVE  RequestOK(AnswerOf(V), Resting, V) /\ RequestOK(Unavailable, Resting, V)
<1>1. BorneOut(MetaOf(V), V)
  BY DEF BorneOut, MetaOf
<1>2. QED
  BY <1>1, Stages DEF RequestOK, AnswerOf

\* Whose materialization is whose.
LEMMA OwnAttempt ==
  ASSUME QInv, NEW r \in Attempts
  PROVE  /\ requests[r] = Materializing <=> attempts[r] # Resting
         /\ requests[r].stage = "discovered" => requests[r].discovery \in Discoveries
         /\ attempts = [c \in Attempts |-> attempts[c]]
         /\ Resting.stage = "none"
BY DEF QInv, RequestsOK, RequestOK, OInv, HandlersOK, Resting

-----------------------------------------------------------------------------
(***************************************************************************)
(* The actions.                                                            *)
(***************************************************************************)
LEMMA PushStep ==
  ASSUME QInv, Push
  PROVE  QInv'
<1>1. UNCHANGED <<objectVars, requests>> /\ pushed' \in 1..Len(History)
  <2>1. Len(History) \in Nat
    BY HistoryAssumption
  <2>2. QED
    BY <2>1 DEF Push, QInv
<1>2. OInv' /\ Continues(versions, versions')
  BY <1>1, ObjectContinues DEF QInv
<1>3. attempts' = attempts
  BY <1>1 DEF objectVars
<1>4. QED
  BY <1>1, <1>2, <1>3, NoRequest

\* A discovery, and one that fails.
LEMMA DiscoverStep ==
  ASSUME QInv, NEW r \in Attempts, Discover(r) \/ DiscoveryFails(r)
  PROVE  QInv'
<1>1. requests[r].stage \in {"none", "unavailable", "answered"} /\ UNCHANGED <<attempts, pushed>>
  BY DEF Discover, DiscoveryFails, objectVars
<1>2. attempts[r] = Resting
  BY <1>1, OwnAttempt, Stages
<1>3. CASE Discover(r)
  <2>1. OInv' /\ Continues(versions, versions')
    BY <1>3, ObjectContinues DEF Discover, QInv
  <2>2. Tips \in Discoveries
    <3>1. pushed \in DOMAIN History
      BY HistoryAssumption DEF QInv
    <3>2. QED
      BY <3>1, TipsAssumption DEF Tips
  <2>3. requests' = [requests EXCEPT ![r] = Discovered(Tips)]
    BY <1>3 DEF Discover, SetRequest
  <2>4. RequestOK(Discovered(Tips), attempts'[r], versions')
    BY <1>1, <1>2, <2>2, Stages DEF RequestOK
  <2>5. QED
    BY <1>1, <2>1, <2>3, <2>4, OneRequest DEF QInv
<1>4. CASE DiscoveryFails(r)
  <2>1. /\ Fault /\ UNCHANGED <<registryVars, bucket, batches>>
        /\ requests' = [requests EXCEPT ![r] = Unavailable]
    BY <1>4 DEF DiscoveryFails, SetRequest
  <2>2. OInv' /\ Continues(versions, versions')
    <3>1. PublishesNothing(versions, versions') /\ Continues(versions, versions')
      BY <2>1, Unchanged
    <3>2. HandlersOK' /\ CountersOK'
      BY <1>1, <2>1, <3>1, SameHandlers, CountersStep DEF QInv, OInv
    <3>3. QED
      BY <2>1, <3>1, <3>2, QuietStep DEF QInv
  <2>3. RequestOK(Unavailable, attempts'[r], versions')
    BY <1>1, <1>2, AnswerFits
  <2>4. QED
    BY <1>1, <2>1, <2>2, <2>3, OneRequest DEF QInv
<1>5. QED
  BY <1>3, <1>4

\* The object observes the discovery, and the request asks for work or answers.
LEMMA PostRefreshStep ==
  ASSUME QInv, NEW r \in Attempts, PostRefresh(r)
  PROVE  QInv'
<1>1. PICK q : /\ q \in {Asking, AnswerOf(versions')}
               /\ requests' = [requests EXCEPT ![r] = q]
  BY AnswerIs DEF PostRefresh, SetRequest
<1>2. requests[r].stage = "discovered" /\ UNCHANGED pushed
  BY DEF PostRefresh
<1>3. HandleRefresh(requests[r].discovery) /\ requests[r].discovery \in Discoveries
  BY <1>2, OwnAttempt DEF PostRefresh
<1>4. OInv' /\ Continues(versions, versions')
  BY <1>3, ObjectContinues DEF ObjectNext, QInv
<1>5. attempts' = attempts
  BY <1>3 DEF HandleRefresh
<1>6. attempts[r] = Resting
  BY <1>2, OwnAttempt, Stages
<1>7. RequestOK(q, attempts'[r], versions')
  BY <1>1, <1>5, <1>6, AnswerFits, Stages DEF RequestOK
<1>8. QED
  BY <1>1, <1>2, <1>4, <1>5, <1>7, OneRequest DEF QInv

\* The object leases a job for the request, or has none and the request answers.
LEMMA PostMaterializeStep ==
  ASSUME QInv, NEW r \in Attempts, PostMaterialize(r)
  PROVE  QInv'
<1>1. requests[r].stage = "asking" /\ UNCHANGED pushed
  BY DEF PostMaterialize
<1>2. CASE \E origin \in Origins : Materialize(r, origin) /\ SetRequest(r, Materializing)
  <2>1. PICK origin \in Origins : Materialize(r, origin)
    BY <1>2
  <2>2. OInv' /\ Continues(versions, versions')
    BY <2>1, ObjectContinues DEF ObjectNext, QInv
  <2>3. PICK t : t.stage = "archive" /\ attempts' = [attempts EXCEPT ![r] = t]
    BY <2>1 DEF Materialize
  <2>4. attempts'[r] # Resting /\ \A c \in Attempts \ {r} : attempts'[c] = attempts[c]
    BY <2>3, OwnAttempt
  <2>5. RequestOK(Materializing, attempts'[r], versions')
    BY <2>4, Stages DEF RequestOK
  <2>6. QED
    BY <1>1, <1>2, <2>2, <2>4, <2>5, OneRequest DEF QInv, SetRequest
<1>3. CASE SetRequest(r, Answer) /\ UNCHANGED objectVars
  <2>1. /\ OInv' /\ Continues(versions, versions')
        /\ attempts' = attempts /\ versions' = versions
    BY <1>3, ObjectContinues DEF QInv, objectVars
  <2>2. requests' = [requests EXCEPT ![r] = AnswerOf(versions)]
    BY <1>3, AnswerIs DEF SetRequest
  <2>3. attempts[r] = Resting
    BY <1>1, OwnAttempt, Stages
  <2>4. RequestOK(AnswerOf(versions), attempts'[r], versions')
    BY <2>1, <2>3, AnswerFits
  <2>5. QED
    BY <1>1, <2>1, <2>2, <2>4, OneRequest DEF QInv
<1>4. QED
  BY <1>2, <1>3 DEF PostMaterialize

\* The materialization goes on and the request waits.
LEMMA ContinueStep ==
  ASSUME QInv, NEW r \in Attempts, Continue(r) \/ Settle(r)
  PROVE  QInv'
<1>1. UNCHANGED <<pushed, requests>>
  BY DEF Continue, Settle
<1>2. OInv' /\ Continues(versions, versions')
  BY ObjectContinues DEF Continue, Settle, Work, ObjectNext, QInv
<1>3. CASE \E stage \in {"archive", "container", "publishing"} :
             Enter(r, stage) /\ attempts[r].stage # "none"
  <2>1. PICK t, stage :
          /\ attempts' = [attempts EXCEPT ![r] = t]
          /\ t.stage = stage /\ stage \in {"archive", "container", "publishing"}
    BY <1>3, Entered DEF QInv
  <2>2. /\ attempts'[r] # Resting /\ attempts[r] # Resting
        /\ \A c \in Attempts \ {r} : attempts'[c] = attempts[c]
    BY <1>3, <2>1, OwnAttempt
  <2>3. QED
    BY <1>1, <1>2, <2>2, NoRequest DEF QInv
<1>4. CASE UNCHANGED attempts
  BY <1>1, <1>2, <1>4, NoRequest DEF QInv
<1>5. QED
  BY <1>3, <1>4 DEF Continue, Settle, ArchiveArrives, ContainerAnswers, Publish, LatePut

\* The materialization ends, and with it the wait.
LEMMA ReturnStep ==
  ASSUME QInv, NEW r \in Attempts, Succeed(r) \/ Fail(r)
  PROVE  QInv'
<1>1. /\ Return(r) /\ UNCHANGED pushed
      /\ \/ Finish(r) \/ ServiceFails(r) \/ ContainerRefuses(r) \/ PublicationRefused(r)
         \/ StorageThrows(r) \/ ErrorBodyBreaks(r)
  BY DEF Succeed, Fail, Finish, ServiceFails, ContainerRefuses, PublicationRefused,
         StorageThrows, ErrorBodyBreaks
<1>2. OInv' /\ Continues(versions, versions')
  BY <1>1, ObjectContinues DEF Work, ObjectNext, QInv
<1>3. attempts'[r] = Resting /\ \A c \in Attempts \ {r} : attempts'[c] = attempts[c]
  BY <1>1, OwnAttempt DEF Return
<1>4. PICK q : /\ q \in {Unavailable, AnswerOf(versions')}
               /\ requests' = [requests EXCEPT ![r] = q]
  BY AnswerIs DEF Succeed, Fail, SetRequest
<1>5. RequestOK(q, attempts'[r], versions')
  BY <1>3, <1>4, AnswerFits
<1>6. QED
  BY <1>1, <1>2, <1>3, <1>4, <1>5, OneRequest DEF QInv

\* An eviction ends every materialization, and fails the requests that waited.
LEMMA LoseStep ==
  ASSUME QInv, Lose
  PROVE  QInv'
<1>1. /\ Evict /\ UNCHANGED pushed
      /\ requests' = [r \in Attempts |->
           IF requests[r] = Materializing THEN Unavailable ELSE requests[r]]
  BY DEF Lose
<1>2. OInv' /\ Continues(versions, versions')
  BY <1>1, ObjectContinues DEF ObjectNext, QInv
<1>3. ASSUME NEW r \in Attempts
      PROVE  RequestOK(requests'[r], attempts'[r], versions')
  <2>1. attempts'[r] = Resting
    BY <1>1 DEF Evict
  <2>2. CASE requests[r] = Materializing
    BY <1>1, <2>1, <2>2, AnswerFits
  <2>3. CASE requests[r] # Materializing
    <3>1. RequestOK(requests[r], attempts[r], versions) /\ attempts[r] = Resting
      BY <2>3, OwnAttempt DEF QInv, RequestsOK
    <3>2. QED
      BY <1>1, <1>2, <2>1, <2>3, <3>1, RequestKept
  <2>4. QED
    BY <2>2, <2>3
<1>4. RequestsOK'
  BY <1>1, <1>3 DEF RequestsOK
<1>5. QED
  BY <1>1, <1>2, <1>4 DEF QInv

\* Time passes.
LEMMA ElapseStep ==
  ASSUME QInv, Elapse
  PROVE  QInv'
<1>1. Tick /\ UNCHANGED <<pushed, requests>>
  BY DEF Elapse
<1>2. OInv' /\ Continues(versions, versions')
  BY <1>1, ObjectContinues DEF ObjectNext, QInv
<1>3. ASSUME NEW r \in Attempts
      PROVE  attempts'[r] = Resting <=> attempts[r] = Resting
  <2>1. attempts'[r] = IF attempts[r] = Resting THEN Resting
                       ELSE [attempts[r] EXCEPT !.age = Older(@)]
    BY <1>1 DEF Tick
  <2>2. CASE attempts[r] = Resting
    BY <2>1, <2>2
  <2>3. CASE attempts[r] # Resting
    <3>1. attempts[r] \in AttemptType
      BY <2>3 DEF QInv, OInv, HandlersOK, HandlerOK
    <3>2. [attempts[r] EXCEPT !.age = Older(@)].stage \in {"archive", "container", "publishing"}
      BY <3>1 DEF AttemptType
    <3>3. attempts'[r].stage \in {"archive", "container", "publishing"}
      BY <2>1, <2>3, <3>2
    <3>4. QED
      BY <2>3, <3>3, OwnAttempt
  <2>4. QED
    BY <2>2, <2>3
<1>4. QED
  BY <1>1, <1>2, <1>3, NoRequest DEF QInv

-----------------------------------------------------------------------------
\* The invariant holds initially, is kept by every step, and so always holds.
LEMMA RequestInitInvariant == RequestInit => QInv
<1> SUFFICES ASSUME RequestInit
             PROVE  QInv
  OBVIOUS
<1>1. OInv /\ \A r \in Attempts : attempts[r] = Resting
  BY ObjectInitInvariant DEF RequestInit, ObjectInit
<1>2. 1 \in 1..Len(History)
  BY HistoryAssumption
<1>3. RequestOK(Waiting, Resting, versions)
  BY Stages DEF RequestOK
<1>4. QED
  BY <1>1, <1>2, <1>3 DEF RequestInit, QInv, RequestsOK

LEMMA RequestStep == QInv /\ [RequestNext]_requestVars => QInv'
<1> SUFFICES ASSUME QInv, [RequestNext]_requestVars
             PROVE  QInv'
  OBVIOUS
<1>1. CASE UNCHANGED requestVars
  <2>1. UNCHANGED <<objectVars, pushed, requests>>
    BY <1>1 DEF requestVars
  <2>2. OInv' /\ Continues(versions, versions') /\ attempts' = attempts
    BY <2>1, ObjectContinues DEF QInv, objectVars
  <2>3. QED
    BY <2>1, <2>2, NoRequest DEF QInv
<1>2. QED
  BY <1>1, PushStep, DiscoverStep, PostRefreshStep, PostMaterializeStep, ContinueStep,
     ReturnStep, LoseStep, ElapseStep DEF RequestNext

LEMMA RequestInvariant == RequestSpec => []QInv
BY RequestInitInvariant, RequestStep, PTL DEF RequestSpec

-----------------------------------------------------------------------------
\* Type correctness of the requests: one awaits the object exactly while its
\* materialization is under way.
THEOREM RequestTypeCorrect == RequestSpec => []RequestTypeOK
<1>1. OInv => ObjectTypeOK
  BY TypeOfInvariant
<1>2. QInv => RequestTypeOK
  BY <1>1 DEF QInv, RequestsOK, RequestOK, RequestTypeOK
<1>3. QED
  BY <1>2, RequestInvariant, PTL

\* What a client was told stays true and stays stored, for any requests, pushes and
\* failures: an answer's versions were published, and those are final.
THEOREM AnswersRemainTrue == RequestSpec => []AnswersStayTrue
<1>1. QInv => AnswersStayTrue
  <2> SUFFICES ASSUME QInv,
                      NEW r \in Attempts, requests[r].stage = "answered",
                      NEW v \in DOMAIN requests[r].meta
               PROVE  /\ v \in DOMAIN Meta
                      /\ Meta[v] = requests[r].meta[v]
                      /\ \E o \in Outcomes :
                           /\ Store!Complete(v, o)
                           /\ o.commit = versions[v].assignment.commit
                           /\ o.state = "yanked" <=> requests[r].meta[v]
    BY DEF AnswersStayTrue
  <2>1. /\ v \in DOMAIN versions
        /\ versions[v].state \in Published
        /\ requests[r].meta[v] = (versions[v].state = "yanked")
    BY DEF QInv, RequestsOK, RequestOK, BorneOut
  <2>2. v \in DOMAIN Meta /\ Meta[v] = requests[r].meta[v]
    BY <2>1 DEF Meta
  <2>3. AdvertisedIsStored
    BY Promises DEF QInv, OInv
  <2>4. PICK o \in Outcomes : /\ o.state = versions[v].state
                              /\ o.commit = versions[v].assignment.commit
                              /\ Store!Complete(v, o)
    BY <2>1, <2>3 DEF AdvertisedIsStored
  <2>5. QED
    BY <2>1, <2>2, <2>4
<1>2. QED
  BY <1>1, RequestInvariant, PTL

(***************************************************************************)
(* Every step of a request is one of the object or none of it: a failed    *)
(* discovery only counts as a fault.                                       *)
(***************************************************************************)
LEMMA RequestStepOfObject ==
  ASSUME QInv, [RequestNext]_requestVars
  PROVE  \/ [ObjectNext]_objectVars
         \/ UNCHANGED <<registryVars, attempts, bucket, batches, abandoned>>
<1>1. ASSUME NEW r \in Attempts, PostRefresh(r)
      PROVE  ObjectNext
  <2>1. /\ HandleRefresh(requests[r].discovery) /\ requests[r].discovery \in Discoveries
    BY <1>1, OwnAttempt DEF PostRefresh
  <2>2. QED
    BY <2>1 DEF ObjectNext
<1>2. ASSUME NEW r \in Attempts, Continue(r) \/ Succeed(r) \/ Fail(r) \/ Settle(r)
      PROVE  ObjectNext
  BY <1>2 DEF Continue, Succeed, Fail, Settle, Work, ObjectNext
<1>3. ASSUME NEW r \in Attempts, PostMaterialize(r) \/ Discover(r)
      PROVE  ObjectNext \/ UNCHANGED objectVars
  BY <1>3 DEF PostMaterialize, Discover, ObjectNext
<1>4. ASSUME Lose \/ Elapse \/ Push
      PROVE  ObjectNext \/ UNCHANGED objectVars
  BY <1>4 DEF Lose, Elapse, Push, ObjectNext
<1>5. ASSUME NEW r \in Attempts, DiscoveryFails(r)
      PROVE  UNCHANGED <<registryVars, attempts, bucket, batches, abandoned>>
  BY <1>5 DEF DiscoveryFails, Fault
<1>6. CASE UNCHANGED requestVars
  BY <1>6 DEF requestVars
<1>7. QED
  BY <1>1, <1>2, <1>3, <1>4, <1>5, <1>6 DEF RequestNext

LEMMA RequestStepOfRegistry == QInv /\ [RequestNext]_requestVars => [RegistryNext]_registryVars
<1> SUFFICES ASSUME QInv, [RequestNext]_requestVars
             PROVE  RegistryNext \/ UNCHANGED registryVars
  OBVIOUS
<1>1. CASE [ObjectNext]_objectVars
  BY <1>1, ObjectStepOfRegistry DEF QInv
<1>2. QED
  BY <1>1, RequestStepOfObject

LEMMA ClientsStepOfRequests ==
  QInv /\ [RequestNext]_requestVars => [Clients!Next]_(Clients!clientVars)
<1> SUFFICES ASSUME QInv, [RequestNext]_requestVars
             PROVE  [Clients!Next]_(Clients!clientVars)
  OBVIOUS
<1>1. CASE [ObjectNext]_objectVars
  BY <1>1, ClientsStep DEF QInv
<1>2. CASE UNCHANGED <<registryVars, attempts, bucket, batches, abandoned>>
  <2>1. UNCHANGED <<versions, bucket>>
    BY <1>2 DEF registryVars
  <2>2. UNCHANGED Filled /\ \A v : Gettable(v)' = Gettable(v)
    BY <2>1 DEF Filled, Gettable, Listing
  <2>3. UNCHANGED Clients!clientVars
    BY <2>1, <2>2 DEF Clients!clientVars
  <2>4. QED
    BY <2>3
<1>3. QED
  BY <1>1, <1>2, RequestStepOfObject

\* Through all requests, retries and evictions the stored registry behaves as
\* PackageRegistry says, so its theorems hold of the running system.
THEOREM RequestsImplementRegistry == RequestSpec => RegistrySpec
<1>1. RequestInit => RegistryInit
  BY DEF RequestInit, ObjectInit
<1>2. QED
  BY <1>1, RequestStepOfRegistry, RequestInvariant, PTL DEF RequestSpec, RegistrySpec

\* What clients see through it is a package whose versions never change.
THEOREM RequestsImplementPublishedPackage == RequestSpec => ObjectPublishes
<1>1. RequestInit => Clients!Init
  BY ClientsInit DEF RequestInit
<1>2. QED
  BY <1>1, ClientsStepOfRequests, RequestInvariant, PTL
  DEF RequestSpec, ObjectPublishes, Clients!Spec
\* While no handler was abandoned, every leased version has a request that awaits the
\* work on it, so no job waits for a lease to run out.
THEOREM RequestsHoldLeases == RequestSpec => []LeasesAreHeld
<1>1. RequestInit => LeasesAreHeld
  <2>1. RequestInit => DOMAIN versions = {}
    BY DEF RequestInit, ObjectInit, RegistryInit
  <2>2. QED
    BY <2>1 DEF LeasesAreHeld
<1>2. QInv /\ LeasesAreHeld /\ [RequestNext]_requestVars => LeasesAreHeld'
  <2> SUFFICES ASSUME QInv, LeasesAreHeld, [RequestNext]_requestVars
               PROVE  LeasesAreHeld'
    OBVIOUS
  <2>1. CASE [ObjectNext]_objectVars
    BY <2>1, HeldKept DEF QInv
  <2>2. CASE UNCHANGED <<registryVars, attempts, bucket, batches, abandoned>>
    BY <2>2 DEF registryVars, LeasesAreHeld
  <2>3. QED
    BY <2>1, <2>2, RequestStepOfObject
<1>3. QED
  BY <1>1, <1>2, RequestInvariant, PTL DEF RequestSpec

-----------------------------------------------------------------------------
(***************************************************************************)
(* Commits in the order of their pushes.  The rows a refresh adds are of   *)
(* the commit its request discovered, and the latest of their major.       *)
(***************************************************************************)
HoldsTips(q, k) == q.stage = "discovered" /\ q.discovery = TipsAt(k)

\* The requests Q hold discoveries of the first p pushes, and none of them is older
\* than a commit that has one of the rows.
InStep(rows, Q, p) ==
  /\ \A a \in Attempts : Q[a].stage = "discovered" => \E k \in 1..p : HoldsTips(Q[a], k)
  /\ \A r \in rows : \A j \in DOMAIN History :
       r.commit = History[j] =>
         /\ j <= p
         /\ \A a \in Attempts, k \in DOMAIN History : HoldsTips(Q[a], k) => j <= k

LEMMA HistoryFacts ==
  /\ Len(History) \in Nat /\ DOMAIN History = 1..Len(History)
  /\ \A i, j \in DOMAIN History : History[i] = History[j] => i = j
  /\ \A i, j \in DOMAIN History : TipsAt(i) = TipsAt(j) => i = j
<1>1. /\ Len(History) \in Nat /\ DOMAIN History = 1..Len(History)
      /\ \A i, j \in DOMAIN History : History[i] = History[j] => i = j
  BY HistoryAssumption
<1>2. \A i \in DOMAIN History : TipsAt(i).tips[Branch] = History[i]
  BY DEF TipsAt
<1>3. QED
  BY <1>1, <1>2

\* Apart from a refresh, the object issues no rows.
LEMMA RowsStay ==
  ASSUME NEW a \in Attempts,
         \/ \E origin \in Origins : Materialize(a, origin)
         \/ Work(a) \/ ServiceFails(a) \/ StorageThrows(a) \/ ErrorBodyBreaks(a)
         \/ LatePut(a) \/ Evict \/ Tick
  PROVE  UNCHANGED assignments
<1>1. ASSUME NEW v, NEW s, SetJob(v, s)
      PROVE  UNCHANGED assignments
  BY <1>1 DEF SetJob
<1>2. ASSUME ReleaseJob(a)
      PROVE  UNCHANGED assignments
  BY <1>1, <1>2 DEF ReleaseJob, ReleaseLease, registryVars
<1>3. CASE \E origin \in Origins : Materialize(a, origin)
  BY <1>1, <1>3 DEF Materialize, LeaseNext
<1>4. CASE Finish(a)
  BY <1>1, <1>4 DEF Finish, MarkReady, MarkYanked, registryVars
<1>5. CASE PublicationRefused(a) \/ ServiceFails(a) \/ ContainerRefuses(a)
  BY <1>2, <1>5 DEF PublicationRefused, ServiceFails, ContainerRefuses
<1>6. CASE \/ ArchiveArrives(a) \/ ContainerAnswers(a) \/ Publish(a) \/ ErrorBodyBreaks(a)
           \/ LatePut(a)
  BY <1>6 DEF ArchiveArrives, ContainerAnswers, Publish, ErrorBodyBreaks, LatePut
<1>7. CASE StorageThrows(a) \/ Evict \/ Tick
  BY <1>7 DEF StorageThrows, Evict, Tick, AgeLeases, registryVars
<1>8. QED
  BY <1>3, <1>4, <1>5, <1>6, <1>7 DEF Work

\* A request that does not get to hold a discovery holds none, and the others hold
\* what they held.
LEMMA HoldsNoOther ==
  ASSUME QInv, NEW r \in Attempts, NEW q, SetRequest(r, q), q.stage # "discovered"
  PROVE  \A a \in Attempts : requests'[a].stage = "discovered" => requests'[a] = requests[a]
<1>1. \A a \in Attempts : requests'[a] = IF a = r THEN q ELSE requests[a]
  BY DEF SetRequest, QInv, RequestsOK
<1>2. QED
  BY <1>1

LEMMA AnswersHoldNothing ==
  /\ Answer.stage # "discovered" /\ (Answer').stage # "discovered"
  /\ Unavailable.stage # "discovered" /\ Asking.stage # "discovered"
  /\ Materializing.stage # "discovered"
BY Stages DEF Answer

\* The ways a step of the requests bears on rows and discoveries.
HoldsOn ==
  \A a \in Attempts : requests'[a].stage = "discovered" => requests'[a] = requests[a]

Quiet == HoldsOn /\ pushed' \in {pushed, pushed + 1} /\ UNCHANGED assignments

Listens ==
  /\ \A a \in Attempts :
       requests'[a].stage = "discovered" =>
         requests'[a] = requests[a] \/ HoldsTips(requests'[a], pushed)
  /\ UNCHANGED <<pushed, assignments>>

Tells ==
  \E r \in Attempts :
    /\ requests[r].stage = "discovered"
    /\ Refresh(requests[r].discovery)
    /\ HoldsOn /\ UNCHANGED pushed

LEMMA RequestEffects ==
  ASSUME QInv, [RequestNext]_requestVars
  PROVE  Quiet \/ Listens \/ Tells
<1>1. pushed \in Nat
  BY DEF QInv
<1>2. ASSUME UNCHANGED requests
      PROVE  HoldsOn
  BY <1>2 DEF HoldsOn
<1>3. ASSUME NEW r \in Attempts, NEW q \in {Answer, Answer', Unavailable, Asking, Materializing},
             SetRequest(r, q)
      PROVE  HoldsOn
  <2>1. q.stage # "discovered"
    BY AnswersHoldNothing
  <2>2. QED
    BY <1>3, <2>1, HoldsNoOther DEF HoldsOn
<1>4. CASE Push
  BY <1>2, <1>4 DEF Push, Quiet, objectVars
<1>5. ASSUME NEW r \in Attempts, Discover(r)
      PROVE  Listens
  <2>1. \A a \in Attempts :
          requests'[a] = IF a = r THEN Discovered(TipsAt(pushed)) ELSE requests[a]
    BY <1>5 DEF Discover, SetRequest, Tips, QInv, RequestsOK
  <2>2. QED
    BY <1>5, <2>1, Stages DEF Listens, HoldsTips, Discover, objectVars
<1>6. ASSUME NEW r \in Attempts, DiscoveryFails(r)
      PROVE  Quiet
  BY <1>3, <1>6 DEF DiscoveryFails, Quiet, registryVars
<1>7. ASSUME NEW r \in Attempts, PostRefresh(r)
      PROVE  Tells
  BY <1>3, <1>7 DEF PostRefresh, HandleRefresh, Tells
<1>8. ASSUME NEW r \in Attempts, PostMaterialize(r)
      PROVE  Quiet
  <2>1. UNCHANGED assignments
    BY <1>8, RowsStay DEF PostMaterialize, objectVars
  <2>2. QED
    BY <1>3, <1>8, <2>1 DEF PostMaterialize, Quiet
<1>9. ASSUME NEW r \in Attempts, Continue(r) \/ Settle(r)
      PROVE  Quiet
  <2>1. UNCHANGED assignments
    BY <1>9, RowsStay DEF Continue, Settle, Work
  <2>2. QED
    BY <1>2, <1>9, <2>1 DEF Continue, Settle, Quiet
<1>10. ASSUME NEW r \in Attempts, Succeed(r) \/ Fail(r)
       PROVE  Quiet
  <2>1. UNCHANGED assignments
    BY <1>10, RowsStay DEF Succeed, Fail, Work
  <2>2. PICK q \in {Answer', Unavailable} : SetRequest(r, q)
    BY <1>10 DEF Succeed, Fail
  <2>3. QED
    BY <1>3, <1>10, <2>1, <2>2 DEF Succeed, Fail, Quiet
<1>11. CASE Lose
  <2>1. UNCHANGED <<assignments, pushed>>
    BY <1>11 DEF Lose, Evict, registryVars
  <2>2. HoldsOn
    BY <1>11, AnswersHoldNothing DEF Lose, HoldsOn
  <2>3. QED
    BY <2>1, <2>2 DEF Quiet
<1>12. CASE Elapse
  BY <1>2, <1>12 DEF Elapse, Tick, AgeLeases, Quiet
<1>13. CASE UNCHANGED requestVars
  BY <1>2, <1>13 DEF requestVars, objectVars, Quiet
<1>14. QED
  BY <1>4, <1>5, <1>6, <1>7, <1>8, <1>9, <1>10, <1>11, <1>12, <1>13 DEF RequestNext

\* A row that a refresh adds is of the commit that was discovered.
LEMMA AddedRows ==
  ASSUME RInv, NEW k \in DOMAIN History, Refresh(TipsAt(k)),
         NEW row \in assignments' \ assignments
  PROVE  row.commit = History[k]
<1> DEFINE d == TipsAt(k)
           selected == SelectedBranches(d, observed)
<1>1. d \in Discoveries /\ Selectable(d)
  BY TipsAssumption DEF Refresh
<1>2. observed \in Nat \cup {NoneObserved}
  BY DEF RInv, RegistryTypeOK
<1>3. \A b \in selected : b.major \in Nat /\ b.commit \in Commits
  BY <1>1, <1>2, Selection
<1>4. \A b \in selected : b.commit = History[k]
  <2>1. d.default = Branch /\ DOMAIN d.tips = {Branch} /\ d.tips[Branch] = History[k]
    BY DEF TipsAt
  <2>2. \A b \in Releases(d) : b.commit = History[k]
    BY <2>1 DEF Releases
  <2>3. QED
    BY <2>1, <2>2 DEF SelectedBranches
<1>5. PICK b \in selected : row = AllocatedRow(b)
  <2>1. row \in {j.assignment : j \in {NewJob(AllocatedRow(b), b.branch) : b \in selected}}
    BY DEF Refresh
  <2>2. QED
    BY <2>1 DEF NewJob
<1>6. QED
  BY <1>3, <1>4, <1>5, AllocatedRowFits

\* No two requests hold different answers of GitHub.
AnswersInOrder ==
  \A r, q \in Attempts :
    requests[r].stage = "discovered" /\ requests[q].stage = "discovered" =>
      requests[r].discovery = requests[q].discovery

LEMMA InStepKept ==
  ASSUME QInv, [RequestNext]_requestVars, AnswersInOrder,
         InStep(assignments, requests, pushed)
  PROVE  InStep(assignments', requests', pushed')
<1>1. pushed \in Nat /\ pushed \in DOMAIN History /\ pushed \in 1..pushed
  BY HistoryFacts DEF QInv
<1>2. CASE Quiet
  BY <1>1, <1>2, HistoryFacts DEF Quiet, HoldsOn, InStep, HoldsTips
<1>3. CASE Listens
  <2>1. ASSUME NEW a \in Attempts, requests'[a].stage = "discovered"
        PROVE  \E k \in 1..pushed' : HoldsTips(requests'[a], k)
    <3>1. CASE requests'[a] = requests[a]
      BY <1>3, <2>1, <3>1 DEF Listens, InStep
    <3>2. CASE HoldsTips(requests'[a], pushed)
      BY <1>1, <1>3, <3>2 DEF Listens
    <3>3. QED
      BY <1>3, <2>1, <3>1, <3>2 DEF Listens
  <2>2. ASSUME NEW r \in assignments, NEW j \in DOMAIN History, r.commit = History[j],
               NEW a \in Attempts, NEW k \in DOMAIN History, HoldsTips(requests'[a], k)
        PROVE  j <= k
    <3>1. CASE requests'[a] = requests[a]
      BY <2>2, <3>1 DEF InStep
    <3>2. CASE HoldsTips(requests'[a], pushed)
      <4>1. k = pushed
        BY <1>1, <2>2, <3>2, HistoryFacts DEF HoldsTips
      <4>2. QED
        BY <2>2, <4>1 DEF InStep
    <3>3. QED
      BY <1>3, <2>2, <3>1, <3>2 DEF Listens, HoldsTips
  <2>3. QED
    BY <1>3, <2>1, <2>2 DEF Listens, InStep
<1>4. CASE Tells
  <2>1. PICK r \in Attempts : /\ requests[r].stage = "discovered"
                             /\ Refresh(requests[r].discovery)
                             /\ HoldsOn /\ UNCHANGED pushed
    BY <1>4 DEF Tells
  <2>2. PICK k \in 1..pushed : HoldsTips(requests[r], k)
    BY <2>1 DEF InStep
  <2>3. k \in DOMAIN History /\ k <= pushed
    BY <1>1, HistoryFacts
  <2>4. ASSUME NEW a \in Attempts, NEW i \in DOMAIN History, HoldsTips(requests'[a], i)
        PROVE  HoldsTips(requests[a], i) /\ i = k
    BY <2>1, <2>2, <2>3, <2>4, HistoryFacts DEF HoldsTips, HoldsOn, AnswersInOrder
  <2>5. ASSUME NEW row \in assignments' \ assignments, NEW j \in DOMAIN History,
               row.commit = History[j]
        PROVE  j = k
    <3>1. row.commit = History[k]
      BY <2>1, <2>2, <2>3, AddedRows DEF HoldsTips, QInv, OInv
    <3>2. QED
      BY <2>3, <2>5, <3>1, HistoryFacts
  <2>6. \A a \in Attempts :
          requests'[a].stage = "discovered" => \E i \in 1..pushed' : HoldsTips(requests'[a], i)
    BY <2>1 DEF HoldsOn, InStep
  <2>7. ASSUME NEW row \in assignments', NEW j \in DOMAIN History, row.commit = History[j]
        PROVE  /\ j <= pushed'
               /\ \A a \in Attempts, i \in DOMAIN History :
                    HoldsTips(requests'[a], i) => j <= i
    <3>1. CASE row \in assignments
      BY <2>1, <2>4, <2>7, <3>1 DEF InStep
    <3>2. CASE row \notin assignments
      <4>1. j = k
        BY <2>5, <2>7, <3>2
      <4>2. QED
        BY <2>1, <2>3, <2>4, <4>1
    <3>3. QED
      BY <3>1, <3>2
  <2>8. QED
    BY <2>6, <2>7 DEF InStep
<1>5. QED
  BY <1>2, <1>3, <1>4, RequestEffects

LEMMA LaterCommitsStep ==
  ASSUME QInv, [RequestNext]_requestVars, InStep(assignments, requests, pushed),
         LaterCommitsMatch
  PROVE  LaterCommitsMatch'
<1>1. CASE UNCHANGED assignments
  BY <1>1 DEF LaterCommitsMatch
<1>2. CASE Tells
  <2>1. PICK a \in Attempts : /\ requests[a].stage = "discovered"
                             /\ Refresh(requests[a].discovery)
    BY <1>2 DEF Tells
  <2>2. PICK k \in 1..pushed : HoldsTips(requests[a], k)
    BY <2>1 DEF InStep
  <2>3. k \in DOMAIN History
    BY HistoryFacts DEF QInv
  <2>4. \A row \in assignments' \ assignments : row.commit = History[k]
    BY <2>1, <2>2, <2>3, AddedRows DEF HoldsTips, QInv, OInv
  <2>5. [Ledger!Issue]_assignments
    <3>1. RInv /\ RegistryNext
      BY <2>1, <2>2, <2>3, TipsAssumption DEF QInv, OInv, RegistryNext, HoldsTips
    <3>2. QED
      BY <3>1, RegistryStep DEF Kept
  <2>6. SUFFICES ASSUME ~ UNCHANGED assignments,
                        NEW r \in assignments', NEW q \in assignments',
                        NEW i \in DOMAIN History, NEW j \in DOMAIN History,
                        r.major = q.major, r.commit = History[i], q.commit = History[j], i < j
                 PROVE  r.sequence < q.sequence
    BY <1>1 DEF LaterCommitsMatch
  <2>7. Ledger!Issue
    BY <2>5, <2>6
  <2>8. CASE r \in assignments /\ q \in assignments
    BY <2>6, <2>8 DEF LaterCommitsMatch
  <2>9. CASE r \in assignments /\ q \notin assignments
    BY <2>6, <2>7, <2>9 DEF Ledger!Issue, Ledger!MayFollow
  <2>10. CASE r \notin assignments /\ q \in assignments
    <3>1. i = k
      BY <2>3, <2>4, <2>6, <2>10, HistoryFacts
    <3>2. j <= k
      BY <2>2, <2>3, <2>6, <2>10 DEF InStep
    <3>3. QED
      BY <2>6, <3>1, <3>2, HistoryFacts
  <2>11. CASE r \notin assignments /\ q \notin assignments
    BY <2>3, <2>4, <2>6, <2>11, HistoryFacts
  <2>12. QED
    BY <2>8, <2>9, <2>10, <2>11
<1>3. QED
  BY <1>1, <1>2, RequestEffects DEF Quiet, Listens

(***************************************************************************)
(* Later commits have later versions ("later commits within a major        *)
(* continue to match", DESIGN.md) as long as no two requests hold          *)
(* different answers of GitHub: it takes an answer that is overtaken by    *)
(* another's refresh to give an older commit the newer version.            *)
(***************************************************************************)
THEOREM LaterCommitsMatchInOrder ==
  RequestSpec /\ []AnswersInOrder => []LaterCommitsMatch
<1>1. RequestInit => InStep(assignments, requests, pushed) /\ LaterCommitsMatch
  BY Stages DEF RequestInit, ObjectInit, RegistryInit, InStep, HoldsTips, LaterCommitsMatch
<1>2. /\ QInv /\ [RequestNext]_requestVars /\ AnswersInOrder
      /\ InStep(assignments, requests, pushed) /\ LaterCommitsMatch
      => InStep(assignments, requests, pushed)' /\ LaterCommitsMatch'
  BY InStepKept, LaterCommitsStep
<1>3. RequestSpec => []QInv
  BY RequestInvariant
<1>4. QED
  BY <1>1, <1>2, <1>3, PTL DEF RequestSpec
====
