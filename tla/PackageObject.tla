---- MODULE PackageObject ----
(***************************************************************************)
(* The package Durable Object of src/src/durable-objects.ts at work: its   *)
(* handlers share the stored registry (PackageRegistry), put artifacts     *)
(* into the R2 bucket (Publication) and get them from a container          *)
(* (Materializer).  A materialization awaits GitHub, the container and the *)
(* bucket, and other handlers run meanwhile; after each await it reads the *)
(* registry again.  The object may be evicted between any two steps, which *)
(* ends every handler and keeps what is stored.                            *)
(***************************************************************************)
EXTENDS PackageRegistry

CONSTANTS
  Attempts,                                      \* bound: handlers at work at once
  Builds, Origins, SourcePaths, Succeeds, TooLarge,  \* see Materializer
  MaxFaults,       \* bound: failures a handler gets an answer about
  MaxAbandoned,    \* bound: failures that end handlers without a word
  MaxFailures      \* bound: failures of both kinds together

ASSUME BoundsAssumption ==
  MaxFaults \in Nat /\ MaxAbandoned \in Nat /\ MaxFailures \in Nat

VARIABLES
  attempts,   \* per handler, the materialization it is in
  bucket, batches,
  faults, abandoned   \* failures so far, of the two kinds

M == INSTANCE Materializer

\* A file's key lies below the version, and those of the metadata and the marker
\* beside it, so no path stands for either of these.
ASSUME SourcePathsAssumption ==
  \A c \in Commits : SourcePaths[c] \in Seq(STRING \ {M!MetadataFile, M!MarkerFile})

Outcomes == M!MaterializationOutcomes
Uploads == [o \in Outcomes |-> M!PublishedUploads(o)]

Store == INSTANCE Publication WITH
  KeyPrefixes <- Versions,
  MarkerPath <- M!MarkerFile

objectVars == <<observed, assignments, versions, recoveries, attempts, bucket, batches, faults,
                abandoned>>

Resting == [stage |-> "none"]
AttemptType ==
  [stage : {"archive", "container", "publishing"}, version : Versions,
   origin : Origins, age : 0..LeaseTimeout]

ObjectInit ==
  /\ RegistryInit
  /\ Store!StoreInit
  /\ attempts = [a \in Attempts |-> Resting]
  /\ faults = 0
  /\ abandoned = 0

Enter(a, stage) == attempts' = [attempts EXCEPT ![a].stage = stage]
Return(a) == attempts' = [attempts EXCEPT ![a] = Resting]
Faults == <<faults, abandoned>>
Failing == faults + abandoned < MaxFailures
Fault == Failing /\ faults < MaxFaults /\ faults' = faults + 1 /\ UNCHANGED abandoned
Abandon == Failing /\ abandoned < MaxAbandoned /\ abandoned' = abandoned + 1 /\ UNCHANGED faults
Job(a) == versions[attempts[a].version]

\* Mutant: the release does not look at the state of the version.
ReleaseJobUnchecked(a) == SetJob(attempts[a].version, "pending")

\* #releaseLease: it has only the version to go by, and conflicts when that is
\* not leased.
ReleaseJob(a) ==
  LET v == attempts[a].version
  IN  IF versions[v].state = "leased"
      THEN ReleaseLease(v) ELSE UNCHANGED registryVars

(***************************************************************************)
(* #materialize, up to its first await: lease the next job and store that. *)
(* Without a job the handler answers at once and changes nothing.          *)
(***************************************************************************)
Materialize(a, origin) ==
  /\ attempts[a] = Resting
  /\ batches[a] = Store!NoBatch
  /\ \E v \in Leasable :
       /\ LeaseNext(v)
       /\ attempts' = [attempts EXCEPT ![a] =
            [stage |-> "archive", version |-> v, origin |-> origin, age |-> 0]]
  /\ UNCHANGED <<bucket, batches, Faults>>

ArchiveArrives(a) ==
  /\ attempts[a].stage = "archive"
  /\ Enter(a, "container")
  /\ UNCHANGED <<observed, assignments, versions, recoveries, bucket, batches, Faults>>

\* Mutant: the handler answers without releasing its lease.
ServiceFailsUnreleased(a) ==
  /\ attempts[a].stage \in {"archive", "container"}
  /\ Fault
  /\ Return(a)
  /\ UNCHANGED <<observed, assignments, versions, recoveries, bucket, batches>>

\* githubArchive gives nothing or throws, or the container cannot be reached,
\* answers an error of its own or something that is not an outcome.
ServiceFails(a) ==
  /\ attempts[a].stage \in {"archive", "container"}
  /\ Fault
  /\ ReleaseJob(a)
  /\ Return(a)
  /\ UNCHANGED <<bucket, batches>>

\* read_archive_body gives up on the archive: 400, every time.
ContainerRefuses(a) ==
  /\ attempts[a].stage = "container"
  /\ Job(a).assignment.commit \in TooLarge
  /\ ReleaseJob(a)
  /\ Return(a)
  /\ UNCHANGED <<bucket, batches, Faults>>

\* The container answers an outcome, by whichever build it runs.
ContainerAnswers(a) ==
  /\ attempts[a].stage = "container"
  /\ Job(a).assignment.commit \notin TooLarge
  /\ \E build \in Builds :
       Store!Begin(a, attempts[a].version,
         M!OutcomeOf(Job(a).assignment.commit, build, attempts[a].origin))
  /\ Enter(a, "publishing")
  /\ UNCHANGED <<observed, assignments, versions, recoveries, Faults>>

\* publishArtifactBatch at work.
Publish(a) ==
  /\ Store!PutObject(a) \/ Store!HeadObject(a)
  /\ UNCHANGED <<observed, assignments, versions, recoveries, attempts, Faults>>

\* Mutant: the handler goes on after a refused publication.
PublicationRefusedIgnored(a) ==
  /\ batches[a].stage = "conflict"
  /\ Store!Close(a)
  /\ UNCHANGED <<observed, assignments, versions, recoveries, attempts, Faults>>

\* The batch answered 409.
PublicationRefused(a) ==
  /\ batches[a].stage = "conflict"
  /\ Store!Close(a)
  /\ ReleaseJob(a)
  /\ Return(a)
  /\ UNCHANGED Faults

\* Mutants: every answer of the batch is taken for success; a tombstone is marked
\* ready.
FinishAnyAnswer(a) ==
  LET v == attempts[a].version
  IN  /\ batches[a].stage \in {"published", "conflict"}
      /\ Store!Close(a)
      /\ \/ Completable(v) /\ batches[a].outcome.state = "ready" /\ MarkReady(v)
         \/ Completable(v) /\ batches[a].outcome.state = "yanked" /\ MarkYanked(v)
         \/ ~ Completable(v) /\ UNCHANGED registryVars
      /\ Return(a)
      /\ UNCHANGED Faults

FinishAlwaysReady(a) ==
  LET v == attempts[a].version
  IN  /\ batches[a].stage = "published"
      /\ Store!Close(a)
      /\ IF Completable(v) THEN MarkReady(v) ELSE UNCHANGED registryVars
      /\ Return(a)
      /\ UNCHANGED Faults

\* The batch answered 204: markReady or markYanked on the registry as it is now,
\* which throws when another attempt has completed the version.
Finish(a) ==
  LET v == attempts[a].version
  IN  /\ batches[a].stage = "published"
      /\ Store!Close(a)
      /\ \/ Completable(v) /\ batches[a].outcome.state = "ready" /\ MarkReady(v)
         \/ Completable(v) /\ batches[a].outcome.state = "yanked" /\ MarkYanked(v)
         \/ ~ Completable(v) /\ UNCHANGED registryVars
      /\ Return(a)
      /\ UNCHANGED Faults

\* The bucket throws: publishArtifactBatch is called outside of the try, so the
\* handler ends without a release.
StorageThrows(a) ==
  /\ Abandon
  /\ Store!Throw(a)
  /\ Return(a)
  /\ UNCHANGED registryVars

\* The container answers an error whose body breaks off while it is read for the
\* log: this, too, is outside of the try.
ErrorBodyBreaks(a) ==
  /\ attempts[a].stage = "container"
  /\ Abandon
  /\ Return(a)
  /\ UNCHANGED <<observed, assignments, versions, recoveries, bucket, batches>>

\* The object is evicted, with every handler in it.
Evict ==
  /\ \E a \in Attempts : attempts[a] # Resting
  /\ Abandon
  /\ Store!StoreCrash
  /\ attempts' = [a \in Attempts |-> Resting]
  /\ UNCHANGED registryVars

LatePut(a) ==
  /\ Store!OrphanLands(a) \/ Store!OrphanLost(a)
  /\ UNCHANGED <<observed, assignments, versions, recoveries, attempts, Faults>>

\* Handlers that make one transition and answer.
HandleRefresh(d) == Refresh(d) /\ UNCHANGED <<attempts, bucket, batches, Faults>>
HandleRecover(v) == RecoverVersion(v) /\ UNCHANGED <<attempts, bucket, batches, Faults>>

\* Time passes for the stored leases and for the attempts they were given to.
Tick ==
  /\ AgeLeases
  /\ attempts' = [a \in Attempts |->
       IF attempts[a] = Resting THEN Resting
       ELSE [attempts[a] EXCEPT !.age = Older(@)]]
  /\ UNCHANGED <<bucket, batches, Faults>>

Work(a) ==
  \/ ArchiveArrives(a)
  \/ ContainerRefuses(a)
  \/ ContainerAnswers(a)
  \/ Publish(a)
  \/ PublicationRefused(a)
  \/ Finish(a)

ObjectNext ==
  \/ \E a \in Attempts, origin \in Origins : Materialize(a, origin)
  \/ \E a \in Attempts : Work(a)
  \/ \E a \in Attempts : ServiceFails(a)
  \/ \E a \in Attempts : StorageThrows(a)
  \/ \E a \in Attempts : ErrorBodyBreaks(a)
  \/ \E a \in Attempts : LatePut(a)
  \/ Evict
  \/ \E d \in Discoveries : HandleRefresh(d)
  \/ \E v \in DOMAIN versions : HandleRecover(v)
  \/ Tick

ObjectSpec == ObjectInit /\ [][ObjectNext]_objectVars

-----------------------------------------------------------------------------
\* The shape of the state; a batch is under way exactly when its handler publishes.
ObjectTypeOK ==
  /\ RegistryTypeOK
  /\ batches \in [Attempts -> Store!BatchType \cup {Store!NoBatch}]
  /\ attempts \in [Attempts -> AttemptType \cup {Resting}]
  /\ faults \in 0..MaxFaults
  /\ abandoned \in 0..MaxAbandoned
  /\ \A a \in Attempts :
       /\ attempts[a] # Resting => attempts[a].version \in DOMAIN versions
       /\ attempts[a].stage = "publishing" <=>
            batches[a].stage \in {"put", "head", "published", "conflict"}

(***************************************************************************)
(* What the metadata advertises can be served, and is what it says: a      *)
(* version marked ready or yanked has, in the bucket, the complete objects *)
(* of an outcome of that kind for the version's own commit, marker         *)
(* included ("Marks a complete artifact set ready after its R2 ready       *)
(* marker exists", markReady).                                             *)
(***************************************************************************)
AdvertisedIsStored ==
  \A v \in DOMAIN versions :
    versions[v].state \in Published =>
      \E o \in Outcomes :
        /\ o.state = versions[v].state
        /\ o.commit = versions[v].assignment.commit
        /\ Store!Complete(v, o)

(***************************************************************************)
(* A marker in the bucket stands for one complete outcome, and the         *)
(* registry will never contradict it: serveArtifact hands out a marked     *)
(* version whether the registry knows of it or not, so the version is      *)
(* known, is of that outcome's commit, and if published has its kind.      *)
(***************************************************************************)
MarkedAgreesWithRegistry ==
  \A s \in bucket :
    s.path = M!MarkerFile =>
      \E o \in Outcomes :
        /\ Store!Complete(s.prefix, o)
        /\ s.prefix \in DOMAIN versions
        /\ o.commit = versions[s.prefix].assignment.commit
        /\ versions[s.prefix].state \in Published => versions[s.prefix].state = o.state

(***************************************************************************)
(* No commit is outstanding for ever, when failures are finitely many: an  *)
(* abandoned lease runs out, a later request takes the job over, and a     *)
(* half-written version is completed by the retry.                         *)
(***************************************************************************)
Outstanding(c) ==
  \E v \in DOMAIN versions :
    versions[v].assignment.commit = c /\ versions[v].state \notin Published

EveryCommitPublished == \A c \in Commits : []<>~Outstanding(c)

(***************************************************************************)
(* A lease is left behind only when its handler was abandoned: as long as  *)
(* none was, every leased version has a handler at work on it, also when   *)
(* leases ran out, were taken over and released by others meanwhile.       *)
(***************************************************************************)
LeasesAreHeld ==
  abandoned = 0 =>
    \A v \in DOMAIN versions :
      versions[v].state = "leased" =>
        \E a \in Attempts : attempts[a] # Resting /\ attempts[a].version = v

(***************************************************************************)
(* The object implements the package that clients see: however its         *)
(* handlers race, fail and are evicted, a version is filled at one moment, *)
(* when its marker lands, with contents of its commit, keeps them, and is  *)
(* advertised after that as what it holds.                                 *)
(***************************************************************************)
Filled == {s.prefix : s \in {m \in bucket : m.path = M!MarkerFile}}

\* The manifest in the metadata of a version, and its files that are stored.
Listing(v) ==
  (CHOOSE s \in bucket : s.prefix = v /\ s.path = M!MetadataFile).bytes[2]
Gettable(v) ==
  {f \in Listing(v) : [prefix |-> v, path |-> f.path, bytes |-> f.bytes] \in bucket}

Clients == INSTANCE PublishedPackage WITH
  Files <- [o \in Outcomes |-> M!ManifestOf(o)],
  issued <- [v \in DOMAIN versions |-> versions[v].assignment.commit],
  contents <- [v \in Filled |-> Gettable(v)],
  advertised <- [v \in {w \in DOMAIN versions : versions[w].state \in Published} |->
                  versions[v].state]
ObjectPublishes == Clients!Spec

\* At most one container works on a version under a lease that is in force
\* ("so only one Container can materialize it", leaseNext).
OneContainerPerLease ==
  \A a, b \in Attempts :
    /\ a # b
    /\ attempts[a] # Resting
    /\ attempts[b] # Resting
    /\ attempts[a].version = attempts[b].version
    => attempts[a].age >= LeaseTimeout \/ attempts[b].age >= LeaseTimeout
====
