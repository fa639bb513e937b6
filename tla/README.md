# Verification of jsrproxy

TLA+ models of jsrproxy, a JSR read-through proxy whose
selected scopes are made from GitHub repositories, with TLC runs on small
instances and TLAPS proofs for all values of the constants. Paths below are
relative to the repository's root.

Run one check with `tlc -config MCPackageObject.cfg MCPackageObject.tla`, one
proof with `tlapm VersionAllocatorProofs.tla`. `PROJECT.json` lists every run
with its properties, for every property a mutation of the code that breaks it,
and for every definition the lines it is translated from.

## 1. The system

A client asks the Worker (`src/index.ts`) for the metadata of a package. The
Worker admits the caller, reads the branch tips of the repository from GitHub,
and sends them to the Durable Object of the package, which gives every new commit
a version and queues a job for it. If a job is pending the Worker asks the object
to materialize: the object leases one job, fetches the commit's archive, has a
container turn it into the files of a package (or of a *tombstone* that throws
when it is imported), puts these into R2, and marks the version ready or yanked.
Then the Worker answers the metadata: the versions that are ready or yanked.
Clients fetch files of a version from R2 through the Worker.

| Component | Source | State | Operations | Model |
|---|---|---|---|---|
| version allocator | `src/version-allocator.ts` | rows per major; in memory a high water and the current attempts | allocate, recover, snapshot, fromSnapshot | `Assignments`, `VersionAllocator`, `VersionLedger` |
| branch selection | `src/branches.ts` | the highest release major ever observed | selectBranches | `BranchSelection` |
| package registry | `src/package-registry.ts` | versions with their job states, leases, audit of repairs | refresh, recoverVersion, leaseNext, releaseLease, markReady, markYanked, meta | `PackageRegistry` |
| artifact publication | `src/r2-publication.ts` | objects in R2, batches under way | publishArtifactBatch | `Publication` |
| materializer | `materializer/src/*.rs` | none | run_materialization, publish, build_tombstone | `Materializer` |
| package Durable Object | `src/durable-objects.ts` | the stored registry; handlers that await | /refresh, /recover, /materialize, (/complete) | `PackageObject`, `PublishedPackage` |
| Worker, metadata | `src/index.ts` | requests under way | refreshPackageMetadata | `MetadataRequests` |
| GitHub discovery | `src/github-branches.ts` | none | discoverGitHubBranches | `Tips` and `DiscoveryFails` in `MetadataRequests`, `Discoveries` in `PackageRegistry` |
| artifact serving | `src/r2-artifacts.ts` | reads under way; the copies clients keep | serveArtifact | `ArtifactServing` |
| admission, authorization | `src/durable-objects.ts`, `src/auth.ts` | cached decisions with an expiry | /check, /authorize | `Authorization` |
| jsr.io fallthrough | `src/fallthrough.ts` | immutable cache, reads under way | fallThrough | `Fallthrough` |
| paths and routes | `src/identity.ts`, `src/index.ts` | none | parsing, choice of route | `Routing` |
| import rewriting, source configuration | `materializer/src/import_rewrite.rs`, `config.rs`, `jsr_exports.rs` | none | pure functions | not modelled |
| configuration | `src/config.ts` | none | parsing | not modelled |

### What makes each part correct

- **Allocator.** Versions are issued once and never change; a later row of a major
  is newer; no two rows share a version; only the rows are stored, so rebuilding
  the counters at each handler must change nothing.
- **Branch selection.** The default branch stays above every major a release
  branch has owned, including deleted ones.
- **Registry.** Jobs and rows agree; what was published is final; repairs are
  accounted for.
- **Publication.** A key is written once; a ready marker stands for one complete
  outcome even when batches of different outcomes race or stop half way.
- **Package object.** The metadata never advertises what is not stored, nor says
  ready of a tombstone; late, lost, overtaken attempts do no harm; work
  that was abandoned is done in the end; no error path forgets its lease.
- **Admission and authorization.** Access that was taken away is gone, and access
  that was given is there, within the lifetime of a decision; an outage of GitHub
  decides nothing.
- **Serving.** What was served stays what is stored, and nothing a marker announces
  is missing (files whose name a URL encodes are, section 3).
- **Fallthrough.** A module is handed out with the bytes jsr.io published or not at
  all; only damage should be refused (the form of the manifest decides, section 3).
- **Worker.** What a client was told stays true; every request is answered; the
  requests of clients are what keeps the package going, one job each.

### What is hard here

The registry is read and written without I/O in between, so one transition is
atomic; but `#materialize` awaits GitHub, the container and every put and
head of R2, and any other handler runs in those gaps. A lease names no holder. An
eviction ends handlers between two puts, or between the marker and the registry.
Nothing but a request does any work: there is no alarm in the code. Discoveries
travel from the Worker to the object without an order. The reads that fall through to
jsr.io share a cache that any of them fills and the platform empties. The hazards in
`PROJECT.json` name the line of each of these and the properties about it.

## 2. Modules

**`Assignments`** holds the rows of the allocator as a set of records and what is
computed from them: `RehydratedHighWater` and `RehydratedAttempt` are the loops of
`fromSnapshot`, `NextSequence` is the `Math.max` of `#append`, `PutRow` is
`Map.set`. A version `"<major>.1.<sequence>"` is the pair of its numbers: the text
is injective and nothing but `leaseNext` looks at it as text.

**`VersionAllocator`** is the allocator in memory: `assignments`, `highWater`,
`currentAttempts`, with the actions `Allocate`, `Recover` and `Rehydrate`
(`fromSnapshot(snapshot())`). In the running system every handler rehydrates; the
model lets any number of operations happen between two rehydrations, which covers
that. **`VersionLedger`** is the abstract specification: a set of rows that is only
ever added to, by rows that may follow (`MayFollow`). `VersionAllocator` and
`PackageRegistry` both implement it.

**`BranchSelection`** is `selectBranches`. A branch name is a model value;
`ReleaseMajor` is the result of `releaseMajor` on it.

**`PackageRegistry`** is the stored snapshot of one package (`observed`,
`assignments`, `versions`, `recoveries`), with one action per transition. The
loop of `refresh` over the selected branches becomes one set-valued step, which is
possible because the selected majors are pairwise different. `leaseNext` sorts by
`localeCompare` on the version text, so `NumeralBefore` compares numerals digit by
digit: 10 comes before 8 and 9. The absolute `leasedAt` is the age of the lease,
capped where the comparison with the timeout no longer changes. A discovery is any
combination of tips, also one that no single moment of the repository had.
`HandleComplete` is `/complete`, which only a test calls.

**`Publication`** is `publishArtifactBatch`. A batch of a handler is at one of its
uploads, in stage `put` (about to put), `head` (the key was taken), `published`,
`conflict`, or `orphan`: its handler is gone and the put on its way may still take
effect, or not. `onlyIf: etagDoesNotMatch "*"` is an atomic create-if-absent, as R2
provides. Hashes are assumed to tell bytes apart.

**`ArtifactServing`** adds `serveArtifact` to it: a client asks for a file of a version,
the marker is got, then the object, and the batches run in between. The client keeps
its copy, and a later request for the same file confirms it or replaces it. A path is
encoded when it becomes a URL (`InUrl`; `Encoded` gives the paths this changes). An
upload is stored under the path decoded again (`ArtifactKey`), which is the path the
manifest lists, so `Publication` has just that one (`EncodedAssumption`). A read is
looked up under the pathname as it is (`Ask`), as `syntheticArtifactPath` does: a file
`{b}.ts` is stored as that, and asked for as `%7Bb%7D.ts`.

**`Materializer`** says what the container answers: the outcome is decided by the
commit, by the build of the materializer (`Builds`; deployments and rollbacks
change it between two attempts), and the failure module of a tombstone also
repeats the origin of the request. The bytes of a file are a tuple of exactly the
things that decide them. The objects come in the order of `publish`: files,
metadata, marker; the marker holds the hash of the manifest only.

**`PackageObject`** composes `PackageRegistry` (EXTENDS), `Publication` (`Store`)
and `Materializer` (`M`). Each member of `Attempts` is one `/materialize` handler:
`Materialize` (lease and save), `ArchiveArrives`, `ContainerAnswers`, `Publish`
(one bucket operation), `Finish`; with the ways to fail: `ServiceFails` (releases
the lease), `ContainerRefuses` (the archive is over the limit, 400, every time),
`PublicationRefused` (409), `StorageThrows` and `ErrorBodyBreaks` (outside of the `try`:
no release) and `Evict`. `/refresh` and `/recover` are single steps.

**`PublishedPackage`** is the abstract specification of the package as clients see it:
which versions are `issued`, what `contents` they have, and what is `advertised` of
them. A version is issued for a commit (`Issue`), filled once and at once (`Fill`), and
advertised after that as what its files are (`Advertise`); nothing is taken back. In
`PackageObject` the instance `Clients` maps it: a version is issued when it has a job; it
is filled when its marker is in the bucket, and its contents are then the files that its
stored metadata lists (`Listing`) and that are stored (`Gettable`; whether a URL leads to
them is a question of `ArtifactServing`); it is advertised when its job is ready or yanked. A batch of a dozen puts is one `Fill`, at the put of the
marker, and everything else a handler does is a stutter.

**`MetadataRequests`** adds the Worker: `Discover`, `PostRefresh`,
`PostMaterialize`, the end of the materialization, and pushes to the default
branch between any of them. A request that ended may start again: clients retry.
`DiscoveryFails` is a discovery that GitHub refuses or that makes no sense.

**`Authorization`** is the gate of `worker.fetch` with the admission object and
`#authorize`. The two handlers have the same steps, so one handler serves both
questions, "admission" and "repository": `Recall` (a decision in force), `Ask`,
`Reply` (GitHub decides, from the access it sees at that moment), `Classify`
(status and headers), `Read` (the body), and `Lose`. `Conclude` is the gate: 404, the
next question, or pass. Between any of these other requests run, the clock ticks and
access changes. A caller is a PAT. `decisions` is what the objects store; its field
`read` exists for the properties only. The Worker keeps no decisions of its own.

**`Routing`** holds the pure part of the Worker's choice of route: which paths name a
package, a status or a repair (`identity.ts`), which are in a configured scope whether
they name something or not (`index.ts`: in the pathname as it is written, so a segment
`%40acme` is not `@acme`), and which immutable resource a path is of (`immutablePath`). A path is the sequence of its segments, and what a pattern says of
one segment is membership in a set.

**`Fallthrough`** is `fallThrough` over the shared cache: `Arrive` (look the resource
up), `Consult` (look the metadata of its release up), `ReleaseArrives`, `StoreRelease`,
`ModuleArrives`, `StoreModule`, `Fail`, and `Drop`, by which the platform forgets an
entry. What arrives may be damaged: metadata is the manifest, nothing readable, or the
manifest with one checksum that no body has; a module is any body. `Slashed` are the
releases whose manifest puts a `/` in front of the path of each module, as jsr.io and the
materializer do; the others list paths without, as `fallthrough.test.ts` does. The lookup
in the code uses none.

The `MC` modules give the constants their values.

## 3. Runs

| Run | Instance | Shows |
|---|---|---|
| `allocator` | 3 commits, two dates equal and one backward, 2 majors, 1 recovery per commit and major | counters equal the rehydrated ones, versions unique, attempts ordered, `VersionLedger` implemented |
| `registry` | a default branch that rests and two release branches that come, move and go, over 2 commits; 1 repair | jobs match rows, audit complete, published is final, default above releases, ledger implemented |
| `publication` | 2 handlers, 1 client, one prefix, a package with a file whose name a URL changes, and two tombstones of different bytes | marker complete, success means stored, written once, copies stay true, what is listed under a name that a URL keeps is served |
| `package_object` | 2 handlers, 2 commits, one of them too large, 2 builds that disagree about the other, 1 repair, 1 failing service, 1 abandonment | advertised is stored, marked agrees with registry, only abandoned handlers leave leases behind, published is final, `PublishedPackage` implemented |
| `metadata_requests` | 2 requests, 3 commits pushed in order, the first of them too large, 1 failing service or discovery or 1 abandonment, fairness | answers stay true, every request is answered, requests publish every commit that no refused job comes before, unless a handler was abandoned |
| `fallthrough` | 2 reads, a configured scope and another, 2 versions of a package, one with slashes in its manifest, 2 bodies and damage, 14 paths of every shape | what is served is genuine, modules listed as they are looked up are refused only for damage, the others always |
| `authorization` | 2 requests of one caller, 1 change of access, a lifetime of 1, answers that travel for up to 1, 4 moments | the gate follows GitHub within a lifetime and a delay, both when access is taken away and when it is given |

In `package_object` the dates 8 and 9 with a first collision in a major reach sequence 10,
where the order of the text differs from that of the numbers; in `metadata_requests` the
dates are 9, 10 and 11. One abandonment and one overtaken lease
give every kind of overlap of two attempts: the second may begin at any operation
of the first, because `LeaseTimeout = 1` lets a lease run out at any step.
(`LeaseTimeout = 2` is used where two leases in force must be told apart.) With two
builds and two origins three different outcomes may meet on a prefix. A third
concurrent handler adds nothing but another pair; the one property that needs
three, `OneContainerPerLease`, has them. `MaxAttempt`, `MaxRecoveries`, `MaxFaults`,
`MaxAbandoned`, `MaxFailures` (of both kinds together), `MaxTime` and `MaxChanges` are the only counters and appear in the guards; safety without
bounds is what the proofs are for. `package_object`, `fallthrough` and `authorization`
use the symmetry of their handlers; the run with liveness uses none.

In `fallthrough` two reads are enough for one to fill the cache under the other, and
two versions for the metadata of one to be taken for that of another.

In `authorization` a change at time 0 or 1 must be followed from time 2 or 3 on, so 4
moments are enough to hold a stale answer, the decision it stores and its end.

Deadlock is checked in all runs; there is always a request, a tick or a rehydration
to come.

### Disagreements between the code and its documentation

Each of these runs has one property, which states what the text says, and TLC finds
a behaviour of the code against it.

| Run | The text | What happens |
|---|---|---|
| `shared_lease` | "so only one Container can materialize it" (`package-registry.ts:164`) | an attempt that lost its lease releases its successor's, and a third one starts |
| `abandoned_lease` | "Expire lease; next PAT-bearing request resumes" (`DESIGN.md:781`) | requests materialize only when a job is *pending*; a leased one is not looked at again |
| `stale_discovery` | "later commits within a major continue to match" (`DESIGN.md:286`) | an older discovery applied last gives the older commit the newer version |
| `module_refused` | "Forward bodies byte-identical" (`DESIGN.md` 7.4), manifests keyed by `"/" + path` (`publication.rs:121`) | a module is looked up without the slash, so every genuine module of such a release is answered 502 |
| `partial_uploads` | "partial uploads are unreachable" (`r2-publication.ts:60`) | what an abandoned batch stored is served, though in no manifest, once a retry by another build has stored its marker |

`abandoned_lease` is why `RequestsPublishCommits` excepts abandoned handlers. The object
can take an expired lease over, only nobody asks it to. Its other exception,
`Obstructed`, is a commit whose job is refused every time or comes, in text order, after
one that is: an archive over 20 MiB is answered 400 (`service.rs:60-70`), its lease is
released, and `leaseNext` (`package-registry.ts:173`) gives it to the next request
again, before any later job of the package, while `DESIGN.md:782` says of contents that
cannot be materialized "Publish tombstone; ranges retain last ready version". No handler
need be abandoned for that. In `metadata_requests` the first commit, of sequence 9, is
such a one, and the others are published all the same, because "10" and "11" come before
"9"; with jobs sorted by number they would not be.

`ModulesFollowListing` is what `module_refused` leaves true: in `fallthrough` one of two
releases lists its modules as the code looks them up, so that the checksums are exercised
at all, and of the other no module is ever fetched.

Smaller ones were seen while modelling and have no run. `recoverVersion` repairs ready
versions as well as tombstones, while `version-allocator.ts:36` speaks of an
"administrator-approved tombstone recovery". A file
whose name has a `{` or a `}`, which `validate_package_path` allows (`service.rs:427-428`),
is stored under its own name (`r2-publication.ts:96`) and looked up under the encoded one
(`index.ts:151`), so it is 404 although its version is marked and lists it;
`ListedIsServed` excepts these names and no others. The bare scope `/@acme` and a scope
with an escaped letter, `/%40acme/ui/meta.json`, match none of the patterns of
`index.ts:85-98` and are sent to jsr.io, while `DESIGN.md:806` says "no jsr.io
fallthrough inside those scopes"; `FallsThrough` lets them pass as the code does. When
jsr.io cannot be
reached the exception of the fetch leaves the Worker, while `DESIGN.md:769` speaks of a
502. When GitHub is down the metadata of a package is answered 503 or 502 even to a
caller with a grant in force, while `DESIGN.md:770` says "Serve ready versions; defer
branch refresh"; `DiscoveryFails` does what the code does. Version metadata is cached as it comes, while the comment at `fallthrough.ts:15`
says that it is cached only after module bytes matched; `StoreRelease` does what the
code does. The failure module of a tombstone repeats the origin of its request, so a retry need not
write the same bytes (`DESIGN.md:499`); such a retry is refused and completes nothing.
The body of an accepted answer of GitHub that breaks off is stored as a denial
(`durable-objects.ts:76` and `:125`), while `DESIGN.md` 9.2 says of timeouts and
connection failures "Do not cache"; the model takes this step, and `DenialsRunOut`
leaves the requests that rest on it, stage `misread`, out. And a decision is dated
when the answer is read, not by "the GitHub check that created it", so "at most 60
seconds" is 60 seconds plus the travel of one answer (`MaxDelay`): an answer that was
sent before a change and is read after it replaces the newer decision.

## 4. Fairness

`FairRequestSpec` assumes that a service that was called
answers, with a success or one of the failures bounded by `MaxFaults` and
`MaxAbandoned` (the platform ends requests that hang); that a put on its way takes
effect or is lost in the end; that time passes; and that clients keep asking. All
are weak fairness on one handler's next step. Nothing is assumed about the order of
handlers, and no failure is required to happen or not to.

## 5. Proofs

`VersionAllocatorProofs` proves, for any commits, dates, majors and bounds:
`TypeCorrect`, `RestartLosesNothing` (`RehydrationFaithful`), `AttemptsOrdered`
(`LaterAttemptIsNewer`), `VersionsNameOneRow` (`VersionsUnique`) and `ImplementsLedger`
(the refinement).
`RehydrationFaithful` speaks of maxima of sets that grow, which the provers do not
compute by themselves; the inductive invariant `IInv` says instead that every counter is *exact*:
it bounds the rows and is reached by one of them, or there is none. The lemma
`ExactIsRehydrated` turns that into the equation with `Max`. Every step of the
allocator adds one row above everything in its major (`AppendedRow`), from which
the invariant, uniqueness and the ledger's `MayFollow` all follow.

`MaxLemmas` holds what both kinds of rows need: a finite set of integers has a greatest
one, and `Max` of the community modules is it.

`PackageRegistryProofs` proves `RegistryTypeCorrect`, `RowsAndJobsAgree`
(`JobsMatchRows`), `RepairsAreAccountedFor` (`AuditComplete`), `PublicationIsFinal`
(`PublishedIsFinal`), `DefaultNeverSharesMajor` (`DefaultStaysAboveReleases`) and
`RegistryImplementsLedger`, for any commits, dates, branches and discoveries. `RInv`
adds four things: the rows are finitely many (each discovery has finitely many
branches, `DiscoveriesAssumption`), so that the maxima `fromSnapshot` rebuilds exist;
a version names one row, so that a new job displaces none; no row is dated before its
commit; and no job's release is above the observed high water. The central lemma,
`NextRowMayFollow`, is that a row made from the rebuilt maxima is above every row of
its major, and `RefreshStep` applies it to all selected branches at once, which works
because `Selection` gives them different majors.

`PublicationProofs` proves `StoreTypeCorrect`, `MarkerStandsForOutcome`
(`MarkerComplete`), `SuccessStandsForOutcome` (`SuccessMeansStored`),
`ObjectsAreWrittenOnce`, `ServedCopiesStayTrue` and `ListedFilesAreServed` (files whose
name a URL changes excepted), for any handlers, clients, prefixes, encodings, outcomes and
uploads in which the marker is the last item (`UploadsAssumption`) and decoding a URL gives
the path that it was made of (`EncodedAssumption`). It is about `ArtifactServing`, the bucket with its readers. The inductive invariant `PInv` adds that an open batch has
stored everything before the item it is at and that a key holds one object: then
putting the marker completes the outcome, and an object that is already there is
the batch's own, or the batch ends in a conflict. The readers' properties follow
because the bucket only grows and a marker that was seen is still there.

`PackageObjectProofs` puts the two together, for any number of handlers, commits,
builds, origins and faults: `ObjectTypeCorrect`, `AdvertisedVersionsAreStored`
(`AdvertisedIsStored`), `MarkersAgreeWithRegistry` (`MarkedAgreesWithRegistry`),
`ObjectImplementsRegistry` (the object, with all its awaits, failures and evictions,
takes only the registry's transitions) and, from that, `ObjectPublicationIsFinal`
(`PublishedIsFinal`). The invariant `OInv` is `RInv` and, for each handler,
`HandlerOK`: the version it leased is known, its batch is for that version and for an
outcome of that version's commit, and what the batch has passed is stored. Two steps
carry the argument. A put that adds a marker completes its outcome and meets a version
that is not published yet, for a published one has its marker already
(`PutKeepsMarked`); and completing a version publishes it as the kind of a batch that
is stored whole, which is then the witness of both properties (`FinishStep`). The
arguments of `PublicationProofs` are made again for the object's own store, because
the provers cannot use a theorem through `INSTANCE ... WITH`. The marker comes last
because no source path is the metadata's or the marker's (`SourcePathsAssumption`: files lie
below the version's directory, those two beside it).

The same module proves what the object promises beyond its registry.

- `ObjectImplementsStore`: the object, with every handler in it, treats the bucket only
  as `Publication` says, and so, from `OInv` again, `ObjectWritesOnce`.
- `ObjectImplementsPublishedPackage` (`ObjectPublishes`) is the refinement of
  `PublishedPackage`. `ObjectEffects` reduces every step to one of three: a put, a change
  of the jobs that publishes nothing, or a completion. A put fills a version exactly if it
  puts its marker, and then `Gettable` is the manifest of one outcome (`FilesOfWhole`:
  the metadata that is stored is the one the marker vouches for, because
  a key holds one object); any other put may add a file to a filled version, but none
  that its metadata lists (`PutFills`). A completion advertises a filled version with
  the kind of *its* files: manifests of packages and of tombstones differ
  (`ManifestTellsState`), because all texts name their kind and a tombstone is not empty.
- `LeasesAreAlwaysHeld` (`LeasesAreHeld`): by `LeaseEffects` a step takes a lease for its
  own handler, keeps leases as they are, gives back the one lease of the handler that
  returns, abandons handlers, or lets time pass. That an overtaken attempt may release
  its successor's lease does not harm this: the version is then not leased at all.
- `LeasesAreExclusiveInTime`: `OneContainerPerLease`, which `shared_lease` refutes, holds
  under `[]EveryAttemptInTime`, that no materialization lasts as long as its lease
  (`MATERIALIZATION_LEASE_TIMEOUT_MS`). The code does not ensure this; the theorem says
  that it is the only thing that is missing. The invariant `Exclusive` is that each
  handler's own lease is in force, as old as its attempt.
- `AlikeRetriesAreNotRefused` and `AlikeRetriesLeaveNothingOver` have the hypothesis
  `RetriesAreAlike`, "A retry writes the same R2 keys and bytes" (`DESIGN.md:499`), for
  every build and origin. `OneBuildRetriesAlike` shows when that is so: with one build,
  and with one origin or without tombstones. Then no batch ends in a conflict, and what
  is stored of a filled version is what the outcome that filled it put there, so that
  what `partial_uploads` refutes is the effect of retries that are not alike and of
  nothing else. The invariant `MInv` says where objects come from: each belongs to an
  outcome that some build and origin make of its version's commit, a filled version is
  filled with one of those, and what a batch is looking at (`head`) is there.

`MetadataRequestsProofs` goes on to the clients, for any number of requests and any history of
the default branch: `RequestTypeCorrect`, `AnswersRemainTrue` (`AnswersStayTrue`) and
`RequestsImplementRegistry`. Each request step is a step of the object or leaves it
alone (a discovery that fails only counts a fault), so `OInv` holds throughout;
`RequestOK` adds that an answer lists only versions that were published, with the marks
they had. Since published versions are final (`Continues`) and advertised versions are
stored, answers stay true. `TipsAssumption` says that what GitHub lists is one of the
discoveries the object is called with. For the same reason
`RequestsImplementPublishedPackage` (`ObjectPublishes`) and `RequestsHoldLeases`
(`LeasesAreHeld`) hold: the promises of the object are kept under its real client.

`LaterCommitsMatchInOrder` proves `LaterCommitsMatch`, which `stale_discovery` refutes,
under `[]AnswersInOrder`: requests that hold a discovery at the same time hold the same
one. The Worker does not ensure this, but requests that come one after the other do. The invariant
`InStep` is that no row is of a commit pushed after one that a request still holds; a
refresh then adds rows of the newest commit only (`AddedRows`), above all rows of their
major, as the ledger says.

`FallthroughProofs` proves `CacheTypeCorrect`, `ServedModulesAreGenuine`
(`ServedIsGenuine`) and `ListingDecidesModules` (`ModulesFollowListing`), for any modules,
paths, reads and any releases with a slash in their manifest. `FInv` follows a read from stage to
stage: the metadata it carries is that of its own release, damaged or not, and a body
that waits to be stored passed the check against it. A damaged checksum vouches for no
body, so what passed is genuine; a name without a slash is found in a manifest only when
that lists its modules so, so a read of a slashed release gets no further than its
metadata, and one of another is refused only if some part of what it holds is damaged.

`AuthorizationProofs` proves `AuthorizationTypeCorrect`, `RevocationIsBounded`
(`GrantsRunOut`) and `DenialIsBounded` (`DenialsRunOut`), for any callers, requests,
lifetime and delay; it covers several callers, which the run does not. Neither
property is inductive: it speaks of settled requests, and what they rest on is held in
other places before. `AInv` says of each place how old the view of GitHub in it may be:
an answer on its way held when it was sent (`AnswerOK`), a stored decision held at most
a delay and a lifetime before it expires (`DecisionOK`), and a request at the second
question passed the first with a grant that is right or in doubt (`ProgressOK`).

The assumptions on constants are the `ASSUME`s of the modules, which TLC evaluates
in the runs. All invariants, step properties and refinements of the passing runs are
proved. The three theorems with a hypothesis about behaviours or retries
(`EveryAttemptInTime`, `AnswersInOrder`, `RetriesAreAlike`) are each the counterpart of a
run that expects a violation: the run shows that the property needs the hypothesis, the
theorem that it needs nothing else. Liveness
(`EveryRequestAnswered`, `RequestsPublishCommits`) is checked by TLC only: neither
fairness nor `ENABLED` is in the provers' reach. The values of `Digits`, which is
recursive, are checked by being used.

## 6. Abstractions

- A handler's load, transition and save are one step: `#registry` and
  `#saveRegistry` are `async` but await nothing, and the events of a Durable Object
  run to their next await one at a time.
- Outcomes are per commit, build and origin. Which archives a build accepts is a
  constant; unpacking, limits, import rewriting and configuration are not opened.
- The text of a file names its kind, so no source file is taken for one of a tombstone.
  `ManifestTellsState`, and with it `ObjectPublishes`, rests on that.
- The rejections of malformed requests and uploads (400, 405, 422) are left out: the
  Worker and the materializer do not send such.
- The reason and time of a repair, diagnostics, headers and cache lifetimes do not
  appear. Repairs are at most `MaxRecoveries`.
- In `MetadataRequests` and `PackageObject` GitHub answers one consistent picture of
  the branches. In the code the default branch, each page of branches and each commit
  are separate requests; `PackageRegistry` takes any combination.
- A branch moves forward through `History` in `MetadataRequests`; in
  `PackageRegistry` and `PackageObject` discoveries come in any order, which covers
  force-pushes.
- GitHub's answers are read within `MaxDelay` of being sent: the code sets no timeout,
  the platform ends requests that hang. Who is trusted changes with GitHub's view.
- R2 is strongly consistent, a bucket operation that answers has taken effect, and
  nothing but the proxy writes to it.
- The Cache API is one cache that stores a body under a URL or forgets it. What jsr.io
  sends is damaged or genuine; it does not send another genuine file.
- A client's copy is an object; the date in `if-modified-since` has the precision of a
  second, and objects under one key never differ, so tag and date say the same.
- Dates are small numbers; sequences near 2^53, where `validateInputs` would refuse,
  need dates that GitHub does not give.

## 7. Not modelled

- `materializer/src/import_rewrite.rs`, `config.rs`, `jsr_exports.rs`, `media_type.rs`:
  functions from the text of a package to text. What they decide reaches the rest of the
  system as one bit, whether a commit succeeds under a build (`Succeeds`).
- The order of the verdicts of `source_package` (`service.rs`): all of them end in a
  tombstone. That a truncated archive is one of them makes the outcome depend on the
  transfer, which `Succeeds` does not show.
- `src/config.ts`: validation of the deployment's text, once per request, without state.
- `src/materializer-container.ts`, `main.rs`, `lib.rs`: settings and process start.
- `packageStatus` and `/status`, `/meta.json` of the object: they read and change
  nothing. `recoverPackage` checks a secret and calls `HandleRecover`.

## 8. Plan

Done: the modules of section 2, their runs, and the proofs of section 5.

Next, in order:

1. Discovery in its separate requests: which combinations of tips can come about, and
   what a release branch that is skipped does to the majors.
2. The verdicts of `source_package` in their order, with a transfer that may be cut off.
3. The readers of `ArtifactServing` over the bucket of `PackageObject`, so that what is
   served is compared with what is advertised.
