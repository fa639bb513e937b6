---- MODULE PackageRegistry ----
(***************************************************************************)
(* src/src/package-registry.ts: the durable state of one package, and the  *)
(* transitions the handlers of its Durable Object make.  A handler loads   *)
(* the stored snapshot, makes one transition and stores the result with no *)
(* I/O in between, so each transition is one action on the stored state.   *)
(*                                                                         *)
(* The absolute leasedAt of a job is kept as the age of its lease, in      *)
(* units of which LeaseTimeout make up the lease timeout; an age stops     *)
(* growing there, where leaseNext's comparison no longer changes.          *)
(***************************************************************************)
EXTENDS Assignments, BranchSelection, Sequences, SequencesExt

CONSTANTS
  Discoveries,     \* the answers of GitHub that refresh is called with
  LeaseTimeout,    \* MATERIALIZATION_LEASE_TIMEOUT_MS in units of the clock
  MaxRecoveries    \* bound: the package is repaired at most this often

DiscoveryType ==
  [default : Branches, tips : UNION {[D -> Commits] : D \in SUBSET Branches}]

ASSUME DiscoveriesAssumption ==
  /\ Discoveries \subseteq DiscoveryType
  /\ \A d \in Discoveries : IsFiniteSet(DOMAIN d.tips)
ASSUME LeaseTimeoutAssumption == LeaseTimeout \in Nat \ {0}
ASSUME MaxRecoveriesAssumption == MaxRecoveries \in Nat

VARIABLES
  observed,       \* branches.highestObservedReleaseMajor
  assignments,    \* the allocator's rows
  versions,       \* the job of every version
  recoveries      \* the audit entries of repairs

registryVars == <<observed, assignments, versions, recoveries>>

Published == {"ready", "yanked"}
Jobs == [assignment : Rows, branch : Branches,
         state : {"pending", "leased"} \cup Published, age : 0..LeaseTimeout]
Recoveries == [original : Versions, replacement : Versions]

NewJob(row, b) == [assignment |-> row, branch |-> b, state |-> "pending", age |-> 0]

RegistryInit ==
  /\ observed = NoneObserved
  /\ assignments = {}
  /\ versions = [v \in {} |-> {}]
  /\ recoveries = {}

\* The row a further attempt of a commit gets.
NextRow(m, c, committedAt) ==
  [major |-> m, commit |-> c,
   attempt |-> RehydratedAttempt(assignments, m, c) + 1,
   sequence |-> NextSequence(committedAt, RehydratedHighWater(assignments, m))]

(***************************************************************************)
(* refresh: every selected branch keeps the row its commit has in the      *)
(* branch's major, or gets the first one.  The selected majors differ, so  *)
(* the order of the allocations does not matter.  A version without a job  *)
(* gets a pending one.                                                     *)
(***************************************************************************)
AllocatedRow(b) ==
  LET rows == RowsOfCommit(assignments, b.major, b.commit)
  IN  IF rows = {}
      THEN NextRow(b.major, b.commit, CommittedAt[b.commit])
      ELSE CHOOSE r \in rows :
             r.attempt = RehydratedAttempt(assignments, b.major, b.commit)

Refresh(d) ==
  /\ Selectable(d)
  /\ LET selected == SelectedBranches(d, observed)
         jobs == {NewJob(AllocatedRow(b), b.branch) : b \in selected}
         created == {j \in jobs : VersionOf(j.assignment) \notin DOMAIN versions}
     IN  /\ observed' = ObservedAfter(d, observed)
         /\ assignments' = assignments \cup {j.assignment : j \in jobs}
         /\ versions' =
              [v \in DOMAIN versions \cup {VersionOf(j.assignment) : j \in created} |->
                 IF v \in DOMAIN versions THEN versions[v]
                 ELSE CHOOSE j \in created : VersionOf(j.assignment) = v]
  /\ UNCHANGED recoveries

\* Mutant: the replacement's job takes the place of the original.
RecoverVersionInPlace(v) ==
  /\ Cardinality(recoveries) < MaxRecoveries
  /\ v \in DOMAIN versions
  /\ versions[v].state \in Published
  /\ LET record == versions[v].assignment
         row == NextRow(record.major, record.commit, record.sequence)
     IN  /\ assignments' = PutRow(assignments, row)
         /\ versions' = [versions EXCEPT ![v] = NewJob(row, @.branch)]
         /\ recoveries' = recoveries \cup
              {[original |-> v, replacement |-> VersionOf(row)]}
  /\ UNCHANGED observed

\* Mutant: the repaired version is taken for its own replacement.
AuditEntrySwapped(v, w) == [original |-> w, replacement |-> v]

AuditEntry(v, w) == [original |-> v, replacement |-> w]

\* recoverVersion: a published version gets a pending replacement.
RecoverVersion(v) ==
  /\ Cardinality(recoveries) < MaxRecoveries
  /\ v \in DOMAIN versions
  /\ versions[v].state \in Published
  /\ LET record == versions[v].assignment
         row == NextRow(record.major, record.commit, record.sequence)
         job == NewJob(row, versions[v].branch)
     IN  /\ assignments' = PutRow(assignments, row)
         /\ versions' = [w \in DOMAIN versions \cup {VersionOf(row)} |->
                           IF w = VersionOf(row) THEN job ELSE versions[w]]
         /\ recoveries' = recoveries \cup
              {AuditEntry(v, VersionOf(row))}
  /\ UNCHANGED observed

SetJob(v, state) ==
  /\ versions' = [versions EXCEPT ![v].state = state, ![v].age = 0]
  /\ UNCHANGED <<observed, assignments, recoveries>>

\* Mutant: #requirePending finds the version and does not look at its state.
Known(v) == v \in DOMAIN versions

\* markReady and markYanked, by way of #requirePending.
Completable(v) == v \in DOMAIN versions /\ versions[v].state \in {"pending", "leased"}
MarkReady(v) == Completable(v) /\ SetJob(v, "ready")
MarkYanked(v) == Completable(v) /\ SetJob(v, "yanked")

\* POST /complete, which a test calls and the program does not.
HandleComplete(v) == MarkReady(v) \/ MarkYanked(v)

(***************************************************************************)
(* leaseNext sorts the candidates by the text of their version, so 0.1.10  *)
(* comes before 0.1.9: numerals are compared digit by digit.               *)
(***************************************************************************)
Digits[n \in Nat] == IF n < 10 THEN <<n>> ELSE Append(Digits[n \div 10], n % 10)

NumeralBefore(a, b) ==
  LET s == Digits[a]
      t == Digits[b]
      common == LongestCommonPrefix({s, t})
      i == Len(common) + 1
  IN  a # b /\ (Len(s) < i \/ (Len(t) >= i /\ s[i] < t[i]))

TextBefore(v, w) ==
  \/ NumeralBefore(v.major, w.major)
  \/ v.major = w.major /\ NumeralBefore(v.sequence, w.sequence)

\* The candidates of leaseNext.
Leasable ==
  {v \in DOMAIN versions :
     \/ versions[v].state = "pending"
     \/ versions[v].state = "leased" /\ versions[v].age >= LeaseTimeout}

\* Mutant: the candidates are sorted by the numbers of their versions.
LeaseNextByNumber(v) ==
  /\ v \in Leasable
  /\ \A w \in Leasable \ {v} :
       v.major < w.major \/ (v.major = w.major /\ v.sequence < w.sequence)
  /\ SetJob(v, "leased")

LeaseNext(v) ==
  /\ v \in Leasable
  /\ \A w \in Leasable \ {v} : TextBefore(v, w)
  /\ SetJob(v, "leased")

ReleaseLease(v) ==
  /\ v \in DOMAIN versions
  /\ versions[v].state = "leased"
  /\ SetJob(v, "pending")

\* Time passes for every lease.
Older(age) == IF age < LeaseTimeout THEN age + 1 ELSE age

AgeLeases ==
  /\ versions' = [v \in DOMAIN versions |->
       IF versions[v].state = "leased"
       THEN [versions[v] EXCEPT !.age = Older(@)] ELSE versions[v]]
  /\ UNCHANGED <<observed, assignments, recoveries>>

RegistryNext ==
  \/ \E d \in Discoveries : Refresh(d)
  \/ \E v \in DOMAIN versions : RecoverVersion(v)
  \/ \E v \in DOMAIN versions : LeaseNext(v)
  \/ \E v \in DOMAIN versions : ReleaseLease(v)
  \/ \E v \in DOMAIN versions : HandleComplete(v)
  \/ AgeLeases

RegistrySpec == RegistryInit /\ [][RegistryNext]_registryVars

-----------------------------------------------------------------------------
\* The shape of the stored state.
RegistryTypeOK ==
  /\ observed \in Nat \cup {NoneObserved}
  /\ assignments \subseteq Rows
  /\ DOMAIN versions \subseteq Versions
  /\ \A v \in DOMAIN versions : versions[v] \in Jobs
  /\ recoveries \subseteq Recoveries

(***************************************************************************)
(* The allocator and the version map agree: every issued row has exactly   *)
(* one job, under the version of that row, and there is no job without a   *)
(* row, whatever refreshes and repairs came before.                        *)
(***************************************************************************)
JobsMatchRows ==
  /\ DOMAIN versions = {VersionOf(r) : r \in assignments}
  /\ \A v \in DOMAIN versions :
       /\ versions[v].assignment \in assignments
       /\ VersionOf(versions[v].assignment) = v

(***************************************************************************)
(* The default branch never gets a version in a major that a release       *)
(* branch seen earlier owns, even after that branch is deleted: a new job  *)
(* of a branch that is not vN lies above the major of every release job.   *)
(***************************************************************************)
DefaultStaysAboveReleases ==
  [][\A v \in DOMAIN versions' \ DOMAIN versions :
       /\ ReleaseMajor[versions'[v].branch] = NotRelease
       /\ versions'[v].assignment.attempt = 0
       => \A w \in DOMAIN versions' :
            ReleaseMajor[versions'[w].branch] < v.major]_registryVars

(***************************************************************************)
(* What clients have been told is final: a published version stays in the  *)
(* map with the same commit and the same yanked mark, whatever late        *)
(* completion, release, lease or repair arrives.                           *)
(***************************************************************************)
PublishedIsFinal ==
  [][\A v \in DOMAIN versions :
       /\ v \in DOMAIN versions'
       /\ versions[v].state \in Published => versions'[v] = versions[v]]_registryVars

(***************************************************************************)
(* The audit accounts for every repair: the replacement is a later version *)
(* of the same commit, major and branch, its original stays published, and *)
(* every attempt beyond the first has its one audit entry.                 *)
(***************************************************************************)
AuditComplete ==
  /\ \A a \in recoveries :
       /\ {a.original, a.replacement} \subseteq DOMAIN versions
       /\ versions[a.original].state \in Published
       /\ versions[a.original].branch = versions[a.replacement].branch
       /\ LET old == versions[a.original].assignment
              new == versions[a.replacement].assignment
          IN  /\ new.major = old.major
              /\ new.commit = old.commit
              /\ new.attempt > old.attempt
              /\ new.sequence > old.sequence
  /\ \A r \in assignments :
       r.attempt > 0 =>
         \E a \in recoveries : a.replacement = VersionOf(r)
  /\ \A a, b \in recoveries : a.replacement = b.replacement => a = b

\* The rows of the registry are a ledger that is only appended to.
Ledger == INSTANCE VersionLedger WITH ledger <- assignments
RegistryLedger == Ledger!Spec
====
