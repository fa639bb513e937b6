---- MODULE Assignments ----
(***************************************************************************)
(* The assignment rows of src/src/version-allocator.ts and what            *)
(* VersionAllocator.fromSnapshot derives from them.  A row gives a commit  *)
(* of a major its sequence; its version is the text <major>.1.<sequence>,  *)
(* which the pair [major, sequence] stands for.  Every handler of a        *)
(* package object starts from the stored rows, so PackageRegistry uses     *)
(* these operators directly, and VersionAllocator compares them with the   *)
(* counters it keeps in memory.                                            *)
(***************************************************************************)
EXTENDS Integers, FiniteSetsExt

CONSTANTS
  Commits,      \* commit hashes
  CommittedAt   \* the committer time of each commit, in whole seconds

ASSUME CommittedAtAssumption == CommittedAt \in [Commits -> Nat]

NoSequence == -1   \* the high water of a major that has no row
NoAttempt  == -1   \* a commit without a current attempt

Rows == [major : Nat, commit : Commits, attempt : Nat, sequence : Nat]

Versions == [major : Nat, sequence : Nat]

VersionOf(row) == [major |-> row.major, sequence |-> row.sequence]

RowsOfMajor(rows, m) == {r \in rows : r.major = m}

RowsOfCommit(rows, m, c) == {r \in rows : r.major = m /\ r.commit = c}

\* Mutant: the rows of repairs are forgotten.
FirstAttemptsHighWater(rows, m) ==
  Max({NoSequence} \cup {r.sequence : r \in {q \in RowsOfMajor(rows, m) : q.attempt = 0}})

\* fromSnapshot: highWater = Math.max(highWater, assignment.sequence) over the rows.
RehydratedHighWater(rows, m) ==
  Max({NoSequence} \cup {r.sequence : r \in RowsOfMajor(rows, m)})

\* fromSnapshot: the largest attempt among the rows of the commit.
RehydratedAttempt(rows, m, c) ==
  Max({NoAttempt} \cup {r.attempt : r \in RowsOfCommit(rows, m, c)})

\* Mutants: the new sequence may equal the high water, and so may a commit date.
HighWaterTwice(committedAt, high) == IF committedAt > high THEN committedAt ELSE high
DateAtHighWater(committedAt, high) == IF committedAt >= high THEN committedAt ELSE high + 1

\* #append: Math.max(committedAt, highWater + 1).
NextSequence(committedAt, high) ==
  IF committedAt > high THEN committedAt ELSE high + 1

\* Mutant: the key of a row is its commit alone.
PutRowOfCommit(rows, row) ==
  {r \in rows : ~ (r.major = row.major /\ r.commit = row.commit)} \cup {row}

\* Map.set under key(commitSha, attempt), within the major of the row.
PutRow(rows, row) ==
  {r \in rows : ~ (/\ r.major = row.major
                   /\ r.commit = row.commit
                   /\ r.attempt = row.attempt)} \cup {row}
====
