---- MODULE VersionAllocator ----
(***************************************************************************)
(* src/src/version-allocator.ts: the allocator as it runs in memory, with  *)
(* a high-water mark and a pointer to the current attempt of every commit, *)
(* and its reconstruction from a snapshot, which keeps the rows only.      *)
(***************************************************************************)
EXTENDS Assignments

CONSTANTS
  Majors,       \* the majors that are used
  MaxAttempt    \* bound: a commit is recovered at most this often

ASSUME MajorsAssumption == Majors \subseteq Nat
ASSUME MaxAttemptAssumption == MaxAttempt \in Nat

VARIABLES
  assignments,      \* the rows of every major
  highWater,        \* per major, the highest sequence handed out
  currentAttempts   \* per major and commit, the attempt in force

vars == <<assignments, highWater, currentAttempts>>

Init ==
  /\ assignments = {}
  /\ highWater = [m \in Majors |-> NoSequence]
  /\ currentAttempts = [m \in Majors |-> [c \in Commits |-> NoAttempt]]

\* Mutant: the high water counts rows instead of following their sequences.
AppendRowCounting(m, c, committedAt, attempt) ==
  LET sequence == NextSequence(committedAt, highWater[m])
      row == [major |-> m, commit |-> c, attempt |-> attempt, sequence |-> sequence]
  IN  /\ highWater' = [highWater EXCEPT ![m] = @ + 1]
      /\ assignments' = PutRow(assignments, row)
      /\ currentAttempts' = [currentAttempts EXCEPT ![m][c] = attempt]

\* #append, whose row is newer than everything in its major.
AppendRow(m, c, committedAt, attempt) ==
  LET sequence == NextSequence(committedAt, highWater[m])
      row == [major |-> m, commit |-> c, attempt |-> attempt, sequence |-> sequence]
  IN  /\ highWater' = [highWater EXCEPT ![m] = sequence]
      /\ assignments' = PutRow(assignments, row)
      /\ currentAttempts' = [currentAttempts EXCEPT ![m][c] = attempt]

\* Mutant: the first attempt is the missing one, not 0.
AllocateFromMissing(m, c) ==
  /\ currentAttempts[m][c] = NoAttempt
  /\ AppendRow(m, c, CommittedAt[c], currentAttempts[m][c])

\* allocate: a commit that has an attempt keeps it, and nothing changes.
Allocate(m, c) ==
  /\ currentAttempts[m][c] = NoAttempt
  /\ AppendRow(m, c, CommittedAt[c], 0)

(***************************************************************************)
(* recover: the next attempt.  The registry passes the sequence of the     *)
(* version it replaces as the committer time.                              *)
(***************************************************************************)
Recover(m, c) ==
  /\ currentAttempts[m][c] # NoAttempt
  /\ currentAttempts[m][c] < MaxAttempt
  /\ \E r \in RowsOfCommit(assignments, m, c) :
       AppendRow(m, c, r.sequence, currentAttempts[m][c] + 1)

\* fromSnapshot(snapshot()): the rows survive, the counters are rebuilt.
Rehydrate ==
  /\ highWater' = [m \in Majors |-> RehydratedHighWater(assignments, m)]
  /\ currentAttempts' =
       [m \in Majors |-> [c \in Commits |-> RehydratedAttempt(assignments, m, c)]]
  /\ UNCHANGED assignments

Next ==
  \/ \E m \in Majors, c \in Commits : Allocate(m, c)
  \/ \E m \in Majors, c \in Commits : Recover(m, c)
  \/ Rehydrate

Spec == Init /\ [][Next]_vars

-----------------------------------------------------------------------------
\* The shape of the state: rows of known majors, counters that are sequences,
\* attempts or the marks for none.
TypeOK ==
  /\ assignments \subseteq {r \in Rows : r.major \in Majors}
  /\ highWater \in [Majors -> Nat \cup {NoSequence}]
  /\ currentAttempts \in [Majors -> [Commits -> Nat \cup {NoAttempt}]]

(***************************************************************************)
(* The counters in memory are the ones fromSnapshot would rebuild from the *)
(* rows, after any history of allocations and recoveries: a restart of the *)
(* package object between two handlers changes no later allocation.        *)
(***************************************************************************)
RehydrationFaithful ==
  \A m \in Majors :
    /\ highWater[m] = RehydratedHighWater(assignments, m)
    /\ \A c \in Commits : currentAttempts[m][c] = RehydratedAttempt(assignments, m, c)

(***************************************************************************)
(* A later attempt of a commit has the larger sequence, so semver ranges   *)
(* select the replacement that a recovery issued and never the version it  *)
(* replaces (recover and #append).                                         *)
(***************************************************************************)
LaterAttemptIsNewer ==
  \A r, q \in assignments :
    /\ r.major = q.major
    /\ r.commit = q.commit
    /\ r.attempt < q.attempt
    => r.sequence < q.sequence

(***************************************************************************)
(* No version names two rows: the text of a version identifies the commit  *)
(* and the attempt it was issued for (fromSnapshot and the registry key    *)
(* their maps by one or the other).                                        *)
(***************************************************************************)
VersionsUnique ==
  \A r, q \in assignments : VersionOf(r) = VersionOf(q) => r = q

\* The allocator keeps the promise of VersionLedger.
Ledger == INSTANCE VersionLedger WITH ledger <- assignments
LedgerSpec == Ledger!Spec
====
