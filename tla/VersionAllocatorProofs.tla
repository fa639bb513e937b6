---- MODULE VersionAllocatorProofs ----
(***************************************************************************)
(* Proofs about VersionAllocator, for every set of commits, dates and      *)
(* majors.  The strengthening is that the counters bound the rows and are  *)
(* reached by them; it makes the rebuilt counters equal to the kept ones,  *)
(* and it makes every appended row the newest of its major.                *)
(***************************************************************************)
EXTENDS VersionAllocator, MaxLemmas

\* The high-water mark bounds the sequences of its major and is one of them.
HighWaterExact ==
  \A m \in Majors :
    /\ \A r \in assignments : r.major = m => r.sequence <= highWater[m]
    /\ highWater[m] # NoSequence =>
         \E r \in assignments : r.major = m /\ r.sequence = highWater[m]

\* The current attempt bounds the attempts of its commit and is one of them.
AttemptsExact ==
  \A m \in Majors, c \in Commits :
    /\ \A r \in assignments :
         r.major = m /\ r.commit = c => r.attempt <= currentAttempts[m][c]
    /\ currentAttempts[m][c] # NoAttempt =>
         \E r \in assignments :
           r.major = m /\ r.commit = c /\ r.attempt = currentAttempts[m][c]

\* A version is never dated before its commit.
NotBeforeCommit ==
  \A r \in assignments : r.sequence >= CommittedAt[r.commit]

IInv ==
  /\ TypeOK
  /\ NotBeforeCommit
  /\ HighWaterExact
  /\ AttemptsExact
  /\ LaterAttemptIsNewer
  /\ VersionsUnique

\* Exact counters are the ones fromSnapshot rebuilds.
LEMMA ExactIsRehydrated ==
  ASSUME TypeOK, HighWaterExact, AttemptsExact
  PROVE  RehydrationFaithful
<1> SUFFICES ASSUME NEW m \in Majors
             PROVE  /\ highWater[m] = RehydratedHighWater(assignments, m)
                    /\ \A c \in Commits :
                         currentAttempts[m][c] = RehydratedAttempt(assignments, m, c)
  BY DEF RehydrationFaithful
<1>1. highWater[m] = RehydratedHighWater(assignments, m)
  <2> DEFINE S == {NoSequence} \cup {r.sequence : r \in RowsOfMajor(assignments, m)}
  <2>1. S \in SUBSET Int
    BY DEF TypeOK, Rows, RowsOfMajor, NoSequence
  <2>2. highWater[m] \in S
    BY DEF HighWaterExact, RowsOfMajor, NoSequence
  <2>3. \A y \in S : y <= highWater[m]
    BY DEF HighWaterExact, RowsOfMajor, NoSequence, TypeOK
  <2>4. Max(S) = highWater[m]
    BY <2>1, <2>2, <2>3, MaxIsReachedBound
  <2>5. QED
    BY <2>4 DEF RehydratedHighWater
<1>2. ASSUME NEW c \in Commits
      PROVE  currentAttempts[m][c] = RehydratedAttempt(assignments, m, c)
  <2> DEFINE S == {NoAttempt} \cup {r.attempt : r \in RowsOfCommit(assignments, m, c)}
  <2>1. S \in SUBSET Int
    BY DEF TypeOK, Rows, RowsOfCommit, NoAttempt
  <2>2. currentAttempts[m][c] \in S
    BY DEF AttemptsExact, RowsOfCommit, NoAttempt
  <2>3. \A y \in S : y <= currentAttempts[m][c]
    BY DEF AttemptsExact, RowsOfCommit, NoAttempt, TypeOK
  <2>4. Max(S) = currentAttempts[m][c]
    BY <2>1, <2>2, <2>3, MaxIsReachedBound
  <2>5. QED
    BY <2>4 DEF RehydratedAttempt
<1>3. QED
  BY <1>1, <1>2

\* The row #append builds from a commit's next attempt: it is above the high
\* water, it is the commit date or the successor of the high water, and its key
\* is unused, so that Map.set replaces nothing.
LEMMA AppendedRow ==
  ASSUME IInv, NEW m \in Majors, NEW c \in Commits, NEW at \in Nat,
         NEW attempt \in Nat, attempt = currentAttempts[m][c] + 1,
         NEW row, row = [major |-> m, commit |-> c, attempt |-> attempt,
                         sequence |-> NextSequence(at, highWater[m])]
  PROVE  /\ row \in Rows
         /\ row.sequence > highWater[m]
         /\ row.sequence >= at
         /\ row.sequence = at \/ row.sequence = highWater[m] + 1
         /\ PutRow(assignments, row) = assignments \cup {row}
<1>1. highWater[m] \in Int /\ highWater[m] >= -1
  BY DEF IInv, TypeOK, NoSequence
<1>2. /\ row.sequence > highWater[m]
      /\ row.sequence >= at
      /\ row.sequence = at \/ row.sequence = highWater[m] + 1
      /\ row.sequence \in Nat
  BY <1>1 DEF NextSequence
<1>3. row \in Rows
  BY <1>2, MajorsAssumption DEF Rows
<1>4. \A r \in assignments :
        ~ (r.major = row.major /\ r.commit = row.commit /\ r.attempt = row.attempt)
  BY DEF IInv, AttemptsExact, TypeOK, Rows, NoAttempt
<1>5. PutRow(assignments, row) = assignments \cup {row}
  BY <1>4 DEF PutRow
<1>6. QED
  BY <1>2, <1>3, <1>5

\* Appending the next attempt of a commit preserves the invariant, and the
\* ledger allows it, when the date passed is the commit's or an issued sequence.
LEMMA AppendPreserves ==
  ASSUME IInv, NEW m \in Majors, NEW c \in Commits, NEW at \in Nat,
         NEW attempt \in Nat, attempt = currentAttempts[m][c] + 1,
         at >= CommittedAt[c],
         \/ at = CommittedAt[c]
         \/ \E r \in RowsOfCommit(assignments, m, c) : at = r.sequence,
         AppendRow(m, c, at, attempt)
  PROVE  IInv' /\ Ledger!Issue
<1> DEFINE row == [major |-> m, commit |-> c, attempt |-> attempt,
                   sequence |-> NextSequence(at, highWater[m])]
<1>1. /\ row \in Rows
      /\ row.sequence > highWater[m]
      /\ row.sequence >= at
      /\ row.sequence = at \/ row.sequence = highWater[m] + 1
      /\ PutRow(assignments, row) = assignments \cup {row}
  BY AppendedRow
<1>2. /\ row.major = m
      /\ row.commit = c
      /\ row.attempt = attempt
      /\ row.sequence \in Nat
  BY <1>1 DEF Rows
<1>3. /\ assignments' = assignments \cup {row}
      /\ highWater' = [highWater EXCEPT ![m] = row.sequence]
      /\ currentAttempts' = [currentAttempts EXCEPT ![m][c] = attempt]
  BY <1>1 DEF AppendRow
<1> HIDE DEF row
<1>4. TypeOK'
  BY <1>1, <1>2, <1>3 DEF IInv, TypeOK
<1>5. NotBeforeCommit'
  BY <1>1, <1>2, <1>3, CommittedAtAssumption DEF IInv, NotBeforeCommit, TypeOK, Rows
<1>6. HighWaterExact'
  BY <1>1, <1>2, <1>3 DEF IInv, HighWaterExact, TypeOK, Rows, NoSequence
<1>7. AttemptsExact'
  BY <1>1, <1>2, <1>3 DEF IInv, AttemptsExact, TypeOK, Rows, NoAttempt
<1>8. \A r \in assignments : r.major = m => r.sequence < row.sequence
  BY <1>1, <1>2 DEF IInv, HighWaterExact, TypeOK, Rows, NoSequence
<1>9. \A r \in assignments : r.major = m /\ r.commit = c => r.attempt < attempt
  BY DEF IInv, AttemptsExact, TypeOK, Rows, NoAttempt
<1>10. LaterAttemptIsNewer'
  BY <1>2, <1>3, <1>8, <1>9 DEF IInv, LaterAttemptIsNewer, TypeOK, Rows
<1>11. VersionsUnique'
  BY <1>2, <1>3, <1>8 DEF IInv, VersionsUnique, VersionOf, TypeOK, Rows
<1>12. Ledger!MayFollow(row)
  <2>1. row.sequence >= CommittedAt[c]
    BY <1>1, <1>2, CommittedAtAssumption
  <2>2. \/ row.sequence = CommittedAt[c]
        \/ \E q \in assignments : q.major = m /\ q.sequence = row.sequence - 1
    <3>1. CASE row.sequence = highWater[m] + 1 /\ highWater[m] # NoSequence
      BY <3>1 DEF IInv, HighWaterExact, TypeOK, NoSequence
    <3>2. CASE row.sequence = highWater[m] + 1 /\ highWater[m] = NoSequence
      <4>1. \A r \in assignments : r.major # m
        BY <3>2 DEF IInv, HighWaterExact, TypeOK, Rows, NoSequence
      <4>2. at = CommittedAt[c]
        BY <4>1 DEF RowsOfCommit
      <4>3. row.sequence = 0
        BY <3>2 DEF NoSequence
      <4>4. QED
        BY <4>2, <4>3, <1>1, CommittedAtAssumption
    <3>3. CASE row.sequence = at /\ row.sequence # highWater[m] + 1
      <4>1. \A r \in RowsOfCommit(assignments, m, c) : r.sequence < row.sequence
        BY <1>8 DEF RowsOfCommit
      <4>2. at = CommittedAt[c]
        BY <4>1, <3>3, <1>2
      <4>3. QED
        BY <4>2, <3>3
    <3>4. QED
      BY <1>1, <3>1, <3>2, <3>3
  <2>3. \/ attempt = 0
        \/ \E q \in assignments : q.major = m /\ q.commit = c /\ q.attempt = attempt - 1
    BY DEF IInv, AttemptsExact, TypeOK, NoAttempt
  <2>4. QED
    BY <2>1, <2>2, <2>3, <1>2, <1>8, <1>9 DEF Ledger!MayFollow, Ledger!Subject
<1>13. Ledger!Issue
  BY <1>3, <1>12 DEF Ledger!Issue
<1>14. QED
  BY <1>4, <1>5, <1>6, <1>7, <1>10, <1>11, <1>13 DEF IInv

\* The invariant holds at the start and is kept by every step, and every step
\* is one the ledger allows, or leaves the rows alone.
LEMMA InitInvariant == Init => IInv
BY DEF Init, IInv, TypeOK, NotBeforeCommit, HighWaterExact, AttemptsExact,
       LaterAttemptIsNewer, VersionsUnique

LEMMA StepInvariant == IInv /\ [Next]_vars => IInv' /\ [Ledger!Issue]_assignments
<1> SUFFICES ASSUME IInv, [Next]_vars
             PROVE  IInv' /\ [Ledger!Issue]_assignments
  OBVIOUS
<1>1. ASSUME NEW m \in Majors, NEW c \in Commits, Allocate(m, c)
      PROVE  IInv' /\ Ledger!Issue
  <2>1. CommittedAt[c] \in Nat /\ 0 = currentAttempts[m][c] + 1
    BY <1>1, CommittedAtAssumption DEF Allocate, NoAttempt
  <2>2. AppendRow(m, c, CommittedAt[c], 0)
    BY <1>1 DEF Allocate
  <2>3. QED
    BY <2>1, <2>2, AppendPreserves
<1>2. ASSUME NEW m \in Majors, NEW c \in Commits, Recover(m, c)
      PROVE  IInv' /\ Ledger!Issue
  <2>1. PICK r \in RowsOfCommit(assignments, m, c) :
          AppendRow(m, c, r.sequence, currentAttempts[m][c] + 1)
    BY <1>2 DEF Recover
  <2>2. currentAttempts[m][c] + 1 \in Nat
    BY <1>2 DEF IInv, TypeOK, NoAttempt
  <2>3. r.sequence \in Nat /\ r.sequence >= CommittedAt[c]
    BY DEF IInv, TypeOK, Rows, NotBeforeCommit, RowsOfCommit
  <2>4. QED
    BY <2>1, <2>2, <2>3, AppendPreserves
<1>3. ASSUME Rehydrate
      PROVE  UNCHANGED vars
  <2>1. RehydrationFaithful
    BY ExactIsRehydrated DEF IInv
  <2>2. highWater' = highWater
    BY <1>3, <2>1 DEF Rehydrate, RehydrationFaithful, IInv, TypeOK
  <2>3. \A m \in Majors :
          currentAttempts[m] = [c \in Commits |-> RehydratedAttempt(assignments, m, c)]
    BY <2>1 DEF RehydrationFaithful, IInv, TypeOK
  <2>4. currentAttempts' = currentAttempts
    BY <1>3, <2>3 DEF Rehydrate, IInv, TypeOK
  <2>5. QED
    BY <1>3, <2>2, <2>4 DEF Rehydrate, vars
<1>4. ASSUME UNCHANGED vars
      PROVE  IInv' /\ UNCHANGED assignments
  BY <1>4 DEF vars, IInv, TypeOK, NotBeforeCommit, HighWaterExact, AttemptsExact,
              LaterAttemptIsNewer, VersionsUnique
<1>5. QED
  BY <1>1, <1>2, <1>3, <1>4 DEF Next

LEMMA InvariantHolds == Spec => []IInv
BY InitInvariant, StepInvariant, PTL DEF Spec

\* Type correctness of the allocator.
THEOREM TypeCorrect == Spec => []TypeOK
<1>1. IInv => TypeOK
  BY DEF IInv
<1>2. QED
  BY <1>1, InvariantHolds, PTL

\* However long the history, a restart rebuilds exactly the counters the
\* allocator had (fromSnapshot after snapshot).
THEOREM RestartLosesNothing == Spec => []RehydrationFaithful
<1>1. IInv => RehydrationFaithful
  BY ExactIsRehydrated DEF IInv
<1>2. QED
  BY <1>1, InvariantHolds, PTL

\* A recovery's replacement is always the newer version of its commit.
THEOREM AttemptsOrdered == Spec => []LaterAttemptIsNewer
<1>1. IInv => LaterAttemptIsNewer
  BY DEF IInv
<1>2. QED
  BY <1>1, InvariantHolds, PTL

\* A version never names two rows.
THEOREM VersionsNameOneRow == Spec => []VersionsUnique
<1>1. IInv => VersionsUnique
  BY DEF IInv
<1>2. QED
  BY <1>1, InvariantHolds, PTL

\* The allocator with its counters implements the ledger of issued versions.
THEOREM ImplementsLedger == Spec => LedgerSpec
<1>1. Init => Ledger!Init
  BY DEF Init, Ledger!Init
<1>2. QED
  BY <1>1, InitInvariant, StepInvariant, PTL DEF Spec, LedgerSpec, Ledger!Spec
====
