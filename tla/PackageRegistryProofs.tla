---- MODULE PackageRegistryProofs ----
(***************************************************************************)
(* Proofs about PackageRegistry, for every set of commits, branches and    *)
(* discoveries.  The strengthening says what the registry relies on        *)
(* without keeping it: the rows are finitely many, so that the maxima      *)
(* fromSnapshot rebuilds exist; a version names one row, dated no earlier  *)
(* than its commit; and no job belongs to a release above the observed     *)
(* high water.                                                             *)
(***************************************************************************)
EXTENDS PackageRegistry, MaxLemmas

OneRowPerVersion == \A r, q \in assignments : VersionOf(r) = VersionOf(q) => r = q

NotBeforeCommit == \A r \in assignments : r.sequence >= CommittedAt[r.commit]

ReleasesObserved ==
  \A v \in DOMAIN versions : ReleaseMajor[versions[v].branch] <= observed

RInv ==
  /\ RegistryTypeOK
  /\ IsFiniteSet(assignments)
  /\ OneRowPerVersion
  /\ NotBeforeCommit
  /\ ReleasesObserved
  /\ JobsMatchRows
  /\ AuditComplete

-----------------------------------------------------------------------------
(***************************************************************************)
(* The rows: what the rebuilt counters say of them, and the next row.      *)
(***************************************************************************)
LEMMA HighWaterExact ==
  ASSUME NEW rows \in SUBSET Rows, IsFiniteSet(rows), NEW m,
         NEW h, h = RehydratedHighWater(rows, m)
  PROVE  /\ h \in Int /\ h >= -1
         /\ \A r \in rows : r.major = m => r.sequence <= h
         /\ h = -1 \/ \E r \in rows : r.major = m /\ r.sequence = h
<1> DEFINE S == RowsOfMajor(rows, m)
           f == [r \in S |-> r.sequence]
           V == {NoSequence} \cup {f[r] : r \in S}
<1>1. IsFiniteSet(S)
  BY FS_Subset DEF RowsOfMajor
<1>2. f \in [S -> Int]
  BY DEF RowsOfMajor, Rows
<1>3. {f[r] : r \in S} = {r.sequence : r \in S}
  OBVIOUS
<1>4. h = Max(V)
  BY <1>3 DEF RehydratedHighWater
<1>5. NoSequence \in Int
  BY DEF NoSequence
<1>6. IsGreatest(Max(V), NoSequence, S, f)
  <2>1. V = {NoSequence} \cup {f[r] : r \in S}
    OBVIOUS
  <2> HIDE DEF S, f, V
  <2>2. QED
    BY <1>1, <1>2, <1>5, <2>1, MaxWithValues
<1>7. QED
  BY <1>4, <1>6 DEF IsGreatest, RowsOfMajor, NoSequence

LEMMA AttemptExact ==
  ASSUME NEW rows \in SUBSET Rows, IsFiniteSet(rows), NEW m, NEW c,
         NEW h, h = RehydratedAttempt(rows, m, c)
  PROVE  /\ h \in Int /\ h >= -1
         /\ \A r \in rows : r.major = m /\ r.commit = c => r.attempt <= h
         /\ h = -1 \/ \E r \in rows : r.major = m /\ r.commit = c /\ r.attempt = h
<1> DEFINE S == RowsOfCommit(rows, m, c)
           f == [r \in S |-> r.attempt]
           V == {NoAttempt} \cup {f[r] : r \in S}
<1>1. IsFiniteSet(S)
  BY FS_Subset DEF RowsOfCommit
<1>2. f \in [S -> Int]
  BY DEF RowsOfCommit, Rows
<1>3. {f[r] : r \in S} = {r.attempt : r \in S}
  OBVIOUS
<1>4. h = Max(V)
  BY <1>3 DEF RehydratedAttempt
<1>5. NoAttempt \in Int
  BY DEF NoAttempt
<1>6. IsGreatest(Max(V), NoAttempt, S, f)
  <2>1. V = {NoAttempt} \cup {f[r] : r \in S}
    OBVIOUS
  <2> HIDE DEF S, f, V
  <2>2. QED
    BY <1>1, <1>2, <1>5, <2>1, MaxWithValues
<1>7. QED
  BY <1>4, <1>6 DEF IsGreatest, RowsOfCommit, NoAttempt

\* The ledger allows the row of a commit's next attempt, and its key is unused, so
\* that Map.set replaces nothing.
LEMMA NextRowMayFollow ==
  ASSUME assignments \in SUBSET Rows, IsFiniteSet(assignments),
         NEW m \in Nat, NEW c \in Commits, NEW at \in Nat, at >= CommittedAt[c],
         at = CommittedAt[c] \/ \E r \in assignments : r.major = m /\ at = r.sequence,
         NEW row, row = NextRow(m, c, at)
  PROVE  /\ row \in Rows
         /\ row.major = m /\ row.commit = c
         /\ Ledger!MayFollow(row)
         /\ PutRow(assignments, row) = assignments \cup {row}
<1> DEFINE h == RehydratedHighWater(assignments, m)
           k == RehydratedAttempt(assignments, m, c)
<1>1. /\ h \in Int /\ h >= -1
      /\ \A r \in assignments : r.major = m => r.sequence <= h
      /\ h = -1 \/ \E r \in assignments : r.major = m /\ r.sequence = h
  BY HighWaterExact
<1>2. /\ k \in Int /\ k >= -1
      /\ \A r \in assignments : r.major = m /\ r.commit = c => r.attempt <= k
      /\ k = -1 \/ \E r \in assignments : r.major = m /\ r.commit = c /\ r.attempt = k
  BY AttemptExact
<1>3. row = [major |-> m, commit |-> c, attempt |-> k + 1,
             sequence |-> NextSequence(at, h)]
  BY DEF NextRow
<1> HIDE DEF h, k
<1>4. /\ row.major = m /\ row.commit = c /\ row.attempt = k + 1
      /\ row.sequence = NextSequence(at, h)
  BY <1>3
<1>5. /\ row.sequence \in Nat /\ row.sequence > h /\ row.sequence >= at
      /\ row.sequence = at \/ row.sequence = h + 1
  BY <1>1, <1>4 DEF NextSequence
<1>6. row \in Rows
  BY <1>2, <1>3, <1>4, <1>5 DEF Rows
<1>7. \A q \in assignments : q.major = row.major => q.sequence < row.sequence
  BY <1>1, <1>4, <1>5 DEF Rows
<1>8. \A q \in assignments :
        q.major = m /\ q.commit = c => q.attempt < row.attempt
  BY <1>2, <1>4 DEF Rows
<1>9. row.sequence >= CommittedAt[row.commit]
  BY <1>4, <1>5, CommittedAtAssumption
<1>10. \/ row.sequence = CommittedAt[row.commit]
       \/ \E q \in assignments : q.major = row.major /\ q.sequence = row.sequence - 1
  <2>1. CASE row.sequence = h + 1 /\ h # -1
    BY <2>1, <1>1, <1>4
  <2>2. CASE row.sequence = at /\ row.sequence # h + 1
    BY <2>2, <1>4, <1>5, <1>7, <1>1
  <2>3. CASE row.sequence = h + 1 /\ h = -1
    <3>1. row.sequence = 0 /\ at = 0
      BY <2>3, <1>5
    <3>2. QED
      BY <3>1, <1>4, CommittedAtAssumption
  <2>4. QED
    BY <2>1, <2>2, <2>3, <1>5
<1>11. \/ row.attempt = 0
       \/ \E q \in assignments :
            q.major = m /\ q.commit = c /\ q.attempt = row.attempt - 1
  BY <1>2, <1>4
<1>12. Ledger!MayFollow(row)
  BY <1>4, <1>7, <1>8, <1>9, <1>10, <1>11 DEF Ledger!MayFollow, Ledger!Subject
<1>13. PutRow(assignments, row) = assignments \cup {row}
  BY <1>4, <1>8, <1>6 DEF PutRow, Rows
<1>14. QED
  BY <1>4, <1>6, <1>12, <1>13

-----------------------------------------------------------------------------
(***************************************************************************)
(* The selected branches: finitely many, of different majors, and no       *)
(* release above the high water that is observed with them.                *)
(***************************************************************************)
LEMMA ReleasesOfDiscovery ==
  ASSUME NEW d \in Discoveries
  PROVE  /\ IsFiniteSet(Releases(d))
         /\ \A r \in Releases(d) :
              /\ r.branch \in DOMAIN d.tips /\ r.branch \in Branches
              /\ r.commit \in Commits
              /\ r.major \in Nat /\ r.major = ReleaseMajor[r.branch]
              /\ r.major # NotRelease
              /\ r = [branch |-> r.branch, major |-> r.major, commit |-> r.commit]
              /\ r.commit = d.tips[r.branch]
<1> DEFINE B == {e \in DOMAIN d.tips : ReleaseMajor[e] # NotRelease}
           f == [b \in B |-> [branch |-> b, major |-> ReleaseMajor[b],
                              commit |-> d.tips[b]]]
<1>1. PICK D \in SUBSET Branches : d.tips \in [D -> Commits]
  BY DiscoveriesAssumption DEF DiscoveryType
<1>2. IsFiniteSet(B)
  BY DiscoveriesAssumption, FS_Subset
<1>3. Releases(d) = {f[b] : b \in B}
  BY DEF Releases
<1>4. IsFiniteSet(Releases(d))
  <2>1. f \in [B -> Releases(d)]
    BY <1>3
  <2> HIDE DEF f, B
  <2>2. IsFiniteSet({f[b] : b \in B})
    BY <1>2, <2>1, ValuesAreFinite
  <2>3. QED
    BY <2>2, <1>3
<1>5. \A b \in B : /\ b \in DOMAIN d.tips /\ b \in Branches
                   /\ d.tips[b] \in Commits
                   /\ ReleaseMajor[b] \in Nat /\ ReleaseMajor[b] # NotRelease
  BY <1>1, ReleaseMajorAssumption
<1>6. QED
  BY <1>4, <1>5 DEF Releases

LEMMA Selection ==
  ASSUME NEW d \in Discoveries, Selectable(d), NEW prior \in Nat \cup {NoneObserved},
         NEW high, high = ObservedAfter(d, prior),
         NEW selected, selected = SelectedBranches(d, prior)
  PROVE  /\ high \in Nat \cup {NoneObserved} /\ prior <= high
         /\ IsFiniteSet(selected)
         /\ \A b \in selected :
              /\ b.branch \in Branches /\ b.major \in Nat /\ b.commit \in Commits
              /\ ReleaseMajor[b.branch] \in Int /\ ReleaseMajor[b.branch] <= high
              /\ ReleaseMajor[b.branch] = NotRelease => b.major = high + 1
         /\ \A b, e \in selected : b.major = e.major => b = e
<1> DEFINE R == Releases(d)
           f == [r \in R |-> r.major]
           V == {prior} \cup {f[r] : r \in R}
           tip == d.tips[d.default]
           default == [branch |-> d.default, commit |-> tip,
                       major |-> DefaultMajor(high)]
<1>1. IsFiniteSet(R)
  BY ReleasesOfDiscovery
<1>2. f \in [R -> Int]
  BY ReleasesOfDiscovery
<1>3. {f[r] : r \in R} = {r.major : r \in R}
  OBVIOUS
<1>4. high = Max(V)
  BY <1>3 DEF ObservedAfter
<1>5. prior \in Int
  BY DEF NoneObserved
<1>6. IsGreatest(Max(V), prior, R, f)
  <2>1. V = {prior} \cup {f[r] : r \in R}
    OBVIOUS
  <2> HIDE DEF R, f, V
  <2>2. QED
    BY <1>1, <1>2, <1>5, <2>1, MaxWithValues
<1>7. /\ high \in Nat \cup {NoneObserved} /\ prior <= high
      /\ \A r \in R : r.major <= high
  BY <1>4, <1>6, ReleasesOfDiscovery DEF IsGreatest, NoneObserved
<1>8. selected = IF \E r \in R : r.commit = tip THEN R ELSE R \cup {default}
  BY DEF SelectedBranches
<1>9. IsFiniteSet(selected)
  <2>1. IsFiniteSet(R \cup {default})
    BY <1>1, FS_AddElement
  <2>2. QED
    BY <1>1, <1>8, <2>1
<1>10. /\ default.branch = d.default /\ default.commit = tip
       /\ default.major = high + 1 /\ default.major \in Nat
  BY <1>7 DEF DefaultMajor, NoneObserved
<1>11. d.default \in Branches /\ tip \in Commits
  BY DiscoveriesAssumption DEF DiscoveryType, Selectable
<1>12. (~ \E r \in R : r.commit = tip) => ReleaseMajor[d.default] = NotRelease
  <2> DEFINE own == [branch |-> d.default, major |-> ReleaseMajor[d.default],
                     commit |-> tip]
  <2>1. ReleaseMajor[d.default] # NotRelease => own \in R
    BY DEF Releases, Selectable
  <2>2. own.commit = tip
    OBVIOUS
  <2>3. QED
    BY <2>1, <2>2
<1> HIDE DEF default
<1>13. \A b \in selected :
         /\ b.branch \in Branches /\ b.major \in Nat /\ b.commit \in Commits
         /\ ReleaseMajor[b.branch] \in Int /\ ReleaseMajor[b.branch] <= high
         /\ ReleaseMajor[b.branch] = NotRelease => b.major = high + 1
  BY <1>7, <1>8, <1>10, <1>11, <1>12, ReleasesOfDiscovery DEF NotRelease, NoneObserved
<1>14. \A b, e \in R : b.major = e.major => b = e
  <2> TAKE b, e \in R
  <2>1. HAVE b.major = e.major
  <2>2. b.branch = e.branch
    BY <2>1, ReleasesOfDiscovery, ReleaseMajorAssumption
  <2>3. QED
    BY <2>1, <2>2, ReleasesOfDiscovery
<1>15. \A b \in R : b.major # default.major
  BY <1>7, <1>10, ReleasesOfDiscovery DEF NoneObserved
<1>16. QED
  BY <1>7, <1>8, <1>9, <1>13, <1>14, <1>15

-----------------------------------------------------------------------------
(***************************************************************************)
(* What a step keeps: what is published, and the place of the default      *)
(* branch above the releases.                                              *)
(***************************************************************************)
PublishedKept ==
  \A v \in DOMAIN versions :
    /\ v \in DOMAIN versions'
    /\ versions[v].state \in Published => versions'[v] = versions[v]

DefaultAbove ==
  \A v \in DOMAIN versions' \ DOMAIN versions :
    /\ ReleaseMajor[versions'[v].branch] = NotRelease
    /\ versions'[v].assignment.attempt = 0
    => \A w \in DOMAIN versions' : ReleaseMajor[versions'[w].branch] < v.major

Kept == RInv' /\ PublishedKept /\ DefaultAbove /\ [Ledger!Issue]_assignments

\* Rows of different majors that may follow are issued as the ledger allows.
LEMMA RowsAdded ==
  ASSUME RInv, NEW N \in SUBSET Rows, IsFiniteSet(N),
         \A r \in N : r \in assignments \/ Ledger!MayFollow(r),
         \A r, q \in N : r.major = q.major => r = q,
         assignments' = assignments \cup N
  PROVE  /\ assignments' \subseteq Rows
         /\ IsFiniteSet(assignments')
         /\ OneRowPerVersion'
         /\ NotBeforeCommit'
         /\ Ledger!Issue
<1>1. assignments \subseteq Rows
  BY DEF RInv, RegistryTypeOK
<1>2. IsFiniteSet(assignments \cup N)
  BY FS_Union DEF RInv
<1>3. \A r \in N \ assignments :
        /\ \A q \in assignments : q.major = r.major => q.sequence < r.sequence
        /\ r.sequence >= CommittedAt[r.commit]
  BY DEF Ledger!MayFollow
<1>4. OneRowPerVersion'
  <2> SUFFICES ASSUME NEW r \in assignments \cup N, NEW q \in assignments \cup N,
                      r.major = q.major, r.sequence = q.sequence
               PROVE  r = q
    BY DEF OneRowPerVersion, VersionOf
  <2>1. r \in Rows /\ q \in Rows
    BY <1>1
  <2>2. CASE r \in assignments /\ q \in assignments
    BY <2>2 DEF RInv, OneRowPerVersion, VersionOf
  <2>3. CASE r \in assignments /\ q \notin assignments
    BY <2>1, <2>3, <1>3 DEF Rows
  <2>4. CASE r \notin assignments /\ q \in assignments
    BY <2>1, <2>4, <1>3 DEF Rows
  <2>5. CASE r \notin assignments /\ q \notin assignments
    BY <2>5
  <2>6. QED
    BY <2>2, <2>3, <2>4, <2>5
<1>5. NotBeforeCommit'
  BY <1>3 DEF RInv, NotBeforeCommit
<1>6. Ledger!Issue
  BY DEF Ledger!Issue
<1>7. QED
  BY <1>1, <1>2, <1>4, <1>5, <1>6

\* The row refresh finds or issues for a selected branch.
LEMMA AllocatedRowFits ==
  ASSUME RInv, NEW b, b.major \in Nat, b.commit \in Commits,
         NEW row, row = AllocatedRow(b)
  PROVE  /\ row \in Rows /\ row.major = b.major /\ row.commit = b.commit
         /\ row \in assignments \/ (Ledger!MayFollow(row) /\ row.attempt = 0)
<1> DEFINE rows == RowsOfCommit(assignments, b.major, b.commit)
           k == RehydratedAttempt(assignments, b.major, b.commit)
<1>1. assignments \in SUBSET Rows /\ IsFiniteSet(assignments)
  BY DEF RInv, RegistryTypeOK
<1>2. CASE rows = {}
  <2>1. row = NextRow(b.major, b.commit, CommittedAt[b.commit])
    BY <1>2 DEF AllocatedRow
  <2>2. CommittedAt[b.commit] \in Nat
    BY CommittedAtAssumption
  <2>3. /\ row \in Rows /\ row.major = b.major /\ row.commit = b.commit
        /\ Ledger!MayFollow(row)
    BY <1>1, <2>1, <2>2, NextRowMayFollow
  <2>4. row.attempt = 0
    <3>1. \A q \in assignments : ~ (q.major = row.major /\ q.commit = row.commit)
      BY <1>2, <2>3 DEF RowsOfCommit
    <3>2. QED
      BY <2>3, <3>1 DEF Ledger!MayFollow, Ledger!Subject
  <2>5. QED
    BY <2>3, <2>4
<1>3. CASE rows # {}
  <2>1. \E r \in rows : r.attempt = k
    <3>1. /\ k \in Int
          /\ \A r \in assignments :
               r.major = b.major /\ r.commit = b.commit => r.attempt <= k
          /\ k = -1 \/ \E r \in assignments :
               r.major = b.major /\ r.commit = b.commit /\ r.attempt = k
      BY <1>1, AttemptExact
    <3> HIDE DEF k
    <3>2. QED
      BY <1>1, <1>3, <3>1 DEF RowsOfCommit, Rows
  <2>2. row = CHOOSE r \in rows : r.attempt = k
    BY <1>3 DEF AllocatedRow
  <2>3. row \in rows
    BY <2>1, <2>2
  <2>4. row \in assignments /\ row.major = b.major /\ row.commit = b.commit
    BY <2>3 DEF RowsOfCommit
  <2>5. QED
    BY <2>4, <1>1
<1>4. QED
  BY <1>2, <1>3

-----------------------------------------------------------------------------
(***************************************************************************)
(* The steps, one lemma per action.                                        *)
(***************************************************************************)
LEMMA RefreshStep ==
  ASSUME RInv, NEW d \in Discoveries, Refresh(d)
  PROVE  Kept
<1> DEFINE high == ObservedAfter(d, observed)
           selected == SelectedBranches(d, observed)
           jobs == {NewJob(AllocatedRow(b), b.branch) : b \in selected}
           created == {j \in jobs : VersionOf(j.assignment) \notin DOMAIN versions}
           N == {j.assignment : j \in jobs}
<1>1. /\ Selectable(d)
      /\ observed' = high
      /\ assignments' = assignments \cup N
      /\ versions' =
           [v \in DOMAIN versions \cup {VersionOf(j.assignment) : j \in created} |->
              IF v \in DOMAIN versions THEN versions[v]
              ELSE CHOOSE j \in created : VersionOf(j.assignment) = v]
      /\ recoveries' = recoveries
  BY DEF Refresh
<1>2. /\ observed \in Nat \cup {NoneObserved}
      /\ assignments \subseteq Rows
      /\ DOMAIN versions \subseteq Versions
      /\ \A v \in DOMAIN versions : versions[v] \in Jobs
      /\ recoveries \subseteq Recoveries
  BY DEF RInv, RegistryTypeOK
<1>3. /\ high \in Nat \cup {NoneObserved} /\ observed <= high
      /\ IsFiniteSet(selected)
      /\ \A b \in selected :
           /\ b.branch \in Branches /\ b.major \in Nat /\ b.commit \in Commits
           /\ ReleaseMajor[b.branch] \in Int /\ ReleaseMajor[b.branch] <= high
           /\ ReleaseMajor[b.branch] = NotRelease => b.major = high + 1
      /\ \A b, e \in selected : b.major = e.major => b = e
  BY <1>1, <1>2, Selection
<1> HIDE DEF high, selected
<1>4. \A b \in selected :
        /\ AllocatedRow(b) \in Rows /\ AllocatedRow(b).major = b.major
        /\ \/ AllocatedRow(b) \in assignments
           \/ Ledger!MayFollow(AllocatedRow(b)) /\ AllocatedRow(b).attempt = 0
  BY <1>3, AllocatedRowFits
<1>5. \A j \in jobs : \E b \in selected :
        /\ j.assignment = AllocatedRow(b) /\ j.branch = b.branch
        /\ j = NewJob(AllocatedRow(b), b.branch)
  BY DEF NewJob
<1>6. \A j \in jobs : /\ j \in Jobs
                      /\ j.assignment \in Rows
                      /\ ReleaseMajor[j.branch] <= high
                      /\ ReleaseMajor[j.branch] = NotRelease =>
                           j.assignment.major = high + 1
                      /\ \/ j.assignment \in assignments
                         \/ Ledger!MayFollow(j.assignment) /\ j.assignment.attempt = 0
  <2> TAKE j \in jobs
  <2>1. PICK b \in selected : /\ j.assignment = AllocatedRow(b) /\ j.branch = b.branch
                             /\ j = NewJob(AllocatedRow(b), b.branch)
    BY <1>5
  <2>2. j \in Jobs
    BY <2>1, <1>3, <1>4, LeaseTimeoutAssumption DEF NewJob, Jobs
  <2>3. QED
    BY <2>1, <2>2, <1>3, <1>4
<1>7. \A i, j \in jobs : i.assignment.major = j.assignment.major => i = j
  <2> SUFFICES ASSUME NEW i \in jobs, NEW j \in jobs,
                      i.assignment.major = j.assignment.major
               PROVE  i = j
    OBVIOUS
  <2>1. PICK b \in selected : /\ i.assignment = AllocatedRow(b)
                             /\ i = NewJob(AllocatedRow(b), b.branch)
    BY <1>5
  <2>2. PICK e \in selected : /\ j.assignment = AllocatedRow(e)
                             /\ j = NewJob(AllocatedRow(e), e.branch)
    BY <1>5
  <2>3. b = e
    BY <2>1, <2>2, <1>3, <1>4
  <2>4. QED
    BY <2>1, <2>2, <2>3
<1>8. N = {AllocatedRow(b) : b \in selected}
  <2>1. \A b \in selected : NewJob(AllocatedRow(b), b.branch).assignment = AllocatedRow(b)
    BY DEF NewJob
  <2>2. \A b \in selected : \E j \in jobs : j.assignment = AllocatedRow(b)
    BY <2>1
  <2>3. \A j \in jobs : \E b \in selected : j.assignment = AllocatedRow(b)
    BY <1>5
  <2> HIDE DEF jobs
  <2>4. QED
    BY <2>2, <2>3
<1>9. IsFiniteSet(N)
  <2> DEFINE f == [b \in selected |-> AllocatedRow(b)]
  <2>1. f \in [selected -> Rows]
    BY <1>4
  <2>2. N = {f[b] : b \in selected}
    BY <1>8, Zenon
  <2>3. IsFiniteSet(selected)
    BY <1>3
  <2> HIDE DEF f
  <2>4. IsFiniteSet({f[b] : b \in selected})
    BY <2>1, <2>3, ValuesAreFinite
  <2>5. QED
    BY <2>2, <2>4
<1> HIDE DEF jobs
<1>10. /\ N \subseteq Rows
       /\ \A r \in N : r \in assignments \/ Ledger!MayFollow(r)
       /\ \A r \in N : r \in assignments \/ r.attempt = 0
       /\ \A r, q \in N : r.major = q.major => r = q
  BY <1>6, <1>7
<1>11. /\ assignments' \subseteq Rows
       /\ IsFiniteSet(assignments')
       /\ OneRowPerVersion'
       /\ NotBeforeCommit'
       /\ Ledger!Issue
  <2>1. assignments' = assignments \cup N
    BY <1>1
  <2> HIDE DEF N
  <2>2. QED
    BY <2>1, <1>9, <1>10, RowsAdded
<1>12. \A v \in DOMAIN versions : v \in DOMAIN versions' /\ versions'[v] = versions[v]
  BY <1>1
<1>13. \A v \in DOMAIN versions' \ DOMAIN versions :
         /\ versions'[v] \in jobs
         /\ VersionOf(versions'[v].assignment) = v
  <2> SUFFICES ASSUME NEW v \in DOMAIN versions' \ DOMAIN versions
               PROVE  /\ versions'[v] \in jobs
                      /\ VersionOf(versions'[v].assignment) = v
    OBVIOUS
  <2>1. \E j \in created : VersionOf(j.assignment) = v
    BY <1>1
  <2>2. versions'[v] = CHOOSE j \in created : VersionOf(j.assignment) = v
    BY <1>1
  <2>3. versions'[v] \in created /\ VersionOf(versions'[v].assignment) = v
    BY <2>1, <2>2
  <2>4. QED
    BY <2>3
<1>14. DOMAIN versions' = {VersionOf(r) : r \in assignments'}
  <2>1. DOMAIN versions' = DOMAIN versions \cup {VersionOf(r) : r \in N}
    BY <1>1
  <2>2. DOMAIN versions = {VersionOf(r) : r \in assignments}
    BY DEF RInv, JobsMatchRows
  <2> HIDE DEF N
  <2>3. QED
    BY <2>1, <2>2, <1>1
<1> HIDE DEF created
<1>15. JobsMatchRows'
  <2>1. ASSUME NEW v \in DOMAIN versions'
        PROVE  versions'[v].assignment \in assignments'
    <3>1. CASE v \in DOMAIN versions
      BY <1>1, <1>12, <3>1 DEF RInv, JobsMatchRows
    <3>2. CASE v \notin DOMAIN versions
      <4>1. versions'[v].assignment \in N
        BY <1>13, <3>2
      <4>2. QED
        BY <1>1, <4>1
    <3>3. QED
      BY <3>1, <3>2
  <2>2. \A v \in DOMAIN versions' : VersionOf(versions'[v].assignment) = v
    BY <1>12, <1>13 DEF RInv, JobsMatchRows
  <2>3. QED
    BY <1>14, <2>1, <2>2 DEF JobsMatchRows
<1>16. RegistryTypeOK'
  <2>1. DOMAIN versions' \subseteq Versions
    BY <1>11, <1>14 DEF VersionOf, Rows, Versions
  <2>2. \A v \in DOMAIN versions' : versions'[v] \in Jobs
    BY <1>2, <1>6, <1>12, <1>13
  <2>3. QED
    BY <1>1, <1>2, <1>3, <1>11, <2>1, <2>2 DEF RegistryTypeOK
<1>17. ReleasesObserved'
  <2>1. ASSUME NEW v \in DOMAIN versions'
        PROVE  ReleaseMajor[versions'[v].branch] <= high
    <3>1. CASE v \in DOMAIN versions
      <4>1. ReleaseMajor[versions[v].branch] <= observed
        BY <3>1 DEF RInv, ReleasesObserved
      <4>2. versions[v].branch \in Branches
        BY <3>1, <1>2 DEF Jobs
      <4>3. QED
        BY <1>2, <1>3, <1>12, <3>1, <4>1, <4>2, ReleaseMajorAssumption
           DEF NotRelease, NoneObserved
    <3>2. CASE v \notin DOMAIN versions
      BY <1>6, <1>13, <3>2
    <3>3. QED
      BY <3>1, <3>2
  <2>2. observed' = high
    BY <1>1
  <2>3. QED
    BY <2>1, <2>2 DEF ReleasesObserved
<1>18. DefaultAbove
  <2> SUFFICES ASSUME NEW v \in DOMAIN versions' \ DOMAIN versions,
                      ReleaseMajor[versions'[v].branch] = NotRelease,
                      NEW w \in DOMAIN versions'
               PROVE  ReleaseMajor[versions'[w].branch] < v.major
    BY DEF DefaultAbove
  <2>1. versions'[v].assignment.major = high + 1
    BY <1>6, <1>13
  <2>2. v.major = versions'[v].assignment.major
    BY <1>13 DEF VersionOf
  <2>3. ReleaseMajor[versions'[w].branch] <= high
    BY <1>1, <1>17 DEF ReleasesObserved
  <2>4. versions'[w].branch \in Branches
    BY <1>16 DEF RegistryTypeOK, Jobs
  <2>5. QED
    BY <2>1, <2>2, <2>3, <2>4, <1>3, ReleaseMajorAssumption DEF NotRelease, NoneObserved
<1>19. AuditComplete'
  <2>1. \A r \in assignments' : r.attempt > 0 => r \in assignments
    BY <1>1, <1>10
  <2>2. QED
    BY <1>1, <1>12, <2>1 DEF RInv, AuditComplete
<1>20. PublishedKept
  BY <1>12 DEF PublishedKept
<1>21. QED
  BY <1>11, <1>15, <1>16, <1>17, <1>18, <1>19, <1>20 DEF Kept, RInv

\* A repair issues a new row, and so a new version.
LEMMA ReplacementIsNew ==
  ASSUME RInv, NEW v \in DOMAIN versions, NEW record, record = versions[v].assignment,
         NEW row, row = NextRow(record.major, record.commit, record.sequence)
  PROVE  /\ row \in Rows
         /\ row.major = record.major /\ row.commit = record.commit
         /\ Ledger!MayFollow(row)
         /\ PutRow(assignments, row) = assignments \cup {row}
         /\ VersionOf(row) \notin DOMAIN versions
<1>1. /\ assignments \subseteq Rows /\ IsFiniteSet(assignments)
      /\ DOMAIN versions = {VersionOf(r) : r \in assignments}
      /\ record \in assignments
  BY DEF RInv, RegistryTypeOK, JobsMatchRows
<1>2. /\ record \in Rows
      /\ record.major \in Nat /\ record.commit \in Commits /\ record.sequence \in Nat
      /\ record.sequence >= CommittedAt[record.commit]
  BY <1>1 DEF RInv, NotBeforeCommit, Rows
<1>3. /\ row \in Rows
      /\ row.major = record.major /\ row.commit = record.commit
      /\ Ledger!MayFollow(row)
      /\ PutRow(assignments, row) = assignments \cup {row}
  <2>1. \E r \in assignments : r.major = record.major /\ record.sequence = r.sequence
    BY <1>1
  <2>2. QED
    BY <1>1, <1>2, <2>1, NextRowMayFollow
<1>4. ASSUME NEW r \in assignments, VersionOf(r) = VersionOf(row)
      PROVE  FALSE
  <2>1. r.major = row.major /\ r.sequence = row.sequence /\ r.sequence \in Nat
    BY <1>1, <1>4 DEF VersionOf, Rows
  <2>2. r.sequence < row.sequence
    BY <1>3, <2>1 DEF Ledger!MayFollow
  <2>3. QED
    BY <2>1, <2>2
<1>5. QED
  BY <1>1, <1>3, <1>4

LEMMA RecoverStep ==
  ASSUME RInv, NEW v \in DOMAIN versions, RecoverVersion(v)
  PROVE  Kept
<1> DEFINE record == versions[v].assignment
           row == NextRow(record.major, record.commit, record.sequence)
           new == VersionOf(row)
           job == NewJob(row, versions[v].branch)
<1>1. /\ versions[v].state \in Published
      /\ assignments' = PutRow(assignments, row)
      /\ versions' = [w \in DOMAIN versions \cup {new} |->
                        IF w = new THEN job ELSE versions[w]]
      /\ recoveries' = recoveries \cup {[original |-> v, replacement |-> new]}
      /\ observed' = observed
  BY DEF RecoverVersion, AuditEntry
<1>2. /\ observed \in Nat \cup {NoneObserved}
      /\ assignments \subseteq Rows /\ IsFiniteSet(assignments)
      /\ DOMAIN versions \subseteq Versions
      /\ \A w \in DOMAIN versions : versions[w] \in Jobs
      /\ recoveries \subseteq Recoveries
      /\ DOMAIN versions = {VersionOf(r) : r \in assignments}
      /\ \A w \in DOMAIN versions : /\ versions[w].assignment \in assignments
                                   /\ VersionOf(versions[w].assignment) = w
  BY DEF RInv, RegistryTypeOK, JobsMatchRows
<1>3. /\ record \in assignments /\ record \in Rows
      /\ record.major \in Nat /\ record.commit \in Commits /\ record.sequence \in Nat
      /\ record.sequence >= CommittedAt[record.commit]
  BY <1>2 DEF RInv, NotBeforeCommit, Rows
<1>4. /\ row \in Rows
      /\ row.major = record.major /\ row.commit = record.commit
      /\ Ledger!MayFollow(row)
      /\ PutRow(assignments, row) = assignments \cup {row}
      /\ new \notin DOMAIN versions
  <2> HIDE DEF record
  <2>1. record = versions[v].assignment
    BY DEF record
  <2>2. QED
    BY <2>1, ReplacementIsNew
<1> HIDE DEF row
<1>5. /\ \A q \in assignments : q.major = row.major => q.sequence < row.sequence
      /\ \A q \in assignments :
           q.major = row.major /\ q.commit = row.commit => q.attempt < row.attempt
  BY <1>4 DEF Ledger!MayFollow, Ledger!Subject
<1>6. new \notin DOMAIN versions
  BY <1>4
<1>7. /\ assignments' \subseteq Rows
      /\ IsFiniteSet(assignments')
      /\ OneRowPerVersion'
      /\ NotBeforeCommit'
      /\ Ledger!Issue
  <2> DEFINE N == {row}
  <2>1. IsFiniteSet(N)
    BY FS_Singleton
  <2>2. assignments' = assignments \cup N
    BY <1>1, <1>4
  <2>3. /\ N \in SUBSET Rows
        /\ \A r \in N : r \in assignments \/ Ledger!MayFollow(r)
        /\ \A r, q \in N : r.major = q.major => r = q
    BY <1>4
  <2> HIDE DEF N
  <2>4. QED
    BY <2>1, <2>2, <2>3, RowsAdded
<1>8. /\ job \in Jobs /\ job.assignment = row /\ job.branch = versions[v].branch
  BY <1>2, <1>4, LeaseTimeoutAssumption DEF NewJob, Jobs
<1>9. /\ DOMAIN versions' = DOMAIN versions \cup {new}
      /\ versions'[new] = job
      /\ \A w \in DOMAIN versions : versions'[w] = versions[w]
  BY <1>1, <1>6
<1>10. new \in Versions /\ new.major = row.major /\ new.sequence = row.sequence
  BY <1>4 DEF VersionOf, Versions, Rows
<1> HIDE DEF job
<1>11. RegistryTypeOK'
  <2>1. recoveries' \subseteq Recoveries
    BY <1>1, <1>2, <1>10 DEF Recoveries
  <2>2. \A w \in DOMAIN versions' : w \in Versions /\ versions'[w] \in Jobs
    BY <1>2, <1>8, <1>9, <1>10
  <2>3. QED
    BY <1>1, <1>2, <1>7, <2>1, <2>2 DEF RegistryTypeOK
<1>12. JobsMatchRows'
  <2>1. assignments' = assignments \cup {row}
    BY <1>1, <1>4
  <2>2. DOMAIN versions' = {VersionOf(r) : r \in assignments'}
    BY <1>2, <1>9, <2>1
  <2>3. \A w \in DOMAIN versions' : /\ versions'[w].assignment \in assignments'
                                  /\ VersionOf(versions'[w].assignment) = w
    BY <1>2, <1>8, <1>9, <2>1
  <2>4. QED
    BY <2>2, <2>3 DEF JobsMatchRows
<1>13. ReleasesObserved'
  <2>1. \A w \in DOMAIN versions' : ReleaseMajor[versions'[w].branch] <= observed
    BY <1>8, <1>9 DEF RInv, ReleasesObserved
  <2>2. observed' = observed
    BY <1>1
  <2>3. QED
    BY <2>1, <2>2 DEF ReleasesObserved
<1>14. DefaultAbove
  <2>1. \A w \in DOMAIN versions' \ DOMAIN versions : w = new
    BY <1>9
  <2>2. row.attempt # 0
    BY <1>3, <1>4, <1>5 DEF Rows
  <2>3. QED
    BY <2>1, <2>2, <1>8, <1>9 DEF DefaultAbove
<1>15. PublishedKept
  BY <1>9 DEF PublishedKept
<1>16. AuditComplete'
  <2> DEFINE entry == [original |-> v, replacement |-> new]
  <2>1. /\ \A a \in recoveries :
             /\ {a.original, a.replacement} \subseteq DOMAIN versions
             /\ versions[a.original].state \in Published
             /\ versions[a.original].branch = versions[a.replacement].branch
             /\ versions[a.replacement].assignment.major
                  = versions[a.original].assignment.major
             /\ versions[a.replacement].assignment.commit
                  = versions[a.original].assignment.commit
             /\ versions[a.replacement].assignment.attempt
                  > versions[a.original].assignment.attempt
             /\ versions[a.replacement].assignment.sequence
                  > versions[a.original].assignment.sequence
        /\ \A r \in assignments :
             r.attempt > 0 => \E a \in recoveries : a.replacement = VersionOf(r)
        /\ \A a, b \in recoveries : a.replacement = b.replacement => a = b
    BY DEF RInv, AuditComplete
  <2>2. recoveries' = recoveries \cup {entry} /\ entry.original = v /\ entry.replacement = new
    BY <1>1
  <2>3. /\ {v, new} \subseteq DOMAIN versions'
        /\ versions'[v].state \in Published
        /\ versions'[v].branch = versions'[new].branch
        /\ versions'[v].assignment = record
        /\ versions'[new].assignment = row
    BY <1>1, <1>8, <1>9
  <2>4. row.attempt > record.attempt /\ row.sequence > record.sequence
    BY <1>3, <1>4, <1>5 DEF Rows
  <2>5. \A r \in assignments' : r \in assignments \/ r = row
    BY <1>1, <1>4
  <2> HIDE DEF entry, new, record
  <2>6. \A a \in recoveries' :
          /\ {a.original, a.replacement} \subseteq DOMAIN versions'
          /\ versions'[a.original].state \in Published
          /\ versions'[a.original].branch = versions'[a.replacement].branch
          /\ versions'[a.replacement].assignment.major
               = versions'[a.original].assignment.major
          /\ versions'[a.replacement].assignment.commit
               = versions'[a.original].assignment.commit
          /\ versions'[a.replacement].assignment.attempt
               > versions'[a.original].assignment.attempt
          /\ versions'[a.replacement].assignment.sequence
               > versions'[a.original].assignment.sequence
    <3>1. ASSUME NEW a \in recoveries
          PROVE  /\ a.original \in DOMAIN versions
                 /\ a.replacement \in DOMAIN versions
                 /\ versions'[a.original] = versions[a.original]
                 /\ versions'[a.replacement] = versions[a.replacement]
      BY <2>1, <1>9
    <3>2. QED
      BY <2>1, <2>2, <2>3, <2>4, <1>4, <1>9, <3>1
  <2>7. \A r \in assignments' :
          r.attempt > 0 => \E a \in recoveries' : a.replacement = VersionOf(r)
    BY <2>1, <2>2, <2>5 DEF new
  <2>8. \A a, b \in recoveries' : a.replacement = b.replacement => a = b
    BY <2>1, <2>2, <1>6
  <2>9. QED
    BY <2>6, <2>7, <2>8 DEF AuditComplete
<1>17. QED
  BY <1>7, <1>11, <1>12, <1>13, <1>14, <1>15, <1>16 DEF Kept, RInv

\* A step that gives every job that is not published another state or age.
LEMMA JobsChanged ==
  ASSUME RInv,
         UNCHANGED <<observed, assignments, recoveries>>,
         DOMAIN versions' = DOMAIN versions,
         \A v \in DOMAIN versions :
           /\ versions'[v] \in Jobs
           /\ versions'[v].assignment = versions[v].assignment
           /\ versions'[v].branch = versions[v].branch
           /\ versions[v].state \in Published => versions'[v] = versions[v]
  PROVE  Kept
<1>1. RegistryTypeOK'
  BY DEF RInv, RegistryTypeOK
<1>2. IsFiniteSet(assignments') /\ OneRowPerVersion' /\ NotBeforeCommit'
  BY DEF RInv, OneRowPerVersion, NotBeforeCommit
<1>3. ReleasesObserved'
  BY DEF RInv, ReleasesObserved
<1>4. JobsMatchRows'
  BY DEF RInv, JobsMatchRows
<1>5. AuditComplete'
  <2>1. \A a \in recoveries : /\ versions'[a.original] = versions[a.original]
                             /\ versions'[a.replacement].assignment
                                  = versions[a.replacement].assignment
                             /\ versions'[a.replacement].branch
                                  = versions[a.replacement].branch
    BY DEF RInv, AuditComplete
  <2>2. QED
    BY <2>1 DEF RInv, AuditComplete
<1>6. PublishedKept /\ DefaultAbove
  BY DEF PublishedKept, DefaultAbove
<1>7. QED
  BY <1>1, <1>2, <1>3, <1>4, <1>5, <1>6 DEF Kept, RInv

LEMMA SetJobStep ==
  ASSUME RInv, NEW v \in DOMAIN versions, versions[v].state \notin Published,
         NEW state \in {"pending", "leased"} \cup Published, SetJob(v, state)
  PROVE  Kept
<1> DEFINE job == versions[v]
<1>1. job \in Jobs /\ 0 \in 0..LeaseTimeout
  BY LeaseTimeoutAssumption DEF RInv, RegistryTypeOK
<1>2. /\ DOMAIN versions' = DOMAIN versions
      /\ UNCHANGED <<observed, assignments, recoveries>>
      /\ versions'[v] = [[job EXCEPT !.state = state] EXCEPT !.age = 0]
      /\ \A w \in DOMAIN versions : w # v => versions'[w] = versions[w]
  BY DEF SetJob
<1> HIDE DEF job
<1>3. /\ versions'[v] \in Jobs
      /\ versions'[v].assignment = job.assignment
      /\ versions'[v].branch = job.branch
  BY <1>1, <1>2 DEF Jobs
<1>4. \A w \in DOMAIN versions : versions[w] \in Jobs
  BY DEF RInv, RegistryTypeOK
<1>5. \A w \in DOMAIN versions :
        /\ versions'[w] \in Jobs
        /\ versions'[w].assignment = versions[w].assignment
        /\ versions'[w].branch = versions[w].branch
        /\ versions[w].state \in Published => versions'[w] = versions[w]
  BY <1>2, <1>3, <1>4 DEF job
<1>6. QED
  BY <1>2, <1>5, JobsChanged

LEMMA AgeStep ==
  ASSUME RInv, AgeLeases
  PROVE  Kept
<1>1. \A w \in DOMAIN versions : versions[w] \in Jobs
  BY DEF RInv, RegistryTypeOK
<1>2. \A age \in 0..LeaseTimeout : Older(age) \in 0..LeaseTimeout
  BY LeaseTimeoutAssumption DEF Older
<1>3. ASSUME NEW job \in Jobs
      PROVE  /\ [job EXCEPT !.age = Older(@)] \in Jobs
             /\ [job EXCEPT !.age = Older(@)].assignment = job.assignment
             /\ [job EXCEPT !.age = Older(@)].branch = job.branch
  BY <1>2 DEF Jobs
<1>4. /\ DOMAIN versions' = DOMAIN versions
      /\ UNCHANGED <<observed, assignments, recoveries>>
      /\ \A w \in DOMAIN versions :
           versions'[w] = IF versions[w].state = "leased"
                          THEN [versions[w] EXCEPT !.age = Older(@)] ELSE versions[w]
  BY DEF AgeLeases
<1>5. \A w \in DOMAIN versions :
        /\ versions'[w] \in Jobs
        /\ versions'[w].assignment = versions[w].assignment
        /\ versions'[w].branch = versions[w].branch
        /\ versions[w].state \in Published => versions'[w] = versions[w]
  BY <1>1, <1>3, <1>4 DEF Published
<1>6. QED
  BY <1>4, <1>5, JobsChanged

LEMMA RegistryStep == RInv /\ RegistryNext => Kept
<1> SUFFICES ASSUME RInv, RegistryNext
             PROVE  Kept
  OBVIOUS
<1>1. CASE \E d \in Discoveries : Refresh(d)
  BY <1>1, RefreshStep
<1>2. CASE \E v \in DOMAIN versions : RecoverVersion(v)
  BY <1>2, RecoverStep
<1>3. CASE \E v \in DOMAIN versions : LeaseNext(v)
  <2>1. PICK v \in DOMAIN versions : LeaseNext(v)
    BY <1>3
  <2>2. versions[v].state \notin Published /\ SetJob(v, "leased")
    BY <2>1 DEF LeaseNext, Leasable, Published
  <2>3. QED
    BY <2>2, SetJobStep
<1>4. CASE \E v \in DOMAIN versions : ReleaseLease(v)
  <2>1. PICK v \in DOMAIN versions : ReleaseLease(v)
    BY <1>4
  <2>2. versions[v].state \notin Published /\ SetJob(v, "pending")
    BY <2>1 DEF ReleaseLease, Published
  <2>3. QED
    BY <2>2, SetJobStep
<1>5. CASE \E v \in DOMAIN versions : HandleComplete(v)
  <2>1. PICK v \in DOMAIN versions : HandleComplete(v)
    BY <1>5
  <2>2. versions[v].state \notin Published
    BY <2>1 DEF HandleComplete, MarkReady, MarkYanked, Completable, Published
  <2>3. SetJob(v, "ready") \/ SetJob(v, "yanked")
    BY <2>1 DEF HandleComplete, MarkReady, MarkYanked
  <2>4. QED
    BY <2>2, <2>3, SetJobStep DEF Published
<1>6. CASE AgeLeases
  BY <1>6, AgeStep
<1>7. QED
  BY <1>1, <1>2, <1>3, <1>4, <1>5, <1>6 DEF RegistryNext

LEMMA RegistryStutter == RInv /\ UNCHANGED registryVars => RInv'
BY DEF registryVars, RInv, RegistryTypeOK, OneRowPerVersion, NotBeforeCommit,
       ReleasesObserved, JobsMatchRows, AuditComplete

LEMMA RegistryInitInvariant == RegistryInit => RInv
<1> SUFFICES ASSUME RegistryInit
             PROVE  RInv
  OBVIOUS
<1>1. IsFiniteSet(assignments)
  BY FS_EmptySet DEF RegistryInit
<1>2. QED
  BY <1>1 DEF RegistryInit, RInv, RegistryTypeOK, OneRowPerVersion, NotBeforeCommit,
              ReleasesObserved, JobsMatchRows, AuditComplete, NoneObserved

LEMMA RegistryInvariant == RegistrySpec => []RInv
<1>1. RInv /\ [RegistryNext]_registryVars => RInv'
  BY RegistryStep, RegistryStutter DEF Kept
<1>2. QED
  BY <1>1, RegistryInitInvariant, PTL DEF RegistrySpec

-----------------------------------------------------------------------------
\* Type correctness of the registry.
THEOREM RegistryTypeCorrect == RegistrySpec => []RegistryTypeOK
<1>1. RInv => RegistryTypeOK
  BY DEF RInv
<1>2. QED
  BY <1>1, RegistryInvariant, PTL

\* Rows and jobs never part, whatever refreshes and repairs come.
THEOREM RowsAndJobsAgree == RegistrySpec => []JobsMatchRows
<1>1. RInv => JobsMatchRows
  BY DEF RInv
<1>2. QED
  BY <1>1, RegistryInvariant, PTL

\* The audit accounts for every repair, and only for repairs.
THEOREM RepairsAreAccountedFor == RegistrySpec => []AuditComplete
<1>1. RInv => AuditComplete
  BY DEF RInv
<1>2. QED
  BY <1>1, RegistryInvariant, PTL

\* No transition takes back or alters a published version.
THEOREM PublicationIsFinal == RegistrySpec => PublishedIsFinal
<1>1. RInv /\ [RegistryNext]_registryVars =>
        [\A v \in DOMAIN versions :
           /\ v \in DOMAIN versions'
           /\ versions[v].state \in Published => versions'[v] = versions[v]]_registryVars
  BY RegistryStep DEF Kept, PublishedKept
<1>2. QED
  BY <1>1, RegistryInvariant, PTL DEF RegistrySpec, PublishedIsFinal

\* The default branch is never given a major that a release was seen in.
THEOREM DefaultNeverSharesMajor == RegistrySpec => DefaultStaysAboveReleases
<1>1. RInv /\ [RegistryNext]_registryVars =>
        [\A v \in DOMAIN versions' \ DOMAIN versions :
           /\ ReleaseMajor[versions'[v].branch] = NotRelease
           /\ versions'[v].assignment.attempt = 0
           => \A w \in DOMAIN versions' :
                ReleaseMajor[versions'[w].branch] < v.major]_registryVars
  BY RegistryStep DEF Kept, DefaultAbove
<1>2. QED
  BY <1>1, RegistryInvariant, PTL DEF RegistrySpec, DefaultStaysAboveReleases

\* The registry issues versions as the ledger promises.
THEOREM RegistryImplementsLedger == RegistrySpec => RegistryLedger
<1>1. RegistryInit => Ledger!Init
  BY DEF RegistryInit, Ledger!Init
<1>2. RInv /\ [RegistryNext]_registryVars => [Ledger!Issue]_assignments
  BY RegistryStep DEF Kept, registryVars
<1>3. QED
  BY <1>1, <1>2, RegistryInvariant, PTL DEF RegistrySpec, RegistryLedger, Ledger!Spec
====
