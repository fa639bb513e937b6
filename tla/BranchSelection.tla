---- MODULE BranchSelection ----
(***************************************************************************)
(* src/src/branches.ts: which branches of a repository are visible, and    *)
(* which major each of them owns.  A discovery is what GitHub answered:    *)
(* the default branch and the tip of every branch.                         *)
(***************************************************************************)
EXTENDS Integers, FiniteSetsExt

CONSTANTS
  Branches,       \* branch names
  ReleaseMajor    \* the N of a branch named vN, NotRelease for every other name

NotRelease == -1      \* releaseMajor returns undefined
NoneObserved == -1    \* highestObservedReleaseMajor is undefined

ASSUME ReleaseMajorAssumption ==
  /\ ReleaseMajor \in [Branches -> Nat \cup {NotRelease}]
  /\ \A b, e \in Branches :
       ReleaseMajor[b] = ReleaseMajor[e] => b = e \/ ReleaseMajor[b] = NotRelease

Releases(d) ==
  {[branch |-> b, major |-> ReleaseMajor[b], commit |-> d.tips[b]] :
     b \in {e \in DOMAIN d.tips : ReleaseMajor[e] # NotRelease}}

\* Mutant: the releases of earlier discoveries are forgotten.
ObservedNow(d, prior) == Max({NoneObserved} \cup {r.major : r \in Releases(d)})

\* The high-water mark of release majors, which a deleted branch leaves behind.
ObservedAfter(d, prior) == Max({prior} \cup {r.major : r \in Releases(d)})

\* Mutant: the default branch shares the major of the highest release.
HighestReleaseMajor(observed) == observed

\* 0 when no release was ever observed, and the major after the highest otherwise.
DefaultMajor(observed) == IF observed = NoneObserved THEN 0 ELSE observed + 1

\* selectBranches throws when GitHub's answer has no tip of the default branch.
Selectable(d) == d.default \in DOMAIN d.tips

\* The default branch is left out when a release branch has the same tip.
SelectedBranches(d, prior) ==
  LET tip == d.tips[d.default]
  IN  IF \E r \in Releases(d) : r.commit = tip
      THEN Releases(d)
      ELSE Releases(d) \cup
             {[branch |-> d.default, commit |-> tip,
               major  |-> DefaultMajor(ObservedAfter(d, prior))]}
====
