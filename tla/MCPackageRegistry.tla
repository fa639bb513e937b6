---- MODULE MCPackageRegistry ----
(***************************************************************************)
(* A default branch and two release branches over two commits: releases    *)
(* appear, share the default's tip, move back and are deleted.             *)
(***************************************************************************)
EXTENDS PackageRegistry

CONSTANTS c1, c2, main, v0, v1

MCCommits == {c1, c2}
MCCommittedAt == [c \in MCCommits |-> IF c = c1 THEN 9 ELSE 8]

MCBranches == {main, v0, v1}
OneRelease == {main, v0}
MCReleaseMajor ==
  [b \in Branches |-> IF b = v0 THEN 0 ELSE IF b = v1 THEN 1 ELSE NotRelease]

\* Which branches exist beside the default one, and where their tips are.
MCDiscoveries ==
  {[default |-> main, tips |-> t] :
     t \in UNION {[D -> Commits] : D \in {E \in SUBSET Branches : main \in E}}}

\* Two releases beside a default branch that rests at c2: v0 appears at c1, v1
\* moves between the commits, and both may be deleted again.
ReleaseDiscoveries ==
  {d \in MCDiscoveries :
     /\ d.tips[main] = c2
     /\ v0 \in DOMAIN d.tips => d.tips[v0] = c1}
====
