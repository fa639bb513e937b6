---- MODULE MCPackageObject ----
(***************************************************************************)
(* One default branch over one or two commits.  c1 makes a package with    *)
(* build b1 and a tombstone with build b2; c2 makes a package with either, *)
(* or is too large to be looked at.                                        *)
(***************************************************************************)
EXTENDS PackageObject, TLC

CONSTANTS c1, c2, b1, b2, main

MCReleaseMajor == [b \in Branches |-> NotRelease]
MCCommittedAt == [c \in Commits |-> IF c = c1 THEN 9 ELSE 8]
MCDiscoveries == {[default |-> main, tips |-> t] : t \in [{main} -> Commits]}

MCSourcePaths ==
  [c \in Commits |-> IF c = c1 THEN <<"a.ts", "deno.json">> ELSE <<"deno.json">>]
MCSucceeds == {<<c1, b1>>, <<c2, b1>>, <<c2, b2>>}

\* Handlers are interchangeable.
Handlers == Permutations(Attempts)
====
