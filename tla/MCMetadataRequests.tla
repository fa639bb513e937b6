---- MODULE MCMetadataRequests ----
(***************************************************************************)
(* Two requests while the default branch moves from c1 to c2 and c3, which *)
(* are dated in that order.  The sequences of c2 and c3 have one digit     *)
(* more than that of c1, so that their versions come first in text order.  *)
(***************************************************************************)
EXTENDS MetadataRequests

CONSTANTS c1, c2, c3, b1, main

MCReleaseMajor == [b \in Branches |-> NotRelease]
MCCommittedAt == [c \in Commits |-> IF c = c1 THEN 9 ELSE IF c = c2 THEN 10 ELSE 11]
MCSourcePaths == [c \in Commits |-> <<"deno.json">>]
MCSucceeds == Commits \X Builds
ThreeCommits == <<c1, c2, c3>>
TwoCommits == <<c1, c2>>
OneCommit == <<c1>>
BranchDiscoveries == {TipsAt(i) : i \in DOMAIN History}
====
