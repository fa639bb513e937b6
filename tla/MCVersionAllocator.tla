---- MODULE MCVersionAllocator ----
(***************************************************************************)
(* Three commits whose dates collide (c1 and c2) or run backward (c3), and *)
(* two majors.                                                             *)
(***************************************************************************)
EXTENDS VersionAllocator

CONSTANTS c1, c2, c3

MCCommits == {c1, c2, c3}
MCCommittedAt == [c \in MCCommits |-> IF c = c3 THEN 1 ELSE 3]
====
