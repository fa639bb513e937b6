---- MODULE VersionLedger ----
(***************************************************************************)
(* What the version allocator of a package promises its clients, whatever  *)
(* counters it keeps: versions are only ever issued, never changed or      *)
(* withdrawn, and within a major every issued version is newer than all    *)
(* earlier ones.  VersionAllocator and PackageRegistry are shown to        *)
(* implement this specification.                                           *)
(***************************************************************************)
EXTENDS Integers

CONSTANTS Commits, CommittedAt

VARIABLE ledger   \* every row issued so far

Subject(r) == <<r.major, r.commit>>

(***************************************************************************)
(* A row may follow the ones issued when it is the newest of its major,    *)
(* is not older than its commit, skips no sequence unless the commit date  *)
(* makes it, and is the next attempt of its commit.                        *)
(***************************************************************************)
MayFollow(r) ==
  /\ \A q \in ledger : q.major = r.major => q.sequence < r.sequence
  /\ r.sequence >= CommittedAt[r.commit]
  /\ \/ r.sequence = CommittedAt[r.commit]
     \/ \E q \in ledger : q.major = r.major /\ q.sequence = r.sequence - 1
  /\ \A q \in ledger : Subject(q) = Subject(r) => q.attempt < r.attempt
  /\ \/ r.attempt = 0
     \/ \E q \in ledger : Subject(q) = Subject(r) /\ q.attempt = r.attempt - 1

Init == ledger = {}

\* One observation may issue a row in each of several majors.
Issue ==
  /\ ledger \subseteq ledger'
  /\ \A r \in ledger' \ ledger : MayFollow(r)
  /\ \A r, q \in ledger' \ ledger : r.major = q.major => r = q

Spec == Init /\ [][Issue]_ledger
====
