---- MODULE PublishedPackage ----
(***************************************************************************)
(* A package as its clients see it, whatever goes on to make it: versions  *)
(* are issued for commits, each is filled once and at once with the files  *)
(* of one outcome for its commit, and only then advertised, as what these  *)
(* files are.  Nothing of this is ever taken back or changed.              *)
(* PackageObject is shown to implement this specification.                 *)
(***************************************************************************)
CONSTANTS
  Outcomes,   \* what can be made of a commit: records with a commit and a state
  Files       \* per outcome, its files

VARIABLES
  issued,      \* per version, its commit
  contents,    \* per version that is filled, the files clients can get
  advertised   \* per version of the metadata, its state

clientVars == <<issued, contents, advertised>>

\* The function g is f with values for further keys; for one further key.
Grows(f, g) == \A k \in DOMAIN f : k \in DOMAIN g /\ g[k] = f[k]
GrowsBy(f, g, k) ==
  /\ k \notin DOMAIN f
  /\ DOMAIN g = DOMAIN f \cup {k}
  /\ Grows(f, g)

Init ==
  /\ DOMAIN issued = {}
  /\ DOMAIN contents = {}
  /\ DOMAIN advertised = {}

Issue ==
  /\ Grows(issued, issued')
  /\ UNCHANGED <<contents, advertised>>

Fill ==
  /\ \E v \in DOMAIN issued :
       /\ GrowsBy(contents, contents', v)
       /\ \E o \in Outcomes : o.commit = issued[v] /\ contents'[v] = Files[o]
  /\ UNCHANGED <<issued, advertised>>

\* The files tell what they are: no outcome of another state has the same.
Advertise ==
  /\ \E v \in DOMAIN contents :
       /\ GrowsBy(advertised, advertised', v)
       /\ \A o \in Outcomes : contents[v] = Files[o] => advertised'[v] = o.state
  /\ UNCHANGED <<issued, contents>>

Next == Issue \/ Fill \/ Advertise

Spec == Init /\ [][Next]_clientVars
====
