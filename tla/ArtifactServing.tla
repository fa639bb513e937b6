---- MODULE ArtifactServing ----
(***************************************************************************)
(* src/src/r2-artifacts.ts: clients read artifacts from the bucket that    *)
(* Publication's batches fill.  A read first gets the ready marker of the  *)
(* version and then the object, and batches run between the two; the       *)
(* client keeps what it was served and may have it confirmed later.        *)
(*                                                                         *)
(* A URL encodes some characters of a path.  artifactKey decodes the path  *)
(* of an upload again, while a read takes the path as its URL has it.      *)
(***************************************************************************)
EXTENDS Publication

CONSTANTS
  Readers,   \* requests for artifacts in flight at once
  Asked,     \* the paths clients ask for, within a version
  Encoded    \* the paths that a URL changes, each with its form there

\* The path of new URL(..).pathname.
InUrl(path) == IF path \in DOMAIN Encoded THEN Encoded[path] ELSE path

\* decodeURIComponent, on each segment of such a path.
Decoded(path) ==
  IF \E f \in DOMAIN Encoded : Encoded[f] = path
  THEN CHOOSE f \in DOMAIN Encoded : Encoded[f] = path ELSE path

\* What publishArtifact stores an upload under.  No path of a package holds a "%"
\* (validate_package_path), so this is the path that the manifest lists, and
\* Publication takes it so.
ArtifactKey(path) == Decoded(InUrl(path))
ASSUME EncodedAssumption ==
  \A o \in Outcomes : \A i \in Items(o) :
    ArtifactKey(Uploads[o][i].path) = Uploads[o][i].path

\* syntheticArtifactPath leads to no marker.
ASSUME AskedAssumption == \A f \in Asked : InUrl(f) # MarkerPath

VARIABLE reads   \* per reader, its request, the marker it saw and its copy

servingVars == <<bucket, batches, reads>>

At(p, f) == {s \in bucket : s.prefix = p /\ s.path = f}

Unasked == [stage |-> "answered", marker |-> {}, copy |-> {}]
ServingInit == StoreInit /\ reads = [r \in Readers |-> Unasked]

\* A read of a file of a version, where it is and what it has got.
Read(stage, p, f, marker, copy) ==
  [stage |-> stage, prefix |-> p, path |-> f, marker |-> marker, copy |-> copy]

SetRead(r, read) == reads' = [reads EXCEPT ![r] = read]
Proceed(r, stage, marker, copy) ==
  SetRead(r, Read(stage, reads[r].prefix, reads[r].path, marker, copy))
Unpublishing == UNCHANGED <<bucket, batches>>

\* A request for a file of a version: syntheticArtifactPath makes the key of the
\* pathname as it is.  A client that holds a copy from this URL says so with its tag
\* or date.
Ask(r, p, f) ==
  /\ reads[r].stage \in {"answered", "missing"}
  /\ LET path == InUrl(f)
     IN  SetRead(r, Read("marker", p, path, {},
                         {c \in reads[r].copy : c.prefix = p /\ c.path = path}))
  /\ Unpublishing

\* Mutant: the marker is not looked at.
GetNoMarker(r) ==
  /\ reads[r].stage = "marker"
  /\ Proceed(r, "object", {}, reads[r].copy)
  /\ Unpublishing

GetMarker(r) ==
  /\ reads[r].stage = "marker"
  /\ LET marker == At(reads[r].prefix, MarkerPath)
     IN  Proceed(r, IF marker = {} THEN "missing" ELSE "object", marker, reads[r].copy)
  /\ Unpublishing

\* 404, the object, or 304 when the client's copy is still what is stored.
GetObject(r) ==
  /\ reads[r].stage = "object"
  /\ LET object == At(reads[r].prefix, reads[r].path)
     IN  IF object = {}
         THEN Proceed(r, "missing", reads[r].marker, reads[r].copy)
         ELSE Proceed(r, "answered", reads[r].marker, object)
  /\ Unpublishing

\* The bucket throws: the request ends and the client keeps its copy.
ReadFails(r) ==
  /\ reads[r].stage \in {"marker", "object"}
  /\ Proceed(r, "answered", {}, reads[r].copy)
  /\ Unpublishing

ServingNext ==
  \/ StoreNext /\ UNCHANGED reads
  \/ \E r \in Readers, p \in KeyPrefixes, f \in Asked : Ask(r, p, f)
  \/ \E r \in Readers : GetMarker(r)
  \/ \E r \in Readers : GetObject(r)
  \/ \E r \in Readers : ReadFails(r)

ServingSpec == ServingInit /\ [][ServingNext]_servingVars

-----------------------------------------------------------------------------
(***************************************************************************)
(* A copy that a client holds was served of a version that is complete,    *)
(* and it stays what the bucket stores under its key, whatever batches do  *)
(* later ("public, max-age=31536000, immutable").                          *)
(***************************************************************************)
CopiesStayTrue ==
  \A r \in Readers : \A c \in reads[r].copy :
    /\ At(c.prefix, c.path) = {c}
    /\ \E o \in Outcomes : Complete(c.prefix, o)

(***************************************************************************)
(* Once a marker was seen, a 404 is for a path that the marker's own,      *)
(* completely stored outcome does not list, or lists under a name that a   *)
(* URL changes, since such a file is not stored where a read looks.        *)
(***************************************************************************)
ListedIsServed ==
  \A r \in Readers : \A s \in reads[r].marker :
    reads[r].stage = "missing" =>
      \E o \in Outcomes :
        /\ s = Object(reads[r].prefix, o, Len(Uploads[o]))
        /\ Complete(reads[r].prefix, o)
        /\ \A i \in Items(o) :
             InUrl(Uploads[o][i].path) = reads[r].path => Uploads[o][i].path \in DOMAIN Encoded

(***************************************************************************)
(* What is served belongs to the outcome that completed the version        *)
(* ("partial uploads are unreachable", publishArtifactBatch).              *)
(***************************************************************************)
PartialUploadsUnreachable ==
  \A r \in Readers : \A c \in reads[r].copy :
    \E o \in Outcomes :
      /\ Complete(c.prefix, o)
      /\ \E i \in Items(o) : c = Object(c.prefix, o, i)
====
