---- MODULE PackageObjectProofs ----
(***************************************************************************)
(* Proofs about PackageObject, for any number of handlers, any commits,    *)
(* builds and origins, and any faults.  What the object does to its        *)
(* registry is a step of PackageRegistry, whose invariant is used as it    *)
(* is.  The strengthening here ties each handler's batch to the version it *)
(* was leased: the version is known, the outcome is of the version's       *)
(* commit, and what the batch has passed is stored.                        *)
(***************************************************************************)
EXTENDS PackageObject, PackageRegistryProofs, SequenceTheorems

LastItem(o) == Len(M!PublishedUploads(o))

\* A batch, given the jobs V and the bucket B.
BatchOK(b, V, B) ==
  /\ b \in Store!BatchType
  /\ b.next \in Store!Items(b.outcome)
  /\ b.prefix \in DOMAIN V
  /\ b.outcome.commit = V[b.prefix].assignment.commit
  /\ b.stage \in {"put", "head", "orphan"} =>
       \A i \in Store!Items(b.outcome) :
         i < b.next => Store!Object(b.prefix, b.outcome, i) \in B
  /\ b.stage = "published" =>
       \A i \in Store!Items(b.outcome) : Store!Object(b.prefix, b.outcome, i) \in B

Publishing == {"put", "head", "published", "conflict"}

Whole(p, o, B) == \A i \in Store!Items(o) : Store!Object(p, o, i) \in B

\* The two promises about the bucket, given the jobs V and the bucket B.
Advertised(V, B) ==
  \A v \in DOMAIN V : V[v].state \in Published =>
    \E o \in Outcomes : /\ o.state = V[v].state
                        /\ o.commit = V[v].assignment.commit
                        /\ Whole(v, o, B)
Marked(V, B) ==
  \A s \in B : s.path = M!MarkerFile =>
    \E o \in Outcomes : /\ Whole(s.prefix, o, B)
                        /\ s.prefix \in DOMAIN V
                        /\ o.commit = V[s.prefix].assignment.commit
                        /\ V[s.prefix].state \in Published => V[s.prefix].state = o.state

\* No key of the bucket B has two objects.
OneObjectPerKey(B) == \A s, t \in B : s.prefix = t.prefix /\ s.path = t.path => s = t

\* The jobs W continue V: every version is kept with its row, and published ones
\* as they are.
Continues(V, W) ==
  \A v \in DOMAIN V :
    /\ v \in DOMAIN W
    /\ W[v].assignment = V[v].assignment
    /\ V[v].state \in Published => W[v] = V[v]

PublishesNothing(V, W) ==
  \A v \in DOMAIN W : W[v].state \in Published => v \in DOMAIN V /\ V[v].state \in Published

\* From the jobs V to W the version v is completed as the outcome o.
Completes(v, o, V, W, B) ==
  /\ v \in DOMAIN V /\ V[v].state \notin Published
  /\ o \in Outcomes /\ o.commit = V[v].assignment.commit /\ Whole(v, o, B)
  /\ DOMAIN W = DOMAIN V
  /\ W[v].state = o.state /\ W[v].assignment = V[v].assignment
  /\ \A w \in DOMAIN V : w # v => W[w] = V[w]

\* The bucket C grew out of B by one put or none, with the jobs V.
PutOK(V, B, C) ==
  /\ B \subseteq C
  /\ \E object : C \subseteq B \cup {object}
  /\ Marked(V, C)
  /\ OneObjectPerKey(C)

\* From V to W jobs are added, which are pending.
OnlyAdds(V, W) ==
  /\ \A v \in DOMAIN V : v \in DOMAIN W /\ W[v] = V[v]
  /\ \A v \in DOMAIN W : v \notin DOMAIN V => W[v].state = "pending"

\* A handler's materialization t and batch b.
HandlerOK(t, b, V, B) ==
  /\ t \in AttemptType \cup {Resting}
  /\ t # Resting => t.version \in DOMAIN V
  /\ t.stage = "publishing" <=> b.stage \in Publishing
  /\ b = Store!NoBatch \/ BatchOK(b, V, B)
  /\ b.stage \in Publishing => b.prefix = t.version

HandlersOK ==
  /\ attempts = [a \in Attempts |-> attempts[a]]
  /\ batches = [a \in Attempts |-> batches[a]]
  /\ \A a \in Attempts : HandlerOK(attempts[a], batches[a], versions, bucket)

CountersOK == faults \in 0..MaxFaults /\ abandoned \in 0..MaxAbandoned

OInv ==
  /\ RInv
  /\ HandlersOK
  /\ CountersOK
  /\ Advertised(versions, bucket)
  /\ Marked(versions, bucket)
  /\ OneObjectPerKey(bucket)

-----------------------------------------------------------------------------
(***************************************************************************)
(* The objects of an outcome: the marker is the last one and no other.     *)
(***************************************************************************)
IsPair(s, x, y) ==
  s \in Seq({x, y}) /\ Len(s) = 2 /\ s[1] = x /\ s[2] = y

\* A sequence of two.
LEMMA PairFacts ==
  ASSUME NEW x, NEW y
  PROVE  IsPair(<<x, y>>, x, y)
BY DEF IsPair

\* The files of an outcome lie beside its metadata and its marker, and those with one
\* path are the same.
LEMMA FilesOfOutcome ==
  ASSUME NEW o \in Outcomes,
         NEW files, files = M!FilesOf(o)
  PROVE  /\ \E S : files \in Seq(S)
         /\ \A i \in 1..Len(files) : files[i].path \notin {M!MetadataFile, M!MarkerFile}
         /\ \A i, j \in 1..Len(files) : files[i].path = files[j].path => files[i] = files[j]
<1>1. o.commit \in Commits
  BY DEF Outcomes, M!MaterializationOutcomes
<1>2. \A path, text : M!File(path, text).path = path
  BY DEF M!File
<1>3. CASE o.state = "ready"
  <2> DEFINE paths == SourcePaths[o.commit]
             f == [i \in DOMAIN paths |-> M!File(paths[i], <<"source", o.commit, o.build>>)]
  <2>1. files = f
    BY <1>3 DEF M!SourceFiles, M!FilesOf
  <2>2. paths \in Seq(STRING \ {M!MetadataFile, M!MarkerFile})
    BY <1>1, SourcePathsAssumption
  <2>3. /\ DOMAIN paths = 1..Len(paths) /\ Len(paths) \in Nat
        /\ \A i \in 1..Len(paths) : paths[i] \notin {M!MetadataFile, M!MarkerFile}
    BY <2>2
  <2> DEFINE S == {f[i] : i \in 1..Len(paths)}
  <2>4. f \in [1..Len(paths) -> S]
    BY <2>3
  <2>5. f \in Seq(S)
    <3> HIDE DEF f, S, paths
    <3>1. QED
      BY <2>3, <2>4
  <2>6. Len(f) = Len(paths)
    BY <2>3, <2>5
  <2>7. \A i \in 1..Len(f) : f[i].path = paths[i]
    BY <1>2, <2>3, <2>6
  <2>8. \A i, j \in 1..Len(f) : paths[i] = paths[j] => f[i] = f[j]
    BY <2>3, <2>6
  <2> HIDE DEF f, S, paths
  <2>9. QED
    BY <2>1, <2>3, <2>5, <2>6, <2>7, <2>8
<1>4. CASE o.state # "ready"
  <2>1. files = M!TombstoneFiles(o)
    BY <1>4 DEF M!FilesOf
  <2> DEFINE x == M!File("deno.json", <<"tombstone", o.commit, o.build>>)
             y == M!File(M!FailureModule, <<"tombstone", o.commit, o.build, o.origin>>)
  <2>2. files = <<x, y>>
    BY <2>1 DEF M!TombstoneFiles
  <2>3. x.path = "deno.json" /\ y.path = M!FailureModule
    BY <1>2
  <2>4. /\ "deno.json" \notin {M!MetadataFile, M!MarkerFile}
        /\ M!FailureModule \notin {M!MetadataFile, M!MarkerFile}
        /\ "deno.json" # M!FailureModule
    BY DEF M!MarkerFile, M!MetadataFile, M!FailureModule
  <2> HIDE DEF x, y
  <2>5. IsPair(files, x, y)
    BY <2>2, PairFacts
  <2>6. QED
    BY <2>3, <2>4, <2>5 DEF IsPair
<1>5. QED
  BY <1>3, <1>4

\* What is put for an outcome: its files, the metadata, and the marker.
LEMMA UploadsAre ==
  ASSUME NEW o \in Outcomes, NEW files, files = M!FilesOf(o)
  PROVE  /\ Len(files) \in Nat /\ DOMAIN files = 1..Len(files)
         /\ LastItem(o) = Len(files) + 2
         /\ \A i \in 1..Len(files) : M!PublishedUploads(o)[i] = files[i]
         /\ M!PublishedUploads(o)[Len(files) + 1] =
              M!File(M!MetadataFile, <<M!ManifestOf(o), o.commit>>)
         /\ M!PublishedUploads(o)[Len(files) + 2] = M!File(M!MarkerFile, <<M!ManifestOf(o)>>)
<1> DEFINE x == M!File(M!MetadataFile, <<M!ManifestOf(o), o.commit>>)
           y == M!File(M!MarkerFile, <<M!ManifestOf(o)>>)
           u == M!PublishedUploads(o)
<1>1. u = files \o <<x, y>>
  BY DEF M!PublishedUploads, M!Publish, M!ManifestOf
<1>2. PICK S : files \in Seq(S)
  BY FilesOfOutcome
<1> HIDE DEF x, y, u
<1>3. files \in Seq(S \cup {x, y}) /\ <<x, y>> \in Seq(S \cup {x, y})
  BY <1>2
<1>4. Len(files) \in Nat /\ DOMAIN files = 1..Len(files)
  BY <1>2
<1>5. /\ Len(u) = Len(files) + 2
      /\ \A i \in 1..Len(files) : u[i] = files[i]
      /\ u[Len(files) + 1] = x /\ u[Len(files) + 2] = y
  BY <1>1, <1>3, <1>4
<1>6. LastItem(o) = Len(u)
  BY DEF LastItem, u
<1>7. QED
  BY <1>4, <1>5, <1>6 DEF u, x, y

\* The marker is the last object and the only marker.
LEMMA MarkerIsLast ==
  ASSUME NEW o \in Outcomes
  PROVE  /\ LastItem(o) \in Nat \ {0}
         /\ \A i \in 1..LastItem(o) :
              M!PublishedUploads(o)[i].path = M!MarkerFile <=> i = LastItem(o)
<1> DEFINE u == M!PublishedUploads(o)
<1>1. PICK files : files = M!FilesOf(o)
  OBVIOUS
<1>2. /\ Len(files) \in Nat
      /\ LastItem(o) = Len(files) + 2
      /\ \A i \in 1..Len(files) : u[i] = files[i]
      /\ u[Len(files) + 1].path = M!MetadataFile
      /\ u[Len(files) + 2].path = M!MarkerFile
  <2>1. \A path, text : M!File(path, text).path = path
    BY DEF M!File
  <2>2. /\ Len(files) \in Nat
        /\ LastItem(o) = Len(files) + 2
        /\ \A i \in 1..Len(files) : u[i] = files[i]
        /\ u[Len(files) + 1] = M!File(M!MetadataFile, <<M!ManifestOf(o), o.commit>>)
        /\ u[Len(files) + 2] = M!File(M!MarkerFile, <<M!ManifestOf(o)>>)
    BY <1>1, UploadsAre
  <2> HIDE DEF u
  <2>3. QED
    BY <2>1, <2>2
<1>3. \A i \in 1..Len(files) : files[i].path # M!MarkerFile
  BY <1>1, FilesOfOutcome
<1>4. M!MetadataFile # M!MarkerFile
  BY DEF M!MetadataFile, M!MarkerFile
<1> HIDE DEF u
<1>5. ASSUME NEW i \in 1..LastItem(o)
      PROVE  u[i].path = M!MarkerFile <=> i = LastItem(o)
  BY <1>2, <1>3, <1>4
<1>6. QED
  BY <1>2, <1>5 DEF u

\* The objects of an outcome with one path are the same.
LEMMA OneUploadPerPath ==
  ASSUME NEW o \in Outcomes, NEW i \in 1..LastItem(o), NEW j \in 1..LastItem(o),
         M!PublishedUploads(o)[i].path = M!PublishedUploads(o)[j].path
  PROVE  M!PublishedUploads(o)[i] = M!PublishedUploads(o)[j]
<1> DEFINE u == M!PublishedUploads(o)
<1>1. PICK files : files = M!FilesOf(o)
  OBVIOUS
<1>2. \A path, text : M!File(path, text).path = path
  BY DEF M!File
<1>3. /\ Len(files) \in Nat /\ LastItem(o) = Len(files) + 2
      /\ \A k \in 1..Len(files) : u[k] = files[k]
      /\ u[Len(files) + 1].path = M!MetadataFile
      /\ u[Len(files) + 2].path = M!MarkerFile
  <2>1. /\ Len(files) \in Nat /\ LastItem(o) = Len(files) + 2
        /\ \A k \in 1..Len(files) : u[k] = files[k]
        /\ u[Len(files) + 1] = M!File(M!MetadataFile, <<M!ManifestOf(o), o.commit>>)
        /\ u[Len(files) + 2] = M!File(M!MarkerFile, <<M!ManifestOf(o)>>)
    BY <1>1, UploadsAre
  <2> HIDE DEF u
  <2>2. QED
    BY <1>2, <2>1
<1>4. /\ \A k \in 1..Len(files) : files[k].path \notin {M!MetadataFile, M!MarkerFile}
      /\ \A k, l \in 1..Len(files) : files[k].path = files[l].path => files[k] = files[l]
  BY <1>1, FilesOfOutcome
<1>5. M!MetadataFile # M!MarkerFile
  BY DEF M!MetadataFile, M!MarkerFile
<1>6. u[i].path = u[j].path
  OBVIOUS
<1> DEFINE n == Len(files)
<1>7. n \in Nat /\ i \in 1..(n + 2) /\ j \in 1..(n + 2)
  BY <1>3
<1> HIDE DEF u, n
<1>8. ASSUME NEW k \in 1..(n + 2)
      PROVE  /\ k = n + 1 <=> u[k].path = M!MetadataFile
             /\ k = n + 2 <=> u[k].path = M!MarkerFile
             /\ k \notin {n + 1, n + 2} => k \in 1..n /\ u[k] = files[k]
  BY <1>3, <1>4, <1>5, <1>7 DEF n
<1>9. CASE i \in {n + 1, n + 2}
  <2>1. i = j
    BY <1>6, <1>7, <1>8, <1>9
  <2>2. QED
    BY <2>1
<1>10. CASE i \notin {n + 1, n + 2}
  <2>1. j \notin {n + 1, n + 2}
    BY <1>6, <1>7, <1>8, <1>10
  <2>2. i \in 1..n /\ j \in 1..n /\ u[i] = files[i] /\ u[j] = files[j]
    BY <1>7, <1>8, <1>10, <2>1
  <2>3. u[i] = u[j]
    BY <1>4, <1>6, <2>2 DEF n
  <2>4. QED
    BY <2>3 DEF u
<1>11. QED
  BY <1>9, <1>10

\* The same of the objects as the bucket keeps them.
LEMMA ObjectsOfOutcome ==
  ASSUME NEW o \in Outcomes
  PROVE  /\ LastItem(o) \in Nat \ {0}
         /\ Store!Items(o) = 1..LastItem(o)
         /\ \A p : \A i \in Store!Items(o) :
              /\ Store!Object(p, o, i).prefix = p
              /\ Store!Object(p, o, i).path = M!MarkerFile <=> i = LastItem(o)
<1>1. Uploads[o] = M!PublishedUploads(o)
  BY DEF Uploads
<1>2. Store!Items(o) = 1..LastItem(o)
  BY <1>1 DEF Store!Items, LastItem
<1>3. \A p, i : /\ Store!Object(p, o, i).prefix = p
                /\ Store!Object(p, o, i).path = M!PublishedUploads(o)[i].path
  BY <1>1 DEF Store!Object
<1>4. QED
  BY <1>2, <1>3, MarkerIsLast

-----------------------------------------------------------------------------
(***************************************************************************)
(* The files of a version, as its metadata lists them, given the bucket B. *)
(***************************************************************************)
FilesIn(p, B) ==
  {f \in (CHOOSE s \in B : s.prefix = p /\ s.path = M!MetadataFile).bytes[2] :
     [prefix |-> p, path |-> f.path, bytes |-> f.bytes] \in B}

\* The bytes of a file are its path and what decides its text.
LEMMA SecondOfFile ==
  ASSUME NEW path, NEW x, NEW y, NEW f, f = M!File(path, <<x, y>>)
  PROVE  f.bytes[2] = x
<1>1. f.bytes = <<path>> \o <<x, y>>
  BY DEF M!File
<1>2. <<path>> \in Seq({path, x, y}) /\ <<x, y>> \in Seq({path, x, y})
  OBVIOUS
<1>3. (<<path>> \o <<x, y>>)[2] = x
  BY <1>2
<1>4. QED
  BY <1>1, <1>3

LEMMA SecondOfText ==
  ASSUME NEW path, NEW x, NEW y, NEW z, NEW f, f = M!File(path, <<x, y, z>>)
  PROVE  f.bytes[2] = x
<1>1. f.bytes = <<path>> \o <<x, y, z>>
  BY DEF M!File
<1>2. <<path>> \in Seq({path, x, y, z}) /\ <<x, y, z>> \in Seq({path, x, y, z})
  OBVIOUS
<1>3. (<<path>> \o <<x, y, z>>)[2] = x
  BY <1>2
<1>4. QED
  BY <1>1, <1>3

\* Where an outcome is stored whole, its files are the ones listed and stored.
LEMMA FilesOfWhole ==
  ASSUME NEW o \in Outcomes, NEW p, NEW B, Whole(p, o, B), OneObjectPerKey(B)
  PROVE  FilesIn(p, B) = M!ManifestOf(o)
<1>1. PICK files : files = M!FilesOf(o)
  OBVIOUS
<1> DEFINE u == M!PublishedUploads(o)
           n == Len(files)
           m == Store!Object(p, o, n + 1)
<1>2. /\ n \in Nat /\ DOMAIN files = 1..n /\ LastItem(o) = n + 2
      /\ \A i \in 1..n : u[i] = files[i]
      /\ u[n + 1] = M!File(M!MetadataFile, <<M!ManifestOf(o), o.commit>>)
  BY <1>1, UploadsAre
<1>3. Store!Items(o) = 1..(n + 2)
  BY <1>2, ObjectsOfOutcome
<1>4. \A i : Store!Object(p, o, i) = [prefix |-> p, path |-> u[i].path, bytes |-> u[i].bytes]
  BY DEF Store!Object, Uploads
<1>5. m \in B
  BY <1>2, <1>3 DEF Whole
<1>6. m.prefix = p /\ m.path = M!MetadataFile /\ m.bytes[2] = M!ManifestOf(o)
  <2>1. u[n + 1].bytes[2] = M!ManifestOf(o)
    BY <1>2, SecondOfFile
  <2>2. u[n + 1].path = M!MetadataFile
    BY <1>2 DEF M!File
  <2>3. QED
    BY <1>4, <2>1, <2>2
<1>7. (CHOOSE s \in B : s.prefix = p /\ s.path = M!MetadataFile) = m
  BY <1>5, <1>6 DEF OneObjectPerKey
<1>8. ASSUME NEW f \in M!ManifestOf(o)
      PROVE  [prefix |-> p, path |-> f.path, bytes |-> f.bytes] \in B
  <2>1. PICK i \in 1..n : f = files[i]
    BY <1>1, <1>2 DEF M!ManifestOf
  <2>2. Store!Object(p, o, i) \in B
    BY <1>2, <1>3 DEF Whole
  <2>3. QED
    BY <1>2, <1>4, <2>1, <2>2
<1>9. QED
  BY <1>6, <1>7, <1>8 DEF FilesIn

\* A manifest tells a package from a tombstone: only the latter lists a deno.json
\* that the materializer made up.
LEMMA TombstonesDiffer ==
  ASSUME NEW o \in Outcomes, NEW e \in Outcomes, o.state = "ready", e.state # "ready"
  PROVE  M!ManifestOf(o) # M!ManifestOf(e)
<1> DEFINE t == M!File("deno.json", <<"tombstone", e.commit, e.build>>)
<1>1. t.bytes[2] = "tombstone"
  BY SecondOfText
<1>2. t \in M!ManifestOf(e)
  <2>1. PICK y : M!FilesOf(e) = <<t, y>>
    BY DEF M!FilesOf, M!TombstoneFiles
  <2> HIDE DEF t
  <2>2. 1 \in DOMAIN <<t, y>> /\ <<t, y>>[1] = t
    OBVIOUS
  <2>3. QED
    BY <2>1, <2>2 DEF M!ManifestOf
<1>3. ASSUME NEW f \in M!ManifestOf(o)
      PROVE  f.bytes[2] = "source"
  <2>1. PICK path : f = M!File(path, <<"source", o.commit, o.build>>)
    BY DEF M!ManifestOf, M!FilesOf, M!SourceFiles
  <2>2. QED
    BY <2>1, SecondOfText
<1>4. QED
  BY <1>1, <1>2, <1>3

LEMMA ManifestTellsState ==
  ASSUME NEW o \in Outcomes, NEW e \in Outcomes, M!ManifestOf(o) = M!ManifestOf(e)
  PROVE  o.state = e.state
<1>1. o.state \in {"ready", "yanked"} /\ e.state \in {"ready", "yanked"}
  BY DEF Outcomes, M!MaterializationOutcomes
<1>2. QED
  BY <1>1, TombstonesDiffer

\* The properties, in the terms of these proofs.
LEMMA Promises ==
  /\ AdvertisedIsStored <=> Advertised(versions, bucket)
  /\ MarkedAgreesWithRegistry <=> Marked(versions, bucket)
BY DEF AdvertisedIsStored, MarkedAgreesWithRegistry, Advertised, Marked, Whole, Store!Complete

-----------------------------------------------------------------------------
(***************************************************************************)
(* The registry under the object: it only takes transitions of its own.    *)
(***************************************************************************)
LEMMA RegistryContinues ==
  ASSUME RInv, RegistryNext \/ UNCHANGED registryVars
  PROVE  RInv' /\ Continues(versions, versions')
<1>1. CASE UNCHANGED registryVars
  BY <1>1, RegistryStutter DEF registryVars, Continues
<1>2. CASE RegistryNext
  <2>1. RInv' /\ PublishedKept /\ assignments \subseteq assignments'
    BY <1>2, RegistryStep DEF Kept, Ledger!Issue
  <2>2. ASSUME NEW v \in DOMAIN versions
        PROVE  versions'[v].assignment = versions[v].assignment
    <3>1. v \in DOMAIN versions'
      BY <2>1 DEF PublishedKept
    <3>2. /\ versions[v].assignment \in assignments
          /\ VersionOf(versions[v].assignment) = v
      BY DEF RInv, JobsMatchRows
    <3>3. JobsMatchRows'
      BY <2>1 DEF RInv
    <3>4. /\ versions'[v].assignment \in assignments'
          /\ VersionOf(versions'[v].assignment) = v
      BY <3>1, <3>3 DEF JobsMatchRows
    <3>5. OneRowPerVersion'
      BY <2>1 DEF RInv
    <3>6. \A r, q \in assignments' : VersionOf(r) = VersionOf(q) => r = q
      BY <3>5 DEF OneRowPerVersion, VersionOf
    <3>7. QED
      BY <2>1, <3>2, <3>4, <3>6
  <2>3. QED
    BY <2>1, <2>2 DEF PublishedKept, Continues
<1>3. QED
  BY <1>1, <1>2

\* Jobs that stay as they are.
LEMMA ContinuesRefl == Continues(versions, versions) /\ PublishesNothing(versions, versions)
BY DEF Continues, PublishesNothing

\* The promises survive a growing bucket and jobs that publish nothing.
LEMMA PromisesKept ==
  ASSUME NEW V, NEW W, NEW B, NEW C, Continues(V, W), PublishesNothing(V, W), B \subseteq C
  PROVE  /\ Advertised(V, B) => Advertised(W, C)
         /\ Marked(V, B) => Marked(W, B)
<1>1. ASSUME NEW p, NEW o, Whole(p, o, B) PROVE Whole(p, o, C)
  BY <1>1 DEF Whole
<1>2. Advertised(V, B) => Advertised(W, C)
  BY <1>1 DEF Advertised, Continues, PublishesNothing
<1>3. Marked(V, B) => Marked(W, B)
  BY DEF Marked, Continues, PublishesNothing
<1>4. QED
  BY <1>2, <1>3

\* What is known of a handler survives the steps of others.
LEMMA HandlerGrows ==
  ASSUME NEW t, NEW b, NEW V, NEW W, NEW B, NEW C,
         HandlerOK(t, b, V, B), Continues(V, W), B \subseteq C
  PROVE  HandlerOK(t, b, W, C)
<1>1. BatchOK(b, V, B) => BatchOK(b, W, C)
  BY DEF BatchOK, Continues
<1>2. QED
  BY <1>1 DEF HandlerOK, Continues

\* A step of one handler, and what the others keep meanwhile.
LEMMA OneHandler ==
  ASSUME HandlersOK, NEW a \in Attempts, NEW t, NEW b,
         attempts' = [attempts EXCEPT ![a] = t],
         batches' = [batches EXCEPT ![a] = b],
         Continues(versions, versions'), bucket \subseteq bucket',
         HandlerOK(t, b, versions', bucket')
  PROVE  HandlersOK'
<1>1. /\ attempts' = [c \in Attempts |-> IF c = a THEN t ELSE attempts[c]]
      /\ batches' = [c \in Attempts |-> IF c = a THEN b ELSE batches[c]]
  BY DEF HandlersOK
<1>2. ASSUME NEW c \in Attempts
      PROVE  HandlerOK(attempts'[c], batches'[c], versions', bucket')
  <2>1. CASE c = a
    BY <1>1, <2>1
  <2>2. CASE c # a
    <3>1. HandlerOK(attempts[c], batches[c], versions, bucket)
      BY DEF HandlersOK
    <3>2. HandlerOK(attempts[c], batches[c], versions', bucket')
      BY <3>1, HandlerGrows
    <3>3. QED
      BY <1>1, <2>2, <3>2
  <2>3. QED
    BY <2>1, <2>2
<1>3. QED
  BY <1>1, <1>2 DEF HandlersOK

\* A step of none of them.
LEMMA SameHandlers ==
  ASSUME HandlersOK, UNCHANGED <<attempts, batches>>,
         Continues(versions, versions'), bucket \subseteq bucket'
  PROVE  HandlersOK'
<1>1. ASSUME NEW c \in Attempts
      PROVE  HandlerOK(attempts'[c], batches'[c], versions', bucket')
  <2>1. HandlerOK(attempts[c], batches[c], versions, bucket)
    BY DEF HandlersOK
  <2>2. QED
    BY <2>1, HandlerGrows
<1>2. QED
  BY <1>1 DEF HandlersOK

-----------------------------------------------------------------------------
(***************************************************************************)
(* The batches: how one advances, and what a put does to the promises.     *)
(***************************************************************************)
LEMMA BatchFacts ==
  ASSUME NEW b, NEW V, NEW B, BatchOK(b, V, B)
  PROVE  /\ b.stage \in {"put", "head", "published", "conflict", "orphan"}
         /\ b.prefix \in Versions /\ b.outcome \in Outcomes
         /\ b.next \in Nat \ {0} /\ b.next \in 1..LastItem(b.outcome)
         /\ Store!Items(b.outcome) = 1..LastItem(b.outcome)
         /\ LastItem(b.outcome) \in Nat \ {0}
<1>1. b \in Store!BatchType
  BY DEF BatchOK
<1>2. b.outcome \in Outcomes
  BY <1>1 DEF Store!BatchType
<1>3. b.next \in Store!Items(b.outcome)
  BY DEF BatchOK
<1>4. QED
  BY <1>1, <1>2, <1>3, ObjectsOfOutcome DEF Store!BatchType

\* An open batch that stops advancing.
LEMMA StagedBatch ==
  ASSUME NEW b, NEW V, NEW B, BatchOK(b, V, B),
         NEW s, s = "conflict" \/ (s \in {"head", "orphan"} /\ b.stage \in {"put", "orphan"}),
         NEW c, c = [b EXCEPT !.stage = s]
  PROVE  BatchOK(c, V, B) /\ c.stage = s /\ c.prefix = b.prefix
<1>1. b \in Store!BatchType
  BY DEF BatchOK
<1>2. /\ c \in Store!BatchType /\ c.stage = s
      /\ c.prefix = b.prefix /\ c.outcome = b.outcome /\ c.next = b.next
  BY <1>1 DEF Store!BatchType
<1>3. QED
  BY <1>2 DEF BatchOK

\* An open batch that advances past an object in place.
LEMMA AdvancedBatch ==
  ASSUME NEW b, NEW V, NEW B, BatchOK(b, V, B), b.stage \in {"put", "head"},
         Store!Object(b.prefix, b.outcome, b.next) \in B,
         NEW c, c = IF b.next = LastItem(b.outcome)
                    THEN [b EXCEPT !.stage = "published"]
                    ELSE [b EXCEPT !.stage = "put", !.next = @ + 1]
  PROVE  BatchOK(c, V, B) /\ c.stage \in {"put", "published"} /\ c.prefix = b.prefix
<1>1. b \in Store!BatchType
  BY DEF BatchOK
<1>2. /\ b.next \in 1..LastItem(b.outcome) /\ LastItem(b.outcome) \in Nat \ {0}
      /\ Store!Items(b.outcome) = 1..LastItem(b.outcome)
  BY BatchFacts
<1>3. \A i \in Store!Items(b.outcome) :
        i <= b.next => Store!Object(b.prefix, b.outcome, i) \in B
  BY <1>2 DEF BatchOK
<1>4. CASE b.next = LastItem(b.outcome)
  <2>1. /\ c \in Store!BatchType /\ c.stage = "published"
        /\ c.prefix = b.prefix /\ c.outcome = b.outcome /\ c.next = b.next
    BY <1>1, <1>4 DEF Store!BatchType
  <2>2. QED
    BY <1>2, <1>3, <1>4, <2>1 DEF BatchOK
<1>5. CASE b.next # LastItem(b.outcome)
  <2>1. b.next + 1 \in Nat \ {0} /\ b.next + 1 \in Store!Items(b.outcome)
    BY <1>2, <1>5
  <2>2. /\ c \in Store!BatchType /\ c.stage = "put"
        /\ c.prefix = b.prefix /\ c.outcome = b.outcome /\ c.next = b.next + 1
    BY <1>1, <1>5, <2>1 DEF Store!BatchType
  <2>3. \A i \in Store!Items(b.outcome) :
          i < b.next + 1 => Store!Object(b.prefix, b.outcome, i) \in B
    BY <1>2, <1>3
  <2>4. QED
    BY <2>1, <2>2, <2>3 DEF BatchOK
<1>6. QED
  BY <1>4, <1>5

\* The marker a put adds completes its outcome; and the version is not published
\* yet, for then its key would be taken.
LEMMA PutKeepsMarked ==
  ASSUME NEW b, NEW V, NEW B, NEW C, BatchOK(b, V, B), b.stage \in {"put", "orphan"},
         Advertised(V, B), Marked(V, B),
         NEW object, object = Store!Object(b.prefix, b.outcome, b.next),
         {s \in B : s.prefix = object.prefix /\ s.path = object.path} = {},
         C = B \cup {object}
  PROVE  Marked(V, C)
<1> DEFINE p == b.prefix
           o == b.outcome
<1>1. /\ o \in Outcomes /\ b.next \in 1..LastItem(o)
      /\ Store!Items(o) = 1..LastItem(o) /\ LastItem(o) \in Nat \ {0}
  BY BatchFacts
<1>2. p \in DOMAIN V /\ o.commit = V[p].assignment.commit
  BY DEF BatchOK
<1>3. ASSUME NEW s \in C, s.path = M!MarkerFile
      PROVE  \E e \in Outcomes : /\ Whole(s.prefix, e, C)
                                 /\ s.prefix \in DOMAIN V
                                 /\ e.commit = V[s.prefix].assignment.commit
                                 /\ V[s.prefix].state \in Published =>
                                      V[s.prefix].state = e.state
  <2>1. CASE s \in B
    BY <1>3, <2>1 DEF Marked, Whole
  <2>2. CASE s = object
    <3>1. s.prefix = p /\ b.next = LastItem(o)
      BY <1>1, <1>3, <2>2, ObjectsOfOutcome
    <3>2. Whole(p, o, C)
      BY <1>1, <3>1 DEF BatchOK, Whole
    <3>3. V[p].state \notin Published
      <4>1. SUFFICES ASSUME V[p].state \in Published PROVE FALSE
        OBVIOUS
      <4>2. PICK e \in Outcomes : Whole(p, e, B)
        BY <1>2, <4>1 DEF Advertised
      <4> DEFINE m == Store!Object(p, e, LastItem(e))
      <4>3. LastItem(e) \in Store!Items(e) /\ m.prefix = p /\ m.path = M!MarkerFile
        BY ObjectsOfOutcome
      <4>4. m \in B
        BY <4>2, <4>3 DEF Whole
      <4>5. QED
        BY <1>3, <2>2, <3>1, <4>3, <4>4
    <3>4. QED
      BY <1>1, <1>2, <3>1, <3>2, <3>3
  <2>3. QED
    BY <2>1, <2>2
<1>4. QED
  BY <1>3 DEF Marked

-----------------------------------------------------------------------------
(***************************************************************************)
(* Steps that leave the bucket alone and publish nothing.                  *)
(***************************************************************************)
LEMMA QuietStep ==
  ASSUME OInv, RegistryNext \/ UNCHANGED registryVars,
         PublishesNothing(versions, versions'), UNCHANGED bucket, HandlersOK', CountersOK'
  PROVE  OInv'
<1>1. RInv' /\ Continues(versions, versions')
  BY RegistryContinues DEF OInv
<1>2. Advertised(versions', bucket') /\ Marked(versions', bucket')
  <2>1. Advertised(versions, bucket) /\ Marked(versions, bucket)
    BY DEF OInv
  <2>2. bucket \subseteq bucket' /\ bucket' = bucket
    OBVIOUS
  <2>3. QED
    BY <1>1, <2>1, <2>2, PromisesKept
<1>3. OneObjectPerKey(bucket')
  BY DEF OInv
<1>4. QED
  BY <1>1, <1>2, <1>3 DEF OInv

\* A lease or a release publishes nothing.
LEMMA SetJobPublishesNothing ==
  ASSUME RInv, NEW v \in DOMAIN versions, NEW s, s \notin Published, SetJob(v, s)
  PROVE  PublishesNothing(versions, versions')
<1>1. versions[v] \in Jobs
  BY DEF RInv, RegistryTypeOK
<1>2. /\ DOMAIN versions' = DOMAIN versions
      /\ versions'[v] = [[versions[v] EXCEPT !.state = s] EXCEPT !.age = 0]
      /\ \A w \in DOMAIN versions : w # v => versions'[w] = versions[w]
  BY DEF SetJob
<1>3. versions'[v].state = s
  BY <1>1, <1>2 DEF Jobs
<1>4. QED
  BY <1>2, <1>3 DEF PublishesNothing

\* A refresh adds nothing but pending jobs.
LEMMA RefreshOnlyAdds ==
  ASSUME NEW d \in Discoveries, Refresh(d)
  PROVE  OnlyAdds(versions, versions')
<1> DEFINE selected == SelectedBranches(d, observed)
           jobs == {NewJob(AllocatedRow(b), b.branch) : b \in selected}
           created == {j \in jobs : VersionOf(j.assignment) \notin DOMAIN versions}
<1>1. versions' =
        [v \in DOMAIN versions \cup {VersionOf(j.assignment) : j \in created} |->
           IF v \in DOMAIN versions THEN versions[v]
           ELSE CHOOSE j \in created : VersionOf(j.assignment) = v]
  BY DEF Refresh
<1>2. \A j \in created : j.state = "pending"
  BY DEF NewJob
<1> HIDE DEF created
<1>3. ASSUME NEW v \in DOMAIN versions', v \notin DOMAIN versions
      PROVE  versions'[v].state = "pending"
  <2>1. \E j \in created : VersionOf(j.assignment) = v
    BY <1>1, <1>3
  <2>2. versions'[v] = CHOOSE j \in created : VersionOf(j.assignment) = v
    BY <1>1, <1>3
  <2>3. versions'[v] \in created
    BY <2>1, <2>2
  <2>4. QED
    BY <1>2, <2>3
<1>4. QED
  BY <1>1, <1>3 DEF OnlyAdds

\* A repair adds one pending job.
LEMMA RecoverOnlyAdds ==
  ASSUME RInv, NEW v \in DOMAIN versions, RecoverVersion(v)
  PROVE  OnlyAdds(versions, versions')
<1> DEFINE record == versions[v].assignment
           row == NextRow(record.major, record.commit, record.sequence)
           job == NewJob(row, versions[v].branch)
<1>1. versions' = [w \in DOMAIN versions \cup {VersionOf(row)} |->
                     IF w = VersionOf(row) THEN job ELSE versions[w]]
  BY DEF RecoverVersion
<1>2. job.state = "pending"
  BY DEF NewJob
<1>3. VersionOf(row) \notin DOMAIN versions
  <2> HIDE DEF record
  <2>1. record = versions[v].assignment
    BY DEF record
  <2>2. QED
    BY <2>1, ReplacementIsNew
<1> HIDE DEF row, job
<1>4. QED
  BY <1>1, <1>2, <1>3 DEF OnlyAdds

\* So neither publishes anything.
LEMMA AddsPublishNothing ==
  ASSUME NEW V, NEW W, OnlyAdds(V, W)
  PROVE  PublishesNothing(V, W)
BY DEF OnlyAdds, PublishesNothing, Published

\* Time publishes nothing.
LEMMA AgePublishesNothing ==
  ASSUME RInv, AgeLeases
  PROVE  PublishesNothing(versions, versions')
<1>1. ASSUME NEW v \in DOMAIN versions
      PROVE  versions'[v].state = versions[v].state
  <2>1. versions[v] \in Jobs
    BY DEF RInv, RegistryTypeOK
  <2>2. [versions[v] EXCEPT !.age = Older(@)].state = versions[v].state
    BY <2>1 DEF Jobs
  <2>3. QED
    BY <2>2 DEF AgeLeases
<1>2. DOMAIN versions' = DOMAIN versions
  BY DEF AgeLeases
<1>3. QED
  BY <1>1, <1>2 DEF PublishesNothing

\* The handler of an attempt at work.
LEMMA AtWork ==
  ASSUME OInv, NEW a \in Attempts
  PROVE  /\ HandlerOK(attempts[a], batches[a], versions, bucket)
         /\ attempts = [attempts EXCEPT ![a] = attempts[a]]
         /\ batches = [batches EXCEPT ![a] = batches[a]]
         /\ attempts[a].stage # "none" =>
              /\ attempts[a] \in AttemptType
              /\ attempts[a].version \in DOMAIN versions
              /\ attempts[a].version \in Versions
         /\ batches[a].stage # "none" => BatchOK(batches[a], versions, bucket)
<1>1. /\ HandlerOK(attempts[a], batches[a], versions, bucket)
      /\ attempts = [c \in Attempts |-> attempts[c]]
      /\ batches = [c \in Attempts |-> batches[c]]
  BY DEF OInv, HandlersOK
<1>2. Resting.stage = "none" /\ Store!NoBatch.stage = "none"
  BY DEF Resting, Store!NoBatch
<1>3. DOMAIN versions \subseteq Versions
  BY DEF OInv, RInv, RegistryTypeOK
<1>4. attempts[a].stage # "none" =>
        attempts[a] \in AttemptType /\ attempts[a].version \in DOMAIN versions
  BY <1>1, <1>2 DEF HandlerOK
<1>5. batches[a].stage # "none" => BatchOK(batches[a], versions, bucket)
  BY <1>1, <1>2 DEF HandlerOK
<1>6. QED
  BY <1>1, <1>3, <1>4, <1>5

\* A handler at rest without a batch.
LEMMA RestingOK ==
  ASSUME NEW V, NEW B, NEW b, b = Store!NoBatch \/ (BatchOK(b, V, B) /\ b.stage = "orphan")
  PROVE  HandlerOK(Resting, b, V, B)
BY DEF HandlerOK, Resting, Publishing, Store!NoBatch

\* A step of one handler that leaves the bucket alone and publishes nothing.
LEMMA QuietHandler ==
  ASSUME OInv, RegistryNext \/ UNCHANGED registryVars,
         PublishesNothing(versions, versions'), UNCHANGED bucket, CountersOK',
         NEW a \in Attempts, NEW t, NEW b,
         attempts' = [attempts EXCEPT ![a] = t],
         batches' = [batches EXCEPT ![a] = b],
         HandlerOK(t, b, versions, bucket)
  PROVE  OInv'
<1>1. RInv' /\ Continues(versions, versions')
  BY RegistryContinues DEF OInv
<1>2. bucket' = bucket
  OBVIOUS
<1>3. HandlerOK(t, b, versions', bucket')
  BY <1>1, <1>2, HandlerGrows
<1>4. HandlersOK'
  BY <1>1, <1>2, <1>3, OneHandler DEF OInv
<1>5. QED
  BY <1>4, QuietStep

\* A step that leaves the registry alone.
LEMMA Unchanged ==
  ASSUME UNCHANGED registryVars
  PROVE  PublishesNothing(versions, versions') /\ Continues(versions, versions')
BY ContinuesRefl DEF registryVars

\* A release is a transition of the registry, or none.
LEMMA ReleaseJobStep ==
  ASSUME OInv, NEW a \in Attempts, attempts[a].version \in DOMAIN versions, ReleaseJob(a)
  PROVE  /\ RegistryNext \/ UNCHANGED registryVars
         /\ PublishesNothing(versions, versions')
<1> DEFINE v == attempts[a].version
<1>1. CASE versions[v].state = "leased"
  <2>1. ReleaseLease(v)
    BY <1>1 DEF ReleaseJob
  <2>2. SetJob(v, "pending") /\ "pending" \notin Published
    BY <2>1 DEF ReleaseLease, Published
  <2>3. PublishesNothing(versions, versions')
    BY <2>2, SetJobPublishesNothing DEF OInv
  <2>4. QED
    BY <2>1, <2>3 DEF RegistryNext
<1>2. CASE versions[v].state # "leased"
  BY <1>2, Unchanged DEF ReleaseJob
<1>3. QED
  BY <1>1, <1>2

\* The failures stay within their bounds.
LEMMA CountersStep ==
  ASSUME CountersOK, Fault \/ Abandon \/ UNCHANGED Faults
  PROVE  CountersOK'
BY BoundsAssumption DEF CountersOK, Fault, Abandon, Faults

\* A handler that answers after its job was released.
LEMMA HandlerReturns ==
  ASSUME OInv, NEW a \in Attempts, attempts[a].stage # "none",
         Fault \/ Abandon \/ UNCHANGED Faults, UNCHANGED bucket,
         ReleaseJob(a) \/ UNCHANGED registryVars, Return(a),
         NEW b, batches' = [batches EXCEPT ![a] = b],
         b = Store!NoBatch \/ (BatchOK(b, versions, bucket) /\ b.stage = "orphan")
  PROVE  OInv'
<1>1. CountersOK'
  BY CountersStep DEF OInv
<1>2. /\ RegistryNext \/ UNCHANGED registryVars
      /\ PublishesNothing(versions, versions')
  BY AtWork, ReleaseJobStep, Unchanged
<1>3. attempts' = [attempts EXCEPT ![a] = Resting]
  BY DEF Return
<1>4. HandlerOK(Resting, b, versions, bucket)
  BY RestingOK
<1>5. QED
  BY <1>1, <1>2, <1>3, <1>4, QuietHandler

\* A handler that has not begun to publish has no batch, or one left behind.
LEMMA BeforePublishing ==
  ASSUME OInv, NEW a \in Attempts, attempts[a].stage # "publishing"
  PROVE  \/ batches[a] = Store!NoBatch
         \/ BatchOK(batches[a], versions, bucket) /\ batches[a].stage = "orphan"
<1>1. HandlerOK(attempts[a], batches[a], versions, bucket)
  BY AtWork
<1>2. CASE BatchOK(batches[a], versions, bucket)
  <2>1. batches[a].stage \notin Publishing
    BY <1>1 DEF HandlerOK
  <2>2. QED
    BY <1>2, <2>1, BatchFacts DEF Publishing
<1>3. QED
  BY <1>1, <1>2 DEF HandlerOK

-----------------------------------------------------------------------------
(***************************************************************************)
(* The actions.                                                            *)
(***************************************************************************)
LEMMA MaterializeStep ==
  ASSUME OInv, NEW a \in Attempts, NEW origin \in Origins, Materialize(a, origin)
  PROVE  OInv'
<1>1. PICK v \in Leasable :
        /\ LeaseNext(v)
        /\ attempts' = [attempts EXCEPT ![a] =
             [stage |-> "archive", version |-> v, origin |-> origin, age |-> 0]]
  BY DEF Materialize
<1> DEFINE t == [stage |-> "archive", version |-> v, origin |-> origin, age |-> 0]
<1>2. v \in DOMAIN versions /\ v \in Versions
  BY DEF Leasable, OInv, RInv, RegistryTypeOK
<1>3. RegistryNext /\ PublishesNothing(versions, versions')
  <2>1. SetJob(v, "leased") /\ "leased" \notin Published
    BY <1>1 DEF LeaseNext, Published
  <2>2. QED
    BY <1>1, <1>2, <2>1, SetJobPublishesNothing DEF OInv, RegistryNext
<1>4. HandlerOK(t, Store!NoBatch, versions, bucket)
  <2>1. t \in AttemptType
    BY <1>2, LeaseTimeoutAssumption DEF AttemptType
  <2>2. QED
    BY <1>2, <2>1 DEF HandlerOK, Store!NoBatch, Publishing
<1>5. batches' = [batches EXCEPT ![a] = Store!NoBatch]
  BY AtWork DEF Materialize
<1>6. CountersOK'
  BY CountersStep DEF Materialize, OInv
<1>7. UNCHANGED bucket
  BY DEF Materialize
<1>8. attempts' = [attempts EXCEPT ![a] = t]
  BY <1>1
<1> HIDE DEF t
<1>9. QED
  BY <1>3, <1>4, <1>5, <1>6, <1>7, <1>8, QuietHandler

\* A handler that enters its next stage.
LEMMA Entered ==
  ASSUME OInv, NEW a \in Attempts, attempts[a].stage # "none",
         NEW stage \in {"archive", "container", "publishing"}, Enter(a, stage)
  PROVE  \E t : /\ attempts' = [attempts EXCEPT ![a] = t]
               /\ t \in AttemptType
               /\ t.stage = stage
               /\ t.version = attempts[a].version
               /\ t.age = attempts[a].age
<1>1. attempts[a] \in AttemptType
  BY AtWork
<1> DEFINE t == [attempts[a] EXCEPT !.stage = stage]
<1>2. /\ t \in AttemptType /\ t.stage = stage
      /\ t.version = attempts[a].version /\ t.age = attempts[a].age
  BY <1>1 DEF AttemptType
<1>3. attempts' = [attempts EXCEPT ![a] = t]
  BY DEF Enter
<1>4. QED
  BY <1>2, <1>3

\* The archive arrives.
LEMMA ArchiveArrivesStep ==
  ASSUME OInv, NEW a \in Attempts, ArchiveArrives(a)
  PROVE  OInv'
<1>1. attempts[a].stage = "archive" /\ UNCHANGED <<registryVars, bucket, batches, Faults>>
  BY DEF ArchiveArrives, registryVars
<1>2. PICK t : /\ attempts' = [attempts EXCEPT ![a] = t]
               /\ t \in AttemptType
               /\ t.stage = "container"
               /\ t.version = attempts[a].version
  BY <1>1, Entered DEF ArchiveArrives
<1>3. HandlerOK(t, batches[a], versions, bucket)
  BY <1>1, <1>2, AtWork DEF HandlerOK
<1>4. CountersOK'
  BY <1>1, CountersStep DEF OInv
<1>5. batches' = [batches EXCEPT ![a] = batches[a]]
  BY <1>1, AtWork
<1>6. QED
  BY <1>1, <1>2, <1>3, <1>4, <1>5, Unchanged, QuietHandler

\* The container fails, refuses, or breaks off.
LEMMA ContainerEndsStep ==
  ASSUME OInv, NEW a \in Attempts,
         ServiceFails(a) \/ ContainerRefuses(a) \/ ErrorBodyBreaks(a)
  PROVE  OInv'
<1>1. /\ attempts[a].stage \in {"archive", "container"}
      /\ Fault \/ Abandon \/ UNCHANGED Faults
      /\ UNCHANGED <<bucket, batches>>
      /\ ReleaseJob(a) \/ UNCHANGED registryVars
      /\ Return(a)
  BY DEF ServiceFails, ContainerRefuses, ErrorBodyBreaks, registryVars
<1>2. \/ batches[a] = Store!NoBatch
      \/ BatchOK(batches[a], versions, bucket) /\ batches[a].stage = "orphan"
  BY <1>1, BeforePublishing
<1>3. batches' = [batches EXCEPT ![a] = batches[a]]
  BY <1>1, AtWork
<1>4. QED
  BY <1>1, <1>2, <1>3, HandlerReturns

\* The container answers, and a batch is begun for the version that was leased.
LEMMA ContainerAnswersStep ==
  ASSUME OInv, NEW a \in Attempts, ContainerAnswers(a)
  PROVE  OInv'
<1> DEFINE v == attempts[a].version
           c == versions[v].assignment.commit
<1>1. /\ attempts[a].stage = "container"
      /\ UNCHANGED <<registryVars, Faults>>
      /\ Enter(a, "publishing")
  BY DEF ContainerAnswers, registryVars
<1>2. PICK build \in Builds : Store!Begin(a, v, M!OutcomeOf(c, build, attempts[a].origin))
  BY DEF ContainerAnswers, Job
<1> DEFINE o == M!OutcomeOf(c, build, attempts[a].origin)
           b == [stage |-> "put", prefix |-> v, outcome |-> o, next |-> 1]
<1>3. attempts[a] \in AttemptType /\ v \in DOMAIN versions /\ v \in Versions
  BY <1>1, AtWork
<1>4. o \in Outcomes /\ o.commit = c
  <2>1. c \in Commits
    BY <1>3 DEF OInv, RInv, RegistryTypeOK, Jobs, Rows
  <2>2. attempts[a].origin \in Origins
    BY <1>3 DEF AttemptType
  <2>3. QED
    BY <2>1, <2>2 DEF M!OutcomeOf, Outcomes, M!MaterializationOutcomes
<1>5. /\ batches' = [batches EXCEPT ![a] = b]
      /\ UNCHANGED bucket
  BY <1>2 DEF Store!Begin, Store!SetBatch
<1>6. PICK t : /\ attempts' = [attempts EXCEPT ![a] = t]
               /\ t \in AttemptType
               /\ t.stage = "publishing"
               /\ t.version = v
  BY <1>1, Entered
<1>7. BatchOK(b, versions, bucket) /\ b.stage = "put" /\ b.prefix = v
  <2>1. Store!Items(o) = 1..LastItem(o) /\ LastItem(o) \in Nat \ {0}
    BY <1>4, ObjectsOfOutcome
  <2> HIDE DEF o
  <2>2. b \in Store!BatchType
    BY <1>3, <1>4 DEF Store!BatchType
  <2>3. QED
    BY <1>3, <1>4, <2>1, <2>2 DEF BatchOK
<1> HIDE DEF b, o
<1>8. HandlerOK(t, b, versions, bucket)
  BY <1>3, <1>6, <1>7 DEF HandlerOK, Publishing
<1>9. CountersOK'
  BY <1>1, CountersStep DEF OInv
<1>10. QED
  BY <1>1, <1>5, <1>6, <1>8, <1>9, Unchanged, QuietHandler

\* What Advance makes of an open batch.
LEMMA AdvanceIs ==
  ASSUME NEW a \in Attempts, batches[a].outcome \in Outcomes, Store!Advance(a)
  PROVE  \E c : /\ batches' = [batches EXCEPT ![a] = c]
               /\ c = IF batches[a].next = LastItem(batches[a].outcome)
                      THEN [batches[a] EXCEPT !.stage = "published"]
                      ELSE [batches[a] EXCEPT !.stage = "put", !.next = @ + 1]
<1>1. Uploads[batches[a].outcome] = M!PublishedUploads(batches[a].outcome)
  BY DEF Uploads
<1>2. QED
  BY <1>1 DEF Store!Advance, Store!SetBatch, LastItem

\* A step of a handler's batch with its object put, or found, in the bucket.
LEMMA BatchStep ==
  ASSUME OInv, UNCHANGED <<registryVars, attempts>>, CountersOK', NEW a \in Attempts,
         PutOK(versions, bucket, bucket'),
         NEW b, batches' = [batches EXCEPT ![a] = b],
         HandlerOK(attempts[a], b, versions, bucket')
  PROVE  OInv'
<1>1. RInv' /\ Continues(versions, versions') /\ versions' = versions
  BY RegistryContinues, Unchanged DEF OInv, registryVars
<1>2. Advertised(versions, bucket')
  BY ContinuesRefl, PromisesKept DEF OInv, PutOK
<1>3. attempts' = [attempts EXCEPT ![a] = attempts[a]]
  BY AtWork
<1>4. HandlersOK'
  BY <1>1, <1>3, OneHandler DEF OInv, PutOK
<1>5. QED
  BY <1>1, <1>2, <1>4 DEF OInv, PutOK

\* A put of the object a batch is at, late or in time.
LEMMA PutStep ==
  ASSUME OInv, NEW a \in Attempts, batches[a].stage \in {"put", "orphan"},
         Store!PutIfAbsent(Store!Current(a))
  PROVE  /\ PutOK(versions, bucket, bucket')
         /\ Store!Stored(Store!Current(a)) = {} => Store!Current(a) \in bucket'
<1> DEFINE b == batches[a]
           object == Store!Object(b.prefix, b.outcome, b.next)
<1>1. Store!Current(a) = object
  BY DEF Store!Current
<1>2. BatchOK(b, versions, bucket)
  BY AtWork
<1>3. Store!Stored(Store!Current(a)) =
        {s \in bucket : s.prefix = object.prefix /\ s.path = object.path}
  BY <1>1 DEF Store!Stored
<1>4. CASE Store!Stored(Store!Current(a)) # {}
  BY <1>4 DEF Store!PutIfAbsent, OInv, PutOK
<1>5. CASE Store!Stored(Store!Current(a)) = {}
  <2>1. bucket' = bucket \cup {object}
    BY <1>1, <1>5 DEF Store!PutIfAbsent
  <2>2. Marked(versions, bucket')
    <3>1. Advertised(versions, bucket) /\ Marked(versions, bucket)
      BY DEF OInv
    <3>2. {s \in bucket : s.prefix = object.prefix /\ s.path = object.path} = {}
      BY <1>3, <1>5
    <3> HIDE DEF b
    <3>3. b.stage \in {"put", "orphan"}
      BY DEF b
    <3>4. QED
      BY <1>2, <2>1, <3>1, <3>2, <3>3, PutKeepsMarked
  <2>3. OneObjectPerKey(bucket')
    BY <1>3, <1>5, <2>1 DEF OInv, OneObjectPerKey
  <2>4. QED
    BY <1>1, <2>1, <2>2, <2>3 DEF PutOK
<1>6. QED
  BY <1>4, <1>5

\* The batch of a handler that goes on publishing.
LEMMA StillPublishing ==
  ASSUME OInv, NEW a \in Attempts, batches[a].stage \in {"put", "head"},
         NEW C, bucket \subseteq C,
         NEW b, BatchOK(b, versions, C), b.stage \in Publishing, b.prefix = batches[a].prefix
  PROVE  HandlerOK(attempts[a], b, versions, C)
<1>1. HandlerOK(attempts[a], batches[a], versions, bucket)
  BY AtWork
<1>2. QED
  BY <1>1 DEF HandlerOK, Publishing

\* A put or a head of the batch under way.
LEMMA PublishStep ==
  ASSUME OInv, NEW a \in Attempts, Publish(a)
  PROVE  OInv'
<1>1. UNCHANGED <<registryVars, attempts>> /\ CountersOK'
  BY CountersStep DEF Publish, OInv, registryVars
<1>2. batches[a].stage \in {"put", "head"} /\ BatchOK(batches[a], versions, bucket)
  BY AtWork DEF Publish, Store!PutObject, Store!HeadObject
<1>3. batches[a].outcome \in Outcomes
  BY <1>2, BatchFacts
<1>4. Store!Current(a) = Store!Object(batches[a].prefix, batches[a].outcome, batches[a].next)
  BY DEF Store!Current
<1>5. ASSUME PutOK(versions, bucket, bucket'),
             Store!Current(a) \in bucket', Store!Advance(a)
      PROVE  OInv'
  <2>1. PICK c : /\ batches' = [batches EXCEPT ![a] = c]
                 /\ c = IF batches[a].next = LastItem(batches[a].outcome)
                        THEN [batches[a] EXCEPT !.stage = "published"]
                        ELSE [batches[a] EXCEPT !.stage = "put", !.next = @ + 1]
    BY <1>3, <1>5, AdvanceIs
  <2>2. BatchOK(batches[a], versions, bucket')
    BY <1>2, <1>5 DEF BatchOK, PutOK
  <2>3. BatchOK(c, versions, bucket') /\ c.stage \in Publishing /\ c.prefix = batches[a].prefix
    BY <1>2, <1>4, <1>5, <2>1, <2>2, AdvancedBatch DEF Publishing
  <2>4. HandlerOK(attempts[a], c, versions, bucket')
    BY <1>2, <1>5, <2>3, StillPublishing DEF PutOK
  <2>5. QED
    BY <1>1, <1>5, <2>1, <2>4, BatchStep
<1>6. ASSUME PutOK(versions, bucket, bucket'),
             NEW s, s = "conflict" \/ (s = "head" /\ batches[a].stage = "put"),
             Store!SetBatch(a, [batches[a] EXCEPT !.stage = s])
      PROVE  OInv'
  <2>1. PICK c : /\ batches' = [batches EXCEPT ![a] = c]
                 /\ c = [batches[a] EXCEPT !.stage = s]
    BY <1>6 DEF Store!SetBatch
  <2>2. BatchOK(batches[a], versions, bucket')
    BY <1>2, <1>6 DEF BatchOK, PutOK
  <2>3. BatchOK(c, versions, bucket') /\ c.stage \in Publishing /\ c.prefix = batches[a].prefix
    BY <1>6, <2>1, <2>2, StagedBatch DEF Publishing
  <2>4. HandlerOK(attempts[a], c, versions, bucket')
    BY <1>2, <1>6, <2>3, StillPublishing DEF PutOK
  <2>5. QED
    BY <1>1, <1>6, <2>1, <2>4, BatchStep
<1>7. CASE Store!PutObject(a)
  <2>1. /\ PutOK(versions, bucket, bucket')
        /\ Store!Stored(Store!Current(a)) = {} => Store!Current(a) \in bucket'
    BY <1>7, PutStep DEF Store!PutObject
  <2>2. CASE Store!Stored(Store!Current(a)) = {}
    BY <1>5, <1>7, <2>1, <2>2 DEF Store!PutObject
  <2>3. CASE Store!Stored(Store!Current(a)) # {}
    <3>1. /\ batches[a].stage = "put"
          /\ Store!SetBatch(a, [batches[a] EXCEPT !.stage = "head"])
      BY <1>7, <2>3 DEF Store!PutObject
    <3>2. QED
      BY <1>6, <2>1, <3>1
  <2>4. QED
    BY <2>2, <2>3
<1>8. CASE Store!HeadObject(a)
  <2>1. PutOK(versions, bucket, bucket') /\ bucket' = bucket
    BY <1>8 DEF Store!HeadObject, OInv, PutOK
  <2>2. CASE Store!Current(a) \in Store!Stored(Store!Current(a))
    <3>1. Store!Current(a) \in bucket'
      BY <2>1, <2>2 DEF Store!Stored
    <3>2. QED
      BY <1>5, <1>8, <2>1, <2>2, <3>1 DEF Store!HeadObject
  <2>3. CASE Store!Current(a) \notin Store!Stored(Store!Current(a))
    <3>1. Store!SetBatch(a, [batches[a] EXCEPT !.stage = "conflict"])
      BY <1>8, <2>3 DEF Store!HeadObject
    <3>2. QED
      BY <1>6, <2>1, <3>1
  <2>4. QED
    BY <2>2, <2>3
<1>9. QED
  BY <1>7, <1>8 DEF Publish

\* A conflict releases the job.
LEMMA PublicationRefusedStep ==
  ASSUME OInv, NEW a \in Attempts, PublicationRefused(a)
  PROVE  OInv'
<1>1. /\ batches[a].stage = "conflict" /\ UNCHANGED <<bucket, Faults>>
      /\ batches' = [batches EXCEPT ![a] = Store!NoBatch]
      /\ ReleaseJob(a) /\ Return(a)
  BY DEF PublicationRefused, Store!Close, Store!SetBatch
<1>2. attempts[a].stage = "publishing"
  BY <1>1, AtWork DEF HandlerOK, Publishing
<1>3. QED
  BY <1>1, <1>2, HandlerReturns

\* A finished batch completes its version, when that is outstanding still.
LEMMA Completed ==
  ASSUME OInv, NEW a \in Attempts, Finish(a)
  PROVE  \/ UNCHANGED registryVars
         \/ /\ \E v, o : Completes(v, o, versions, versions', bucket)
            /\ RInv' /\ Continues(versions, versions')
<1> DEFINE v == attempts[a].version
           o == batches[a].outcome
<1>1. /\ batches[a].stage = "published"
      /\ \/ Completable(v) /\ o.state = "ready" /\ MarkReady(v)
         \/ Completable(v) /\ o.state = "yanked" /\ MarkYanked(v)
         \/ ~ Completable(v) /\ UNCHANGED registryVars
  BY DEF Finish
<1>2. /\ v \in DOMAIN versions
      /\ BatchOK(batches[a], versions, bucket) /\ batches[a].prefix = v
  BY <1>1, AtWork DEF HandlerOK, Publishing
<1>3. CASE Completable(v) /\ SetJob(v, o.state) /\ HandleComplete(v)
  <2>1. RInv' /\ Continues(versions, versions')
    BY <1>2, <1>3, RegistryContinues DEF OInv, RegistryNext
  <2>2. /\ o \in Outcomes /\ o.commit = versions[v].assignment.commit
        /\ Whole(v, o, bucket)
    BY <1>1, <1>2, BatchFacts DEF BatchOK, Whole
  <2>3. versions[v].state \notin Published
    BY <1>3 DEF Completable, Published
  <2>4. /\ DOMAIN versions' = DOMAIN versions
        /\ versions'[v].state = o.state
        /\ \A w \in DOMAIN versions : w # v => versions'[w] = versions[w]
    <3>1. versions[v] \in Jobs
      BY <1>2 DEF OInv, RInv, RegistryTypeOK
    <3>2. /\ DOMAIN versions' = DOMAIN versions
          /\ versions'[v] = [[versions[v] EXCEPT !.state = o.state] EXCEPT !.age = 0]
          /\ \A w \in DOMAIN versions : w # v => versions'[w] = versions[w]
      BY <1>2, <1>3 DEF SetJob
    <3>3. QED
      BY <3>1, <3>2 DEF Jobs
  <2>5. versions'[v].assignment = versions[v].assignment
    BY <1>2, <2>1 DEF Continues
  <2> HIDE DEF v, o
  <2>6. v \in DOMAIN versions
    BY <1>2 DEF v
  <2>7. Completes(v, o, versions, versions', bucket)
    BY <2>2, <2>3, <2>4, <2>5, <2>6 DEF Completes
  <2>8. QED
    BY <2>1, <2>7
<1>4. QED
  BY <1>1, <1>3 DEF MarkReady, MarkYanked, HandleComplete

(***************************************************************************)
(* Completing the version: the batch has stored its outcome whole, so that *)
(* outcome witnesses both promises for the version that is published now.  *)
(***************************************************************************)
LEMMA FinishStep ==
  ASSUME OInv, NEW a \in Attempts, Finish(a)
  PROVE  OInv'
<1>1. /\ batches[a].stage = "published" /\ UNCHANGED <<bucket, Faults>>
      /\ batches' = [batches EXCEPT ![a] = Store!NoBatch]
      /\ Return(a)
  BY DEF Finish, Store!Close, Store!SetBatch
<1>2. attempts[a].stage = "publishing"
  BY <1>1, AtWork DEF HandlerOK, Publishing
<1>3. CASE UNCHANGED registryVars
  BY <1>1, <1>2, <1>3, HandlerReturns
<1>4. ASSUME NEW v, NEW o, Completes(v, o, versions, versions', bucket),
             RInv', Continues(versions, versions')
      PROVE  OInv'
  <2>1. Advertised(versions', bucket)
    BY <1>4 DEF OInv, Advertised, Completes
  <2>2. Marked(versions', bucket)
    <3>1. Marked(versions, bucket)
      BY DEF OInv
    <3>2. ASSUME NEW s \in bucket, s.path = M!MarkerFile
          PROVE  \E e \in Outcomes : /\ Whole(s.prefix, e, bucket)
                                     /\ s.prefix \in DOMAIN versions'
                                     /\ e.commit = versions'[s.prefix].assignment.commit
                                     /\ versions'[s.prefix].state \in Published =>
                                          versions'[s.prefix].state = e.state
      <4>1. s.prefix \in DOMAIN versions
        BY <3>1, <3>2 DEF Marked
      <4>2. CASE s.prefix = v
        BY <1>4, <4>1, <4>2 DEF Completes
      <4>3. CASE s.prefix # v
        BY <1>4, <3>1, <3>2, <4>1, <4>3 DEF Marked, Completes
      <4>4. QED
        BY <4>2, <4>3
    <3>3. QED
      BY <3>2 DEF Marked
  <2>3. HandlersOK'
    <3>1. HandlerOK(Resting, Store!NoBatch, versions', bucket')
      BY RestingOK
    <3>2. QED
      BY <1>1, <1>4, <3>1, OneHandler DEF Return, OInv
  <2>4. CountersOK'
    BY <1>1, CountersStep DEF OInv
  <2>5. bucket' = bucket
    BY <1>1
  <2>6. QED
    BY <1>4, <2>1, <2>2, <2>3, <2>4, <2>5 DEF OInv
<1>5. QED
  BY <1>3, <1>4, Completed

\* What becomes of the batch of a handler that is gone.
LEMMA AbandonedBatch ==
  ASSUME NEW b, NEW V, NEW B, BatchOK(b, V, B) \/ b = Store!NoBatch,
         NEW c, c = Store!Abandoned(b) \/ (c = b /\ b.stage = "orphan")
  PROVE  c = Store!NoBatch \/ (BatchOK(c, V, B) /\ c.stage = "orphan")
<1>1. CASE c = Store!NoBatch \/ (c = b /\ b.stage = "orphan")
  BY <1>1 DEF Store!NoBatch
<1>2. CASE b.stage = "put" /\ c = [b EXCEPT !.stage = "orphan"]
  <2>1. BatchOK(b, V, B)
    BY <1>2 DEF Store!NoBatch
  <2>2. QED
    BY <1>2, <2>1, StagedBatch
<1>3. QED
  BY <1>1, <1>2 DEF Store!Abandoned

\* A throwing bucket ends the handler and may leave its put behind.
LEMMA StorageThrowsStep ==
  ASSUME OInv, NEW a \in Attempts, StorageThrows(a)
  PROVE  OInv'
<1>1. PICK b : b = Store!Abandoned(batches[a]) /\ batches' = [batches EXCEPT ![a] = b]
  BY DEF StorageThrows, Store!Throw, Store!SetBatch
<1>2. /\ Abandon /\ UNCHANGED <<bucket, registryVars>> /\ Return(a)
      /\ batches[a].stage \in {"put", "head"}
  BY DEF StorageThrows, Store!Throw
<1>3. attempts[a].stage = "publishing" /\ BatchOK(batches[a], versions, bucket)
  BY <1>2, AtWork DEF HandlerOK, Publishing
<1>4. b = Store!NoBatch \/ (BatchOK(b, versions, bucket) /\ b.stage = "orphan")
  BY <1>1, <1>3, AbandonedBatch
<1>5. QED
  BY <1>1, <1>2, <1>3, <1>4, HandlerReturns

\* So does an eviction, for every handler.
LEMMA EvictStep ==
  ASSUME OInv, Evict
  PROVE  OInv'
<1>1. /\ Abandon /\ UNCHANGED <<bucket, registryVars>>
      /\ attempts' = [a \in Attempts |-> Resting]
      /\ batches' = [a \in Attempts |->
           IF batches[a].stage = "orphan" THEN batches[a] ELSE Store!Abandoned(batches[a])]
  BY DEF Evict, Store!StoreCrash
<1>2. ASSUME NEW a \in Attempts
      PROVE  HandlerOK(attempts'[a], batches'[a], versions, bucket)
  <2>1. BatchOK(batches[a], versions, bucket) \/ batches[a] = Store!NoBatch
    BY AtWork DEF HandlerOK
  <2>2. \/ batches'[a] = Store!Abandoned(batches[a])
        \/ batches'[a] = batches[a] /\ batches[a].stage = "orphan"
    BY <1>1
  <2>3. \/ batches'[a] = Store!NoBatch
        \/ BatchOK(batches'[a], versions, bucket) /\ batches'[a].stage = "orphan"
    BY <2>1, <2>2, AbandonedBatch
  <2>4. attempts'[a] = Resting
    BY <1>1
  <2>5. QED
    BY <2>3, <2>4, RestingOK
<1>3. versions' = versions /\ bucket' = bucket
  BY <1>1 DEF registryVars
<1>4. HandlersOK'
  BY <1>1, <1>2, <1>3 DEF HandlersOK
<1>5. CountersOK'
  BY <1>1, CountersStep DEF OInv
<1>6. QED
  BY <1>1, <1>4, <1>5, Unchanged, QuietStep

\* A put left behind lands, or does not.
LEMMA LatePutStep ==
  ASSUME OInv, NEW a \in Attempts, LatePut(a)
  PROVE  OInv'
<1>1. /\ UNCHANGED <<registryVars, attempts>> /\ CountersOK'
      /\ batches[a].stage = "orphan"
      /\ batches' = [batches EXCEPT ![a] = Store!NoBatch]
  BY CountersStep
  DEF LatePut, OInv, registryVars, Store!OrphanLands, Store!OrphanLost, Store!SetBatch
<1>2. PutOK(versions, bucket, bucket')
  <2>1. CASE Store!OrphanLands(a)
    BY <2>1, PutStep DEF Store!OrphanLands
  <2>2. CASE Store!OrphanLost(a)
    BY <2>2 DEF Store!OrphanLost, OInv, PutOK
  <2>3. QED
    BY <2>1, <2>2 DEF LatePut
<1>3. HandlerOK(attempts[a], Store!NoBatch, versions, bucket')
  <2>1. HandlerOK(attempts[a], batches[a], versions, bucket)
    BY AtWork
  <2>2. QED
    BY <1>1, <2>1 DEF HandlerOK, Publishing, Store!NoBatch
<1>4. QED
  BY <1>1, <1>2, <1>3, BatchStep

LEMMA HandleRefreshStep ==
  ASSUME OInv, NEW d \in Discoveries, HandleRefresh(d)
  PROVE  OInv'
<1>1. Refresh(d) /\ UNCHANGED <<attempts, bucket, batches, Faults>>
  BY DEF HandleRefresh
<1>2. RegistryNext /\ PublishesNothing(versions, versions')
  BY <1>1, RefreshOnlyAdds, AddsPublishNothing DEF RegistryNext
<1>3. Continues(versions, versions')
  BY <1>2, RegistryContinues DEF OInv
<1>4. HandlersOK' /\ CountersOK'
  BY <1>1, <1>3, SameHandlers, CountersStep DEF OInv
<1>5. QED
  BY <1>1, <1>2, <1>4, QuietStep

LEMMA HandleRecoverStep ==
  ASSUME OInv, NEW v \in DOMAIN versions, HandleRecover(v)
  PROVE  OInv'
<1>1. RecoverVersion(v) /\ UNCHANGED <<attempts, bucket, batches, Faults>>
  BY DEF HandleRecover
<1>2. RegistryNext /\ PublishesNothing(versions, versions')
  BY <1>1, RecoverOnlyAdds, AddsPublishNothing DEF RegistryNext, OInv
<1>3. Continues(versions, versions')
  BY <1>2, RegistryContinues DEF OInv
<1>4. HandlersOK' /\ CountersOK'
  BY <1>1, <1>3, SameHandlers, CountersStep DEF OInv
<1>5. QED
  BY <1>1, <1>2, <1>4, QuietStep

\* Time passes.
LEMMA TickStep ==
  ASSUME OInv, Tick
  PROVE  OInv'
<1>1. /\ AgeLeases /\ UNCHANGED <<bucket, batches, Faults>>
      /\ attempts' = [a \in Attempts |->
           IF attempts[a] = Resting THEN Resting
           ELSE [attempts[a] EXCEPT !.age = Older(@)]]
  BY DEF Tick
<1>2. RegistryNext
  BY <1>1 DEF RegistryNext
<1>3. Continues(versions, versions')
  BY <1>2, RegistryContinues DEF OInv
<1>4. PublishesNothing(versions, versions')
  BY <1>1, AgePublishesNothing DEF OInv
<1>5. ASSUME NEW a \in Attempts
      PROVE  HandlerOK(attempts'[a], batches'[a], versions', bucket')
  <2>1. HandlerOK(attempts[a], batches[a], versions, bucket) /\ batches' = batches
    BY <1>1, AtWork
  <2>2. HandlerOK(attempts'[a], batches[a], versions, bucket)
    <3>1. CASE attempts[a] = Resting
      BY <1>1, <2>1, <3>1
    <3>2. CASE attempts[a] # Resting
      <4>1. attempts[a] \in AttemptType
        BY <2>1, <3>2 DEF HandlerOK
      <4> DEFINE t == [attempts[a] EXCEPT !.age = Older(attempts[a].age)]
      <4>2. attempts[a].age \in 0..LeaseTimeout
        BY <4>1 DEF AttemptType
      <4>3. Older(attempts[a].age) \in 0..LeaseTimeout
        BY <4>2, LeaseTimeoutAssumption DEF Older
      <4>4. /\ t \in AttemptType
            /\ t.version = attempts[a].version /\ t.stage = attempts[a].stage
        BY <4>1, <4>3 DEF AttemptType
      <4>5. attempts'[a] = t
        BY <1>1, <3>2
      <4> HIDE DEF t
      <4>6. QED
        BY <2>1, <3>2, <4>1, <4>4, <4>5 DEF HandlerOK
    <3>3. QED
      BY <3>1, <3>2
  <2>3. bucket' = bucket
    BY <1>1
  <2>4. QED
    BY <1>3, <2>1, <2>2, <2>3, HandlerGrows
<1>6. HandlersOK'
  BY <1>1, <1>5 DEF HandlersOK, OInv
<1>7. CountersOK'
  BY <1>1, CountersStep DEF OInv
<1>8. QED
  BY <1>1, <1>2, <1>4, <1>6, <1>7, QuietStep

-----------------------------------------------------------------------------
\* The invariant holds initially, is kept by every step, and so always holds.
LEMMA ObjectInitInvariant == ObjectInit => OInv
<1> SUFFICES ASSUME ObjectInit
             PROVE  OInv
  OBVIOUS
<1>1. /\ RegistryInit /\ bucket = {} /\ batches = [a \in Attempts |-> Store!NoBatch]
      /\ attempts = [a \in Attempts |-> Resting] /\ faults = 0 /\ abandoned = 0
  BY DEF ObjectInit, Store!StoreInit
<1>2. DOMAIN versions = {}
  BY <1>1 DEF RegistryInit
<1>3. Advertised(versions, bucket) /\ Marked(versions, bucket) /\ OneObjectPerKey(bucket)
  BY <1>1, <1>2 DEF Advertised, Marked, OneObjectPerKey
<1>4. HandlersOK
  <2>1. HandlerOK(Resting, Store!NoBatch, versions, bucket)
    BY RestingOK
  <2>2. QED
    BY <1>1, <2>1 DEF HandlersOK
<1>5. CountersOK
  BY <1>1, BoundsAssumption DEF CountersOK
<1>6. QED
  BY <1>1, <1>3, <1>4, <1>5, RegistryInitInvariant DEF OInv

LEMMA ObjectStep == OInv /\ [ObjectNext]_objectVars => OInv'
<1> SUFFICES ASSUME OInv, [ObjectNext]_objectVars
             PROVE  OInv'
  OBVIOUS
<1>1. ASSUME NEW a \in Attempts, Work(a)
      PROVE  OInv'
  BY <1>1, ArchiveArrivesStep, ContainerEndsStep, ContainerAnswersStep, PublishStep,
     PublicationRefusedStep, FinishStep DEF Work
<1>2. CASE UNCHANGED objectVars
  <2>1. UNCHANGED <<registryVars, attempts, bucket, batches, Faults>>
    BY <1>2 DEF objectVars, registryVars, Faults
  <2>2. HandlersOK' /\ CountersOK'
    BY <2>1, Unchanged, SameHandlers, CountersStep DEF OInv
  <2>3. QED
    BY <2>1, <2>2, Unchanged, QuietStep
<1>3. QED
  BY <1>1, <1>2, MaterializeStep, ContainerEndsStep, StorageThrowsStep, LatePutStep,
     EvictStep, HandleRefreshStep, HandleRecoverStep, TickStep DEF ObjectNext

LEMMA ObjectInvariant == ObjectSpec => []OInv
BY ObjectInitInvariant, ObjectStep, PTL DEF ObjectSpec

-----------------------------------------------------------------------------
(***************************************************************************)
(* What a step can do to the bucket and the jobs: put one object, complete *)
(* one version with an outcome that is stored whole, or neither.           *)
(***************************************************************************)
LEMMA ObjectEffects ==
  ASSUME OInv, [ObjectNext]_objectVars
  PROVE  \/ UNCHANGED versions /\ PutOK(versions, bucket, bucket')
         \/ UNCHANGED bucket /\ PublishesNothing(versions, versions')
         \/ UNCHANGED bucket /\ \E v, o : Completes(v, o, versions, versions', bucket)
<1> DEFINE Quiet == UNCHANGED bucket /\ PublishesNothing(versions, versions')
<1>1. ASSUME UNCHANGED <<registryVars, bucket>>
      PROVE  Quiet
  BY <1>1, Unchanged
<1>2. ASSUME NEW a \in Attempts, NEW origin \in Origins, Materialize(a, origin)
      PROVE  Quiet
  <2>1. PICK v \in Leasable : LeaseNext(v) /\ UNCHANGED bucket
    BY <1>2 DEF Materialize
  <2>2. SetJob(v, "leased") /\ "leased" \notin Published
    BY <2>1 DEF LeaseNext, Published
  <2>3. QED
    BY <2>1, <2>2, SetJobPublishesNothing DEF OInv, Leasable
<1>3. ASSUME NEW a \in Attempts, ReleaseJob(a), UNCHANGED bucket, attempts[a].stage # "none"
      PROVE  Quiet
  BY <1>3, AtWork, ReleaseJobStep
<1>4. ASSUME NEW a \in Attempts, ServiceFails(a) \/ ContainerRefuses(a)
      PROVE  Quiet
  BY <1>3, <1>4 DEF ServiceFails, ContainerRefuses
<1>5. ASSUME NEW a \in Attempts, PublicationRefused(a)
      PROVE  Quiet
  <2>1. attempts[a].stage = "publishing"
    BY <1>5, AtWork DEF PublicationRefused, HandlerOK, Publishing
  <2>2. QED
    BY <1>3, <1>5, <2>1 DEF PublicationRefused, Store!Close
<1>6. ASSUME NEW a \in Attempts, Finish(a)
      PROVE  \/ Quiet
             \/ UNCHANGED bucket /\ \E v, o : Completes(v, o, versions, versions', bucket)
  BY <1>1, <1>6, Completed DEF Finish, Store!Close
<1>7. ASSUME NEW a \in Attempts, Publish(a) \/ LatePut(a)
      PROVE  Quiet \/ (UNCHANGED versions /\ PutOK(versions, bucket, bucket'))
  <2>1. UNCHANGED registryVars /\ UNCHANGED versions
    BY <1>7 DEF Publish, LatePut, registryVars
  <2>2. CASE UNCHANGED bucket
    BY <1>1, <2>1, <2>2
  <2>3. CASE /\ batches[a].stage \in {"put", "orphan"}
             /\ Store!PutIfAbsent(Store!Current(a))
    BY <2>1, <2>3, PutStep
  <2>4. QED
    BY <1>7, <2>2, <2>3
    DEF Publish, LatePut, Store!PutObject, Store!HeadObject, Store!OrphanLands,
        Store!OrphanLost
<1>8. ASSUME NEW a \in Attempts,
             \/ ArchiveArrives(a) \/ ContainerAnswers(a)
             \/ StorageThrows(a) \/ ErrorBodyBreaks(a)
      PROVE  Quiet
  BY <1>1, <1>8
  DEF ArchiveArrives, ContainerAnswers, StorageThrows, ErrorBodyBreaks, registryVars,
      Store!Begin, Store!Throw
<1>9. CASE Evict
  BY <1>1, <1>9 DEF Evict, Store!StoreCrash
<1>10. CASE Tick
  BY <1>10, AgePublishesNothing DEF Tick, OInv
<1>11. CASE \/ \E d \in Discoveries : HandleRefresh(d)
            \/ \E v \in DOMAIN versions : HandleRecover(v)
  BY <1>11, RefreshOnlyAdds, RecoverOnlyAdds, AddsPublishNothing
  DEF HandleRefresh, HandleRecover, OInv
<1>12. CASE UNCHANGED objectVars
  BY <1>1, <1>12 DEF objectVars, registryVars
<1>13. QED
  BY <1>2, <1>4, <1>5, <1>6, <1>7, <1>8, <1>9, <1>10, <1>11, <1>12 DEF ObjectNext, Work

LEMMA TypeOfInvariant == OInv => ObjectTypeOK
<1> SUFFICES ASSUME OInv
             PROVE  ObjectTypeOK
  OBVIOUS
<1>1. /\ batches = [a \in Attempts |-> batches[a]]
      /\ attempts = [a \in Attempts |-> attempts[a]]
      /\ \A a \in Attempts : HandlerOK(attempts[a], batches[a], versions, bucket)
  BY DEF OInv, HandlersOK
<1>2. batches \in [Attempts -> Store!BatchType \cup {Store!NoBatch}]
  BY <1>1 DEF HandlerOK, BatchOK
<1>3. attempts \in [Attempts -> AttemptType \cup {Resting}]
  BY <1>1 DEF HandlerOK
<1>4. \A a \in Attempts :
        /\ attempts[a] # Resting => attempts[a].version \in DOMAIN versions
        /\ attempts[a].stage = "publishing" <=>
             batches[a].stage \in {"put", "head", "published", "conflict"}
  BY <1>1 DEF HandlerOK, Publishing
<1>5. QED
  BY <1>2, <1>3, <1>4 DEF OInv, RInv, CountersOK, ObjectTypeOK

\* Type correctness of the object: a handler's batch is open exactly while it
\* publishes, and a handler at work has a version the registry knows.
THEOREM ObjectTypeCorrect == ObjectSpec => []ObjectTypeOK
BY TypeOfInvariant, ObjectInvariant, PTL

\* What the metadata advertises is in the bucket, whole and of the advertised
\* kind, however many handlers race, fail or are evicted.
THEOREM AdvertisedVersionsAreStored == ObjectSpec => []AdvertisedIsStored
<1>1. OInv => AdvertisedIsStored
  BY Promises DEF OInv
<1>2. QED
  BY <1>1, ObjectInvariant, PTL

\* A marker in the bucket is never contradicted by the registry.
THEOREM MarkersAgreeWithRegistry == ObjectSpec => []MarkedAgreesWithRegistry
<1>1. OInv => MarkedAgreesWithRegistry
  BY Promises DEF OInv
<1>2. QED
  BY <1>1, ObjectInvariant, PTL

(***************************************************************************)
(* The object implements its registry: with all its awaits, failures and   *)
(* evictions, it only ever takes the registry's own transitions, so what   *)
(* is proved of the registry holds of the object.                          *)
(***************************************************************************)
LEMMA ObjectStepOfRegistry == OInv /\ [ObjectNext]_objectVars => [RegistryNext]_registryVars
<1> SUFFICES ASSUME OInv, [ObjectNext]_objectVars
             PROVE  RegistryNext \/ UNCHANGED registryVars
  OBVIOUS
<1>1. ASSUME NEW a \in Attempts, ReleaseJob(a), attempts[a].version \in DOMAIN versions
      PROVE  RegistryNext \/ UNCHANGED registryVars
  BY <1>1, ReleaseJobStep
<1>2. ASSUME NEW a \in Attempts, NEW origin \in Origins, Materialize(a, origin)
      PROVE  RegistryNext
  BY <1>2 DEF Materialize, Leasable, RegistryNext
<1>3. ASSUME NEW a \in Attempts, ServiceFails(a) \/ ContainerRefuses(a)
      PROVE  RegistryNext \/ UNCHANGED registryVars
  BY <1>1, <1>3, AtWork DEF ServiceFails, ContainerRefuses
<1>4. ASSUME NEW a \in Attempts, PublicationRefused(a)
      PROVE  RegistryNext \/ UNCHANGED registryVars
  <2>1. attempts[a].stage = "publishing"
    BY <1>4, AtWork DEF PublicationRefused, HandlerOK, Publishing
  <2>2. QED
    BY <1>1, <1>4, <2>1, AtWork DEF PublicationRefused
<1>5. ASSUME NEW a \in Attempts, Finish(a)
      PROVE  RegistryNext \/ UNCHANGED registryVars
  BY <1>5 DEF Finish, MarkReady, MarkYanked, Completable, HandleComplete, RegistryNext
<1>6. ASSUME NEW a \in Attempts,
             \/ ArchiveArrives(a) \/ ContainerAnswers(a) \/ Publish(a)
             \/ StorageThrows(a) \/ ErrorBodyBreaks(a) \/ LatePut(a)
      PROVE  UNCHANGED registryVars
  BY <1>6
  DEF ArchiveArrives, ContainerAnswers, Publish, StorageThrows, ErrorBodyBreaks, LatePut,
      registryVars
<1>7. CASE Evict
  BY <1>7 DEF Evict
<1>8. CASE Tick
  BY <1>8 DEF Tick, RegistryNext
<1>9. CASE \/ \E d \in Discoveries : HandleRefresh(d)
           \/ \E v \in DOMAIN versions : HandleRecover(v)
  BY <1>9 DEF HandleRefresh, HandleRecover, RegistryNext
<1>10. CASE UNCHANGED objectVars
  BY <1>10 DEF objectVars, registryVars
<1>11. ASSUME NEW a \in Attempts, Work(a)
       PROVE  RegistryNext \/ UNCHANGED registryVars
  BY <1>3, <1>4, <1>5, <1>6, <1>11 DEF Work
<1>12. QED
  BY <1>2, <1>3, <1>6, <1>7, <1>8, <1>9, <1>10, <1>11 DEF ObjectNext

\* Whatever the handlers do, the object's registry behaves as PackageRegistry says.
THEOREM ObjectImplementsRegistry == ObjectSpec => RegistrySpec
<1>1. ObjectInit => RegistryInit
  BY DEF ObjectInit
<1>2. QED
  BY <1>1, ObjectStepOfRegistry, ObjectInvariant, PTL DEF ObjectSpec, RegistrySpec

\* So no late completion, release or lease takes back a published version.
THEOREM ObjectPublicationIsFinal == ObjectSpec => PublishedIsFinal
BY ObjectImplementsRegistry, PublicationIsFinal

\* Seen from the bucket, a step of the object is one that Publication allows: a
\* handler begins with an outcome for a version that is known.
LEMMA ObjectStepOfStore ==
  OInv /\ [ObjectNext]_objectVars => [Store!StoreNext]_(Store!storeVars)
<1> SUFFICES ASSUME OInv, [ObjectNext]_objectVars
             PROVE  Store!StoreNext \/ UNCHANGED <<bucket, batches>>
  BY DEF Store!storeVars
<1>1. ASSUME NEW a \in Attempts, ContainerAnswers(a)
      PROVE  Store!StoreNext
  <2> DEFINE v == attempts[a].version
             c == versions[v].assignment.commit
  <2>1. PICK build \in Builds :
          Store!Begin(a, v, M!OutcomeOf(c, build, attempts[a].origin))
    BY <1>1 DEF ContainerAnswers, Job
  <2>2. /\ v \in DOMAIN versions /\ v \in Versions
        /\ attempts[a].origin \in Origins
    BY <1>1, AtWork DEF ContainerAnswers, AttemptType
  <2>3. c \in Commits
    BY <2>2 DEF OInv, RInv, RegistryTypeOK, Jobs, Rows
  <2>4. M!OutcomeOf(c, build, attempts[a].origin) \in Outcomes
    BY <2>2, <2>3 DEF Outcomes, M!OutcomeOf, M!MaterializationOutcomes
  <2>5. QED
    BY <2>1, <2>2, <2>4 DEF Store!StoreNext
<1>2. ASSUME NEW a \in Attempts,
             \/ Publish(a) \/ PublicationRefused(a) \/ Finish(a)
             \/ StorageThrows(a) \/ LatePut(a) \/ Evict
      PROVE  Store!StoreNext
  BY <1>2
  DEF Publish, PublicationRefused, Finish, StorageThrows, LatePut, Evict, Store!StoreNext
<1>3. ASSUME NEW a \in Attempts,
             \/ \E origin \in Origins : Materialize(a, origin)
             \/ ArchiveArrives(a) \/ ContainerRefuses(a) \/ ServiceFails(a)
             \/ ErrorBodyBreaks(a)
      PROVE  UNCHANGED <<bucket, batches>>
  BY <1>3 DEF Materialize, ArchiveArrives, ContainerRefuses, ServiceFails, ErrorBodyBreaks
<1>4. ASSUME \/ \E d \in Discoveries : HandleRefresh(d)
             \/ \E v \in DOMAIN versions : HandleRecover(v)
             \/ Tick \/ UNCHANGED objectVars
      PROVE  UNCHANGED <<bucket, batches>>
  BY <1>4 DEF HandleRefresh, HandleRecover, Tick, objectVars
<1>5. CASE Evict
  <2>1. \E a \in Attempts : TRUE
    BY <1>5 DEF Evict
  <2>2. QED
    BY <1>2, <1>5, <2>1
<1>6. QED
  BY <1>1, <1>2, <1>3, <1>4, <1>5 DEF ObjectNext, Work

\* Whatever the object does to the bucket, with its handlers, retries and evictions,
\* is what Publication describes.
THEOREM ObjectImplementsStore == ObjectSpec => Store!StoreSpec
<1>1. ObjectInit => Store!StoreInit
  BY DEF ObjectInit
<1>2. QED
  BY <1>1, ObjectStepOfStore, ObjectInvariant, PTL DEF ObjectSpec, Store!StoreSpec

\* So nothing the object has stored is ever replaced or removed, and no key of the
\* bucket holds two objects.
THEOREM ObjectWritesOnce == ObjectSpec => Store!WrittenOnce
<1>1. OInv /\ [ObjectNext]_objectVars =>
        [/\ bucket \subseteq bucket'
         /\ \A s, t \in bucket' : s.prefix = t.prefix /\ s.path = t.path => s = t
        ]_(Store!storeVars)
  <2> SUFFICES ASSUME OInv, [ObjectNext]_objectVars
               PROVE  bucket \subseteq bucket' /\ OneObjectPerKey(bucket')
    BY DEF OneObjectPerKey
  <2>1. OneObjectPerKey(bucket')
    BY ObjectStep DEF OInv
  <2>2. bucket \subseteq bucket'
    BY ObjectEffects DEF PutOK
  <2>3. QED
    BY <2>1, <2>2
<1>2. QED
  BY <1>1, ObjectInvariant, PTL DEF ObjectSpec, Store!WrittenOnce

-----------------------------------------------------------------------------
(***************************************************************************)
(* The leases: who holds one, and what a step can do about it.             *)
(***************************************************************************)
\* A handler in the materialization t goes on with it in u.
GoesOn(t, u) ==
  /\ u = Resting <=> t = Resting
  /\ t # Resting => u.version = t.version /\ u.age = t.age

TakesLease ==
  \E a \in Attempts, v \in Leasable :
    /\ attempts[a] = Resting
    /\ SetJob(v, "leased")
    /\ \E t : /\ attempts' = [attempts EXCEPT ![a] = t]
              /\ t # Resting /\ t.version = v /\ t.age = 0
    /\ UNCHANGED abandoned

KeepsLeases ==
  /\ OnlyAdds(versions, versions')
  /\ \A a \in Attempts : GoesOn(attempts[a], attempts'[a])
  /\ UNCHANGED abandoned

\* From V to W the version v is no longer leased, and no other changes.
Released(v, V, W) ==
  /\ DOMAIN W = DOMAIN V
  /\ W[v].state # "leased"
  /\ \A w \in DOMAIN V : w # v => W[w] = V[w]

GivesLeaseBack ==
  \E a \in Attempts :
    /\ attempts[a] # Resting
    /\ Released(attempts[a].version, versions, versions')
    /\ Return(a)
    /\ UNCHANGED abandoned

LeavesLeases ==
  /\ Abandon /\ UNCHANGED versions
  /\ \A a \in Attempts : attempts'[a] \in {Resting, attempts[a]}

\* A release, or the completion of its version, ends the handler's lease.
LEMMA SetJobReleases ==
  ASSUME OInv, NEW v \in DOMAIN versions, NEW s, s # "leased", SetJob(v, s)
  PROVE  Released(v, versions, versions')
<1>1. versions[v] \in Jobs
  BY DEF OInv, RInv, RegistryTypeOK
<1>2. /\ DOMAIN versions' = DOMAIN versions
      /\ versions'[v] = [[versions[v] EXCEPT !.state = s] EXCEPT !.age = 0]
      /\ \A w \in DOMAIN versions : w # v => versions'[w] = versions[w]
  BY DEF SetJob
<1>3. versions'[v].state = s
  BY <1>1, <1>2 DEF Jobs
<1>4. QED
  BY <1>2, <1>3 DEF Released

LEMMA ReleaseJobEnds ==
  ASSUME OInv, NEW a \in Attempts, attempts[a].version \in DOMAIN versions, ReleaseJob(a)
  PROVE  Released(attempts[a].version, versions, versions')
<1> DEFINE v == attempts[a].version
<1>1. CASE versions[v].state = "leased"
  BY <1>1, SetJobReleases DEF ReleaseJob, ReleaseLease
<1>2. CASE versions[v].state # "leased"
  BY <1>2 DEF ReleaseJob, Released, registryVars
<1>3. QED
  BY <1>1, <1>2

LEMMA FinishEnds ==
  ASSUME OInv, NEW a \in Attempts, Finish(a)
  PROVE  Released(attempts[a].version, versions, versions')
<1> DEFINE v == attempts[a].version
<1>1. batches[a].stage = "published"
  BY DEF Finish
<1>2. v \in DOMAIN versions /\ versions[v] \in Jobs
  BY <1>1, AtWork DEF HandlerOK, Publishing, OInv, RInv, RegistryTypeOK
<1>3. CASE SetJob(v, "ready") \/ SetJob(v, "yanked")
  BY <1>2, <1>3, SetJobReleases
<1>4. CASE ~ Completable(v) /\ UNCHANGED registryVars
  BY <1>2, <1>4 DEF Completable, Released, registryVars
<1>5. QED
  BY <1>3, <1>4 DEF Finish, MarkReady, MarkYanked

LEMMA LeaseEffects ==
  ASSUME OInv, [ObjectNext]_objectVars
  PROVE  TakesLease \/ KeepsLeases \/ GivesLeaseBack \/ LeavesLeases \/ Tick
<1>1. ASSUME UNCHANGED <<versions, attempts, abandoned>>
      PROVE  KeepsLeases
  BY <1>1 DEF KeepsLeases, OnlyAdds, GoesOn
<1>2. ASSUME NEW a \in Attempts, NEW origin \in Origins, Materialize(a, origin)
      PROVE  TakesLease
  <2>1. PICK v \in Leasable :
          /\ SetJob(v, "leased")
          /\ attempts' = [attempts EXCEPT ![a] =
               [stage |-> "archive", version |-> v, origin |-> origin, age |-> 0]]
    BY <1>2 DEF Materialize, LeaseNext
  <2> DEFINE t == [stage |-> "archive", version |-> v, origin |-> origin, age |-> 0]
  <2>2. t # Resting /\ t.version = v /\ t.age = 0
    <3>1. t.stage # Resting.stage
      BY DEF Resting
    <3>2. QED
      BY <3>1
  <2>3. attempts[a] = Resting /\ UNCHANGED abandoned /\ attempts' = [attempts EXCEPT ![a] = t]
    BY <1>2, <2>1 DEF Materialize, Faults
  <2> HIDE DEF t
  <2>4. QED
    BY <2>1, <2>2, <2>3 DEF TakesLease
<1>3. ASSUME NEW a \in Attempts, attempts[a].stage # "none", UNCHANGED <<versions, abandoned>>,
             NEW stage \in {"archive", "container", "publishing"}, Enter(a, stage)
      PROVE  KeepsLeases
  <2>1. PICK t : /\ attempts' = [attempts EXCEPT ![a] = t]
                 /\ t.stage = stage /\ t.version = attempts[a].version
                 /\ t.age = attempts[a].age
    BY <1>3, Entered
  <2>2. t # Resting /\ attempts[a] # Resting
    BY <1>3, <2>1 DEF Resting
  <2>3. attempts = [c \in Attempts |-> attempts[c]]
    BY DEF OInv, HandlersOK
  <2>4. \A c \in Attempts : attempts'[c] = IF c = a THEN t ELSE attempts[c]
    BY <2>1, <2>3
  <2>5. QED
    BY <1>3, <2>1, <2>2, <2>4 DEF KeepsLeases, OnlyAdds, GoesOn
<1>4. ASSUME NEW a \in Attempts, ArchiveArrives(a) \/ ContainerAnswers(a)
      PROVE  KeepsLeases
  BY <1>3, <1>4 DEF ArchiveArrives, ContainerAnswers, Faults
<1>5. ASSUME NEW a \in Attempts,
             ServiceFails(a) \/ ContainerRefuses(a) \/ PublicationRefused(a) \/ Finish(a)
      PROVE  GivesLeaseBack
  <2>1. attempts[a].stage # "none"
    BY <1>5, AtWork
    DEF ServiceFails, ContainerRefuses, PublicationRefused, Finish, HandlerOK, Publishing
  <2>2. attempts[a] # Resting /\ attempts[a].version \in DOMAIN versions
    BY <2>1, AtWork DEF Resting
  <2>3. Released(attempts[a].version, versions, versions')
    BY <1>5, <2>2, ReleaseJobEnds, FinishEnds
    DEF ServiceFails, ContainerRefuses, PublicationRefused
  <2>4. Return(a) /\ UNCHANGED abandoned
    BY <1>5 DEF ServiceFails, ContainerRefuses, PublicationRefused, Finish, Fault, Faults
  <2>5. QED
    BY <2>2, <2>3, <2>4 DEF GivesLeaseBack
<1>6. ASSUME NEW a \in Attempts, StorageThrows(a) \/ ErrorBodyBreaks(a)
      PROVE  LeavesLeases
  <2>1. Abandon /\ UNCHANGED versions /\ Return(a)
    BY <1>6 DEF StorageThrows, ErrorBodyBreaks, registryVars
  <2>2. attempts = [c \in Attempts |-> attempts[c]]
    BY DEF OInv, HandlersOK
  <2>3. QED
    BY <2>1, <2>2 DEF LeavesLeases, Return
<1>7. CASE Evict
  BY <1>7 DEF Evict, LeavesLeases, registryVars
<1>8. ASSUME NEW a \in Attempts, Publish(a) \/ LatePut(a)
      PROVE  KeepsLeases
  BY <1>1, <1>8 DEF Publish, LatePut, Faults
<1>9. CASE \/ \E d \in Discoveries : HandleRefresh(d)
           \/ \E v \in DOMAIN versions : HandleRecover(v)
  <2>1. OnlyAdds(versions, versions')
    BY <1>9, RefreshOnlyAdds, RecoverOnlyAdds DEF HandleRefresh, HandleRecover, OInv
  <2>2. UNCHANGED <<attempts, abandoned>>
    BY <1>9 DEF HandleRefresh, HandleRecover, Faults
  <2>3. QED
    BY <2>1, <2>2 DEF KeepsLeases, GoesOn
<1>10. CASE UNCHANGED objectVars
  BY <1>1, <1>10 DEF objectVars
<1>11. QED
  BY <1>2, <1>4, <1>5, <1>6, <1>7, <1>8, <1>9, <1>10 DEF ObjectNext, Work

\* Time passes for a handler at work.
LEMMA OlderAttempt ==
  ASSUME OInv, Tick, NEW a \in Attempts, attempts[a] # Resting
  PROVE  /\ attempts'[a] # Resting /\ attempts'[a].version = attempts[a].version
         /\ attempts'[a].age = Older(attempts[a].age)
<1>1. attempts[a] \in AttemptType
  BY DEF OInv, HandlersOK, HandlerOK
<1> DEFINE t == [attempts[a] EXCEPT !.age = Older(attempts[a].age)]
<1>2. /\ t.version = attempts[a].version /\ t.age = Older(attempts[a].age)
      /\ t.stage = attempts[a].stage
  BY <1>1 DEF AttemptType
<1>3. attempts'[a] = t
  BY DEF Tick
<1>4. attempts[a].stage # Resting.stage
  BY <1>1 DEF AttemptType, Resting
<1> HIDE DEF t
<1>5. QED
  BY <1>2, <1>3, <1>4

\* Every leased version of the jobs V has a handler among the materializations T.
Held(T, V) ==
  \A v \in DOMAIN V :
    V[v].state = "leased" => \E a \in Attempts : T[a] # Resting /\ T[a].version = v

LEMMA HeldStep ==
  ASSUME OInv, [ObjectNext]_objectVars, Held(attempts, versions)
  PROVE  Held(attempts', versions') \/ abandoned' > 0
<1>1. CASE TakesLease
  <2>0. PICK a \in Attempts, v \in Leasable :
          /\ attempts[a] = Resting
          /\ SetJob(v, "leased")
          /\ \E t : /\ attempts' = [attempts EXCEPT ![a] = t]
                    /\ t # Resting /\ t.version = v
    BY <1>1 DEF TakesLease
  <2>1. PICK t : /\ attempts[a] = Resting
                 /\ SetJob(v, "leased")
                 /\ attempts' = [attempts EXCEPT ![a] = t]
                 /\ t # Resting /\ t.version = v
    BY <2>0
  <2>2. /\ attempts'[a] = t
        /\ \A c \in Attempts : c # a => attempts'[c] = attempts[c]
    BY <2>1 DEF OInv, HandlersOK
  <2>3. DOMAIN versions' = DOMAIN versions
    BY <2>1 DEF SetJob
  <2>4. \A w \in DOMAIN versions : w # v => versions'[w] = versions[w]
    BY <2>1 DEF SetJob
  <2>5. QED
    BY <2>1, <2>2, <2>3, <2>4 DEF Held
<1>2. CASE KeepsLeases
  BY <1>2 DEF KeepsLeases, OnlyAdds, GoesOn, Held
<1>3. CASE GivesLeaseBack
  <2>1. PICK a \in Attempts : /\ Released(attempts[a].version, versions, versions')
                             /\ Return(a)
    BY <1>3 DEF GivesLeaseBack
  <2>2. \A c \in Attempts : c # a => attempts'[c] = attempts[c]
    BY <2>1 DEF Return, OInv, HandlersOK
  <2>3. QED
    BY <2>1, <2>2 DEF Released, Held
<1>4. CASE LeavesLeases
  <2>1. abandoned' > 0
    BY <1>4 DEF LeavesLeases, Abandon, OInv, CountersOK
  <2>2. QED
    BY <2>1
<1>5. CASE Tick
  <2>1. ASSUME NEW v \in DOMAIN versions
        PROVE  versions'[v].state = versions[v].state
    <3>1. versions[v] \in Jobs
      BY DEF OInv, RInv, RegistryTypeOK
    <3>2. [versions[v] EXCEPT !.age = Older(@)].state = versions[v].state
      BY <3>1 DEF Jobs
    <3>3. QED
      BY <1>5, <3>2 DEF Tick, AgeLeases
  <2>2. DOMAIN versions' = DOMAIN versions
    BY <1>5 DEF Tick, AgeLeases
  <2>3. ASSUME NEW a \in Attempts, attempts[a] # Resting
        PROVE  attempts'[a] # Resting /\ attempts'[a].version = attempts[a].version
    BY <1>5, <2>3, OlderAttempt
  <2>4. QED
    BY <2>1, <2>2, <2>3 DEF Held
<1>6. QED
  BY <1>1, <1>2, <1>3, <1>4, <1>5, LeaseEffects

LEMMA AbandonedGrows ==
  ASSUME OInv, [ObjectNext]_objectVars
  PROVE  abandoned \in Nat /\ abandoned' \in Nat /\ abandoned' >= abandoned
<1>1. abandoned \in Nat /\ abandoned' \in Nat
  BY ObjectStep, BoundsAssumption DEF OInv, CountersOK
<1>2. UNCHANGED abandoned \/ abandoned' = abandoned + 1
  BY LeaseEffects
  DEF TakesLease, KeepsLeases, GivesLeaseBack, LeavesLeases, Abandon, Tick, Faults
<1>3. QED
  BY <1>1, <1>2

LEMMA HeldKept ==
  ASSUME OInv, LeasesAreHeld, [ObjectNext]_objectVars
  PROVE  LeasesAreHeld'
<1>1. LeasesAreHeld <=> abandoned = 0 => Held(attempts, versions)
  BY DEF LeasesAreHeld, Held
<1> SUFFICES ASSUME OInv, LeasesAreHeld, [ObjectNext]_objectVars, abandoned' = 0
             PROVE  Held(attempts', versions')
  BY DEF LeasesAreHeld, Held
<1>2. abandoned = 0
  BY AbandonedGrows
<1>3. QED
  BY <1>1, <1>2, HeldStep

\* No error path forgets its lease: while no handler was abandoned, every lease has
\* one at work on it, also after leases ran out and were taken over by others.
THEOREM LeasesAreAlwaysHeld == ObjectSpec => []LeasesAreHeld
<1>1. ObjectInit => LeasesAreHeld
  <2>1. ObjectInit => DOMAIN versions = {}
    BY DEF ObjectInit, RegistryInit
  <2>2. QED
    BY <2>1 DEF LeasesAreHeld
<1>2. OInv /\ LeasesAreHeld /\ [ObjectNext]_objectVars => LeasesAreHeld'
  BY HeldKept
<1>3. QED
  BY <1>1, <1>2, ObjectInvariant, PTL DEF ObjectSpec

\* No materialization lasts as long as its lease.
EveryAttemptInTime == \A a \in Attempts : attempts[a] # Resting => attempts[a].age < LeaseTimeout

\* Then each handler's lease is in force and is its own.
Exclusive(T, V) ==
  \A a \in Attempts :
    T[a] # Resting =>
      /\ V[T[a].version].state = "leased"
      /\ V[T[a].version].age = T[a].age
      /\ \A b \in Attempts : T[b] # Resting /\ T[b].version = T[a].version => b = a

LEMMA ExclusiveStep ==
  ASSUME OInv, [ObjectNext]_objectVars, EveryAttemptInTime, Exclusive(attempts, versions)
  PROVE  Exclusive(attempts', versions')
<1>1. \A a \in Attempts : attempts[a] # Resting => attempts[a].version \in DOMAIN versions
  BY DEF OInv, HandlersOK, HandlerOK
<1>2. CASE TakesLease
  <2>0. PICK a \in Attempts, v \in Leasable :
          /\ attempts[a] = Resting
          /\ SetJob(v, "leased")
          /\ \E t : /\ attempts' = [attempts EXCEPT ![a] = t]
                    /\ t # Resting /\ t.version = v /\ t.age = 0
    BY <1>2 DEF TakesLease
  <2>1. PICK t : /\ attempts[a] = Resting
                 /\ SetJob(v, "leased")
                 /\ attempts' = [attempts EXCEPT ![a] = t]
                 /\ t # Resting /\ t.version = v /\ t.age = 0
    BY <2>0
  <2>2. /\ attempts'[a] = t
        /\ \A c \in Attempts : c # a => attempts'[c] = attempts[c]
    BY <2>1 DEF OInv, HandlersOK
  <2>3. ASSUME NEW b \in Attempts, attempts[b] # Resting
        PROVE  attempts[b].version # v
    <3>1. SUFFICES ASSUME attempts[b].version = v PROVE FALSE
      OBVIOUS
    <3>2. versions[v].state = "leased" /\ versions[v].age = attempts[b].age
      BY <2>3, <3>1 DEF Exclusive
    <3>3. versions[v].age >= LeaseTimeout
      BY <3>2 DEF Leasable
    <3>4. attempts[b].age < LeaseTimeout /\ attempts[b] \in AttemptType
      BY <2>3 DEF EveryAttemptInTime, OInv, HandlersOK, HandlerOK
    <3>5. QED
      BY <3>2, <3>3, <3>4, LeaseTimeoutAssumption DEF AttemptType
  <2>4. v \in DOMAIN versions /\ versions[v] \in Jobs
    BY DEF Leasable, OInv, RInv, RegistryTypeOK
  <2>5. /\ versions'[v] = [[versions[v] EXCEPT !.state = "leased"] EXCEPT !.age = 0]
        /\ \A w \in DOMAIN versions : w # v => versions'[w] = versions[w]
    BY <2>1, <2>4 DEF SetJob
  <2>6. versions'[v].state = "leased" /\ versions'[v].age = 0
    BY <2>4, <2>5, LeaseTimeoutAssumption DEF Jobs
  <2>7. ASSUME NEW c \in Attempts, c # a, attempts'[c] # Resting
        PROVE  /\ attempts[c] # Resting /\ attempts'[c].version = attempts[c].version
               /\ attempts'[c].version # v
               /\ versions'[attempts'[c].version] = versions[attempts[c].version]
               /\ attempts'[c].age = attempts[c].age
    BY <1>1, <2>2, <2>3, <2>5, <2>7
  <2>8. QED
    BY <2>1, <2>2, <2>6, <2>7 DEF Exclusive
<1>3. CASE KeepsLeases
  BY <1>1, <1>3 DEF KeepsLeases, OnlyAdds, GoesOn, Exclusive
<1>4. CASE GivesLeaseBack
  <2>1. PICK a \in Attempts : /\ attempts[a] # Resting
                             /\ Released(attempts[a].version, versions, versions')
                             /\ Return(a)
    BY <1>4 DEF GivesLeaseBack
  <2>2. /\ attempts'[a] = Resting
        /\ \A c \in Attempts : c # a => attempts'[c] = attempts[c]
    BY <2>1 DEF Return, OInv, HandlersOK
  <2>3. QED
    BY <1>1, <2>1, <2>2 DEF Released, Exclusive
<1>5. CASE LeavesLeases
  BY <1>5 DEF LeavesLeases, Exclusive
<1>6. CASE Tick
  <2>1. ASSUME NEW a \in Attempts, attempts[a] # Resting
        PROVE  /\ attempts'[a] # Resting /\ attempts'[a].version = attempts[a].version
               /\ attempts'[a].age = Older(attempts[a].age)
    BY <1>6, <2>1, OlderAttempt
  <2>2. ASSUME NEW v \in DOMAIN versions, versions[v].state = "leased"
        PROVE  /\ versions'[v].state = "leased"
               /\ versions'[v].age = Older(versions[v].age)
    <3>1. versions[v] \in Jobs
      BY DEF OInv, RInv, RegistryTypeOK
    <3>2. versions'[v] = [versions[v] EXCEPT !.age = Older(@)]
      BY <1>6, <2>2 DEF Tick, AgeLeases
    <3>3. QED
      BY <2>2, <3>1, <3>2 DEF Jobs
  <2>3. \A a \in Attempts : attempts'[a] # Resting => attempts[a] # Resting
    BY <1>6 DEF Tick
  <2>4. QED
    BY <1>1, <2>1, <2>2, <2>3 DEF Exclusive
<1>7. QED
  BY <1>2, <1>3, <1>4, <1>5, <1>6, LeaseEffects

(***************************************************************************)
(* "So only one Container can materialize it" (leaseNext) is true as long  *)
(* as every materialization ends before its lease does: nothing else, no   *)
(* race, failure or eviction, makes two handlers work on one version.      *)
(***************************************************************************)
THEOREM LeasesAreExclusiveInTime ==
  ObjectSpec /\ []EveryAttemptInTime => []OneContainerPerLease
<1>1. ObjectInit => Exclusive(attempts, versions)
  BY DEF ObjectInit, Exclusive
<1>2. Exclusive(attempts, versions) => OneContainerPerLease
  BY DEF Exclusive, OneContainerPerLease
<1>3. OInv /\ EveryAttemptInTime /\ Exclusive(attempts, versions) /\ [ObjectNext]_objectVars =>
        Exclusive(attempts, versions)'
  BY ExclusiveStep
<1>4. QED
  BY <1>1, <1>2, <1>3, ObjectInvariant, PTL DEF ObjectSpec

-----------------------------------------------------------------------------
(***************************************************************************)
(* Where the objects come from: every batch publishes something that a     *)
(* container makes of its version's commit, and the bucket holds nothing   *)
(* else.                                                                   *)
(***************************************************************************)
FilledIn(B) == {s.prefix : s \in {m \in B : m.path = M!MarkerFile}}

Made(c) == {M!OutcomeOf(c, build, origin) : build \in Builds, origin \in Origins}

BatchMade(b, V) == b.stage # "none" => b.outcome \in Made(V[b.prefix].assignment.commit)

\* An object that is looked at is there.
HeadFinds(b, B) ==
  b.stage = "head" =>
    \E s \in B : /\ s.prefix = b.prefix
                 /\ s.path = Store!Object(b.prefix, b.outcome, b.next).path

ObjectsMade(V, B) ==
  \A s \in B :
    /\ s.prefix \in DOMAIN V
    /\ \E o \in Made(V[s.prefix].assignment.commit) :
         \E i \in Store!Items(o) : s = Store!Object(s.prefix, o, i)

FilledWithMade(V, B) ==
  \A p \in FilledIn(B) : \E o \in Made(V[p].assignment.commit) : Whole(p, o, B)

MInv ==
  /\ \A a \in Attempts : BatchMade(batches[a], versions) /\ HeadFinds(batches[a], bucket)
  /\ ObjectsMade(versions, bucket)
  /\ FilledWithMade(versions, bucket)

\* The ways a batch b of the jobs V can go on as c, while the bucket B becomes C.
Stays(b, c, V, B, C) == c = b \/ c = Store!NoBatch
Begins(b, c, V, B, C) ==
  /\ c.stage = "put" /\ c.prefix \in DOMAIN V
  /\ c.outcome \in Made(V[c.prefix].assignment.commit)
GoesTo(b, c, V, B, C) ==
  /\ b.stage \in {"put", "head"}
  /\ c.prefix = b.prefix /\ c.outcome = b.outcome
  /\ c.stage \in {"put", "published", "orphan"}
Looks(b, c, V, B, C) ==
  /\ b.stage = "put" /\ c.stage = "head"
  /\ c.prefix = b.prefix /\ c.outcome = b.outcome /\ c.next = b.next
  /\ HeadFinds(c, C)
Conflicts(b, c, V, B, C) ==
  /\ b.stage = "head" /\ c.stage = "conflict"
  /\ c.prefix = b.prefix /\ c.outcome = b.outcome
  /\ Store!Object(b.prefix, b.outcome, b.next) \notin B

BatchGoesOn(b, c, V, B, C) ==
  \/ Stays(b, c, V, B, C) \/ Begins(b, c, V, B, C) \/ GoesTo(b, c, V, B, C)
  \/ Looks(b, c, V, B, C) \/ Conflicts(b, c, V, B, C)

\* The bucket B becomes C by a put of one of the batches T.
PutBy(T, B, C) ==
  \E a \in Attempts :
    /\ T[a].stage \in {"put", "orphan"}
    /\ C = B \cup {Store!Object(T[a].prefix, T[a].outcome, T[a].next)}

LEMMA BatchEffects ==
  ASSUME OInv, [ObjectNext]_objectVars
  PROVE  /\ \A a \in Attempts :
              BatchGoesOn(batches[a], batches'[a], versions, bucket, bucket')
         /\ UNCHANGED bucket \/ PutBy(batches, bucket, bucket')
<1> DEFINE Effect == /\ \A a \in Attempts :
                          BatchGoesOn(batches[a], batches'[a], versions, bucket, bucket')
                     /\ UNCHANGED bucket \/ PutBy(batches, bucket, bucket')
<1>1. CASE UNCHANGED <<bucket, batches>>
  BY <1>1 DEF BatchGoesOn, Stays
<1>2. ASSUME NEW a \in Attempts, NEW c, batches' = [batches EXCEPT ![a] = c],
             BatchGoesOn(batches[a], c, versions, bucket, bucket'),
             UNCHANGED bucket \/ PutBy(batches, bucket, bucket')
      PROVE  Effect
  <2>1. \A e \in Attempts : batches'[e] = IF e = a THEN c ELSE batches[e]
    BY <1>2 DEF OInv, HandlersOK
  <2>2. QED
    BY <1>2, <2>1 DEF BatchGoesOn, Stays
<1>3. ASSUME NEW a \in Attempts, ContainerAnswers(a)
      PROVE  Effect
  <2> DEFINE v == attempts[a].version
             c == versions[v].assignment.commit
  <2>1. PICK build \in Builds :
          Store!Begin(a, v, M!OutcomeOf(c, build, attempts[a].origin))
    BY <1>3 DEF ContainerAnswers, Job
  <2>2. v \in DOMAIN versions /\ attempts[a].origin \in Origins
    BY <1>3, AtWork DEF ContainerAnswers, AttemptType
  <2> DEFINE o == M!OutcomeOf(c, build, attempts[a].origin)
             b == [stage |-> "put", prefix |-> v, outcome |-> o, next |-> 1]
  <2>3. o \in Made(c)
    BY <2>2 DEF Made
  <2>4. batches' = [batches EXCEPT ![a] = b] /\ UNCHANGED bucket
    BY <2>1 DEF Store!Begin, Store!SetBatch
  <2> HIDE DEF o
  <2>5. BatchGoesOn(batches[a], b, versions, bucket, bucket')
    BY <2>2, <2>3 DEF BatchGoesOn, Begins
  <2>6. QED
    BY <1>2, <2>4, <2>5
<1>4. ASSUME NEW a \in Attempts, Publish(a)
      PROVE  Effect
  <2> DEFINE b == batches[a]
             object == Store!Object(b.prefix, b.outcome, b.next)
             stored == {s \in bucket : s.prefix = object.prefix /\ s.path = object.path}
  <2>1. /\ b.stage \in {"put", "head"}
        /\ BatchOK(b, versions, bucket) /\ b.outcome \in Outcomes
        /\ b \in Store!BatchType
    BY <1>4, AtWork, BatchFacts DEF Publish, Store!PutObject, Store!HeadObject, BatchOK
  <2>2. Store!Current(a) = object /\ Store!Stored(Store!Current(a)) = stored
    BY DEF Store!Current, Store!Stored
  <2>3. /\ object.prefix = b.prefix
        /\ object \in bucket => object \in stored
    BY DEF Store!Object
  <2>4. ASSUME Store!Advance(a), UNCHANGED bucket \/ PutBy(batches, bucket, bucket')
        PROVE  Effect
    <3>1. PICK c : /\ batches' = [batches EXCEPT ![a] = c]
                   /\ c = IF batches[a].next = LastItem(batches[a].outcome)
                          THEN [batches[a] EXCEPT !.stage = "published"]
                          ELSE [batches[a] EXCEPT !.stage = "put", !.next = @ + 1]
      BY <2>1, <2>4, AdvanceIs
    <3>2. /\ c.prefix = b.prefix /\ c.outcome = b.outcome
          /\ c.stage \in {"put", "published"}
      BY <2>1, <3>1 DEF Store!BatchType
    <3>3. BatchGoesOn(batches[a], c, versions, bucket, bucket')
      BY <2>1, <3>2 DEF BatchGoesOn, GoesTo
    <3>4. QED
      BY <1>2, <2>4, <3>1, <3>3
  <2>5. CASE Store!PutObject(a) /\ stored = {}
    <3>1. bucket' = bucket \cup {object} /\ b.stage = "put" /\ Store!Advance(a)
      BY <2>2, <2>5 DEF Store!PutObject, Store!PutIfAbsent
    <3>2. PutBy(batches, bucket, bucket')
      BY <3>1 DEF PutBy
    <3>3. QED
      BY <2>4, <3>1, <3>2
  <2>6. CASE Store!PutObject(a) /\ stored # {}
    <3>1. PICK c : /\ batches' = [batches EXCEPT ![a] = c]
                   /\ c = [batches[a] EXCEPT !.stage = "head"]
      BY <2>2, <2>6 DEF Store!PutObject, Store!SetBatch
    <3>2. UNCHANGED bucket /\ b.stage = "put"
      BY <2>2, <2>6 DEF Store!PutObject, Store!PutIfAbsent
    <3>3. /\ c.prefix = b.prefix /\ c.outcome = b.outcome /\ c.next = b.next
          /\ c.stage = "head"
      BY <2>1, <3>1 DEF Store!BatchType
    <3>4. HeadFinds(c, bucket')
      BY <2>3, <2>6, <3>2, <3>3 DEF HeadFinds
    <3>5. BatchGoesOn(batches[a], c, versions, bucket, bucket')
      BY <3>2, <3>3, <3>4 DEF BatchGoesOn, Looks
    <3>6. QED
      BY <1>2, <3>1, <3>2, <3>5
  <2>7. CASE Store!HeadObject(a) /\ object \in stored
    BY <2>2, <2>4, <2>7 DEF Store!HeadObject
  <2>8. CASE Store!HeadObject(a) /\ object \notin stored
    <3>1. PICK c : /\ batches' = [batches EXCEPT ![a] = c]
                   /\ c = [batches[a] EXCEPT !.stage = "conflict"]
      BY <2>2, <2>8 DEF Store!HeadObject, Store!SetBatch
    <3>2. UNCHANGED bucket /\ b.stage = "head"
      BY <2>8 DEF Store!HeadObject
    <3>3. c.prefix = b.prefix /\ c.outcome = b.outcome /\ c.stage = "conflict"
      BY <2>1, <3>1 DEF Store!BatchType
    <3>4. BatchGoesOn(batches[a], c, versions, bucket, bucket')
      BY <2>3, <2>8, <3>2, <3>3 DEF BatchGoesOn, Conflicts
    <3>5. QED
      BY <1>2, <3>1, <3>2, <3>4
  <2>9. QED
    BY <1>4, <2>5, <2>6, <2>7, <2>8 DEF Publish
<1>5. ASSUME NEW a \in Attempts, PublicationRefused(a) \/ Finish(a)
      PROVE  Effect
  <2>1. batches' = [batches EXCEPT ![a] = Store!NoBatch] /\ UNCHANGED bucket
    BY <1>5 DEF PublicationRefused, Finish, Store!Close, Store!SetBatch
  <2>2. QED
    BY <1>2, <2>1 DEF BatchGoesOn, Stays
<1>6. ASSUME NEW b, BatchOK(b, versions, bucket) \/ b = Store!NoBatch
      PROVE  BatchGoesOn(b, Store!Abandoned(b), versions, bucket, bucket')
  <2>1. CASE b.stage # "put"
    BY <2>1 DEF Store!Abandoned, BatchGoesOn, Stays
  <2>2. CASE b.stage = "put"
    <3>1. b \in Store!BatchType
      BY <1>6, <2>2 DEF BatchOK, Store!NoBatch
    <3> DEFINE c == [b EXCEPT !.stage = "orphan"]
    <3>2. c.prefix = b.prefix /\ c.outcome = b.outcome /\ c.stage = "orphan"
      BY <3>1 DEF Store!BatchType
    <3>3. Store!Abandoned(b) = c
      BY <2>2 DEF Store!Abandoned
    <3> HIDE DEF c
    <3>4. QED
      BY <2>2, <3>2, <3>3 DEF BatchGoesOn, GoesTo
  <2>3. QED
    BY <2>1, <2>2
<1>7. ASSUME NEW a \in Attempts, StorageThrows(a)
      PROVE  Effect
  <2>1. batches' = [batches EXCEPT ![a] = Store!Abandoned(batches[a])] /\ UNCHANGED bucket
    BY <1>7 DEF StorageThrows, Store!Throw, Store!SetBatch
  <2>2. BatchOK(batches[a], versions, bucket) \/ batches[a] = Store!NoBatch
    BY AtWork DEF HandlerOK
  <2>3. BatchGoesOn(batches[a], Store!Abandoned(batches[a]), versions, bucket, bucket')
    BY <1>6, <2>2
  <2>4. QED
    BY <1>2, <2>1, <2>3
<1>8. CASE Evict
  <2>1. UNCHANGED bucket
    BY <1>8 DEF Evict, Store!StoreCrash
  <2>2. ASSUME NEW a \in Attempts
        PROVE  BatchGoesOn(batches[a], batches'[a], versions, bucket, bucket')
    <3>1. batches'[a] = batches[a] \/ batches'[a] = Store!Abandoned(batches[a])
      BY <1>8 DEF Evict, Store!StoreCrash
    <3>2. BatchOK(batches[a], versions, bucket) \/ batches[a] = Store!NoBatch
      BY AtWork DEF HandlerOK
    <3>3. CASE batches'[a] = batches[a]
      BY <3>3 DEF BatchGoesOn, Stays
    <3>4. QED
      BY <1>6, <3>1, <3>2, <3>3
  <2>3. QED
    BY <2>1, <2>2
<1>9. ASSUME NEW a \in Attempts, LatePut(a)
      PROVE  Effect
  <2>1. batches' = [batches EXCEPT ![a] = Store!NoBatch]
    BY <1>9 DEF LatePut, Store!OrphanLands, Store!OrphanLost, Store!SetBatch
  <2>2. UNCHANGED bucket \/ PutBy(batches, bucket, bucket')
    BY <1>9
    DEF LatePut, Store!OrphanLands, Store!OrphanLost, Store!PutIfAbsent, Store!Current, PutBy
  <2>3. QED
    BY <1>2, <2>1, <2>2 DEF BatchGoesOn, Stays
<1>10. ASSUME NEW a \in Attempts,
              \/ \E origin \in Origins : Materialize(a, origin)
              \/ ArchiveArrives(a) \/ ContainerRefuses(a) \/ ServiceFails(a)
              \/ ErrorBodyBreaks(a)
       PROVE  UNCHANGED <<bucket, batches>>
  BY <1>10 DEF Materialize, ArchiveArrives, ContainerRefuses, ServiceFails, ErrorBodyBreaks
<1>11. CASE \/ \E d \in Discoveries : HandleRefresh(d)
            \/ \E v \in DOMAIN versions : HandleRecover(v)
            \/ Tick \/ UNCHANGED objectVars
  <2>1. UNCHANGED <<bucket, batches>>
    BY <1>11 DEF HandleRefresh, HandleRecover, Tick, objectVars
  <2>2. QED
    BY <1>1, <2>1
<1>12. QED
  BY <1>1, <1>3, <1>4, <1>5, <1>7, <1>8, <1>9, <1>10, <1>11 DEF ObjectNext, Work

\* The marker is put last, so the put of it makes its batch's outcome whole.
LEMMA MarkerCompletes ==
  ASSUME NEW b, NEW V, NEW B, BatchOK(b, V, B), b.stage \in {"put", "orphan"},
         NEW object, object = Store!Object(b.prefix, b.outcome, b.next),
         object.path = M!MarkerFile
  PROVE  Whole(b.prefix, b.outcome, B \cup {object})
<1>1. /\ b.outcome \in Outcomes /\ b.next \in 1..LastItem(b.outcome)
      /\ Store!Items(b.outcome) = 1..LastItem(b.outcome)
  BY BatchFacts
<1>2. b.next = LastItem(b.outcome)
  BY <1>1, ObjectsOfOutcome
<1>3. QED
  BY <1>1, <1>2 DEF BatchOK, Whole

LEMMA MadeOutcomes ==
  ASSUME NEW c \in Commits
  PROVE  \A o \in Made(c) : o \in Outcomes /\ o.commit = c
<1> SUFFICES ASSUME NEW build \in Builds, NEW origin \in Origins
             PROVE  /\ M!OutcomeOf(c, build, origin) \in Outcomes
                    /\ M!OutcomeOf(c, build, origin).commit = c
  BY DEF Made
<1> QED
  BY DEF Outcomes, M!OutcomeOf, M!MaterializationOutcomes

LEMMA MadeInit == ObjectInit => MInv
<1> SUFFICES ASSUME ObjectInit PROVE MInv
  OBVIOUS
<1>1. bucket = {} /\ \A a \in Attempts : batches[a].stage = "none"
  BY DEF ObjectInit, Store!StoreInit, Store!NoBatch
<1>2. QED
  BY <1>1 DEF MInv, BatchMade, HeadFinds, ObjectsMade, FilledWithMade, FilledIn

\* What is made for a version does not depend on when one looks at the jobs.
LEMMA MadeStep == OInv /\ MInv /\ [ObjectNext]_objectVars => MInv'
<1> SUFFICES ASSUME OInv, MInv, [ObjectNext]_objectVars PROVE MInv'
  OBVIOUS
<1>1. Continues(versions, versions')
  BY ObjectStepOfRegistry, RegistryContinues DEF OInv
<1>2. /\ \A a \in Attempts : BatchGoesOn(batches[a], batches'[a], versions, bucket, bucket')
      /\ UNCHANGED bucket \/ PutBy(batches, bucket, bucket')
  BY BatchEffects
<1>3. bucket \subseteq bucket'
  BY <1>2 DEF PutBy
<1>4. \A v \in DOMAIN versions : /\ v \in DOMAIN versions'
                                 /\ versions'[v].assignment = versions[v].assignment
  BY <1>1 DEF Continues
<1>5. ASSUME NEW a \in Attempts
      PROVE  BatchMade(batches'[a], versions') /\ HeadFinds(batches'[a], bucket')
  <2> DEFINE b == batches[a]
             c == batches'[a]
  <2>1. BatchMade(b, versions) /\ HeadFinds(b, bucket)
    BY DEF MInv
  <2>2. b.stage # "none" => b.prefix \in DOMAIN versions
    BY AtWork DEF BatchOK
  <2>3. BatchGoesOn(b, c, versions, bucket, bucket')
    BY <1>2
  <2>4. CASE Stays(b, c, versions, bucket, bucket')
    BY <1>3, <1>4, <2>1, <2>2, <2>4 DEF Stays, Store!NoBatch, BatchMade, HeadFinds
  <2>5. CASE Begins(b, c, versions, bucket, bucket')
    BY <1>4, <2>5 DEF Begins, BatchMade, HeadFinds
  <2>6. CASE \/ GoesTo(b, c, versions, bucket, bucket')
             \/ Conflicts(b, c, versions, bucket, bucket')
    BY <1>4, <2>1, <2>2, <2>6 DEF GoesTo, Conflicts, BatchMade, HeadFinds
  <2>7. CASE Looks(b, c, versions, bucket, bucket')
    BY <1>4, <2>1, <2>2, <2>7 DEF Looks, BatchMade
  <2>8. QED
    BY <2>3, <2>4, <2>5, <2>6, <2>7 DEF BatchGoesOn
<1>6. CASE UNCHANGED bucket
  <2>1. ObjectsMade(versions', bucket')
    BY <1>4, <1>6 DEF MInv, ObjectsMade
  <2>2. FilledWithMade(versions', bucket')
    BY <1>4, <1>6 DEF MInv, ObjectsMade, FilledWithMade, FilledIn
  <2>3. QED
    BY <1>5, <2>1, <2>2 DEF MInv
<1>7. CASE PutBy(batches, bucket, bucket')
  <2>1. PICK a \in Attempts :
          /\ batches[a].stage \in {"put", "orphan"}
          /\ bucket' = bucket \cup
               {Store!Object(batches[a].prefix, batches[a].outcome, batches[a].next)}
    BY <1>7 DEF PutBy
  <2> DEFINE b == batches[a]
             object == Store!Object(b.prefix, b.outcome, b.next)
  <2>2. BatchOK(b, versions, bucket)
    BY <2>1, AtWork
  <2>3. /\ b.prefix \in DOMAIN versions
        /\ b.next \in Store!Items(b.outcome)
        /\ b.outcome \in Made(versions'[b.prefix].assignment.commit)
    BY <1>4, <2>1, <2>2 DEF BatchOK, MInv, BatchMade
  <2>4. object.prefix = b.prefix
    BY DEF Store!Object
  <2>5. object.path = M!MarkerFile => Whole(b.prefix, b.outcome, bucket')
    BY <2>1, <2>2, MarkerCompletes
  <2>6. bucket' = bucket \cup {object}
    BY <2>1
  <2>7. /\ \A s \in bucket : s.prefix \in DOMAIN versions
        /\ \A s \in bucket : \E o \in Made(versions'[s.prefix].assignment.commit) :
             \E i \in Store!Items(o) : s = Store!Object(s.prefix, o, i)
    BY <1>4 DEF MInv, ObjectsMade
  <2>8. \E o \in Made(versions'[object.prefix].assignment.commit) :
             \E i \in Store!Items(o) : object = Store!Object(object.prefix, o, i)
    BY <2>3, <2>4
  <2> HIDE DEF object, b
  <2>9. ObjectsMade(versions', bucket')
    BY <1>4, <2>3, <2>4, <2>6, <2>7, <2>8 DEF ObjectsMade
  <2>10. ASSUME NEW p \in FilledIn(bucket')
         PROVE  \E o \in Made(versions'[p].assignment.commit) : Whole(p, o, bucket')
    <3>1. CASE p \in FilledIn(bucket)
      <4>1. p \in DOMAIN versions
        BY <2>7, <3>1 DEF FilledIn
      <4>2. PICK o \in Made(versions[p].assignment.commit) : Whole(p, o, bucket)
        BY <3>1 DEF MInv, FilledWithMade
      <4>3. QED
        BY <1>3, <1>4, <4>1, <4>2 DEF Whole
    <3>2. CASE p \notin FilledIn(bucket)
      <4>1. p = object.prefix /\ object.path = M!MarkerFile
        BY <2>6, <2>10, <3>2 DEF FilledIn
      <4>2. QED
        BY <2>3, <2>4, <2>5, <4>1
    <3>3. QED
      BY <3>1, <3>2
  <2>11. FilledWithMade(versions', bucket')
    BY <2>10 DEF FilledWithMade
  <2>12. QED
    BY <1>5, <2>9, <2>11 DEF MInv
<1>8. QED
  BY <1>2, <1>6, <1>7

LEMMA MadeInvariant == ObjectSpec => [](OInv /\ MInv)
<1>1. ObjectInit => MInv
  BY MadeInit
<1>2. OInv /\ MInv /\ [ObjectNext]_objectVars => MInv'
  BY MadeStep
<1>3. ObjectSpec => []OInv
  BY ObjectInvariant
<1>4. QED
  BY <1>1, <1>2, <1>3, PTL DEF ObjectSpec

(***************************************************************************)
(* Reproducible retries: whatever build and origin a retry is done by, it  *)
(* publishes the same objects for a commit ("A retry writes the same R2    *)
(* keys and bytes", DESIGN.md:499).                                        *)
(***************************************************************************)
RetriesAreAlike ==
  \A c \in Commits, b, e \in Builds, x, y \in Origins :
    M!PublishedUploads(M!OutcomeOf(c, b, x)) = M!PublishedUploads(M!OutcomeOf(c, e, y))

\* With one build, that is so when there is one origin too, or no failure module.
LEMMA OneBuildRetriesAlike ==
  ASSUME \A b, e \in Builds : b = e,
         \/ \A x, y \in Origins : x = y
         \/ Succeeds = Commits \X Builds
  PROVE  RetriesAreAlike
<1> SUFFICES ASSUME NEW c \in Commits, NEW b \in Builds, NEW x \in Origins, NEW y \in Origins
             PROVE  M!PublishedUploads(M!OutcomeOf(c, b, x)) =
                    M!PublishedUploads(M!OutcomeOf(c, b, y))
  BY DEF RetriesAreAlike
<1>1. CASE x = y
  BY <1>1
<1>2. CASE <<c, b>> \in Succeeds
  <2> DEFINE o == M!OutcomeOf(c, b, x)
             e == M!OutcomeOf(c, b, y)
  <2>1. /\ o.state = "ready" /\ o.commit = c /\ o.build = b
        /\ e.state = "ready" /\ e.commit = c /\ e.build = b
    BY <1>2 DEF M!OutcomeOf
  <2> HIDE DEF o, e
  <2>2. M!FilesOf(o) = M!FilesOf(e)
    BY <2>1 DEF M!FilesOf, M!SourceFiles
  <2>3. M!PublishedUploads(o) = M!PublishedUploads(e)
    BY <2>1, <2>2 DEF M!PublishedUploads
  <2>4. QED
    BY <2>3 DEF o, e
<1>3. QED
  BY <1>1, <1>2

\* A batch never finds an object of another outcome under one of its keys.
NoneConflicts == \A a \in Attempts : batches[a].stage # "conflict"

\* What is stored of a filled version is what the outcome that filled it put there.
FilledHoldsOneOutcome ==
  \A s \in bucket :
    s.prefix \in Filled =>
      \E o \in Outcomes :
        /\ Store!Complete(s.prefix, o)
        /\ \E i \in Store!Items(o) : s = Store!Object(s.prefix, o, i)

LEMMA AlikeObjects ==
  ASSUME RetriesAreAlike, NEW c \in Commits, NEW o \in Made(c), NEW e \in Made(c)
  PROVE  /\ M!PublishedUploads(o) = M!PublishedUploads(e)
         /\ Store!Items(o) = Store!Items(e)
         /\ \A p : \A i \in Store!Items(o) : Store!Object(p, o, i) = Store!Object(p, e, i)
<1>1. M!PublishedUploads(o) = M!PublishedUploads(e)
  BY DEF RetriesAreAlike, Made
<1>2. o \in Outcomes /\ e \in Outcomes
  BY MadeOutcomes
<1>3. QED
  BY <1>1, <1>2 DEF Store!Items, Store!Object, Uploads

LEMMA NoConflictStep ==
  ASSUME OInv, MInv, RetriesAreAlike, [ObjectNext]_objectVars, NoneConflicts
  PROVE  NoneConflicts'
<1> SUFFICES ASSUME NEW a \in Attempts, batches'[a].stage = "conflict" PROVE FALSE
  BY DEF NoneConflicts
<1> DEFINE b == batches[a]
           object == Store!Object(b.prefix, b.outcome, b.next)
<1>1. b.stage = "head" /\ object \notin bucket
  BY BatchEffects
  DEF BatchGoesOn, Stays, Begins, GoesTo, Looks, Conflicts, NoneConflicts, Store!NoBatch
<1>2. BatchOK(b, versions, bucket)
  BY <1>1, AtWork
<1> DEFINE c == versions[b.prefix].assignment.commit
<1>3. /\ b.outcome \in Made(c) /\ c \in Commits
      /\ b.next \in Store!Items(b.outcome)
      /\ b.outcome \in Outcomes
  BY <1>1, <1>2, BatchFacts DEF MInv, BatchMade, BatchOK, Outcomes, M!MaterializationOutcomes
<1>4. PICK s \in bucket : s.prefix = b.prefix /\ s.path = object.path
  BY <1>1 DEF MInv, HeadFinds
<1>5. PICK o \in Made(c) : \E i \in Store!Items(o) : s = Store!Object(b.prefix, o, i)
  BY <1>4 DEF MInv, ObjectsMade
<1>6. PICK i \in Store!Items(b.outcome) : s = Store!Object(b.prefix, b.outcome, i)
  BY <1>3, <1>5, AlikeObjects
<1>7. /\ i \in 1..LastItem(b.outcome) /\ b.next \in 1..LastItem(b.outcome)
  BY <1>3, <1>6, ObjectsOfOutcome
<1>8. M!PublishedUploads(b.outcome)[i].path = M!PublishedUploads(b.outcome)[b.next].path
  BY <1>3, <1>4, <1>6 DEF Store!Object, Uploads
<1>9. M!PublishedUploads(b.outcome)[i] = M!PublishedUploads(b.outcome)[b.next]
  BY <1>3, <1>7, <1>8, OneUploadPerPath
<1>10. s = object
  BY <1>3, <1>6, <1>9 DEF Store!Object, Uploads
<1>11. QED
  BY <1>1, <1>4, <1>10

(***************************************************************************)
(* When retries are alike, no publication is ever refused: a retry of a    *)
(* version that was left half written finds its own objects there, however *)
(* handlers race and whatever puts land late (publishArtifact's 409).      *)
(***************************************************************************)
THEOREM AlikeRetriesAreNotRefused == RetriesAreAlike => (ObjectSpec => []NoneConflicts)
<1> SUFFICES ASSUME RetriesAreAlike PROVE ObjectSpec => []NoneConflicts
  OBVIOUS
<1>1. ObjectInit => NoneConflicts
  BY DEF ObjectInit, Store!StoreInit, Store!NoBatch, NoneConflicts
<1>2. OInv /\ MInv /\ [ObjectNext]_objectVars /\ NoneConflicts => NoneConflicts'
  BY NoConflictStep
<1>3. ObjectSpec => [](OInv /\ MInv)
  BY MadeInvariant
<1>4. QED
  BY <1>1, <1>2, <1>3, PTL DEF ObjectSpec

(***************************************************************************)
(* When retries are alike, partial uploads are unreachable: what is stored *)
(* of a version whose marker is there belongs to the outcome that          *)
(* completed it (publishArtifactBatch).                                    *)
(***************************************************************************)
THEOREM AlikeRetriesLeaveNothingOver ==
  RetriesAreAlike => (ObjectSpec => []FilledHoldsOneOutcome)
<1> SUFFICES ASSUME RetriesAreAlike PROVE ObjectSpec => []FilledHoldsOneOutcome
  OBVIOUS
<1>1. OInv /\ MInv => FilledHoldsOneOutcome
  <2> SUFFICES ASSUME OInv, MInv, NEW s \in bucket, s.prefix \in Filled
               PROVE  \E o \in Outcomes :
                        /\ Store!Complete(s.prefix, o)
                        /\ \E i \in Store!Items(o) : s = Store!Object(s.prefix, o, i)
    BY DEF FilledHoldsOneOutcome
  <2> DEFINE c == versions[s.prefix].assignment.commit
  <2>1. PICK o \in Made(c) : \E i \in Store!Items(o) : s = Store!Object(s.prefix, o, i)
    BY DEF MInv, ObjectsMade
  <2>2. PICK e \in Made(c) : Whole(s.prefix, e, bucket)
    BY DEF MInv, FilledWithMade, Filled, FilledIn
  <2>3. c \in Commits
    BY DEF MInv, ObjectsMade, OInv, RInv, RegistryTypeOK, Jobs, Rows
  <2>4. e \in Outcomes /\ \E i \in Store!Items(e) : s = Store!Object(s.prefix, e, i)
    BY <2>1, <2>2, <2>3, AlikeObjects, MadeOutcomes
  <2>5. QED
    BY <2>2, <2>4 DEF Store!Complete, Whole
<1>2. ObjectSpec => [](OInv /\ MInv)
  BY MadeInvariant
<1>3. QED
  BY <1>1, <1>2, PTL

-----------------------------------------------------------------------------
(***************************************************************************)
(* The object implements PublishedPackage.  What clients see, of the jobs  *)
(* V and the bucket B:                                                     *)
(***************************************************************************)
IssuedOf(V) == [v \in DOMAIN V |-> V[v].assignment.commit]
AdvertisedOf(V) == [v \in {w \in DOMAIN V : V[w].state \in Published} |-> V[v].state]
ContentsOf(B) == [v \in FilledIn(B) |-> FilesIn(v, B)]
FilesOfOutcomes == [o \in Outcomes |-> M!ManifestOf(o)]

LEMMA ClientsSee ==
  /\ IssuedOf(versions) = [v \in DOMAIN versions |-> versions[v].assignment.commit]
  /\ AdvertisedOf(versions) =
       [v \in {w \in DOMAIN versions : versions[w].state \in Published} |-> versions[v].state]
  /\ ContentsOf(bucket) = [v \in Filled |-> Gettable(v)]
<1>1. Filled = FilledIn(bucket)
  BY DEF Filled, FilledIn
<1>2. \A v : Gettable(v) = FilesIn(v, bucket)
  BY DEF Gettable, Listing, FilesIn
<1>3. QED
  BY <1>1, <1>2 DEF IssuedOf, AdvertisedOf, ContentsOf

\* A version is filled with the files of an outcome for its commit.
LEMMA FilledWith ==
  ASSUME NEW V, NEW B, Marked(V, B), OneObjectPerKey(B), NEW v \in FilledIn(B)
  PROVE  /\ v \in DOMAIN V
         /\ \E o \in Outcomes : /\ o.commit = V[v].assignment.commit
                              /\ Whole(v, o, B)
                              /\ FilesIn(v, B) = M!ManifestOf(o)
<1>1. PICK s \in B : s.path = M!MarkerFile /\ s.prefix = v
  BY DEF FilledIn
<1>2. PICK o \in Outcomes : /\ Whole(v, o, B)
                           /\ v \in DOMAIN V
                           /\ o.commit = V[v].assignment.commit
  BY <1>1 DEF Marked
<1>3. FilesIn(v, B) = M!ManifestOf(o)
  BY <1>2, FilesOfWhole
<1>4. QED
  BY <1>2, <1>3

\* A version that is stored whole is filled.
LEMMA WholeIsFilled ==
  ASSUME NEW o \in Outcomes, NEW p, NEW B, Whole(p, o, B)
  PROVE  p \in FilledIn(B)
<1> DEFINE m == Store!Object(p, o, LastItem(o))
<1>1. LastItem(o) \in Store!Items(o) /\ m.prefix = p /\ m.path = M!MarkerFile
  BY ObjectsOfOutcome
<1>2. m \in B
  BY <1>1 DEF Whole
<1>3. QED
  BY <1>1, <1>2 DEF FilledIn

\* A put keeps the contents of what is filled, and fills one version or none.
LEMMA PutFills ==
  ASSUME NEW V, NEW B, NEW C, Marked(V, B), OneObjectPerKey(B), PutOK(V, B, C)
  PROVE  \/ ContentsOf(C) = ContentsOf(B)
         \/ \E v \in DOMAIN V :
              /\ Clients!GrowsBy(ContentsOf(B), ContentsOf(C), v)
              /\ \E o \in Outcomes : /\ o.commit = V[v].assignment.commit
                                   /\ ContentsOf(C)[v] = M!ManifestOf(o)
<1>1. PICK object : C \subseteq B \cup {object}
  BY DEF PutOK
<1>2. B \subseteq C /\ Marked(V, C) /\ OneObjectPerKey(C)
  BY DEF PutOK
<1>3. FilledIn(B) \subseteq FilledIn(C)
  BY <1>2 DEF FilledIn
<1>4. ASSUME NEW v \in FilledIn(B)
      PROVE  FilesIn(v, C) = FilesIn(v, B)
  <2>1. PICK o \in Outcomes : Whole(v, o, B) /\ FilesIn(v, B) = M!ManifestOf(o)
    BY FilledWith
  <2>2. Whole(v, o, C)
    BY <1>2, <2>1 DEF Whole
  <2>3. FilesIn(v, C) = M!ManifestOf(o)
    BY <1>2, <2>2, FilesOfWhole
  <2>4. QED
    BY <2>1, <2>3
<1>5. CASE FilledIn(C) = FilledIn(B)
  BY <1>4, <1>5 DEF ContentsOf
<1>6. CASE FilledIn(C) # FilledIn(B)
  <2>1. PICK v : v \in FilledIn(C) /\ v \notin FilledIn(B)
    BY <1>3, <1>6
  <2>2. FilledIn(C) = FilledIn(B) \cup {v}
    <3>1. ASSUME NEW w \in FilledIn(C), w \notin FilledIn(B)
          PROVE  w = object.prefix
      BY <1>1, <3>1 DEF FilledIn
    <3>2. QED
      BY <1>3, <2>1, <3>1
  <2>3. v \in DOMAIN V /\ \E o \in Outcomes : /\ o.commit = V[v].assignment.commit
                                            /\ FilesIn(v, C) = M!ManifestOf(o)
    BY <1>2, <2>1, FilledWith
  <2>4. Clients!GrowsBy(ContentsOf(B), ContentsOf(C), v)
    BY <1>4, <2>1, <2>2 DEF Clients!GrowsBy, Clients!Grows, ContentsOf
  <2>5. ContentsOf(C)[v] = FilesIn(v, C)
    BY <2>1 DEF ContentsOf
  <2>6. QED
    BY <2>3, <2>4, <2>5
<1>7. QED
  BY <1>5, <1>6

\* A completed version is advertised as what it is filled with.
LEMMA CompletedIsAdvertised ==
  ASSUME NEW v, NEW o, NEW V, NEW W, NEW B, Completes(v, o, V, W, B), OneObjectPerKey(B)
  PROVE  /\ IssuedOf(W) = IssuedOf(V)
         /\ v \in FilledIn(B)
         /\ Clients!GrowsBy(AdvertisedOf(V), AdvertisedOf(W), v)
         /\ \A e \in Outcomes : ContentsOf(B)[v] = M!ManifestOf(e) =>
                                AdvertisedOf(W)[v] = e.state
<1>1. o \in Outcomes /\ Whole(v, o, B) /\ o.state \in Published
  BY DEF Completes, Outcomes, M!MaterializationOutcomes, Published
<1>2. v \in FilledIn(B)
  BY <1>1, WholeIsFilled
<1>3. ContentsOf(B)[v] = M!ManifestOf(o)
  BY <1>1, <1>2, FilesOfWhole DEF ContentsOf
<1>4. \A w \in DOMAIN V : W[w].assignment = V[w].assignment
  BY DEF Completes
<1>5. IssuedOf(W) = IssuedOf(V)
  BY <1>4 DEF IssuedOf, Completes
<1>6. {w \in DOMAIN W : W[w].state \in Published} =
        {w \in DOMAIN V : V[w].state \in Published} \cup {v}
  BY <1>1 DEF Completes
<1>7. AdvertisedOf(W)[v] = o.state
  BY <1>6 DEF AdvertisedOf, Completes
<1>8. Clients!GrowsBy(AdvertisedOf(V), AdvertisedOf(W), v)
  BY <1>6 DEF AdvertisedOf, Completes, Clients!GrowsBy, Clients!Grows
<1>9. QED
  BY <1>1, <1>2, <1>3, <1>5, <1>7, <1>8, ManifestTellsState

\* Other steps may issue versions and do nothing else.
LEMMA QuietIssues ==
  ASSUME NEW V, NEW W, Continues(V, W), PublishesNothing(V, W)
  PROVE  /\ Clients!Grows(IssuedOf(V), IssuedOf(W))
         /\ AdvertisedOf(W) = AdvertisedOf(V)
<1>1. Clients!Grows(IssuedOf(V), IssuedOf(W))
  BY DEF Continues, Clients!Grows, IssuedOf
<1>2. {w \in DOMAIN W : W[w].state \in Published} = {w \in DOMAIN V : V[w].state \in Published}
  BY DEF Continues, PublishesNothing
<1>3. \A w \in {w \in DOMAIN V : V[w].state \in Published} : W[w].state = V[w].state
  BY DEF Continues
<1>4. QED
  BY <1>1, <1>2, <1>3 DEF AdvertisedOf

LEMMA ClientsStep == OInv /\ [ObjectNext]_objectVars => [Clients!Next]_(Clients!clientVars)
<1> SUFFICES ASSUME OInv, [ObjectNext]_objectVars
             PROVE  Clients!Next \/ UNCHANGED Clients!clientVars
  OBVIOUS
<1> DEFINE I == [v \in DOMAIN versions |-> versions[v].assignment.commit]
           A == [v \in {w \in DOMAIN versions : versions[w].state \in Published} |->
                   versions[v].state]
           C == [v \in Filled |-> Gettable(v)]
<1>1. /\ I = IssuedOf(versions) /\ I' = IssuedOf(versions')
      /\ A = AdvertisedOf(versions) /\ A' = AdvertisedOf(versions')
      /\ C = ContentsOf(bucket) /\ C' = ContentsOf(bucket')
  <2>1. /\ I = IssuedOf(versions) /\ A = AdvertisedOf(versions) /\ C = ContentsOf(bucket)
    BY ClientsSee
  <2>2. Filled' = FilledIn(bucket')
    BY DEF Filled, FilledIn
  <2>3. \A v : Gettable(v)' = FilesIn(v, bucket')
    BY DEF Gettable, Listing, FilesIn
  <2>4. /\ I' = IssuedOf(versions') /\ A' = AdvertisedOf(versions') /\ C' = ContentsOf(bucket')
    BY <2>2, <2>3 DEF IssuedOf, AdvertisedOf, ContentsOf
  <2> HIDE DEF I, A, C
  <2>5. QED
    BY <2>1, <2>4
<1>2. Continues(versions, versions')
  BY ObjectStepOfRegistry, RegistryContinues DEF OInv
<1>3. Marked(versions, bucket) /\ OneObjectPerKey(bucket)
  BY DEF OInv
<1> HIDE DEF I, A, C
<1>4. CASE UNCHANGED versions /\ PutOK(versions, bucket, bucket')
  <2>1. I' = I /\ A' = A
    BY <1>1, <1>4
  <2>2. CASE C' = C
    BY <2>1, <2>2 DEF Clients!clientVars, I, A, C
  <2>3. CASE \E v \in DOMAIN versions :
              /\ Clients!GrowsBy(C, C', v)
              /\ \E o \in Outcomes : /\ o.commit = versions[v].assignment.commit
                                   /\ C'[v] = M!ManifestOf(o)
    <3>1. \E v \in DOMAIN I :
            /\ Clients!GrowsBy(C, C', v)
            /\ \E o \in Outcomes : o.commit = I[v] /\ C'[v] = FilesOfOutcomes[o]
      BY <1>1, <2>3 DEF IssuedOf, FilesOfOutcomes
    <3>2. Clients!Fill
      BY <2>1, <3>1 DEF Clients!Fill, I, A, C, FilesOfOutcomes
    <3>3. QED
      BY <3>2 DEF Clients!Next
  <2>4. QED
    BY <1>1, <1>3, <1>4, <2>2, <2>3, PutFills
<1>5. CASE UNCHANGED bucket /\ PublishesNothing(versions, versions')
  <2>1. Clients!Grows(I, I') /\ A' = A /\ C' = C
    BY <1>1, <1>2, <1>5, QuietIssues
  <2>2. Clients!Issue
    BY <2>1 DEF Clients!Issue, I, A, C
  <2>3. QED
    BY <2>2 DEF Clients!Next
<1>6. ASSUME UNCHANGED bucket,
             NEW v, NEW o, Completes(v, o, versions, versions', bucket)
      PROVE  Clients!Next
  <2>1. I' = I /\ C' = C /\ v \in DOMAIN C /\ Clients!GrowsBy(A, A', v)
    BY <1>1, <1>3, <1>6, CompletedIsAdvertised DEF ContentsOf
  <2>2. \A e \in Outcomes : C[v] = FilesOfOutcomes[e] => A'[v] = e.state
    BY <1>1, <1>3, <1>6, CompletedIsAdvertised DEF FilesOfOutcomes
  <2>3. Clients!Advertise
    BY <2>1, <2>2 DEF Clients!Advertise, I, A, C, FilesOfOutcomes
  <2>4. QED
    BY <2>3 DEF Clients!Next
<1>7. QED
  BY <1>4, <1>5, <1>6, ObjectEffects

LEMMA ClientsInit == ObjectInit => Clients!Init
<1> SUFFICES ASSUME ObjectInit
             PROVE  Clients!Init
  OBVIOUS
<1>1. DOMAIN versions = {} /\ bucket = {}
  BY DEF ObjectInit, RegistryInit, Store!StoreInit
<1>2. Filled = {} /\ {w \in DOMAIN versions : versions[w].state \in Published} = {}
  BY <1>1 DEF Filled
<1>3. QED
  BY <1>1, <1>2 DEF Clients!Init

(***************************************************************************)
(* Whatever races, fails or is evicted, clients see a package whose        *)
(* versions are filled once and at once, and are advertised after that as  *)
(* what they hold.                                                         *)
(***************************************************************************)
THEOREM ObjectImplementsPublishedPackage == ObjectSpec => ObjectPublishes
BY ClientsInit, ClientsStep, ObjectInvariant, PTL DEF ObjectSpec, ObjectPublishes, Clients!Spec
====
