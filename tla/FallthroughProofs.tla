---- MODULE FallthroughProofs ----
(***************************************************************************)
(* Proofs about Fallthrough, for any modules of jsr.io, any paths and any  *)
(* number of requests.  The strengthening is that a read carries metadata  *)
(* of its own release, and that a body which waits to be stored passed the *)
(* check against it; a manifest, damaged or not, vouches for no other body *)
(* than the published one.                                                 *)
(***************************************************************************)
EXTENDS Fallthrough, SequenceTheorems, TLAPS

\* What immutablePath makes of a path.
ModuleResource(x) ==
  /\ x = Module(x.package, x.version, x.file) /\ x.kind = "module"
  /\ x.file \in Seq(STRING) /\ Len(x.file) >= 1 /\ x.file[1] # ""
ReleaseResource(x) == x = Release(x.package, x.version) /\ x.kind = "release"

\* What may be served: a genuine module, listed as it is looked up.
Servable(m, body) == Genuine(m, body) /\ ReleaseOf(m) \notin Slashed

IsRead(x) == x = [stage |-> x.stage, resource |-> x.resource,
                  manifest |-> x.manifest, body |-> x.body]

\* What is true of a read at each stage.
ReadOK(x) ==
  /\ IsRead(x) /\ x.stage \in Stages
  /\ \/ x.stage \in {"idle", "forwarded"}
     \/ ModuleResource(x.resource)
     \/ ReleaseResource(x.resource) /\ x.stage \in {"release", "storeRelease", "served"}
  /\ x.stage \in {"storeRelease", "module", "storeModule", "refused"} =>
       x.manifest \in Arriving(Awaited(x))
  /\ x.stage = "storeModule" => x.body \in Contents /\ Passes(x.resource, x.manifest, x.body)
  /\ x.stage \in {"module", "storeModule"} => ReleaseOf(x.resource) \notin Slashed
  /\ x.stage = "served" /\ x.resource.kind = "module" => Servable(x.resource, x.body)
  /\ x.stage = "refused" =>
       \/ ~\E e \in x.manifest : e.name = x.resource.file
       \/ x.body \in Contents /\ ~Passes(x.resource, x.manifest, x.body)

ReadsOK ==
  /\ reads = [r \in Readers |-> reads[r]]
  /\ \A r \in Readers : ReadOK(reads[r])

CachedOK(k, body) ==
  \/ k.kind = "release" /\ body \in Arriving(k)
  \/ k.kind = "module" /\ body \in Contents /\ Servable(k, body)
CacheOK == \A k \in DOMAIN cache : CachedOK(k, cache[k])

FInv == CacheOK /\ ReadsOK

\* A record made by Release or Module is told by its fields.
LEMMA ReleaseFields ==
  ASSUME NEW a, NEW v
  PROVE  /\ Release(a, v).kind = "release"
         /\ Release(a, v).package = a /\ Release(a, v).version = v
BY DEF Release

LEMMA ModuleFields ==
  ASSUME NEW a, NEW v, NEW f
  PROVE  /\ Module(a, v, f).kind = "module" /\ Module(a, v, f).package = a
         /\ Module(a, v, f).version = v /\ Module(a, v, f).file = f
BY DEF Module

\* A recognised path gives a release, or a module whose path has a first segment.
LEMMA ResourceKind ==
  ASSUME NEW p \in Seq(STRING)
  PROVE  \/ Resource(p) = Mutable
         \/ ReleaseResource(Resource(p))
         \/ ModuleResource(Resource(p))
<1> DEFINE file == SubSeq(p, 4, Len(p))
           IsRelease == Len(p) = 3 /\ p[1] \in AtSegments /\ p[3] \in DOMAIN MetadataFiles
           IsModule == /\ Len(p) >= 4
                       /\ p[1] \in AtSegments /\ p[2] # "" /\ p[3] # ""
                       /\ \A i \in 4..Len(p) : p[i] \notin {"", ".", ".."}
<1>1. CASE IsRelease
  <2>1. Resource(p) = Release(<<p[1], p[2]>>, MetadataFiles[p[3]])
    BY <1>1 DEF Resource
  <2>2. QED
    BY <2>1, ReleaseFields DEF ReleaseResource
<1>2. CASE ~IsRelease /\ IsModule
  <2>1. Resource(p) = Module(<<p[1], p[2]>>, p[3], file)
    BY <1>2 DEF Resource
  <2>2. 4 \in 4..Len(p) /\ Len(p) \in Nat
    <3>1. Len(p) >= 4
      BY <1>2, Zenon
    <3>2. Len(p) \in Nat
      OBVIOUS
    <3>3. QED
      BY <3>1, <3>2
  <2>3. p[4] # ""
    BY <1>2, <2>2
  <2>4. file \in Seq(STRING) /\ Len(file) = Len(p) - 3 /\ file[1] = p[4]
    BY <2>2, SubSeqProperties
  <2>5. Len(file) >= 1
    BY <2>2, <2>4
  <2> HIDE DEF file
  <2>6. /\ Resource(p).kind = "module" /\ Resource(p).package = <<p[1], p[2]>>
        /\ Resource(p).version = p[3] /\ Resource(p).file = file
    BY <2>1, ModuleFields
  <2>7. Resource(p) = Module(Resource(p).package, Resource(p).version, Resource(p).file)
    BY <2>1, <2>6
  <2>8. Resource(p).file[1] # "" /\ Len(Resource(p).file) >= 1 /\ Resource(p).file \in Seq(STRING)
    BY <2>3, <2>4, <2>5, <2>6
  <2>9. QED
    BY <2>6, <2>7, <2>8 DEF ModuleResource
<1>3. CASE ~IsRelease /\ ~IsModule
  <2> HIDE DEF IsRelease, IsModule
  <2>1. Resource(p) = IF IsRelease THEN Release(<<p[1], p[2]>>, MetadataFiles[p[3]])
                      ELSE IF IsModule THEN Module(<<p[1], p[2]>>, p[3], file) ELSE Mutable
    BY DEF Resource, IsRelease, IsModule
  <2>2. QED
    BY <1>3, <2>1
<1>4. QED
  BY <1>1, <1>2, <1>3

\* Whatever arrives of a release, an entry with the name under which a module is
\* looked up is the module's own, and its checksum is intact or no body's.
LEMMA FoundIsListed ==
  ASSUME NEW m, ModuleResource(m), NEW manifest \in Arriving(ReleaseOf(m)),
         NEW entry \in manifest, entry.name = m.file
  PROVE  /\ m \in DOMAIN Modules /\ ReleaseOf(m) \notin Slashed
         /\ entry.checksum \in {Modules[m], Mangled}
<1> DEFINE release == ReleaseOf(m)
<1>1. \E x \in Manifest(release) :
        x.name = m.file /\ entry.checksum \in {x.checksum, Mangled}
  <2>1. CASE manifest = Manifest(release)
    BY <2>1
  <2>2. CASE manifest = Unreadable
    BY <2>2 DEF Unreadable
  <2>3. ASSUME NEW x \in Manifest(release),
               manifest = (Manifest(release) \ {x}) \cup {[x EXCEPT !.checksum = Mangled]}
        PROVE  \E y \in Manifest(release) :
                 y.name = m.file /\ entry.checksum \in {y.checksum, Mangled}
    <3>1. PICK n : x = Listed(n, Modules[n])
      BY DEF Manifest
    <3>2. [x EXCEPT !.checksum = Mangled].checksum = Mangled
          /\ [x EXCEPT !.checksum = Mangled].name = x.name
      BY <3>1 DEF Listed
    <3>3. entry \in Manifest(release) \/ entry = [x EXCEPT !.checksum = Mangled]
      BY <2>3
    <3>4. QED
      BY <3>2, <3>3
  <2>4. QED
    BY <2>1, <2>2, <2>3 DEF Arriving
<1>2. PICK n \in DOMAIN Modules :
        /\ ReleaseOf(n) = release /\ ListedName(n) = m.file
        /\ entry.checksum \in {Modules[n], Mangled}
  BY <1>1 DEF Manifest, Listed
<1>3. n = Module(n.package, n.version, n.file) /\ n.file \in Seq(STRING)
  BY ModulesAssumption
<1>4. release \notin Slashed /\ n.file = m.file
  <2>1. CASE release \notin Slashed
    BY <2>1, <1>2 DEF ListedName
  <2>2. CASE release \in Slashed
    <3>1. <<"">> \o n.file = m.file
      BY <2>2, <1>2 DEF ListedName
    <3>2. (<<"">> \o n.file)[1] = ""
      BY <1>3
    <3>3. QED
      BY <3>1, <3>2 DEF ModuleResource
  <2>3. QED
    BY <2>1, <2>2
<1>5. n.package = m.package /\ n.version = m.version
  BY <1>2 DEF ReleaseOf, Release
<1>6. n = m
  BY <1>3, <1>4, <1>5 DEF ModuleResource
<1>7. QED
  BY <1>2, <1>4, <1>6

\* The only body that passes the check is the one that was published.
LEMMA PassesIsGenuine ==
  ASSUME NEW m, ModuleResource(m), NEW body \in Contents,
         NEW manifest \in Arriving(ReleaseOf(m)), Passes(m, manifest, body)
  PROVE  Genuine(m, body) /\ ReleaseOf(m) \notin Slashed
<1> DEFINE entry == [name |-> m.file, checksum |-> body]
<1>1. entry \in manifest /\ entry.name = m.file /\ entry.checksum = body
  BY DEF Passes
<1>2. body # Mangled
  BY ModulesAssumption
<1> HIDE DEF entry
<1>3. QED
  BY <1>1, <1>2, FoundIsListed DEF Genuine

-----------------------------------------------------------------------------
\* What the steps make of a read.
Rec(stage, resource, manifest, body) ==
  [stage |-> stage, resource |-> resource, manifest |-> manifest, body |-> body]

LEMMA RecFields ==
  ASSUME NEW s, NEW e, NEW m, NEW b
  PROVE  LET x == Rec(s, e, m, b)
         IN  /\ x.stage = s /\ x.resource = e /\ x.manifest = m /\ x.body = b
             /\ IsRead(x)
BY DEF Rec, IsRead

LEMMA OneChange ==
  ASSUME NEW x, IsRead(x), NEW v
  PROVE  /\ [x EXCEPT !.stage = v] = Rec(v, x.resource, x.manifest, x.body)
         /\ [x EXCEPT !.manifest = v] = Rec(x.stage, x.resource, v, x.body)
         /\ [x EXCEPT !.body = v] = Rec(x.stage, x.resource, x.manifest, v)
<1>1. x \in [stage : {x.stage}, resource : {x.resource},
             manifest : {x.manifest}, body : {x.body}]
  BY DEF IsRead
<1>2. [x EXCEPT !.stage = v] = Rec(v, x.resource, x.manifest, x.body)
  BY <1>1 DEF Rec
<1>3. [x EXCEPT !.manifest = v] = Rec(x.stage, x.resource, v, x.body)
  BY <1>1 DEF Rec
<1>4. [x EXCEPT !.body = v] = Rec(x.stage, x.resource, x.manifest, v)
  BY <1>1 DEF Rec
<1>5. QED
  BY <1>2, <1>3, <1>4

LEMMA StageAndManifest ==
  ASSUME NEW x, IsRead(x), NEW s, NEW v
  PROVE  [x EXCEPT !.stage = s, !.manifest = v] = Rec(s, x.resource, v, x.body)
<1>1. PICK y : y = [x EXCEPT !.stage = s]
  OBVIOUS
<1>2. y = Rec(s, x.resource, x.manifest, x.body)
  BY <1>1, OneChange
<1>3. /\ IsRead(y) /\ y.stage = s /\ y.resource = x.resource
      /\ y.manifest = x.manifest /\ y.body = x.body
  BY <1>2, RecFields
<1>4. [y EXCEPT !.manifest = v] = Rec(y.stage, y.resource, v, y.body)
  BY <1>3, OneChange
<1>5. [y EXCEPT !.manifest = v] = Rec(s, x.resource, v, x.body)
  BY <1>3, <1>4
<1>6. QED
  BY <1>1, <1>5, Zenon

LEMMA StageAndBody ==
  ASSUME NEW x, IsRead(x), NEW s, NEW v
  PROVE  [x EXCEPT !.stage = s, !.body = v] = Rec(s, x.resource, x.manifest, v)
<1>1. PICK y : y = [x EXCEPT !.stage = s]
  OBVIOUS
<1>2. y = Rec(s, x.resource, x.manifest, x.body)
  BY <1>1, OneChange
<1>3. /\ IsRead(y) /\ y.stage = s /\ y.resource = x.resource
      /\ y.manifest = x.manifest /\ y.body = x.body
  BY <1>2, RecFields
<1>4. [y EXCEPT !.body = v] = Rec(y.stage, y.resource, y.manifest, v)
  BY <1>3, OneChange
<1>5. [y EXCEPT !.body = v] = Rec(s, x.resource, x.manifest, v)
  BY <1>3, <1>4
<1>6. QED
  BY <1>1, <1>5, Zenon

\* A step that leaves one read in order leaves them all in order.
LEMMA SetKeeps ==
  ASSUME ReadsOK, NEW r \in Readers, NEW read, ReadOK(read), Set(r, read)
  PROVE  ReadsOK'
<1>1. reads' = [q \in Readers |-> IF q = r THEN read ELSE reads[q]]
  BY DEF Set, ReadsOK
<1>2. \A q \in Readers : ReadOK(reads'[q])
  BY <1>1 DEF ReadsOK
<1>3. QED
  BY <1>1, <1>2 DEF ReadsOK

LEMMA PutKeeps ==
  ASSUME CacheOK, NEW k, NEW body, CachedOK(k, body), Put(k, body)
  PROVE  CacheOK'
BY DEF CacheOK, Put

LEMMA ReadIsOK ==
  ASSUME NEW s \in Stages, NEW e, NEW m, NEW b,
         \/ s \in {"idle", "forwarded"}
         \/ ModuleResource(e)
         \/ ReleaseResource(e) /\ s \in {"release", "storeRelease", "served"},
         s \in {"storeRelease", "module", "storeModule", "refused"} =>
           m \in Arriving(IF e.kind = "module" THEN ReleaseOf(e) ELSE e),
         s = "storeModule" => b \in Contents /\ Passes(e, m, b),
         s \in {"module", "storeModule"} => ReleaseOf(e) \notin Slashed,
         s = "served" /\ e.kind = "module" => Servable(e, b),
         s = "refused" =>
           \/ ~\E x \in m : x.name = e.file
           \/ b \in Contents /\ ~Passes(e, m, b)
  PROVE  ReadOK(Rec(s, e, m, b))
<1> DEFINE x == Rec(s, e, m, b)
<1>1. /\ x.stage = s /\ x.resource = e /\ x.manifest = m /\ x.body = b
      /\ IsRead(x)
  BY RecFields
<1> HIDE DEF x
<1>2. ReadOK(x)
  BY <1>1 DEF ReadOK, Awaited
<1>3. QED
  BY <1>2 DEF x

LEMMA IdleOK == ReadOK(Idle)
<1>1. Idle = Rec("idle", Mutable, Nothing, Nothing)
  BY DEF Idle, Rec
<1>2. QED
  BY <1>1, ReadIsOK DEF Stages, Settled

LEMMA ConsultedOK ==
  ASSUME NEW x, IsRead(x), ModuleResource(x.resource),
         NEW manifest \in Arriving(ReleaseOf(x.resource))
  PROVE  ReadOK(Consulted(x, manifest))
<1> DEFINE s == IF \E e \in manifest : e.name = x.resource.file THEN "module" ELSE "refused"
<1>1. Consulted(x, manifest) = Rec(s, x.resource, manifest, x.body)
  BY StageAndManifest DEF Consulted
<1>2. s \in Stages /\ s \in {"module", "refused"}
  BY DEF Stages, Settled
<1>3. /\ s = "refused" => ~\E e \in manifest : e.name = x.resource.file
      /\ s = "module" => ReleaseOf(x.resource) \notin Slashed
  BY FoundIsListed
<1>4. x.resource.kind = "module"
  BY DEF ModuleResource
<1> HIDE DEF s
<1>5. QED
  BY <1>1, <1>2, <1>3, <1>4, ReadIsOK

LEMMA CacheInitFInv == CacheInit => FInv
<1> SUFFICES ASSUME CacheInit PROVE FInv
  OBVIOUS
<1>1. CacheOK
  BY DEF CacheInit, CacheOK
<1>2. ReadsOK
  BY IdleOK DEF CacheInit, ReadsOK
<1>3. QED
  BY <1>1, <1>2 DEF FInv

LEMMA ArriveKeeps ==
  ASSUME FInv, NEW r \in Readers, NEW p \in Paths, NEW isGet \in BOOLEAN, Arrive(r, p, isGet)
  PROVE  FInv'
<1> DEFINE e == IF isGet THEN Resource(p) ELSE Mutable
           x == Rec("forwarded", e, Nothing, Nothing)
           stage == IF e.kind = "release" THEN "release" ELSE "consult"
<1>1. e = Mutable \/ ReleaseResource(e) \/ ModuleResource(e)
  BY PathsAssumption, ResourceKind
<1>2. cache' = cache
  BY DEF Arrive
<1> HIDE DEF e
<1>3. Set(r, IF e = Mutable THEN x
             ELSE IF e \in DOMAIN cache
             THEN [x EXCEPT !.stage = "served", !.body = cache[e]]
             ELSE [x EXCEPT !.stage = stage])
  BY DEF Arrive, Rec, e
<1>4. IsRead(x) /\ x.resource = e /\ x.manifest = Nothing /\ x.body = Nothing
  BY RecFields
<1> HIDE DEF x, stage
<1>5. CASE e = Mutable
  <2>1. ReadOK(Rec("forwarded", e, Nothing, Nothing))
    BY <1>2, ReadIsOK DEF Stages, Settled
  <2>2. Set(r, Rec("forwarded", e, Nothing, Nothing))
    BY <1>3, <1>5 DEF x
  <2>3. QED
    BY <1>2, <2>1, <2>2, SetKeeps DEF FInv, CacheOK
<1>6. CASE e # Mutable /\ e \in DOMAIN cache
  <2>1. [x EXCEPT !.stage = "served", !.body = cache[e]] = Rec("served", e, Nothing, cache[e])
    <3>1. PICK v : v = cache[e]
      OBVIOUS
    <3>2. [x EXCEPT !.stage = "served", !.body = v] =
            Rec("served", x.resource, x.manifest, v)
      BY <1>4, StageAndBody
    <3>3. QED
      BY <1>4, <3>1, <3>2, Zenon
  <2>2. Set(r, Rec("served", e, Nothing, cache[e]))
    BY <1>3, <1>6, <2>1
  <2>3. e.kind = "module" => Servable(e, cache[e])
    BY <1>6 DEF FInv, CacheOK, CachedOK
  <2>4. ReadOK(Rec("served", e, Nothing, cache[e]))
    BY <1>1, <1>2, <1>6, <2>3, ReadIsOK DEF Stages, Settled
  <2>5. QED
    BY <1>2, <2>2, <2>4, SetKeeps DEF FInv, CacheOK
<1>7. CASE e # Mutable /\ e \notin DOMAIN cache
  <2>1. [x EXCEPT !.stage = stage] = Rec(stage, e, Nothing, Nothing)
    <3>1. [x EXCEPT !.stage = stage] = Rec(stage, x.resource, x.manifest, x.body)
      BY <1>4, OneChange
    <3>2. QED
      BY <1>4, <3>1
  <2>2. Set(r, Rec(stage, e, Nothing, Nothing))
    BY <1>3, <1>7, <2>1
  <2>3. /\ stage \in {"release", "consult"} /\ stage \in Stages
        /\ ModuleResource(e) \/ (ReleaseResource(e) /\ stage = "release")
    BY <1>1, <1>7 DEF ReleaseResource, stage, Stages
  <2>4. ReadOK(Rec(stage, e, Nothing, Nothing))
    BY <1>2, <2>3, ReadIsOK
  <2>5. QED
    BY <1>2, <2>2, <2>4, SetKeeps DEF FInv, CacheOK
<1>8. QED
  BY <1>5, <1>6, <1>7

LEMMA ConsultKeeps ==
  ASSUME FInv, NEW r \in Readers, Consult(r)
  PROVE  FInv'
<1> DEFINE x == reads[r]
           release == ReleaseOf(x.resource)
<1>1. ReadOK(x) /\ x.stage = "consult" /\ cache' = cache
  BY DEF FInv, ReadsOK, Consult
<1>2. IsRead(x) /\ ModuleResource(x.resource)
  BY <1>1 DEF ReadOK
<1>3. Set(r, IF release \in DOMAIN cache THEN Consulted(x, cache[release])
             ELSE [x EXCEPT !.stage = "release"])
  BY DEF Consult
<1>4. release.kind = "release"
  BY ReleaseFields DEF ReleaseOf
<1> HIDE DEF x, release
<1>5. CASE release \in DOMAIN cache
  <2>1. cache[release] \in Arriving(release)
    BY <1>4, <1>5 DEF FInv, CacheOK, CachedOK
  <2>2. ReadOK(Consulted(x, cache[release]))
    BY <1>2, <2>1, ConsultedOK DEF release
  <2>3. QED
    BY <1>1, <1>3, <1>5, <2>2, SetKeeps DEF FInv, CacheOK
<1>6. CASE release \notin DOMAIN cache
  <2>1. [x EXCEPT !.stage = "release"] = Rec("release", x.resource, x.manifest, x.body)
    BY <1>2, OneChange
  <2>2. ReadOK(Rec("release", x.resource, x.manifest, x.body))
    BY <1>2, ReadIsOK DEF Stages
  <2>3. Set(r, Rec("release", x.resource, x.manifest, x.body))
    BY <1>3, <1>6, <2>1
  <2>4. QED
    BY <1>1, <2>2, <2>3, SetKeeps DEF FInv, CacheOK
<1>7. QED
  BY <1>5, <1>6

LEMMA ReleaseArrivesKeeps ==
  ASSUME FInv, NEW r \in Readers, ReleaseArrives(r)
  PROVE  FInv'
<1> DEFINE x == reads[r]
<1>1. ReadOK(x) /\ x.stage = "release" /\ cache' = cache
  BY DEF FInv, ReadsOK, ReleaseArrives
<1>2. /\ IsRead(x)
      /\ ModuleResource(x.resource) \/ ReleaseResource(x.resource)
  BY <1>1 DEF ReadOK
<1>3. PICK m \in Arriving(Awaited(x)) : Set(r, [x EXCEPT !.stage = "storeRelease", !.manifest = m])
  BY DEF ReleaseArrives
<1> HIDE DEF x
<1>4. [x EXCEPT !.stage = "storeRelease", !.manifest = m] =
        Rec("storeRelease", x.resource, m, x.body)
  BY <1>2, StageAndManifest
<1>5. ReadOK(Rec("storeRelease", x.resource, m, x.body))
  BY <1>2, ReadIsOK DEF Stages, Awaited
<1>6. QED
  BY <1>1, <1>3, <1>4, <1>5, SetKeeps DEF FInv, CacheOK

LEMMA StoreReleaseKeeps ==
  ASSUME FInv, NEW r \in Readers, StoreRelease(r)
  PROVE  FInv'
<1> DEFINE x == reads[r]
<1>1. ReadOK(x) /\ x.stage = "storeRelease"
  BY DEF FInv, ReadsOK, StoreRelease
<1>2. /\ IsRead(x) /\ x.manifest \in Arriving(Awaited(x))
      /\ ModuleResource(x.resource) \/ ReleaseResource(x.resource)
  BY <1>1 DEF ReadOK
<1>3. /\ Put(Awaited(x), x.manifest)
      /\ Set(r, IF x.resource.kind = "module" THEN Consulted(x, x.manifest)
                ELSE [x EXCEPT !.stage = "served", !.body = x.manifest])
  BY DEF StoreRelease
<1> HIDE DEF x
<1>4. CacheOK'
  <2>1. Awaited(x).kind = "release"
    <3>1. CASE x.resource.kind = "module"
      BY <3>1, ReleaseFields DEF Awaited, ReleaseOf
    <3>2. CASE x.resource.kind # "module"
      BY <1>2, <3>2 DEF Awaited, ModuleResource, ReleaseResource
    <3>3. QED
      BY <3>1, <3>2
  <2>2. CachedOK(Awaited(x), x.manifest)
    BY <1>2, <2>1 DEF CachedOK
  <2>3. QED
    BY <1>3, <2>2, PutKeeps DEF FInv
<1>5. CASE x.resource.kind = "module"
  <2>1. ModuleResource(x.resource) /\ x.manifest \in Arriving(ReleaseOf(x.resource))
    BY <1>2, <1>5 DEF ReleaseResource, Awaited
  <2>2. ReadOK(Consulted(x, x.manifest))
    BY <1>2, <2>1, ConsultedOK
  <2>3. QED
    BY <1>3, <1>4, <1>5, <2>2, SetKeeps DEF FInv
<1>6. CASE x.resource.kind # "module"
  <2>1. [x EXCEPT !.stage = "served", !.body = x.manifest] =
          Rec("served", x.resource, x.manifest, x.manifest)
    <3>1. PICK v : v = x.manifest
      OBVIOUS
    <3>2. [x EXCEPT !.stage = "served", !.body = v] =
            Rec("served", x.resource, x.manifest, v)
      BY <1>2, StageAndBody
    <3>3. QED
      BY <3>1, <3>2, Zenon
  <2>2. ReadOK(Rec("served", x.resource, x.manifest, x.manifest))
    BY <1>2, <1>6, ReadIsOK DEF Stages, Settled, ModuleResource
  <2>3. QED
    BY <1>3, <1>4, <1>6, <2>1, <2>2, SetKeeps DEF FInv
<1>7. QED
  BY <1>5, <1>6

LEMMA ModuleArrivesKeeps ==
  ASSUME FInv, NEW r \in Readers, ModuleArrives(r)
  PROVE  FInv'
<1> DEFINE x == reads[r]
           stage(v) == IF Passes(x.resource, x.manifest, v) THEN "storeModule" ELSE "refused"
<1>1. ReadOK(x) /\ x.stage = "module" /\ cache' = cache
  BY DEF FInv, ReadsOK, ModuleArrives
<1>2. /\ IsRead(x) /\ ModuleResource(x.resource)
      /\ x.manifest \in Arriving(Awaited(x)) /\ ReleaseOf(x.resource) \notin Slashed
  BY <1>1 DEF ReadOK
<1>3. PICK v \in Contents : Set(r, [x EXCEPT !.stage = stage(v), !.body = v])
  BY DEF ModuleArrives
<1> HIDE DEF x
<1>4. [x EXCEPT !.stage = stage(v), !.body = v] =
        Rec(stage(v), x.resource, x.manifest, v)
  <2>1. PICK s : s = stage(v)
    OBVIOUS
  <2>2. [x EXCEPT !.stage = s, !.body = v] = Rec(s, x.resource, x.manifest, v)
    BY <1>2, StageAndBody
  <2> HIDE DEF stage
  <2>3. QED
    BY <2>1, <2>2, Zenon
<1>5. /\ stage(v) \in {"storeModule", "refused"} /\ stage(v) \in Stages
      /\ stage(v) = "storeModule" => Passes(x.resource, x.manifest, v)
      /\ stage(v) = "refused" => ~Passes(x.resource, x.manifest, v)
  BY DEF Stages, Settled
<1> HIDE DEF stage
<1>6. ReadOK(Rec(stage(v), x.resource, x.manifest, v))
  BY <1>2, <1>5, ReadIsOK DEF Awaited
<1>7. QED
  BY <1>1, <1>3, <1>4, <1>6, SetKeeps DEF FInv, CacheOK

\* What is stored passed the check, so it is what was published.
LEMMA StoreModuleKeeps ==
  ASSUME FInv, NEW r \in Readers, StoreModule(r)
  PROVE  FInv'
<1> DEFINE x == reads[r]
<1>1. ReadOK(x) /\ x.stage = "storeModule"
  BY DEF FInv, ReadsOK, StoreModule
<1>2. /\ IsRead(x) /\ ModuleResource(x.resource)
      /\ x.manifest \in Arriving(Awaited(x))
      /\ x.body \in Contents /\ Passes(x.resource, x.manifest, x.body)
  BY <1>1 DEF ReadOK
<1>3. Put(x.resource, x.body) /\ Set(r, [x EXCEPT !.stage = "served"])
  BY DEF StoreModule
<1> HIDE DEF x
<1>4. x.resource.kind = "module" /\ Awaited(x) = ReleaseOf(x.resource)
  BY <1>2 DEF ModuleResource, Awaited
<1>5. Servable(x.resource, x.body)
  BY <1>2, <1>4, PassesIsGenuine DEF Servable
<1>6. CacheOK'
  <2>1. CachedOK(x.resource, x.body)
    BY <1>2, <1>4, <1>5 DEF CachedOK
  <2>2. QED
    BY <1>3, <2>1, PutKeeps DEF FInv
<1>7. [x EXCEPT !.stage = "served"] = Rec("served", x.resource, x.manifest, x.body)
  BY <1>2, OneChange
<1>8. ReadOK(Rec("served", x.resource, x.manifest, x.body))
  BY <1>2, <1>5, ReadIsOK DEF Stages, Settled
<1>9. QED
  BY <1>3, <1>6, <1>7, <1>8, SetKeeps DEF FInv

LEMMA CacheNextFInv == FInv /\ [CacheNext]_cacheVars => FInv'
<1> SUFFICES ASSUME FInv, [CacheNext]_cacheVars PROVE FInv'
  OBVIOUS
<1>1. ASSUME NEW r \in Readers, NEW p \in Paths, NEW isGet \in BOOLEAN, Arrive(r, p, isGet)
      PROVE  FInv'
  BY <1>1, ArriveKeeps
<1>2. ASSUME NEW r \in Readers, HandOn(r) \/ Fail(r) PROVE FInv'
  <2>1. Set(r, Idle) /\ cache' = cache
    BY <1>2 DEF HandOn, Fail
  <2>2. QED
    BY <2>1, IdleOK, SetKeeps DEF FInv, CacheOK
<1>3. ASSUME NEW r \in Readers, Consult(r) PROVE FInv'
  BY <1>3, ConsultKeeps
<1>4. ASSUME NEW r \in Readers, ReleaseArrives(r) PROVE FInv'
  BY <1>4, ReleaseArrivesKeeps
<1>5. ASSUME NEW r \in Readers, StoreRelease(r) PROVE FInv'
  BY <1>5, StoreReleaseKeeps
<1>6. ASSUME NEW r \in Readers, ModuleArrives(r) PROVE FInv'
  BY <1>6, ModuleArrivesKeeps
<1>7. ASSUME NEW r \in Readers, StoreModule(r) PROVE FInv'
  BY <1>7, StoreModuleKeeps
<1>8. ASSUME NEW k \in DOMAIN cache, Drop(k) PROVE FInv'
  BY <1>8 DEF Drop, FInv, CacheOK, ReadsOK
<1>9. ASSUME UNCHANGED cacheVars PROVE FInv'
  BY <1>9 DEF cacheVars, FInv, CacheOK, ReadsOK
<1>10. QED
  BY <1>1, <1>2, <1>3, <1>4, <1>5, <1>6, <1>7, <1>8, <1>9 DEF CacheNext

LEMMA FInvariant == CacheSpec => []FInv
BY CacheInitFInv, CacheNextFInv, PTL DEF CacheSpec

-----------------------------------------------------------------------------
\* The cache holds immutable resources only, and the metadata a read holds is
\* that of the release it awaits, whole or damaged.
THEOREM CacheTypeCorrect == CacheSpec => []CacheTypeOK
<1>1. FInv => CacheTypeOK
  BY DEF FInv, CacheOK, CachedOK, ReadsOK, ReadOK, CacheTypeOK
<1>2. QED
  BY <1>1, FInvariant, PTL

\* No client is ever given a module with other bytes than the published ones, and
\* none is cached, whatever jsr.io's answers suffered on their way.
THEOREM ServedModulesAreGenuine == CacheSpec => []ServedIsGenuine
<1>1. FInv => ServedIsGenuine
  BY DEF FInv, CacheOK, CachedOK, ReadsOK, ReadOK, Servable, ServedIsGenuine
<1>2. QED
  BY <1>1, FInvariant, PTL

\* Modules listed with a leading "/", which is how manifests list them, are refused
\* one and all; those listed as they are looked up are refused only because
\* something arrived damaged.
THEOREM ListingDecidesModules == CacheSpec => []ModulesFollowListing
<1>1. FInv => \A k \in DOMAIN cache : k.kind = "module" => ReleaseOf(k) \notin Slashed
  BY DEF FInv, CacheOK, CachedOK, Servable
<1>2. ASSUME FInv, NEW r \in Readers, reads[r].resource.kind = "module"
      PROVE  ReleaseOf(reads[r].resource) \in Slashed =>
               reads[r].stage \notin {"module", "storeModule", "served"}
  BY <1>2 DEF FInv, ReadsOK, ReadOK, Servable
<1>3. ASSUME FInv, NEW r \in Readers, reads[r].resource.kind = "module",
             ReleaseOf(reads[r].resource) \notin Slashed,
             reads[r].stage = "refused", reads[r].resource \in DOMAIN Modules
      PROVE  Damaged(reads[r])
  <2> DEFINE x == reads[r]
             m == x.resource
             release == ReleaseOf(m)
  <2>1. /\ x.manifest \in Arriving(release)
        /\ \/ ~\E e \in x.manifest : e.name = m.file
           \/ x.body \in Contents /\ ~Passes(m, x.manifest, x.body)
    BY <1>3 DEF FInv, ReadsOK, ReadOK, Awaited
  <2> SUFFICES ASSUME x.manifest = Manifest(release) PROVE x.body \notin {Nothing, Modules[m]}
    BY <2>1 DEF Damaged
  <2>2. [name |-> m.file, checksum |-> Modules[m]] \in x.manifest
    BY <1>3 DEF Manifest, Listed, ListedName
  <2>3. \E e \in x.manifest : e.name = m.file
    BY <2>2
  <2>4. Passes(m, x.manifest, Modules[m])
    BY <2>2 DEF Passes
  <2>5. QED
    BY <2>1, <2>3, <2>4, ModulesAssumption
<1>4. FInv => ModulesFollowListing
  BY <1>1, <1>2, <1>3 DEF ModulesFollowListing
<1>5. QED
  BY <1>4, FInvariant, PTL
====
