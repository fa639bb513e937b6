---- MODULE Fallthrough ----
(***************************************************************************)
(* src/src/fallthrough.ts: reads that the Worker forwards to jsr.io, and   *)
(* the cache of immutable answers they share.  A module is looked up in    *)
(* the cache, then the metadata of its release is taken from the cache or  *)
(* from jsr.io, then the module is fetched and checked against it.  Each   *)
(* await is a step, other reads run in between, the cache drops what it    *)
(* likes, and what jsr.io sends may arrive damaged.                        *)
(***************************************************************************)
EXTENDS Routing

CONSTANTS
  Readers,         \* requests in flight at once
  Paths,           \* the paths clients ask for
  Modules,         \* jsr.io's modules, with their bytes
  Contents,        \* what the body of a module answer may be
  Mangled,         \* a checksum that no body has
  Nothing,         \* no manifest or body yet
  Slashed          \* the releases whose manifest puts a "/" before each path

ASSUME ModulesAssumption ==
  /\ Modules \in [DOMAIN Modules -> Contents]
  /\ \A m \in DOMAIN Modules :
       m = Module(m.package, m.version, m.file) /\ m.file \in Seq(STRING)
  /\ Contents \cap {Mangled, Nothing} = {}
ASSUME PathsAssumption == \A p \in Paths : p \in Seq(STRING)

VARIABLES
  cache,   \* the cached resources, each with the body stored under its URL
  reads    \* per request, where it is and what it holds

cacheVars == <<cache, reads>>

\* A manifest is the set of its entries, and a checksum stands for the only body
\* that has it.  "/mod.ts" has the segments "" and "mod.ts".
ListedName(m) == IF ReleaseOf(m) \in Slashed THEN <<"">> \o m.file ELSE m.file
Listed(m, checksum) == [name |-> ListedName(m), checksum |-> checksum]
Manifest(e) ==
  {Listed(m, Modules[m]) : m \in {n \in DOMAIN Modules : ReleaseOf(n) = e}}

\* What arrives of a release: its manifest, something readVersionMetadata makes
\* nothing of, or the manifest with a damaged checksum.
Unreadable == {}
Arriving(e) ==
  {Manifest(e), Unreadable} \cup
    {(Manifest(e) \ {x}) \cup {[x EXCEPT !.checksum = Mangled]} : x \in Manifest(e)}

Settled == {"idle", "served", "refused"}
Idle == [stage |-> "idle", resource |-> Mutable, manifest |-> Nothing, body |-> Nothing]

CacheInit ==
  /\ cache = [k \in {} |-> Nothing]
  /\ reads = [r \in Readers |-> Idle]

Set(r, read) == reads' = [reads EXCEPT ![r] = read]
Put(key, body) ==
  cache' = [k \in DOMAIN cache \cup {key} |-> IF k = key THEN body ELSE cache[k]]

(***************************************************************************)
(* A request that falls through.  One that is not a GET, or not for an     *)
(* immutable resource, is forwarded; the others look into the cache first. *)
(***************************************************************************)
Arrive(r, p, isGet) ==
  /\ reads[r].stage \in Settled
  /\ FallsThrough(p)
  /\ LET resource == IF isGet THEN Resource(p) ELSE Mutable
         read == [stage |-> "forwarded", resource |-> resource,
                  manifest |-> Nothing, body |-> Nothing]
     IN  Set(r,
           IF resource = Mutable THEN read
           ELSE IF resource \in DOMAIN cache
           THEN [read EXCEPT !.stage = "served", !.body = cache[resource]]
           ELSE [read EXCEPT !.stage = IF resource.kind = "release" THEN "release" ELSE "consult"])
  /\ UNCHANGED cache

\* The answer of a forwarded request is handed on.
HandOn(r) ==
  /\ reads[r].stage = "forwarded"
  /\ Set(r, Idle)
  /\ UNCHANGED cache

\* Mutant: the checksum of any module of the release will do.
PassesAnywhere(m, manifest, body) == \E x \in manifest : x.checksum = body

\* The module bytes match the checksum that the manifest has for its path.
Passes(m, manifest, body) == [name |-> m.file, checksum |-> body] \in manifest

\* The manifest is read: without a checksum for the module the answer is 502.
Consulted(read, manifest) ==
  [read EXCEPT !.stage = IF \E x \in manifest : x.name = read.resource.file
                         THEN "module" ELSE "refused",
               !.manifest = manifest]

\* fetchVersionMetadata looks for the metadata of the module's release.
Consult(r) ==
  /\ reads[r].stage = "consult"
  /\ LET release == ReleaseOf(reads[r].resource)
     IN  Set(r, IF release \in DOMAIN cache
                THEN Consulted(reads[r], cache[release])
                ELSE [reads[r] EXCEPT !.stage = "release"])
  /\ UNCHANGED cache

\* Mutant: the URL of the module stays in place when its metadata is asked for.
OwnResource(read) == read.resource

\* The release that a read awaits, for itself or for the module it wants.
Awaited(read) == IF read.resource.kind = "module" THEN ReleaseOf(read.resource) ELSE read.resource

ReleaseArrives(r) ==
  /\ reads[r].stage = "release"
  /\ \E manifest \in Arriving(Awaited(reads[r])) :
       Set(r, [reads[r] EXCEPT !.stage = "storeRelease", !.manifest = manifest])
  /\ UNCHANGED cache

\* Mutant: the metadata of a package is stored for all of its versions alike.
StoreReleaseOfPackage(r) ==
  LET read == reads[r]
  IN  /\ read.stage = "storeRelease"
      /\ cache' = [k \in DOMAIN cache \cup
             {ReleaseOf(m) : m \in {n \in DOMAIN Modules :
                n.package = read.resource.package}} |->
             IF k.kind = "release" THEN read.manifest ELSE cache[k]]
      /\ Set(r, IF read.resource.kind = "module" THEN Consulted(read, read.manifest)
                ELSE [read EXCEPT !.stage = "served", !.body = read.manifest])

\* cacheResponse stores metadata as it came, before any module is checked.
StoreRelease(r) ==
  LET read == reads[r]
  IN  /\ read.stage = "storeRelease"
      /\ Put(Awaited(read), read.manifest)
      /\ Set(r, IF read.resource.kind = "module" THEN Consulted(read, read.manifest)
                ELSE [read EXCEPT !.stage = "served", !.body = read.manifest])

\* The module arrives and is checked: a mismatch is answered with 502.
ModuleArrives(r) ==
  /\ reads[r].stage = "module"
  /\ \E body \in Contents :
       Set(r, [reads[r] EXCEPT !.stage = IF Passes(reads[r].resource, reads[r].manifest, body)
                                         THEN "storeModule" ELSE "refused",
                               !.body = body])
  /\ UNCHANGED cache

StoreModule(r) ==
  /\ reads[r].stage = "storeModule"
  /\ Put(reads[r].resource, reads[r].body)
  /\ Set(r, [reads[r] EXCEPT !.stage = "served"])

\* jsr.io answers an error, which is handed on and not stored, or a fetch or the
\* cache throws, or the request is gone.
Fail(r) ==
  /\ reads[r].stage \notin Settled
  /\ Set(r, Idle)
  /\ UNCHANGED cache

Drop(k) ==
  /\ cache' = [j \in DOMAIN cache \ {k} |-> cache[j]]
  /\ UNCHANGED reads

CacheNext ==
  \/ \E r \in Readers, p \in Paths, isGet \in BOOLEAN : Arrive(r, p, isGet)
  \/ \E r \in Readers : HandOn(r)
  \/ \E r \in Readers : Consult(r)
  \/ \E r \in Readers : ReleaseArrives(r)
  \/ \E r \in Readers : StoreRelease(r)
  \/ \E r \in Readers : ModuleArrives(r)
  \/ \E r \in Readers : StoreModule(r)
  \/ \E r \in Readers : Fail(r)
  \/ \E k \in DOMAIN cache : Drop(k)

CacheSpec == CacheInit /\ [][CacheNext]_cacheVars

-----------------------------------------------------------------------------
Stages == Settled \cup
  {"forwarded", "consult", "release", "storeRelease", "module", "storeModule"}

\* The shape of the state; only immutable resources are cached, and the metadata
\* a read works with is that of its own release, damaged or not.
CacheTypeOK ==
  /\ \A k \in DOMAIN cache :
       \/ k.kind = "release" /\ cache[k] \in Arriving(k)
       \/ k.kind = "module" /\ cache[k] \in Contents
  /\ \A r \in Readers :
       LET read == reads[r]
       IN  /\ read.stage \in Stages
           /\ read.stage \in {"storeRelease", "module", "storeModule", "refused"} =>
                read.manifest \in Arriving(Awaited(read))

(***************************************************************************)
(* A module that is cached, or handed to a client from the cache or from   *)
(* jsr.io, has the bytes that jsr.io published under its path, whatever    *)
(* arrived damaged, was cached damaged or was dropped in between ("Verify  *)
(* proxied file bytes", DESIGN.md 7.4).                                    *)
(***************************************************************************)
Genuine(m, body) == m \in DOMAIN Modules /\ body = Modules[m]

ServedIsGenuine ==
  /\ \A k \in DOMAIN cache : k.kind = "module" => Genuine(k, cache[k])
  /\ \A r \in Readers :
       reads[r].stage = "served" /\ reads[r].resource.kind = "module" =>
         Genuine(reads[r].resource, reads[r].body)

(***************************************************************************)
(* A module is refused only because of damage: the metadata of its release *)
(* arrived damaged, now or when the cache was filled, or its own bytes did *)
(* ("Forward bodies byte-identical", DESIGN.md 7.4).                       *)
(***************************************************************************)
Damaged(read) ==
  LET release == ReleaseOf(read.resource)
  IN  \/ read.manifest \in Arriving(release) \ {Manifest(release)}
      \/ read.body \notin {Nothing, Modules[read.resource]}

RefusedOnlyIfDamaged ==
  \A r \in Readers :
    reads[r].stage = "refused" /\ reads[r].resource \in DOMAIN Modules => Damaged(reads[r])

(***************************************************************************)
(* What the form of a manifest does to the modules of its release,         *)
(* whichever reads share the cache and whatever arrives damaged: listed as *)
(* they are looked up, they are refused only for damage; listed with a     *)
(* "/", as jsr.io lists them, none is ever fetched, cached or served.      *)
(***************************************************************************)
ModulesFollowListing ==
  /\ \A k \in DOMAIN cache : k.kind = "module" => ReleaseOf(k) \notin Slashed
  /\ \A r \in Readers :
       LET read == reads[r]
       IN  read.resource.kind = "module" =>
             IF ReleaseOf(read.resource) \in Slashed
             THEN read.stage \notin {"module", "storeModule", "served"}
             ELSE read.stage = "refused" /\ read.resource \in DOMAIN Modules => Damaged(read)
====
