---- MODULE Routing ----
(***************************************************************************)
(* Which requests the Worker sends to jsr.io: the paths that identity.ts   *)
(* and index.ts recognise, and the resources fallthrough.ts recognises in  *)
(* those that are left.  A path is the sequence of its segments; what a    *)
(* regular expression says of one segment is membership in a set.          *)
(***************************************************************************)
EXTENDS Integers, Sequences

CONSTANTS
  AtSegments,       \* segments that start with "@"
  Scopes,           \* those of them that are scopes in lower case
  Configured,       \* the scopes of JSRPROXY_CONFIG
  Names,            \* proxyable repository names
  VersionNumbers,   \* segments that are three numbers
  MetadataFiles     \* the version of every segment that ends in _meta.json

ASSUME ScopesAssumption ==
  Configured \subseteq Scopes /\ Scopes \subseteq AtSegments /\ "-" \notin AtSegments

\* parsePackageIdentity, parsePackageStatusPath and parsePackageRecoveryPath.
PackagePath(p) == Len(p) >= 2 /\ p[1] \in Scopes /\ p[2] \in Names

StatusPath(p) ==
  /\ Len(p) \in {4, 5}
  /\ p[1] = "-" /\ p[2] = "status" /\ p[3] \in Scopes /\ p[4] \in Names
  /\ Len(p) = 5 => p[5] \in VersionNumbers

RecoveryPath(p) ==
  /\ Len(p) = 5
  /\ p[1] = "-" /\ p[2] = "recover" /\ p[3] \in Scopes /\ p[4] \in Names
  /\ p[5] \in VersionNumbers

NoScope == ""
IdentityScope(p) ==
  IF StatusPath(p) \/ RecoveryPath(p) THEN p[3]
  ELSE IF PackagePath(p) THEN p[1] ELSE NoScope

\* configuredScope, configuredStatusScope and configuredRecoveryScope, on the
\* segments as they are written; a scope without a package is in none.
InConfiguredScope(p) ==
  \/ Len(p) >= 2 /\ p[1] \in Configured
  \/ Len(p) >= 3 /\ p[1] = "-" /\ p[2] \in {"status", "recover"} /\ p[3] \in Configured

\* The Worker refuses a path in a configured scope that names no package, serves
\* the packages of configured scopes itself and forwards the rest.
FallsThrough(p) ==
  IF IdentityScope(p) = NoScope THEN ~InConfiguredScope(p)
  ELSE IdentityScope(p) \notin Configured

-----------------------------------------------------------------------------
\* immutablePath: the metadata of a release, one of its modules, or neither.
\* Segments are decoded here, and one that cannot be decoded is "".
Release(package, version) ==
  [kind |-> "release", package |-> package, version |-> version]
Module(package, version, file) ==
  [kind |-> "module", package |-> package, version |-> version, file |-> file]
Mutable == [kind |-> "mutable"]

Resource(p) ==
  IF Len(p) = 3 /\ p[1] \in AtSegments /\ p[3] \in DOMAIN MetadataFiles
  THEN Release(<<p[1], p[2]>>, MetadataFiles[p[3]])
  ELSE IF /\ Len(p) >= 4
          /\ p[1] \in AtSegments /\ p[2] # "" /\ p[3] # ""
          /\ \A i \in 4..Len(p) : p[i] \notin {"", ".", ".."}
       THEN Module(<<p[1], p[2]>>, p[3], SubSeq(p, 4, Len(p)))
       ELSE Mutable

\* The metadata that lists a module: its path is the module's up to the version.
ReleaseOf(m) == Release(m.package, m.version)
====
