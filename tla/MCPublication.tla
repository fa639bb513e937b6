---- MODULE MCPublication ----
(***************************************************************************)
(* Two handlers publish under one version.  Two builds of the materializer *)
(* disagree about the commit: the first makes a package with a file on     *)
(* either side of deno.json, the second a tombstone, whose bytes depend on *)
(* which of two origins the request came to.  A reader asks for a file of  *)
(* each, for one whose name a URL changes, and for the metadata.           *)
(***************************************************************************)
EXTENDS ArtifactServing, TLC

CONSTANTS c1, b1, b2, o1, o2

M == INSTANCE Materializer WITH
  Commits <- {c1}, Builds <- {b1, b2}, Origins <- {o1, o2},
  SourcePaths <- (c1 :> <<"a.ts", "deno.json", "{b}.ts">>),
  Succeeds <- {<<c1, b1>>}, TooLarge <- {}

MCOutcomes ==
  {M!OutcomeOf(c1, b1, o1), M!OutcomeOf(c1, b2, o1), M!OutcomeOf(c1, b2, o2)}
MCUploads == [o \in MCOutcomes |-> M!PublishedUploads(o)]
MCAsked == {"a.ts", "{b}.ts", M!FailureModule, M!MetadataFile}
MCEncoded == "{b}.ts" :> "%7Bb%7D.ts"
MCMarkerPath == M!MarkerFile
====
