---- MODULE Materializer ----
(***************************************************************************)
(* materializer/src: what a container answers for an archive, and the      *)
(* objects it asks to be published.  The text of a file is abstracted to   *)
(* what decides it: the path, the commit, the build of the materializer    *)
(* that rewrote it and, in a failure module, the origin of the request,    *)
(* which its status URL repeats.                                           *)
(***************************************************************************)
EXTENDS Sequences

CONSTANTS
  Commits,
  Builds,        \* deployed builds of the materializer
  Origins,       \* origins under which clients reach the proxy
  SourcePaths,   \* per commit, the paths of its package in order
  Succeeds,      \* the <<commit, build>> whose source_package succeeds
  TooLarge       \* commits whose archive exceeds MAX_ARCHIVE_BYTES

MarkerFile == ".ready.json"
MetadataFile == "_meta.json"
FailureModule == "_jsrproxy_materialization_failure.ts"

MaterializationOutcomes ==
  [state : {"ready", "yanked"}, commit : Commits, build : Builds, origin : Origins]

\* run_materialization, for an archive that read_archive_body accepts.
OutcomeOf(commit, build, origin) ==
  [state |-> IF <<commit, build>> \in Succeeds THEN "ready" ELSE "yanked",
   commit |-> commit, build |-> build, origin |-> origin]

File(path, text) == [path |-> path, bytes |-> <<path>> \o text]

\* source_package, which returns the files in the order of their paths.
SourceFiles(o) ==
  [i \in DOMAIN SourcePaths[o.commit] |->
     File(SourcePaths[o.commit][i], <<"source", o.commit, o.build>>)]

\* build_tombstone
TombstoneFiles(o) ==
  << File("deno.json", <<"tombstone", o.commit, o.build>>),
     File(FailureModule, <<"tombstone", o.commit, o.build, o.origin>>) >>

\* Mutant: the files are put after the metadata and the marker.
PublishFilesLast(files, commit) ==
  LET manifest == {files[i] : i \in DOMAIN files}
  IN  << File(MetadataFile, <<manifest, commit>>), File(MarkerFile, <<manifest>>) >> \o files

\* publish: the files, then the metadata with their manifest, then the marker,
\* which holds the hash of the manifest.
Publish(files, commit) ==
  LET manifest == {files[i] : i \in DOMAIN files}
  IN  files \o << File(MetadataFile, <<manifest, commit>>), File(MarkerFile, <<manifest>>) >>

FilesOf(o) == IF o.state = "ready" THEN SourceFiles(o) ELSE TombstoneFiles(o)
ManifestOf(o) == {FilesOf(o)[i] : i \in DOMAIN FilesOf(o)}
PublishedUploads(o) == Publish(FilesOf(o), o.commit)
====
