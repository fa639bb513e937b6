---- MODULE MCFallthrough ----
(***************************************************************************)
(* Two versions of one package of jsr.io have a module of the same name    *)
(* with different bytes; the first version has a second module.  Paths in  *)
(* and around a configured scope are asked for as well, two of them such   *)
(* that they pass for paths outside of it.                                 *)
(***************************************************************************)
EXTENDS Fallthrough, TLC

CONSTANTS b1, b2

Std == <<"@std", "fs">>

MCMetadataFiles == ("1_meta.json" :> "1") @@ ("2_meta.json" :> "2")
MCModules ==
  (Module(Std, "1", <<"mod.ts">>) :> b1) @@ (Module(Std, "1", <<"a.ts">>) :> b2) @@
  (Module(Std, "2", <<"mod.ts">>) :> b2)

JsrPaths ==
  {Std \o <<"1_meta.json">>, Std \o <<"1", "mod.ts">>, Std \o <<"2", "mod.ts">>}
OtherPaths ==
  {<<"-", "status", "@acme", "ui">>, <<"-", "status", "@acme", "a--b">>,
   <<"-", "recover", "@acme", "ui", "1">>, <<"-", "recover", "@acme", "ui">>,
   <<"-", "status", "@std", "fs">>,
   <<"@acme", "ui", "1_meta.json">>, <<"@acme", "a--b", "1", "mod.ts">>,
   <<"@acme">>, <<"%40acme", "ui", "1_meta.json">>,
   Std \o <<"meta.json">>, Std \o <<"1", "..", "mod.ts">>}
MCPaths == JsrPaths \cup OtherPaths

\* The first version lists its modules as fallthrough.test.ts does, the second as
\* jsr.io does.
SecondSlashed == {Release(Std, "2")}
AllSlashed == {Release(Std, "1"), Release(Std, "2")}

Clients == Permutations(Readers)
====
