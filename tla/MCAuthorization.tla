---- MODULE MCAuthorization ----
(***************************************************************************)
(* Two requests of one caller.  With a lifetime of 1 and answers that      *)
(* travel for up to 1 a change at time 0 or 1 must be followed by requests *)
(* that arrive from time 2 or 3 on.                                        *)
(***************************************************************************)
EXTENDS Authorization, TLC

RequestSymmetry == Permutations(Requests)
====
