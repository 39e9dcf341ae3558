---------------------------- MODULE MCCloudStore ----------------------------
(***************************************************************************)
(* A folder and one below it, and a bucket with two directories.           *)
(***************************************************************************)
EXTENDS CloudStore, TLC

CONSTANTS root, a, f1, f2, f3

MCParent == (root :> None) @@ (a :> root)
MCChoices == {None, {a}}
Alike == Permutations(Names)
=============================================================================
