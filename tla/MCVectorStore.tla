---------------------------- MODULE MCVectorStore ---------------------------
(***************************************************************************)
(* Four geometries over a binary tree of cells: two share a cell two       *)
(* levels down, one fits only the whole domain and one is in the other     *)
(* half.                                                                   *)
(***************************************************************************)
EXTENDS VectorStore

CONSTANTS k1, k2, k3, k4

MCRoot == (k1 :> <<0, 0>>) @@ (k2 :> <<0, 0>>) @@ (k3 :> <<>>) @@ (k4 :> <<1>>)
MCBatches == {{k1, k3}, {k2}, {k4}, {k1, k2, k4}}
MCQuadrants == {0, 1}
=============================================================================
