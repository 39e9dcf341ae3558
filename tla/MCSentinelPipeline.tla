------------------------- MODULE MCSentinelPipeline --------------------------
(* SentinelPipeline with two items for TLC.                                *)
EXTENDS SentinelPipeline, TLC

CONSTANTS x1, x2, r1, r2

MCRequests == {r1, r2}
MCItems == {x1, x2}
\* Overlapping searches; the order of the catalog is the same for everyone.
MCSelections == (r1 :> {<<x1, x2>>}) @@ (r2 :> {<<x2>>})
=============================================================================
