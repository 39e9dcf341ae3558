------------------------------ MODULE MCHsiRuns -----------------------------
(***************************************************************************)
(* Two partitions and three files: two of one timestamp in p1, where the   *)
(* first has no valid pixels, and one of another timestamp that both       *)
(* partitions need.                                                        *)
(***************************************************************************)
EXTENDS HsiRuns, TLC

CONSTANTS p1, p2, i1, i2, i3

MCTimesOf == (i1 :> {1}) @@ (i2 :> {1}) @@ (i3 :> {2})
MCTouches == (i1 :> {p1}) @@ (i2 :> {p1}) @@ (i3 :> {p1, p2})
MCCovers == (i1 :> {}) @@ (i2 :> {p1}) @@ (i3 :> {p1, p2})
=============================================================================
