----------------------------- MODULE TimeFilter ------------------------------
(***************************************************************************)
(* filter_by_time of geospatial_utils.py: the readers of NetCDF, Zarr and  *)
(* GRIB2 files cut the temporal dimension of what they have loaded to the  *)
(* extent of the query, by two binary searches for the ends of a slice.    *)
(* The searches assume that the labels ascend; nothing sorts them first.   *)
(***************************************************************************)
EXTENDS Integers, Sequences

\* A slice that does not exist.
NoSlice == <<-1, -1>>

-----------------------------------------------------------------------------
(* Python's bisect, on a list that need not be sorted. Positions count     *)
(* from 0, as in the code; sequences from 1.                               *)

\* The position the search ends at, that goes on behind the marked labels; a
\* span is where it looks.
Bisect(marked) ==
    LET search[span \in (0..Len(marked)) \X (0..Len(marked))] ==
            LET lo == span[1]
                hi == span[2]
                mid == (lo + hi) \div 2
            IN  IF lo >= hi THEN lo
                ELSE IF marked[mid + 1] THEN search[<<mid + 1, hi>>]
                ELSE search[<<lo, mid>>]
    IN  search[<<0, Len(marked)>>]

\* The position before every label that is not less than x.
BisectLeft(labels, x) == Bisect([n \in DOMAIN labels |-> labels[n] < x])

\* Fault seeded for mutation runs: the end is searched like the start.
BisectRightFirst(labels, x) == BisectLeft(labels, x)

\* The position behind every label that is not greater than x.
BisectRight(labels, x) == Bisect([n \in DOMAIN labels |-> labels[n] <= x])

-----------------------------------------------------------------------------
\* The positions filter_by_time selects: from the first one up to but not
\* including the second one. Where no label lies between the ends it takes the
\* one at that position, which lies outside the extent, or does not exist.
FilterSlice(labels, start, end) ==
    LET from == BisectLeft(labels, start)
        to == BisectRight(labels, end)
    IN  IF from # to THEN <<from, to>>
        ELSE IF from < Len(labels) THEN <<from, from + 1>>
        ELSE NoSlice

\* What is left of a sequence of records with a field "time".
FilterByTime(axis, start, end) ==
    LET slice == FilterSlice([n \in DOMAIN axis |-> axis[n].time], start, end)
    IN  SubSeq(axis, slice[1] + 1, slice[2])
=============================================================================
