-------------------------- MODULE MCLoadCollection ---------------------------
(* LoadCollection over three items with two bands for TLC.                 *)
EXTENDS LoadCollection, TLC

CONSTANTS i1, i2, i3, b1, b2

MCItems == {i1, i2, i3}
Both == {b1, b2}

\* Every item has everything, one item lacks a band, no item has both.
MCOffers == {
    [i \in MCItems |-> Both],
    (i1 :> Both) @@ (i2 :> {b1}) @@ (i3 :> Both),
    (i1 :> {b1}) @@ (i2 :> {b2}) @@ (i3 :> {b1})}

MCTimes == {(i1 :> s) @@ (i2 :> t) @@ (i3 :> u) :
                s \in {<<1>>, <<1, 3>>}, t \in {<<2>>, <<2, 3>>}, u \in {<<2>>, <<4>>}}
MCDates == {f \in MCTimes : \A i \in MCItems : Len(f[i]) = 1}

Asset(k, t, h) == [key |-> k, type |-> t, holds |-> h]

\* One asset for all bands, one for each in the order of the bands, and one
\* for each although they are in one file.
OneAsset(type, offers) == [i \in MCItems |-> <<Asset(DataKey, type, offers[i])>>]
BandAssets(type, other, offers) ==
    [i \in MCItems |->
        IF offers[i] = Both THEN <<Asset(b1, type, {b1}), Asset(b2, other, {b2})>>
        ELSE LET b == CHOOSE x \in offers[i] : TRUE IN <<Asset(b, type, {b})>>]
OneFile(type, offers) ==
    [i \in MCItems |->
        IF offers[i] = Both THEN <<Asset(b1, type, Both), Asset(b2, type, Both)>>
        ELSE LET b == CHOOSE x \in offers[i] : TRUE IN <<Asset(b, type, {b})>>]

Collection(handled, offers, assets, times) ==
    [handled |-> handled, offers |-> offers, assets |-> assets, times |-> times]

MCCollections ==
    {Collection(FALSE, o, a, t) : <<o, a, t>> \in UNION {
        {o} \X {OneAsset("cog", o), BandAssets("cog", "cog", o)} \X MCDates : o \in MCOffers}}
    \cup {Collection(FALSE, o, a, t) : <<o, a, t>> \in UNION {
        {o} \X {OneAsset("netcdf", o), OneFile("netcdf", o), OneFile("zarr", o)} \X MCTimes : o \in MCOffers}}
    \cup {Collection(FALSE, o, a, t) : <<o, a, t>> \in UNION {
        {o} \X {BandAssets("netcdf", "cog", o), BandAssets("zarr", "zarr", o), OneAsset("fstd", o)} \X MCDates : o \in MCOffers}}

\* HLS: one COG per band.
MCHls == LET o == [i \in MCItems |-> Both]
         IN  {Collection(TRUE, o, BandAssets("cog", "cog", o), t) : t \in MCDates}

Query(c, b, s, e) == [collection |-> c, bands |-> b, start |-> s, end |-> e]

MCQueries ==
    {Query(c, b, x[1], x[2]) :
        c \in MCCollections, b \in {<<b1>>, <<b2>>, <<b1, b2>>, <<b2, b1>>},
        x \in {<<1, 4>>, <<1, 2>>, <<2, 2>>, <<2, 3>>, <<3, 1>>, <<1, OpenEnd>>}}
    \cup {Query(c, <<b2>>, x[1], x[2]) :
        c \in MCHls, x \in {<<1, 4>>, <<1, 2>>, <<5, 6>>, <<1, OpenEnd>>}}
=============================================================================
