------------------------- MODULE MCSpatialPartition -------------------------
(* Rectangles, an L and scattered squares on the squares of three levels.  *)
EXTENDS SpatialPartition

Geometry(m, f) == [met |-> m, full |-> f]
Rectangle(x, y, w, h) == (x..x + w - 1) \X (y..y + h - 1)

\* One geometry sweeps over rectangles on and off the cells, filled or hollow;
\* the others are of different extent and depth.
Sweep ==
    UNION {{Geometry(r, r), Geometry(r, {})} : r \in
        {Rectangle(x, y, s[1], s[2]) : <<x, y, s>> \in
            {p \in {0, 1, 4} \X {0, 3, 4} \X {<<1, 3>>, <<2, 2>>, <<4, 4>>} :
                p[1] + p[3][1] <= Side /\ p[2] + p[3][2] <= Side}}}
Large ==
    {Geometry(Rectangle(0, 0, 5, 5), Rectangle(0, 0, 4, 4)),
     Geometry(Rectangle(1, 1, 6, 6), Rectangle(2, 2, 4, 4)),
     Geometry(Rectangle(0, 3, 8, 1) \cup Rectangle(3, 0, 1, 8), {})}
Small ==
    {Geometry({<<3, 3>>, <<4, 4>>}, {}),
     Geometry(Rectangle(4, 4, 2, 2), Rectangle(4, 4, 2, 2)),
     Geometry({<<0, 7>>, <<1, 6>>, <<7, 0>>}, {<<7, 0>>})}

Options == {<<Unlimited, {}>>, <<Unlimited, {4}>>, <<Unlimited, {3, 4}>>, <<1, {}>>}

Vector ==
    {[raster |-> FALSE, geoms |-> <<a, b, c>>, maxDepth |-> o[1], simplify |-> o[2]] :
        a \in Sweep, b \in Large, c \in Small, o \in Options}

\* Raster rows: distinct squares near two corners and the center.
Near == {<<0, 0>>, <<1, 0>>, <<2, 1>>, <<3, 3>>, <<4, 3>>, <<5, 5>>, <<7, 7>>}
Raster ==
    {[raster |-> TRUE, geoms |-> [s \in ss |-> Geometry({s}, {s})],
      maxDepth |-> Unlimited, simplify |-> {}] : ss \in SUBSET Near \ {{}}}

MCInputs == Vector \cup Raster
=============================================================================
