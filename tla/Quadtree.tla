------------------------------ MODULE Quadtree ------------------------------
(***************************************************************************)
(* The quadtree of a geometry (overviews/qtree_index/qtree.py) over the    *)
(* z-ordered keys of mortoncurve.py.                                       *)
(*                                                                         *)
(* The plane is a grid of unit squares, those of the deepest level.  A     *)
(* geometry is known by the squares it meets and those it covers; boxes    *)
(* are half-open, as the epsilon of the code makes them.                   *)
(***************************************************************************)
EXTENDS Integers, FiniteSets

CONSTANTS
    MaxLevel,  \* max_level, the deepest level of a tree
    Unlimited  \* max_depth=None

ASSUME MaxLevelAssumption == MaxLevel \in Nat

Power2[n \in Nat] == IF n = 0 THEN 1 ELSE 2 * Power2[n - 1]
Power4(n) == Power2[2 * n]

Side == Power2[MaxLevel]
Squares == (0..Side - 1) \X (0..Side - 1)
Cells == UNION {{[level |-> l, key |-> k] : k \in 0..Power4(l) - 1} : l \in 0..MaxLevel}
Root == [level |-> 0, key |-> 0]

-----------------------------------------------------------------------------
(* Faults seeded for mutation runs.                                        *)

\* The quadrants are numbered west to east last.
ChildColumns(c, q) ==
    [level |-> c.level + 1, key |-> 4 * c.key + 2 * (q % 2) + q \div 2]

-----------------------------------------------------------------------------
(* Keys                                                                    *)

Child(c, q) == [level |-> c.level + 1, key |-> 4 * c.key + q]

\* parent_key, and a prefix of the quaternary hash: the cell at a coarser level.
Ancestor(c, l) == [level |-> l, key |-> c.key \div Power4(c.level - l)]

\* children_keys: the block of keys below a cell.
Block(c, l) ==
    LET keys == Power4(l - c.level)
    IN  {[level |-> l, key |-> c.key * keys + k] : k \in 0..keys - 1}

\* coordinates: the even bits of the key are the x index, the odd ones y.
Deinterleave(key, level, odd) ==
    LET sum[i \in 0..level] ==
            IF i = 0 THEN 0
            ELSE sum[i - 1] + ((key \div Power2[2 * (i - 1) + odd]) % 2) * Power2[i - 1]
    IN  sum[level]

Resolution(level) == Power2[MaxLevel - level]
West(c) == Deinterleave(c.key, c.level, 0) * Resolution(c.level)
South(c) == Deinterleave(c.key, c.level, 1) * Resolution(c.level)

Box(west, south, width) == (west..west + width - 1) \X (south..south + width - 1)
KeyBox(c) == Box(West(c), South(c), Resolution(c.level))

\* The quadrants of a node in z-order, as boxes around its center.
Quadrant(c, q) ==
    LET half == Resolution(c.level + 1)
    IN  Box(West(c) + (q % 2) * half, South(c) + (q \div 2) * half, half)

-----------------------------------------------------------------------------
(* Trees: a node has its cell, its recorded children and whether it is a   *)
(* qualified leaf.                                                         *)

Hit(geom, c) == {q \in 0..3 : Quadrant(c, q) \cap geom.met # {}}
Covered(geom, c) == KeyBox(c) \subseteq geom.full

\* _head_node: down from the root as long as there is one child.
Head(geom) ==
    LET head[c \in Cells] ==
            IF c.level = MaxLevel \/ Covered(geom, c) \/ Cardinality(Hit(geom, c)) # 1
            THEN c
            ELSE head[Child(c, CHOOSE q \in Hit(geom, c) : TRUE)]
    IN  head[Root]

\* quadtree_dfs from the head: a node ends the descent at the deepest level or
\* depth, or inside the geometry; simplify holds the numbers of leaves among
\* the children for which they are pruned.
Grown(geom, maxDepth, simplify) ==
    LET head == Head(geom)
        limit == IF maxDepth = Unlimited THEN MaxLevel ELSE head.level + maxDepth
        Leaf(c) == [cell |-> c, qualified |-> TRUE, children |-> {}]
        grow[c \in Cells] ==
            IF c.level >= MaxLevel \/ c.level >= limit \/ Covered(geom, c)
            THEN Leaf(c)
            ELSE LET children == {grow[Child(c, q)] : q \in Hit(geom, c)}
                     leafs == Cardinality({n \in children : n.qualified})
                 IN  IF leafs \in simplify THEN Leaf(c)
                     ELSE [cell |-> c, qualified |-> FALSE, children |-> children]
    IN  grow[head]

\* walker: the nodes of each level below the head, level by level; empty from
\* where there are no more.
Walk(tree) ==
    LET at[l \in 0..MaxLevel] ==
            IF l < tree.cell.level THEN {}
            ELSE IF l = tree.cell.level THEN {tree}
            ELSE UNION {n.children : n \in at[l - 1]}
    IN  at

\* The cells of the walk at one level, those above the head included.
CellsAt(tree, l) ==
    IF l < tree.cell.level THEN {Ancestor(tree.cell, l)}
    ELSE {n.cell : n \in Walk(tree)[l]}

\* gridded: every leaf as its block of keys at the deepest level.
Gridded(tree) ==
    UNION {Block(n.cell, MaxLevel) :
        n \in {m \in UNION {Walk(tree)[l] : l \in 0..MaxLevel} : m.qualified}}
=============================================================================
