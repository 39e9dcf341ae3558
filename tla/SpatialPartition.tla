-------------------------- MODULE SpatialPartition --------------------------
(***************************************************************************)
(* SpatialPartition.planned_partitions of overviews/qtree_index/           *)
(* partition.py: rows are distributed over quadtree cells, and a cell with *)
(* more than SplitN rows is split into its children, level by level, until *)
(* no cell is too large or the deepest level is reached.  Raster rows are  *)
(* squares and counted by the prefixes of their keys; vector rows have     *)
(* geometries, are cut when their partition is split, and are counted by   *)
(* the nodes of a quadtree each.                                           *)
(***************************************************************************)
EXTENDS Quadtree

CONSTANTS
    SplitN,  \* split_n
    Inputs   \* records: raster, geoms (a geometry for each id), maxDepth
             \* and simplify, the options of the trees

ASSUME SplitNAssumption == SplitN \in Nat

\* A geometry meets a square and what it covers, it meets; a raster row is one
\* square.
ASSUME InputsAssumption ==
    \A i \in Inputs :
        /\ i.raster \in BOOLEAN
        /\ IsFiniteSet(DOMAIN i.geoms)
        /\ \A id \in DOMAIN i.geoms :
              LET geom == i.geoms[id]
              IN  /\ geom \in [met : SUBSET Squares, full : SUBSET Squares]
                  /\ geom.met # {} /\ geom.full \subseteq geom.met
                  /\ i.raster => \E s \in Squares : geom.met = {s}
        /\ i.maxDepth = Unlimited \/ i.maxDepth \in Nat

VARIABLES
    input,
    rows,     \* gdf_partition
    level,
    counts,   \* df_dict[level]: the number of rows of each cell
    toSplit,  \* parents_to_split
    outcome

vars == <<input, rows, level, counts, toSplit, outcome>>

Ids == DOMAIN input.geoms
Row(id, part, geom) == [id |-> id, part |-> part, geom |-> geom]

Init ==
    /\ input \in Inputs
    /\ rows = {Row(i, Root, input.geoms[i]) : i \in DOMAIN input.geoms}
    /\ level = -1
    /\ counts = <<>>
    /\ toSplit = {}
    /\ outcome = "planning"

-----------------------------------------------------------------------------
(* Faults seeded for mutation runs.                                        *)

\* A partition that is exactly full is split as well.
TooLargeOrFull(c) == c \in DOMAIN counts /\ counts[c] >= SplitN

-----------------------------------------------------------------------------
Tree(geom) == Grown(geom, input.maxDepth, input.simplify)

\* key_instances: the cells a row counts for.  The level is looked up in the
\* dictionary of the walk, which ends where the tree does.
Instances(r, l) ==
    IF input.raster
    THEN {Ancestor(c, l) : c \in {d \in Cells : d.level = MaxLevel /\ KeyBox(d) = r.geom.met}}
    ELSE CellsAt(Tree(r.geom), l)

Missing(l) == \E r \in rows : Instances(r, l) = {}

\* groupby('q_key').count()
Counts(l) ==
    [c \in UNION {Instances(r, l) : r \in rows} |->
        Cardinality({r \in rows : c \in Instances(r, l)})]

TooLarge(c) == c \in DOMAIN counts /\ counts[c] > SplitN

\* The parents that are too large and have children in the new counts (the
\* merge of the two levels).
ParentsToSplit(new) == {p \in {Ancestor(c, level) : c \in DOMAIN new} : TooLarge(p)}

Cut(geom, c) ==
    [met |-> geom.met \cap KeyBox(c), full |-> geom.full \cap KeyBox(c)]

\* split_partition: the overlay of the rows with the four boxes of a parent.
SplitPartition(splitting, parent) ==
    {s \in {Row(r.id, Child(parent, q), Cut(r.geom, Child(parent, q))) :
                r \in splitting, q \in 0..3} : s.geom.met # {}}

\* Statistics of the rows at the next level, and the splits they ask for.
NextLevel ==
    /\ outcome = "planning"
    /\ level < 1 \/ toSplit # {}
    /\ level < MaxLevel
    /\ ~Missing(level + 1)
    /\ level' = level + 1
    /\ counts' = Counts(level + 1)
    /\ IF level + 1 > 0
       THEN LET parents == ParentsToSplit(counts')
                splitting == {r \in rows : r.part \in parents}
            IN  /\ toSplit' = parents
                /\ rows' = (rows \ splitting)
                           \cup UNION {SplitPartition(splitting, p) : p \in parents}
       ELSE UNCHANGED <<toSplit, rows>>
    /\ UNCHANGED <<input, outcome>>

\* KeyError: the tree of a row ends above the level.
Raise ==
    /\ outcome = "planning"
    /\ level < 1 \/ toSplit # {}
    /\ level < MaxLevel
    /\ Missing(level + 1)
    /\ outcome' = "KeyError"
    /\ UNCHANGED <<input, rows, level, counts, toSplit>>

Finish ==
    /\ outcome = "planning"
    /\ level >= MaxLevel \/ (level >= 1 /\ toSplit = {})
    /\ outcome' = "planned"
    /\ UNCHANGED <<input, rows, level, counts, toSplit>>

Next == NextLevel \/ Raise \/ Finish

Spec == Init /\ [][Next]_vars

-----------------------------------------------------------------------------
(* Properties                                                              *)

\* gridded() returns every square a geometry meets, of whole rows and of cut
\* ones.  Without options that make the tree coarser, or with the pruning of
\* four leaves, it returns no other; with a maximum depth, only squares of a
\* cell at that depth that the geometry meets.
GridCovers ==
    ~input.raster => \A r \in rows :
        LET tree == Tree(r.geom)
            grid == UNION {KeyBox(c) : c \in Gridded(tree)}
            depth == Head(r.geom).level + input.maxDepth
            coarse == IF input.maxDepth = Unlimited \/ depth > MaxLevel
                      THEN MaxLevel ELSE depth
        IN  /\ r.geom.met \subseteq grid
            /\ input.simplify \subseteq {4} =>
                    grid \subseteq UNION {KeyBox(c) : c \in {d \in Cells :
                        d.level = coarse /\ KeyBox(d) \cap r.geom.met # {}}}

\* The number of ids whose geometry meets a cell, and the cells a plan should
\* have: those that are small enough, or cannot be split, below cells that are
\* all too large.
Population(c) == Cardinality({i \in Ids : Cut(input.geoms[i], c).met # {}})
Planned ==
    {c \in Cells :
        /\ Population(c) > 0
        /\ c.level = MaxLevel \/ Population(c) <= SplitN
        /\ \A l \in 0..c.level - 1 : Population(Ancestor(c, l)) > SplitN}

\* The level-by-level splitting arrives at exactly these partitions, and each
\* holds one row for each geometry that meets it, cut to the partition: no part
\* of a geometry is lost or stored twice.  Planning fails only for vector data
\* with trees that stop early, or with a geometry that covers a whole cell.
PlanIsReference ==
    /\ outcome = "planned" =>
        rows = {s \in {Row(i, c, Cut(input.geoms[i], c)) : i \in Ids, c \in Planned} :
                    s.geom.met # {}}
    /\ outcome = "KeyError" =>
        /\ ~input.raster
        /\ \/ input.maxDepth # Unlimited \/ input.simplify # {}
           \/ \E i \in Ids, c \in Cells :
                c.level < level + 1 /\ Covered(input.geoms[i], c)
=============================================================================
