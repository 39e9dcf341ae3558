----------------------- MODULE SpatialPartitionProofs -----------------------
(***************************************************************************)
(* Proofs about the planning of partitions and the quadtrees under it.     *)
(***************************************************************************)
EXTENDS SpatialPartition, NaturalsInduction, FiniteSetTheorems, TLAPS

-----------------------------------------------------------------------------
(* Induction over a range of levels.                                       *)

\* Some numbers have a smallest one: < is well-founded on Nat.
LEMMA SmallestOf ==
    ASSUME NEW S \in SUBSET Nat, S # {}
    PROVE  \E n \in S : \A m \in S : n <= m
<1> DEFINE R == OpToRel(<, Nat)
<1>1. IsWellFoundedOn(R, Nat)
  BY NatLessThanWellFounded DEF OpToRel
<1>2. \A x, y \in Nat : y < x => <<y, x>> \in R
  BY DEF OpToRel
<1> HIDE DEF R
<1>3. PICK n \in S : \A m \in S : ~(<<m, n>> \in R)
  BY <1>1, WFMin
<1>4. \A m \in S : ~(m < n)
  BY <1>2, <1>3
<1> QED BY <1>4

\* Upwards from a to b.
LEMMA Upwards ==
    ASSUME NEW a \in Int, NEW b \in Int, NEW S, a \in S,
           \A n \in a..b - 1 : n \in S => n + 1 \in S
    PROVE  a..b \subseteq S
<1> DEFINE Bad == {k \in Nat : a + k <= b /\ a + k \notin S}
<1> SUFFICES ASSUME Bad # {} PROVE FALSE
  <2>1. \A n \in a..b : n - a \in Nat /\ a + (n - a) = n /\ n <= b
    OBVIOUS
  <2> QED BY <2>1
<1>1. PICK k \in Bad : \A m \in Bad : k <= m
  BY SmallestOf
<1>2. k \in Nat /\ a + k <= b /\ a + k \notin S
  OBVIOUS
<1>3. k # 0
  <2>1. a + 0 = a
    OBVIOUS
  <2> QED BY <1>2, <2>1
<1>4. k - 1 \in Nat /\ ~(k <= k - 1) /\ a + (k - 1) <= b
  BY <1>2, <1>3
<1>5. a + (k - 1) \in S
  BY <1>1, <1>4
<1>6. a + (k - 1) \in a..b - 1 /\ (a + (k - 1)) + 1 = a + k
  BY <1>2, <1>4
<1> QED BY <1>2, <1>5, <1>6

\* Downwards from b to a.
LEMMA Downwards ==
    ASSUME NEW a \in Int, NEW b \in Int, NEW S, b \in S,
           \A n \in a..b - 1 : n + 1 \in S => n \in S
    PROVE  a..b \subseteq S
<1> DEFINE Bad == {k \in Nat : a <= b - k /\ b - k \notin S}
<1> SUFFICES ASSUME Bad # {} PROVE FALSE
  <2> SUFFICES ASSUME NEW n \in a..b, n \notin S PROVE b - n \in Bad
    OBVIOUS
  <2>1. b - n \in Nat /\ b - (b - n) = n /\ a <= n
    OBVIOUS
  <2> QED BY <2>1
<1>1. PICK k \in Bad : \A m \in Bad : k <= m
  BY SmallestOf
<1>2. k \in Nat /\ a <= b - k /\ b - k \notin S
  OBVIOUS
<1>3. k # 0
  <2>1. b - 0 = b
    OBVIOUS
  <2> QED BY <1>2, <2>1
<1>4. k - 1 \in Nat /\ ~(k <= k - 1) /\ a <= b - (k - 1)
  BY <1>2, <1>3
<1>5. b - (k - 1) \in S
  BY <1>1, <1>4
<1>6. b - k \in a..b - 1 /\ (b - k) + 1 = b - (k - 1)
  BY <1>2, <1>3
<1> QED BY <1>2, <1>5, <1>6

-----------------------------------------------------------------------------
(* Powers                                                                  *)

\* Up to any exponent there is a table of the powers of two.
LEMMA PowerTables ==
    \A n \in Nat : \E f \in [0..n -> Nat \ {0}] :
        \A i \in 0..n : f[i] = IF i = 0 THEN 1 ELSE 2 * f[i - 1]
<1> DEFINE Good(n, f) ==
              /\ f \in [0..n -> Nat \ {0}]
              /\ \A i \in 0..n : f[i] = IF i = 0 THEN 1 ELSE 2 * f[i - 1]
           S == {n \in Nat : \E f : Good(n, f)}
<1> SUFFICES ASSUME NEW n \in Nat PROVE n \in S
  OBVIOUS
<1>1. 0 \in S
  <2>1. Good(0, [i \in 0..0 |-> 1])
    OBVIOUS
  <2> QED BY <2>1
<1>2. \A k \in 0..n - 1 : k \in S => k + 1 \in S
  <2> SUFFICES ASSUME NEW k \in 0..n - 1, k \in S PROVE k + 1 \in S
    OBVIOUS
  <2>1. PICK f : Good(k, f)
    OBVIOUS
  <2> DEFINE g == [i \in 0..k + 1 |-> IF i = k + 1 THEN 2 * f[k] ELSE f[i]]
  <2>2. f[k] \in Nat \ {0}
    BY <2>1
  <2>3. \A i \in 0..k + 1 : i # k + 1 => i \in 0..k /\ (i # 0 => i - 1 \in 0..k)
    OBVIOUS
  <2>4. g \in [0..k + 1 -> Nat \ {0}]
    BY <2>1, <2>2, <2>3
  <2>5. \A i \in 0..k + 1 : g[i] = IF i = 0 THEN 1 ELSE 2 * g[i - 1]
    <3> SUFFICES ASSUME NEW i \in 0..k + 1 PROVE g[i] = IF i = 0 THEN 1 ELSE 2 * g[i - 1]
      OBVIOUS
    <3>1. CASE i = k + 1
      <4>1. i - 1 = k /\ k \in 0..k + 1 /\ i # 0 /\ k # k + 1
        BY <3>1
      <4> QED BY <3>1, <4>1
    <3>2. CASE i # k + 1
      <4>1. f[i] = IF i = 0 THEN 1 ELSE 2 * f[i - 1]
        BY <2>1, <2>3, <3>2
      <4>2. i # 0 => i - 1 \in 0..k + 1 /\ i - 1 # k + 1
        OBVIOUS
      <4> QED BY <3>2, <4>1, <4>2
    <3> QED BY <3>1, <3>2
  <2>6. Good(k + 1, g)
    BY <2>4, <2>5
  <2>7. k + 1 \in Nat
    OBVIOUS
  <2> QED BY <2>6, <2>7
<1> HIDE DEF S
<1>3. 0..n \subseteq S
  BY <1>1, <1>2, Upwards
<1> QED BY <1>3

\* So there is the table of all of them, its diagonal.
LEMMA Power2Exists ==
    \E f : f = [n \in Nat |-> IF n = 0 THEN 1 ELSE 2 * f[n - 1]]
<1> DEFINE Good(n, f) ==
              /\ f \in [0..n -> Nat \ {0}]
              /\ \A i \in 0..n : f[i] = IF i = 0 THEN 1 ELSE 2 * f[i - 1]
           T == [n \in Nat |-> CHOOSE f : Good(n, f)]
           F == [n \in Nat |-> T[n][n]]
<1>1. \A n \in Nat : Good(n, T[n])
  BY PowerTables
<1> HIDE DEF T
<1>2. ASSUME NEW n \in Nat, NEW m \in Nat
      PROVE  \A i \in 0..n : i <= m => T[n][i] = T[m][i]
  <2> DEFINE S == {i \in 0..n : i <= m => T[n][i] = T[m][i]}
  <2>1. 0 \in S
    BY <1>1
  <2>2. \A i \in 0..n - 1 : i \in S => i + 1 \in S
    <3> SUFFICES ASSUME NEW i \in 0..n - 1, i \in S, i + 1 <= m PROVE T[n][i + 1] = T[m][i + 1]
      OBVIOUS
    <3>1. i + 1 \in 0..n /\ i + 1 \in 0..m /\ i + 1 # 0 /\ (i + 1) - 1 = i /\ i <= m
      OBVIOUS
    <3>2. T[n][i + 1] = 2 * T[n][i] /\ T[m][i + 1] = 2 * T[m][i]
      BY <1>1, <3>1
    <3> QED BY <3>1, <3>2
  <2>3. 0 \in Int /\ n \in Int
    OBVIOUS
  <2> HIDE DEF S
  <2>4. 0..n \subseteq S
    BY <2>1, <2>2, <2>3, Upwards
  <2> QED BY <2>4 DEF S
<1>3. ASSUME NEW n \in Nat PROVE F[n] = IF n = 0 THEN 1 ELSE 2 * F[n - 1]
  <2>1. T[n][n] = IF n = 0 THEN 1 ELSE 2 * T[n][n - 1]
    BY <1>1
  <2>2. n # 0 => n - 1 \in Nat /\ n - 1 \in 0..n /\ T[n][n - 1] = T[n - 1][n - 1]
    BY <1>2
  <2> QED BY <2>1, <2>2
<1>4. F = [n \in Nat |-> IF n = 0 THEN 1 ELSE 2 * F[n - 1]]
  BY <1>3
<1> QED BY <1>4

\* Powers of two satisfy their recursion.
LEMMA Power2Def ==
    \A n \in Nat : Power2[n] = IF n = 0 THEN 1 ELSE 2 * Power2[n - 1]
<1> DEFINE F == CHOOSE f : f = [n \in Nat |-> IF n = 0 THEN 1 ELSE 2 * f[n - 1]]
<1>1. F = [n \in Nat |-> IF n = 0 THEN 1 ELSE 2 * F[n - 1]]
  BY Power2Exists
<1>2. Power2 = F
  BY DEF Power2
<1> HIDE DEF F
<1>3. \A n \in Nat : F[n] = IF n = 0 THEN 1 ELSE 2 * F[n - 1]
  BY <1>1
<1> QED BY <1>2, <1>3

\* Powers are positive and double with the exponent.
LEMMA Powers ==
    /\ Power2[0] = 1
    /\ \A n \in Nat : Power2[n] \in Nat \ {0} /\ Power2[n + 1] = 2 * Power2[n]
<1>1. Power2[0] = 1
  BY Power2Def
<1>2. ASSUME NEW n \in Nat PROVE Power2[n + 1] = 2 * Power2[n]
  <2>1. n + 1 \in Nat /\ n + 1 # 0 /\ (n + 1) - 1 = n
    OBVIOUS
  <2> QED BY <2>1, Power2Def
<1>3. ASSUME NEW n \in Nat PROVE Power2[n] \in Nat \ {0}
  <2> DEFINE S == {k \in Nat : Power2[k] \in Nat \ {0}}
  <2>1. 0 \in S
    BY <1>1
  <2>2. \A k \in 0..n - 1 : k \in S => k + 1 \in S
    BY <1>2
  <2> HIDE DEF S
  <2>3. 0..n \subseteq S
    BY <2>1, <2>2, Upwards
  <2> QED BY <2>3 DEF S
<1> QED BY <1>1, <1>2, <1>3

\* Powers of four start at 1 and grow by a factor of four.
LEMMA Powers4 ==
    /\ Power4(0) = 1
    /\ \A n \in Nat : Power4(n) \in Nat \ {0} /\ Power4(n + 1) = 4 * Power4(n)
<1>1. Power4(0) = 1
  BY Powers DEF Power4
<1>2. ASSUME NEW n \in Nat PROVE Power4(n) \in Nat \ {0} /\ Power4(n + 1) = 4 * Power4(n)
  <2>1. 2 * n \in Nat /\ 2 * (n + 1) = (2 * n + 1) + 1 /\ 2 * n + 1 \in Nat
    OBVIOUS
  <2>2. Power2[(2 * n + 1) + 1] = 2 * Power2[2 * n + 1] /\ Power2[2 * n + 1] = 2 * Power2[2 * n]
    BY <2>1, Powers
  <2>3. Power2[2 * n] \in Nat \ {0}
    BY <2>1, Powers
  <2> QED BY <2>1, <2>2, <2>3 DEF Power4
<1> QED BY <1>1, <1>2

-----------------------------------------------------------------------------
(* Keys of cells                                                           *)

\* The level and the key of a cell are numbers in their ranges.
LEMMA CellType ==
    ASSUME NEW c \in Cells
    PROVE  /\ c.level \in 0..MaxLevel /\ c.level \in Nat
           /\ c.key \in 0..Power4(c.level) - 1 /\ c.key \in Nat
           /\ c = [level |-> c.level, key |-> c.key]
<1>1. PICK l \in 0..MaxLevel : c \in {[level |-> l, key |-> k] : k \in 0..Power4(l) - 1}
  BY DEF Cells
<1>2. PICK k \in 0..Power4(l) - 1 : c = [level |-> l, key |-> k]
  BY <1>1
<1>3. c.level = l /\ c.key = k
  BY <1>2
<1> QED BY <1>2, <1>3

\* A level and a key in its range make a cell.
LEMMA CellMade ==
    ASSUME NEW l \in 0..MaxLevel, NEW k \in 0..Power4(l) - 1
    PROVE  [level |-> l, key |-> k] \in Cells
BY DEF Cells

\* Cells are equal if their levels and keys are.
LEMMA SameCell ==
    ASSUME NEW c \in Cells, NEW d \in Cells, c.level = d.level, c.key = d.key
    PROVE  c = d
BY CellType

\* The root is the only cell of level 0.
LEMMA RootCell ==
    /\ Root \in Cells /\ Root.level = 0
    /\ \A c \in Cells : c.level = 0 => c = Root
<1>1. 0 \in 0..MaxLevel /\ 0 \in 0..Power4(0) - 1 /\ Power4(0) = 1
  BY MaxLevelAssumption, Powers4
<1>2. Root \in Cells /\ Root.level = 0 /\ Root.key = 0
  BY <1>1, CellMade DEF Root
<1>3. ASSUME NEW c \in Cells, c.level = 0 PROVE c = Root
  <2>1. c.key \in 0..0
    BY <1>1, <1>3, CellType
  <2> QED BY <2>1, <1>2, <1>3, SameCell
<1> QED BY <1>2, <1>3

\* A child of a cell is a cell one level down.
LEMMA ChildCell ==
    ASSUME NEW c \in Cells, c.level < MaxLevel, NEW q \in 0..3
    PROVE  /\ Child(c, q) \in Cells
           /\ Child(c, q).level = c.level + 1 /\ Child(c, q).key = 4 * c.key + q
<1>1. c.level \in Nat /\ c.level + 1 \in 0..MaxLevel /\ c.key \in 0..Power4(c.level) - 1
  BY CellType, MaxLevelAssumption
<1>2. Power4(c.level) \in Nat /\ Power4(c.level + 1) = 4 * Power4(c.level)
  BY <1>1, Powers4
<1>3. 4 * c.key + q \in 0..Power4(c.level + 1) - 1
  <2> DEFINE p == Power4(c.level)
             k == c.key
  <2>1. p \in Nat /\ k \in 0..p - 1
    BY <1>1, <1>2
  <2> HIDE DEF p, k
  <2>2. 4 * k + q \in 0..4 * p - 1
    BY <2>1
  <2> QED BY <1>2, <2>2 DEF p, k
<1> QED BY <1>1, <1>3, CellMade DEF Child

\* Every cell but the root is the child of one.
LEMMA ParentOf ==
    ASSUME NEW c \in Cells, c.level # 0
    PROVE  \E p \in Cells, q \in 0..3 :
              p.level = c.level - 1 /\ p.level < MaxLevel /\ c = Child(p, q)
<1> DEFINE l == c.level - 1
           k == c.key \div 4
           q == c.key % 4
<1>1. c.level \in 0..MaxLevel /\ c.key \in 0..Power4(c.level) - 1 /\ c.key \in Nat
  BY CellType
<1>2. l \in 0..MaxLevel /\ l \in Nat /\ l + 1 = c.level /\ l < MaxLevel
  BY <1>1, MaxLevelAssumption
<1>3. Power4(l) \in Nat /\ Power4(c.level) = 4 * Power4(l)
  BY <1>2, Powers4
<1>4. q \in 0..3 /\ k \in Nat /\ c.key = 4 * k + q
  BY <1>1
<1>5. k \in 0..Power4(l) - 1
  <2> DEFINE p == Power4(l)
             n == c.key
  <2>1. p \in Nat /\ n \in 0..4 * p - 1 /\ n = 4 * k + q
    BY <1>1, <1>3, <1>4
  <2> HIDE DEF p, n, k, q
  <2>2. k \in 0..p - 1
    BY <1>4, <2>1
  <2> QED BY <2>2 DEF p
<1> HIDE DEF k, q
<1> DEFINE p == [level |-> l, key |-> k]
<1>6. p \in Cells /\ p.level = l /\ p.key = k
  BY <1>2, <1>5, CellMade
<1> HIDE DEF p
<1>7. Child(p, q) \in Cells /\ Child(p, q).level = c.level /\ Child(p, q).key = c.key
  BY <1>2, <1>4, <1>6, ChildCell
<1>8. c = Child(p, q)
  BY <1>7, SameCell
<1> QED BY <1>2, <1>4, <1>6, <1>8

\* Shifting by nothing leaves the cell.
LEMMA AncestorSelf ==
    ASSUME NEW c \in Cells
    PROVE  Ancestor(c, c.level) = c
<1>1. c.level \in Nat /\ c.key \in Nat /\ c = [level |-> c.level, key |-> c.key]
  BY CellType
<1>2. c.level - c.level = 0 /\ Power4(0) = 1
  BY <1>1, Powers4
<1>3. c.key \div 1 = c.key
  BY <1>1
<1> QED BY <1>1, <1>2, <1>3 DEF Ancestor

\* Shifting one digit more takes away the digit of the child.
LEMMA AncestorChild ==
    ASSUME NEW c \in Cells, c.level < MaxLevel, NEW q \in 0..3, NEW l \in 0..c.level
    PROVE  Ancestor(Child(c, q), l) = Ancestor(c, l)
<1> DEFINE n == c.level - l
           m == Power4(n)
           k == c.key
<1>1. n \in Nat /\ k \in Nat /\ (c.level + 1) - l = n + 1
  BY CellType
<1>2. m \in Nat \ {0} /\ Power4(n + 1) = 4 * m
  BY <1>1, Powers4
<1> HIDE DEF m, k, n
<1>3. (4 * k + q) \div (4 * m) = k \div m
  BY <1>1, <1>2
<1>4. Child(c, q).level = c.level + 1 /\ Child(c, q).key = 4 * k + q
  BY ChildCell DEF k
<1>5. Ancestor(Child(c, q), l) = [level |-> l, key |-> (4 * k + q) \div Power4((c.level + 1) - l)]
  BY <1>4 DEF Ancestor
<1>6. Power4((c.level + 1) - l) = 4 * m
  BY <1>1, <1>2
<1>7. Ancestor(c, l) = [level |-> l, key |-> k \div m]
  BY DEF Ancestor, m, k, n
<1> QED BY <1>3, <1>5, <1>6, <1>7

\* Ancestors are cells, and those of an ancestor are ancestors.
LEMMA Ancestors ==
    ASSUME NEW c \in Cells, NEW l \in 0..c.level
    PROVE  /\ Ancestor(c, l) \in Cells /\ Ancestor(c, l).level = l
           /\ \A m \in 0..l : Ancestor(Ancestor(c, l), m) = Ancestor(c, m)
<1> DEFINE Good(d) ==
              \A j \in 0..d.level :
                 /\ Ancestor(d, j) \in Cells /\ Ancestor(d, j).level = j
                 /\ \A m \in 0..j : Ancestor(Ancestor(d, j), m) = Ancestor(d, m)
           S == {n \in 0..MaxLevel : \A d \in Cells : d.level = n => Good(d)}
<1>1. 0 \in S
  <2> SUFFICES ASSUME NEW d \in Cells, d.level = 0 PROVE Good(d)
    BY MaxLevelAssumption
  <2>1. Ancestor(d, 0) = d
    BY AncestorSelf
  <2>2. 0..0 = {0}
    OBVIOUS
  <2> QED BY <2>1, <2>2
<1>2. \A n \in 0..MaxLevel - 1 : n \in S => n + 1 \in S
  <2> SUFFICES ASSUME NEW n \in 0..MaxLevel - 1, n \in S,
                      NEW d \in Cells, d.level = n + 1
               PROVE  Good(d)
    BY MaxLevelAssumption
  <2>1. PICK p \in Cells, q \in 0..3 :
           p.level = d.level - 1 /\ p.level < MaxLevel /\ d = Child(p, q)
    BY ParentOf
  <2>2. p.level = n /\ Good(p)
    BY <2>1
  <2> SUFFICES ASSUME NEW j \in 0..n + 1
               PROVE  /\ Ancestor(d, j) \in Cells /\ Ancestor(d, j).level = j
                      /\ \A m \in 0..j : Ancestor(Ancestor(d, j), m) = Ancestor(d, m)
    OBVIOUS
  <2>3. CASE j = n + 1
    BY <2>3, AncestorSelf
  <2>4. CASE j # n + 1
    <3>1. j \in 0..p.level /\ \A m \in 0..j : m \in 0..p.level
      BY <2>2, <2>4
    <3>2. \A m \in 0..j : Ancestor(d, m) = Ancestor(p, m)
      BY <2>1, <3>1, AncestorChild
    <3>3. j \in 0..j
      BY <2>4
    <3>4. Ancestor(d, j) = Ancestor(p, j)
      BY <3>2, <3>3
    <3> HIDE DEF S
    <3> QED BY <2>2, <3>1, <3>2, <3>4
  <2> QED BY <2>3, <2>4
<1>3. c.level \in 0..MaxLevel
  BY CellType
<1> HIDE DEF S
<1>4. 0..MaxLevel \subseteq S
  BY <1>1, <1>2, MaxLevelAssumption, Upwards
<1>5. c.level \in S
  BY <1>3, <1>4
<1> QED BY <1>5 DEF S

\* The parent of a cell, and the child it is of it.
LEMMA Parents ==
    ASSUME NEW c \in Cells, NEW l \in Nat, c.level = l + 1
    PROVE  /\ Ancestor(c, l) \in Cells /\ Ancestor(c, l).level = l /\ l < MaxLevel
           /\ \E q \in 0..3 : c = Child(Ancestor(c, l), q)
<1>1. PICK p \in Cells, q \in 0..3 : p.level = c.level - 1 /\ p.level < MaxLevel /\ c = Child(p, q)
  BY ParentOf
<1>2. p.level = l /\ l \in 0..p.level
  BY <1>1
<1>3. Ancestor(c, l) = Ancestor(p, l) /\ Ancestor(p, l) = p
  BY <1>1, <1>2, AncestorChild, AncestorSelf
<1> QED BY <1>1, <1>2, <1>3

-----------------------------------------------------------------------------
(* Coordinates of cells                                                    *)

\* What the i-th digit of a key adds to an index, and the sums of the digits.
Bit(key, odd, i) == ((key \div Power2[2 * (i - 1) + odd]) % 2) * Power2[i - 1]
Sums(key, level_, odd, f) ==
    f = [i \in 0..level_ |-> IF i = 0 THEN 0 ELSE f[i - 1] + Bit(key, odd, i)]

\* A term of the sum of bits is a number.
LEMMA BitType ==
    ASSUME NEW k \in Nat, NEW odd \in {0, 1}, NEW i \in Nat \ {0}
    PROVE  Bit(k, odd, i) \in Nat
<1> DEFINE m == Power2[2 * (i - 1) + odd]
           n == Power2[i - 1]
<1>1. 2 * (i - 1) + odd \in Nat /\ i - 1 \in Nat
  OBVIOUS
<1>2. m \in Nat \ {0} /\ n \in Nat
  BY <1>1, Powers
<1> HIDE DEF m, n
<1>3. (k \div m) \in Nat
  BY <1>2
<1>4. (k \div m) % 2 \in Nat
  BY <1>3
<1>5. ((k \div m) % 2) * n \in Nat
  BY <1>2, <1>4
<1> QED BY <1>5 DEF Bit, m, n

\* The sums of bits that coordinates() adds up exist as a function.
LEMMA SumsExist ==
    ASSUME NEW k \in Nat, NEW n \in Nat, NEW odd \in {0, 1}
    PROVE  \E f : Sums(k, n, odd, f)
<1> DEFINE Good(m, f) ==
              /\ f \in [0..m -> Nat]
              /\ \A i \in 0..m : f[i] = IF i = 0 THEN 0 ELSE f[i - 1] + Bit(k, odd, i)
           S == {m \in Nat : \E f : Good(m, f)}
<1>1. 0 \in S
  <2>1. Good(0, [i \in 0..0 |-> 0])
    OBVIOUS
  <2> QED BY <2>1
<1>2. \A m \in 0..n - 1 : m \in S => m + 1 \in S
  <2> SUFFICES ASSUME NEW m \in 0..n - 1, m \in S PROVE m + 1 \in S
    OBVIOUS
  <2>1. PICK f : Good(m, f)
    OBVIOUS
  <2> DEFINE last == f[m] + Bit(k, odd, m + 1)
             g == [i \in 0..m + 1 |-> IF i = m + 1 THEN last ELSE f[i]]
  <2>2. last \in Nat
    <3>1. f[m] \in Nat
      BY <2>1
    <3>2. Bit(k, odd, m + 1) \in Nat
      BY BitType
    <3> QED BY <3>1, <3>2
  <2>3. \A i \in 0..m + 1 : i # m + 1 => i \in 0..m /\ (i # 0 => i - 1 \in 0..m)
    OBVIOUS
  <2> HIDE DEF last
  <2>4. g \in [0..m + 1 -> Nat]
    BY <2>1, <2>2, <2>3
  <2>5. \A i \in 0..m + 1 : g[i] = IF i = 0 THEN 0 ELSE g[i - 1] + Bit(k, odd, i)
    <3> SUFFICES ASSUME NEW i \in 0..m + 1
                 PROVE  g[i] = IF i = 0 THEN 0 ELSE g[i - 1] + Bit(k, odd, i)
      OBVIOUS
    <3>1. CASE i = m + 1
      <4>1. i - 1 = m /\ m \in 0..m + 1 /\ i # 0 /\ m # m + 1
        BY <3>1
      <4> QED BY <3>1, <4>1 DEF last
    <3>2. CASE i # m + 1
      <4>1. f[i] = IF i = 0 THEN 0 ELSE f[i - 1] + Bit(k, odd, i)
        BY <2>1, <2>3, <3>2
      <4>2. i # 0 => i - 1 \in 0..m + 1 /\ i - 1 # m + 1
        OBVIOUS
      <4> QED BY <3>2, <4>1, <4>2
    <3> QED BY <3>1, <3>2
  <2>6. Good(m + 1, g)
    BY <2>4, <2>5
  <2>7. m + 1 \in Nat
    OBVIOUS
  <2> QED BY <2>6, <2>7
<1> HIDE DEF S
<1>3. n \in S
  BY <1>1, <1>2, Upwards
<1>4. PICK f : Good(n, f)
  BY <1>3 DEF S
<1>5. f = [i \in 0..n |-> IF i = 0 THEN 0 ELSE f[i - 1] + Bit(k, odd, i)]
  BY <1>4
<1> QED BY <1>5 DEF Sums

\* Deinterleave is the last of the sums.
LEMMA DeinterleaveIs ==
    ASSUME NEW k \in Nat, NEW n \in Nat, NEW odd \in {0, 1}
    PROVE  \E f : /\ f[0] = 0 /\ Deinterleave(k, n, odd) = f[n]
                  /\ \A i \in 0..n : f[i] \in Nat
                  /\ \A i \in 1..n : f[i] = f[i - 1] + Bit(k, odd, i)
<1> DEFINE F == CHOOSE f : Sums(k, n, odd, f)
<1>1. Sums(k, n, odd, F)
  BY SumsExist
<1>2. Deinterleave(k, n, odd) = F[n]
  BY DEF Deinterleave, Sums, Bit
<1> HIDE DEF F
<1>3. \A i \in 0..n : F[i] = IF i = 0 THEN 0 ELSE F[i - 1] + Bit(k, odd, i)
  BY <1>1 DEF Sums
<1>4. F[0] = 0
  BY <1>3
<1>5. \A i \in 1..n : F[i] = F[i - 1] + Bit(k, odd, i)
  BY <1>3
<1>6. \A i \in 0..n : F[i] \in Nat
  <2> DEFINE S == {i \in Nat : F[i] \in Nat}
  <2>1. 0 \in S
    BY <1>4
  <2>2. \A i \in 0..n - 1 : i \in S => i + 1 \in S
    <3> SUFFICES ASSUME NEW i \in 0..n - 1, i \in S PROVE i + 1 \in S
      OBVIOUS
    <3>1. i + 1 \in 1..n /\ (i + 1) - 1 = i /\ i + 1 \in Nat \ {0}
      OBVIOUS
    <3>2. F[i + 1] = F[i] + Bit(k, odd, i + 1) /\ Bit(k, odd, i + 1) \in Nat
      BY <1>5, <3>1, BitType
    <3> QED BY <3>1, <3>2
  <2> HIDE DEF S
  <2>3. 0..n \subseteq S
    BY <2>1, <2>2, Upwards
  <2> QED BY <2>3 DEF S
<1> QED BY <1>2, <1>4, <1>5, <1>6

\* One digit more moves the bits of the others one place up.
LEMMA BitOfChild ==
    ASSUME NEW k \in Nat, NEW q \in 0..3, NEW odd \in {0, 1}
    PROVE  /\ Bit(4 * k + q, odd, 1) = IF odd = 0 THEN q % 2 ELSE q \div 2
           /\ \A i \in Nat \ {0} : Bit(4 * k + q, odd, i + 1) = 2 * Bit(k, odd, i)
<1>1. Bit(4 * k + q, odd, 1) = IF odd = 0 THEN q % 2 ELSE q \div 2
  <2>1. Power2[0] = 1 /\ Power2[1] = 2
    <3>1. Power2[0 + 1] = 2 * Power2[0] /\ Power2[0] = 1
      BY Powers
    <3> QED BY <3>1
  <2>2. 2 * (1 - 1) + 0 = 0 /\ 2 * (1 - 1) + 1 = 1 /\ 1 - 1 = 0
    OBVIOUS
  <2>3. CASE odd = 0
    <3>1. ((4 * k + q) \div 1) % 2 = q % 2 /\ q % 2 \in Nat
      OBVIOUS
    <3> QED BY <2>1, <2>2, <2>3, <3>1 DEF Bit
  <2>4. CASE odd = 1
    <3>1. ((4 * k + q) \div 2) % 2 = q \div 2 /\ q \div 2 \in Nat
      <4>1. (4 * k + q) \div 2 = 2 * k + (q \div 2)
        OBVIOUS
      <4>2. q \div 2 \in 0..1
        OBVIOUS
      <4>3. (2 * k + (q \div 2)) % 2 = q \div 2
        BY <4>2
      <4> QED BY <4>1, <4>2, <4>3
    <3> QED BY <2>1, <2>2, <2>4, <3>1 DEF Bit
  <2> QED BY <2>3, <2>4
<1>2. ASSUME NEW i \in Nat \ {0}
      PROVE  Bit(4 * k + q, odd, i + 1) = 2 * Bit(k, odd, i)
  <2> DEFINE e == 2 * (i - 1) + odd
             m == Power2[e]
             n == Power2[i - 1]
  <2>1. /\ e \in Nat /\ e + 1 \in Nat /\ 2 * ((i + 1) - 1) + odd = (e + 1) + 1
        /\ (i + 1) - 1 = (i - 1) + 1
    OBVIOUS
  <2>2. i - 1 \in Nat
    OBVIOUS
  <2>3. m \in Nat \ {0} /\ Power2[(e + 1) + 1] = 2 * Power2[e + 1] /\ Power2[e + 1] = 2 * m
    BY <2>1, Powers
  <2>4. n \in Nat /\ Power2[(i - 1) + 1] = 2 * n
    BY <2>2, Powers
  <2>5. Bit(k, odd, i) = ((k \div m) % 2) * n
    BY DEF Bit
  <2>6. Bit(4 * k + q, odd, i + 1) = (((4 * k + q) \div (4 * m)) % 2) * (2 * n)
    <3>1. Power2[2 * ((i + 1) - 1) + odd] = 4 * m
      BY <2>1, <2>3
    <3>2. Power2[(i + 1) - 1] = 2 * n
      BY <2>1, <2>4
    <3> HIDE DEF m, n
    <3> QED BY <3>1, <3>2 DEF Bit
  <2> HIDE DEF m, n, e
  <2>7. (4 * k + q) \div (4 * m) = k \div m /\ (k \div m) \in Nat
    BY <2>3
  <2>8. (k \div m) % 2 \in Nat
    BY <2>7
  <2> DEFINE b == (k \div m) % 2
  <2>9. b \in Nat
    BY <2>8
  <2>10. Bit(k, odd, i) = b * n /\ Bit(4 * k + q, odd, i + 1) = b * (2 * n)
    BY <2>5, <2>6, <2>7
  <2> HIDE DEF b
  <2>11. b * (2 * n) = 2 * (b * n)
    BY <2>4, <2>9
  <2> QED BY <2>10, <2>11
<1> QED BY <1>1, <1>2

\* A coordinate of a child is twice that of its parent, and a bit of the quadrant.
LEMMA DeinterleaveChild ==
    ASSUME NEW k \in Nat, NEW q \in 0..3, NEW n \in Nat, NEW odd \in {0, 1}
    PROVE  /\ Deinterleave(k, n, odd) \in Nat
           /\ Deinterleave(4 * k + q, n + 1, odd)
                = 2 * Deinterleave(k, n, odd) + (IF odd = 0 THEN q % 2 ELSE q \div 2)
<1>1. 4 * k + q \in Nat /\ n + 1 \in Nat /\ 1 \in 1..n + 1 /\ n + 1 \in 0..n + 1
  OBVIOUS
<1>2. PICK f : /\ f[0] = 0 /\ Deinterleave(k, n, odd) = f[n]
               /\ \A i \in 0..n : f[i] \in Nat
               /\ \A i \in 1..n : f[i] = f[i - 1] + Bit(k, odd, i)
  BY DeinterleaveIs
<1>3. PICK g : /\ g[0] = 0 /\ Deinterleave(4 * k + q, n + 1, odd) = g[n + 1]
               /\ \A i \in 0..n + 1 : g[i] \in Nat
               /\ \A i \in 1..n + 1 : g[i] = g[i - 1] + Bit(4 * k + q, odd, i)
  BY <1>1, DeinterleaveIs
<1> DEFINE b == IF odd = 0 THEN q % 2 ELSE q \div 2
           S == {i \in Nat : g[i + 1] = 2 * f[i] + b}
<1>4. b \in Nat /\ Bit(4 * k + q, odd, 1) = b
  <2>1. b \in Nat
    OBVIOUS
  <2>2. Bit(4 * k + q, odd, 1) = b
    BY BitOfChild
  <2> QED BY <2>1, <2>2
<1> HIDE DEF b
<1>5. 0 \in S
  <2>1. g[1] = g[1 - 1] + Bit(4 * k + q, odd, 1)
    BY <1>1, <1>3
  <2>2. 1 - 1 = 0 /\ 0 + 1 = 1
    OBVIOUS
  <2>3. g[1] = 0 + b
    BY <1>3, <1>4, <2>1, <2>2
  <2>4. 0 + b = 2 * 0 + b
    BY <1>4
  <2> QED BY <1>2, <2>2, <2>3, <2>4
<1>6. \A i \in 0..n - 1 : i \in S => i + 1 \in S
  <2> SUFFICES ASSUME NEW i \in 0..n - 1, g[i + 1] = 2 * f[i] + b
               PROVE  g[(i + 1) + 1] = 2 * f[i + 1] + b
    OBVIOUS
  <2>1. (i + 1) + 1 \in 1..n + 1 /\ ((i + 1) + 1) - 1 = i + 1 /\ i + 1 \in 1..n /\ (i + 1) - 1 = i
    OBVIOUS
  <2>2. i \in 0..n /\ i + 1 \in Nat \ {0}
    OBVIOUS
  <2>3. g[(i + 1) + 1] = g[i + 1] + Bit(4 * k + q, odd, (i + 1) + 1)
    BY <1>3, <2>1
  <2>4. f[i + 1] = f[i] + Bit(k, odd, i + 1)
    BY <1>2, <2>1
  <2>5. Bit(4 * k + q, odd, (i + 1) + 1) = 2 * Bit(k, odd, i + 1) /\ Bit(k, odd, i + 1) \in Nat
    BY <2>2, BitOfChild, BitType
  <2>6. f[i] \in Nat
    BY <1>2, <2>2
  <2> QED BY <1>4, <2>3, <2>4, <2>5, <2>6
<1> HIDE DEF S
<1>7. 0..n \subseteq S
  BY <1>5, <1>6, Upwards
<1>8. g[n + 1] = 2 * f[n] + b /\ f[n] \in Nat
  <2>1. n \in 0..n
    OBVIOUS
  <2> QED BY <1>2, <1>7, <2>1 DEF S
<1> QED BY <1>2, <1>3, <1>8 DEF b

\* Widths, and where the children of a cell begin.
LEMMA Corners ==
    ASSUME NEW c \in Cells
    PROVE  /\ West(c) \in Nat /\ South(c) \in Nat
           /\ Resolution(c.level) \in Nat \ {0}
           /\ c.level < MaxLevel =>
                /\ Resolution(c.level + 1) \in Nat \ {0}
                /\ Resolution(c.level) = 2 * Resolution(c.level + 1)
                /\ \A q \in 0..3 :
                     /\ West(Child(c, q)) = West(c) + (q % 2) * Resolution(c.level + 1)
                     /\ South(Child(c, q)) = South(c) + (q \div 2) * Resolution(c.level + 1)
<1> DEFINE x == Deinterleave(c.key, c.level, 0)
           y == Deinterleave(c.key, c.level, 1)
           r == Resolution(c.level)
           h == Resolution(c.level + 1)
<1>1. c.level \in Nat /\ c.key \in Nat /\ MaxLevel - c.level \in Nat
  BY CellType, MaxLevelAssumption
<1>2. x \in Nat /\ y \in Nat
  <2>1. 0 \in 0..3 /\ 0 \in {0, 1} /\ 1 \in {0, 1}
    OBVIOUS
  <2> QED BY <1>1, <2>1, DeinterleaveChild
<1>3. r \in Nat \ {0}
  BY <1>1, Powers DEF Resolution
<1>4. West(c) = x * r /\ South(c) = y * r
  BY DEF West, South
<1>5. West(c) \in Nat /\ South(c) \in Nat
  <2> HIDE DEF x, y, r
  <2> QED BY <1>2, <1>3, <1>4
<1>6. ASSUME c.level < MaxLevel
      PROVE  /\ h \in Nat \ {0} /\ r = 2 * h
             /\ \A q \in 0..3 :
                  /\ West(Child(c, q)) = West(c) + (q % 2) * h
                  /\ South(Child(c, q)) = South(c) + (q \div 2) * h
  <2>1. MaxLevel - (c.level + 1) \in Nat /\ MaxLevel - c.level = (MaxLevel - (c.level + 1)) + 1
    BY <1>1, <1>6, MaxLevelAssumption
  <2>2. h \in Nat \ {0} /\ r = 2 * h
    BY <2>1, Powers DEF Resolution
  <2>3. ASSUME NEW q \in 0..3
        PROVE  /\ West(Child(c, q)) = West(c) + (q % 2) * h
               /\ South(Child(c, q)) = South(c) + (q \div 2) * h
    <3> DEFINE u == q % 2
               v == q \div 2
    <3>1. u \in Nat /\ v \in Nat
      OBVIOUS
    <3>2. Child(c, q).level = c.level + 1 /\ Child(c, q).key = 4 * c.key + q
      BY <1>6, ChildCell
    <3>3. Deinterleave(4 * c.key + q, c.level + 1, 0) = 2 * x + u
      BY <1>1, DeinterleaveChild
    <3>4. Deinterleave(4 * c.key + q, c.level + 1, 1) = 2 * y + v
      <4>1. 1 \in {0, 1} /\ 1 # 0
        OBVIOUS
      <4> QED BY <1>1, <4>1, DeinterleaveChild
    <3>5. West(Child(c, q)) = (2 * x + u) * h /\ South(Child(c, q)) = (2 * y + v) * h
      BY <3>2, <3>3, <3>4 DEF West, South
    <3> HIDE DEF x, y, r, h, u, v
    <3>6. (2 * x + u) * h = x * (2 * h) + u * h /\ (2 * y + v) * h = y * (2 * h) + v * h
      BY <1>2, <2>2, <3>1
    <3> QED BY <1>4, <2>2, <3>5, <3>6 DEF u, v
  <2> QED BY <2>2, <2>3
<1> QED BY <1>3, <1>5, <1>6

-----------------------------------------------------------------------------
(* Boxes of cells                                                          *)

\* The squares of a box are those between its sides.
LEMMA BoxSquares ==
    ASSUME NEW w \in Nat, NEW s \in Nat, NEW n \in Nat, NEW p
    PROVE  p \in Box(w, s, n) <=>
              /\ p = <<p[1], p[2]>>
              /\ p[1] \in Nat /\ w <= p[1] /\ p[1] < w + n
              /\ p[2] \in Nat /\ s <= p[2] /\ p[2] < s + n
<1>1. ASSUME p \in Box(w, s, n)
      PROVE  /\ p = <<p[1], p[2]>>
             /\ p[1] \in Nat /\ w <= p[1] /\ p[1] < w + n
             /\ p[2] \in Nat /\ s <= p[2] /\ p[2] < s + n
  <2>1. PICK x \in w..w + n - 1, y \in s..s + n - 1 : p = <<x, y>>
    BY <1>1 DEF Box
  <2>2. p[1] = x /\ p[2] = y
    BY <2>1
  <2> QED BY <2>1, <2>2
<1>2. ASSUME /\ p = <<p[1], p[2]>>
             /\ p[1] \in Nat /\ w <= p[1] /\ p[1] < w + n
             /\ p[2] \in Nat /\ s <= p[2] /\ p[2] < s + n
      PROVE  p \in Box(w, s, n)
  <2>1. p[1] \in w..w + n - 1 /\ p[2] \in s..s + n - 1
    BY <1>2
  <2> QED BY <1>2, <2>1 DEF Box
<1> QED BY <1>1, <1>2

\* The four halves of a box: each square is in one of them, and in one only.
LEMMA Halves ==
    ASSUME NEW w \in Nat, NEW s \in Nat, NEW h \in Nat \ {0}
    PROVE  /\ \A q \in 0..3 :
                 Box(w + (q % 2) * h, s + (q \div 2) * h, h) \subseteq Box(w, s, 2 * h)
           /\ \A p \in Box(w, s, 2 * h) : \E q \in 0..3 :
                 p \in Box(w + (q % 2) * h, s + (q \div 2) * h, h)
           /\ \A q, r \in 0..3 : \A p :
                 /\ p \in Box(w + (q % 2) * h, s + (q \div 2) * h, h)
                 /\ p \in Box(w + (r % 2) * h, s + (r \div 2) * h, h)
                 => q = r
<1> DEFINE B(q) == Box(w + (q % 2) * h, s + (q \div 2) * h, h)
           In(p, u, v) == /\ p = <<p[1], p[2]>>
                          /\ p[1] \in Nat /\ w + u * h <= p[1] /\ p[1] < w + u * h + h
                          /\ p[2] \in Nat /\ s + v * h <= p[2] /\ p[2] < s + v * h + h
<1>1. \A q \in 0..3 : q \in {0, 1, 2, 3}
  OBVIOUS
<1>2. /\ 0 % 2 = 0 /\ 0 \div 2 = 0 /\ 1 % 2 = 1 /\ 1 \div 2 = 0
      /\ 2 % 2 = 0 /\ 2 \div 2 = 1 /\ 3 % 2 = 1 /\ 3 \div 2 = 1
  OBVIOUS
<1>3. \A q \in 0..3 : \A p : p \in B(q) <=> In(p, q % 2, q \div 2)
  <2> SUFFICES ASSUME NEW q \in 0..3, NEW p PROVE p \in B(q) <=> In(p, q % 2, q \div 2)
    OBVIOUS
  <2> DEFINE u == q % 2
             v == q \div 2
  <2>1. u \in {0, 1} /\ v \in {0, 1}
    BY <1>1, <1>2
  <2> HIDE DEF u, v
  <2>2. w + u * h \in Nat /\ s + v * h \in Nat
    BY <2>1
  <2>3. p \in Box(w + u * h, s + v * h, h) <=> In(p, u, v)
    BY <2>2, BoxSquares
  <2> QED BY <2>3 DEF u, v
<1>4. \A p : p \in Box(w, s, 2 * h) <=>
              /\ p = <<p[1], p[2]>>
              /\ p[1] \in Nat /\ w <= p[1] /\ p[1] < w + 2 * h
              /\ p[2] \in Nat /\ s <= p[2] /\ p[2] < s + 2 * h
  <2>1. 2 * h \in Nat
    OBVIOUS
  <2> QED BY <2>1, BoxSquares
<1> HIDE DEF B
<1>5. ASSUME NEW q \in 0..3, NEW p \in B(q) PROVE p \in Box(w, s, 2 * h)
  <2>1. In(p, q % 2, q \div 2)
    BY <1>3
  <2> DEFINE u == q % 2
             v == q \div 2
  <2>2. u \in {0, 1} /\ v \in {0, 1} /\ In(p, u, v)
    BY <1>1, <1>2, <2>1
  <2> HIDE DEF u, v
  <2>3. w <= p[1] /\ p[1] < w + 2 * h /\ s <= p[2] /\ p[2] < s + 2 * h
    BY <2>2
  <2> QED BY <1>4, <2>2, <2>3
<1>6. ASSUME NEW p \in Box(w, s, 2 * h) PROVE \E q \in 0..3 : p \in B(q)
  <2>1. /\ p = <<p[1], p[2]>>
        /\ p[1] \in Nat /\ w <= p[1] /\ p[1] < w + 2 * h
        /\ p[2] \in Nat /\ s <= p[2] /\ p[2] < s + 2 * h
    BY <1>4
  <2>2. CASE p[1] < w + h /\ p[2] < s + h
    <3>1. In(p, 0, 0)
      BY <2>1, <2>2
    <3> QED BY <1>2, <1>3, <3>1
  <2>3. CASE p[1] >= w + h /\ p[2] < s + h
    <3>1. In(p, 1, 0)
      BY <2>1, <2>3
    <3> QED BY <1>2, <1>3, <3>1
  <2>4. CASE p[1] < w + h /\ p[2] >= s + h
    <3>1. In(p, 0, 1)
      BY <2>1, <2>4
    <3> QED BY <1>2, <1>3, <3>1
  <2>5. CASE p[1] >= w + h /\ p[2] >= s + h
    <3>1. In(p, 1, 1)
      BY <2>1, <2>5
    <3> QED BY <1>2, <1>3, <3>1
  <2> QED BY <2>1, <2>2, <2>3, <2>4, <2>5
<1>7. ASSUME NEW q \in 0..3, NEW r \in 0..3, NEW p, p \in B(q), p \in B(r) PROVE q = r
  <2> DEFINE u == q % 2
             v == q \div 2
             x == r % 2
             y == r \div 2
  <2>1. In(p, u, v) /\ In(p, x, y)
    BY <1>3, <1>7
  <2>2. u \in {0, 1} /\ v \in {0, 1} /\ q = 2 * v + u
    BY <1>1, <1>2
  <2>3. x \in {0, 1} /\ y \in {0, 1} /\ r = 2 * y + x
    BY <1>1, <1>2
  <2> HIDE DEF u, v, x, y
  <2>4. u = x
    BY <2>1, <2>2, <2>3
  <2>5. v = y
    BY <2>1, <2>2, <2>3
  <2> QED BY <2>2, <2>3, <2>4, <2>5
<1> QED BY <1>5, <1>6, <1>7 DEF B

\* The boxes of the four children are the quadrants, and divide the box.
LEMMA ChildBoxes ==
    ASSUME NEW c \in Cells, c.level < MaxLevel
    PROVE  /\ \A q \in 0..3 : /\ KeyBox(Child(c, q)) = Quadrant(c, q)
                              /\ KeyBox(Child(c, q)) \subseteq KeyBox(c)
           /\ \A s \in KeyBox(c) : \E q \in 0..3 : s \in KeyBox(Child(c, q))
           /\ \A q, r \in 0..3 : \A s :
                 s \in KeyBox(Child(c, q)) /\ s \in KeyBox(Child(c, r)) => q = r
<1> DEFINE h == Resolution(c.level + 1)
           w == West(c)
           z == South(c)
<1>1. w \in Nat /\ z \in Nat /\ h \in Nat \ {0} /\ Resolution(c.level) = 2 * h
  BY Corners
<1>2. \A q \in 0..3 : Quadrant(c, q) = Box(w + (q % 2) * h, z + (q \div 2) * h, h)
  BY DEF Quadrant
<1>3. KeyBox(c) = Box(w, z, 2 * h)
  BY <1>1 DEF KeyBox
<1>4. ASSUME NEW q \in 0..3 PROVE KeyBox(Child(c, q)) = Quadrant(c, q)
  <2>1. Child(c, q).level = c.level + 1
    BY ChildCell
  <2>2. West(Child(c, q)) = w + (q % 2) * h /\ South(Child(c, q)) = z + (q \div 2) * h
    BY Corners
  <2> QED BY <1>2, <2>1, <2>2 DEF KeyBox
<1> HIDE DEF h, w, z
<1>5. \A q \in 0..3 : Quadrant(c, q) \subseteq KeyBox(c)
  BY <1>1, <1>2, <1>3, Halves
<1>6. \A s \in KeyBox(c) : \E q \in 0..3 : s \in Quadrant(c, q)
  BY <1>1, <1>2, <1>3, Halves
<1>7. \A q, r \in 0..3 : \A s : s \in Quadrant(c, q) /\ s \in Quadrant(c, r) => q = r
  <2> SUFFICES ASSUME NEW q \in 0..3, NEW r \in 0..3, NEW s,
                      s \in Quadrant(c, q), s \in Quadrant(c, r)
               PROVE  q = r
    OBVIOUS
  <2>1. /\ s \in Box(w + (q % 2) * h, z + (q \div 2) * h, h)
        /\ s \in Box(w + (r % 2) * h, z + (r \div 2) * h, h)
    BY <1>2
  <2> QED BY <1>1, <2>1, Halves
<1> QED BY <1>4, <1>5, <1>6, <1>7

\* The box of the root is the whole plane.
LEMMA RootBox == KeyBox(Root) = Squares
<1>1. Root.level = 0 /\ Root.key = 0 /\ 0 \in {0, 1} /\ 1 \in {0, 1} /\ 0 \in Nat /\ 0 \in 0..0
  BY DEF Root
<1>2. Deinterleave(0, 0, 0) = 0
  BY <1>1, DeinterleaveIs
<1>3. Deinterleave(0, 0, 1) = 0
  BY <1>1, DeinterleaveIs
<1>4. Resolution(0) = Side /\ Side \in Nat
  <2>1. MaxLevel - 0 = MaxLevel
    BY MaxLevelAssumption
  <2> QED BY <2>1, MaxLevelAssumption, Powers DEF Resolution, Side
<1>5. West(Root) = 0 /\ South(Root) = 0
  BY <1>1, <1>2, <1>3, <1>4 DEF West, South
<1>6. 0 + Side - 1 = Side - 1
  BY <1>4
<1> QED BY <1>1, <1>4, <1>5, <1>6 DEF KeyBox, Box, Squares

\* The box of a cell is in that of every ancestor, hence on the plane.
LEMMA AncestorBoxes ==
    ASSUME NEW c \in Cells
    PROVE  /\ \A l \in 0..c.level : KeyBox(c) \subseteq KeyBox(Ancestor(c, l))
           /\ KeyBox(c) \subseteq Squares
<1>1. c.level \in Nat /\ c.level <= MaxLevel /\ 0 \in 0..c.level
  BY CellType, MaxLevelAssumption
<1> DEFINE S == {l \in 0..c.level : KeyBox(c) \subseteq KeyBox(Ancestor(c, l))}
<1>2. c.level \in S
  BY <1>1, AncestorSelf
<1>3. \A l \in 0..c.level - 1 : l + 1 \in S => l \in S
  <2> SUFFICES ASSUME NEW l \in 0..c.level - 1, l + 1 \in S PROVE l \in S
    OBVIOUS
  <2> DEFINE d == Ancestor(c, l + 1)
  <2>1. l + 1 \in 0..c.level /\ l \in 0..c.level /\ l \in 0..l + 1 /\ l \in Nat
    BY <1>1
  <2>2. d \in Cells /\ d.level = l + 1 /\ Ancestor(d, l) = Ancestor(c, l)
    BY <2>1, Ancestors
  <2> HIDE DEF d
  <2>3. PICK q \in 0..3 : d = Child(Ancestor(d, l), q)
    BY <2>1, <2>2, Parents
  <2>4. Ancestor(d, l) \in Cells /\ Ancestor(d, l).level < MaxLevel
    BY <2>1, <2>2, Parents
  <2>5. KeyBox(d) \subseteq KeyBox(Ancestor(d, l))
    BY <2>3, <2>4, ChildBoxes
  <2> QED BY <2>1, <2>2, <2>5 DEF d
<1> HIDE DEF S
<1>4. 0..c.level \subseteq S
  <2> DEFINE n == c.level
  <2>1. 0 \in Int /\ n \in Int /\ n \in S /\ \A l \in 0..n - 1 : l + 1 \in S => l \in S
    BY <1>1, <1>2, <1>3
  <2> HIDE DEF n
  <2>2. 0..n \subseteq S
    BY <2>1, Downwards
  <2> QED BY <2>2 DEF n
<1>5. Ancestor(c, 0) = Root
  BY <1>1, Ancestors, RootCell
<1> QED BY <1>1, <1>4, <1>5, RootBox DEF S

\* Each square is in a cell of each level, and in one only.
LEMMA CellOfSquare ==
    ASSUME NEW s \in Squares, NEW l \in 0..MaxLevel
    PROVE  /\ \E c \in Cells : c.level = l /\ s \in KeyBox(c)
           /\ \A c, d \in Cells : /\ c.level = l /\ d.level = l
                                  /\ s \in KeyBox(c) /\ s \in KeyBox(d)
                                  => c = d
<1> DEFINE S == {n \in 0..MaxLevel :
                    /\ \E c \in Cells : c.level = n /\ s \in KeyBox(c)
                    /\ \A c, d \in Cells : /\ c.level = n /\ d.level = n
                                           /\ s \in KeyBox(c) /\ s \in KeyBox(d)
                                           => c = d}
<1>1. 0 \in S
  BY RootCell, RootBox, MaxLevelAssumption
<1>2. \A n \in 0..MaxLevel - 1 : n \in S => n + 1 \in S
  <2> SUFFICES ASSUME NEW n \in 0..MaxLevel - 1, n \in S PROVE n + 1 \in S
    OBVIOUS
  <2>1. n \in Nat /\ n < MaxLevel /\ n + 1 \in 0..MaxLevel /\ n \in 0..n + 1
    BY MaxLevelAssumption
  <2>2. PICK c \in Cells : c.level = n /\ s \in KeyBox(c)
    OBVIOUS
  <2>3. PICK q \in 0..3 : s \in KeyBox(Child(c, q))
    BY <2>1, <2>2, ChildBoxes
  <2>4. Child(c, q) \in Cells /\ Child(c, q).level = n + 1
    BY <2>1, <2>2, ChildCell
  <2>5. ASSUME NEW d \in Cells, NEW e \in Cells, d.level = n + 1, e.level = n + 1,
               s \in KeyBox(d), s \in KeyBox(e)
        PROVE  d = e
    <3>1. PICK f \in Cells, i \in 0..3 :
             f.level = d.level - 1 /\ f.level < MaxLevel /\ d = Child(f, i)
      BY <2>1, <2>5, ParentOf
    <3>2. PICK g \in Cells, j \in 0..3 :
             g.level = e.level - 1 /\ g.level < MaxLevel /\ e = Child(g, j)
      BY <2>1, <2>5, ParentOf
    <3>3. f.level = n /\ g.level = n
      BY <2>1, <2>5, <3>1, <3>2
    <3>4. s \in KeyBox(f) /\ s \in KeyBox(g)
      BY <2>5, <3>1, <3>2, ChildBoxes
    <3>5. f = g
      BY <3>3, <3>4
    <3>6. i = j
      BY <2>5, <3>1, <3>2, <3>5, ChildBoxes
    <3> QED BY <3>1, <3>2, <3>5, <3>6
  <2> QED BY <2>1, <2>3, <2>4, <2>5
<1> HIDE DEF S
<1>3. 0..MaxLevel \subseteq S
  BY <1>1, <1>2, MaxLevelAssumption, Upwards
<1> QED BY <1>3 DEF S

\* Cells that share a square lie above each other.
LEMMA CellsNest ==
    ASSUME NEW c \in Cells, NEW d \in Cells, c.level <= d.level,
           NEW s \in KeyBox(c), s \in KeyBox(d)
    PROVE  c = Ancestor(d, c.level)
<1>1. c.level \in 0..MaxLevel /\ c.level \in 0..d.level
  BY CellType
<1>2. Ancestor(d, c.level) \in Cells /\ Ancestor(d, c.level).level = c.level
  BY <1>1, Ancestors
<1>3. s \in KeyBox(Ancestor(d, c.level)) /\ s \in Squares
  BY <1>1, AncestorBoxes
<1> QED BY <1>1, <1>2, <1>3, CellOfSquare

\* No box is empty.
LEMMA BoxesNonempty ==
    ASSUME NEW c \in Cells
    PROVE  KeyBox(c) # {}
<1> DEFINE w == West(c)
           z == South(c)
           r == Resolution(c.level)
<1>1. w \in Nat /\ z \in Nat /\ r \in Nat \ {0}
  BY Corners
<1> HIDE DEF w, z, r
<1>2. w \in w..w + r - 1 /\ z \in z..z + r - 1
  BY <1>1
<1>3. <<w, z>> \in Box(w, z, r)
  BY <1>2 DEF Box
<1> QED BY <1>3 DEF KeyBox, w, z, r

\* At the deepest level cells are squares.
LEMMA DeepestBoxes ==
    ASSUME NEW c \in Cells, c.level = MaxLevel, NEW s \in KeyBox(c)
    PROVE  KeyBox(c) = {s}
<1> DEFINE w == West(c)
           z == South(c)
<1>1. Resolution(c.level) = 1
  <2>1. MaxLevel - MaxLevel = 0
    BY MaxLevelAssumption
  <2> QED BY <2>1, Powers DEF Resolution
<1>2. w \in Nat /\ z \in Nat
  BY Corners
<1> HIDE DEF w, z
<1>3. w..w + 1 - 1 = {w} /\ z..z + 1 - 1 = {z}
  BY <1>2
<1>4. KeyBox(c) = {w} \X {z}
  BY <1>1, <1>3 DEF KeyBox, Box, w, z
<1>5. KeyBox(c) = {<<w, z>>}
  BY <1>4
<1> QED BY <1>5

-----------------------------------------------------------------------------
(* Blocks of keys                                                          *)

\* Powers of four of a sum of levels are products.
LEMMA PowersMultiply ==
    ASSUME NEW m \in Nat, NEW n \in Nat
    PROVE  Power4(m + n) = Power4(m) * Power4(n)
<1> DEFINE S == {k \in Nat : Power4(m + k) = Power4(m) * Power4(k)}
<1>1. 0 \in S
  <2>1. m + 0 = m /\ Power4(m) * 1 = Power4(m)
    BY Powers4
  <2> QED BY <2>1, Powers4
<1>2. \A k \in 0..n - 1 : k \in S => k + 1 \in S
  <2> SUFFICES ASSUME NEW k \in 0..n - 1, k \in S PROVE k + 1 \in S
    OBVIOUS
  <2> DEFINE a == Power4(m)
             b == Power4(k)
  <2>1. m + (k + 1) = (m + k) + 1 /\ m + k \in Nat /\ k \in Nat /\ k + 1 \in Nat
    OBVIOUS
  <2>2. Power4(m + (k + 1)) = 4 * Power4(m + k) /\ Power4(k + 1) = 4 * b
    BY <2>1, Powers4
  <2>3. Power4(m + k) = a * b /\ a \in Nat /\ b \in Nat
    BY <2>1, Powers4
  <2> HIDE DEF a, b
  <2>4. 4 * (a * b) = a * (4 * b)
    BY <2>3
  <2> QED BY <2>1, <2>2, <2>3, <2>4 DEF a
<1> HIDE DEF S
<1>3. 0..n \subseteq S
  BY <1>1, <1>2, Upwards
<1> QED BY <1>3 DEF S

\* The block of a cell at a level holds the cells of that level below it.
LEMMA Blocks ==
    ASSUME NEW c \in Cells, NEW l \in c.level..MaxLevel
    PROVE  Block(c, l) = {d \in Cells : d.level = l /\ Ancestor(d, c.level) = c}
<1> DEFINE m == Power4(l - c.level)
           a == Power4(c.level)
           k == c.key
<1>1. /\ c.level \in Nat /\ l \in Nat /\ l \in 0..MaxLevel
      /\ l - c.level \in Nat /\ c.level + (l - c.level) = l
  BY CellType, MaxLevelAssumption
<1>2. m \in Nat \ {0} /\ a \in Nat \ {0} /\ Power4(l) = a * m
  BY <1>1, Powers4, PowersMultiply
<1>3. k \in 0..a - 1 /\ c = [level |-> c.level, key |-> k]
  BY CellType
<1>4. Block(c, l) = {[level |-> l, key |-> k * m + i] : i \in 0..m - 1}
  BY DEF Block
<1>5. ASSUME NEW d, d.level = l
      PROVE  Ancestor(d, c.level) = [level |-> c.level, key |-> d.key \div m]
  BY <1>5 DEF Ancestor
<1> HIDE DEF m, a, k
<1>6. ASSUME NEW i \in 0..m - 1
      PROVE  LET d == [level |-> l, key |-> k * m + i]
             IN  d \in Cells /\ d.level = l /\ Ancestor(d, c.level) = c
  <2> DEFINE n == k * m + i
             d == [level |-> l, key |-> n]
  <2>1. n \in Nat
    BY <1>2, <1>3
  <2>2. n < a * m
    <3>1. (k + 1) * m <= a * m
      BY <1>2, <1>3
    <3>2. (k + 1) * m = k * m + m /\ k * m \in Nat /\ a * m \in Nat
      BY <1>2, <1>3
    <3> QED BY <1>2, <3>1, <3>2
  <2>3. n \div m = k
    <3>1. k \in Nat /\ i \in Nat /\ i < m /\ n = m * k + i
      BY <1>2, <1>3
    <3> HIDE DEF n
    <3>2. k = n \div m
      BY <1>2, <2>1, <3>1
    <3> QED BY <3>2
  <2>4. n \in 0..Power4(l) - 1
    <3>1. a * m \in Nat
      BY <1>2
    <3> QED BY <1>2, <2>1, <2>2, <3>1
  <2>5. d \in Cells
    BY <1>1, <2>4, CellMade
  <2>6. d.level = l /\ d.key = n
    OBVIOUS
  <2> HIDE DEF n
  <2>7. Ancestor(d, c.level) = [level |-> c.level, key |-> k]
    BY <1>5, <2>3, <2>6
  <2> QED BY <1>3, <2>5, <2>6, <2>7 DEF n
<1>7. ASSUME NEW d \in Cells, d.level = l, Ancestor(d, c.level) = c
      PROVE  \E i \in 0..m - 1 : d = [level |-> l, key |-> k * m + i]
  <2> DEFINE n == d.key
  <2>1. n \in Nat /\ d = [level |-> l, key |-> n]
    BY <1>7, CellType
  <2>2. n \div m = k
    <3>1. Ancestor(d, c.level) = [level |-> c.level, key |-> n \div m]
      BY <1>5, <1>7
    <3> QED BY <1>3, <1>7, <3>1
  <2> DEFINE i == n % m
  <2> HIDE DEF n
  <2>3. i \in 0..m - 1
    BY <1>2, <2>1
  <2>4. n = (m * (n \div m)) + (n % m)
    BY <1>2, <2>1
  <2>5. m * k = k * m
    BY <1>2, <1>3
  <2>6. n = k * m + i
    BY <2>2, <2>4, <2>5
  <2> QED BY <2>1, <2>3, <2>6
<1>8. ASSUME NEW d \in Block(c, l)
      PROVE  d \in Cells /\ d.level = l /\ Ancestor(d, c.level) = c
  <2>1. PICK i \in 0..m - 1 : d = [level |-> l, key |-> k * m + i]
    BY <1>4
  <2> QED BY <1>6, <2>1
<1>9. ASSUME NEW d \in Cells, d.level = l, Ancestor(d, c.level) = c
      PROVE  d \in Block(c, l)
  <2>1. PICK i \in 0..m - 1 : d = [level |-> l, key |-> k * m + i]
    BY <1>7, <1>9
  <2> QED BY <1>4, <2>1
<1> QED BY <1>8, <1>9

\* So the boxes of the block make up the box of the cell.
LEMMA BlockBoxes ==
    ASSUME NEW c \in Cells, NEW l \in c.level..MaxLevel
    PROVE  UNION {KeyBox(d) : d \in Block(c, l)} = KeyBox(c)
<1>1. c.level \in 0..l /\ l \in 0..MaxLevel
  BY CellType
<1>2. ASSUME NEW d \in Block(c, l) PROVE KeyBox(d) \subseteq KeyBox(c)
  BY <1>1, Blocks, AncestorBoxes
<1>3. ASSUME NEW s \in KeyBox(c) PROVE \E d \in Block(c, l) : s \in KeyBox(d)
  <2>1. s \in Squares
    BY AncestorBoxes
  <2>2. PICK d \in Cells : d.level = l /\ s \in KeyBox(d)
    BY <1>1, <2>1, CellOfSquare
  <2>3. c.level <= d.level
    BY <1>1, <2>2
  <2>4. Ancestor(d, c.level) = c
    BY <2>2, <2>3, CellsNest
  <2> QED BY <2>2, <2>4, Blocks
<1> QED BY <1>2, <1>3

-----------------------------------------------------------------------------
(* The head of a tree                                                      *)

\* The cells of a level that a geometry meets.
Meeting(geom, l) == {c \in Cells : c.level = l /\ KeyBox(c) \cap geom.met # {}}

\* The quadrants that a geometry hits are the children that it meets.
LEMMA Hits ==
    ASSUME NEW geom, NEW c \in Cells, c.level < MaxLevel
    PROVE  /\ IsFiniteSet(Hit(geom, c)) /\ Hit(geom, c) \subseteq 0..3
           /\ \A q \in 0..3 : q \in Hit(geom, c) <=> KeyBox(Child(c, q)) \cap geom.met # {}
           /\ \A s \in KeyBox(c) \cap geom.met : \E q \in Hit(geom, c) : s \in KeyBox(Child(c, q))
<1>1. IsFiniteSet(0..3)
  <2>1. 0 \in Int /\ 3 \in Int
    OBVIOUS
  <2> QED BY <2>1, FS_Interval
<1>2. Hit(geom, c) \subseteq 0..3
  BY DEF Hit
<1>3. \A q \in 0..3 : q \in Hit(geom, c) <=> KeyBox(Child(c, q)) \cap geom.met # {}
  BY ChildBoxes DEF Hit
<1>4. ASSUME NEW s \in KeyBox(c) \cap geom.met
      PROVE  \E q \in Hit(geom, c) : s \in KeyBox(Child(c, q))
  BY <1>3, ChildBoxes
<1> QED BY <1>1, <1>2, <1>3, <1>4, FS_Subset

\* A set of one element is left by CHOOSE only that one.
LEMMA OneHit ==
    ASSUME NEW T, IsFiniteSet(T)
    PROVE  Cardinality(T) = 1 <=> \E q : T = {q} /\ (CHOOSE x \in T : TRUE) = q
<1>1. ASSUME Cardinality(T) = 1 PROVE \E q : T = {q}
  BY <1>1, FS_Singleton
<1>2. ASSUME NEW q, T = {q} PROVE Cardinality(T) = 1 /\ (CHOOSE x \in T : TRUE) = q
  BY <1>2, FS_Singleton
<1> QED BY <1>1, <1>2

\* One step of the descent to the head, and a function that makes it everywhere.
HeadStep(geom, h, c) ==
    IF c.level = MaxLevel \/ Covered(geom, c) \/ Cardinality(Hit(geom, c)) # 1
    THEN c
    ELSE h[Child(c, CHOOSE q \in Hit(geom, c) : TRUE)]
IsHead(geom, h) == h = [c \in Cells |-> HeadStep(geom, h, c)]

\* A step looks at the function one level further down only.
LEMMA HeadLooksDown ==
    ASSUME NEW geom, NEW c \in Cells, NEW g, NEW h,
           \A d \in Cells : d.level = c.level + 1 => g[d] = h[d]
    PROVE  HeadStep(geom, g, c) = HeadStep(geom, h, c)
<1>1. CASE c.level = MaxLevel \/ Covered(geom, c) \/ Cardinality(Hit(geom, c)) # 1
  BY <1>1 DEF HeadStep
<1>2. CASE ~(c.level = MaxLevel \/ Covered(geom, c) \/ Cardinality(Hit(geom, c)) # 1)
  <2> DEFINE q == CHOOSE x \in Hit(geom, c) : TRUE
  <2>1. c.level < MaxLevel
    BY <1>2, CellType, MaxLevelAssumption
  <2>2. q \in 0..3
    BY <1>2, <2>1, Hits, OneHit
  <2> HIDE DEF q
  <2>3. Child(c, q) \in Cells /\ Child(c, q).level = c.level + 1
    BY <2>1, <2>2, ChildCell
  <2>4. g[Child(c, q)] = h[Child(c, q)]
    BY <2>3
  <2> QED BY <1>2, <2>4 DEF HeadStep, q
<1> QED BY <1>1, <1>2

\* The recursion of _head_node defines a function.
LEMMA HeadsExist ==
    ASSUME NEW geom
    PROVE  \E h : IsHead(geom, h)
<1> DEFINE Good(l, h) ==
              /\ h = [c \in Cells |-> h[c]]
              /\ \A c \in Cells : c.level >= l => h[c] = HeadStep(geom, h, c)
           S == {l \in 0..MaxLevel : \E h : Good(l, h)}
<1>1. MaxLevel \in S
  <2> DEFINE h == [c \in Cells |-> c]
  <2>1. ASSUME NEW c \in Cells, c.level >= MaxLevel PROVE h[c] = HeadStep(geom, h, c)
    <3>1. c.level = MaxLevel
      BY <2>1, CellType, MaxLevelAssumption
    <3> QED BY <3>1 DEF HeadStep
  <2>2. Good(MaxLevel, h)
    BY <2>1
  <2>3. MaxLevel \in 0..MaxLevel
    BY MaxLevelAssumption
  <2> HIDE DEF h, Good
  <2> QED BY <2>2, <2>3
<1>2. \A l \in 0..MaxLevel - 1 : l + 1 \in S => l \in S
  <2> SUFFICES ASSUME NEW l \in 0..MaxLevel - 1, l + 1 \in S PROVE l \in S
    OBVIOUS
  <2>1. PICK h : Good(l + 1, h)
    OBVIOUS
  <2> DEFINE g == [c \in Cells |-> IF c.level = l THEN HeadStep(geom, h, c) ELSE h[c]]
  <2>2. ASSUME NEW c \in Cells, c.level >= l PROVE g[c] = HeadStep(geom, g, c)
    <3>1. c.level \in Nat /\ (c.level # l => c.level >= l + 1)
      BY <2>2, CellType
    <3>2. \A d \in Cells : d.level = c.level + 1 => g[d] = h[d]
      <4>1. c.level + 1 # l
        BY <2>2, <3>1
      <4> QED BY <4>1
    <3> HIDE DEF g
    <3>3. HeadStep(geom, g, c) = HeadStep(geom, h, c)
      BY <3>2, HeadLooksDown
    <3> QED BY <2>1, <3>1, <3>3 DEF g
  <2>3. Good(l, g)
    BY <2>2
  <2>4. l \in 0..MaxLevel
    BY MaxLevelAssumption
  <2> QED BY <2>3, <2>4
<1> HIDE DEF S
<1>3. 0..MaxLevel \subseteq S
  BY <1>1, <1>2, MaxLevelAssumption, Downwards
<1>4. 0 \in S
  BY <1>3, MaxLevelAssumption
<1>5. PICK h : Good(0, h)
  BY <1>4 DEF S
<1>6. h = [c \in Cells |-> HeadStep(geom, h, c)]
  <2>1. \A c \in Cells : h[c] = HeadStep(geom, h, c)
    BY <1>5, CellType
  <2> QED BY <1>5, <2>1
<1> QED BY <1>6 DEF IsHead

\* It satisfies its equation at every cell.
LEMMA HeadIs ==
    ASSUME NEW geom
    PROVE  \E h : /\ Head(geom) = h[Root]
                  /\ \A c \in Cells : h[c] = HeadStep(geom, h, c)
<1> DEFINE h == CHOOSE f : IsHead(geom, f)
<1>1. IsHead(geom, h)
  BY HeadsExist
<1>2. Head(geom) = h[Root]
  BY DEF Head, IsHead, HeadStep
<1> HIDE DEF h
<1>3. \A c \in Cells : h[c] = HeadStep(geom, h, c)
  BY <1>1 DEF IsHead
<1> QED BY <1>2, <1>3

\* From a cell that holds the whole geometry the descent does not leave it.
LEMMA HeadBelow ==
    ASSUME NEW geom, NEW h, \A c \in Cells : h[c] = HeadStep(geom, h, c),
           NEW c \in Cells, geom.met \subseteq KeyBox(c)
    PROVE  h[c] \in Cells /\ h[c].level >= c.level /\ geom.met \subseteq KeyBox(h[c])
<1> DEFINE Good(d) == h[d] \in Cells /\ h[d].level >= d.level /\ geom.met \subseteq KeyBox(h[d])
           S == {l \in 0..MaxLevel :
                    \A d \in Cells : d.level = l /\ geom.met \subseteq KeyBox(d) => Good(d)}
<1>0. ASSUME NEW d \in Cells, geom.met \subseteq KeyBox(d), h[d] = d
      PROVE  Good(d)
  BY <1>0, CellType
<1>1. MaxLevel \in S
  <2>1. ASSUME NEW d \in Cells, d.level = MaxLevel, geom.met \subseteq KeyBox(d)
        PROVE  Good(d)
    <3>1. h[d] = d
      BY <2>1 DEF HeadStep
    <3> QED BY <1>0, <2>1, <3>1
  <2> QED BY <2>1, MaxLevelAssumption
<1>2. \A l \in 0..MaxLevel - 1 : l + 1 \in S => l \in S
  <2> SUFFICES ASSUME NEW l \in 0..MaxLevel - 1, l + 1 \in S,
                      NEW d \in Cells, d.level = l, geom.met \subseteq KeyBox(d)
               PROVE  Good(d)
    BY MaxLevelAssumption
  <2>1. CASE Covered(geom, d) \/ Cardinality(Hit(geom, d)) # 1
    <3>1. h[d] = d
      BY <2>1 DEF HeadStep
    <3> QED BY <1>0, <3>1
  <2>2. CASE ~(Covered(geom, d) \/ Cardinality(Hit(geom, d)) # 1)
    <3>1. d.level < MaxLevel /\ d.level # MaxLevel
      BY MaxLevelAssumption
    <3>2. PICK q \in 0..3 : Hit(geom, d) = {q} /\ (CHOOSE x \in Hit(geom, d) : TRUE) = q
      BY <2>2, <3>1, Hits, OneHit
    <3> DEFINE e == Child(d, q)
    <3>3. h[d] = h[e]
      BY <2>2, <3>1, <3>2 DEF HeadStep
    <3>4. e \in Cells /\ e.level = l + 1
      BY <3>1, ChildCell
    <3>5. geom.met \subseteq KeyBox(e)
      BY <3>1, <3>2, Hits
    <3> HIDE DEF e
    <3>6. Good(e)
      BY <3>4, <3>5
    <3>7. h[e].level \in Nat
      BY <3>6, CellType
    <3> QED BY <3>3, <3>4, <3>6, <3>7
  <2> QED BY <2>1, <2>2
<1> HIDE DEF S
<1>3. 0..MaxLevel \subseteq S
  BY <1>1, <1>2, MaxLevelAssumption, Downwards
<1>4. c.level \in S
  BY <1>3, CellType
<1> QED BY <1>4 DEF S

\* A geometry covers no cell above one that holds all of it.
LEMMA NotCoveredAbove ==
    ASSUME NEW geom, geom.full \subseteq geom.met,
           NEW c \in Cells, c.level < MaxLevel, NEW q \in 0..3,
           geom.met \subseteq KeyBox(Child(c, q))
    PROVE  ~Covered(geom, c)
<1> SUFFICES ASSUME Covered(geom, c) PROVE FALSE
  OBVIOUS
<1>1. PICK r \in 0..3 : r # q
  <2>1. 0 \in 0..3 /\ 1 \in 0..3 /\ 0 # 1
    OBVIOUS
  <2> QED BY <2>1
<1>2. KeyBox(Child(c, r)) \subseteq KeyBox(c) /\ KeyBox(Child(c, r)) # {}
  BY ChildCell, ChildBoxes, BoxesNonempty
<1>3. PICK s : s \in KeyBox(Child(c, r))
  BY <1>2
<1>4. s \in KeyBox(Child(c, q))
  BY <1>2, <1>3 DEF Covered
<1> QED BY <1>1, <1>3, <1>4, ChildBoxes

\* The head of a geometry in a cell is that cell or lies below it, and holds the
\* geometry.
LEMMA HeadOf ==
    ASSUME NEW geom, geom.met # {}, geom.full \subseteq geom.met,
           NEW p \in Cells, geom.met \subseteq KeyBox(p)
    PROVE  /\ Head(geom) \in Cells /\ Head(geom).level >= p.level
           /\ geom.met \subseteq KeyBox(Head(geom))
<1>1. PICK h : Head(geom) = h[Root] /\ \A c \in Cells : h[c] = HeadStep(geom, h, c)
  BY HeadIs
<1> DEFINE n == p.level
           S == {l \in 0..n : h[Ancestor(p, l)] = h[Root]}
<1>2. n \in Nat /\ n <= MaxLevel
  BY CellType, MaxLevelAssumption
<1>3. 0 \in S
  <2>1. Ancestor(p, 0) = Root /\ 0 \in 0..n
    BY <1>2, Ancestors, RootCell
  <2> QED BY <2>1
<1>4. \A l \in 0..n - 1 : l \in S => l + 1 \in S
  <2> SUFFICES ASSUME NEW l \in 0..n - 1, l \in S PROVE l + 1 \in S
    OBVIOUS
  <2> DEFINE a == Ancestor(p, l)
             b == Ancestor(p, l + 1)
  <2>1. l + 1 \in 0..n /\ l \in 0..n /\ l \in 0..l + 1 /\ l \in Nat /\ l < MaxLevel
    BY <1>2, MaxLevelAssumption
  <2>2. b \in Cells /\ b.level = l + 1 /\ Ancestor(b, l) = a
    BY <2>1, Ancestors
  <2>3. a \in Cells /\ a.level = l
    BY <2>1, Ancestors
  <2> HIDE DEF a, b
  <2>4. PICK q \in 0..3 : b = Child(a, q)
    BY <2>1, <2>2, Parents
  <2>5. geom.met \subseteq KeyBox(b)
    BY <2>1, AncestorBoxes DEF b
  <2>6. ~Covered(geom, a)
    BY <2>1, <2>3, <2>4, <2>5, NotCoveredAbove
  <2>7. Hit(geom, a) = {q}
    <3>1. q \in Hit(geom, a)
      BY <2>1, <2>3, <2>4, <2>5, Hits
    <3>2. ASSUME NEW r \in Hit(geom, a) PROVE r = q
      <4>1. r \in 0..3 /\ KeyBox(Child(a, r)) \cap geom.met # {}
        BY <2>1, <2>3, Hits
      <4>2. PICK s \in geom.met : s \in KeyBox(Child(a, r))
        BY <4>1
      <4> QED BY <2>1, <2>3, <2>4, <2>5, <4>1, <4>2, ChildBoxes
    <3> QED BY <3>1, <3>2
  <2>8. h[a] = h[b]
    <3>1. Cardinality(Hit(geom, a)) = 1 /\ (CHOOSE x \in Hit(geom, a) : TRUE) = q
      BY <2>7, FS_Singleton
    <3>2. a.level # MaxLevel
      BY <2>1, <2>3, MaxLevelAssumption
    <3> QED BY <1>1, <2>3, <2>4, <2>6, <3>1, <3>2 DEF HeadStep
  <2> QED BY <2>1, <2>8 DEF a, b
<1> HIDE DEF S
<1>5. n \in S
  <2>1. 0..n \subseteq S
    <3> HIDE DEF n
    <3> QED BY <1>2, <1>3, <1>4, Upwards
  <2> QED BY <1>2, <2>1
<1>6. h[p] = h[Root]
  BY <1>5, AncestorSelf DEF S
<1> QED BY <1>1, <1>6, HeadBelow

-----------------------------------------------------------------------------
(* Trees                                                                   *)

LeafOf(c) == [cell |-> c, qualified |-> TRUE, children |-> {}]
InnerOf(c, children) == [cell |-> c, qualified |-> FALSE, children |-> children]
Limit(geom, maxDepth) ==
    IF maxDepth = Unlimited THEN MaxLevel ELSE Head(geom).level + maxDepth
Ends(geom, limit, c) == c.level >= MaxLevel \/ c.level >= limit \/ Covered(geom, c)
Below(geom, g, c) == {g[Child(c, q)] : q \in Hit(geom, c)}
Qualified(nodes) == {n \in nodes : n.qualified}

\* One step of the descent below the head, and a function that makes it
\* everywhere.
GrowStep(geom, limit, simplify, g, c) ==
    IF Ends(geom, limit, c) THEN LeafOf(c)
    ELSE IF Cardinality(Qualified(Below(geom, g, c))) \in simplify THEN LeafOf(c)
    ELSE InnerOf(c, Below(geom, g, c))
IsGrowth(geom, limit, simplify, g) ==
    g = [c \in Cells |-> GrowStep(geom, limit, simplify, g, c)]

\* A node is made of nodes one level down only.
LEMMA GrowthLooksDown ==
    ASSUME NEW geom, NEW limit, NEW simplify, NEW c \in Cells, NEW g, NEW h,
           \A d \in Cells : d.level = c.level + 1 => g[d] = h[d]
    PROVE  GrowStep(geom, limit, simplify, g, c) = GrowStep(geom, limit, simplify, h, c)
<1>1. CASE Ends(geom, limit, c)
  BY <1>1 DEF GrowStep
<1>2. CASE ~Ends(geom, limit, c)
  <2>1. c.level < MaxLevel
    BY <1>2, CellType, MaxLevelAssumption DEF Ends
  <2>2. \A q \in Hit(geom, c) : g[Child(c, q)] = h[Child(c, q)]
    BY <2>1, Hits, ChildCell
  <2>3. Below(geom, g, c) = Below(geom, h, c)
    BY <2>2 DEF Below
  <2> QED BY <2>3 DEF GrowStep
<1> QED BY <1>1, <1>2

\* The recursion of quadtree_dfs defines a function.
LEMMA GrowthsExist ==
    ASSUME NEW geom, NEW limit, NEW simplify
    PROVE  \E g : IsGrowth(geom, limit, simplify, g)
<1> DEFINE Step(h, c) == GrowStep(geom, limit, simplify, h, c)
           Good(l, h) ==
              /\ h = [c \in Cells |-> h[c]]
              /\ \A c \in Cells : c.level >= l => h[c] = Step(h, c)
           S == {l \in 0..MaxLevel : \E h : Good(l, h)}
<1>1. MaxLevel \in S
  <2> DEFINE h == [c \in Cells |-> LeafOf(c)]
  <2>1. ASSUME NEW c \in Cells, c.level >= MaxLevel PROVE h[c] = Step(h, c)
    BY <2>1 DEF GrowStep, Ends
  <2>2. Good(MaxLevel, h)
    BY <2>1
  <2>3. MaxLevel \in 0..MaxLevel
    BY MaxLevelAssumption
  <2> HIDE DEF h, Good
  <2> QED BY <2>2, <2>3
<1>2. \A l \in 0..MaxLevel - 1 : l + 1 \in S => l \in S
  <2> SUFFICES ASSUME NEW l \in 0..MaxLevel - 1, l + 1 \in S PROVE l \in S
    OBVIOUS
  <2>1. PICK h : Good(l + 1, h)
    OBVIOUS
  <2> DEFINE g == [c \in Cells |-> IF c.level = l THEN Step(h, c) ELSE h[c]]
  <2>2. ASSUME NEW c \in Cells, c.level >= l PROVE g[c] = Step(g, c)
    <3>1. c.level \in Nat /\ (c.level # l => c.level >= l + 1)
      BY <2>2, CellType
    <3>2. \A d \in Cells : d.level = c.level + 1 => g[d] = h[d]
      <4>1. c.level + 1 # l
        BY <2>2, <3>1
      <4> QED BY <4>1
    <3> HIDE DEF g
    <3>3. Step(g, c) = Step(h, c)
      BY <3>2, GrowthLooksDown
    <3> QED BY <2>1, <3>1, <3>3 DEF g
  <2>3. Good(l, g)
    BY <2>2
  <2>4. l \in 0..MaxLevel
    BY MaxLevelAssumption
  <2> QED BY <2>3, <2>4
<1> HIDE DEF S
<1>3. 0..MaxLevel \subseteq S
  BY <1>1, <1>2, MaxLevelAssumption, Downwards
<1>4. 0 \in S
  BY <1>3, MaxLevelAssumption
<1>5. PICK h : Good(0, h)
  BY <1>4 DEF S
<1>6. h = [c \in Cells |-> Step(h, c)]
  <2>1. \A c \in Cells : h[c] = Step(h, c)
    BY <1>5, CellType
  <2> QED BY <1>5, <2>1
<1> QED BY <1>6 DEF IsGrowth

\* A grown tree is a function of cells at the head; each node is a leaf where
\* the descent ends or prunes, and otherwise has a child for every hit.
LEMMA GrownIs ==
    ASSUME NEW geom, NEW maxDepth, NEW simplify
    PROVE  \E g : /\ Grown(geom, maxDepth, simplify) = g[Head(geom)]
                  /\ \A c \in Cells :
                       g[c] = GrowStep(geom, Limit(geom, maxDepth), simplify, g, c)
<1> DEFINE limit == Limit(geom, maxDepth)
           g == CHOOSE f : IsGrowth(geom, limit, simplify, f)
<1>1. IsGrowth(geom, limit, simplify, g)
  BY GrowthsExist
<1>2. Grown(geom, maxDepth, simplify) = g[Head(geom)]
  BY DEF Grown, IsGrowth, GrowStep, Ends, LeafOf, InnerOf, Below, Qualified, Limit
<1> HIDE DEF g, limit
<1>3. \A c \in Cells : g[c] = GrowStep(geom, limit, simplify, g, c)
  BY <1>1 DEF IsGrowth
<1> QED BY <1>2, <1>3 DEF limit

\* A node keeps its cell, and is a leaf where the descent ends or is pruned.
LEMMA NodeIs ==
    ASSUME NEW geom, NEW limit, NEW simplify, NEW g, NEW c \in Cells,
           g[c] = GrowStep(geom, limit, simplify, g, c)
    PROVE  /\ g[c].cell = c
           /\ g[c].qualified \in BOOLEAN
           /\ g[c].qualified => /\ g[c].children = {}
                                /\ \/ Ends(geom, limit, c)
                                   \/ Cardinality(Qualified(Below(geom, g, c))) \in simplify
           /\ ~g[c].qualified => /\ g[c].children = Below(geom, g, c)
                                 /\ ~Ends(geom, limit, c)
<1>1. /\ LeafOf(c).cell = c /\ LeafOf(c).qualified = TRUE /\ LeafOf(c).children = {}
      /\ InnerOf(c, Below(geom, g, c)).cell = c
      /\ InnerOf(c, Below(geom, g, c)).qualified = FALSE
      /\ InnerOf(c, Below(geom, g, c)).children = Below(geom, g, c)
  BY DEF LeafOf, InnerOf
<1>2. CASE Ends(geom, limit, c)
  <2>1. g[c] = LeafOf(c)
    BY <1>2 DEF GrowStep
  <2> QED BY <1>1, <1>2, <2>1
<1>3. CASE ~Ends(geom, limit, c) /\ Cardinality(Qualified(Below(geom, g, c))) \in simplify
  <2>1. g[c] = LeafOf(c)
    BY <1>3 DEF GrowStep
  <2> QED BY <1>1, <1>3, <2>1
<1>4. CASE ~Ends(geom, limit, c) /\ Cardinality(Qualified(Below(geom, g, c))) \notin simplify
  <2>1. g[c] = InnerOf(c, Below(geom, g, c))
    BY <1>4 DEF GrowStep
  <2> QED BY <1>1, <1>4, <2>1
<1> QED BY <1>2, <1>3, <1>4

-----------------------------------------------------------------------------
(* Walks                                                                   *)

ChildrenOf(nodes) == UNION {n.children : n \in nodes}
WalkStep(tree, w, l) ==
    IF l < tree.cell.level THEN {}
    ELSE IF l = tree.cell.level THEN {tree}
    ELSE ChildrenOf(w[l - 1])
IsWalk(tree, w) == w = [l \in 0..MaxLevel |-> WalkStep(tree, w, l)]

\* The levels of the walk exist as a function.
LEMMA WalksExist ==
    ASSUME NEW tree, tree.cell \in Cells
    PROVE  \E w : IsWalk(tree, w)
<1> DEFINE Good(n, w) ==
              /\ w = [l \in 0..MaxLevel |-> w[l]]
              /\ \A l \in 0..n : w[l] = WalkStep(tree, w, l)
           S == {n \in 0..MaxLevel : \E w : Good(n, w)}
<1>0. tree.cell.level \in Nat
  BY CellType
<1>1. 0 \in S
  <2> DEFINE w == [l \in 0..MaxLevel |-> IF l = tree.cell.level THEN {tree} ELSE {}]
  <2>1. 0 \in 0..MaxLevel /\ 0..0 = {0}
    BY MaxLevelAssumption
  <2>2. w[0] = WalkStep(tree, w, 0)
    BY <1>0, <2>1 DEF WalkStep
  <2>3. Good(0, w)
    BY <2>1, <2>2
  <2> HIDE DEF w, Good
  <2> QED BY <2>1, <2>3
<1>2. \A n \in 0..MaxLevel - 1 : n \in S => n + 1 \in S
  <2> SUFFICES ASSUME NEW n \in 0..MaxLevel - 1, n \in S PROVE n + 1 \in S
    OBVIOUS
  <2>1. PICK w : Good(n, w)
    OBVIOUS
  <2> DEFINE v == [l \in 0..MaxLevel |-> IF l = n + 1 THEN WalkStep(tree, w, l) ELSE w[l]]
  <2>2. n + 1 \in 0..MaxLevel /\ n \in 0..MaxLevel
    BY MaxLevelAssumption
  <2>3. ASSUME NEW l \in 0..n + 1 PROVE v[l] = WalkStep(tree, v, l)
    <3>1. l \in 0..MaxLevel /\ (l # 0 => l - 1 \in 0..MaxLevel /\ l - 1 # n + 1)
      BY <2>2, MaxLevelAssumption
    <3>2. l # 0 => v[l - 1] = w[l - 1]
      BY <3>1
    <3>3. WalkStep(tree, v, l) = WalkStep(tree, w, l)
      <4> HIDE DEF v
      <4>1. CASE l # 0
        BY <3>2, <4>1 DEF WalkStep
      <4>2. CASE l = 0
        BY <1>0, <4>2 DEF WalkStep
      <4> QED BY <4>1, <4>2
    <3>4. v[l] = WalkStep(tree, w, l)
      <4>1. l # n + 1 => l \in 0..n
        BY <2>2
      <4> QED BY <2>1, <3>1, <4>1
    <3> QED BY <3>3, <3>4
  <2>4. Good(n + 1, v)
    BY <2>3
  <2> HIDE DEF v, Good
  <2> QED BY <2>2, <2>4
<1> HIDE DEF S
<1>3. 0..MaxLevel \subseteq S
  BY <1>1, <1>2, MaxLevelAssumption, Upwards
<1>4. MaxLevel \in S
  BY <1>3, MaxLevelAssumption
<1>5. PICK w : Good(MaxLevel, w)
  BY <1>4 DEF S
<1> QED BY <1>5 DEF IsWalk

\* They satisfy their equation: the head, then the children level by level.
LEMMA WalkIs ==
    ASSUME NEW tree, tree.cell \in Cells
    PROVE  /\ Walk(tree)[tree.cell.level] = {tree}
           /\ \A l \in 0..MaxLevel : l < tree.cell.level => Walk(tree)[l] = {}
           /\ \A l \in 0..MaxLevel : l > tree.cell.level =>
                 Walk(tree)[l] = ChildrenOf(Walk(tree)[l - 1])
<1> DEFINE w == CHOOSE f : IsWalk(tree, f)
           n == tree.cell.level
<1>1. IsWalk(tree, w)
  BY WalksExist
<1>2. Walk(tree) = w
  BY DEF Walk, IsWalk, WalkStep, ChildrenOf
<1> HIDE DEF w
<1>3. \A l \in 0..MaxLevel : w[l] = WalkStep(tree, w, l)
  BY <1>1 DEF IsWalk
<1>4. n \in 0..MaxLevel /\ n \in Nat /\ ~(n < n)
  BY CellType
<1>5. w[n] = {tree}
  BY <1>3, <1>4 DEF WalkStep
<1>6. \A l \in 0..MaxLevel : l < n => w[l] = {}
  BY <1>3 DEF WalkStep
<1>7. \A l \in 0..MaxLevel : l > n => w[l] = ChildrenOf(w[l - 1])
  <2>1. \A l \in 0..MaxLevel : l > n => ~(l < n) /\ l # n
    BY <1>4
  <2> QED BY <1>3, <2>1 DEF WalkStep
<1> QED BY <1>2, <1>5, <1>6, <1>7

-----------------------------------------------------------------------------
(* What the levels of a walk hold                                          *)

\* A geometry that lies in a cell, and what a tree of it is made of.
GeometryIn(geom, p) ==
    /\ geom.met # {} /\ geom.full \subseteq geom.met
    /\ p \in Cells /\ geom.met \subseteq KeyBox(p)
DepthOK(maxDepth) == maxDepth = Unlimited \/ maxDepth \in Nat
TreeOf(geom, maxDepth, simplify, g) ==
    /\ Grown(geom, maxDepth, simplify) = g[Head(geom)]
    /\ \A c \in Cells : g[c] = GrowStep(geom, Limit(geom, maxDepth), simplify, g, c)

\* The tree is the node of the head, a cell that holds the whole geometry.
LEMMA HeadNode ==
    ASSUME NEW geom, NEW p, GeometryIn(geom, p), NEW maxDepth, DepthOK(maxDepth),
           NEW simplify, NEW g, TreeOf(geom, maxDepth, simplify, g)
    PROVE  LET head == Head(geom)
               tree == Grown(geom, maxDepth, simplify)
           IN  /\ head \in Cells /\ head.level \in Nat /\ head.level \in 0..MaxLevel
               /\ head.level >= p.level /\ geom.met \subseteq KeyBox(head)
               /\ tree = g[head] /\ tree.cell = head
               /\ Limit(geom, maxDepth) \in Nat /\ head.level <= Limit(geom, maxDepth)
<1> DEFINE head == Head(geom)
           tree == Grown(geom, maxDepth, simplify)
<1>1. head \in Cells /\ head.level >= p.level /\ geom.met \subseteq KeyBox(head)
  BY HeadOf DEF GeometryIn
<1>2. head.level \in Nat /\ head.level \in 0..MaxLevel
  BY <1>1, CellType
<1>3. tree = g[head]
  BY DEF TreeOf
<1>4. g[head].cell = head
  BY <1>1, NodeIs DEF TreeOf
<1>5. Limit(geom, maxDepth) \in Nat /\ head.level <= Limit(geom, maxDepth)
  <2>1. CASE maxDepth = Unlimited
    BY <1>2, <2>1, MaxLevelAssumption DEF Limit
  <2>2. CASE maxDepth # Unlimited
    BY <1>2, <2>2 DEF Limit, DepthOK
  <2> QED BY <2>1, <2>2
<1> QED BY <1>1, <1>2, <1>3, <1>4, <1>5

\* Every node of a level is grown from a cell of that level which the geometry
\* meets, not deeper than the limit.
LEMMA WalkNodes ==
    ASSUME NEW geom, NEW p, GeometryIn(geom, p), NEW maxDepth, DepthOK(maxDepth),
           NEW simplify, NEW g, TreeOf(geom, maxDepth, simplify, g),
           NEW l \in 0..MaxLevel, NEW n \in Walk(Grown(geom, maxDepth, simplify))[l]
    PROVE  /\ Head(geom).level <= l /\ l <= Limit(geom, maxDepth)
           /\ \E c \in Cells : /\ c.level = l /\ n = g[c]
                               /\ KeyBox(c) \cap geom.met # {}
<1> DEFINE head == Head(geom)
           tree == Grown(geom, maxDepth, simplify)
           W == Walk(tree)
           limit == Limit(geom, maxDepth)
           From(m, j) == \E c \in Cells : c.level = j /\ m = g[c] /\ KeyBox(c) \cap geom.met # {}
           S == {j \in head.level..MaxLevel : \A m \in W[j] : j <= limit /\ From(m, j)}
<1>1. /\ head \in Cells /\ head.level \in Nat /\ head.level \in 0..MaxLevel
      /\ geom.met \subseteq KeyBox(head)
      /\ tree = g[head] /\ tree.cell = head
      /\ limit \in Nat /\ head.level <= limit
  BY HeadNode
<1>2. /\ W[head.level] = {tree}
      /\ \A j \in 0..MaxLevel : j < head.level => W[j] = {}
      /\ \A j \in 0..MaxLevel : j > head.level => W[j] = ChildrenOf(W[j - 1])
  BY <1>1, WalkIs
<1>3. geom.met # {} /\ \A c \in Cells : g[c] = GrowStep(geom, limit, simplify, g, c)
  BY DEF GeometryIn, TreeOf
<1> HIDE DEF head, tree, W, limit
<1> DEFINE a == head.level
<1>4. a \in S
  <2>1. KeyBox(head) \cap geom.met # {}
    BY <1>1, <1>3
  <2>2. a \in a..MaxLevel
    BY <1>1, MaxLevelAssumption
  <2> QED BY <1>1, <1>2, <2>1, <2>2
<1>5. \A j \in a..MaxLevel - 1 : j \in S => j + 1 \in S
  <2> SUFFICES ASSUME NEW j \in a..MaxLevel - 1, j \in S, NEW m \in W[j + 1]
               PROVE  j + 1 \in a..MaxLevel /\ j + 1 <= limit /\ From(m, j + 1)
    <3>1. \A j \in a..MaxLevel - 1 : j + 1 \in a..MaxLevel
      BY <1>1, MaxLevelAssumption
    <3> QED BY <3>1
  <2>1. /\ j \in Nat /\ j < MaxLevel /\ j + 1 \in a..MaxLevel
        /\ j + 1 \in 0..MaxLevel /\ j + 1 > a /\ (j + 1) - 1 = j
    BY <1>1, MaxLevelAssumption
  <2>2. W[j + 1] = ChildrenOf(W[j])
    BY <1>2, <2>1
  <2>3. PICK r \in W[j] : m \in r.children
    BY <2>2 DEF ChildrenOf
  <2>4. PICK c \in Cells : c.level = j /\ r = g[c]
    BY <2>3
  <2>5. r.children = Below(geom, g, c) /\ ~Ends(geom, limit, c)
    BY <1>3, <2>3, <2>4, NodeIs
  <2>6. PICK q \in Hit(geom, c) : m = g[Child(c, q)]
    BY <2>3, <2>5 DEF Below
  <2>7. q \in 0..3 /\ KeyBox(Child(c, q)) \cap geom.met # {}
    BY <2>1, <2>4, Hits
  <2>8. Child(c, q) \in Cells /\ Child(c, q).level = j + 1
    BY <2>1, <2>4, <2>7, ChildCell
  <2>9. j + 1 <= limit
    BY <1>1, <2>1, <2>4, <2>5 DEF Ends
  <2> QED BY <2>1, <2>6, <2>7, <2>8, <2>9
<1> HIDE DEF S
<1>6. a..MaxLevel \subseteq S
  <2> HIDE DEF a
  <2>1. a \in Int /\ MaxLevel \in Int
    BY <1>1, MaxLevelAssumption DEF a
  <2> QED BY <1>4, <1>5, <2>1, Upwards
<1>7. a <= l
  <2>1. n \in W[l]
    BY DEF W, tree
  <2>2. ~(l < a)
    BY <1>2, <2>1
  <2> QED BY <1>1, <2>2
<1>8. l \in a..MaxLevel
  BY <1>1, <1>7
<1>9. l <= limit /\ From(n, l)
  <2>1. n \in W[l]
    BY DEF W, tree
  <2> QED BY <1>6, <1>8, <2>1 DEF S
<1> QED BY <1>7, <1>9 DEF head, limit

\* The children of a node that is no leaf are on the next level.
LEMMA WalkChildren ==
    ASSUME NEW geom, NEW p, GeometryIn(geom, p), NEW maxDepth, DepthOK(maxDepth),
           NEW simplify, NEW g, TreeOf(geom, maxDepth, simplify, g),
           NEW l \in 0..MaxLevel - 1, NEW c \in Cells, c.level = l,
           g[c] \in Walk(Grown(geom, maxDepth, simplify))[l], ~g[c].qualified,
           NEW q \in Hit(geom, c)
    PROVE  g[Child(c, q)] \in Walk(Grown(geom, maxDepth, simplify))[l + 1]
<1> DEFINE head == Head(geom)
           tree == Grown(geom, maxDepth, simplify)
           W == Walk(tree)
<1>1. head.level \in Nat /\ tree.cell = head /\ head \in Cells
  BY HeadNode
<1>2. l \in 0..MaxLevel /\ l + 1 \in 0..MaxLevel /\ (l + 1) - 1 = l
  BY MaxLevelAssumption
<1>3. head.level <= l
  BY <1>2, WalkNodes
<1>4. l + 1 > head.level
  BY <1>1, <1>2, <1>3
<1>5. W[l + 1] = ChildrenOf(W[l])
  BY <1>1, <1>2, <1>4, WalkIs
<1>6. g[c].children = Below(geom, g, c)
  BY NodeIs DEF TreeOf
<1>7. g[Child(c, q)] \in g[c].children
  BY <1>6 DEF Below
<1> HIDE DEF tree
<1>8. g[c] \in W[l]
  BY DEF tree
<1> QED BY <1>5, <1>7, <1>8 DEF ChildrenOf, tree

\* The walk finds only cells that the geometry meets.
LEMMA CellsAtMeeting ==
    ASSUME NEW geom, NEW p, GeometryIn(geom, p), NEW maxDepth, DepthOK(maxDepth),
           NEW simplify, NEW l \in 0..MaxLevel
    PROVE  CellsAt(Grown(geom, maxDepth, simplify), l) \subseteq Meeting(geom, l)
<1> DEFINE head == Head(geom)
           tree == Grown(geom, maxDepth, simplify)
<1>1. PICK g : TreeOf(geom, maxDepth, simplify, g)
  BY GrownIs DEF TreeOf
<1>2. /\ head \in Cells /\ head.level \in Nat /\ geom.met \subseteq KeyBox(head)
      /\ tree.cell = head
  BY <1>1, HeadNode
<1>3. CASE l < head.level
  <2>1. CellsAt(tree, l) = {Ancestor(head, l)}
    BY <1>2, <1>3 DEF CellsAt
  <2>2. l \in 0..head.level
    BY <1>2, <1>3
  <2>3. Ancestor(head, l) \in Cells /\ Ancestor(head, l).level = l
    BY <1>2, <2>2, Ancestors
  <2>4. KeyBox(head) \subseteq KeyBox(Ancestor(head, l))
    BY <1>2, <2>2, AncestorBoxes
  <2>5. KeyBox(Ancestor(head, l)) \cap geom.met # {}
    BY <1>2, <2>4 DEF GeometryIn
  <2> QED BY <2>1, <2>3, <2>5 DEF Meeting
<1>4. CASE ~(l < head.level)
  <2> SUFFICES ASSUME NEW d \in CellsAt(tree, l) PROVE d \in Meeting(geom, l)
    OBVIOUS
  <2>1. PICK n \in Walk(tree)[l] : d = n.cell
    BY <1>2, <1>4 DEF CellsAt
  <2>2. PICK c \in Cells : c.level = l /\ n = g[c] /\ KeyBox(c) \cap geom.met # {}
    BY <1>1, WalkNodes
  <2>3. g[c].cell = c
    BY <1>1, NodeIs DEF TreeOf
  <2> QED BY <2>1, <2>2, <2>3 DEF Meeting
<1> QED BY <1>3, <1>4

\* For a geometry in a cell the walk finds, one level below that cell, either
\* all cells the geometry meets or none.
LEMMA CellsAtExact ==
    ASSUME NEW geom, NEW p, GeometryIn(geom, p), NEW maxDepth, DepthOK(maxDepth),
           NEW simplify, p.level < MaxLevel,
           CellsAt(Grown(geom, maxDepth, simplify), p.level + 1) # {}
    PROVE  CellsAt(Grown(geom, maxDepth, simplify), p.level + 1) = Meeting(geom, p.level + 1)
<1> DEFINE head == Head(geom)
           tree == Grown(geom, maxDepth, simplify)
           l == p.level + 1
<1>1. PICK g : TreeOf(geom, maxDepth, simplify, g)
  BY GrownIs DEF TreeOf
<1>2. /\ head \in Cells /\ head.level \in Nat /\ head.level \in 0..MaxLevel
      /\ head.level >= p.level /\ geom.met \subseteq KeyBox(head)
      /\ tree.cell = head /\ tree = g[head]
  BY <1>1, HeadNode
<1>3. p \in Cells /\ p.level \in Nat /\ l \in 0..MaxLevel /\ l - 1 = p.level
  BY CellType, MaxLevelAssumption DEF GeometryIn
<1>4. CellsAt(tree, l) \subseteq Meeting(geom, l)
  BY <1>3, CellsAtMeeting
<1>5. /\ Walk(tree)[head.level] = {tree}
      /\ \A j \in 0..MaxLevel : j > head.level => Walk(tree)[j] = ChildrenOf(Walk(tree)[j - 1])
  BY <1>2, WalkIs
<1>6. CellsAt(tree, l) # {}
  OBVIOUS
<1> SUFFICES ASSUME NEW d \in Meeting(geom, l) PROVE d \in CellsAt(tree, l)
  BY <1>4
<1>7. d \in Cells /\ d.level = l
  BY DEF Meeting
<1>8. PICK s \in geom.met : s \in KeyBox(d)
  BY DEF Meeting
<1>9. s \in KeyBox(head)
  BY <1>2
<1> HIDE DEF tree, head
<1>10. CASE head.level > p.level
  <2>1. d = Ancestor(head, l)
    BY <1>2, <1>3, <1>7, <1>8, <1>9, <1>10, CellsNest
  <2>2. CASE l < head.level
    BY <1>2, <2>1, <2>2 DEF CellsAt
  <2>3. CASE l = head.level
    <3>1. Walk(tree)[l] = {tree} /\ ~(l < tree.cell.level)
      BY <1>2, <1>5, <2>3
    <3>2. tree.cell \in CellsAt(tree, l)
      BY <3>1 DEF CellsAt
    <3>3. d = head
      BY <1>2, <2>1, <2>3, AncestorSelf
    <3> QED BY <1>2, <3>2, <3>3
  <2> QED BY <1>2, <1>3, <1>10, <2>2, <2>3
<1>11. CASE head.level = p.level
  <2>1. l > head.level /\ ~(l < head.level) /\ head.level < MaxLevel
    BY <1>3, <1>11
  <2>2. Walk(tree)[l] = ChildrenOf({tree})
    BY <1>3, <1>5, <1>11, <2>1
  <2>3. ChildrenOf({tree}) = tree.children
    BY DEF ChildrenOf
  <2>4. CellsAt(tree, l) = {n.cell : n \in tree.children}
    BY <1>2, <2>1, <2>2, <2>3 DEF CellsAt
  <2>5. tree.children # {}
    BY <1>6, <2>4
  <2>6. tree.children = Below(geom, g, head)
    BY <1>1, <1>2, <2>5, NodeIs DEF TreeOf
  <2>7. head = Ancestor(d, head.level)
    <3>1. head.level <= d.level
      BY <1>2, <1>3, <1>7, <2>1
    <3> QED BY <1>2, <1>7, <1>8, <1>9, <3>1, CellsNest
  <2>8. PICK q \in 0..3 : d = Child(head, q)
    BY <1>2, <1>3, <1>7, <1>11, <2>7, Parents
  <2>9. q \in Hit(geom, head)
    BY <1>2, <1>8, <2>1, <2>8, Hits
  <2>10. g[d] \in tree.children
    BY <2>6, <2>8, <2>9 DEF Below
  <2>11. g[d].cell = d
    BY <1>1, <1>7, NodeIs DEF TreeOf
  <2> QED BY <2>4, <2>10, <2>11
<1> QED BY <1>2, <1>3, <1>10, <1>11

\* At the top it finds the root.
LEMMA CellsAtRoot ==
    ASSUME NEW geom, NEW p, GeometryIn(geom, p), NEW maxDepth, DepthOK(maxDepth),
           NEW simplify
    PROVE  CellsAt(Grown(geom, maxDepth, simplify), 0) = {Root}
<1> DEFINE head == Head(geom)
           tree == Grown(geom, maxDepth, simplify)
<1>1. PICK g : TreeOf(geom, maxDepth, simplify, g)
  BY GrownIs DEF TreeOf
<1>2. head \in Cells /\ head.level \in Nat /\ tree.cell = head
  BY <1>1, HeadNode
<1>3. CASE 0 < head.level
  <2>1. CellsAt(tree, 0) = {Ancestor(head, 0)}
    BY <1>2, <1>3 DEF CellsAt
  <2>2. 0 \in 0..head.level
    BY <1>2
  <2>3. Ancestor(head, 0) = Root
    BY <1>2, <2>2, Ancestors, RootCell
  <2> QED BY <2>1, <2>3
<1>4. CASE head.level = 0
  <2>1. Walk(tree)[0] = {tree}
    BY <1>2, <1>4, WalkIs
  <2>2. CellsAt(tree, 0) = {tree.cell}
    BY <1>2, <1>4, <2>1 DEF CellsAt
  <2> QED BY <1>2, <1>4, <2>2, RootCell
<1> QED BY <1>2, <1>3, <1>4

\* With a tree of full depth, and without pruning, a level is missing from the
\* walk only if the geometry covers a cell above it.
LEMMA MissingIsCovered ==
    ASSUME NEW geom, NEW p, GeometryIn(geom, p), NEW l \in 0..MaxLevel,
           CellsAt(Grown(geom, Unlimited, {}), l) = {}
    PROVE  \E c \in Cells : c.level < l /\ Covered(geom, c)
<1> SUFFICES ASSUME ~\E c \in Cells : c.level < l /\ Covered(geom, c) PROVE FALSE
  OBVIOUS
<1> DEFINE head == Head(geom)
           tree == Grown(geom, Unlimited, {})
           W == Walk(tree)
           S == {j \in 0..MaxLevel : W[j] # {}}
<1>0. DepthOK(Unlimited)
  BY DEF DepthOK
<1>1. PICK g : TreeOf(geom, Unlimited, {}, g)
  BY GrownIs DEF TreeOf
<1>2. /\ head \in Cells /\ head.level \in Nat /\ head.level \in 0..MaxLevel
      /\ tree.cell = head
  BY <1>0, <1>1, HeadNode
<1>3. ~(l < head.level)
  BY <1>2 DEF CellsAt
<1>4. W[l] = {}
  BY <1>2, <1>3 DEF CellsAt
<1> DEFINE a == head.level
<1>5. a \in S
  BY <1>2, WalkIs
<1>6. \A j \in a..l - 1 : j \in S => j + 1 \in S
  <2> SUFFICES ASSUME NEW j \in a..l - 1, j \in S PROVE j + 1 \in S
    OBVIOUS
  <2>1. j \in 0..MaxLevel - 1 /\ j \in 0..MaxLevel /\ j + 1 \in 0..MaxLevel /\ j < l /\ j < MaxLevel
    BY <1>2, MaxLevelAssumption
  <2>2. PICK n : n \in W[j]
    OBVIOUS
  <2>3. PICK c \in Cells : c.level = j /\ n = g[c] /\ KeyBox(c) \cap geom.met # {}
    BY <1>0, <1>1, <2>1, <2>2, WalkNodes
  <2>4. ~Ends(geom, Limit(geom, Unlimited), c)
    BY <2>1, <2>3, MaxLevelAssumption DEF Ends, Limit
  <2>5. ~g[c].qualified
    BY <1>1, <2>3, <2>4, NodeIs DEF TreeOf
  <2>6. PICK q : q \in Hit(geom, c)
    BY <2>1, <2>3, Hits
  <2>7. g[Child(c, q)] \in W[j + 1]
    BY <1>0, <1>1, <2>1, <2>2, <2>3, <2>5, <2>6, WalkChildren
  <2> QED BY <2>1, <2>7
<1> HIDE DEF S
<1>7. a..l \subseteq S
  <2> HIDE DEF a
  <2>1. a \in Int /\ l \in Int
    BY <1>2 DEF a
  <2> QED BY <1>5, <1>6, <2>1, Upwards
<1>8. l \in S
  BY <1>2, <1>3, <1>7
<1> QED BY <1>4, <1>8 DEF S

-----------------------------------------------------------------------------
(* Gridding                                                                *)

\* The squares of the keys that gridding returns, and those of the cells at a
\* level that the geometry meets.
GridOf(tree) == UNION {KeyBox(c) : c \in Gridded(tree)}
RegionOf(geom, l) == UNION {KeyBox(c) : c \in Meeting(geom, l)}
Coarse(geom, maxDepth) ==
    IF maxDepth = Unlimited \/ Head(geom).level + maxDepth > MaxLevel
    THEN MaxLevel ELSE Head(geom).level + maxDepth

\* A square is gridded if it is in the box of a leaf of the walk.
LEMMA GridIs ==
    ASSUME NEW geom, NEW p, GeometryIn(geom, p), NEW maxDepth, DepthOK(maxDepth),
           NEW simplify, NEW g, TreeOf(geom, maxDepth, simplify, g), NEW s
    PROVE  s \in GridOf(Grown(geom, maxDepth, simplify)) <=>
              \E l \in 0..MaxLevel, c \in Cells :
                 /\ c.level = l /\ g[c] \in Walk(Grown(geom, maxDepth, simplify))[l]
                 /\ g[c].qualified /\ s \in KeyBox(c)
<1> DEFINE tree == Grown(geom, maxDepth, simplify)
           W == Walk(tree)
           Nodes == {m \in UNION {W[l] : l \in 0..MaxLevel} : m.qualified}
<1>1. Gridded(tree) = UNION {Block(n.cell, MaxLevel) : n \in Nodes}
  BY DEF Gridded
<1>2. \A c \in Cells : g[c].cell = c /\ MaxLevel \in c.level..MaxLevel
  BY NodeIs, CellType, MaxLevelAssumption DEF TreeOf
<1>3. \A c \in Cells : UNION {KeyBox(d) : d \in Block(c, MaxLevel)} = KeyBox(c)
  BY <1>2, BlockBoxes
<1> HIDE DEF tree
<1>4. ASSUME s \in GridOf(tree)
      PROVE  \E l \in 0..MaxLevel, c \in Cells :
                c.level = l /\ g[c] \in W[l] /\ g[c].qualified /\ s \in KeyBox(c)
  <2>1. PICK d \in Gridded(tree) : s \in KeyBox(d)
    BY <1>4 DEF GridOf
  <2>2. PICK n \in Nodes : d \in Block(n.cell, MaxLevel)
    BY <1>1, <2>1
  <2>3. PICK l \in 0..MaxLevel : n \in W[l]
    BY <2>2
  <2>4. PICK c \in Cells : c.level = l /\ n = g[c]
    BY <2>3, WalkNodes DEF tree
  <2>5. s \in KeyBox(c)
    BY <1>2, <1>3, <2>1, <2>2, <2>4
  <2> QED BY <2>2, <2>3, <2>4, <2>5
<1>5. ASSUME NEW l \in 0..MaxLevel, NEW c \in Cells,
             c.level = l, g[c] \in W[l], g[c].qualified, s \in KeyBox(c)
      PROVE  s \in GridOf(tree)
  <2>1. g[c] \in Nodes /\ g[c].cell = c
    BY <1>2, <1>5
  <2>2. PICK d \in Block(c, MaxLevel) : s \in KeyBox(d)
    BY <1>3, <1>5
  <2>3. d \in Gridded(tree)
    BY <1>1, <2>1, <2>2
  <2> QED BY <2>2, <2>3 DEF GridOf
<1> QED BY <1>4, <1>5 DEF tree

\* No square of the geometry is lost: some leaf is reached along its cells.
LEMMA GridHoldsGeometry ==
    ASSUME NEW geom, NEW p, GeometryIn(geom, p), NEW maxDepth, DepthOK(maxDepth),
           NEW simplify
    PROVE  geom.met \subseteq GridOf(Grown(geom, maxDepth, simplify))
<1> DEFINE head == Head(geom)
           tree == Grown(geom, maxDepth, simplify)
           W == Walk(tree)
<1>1. PICK g : TreeOf(geom, maxDepth, simplify, g)
  BY GrownIs DEF TreeOf
<1>2. /\ head \in Cells /\ head.level \in Nat /\ head.level \in 0..MaxLevel
      /\ geom.met \subseteq KeyBox(head)
      /\ tree = g[head] /\ tree.cell = head
  BY <1>1, HeadNode
<1> SUFFICES ASSUME NEW s \in geom.met, s \notin GridOf(tree) PROVE FALSE
  OBVIOUS
<1> DEFINE S == {j \in 0..MaxLevel :
                    \E c \in Cells : c.level = j /\ g[c] \in W[j] /\ s \in KeyBox(c)}
           a == head.level
<1>3. \A j \in 0..MaxLevel, c \in Cells :
         c.level = j /\ g[c] \in W[j] /\ s \in KeyBox(c) => ~g[c].qualified
  BY <1>1, GridIs
<1>4. a \in S
  BY <1>2, WalkIs
<1>5. \A j \in a..MaxLevel - 1 : j \in S => j + 1 \in S
  <2> SUFFICES ASSUME NEW j \in a..MaxLevel - 1, j \in S PROVE j + 1 \in S
    OBVIOUS
  <2>1. j \in 0..MaxLevel - 1 /\ j + 1 \in 0..MaxLevel /\ j < MaxLevel
    BY <1>2, MaxLevelAssumption
  <2>2. PICK c \in Cells : c.level = j /\ g[c] \in W[j] /\ s \in KeyBox(c)
    OBVIOUS
  <2>3. ~g[c].qualified
    BY <1>3, <2>2
  <2>4. PICK q \in Hit(geom, c) : s \in KeyBox(Child(c, q))
    BY <2>1, <2>2, Hits
  <2>5. g[Child(c, q)] \in W[j + 1]
    BY <1>1, <2>1, <2>2, <2>3, WalkChildren
  <2>6. q \in 0..3
    BY <2>1, <2>2, Hits
  <2>7. Child(c, q) \in Cells /\ Child(c, q).level = j + 1
    BY <2>1, <2>2, <2>6, ChildCell
  <2> QED BY <2>1, <2>4, <2>5, <2>7
<1> HIDE DEF S
<1>6. a..MaxLevel \subseteq S
  <2> HIDE DEF a
  <2>1. a \in Int /\ MaxLevel \in Int
    BY <1>2, MaxLevelAssumption DEF a
  <2> QED BY <1>4, <1>5, <2>1, Upwards
<1>7. MaxLevel \in S
  BY <1>2, <1>6, MaxLevelAssumption
<1>8. PICK c \in Cells : c.level = MaxLevel /\ g[c] \in W[MaxLevel] /\ s \in KeyBox(c)
  BY <1>7 DEF S
<1>9. Ends(geom, Limit(geom, maxDepth), c)
  BY <1>8, MaxLevelAssumption DEF Ends
<1>10. g[c].qualified
  BY <1>1, <1>9, NodeIs DEF TreeOf
<1> QED BY <1>3, <1>8, <1>10, MaxLevelAssumption

\* Three things are at most three.
LEMMA AtMostThree ==
    ASSUME NEW x, NEW y, NEW z, NEW T \in SUBSET {x, y, z}
    PROVE  Cardinality(T) <= 3
<1>1. IsFiniteSet({x}) /\ Cardinality({x}) = 1
  BY FS_Singleton
<1>2. IsFiniteSet({x} \cup {y}) /\ Cardinality({x} \cup {y}) \in 1..2
  BY <1>1, FS_AddElement
<1>3. IsFiniteSet(({x} \cup {y}) \cup {z}) /\ Cardinality(({x} \cup {y}) \cup {z}) \in 1..3
  BY <1>2, FS_AddElement
<1>4. ({x} \cup {y}) \cup {z} = {x, y, z}
  OBVIOUS
<1>5. IsFiniteSet(T) /\ Cardinality(T) <= Cardinality({x, y, z})
  BY <1>3, <1>4, FS_Subset
<1>6. Cardinality(T) \in Nat
  BY <1>5, FS_CardinalityType
<1> QED BY <1>3, <1>4, <1>5, <1>6

\* Four leaves below a cell are one for each of its children.
LEMMA FourLeaves ==
    ASSUME NEW geom, NEW g, NEW c \in Cells, c.level < MaxLevel,
           Cardinality(Qualified(Below(geom, g, c))) = 4, NEW q \in 0..3
    PROVE  q \in Hit(geom, c) /\ g[Child(c, q)].qualified
<1> SUFFICES ASSUME ~(q \in Hit(geom, c) /\ g[Child(c, q)].qualified) PROVE FALSE
  OBVIOUS
<1> DEFINE n(r) == g[Child(c, r)]
<1>1. PICK x \in 0..3, y \in 0..3, z \in 0..3 : \A r \in 0..3 : r = q \/ r \in {x, y, z}
  <2>1. /\ 0 \in 0..3 /\ 1 \in 0..3 /\ 2 \in 0..3 /\ 3 \in 0..3
        /\ \A r \in 0..3 : r \in {0, 1, 2, 3}
    OBVIOUS
  <2>2. CASE q = 0
    BY <2>1, <2>2
  <2>3. CASE q = 1
    BY <2>1, <2>3
  <2>4. CASE q = 2
    BY <2>1, <2>4
  <2>5. CASE q = 3
    BY <2>1, <2>5
  <2> QED BY <2>1, <2>2, <2>3, <2>4, <2>5
<1>2. Hit(geom, c) \subseteq 0..3
  BY Hits
<1> HIDE DEF n
<1>3. Qualified(Below(geom, g, c)) \subseteq {n(x), n(y), n(z)}
  <2> SUFFICES ASSUME NEW m \in Qualified(Below(geom, g, c)) PROVE m \in {n(x), n(y), n(z)}
    OBVIOUS
  <2>1. PICK r \in Hit(geom, c) : m = n(r) /\ m.qualified
    BY DEF Qualified, Below, n
  <2>2. r # q
    BY <2>1 DEF n
  <2> QED BY <1>1, <1>2, <2>1, <2>2
<1>4. Cardinality(Qualified(Below(geom, g, c))) <= 3
  BY <1>3, AtMostThree
<1> QED BY <1>4

\* If only four leaves are pruned, a leaf that the geometry meets is made of
\* cells of the coarsest level at which the descent may end that it meets.
LEMMA LeavesInRegion ==
    ASSUME NEW geom, NEW p, GeometryIn(geom, p), NEW maxDepth, DepthOK(maxDepth),
           NEW simplify, simplify \subseteq {4},
           NEW g, TreeOf(geom, maxDepth, simplify, g),
           NEW c \in Cells, c.level <= Coarse(geom, maxDepth),
           KeyBox(c) \cap geom.met # {}, g[c].qualified
    PROVE  KeyBox(c) \subseteq RegionOf(geom, Coarse(geom, maxDepth))
<1> DEFINE b == Coarse(geom, maxDepth)
           limit == Limit(geom, maxDepth)
           Good(d) == KeyBox(d) \cap geom.met # {} /\ g[d].qualified
                         => KeyBox(d) \subseteq RegionOf(geom, b)
           S == {l \in 0..b : \A d \in Cells : d.level = l => Good(d)}
<1>1. limit \in Nat /\ Head(geom).level \in Nat
  BY HeadNode
<1>2. b \in Nat /\ b <= MaxLevel /\ \A l \in Nat : l < b => l < MaxLevel /\ l < limit
  <2>1. CASE maxDepth = Unlimited
    BY <1>1, <2>1, MaxLevelAssumption DEF Coarse, Limit
  <2>2. CASE maxDepth # Unlimited
    BY <1>1, <2>2, MaxLevelAssumption DEF Coarse, Limit, DepthOK
  <2> QED BY <2>1, <2>2
<1>3. geom.full \subseteq geom.met /\ geom.met \subseteq Squares
  BY AncestorBoxes DEF GeometryIn
<1> HIDE DEF b, limit
<1>4. b \in S
  <2>1. ASSUME NEW d \in Cells, d.level = b, KeyBox(d) \cap geom.met # {}
        PROVE  KeyBox(d) \subseteq RegionOf(geom, b)
    BY <2>1 DEF RegionOf, Meeting
  <2> QED BY <1>2, <2>1
<1>5. \A l \in 0..b - 1 : l + 1 \in S => l \in S
  <2> SUFFICES ASSUME NEW l \in 0..b - 1, l + 1 \in S,
                      NEW d \in Cells, d.level = l, KeyBox(d) \cap geom.met # {}, g[d].qualified,
                      NEW s \in KeyBox(d)
               PROVE  s \in RegionOf(geom, b)
    <3>1. \A l \in 0..b - 1 : l \in 0..b
      BY <1>2
    <3> QED BY <3>1
  <2>1. l \in Nat /\ l < MaxLevel /\ l < limit /\ b \in 0..MaxLevel
    BY <1>2, MaxLevelAssumption
  <2>2. Ends(geom, limit, d) \/ Cardinality(Qualified(Below(geom, g, d))) \in simplify
    BY NodeIs DEF TreeOf, limit
  <2>3. CASE Ends(geom, limit, d)
    <3>1. Covered(geom, d)
      BY <1>1, <2>1, <2>3, MaxLevelAssumption DEF Ends, limit
    <3>2. s \in geom.met /\ s \in Squares
      BY <1>3, <3>1 DEF Covered
    <3>3. PICK e \in Cells : e.level = b /\ s \in KeyBox(e)
      BY <2>1, <3>2, CellOfSquare
    <3> QED BY <3>2, <3>3 DEF RegionOf, Meeting
  <2>4. CASE Cardinality(Qualified(Below(geom, g, d))) \in simplify
    <3>1. Cardinality(Qualified(Below(geom, g, d))) = 4
      BY <2>4
    <3>2. PICK q \in 0..3 : s \in KeyBox(Child(d, q))
      BY <2>1, ChildBoxes
    <3>3. q \in Hit(geom, d) /\ g[Child(d, q)].qualified
      BY <2>1, <3>1, FourLeaves
    <3>4. KeyBox(Child(d, q)) \cap geom.met # {}
      BY <2>1, <3>3, Hits
    <3>5. Child(d, q) \in Cells /\ Child(d, q).level = l + 1
      BY <2>1, ChildCell
    <3>6. Good(Child(d, q))
      BY <3>5
    <3> QED BY <3>2, <3>3, <3>4, <3>6
  <2> QED BY <2>2, <2>3, <2>4
<1> HIDE DEF S
<1>6. 0..b \subseteq S
  BY <1>2, <1>4, <1>5, Downwards
<1>7. c.level \in S
  <2>1. c.level \in 0..b
    BY <1>2, CellType DEF b
  <2> QED BY <1>6, <2>1
<1> QED BY <1>7 DEF S, b

\* So gridding returns no square outside of those cells.
LEMMA GridInRegion ==
    ASSUME NEW geom, NEW p, GeometryIn(geom, p), NEW maxDepth, DepthOK(maxDepth),
           NEW simplify, simplify \subseteq {4}
    PROVE  GridOf(Grown(geom, maxDepth, simplify)) \subseteq RegionOf(geom, Coarse(geom, maxDepth))
<1> DEFINE tree == Grown(geom, maxDepth, simplify)
<1>1. PICK g : TreeOf(geom, maxDepth, simplify, g)
  BY GrownIs DEF TreeOf
<1> SUFFICES ASSUME NEW s \in GridOf(tree) PROVE s \in RegionOf(geom, Coarse(geom, maxDepth))
  OBVIOUS
<1>2. PICK l \in 0..MaxLevel, c \in Cells :
         c.level = l /\ g[c] \in Walk(tree)[l] /\ g[c].qualified /\ s \in KeyBox(c)
  BY <1>1, GridIs
<1> HIDE DEF tree
<1>3. /\ l <= Limit(geom, maxDepth)
      /\ \E d \in Cells : d.level = l /\ g[c] = g[d] /\ KeyBox(d) \cap geom.met # {}
  BY <1>1, <1>2, WalkNodes DEF tree
<1>4. KeyBox(c) \cap geom.met # {}
  BY <1>1, <1>2, <1>3, NodeIs DEF TreeOf
<1>5. Limit(geom, maxDepth) \in Nat /\ Head(geom).level \in Nat
  BY <1>1, HeadNode
<1>6. c.level <= Coarse(geom, maxDepth)
  <2>1. CASE maxDepth = Unlimited
    BY <1>2, <2>1, MaxLevelAssumption DEF Coarse
  <2>2. CASE maxDepth # Unlimited
    BY <1>2, <1>3, <1>5, <2>2, MaxLevelAssumption DEF Coarse, Limit, DepthOK
  <2> QED BY <2>1, <2>2
<1> QED BY <1>1, <1>2, <1>4, <1>6, LeavesInRegion

-----------------------------------------------------------------------------
(* Rows and populations                                                    *)

Meets(c) == {i \in Ids : Cut(input.geoms[i], c).met # {}}

\* The partitions when the levels up to n have been split, and their rows.
PartsAt(n) ==
    {c \in Cells :
        /\ c.level <= n /\ Population(c) > 0
        /\ c.level = n \/ Population(c) <= SplitN
        /\ \A l \in 0..c.level - 1 : Population(Ancestor(c, l)) > SplitN}
RowsAt(n) ==
    {s \in {Row(i, c, Cut(input.geoms[i], c)) : i \in Ids, c \in PartsAt(n)} :
        s.geom.met # {}}
Oversized(l) == {c \in Cells : c.level = l /\ Population(c) > SplitN}

\* What the assumption says of the input at hand.
LEMMA InputsAre ==
    ASSUME input \in Inputs
    PROVE  /\ input.raster \in BOOLEAN /\ DepthOK(input.maxDepth) /\ IsFiniteSet(Ids)
           /\ \A i \in Ids :
                /\ input.geoms[i] = [met |-> input.geoms[i].met, full |-> input.geoms[i].full]
                /\ input.geoms[i].met \subseteq Squares
                /\ input.geoms[i].met # {}
                /\ input.geoms[i].full \subseteq input.geoms[i].met
                /\ input.raster => \E s \in Squares : input.geoms[i].met = {s}
<1>1. ASSUME NEW i \in Ids
      PROVE  /\ input.geoms[i] \in [met : SUBSET Squares, full : SUBSET Squares]
             /\ input.geoms[i].met # {} /\ input.geoms[i].full \subseteq input.geoms[i].met
             /\ input.raster => \E s \in Squares : input.geoms[i].met = {s}
  BY InputsAssumption DEF Ids
<1>2. input.raster \in BOOLEAN /\ DepthOK(input.maxDepth) /\ IsFiniteSet(Ids)
  BY InputsAssumption DEF Ids, DepthOK
<1> QED BY <1>1, <1>2

\* A cut is what a geometry has in the box of the cell.
LEMMA CutIs ==
    ASSUME NEW geom, NEW c
    PROVE  /\ Cut(geom, c).met = geom.met \cap KeyBox(c)
           /\ Cut(geom, c).full = geom.full \cap KeyBox(c)
BY DEF Cut

\* The fields of a row.
LEMMA RowIs ==
    ASSUME NEW i, NEW c, NEW geom
    PROVE  Row(i, c, geom).id = i /\ Row(i, c, geom).part = c /\ Row(i, c, geom).geom = geom
BY DEF Row

\* The population of a cell counts finitely many geometries.
LEMMA Populations ==
    ASSUME input \in Inputs, NEW c
    PROVE  /\ IsFiniteSet(Meets(c)) /\ Population(c) = Cardinality(Meets(c))
           /\ Population(c) \in Nat
           /\ Population(c) > 0 <=> \E i \in Ids : Cut(input.geoms[i], c).met # {}
<1>1. IsFiniteSet(Ids)
  BY InputsAre
<1>2. IsFiniteSet(Meets(c)) /\ Population(c) = Cardinality(Meets(c))
  <2>1. Meets(c) \in SUBSET Ids
    BY DEF Meets
  <2> QED BY <1>1, <2>1, FS_Subset DEF Population, Meets
<1>3. Cardinality(Meets(c)) \in Nat /\ (Cardinality(Meets(c)) = 0 <=> Meets(c) = {})
  BY <1>2, FS_CardinalityType, FS_EmptySet
<1>4. Population(c) > 0 <=> Meets(c) # {}
  BY <1>2, <1>3
<1> QED BY <1>2, <1>3, <1>4 DEF Meets

\* Cells above others meet at least as many geometries.
LEMMA PopulationsGrow ==
    ASSUME input \in Inputs, NEW c \in Cells, NEW l \in 0..c.level
    PROVE  Population(c) <= Population(Ancestor(c, l))
<1>1. KeyBox(c) \subseteq KeyBox(Ancestor(c, l))
  BY AncestorBoxes
<1>2. Meets(c) \in SUBSET Meets(Ancestor(c, l))
  BY <1>1, CutIs DEF Meets
<1>3. Cardinality(Meets(c)) <= Cardinality(Meets(Ancestor(c, l)))
  BY <1>2, Populations, FS_Subset
<1> QED BY <1>3, Populations

\* A row holds what its geometry has in the cell of its partition.
LEMMA RowsAre ==
    ASSUME input \in Inputs, NEW n \in 0..MaxLevel, NEW r \in RowsAt(n)
    PROVE  /\ r.id \in Ids /\ r.part \in PartsAt(n) /\ r.part \in Cells
           /\ r = Row(r.id, r.part, r.geom)
           /\ r.geom = Cut(input.geoms[r.id], r.part) /\ r.geom.met # {}
           /\ r.part.level \in 0..n
           /\ GeometryIn(r.geom, r.part)
           /\ input.raster => \E s \in Squares : r.geom.met = {s}
<1>1. PICK i \in Ids, c \in PartsAt(n) : r = Row(i, c, Cut(input.geoms[i], c)) /\ r.geom.met # {}
  BY DEF RowsAt
<1>2. r.id = i /\ r.part = c /\ r.geom = Cut(input.geoms[i], c)
  BY <1>1, RowIs
<1>3. c \in Cells /\ c.level <= n
  BY DEF PartsAt
<1>4. c.level \in 0..n
  BY <1>3, CellType
<1>5. GeometryIn(r.geom, c)
  <2>1. input.geoms[i].full \subseteq input.geoms[i].met
    BY InputsAre
  <2>2. /\ r.geom.met = input.geoms[i].met \cap KeyBox(c)
        /\ r.geom.full = input.geoms[i].full \cap KeyBox(c)
    BY <1>2, CutIs
  <2>3. r.geom.full \subseteq r.geom.met /\ r.geom.met \subseteq KeyBox(c)
    BY <2>1, <2>2
  <2>4. r.geom.met # {}
    BY <1>1
  <2> QED BY <1>3, <2>3, <2>4 DEF GeometryIn
<1>6. input.raster => \E s \in Squares : r.geom.met = {s}
  <2> SUFFICES ASSUME input.raster PROVE \E s \in Squares : r.geom.met = {s}
    OBVIOUS
  <2>1. PICK s \in Squares : input.geoms[i].met = {s}
    BY InputsAre
  <2>2. r.geom.met = {s}
    BY <1>1, <1>2, <2>1, CutIs
  <2> QED BY <2>2
<1> QED BY <1>1, <1>2, <1>3, <1>4, <1>5, <1>6

\* Every geometry that meets a partition has a row in it.
LEMMA RowMade ==
    ASSUME NEW n, NEW i \in Ids, NEW c \in PartsAt(n), Cut(input.geoms[i], c).met # {}
    PROVE  Row(i, c, Cut(input.geoms[i], c)) \in RowsAt(n)
BY RowIs DEF RowsAt

-----------------------------------------------------------------------------
(* The cells a row counts for                                              *)

\* A raster row counts, at each level, for the cell of its square.
LEMMA RasterInstances ==
    ASSUME input.raster, NEW r, NEW s \in Squares, r.geom.met = {s}, NEW l \in 0..MaxLevel
    PROVE  Instances(r, l) = Meeting(r.geom, l) /\ Instances(r, l) # {}
<1>1. MaxLevel \in 0..MaxLevel
  BY MaxLevelAssumption
<1>2. PICK d \in Cells : d.level = MaxLevel /\ s \in KeyBox(d)
  BY <1>1, CellOfSquare
<1>3. KeyBox(d) = {s}
  BY <1>2, DeepestBoxes
<1>4. \A e \in Cells : e.level = MaxLevel /\ KeyBox(e) = {s} => e = d
  BY <1>1, <1>2, CellOfSquare
<1>5. {e \in Cells : e.level = MaxLevel /\ KeyBox(e) = r.geom.met} = {d}
  BY <1>2, <1>3, <1>4
<1>6. Instances(r, l) = {Ancestor(d, l)}
  BY <1>5 DEF Instances
<1>7. l \in 0..d.level
  BY <1>2
<1>8. Ancestor(d, l) \in Cells /\ Ancestor(d, l).level = l /\ s \in KeyBox(Ancestor(d, l))
  BY <1>2, <1>7, Ancestors, AncestorBoxes
<1>9. \A e \in Cells : e.level = l /\ s \in KeyBox(e) => e = Ancestor(d, l)
  BY <1>8, CellOfSquare
<1>10. Meeting(r.geom, l) = {Ancestor(d, l)}
  BY <1>8, <1>9 DEF Meeting
<1> QED BY <1>6, <1>10

\* A row counts only for cells that it meets, one level below its partition for all
\* of them or none, and at level 0 for the root.
LEMMA InstancesAre ==
    ASSUME input \in Inputs, NEW r, NEW p, GeometryIn(r.geom, p),
           input.raster => \E s \in Squares : r.geom.met = {s}
    PROVE  /\ \A l \in 0..MaxLevel : Instances(r, l) \subseteq Meeting(r.geom, l)
           /\ p.level < MaxLevel /\ Instances(r, p.level + 1) # {} =>
                 Instances(r, p.level + 1) = Meeting(r.geom, p.level + 1)
           /\ Instances(r, 0) = {Root}
           /\ input.raster => \A l \in 0..MaxLevel : Instances(r, l) # {}
<1>1. p \in Cells /\ p.level \in Nat /\ 0 \in 0..MaxLevel
      /\ (p.level < MaxLevel => p.level + 1 \in 0..MaxLevel)
  BY CellType, MaxLevelAssumption DEF GeometryIn
<1>2. CASE input.raster
  <2>1. PICK s \in Squares : r.geom.met = {s}
    BY <1>2
  <2>2. \A l \in 0..MaxLevel : Instances(r, l) = Meeting(r.geom, l) /\ Instances(r, l) # {}
    BY <1>2, <2>1, RasterInstances
  <2>3. \A c \in Meeting(r.geom, 0) : c = Root
    BY RootCell DEF Meeting
  <2>4. Instances(r, 0) = {Root}
    BY <1>1, <2>2, <2>3
  <2> QED BY <1>1, <2>2, <2>4
<1>3. CASE ~input.raster
  <2>1. \A l : Instances(r, l) = CellsAt(Grown(r.geom, input.maxDepth, input.simplify), l)
    BY <1>3 DEF Instances, Tree
  <2>2. DepthOK(input.maxDepth)
    BY InputsAre
  <2>3. \A l \in 0..MaxLevel : Instances(r, l) \subseteq Meeting(r.geom, l)
    BY <2>1, <2>2, CellsAtMeeting
  <2>4. p.level < MaxLevel /\ Instances(r, p.level + 1) # {} =>
           Instances(r, p.level + 1) = Meeting(r.geom, p.level + 1)
    BY <2>1, <2>2, CellsAtExact
  <2>5. Instances(r, 0) = {Root}
    BY <2>1, <2>2, CellsAtRoot
  <2> QED BY <1>3, <2>3, <2>4, <2>5
<1> QED BY <1>2, <1>3

\* Two rows of one geometry count for no cell together.
LEMMA OneRow ==
    ASSUME input \in Inputs, NEW n \in 0..MaxLevel,
           NEW r \in RowsAt(n), NEW t \in RowsAt(n), r.id = t.id,
           NEW c \in Cells, c.level >= n,
           KeyBox(c) \cap r.geom.met # {}, KeyBox(c) \cap t.geom.met # {}
    PROVE  r = t
<1> DEFINE p == r.part
           q == t.part
<1>1. /\ p \in PartsAt(n) /\ p \in Cells /\ p.level \in 0..n /\ r.geom.met \subseteq KeyBox(p)
      /\ r = Row(r.id, p, Cut(input.geoms[r.id], p))
  BY RowsAre DEF GeometryIn
<1>2. /\ q \in PartsAt(n) /\ q \in Cells /\ q.level \in 0..n /\ t.geom.met \subseteq KeyBox(q)
      /\ t = Row(t.id, q, Cut(input.geoms[t.id], q))
  BY RowsAre DEF GeometryIn
<1> HIDE DEF p, q
<1>3. c.level \in Nat
  BY CellType
<1>4. p = Ancestor(c, p.level)
  <2>1. p.level <= c.level
    BY <1>1, <1>3
  <2>2. PICK s \in KeyBox(c) : s \in r.geom.met
    OBVIOUS
  <2> QED BY <1>1, <2>1, <2>2, CellsNest
<1>5. q = Ancestor(c, q.level)
  <2>1. q.level <= c.level
    BY <1>2, <1>3
  <2>2. PICK s \in KeyBox(c) : s \in t.geom.met
    OBVIOUS
  <2> QED BY <1>2, <2>1, <2>2, CellsNest
<1>6. ASSUME NEW u \in PartsAt(n), NEW v \in PartsAt(n), u.level \in 0..n, v.level \in 0..n,
             u = Ancestor(c, u.level), v = Ancestor(c, v.level), u.level < v.level
      PROVE  FALSE
  <2>1. v.level \in 0..c.level /\ u.level \in 0..v.level /\ u.level \in 0..v.level - 1
    BY <1>3, <1>6
  <2>2. Ancestor(Ancestor(c, v.level), u.level) = Ancestor(c, u.level)
    BY <2>1, Ancestors
  <2>3. Ancestor(v, u.level) = u
    BY <1>6, <2>2
  <2>4. Population(u) > SplitN
    BY <2>1, <2>3 DEF PartsAt
  <2>5. u.level # n
    BY <1>6
  <2>6. Population(u) <= SplitN
    BY <2>5 DEF PartsAt
  <2> QED BY <2>4, <2>6, Populations, SplitNAssumption
<1>7. p.level = q.level
  BY <1>1, <1>2, <1>4, <1>5, <1>6
<1> QED BY <1>1, <1>2, <1>4, <1>5, <1>7

-----------------------------------------------------------------------------
(* Counting                                                                *)

CountedFor(c, l) == {r \in rows : c \in Instances(r, l)}

\* The counts are sizes of the sets of rows that count for a cell.
LEMMA CountsAre ==
    ASSUME NEW l
    PROVE  /\ \A c : c \in DOMAIN Counts(l) <=> \E r \in rows : c \in Instances(r, l)
           /\ \A c \in DOMAIN Counts(l) : Counts(l)[c] = Cardinality(CountedFor(c, l))
<1>1. DOMAIN Counts(l) = UNION {Instances(r, l) : r \in rows}
  BY DEF Counts
<1>2. \A c : c \in DOMAIN Counts(l) <=> \E r \in rows : c \in Instances(r, l)
  BY <1>1
<1>3. \A c \in DOMAIN Counts(l) : Counts(l)[c] = Cardinality(CountedFor(c, l))
  BY DEF Counts, CountedFor
<1> QED BY <1>2, <1>3

\* A cell is counted at most for the geometries that meet it.
LEMMA NotOvercounted ==
    ASSUME input \in Inputs, NEW n \in 0..MaxLevel, rows = RowsAt(n),
           NEW l \in n..MaxLevel, NEW c \in Cells, c.level = l
    PROVE  /\ IsFiniteSet(CountedFor(c, l))
           /\ Cardinality(CountedFor(c, l)) <= Population(c)
<1> DEFINE R == CountedFor(c, l)
           f == [r \in R |-> r.id]
<1>1. l \in 0..MaxLevel /\ c.level >= n
  OBVIOUS
<1>2. ASSUME NEW r \in R
      PROVE  r \in RowsAt(n) /\ KeyBox(c) \cap r.geom.met # {} /\ r.id \in Meets(c)
  <2>1. r \in RowsAt(n) /\ c \in Instances(r, l)
    BY DEF CountedFor
  <2>2. /\ r.id \in Ids /\ r.geom = Cut(input.geoms[r.id], r.part)
        /\ GeometryIn(r.geom, r.part)
        /\ input.raster => \E s \in Squares : r.geom.met = {s}
    BY <2>1, RowsAre
  <2>3. Instances(r, l) \subseteq Meeting(r.geom, l)
    BY <1>1, <2>2, InstancesAre
  <2>4. KeyBox(c) \cap r.geom.met # {}
    BY <2>1, <2>3 DEF Meeting
  <2>5. r.geom.met \subseteq input.geoms[r.id].met
    BY <2>2, CutIs
  <2>6. Cut(input.geoms[r.id], c).met # {}
    BY <2>4, <2>5, CutIs
  <2> QED BY <2>1, <2>2, <2>4, <2>6 DEF Meets
<1>3. ASSUME NEW r \in R, NEW t \in R, r.id = t.id PROVE r = t
  BY <1>1, <1>2, <1>3, OneRow
<1> HIDE DEF R
<1>4. f \in Injection(R, Meets(c))
  <2>1. f \in [R -> Meets(c)]
    BY <1>2
  <2>2. \A r, t \in R : f[r] = f[t] => r = t
    BY <1>3
  <2> QED BY <2>1, <2>2 DEF Injection, IsInjective
<1> HIDE DEF f
<1>5. IsFiniteSet(Meets(c)) /\ Population(c) = Cardinality(Meets(c))
  BY Populations
<1>6. IsFiniteSet(R) /\ Cardinality(R) <= Cardinality(Meets(c))
  BY <1>4, <1>5, FS_Injection
<1> QED BY <1>5, <1>6 DEF R

\* A cell with too many geometries lies in a partition that is to be split at
\* any coarser level.
LEMMA OversizedIn ==
    ASSUME input \in Inputs, NEW c \in Cells, NEW n \in 0..c.level,
           Population(c) > SplitN
    PROVE  /\ Ancestor(c, n) \in Oversized(n) /\ Ancestor(c, n) \in PartsAt(n)
           /\ KeyBox(c) \subseteq KeyBox(Ancestor(c, n))
<1> DEFINE p == Ancestor(c, n)
<1>1. p \in Cells /\ p.level = n /\ \A m \in 0..n : Ancestor(p, m) = Ancestor(c, m)
  BY Ancestors
<1>2. c.level \in Nat
  BY CellType
<1>3. ASSUME NEW m \in 0..c.level PROVE Population(Ancestor(c, m)) > SplitN
  <2>1. Population(c) <= Population(Ancestor(c, m))
    BY PopulationsGrow
  <2>2. Population(c) \in Nat /\ Population(Ancestor(c, m)) \in Nat
    BY Populations
  <2> QED BY <2>1, <2>2, SplitNAssumption
<1>4. Population(p) > SplitN /\ Population(p) > 0
  <2>1. Population(p) > SplitN
    BY <1>3
  <2>2. Population(p) \in Nat
    BY Populations
  <2> QED BY <2>1, <2>2, SplitNAssumption
<1>5. \A m \in 0..p.level - 1 : Population(Ancestor(p, m)) > SplitN
  <2> SUFFICES ASSUME NEW m \in 0..n - 1 PROVE Population(Ancestor(p, m)) > SplitN
    BY <1>1
  <2>1. m \in 0..n /\ m \in 0..c.level
    BY <1>2
  <2> QED BY <1>1, <1>3, <2>1
<1> HIDE DEF p
<1>6. p \in Oversized(n)
  BY <1>1, <1>4 DEF Oversized
<1>7. p \in PartsAt(n)
  BY <1>1, <1>4, <1>5 DEF PartsAt
<1> QED BY <1>6, <1>7, AncestorBoxes DEF p

\* The counts name exactly the cells that have too many geometries, as soon as
\* rows count for all cells below those partitions.
LEMMA CountsFindOversized ==
    ASSUME input \in Inputs, NEW n \in 0..MaxLevel, rows = RowsAt(n), NEW l \in n..MaxLevel,
           \A c \in Oversized(l) : \A i \in Meets(c) :
              c \in Instances(Row(i, Ancestor(c, n), Cut(input.geoms[i], Ancestor(c, n))), l)
    PROVE  {c \in DOMAIN Counts(l) : Counts(l)[c] > SplitN} = Oversized(l)
<1>1. ASSUME NEW c \in DOMAIN Counts(l), Counts(l)[c] > SplitN PROVE c \in Oversized(l)
  <2>1. PICK r \in rows : c \in Instances(r, l)
    BY CountsAre
  <2>2. GeometryIn(r.geom, r.part) /\ (input.raster => \E s \in Squares : r.geom.met = {s})
    BY RowsAre
  <2>3. l \in 0..MaxLevel
    OBVIOUS
  <2>4. c \in Cells /\ c.level = l
    BY <2>1, <2>2, <2>3, InstancesAre DEF Meeting
  <2>5. IsFiniteSet(CountedFor(c, l)) /\ Cardinality(CountedFor(c, l)) <= Population(c)
    BY <2>4, NotOvercounted
  <2>6. Counts(l)[c] = Cardinality(CountedFor(c, l))
    BY CountsAre
  <2>7. Cardinality(CountedFor(c, l)) \in Nat /\ Population(c) \in Nat
    BY <2>5, Populations, FS_CardinalityType
  <2>8. Population(c) > SplitN
    BY <1>1, <2>5, <2>6, <2>7, SplitNAssumption
  <2> QED BY <2>4, <2>8 DEF Oversized
<1>2. ASSUME NEW c \in Oversized(l) PROVE c \in DOMAIN Counts(l) /\ Counts(l)[c] > SplitN
  <2> DEFINE p == Ancestor(c, n)
             R == CountedFor(c, l)
             row(i) == Row(i, p, Cut(input.geoms[i], p))
             f == [i \in Meets(c) |-> row(i)]
  <2>1. c \in Cells /\ c.level = l /\ Population(c) > SplitN /\ n \in 0..c.level
    BY DEF Oversized
  <2>2. p \in PartsAt(n) /\ KeyBox(c) \subseteq KeyBox(p)
    BY <2>1, OversizedIn
  <2>3. ASSUME NEW i \in Meets(c) PROVE row(i) \in R /\ row(i).id = i
    <3>1. i \in Ids /\ Cut(input.geoms[i], p).met # {}
      BY <2>2, CutIs DEF Meets
    <3>2. row(i) \in rows
      BY <2>2, <3>1, RowMade
    <3>3. c \in Instances(row(i), l)
      OBVIOUS
    <3> QED BY <3>2, <3>3, RowIs DEF CountedFor
  <2> HIDE DEF R, row
  <2>4. f \in Injection(Meets(c), R)
    <3>1. f \in [Meets(c) -> R]
      BY <2>3
    <3>2. \A i, j \in Meets(c) : f[i] = f[j] => i = j
      BY <2>3
    <3> QED BY <3>1, <3>2 DEF Injection, IsInjective
  <2> HIDE DEF f
  <2>5. IsFiniteSet(R)
    BY <2>1, NotOvercounted DEF R
  <2>6. Population(c) <= Cardinality(R)
    BY <2>4, <2>5, Populations, FS_Injection
  <2>7. Population(c) \in Nat /\ Cardinality(R) \in Nat
    BY <2>5, Populations, FS_CardinalityType
  <2>8. Population(c) > 0 /\ Cardinality(R) > SplitN
    BY <2>1, <2>6, <2>7, SplitNAssumption
  <2>9. PICK i \in Meets(c) : TRUE
    BY <2>8, Populations DEF Meets
  <2>10. row(i) \in rows /\ c \in Instances(row(i), l)
    BY <2>3 DEF R, CountedFor
  <2>11. c \in DOMAIN Counts(l)
    BY <2>10, CountsAre
  <2> QED BY <2>8, <2>11, CountsAre DEF R
<1> QED BY <1>1, <1>2

\* The first count, of the root alone.
LEMMA FirstCounts ==
    ASSUME input \in Inputs, rows = RowsAt(0)
    PROVE  {c \in DOMAIN Counts(0) : Counts(0)[c] > SplitN} = Oversized(0)
<1>1. 0 \in 0..MaxLevel
  BY MaxLevelAssumption
<1>2. ASSUME NEW c \in Oversized(0), NEW i \in Meets(c)
      PROVE  c \in Instances(Row(i, Ancestor(c, 0), Cut(input.geoms[i], Ancestor(c, 0))), 0)
  <2> DEFINE r == Row(i, Ancestor(c, 0), Cut(input.geoms[i], Ancestor(c, 0)))
  <2>1. c \in Cells /\ c.level = 0 /\ Population(c) > SplitN /\ 0 \in 0..c.level
    BY DEF Oversized
  <2>2. Ancestor(c, 0) \in PartsAt(0) /\ KeyBox(c) \subseteq KeyBox(Ancestor(c, 0))
    BY <2>1, OversizedIn
  <2>3. i \in Ids /\ Cut(input.geoms[i], Ancestor(c, 0)).met # {}
    BY <2>2, CutIs DEF Meets
  <2>4. r \in RowsAt(0)
    BY <2>2, <2>3, RowMade
  <2> HIDE DEF r
  <2>5. GeometryIn(r.geom, r.part) /\ (input.raster => \E s \in Squares : r.geom.met = {s})
    BY <1>1, <2>4, RowsAre
  <2>6. Instances(r, 0) = {Root}
    BY <2>5, InstancesAre
  <2>7. c = Root
    BY <2>1, RootCell
  <2> QED BY <2>6, <2>7 DEF r
<1>3. 0 \in 0..MaxLevel
  BY <1>1
<1> QED BY <1>1, <1>2, <1>3, CountsFindOversized

\* Nothing is missing: a row of a partition at the level before counts for all
\* cells its geometry meets.
LEMMA RowsCountForAll ==
    ASSUME input \in Inputs, NEW n \in 0..MaxLevel - 1, rows = RowsAt(n), ~Missing(n + 1),
           NEW i \in Ids, NEW p \in PartsAt(n), p.level = n, Cut(input.geoms[i], p).met # {}
    PROVE  LET r == Row(i, p, Cut(input.geoms[i], p))
           IN  Instances(r, n + 1) = Meeting(r.geom, n + 1) /\ Instances(r, n + 1) # {}
<1> DEFINE r == Row(i, p, Cut(input.geoms[i], p))
<1>1. n \in 0..MaxLevel /\ p.level < MaxLevel
  BY MaxLevelAssumption
<1>2. r \in rows
  BY RowMade
<1>3. r.part = p
  BY RowIs
<1> HIDE DEF r
<1>4. GeometryIn(r.geom, p) /\ (input.raster => \E s \in Squares : r.geom.met = {s})
  BY <1>1, <1>2, <1>3, RowsAre
<1>5. Instances(r, n + 1) # {}
  BY <1>2 DEF Missing
<1>6. Instances(r, n + 1) = Meeting(r.geom, n + 1)
  BY <1>1, <1>4, <1>5, InstancesAre
<1> QED BY <1>5, <1>6 DEF r

\* The counts of the next level name exactly the cells with too many geometries.
LEMMA NextCounts ==
    ASSUME input \in Inputs, NEW n \in 0..MaxLevel - 1, rows = RowsAt(n), ~Missing(n + 1)
    PROVE  {c \in DOMAIN Counts(n + 1) : Counts(n + 1)[c] > SplitN} = Oversized(n + 1)
<1>1. n \in 0..MaxLevel /\ n + 1 \in n..MaxLevel
  BY MaxLevelAssumption
<1>2. ASSUME NEW c \in Oversized(n + 1), NEW i \in Meets(c)
      PROVE  c \in Instances(Row(i, Ancestor(c, n), Cut(input.geoms[i], Ancestor(c, n))), n + 1)
  <2> DEFINE p == Ancestor(c, n)
             r == Row(i, p, Cut(input.geoms[i], p))
  <2>1. c \in Cells /\ c.level = n + 1 /\ Population(c) > SplitN /\ n \in 0..c.level
    BY DEF Oversized
  <2>2. p \in PartsAt(n) /\ p.level = n /\ KeyBox(c) \subseteq KeyBox(p)
    BY <2>1, OversizedIn DEF Oversized
  <2>3. i \in Ids /\ Cut(input.geoms[i], p).met # {}
    BY <2>2, CutIs DEF Meets
  <2>4. Instances(r, n + 1) = Meeting(r.geom, n + 1)
    BY <2>2, <2>3, RowsCountForAll
  <2>5. r.geom = Cut(input.geoms[i], p)
    BY RowIs
  <2>6. KeyBox(c) \cap r.geom.met # {}
    BY <2>2, <2>5, CutIs DEF Meets
  <2> HIDE DEF r
  <2>7. c \in Meeting(r.geom, n + 1)
    BY <2>1, <2>6 DEF Meeting
  <2> QED BY <2>4, <2>7 DEF r
<1> QED BY <1>1, <1>2, CountsFindOversized

\* The merge of the two levels drops none of the cells that are too large: each
\* has a child that was counted.
LEMMA AllParentsFound ==
    ASSUME input \in Inputs, NEW n \in 0..MaxLevel - 1, level = n, rows = RowsAt(n),
           ~Missing(n + 1), {c \in DOMAIN counts : counts[c] > SplitN} = Oversized(n)
    PROVE  ParentsToSplit(Counts(n + 1)) = Oversized(n)
<1>1. \A c : TooLarge(c) <=> c \in Oversized(n)
  BY DEF TooLarge
<1>2. ParentsToSplit(Counts(n + 1)) \subseteq Oversized(n)
  BY <1>1 DEF ParentsToSplit
<1>3. ASSUME NEW p \in Oversized(n)
      PROVE  \E c \in DOMAIN Counts(n + 1) : p = Ancestor(c, n)
  <2>1. p \in Cells /\ p.level = n /\ Population(p) > SplitN /\ n \in 0..p.level
    BY DEF Oversized
  <2>2. p \in PartsAt(n)
    BY <2>1, OversizedIn, AncestorSelf
  <2>3. Population(p) > 0
    BY <2>2 DEF PartsAt
  <2>4. PICK i \in Ids : Cut(input.geoms[i], p).met # {}
    BY <2>3, Populations
  <2> DEFINE r == Row(i, p, Cut(input.geoms[i], p))
  <2>5. Instances(r, n + 1) = Meeting(r.geom, n + 1) /\ Instances(r, n + 1) # {}
    BY <2>1, <2>2, <2>4, RowsCountForAll
  <2>6. r \in rows /\ r.geom = Cut(input.geoms[i], p)
    BY <2>2, <2>4, RowMade, RowIs
  <2> HIDE DEF r
  <2>7. PICK c \in Cells :
           c \in Instances(r, n + 1) /\ c.level = n + 1 /\ KeyBox(c) \cap r.geom.met # {}
    BY <2>5 DEF Meeting
  <2>8. PICK s \in KeyBox(c) : s \in r.geom.met
    BY <2>7
  <2>9. s \in KeyBox(p)
    BY <2>6, <2>8, CutIs
  <2>10. p.level <= c.level
    BY <2>1, <2>7
  <2>11. p = Ancestor(c, n)
    BY <2>1, <2>8, <2>9, <2>10, CellsNest
  <2>12. c \in DOMAIN Counts(n + 1)
    BY <2>6, <2>7, CountsAre
  <2> QED BY <2>11, <2>12
<1>4. Oversized(n) \subseteq ParentsToSplit(Counts(n + 1))
  BY <1>1, <1>3 DEF ParentsToSplit
<1> QED BY <1>2, <1>4

-----------------------------------------------------------------------------
(* Splitting                                                               *)

\* Cells that are too large are partitions of their level, and so are those
\* of their children that meet a geometry, a level below.
LEMMA OversizedParts ==
    ASSUME input \in Inputs, NEW n \in 0..MaxLevel, NEW p \in Oversized(n)
    PROVE  /\ p \in Cells /\ p.level = n /\ p \in PartsAt(n)
           /\ \A m \in 0..n : Population(Ancestor(p, m)) > SplitN
<1>1. p \in Cells /\ p.level = n /\ Population(p) > SplitN /\ n \in 0..p.level
  BY DEF Oversized
<1>2. p \in PartsAt(n)
  BY <1>1, OversizedIn, AncestorSelf
<1>3. ASSUME NEW m \in 0..n PROVE Population(Ancestor(p, m)) > SplitN
  <2>1. m \in 0..p.level
    BY <1>1
  <2>2. Ancestor(p, m) \in Oversized(m)
    BY <1>1, <2>1, OversizedIn
  <2> QED BY <2>2 DEF Oversized
<1> QED BY <1>1, <1>2, <1>3

\* A child of a partition that is too large is a partition if a geometry meets it.
LEMMA ChildParts ==
    ASSUME input \in Inputs, NEW n \in 0..MaxLevel - 1, NEW p \in Oversized(n), NEW q \in 0..3,
           NEW i \in Ids, Cut(input.geoms[i], Child(p, q)).met # {}
    PROVE  Child(p, q) \in PartsAt(n + 1)
<1>1. n \in 0..MaxLevel /\ n < MaxLevel
  BY MaxLevelAssumption
<1>2. p \in Cells /\ p.level = n /\ \A m \in 0..n : Population(Ancestor(p, m)) > SplitN
  BY <1>1, OversizedParts
<1>3. Child(p, q) \in Cells /\ Child(p, q).level = n + 1
  BY <1>1, <1>2, ChildCell
<1>4. \A m \in 0..n : Ancestor(Child(p, q), m) = Ancestor(p, m)
  BY <1>1, <1>2, AncestorChild
<1>5. Population(Child(p, q)) > 0
  BY Populations
<1>6. \A m \in 0..Child(p, q).level - 1 : Population(Ancestor(Child(p, q), m)) > SplitN
  BY <1>2, <1>3, <1>4
<1> QED BY <1>3, <1>5, <1>6 DEF PartsAt

\* The other partitions stay.
LEMMA OtherParts ==
    ASSUME input \in Inputs, NEW n \in 0..MaxLevel - 1, NEW c
    PROVE  c \in PartsAt(n) /\ c \notin Oversized(n)
              <=> c \in PartsAt(n + 1) /\ c.level <= n
<1>1. \A d \in Cells : d.level \in Nat
  BY CellType
<1>2. Population(c) \in Nat
  BY Populations
<1>3. ASSUME c \in PartsAt(n), c \notin Oversized(n)
      PROVE  c \in PartsAt(n + 1) /\ c.level <= n
  <2>1. c \in Cells /\ c.level <= n /\ (c.level = n \/ Population(c) <= SplitN)
    BY <1>3 DEF PartsAt
  <2>2. c.level = n => Population(c) <= SplitN
    BY <1>2, <1>3, <2>1, SplitNAssumption DEF Oversized
  <2>3. Population(c) <= SplitN /\ c.level <= n + 1
    BY <1>1, <2>1, <2>2
  <2> QED BY <1>3, <2>1, <2>3 DEF PartsAt
<1>4. ASSUME c \in PartsAt(n + 1), c.level <= n
      PROVE  c \in PartsAt(n) /\ c \notin Oversized(n)
  <2>1. Population(c) <= SplitN
    BY <1>4 DEF PartsAt
  <2>2. c \notin Oversized(n)
    BY <1>2, <2>1, SplitNAssumption DEF Oversized
  <2> QED BY <1>4, <2>1, <2>2 DEF PartsAt
<1> QED BY <1>3, <1>4

\* A cut of a cut: what the geometry has in the child.
LEMMA CutTwice ==
    ASSUME NEW geom, NEW p \in Cells, p.level < MaxLevel, NEW q \in 0..3
    PROVE  Cut(Cut(geom, p), Child(p, q)) = Cut(geom, Child(p, q))
<1>1. KeyBox(Child(p, q)) \subseteq KeyBox(p)
  BY ChildBoxes
<1>2. /\ (geom.met \cap KeyBox(p)) \cap KeyBox(Child(p, q)) = geom.met \cap KeyBox(Child(p, q))
      /\ (geom.full \cap KeyBox(p)) \cap KeyBox(Child(p, q)) = geom.full \cap KeyBox(Child(p, q))
  BY <1>1
<1> QED BY <1>2, CutIs DEF Cut

\* What is left of the overlay are the cuts of the rows of the parent itself:
\* the rows of the other parents do not meet its children.
LEMMA PartSplit ==
    ASSUME input \in Inputs, NEW n \in 0..MaxLevel - 1, rows = RowsAt(n),
           NEW p \in Oversized(n), NEW s
    PROVE  s \in SplitPartition({r \in rows : r.part \in Oversized(n)}, p)
           <=> \E i \in Ids, q \in 0..3 :
                  /\ Cut(input.geoms[i], Child(p, q)).met # {}
                  /\ s = Row(i, Child(p, q), Cut(input.geoms[i], Child(p, q)))
<1> DEFINE splitting == {r \in rows : r.part \in Oversized(n)}
<1>1. n \in 0..MaxLevel /\ n < MaxLevel
  BY MaxLevelAssumption
<1>2. p \in Cells /\ p.level = n /\ p \in PartsAt(n)
  BY <1>1, OversizedParts
<1>3. \A q \in 0..3 : KeyBox(Child(p, q)) \subseteq KeyBox(p)
  BY <1>1, <1>2, ChildBoxes
<1>4. ASSUME NEW r \in splitting, NEW q \in 0..3,
             s = Row(r.id, Child(p, q), Cut(r.geom, Child(p, q))), s.geom.met # {}
      PROVE  \E i \in Ids, k \in 0..3 :
                /\ Cut(input.geoms[i], Child(p, k)).met # {}
                /\ s = Row(i, Child(p, k), Cut(input.geoms[i], Child(p, k)))
  <2>1. r.id \in Ids /\ r.geom = Cut(input.geoms[r.id], r.part) /\ r.part \in Oversized(n)
    BY <1>1, RowsAre
  <2>2. s.geom = Cut(r.geom, Child(p, q))
    BY <1>4, RowIs
  <2>3. PICK x : x \in r.geom.met /\ x \in KeyBox(Child(p, q))
    BY <1>4, <2>2, CutIs
  <2>4. x \in KeyBox(r.part) /\ x \in KeyBox(p)
    BY <1>3, <2>1, <2>3, CutIs
  <2>5. r.part \in Cells /\ r.part.level = n
    BY <2>1 DEF Oversized
  <2>6. x \in Squares
    BY <1>2, <2>4, AncestorBoxes
  <2>7. r.part = p
    BY <1>1, <1>2, <2>4, <2>5, <2>6, CellOfSquare
  <2>8. Cut(r.geom, Child(p, q)) = Cut(input.geoms[r.id], Child(p, q))
    BY <1>1, <1>2, <2>1, <2>7, CutTwice
  <2> QED BY <1>4, <2>1, <2>2, <2>8
<1>5. ASSUME NEW i \in Ids, NEW q \in 0..3, Cut(input.geoms[i], Child(p, q)).met # {},
             s = Row(i, Child(p, q), Cut(input.geoms[i], Child(p, q)))
      PROVE  \E r \in splitting, k \in 0..3 :
                s = Row(r.id, Child(p, k), Cut(r.geom, Child(p, k))) /\ s.geom.met # {}
  <2> DEFINE r == Row(i, p, Cut(input.geoms[i], p))
  <2>1. Cut(input.geoms[i], p).met # {}
    BY <1>3, <1>5, CutIs
  <2>2. r \in rows
    BY <1>2, <1>5, <2>1, RowMade
  <2>3. r.id = i /\ r.part = p /\ r.geom = Cut(input.geoms[i], p)
    BY RowIs
  <2> HIDE DEF r
  <2>4. r \in splitting
    BY <2>2, <2>3
  <2>5. Cut(r.geom, Child(p, q)) = Cut(input.geoms[i], Child(p, q))
    BY <1>1, <1>2, <1>5, <2>3, CutTwice
  <2>6. s.geom.met # {}
    BY <1>5, RowIs
  <2> QED BY <1>5, <2>3, <2>4, <2>5, <2>6
<1>6. s \in SplitPartition(splitting, p) <=>
         \E r \in splitting, q \in 0..3 :
            s = Row(r.id, Child(p, q), Cut(r.geom, Child(p, q))) /\ s.geom.met # {}
  BY DEF SplitPartition
<1> HIDE DEF splitting
<1>7. CASE s \in SplitPartition(splitting, p)
  BY <1>4, <1>6, <1>7 DEF splitting
<1>8. ASSUME \E i \in Ids, q \in 0..3 :
                /\ Cut(input.geoms[i], Child(p, q)).met # {}
                /\ s = Row(i, Child(p, q), Cut(input.geoms[i], Child(p, q)))
      PROVE  s \in SplitPartition(splitting, p)
  BY <1>5, <1>6, <1>8
<1> QED BY <1>7, <1>8 DEF splitting

\* Splitting the partitions that are too large takes the rows one level down.
LEMMA RowsNext ==
    ASSUME input \in Inputs, NEW n \in 0..MaxLevel - 1, rows = RowsAt(n)
    PROVE  LET splitting == {r \in rows : r.part \in Oversized(n)}
           IN  (rows \ splitting) \cup UNION {SplitPartition(splitting, p) : p \in Oversized(n)}
                  = RowsAt(n + 1)
<1> DEFINE splitting == {r \in rows : r.part \in Oversized(n)}
           next == (rows \ splitting) \cup UNION {SplitPartition(splitting, p) : p \in Oversized(n)}
<1>1. n \in 0..MaxLevel /\ n + 1 \in 0..MaxLevel
  BY MaxLevelAssumption
<1>2. ASSUME NEW s \in rows \ splitting PROVE s \in RowsAt(n + 1)
  <2>1. /\ s.id \in Ids /\ s = Row(s.id, s.part, s.geom) /\ s.part \in PartsAt(n)
        /\ s.geom = Cut(input.geoms[s.id], s.part) /\ s.geom.met # {}
    BY <1>1, RowsAre
  <2>2. s.part \in PartsAt(n + 1)
    BY <2>1, OtherParts
  <2> QED BY <2>1, <2>2, RowMade
<1>3. ASSUME NEW p \in Oversized(n), NEW s \in SplitPartition(splitting, p)
      PROVE  s \in RowsAt(n + 1)
  <2>1. PICK i \in Ids, q \in 0..3 :
           /\ Cut(input.geoms[i], Child(p, q)).met # {}
           /\ s = Row(i, Child(p, q), Cut(input.geoms[i], Child(p, q)))
    BY <1>3, PartSplit
  <2>2. Child(p, q) \in PartsAt(n + 1)
    BY <2>1, ChildParts
  <2> QED BY <2>1, <2>2, RowMade
<1>4. ASSUME NEW s \in RowsAt(n + 1) PROVE s \in next
  <2>1. /\ s.id \in Ids /\ s = Row(s.id, s.part, s.geom) /\ s.part \in PartsAt(n + 1)
        /\ s.geom = Cut(input.geoms[s.id], s.part) /\ s.geom.met # {}
        /\ s.part \in Cells /\ s.part.level \in 0..n + 1
    BY <1>1, RowsAre
  <2>2. CASE s.part.level <= n
    <3>1. s.part \in PartsAt(n) /\ s.part \notin Oversized(n)
      BY <2>1, <2>2, OtherParts
    <3>2. s \in rows
      BY <2>1, <3>1, RowMade
    <3> QED BY <3>1, <3>2
  <2>3. CASE s.part.level = n + 1
    <3> DEFINE p == Ancestor(s.part, n)
    <3>1. PICK q \in 0..3 : s.part = Child(p, q)
      BY <2>1, <2>3, Parents
    <3>2. p \in Cells /\ p.level = n
      BY <2>1, <2>3, Parents
    <3>3. Population(p) > SplitN
      <4>1. n \in 0..s.part.level - 1
        BY <2>3
      <4> QED BY <2>1, <4>1 DEF PartsAt
    <3> HIDE DEF p
    <3>4. p \in Oversized(n)
      BY <3>2, <3>3 DEF Oversized
    <3>5. s \in SplitPartition(splitting, p)
      <4>1. /\ s.id \in Ids /\ Cut(input.geoms[s.id], Child(p, q)).met # {}
            /\ s = Row(s.id, Child(p, q), Cut(input.geoms[s.id], Child(p, q)))
        BY <2>1, <3>1
      <4> QED BY <3>4, <4>1, PartSplit
    <3> QED BY <3>4, <3>5
  <2> QED BY <2>1, <2>2, <2>3
<1> HIDE DEF splitting
<1>5. next \subseteq RowsAt(n + 1)
  BY <1>2, <1>3
<1>6. next = RowsAt(n + 1)
  BY <1>4, <1>5
<1> QED BY <1>6 DEF splitting

-----------------------------------------------------------------------------
(* The plan                                                                *)

\* Why a level may be missing from the walk of a row.
StopsEarly(l) ==
    /\ ~input.raster
    /\ \/ input.maxDepth # Unlimited \/ input.simplify # {}
       \/ \E i \in Ids, c \in Cells : c.level < l /\ Covered(input.geoms[i], c)

\* The inductive invariant: the rows are those of the partitions split down to
\* the level, the counts name the cells that are too large at it, and the
\* partitions split last are those that were too large one level above.
PlanOK ==
    /\ input \in Inputs
    /\ level \in -1..MaxLevel
    /\ outcome \in {"planning", "planned", "KeyError"}
    /\ rows = RowsAt(IF level < 0 THEN 0 ELSE level)
    /\ level >= 0 => {c \in DOMAIN counts : counts[c] > SplitN} = Oversized(level)
    /\ toSplit = IF level >= 1 THEN Oversized(level - 1) ELSE {}
    /\ outcome = "planned" => level = MaxLevel \/ (level >= 1 /\ toSplit = {})
    /\ outcome = "KeyError" => level < MaxLevel /\ StopsEarly(level + 1)

\* The first rows are those of the root, whole.
LEMMA FirstRows ==
    ASSUME input \in Inputs
    PROVE  {Row(i, Root, input.geoms[i]) : i \in DOMAIN input.geoms} = RowsAt(0)
<1>1. ASSUME NEW i \in Ids
      PROVE  Cut(input.geoms[i], Root) = input.geoms[i] /\ input.geoms[i].met # {}
  <2>1. /\ input.geoms[i] = [met |-> input.geoms[i].met, full |-> input.geoms[i].full]
        /\ input.geoms[i].met \subseteq Squares /\ input.geoms[i].met # {}
        /\ input.geoms[i].full \subseteq input.geoms[i].met
    BY InputsAre
  <2>2. /\ input.geoms[i].met \cap KeyBox(Root) = input.geoms[i].met
        /\ input.geoms[i].full \cap KeyBox(Root) = input.geoms[i].full
    BY <2>1, RootBox
  <2>3. Cut(input.geoms[i], Root) = [met |-> input.geoms[i].met, full |-> input.geoms[i].full]
    BY <2>2 DEF Cut
  <2> QED BY <2>1, <2>3
<1>2. ASSUME NEW i \in Ids PROVE Root \in PartsAt(0)
  <2>1. Population(Root) > 0
    BY <1>1, Populations
  <2>2. 0..Root.level - 1 = {}
    BY RootCell
  <2> QED BY <2>1, <2>2, RootCell DEF PartsAt
<1>3. ASSUME NEW i \in Ids PROVE Row(i, Root, input.geoms[i]) \in RowsAt(0)
  BY <1>1, <1>2, RowMade
<1>4. ASSUME NEW r \in RowsAt(0) PROVE r.id \in Ids /\ r = Row(r.id, Root, input.geoms[r.id])
  <2>1. /\ r.id \in Ids /\ r = Row(r.id, r.part, r.geom) /\ r.geom = Cut(input.geoms[r.id], r.part)
        /\ r.part \in Cells /\ r.part.level \in 0..0
    BY RowsAre, MaxLevelAssumption
  <2>2. r.part = Root
    BY <2>1, RootCell
  <2> QED BY <1>1, <2>1, <2>2
<1> QED BY <1>3, <1>4 DEF Ids

\* When the deepest level is reached, or nothing was too large one level above,
\* the partitions are those of the plan.
LEMMA PlannedIs ==
    ASSUME input \in Inputs, NEW n \in 0..MaxLevel,
           n = MaxLevel \/ (n >= 1 /\ Oversized(n - 1) = {})
    PROVE  PartsAt(n) = Planned
<1>1. \A c \in Cells : c.level \in 0..MaxLevel /\ c.level \in Nat
  BY CellType
<1>2. CASE n = MaxLevel
  BY <1>1, <1>2, MaxLevelAssumption DEF PartsAt, Planned
<1>3. CASE n >= 1 /\ Oversized(n - 1) = {}
  <2>1. ASSUME NEW c \in Cells, \A l \in 0..c.level - 1 : Population(Ancestor(c, l)) > SplitN,
               c.level >= n
        PROVE  FALSE
    <3>1. n - 1 \in 0..c.level /\ n - 1 \in 0..c.level - 1
      BY <1>1, <1>3, <2>1
    <3>2. Ancestor(c, n - 1) \in Cells /\ Ancestor(c, n - 1).level = n - 1
      BY <3>1, Ancestors
    <3>3. Ancestor(c, n - 1) \in Oversized(n - 1)
      BY <2>1, <3>1, <3>2 DEF Oversized
    <3> QED BY <1>3, <3>3
  <2>2. \A c \in Cells : (\A l \in 0..c.level - 1 : Population(Ancestor(c, l)) > SplitN)
                            => c.level < n
    BY <1>1, <2>1
  <2>3. \A c \in PartsAt(n) : c \in Cells /\ c.level < n
    BY <2>2 DEF PartsAt
  <2>4. \A c \in Planned : c \in Cells /\ c.level < n
    BY <2>2 DEF Planned
  <2>5. PartsAt(n) \subseteq Planned
    BY <2>3 DEF PartsAt, Planned
  <2>6. Planned \subseteq PartsAt(n)
    BY <1>1, <2>4 DEF PartsAt, Planned
  <2> QED BY <2>5, <2>6
<1> QED BY <1>2, <1>3

\* A level that is missing for some row was not reached by its tree.
LEMMA MissingStops ==
    ASSUME input \in Inputs, NEW n \in 0..MaxLevel, rows = RowsAt(n),
           NEW l \in 0..MaxLevel, Missing(l)
    PROVE  l # 0 /\ StopsEarly(l)
<1>1. PICK r \in rows : Instances(r, l) = {}
  BY DEF Missing
<1>2. /\ r.id \in Ids /\ r.geom = Cut(input.geoms[r.id], r.part) /\ GeometryIn(r.geom, r.part)
      /\ input.raster => \E s \in Squares : r.geom.met = {s}
  BY RowsAre
<1>3. l # 0
  BY <1>1, <1>2, InstancesAre
<1>4. ~input.raster
  BY <1>1, <1>2, InstancesAre
<1>5. ASSUME input.maxDepth = Unlimited, input.simplify = {}
      PROVE  \E i \in Ids, c \in Cells : c.level < l /\ Covered(input.geoms[i], c)
  <2>1. CellsAt(Grown(r.geom, Unlimited, {}), l) = {}
    BY <1>1, <1>4, <1>5 DEF Instances, Tree
  <2>2. PICK c \in Cells : c.level < l /\ Covered(r.geom, c)
    BY <1>2, <2>1, MissingIsCovered
  <2>3. Covered(input.geoms[r.id], c)
    BY <1>2, <2>2, CutIs DEF Covered
  <2> QED BY <1>2, <2>2, <2>3
<1> QED BY <1>3, <1>4, <1>5 DEF StopsEarly

\* The reference partitions and rows depend on the input alone.
LEMMA SameInput ==
    ASSUME input' = input
    PROVE  /\ \A n : RowsAt(n)' = RowsAt(n)
           /\ \A n : Oversized(n)' = Oversized(n)
           /\ \A n : StopsEarly(n)' = StopsEarly(n)
<1>1. \A c : Population(c)' = Population(c)
  BY DEF Population, Ids
<1>2. \A n : PartsAt(n)' = PartsAt(n)
  BY <1>1 DEF PartsAt
<1>3. \A n : RowsAt(n)' = RowsAt(n)
  BY <1>2 DEF RowsAt, Ids
<1>4. \A n : Oversized(n)' = Oversized(n)
  BY <1>1 DEF Oversized
<1>5. \A n : StopsEarly(n)' = StopsEarly(n)
  BY DEF StopsEarly, Ids
<1> QED BY <1>3, <1>4, <1>5

\* Planning starts with the rows of level 0.
LEMMA InitPlan == Init => PlanOK
<1> SUFFICES ASSUME Init PROVE PlanOK
  OBVIOUS
<1>1. input \in Inputs /\ level = -1 /\ toSplit = {} /\ outcome = "planning"
  BY DEF Init
<1>2. rows = RowsAt(0)
  BY <1>1, FirstRows DEF Init
<1> QED BY <1>1, <1>2, MaxLevelAssumption DEF PlanOK

\* A round counts the next level right and splits what was too large.
LEMMA NextLevelPlan == PlanOK /\ NextLevel => PlanOK'
<1> SUFFICES ASSUME PlanOK, NextLevel PROVE PlanOK'
  OBVIOUS
<1>1. PICK n \in -1..MaxLevel : n = level
  BY DEF PlanOK
<1>2. /\ input \in Inputs /\ input' = input /\ n < MaxLevel /\ n + 1 \in 0..MaxLevel
      /\ level' = n + 1 /\ outcome = "planning" /\ outcome' = outcome
      /\ ~Missing(n + 1) /\ counts' = Counts(n + 1)
  BY <1>1, MaxLevelAssumption DEF NextLevel, PlanOK
<1>3. CASE n = -1
  <2>1. rows = RowsAt(0) /\ toSplit = {}
    BY <1>1, <1>3 DEF PlanOK
  <2>2. rows' = rows /\ toSplit' = toSplit /\ level' = 0
    BY <1>1, <1>2, <1>3 DEF NextLevel
  <2>3. {c \in DOMAIN Counts(0) : Counts(0)[c] > SplitN} = Oversized(0)
    BY <1>2, <2>1, FirstCounts
  <2>4. counts' = Counts(0)
    BY <1>2, <1>3
  <2>5. {c \in DOMAIN counts' : counts'[c] > SplitN} = Oversized(0)
    BY <2>3, <2>4
  <2>6. RowsAt(0)' = RowsAt(0) /\ Oversized(0)' = Oversized(0)
    BY <1>2, SameInput
  <2> QED BY <1>2, <2>1, <2>2, <2>5, <2>6, MaxLevelAssumption DEF PlanOK
<1>4. CASE n >= 0
  <2>1. /\ n \in 0..MaxLevel - 1 /\ rows = RowsAt(n)
        /\ {c \in DOMAIN counts : counts[c] > SplitN} = Oversized(n)
    BY <1>1, <1>2, <1>4, MaxLevelAssumption DEF PlanOK
  <2>2. ParentsToSplit(Counts(n + 1)) = Oversized(n)
    BY <1>1, <1>2, <2>1, AllParentsFound
  <2> DEFINE splitting == {r \in rows : r.part \in Oversized(n)}
  <2>3. /\ toSplit' = Oversized(n)
        /\ rows' = (rows \ splitting) \cup UNION {SplitPartition(splitting, p) : p \in Oversized(n)}
    <3> DEFINE P == ParentsToSplit(counts')
               S == {r \in rows : r.part \in P}
    <3>1. level + 1 > 0
      BY <1>1, <1>4
    <3>2. toSplit' = P /\ rows' = (rows \ S) \cup UNION {SplitPartition(S, p) : p \in P}
      BY <3>1 DEF NextLevel
    <3>3. P = Oversized(n)
      BY <1>2, <2>2
    <3> HIDE DEF P
    <3> QED BY <3>2, <3>3
  <2>4. rows' = RowsAt(n + 1)
    BY <1>2, <2>1, <2>3, RowsNext
  <2>5. {c \in DOMAIN counts' : counts'[c] > SplitN} = Oversized(n + 1)
    BY <1>2, <2>1, NextCounts
  <2> HIDE DEF splitting
  <2>6. /\ RowsAt(n + 1)' = RowsAt(n + 1) /\ Oversized(n + 1)' = Oversized(n + 1)
        /\ Oversized(n)' = Oversized(n)
    BY <1>2, SameInput
  <2>7. n + 1 >= 1 /\ (n + 1) - 1 = n /\ ~(n + 1 < 0)
    BY <1>4
  <2> QED BY <1>2, <2>3, <2>4, <2>5, <2>6, <2>7 DEF PlanOK
<1> QED BY <1>1, <1>3, <1>4

\* A KeyError has one of the reasons.
LEMMA RaisePlan == PlanOK /\ Raise => PlanOK'
<1> SUFFICES ASSUME PlanOK, Raise PROVE PlanOK'
  OBVIOUS
<1>1. PICK n \in -1..MaxLevel : n = level
  BY DEF PlanOK
<1>2. /\ input \in Inputs /\ n < MaxLevel /\ n + 1 \in 0..MaxLevel /\ Missing(n + 1)
      /\ outcome' = "KeyError" /\ UNCHANGED <<input, rows, level, counts, toSplit>>
  BY <1>1, MaxLevelAssumption DEF Raise, PlanOK
<1>3. PICK m \in 0..MaxLevel : rows = RowsAt(m)
  <2>1. (IF n < 0 THEN 0 ELSE n) \in 0..MaxLevel
    BY MaxLevelAssumption
  <2> QED BY <1>1, <2>1 DEF PlanOK
<1>4. StopsEarly(n + 1)
  BY <1>2, <1>3, MissingStops
<1>5. /\ StopsEarly(n + 1)' = StopsEarly(n + 1)
      /\ \A k : RowsAt(k)' = RowsAt(k) /\ Oversized(k)' = Oversized(k)
  BY <1>2, SameInput
<1> QED BY <1>1, <1>2, <1>4, <1>5 DEF PlanOK

\* Planning ends at the deepest level or when nothing was split.
LEMMA FinishPlan == PlanOK /\ Finish => PlanOK'
<1> SUFFICES ASSUME PlanOK, Finish PROVE PlanOK'
  OBVIOUS
<1>1. level \in -1..MaxLevel /\ (level = MaxLevel \/ (level >= 1 /\ toSplit = {}))
  BY MaxLevelAssumption DEF Finish, PlanOK
<1>2. outcome' = "planned" /\ UNCHANGED <<input, rows, level, counts, toSplit>>
  BY DEF Finish
<1>3. \A k : RowsAt(k)' = RowsAt(k) /\ Oversized(k)' = Oversized(k)
  BY <1>2, SameInput
<1> QED BY <1>1, <1>2, <1>3 DEF PlanOK

\* The invariant speaks of the variables only.
LEMMA StutterPlan == PlanOK /\ UNCHANGED vars => PlanOK'
BY SameInput DEF vars, PlanOK

\* Planning keeps to the reference partitions level by level, for all inputs.
THEOREM PlanInvariant == Spec => []PlanOK
<1>1. PlanOK /\ [Next]_vars => PlanOK'
  BY NextLevelPlan, RaisePlan, FinishPlan, StutterPlan DEF Next
<1> QED BY <1>1, InitPlan, PTL DEF Spec

\* The invariant implies the property at the end of the planning.
LEMMA PlanReference == PlanOK => PlanIsReference
<1> SUFFICES ASSUME PlanOK PROVE PlanIsReference
  OBVIOUS
<1>1. ASSUME outcome = "planned"
      PROVE  rows = {s \in {Row(i, c, Cut(input.geoms[i], c)) : i \in Ids, c \in Planned} :
                        s.geom.met # {}}
  <2>1. PICK n \in 0..MaxLevel :
           rows = RowsAt(n) /\ (n = MaxLevel \/ (n >= 1 /\ Oversized(n - 1) = {}))
    <3>1. level \in 0..MaxLevel
      BY <1>1, MaxLevelAssumption DEF PlanOK
    <3>2. rows = RowsAt(level) /\ (level = MaxLevel \/ (level >= 1 /\ Oversized(level - 1) = {}))
      BY <1>1, <3>1 DEF PlanOK
    <3> QED BY <3>1, <3>2
  <2>2. PartsAt(n) = Planned
    BY <2>1, PlannedIs DEF PlanOK
  <2> QED BY <2>1, <2>2 DEF RowsAt
<1>2. ASSUME outcome = "KeyError" PROVE StopsEarly(level + 1)
  BY <1>2 DEF PlanOK
<1> QED BY <1>1, <1>2 DEF PlanIsReference, StopsEarly

\* Planning arrives at the partitions of the reference, each with one row for
\* each geometry that meets it, cut to it.
THEOREM PlansAreReference == Spec => []PlanIsReference
BY PlanInvariant, PlanReference, PTL

\* Every row of the planning has a geometry in its partition, which is gridded well.
LEMMA PlanGrids == PlanOK => GridCovers
<1> SUFFICES ASSUME PlanOK, ~input.raster, NEW r \in rows
             PROVE  /\ r.geom.met \subseteq GridOf(Tree(r.geom))
                    /\ input.simplify \subseteq {4} =>
                          GridOf(Tree(r.geom))
                             \subseteq RegionOf(r.geom, Coarse(r.geom, input.maxDepth))
  BY DEF GridCovers, GridOf, RegionOf, Coarse, Meeting
<1>1. PICK n \in 0..MaxLevel : r \in RowsAt(n)
  <2>1. (IF level < 0 THEN 0 ELSE level) \in 0..MaxLevel
    BY MaxLevelAssumption DEF PlanOK
  <2> QED BY <2>1 DEF PlanOK
<1>2. input \in Inputs
  BY DEF PlanOK
<1>3. GeometryIn(r.geom, r.part) /\ DepthOK(input.maxDepth)
  BY <1>1, <1>2, RowsAre, InputsAre
<1> QED BY <1>3, GridHoldsGeometry, GridInRegion DEF Tree

\* Gridding loses no square of a geometry, whole or cut, and adds none but what
\* a maximum depth adds.
THEOREM GridsCover == Spec => []GridCovers
BY PlanInvariant, PlanGrids, PTL
=============================================================================
