------------------------ MODULE LoadCollectionProofs -------------------------
(***************************************************************************)
(* Proofs about KfpRuns and LoadCollection, for any finite set of items,   *)
(* any number of rounds and any collection.                                *)
(***************************************************************************)
EXTENDS LoadCollection, SequenceTheorems, FiniteSetTheorems,
        WellFoundedInduction, TLAPS

-----------------------------------------------------------------------------
(* Lists: an element less (pop), the orders of a set, and lists of lists.  *)

\* RemoveAt: one element less, those behind it move up.
LEMMA RemoveAtProperties ==
    ASSUME NEW S, NEW s \in Seq(S), NEW n \in 1..Len(s)
    PROVE  /\ RemoveAt(s, n) \in Seq(S)
           /\ Len(RemoveAt(s, n)) = Len(s) - 1
           /\ \A j \in 1..Len(s) - 1 :
                RemoveAt(s, n)[j] = IF j < n THEN s[j] ELSE s[j + 1]
<1> DEFINE a == SubSeq(s, 1, n - 1)
           b == SubSeq(s, n + 1, Len(s))
<1>1. /\ Len(s) \in Nat /\ n \in Int /\ n - 1 \in Int /\ n + 1 \in Int /\ Len(s) \in Int
      /\ \A j \in 1..Len(s) : s[j] \in S
  BY LenProperties, ElementOfSeq
<1>2. /\ a \in Seq(S) /\ Len(a) = n - 1
      /\ \A j \in 1..n - 1 : a[j] = s[j]
  <2>1. \A j \in 1..n - 1 : s[j] \in S
    BY <1>1
  <2>2. /\ a \in Seq(S)
        /\ Len(a) = IF 1 <= n - 1 THEN n - 1 - 1 + 1 ELSE 0
        /\ \A j \in 1..n - 1 - 1 + 1 : a[j] = s[1 + j - 1]
    BY <1>1, <2>1, SubSeqProperties
  <2> QED BY <1>1, <2>2
<1>3. /\ b \in Seq(S) /\ Len(b) = Len(s) - n
      /\ \A j \in 1..Len(s) - n : b[j] = s[n + j]
  <2>1. \A j \in n + 1..Len(s) : s[j] \in S
    BY <1>1
  <2>2. /\ b \in Seq(S)
        /\ Len(b) = IF n + 1 <= Len(s) THEN Len(s) - (n + 1) + 1 ELSE 0
        /\ \A j \in 1..Len(s) - (n + 1) + 1 : b[j] = s[n + 1 + j - 1]
    BY <1>1, <2>1, SubSeqProperties
  <2>3. \A j \in 1..Len(s) - n :
           j \in 1..Len(s) - (n + 1) + 1 /\ n + 1 + j - 1 = n + j
    BY <1>1
  <2>4. \A j \in 1..Len(s) - n : b[j] = s[n + j]
    BY <2>2, <2>3
  <2> QED BY <1>1, <2>2, <2>4
<1>4. /\ a \o b \in Seq(S)
      /\ Len(a \o b) = Len(a) + Len(b)
      /\ \A j \in 1..Len(a) + Len(b) :
            (a \o b)[j] = IF j <= Len(a) THEN a[j] ELSE b[j - Len(a)]
  BY <1>2, <1>3, ConcatProperties
<1>5. RemoveAt(s, n) = a \o b
  BY DEF RemoveAt
<1> HIDE DEF a, b
<1>6. ASSUME NEW j \in 1..Len(s) - 1
      PROVE  (a \o b)[j] = IF j < n THEN s[j] ELSE s[j + 1]
  <2>1. j \in 1..Len(a) + Len(b)
    BY <1>1, <1>2, <1>3
  <2>2. CASE j < n
    <3>1. j <= Len(a) /\ j \in 1..n - 1
      BY <1>1, <1>2, <2>2
    <3> QED BY <1>2, <1>4, <2>1, <2>2, <3>1
  <2>3. CASE ~(j < n)
    <3>1. ~(j <= Len(a)) /\ j - Len(a) \in 1..Len(s) - n /\ n + (j - Len(a)) = j + 1
      BY <1>1, <1>2, <2>3
    <3>2. (a \o b)[j] = b[j - Len(a)]
      BY <1>4, <2>1, <3>1
    <3>3. b[j - Len(a)] = s[n + (j - Len(a))]
      BY <1>3, <3>1
    <3> QED BY <2>3, <3>1, <3>2, <3>3
  <2> QED BY <2>2, <2>3
<1>7. Len(a) + Len(b) = Len(s) - 1
  BY <1>1, <1>2, <1>3
<1> QED BY <1>4, <1>5, <1>6, <1>7

\* The first n numbers are n numbers.
LEMMA FirstNumbers ==
    ASSUME NEW n \in Nat
    PROVE  IsFiniteSet(1..n) /\ Cardinality(1..n) = n
<1>1. 1 \in Int /\ n \in Int
  OBVIOUS
<1>2. IsFiniteSet(1..n) /\ Cardinality(1..n) = IF 1 > n THEN 0 ELSE n - 1 + 1
  BY <1>1, FS_Interval
<1> QED BY <1>2

\* Every element of a finite set is in every sequence of SetToSeqs.
LEMMA SetToSeqsRange ==
    ASSUME NEW S, IsFiniteSet(S), NEW s \in SetToSeqs(S)
    PROVE  s \in Seq(S) /\ ToSet(s) = S
<1> DEFINE n == Cardinality(S)
<1>1. n \in Nat /\ IsFiniteSet(1..n) /\ Cardinality(1..n) = n
  <2>1. n \in Nat
    BY FS_CardinalityType
  <2> HIDE DEF n
  <2> QED BY <2>1, FirstNumbers
<1>2. s \in [1..n -> S] /\ \A i, j \in 1..n : i # j => s[i] # s[j]
  BY DEF SetToSeqs
<1>3. s \in Seq(S)
  BY <1>1, <1>2, SeqDef
<1>4. ASSUME NEW e \in S, e \notin ToSet(s)
      PROVE  FALSE
  <2>1. s \in [1..n -> S \ {e}]
    BY <1>2, <1>4 DEF ToSet
  <2>2. IsFiniteSet(S \ {e}) /\ Cardinality(S \ {e}) = n - 1
    BY FS_RemoveElement
  <2>3. Cardinality(S \ {e}) < Cardinality(1..n)
    BY <1>1, <2>2
  <2> HIDE DEF n
  <2>4. \E i, j \in 1..n : i # j /\ s[i] = s[j]
    BY <1>1, <2>1, <2>2, <2>3, FS_PigeonHole
  <2> QED BY <1>2, <2>4
<1> QED BY <1>2, <1>3, <1>4 DEF ToSet

\* RemoveAt takes away one element only.
LEMMA RemoveAtKeeps ==
    ASSUME NEW S, NEW s \in Seq(S), NEW n \in 1..Len(s)
    PROVE  ToSet(s) \ {s[n]} \subseteq ToSet(RemoveAt(s, n))
<1> DEFINE t == RemoveAt(s, n)
<1>1. /\ t \in Seq(S) /\ Len(t) = Len(s) - 1
      /\ \A j \in 1..Len(s) - 1 : t[j] = IF j < n THEN s[j] ELSE s[j + 1]
  BY RemoveAtProperties
<1> HIDE DEF t
<1>2. Len(s) \in Nat /\ DOMAIN s = 1..Len(s) /\ DOMAIN t = 1..Len(s) - 1
  BY <1>1, LenProperties
<1>3. ASSUME NEW k \in DOMAIN s, k # n
      PROVE  s[k] \in ToSet(t)
  <2>1. CASE k < n
    <3>1. k \in DOMAIN t /\ t[k] = s[k]
      BY <1>1, <1>2, <2>1
    <3> QED BY <3>1 DEF ToSet
  <2>2. CASE k > n
    <3>1. k - 1 \in DOMAIN t /\ t[k - 1] = s[k]
      BY <1>1, <1>2, <2>2
    <3> QED BY <3>1 DEF ToSet
  <2> QED BY <1>2, <1>3, <2>1, <2>2
<1>4. ToSet(s) \ {s[n]} \subseteq ToSet(t)
  BY <1>3 DEF ToSet
<1> QED BY <1>4 DEF t

\* An injective sequence stays injective without one of its elements.
LEMMA RemoveAtInjective ==
    ASSUME NEW S, NEW s \in Seq(S), IsInjective(s), NEW i \in 1..Len(s)
    PROVE  IsInjective(RemoveAt(s, i))
<1> DEFINE t == RemoveAt(s, i)
           up(k) == IF k < i THEN k ELSE k + 1
<1>1. /\ t \in Seq(S) /\ Len(t) = Len(s) - 1
      /\ \A j \in 1..Len(s) - 1 : t[j] = s[up(j)]
  BY RemoveAtProperties
<1> HIDE DEF t
<1>2. /\ Len(s) \in Nat /\ DOMAIN s = 1..Len(s) /\ DOMAIN t = 1..Len(s) - 1
  BY <1>1, LenProperties
<1>3. ASSUME NEW m \in DOMAIN t, NEW n \in DOMAIN t, t[m] = t[n]
      PROVE  m = n
  <2>1. /\ up(m) \in DOMAIN s /\ up(n) \in DOMAIN s
        /\ t[m] = s[up(m)] /\ t[n] = s[up(n)]
    BY <1>1, <1>2
  <2>2. up(m) = up(n)
    BY <1>3, <2>1 DEF IsInjective
  <2> QED BY <1>2, <2>2
<1>4. IsInjective(t)
  BY <1>3 DEF IsInjective
<1> QED BY <1>4 DEF t

LEMMA ConcatKeeps ==
    ASSUME NEW S, NEW s \in Seq(S), NEW t \in Seq(S)
    PROVE  s \o t \in Seq(S) /\ ToSet(s \o t) = ToSet(s) \cup ToSet(t)
<1>1. /\ Len(s) \in Nat /\ Len(t) \in Nat
      /\ DOMAIN s = 1..Len(s) /\ DOMAIN t = 1..Len(t)
      /\ s \o t \in Seq(S) /\ DOMAIN (s \o t) = 1..Len(s) + Len(t)
      /\ \A i \in 1..Len(s) + Len(t) :
            (s \o t)[i] = IF i <= Len(s) THEN s[i] ELSE t[i - Len(s)]
  BY LenProperties, ConcatProperties
<1>2. ASSUME NEW i \in DOMAIN (s \o t)
      PROVE  (s \o t)[i] \in ToSet(s) \cup ToSet(t)
  <2>1. CASE i <= Len(s)
    <3>1. i \in DOMAIN s /\ (s \o t)[i] = s[i]
      BY <1>1, <2>1
    <3> QED BY <3>1 DEF ToSet
  <2>2. CASE ~(i <= Len(s))
    <3>1. i - Len(s) \in DOMAIN t /\ (s \o t)[i] = t[i - Len(s)]
      BY <1>1, <2>2
    <3> QED BY <3>1 DEF ToSet
  <2> QED BY <2>1, <2>2
<1>3. ASSUME NEW i \in DOMAIN s
      PROVE  s[i] \in ToSet(s \o t)
  <2>1. i \in DOMAIN (s \o t) /\ (s \o t)[i] = s[i]
    BY <1>1
  <2> QED BY <2>1 DEF ToSet
<1>4. ASSUME NEW i \in DOMAIN t
      PROVE  t[i] \in ToSet(s \o t)
  <2>1. i + Len(s) \in DOMAIN (s \o t) /\ (s \o t)[i + Len(s)] = t[i]
    BY <1>1
  <2> QED BY <2>1 DEF ToSet
<1>5. ToSet(s \o t) = ToSet(s) \cup ToSet(t)
  BY <1>2, <1>3, <1>4 DEF ToSet
<1> QED BY <1>1, <1>5

\* Some numbers have a smallest one: < is well-founded on Nat.
LEMMA SmallestOf ==
    ASSUME NEW S \in SUBSET Nat, S # {}
    PROVE  \E n \in S : \A m \in S : n <= m
<1> DEFINE R == OpToRel(<, Nat)
<1>1. IsWellFoundedOn(R, Nat)
  BY NatLessThanWellFounded DEF OpToRel
<1>2. \A x, y \in Nat : y < x => <<y, x>> \in R
  BY DEF OpToRel
<1> HIDE DEF R
<1>3. PICK n \in S : \A m \in S : ~(<<m, n>> \in R)
  BY <1>1, WFMin
<1>4. \A m \in S : ~(m < n)
  BY <1>2, <1>3
<1> QED BY <1>4

\* FlattenSeq is defined by recursion on the positions; the function it speaks
\* of exists, built up from its restrictions to the first positions.
LEMMA FlattenExists ==
    ASSUME NEW S, NEW ss \in Seq(Seq(S))
    PROVE  \E f \in [1..Len(ss) -> Seq(S)] :
              f = [i \in 1..Len(ss) |-> IF i = 1 THEN ss[i] ELSE f[i - 1] \o ss[i]]
<1> DEFINE Good(n, f) ==
              /\ f \in [1..n -> Seq(S)]
              /\ \A i \in 1..n : f[i] = IF i = 1 THEN ss[i] ELSE f[i - 1] \o ss[i]
           Bad == {n \in 0..Len(ss) : ~\E f : Good(n, f)}
<1>1. Len(ss) \in Nat /\ \A i \in 1..Len(ss) : ss[i] \in Seq(S)
  BY LenProperties, ElementOfSeq
<1>2. Bad = {}
  <2> SUFFICES ASSUME Bad # {} PROVE FALSE
    OBVIOUS
  <2>1. PICK n \in Bad : \A m \in Bad : n <= m
    <3>1. Bad \in SUBSET Nat
      BY <1>1
    <3> HIDE DEF Bad
    <3> QED BY <3>1, SmallestOf
  <2>2. n \in 0..Len(ss) /\ ~\E f : Good(n, f)
    OBVIOUS
  <2>3. n # 0
    <3>1. Good(0, <<>>)
      OBVIOUS
    <3> QED BY <2>2, <3>1
  <2>4. n - 1 \in 0..Len(ss) /\ n - 1 \notin Bad
    <3>1. n - 1 \in 0..Len(ss) /\ ~(n <= n - 1)
      BY <1>1, <2>2, <2>3
    <3> HIDE DEF Bad
    <3> QED BY <2>1, <3>1
  <2>5. PICK f : Good(n - 1, f)
    BY <2>4
  <2> DEFINE last == IF n = 1 THEN ss[n] ELSE f[n - 1] \o ss[n]
             g == [i \in 1..n |-> IF i = n THEN last ELSE f[i]]
  <2>6. last \in Seq(S)
    <3>1. ss[n] \in Seq(S)
      BY <1>1, <2>2, <2>3
    <3>2. n # 1 => f[n - 1] \in Seq(S)
      BY <1>1, <2>2, <2>3, <2>5
    <3> QED BY <3>1, <3>2, ConcatProperties
  <2> HIDE DEF last
  <2>7. \A i \in 1..n : i # n => i \in 1..n - 1 /\ (i # 1 => i - 1 \in 1..n - 1)
    BY <1>1, <2>2
  <2>8. g \in [1..n -> Seq(S)]
    BY <2>5, <2>6, <2>7
  <2>9. \A i \in 1..n : g[i] = IF i = 1 THEN ss[i] ELSE g[i - 1] \o ss[i]
    <3> SUFFICES ASSUME NEW i \in 1..n
                 PROVE  g[i] = IF i = 1 THEN ss[i] ELSE g[i - 1] \o ss[i]
      OBVIOUS
    <3>1. CASE i = n
      <4>1. n # 1 => n - 1 \in 1..n /\ n - 1 # n
        BY <1>1, <2>2, <2>3
      <4> QED BY <3>1, <4>1 DEF last
    <3>2. CASE i # n
      <4>1. f[i] = IF i = 1 THEN ss[i] ELSE f[i - 1] \o ss[i]
        BY <2>5, <2>7, <3>2
      <4>2. i # 1 => i - 1 \in 1..n /\ i - 1 # n
        BY <2>7, <1>1, <2>2, <3>2
      <4> QED BY <3>2, <4>1, <4>2
    <3> QED BY <3>1, <3>2
  <2>10. Good(n, g)
    BY <2>8, <2>9
  <2> QED BY <2>2, <2>10
<1>3. Len(ss) \notin Bad
  BY <1>2
<1>4. PICK f : Good(Len(ss), f)
  BY <1>1, <1>3
<1>5. f = [i \in 1..Len(ss) |-> IF i = 1 THEN ss[i] ELSE f[i - 1] \o ss[i]]
  BY <1>4
<1> QED BY <1>4, <1>5

\* FlattenSeq: the elements of the parts, and of a single part that part.
LEMMA FlattenProperties ==
    ASSUME NEW S, NEW ss \in Seq(Seq(S))
    PROVE  /\ FlattenSeq(ss) \in Seq(S)
           /\ \A e : e \in ToSet(FlattenSeq(ss)) <=> \E n \in 1..Len(ss) : e \in ToSet(ss[n])
           /\ Len(ss) = 1 => FlattenSeq(ss) = ss[1]
<1>1. Len(ss) \in Nat /\ \A i \in 1..Len(ss) : ss[i] \in Seq(S)
  BY LenProperties, ElementOfSeq
<1>4. \E g : g = [i \in 1..Len(ss) |-> IF i = 1 THEN ss[i] ELSE g[i - 1] \o ss[i]]
  <2>1. PICK g \in [1..Len(ss) -> Seq(S)] :
            g = [i \in 1..Len(ss) |-> IF i = 1 THEN ss[i] ELSE g[i - 1] \o ss[i]]
    BY FlattenExists
  <2> WITNESS g
  <2> QED BY <2>1
<1>2. CASE Len(ss) = 0
  <2>1. ss = <<>> /\ FlattenSeq(ss) = <<>>
    BY <1>2, EmptySeq DEF FlattenSeq
  <2>2. ToSet(<<>>) = {} /\ <<>> \in Seq(S)
    BY EmptySeq DEF ToSet
  <2>3. \A n \in 1..Len(ss) : FALSE
    BY <1>2
  <2>4. /\ FlattenSeq(ss) \in Seq(S)
        /\ \A e : e \notin ToSet(FlattenSeq(ss))
    BY <2>1, <2>2
  <2>5. Len(ss) # 1
    BY <1>2
  <2> QED BY <2>3, <2>4, <2>5
<1>3. CASE Len(ss) # 0
  <2> DEFINE f == CHOOSE f : f = [i \in 1..Len(ss) |->
                                     IF i = 1 THEN ss[i] ELSE f[i - 1] \o ss[i]]
  <2>1. FlattenSeq(ss) = f[Len(ss)]
    BY <1>3 DEF FlattenSeq
  <2>2. f = [i \in 1..Len(ss) |-> IF i = 1 THEN ss[i] ELSE f[i - 1] \o ss[i]]
    BY <1>4, Zenon
  <2> HIDE DEF f
  <2> DEFINE OK(i) == /\ f[i] \in Seq(S)
                      /\ \A e : e \in ToSet(f[i]) <=> \E n \in 1..i : e \in ToSet(ss[n])
             Bad == {i \in 1..Len(ss) : ~OK(i)}
  <2>3. ASSUME NEW i \in 1..Len(ss), i # 1, OK(i - 1)
        PROVE  OK(i)
    <3>1. f[i] = f[i - 1] \o ss[i] /\ f[i - 1] \in Seq(S) /\ ss[i] \in Seq(S)
      BY <1>1, <2>2, <2>3
    <3>2. f[i] \in Seq(S) /\ ToSet(f[i]) = ToSet(f[i - 1]) \cup ToSet(ss[i])
      BY <3>1, ConcatKeeps
    <3>3. \A n : n \in 1..i <=> n \in 1..i - 1 \/ n = i
      BY <1>1
    <3> QED BY <2>3, <3>2, <3>3
  <2>4. OK(1)
    <3>1. 1 \in 1..Len(ss) /\ \A n : n \in 1..1 <=> n = 1
      BY <1>1, <1>3
    <3>2. f[1] = ss[1]
      BY <2>2, <3>1
    <3> QED BY <1>1, <3>1, <3>2
  <2> HIDE DEF OK
  <2>5. Bad = {}
    <3> SUFFICES ASSUME Bad # {} PROVE FALSE
      OBVIOUS
    <3>1. Bad \in SUBSET Nat
      BY <1>1
    <3>2. PICK i \in Bad : \A m \in Bad : i <= m
      <4> HIDE DEF Bad
      <4> QED BY <3>1, SmallestOf
    <3>3. i \in 1..Len(ss) /\ ~OK(i) /\ i # 1
      BY <2>4
    <3>4. i - 1 \in 1..Len(ss) /\ i - 1 \notin Bad
      BY <1>1, <3>2, <3>3
    <3> QED BY <2>3, <3>3, <3>4
  <2>6. OK(Len(ss))
    <3>1. Len(ss) \in 1..Len(ss)
      BY <1>1, <1>3
    <3>2. Len(ss) \notin Bad
      BY <2>5, Zenon
    <3> QED BY <3>1, <3>2
  <2>7. Len(ss) = 1 => f[Len(ss)] = ss[1]
    BY <2>2
  <2> QED BY <2>1, <2>6, <2>7 DEF OK
<1> QED BY <1>2, <1>3

\* FlattenSeq as the last of the sequences it is built up from.
LEMMA FlattenSteps ==
    ASSUME NEW S, NEW ss \in Seq(Seq(S)), Len(ss) # 0
    PROVE  \E f : /\ FlattenSeq(ss) = f[Len(ss)]
                  /\ \A i \in 1..Len(ss) : f[i] = IF i = 1 THEN ss[i] ELSE f[i - 1] \o ss[i]
<1> DEFINE f == CHOOSE f : f = [i \in 1..Len(ss) |->
                                   IF i = 1 THEN ss[i] ELSE f[i - 1] \o ss[i]]
<1>1. \E g : g = [i \in 1..Len(ss) |-> IF i = 1 THEN ss[i] ELSE g[i - 1] \o ss[i]]
  <2>1. PICK g \in [1..Len(ss) -> Seq(S)] :
            g = [i \in 1..Len(ss) |-> IF i = 1 THEN ss[i] ELSE g[i - 1] \o ss[i]]
    BY FlattenExists
  <2> WITNESS g
  <2> QED BY <2>1
<1>2. FlattenSeq(ss) = f[Len(ss)]
  <2>1. ss # <<>>
    BY EmptySeq
  <2> QED BY <2>1 DEF FlattenSeq
<1>3. f = [i \in 1..Len(ss) |-> IF i = 1 THEN ss[i] ELSE f[i - 1] \o ss[i]]
  BY <1>1, Zenon
<1> HIDE DEF f
<1>4. \A i \in 1..Len(ss) : f[i] = IF i = 1 THEN ss[i] ELSE f[i - 1] \o ss[i]
  BY <1>3
<1> QED BY <1>2, <1>4

\* The elements of the parts, by the part and the position in it.
Spots(ss) == {p \in Nat \X Nat : p[1] \in 1..Len(ss) /\ p[2] \in 1..Len(ss[p[1]])}

\* Each element of each part is at a place of its own in a sequence, and nothing
\* else is.
Layout(at, flat, ss) ==
    /\ at \in [Spots(ss) -> 1..Len(flat)]
    /\ \A p, q \in Spots(ss) : at[p] = at[q] => p = q
    /\ \A n \in 1..Len(flat) : \E p \in Spots(ss) : at[p] = n
    /\ \A p \in Spots(ss) : flat[at[p]] = ss[p[1]][p[2]]

LEMMA FlattenPlaces ==
    ASSUME NEW S, NEW ss \in Seq(Seq(S))
    PROVE  \E at : Layout(at, FlattenSeq(ss), ss)
<1>1. Len(ss) \in Nat /\ \A i \in 1..Len(ss) : ss[i] \in Seq(S) /\ Len(ss[i]) \in Nat
  BY LenProperties, ElementOfSeq
<1> DEFINE Upto(i) == {p \in Spots(ss) : p[1] <= i}
           Lays(at, flat, i) ==
              /\ at \in [Upto(i) -> 1..Len(flat)]
              /\ \A p, q \in Upto(i) : at[p] = at[q] => p = q
              /\ \A n \in 1..Len(flat) : \E p \in Upto(i) : at[p] = n
              /\ \A p \in Upto(i) : flat[at[p]] = ss[p[1]][p[2]]
<1>2. ASSUME NEW i \in 1..Len(ss), NEW flat \in Seq(S), NEW at, Lays(at, flat, i - 1)
      PROVE  /\ flat \o ss[i] \in Seq(S)
             /\ \E new : Lays(new, flat \o ss[i], i)
  <2> DEFINE part == ss[i]
             all == flat \o part
             new == [p \in Upto(i) |-> IF p[1] = i THEN Len(flat) + p[2] ELSE at[p]]
  <2>1. /\ Len(flat) \in Nat /\ Len(part) \in Nat /\ i \in Nat
        /\ all \in Seq(S) /\ Len(all) = Len(flat) + Len(part)
        /\ \A n \in 1..Len(flat) + Len(part) :
              all[n] = IF n <= Len(flat) THEN flat[n] ELSE part[n - Len(flat)]
    BY <1>1, LenProperties, ConcatProperties
  <2>2. /\ \A p \in Upto(i) : p[1] \in Nat /\ p[2] \in Nat /\ (p[1] = i \/ p \in Upto(i - 1))
        /\ \A p \in Upto(i - 1) : p \in Upto(i) /\ p[1] # i
        /\ \A p \in Upto(i) : p[1] = i => p[2] \in 1..Len(part)
        /\ \A n \in 1..Len(part) : <<i, n>> \in Upto(i)
        /\ \A p, q \in Upto(i) : p[1] = q[1] /\ p[2] = q[2] => p = q
    <3>1. ASSUME NEW p \in Upto(i)
          PROVE  /\ p[1] \in Nat /\ p[2] \in Nat /\ p = <<p[1], p[2]>>
                 /\ p[1] = i \/ p \in Upto(i - 1)
                 /\ p[1] = i => p[2] \in 1..Len(part)
      <4>1. p \in Spots(ss) /\ p[1] <= i
        OBVIOUS
      <4>2. p[1] \in Nat /\ p[2] \in Nat /\ p = <<p[1], p[2]>> /\ p[2] \in 1..Len(ss[p[1]])
        BY <4>1 DEF Spots
      <4>3. p[1] = i \/ p[1] <= i - 1
        BY <1>1, <4>1, <4>2
      <4> QED BY <4>1, <4>2, <4>3
    <3>2. ASSUME NEW p \in Upto(i - 1)
          PROVE  p \in Upto(i) /\ p[1] # i
      <4>1. p \in Spots(ss) /\ p[1] <= i - 1 /\ p[1] \in Nat
        BY DEF Spots
      <4>2. p[1] <= i /\ p[1] # i
        BY <1>1, <4>1
      <4> QED BY <4>1, <4>2
    <3>3. ASSUME NEW n \in 1..Len(part)
          PROVE  <<i, n>> \in Upto(i)
      BY <1>1 DEF Spots
    <3> QED BY <3>1, <3>2, <3>3
  <2> HIDE DEF Upto, all, part
  <2>3. /\ \A p \in Upto(i - 1) : at[p] \in 1..Len(flat)
        /\ \A p \in Upto(i) : new[p] = IF p[1] = i THEN Len(flat) + p[2] ELSE at[p]
        /\ DOMAIN new = Upto(i)
    BY <1>2
  <2>4. new \in [Upto(i) -> 1..Len(all)]
    BY <2>1, <2>2, <2>3
  <2> HIDE DEF new
  <2>5. ASSUME NEW p \in Upto(i), NEW q \in Upto(i), new[p] = new[q]
        PROVE  p = q
    <3>1. CASE p[1] = i /\ q[1] = i
      <4>1. Len(flat) + p[2] = Len(flat) + q[2]
        BY <2>3, <2>5, <3>1
      <4>2. p[2] = q[2]
        BY <2>1, <2>2, <4>1
      <4> QED BY <2>2, <3>1, <4>2
    <3>2. CASE p[1] # i /\ q[1] # i
      <4>1. p \in Upto(i - 1) /\ q \in Upto(i - 1) /\ at[p] = at[q]
        BY <2>2, <2>3, <2>5, <3>2
      <4> QED BY <1>2, <4>1
    <3>3. CASE p[1] = i /\ q[1] # i
      <4>1. /\ new[p] = Len(flat) + p[2] /\ p[2] \in 1..Len(part)
            /\ new[q] \in 1..Len(flat)
        BY <2>2, <2>3, <3>3
      <4> QED BY <2>1, <2>5, <4>1
    <3>4. CASE p[1] # i /\ q[1] = i
      <4>1. /\ new[q] = Len(flat) + q[2] /\ q[2] \in 1..Len(part)
            /\ new[p] \in 1..Len(flat)
        BY <2>2, <2>3, <3>4
      <4> QED BY <2>1, <2>5, <4>1
    <3> QED BY <3>1, <3>2, <3>3, <3>4
  <2>6. ASSUME NEW n \in 1..Len(all)
        PROVE  \E p \in Upto(i) : new[p] = n
    <3>1. CASE n <= Len(flat)
      <4>1. PICK p \in Upto(i - 1) : at[p] = n
        BY <1>2, <2>1, <3>1
      <4> QED BY <2>2, <2>3, <4>1
    <3>2. CASE ~(n <= Len(flat))
      <4>1. n - Len(flat) \in 1..Len(part)
        BY <2>1, <3>2
      <4>2. <<i, n - Len(flat)>> \in Upto(i)
        BY <2>2, <4>1
      <4>3. new[<<i, n - Len(flat)>>] = Len(flat) + (n - Len(flat))
        BY <2>3, <4>2
      <4> QED BY <2>1, <4>1, <4>2, <4>3
    <3> QED BY <3>1, <3>2
  <2>7. ASSUME NEW p \in Upto(i)
        PROVE  all[new[p]] = ss[p[1]][p[2]]
    <3>1. CASE p[1] = i
      <4>1. p[2] \in 1..Len(part) /\ new[p] = Len(flat) + p[2]
        BY <2>2, <2>3, <3>1
      <4>2. all[new[p]] = part[p[2]]
        BY <2>1, <4>1
      <4> QED BY <3>1, <4>2 DEF part
    <3>2. CASE p[1] # i
      <4>1. p \in Upto(i - 1) /\ new[p] = at[p] /\ at[p] \in 1..Len(flat)
        BY <2>2, <2>3, <3>2
      <4>2. all[new[p]] = flat[at[p]]
        BY <2>1, <4>1
      <4> QED BY <1>2, <4>1, <4>2
    <3> QED BY <3>1, <3>2
  <2>8. Lays(new, all, i)
    BY <2>4, <2>5, <2>6, <2>7
  <2> HIDE DEF Lays
  <2> QED BY <2>1, <2>8 DEF all, part
<1>3. Lays(<<>>, <<>>, 0) /\ <<>> \in Seq(S)
  <2>1. Upto(0) = {} /\ Len(<<>>) = 0 /\ <<>> \in Seq(S) /\ DOMAIN <<>> = {}
    BY <1>1, EmptySeq DEF Spots
  <2>2. <<>> \in [{} -> 1..0]
    OBVIOUS
  <2> HIDE DEF Upto
  <2> QED BY <2>1, <2>2
<1> HIDE DEF Lays, Upto
<1>4. \E at : Lays(at, FlattenSeq(ss), Len(ss))
  <2>1. CASE Len(ss) = 0
    <3>1. FlattenSeq(ss) = <<>>
      BY <2>1, EmptySeq DEF FlattenSeq
    <3> QED BY <1>3, <2>1, <3>1
  <2>2. CASE Len(ss) # 0
    <3>1. PICK f : /\ FlattenSeq(ss) = f[Len(ss)]
                   /\ \A i \in 1..Len(ss) : f[i] = IF i = 1 THEN ss[i] ELSE f[i - 1] \o ss[i]
      BY <2>2, FlattenSteps
    <3> DEFINE OK(i) == f[i] \in Seq(S) /\ \E at : Lays(at, f[i], i)
               Bad == {i \in 1..Len(ss) : ~OK(i)}
    <3>2. OK(1)
      <4>1. 1 \in 1..Len(ss) /\ f[1] = ss[1]
        BY <1>1, <2>2, <3>1
      <4>2. <<>> \o ss[1] = ss[1]
        BY <1>1, <4>1, ConcatEmptySeq
      <4>3. Lays(<<>>, <<>>, 1 - 1)
        BY <1>3
      <4>4. \E new : Lays(new, <<>> \o ss[1], 1)
        BY <1>2, <1>3, <4>1, <4>3
      <4> QED BY <1>1, <4>1, <4>2, <4>4
    <3>3. ASSUME NEW i \in 1..Len(ss), i # 1, OK(i - 1)
          PROVE  OK(i)
      <4>1. f[i] = f[i - 1] \o ss[i]
        BY <3>1, <3>3
      <4> QED BY <1>2, <3>3, <4>1
    <3> HIDE DEF OK
    <3>4. Bad = {}
      <4> SUFFICES ASSUME Bad # {} PROVE FALSE
        OBVIOUS
      <4>1. Bad \in SUBSET Nat
        BY <1>1
      <4>2. PICK i \in Bad : \A m \in Bad : i <= m
        <5> HIDE DEF Bad
        <5> QED BY <4>1, SmallestOf
      <4>3. i \in 1..Len(ss) /\ ~OK(i) /\ i # 1
        BY <3>2
      <4>4. i - 1 \in 1..Len(ss) /\ ~(i <= i - 1)
        BY <1>1, <4>3
      <4>5. i - 1 \notin Bad
        <5> HIDE DEF Bad
        <5> QED BY <4>2, <4>4
      <4> QED BY <3>3, <4>3, <4>4, <4>5
    <3>5. OK(Len(ss))
      BY <1>1, <2>2, <3>4
    <3> QED BY <3>1, <3>5 DEF OK
  <2> QED BY <2>1, <2>2
<1>5. Upto(Len(ss)) = Spots(ss)
  BY <1>1 DEF Upto, Spots
<1> QED BY <1>4, <1>5 DEF Lays, Layout

LEMMA SpotAt ==
    ASSUME NEW ss, Len(ss) \in Nat, NEW k \in 1..Len(ss), Len(ss[k]) \in Nat,
           NEW m \in 1..Len(ss[k])
    PROVE  <<k, m>> \in Spots(ss)
<1>1. k \in Nat /\ m \in Nat
  OBVIOUS
<1> QED BY <1>1 DEF Spots

\* Sets with a one-to-one correspondence have the same size.
LEMMA SameSize ==
    ASSUME NEW S, NEW T, NEW f \in [S -> T], IsFiniteSet(S),
           \A x, y \in S : f[x] = f[y] => x = y,
           \A t \in T : \E x \in S : f[x] = t
    PROVE  IsFiniteSet(T) /\ Cardinality(T) = Cardinality(S)
<1>1. f \in Bijection(S, T)
  BY DEF Bijection, Injection, Surjection, IsInjective
<1>2. ExistsBijection(S, T)
  BY <1>1 DEF ExistsBijection
<1> QED BY <1>2, FS_Bijection

-----------------------------------------------------------------------------
(* The runs of one request                                                 *)

\* What UnfinishedAreWatched rests on: started runs are known to Kubeflow and
\* different from each other, and the list never grows.
Watching ==
    /\ \A k \in ToSet(started) : status[k] # "unknown"
    /\ IsInjective(started)
    /\ Len(started) <= MaxRuns
    /\ Len(runs) <= MaxRuns
    /\ pc \in {"poll", "retry"} => counter < MaxRequests
    /\ pc = "retry" => index <= Len(runs)
    /\ UnfinishedAreWatched

KfpInv == TypeOK /\ Watching

LEMMA KfpInit == Init => KfpInv
<1> SUFFICES ASSUME Init PROVE KfpInv
  OBVIOUS
<1>1. <<>> \in Seq(Runs) /\ Len(<<>>) = 0
  BY EmptySeq
<1>2. ToSet(<<>>) = {} /\ IsInjective(<<>>)
  BY DEF ToSet, IsInjective
<1>3. TypeOK
  BY <1>1, MaxRunsAssumption, MaxRequestsAssumption
  DEF Init, TypeOK, Statuses, Steps
<1>4. Watching
  BY <1>1, <1>2, MaxRunsAssumption, MaxRequestsAssumption
  DEF Init, Watching, UnfinishedAreWatched
<1> QED BY <1>3, <1>4 DEF KfpInv

\* Kubeflow forgets no run, and what is over stays over.
LEMMA AdvanceKeepsReady ==
    ASSUME TypeOK, NEW k \in Runs, Advance(k), NEW j \in Runs
    PROVE  /\ status' \in [Runs -> Statuses]
           /\ Ready(j) => Ready(j)' /\ (status'[j] = "Completed" => status[j] = "Completed")
           /\ status[j] # "unknown" => status'[j] # "unknown"
BY DEF TypeOK, Advance, Ready, ReadyStatus, Statuses

\* Taking the run at the index off the list.
LEMMA TakeOffKeepsWatching ==
    ASSUME KfpInv, pc \in {"poll", "retry"}, index <= Len(runs),
           TakeOff(runs[index]), UNCHANGED <<status, started, counter>>
    PROVE  KfpInv'
<1>1. /\ runs \in Seq(Runs) /\ index \in 1..Len(runs) /\ Len(runs) \in Nat
      /\ Len(runs) <= MaxRuns /\ IsInjective(runs) /\ runs[index] \in Runs
  BY LenProperties, ElementOfSeq DEF KfpInv, TypeOK, Watching, UnfinishedAreWatched
<1> DEFINE rest == RemoveAt(runs, index)
<1>2. /\ rest \in Seq(Runs) /\ Len(rest) = Len(runs) - 1 /\ IsInjective(rest)
      /\ ToSet(runs) \ {runs[index]} \subseteq ToSet(rest)
  BY <1>1, RemoveAtProperties, RemoveAtInjective, RemoveAtKeeps
<1>3. /\ runs' = IF Ready(runs[index]) THEN rest ELSE runs
      /\ index' = index + 1 /\ pc' = "poll"
      /\ status' = status /\ started' = started /\ counter' = counter
  BY DEF TakeOff
<1> HIDE DEF rest
<1>4. runs' \in Seq(Runs) /\ Len(runs') <= MaxRuns /\ IsInjective(runs')
  BY <1>1, <1>2, <1>3, MaxRunsAssumption
<1>5. \A k \in ToSet(started) : Ready(k)' \/ k \in ToSet(runs')
  BY <1>2, <1>3 DEF KfpInv, Watching, UnfinishedAreWatched, Ready
<1>6. TypeOK'
  BY <1>1, <1>3, <1>4, MaxRunsAssumption DEF KfpInv, TypeOK, Steps
<1>7. Watching'
  BY <1>3, <1>4, <1>5 DEF KfpInv, Watching, UnfinishedAreWatched
<1> QED BY <1>6, <1>7 DEF KfpInv

LEMMA KfpStep == KfpInv /\ [Next]_vars => KfpInv'
<1> SUFFICES ASSUME KfpInv, [Next]_vars
             PROVE  KfpInv'
  OBVIOUS
<1> USE MaxRunsAssumption, MaxRequestsAssumption
<1>1. ASSUME NEW k \in Runs, StartRun(k)
      PROVE  KfpInv'
  <2>1. /\ started \in Seq(Runs) /\ Len(started) \in Nat /\ Len(started) < MaxRuns
        /\ started' = Append(started, k) /\ DOMAIN started = 1..Len(started)
    BY <1>1, LenProperties DEF KfpInv, TypeOK, StartRun
  <2>2. /\ started' \in Seq(Runs) /\ Len(started') = Len(started) + 1
        /\ DOMAIN started' = 1..Len(started) + 1
        /\ \A n \in 1..Len(started) : started'[n] = started[n]
        /\ started'[Len(started) + 1] = k
    BY <2>1
  <2>3. k \notin ToSet(started)
    BY <1>1 DEF KfpInv, Watching, StartRun
  <2>4. IsInjective(started')
    BY <2>1, <2>2, <2>3 DEF IsInjective, KfpInv, Watching, ToSet
  <2>5. ToSet(started') = ToSet(started) \cup {k}
    BY <2>1, <2>2 DEF ToSet
  <2>6. \A j \in ToSet(started') : status'[j] # "unknown"
    <3>1. status \in [Runs -> Statuses] /\ status' = [status EXCEPT ![k] = "fresh"]
      BY <1>1 DEF KfpInv, TypeOK, StartRun
    <3>2. ToSet(started) \subseteq Runs
      BY <2>1, ElementOfSeq DEF ToSet
    <3> QED BY <2>5, <3>1, <3>2 DEF KfpInv, Watching
  <2>7. TypeOK'
    BY <1>1, <2>2 DEF KfpInv, TypeOK, StartRun, Statuses
  <2>8. Watching'
    BY <1>1, <2>1, <2>2, <2>4, <2>6 DEF KfpInv, Watching, UnfinishedAreWatched, StartRun
  <2> QED BY <2>7, <2>8 DEF KfpInv
<1>2. CASE AllStarted
  <2>1. TypeOK'
    BY <1>2 DEF KfpInv, TypeOK, AllStarted, Steps
  <2>2. Watching'
    BY <1>2 DEF KfpInv, Watching, UnfinishedAreWatched, AllStarted
  <2> QED BY <2>1, <2>2 DEF KfpInv
<1>3. CASE BeginRound
  <2>1. TypeOK'
    BY <1>3 DEF KfpInv, TypeOK, BeginRound, Steps
  <2>2. Watching'
    BY <1>3 DEF KfpInv, Watching, UnfinishedAreWatched, BeginRound, Ready
  <2> QED BY <2>1, <2>2 DEF KfpInv
<1>4. CASE EndRound
  <2>1. TypeOK'
    BY <1>4 DEF KfpInv, TypeOK, Watching, EndRound, Steps
  <2>2. Watching'
    BY <1>4 DEF KfpInv, Watching, UnfinishedAreWatched, EndRound, Ready
  <2> QED BY <2>1, <2>2 DEF KfpInv
<1>5. CASE AllComplete
  <2>1. TypeOK'
    BY <1>5 DEF KfpInv, TypeOK, AllComplete, Steps
  <2>2. ToSet(<<>>) = {}
    BY DEF ToSet
  <2>3. Watching'
    BY <1>5, <2>2 DEF KfpInv, Watching, UnfinishedAreWatched, AllComplete, Ready
  <2> QED BY <2>1, <2>3 DEF KfpInv
<1>6. CASE TimedOut \/ StartFails \/ PollFails \/ RetryFails
  <2>1. TypeOK'
    BY <1>6 DEF KfpInv, TypeOK, TimedOut, StartFails, PollFails, RetryFails, Steps
  <2>2. Watching'
    BY <1>6 DEF KfpInv, Watching, UnfinishedAreWatched, TimedOut, StartFails,
                PollFails, RetryFails, Ready
  <2> QED BY <2>1, <2>2 DEF KfpInv
<1>7. CASE Poll
  BY <1>7, TakeOffKeepsWatching DEF Poll
<1>8. CASE Retry
  <2>1. index <= Len(runs)
    BY <1>8 DEF Retry, KfpInv, Watching
  <2> QED BY <1>8, <2>1, TakeOffKeepsWatching DEF Retry
<1>9. ASSUME NEW k \in Runs, Advance(k), UNCHANGED clientVars
      PROVE  KfpInv'
  <2>1. TypeOK /\ ToSet(started) \subseteq Runs
    BY ElementOfSeq, LenProperties DEF KfpInv, TypeOK, ToSet
  <2>2. /\ status' \in [Runs -> Statuses]
        /\ \A j \in Runs : /\ Ready(j) => Ready(j)'
                           /\ status[j] # "unknown" => status'[j] # "unknown"
    BY <1>9, <2>1, AdvanceKeepsReady
  <2>3. TypeOK'
    BY <1>9, <2>1, <2>2 DEF TypeOK, clientVars
  <2>4. Watching'
    BY <1>9, <2>1, <2>2 DEF KfpInv, Watching, UnfinishedAreWatched, clientVars
  <2> QED BY <2>3, <2>4 DEF KfpInv
<1>10. CASE UNCHANGED vars
  BY <1>10 DEF KfpInv, TypeOK, Watching, UnfinishedAreWatched, Ready, vars, clientVars
<1> QED BY <1>1, <1>2, <1>3, <1>4, <1>5, <1>6, <1>7, <1>8, <1>9, <1>10
        DEF Next, Client, Kubeflow

\* Type correctness of the variables of a pipeline call, in particular that
\* the enumeration of a shrinking list never leaves its bounds.
THEOREM PipelineTypesHold == Spec => []TypeOK
<1>1. KfpInv => TypeOK
  BY DEF KfpInv
<1> QED BY KfpInit, KfpStep, <1>1, PTL DEF Spec

\* wait_until_complete, which pops from the list it enumerates, watches every
\* run that is not over, and ends normally only when all of them are.
THEOREM UnfinishedStayWatched == Spec => []UnfinishedAreWatched
<1>1. KfpInv => UnfinishedAreWatched
  BY DEF KfpInv, Watching
<1> QED BY KfpInit, KfpStep, <1>1, PTL DEF Spec

-----------------------------------------------------------------------------
(* The request and its pipeline                                            *)

\* What IngestedIsFound rests on: a request starts runs only for items that
\* match its extent, leaves the pipeline only when it has no run or all of them
\* are over, and a run that has completed has registered its item.
Ingesting ==
    /\ registered \subseteq Items
    /\ missing \subseteq {i \in Items : Selected(i)}
    /\ ToSet(started) \subseteq missing
    /\ stage = "trigger" => started = <<>>
    /\ stage \in {"search", "group", "load", "done"} => pc = "completed" \/ started = <<>>
    /\ \A i \in Items : status[i] = "Completed" => i \in registered
    /\ IngestedIsFound

LoadInv == KfpInv /\ Ingesting

LEMMA LoadInvInit == LoadInit => LoadInv
<1> SUFFICES ASSUME LoadInit PROVE LoadInv
  OBVIOUS
<1>1. KfpInv
  BY KfpInit DEF LoadInit
<1>2. ToSet(<<>>) = {}
  BY DEF ToSet
<1>3. Ingesting
  BY <1>2 DEF LoadInit, Init, Ingesting, IngestedIsFound, Items
<1> QED BY <1>1, <1>3 DEF LoadInv

\* A step of the request or of Kubeflow is a step of the pipeline, or invisible
\* to it.
LEMMA LoadStepIsPipelineStep ==
    LoadInv /\ [LoadNext]_allVars => [Next]_vars
<1> SUFFICES ASSUME LoadInv, LoadNext PROVE [Next]_vars
  BY DEF allVars
<1>1. CASE Ingest
  <2>1. missing \subseteq Runs
    BY DEF LoadInv, Ingesting, Items
  <2> QED BY <1>1, <2>1 DEF Ingest, Pipeline, Next, Client
<1>2. ASSUME NEW i \in Items, RunAdvances(i)
      PROVE  Next
  BY <1>2 DEF RunAdvances, Next, Kubeflow, Items
<1>3. CASE \/ NoHandler \/ NothingExternal \/ Compare \/ Group \/ Load
           \/ SearchOpenEnd \/ SearchReversed \/ Search
  BY <1>3 DEF NoHandler, NothingExternal, Compare, Group, Load, SearchOpenEnd,
              SearchReversed, Search, Fail
<1> QED BY <1>1, <1>2, <1>3 DEF LoadNext, Request

LEMMA LoadInvStep == LoadInv /\ [LoadNext]_allVars => LoadInv'
<1> SUFFICES ASSUME LoadInv, [LoadNext]_allVars PROVE LoadInv'
  OBVIOUS
<1>1. KfpInv'
  BY KfpStep, LoadStepIsPipelineStep DEF LoadInv
<1> SUFFICES Ingesting'
  BY <1>1 DEF LoadInv
<1> USE DEF Items
<1>2. /\ KfpInv /\ Ingesting /\ TypeOK /\ ToSet(started) \subseteq Items
  BY DEF LoadInv, KfpInv, Ingesting
<1>3. CASE NoHandler \/ NothingExternal
  BY <1>2, <1>3 DEF Ingesting, IngestedIsFound, NoHandler, NothingExternal, vars,
                    clientVars, Selected, Data
<1>4. CASE Compare
  BY <1>2, <1>4 DEF Ingesting, IngestedIsFound, Compare, vars, clientVars, Selected,
                    Data, ToSet
<1>5. CASE Ingest
  <2>1. /\ registered' = registered /\ missing' = missing /\ query' = query
        /\ stage' \notin {"trigger", "group", "load", "done"}
        /\ stage' = "search" => pc' = "completed"
    BY <1>5 DEF Ingest
  <2>2. /\ ToSet(started') \subseteq missing
        /\ \A i \in Items : status'[i] = "Completed" => status[i] = "Completed"
    <3>1. ASSUME NEW i \in missing, StartRun(i)
          PROVE  <2>2
      <4>1. /\ started \in Seq(Runs) /\ started' = Append(started, i)
            /\ status \in [Runs -> Statuses] /\ status' = [status EXCEPT ![i] = "fresh"]
        BY <1>2, <3>1 DEF StartRun, TypeOK
      <4>2. ToSet(started') = ToSet(started) \cup {i}
        BY <4>1 DEF ToSet
      <4> QED BY <1>2, <4>1, <4>2 DEF Ingesting
    <3>2. CASE UNCHANGED <<status, started>>
      BY <1>2, <3>2 DEF Ingesting
    <3> QED BY <1>5, <3>1, <3>2 DEF Ingest, Pipeline, AllStarted, StartFails, BeginRound,
               TimedOut, AllComplete, Poll, PollFails, Retry, RetryFails, EndRound
  <2> QED BY <1>2, <2>1, <2>2 DEF Ingesting, IngestedIsFound, Selected, Data
<1>6. ASSUME NEW reason, Fail(reason)
      PROVE  Ingesting'
  BY <1>2, <1>6 DEF Ingesting, IngestedIsFound, Fail, vars, clientVars, Selected, Data
<1>7. CASE Search
  <2> DEFINE matched == {i \in registered : Selected(i)}
  <2>1. CASE matched = {} /\ Fail("no item")
    BY <1>6, <2>1
  <2>2. CASE /\ matched # {}
             /\ found' \in SetToSeqs(matched)
             /\ stage' = "group"
             /\ UNCHANGED <<vars, query, registered, missing, entries, cube, failure>>
    <3>1. IsFiniteSet(matched)
      BY <1>2, RunsAssumption, FS_Subset DEF Ingesting
    <3>2. ToSet(found') = matched
      BY <2>2, <3>1, SetToSeqsRange
    <3>3. \A i \in ToSet(started) :
            Ready(i) /\ (status[i] = "Completed" => i \in matched)
      <4>1. stage = "search"
        BY <1>7 DEF Search
      <4>2. CASE pc = "completed"
        BY <1>2, <4>2 DEF Ingesting, KfpInv, Watching, UnfinishedAreWatched
      <4>3. CASE started = <<>>
        BY <4>3 DEF ToSet
      <4> QED BY <1>2, <4>1, <4>2, <4>3 DEF Ingesting
    <3> HIDE DEF matched
    <3> QED BY <1>2, <1>7, <2>2, <3>2, <3>3 DEF Ingesting, IngestedIsFound, Search,
               vars, clientVars, Selected, Data, Ready
  <2> QED BY <1>7, <2>1, <2>2 DEF Search
<1>8. CASE Group \/ Load
  BY <1>2, <1>8 DEF Group, Load, Ingesting, IngestedIsFound, vars, clientVars,
                    Selected, Data, Ready
<1>9. ASSUME NEW i \in Items, RunAdvances(i)
      PROVE  Ingesting'
  <2>1. \A j \in Items : /\ Ready(j) => Ready(j)' /\ (status'[j] = "Completed" => status[j] = "Completed")
    BY <1>2, <1>9, AdvanceKeepsReady DEF RunAdvances
  <2>2. \A j \in Items : status'[j] = "Completed" => j \in registered'
    <3>1. \A j \in Items \ {i} : status'[j] = status[j]
      BY <1>2, <1>9 DEF RunAdvances, Advance, TypeOK
    <3> QED BY <1>2, <1>9, <3>1 DEF RunAdvances, Ingesting
  <2> QED BY <1>2, <1>9, <2>1, <2>2 DEF RunAdvances, Ingesting, IngestedIsFound,
             clientVars, Selected, Data
<1>10. CASE UNCHANGED allVars
  BY <1>2, <1>10 DEF allVars, loadVars, vars, clientVars, Ingesting, IngestedIsFound,
                     Selected, Data, Ready
<1> QED BY <1>3, <1>4, <1>5, <1>6, <1>7, <1>8, <1>9, <1>10
        DEF LoadNext, Request, SearchOpenEnd, SearchReversed

\* The pipeline of a request behaves like a pipeline by itself: what is proved
\* of KfpRuns holds while a collection is loaded.
THEOREM RequestRunsPipeline == LoadSpec => Spec
<1>1. LoadInit => Init
  BY DEF LoadInit
<1> QED BY <1>1, LoadInvInit, LoadInvStep, LoadStepIsPipelineStep, PTL
        DEF LoadSpec, Spec

\* A request searches the catalogue only when none of its runs goes on, and then
\* finds everything they have ingested, in whatever order they ended.
THEOREM IngestedItemsAreFound == LoadSpec => []IngestedIsFound
<1>1. LoadInv => IngestedIsFound
  BY DEF LoadInv, Ingesting
<1> QED BY LoadInvInit, LoadInvStep, <1>1, PTL DEF LoadSpec

-----------------------------------------------------------------------------
(* The binary searches of the temporal filter                              *)

\* What the function of Bisect is at every span.
Searches(f, marked, len) ==
    f = [span \in (0..len) \X (0..len) |->
           IF span[1] >= span[2] THEN span[1]
           ELSE IF marked[(span[1] + span[2]) \div 2 + 1]
                THEN f[<<(span[1] + span[2]) \div 2 + 1, span[2]>>]
                ELSE f[<<span[1], (span[1] + span[2]) \div 2>>]]

\* Such a function exists, by induction on the width of a span.
LEMMA SearchExists ==
    ASSUME NEW marked, NEW len \in Nat
    PROVE  \E f : Searches(f, marked, len)
<1> DEFINE Spans == (0..len) \X (0..len)
           mid(p) == (p[1] + p[2]) \div 2
           Step(f, p) == IF p[1] >= p[2] THEN p[1]
                         ELSE IF marked[mid(p) + 1] THEN f[<<mid(p) + 1, p[2]>>]
                         ELSE f[<<p[1], mid(p)>>]
           Good(w, f) == /\ f \in [Spans -> 0..len]
                         /\ \A p \in Spans : p[2] - p[1] <= w => f[p] = Step(f, p)
           Bad == {w \in 0..len : ~\E f : Good(w, f)}
<1>1. ASSUME NEW p \in Spans
      PROVE  /\ p[1] \in 0..len /\ p[2] \in 0..len
             /\ ~(p[1] >= p[2]) =>
                  /\ <<mid(p) + 1, p[2]>> \in Spans /\ <<p[1], mid(p)>> \in Spans
                  /\ p[2] - (mid(p) + 1) < p[2] - p[1]
                  /\ mid(p) - p[1] < p[2] - p[1]
  <2>1. p[1] \in 0..len /\ p[2] \in 0..len
    OBVIOUS
  <2>2. ~(p[1] >= p[2]) => mid(p) \in Int /\ p[1] <= mid(p) /\ mid(p) < p[2]
    BY <2>1
  <2> QED BY <2>1, <2>2
<1> HIDE DEF mid
<1>2. \A f \in [Spans -> 0..len], p \in Spans : Step(f, p) \in 0..len
  BY <1>1
<1>3. Bad = {}
  <2> SUFFICES ASSUME Bad # {} PROVE FALSE
    OBVIOUS
  <2>1. PICK w \in Bad : \A v \in Bad : w <= v
    <3>1. Bad \in SUBSET Nat
      OBVIOUS
    <3> HIDE DEF Bad
    <3> QED BY <3>1, SmallestOf
  <2>2. w \in 0..len /\ ~\E f : Good(w, f)
    OBVIOUS
  <2>3. w # 0
    <3> DEFINE g == [p \in Spans |-> p[1]]
    <3>1. g \in [Spans -> 0..len]
      BY <1>1
    <3>2. \A p \in Spans : p[2] - p[1] <= 0 => g[p] = Step(g, p)
      BY <1>1
    <3>3. Good(0, g)
      BY <3>1, <3>2
    <3> QED BY <2>2, <3>3
  <2>4. w - 1 \in 0..len /\ w - 1 \notin Bad
    <3>1. w - 1 \in 0..len /\ ~(w <= w - 1)
      BY <2>2, <2>3
    <3> HIDE DEF Bad
    <3> QED BY <2>1, <3>1
  <2>5. PICK f : Good(w - 1, f)
    BY <2>4
  <2> DEFINE g == [p \in Spans |-> Step(f, p)]
  <2>6. g \in [Spans -> 0..len]
    BY <1>2, <2>5
  <2>7. \A p \in Spans : p[2] - p[1] <= w - 1 => g[p] = f[p]
    BY <2>5
  <2>8. ASSUME NEW p \in Spans, p[2] - p[1] <= w
        PROVE  g[p] = Step(g, p)
    <3>1. g[p] = Step(f, p)
      OBVIOUS
    <3>2. ~(p[1] >= p[2]) =>
             /\ g[<<mid(p) + 1, p[2]>>] = f[<<mid(p) + 1, p[2]>>]
             /\ g[<<p[1], mid(p)>>] = f[<<p[1], mid(p)>>]
      <4> SUFFICES ASSUME ~(p[1] >= p[2])
                   PROVE  /\ g[<<mid(p) + 1, p[2]>>] = f[<<mid(p) + 1, p[2]>>]
                          /\ g[<<p[1], mid(p)>>] = f[<<p[1], mid(p)>>]
        OBVIOUS
      <4> DEFINE right == <<mid(p) + 1, p[2]>>
                 left == <<p[1], mid(p)>>
      <4>1. /\ right \in Spans /\ left \in Spans
            /\ p[2] - (mid(p) + 1) < p[2] - p[1] /\ mid(p) - p[1] < p[2] - p[1]
        BY <1>1
      <4>2. /\ right[1] = mid(p) + 1 /\ right[2] = p[2]
            /\ left[1] = p[1] /\ left[2] = mid(p)
        OBVIOUS
      <4>3. right[2] - right[1] <= w - 1 /\ left[2] - left[1] <= w - 1
        <5>1. /\ p[1] \in 0..len /\ p[2] \in 0..len /\ mid(p) \in Int
          <6>1. left[2] \in 0..len
            BY <4>1
          <6> QED BY <1>1, <4>2, <6>1
        <5> QED BY <2>2, <2>8, <4>1, <4>2, <5>1
      <4> HIDE DEF right, left, g
      <4>4. g[right] = f[right] /\ g[left] = f[left]
        BY <2>7, <4>1, <4>3
      <4> QED BY <4>4 DEF right, left
    <3> HIDE DEF g
    <3> QED BY <3>1, <3>2
  <2>9. Good(w, g)
    BY <2>6, <2>8
  <2> QED BY <2>2, <2>9
<1>4. PICK f : Good(len, f)
  <2>1. len \notin Bad
    <3> HIDE DEF Bad
    <3> QED BY <1>3
  <2>2. len \in 0..len
    OBVIOUS
  <2> QED BY <2>1, <2>2
<1>5. \A p \in Spans : f[p] = Step(f, p)
  BY <1>1, <1>4
<1>6. f = [p \in Spans |-> Step(f, p)]
  BY <1>4, <1>5
<1>7. Searches(f, marked, len)
  BY <1>6 DEF Searches, mid
<1> QED BY <1>7

\* Bisect ends at a position, and at the last marked one if the marked ones
\* come first.
LEMMA BisectProperties ==
    ASSUME NEW marked, Len(marked) \in Nat
    PROVE  /\ Bisect(marked) \in 0..Len(marked)
           /\ (\A i, j \in 1..Len(marked) : i < j /\ marked[j] => marked[i]) =>
                /\ \A i \in 1..Len(marked) : i <= Bisect(marked) => marked[i]
                /\ \A i \in 1..Len(marked) : i > Bisect(marked) => ~marked[i]
<1> DEFINE len == Len(marked)
           Spans == (0..len) \X (0..len)
           mid(p) == (p[1] + p[2]) \div 2
           search == CHOOSE f : Searches(f, marked, Len(marked))
<1>1. Searches(search, marked, Len(marked))
  BY SearchExists
<1>2. Bisect(marked) = search[<<0, Len(marked)>>]
  BY Zenon DEF Bisect, Searches
<1> HIDE DEF search
<1>3. \A p \in Spans : search[p] = IF p[1] >= p[2] THEN p[1]
                                   ELSE IF marked[mid(p) + 1] THEN search[<<mid(p) + 1, p[2]>>]
                                   ELSE search[<<p[1], mid(p)>>]
  BY <1>1 DEF Searches
<1> DEFINE FirstMarked == \A i, j \in 1..len : i < j /\ marked[j] => marked[i]
           Up(n) == \A i \in 1..len : i <= n => marked[i]
           Down(n) == \A i \in 1..len : i > n => ~marked[i]
           OK(p) == /\ search[p] \in p[1]..p[2]
                    /\ FirstMarked /\ Up(p[1]) /\ Down(p[2]) =>
                          Up(search[p]) /\ Down(search[p])
           Bad == {w \in 0..len : ~\A p \in Spans : p[1] <= p[2] /\ p[2] - p[1] <= w => OK(p)}
<1>4. ASSUME NEW w \in 0..len, NEW p \in Spans, p[1] <= p[2], p[2] - p[1] <= w,
             \A q \in Spans : q[1] <= q[2] /\ q[2] - q[1] <= w - 1 => OK(q)
      PROVE  OK(p)
  <2>1. p[1] \in 0..len /\ p[2] \in 0..len
    OBVIOUS
  <2>2. CASE p[1] >= p[2]
    <3>1. search[p] = p[1]
      BY <1>3, <2>2
    <3>2. p[1] = p[2]
      <4> HIDE DEF OK
      <4> QED BY <1>4, <2>1, <2>2
    <3> HIDE DEF FirstMarked, Up, Down
    <3> QED BY <2>1, <3>1, <3>2
  <2>3. CASE ~(p[1] >= p[2])
    <3> DEFINE m == mid(p)
               right == <<m + 1, p[2]>>
               left == <<p[1], m>>
    <3>1. m \in Int /\ p[1] <= m /\ m < p[2]
      BY <2>1, <2>3
    <3> HIDE DEF mid
    <3>2. /\ right \in Spans /\ right[1] = m + 1 /\ right[2] = p[2]
          /\ left \in Spans /\ left[1] = p[1] /\ left[2] = m
      BY <2>1, <3>1
    <3>3. /\ right[1] <= right[2] /\ right[2] - right[1] <= w - 1
          /\ left[1] <= left[2] /\ left[2] - left[1] <= w - 1
      BY <1>4, <2>1, <3>1, <3>2
    <3>4. OK(right) /\ OK(left)
      <4> HIDE DEF right, left, OK
      <4> QED BY <1>4, <3>2, <3>3
    <3>5. search[p] = IF marked[m + 1] THEN search[right] ELSE search[left]
      BY <1>3, <2>3
    <3>6. m + 1 \in 1..len
      BY <2>1, <3>1
    <3>7. FirstMarked /\ marked[m + 1] => Up(m + 1)
      BY <3>6
    <3>8. FirstMarked /\ ~marked[m + 1] => Down(m)
      <4> SUFFICES ASSUME FirstMarked, ~marked[m + 1], NEW i \in 1..len, i > m
                   PROVE  ~marked[i]
        OBVIOUS
      <4>1. i = m + 1 \/ m + 1 < i
        BY <3>1
      <4> QED BY <3>6, <4>1
    <3> HIDE DEF FirstMarked, Up, Down, right, left, m
    <3>9. CASE marked[m + 1]
      <4>1. search[p] = search[right]
        BY <3>5, <3>9
      <4>2. search[right] \in p[1]..p[2]
        BY <2>1, <3>1, <3>2, <3>4
      <4> QED BY <3>2, <3>4, <3>7, <3>9, <4>1, <4>2
    <3>10. CASE ~marked[m + 1]
      <4>1. search[p] = search[left]
        BY <3>5, <3>10
      <4>2. search[left] \in p[1]..p[2]
        BY <2>1, <3>1, <3>2, <3>4
      <4> QED BY <3>2, <3>4, <3>8, <3>10, <4>1, <4>2
    <3> QED BY <3>9, <3>10
  <2> QED BY <2>2, <2>3
<1>5. Bad = {}
  <2> SUFFICES ASSUME Bad # {} PROVE FALSE
    OBVIOUS
  <2> HIDE DEF OK
  <2>1. PICK w \in Bad : \A v \in Bad : w <= v
    <3>1. Bad \in SUBSET Nat
      OBVIOUS
    <3> HIDE DEF Bad
    <3> QED BY <3>1, SmallestOf
  <2>2. w \in 0..len
    OBVIOUS
  <2>3. PICK p \in Spans : p[1] <= p[2] /\ p[2] - p[1] <= w /\ ~OK(p)
    OBVIOUS
  <2>4. \A q \in Spans : q[1] <= q[2] /\ q[2] - q[1] <= w - 1 => OK(q)
    <3>1. CASE w = 0
      BY <3>1
    <3>2. CASE w # 0
      <4>1. w - 1 \in 0..len /\ ~(w <= w - 1)
        BY <2>2, <3>2
      <4>2. w - 1 \notin Bad
        <5> HIDE DEF Bad
        <5> QED BY <2>1, <4>1
      <4> QED BY <4>1, <4>2
    <3> QED BY <3>1, <3>2
  <2> QED BY <1>4, <2>2, <2>3, <2>4
<1> DEFINE all == <<0, len>>
<1>6. /\ all \in Spans /\ all[1] = 0 /\ all[2] = len
      /\ all[1] <= all[2] /\ all[2] - all[1] <= len
  OBVIOUS
<1>7. OK(all)
  <2>1. len \notin Bad /\ len \in 0..len
    <3> HIDE DEF Bad
    <3> QED BY <1>5
  <2> HIDE DEF OK, all
  <2> QED BY <1>6, <2>1
<1>8. Up(0) /\ Down(len)
  OBVIOUS
<1>9. Bisect(marked) = search[all]
  BY <1>2
<1> HIDE DEF Up, Down, all, FirstMarked
<1>10. /\ Bisect(marked) \in 0..len
       /\ FirstMarked => Up(Bisect(marked)) /\ Down(Bisect(marked))
  BY <1>6, <1>7, <1>8, <1>9
<1> QED BY <1>10 DEF Up, Down, FirstMarked

-----------------------------------------------------------------------------
(* What a request loads                                                    *)

\* A function on the first positions is a sequence.
LEMMA FunctionIsSeq ==
    ASSUME NEW S, NEW n \in Nat, NEW f \in [1..n -> S]
    PROVE  f \in Seq(S) /\ Len(f) = n /\ DOMAIN f = 1..n
<1>1. f \in Seq(S)
  BY SeqDef
<1>2. DOMAIN f = 1..n /\ DOMAIN f = 1..Len(f) /\ Len(f) \in Nat
  BY <1>1, LenProperties
<1> QED BY <1>1, <1>2

Entry == [item : Items, type : Media]

\* The asset of a band has a media type.
LEMMA AssetType ==
    ASSUME IsQuery(query), NEW i \in Items, NEW b, HasAsset(i, b)
    PROVE  AssetOf(i, b).type \in Media
<1> DEFINE key == IF DataKey \in Keys(i) THEN DataKey ELSE b
           n == CHOOSE m \in DOMAIN Data.assets[i] : Data.assets[i][m].key = key
<1>1. key \in Keys(i)
  BY DEF HasAsset
<1>2. n \in DOMAIN Data.assets[i]
  BY <1>1 DEF Keys, AssetKeys
<1>3. AssetOf(i, b) = Data.assets[i][n]
  BY DEF AssetOf
<1> QED BY <1>2, <1>3 DEF IsQuery, IsCollection, Data

\* What an item adds to its group for a band: one entry, or none.
LEMMA EntryOfProperties ==
    ASSUME IsQuery(query), NEW i \in Items, NEW b
    PROVE  /\ EntryOf(i, b) \in Seq(Entry)
           /\ Len(EntryOf(i, b)) <= 1 /\ (HasAsset(i, b) => Len(EntryOf(i, b)) = 1)
           /\ \A e : e \in ToSet(EntryOf(i, b)) <=>
                    HasAsset(i, b) /\ e = [item |-> i, type |-> AssetOf(i, b).type]
<1>1. CASE HasAsset(i, b)
  <2> DEFINE e == [item |-> i, type |-> AssetOf(i, b).type]
  <2>1. e \in Entry
    BY <1>1, AssetType DEF Entry
  <2>2. EntryOf(i, b) = <<e>>
    BY <1>1 DEF EntryOf
  <2> HIDE DEF e
  <2>3. <<e>> \in Seq(Entry) /\ Len(<<e>>) = 1 /\ ToSet(<<e>>) = {e}
    BY <2>1 DEF ToSet
  <2> QED BY <1>1, <2>2, <2>3 DEF e
<1>2. CASE ~HasAsset(i, b)
  <2>1. EntryOf(i, b) = <<>> /\ ToSet(<<>>) = {} /\ <<>> \in Seq(Entry) /\ Len(<<>>) = 0
    BY <1>2, EmptySeq DEF EntryOf, ToSet
  <2> QED BY <1>2, <2>1
<1> QED BY <1>1, <1>2

\* The entries of one item, and the entries of all items.
PartsOf(i) == [m \in DOMAIN query.bands |-> EntryOf(i, query.bands[m])]
EntriesOf(i) == FlattenSeq(PartsOf(i))
AllEntries == [n \in DOMAIN found |-> EntriesOf(found[n])]

LEMMA EntriesOfProperties ==
    ASSUME IsQuery(query), NEW i \in Items
    PROVE  /\ PartsOf(i) \in Seq(Seq(Entry)) /\ Len(PartsOf(i)) = Len(query.bands)
           /\ \A m \in 1..Len(query.bands) : PartsOf(i)[m] = EntryOf(i, query.bands[m])
           /\ EntriesOf(i) \in Seq(Entry)
           /\ \A e : e \in ToSet(EntriesOf(i)) <=>
                    \E b \in Wanted : HasAsset(i, b) /\ e = [item |-> i, type |-> AssetOf(i, b).type]
           /\ Len(query.bands) = 1 => Len(EntriesOf(i)) <= 1
<1> DEFINE bands == query.bands
<1>1. /\ Len(bands) \in Nat /\ DOMAIN bands = 1..Len(bands)
      /\ Wanted = {bands[m] : m \in 1..Len(bands)}
  BY LenProperties DEF IsQuery, Wanted, ToSet
<1>2. PartsOf(i) = [m \in DOMAIN bands |-> EntryOf(i, bands[m])]
  BY DEF PartsOf
<1> HIDE DEF bands
<1>3. /\ PartsOf(i) \in Seq(Seq(Entry)) /\ Len(PartsOf(i)) = Len(bands)
      /\ \A m \in 1..Len(bands) : PartsOf(i)[m] = EntryOf(i, bands[m])
  <2>1. PartsOf(i) \in [1..Len(bands) -> Seq(Entry)]
    BY <1>1, <1>2, EntryOfProperties
  <2>2. \A m \in 1..Len(bands) : PartsOf(i)[m] = EntryOf(i, bands[m])
    BY <1>1, <1>2
  <2> QED BY <1>1, <2>1, <2>2, FunctionIsSeq
<1>4. /\ EntriesOf(i) \in Seq(Entry)
      /\ \A e : e \in ToSet(EntriesOf(i)) <=>
                \E m \in 1..Len(bands) : e \in ToSet(EntryOf(i, bands[m]))
      /\ Len(bands) = 1 => EntriesOf(i) = EntryOf(i, bands[1])
  <2>1. /\ FlattenSeq(PartsOf(i)) \in Seq(Entry)
        /\ \A e : e \in ToSet(FlattenSeq(PartsOf(i))) <=>
                  \E m \in 1..Len(PartsOf(i)) : e \in ToSet(PartsOf(i)[m])
        /\ Len(PartsOf(i)) = 1 => FlattenSeq(PartsOf(i)) = PartsOf(i)[1]
    BY <1>3, FlattenProperties
  <2>2. \A m \in 1..Len(bands) : ToSet(PartsOf(i)[m]) = ToSet(EntryOf(i, bands[m]))
    BY <1>3
  <2> QED BY <1>3, <2>1, <2>2 DEF EntriesOf
<1>5. \A e : e \in ToSet(EntriesOf(i)) <=>
              \E b \in Wanted : HasAsset(i, b) /\ e = [item |-> i, type |-> AssetOf(i, b).type]
  BY <1>1, <1>4, EntryOfProperties
<1>6. Len(bands) = 1 => Len(EntriesOf(i)) <= 1
  <2>1. Len(EntryOf(i, bands[1])) <= 1
    BY EntryOfProperties
  <2> QED BY <1>4, <2>1
<1> QED BY <1>3, <1>4, <1>5, <1>6 DEF bands

LEMMA AllEntriesProperties ==
    ASSUME IsQuery(query), found \in Seq(Items)
    PROVE  /\ AllEntries \in Seq(Seq(Entry)) /\ Len(AllEntries) = Len(found)
           /\ \A n \in 1..Len(found) : AllEntries[n] = EntriesOf(found[n])
           /\ Entries(found, query.bands) = FlattenSeq(AllEntries)
<1>1. /\ Len(found) \in Nat /\ DOMAIN found = 1..Len(found)
      /\ \A n \in 1..Len(found) : found[n] \in Items
  BY LenProperties, ElementOfSeq
<1>2. AllEntries \in [1..Len(found) -> Seq(Entry)]
      /\ \A n \in 1..Len(found) : AllEntries[n] = EntriesOf(found[n])
  BY <1>1, EntriesOfProperties DEF AllEntries
<1>3. Entries(found, query.bands) = FlattenSeq(AllEntries)
  BY DEF Entries, AllEntries, EntriesOf, PartsOf
<1> QED BY <1>1, <1>2, <1>3, FunctionIsSeq

\* The entries: every item found with every band asked for that it has.
LEMMA EntriesProperties ==
    ASSUME IsQuery(query), found \in Seq(Items)
    PROVE  /\ Entries(found, query.bands) \in Seq(Entry)
           /\ \A e : e \in ToSet(Entries(found, query.bands)) <=>
                    \E i \in ToSet(found), b \in Wanted :
                        HasAsset(i, b) /\ e = [item |-> i, type |-> AssetOf(i, b).type]
           /\ Len(found) = 1 /\ Len(query.bands) = 1 =>
                    Len(Entries(found, query.bands)) <= 1
<1> DEFINE all == Entries(found, query.bands)
<1>1. /\ Len(found) \in Nat /\ \A n \in 1..Len(found) : found[n] \in Items
      /\ ToSet(found) = {found[n] : n \in 1..Len(found)}
  BY LenProperties, ElementOfSeq DEF ToSet
<1>2. /\ all \in Seq(Entry)
      /\ \A e : e \in ToSet(all) <=>
                \E n \in 1..Len(AllEntries) : e \in ToSet(AllEntries[n])
      /\ Len(AllEntries) = 1 => all = AllEntries[1]
  BY AllEntriesProperties, FlattenProperties
<1> HIDE DEF all
<1>3. \A e : e \in ToSet(all) <=> \E n \in 1..Len(found) : e \in ToSet(EntriesOf(found[n]))
  <2>1. \A n \in 1..Len(found) : ToSet(AllEntries[n]) = ToSet(EntriesOf(found[n]))
    BY AllEntriesProperties
  <2> QED BY <1>2, <2>1, AllEntriesProperties
<1>4. \A e : e \in ToSet(all) <=>
              \E i \in ToSet(found), b \in Wanted :
                  HasAsset(i, b) /\ e = [item |-> i, type |-> AssetOf(i, b).type]
  <2>1. \A n \in 1..Len(found) : \A e :
            e \in ToSet(EntriesOf(found[n])) <=>
                \E b \in Wanted : HasAsset(found[n], b)
                                  /\ e = [item |-> found[n], type |-> AssetOf(found[n], b).type]
    BY <1>1, EntriesOfProperties
  <2> QED BY <1>1, <1>3, <2>1
<1>5. Len(found) = 1 /\ Len(query.bands) = 1 => Len(all) <= 1
  <2>1. Len(found) = 1 => all = EntriesOf(found[1]) /\ found[1] \in Items
    BY <1>1, <1>2, AllEntriesProperties
  <2> QED BY <2>1, EntriesOfProperties
<1> QED BY <1>2, <1>4, <1>5 DEF all

\* The items of the entries are among those found, and each has a band.
LEMMA EntryItemsProperties ==
    ASSUME NEW S, entries \in Seq([item : S, type : Media])
    PROVE  /\ EntryItems \in Seq(S) /\ Len(EntryItems) = Len(entries)
           /\ \A i : i \in ToSet(EntryItems) <=> \E e \in ToSet(entries) : i = e.item
           /\ \A n \in 1..Len(entries) : EntryItems[n] = entries[n].item
<1>1. /\ Len(entries) \in Nat /\ DOMAIN entries = 1..Len(entries)
      /\ \A n \in 1..Len(entries) : entries[n].item \in S
  <2> DEFINE E == [item : S, type : Media]
  <2>1. /\ Len(entries) \in Nat /\ DOMAIN entries = 1..Len(entries)
        /\ \A n \in 1..Len(entries) : entries[n] \in E
    <3>1. entries \in Seq(E)
      OBVIOUS
    <3> HIDE DEF E
    <3> QED BY <3>1, LenProperties, ElementOfSeq
  <2> QED BY <2>1
<1>2. EntryItems \in [1..Len(entries) -> S]
      /\ \A n \in 1..Len(entries) : EntryItems[n] = entries[n].item
  BY <1>1 DEF EntryItems
<1>3. EntryItems \in Seq(S) /\ Len(EntryItems) = Len(entries)
      /\ \A i : i \in ToSet(EntryItems) <=> \E n \in 1..Len(entries) : i = EntryItems[n]
  <2>1. EntryItems \in Seq(S) /\ Len(EntryItems) = Len(entries)
        /\ DOMAIN EntryItems = 1..Len(entries)
    BY <1>1, <1>2, FunctionIsSeq
  <2> QED BY <2>1 DEF ToSet
<1> QED BY <1>1, <1>2, <1>3 DEF ToSet

Shot == [item : Items, time : Int]

\* The files of an axis, and the axis they make.
FileOf(i) == [m \in DOMAIN Data.times[i] |-> [item |-> i, time |-> Data.times[i][m]]]
FilesOf(items) == [n \in DOMAIN items |-> FileOf(items[n])]

LEMMA FileProperties ==
    ASSUME IsQuery(query), NEW i \in Items
    PROVE  /\ FileOf(i) \in Seq(Shot) /\ Len(FileOf(i)) = Len(Data.times[i])
           /\ Len(Data.times[i]) \in Nat /\ DOMAIN Data.times[i] = 1..Len(Data.times[i])
           /\ \A m \in 1..Len(Data.times[i]) :
                 /\ Data.times[i][m] \in Int
                 /\ FileOf(i)[m] = [item |-> i, time |-> Data.times[i][m]]
<1> DEFINE times == Data.times[i]
<1>1. /\ times \in Seq(Int) /\ Len(times) \in Nat /\ DOMAIN times = 1..Len(times)
      /\ \A m \in 1..Len(times) : times[m] \in Int
  <2>1. times \in Seq(Int)
    BY DEF IsQuery, IsCollection, Data
  <2> HIDE DEF times
  <2> QED BY <2>1, LenProperties, ElementOfSeq
<1>2. FileOf(i) = [m \in DOMAIN times |-> [item |-> i, time |-> times[m]]]
  BY DEF FileOf
<1> HIDE DEF times
<1>3. /\ FileOf(i) \in [1..Len(times) -> Shot]
      /\ \A m \in 1..Len(times) : FileOf(i)[m] = [item |-> i, time |-> times[m]]
  BY <1>1, <1>2 DEF Shot
<1>4. FileOf(i) \in Seq(Shot) /\ Len(FileOf(i)) = Len(times)
  BY <1>1, <1>3, FunctionIsSeq
<1> QED BY <1>1, <1>3, <1>4 DEF times

LEMMA FilesProperties ==
    ASSUME IsQuery(query), NEW items \in Seq(Items)
    PROVE  /\ FilesOf(items) \in Seq(Seq(Shot)) /\ Len(FilesOf(items)) = Len(items)
           /\ \A n \in 1..Len(items) : items[n] \in Items /\ FilesOf(items)[n] = FileOf(items[n])
           /\ Axis(items) = FlattenSeq(FilesOf(items))
<1>1. /\ Len(items) \in Nat /\ DOMAIN items = 1..Len(items)
      /\ \A n \in 1..Len(items) : items[n] \in Items
  BY LenProperties, ElementOfSeq
<1>2. FilesOf(items) \in [1..Len(items) -> Seq(Shot)]
      /\ \A n \in 1..Len(items) : FilesOf(items)[n] = FileOf(items[n])
  BY <1>1, FileProperties DEF FilesOf
<1>3. Axis(items) = FlattenSeq(FilesOf(items))
  BY DEF Axis, FilesOf, FileOf
<1> QED BY <1>1, <1>2, <1>3, FunctionIsSeq

\* The temporal axis: every time of every file, each with its item.
LEMMA AxisProperties ==
    ASSUME IsQuery(query), NEW items \in Seq(Items)
    PROVE  /\ Axis(items) \in Seq(Shot)
           /\ \A e : e \in ToSet(Axis(items)) <=>
                    \E i \in ToSet(items), t \in Int :
                        t \in ToSet(Data.times[i]) /\ e = [item |-> i, time |-> t]
<1> DEFINE Is(e, i) == \E t \in Int : t \in ToSet(Data.times[i]) /\ e = [item |-> i, time |-> t]
<1>1. /\ Len(items) \in Nat /\ ToSet(items) = {items[n] : n \in 1..Len(items)}
  BY LenProperties DEF ToSet
<1>2. ASSUME NEW i \in Items
      PROVE  \A e : e \in ToSet(FileOf(i)) <=> Is(e, i)
  <2>1. ToSet(Data.times[i]) = {Data.times[i][m] : m \in 1..Len(Data.times[i])}
    BY FileProperties DEF ToSet
  <2>2. DOMAIN FileOf(i) = 1..Len(Data.times[i])
    BY FileProperties, LenProperties
  <2>3. \A e : e \in ToSet(FileOf(i)) <=>
              \E m \in 1..Len(Data.times[i]) : e = [item |-> i, time |-> Data.times[i][m]]
    BY <2>2, FileProperties DEF ToSet
  <2> QED BY <2>1, <2>3, FileProperties
<1>3. /\ Axis(items) \in Seq(Shot)
      /\ \A e : e \in ToSet(Axis(items)) <=>
                \E n \in 1..Len(FilesOf(items)) : e \in ToSet(FilesOf(items)[n])
  BY FilesProperties, FlattenProperties
<1>4. \A n \in 1..Len(items) : \A e : e \in ToSet(FilesOf(items)[n]) <=> Is(e, items[n])
  BY <1>2, FilesProperties
<1> HIDE DEF Is
<1>5. \A e : e \in ToSet(Axis(items)) <=> \E i \in ToSet(items) : Is(e, i)
  <2>1. \A e : e \in ToSet(Axis(items)) <=> \E n \in 1..Len(items) : Is(e, items[n])
    BY <1>3, <1>4, FilesProperties
  <2> QED BY <1>1, <2>1
<1> QED BY <1>3, <1>5 DEF Is

\* Searching labels gives a position among them or the one behind.
LEMMA MarksOf ==
    ASSUME NEW n \in Nat, NEW marked, DOMAIN marked = 1..n, marked = [m \in 1..n |-> marked[m]]
    PROVE  Len(marked) = n
<1>1. marked \in [1..n -> {marked[m] : m \in 1..n}]
  OBVIOUS
<1> QED BY <1>1, FunctionIsSeq

LEMMA FilterProperties ==
    ASSUME NEW labels \in Seq(Int), NEW start \in Int, NEW end
    PROVE  /\ \/ FilterSlice(labels, start, end) = NoSlice
              \/ /\ FilterSlice(labels, start, end)[1] \in 0..Len(labels)
                 /\ FilterSlice(labels, start, end)[2] \in 0..Len(labels)
           /\ /\ FilterSlice(labels, start, end) = NoSlice
              /\ \A m, n \in 1..Len(labels) : m < n => labels[m] <= labels[n]
              => \A n \in 1..Len(labels) : labels[n] < start
<1> DEFINE less == [n \in DOMAIN labels |-> labels[n] < start]
           upto == [n \in DOMAIN labels |-> labels[n] <= end]
           from == Bisect(less)
           to == Bisect(upto)
<1>1. /\ Len(labels) \in Nat /\ DOMAIN labels = 1..Len(labels)
      /\ \A n \in 1..Len(labels) : labels[n] \in Int
  BY LenProperties, ElementOfSeq
<1>2. Len(less) = Len(labels)
  <2>1. DOMAIN less = 1..Len(labels) /\ less = [m \in 1..Len(labels) |-> less[m]]
    BY <1>1
  <2> HIDE DEF less
  <2> QED BY <1>1, <2>1, MarksOf
<1>3. Len(upto) = Len(labels)
  <2>1. DOMAIN upto = 1..Len(labels) /\ upto = [m \in 1..Len(labels) |-> upto[m]]
    BY <1>1
  <2> HIDE DEF upto
  <2> QED BY <1>1, <2>1, MarksOf
<1>4. \A n \in 1..Len(labels) : less[n] <=> labels[n] < start
  BY <1>1
<1>5. FilterSlice(labels, start, end) =
          IF from # to THEN <<from, to>>
          ELSE IF from < Len(labels) THEN <<from, from + 1>> ELSE NoSlice
  BY DEF FilterSlice, BisectLeft, BisectRight
<1> HIDE DEF less, upto
<1>6. /\ from \in 0..Len(labels) /\ to \in 0..Len(labels)
      /\ (\A i, j \in 1..Len(labels) : i < j /\ less[j] => less[i]) =>
            \A i \in 1..Len(labels) : i <= from => less[i]
  BY <1>1, <1>2, <1>3, BisectProperties
<1> HIDE DEF from, to
<1>7. from # to \/ from < Len(labels) => FilterSlice(labels, start, end) # NoSlice
  BY <1>1, <1>5, <1>6 DEF NoSlice
<1>8. ASSUME FilterSlice(labels, start, end) = NoSlice,
             \A m, n \in 1..Len(labels) : m < n => labels[m] <= labels[n]
      PROVE  \A n \in 1..Len(labels) : labels[n] < start
  <2>1. from = Len(labels)
    <3>1. ~(from < Len(labels))
      BY <1>7, <1>8
    <3>2. from \in 0..Len(labels)
      BY <1>6
    <3>3. Len(labels) \in Int /\ from \in Int /\ from <= Len(labels)
      BY <1>1, <3>2
    <3>4. from >= Len(labels)
      BY <3>1, <3>3
    <3> QED BY <3>3, <3>4
  <2>2. \A i, j \in 1..Len(labels) : i < j /\ less[j] => less[i]
    BY <1>1, <1>4, <1>8
  <2> QED BY <1>1, <1>4, <1>6, <2>1, <2>2
<1> QED BY <1>1, <1>5, <1>6, <1>8

\* A filtered axis shows images of the items it was made of.
LEMMA FilteredProperties ==
    ASSUME IsQuery(query), NEW items \in Seq(Items)
    PROVE  /\ Filtered(Axis(items)).failure \in {"none", "no time"}
           /\ \A s \in Filtered(Axis(items)).cube :
                 s.item \in ToSet(items) /\ s.taken \in ToSet(Data.times[s.item])
<1> DEFINE axis == Axis(items)
           labels == [n \in DOMAIN axis |-> axis[n].time]
           slice == FilterSlice(labels, query.start, query.end)
           left == SubSeq(axis, slice[1] + 1, slice[2])
<1>1. /\ axis \in Seq(Shot)
      /\ \A e \in ToSet(axis) : e.item \in ToSet(items) /\ e.time \in ToSet(Data.times[e.item])
  BY AxisProperties
<1> HIDE DEF axis
<1>2. /\ Len(axis) \in Nat /\ DOMAIN axis = 1..Len(axis)
      /\ \A n \in 1..Len(axis) : axis[n] \in Shot /\ axis[n] \in ToSet(axis)
  BY <1>1, LenProperties, ElementOfSeq DEF ToSet
<1>3. labels \in Seq(Int) /\ Len(labels) = Len(axis)
  <2>1. labels \in [1..Len(axis) -> Int]
    BY <1>2 DEF Shot
  <2> HIDE DEF labels
  <2> QED BY <1>2, <2>1, FunctionIsSeq
<1> HIDE DEF labels
<1>4. slice = NoSlice \/ (slice[1] \in 0..Len(axis) /\ slice[2] \in 0..Len(axis))
  BY <1>3, FilterProperties DEF IsQuery
<1>5. CASE slice = NoSlice
  BY <1>5 DEF Filtered, Broken, axis, labels
<1>6. CASE slice # NoSlice
  <2>1. /\ Filtered(Axis(items)).failure = "none"
        /\ Filtered(Axis(items)).cube = SlicesOf(left)
    BY <1>6 DEF Filtered, Loaded, FilterByTime, axis, labels
  <2> HIDE DEF slice
  <2> DEFINE m == slice[1] + 1
             n == slice[2]
  <2>2. m \in Int /\ n \in Int /\ m >= 1 /\ n <= Len(axis)
    BY <1>2, <1>4, <1>6
  <2> HIDE DEF m, n
  <2>3. \A i \in m..n : i \in 1..Len(axis) /\ axis[i] \in Shot
    BY <1>2, <2>2
  <2>4. /\ SubSeq(axis, m, n) \in Seq(Shot)
        /\ Len(SubSeq(axis, m, n)) = IF m <= n THEN n - m + 1 ELSE 0
        /\ \A i \in 1..n - m + 1 : SubSeq(axis, m, n)[i] = axis[m + i - 1]
    BY <2>2, <2>3, SubSeqProperties
  <2>5. left = SubSeq(axis, m, n)
    BY DEF m, n
  <2> HIDE DEF left
  <2>6. \A i \in DOMAIN left : left[i] \in ToSet(axis)
    <3>1. Len(left) \in Nat /\ DOMAIN left = 1..Len(left)
      BY <2>4, <2>5, LenProperties
    <3>2. SUFFICES ASSUME NEW i \in 1..Len(left)
                   PROVE  left[i] \in ToSet(axis)
      BY <3>1
    <3>3. i \in 1..n - m + 1 /\ m + i - 1 \in m..n
      BY <2>2, <2>4, <2>5, <3>1
    <3> QED BY <1>2, <2>3, <2>4, <2>5, <3>3
  <2>7. \A s \in SlicesOf(left) : \E i \in DOMAIN left :
            s.item = left[i].item /\ s.taken = left[i].time
    BY DEF SlicesOf, Slice
  <2> QED BY <1>1, <2>1, <2>6, <2>7
<1> QED BY <1>5, <1>6

\* Whatever reader is taken, the cube shows images of the items it was given.
LEMMA ReadProperties ==
    ASSUME IsQuery(query), NEW items \in Seq(Items), NEW type
    PROVE  /\ Read(items, type).failure \in {"none", "reader", "no band", "entries", "no time"}
           /\ \A s \in Read(items, type).cube :
                 s.item \in ToSet(items) /\ s.taken \in ToSet(Data.times[s.item])
<1> DEFINE Fine(result) ==
              /\ result.failure \in {"none", "reader", "no band", "entries", "no time"}
              /\ \A s \in result.cube :
                    s.item \in ToSet(items) /\ s.taken \in ToSet(Data.times[s.item])
<1>1. \A reason \in {"reader", "no band", "entries"} : Fine(Broken(reason))
  BY DEF Broken
<1>2. Fine(Filtered(Axis(items)))
  BY FilteredProperties
<1>3. \A i \in Items : TimeOf(i) \in ToSet(Data.times[i])
  <2>1. ASSUME NEW i \in Items
        PROVE  TimeOf(i) \in ToSet(Data.times[i])
    <3> DEFINE times == Data.times[i]
    <3>1. times \in Seq(Int) /\ times # <<>>
      BY DEF IsQuery, IsCollection, Data
    <3> HIDE DEF times
    <3>2. 1 \in DOMAIN times
      BY <3>1, EmptySeq, LenProperties
    <3>3. times[1] \in ToSet(times)
      BY <3>2 DEF ToSet
    <3> QED BY <3>3 DEF TimeOf, times
  <2> QED BY <2>1
<1>4. ToSet(items) \subseteq Items
  BY LenProperties, ElementOfSeq DEF ToSet
<1>5. Fine(ReadCog(items))
  <2>1. ReadCog(items).failure = "none"
    BY DEF ReadCog, Loaded
  <2>2. \A s \in ReadCog(items).cube :
            \E i \in ToSet(items) : s.item = i /\ s.taken = TimeOf(i)
    <3> DEFINE Peers(i) == {j \in ToSet(items) : TakenBands(j) = TakenBands(i)}
               Times(i) == {TimeOf(j) : j \in Peers(i)}
               axis == Times(items[1])
               Kept(i) == IF Peers(i) = ToSet(items) THEN ToSet(Labels(i)) ELSE {Labels(i)[1]}
               Shown(t, i) == TimeOf(i) = Nearest(Times(i), t)
               Place(t) == Cardinality({u \in axis : u <= t})
               slices(i) == {Slice(b, t, Place(t), i, TimeOf(i)) :
                                b \in Kept(i), t \in {u \in axis : Shown(u, i)}}
    <3>1. ReadCog(items).cube = UNION {slices(i) : i \in ToSet(items)}
      BY DEF ReadCog, Loaded
    <3> HIDE DEF Peers, Times, axis, Kept, Shown, Place
    <3>2. \A i \in ToSet(items) : \A s \in slices(i) : s.item = i /\ s.taken = TimeOf(i)
      BY DEF Slice
    <3> HIDE DEF slices
    <3> QED BY <3>1, <3>2
  <2> QED BY <1>3, <1>4, <2>1, <2>2
<1> HIDE DEF Fine
<1>6. Fine(ReadNetcdf(items))
  BY <1>1, <1>2 DEF ReadNetcdf
<1>7. Fine(ReadZarr(items))
  BY <1>1, <1>2 DEF ReadZarr
<1>8. Fine(Read(items, type))
  BY <1>1, <1>5, <1>6, <1>7 DEF Read
<1> QED BY <1>8 DEF Fine

\* Numbers that ascend from each position to the next ascend from any position
\* to any later one.
LEMMA AscendingSeq ==
    ASSUME NEW s \in Seq(Int), \A n \in 1..(Len(s) - 1) : s[n] <= s[n + 1]
    PROVE  \A m, n \in 1..Len(s) : m < n => s[m] <= s[n]
<1>1. Len(s) \in Nat /\ \A n \in 1..Len(s) : s[n] \in Int
  BY LenProperties, ElementOfSeq
<1> SUFFICES ASSUME NEW m \in 1..Len(s) PROVE \A n \in 1..Len(s) : m < n => s[m] <= s[n]
  OBVIOUS
<1> DEFINE Bad == {n \in 1..Len(s) : m < n /\ ~(s[m] <= s[n])}
<1>2. Bad = {}
  <2> SUFFICES ASSUME Bad # {} PROVE FALSE
    OBVIOUS
  <2>1. PICK n \in Bad : \A k \in Bad : n <= k
    <3>1. Bad \in SUBSET Nat
      BY <1>1
    <3> HIDE DEF Bad
    <3> QED BY <3>1, SmallestOf
  <2>2. n \in 1..Len(s) /\ m < n /\ ~(s[m] <= s[n])
    OBVIOUS
  <2>3. n - 1 \in 1..(Len(s) - 1) /\ n - 1 \in 1..Len(s) /\ ~(n <= n - 1) /\ n - 1 + 1 = n
    BY <1>1, <2>2
  <2>4. n - 1 \notin Bad
    <3> HIDE DEF Bad
    <3> QED BY <2>1, <2>3
  <2>5. s[n - 1] <= s[n]
    BY <2>3
  <2>6. n - 1 = m \/ s[m] <= s[n - 1]
    BY <1>1, <2>2, <2>3, <2>4
  <2> QED BY <1>1, <2>2, <2>3, <2>5, <2>6
<1> QED BY <1>2

\* A filter that finds no slice has not looked at times in order, if one of the
\* files reaches the start of the extent.
LEMMA NoTimeIsDisorder ==
    ASSUME IsQuery(query), NEW items \in Seq(Items),
           Filtered(Axis(items)).failure # "none",
           NEW i \in ToSet(items), Selected(i)
    PROVE  \E n \in 1..(Len(Axis(items)) - 1) :
                ~(Axis(items)[n].time <= Axis(items)[n + 1].time)
<1> SUFFICES ASSUME \A n \in 1..(Len(Axis(items)) - 1) :
                        Axis(items)[n].time <= Axis(items)[n + 1].time
             PROVE  FALSE
  OBVIOUS
<1> DEFINE axis == Axis(items)
           labels == [n \in DOMAIN axis |-> axis[n].time]
           times == Data.times[i]
<1>1. /\ axis \in Seq(Shot) /\ Len(axis) \in Nat /\ DOMAIN axis = 1..Len(axis)
      /\ \A n \in 1..Len(axis) : axis[n] \in Shot
  <2>1. axis \in Seq(Shot)
    BY AxisProperties
  <2> HIDE DEF axis
  <2> QED BY <2>1, LenProperties, ElementOfSeq
<1>2. /\ times \in Seq(Int) /\ times # <<>>
      /\ query.start \in Int /\ query.start <= times[Len(times)]
  <2>1. i \in Items
    BY LenProperties, ElementOfSeq DEF ToSet
  <2> QED BY <2>1 DEF IsQuery, IsCollection, Data, Selected, Last
<1>3. \E e \in ToSet(axis) : e.time = times[Len(times)]
  <2> HIDE DEF times
  <2>1. Len(times) \in DOMAIN times /\ times[Len(times)] \in Int
    BY <1>2, EmptySeq, LenProperties, ElementOfSeq
  <2>2. times[Len(times)] \in ToSet(times)
    BY <2>1 DEF ToSet
  <2>3. [item |-> i, time |-> times[Len(times)]] \in ToSet(axis)
    BY <2>1, <2>2, AxisProperties DEF times
  <2> HIDE DEF axis
  <2> QED BY <2>3
<1>4. FilterSlice(labels, query.start, query.end) = NoSlice
  BY DEF Filtered, Loaded
<1>5. \A n \in 1..(Len(axis) - 1) : axis[n].time <= axis[n + 1].time
  OBVIOUS
<1> HIDE DEF axis, times
<1>6. /\ labels \in Seq(Int) /\ Len(labels) = Len(axis)
      /\ \A n \in 1..Len(axis) : labels[n] = axis[n].time
  <2>1. labels \in [1..Len(axis) -> Int] /\ \A n \in 1..Len(axis) : labels[n] = axis[n].time
    BY <1>1 DEF Shot
  <2> HIDE DEF labels
  <2> QED BY <1>1, <2>1, FunctionIsSeq
<1> HIDE DEF labels
<1>7. \A n \in 1..(Len(labels) - 1) : labels[n] <= labels[n + 1]
  <2>1. \A n \in 1..(Len(axis) - 1) : n \in 1..Len(axis) /\ n + 1 \in 1..Len(axis)
    BY <1>1
  <2> QED BY <1>5, <1>6, <2>1
<1>8. \A m, n \in 1..Len(labels) : m < n => labels[m] <= labels[n]
  BY <1>6, <1>7, AscendingSeq
<1>9. \A n \in 1..Len(labels) : labels[n] < query.start
  BY <1>2, <1>4, <1>6, <1>8, FilterProperties
<1>10. PICK n \in 1..Len(axis) : axis[n].time = times[Len(times)]
  BY <1>1, <1>3 DEF ToSet
<1> QED BY <1>1, <1>2, <1>6, <1>9, <1>10 DEF Shot

\* RefusalsAreDeserved, one refusal at a time.
NoItemOK == failure = "no item" => \A i \in ToSet(started) : status[i] # "Completed"
TypesOK ==
    failure = "types" =>
        ~\E t \in Media : /\ \A i \in ToSet(found), b \in Wanted :
                                b \in Data.offers[i] => AssetOf(i, b).type = t
                          /\ \E i \in ToSet(found) : Data.offers[i] \cap Wanted # {}
NoBandOK ==
    failure = "no band" =>
        \E i \in ToSet(found) : ~(Wanted \subseteq Data.offers[i])
                               \/ ~(Data.offers[i] \subseteq FileBands(i))
EntriesOK ==
    failure = "entries" => Type = "zarr" /\ (Len(found) > 1 \/ Len(query.bands) > 1)
NoTimeOK == failure = "no time" => ~InOrder

LEMMA RefusalsByReason ==
    /\ RefusalsAreDeserved <=> NoItemOK /\ TypesOK /\ NoBandOK /\ EntriesOK /\ NoTimeOK
    /\ RefusalsAreDeserved' <=> NoItemOK' /\ TypesOK' /\ NoBandOK' /\ EntriesOK' /\ NoTimeOK'
<1>1. RefusalsAreDeserved <=> NoItemOK /\ TypesOK /\ NoBandOK /\ EntriesOK /\ NoTimeOK
  BY Zenon DEF RefusalsAreDeserved, NoItemOK, TypesOK, NoBandOK, EntriesOK, NoTimeOK
<1>2. RefusalsAreDeserved' <=> NoItemOK' /\ TypesOK' /\ NoBandOK' /\ EntriesOK' /\ NoTimeOK'
  BY Zenon DEF RefusalsAreDeserved, NoItemOK, TypesOK, NoBandOK, EntriesOK, NoTimeOK
<1> QED BY <1>1, <1>2

\* What LoadTypeOK and RefusalsAreDeserved rest on: nothing is grouped or loaded
\* before the search, what it finds lies in the extent, the entries are those of
\* the items found, and a search that finds nothing comes after all runs.
ProgressOK ==
    /\ stage \in Stages /\ failure \in Failures
    /\ stage = "failed" <=> failure # "none"
    /\ stage \in {"trigger", "ingest", "search", "group"} => entries = <<>> /\ cube = {}
    /\ stage = "load" => entries # <<>>
    /\ failure = "no item" => \A i \in ToSet(started) : Ready(i)

AnswersOK ==
    /\ IsQuery(query)
    /\ found \in Seq(Items) /\ \A i \in ToSet(found) : Selected(i)
    /\ entries = <<>> \/ entries = Entries(found, query.bands)
    /\ \A s \in cube : s.item \in ToSet(found) /\ s.taken \in ToSet(Data.times[s.item])

Loading == ProgressOK /\ AnswersOK /\ RefusalsAreDeserved

LEMMA LoadingInit == LoadInit => Loading
<1> SUFFICES ASSUME LoadInit PROVE Loading
  OBVIOUS
<1>1. <<>> \in Seq(Items) /\ ToSet(<<>>) = {}
  BY EmptySeq DEF ToSet
<1>2. IsQuery(query)
  BY QueriesAssumption DEF LoadInit
<1>3. ProgressOK /\ AnswersOK
  BY <1>1, <1>2 DEF LoadInit, ProgressOK, AnswersOK, Stages, Failures
<1>4. RefusalsAreDeserved
  BY DEF LoadInit, RefusalsAreDeserved
<1> QED BY <1>3, <1>4 DEF Loading

\* A query that does not change has the same data.
LEMMA SameQuery ==
    ASSUME query' = query
    PROVE  /\ Data' = Data /\ Wanted' = Wanted
           /\ \A i, b : AssetOf(i, b)' = AssetOf(i, b)
           /\ \A i : FileBands(i)' = FileBands(i) /\ Selected(i)' = Selected(i)
<1>1. Data' = Data /\ Wanted' = Wanted
  BY DEF Data, Wanted
<1>2. ASSUME NEW i, NEW b
      PROVE  AssetOf(i, b)' = AssetOf(i, b)
  BY DEF AssetOf, Data, Keys, AssetKeys
<1>3. ASSUME NEW i
      PROVE  FileBands(i)' = FileBands(i) /\ Selected(i)' = Selected(i)
  BY DEF FileBands, Selected, Data
<1> QED BY <1>1, <1>2, <1>3

LEMMA SameEntries ==
    ASSUME query' = query, found' = found
    PROVE  Entries(found, query.bands)' = Entries(found, query.bands)
<1>1. ASSUME NEW i, NEW b
      PROVE  EntryOf(i, b)' = EntryOf(i, b)
  <2>1. AssetOf(i, b)' = AssetOf(i, b)
    BY SameQuery
  <2>2. HasAsset(i, b)' <=> HasAsset(i, b)
    BY DEF HasAsset, Keys, AssetKeys, Data
  <2> QED BY <2>1, <2>2 DEF EntryOf
<1> QED BY <1>1 DEF Entries

\* A refusal stays deserved as long as what it speaks of does not change.
LEMMA RefusalsStay ==
    ASSUME RefusalsAreDeserved, UNCHANGED <<query, found, entries, failure>>,
           failure = "no item" => \A i \in ToSet(started') : status'[i] # "Completed"
    PROVE  RefusalsAreDeserved'
<1>1. Type' = Type /\ (InOrder' <=> InOrder)
  <2>1. Axis(EntryItems)' = Axis(EntryItems)
    BY DEF Axis, EntryItems, Data
  <2> QED BY <2>1 DEF Type, InOrder
<1>2. NoItemOK'
  BY DEF NoItemOK
<1>3. TypesOK'
  BY SameQuery, RefusalsByReason DEF TypesOK
<1>4. NoBandOK'
  BY SameQuery, RefusalsByReason DEF NoBandOK
<1>5. EntriesOK' /\ NoTimeOK'
  BY <1>1, RefusalsByReason DEF EntriesOK, NoTimeOK
<1> QED BY <1>2, <1>3, <1>4, <1>5, RefusalsByReason

\* So does what the request has found and loaded.
LEMMA AnswersStay ==
    ASSUME AnswersOK, UNCHANGED <<query, found>>,
           entries' \in {<<>>, entries, Entries(found, query.bands)},
           \A s \in cube' : s.item \in ToSet(found) /\ s.taken \in ToSet(Data.times[s.item])
    PROVE  AnswersOK'
<1>1. IsQuery(query)'
  BY DEF AnswersOK
<1>2. found' \in Seq(Items) /\ \A i \in ToSet(found') : Selected(i)'
  BY SameQuery DEF AnswersOK
<1>3. entries' = <<>> \/ entries' = Entries(found, query.bands)'
  BY SameEntries DEF AnswersOK
<1>4. \A s \in cube' : s.item \in ToSet(found') /\ s.taken \in ToSet(Data'.times[s.item])
  BY SameQuery
<1> QED BY <1>1, <1>2, <1>3, <1>4 DEF AnswersOK

\* Items that agree on a media type, one of which has a band asked for, make
\* entries of one type.
LEMMA OneType ==
    ASSUME IsQuery(query), found \in Seq(Items), NEW t \in Media,
           \A i \in ToSet(found), b \in Wanted :
               b \in Data.offers[i] => AssetOf(i, b).type = t,
           \E i \in ToSet(found) : Data.offers[i] \cap Wanted # {}
    PROVE  {e.type : e \in ToSet(Entries(found, query.bands))} = {t}
<1> DEFINE all == Entries(found, query.bands)
<1>1. \A e : e \in ToSet(all) <=>
              \E i \in ToSet(found), b \in Wanted :
                  HasAsset(i, b) /\ e = [item |-> i, type |-> AssetOf(i, b).type]
  BY EntriesProperties
<1>2. \A e \in ToSet(all) : e.type = t
  BY <1>1 DEF HasAsset
<1>3. PICK i \in ToSet(found) : \E b \in Wanted : b \in Data.offers[i]
  OBVIOUS
<1>4. PICK b \in Wanted : b \in Data.offers[i]
  BY <1>3
<1>5. HasAsset(i, b)
  <2>1. i \in Items
    BY LenProperties, ElementOfSeq DEF ToSet
  <2>2. DataKey \in Keys(i) \/ Data.offers[i] \subseteq Keys(i)
    BY <2>1 DEF IsQuery, IsCollection, Data, Keys
  <2> QED BY <1>4, <2>2 DEF HasAsset
<1>6. [item |-> i, type |-> AssetOf(i, b).type] \in ToSet(all)
  BY <1>1, <1>5
<1> HIDE DEF all
<1>7. {e.type : e \in ToSet(all)} = {t}
  BY <1>2, <1>6
<1> QED BY <1>7 DEF all

LEMMA GroupKeepsLoading ==
    ASSUME LoadInv, Loading, Group PROVE Loading'
<1> DEFINE all == Entries(found, query.bands)
           types == {all[n].type : n \in DOMAIN all}
<1>1. /\ entries' = all
      /\ UNCHANGED <<vars, query, registered, missing, found, cube>>
      /\ stage = "group" /\ failure = "none" /\ cube = {} /\ AnswersOK
      /\ IF Cardinality(types) = 1 THEN stage' = "load" /\ failure' = failure
                                   ELSE stage' = "failed" /\ failure' = "types"
  BY DEF Group, Loading, ProgressOK
<1>2. IsQuery(query) /\ found \in Seq(Items)
  BY <1>1 DEF AnswersOK
<1>3. types = {e.type : e \in ToSet(all)}
  BY DEF ToSet
<1>4. all = <<>> => Cardinality(types) = 0
  <2>1. all = <<>> => types = {}
    BY <1>3 DEF ToSet
  <2> HIDE DEF types
  <2> QED BY <2>1, FS_EmptySet
<1> HIDE DEF all
<1>5. AnswersOK'
  BY <1>1, AnswersStay DEF Loading, all
<1>6. CASE Cardinality(types) = 1
  <2>1. all # <<>>
    BY <1>4, <1>6
  <2> HIDE DEF types
  <2>2. stage' = "load" /\ failure' = "none"
    BY <1>1, <1>6
  <2>3. RefusalsAreDeserved'
    BY <2>2 DEF RefusalsAreDeserved
  <2>4. ProgressOK'
    BY <1>1, <2>1, <2>2 DEF ProgressOK, Stages, Failures
  <2> QED BY <1>5, <2>3, <2>4 DEF Loading
<1>7. CASE Cardinality(types) # 1
  <2>1. stage' = "failed" /\ failure' = "types"
    BY <1>1, <1>7
  <2>2. ~\E t \in Media : /\ \A i \in ToSet(found), b \in Wanted :
                                b \in Data.offers[i] => AssetOf(i, b).type = t
                          /\ \E i \in ToSet(found) : Data.offers[i] \cap Wanted # {}
    <3> SUFFICES ASSUME NEW t \in Media,
                        \A i \in ToSet(found), b \in Wanted :
                            b \in Data.offers[i] => AssetOf(i, b).type = t,
                        \E i \in ToSet(found) : Data.offers[i] \cap Wanted # {}
                 PROVE  FALSE
      OBVIOUS
    <3>1. types = {t}
      BY <1>2, <1>3, OneType DEF all
    <3> HIDE DEF types
    <3>2. Cardinality({t}) = 1
      BY FS_Singleton
    <3> QED BY <1>7, <3>1, <3>2
  <2> HIDE DEF types
  <2>3. TypesOK'
    BY <1>1, <2>2, SameQuery DEF TypesOK
  <2>4. RefusalsAreDeserved'
    BY <2>1, <2>3, RefusalsByReason DEF NoItemOK, NoBandOK, EntriesOK, NoTimeOK
  <2>5. ProgressOK'
    BY <1>1, <2>1 DEF ProgressOK, Stages, Failures
  <2> QED BY <1>5, <2>4, <2>5 DEF Loading
<1> QED BY <1>6, <1>7

\* The COG reader refuses nothing.
LEMMA CogLoads ==
    ASSUME NEW items PROVE ReadCog(items).failure = "none"
BY DEF ReadCog, Loaded

LEMMA LoadKeepsLoading ==
    ASSUME LoadInv, Loading, Load PROVE Loading'
<1> DEFINE result == Read(EntryItems, Type)
<1>1. /\ failure' = result.failure /\ cube' = result.cube
      /\ stage' = IF result.failure = "none" THEN "done" ELSE "failed"
      /\ UNCHANGED <<vars, query, registered, missing, found, entries>>
      /\ stage = "load" /\ entries # <<>> /\ AnswersOK /\ ProgressOK
  BY DEF Load, Loading, ProgressOK
<1>2. /\ IsQuery(query) /\ found \in Seq(Items)
      /\ entries = Entries(found, query.bands)
  BY <1>1 DEF AnswersOK
<1>3. /\ entries \in Seq(Entry)
      /\ \A e \in ToSet(entries) : e.item \in ToSet(found)
      /\ Len(found) = 1 /\ Len(query.bands) = 1 => Len(entries) <= 1
  BY <1>2, EntriesProperties
<1>4. /\ EntryItems \in Seq(Items) /\ Len(EntryItems) = Len(entries)
      /\ ToSet(EntryItems) \subseteq ToSet(found)
  BY <1>3, EntryItemsProperties DEF Entry
<1>5. /\ Len(entries) \in Nat \ {0} /\ Len(found) \in Nat /\ Len(query.bands) \in Nat \ {0}
      /\ EntryItems[1] \in ToSet(EntryItems)
  <2>1. Len(entries) \in Nat \ {0}
    BY <1>1, <1>3, EmptySeq
  <2>2. Len(found) \in Nat /\ Len(query.bands) \in Nat \ {0}
    BY <1>2, LenProperties, EmptySeq DEF IsQuery
  <2>3. EntryItems[1] \in ToSet(EntryItems)
    <3>1. DOMAIN EntryItems = 1..Len(EntryItems)
      BY <1>4, LenProperties
    <3>2. 1 \in DOMAIN EntryItems
      BY <1>4, <2>1, <3>1
    <3> HIDE DEF EntryItems
    <3> QED BY <3>2 DEF ToSet
  <2> QED BY <2>1, <2>2, <2>3
<1>6. /\ result.failure \in {"none", "reader", "no band", "entries", "no time"}
      /\ \A s \in result.cube :
            s.item \in ToSet(EntryItems) /\ s.taken \in ToSet(Data.times[s.item])
  BY <1>2, <1>4, ReadProperties
<1> HIDE DEF result
<1>7. AnswersOK'
  BY <1>1, <1>4, <1>6, AnswersStay
<1>8. ProgressOK'
  BY <1>1, <1>6 DEF ProgressOK, Stages, Failures
<1>9. NoItemOK' /\ TypesOK'
  BY <1>1, <1>6 DEF NoItemOK, TypesOK
<1>10. result.failure = "no band" =>
          \E i \in ToSet(found) : ~(Wanted \subseteq FileBands(i))
  <2> SUFFICES ASSUME result.failure = "no band"
               PROVE  \E i \in ToSet(found) : ~(Wanted \subseteq FileBands(i))
    OBVIOUS
  <2>1. ReadCog(EntryItems).failure = "none"
    BY CogLoads
  <2>2. Filtered(Axis(EntryItems)).failure \in {"none", "no time"}
    BY <1>2, <1>4, FilteredProperties
  <2>3. \/ ReadNetcdf(EntryItems).failure = "no band"
        \/ ReadZarr(EntryItems).failure = "no band"
    BY <2>1 DEF result, Read, Broken
  <2>4. CASE ReadNetcdf(EntryItems).failure = "no band"
    BY <1>4, <2>2, <2>4 DEF ReadNetcdf, Wanted
  <2>5. CASE ReadZarr(EntryItems).failure = "no band"
    BY <1>4, <1>5, <2>2, <2>5 DEF ReadZarr, Broken, Wanted
  <2> QED BY <2>3, <2>4, <2>5
<1>11. NoBandOK'
  <2>1. failure' = "no band" =>
            \E i \in ToSet(found) : ~(Wanted \subseteq Data.offers[i])
                                   \/ ~(Data.offers[i] \subseteq FileBands(i))
    BY <1>1, <1>10
  <2> QED BY <1>1, <2>1, SameQuery DEF NoBandOK
<1>12. result.failure = "entries" => Type = "zarr" /\ Len(EntryItems) # 1
  <2> SUFFICES ASSUME result.failure = "entries"
               PROVE  Type = "zarr" /\ Len(EntryItems) # 1
    OBVIOUS
  <2>1. ReadCog(EntryItems).failure = "none"
    BY CogLoads
  <2>2. Filtered(Axis(EntryItems)).failure \in {"none", "no time"}
    BY <1>2, <1>4, FilteredProperties
  <2>3. ReadNetcdf(EntryItems).failure # "entries"
    BY <2>2 DEF ReadNetcdf, Broken
  <2>4. Type = "zarr" /\ ReadZarr(EntryItems).failure = "entries"
    BY <2>1, <2>3 DEF result, Read, Broken
  <2>5. Len(EntryItems) # 1
    BY <2>2, <2>4 DEF ReadZarr, Broken
  <2> QED BY <2>4, <2>5
<1>13. EntriesOK'
  <2>1. Len(EntryItems) # 1 => Len(found) > 1 \/ Len(query.bands) > 1
    <3>1. Len(found) # 0
      <4>1. Len(found) = 0 => ToSet(found) = {}
        BY <1>2, LenProperties DEF ToSet
      <4> QED BY <1>4, <1>5, <4>1
    <3> SUFFICES ASSUME Len(EntryItems) # 1, ~(Len(found) > 1), ~(Len(query.bands) > 1)
                 PROVE  FALSE
      OBVIOUS
    <3>2. \A n \in Nat : n # 0 /\ ~(n > 1) => n = 1
      OBVIOUS
    <3>3. /\ Len(found) \in Nat /\ Len(query.bands) \in Nat /\ Len(query.bands) # 0
          /\ Len(entries) \in Nat /\ Len(entries) # 0
      BY <1>5
    <3>4. Len(found) = 1 /\ Len(query.bands) = 1
      BY <3>1, <3>2, <3>3
    <3>5. ~(Len(entries) > 1)
      BY <1>3, <3>4, <3>3
    <3>6. Len(entries) = 1
      BY <3>5, <3>2, <3>3
    <3> QED BY <1>4, <3>6
  <2>2. Type' = Type
    BY <1>1 DEF Type
  <2> QED BY <1>1, <1>12, <2>1, <2>2 DEF EntriesOK
<1>14. result.failure = "no time" => Filtered(Axis(EntryItems)).failure # "none"
  <2>1. ReadCog(EntryItems).failure = "none"
    BY CogLoads
  <2> QED BY <2>1 DEF result, Read, Broken, ReadNetcdf, ReadZarr
<1>15. NoTimeOK'
  <2>1. result.failure = "no time" => ~InOrder
    <3>1. EntryItems[1] \in ToSet(found) /\ Selected(EntryItems[1])
      BY <1>1, <1>4, <1>5 DEF AnswersOK
    <3>2. PICK i \in ToSet(EntryItems) : Selected(i)
      BY <1>5, <3>1
    <3> QED BY <1>2, <1>4, <1>14, <3>2, NoTimeIsDisorder DEF InOrder
  <2>2. InOrder' <=> InOrder
    <3>1. Axis(EntryItems)' = Axis(EntryItems)
      BY <1>1 DEF Axis, EntryItems, Data
    <3> QED BY <3>1 DEF InOrder
  <2> QED BY <1>1, <2>1, <2>2 DEF NoTimeOK
<1> QED BY <1>7, <1>8, <1>9, <1>11, <1>13, <1>15, RefusalsByReason DEF Loading

LEMMA LoadingStep == LoadInv /\ Loading /\ [LoadNext]_allVars => Loading'
<1> SUFFICES ASSUME LoadInv, Loading, [LoadNext]_allVars PROVE Loading'
  OBVIOUS
<1> USE DEF Items
<1>1. /\ KfpInv /\ Ingesting /\ TypeOK /\ ToSet(started) \subseteq Items
      /\ ProgressOK /\ AnswersOK /\ RefusalsAreDeserved
  BY DEF LoadInv, KfpInv, Ingesting, Loading
<1>2. ASSUME UNCHANGED <<query, found, entries, cube>>,
             failure' \in {"none", "ingestion", "open end", "reversed"},
             stage' \in Stages \ {"load"}, stage' = "failed" <=> failure' # "none",
             stage \in {"trigger", "ingest", "search"}
      PROVE  Loading'
  <2>1. AnswersOK'
    BY <1>1, <1>2, AnswersStay DEF AnswersOK
  <2>2. ProgressOK'
    BY <1>1, <1>2 DEF ProgressOK, Failures
  <2>3. RefusalsAreDeserved'
    BY <1>2 DEF RefusalsAreDeserved
  <2> QED BY <2>1, <2>2, <2>3 DEF Loading
<1>3. CASE NoHandler \/ NothingExternal \/ Compare \/ SearchOpenEnd \/ SearchReversed
  BY <1>1, <1>2, <1>3 DEF NoHandler, NothingExternal, Compare, SearchOpenEnd, SearchReversed,
     Fail, ProgressOK, Stages
<1>4. CASE Ingest
  <2>1. /\ stage' \in {"search", "failed", "ingest"} /\ stage = "ingest"
        /\ failure' = IF stage' = "failed" THEN "ingestion" ELSE "none"
        /\ UNCHANGED <<query, found, entries, cube>>
    BY <1>4 DEF Ingest
  <2> QED BY <1>2, <2>1 DEF Stages
<1>5. CASE Search
  <2> DEFINE matched == {i \in registered : Selected(i)}
  <2>1. stage = "search" /\ failure = "none" /\ entries = <<>> /\ cube = {}
    BY <1>1, <1>5 DEF Search, ProgressOK
  <2>2. CASE matched = {} /\ Fail("no item")
    <3>1. \A i \in ToSet(started) : Ready(i)
      <4>1. CASE pc = "completed"
        BY <1>1, <4>1 DEF KfpInv, Watching, UnfinishedAreWatched
      <4>2. CASE started = <<>>
        BY <4>2 DEF ToSet
      <4> QED BY <1>1, <2>1, <4>1, <4>2 DEF Ingesting
    <3>2. \A i \in ToSet(started) : status[i] # "Completed"
      BY <1>1, <2>2 DEF Ingesting
    <3>3. /\ UNCHANGED <<vars, query, found, entries, cube>>
          /\ stage' = "failed" /\ failure' = "no item"
      BY <2>2 DEF Fail
    <3>4. AnswersOK'
      BY <1>1, <3>3, AnswersStay DEF AnswersOK
    <3>5. ProgressOK'
      BY <2>1, <3>1, <3>3 DEF ProgressOK, Stages, Failures, vars, clientVars, Ready
    <3>6. RefusalsAreDeserved'
      BY <3>2, <3>3 DEF RefusalsAreDeserved, vars, clientVars
    <3> QED BY <3>4, <3>5, <3>6 DEF Loading
  <2>3. CASE /\ found' \in SetToSeqs(matched)
             /\ stage' = "group"
             /\ UNCHANGED <<vars, query, registered, missing, entries, cube, failure>>
    <3>1. IsFiniteSet(matched) /\ matched \subseteq Items
      BY <1>1, RunsAssumption, FS_Subset DEF Ingesting
    <3>2. found' \in Seq(matched) /\ ToSet(found') = matched
      BY <2>3, <3>1, SetToSeqsRange
    <3>3. found' \in Seq(Items)
      <4> HIDE DEF matched
      <4> QED BY <3>1, <3>2, SeqMonotonic
    <3>4. \A i \in ToSet(found') : Selected(i)'
      BY <2>3, <3>2, SameQuery
    <3>5. AnswersOK'
      BY <1>1, <2>1, <2>3, <3>3, <3>4 DEF AnswersOK
    <3>6. ProgressOK'
      BY <2>1, <2>3 DEF ProgressOK, Stages, Failures
    <3>7. RefusalsAreDeserved'
      BY <2>1, <2>3 DEF RefusalsAreDeserved
    <3> QED BY <3>5, <3>6, <3>7 DEF Loading
  <2> QED BY <1>5, <2>2, <2>3 DEF Search
<1>6. CASE Group
  BY <1>6, GroupKeepsLoading
<1>7. CASE Load
  BY <1>7, LoadKeepsLoading
<1>8. ASSUME UNCHANGED <<query, stage, found, entries, cube, failure, started>>,
             \A j \in Items : /\ Ready(j) => Ready(j)'
                              /\ Ready(j) /\ status'[j] = "Completed" => status[j] = "Completed"
      PROVE  Loading'
  <2>1. AnswersOK'
    BY <1>1, <1>8, AnswersStay DEF AnswersOK
  <2>2. ProgressOK'
    BY <1>1, <1>8 DEF ProgressOK
  <2>3. failure = "no item" => \A i \in ToSet(started') : status'[i] # "Completed"
    BY <1>1, <1>8 DEF RefusalsAreDeserved, ProgressOK
  <2>4. RefusalsAreDeserved'
    BY <1>1, <1>8, <2>3, RefusalsStay
  <2> QED BY <2>1, <2>2, <2>4 DEF Loading
<1>9. ASSUME NEW i \in Items, RunAdvances(i)
      PROVE  Loading'
  <2>1. \A j \in Items : Ready(j) => Ready(j)' /\ (status'[j] = "Completed" => status[j] = "Completed")
    BY <1>1, <1>9, AdvanceKeepsReady DEF RunAdvances
  <2> QED BY <1>8, <1>9, <2>1 DEF RunAdvances, clientVars
<1>10. CASE UNCHANGED allVars
  BY <1>8, <1>10 DEF allVars, loadVars, vars, clientVars, Ready
<1> QED BY <1>3, <1>4, <1>5, <1>6, <1>7, <1>9, <1>10 DEF LoadNext, Request

\* Type correctness of a request: what it finds are items, what it groups are
\* items with a media type, and the cube shows images that are in the files of
\* the items found, whatever reader was taken.
THEOREM LoadTypesHold == LoadSpec => []LoadTypeOK
<1>1. LoadInv /\ Loading => LoadTypeOK
  <2> SUFFICES ASSUME LoadInv, Loading PROVE LoadTypeOK
    OBVIOUS
  <2>1. TypeOK /\ registered \subseteq Items /\ missing \subseteq Items
    BY DEF LoadInv, KfpInv, Ingesting
  <2>2. ProgressOK /\ AnswersOK
    BY DEF Loading
  <2>3. entries \in Seq(Entry)
    BY <2>2, EntriesProperties, EmptySeq DEF AnswersOK
  <2> QED BY <2>1, <2>2, <2>3 DEF LoadTypeOK, ProgressOK, AnswersOK, Entry
<1> QED BY LoadInvInit, LoadInvStep, LoadingInit, LoadingStep, <1>1, PTL DEF LoadSpec

\* A request that gets as far as its search is refused for no other reason than
\* those the code cannot help, for any collection and any order of the answers.
THEOREM RefusalsHaveReasons == LoadSpec => []RefusalsAreDeserved
<1>1. Loading => RefusalsAreDeserved
  BY DEF Loading
<1> QED BY LoadInvInit, LoadInvStep, LoadingInit, LoadingStep, <1>1, PTL DEF LoadSpec

-----------------------------------------------------------------------------
(* The cube                                                                *)

\* The positions of an image on an axis, the entries of an item, and the slices
\* that show an image.
Positions(axis, i, t) == {n \in 1..Len(axis) : axis[n] = [item |-> i, time |-> t]}
Uses(items, i) == {k \in 1..Len(items) : items[k] = i}
Showing(slices, image) == {s \in slices : <<s.band, s.item, s.taken>> = image}

\* An image is on the axis once for every entry of its item.
LEMMA AxisCounts ==
    ASSUME IsQuery(query), NEW items \in Seq(Items), NEW i \in Items,
           NEW t \in ToSet(Data.times[i])
    PROVE  Cardinality(Positions(Axis(items), i, t)) = Cardinality(Uses(items, i))
<1> DEFINE files == FilesOf(items)
           e == [item |-> i, time |-> t]
           S == {k \in 1..Len(items) : items[k] = i}
           T == {n \in 1..Len(Axis(items)) : Axis(items)[n] = e}
<1>1. /\ Len(items) \in Nat /\ Len(files) = Len(items) /\ files \in Seq(Seq(Shot))
      /\ \A k \in 1..Len(items) : items[k] \in Items /\ files[k] = FileOf(items[k])
      /\ Axis(items) = FlattenSeq(files)
  BY FilesProperties, LenProperties
<1>2. PICK m \in 1..Len(Data.times[i]) : Data.times[i][m] = t
  BY FileProperties DEF ToSet
<1>3. \A n \in 1..Len(Data.times[i]) : Data.times[i][n] = t => n = m
  <2>1. \A k, n \in 1..Len(Data.times[i]) : k < n => Data.times[i][k] < Data.times[i][n]
    BY FileProperties DEF IsQuery, IsCollection, Data
  <2> SUFFICES ASSUME NEW n \in 1..Len(Data.times[i]), Data.times[i][n] = t PROVE n = m
    OBVIOUS
  <2>2. n < m \/ n = m \/ m < n
    BY FileProperties
  <2>3. t \in Int
    BY <1>2, FileProperties
  <2> QED BY <1>2, <2>1, <2>2, <2>3
<1> HIDE DEF files
<1>4. PICK at : Layout(at, Axis(items), files)
  BY <1>1, FlattenPlaces
<1>5. \A p \in Spots(files) :
            /\ p = <<p[1], p[2]>> /\ p[1] \in 1..Len(items)
            /\ p[2] \in 1..Len(Data.times[items[p[1]]])
            /\ files[p[1]][p[2]] = [item |-> items[p[1]], time |-> Data.times[items[p[1]]][p[2]]]
  BY <1>1, FileProperties DEF Spots
<1>6. \A k \in S : <<k, m>> \in Spots(files) /\ files[k][m] = e
  <2> SUFFICES ASSUME NEW k \in S PROVE <<k, m>> \in Spots(files) /\ files[k][m] = e
    OBVIOUS
  <2>1. /\ k \in 1..Len(files) /\ files[k] = FileOf(i)
        /\ Len(FileOf(i)) = Len(Data.times[i]) /\ Len(FileOf(i)) \in Nat
        /\ FileOf(i)[m] = e
    BY <1>1, <1>2, FileProperties
  <2> QED BY <1>1, <2>1, SpotAt
<1> DEFINE f == [k \in S |-> at[<<k, m>>]]
<1>7. f \in [S -> T]
  BY <1>4, <1>6 DEF Layout
<1>8. \A k, l \in S : f[k] = f[l] => k = l
  BY <1>4, <1>6 DEF Layout
<1>9. ASSUME NEW n \in T
      PROVE  \E k \in S : f[k] = n
  <2>1. PICK p \in Spots(files) : at[p] = n
    BY <1>4 DEF Layout
  <2>2. files[p[1]][p[2]] = e
    BY <1>4, <2>1 DEF Layout
  <2>3. /\ p = <<p[1], p[2]>> /\ p[1] \in 1..Len(items)
        /\ p[2] \in 1..Len(Data.times[items[p[1]]])
        /\ [item |-> items[p[1]], time |-> Data.times[items[p[1]]][p[2]]] = e
    BY <1>5, <2>2
  <2>4. items[p[1]] = i /\ Data.times[items[p[1]]][p[2]] = t
    BY <2>3
  <2>5. p[2] = m /\ p[1] \in S /\ p = <<p[1], m>>
    BY <1>3, <2>3, <2>4
  <2> QED BY <2>1, <2>5
<1>10. IsFiniteSet(S)
  <2>1. IsFiniteSet(1..Len(items))
    BY <1>1, FirstNumbers
  <2> QED BY <2>1, FS_Subset
<1> HIDE DEF S, T, f
<1>11. Cardinality(T) = Cardinality(S)
  BY <1>7, <1>8, <1>9, <1>10, SameSize
<1>12. S = Uses(items, i) /\ T = Positions(Axis(items), i, t)
  BY DEF S, T, Uses, Positions
<1> QED BY <1>11, <1>12

\* An item that has all bands asked for enters its group once for each.
LEMMA EntriesCount ==
    ASSUME IsQuery(query), found \in Seq(Items), IsInjective(found),
           NEW i \in ToSet(found), \A b \in Wanted : HasAsset(i, b)
    PROVE  Cardinality({k \in 1..Len(Entries(found, query.bands)) :
                           Entries(found, query.bands)[k].item = i}) = Len(query.bands)
<1> DEFINE all == Entries(found, query.bands)
           S == 1..Len(query.bands)
           T == {k \in 1..Len(all) : all[k].item = i}
<1>1. /\ Len(found) \in Nat /\ DOMAIN found = 1..Len(found)
      /\ \A n \in 1..Len(found) : found[n] \in Items
  BY LenProperties, ElementOfSeq
<1>2. PICK n \in 1..Len(found) : found[n] = i
  BY <1>1 DEF ToSet
<1>3. \A l \in 1..Len(found) : found[l] = i => l = n
  BY <1>1, <1>2 DEF IsInjective
<1>4. /\ i \in Items /\ Len(query.bands) \in Nat
      /\ \A m \in S : query.bands[m] \in Wanted
  BY <1>1, <1>2, LenProperties DEF IsQuery, Wanted, ToSet
<1>5. PICK outer : Layout(outer, all, AllEntries)
  BY AllEntriesProperties, FlattenPlaces
<1>6. PICK inner : Layout(inner, EntriesOf(i), PartsOf(i))
  BY <1>4, EntriesOfProperties, FlattenPlaces DEF EntriesOf
<1>7. ASSUME NEW p \in Spots(AllEntries)
      PROVE  /\ p = <<p[1], p[2]>> /\ p[1] \in 1..Len(found)
             /\ p[2] \in 1..Len(EntriesOf(found[p[1]]))
             /\ all[outer[p]].item = found[p[1]]
  <2>1. /\ p = <<p[1], p[2]>> /\ p[1] \in 1..Len(found)
        /\ p[2] \in 1..Len(AllEntries[p[1]])
    BY AllEntriesProperties DEF Spots
  <2>2. AllEntries[p[1]] = EntriesOf(found[p[1]]) /\ found[p[1]] \in Items
    BY <1>1, <2>1, AllEntriesProperties
  <2>3. EntriesOf(found[p[1]])[p[2]] \in ToSet(EntriesOf(found[p[1]]))
    <3>1. DOMAIN EntriesOf(found[p[1]]) = 1..Len(EntriesOf(found[p[1]]))
      BY <2>2, EntriesOfProperties, LenProperties
    <3> QED BY <2>1, <2>2, <3>1 DEF ToSet
  <2>4. EntriesOf(found[p[1]])[p[2]].item = found[p[1]]
    BY <2>2, <2>3, EntriesOfProperties
  <2> QED BY <1>5, <2>1, <2>2, <2>4 DEF Layout
<1>8. ASSUME NEW p \in Spots(PartsOf(i))
      PROVE  p = <<p[1], 1>> /\ p[1] \in S
  <2>1. /\ p = <<p[1], p[2]>> /\ p[1] \in S /\ p[2] \in 1..Len(PartsOf(i)[p[1]])
    BY <1>4, EntriesOfProperties DEF Spots
  <2>2. PartsOf(i)[p[1]] = EntryOf(i, query.bands[p[1]]) /\ query.bands[p[1]] \in Wanted
    BY <1>4, <2>1, EntriesOfProperties
  <2>3. Len(PartsOf(i)[p[1]]) = 1
    BY <1>4, <2>2, EntryOfProperties
  <2>4. p[2] = 1
    BY <2>1, <2>3
  <2> QED BY <2>1, <2>4
<1>9. \A m \in S : <<m, 1>> \in Spots(PartsOf(i))
  <2> SUFFICES ASSUME NEW m \in S PROVE <<m, 1>> \in Spots(PartsOf(i))
    OBVIOUS
  <2>1. Len(PartsOf(i)[m]) = 1 /\ Len(PartsOf(i)) = Len(query.bands)
    BY <1>4, EntriesOfProperties, EntryOfProperties
  <2>2. Len(PartsOf(i)) \in Nat /\ m \in 1..Len(PartsOf(i)) /\ 1 \in 1..Len(PartsOf(i)[m])
    BY <1>4, <2>1
  <2>3. \A x \in 1..Len(PartsOf(i)[m]) : <<m, x>> \in Spots(PartsOf(i))
    <3>1. Len(PartsOf(i)[m]) \in Nat
      BY <2>1
    <3> QED BY <2>2, <3>1, SpotAt
  <2> QED BY <2>2, <2>3
<1>10. \A k \in 1..Len(EntriesOf(i)) : <<n, k>> \in Spots(AllEntries)
  <2>1. AllEntries[n] = EntriesOf(i) /\ Len(AllEntries) = Len(found)
    BY <1>2, AllEntriesProperties
  <2> QED BY <1>1, <2>1 DEF Spots
<1> DEFINE f == [m \in S |-> outer[<<n, inner[<<m, 1>>]>>]]
<1>11. ASSUME NEW m \in S
       PROVE  /\ inner[<<m, 1>>] \in 1..Len(EntriesOf(i))
              /\ <<n, inner[<<m, 1>>]>> \in Spots(AllEntries)
              /\ f[m] = outer[<<n, inner[<<m, 1>>]>>] /\ f[m] \in T
  <2> DEFINE p == <<n, inner[<<m, 1>>]>>
  <2>1. inner[<<m, 1>>] \in 1..Len(EntriesOf(i))
    BY <1>6, <1>9 DEF Layout
  <2>2. p \in Spots(AllEntries) /\ p[1] = n
    BY <1>10, <2>1
  <2> HIDE DEF p
  <2>3. outer[p] \in T
    BY <1>2, <1>5, <1>7, <2>2 DEF Layout
  <2> QED BY <2>1, <2>2, <2>3 DEF p
<1>12. f \in [S -> T]
  BY <1>11
<1>13. \A m, l \in S : f[m] = f[l] => m = l
  <2> SUFFICES ASSUME NEW m \in S, NEW l \in S, f[m] = f[l] PROVE m = l
    OBVIOUS
  <2>1. <<n, inner[<<m, 1>>]>> = <<n, inner[<<l, 1>>]>>
    BY <1>5, <1>11 DEF Layout
  <2>2. inner[<<m, 1>>] = inner[<<l, 1>>]
    BY <2>1
  <2>3. <<m, 1>> = <<l, 1>>
    BY <1>6, <1>9, <2>2 DEF Layout
  <2> QED BY <2>3
<1>14. ASSUME NEW k \in T
       PROVE  \E m \in S : f[m] = k
  <2>1. PICK p \in Spots(AllEntries) : outer[p] = k
    BY <1>5 DEF Layout
  <2>2. p[1] = n /\ p = <<n, p[2]>> /\ p[2] \in 1..Len(EntriesOf(i))
    BY <1>2, <1>3, <1>7, <2>1
  <2>3. PICK q \in Spots(PartsOf(i)) : inner[q] = p[2]
    BY <1>6, <2>2 DEF Layout
  <2>4. q = <<q[1], 1>> /\ q[1] \in S
    BY <1>8
  <2>5. f[q[1]] = k
    BY <1>11, <2>1, <2>2, <2>3, <2>4
  <2> QED BY <2>4, <2>5
<1>15. IsFiniteSet(S) /\ Cardinality(S) = Len(query.bands)
  BY <1>4, FirstNumbers
<1> HIDE DEF S, T, f
<1>16. Cardinality(T) = Cardinality(S)
  BY <1>12, <1>13, <1>14, <1>15, SameSize
<1> QED BY <1>15, <1>16 DEF T

\* On labels in order the filter takes those of the extent, if there are any.
LEMMA FilterExact ==
    ASSUME NEW labels \in Seq(Int), NEW start \in Int, NEW end \in Int,
           \A m, n \in 1..Len(labels) : m < n => labels[m] <= labels[n],
           NEW inside \in 1..Len(labels), labels[inside] \in start..end
    PROVE  \E from, to \in 0..Len(labels) :
              /\ FilterSlice(labels, start, end) = <<from, to>>
              /\ \A n \in 1..Len(labels) :
                    labels[n] \in start..end <=> from < n /\ n <= to
<1> DEFINE less == [n \in DOMAIN labels |-> labels[n] < start]
           upto == [n \in DOMAIN labels |-> labels[n] <= end]
           from == Bisect(less)
           to == Bisect(upto)
<1>1. /\ Len(labels) \in Nat /\ DOMAIN labels = 1..Len(labels)
      /\ \A n \in 1..Len(labels) : labels[n] \in Int
  BY LenProperties, ElementOfSeq
<1>2. Len(less) = Len(labels)
  <2>1. DOMAIN less = 1..Len(labels) /\ less = [m \in 1..Len(labels) |-> less[m]]
    BY <1>1
  <2> HIDE DEF less
  <2> QED BY <1>1, <2>1, MarksOf
<1>3. Len(upto) = Len(labels)
  <2>1. DOMAIN upto = 1..Len(labels) /\ upto = [m \in 1..Len(labels) |-> upto[m]]
    BY <1>1
  <2> HIDE DEF upto
  <2> QED BY <1>1, <2>1, MarksOf
<1>4. \A n \in 1..Len(labels) : /\ less[n] <=> labels[n] < start
                                /\ upto[n] <=> labels[n] <= end
  BY <1>1
<1>5. FilterSlice(labels, start, end) =
          IF from # to THEN <<from, to>>
          ELSE IF from < Len(labels) THEN <<from, from + 1>> ELSE NoSlice
  BY DEF FilterSlice, BisectLeft, BisectRight
<1> HIDE DEF less, upto
<1>6. \A m, n \in 1..Len(labels) : m < n => /\ less[n] => less[m]
                                            /\ upto[n] => upto[m]
  BY <1>1, <1>4
<1>7. /\ from \in 0..Len(labels) /\ to \in 0..Len(labels)
      /\ \A n \in 1..Len(labels) : /\ n <= from => less[n]
                                   /\ n > from => ~less[n]
                                   /\ n <= to => upto[n]
                                   /\ n > to => ~upto[n]
  BY <1>1, <1>2, <1>3, <1>6, BisectProperties
<1> HIDE DEF from, to
<1>8. \A n \in 1..Len(labels) : labels[n] \in start..end <=> from < n /\ n <= to
  <2> SUFFICES ASSUME NEW n \in 1..Len(labels)
               PROVE  labels[n] \in start..end <=> from < n /\ n <= to
    OBVIOUS
  <2>1. less[n] <=> n <= from
    BY <1>1, <1>7
  <2>2. upto[n] <=> n <= to
    BY <1>1, <1>7
  <2> QED BY <1>1, <1>4, <1>7, <2>1, <2>2
<1>9. from # to
  BY <1>1, <1>7, <1>8
<1> QED BY <1>5, <1>7, <1>8, <1>9

\* So the readers of files show the images of the extent, each at its place.
Inside(axis) == {k \in 1..Len(axis) : axis[k].time \in query.start..query.end}
ShotSlice(axis, from, b, n) == Slice(b, axis[n].time, n - from, axis[n].item, axis[n].time)
InsideSlices(axis, from) == {ShotSlice(axis, from, b, n) : b \in Wanted, n \in Inside(axis)}

LEMMA FilteredExact ==
    ASSUME IsQuery(query), query.end \in Int, NEW axis \in Seq(Shot),
           \A n \in 1..(Len(axis) - 1) : axis[n].time <= axis[n + 1].time,
           NEW inside \in 1..Len(axis), axis[inside].time \in query.start..query.end
    PROVE  \E from \in Nat : Filtered(axis).cube = InsideSlices(axis, from)
<1> DEFINE labels == [n \in DOMAIN axis |-> axis[n].time]
           In(k) == axis[k].time \in query.start..query.end
           slice == FilterSlice(labels, query.start, query.end)
<1>1. /\ Len(axis) \in Nat /\ DOMAIN axis = 1..Len(axis)
      /\ \A n \in 1..Len(axis) : axis[n] \in Shot /\ axis[n].time \in Int
  <2>1. Len(axis) \in Nat /\ DOMAIN axis = 1..Len(axis) /\ \A n \in 1..Len(axis) : axis[n] \in Shot
    BY LenProperties, ElementOfSeq
  <2> QED BY <2>1 DEF Shot
<1>2. /\ labels \in Seq(Int) /\ Len(labels) = Len(axis)
      /\ \A n \in 1..Len(axis) : labels[n] = axis[n].time
  <2>1. labels \in [1..Len(axis) -> Int] /\ \A n \in 1..Len(axis) : labels[n] = axis[n].time
    BY <1>1
  <2> HIDE DEF labels
  <2> QED BY <1>1, <2>1, FunctionIsSeq
<1>3. Filtered(axis) =
          IF slice = NoSlice THEN Broken("no time")
          ELSE Loaded(SlicesOf(SubSeq(axis, slice[1] + 1, slice[2])))
  BY DEF Filtered, FilterByTime
<1> HIDE DEF labels
<1>4. \A m, n \in 1..Len(labels) : m < n => labels[m] <= labels[n]
  <2>1. \A n \in 1..(Len(axis) - 1) : n \in 1..Len(axis) /\ n + 1 \in 1..Len(axis)
    BY <1>1
  <2>2. \A n \in 1..(Len(labels) - 1) : labels[n] <= labels[n + 1]
    BY <1>2, <2>1
  <2> QED BY <1>2, <2>2, AscendingSeq
<1>5. PICK from \in 0..Len(labels), to \in 0..Len(labels) :
          /\ slice = <<from, to>>
          /\ \A n \in 1..Len(labels) :
                labels[n] \in query.start..query.end <=> from < n /\ n <= to
  <2>1. query.start \in Int /\ inside \in 1..Len(labels)
        /\ labels[inside] \in query.start..query.end
    BY <1>2 DEF IsQuery
  <2> QED BY <1>2, <1>4, <2>1, FilterExact
<1> DEFINE left == SubSeq(axis, from + 1, to)
<1>6. /\ from \in Nat /\ to \in Nat /\ to <= Len(axis) /\ from < inside /\ inside <= to
      /\ \A n \in 1..Len(axis) : In(n) <=> from < n /\ n <= to
  <2>1. \A n \in 1..Len(axis) : In(n) <=> from < n /\ n <= to
    <3>1. \A n \in 1..Len(axis) : In(n) <=> labels[n] \in query.start..query.end
      BY <1>2
    <3> HIDE DEF In
    <3> QED BY <1>2, <1>5, <3>1
  <2>2. from < inside /\ inside <= to
    <3> HIDE DEF In
    <3>1. In(inside)
      BY DEF In
    <3> QED BY <2>1, <3>1
  <2> HIDE DEF In
  <2> QED BY <1>1, <1>2, <2>1, <2>2
<1> HIDE DEF slice
<1>7. Filtered(axis).cube = SlicesOf(left)
  <2>1. <<from, to>> # NoSlice
    BY <1>6 DEF NoSlice
  <2>2. Filtered(axis) = Loaded(SlicesOf(left))
    <3>1. slice # NoSlice /\ slice[1] = from /\ slice[2] = to
      BY <1>5, <2>1
    <3> QED BY <1>3, <3>1
  <2> HIDE DEF left
  <2> QED BY <2>2 DEF Loaded
<1>8. /\ DOMAIN left = 1..to - from
      /\ \A n \in 1..to - from : left[n] = axis[from + n]
  <2>1. from + 1 \in Int /\ to \in Int /\ \A n \in from + 1..to : axis[n] \in Shot
    BY <1>1, <1>6
  <2>2. /\ left \in Seq(Shot)
        /\ Len(left) = IF from + 1 <= to THEN to - (from + 1) + 1 ELSE 0
        /\ \A n \in 1..to - (from + 1) + 1 : left[n] = axis[from + 1 + n - 1]
    BY <2>1, SubSeqProperties
  <2> HIDE DEF left
  <2>3. Len(left) = to - from /\ to - (from + 1) + 1 = to - from
        /\ \A n \in 1..to - from : from + 1 + n - 1 = from + n
    BY <1>6, <2>2
  <2>4. DOMAIN left = 1..Len(left)
    BY <2>2, LenProperties
  <2> QED BY <2>2, <2>3, <2>4
<1> HIDE DEF left
<1> DEFINE S(b, n) == Slice(b, axis[n].time, n - from, axis[n].item, axis[n].time)
<1>9. \A x : x \in SlicesOf(left) <=> \E b \in Wanted, n \in 1..to - from : x = S(b, from + n)
  <2>1. \A b : \A n \in 1..to - from :
            Slice(b, left[n].time, n, left[n].item, left[n].time) = S(b, from + n)
    <3>1. \A n \in 1..to - from : from + n - from = n
      BY <1>6
    <3> QED BY <1>8, <3>1
  <2>2. SlicesOf(left) = {Slice(b, left[n].time, n, left[n].item, left[n].time) :
                             b \in Wanted, n \in DOMAIN left}
    BY DEF SlicesOf, Wanted
  <2> HIDE DEF S
  <2> QED BY <1>8, <2>1, <2>2
<1>10. \A x : x \in SlicesOf(left) <=>
                \E b \in Wanted, n \in {k \in 1..Len(axis) : In(k)} : x = S(b, n)
  <2>1. \A n \in 1..to - from : from + n \in 1..Len(axis) /\ In(from + n)
    <3> HIDE DEF In
    <3> QED BY <1>1, <1>6
  <2>2. \A n \in 1..Len(axis) : In(n) => n - from \in 1..to - from /\ from + (n - from) = n
    <3> HIDE DEF In
    <3> QED BY <1>1, <1>6
  <2> HIDE DEF In, S
  <2> QED BY <1>9, <2>1, <2>2
<1>11. SlicesOf(left) = {S(b, n) : b \in Wanted, n \in {k \in 1..Len(axis) : In(k)}}
  <2> HIDE DEF In, S
  <2> QED BY <1>10
<1>12. InsideSlices(axis, from) = {S(b, n) : b \in Wanted, n \in {k \in 1..Len(axis) : In(k)}}
  BY DEF InsideSlices, Inside, ShotSlice
<1> HIDE DEF S, In
<1> QED BY <1>6, <1>7, <1>11, <1>12

\* An image is shown once for every position it has on the axis.
LEMMA SlicesCount ==
    ASSUME query.end \in Int, NEW axis \in Seq(Shot), NEW from \in Nat,
           NEW b \in Wanted, NEW i \in Items, NEW t \in query.start..query.end
    PROVE  Cardinality(Showing(InsideSlices(axis, from), <<b, i, t>>)) =
              Cardinality(Positions(axis, i, t))
<1> DEFINE S == Positions(axis, i, t)
           T == Showing(InsideSlices(axis, from), <<b, i, t>>)
           f == [n \in S |-> ShotSlice(axis, from, b, n)]
<1>1. Len(axis) \in Nat /\ \A n \in 1..Len(axis) : axis[n] \in Shot
  BY LenProperties, ElementOfSeq
<1>2. ASSUME NEW n \in S
      PROVE  /\ f[n] \in T /\ f[n].place = n - from
             /\ f[n] = ShotSlice(axis, from, b, n)
  <2>1. n \in Inside(axis) /\ axis[n].item = i /\ axis[n].time = t
    BY DEF Inside, Positions
  <2>2. ShotSlice(axis, from, b, n) \in InsideSlices(axis, from)
    BY <2>1 DEF InsideSlices
  <2>3. ShotSlice(axis, from, b, n) \in T
    BY <2>1, <2>2 DEF Showing, ShotSlice, Slice
  <2>4. ShotSlice(axis, from, b, n).place = n - from
    BY DEF ShotSlice, Slice
  <2> QED BY <2>2, <2>3, <2>4
<1>3. f \in [S -> T]
  BY <1>2
<1>4. \A m, n \in S : f[m] = f[n] => m = n
  <2> SUFFICES ASSUME NEW m \in S, NEW n \in S, f[m] = f[n] PROVE m = n
    OBVIOUS
  <2>1. m - from = n - from
    BY <1>2
  <2> QED BY <1>1, <2>1 DEF Positions
<1>5. ASSUME NEW s \in T
      PROVE  \E n \in S : f[n] = s
  <2>1. PICK c \in Wanted, n \in Inside(axis) : s = ShotSlice(axis, from, c, n)
    BY DEF InsideSlices, Showing
  <2>2. c = b /\ axis[n].item = i /\ axis[n].time = t
    BY <2>1 DEF Showing, ShotSlice, Slice
  <2>3. n \in S
    BY <1>1, <2>2 DEF Shot, Inside, Positions
  <2> QED BY <2>1, <2>2, <2>3
<1>6. IsFiniteSet(S)
  <2>1. IsFiniteSet(1..Len(axis))
    BY <1>1, FirstNumbers
  <2> QED BY <2>1, FS_Subset DEF Positions
<1> HIDE DEF S, T, f
<1>7. Cardinality(T) = Cardinality(S)
  BY <1>3, <1>4, <1>5, <1>6, SameSize
<1> QED BY <1>7 DEF S, T

\* What the filter leaves of the files of some items, when their times ascend and
\* one of them lies in the extent.
LEMMA FilesExact ==
    ASSUME IsQuery(query), query.end \in Int, NEW items \in Seq(Items),
           \A n \in 1..(Len(Axis(items)) - 1) : Axis(items)[n].time <= Axis(items)[n + 1].time,
           NEW i \in ToSet(items), NEW t \in ToSet(Data.times[i]) \cap (query.start..query.end)
    PROVE  /\ \A s \in Filtered(Axis(items)).cube :
                /\ s.time = s.taken /\ s.band \in Wanted /\ s.item \in ToSet(items)
                /\ s.taken \in ToSet(Data.times[s.item]) \cap (query.start..query.end)
           /\ \A b \in Wanted :
                Cardinality(Showing(Filtered(Axis(items)).cube, <<b, i, t>>)) =
                    Cardinality(Uses(items, i))
<1> DEFINE axis == Axis(items)
<1>1. /\ axis \in Seq(Shot) /\ Len(axis) \in Nat /\ DOMAIN axis = 1..Len(axis)
      /\ \A n \in 1..Len(axis) : axis[n] \in Shot /\ axis[n] \in ToSet(axis)
  <2>1. axis \in Seq(Shot)
    BY AxisProperties
  <2> HIDE DEF axis
  <2> QED BY <2>1, LenProperties, ElementOfSeq DEF ToSet
<1>2. \A n \in 1..Len(axis) :
          axis[n].item \in ToSet(items) /\ axis[n].time \in ToSet(Data.times[axis[n].item])
  <2>1. \A e \in ToSet(axis) : e.item \in ToSet(items) /\ e.time \in ToSet(Data.times[e.item])
    BY AxisProperties
  <2> HIDE DEF axis
  <2> QED BY <1>1, <2>1
<1>3. i \in Items /\ t \in Int /\ t \in query.start..query.end
  BY LenProperties, ElementOfSeq DEF ToSet, IsQuery
<1>4. PICK inside \in 1..Len(axis) : axis[inside] = [item |-> i, time |-> t]
  <2>1. [item |-> i, time |-> t] \in ToSet(axis)
    BY <1>3, AxisProperties
  <2> HIDE DEF axis
  <2> QED BY <1>1, <2>1 DEF ToSet
<1>5. PICK from \in Nat : Filtered(axis).cube = InsideSlices(axis, from)
  <2>1. axis[inside].time \in query.start..query.end
    BY <1>3, <1>4
  <2>2. \A n \in 1..(Len(axis) - 1) : axis[n].time <= axis[n + 1].time
    OBVIOUS
  <2> HIDE DEF axis
  <2> QED BY <1>1, <2>1, <2>2, FilteredExact
<1>6. ASSUME NEW s \in Filtered(axis).cube
      PROVE  /\ s.time = s.taken /\ s.band \in Wanted /\ s.item \in ToSet(items)
             /\ s.taken \in ToSet(Data.times[s.item]) \cap (query.start..query.end)
  <2> HIDE DEF axis
  <2>1. PICK b \in Wanted, n \in Inside(axis) : s = ShotSlice(axis, from, b, n)
    BY <1>5 DEF InsideSlices
  <2>2. n \in 1..Len(axis) /\ axis[n].time \in query.start..query.end
    BY DEF Inside
  <2>3. s.time = s.taken /\ s.band = b /\ s.item = axis[n].item /\ s.taken = axis[n].time
    BY <2>1 DEF ShotSlice, Slice
  <2> QED BY <1>2, <2>2, <2>3
<1>7. ASSUME NEW b \in Wanted
      PROVE  Cardinality(Showing(Filtered(axis).cube, <<b, i, t>>)) = Cardinality(Uses(items, i))
  <2>1. Cardinality(Positions(axis, i, t)) = Cardinality(Uses(items, i))
    BY <1>3, AxisCounts
  <2> HIDE DEF axis
  <2>2. Cardinality(Showing(InsideSlices(axis, from), <<b, i, t>>)) =
            Cardinality(Positions(axis, i, t))
    BY <1>1, <1>3, SlicesCount
  <2> QED BY <1>5, <2>1, <2>2
<1> QED BY <1>6, <1>7

\* The items of the entries are those found that have a band asked for.
LEMMA EntryItemsOfFound ==
    ASSUME IsQuery(query), found \in Seq(Items), entries = Entries(found, query.bands)
    PROVE  /\ entries \in Seq(Entry) /\ EntryItems \in Seq(Items) /\ Len(EntryItems) = Len(entries)
           /\ \A n \in 1..Len(entries) : EntryItems[n] = entries[n].item
           /\ ToSet(EntryItems) \subseteq ToSet(found)
           /\ \A i \in ToSet(found) : \A b \in Wanted \cap Data.offers[i] :
                /\ HasAsset(i, b) /\ i \in ToSet(EntryItems)
                /\ [item |-> i, type |-> AssetOf(i, b).type] \in ToSet(entries)
           /\ \A e \in ToSet(entries) : \E b \in Wanted :
                HasAsset(e.item, b) /\ e.type = AssetOf(e.item, b).type
<1>1. /\ entries \in Seq(Entry)
      /\ \A e : e \in ToSet(entries) <=>
                \E i \in ToSet(found), b \in Wanted :
                    HasAsset(i, b) /\ e = [item |-> i, type |-> AssetOf(i, b).type]
  BY EntriesProperties
<1>2. /\ EntryItems \in Seq(Items) /\ Len(EntryItems) = Len(entries)
      /\ \A i : i \in ToSet(EntryItems) <=> \E e \in ToSet(entries) : i = e.item
      /\ \A n \in 1..Len(entries) : EntryItems[n] = entries[n].item
  BY <1>1, EntryItemsProperties DEF Entry
<1>3. ToSet(EntryItems) \subseteq ToSet(found)
  BY <1>1, <1>2
<1>4. ASSUME NEW i \in ToSet(found), NEW b \in Wanted \cap Data.offers[i]
      PROVE  /\ HasAsset(i, b) /\ i \in ToSet(EntryItems)
             /\ [item |-> i, type |-> AssetOf(i, b).type] \in ToSet(entries)
  <2>1. i \in Items
    BY LenProperties, ElementOfSeq DEF ToSet
  <2>2. DataKey \in Keys(i) \/ Data.offers[i] \subseteq Keys(i)
    BY <2>1 DEF IsQuery, IsCollection, Data, Keys
  <2>3. HasAsset(i, b)
    BY <2>2 DEF HasAsset
  <2>4. [item |-> i, type |-> AssetOf(i, b).type] \in ToSet(entries)
    BY <1>1, <2>3
  <2>5. \E e \in ToSet(entries) : i = e.item
    <3>1. [item |-> i, type |-> AssetOf(i, b).type].item = i
      OBVIOUS
    <3> QED BY <2>4, <3>1
  <2> QED BY <1>2, <2>3, <2>4, <2>5
<1>5. \A e \in ToSet(entries) : \E b \in Wanted :
          HasAsset(e.item, b) /\ e.type = AssetOf(e.item, b).type
  BY <1>1
<1> QED BY <1>1, <1>2, <1>3, <1>4, <1>5

LEMMA ImagesAre ==
    \A image : image \in Images <=>
        \E i \in ToSet(found) : \E b \in Wanted \cap Data.offers[i],
                                   t \in ToSet(Data.times[i]) \cap (query.start..query.end) :
            image = <<b, i, t>>
<1> DEFINE of(i) == {<<b, i, t>> : b \in Wanted \cap Data.offers[i],
                          t \in ToSet(Data.times[i]) \cap (query.start..query.end)}
<1>1. Images = UNION {of(i) : i \in ToSet(found)}
  BY DEF Images
<1>2. \A image : image \in Images <=> \E i \in ToSet(found) : image \in of(i)
  <2> HIDE DEF of
  <2> QED BY <1>1
<1> QED BY <1>2

\* What CubeIsExact says of the slices, for a number of slices of each image.
Exact(slices, number) ==
    /\ \A s \in slices : s.time = s.taken /\ <<s.band, s.item, s.taken>> \in Images
    /\ \A image \in Images : Cardinality(Showing(slices, image)) = number

LEMMA NetcdfExact ==
    ASSUME IsQuery(query), query.end \in Int, found \in Seq(Items), IsInjective(found),
           entries = Entries(found, query.bands),
           ReadNetcdf(EntryItems).failure = "none", InOrder, Listed, Images # {}
    PROVE  Exact(ReadNetcdf(EntryItems).cube, Len(query.bands))
<1>1. /\ EntryItems \in Seq(Items) /\ Len(EntryItems) = Len(entries)
      /\ \A n \in 1..Len(entries) : EntryItems[n] = entries[n].item
      /\ ToSet(EntryItems) \subseteq ToSet(found)
      /\ \A i \in ToSet(found) : \A b \in Wanted \cap Data.offers[i] :
            HasAsset(i, b) /\ i \in ToSet(EntryItems)
  BY EntryItemsOfFound
<1>2. /\ \A i \in ToSet(EntryItems) : Wanted \subseteq Data.offers[i]
      /\ ReadNetcdf(EntryItems) = Filtered(Axis(EntryItems))
  BY <1>1 DEF ReadNetcdf, Broken, Wanted, Listed
<1>3. \A n \in 1..(Len(Axis(EntryItems)) - 1) :
          Axis(EntryItems)[n].time <= Axis(EntryItems)[n + 1].time
  BY DEF InOrder
<1>4. ASSUME NEW i \in ToSet(found), NEW b \in Wanted \cap Data.offers[i]
      PROVE  Cardinality(Uses(EntryItems, i)) = Len(query.bands)
  <2>1. \A c \in Wanted : HasAsset(i, c)
    BY <1>1, <1>2
  <2>2. Cardinality({k \in 1..Len(entries) : entries[k].item = i}) = Len(query.bands)
    BY <2>1, EntriesCount
  <2>3. Uses(EntryItems, i) = {k \in 1..Len(entries) : entries[k].item = i}
    BY <1>1 DEF Uses
  <2> QED BY <2>2, <2>3
<1>5. ASSUME NEW i \in ToSet(found), NEW b \in Wanted \cap Data.offers[i],
             NEW t \in ToSet(Data.times[i]) \cap (query.start..query.end)
      PROVE  /\ \A s \in Filtered(Axis(EntryItems)).cube :
                  /\ s.time = s.taken /\ s.band \in Wanted /\ s.item \in ToSet(EntryItems)
                  /\ s.taken \in ToSet(Data.times[s.item]) \cap (query.start..query.end)
             /\ Cardinality(Showing(Filtered(Axis(EntryItems)).cube, <<b, i, t>>)) = Len(query.bands)
  <2>1. i \in ToSet(EntryItems)
    BY <1>1
  <2> QED BY <1>1, <1>3, <1>4, <2>1, FilesExact
<1>6. \A s \in Filtered(Axis(EntryItems)).cube :
          s.time = s.taken /\ <<s.band, s.item, s.taken>> \in Images
  <2>1. PICK i \in ToSet(found) : \E b \in Wanted \cap Data.offers[i],
                                   t \in ToSet(Data.times[i]) \cap (query.start..query.end) : TRUE
    BY ImagesAre
  <2> QED BY <1>1, <1>2, <1>5, <2>1, ImagesAre
<1>7. \A image \in Images :
          Cardinality(Showing(Filtered(Axis(EntryItems)).cube, image)) = Len(query.bands)
  BY <1>5, ImagesAre
<1> QED BY <1>2, <1>6, <1>7 DEF Exact

LEMMA ZarrExact ==
    ASSUME IsQuery(query), query.end \in Int, found \in Seq(Items),
           entries = Entries(found, query.bands),
           ReadZarr(EntryItems).failure = "none", InOrder, Listed, Images # {}
    PROVE  Exact(ReadZarr(EntryItems).cube, 1)
<1>1. /\ EntryItems \in Seq(Items) /\ ToSet(EntryItems) \subseteq ToSet(found)
      /\ \A i \in ToSet(found) : \A b \in Wanted \cap Data.offers[i] : i \in ToSet(EntryItems)
  BY EntryItemsOfFound
<1>2. /\ Len(EntryItems) = 1 /\ Wanted \subseteq FileBands(EntryItems[1])
      /\ ReadZarr(EntryItems) = Filtered(Axis(EntryItems))
  BY DEF ReadZarr, Broken, Wanted
<1>3. \A i \in ToSet(EntryItems) : i = EntryItems[1] /\ Wanted \subseteq Data.offers[i]
  <2>1. \A i \in ToSet(EntryItems) : i = EntryItems[1]
    <3>1. DOMAIN EntryItems = 1..1
      BY <1>1, <1>2, LenProperties
    <3> HIDE DEF EntryItems
    <3> QED BY <3>1 DEF ToSet
  <2> QED BY <1>1, <1>2, <2>1 DEF Listed
<1>4. \A n \in 1..(Len(Axis(EntryItems)) - 1) :
          Axis(EntryItems)[n].time <= Axis(EntryItems)[n + 1].time
  BY DEF InOrder
<1>5. ASSUME NEW i \in ToSet(EntryItems)
      PROVE  Cardinality(Uses(EntryItems, i)) = 1
  <2>1. Uses(EntryItems, i) = {1}
    BY <1>2, <1>3 DEF Uses
  <2> QED BY <2>1, FS_Singleton
<1>6. ASSUME NEW i \in ToSet(found), NEW b \in Wanted \cap Data.offers[i],
             NEW t \in ToSet(Data.times[i]) \cap (query.start..query.end)
      PROVE  /\ \A s \in Filtered(Axis(EntryItems)).cube :
                  /\ s.time = s.taken /\ s.band \in Wanted /\ s.item \in ToSet(EntryItems)
                  /\ s.taken \in ToSet(Data.times[s.item]) \cap (query.start..query.end)
             /\ Cardinality(Showing(Filtered(Axis(EntryItems)).cube, <<b, i, t>>)) = 1
  <2>1. i \in ToSet(EntryItems)
    BY <1>1
  <2> QED BY <1>1, <1>4, <1>5, <2>1, FilesExact
<1>7. \A s \in Filtered(Axis(EntryItems)).cube :
          s.time = s.taken /\ <<s.band, s.item, s.taken>> \in Images
  <2>1. PICK i \in ToSet(found) : \E b \in Wanted \cap Data.offers[i],
                                   t \in ToSet(Data.times[i]) \cap (query.start..query.end) : TRUE
    BY ImagesAre
  <2> QED BY <1>1, <1>3, <1>6, <2>1, ImagesAre
<1>8. \A image \in Images : Cardinality(Showing(Filtered(Axis(EntryItems)).cube, image)) = 1
  BY <1>6, ImagesAre
<1> QED BY <1>2, <1>7, <1>8 DEF Exact

\* Items that are labelled with bands asked for are labelled with all they have.
LEMMA LabelsExact ==
    ASSUME IsQuery(query), NEW i \in Items, ToSet(Labels(i)) \subseteq Wanted \ {DataKey}
    PROVE  ToSet(Labels(i)) = Wanted \cap Data.offers[i]
<1> DEFINE offers == Data.offers[i]
<1>1. IsFiniteSet(offers)
  BY DEF IsQuery, IsCollection, Data
<1>2. CASE DataKey \in Keys(i) /\ Cardinality(offers) # 1
  <2>1. Labels(i) = <<DataKey>>
    BY <1>2 DEF Labels
  <2>2. DataKey \in ToSet(<<DataKey>>)
    BY DEF ToSet
  <2> QED BY <2>1, <2>2
<1>3. CASE DataKey \in Keys(i) /\ Cardinality(offers) = 1
  <2>1. Labels(i) = SetToSeq(offers)
    BY <1>3 DEF Labels, TakenBands
  <2> HIDE DEF offers
  <2>2. PICK x : offers = {x}
    BY <1>1, <1>3, FS_Singleton
  <2> DEFINE F == [1..1 -> {x}]
             seq == CHOOSE f \in F : IsInjective(f)
  <2>3. SetToSeq(offers) = seq
    BY <1>3, <2>2 DEF SetToSeq
  <2>4. \E f \in F : IsInjective(f)
    <3>1. [k \in 1..1 |-> x] \in F /\ IsInjective([k \in 1..1 |-> x])
      BY DEF IsInjective
    <3> QED BY <3>1
  <2>5. seq \in F
    BY <2>4
  <2> HIDE DEF seq
  <2>6. ToSet(seq) = {x}
    BY <2>5 DEF ToSet
  <2>7. ToSet(Labels(i)) = offers
    BY <2>1, <2>2, <2>3, <2>6
  <2> QED BY <2>7 DEF offers
<1>4. CASE DataKey \notin Keys(i)
  <2> DEFINE bands == query.bands
             part(m) == IF bands[m] \in offers THEN <<bands[m]>> ELSE <<>>
             parts == [m \in DOMAIN bands |-> part(m)]
  <2>1. /\ Len(bands) \in Nat /\ DOMAIN bands = 1..Len(bands)
        /\ Wanted = {bands[m] : m \in 1..Len(bands)}
    BY LenProperties DEF IsQuery, Wanted, ToSet
  <2>2. Labels(i) = FlattenSeq(parts)
    BY <1>4 DEF Labels, TakenBands
  <2> HIDE DEF bands, offers
  <2>3. ASSUME NEW m \in 1..Len(bands)
        PROVE  /\ part(m) \in Seq(Wanted)
               /\ \A e : e \in ToSet(part(m)) <=> e = bands[m] /\ e \in offers
    <3>1. <<>> \in Seq(Wanted) /\ ToSet(<<>>) = {} /\ bands[m] \in Wanted
      BY <2>1, EmptySeq DEF ToSet
    <3>2. <<bands[m]>> \in Seq(Wanted) /\ ToSet(<<bands[m]>>) = {bands[m]}
      BY <3>1 DEF ToSet
    <3> QED BY <3>1, <3>2
  <2> HIDE DEF part
  <2>4. parts \in Seq(Seq(Wanted)) /\ Len(parts) = Len(bands)
        /\ \A m \in 1..Len(bands) : parts[m] = part(m)
    <3>1. parts \in [1..Len(bands) -> Seq(Wanted)] /\ \A m \in 1..Len(bands) : parts[m] = part(m)
      BY <2>1, <2>3
    <3> HIDE DEF parts
    <3> QED BY <2>1, <3>1, FunctionIsSeq
  <2> HIDE DEF parts
  <2>5. \A e : e \in ToSet(FlattenSeq(parts)) <=> \E m \in 1..Len(parts) : e \in ToSet(parts[m])
    BY <2>4, FlattenProperties
  <2>6. \A e : e \in ToSet(FlattenSeq(parts)) <=> e \in Wanted /\ e \in offers
    BY <2>1, <2>3, <2>4, <2>5
  <2>7. ToSet(Labels(i)) = Wanted \cap offers
    BY <2>2, <2>6
  <2> QED BY <2>7 DEF offers
<1> QED BY <1>2, <1>3, <1>4

\* A time on an axis is the nearest of it to itself.
LEMMA NearestIsSelf ==
    ASSUME NEW times \in SUBSET Int, NEW t \in times
    PROVE  Nearest(times, t) = t
<1> DEFINE Distance(u) == IF u < t THEN t - u ELSE u - t
           Best(u) == \A v \in times \ {u} :
                        Distance(u) < Distance(v) \/ (Distance(u) = Distance(v) /\ v < u)
<1>1. Nearest(times, t) = CHOOSE u \in times : Best(u)
  BY DEF Nearest
<1>2. Best(t)
  OBVIOUS
<1>3. ASSUME NEW u \in times, Best(u)
      PROVE  u = t
  BY <1>3
<1> HIDE DEF Best
<1> QED BY <1>1, <1>2, <1>3

\* COG items that agree on their bands make one group: the cube has one slice for
\* every band of every item, at its own time.
CogSlice(items, b, i) ==
    Slice(b, TimeOf(i), Cardinality({u \in {TimeOf(j) : j \in ToSet(items)} : u <= TimeOf(i)}),
          i, TimeOf(i))

LEMMA OneGroup ==
    ASSUME IsQuery(query), NEW items \in Seq(Items), items # <<>>,
           \A i, j \in ToSet(items) : TakenBands(i) = TakenBands(j),
           \A i \in ToSet(items) : TimeOf(i) \in Int /\ ToSet(Labels(i)) \subseteq Wanted \ {DataKey}
    PROVE  \A s : s \in ReadCog(items).cube <=>
              \E i \in ToSet(items) : \E b \in Wanted \cap Data.offers[i] : s = CogSlice(items, b, i)
<1> DEFINE all == {TimeOf(j) : j \in ToSet(items)}
           Peers(i) == {j \in ToSet(items) : TakenBands(j) = TakenBands(i)}
           Times(i) == {TimeOf(j) : j \in Peers(i)}
           axis == Times(items[1])
           Kept(i) == IF Peers(i) = ToSet(items) THEN ToSet(Labels(i)) ELSE {Labels(i)[1]}
           Shown(t, i) == TimeOf(i) = Nearest(Times(i), t)
           Place(t) == Cardinality({u \in axis : u <= t})
           slices(i) == {Slice(b, t, Place(t), i, TimeOf(i)) :
                            b \in Kept(i), t \in {u \in axis : Shown(u, i)}}
<1>1. items[1] \in ToSet(items) /\ ToSet(items) \subseteq Items
  <2>1. Len(items) \in Nat \ {0} /\ DOMAIN items = 1..Len(items)
        /\ \A n \in 1..Len(items) : items[n] \in Items
    BY EmptySeq, LenProperties, ElementOfSeq
  <2> QED BY <2>1 DEF ToSet
<1>2. ReadCog(items).cube = UNION {slices(i) : i \in ToSet(items)}
  BY DEF ReadCog, Loaded
<1>3. \A i \in ToSet(items) : Peers(i) = ToSet(items)
  OBVIOUS
<1> HIDE DEF Peers
<1>4. \A i \in ToSet(items) : Times(i) = all
  BY <1>3
<1> HIDE DEF Times
<1>5. axis = all
  BY <1>1, <1>4
<1> HIDE DEF axis
<1>6. \A i \in ToSet(items) : Kept(i) = Wanted \cap Data.offers[i]
  BY <1>1, <1>3, LabelsExact
<1> HIDE DEF Kept
<1>7. all \in SUBSET Int /\ \A i \in ToSet(items) : TimeOf(i) \in all
  OBVIOUS
<1>8. ASSUME NEW i \in ToSet(items)
      PROVE  {u \in axis : Shown(u, i)} = {TimeOf(i)}
  <2> HIDE DEF all
  <2>1. \A u \in all : Nearest(all, u) = u
    BY <1>7, NearestIsSelf
  <2>2. \A u \in all : Shown(u, i) <=> u = TimeOf(i)
    BY <1>4, <2>1
  <2> HIDE DEF Shown
  <2> QED BY <1>5, <1>7, <2>2
<1>9. \A i : Place(TimeOf(i)) = Cardinality({u \in all : u <= TimeOf(i)})
  BY <1>5
<1> HIDE DEF all, Shown, Place
<1>10. ASSUME NEW i \in ToSet(items)
       PROVE  \A s : s \in slices(i) <=> \E b \in Wanted \cap Data.offers[i] : s = CogSlice(items, b, i)
  <2>1. \A s : s \in slices(i) <=>
            \E b \in Wanted \cap Data.offers[i] : s = Slice(b, TimeOf(i), Place(TimeOf(i)), i, TimeOf(i))
    BY <1>6, <1>8
  <2>2. \A b : CogSlice(items, b, i) = Slice(b, TimeOf(i), Place(TimeOf(i)), i, TimeOf(i))
    BY <1>9 DEF CogSlice, all
  <2> HIDE DEF slices
  <2> QED BY <2>1, <2>2
<1> HIDE DEF slices
<1>11. \A s : s \in ReadCog(items).cube <=> \E i \in ToSet(items) : s \in slices(i)
  BY <1>2
<1> QED BY <1>10, <1>11

LEMMA CogExact ==
    ASSUME IsQuery(query), query.end \in Int, query.end # OpenEnd, found \in Seq(Items),
           \A i \in ToSet(found) : Selected(i),
           entries = Entries(found, query.bands), entries # <<>>,
           \A e \in ToSet(entries) : e.type = "cog", Uniform
    PROVE  Exact(ReadCog(EntryItems).cube, 1)
<1>1. /\ EntryItems \in Seq(Items) /\ Len(EntryItems) = Len(entries)
      /\ entries \in Seq(Entry) /\ ToSet(EntryItems) \subseteq ToSet(found)
      /\ \A i \in ToSet(found) : \A b \in Wanted \cap Data.offers[i] : i \in ToSet(EntryItems)
      /\ \A e \in ToSet(entries) : \E b \in Wanted :
            HasAsset(e.item, b) /\ e.type = AssetOf(e.item, b).type
      /\ \A n \in 1..Len(entries) : EntryItems[n] = entries[n].item
  BY EntryItemsOfFound
<1>2. EntryItems # <<>>
  BY <1>1, EmptySeq
<1>3. ASSUME NEW i \in ToSet(EntryItems)
      PROVE  /\ TimeOf(i) \in Int /\ ToSet(Data.times[i]) = {TimeOf(i)}
             /\ TimeOf(i) \in query.start..query.end
  <2>1. PICK n \in 1..Len(entries) : i = entries[n].item /\ entries[n] \in ToSet(entries)
    <3>1. DOMAIN EntryItems = 1..Len(entries) /\ DOMAIN entries = 1..Len(entries)
      BY <1>1, LenProperties
    <3>2. PICK n \in 1..Len(entries) : i = EntryItems[n]
      BY <3>1 DEF ToSet
    <3>3. entries[n] \in ToSet(entries)
      BY <3>1 DEF ToSet
    <3> QED BY <1>1, <3>2, <3>3
  <2>2. PICK b \in Wanted : HasAsset(i, b) /\ AssetOf(i, b).type = "cog"
    BY <1>1, <2>1
  <2>3. i \in Items /\ i \in ToSet(found)
    <3>1. i \in ToSet(found)
      BY <1>1
    <3> QED BY <3>1, LenProperties, ElementOfSeq DEF ToSet
  <2>4. \E m \in DOMAIN Data.assets[i] : Data.assets[i][m].type = "cog"
    <3> DEFINE key == IF DataKey \in Keys(i) THEN DataKey ELSE b
               m == CHOOSE k \in DOMAIN Data.assets[i] : Data.assets[i][k].key = key
    <3>1. key \in Keys(i)
      BY <2>2 DEF HasAsset
    <3>2. m \in DOMAIN Data.assets[i]
      BY <3>1 DEF Keys, AssetKeys
    <3>3. AssetOf(i, b) = Data.assets[i][m]
      BY DEF AssetOf
    <3> QED BY <2>2, <3>2, <3>3
  <2> DEFINE times == Data.times[i]
  <2>5. Len(times) = 1 /\ times \in Seq(Int)
    BY <2>3, <2>4 DEF IsQuery, IsCollection, Data
  <2>6. /\ query.start \in Int /\ times[1] <= query.end /\ query.start <= times[Len(times)]
    BY <2>3 DEF Selected, Last, IsQuery
  <2> HIDE DEF times
  <2>7. times[1] \in Int /\ ToSet(times) = {times[1]}
    <3>1. DOMAIN times = 1..Len(times) /\ \A k \in 1..Len(times) : times[k] \in Int
      BY <2>5, LenProperties, ElementOfSeq
    <3> QED BY <2>5, <3>1 DEF ToSet
  <2> QED BY <2>5, <2>6, <2>7 DEF TimeOf, times
<1> DEFINE shown == ReadCog(EntryItems).cube
<1>4. \A s : s \in shown <=>
          \E i \in ToSet(EntryItems) : \E b \in Wanted \cap Data.offers[i] :
              s = CogSlice(EntryItems, b, i)
  <2>1. \A i, j \in ToSet(EntryItems) : TakenBands(i) = TakenBands(j)
    BY <1>1 DEF Uniform
  <2>2. \A i \in ToSet(EntryItems) : ToSet(Labels(i)) \subseteq Wanted \ {DataKey}
    BY <1>1 DEF Uniform
  <2> QED BY <1>1, <1>2, <1>3, <2>1, <2>2, OneGroup
<1> HIDE DEF shown
<1>5. \A b, i : LET s == CogSlice(EntryItems, b, i)
                IN  s.band = b /\ s.item = i /\ s.time = TimeOf(i) /\ s.taken = TimeOf(i)
  BY DEF CogSlice, Slice
<1>6. ASSUME NEW s \in shown
      PROVE  s.time = s.taken /\ <<s.band, s.item, s.taken>> \in Images
  <2>1. PICK i \in ToSet(EntryItems) : \E b \in Wanted \cap Data.offers[i] :
            s = CogSlice(EntryItems, b, i)
    BY <1>4
  <2>2. PICK b \in Wanted \cap Data.offers[i] : s = CogSlice(EntryItems, b, i)
    BY <2>1
  <2>3. i \in ToSet(found) /\ TimeOf(i) \in ToSet(Data.times[i]) \cap (query.start..query.end)
    BY <1>1, <1>3
  <2> QED BY <1>5, <2>2, <2>3, ImagesAre
<1>7. ASSUME NEW image \in Images
      PROVE  Cardinality(Showing(shown, image)) = 1
  <2>1. PICK i \in ToSet(found) : \E b \in Wanted \cap Data.offers[i],
                                   t \in ToSet(Data.times[i]) \cap (query.start..query.end) :
            image = <<b, i, t>>
    BY ImagesAre
  <2>2. PICK b \in Wanted \cap Data.offers[i],
             t \in ToSet(Data.times[i]) \cap (query.start..query.end) : image = <<b, i, t>>
    BY <2>1
  <2>3. i \in ToSet(EntryItems) /\ t = TimeOf(i)
    BY <1>1, <1>3
  <2>4. CogSlice(EntryItems, b, i) \in shown
    BY <1>4, <2>3
  <2>5. Showing(shown, image) = {CogSlice(EntryItems, b, i)}
    <3>1. CogSlice(EntryItems, b, i) \in Showing(shown, image)
      BY <1>5, <2>2, <2>3, <2>4 DEF Showing
    <3>2. ASSUME NEW s \in Showing(shown, image)
          PROVE  s = CogSlice(EntryItems, b, i)
      <4>1. s \in shown /\ s.band = b /\ s.item = i
        BY <2>2 DEF Showing
      <4>2. PICK j \in ToSet(EntryItems) : \E c \in Wanted \cap Data.offers[j] :
                s = CogSlice(EntryItems, c, j)
        BY <1>4, <4>1
      <4> QED BY <1>5, <4>1, <4>2
    <3> QED BY <3>1, <3>2
  <2> QED BY <2>5, FS_Singleton
<1> QED BY <1>6, <1>7 DEF Exact, shown

\* What is read depends on the query and the entries only.
LEMMA SameRead ==
    ASSUME query' = query, entries' = entries
    PROVE  Read(EntryItems, Type)' = Read(EntryItems, Type)
<1>1. EntryItems' = EntryItems /\ Type' = Type /\ Data' = Data
  BY DEF EntryItems, Type, Data
<1>2. ASSUME NEW i
      PROVE  /\ TakenBands(i)' = TakenBands(i) /\ Labels(i)' = Labels(i)
             /\ TimeOf(i)' = TimeOf(i) /\ FileBands(i)' = FileBands(i)
  BY DEF TakenBands, Labels, TimeOf, FileBands, Keys, AssetKeys, Data
<1>3. Filtered(Axis(EntryItems))' = Filtered(Axis(EntryItems))
  <2>1. Axis(EntryItems)' = Axis(EntryItems)
    BY DEF Axis, EntryItems, Data
  <2> QED BY <2>1 DEF Filtered, SlicesOf
<1>4. ReadNetcdf(EntryItems)' = ReadNetcdf(EntryItems)
  BY <1>1, <1>2, <1>3 DEF ReadNetcdf
<1>5. ReadZarr(EntryItems)' = ReadZarr(EntryItems)
  BY <1>1, <1>3 DEF ReadZarr, FileBands
<1>6. ReadCog(EntryItems)' = ReadCog(EntryItems)
  BY <1>1 DEF ReadCog, TakenBands, Labels, TimeOf, Keys, AssetKeys
<1> QED BY <1>1, <1>4, <1>5, <1>6 DEF Read

\* What CubeIsExact rests on: only a query with an end is searched, each item is
\* found once, the entries loaded are of one type, and the cube is what the reader
\* of that type makes of them.
SearchedOK ==
    stage \in {"group", "load", "done"} => query.end # OpenEnd /\ IsInjective(found)
GroupedOK ==
    stage \in {"load", "done"} =>
        entries # <<>> /\ \A e \in ToSet(entries) : e.type = Type
ReadOK ==
    stage = "done" =>
        /\ Read(EntryItems, Type).failure = "none"
        /\ cube = Read(EntryItems, Type).cube

Serving == SearchedOK /\ GroupedOK /\ ReadOK

LEMMA ServingStep ==
    ASSUME LoadInv, Loading, Serving, [LoadNext]_allVars PROVE Serving'
<1> USE DEF Items
<1>1. ProgressOK /\ AnswersOK /\ SearchedOK /\ GroupedOK /\ ReadOK
  BY DEF Loading, Serving
<1>2. ASSUME stage' \in {"trigger", "ingest", "search", "failed"}
      PROVE  Serving'
  BY <1>2 DEF Serving, SearchedOK, GroupedOK, ReadOK
<1>3. ASSUME UNCHANGED <<query, stage, found, entries, cube>>
      PROVE  Serving'
  <2>1. SearchedOK'
    BY <1>1, <1>3 DEF SearchedOK, IsInjective
  <2>2. GroupedOK'
    BY <1>1, <1>3 DEF GroupedOK, Type
  <2>3. ReadOK'
    <3>1. Read(EntryItems, Type)' = Read(EntryItems, Type)
      BY <1>3, SameRead
    <3> QED BY <1>1, <1>3, <3>1 DEF ReadOK
  <2> QED BY <2>1, <2>2, <2>3 DEF Serving
<1>4. CASE NoHandler \/ NothingExternal \/ Compare \/ SearchOpenEnd \/ SearchReversed
  BY <1>2, <1>4 DEF NoHandler, NothingExternal, Compare, SearchOpenEnd, SearchReversed, Fail
<1>5. CASE Ingest
  BY <1>2, <1>5 DEF Ingest
<1>6. CASE Search
  <2> DEFINE matched == {i \in registered : Selected(i)}
  <2>1. CASE matched = {} /\ Fail("no item")
    BY <1>2, <2>1 DEF Fail
  <2>2. CASE found' \in SetToSeqs(matched) /\ stage' = "group" /\ query' = query
    <3>1. IsInjective(found')
      <4> HIDE DEF matched
      <4> QED BY <2>2 DEF SetToSeqs, IsInjective
    <3>2. query'.end # OpenEnd
      BY <1>6, <2>2 DEF Search
    <3>3. SearchedOK'
      BY <3>1, <3>2 DEF SearchedOK
    <3> QED BY <2>2, <3>3 DEF Serving, GroupedOK, ReadOK
  <2> QED BY <1>6, <2>1, <2>2 DEF Search
<1>7. CASE Group
  <2> DEFINE all == Entries(found, query.bands)
             types == {all[n].type : n \in DOMAIN all}
  <2>1. /\ entries' = all /\ UNCHANGED <<query, found>> /\ stage = "group"
        /\ IF Cardinality(types) = 1 THEN stage' = "load" ELSE stage' = "failed"
    BY <1>7 DEF Group
  <2>2. /\ all \in Seq(Entry) /\ Len(all) \in Nat /\ DOMAIN all = 1..Len(all)
    <3>1. all \in Seq(Entry)
      BY <1>1, EntriesProperties DEF AnswersOK
    <3> HIDE DEF all
    <3> QED BY <3>1, LenProperties
  <2> HIDE DEF all
  <2>3. CASE Cardinality(types) = 1
    <3>1. IsFiniteSet(types)
      <4> DEFINE typeOf == [n \in 1..Len(all) |-> all[n].type]
      <4>1. IsFiniteSet(1..Len(all))
        BY <2>2, FirstNumbers
      <4>2. typeOf \in [1..Len(all) -> types] /\ \A t \in types : \E n \in 1..Len(all) : typeOf[n] = t
        BY <2>2
      <4> HIDE DEF types, typeOf
      <4> QED BY <4>1, <4>2, FS_Surjection DEF Surjection
    <3>2. PICK t : types = {t}
      <4> HIDE DEF types
      <4> QED BY <2>3, <3>1, FS_Singleton
    <3>3. 1 \in DOMAIN all /\ \A n \in DOMAIN all : all[n].type = t
      <4>1. \A n \in DOMAIN all : all[n].type \in types
        OBVIOUS
      <4>2. PICK n \in DOMAIN all : all[n].type = t
        BY <3>2
      <4> HIDE DEF types
      <4> QED BY <2>2, <3>2, <4>1, <4>2
    <3>4. all # <<>> /\ \A e \in ToSet(all) : e.type = all[1].type
      BY <2>2, <3>3, EmptySeq DEF ToSet
    <3>5. stage' = "load"
      BY <2>1, <2>3
    <3>6. GroupedOK'
      BY <2>1, <3>4 DEF GroupedOK, Type
    <3>7. SearchedOK'
      BY <1>1, <2>1 DEF SearchedOK, IsInjective
    <3> QED BY <3>5, <3>6, <3>7 DEF Serving, ReadOK
  <2>4. CASE Cardinality(types) # 1
    BY <1>2, <2>1, <2>4
  <2> QED BY <2>3, <2>4
<1>8. CASE Load
  <2>1. /\ stage = "load" /\ UNCHANGED <<query, found, entries>>
        /\ cube' = Read(EntryItems, Type).cube
        /\ stage' = IF Read(EntryItems, Type).failure = "none" THEN "done" ELSE "failed"
    BY <1>8 DEF Load
  <2>2. CASE Read(EntryItems, Type).failure = "none"
    <3>1. Read(EntryItems, Type)' = Read(EntryItems, Type)
      BY <2>1, SameRead
    <3>2. ReadOK'
      BY <2>1, <2>2, <3>1 DEF ReadOK
    <3>3. SearchedOK'
      BY <1>1, <2>1 DEF SearchedOK, IsInjective
    <3>4. GroupedOK'
      BY <1>1, <2>1 DEF GroupedOK, Type
    <3> QED BY <3>2, <3>3, <3>4 DEF Serving
  <2>3. CASE Read(EntryItems, Type).failure # "none"
    BY <1>2, <2>1, <2>3
  <2> QED BY <2>2, <2>3
<1>9. CASE \E i \in Items : RunAdvances(i)
  BY <1>3, <1>9 DEF RunAdvances
<1>10. CASE UNCHANGED allVars
  BY <1>3, <1>10 DEF allVars, loadVars
<1> QED BY <1>4, <1>5, <1>6, <1>7, <1>8, <1>9, <1>10 DEF LoadNext, Request

\* A loaded cube is exact, for any collection, any query, any order in which the
\* catalogue answers and every reader: it shows the images asked for and no other,
\* each at its own band and time, and as often as the readers show it.
THEOREM CubesAreExact == LoadSpec => []CubeIsExact
<1>1. LoadInit => Serving
  BY DEF LoadInit, Serving, SearchedOK, GroupedOK, ReadOK
<1>2. LoadInv /\ Loading /\ Serving /\ [LoadNext]_allVars => Serving'
  BY ServingStep
<1>3. Loading /\ Serving => CubeIsExact
  <2> SUFFICES ASSUME Loading, Serving, stage = "done",
                      IF Type = "cog" THEN Uniform ELSE InOrder /\ Listed /\ Images # {}
               PROVE  Exact(cube, IF Type = "netcdf" THEN Len(query.bands) ELSE 1)
    BY DEF CubeIsExact, Exact, Showing
  <2>1. /\ IsQuery(query) /\ found \in Seq(Items) /\ \A i \in ToSet(found) : Selected(i)
        /\ entries = Entries(found, query.bands) /\ entries # <<>>
        /\ query.end # OpenEnd /\ query.end \in Int /\ IsInjective(found)
        /\ \A e \in ToSet(entries) : e.type = Type
        /\ Read(EntryItems, Type).failure = "none" /\ cube = Read(EntryItems, Type).cube
    BY DEF Loading, AnswersOK, Serving, SearchedOK, GroupedOK, ReadOK, IsQuery
  <2>2. Type \in {"cog", "netcdf", "zarr"}
    BY <2>1 DEF Read, Broken
  <2>3. CASE Type = "cog"
    <3>1. Read(EntryItems, Type) = ReadCog(EntryItems)
      BY <2>3 DEF Read
    <3>2. Exact(ReadCog(EntryItems).cube, 1)
      BY <2>1, <2>3, CogExact
    <3> QED BY <2>1, <2>3, <3>1, <3>2
  <2>4. CASE Type = "netcdf"
    <3>1. Read(EntryItems, Type) = ReadNetcdf(EntryItems)
      BY <2>4 DEF Read
    <3>2. Exact(ReadNetcdf(EntryItems).cube, Len(query.bands))
      BY <2>1, <2>4, <3>1, NetcdfExact
    <3> QED BY <2>1, <2>4, <3>1, <3>2
  <2>5. CASE Type = "zarr"
    <3>1. Read(EntryItems, Type) = ReadZarr(EntryItems)
      BY <2>5 DEF Read
    <3>2. Exact(ReadZarr(EntryItems).cube, 1)
      BY <2>1, <2>5, <3>1, ZarrExact
    <3> QED BY <2>1, <2>5, <3>1, <3>2
  <2> QED BY <2>2, <2>3, <2>4, <2>5
<1> QED BY LoadInvInit, LoadInvStep, LoadingInit, LoadingStep, <1>1, <1>2, <1>3, PTL DEF LoadSpec
=============================================================================
