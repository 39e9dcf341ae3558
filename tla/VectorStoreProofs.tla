-------------------------- MODULE VectorStoreProofs -------------------------
(***************************************************************************)
(* Proofs about VectorStore, for any quadrants, geometries and batches and *)
(* any number of uploads and crashes.                                      *)
(***************************************************************************)
EXTENDS VectorStore, SequenceTheorems, FiniteSetTheorems,
        WellFoundedInduction, TLAPS

-----------------------------------------------------------------------------
(* Smallest and largest numbers, and prefixes of sequences.                *)

\* Some numbers have a smallest one: < is well-founded on Nat.
LEMMA SmallestOf ==
    ASSUME NEW S \in SUBSET Nat, S # {}
    PROVE  \E n \in S : \A m \in S : n <= m
<1> DEFINE R == OpToRel(<, Nat)
<1>1. IsWellFoundedOn(R, Nat)
  BY NatLessThanWellFounded DEF OpToRel
<1>2. \A x, y \in Nat : y < x => <<y, x>> \in R
  BY DEF OpToRel
<1> HIDE DEF R
<1>3. PICK n \in S : \A m \in S : ~(<<m, n>> \in R)
  BY <1>1, WFMin
<1>4. \A m \in S : ~(m < n)
  BY <1>2, <1>3
<1> QED BY <1>4

LEMMA MinOf ==
    ASSUME NEW S \in SUBSET Nat, S # {}
    PROVE  Min(S) \in S /\ \A m \in S : Min(S) <= m
BY SmallestOf DEF Min

\* The numbers up to b have a largest one, b minus the smallest difference.
LEMMA MaxOf ==
    ASSUME NEW b \in Nat, NEW S \in SUBSET (0..b), S # {}
    PROVE  Max(S) \in S /\ \A m \in S : m <= Max(S)
<1> DEFINE D == {b - m : m \in S}
<1>1. \A m \in S : b - m \in Nat /\ m \in Int
  OBVIOUS
<1> HIDE DEF D
<1>2. D \in SUBSET Nat /\ D # {}
  BY <1>1 DEF D
<1>3. PICK d \in D : \A e \in D : d <= e
  BY <1>2, SmallestOf
<1>4. PICK n \in S : d = b - n
  BY <1>3 DEF D
<1>5. \A m \in S : n >= m
  BY <1>1, <1>3, <1>4 DEF D
<1> QED BY <1>4, <1>5 DEF Max

\* The first n elements of a sequence.
LEMMA FirstElements ==
    ASSUME NEW S, NEW s \in Seq(S), NEW n \in 0..Len(s)
    PROVE  /\ SubSeq(s, 1, n) \in Seq(S)
           /\ Len(SubSeq(s, 1, n)) = n
           /\ \A i \in 1..n : SubSeq(s, 1, n)[i] = s[i]
<1>1. /\ Len(s) \in Nat /\ 1 \in Int /\ n \in Int
      /\ \A i \in 1..n : s[i] \in S
  BY LenProperties, ElementOfSeq
<1>2. /\ SubSeq(s, 1, n) \in Seq(S)
      /\ Len(SubSeq(s, 1, n)) = IF 1 <= n THEN n - 1 + 1 ELSE 0
      /\ \A i \in 1..n - 1 + 1 : SubSeq(s, 1, n)[i] = s[1 + i - 1]
  BY <1>1, SubSeqProperties
<1> QED BY <1>1, <1>2

\* A prefix agrees with the sequence on its elements.
LEMMA PrefixElements ==
    ASSUME NEW S, NEW s \in Seq(S), NEW t \in Seq(S)
    PROVE  IsPrefix(s, t) <=>
              Len(s) <= Len(t) /\ \A i \in 1..Len(s) : s[i] = t[i]
<1>1. Len(s) \in Nat /\ Len(t) \in Nat
  BY LenProperties
<1>2. CASE Len(s) <= Len(t)
  <2>1. Len(s) \in 0..Len(s) /\ Len(s) \in 0..Len(t)
    BY <1>1, <1>2
  <2>2. /\ SubSeq(s, 1, Len(s)) \in Seq(S) /\ SubSeq(t, 1, Len(s)) \in Seq(S)
        /\ Len(SubSeq(s, 1, Len(s))) = Len(s)
        /\ Len(SubSeq(t, 1, Len(s))) = Len(s)
        /\ \A i \in 1..Len(s) : /\ SubSeq(s, 1, Len(s))[i] = s[i]
                               /\ SubSeq(t, 1, Len(s))[i] = t[i]
    BY <2>1, FirstElements
  <2>3. SubSeq(s, 1, Len(s)) = SubSeq(t, 1, Len(s)) <=>
            \A i \in 1..Len(s) : SubSeq(s, 1, Len(s))[i] = SubSeq(t, 1, Len(s))[i]
    BY <2>2, SeqEqual
  <2> QED BY <1>2, <2>2, <2>3 DEF IsPrefix
<1>3. CASE ~(Len(s) <= Len(t))
  BY <1>3 DEF IsPrefix
<1> QED BY <1>2, <1>3

\* The first n elements are the prefix of that length, and the only one.
LEMMA PrefixOfLength ==
    ASSUME NEW S, NEW s \in Seq(S), NEW n \in 0..Len(s)
    PROVE  /\ IsPrefix(SubSeq(s, 1, n), s)
           /\ \A t \in Seq(S) :
                 IsPrefix(t, s) /\ Len(t) = n => t = SubSeq(s, 1, n)
<1> DEFINE p == SubSeq(s, 1, n)
<1>1. p \in Seq(S) /\ Len(p) = n /\ (\A i \in 1..n : p[i] = s[i]) /\ Len(s) \in Nat
  BY FirstElements, LenProperties
<1> HIDE DEF p
<1>2. IsPrefix(p, s)
  BY <1>1, PrefixElements
<1>3. ASSUME NEW t \in Seq(S), IsPrefix(t, s), Len(t) = n
      PROVE  t = p
  BY <1>1, <1>3, PrefixElements, SeqEqual
<1> QED BY <1>2, <1>3 DEF p

\* Prefixes of one sequence are prefixes of each other.
LEMMA PrefixTransitive ==
    ASSUME NEW S, NEW s \in Seq(S), NEW t \in Seq(S), NEW u \in Seq(S),
           IsPrefix(s, t), IsPrefix(t, u)
    PROVE  IsPrefix(s, u)
BY PrefixElements, LenProperties

LEMMA PrefixesOfOne ==
    ASSUME NEW S, NEW s \in Seq(S), NEW t \in Seq(S), NEW u \in Seq(S),
           IsPrefix(s, u), IsPrefix(t, u), Len(s) <= Len(t)
    PROVE  IsPrefix(s, t)
BY PrefixElements, LenProperties

-----------------------------------------------------------------------------
Sourcing == pc \in {"shard", "erase_sharded", "restore_sharded", "split",
                   "erase_split", "restore_split"}
Rebalancing == Sourcing \/ pc = "levels"
Combining == pc \in {"combine", "combine_erase"}

\* Files are in folders on disk, and so is what is made sure of.
FilesOK ==
    /\ files \in [Cells -> Seq(SUBSET Rows)]
    /\ folders \subseteq Cells
    /\ made \in folders \cup {None}
    /\ \A c \in Cells : files[c] # <<>> => c \in folders

\* Where a key's last file is, nothing follows it.
LastWith(fs, i, k) ==
    /\ i \in DOMAIN fs /\ k \in KeysOf(fs[i])
    /\ \A j \in DOMAIN fs : j > i => k \notin KeysOf(fs[j])

\* Fragments are removed behind a last file that has all their keys, and no
\* other step of the process comes in between.
TrimOK ==
    /\ trim # None =>
          /\ pc \in {"idle", "upload_merged", "defrag", "combine_erase", "raised"}
          /\ Len(files[trim]) >= 2
          /\ \A i \in DOMAIN files[trim] :
                KeysOf(files[trim][i]) \subseteq KeysOf(files[trim][Len(files[trim])])
    /\ pc \in {"place", "place_merged", "upload", "upload_merged"} => uploads > 0

Early == {"idle", "place", "place_merged", "upload", "upload_merged", "defrag"}
Late == {"levels", "shard", "erase_sharded", "restore_sharded", "split", "erase_split",
         "restore_split", "combine", "combine_erase", "raised"}

\* What is still to be placed is no finer than the level at hand: nothing is
\* left after level 0.  Only repartitions keep records.
PlaceOK ==
    /\ Placing => \A k \in DOMAIN rest : Len(rest[k]) <= level
    /\ ~Placing => DOMAIN rest = {}
    /\ pc \in Early => counts = {}

\* The folder at hand, and the folders of its level still to be gone through.
SourceOK ==
    /\ Sourcing => src \in Cells /\ Len(src) = level /\ src \notin todo
    /\ pc \in {"shard", "erase_sharded", "split", "erase_split"} => src \in folders
    /\ pc \in {"restore_sharded", "restore_split"} => files[src] = <<>>
    /\ Rebalancing => \A c \in todo : c \in folders /\ Len(c) = level
    /\ pc = "combine_erase" => src \in Cells /\ src # <<>> /\ Parent(src) \in folders

\* The rows of the folder at hand are in memory or in another folder.
FrameOK ==
    /\ pc \in {"shard", "erase_sharded", "split", "erase_split"} =>
          \A r \in Contents(src) :
              r \in frame \/ \E c \in Cells \ {src} : r \in Contents(c)
    /\ pc = "combine_erase" =>
          KeysOf(Contents(src)) \subseteq KeysOf(Contents(Parent(src)))

\* Keys are placed, and rows moved, to cells above their root.
CellsOK ==
    /\ \A k \in DOMAIN batch : IsPrefix(batch[k], Root[k])
    /\ \A k \in DOMAIN rest : IsPrefix(rest[k], Root[k])
    /\ ~misplaced /\ Sourcing => \A r \in frame : IsPrefix(src, Root[r.key])

\* Until the first repartition a key is once in a file, and the last file of
\* some folder that has the key has its last version.
VersionsOK ==
    ~reordered =>
        /\ ~Rebalancing /\ ~Combining
        /\ \A c \in Cells : \A i \in DOMAIN files[c] :
              \A r, q \in files[c][i] : r.key = q.key => r = q
        /\ \A k \in Keys : newest[k] > 0 =>
              \E c \in Cells : \E i \in DOMAIN files[c] :
                  /\ LastWith(files[c], i, k)
                  /\ [key |-> k, ver |-> newest[k]] \in files[c][i]

\* A folder that was gone through holds nothing for the folders below it.
Through(c) ==
    \/ Len(c) < level
    \/ Len(c) = level /\ c \notin todo /\ ~(Sourcing /\ c = src)
Present(d) == d \in folders \/ (Sourcing /\ d = src)

DeepestOK ==
    Rebalancing =>
        /\ \A c \in folders, d \in Cells :
              Through(c) /\ Above(c, d) /\ Present(d) => Under(Contents(c), d) = {}
        /\ Sourcing /\ pc # "shard" =>
              \A d \in folders \ {made} : Above(src, d) => Under(frame, d) = {}

\* Records are those of folders gone through that exist or were emptied.
RecordsOK ==
    /\ Rebalancing \/ Combining =>
          \A r \in counts : r[1] \in folders \/ r[2] = 0
    /\ Rebalancing => \A r \in counts : Through(r[1])

IInv == /\ TypeOK /\ FilesOK /\ TrimOK /\ PlaceOK /\ SourceOK /\ FrameOK /\ CellsOK
        /\ VersionsOK /\ DeepestOK /\ RecordsOK
        /\ KeysAreSafe /\ RowsInTheirPartition

-----------------------------------------------------------------------------
(* Cells                                                                   *)

LEMMA Bounds ==
    TargetLevel \in Nat /\ TargetRows \in Nat /\ MaxUploads \in Nat /\ MaxCrashes \in Nat
BY BoundsAssumption

LEMMA CellsAre ==
    ASSUME NEW c
    PROVE  c \in Cells <=> c \in Seq(Quadrants) /\ Len(c) <= TargetLevel + 1
<1>1. TargetLevel \in Nat
  BY Bounds
<1>2. ASSUME c \in Cells
      PROVE  c \in Seq(Quadrants) /\ Len(c) <= TargetLevel + 1
  <2>1. PICK n \in 0..TargetLevel + 1 : c \in [1..n -> Quadrants]
    BY <1>2 DEF Cells
  <2>2. c \in Seq(Quadrants)
    BY <1>1, <2>1, SeqDef
  <2>3. Len(c) \in Nat /\ 1..n = 1..Len(c)
    BY <2>1, <2>2, LenProperties
  <2>4. Len(c) = n
    BY <2>3
  <2> QED BY <1>1, <2>1, <2>2, <2>4
<1>3. ASSUME c \in Seq(Quadrants), Len(c) <= TargetLevel + 1
      PROVE  c \in Cells
  <2>1. Len(c) \in Nat /\ c \in [1..Len(c) -> Quadrants]
    BY <1>3, LenProperties
  <2>2. Len(c) \in 0..TargetLevel + 1
    BY <1>1, <1>3, <2>1
  <2> QED BY <2>1, <2>2 DEF Cells
<1> QED BY <1>2, <1>3

LEMMA CellLength ==
    ASSUME NEW c \in Cells
    PROVE  c \in Seq(Quadrants) /\ Len(c) \in Nat /\ Len(c) <= TargetLevel + 1
BY CellsAre, LenProperties

\* The first n quadrants of a cell's key, or of a root's, are a cell.
LEMMA FirstOf ==
    ASSUME NEW c \in Seq(Quadrants), NEW n \in 0..Len(c), n <= TargetLevel + 1
    PROVE  /\ SubSeq(c, 1, n) \in Cells /\ Len(SubSeq(c, 1, n)) = n
           /\ IsPrefix(SubSeq(c, 1, n), c)
BY CellsAre, FirstElements, PrefixOfLength

LEMMA ParentOf ==
    ASSUME NEW c \in Cells, c # <<>>
    PROVE  /\ Parent(c) \in Cells /\ Len(Parent(c)) = Len(c) - 1
           /\ IsPrefix(Parent(c), c) /\ Parent(c) # c
<1>1. c \in Seq(Quadrants) /\ Len(c) \in Nat /\ Len(c) <= TargetLevel + 1 /\ Len(c) # 0
  BY CellLength, EmptySeq
<1>2. Len(c) - 1 \in 0..Len(c) /\ Len(c) - 1 <= TargetLevel + 1
  BY <1>1, Bounds
<1>3. Parent(c) \in Cells /\ Len(Parent(c)) = Len(c) - 1 /\ IsPrefix(Parent(c), c)
  BY <1>1, <1>2, FirstOf DEF Parent
<1>4. Len(c) - 1 # Len(c)
  BY <1>1
<1> QED BY <1>3, <1>4

LEMMA EmptyCell == <<>> \in Cells /\ Len(<<>>) = 0
<1>1. <<>> \in Seq(Quadrants) /\ Len(<<>>) = 0
  BY EmptySeq
<1>2. 0 <= TargetLevel + 1
  BY Bounds
<1> QED BY <1>1, <1>2, CellsAre

\* What lies above a cell is shorter, and above or at its parent.
LEMMA AboveParent ==
    ASSUME NEW c \in Cells, NEW d \in Cells, Above(c, d)
    PROVE  Len(c) < Len(d) /\ IsPrefix(c, d) /\ IsPrefix(c, Parent(d)) /\ d # <<>>
<1>1. /\ c \in Seq(Quadrants) /\ Len(c) \in Nat
      /\ d \in Seq(Quadrants) /\ Len(d) \in Nat
  BY CellLength
<1>2. IsPrefix(c, d) /\ c # d
  BY DEF Above, IsStrictPrefix
<1>3. Len(c) <= Len(d) /\ \A i \in 1..Len(c) : c[i] = d[i]
  BY <1>1, <1>2, PrefixElements
<1>4. Len(c) < Len(d)
  <2>1. Len(c) # Len(d)
    BY <1>1, <1>2, <1>3, SeqEqual
  <2> QED BY <1>1, <1>3, <2>1
<1>5. d # <<>>
  BY <1>1, <1>4, EmptySeq
<1>6. Parent(d) \in Seq(Quadrants) /\ IsPrefix(Parent(d), d) /\ Len(c) <= Len(Parent(d))
  BY <1>1, <1>4, <1>5, ParentOf, CellLength
<1> QED BY <1>1, <1>2, <1>4, <1>5, <1>6, PrefixesOfOne

\* What a cell and its ancestors have to do with the roots of rows.
LEMMA UnderAbove ==
    ASSUME NEW c \in Cells, NEW d \in Cells, IsPrefix(c, d), NEW k \in Keys,
           IsPrefix(d, Root[k])
    PROVE  IsPrefix(c, Root[k])
BY CellLength, RootAssumption, PrefixTransitive

-----------------------------------------------------------------------------
(* Files                                                                   *)

\* Deduplicating takes one row of each key, of the last file that has the key.
LEMMA DeduplicatedRows ==
    ASSUME NEW fs \in Seq(SUBSET Rows), NEW m \in Deduplicated(fs)
    PROVE  /\ m \subseteq Rows
           /\ \A k : k \in KeysOf(m) <=> \E i \in DOMAIN fs : k \in KeysOf(fs[i])
           /\ \A r, q \in m : r.key = q.key => r = q
           /\ \A r \in m : \E i \in DOMAIN fs : r \in fs[i] /\ LastWith(fs, i, r.key)
<1>1. /\ Len(fs) \in Nat /\ DOMAIN fs = 1..Len(fs)
      /\ \A i \in DOMAIN fs : fs[i] \subseteq Rows
  BY LenProperties, ElementOfSeq
<1>2. \A k : k \in KeysOf(UNION Range(fs)) <=> \E i \in DOMAIN fs : k \in KeysOf(fs[i])
  BY DEF KeysOf, Range
<1>3. /\ KeysOf(m) = KeysOf(UNION Range(fs))
      /\ \A r, q \in m : r.key = q.key => r = q
      /\ \A r \in m : \E k \in KeysOf(UNION Range(fs)) :
            r \in fs[FileOf(fs, k)] /\ r.key = k
  BY DEF Deduplicated
<1>4. ASSUME NEW k \in KeysOf(UNION Range(fs))
      PROVE  FileOf(fs, k) \in DOMAIN fs /\ LastWith(fs, FileOf(fs, k), k)
  <2> DEFINE S == {i \in DOMAIN fs : k \in KeysOf(fs[i])}
  <2>1. S # {}
    BY <1>2, <1>4
  <2>2. \A i \in DOMAIN fs : i \in 0..Len(fs)
    BY <1>1
  <2>3. S \in SUBSET (0..Len(fs))
    BY <2>2
  <2>4. Max(S) \in S /\ \A i \in S : i <= Max(S)
    BY <1>1, <2>1, <2>3, MaxOf
  <2>5. FileOf(fs, k) = Max(S)
    BY DEF FileOf
  <2> HIDE DEF S
  <2>6. /\ FileOf(fs, k) \in DOMAIN fs /\ k \in KeysOf(fs[FileOf(fs, k)])
        /\ \A j \in DOMAIN fs : k \in KeysOf(fs[j]) => j <= FileOf(fs, k)
    BY <2>4, <2>5 DEF S
  <2>7. \A j \in DOMAIN fs : j > FileOf(fs, k) => k \notin KeysOf(fs[j])
    BY <1>1, <2>6
  <2> QED BY <2>6, <2>7 DEF LastWith
<1>5. \A r \in m : \E i \in DOMAIN fs : r \in fs[i] /\ LastWith(fs, i, r.key)
  BY <1>3, <1>4
<1>6. m \subseteq Rows
  BY <1>1, <1>5
<1> QED BY <1>2, <1>3, <1>5, <1>6

LEMMA NoRow == DOMAIN <<>> = {} /\ Range(<<>>) = {}
<1>1. ASSUME NEW i \in DOMAIN <<>> PROVE FALSE
  OBVIOUS
<1> QED BY <1>1 DEF Range

LEMMA NoneIsNoCell == None \notin Cells
<1> SUFFICES ASSUME None \in Cells PROVE FALSE
  OBVIOUS
<1>1. <<-1>> \in Seq(Quadrants) /\ Len(<<-1>>) = 1
  BY CellLength DEF None
<1>2. <<-1>>[1] \in Quadrants
  BY <1>1, ElementOfSeq
<1> QED BY <1>2, QuadrantsAssumption

LEMMA FolderFiles ==
    ASSUME FilesOK, NEW c \in Cells
    PROVE  /\ files[c] \in Seq(SUBSET Rows) /\ Len(files[c]) \in Nat
           /\ DOMAIN files[c] = 1..Len(files[c])
           /\ \A i \in DOMAIN files[c] : files[c][i] \in SUBSET Rows
           /\ \A r : r \in Contents(c) <=> \E i \in DOMAIN files[c] : r \in files[c][i]
           /\ Contents(c) \subseteq Rows
           /\ files[c] # <<>> <=> Len(files[c]) # 0
           /\ c \notin folders => Contents(c) = {}
<1>1. /\ files[c] \in Seq(SUBSET Rows) /\ Len(files[c]) \in Nat
      /\ DOMAIN files[c] = 1..Len(files[c])
      /\ \A i \in DOMAIN files[c] : files[c][i] \in SUBSET Rows
  BY LenProperties, ElementOfSeq DEF FilesOK
<1>2. \A r : r \in Contents(c) <=> \E i \in DOMAIN files[c] : r \in files[c][i]
  BY DEF Contents, Range
<1>3. files[c] # <<>> <=> Len(files[c]) # 0
  BY <1>1, EmptySeq
<1>4. Len(files[c]) = 0 => DOMAIN files[c] = {}
  BY <1>1
<1>5. c \notin folders => files[c] = <<>>
  BY DEF FilesOK
<1> QED BY <1>1, <1>2, <1>3, <1>4, <1>5

\* A file is appended to a folder.
LEMMA AppendedFile ==
    ASSUME FilesOK, NEW c \in Cells, NEW rows \in SUBSET Rows, Write(c, rows)
    PROVE  /\ FilesOK' /\ c \in folders /\ folders' = folders
           /\ made' = None /\ broken' = broken
           /\ Contents(c)' = Contents(c) \cup rows
           /\ \A d \in Cells \ {c} : files'[d] = files[d] /\ Contents(d)' = Contents(d)
           /\ DOMAIN files'[c] = 1..Len(files[c]) + 1
           /\ Len(files'[c]) = Len(files[c]) + 1
           /\ files'[c][Len(files[c]) + 1] = rows
           /\ \A i \in DOMAIN files[c] : files'[c][i] = files[c][i]
<1>1. /\ files[c] \in Seq(SUBSET Rows) /\ Len(files[c]) \in Nat
      /\ DOMAIN files[c] = 1..Len(files[c])
  BY FolderFiles
<1>2. files'[c] = Append(files[c], rows) /\ \A d \in Cells \ {c} : files'[d] = files[d]
  BY DEF FilesOK, Write
<1>3. /\ files'[c] \in Seq(SUBSET Rows)
      /\ Len(files'[c]) = Len(files[c]) + 1
      /\ DOMAIN files'[c] = 1..Len(files[c]) + 1
      /\ files'[c][Len(files[c]) + 1] = rows
      /\ \A i \in DOMAIN files[c] : files'[c][i] = files[c][i]
  BY <1>1, <1>2, AppendProperties, LenProperties
<1>4. c \in folders /\ folders' = folders /\ made' = None /\ broken' = broken
  BY NoneIsNoCell DEF FilesOK, Write
<1>5. FilesOK'
  BY <1>2, <1>3, <1>4 DEF FilesOK, Write
<1>6. Contents(c)' = Contents(c) \cup rows
  <2>1. \A i \in DOMAIN files'[c] : i \in DOMAIN files[c] \/ i = Len(files[c]) + 1
    BY <1>1, <1>3
  <2>2. \A i \in DOMAIN files[c] : i \in DOMAIN files'[c]
    BY <1>1, <1>3
  <2>3. Len(files[c]) + 1 \in DOMAIN files'[c]
    BY <1>1, <1>3
  <2> QED BY <1>3, <2>1, <2>2, <2>3 DEF Contents, Range
<1>7. \A d \in Cells \ {c} : Contents(d)' = Contents(d)
  BY <1>2 DEF Contents
<1> QED BY <1>2, <1>3, <1>4, <1>5, <1>6, <1>7

\* A folder without files is removed.
LEMMA ErasedFolder ==
    ASSUME FilesOK, NEW c \in Cells, made = None, Erase(c)
    PROVE  /\ FilesOK' /\ folders' = folders \ {c} /\ files[c] = <<>>
           /\ made' = None /\ broken' = broken
           /\ Stored' = Stored /\ Contents(c) = {} /\ \A d : Contents(d)' = Contents(d)
<1>1. Contents(c) = {}
  <2>1. Range(<<>>) = {}
    BY NoRow
  <2> QED BY <2>1 DEF Erase, Contents
<1> QED BY <1>1 DEF FilesOK, Erase, Contents, Stored

\* A file is removed from a folder.
LEMMA RemovedFile ==
    ASSUME FilesOK, NEW c \in Cells, NEW i \in DOMAIN files[c],
           files' = [files EXCEPT ![c] = RemoveAt(@, i)],
           UNCHANGED <<folders, made>>
    PROVE  /\ FilesOK' /\ Contents(c)' \subseteq Contents(c)
           /\ \A d \in Cells \ {c} : files'[d] = files[d] /\ Contents(d)' = Contents(d)
<1> DEFINE fs == files[c]
           head == SubSeq(fs, 1, i - 1)
           tail == SubSeq(fs, i + 1, Len(fs))
<1>1. /\ fs \in Seq(SUBSET Rows) /\ Len(fs) \in Nat /\ DOMAIN fs = 1..Len(fs)
      /\ i \in 1..Len(fs)
  BY FolderFiles
<1>2. \A k \in 1..Len(fs) : fs[k] \in SUBSET Rows
  BY <1>1, ElementOfSeq
<1>3. /\ head \in Seq(SUBSET Rows) /\ Len(head) = i - 1
      /\ \A k \in 1..i - 1 : head[k] = fs[k]
  <2>1. i - 1 \in 0..Len(fs)
    BY <1>1
  <2> QED BY <1>1, <2>1, FirstElements
<1>4. /\ tail \in Seq(SUBSET Rows) /\ Len(tail) = Len(fs) - i
      /\ \A k \in 1..Len(fs) - i : tail[k] = fs[i + k]
  <2>1. /\ tail \in Seq(SUBSET Rows)
        /\ Len(tail) = IF i + 1 <= Len(fs) THEN Len(fs) - (i + 1) + 1 ELSE 0
        /\ \A k \in 1..Len(fs) - (i + 1) + 1 : tail[k] = fs[i + 1 + k - 1]
    <3>1. i + 1 \in Int /\ Len(fs) \in Int /\ \A k \in (i + 1)..Len(fs) : fs[k] \in SUBSET Rows
      BY <1>1, <1>2
    <3> QED BY <3>1, SubSeqProperties
  <2>2. Len(tail) = Len(fs) - i
    BY <1>1, <2>1
  <2>3. \A k \in 1..Len(fs) - i : k \in 1..Len(fs) - (i + 1) + 1 /\ i + 1 + k - 1 = i + k
    BY <1>1
  <2> QED BY <2>1, <2>2, <2>3
<1>5. files'[c] = head \o tail /\ \A d \in Cells \ {c} : files'[d] = files[d]
  BY DEF FilesOK, RemoveAt
<1> HIDE DEF head, tail
<1>6. /\ files'[c] \in Seq(SUBSET Rows) /\ Len(files'[c]) = Len(fs) - 1
      /\ DOMAIN files'[c] = 1..Len(fs) - 1
      /\ \A k \in 1..Len(fs) - 1 :
            files'[c][k] = IF k <= i - 1 THEN head[k] ELSE tail[k - (i - 1)]
  <2>1. /\ head \o tail \in Seq(SUBSET Rows)
        /\ Len(head \o tail) = Len(head) + Len(tail)
        /\ \A k \in 1..Len(head) + Len(tail) :
              (head \o tail)[k] = IF k <= Len(head) THEN head[k] ELSE tail[k - Len(head)]
    BY <1>3, <1>4, ConcatProperties
  <2>2. Len(head) + Len(tail) = Len(fs) - 1
    BY <1>1, <1>3, <1>4
  <2>3. DOMAIN (head \o tail) = 1..Len(head \o tail)
    BY <2>1, LenProperties
  <2> QED BY <1>3, <1>5, <2>1, <2>2, <2>3
<1>7. \A k \in DOMAIN files'[c] : \E j \in DOMAIN fs : files'[c][k] = fs[j]
  <2> SUFFICES ASSUME NEW k \in DOMAIN files'[c]
               PROVE  \E j \in DOMAIN fs : files'[c][k] = fs[j]
    OBVIOUS
  <2>1. k \in 1..Len(fs) - 1
    BY <1>6
  <2>2. CASE k <= i - 1
    <3>1. k \in 1..i - 1 /\ k \in DOMAIN fs
      BY <1>1, <2>1, <2>2
    <3> QED BY <1>3, <1>6, <2>1, <2>2, <3>1
  <2>3. CASE ~(k <= i - 1)
    <3>1. k - (i - 1) \in 1..Len(fs) - i /\ i + (k - (i - 1)) = k + 1 /\ k + 1 \in DOMAIN fs
      BY <1>1, <2>1, <2>3
    <3> QED BY <1>4, <1>6, <2>1, <2>3, <3>1
  <2> QED BY <2>2, <2>3
<1> HIDE DEF fs
<1>8. Contents(c)' \subseteq Contents(c)
  BY <1>7 DEF Contents, Range, fs
<1>9. FilesOK'
  <2>1. files[c] # <<>>
    BY <1>1, EmptySeq DEF fs
  <2> QED BY <1>5, <1>6, <2>1 DEF FilesOK
<1>10. \A d \in Cells \ {c} : Contents(d)' = Contents(d)
  BY <1>5 DEF Contents
<1> QED BY <1>5, <1>8, <1>9, <1>10

\* The fragments of a folder, and the rows to be written, are merged into a
\* file with one row of each key: of the rows to be written, or else of the
\* last file that has the key.
LEMMA MergedFolder ==
    ASSUME FilesOK, NEW c \in Cells, NEW X \in SUBSET Rows, NEW extra,
           (extra = <<>> /\ X = {}) \/ extra = <<X>>,
           Merge(c, extra)
    PROVE  \E merged \in SUBSET Rows :
               /\ Write(c, merged)
               /\ KeysOf(merged) = KeysOf(Contents(c)) \cup KeysOf(X)
               /\ \A r, q \in merged : r.key = q.key => r = q
               /\ \A r \in merged :
                     \/ r \in X
                     \/ /\ r.key \notin KeysOf(X) /\ r \in Contents(c)
                        /\ \E i \in DOMAIN files[c] :
                              r \in files[c][i] /\ LastWith(files[c], i, r.key)
<1> DEFINE fs == files[c] \o extra
           n == Len(files[c])
<1>1. PICK m \in Deduplicated(fs) : Write(c, m)
  BY DEF Merge
<1>2. /\ files[c] \in Seq(SUBSET Rows) /\ n \in Nat /\ DOMAIN files[c] = 1..n
      /\ \A r : r \in Contents(c) <=> \E i \in DOMAIN files[c] : r \in files[c][i]
  BY FolderFiles
<1>3. /\ extra \in Seq(SUBSET Rows)
      /\ extra = <<>> => Len(extra) = 0
      /\ extra = <<X>> => Len(extra) = 1 /\ extra[1] = X
  <2>1. CASE extra = <<>>
    BY <2>1, EmptySeq
  <2>2. CASE extra = <<X>>
    BY <2>2
  <2> QED BY <2>1, <2>2
<1>4. /\ fs \in Seq(SUBSET Rows) /\ Len(fs) = n + Len(extra)
      /\ DOMAIN fs = 1..n + Len(extra)
      /\ \A i \in 1..n + Len(extra) :
            fs[i] = IF i <= n THEN files[c][i] ELSE extra[i - n]
  BY <1>2, <1>3, ConcatProperties, LenProperties
<1>5. \A i \in DOMAIN files[c] : i \in DOMAIN fs /\ fs[i] = files[c][i] /\ i < n + 1
  <2>1. Len(extra) \in Nat
    BY <1>3
  <2> QED BY <1>2, <1>4, <2>1
<1>6. extra = <<X>> => n + 1 \in DOMAIN fs /\ fs[n + 1] = X
  BY <1>2, <1>3, <1>4
<1>7. \A i \in DOMAIN fs : \/ i \in DOMAIN files[c]
                           \/ i = n + 1 /\ extra = <<X>>
  BY <1>2, <1>3, <1>4
<1>8. /\ m \in SUBSET Rows
      /\ \A k : k \in KeysOf(m) <=> \E i \in DOMAIN fs : k \in KeysOf(fs[i])
      /\ \A r, q \in m : r.key = q.key => r = q
      /\ \A r \in m : \E i \in DOMAIN fs : r \in fs[i] /\ LastWith(fs, i, r.key)
  BY <1>1, <1>4, DeduplicatedRows
<1> HIDE DEF fs, n
<1>9. KeysOf(m) = KeysOf(Contents(c)) \cup KeysOf(X)
  <2>1. \A k : k \in KeysOf(Contents(c)) <=>
                  \E i \in DOMAIN files[c] : k \in KeysOf(files[c][i])
    BY <1>2 DEF KeysOf
  <2>2. X = {} => KeysOf(X) = {}
    BY DEF KeysOf
  <2>3. ASSUME NEW k
        PROVE  (\E i \in DOMAIN fs : k \in KeysOf(fs[i])) <=>
                  k \in KeysOf(Contents(c)) \cup KeysOf(X)
    BY <1>5, <1>6, <1>7, <2>1, <2>2
  <2> QED BY <1>8, <2>3
<1>10. ASSUME NEW r \in m, r \notin X
       PROVE  /\ r.key \notin KeysOf(X) /\ r \in Contents(c)
              /\ \E i \in DOMAIN files[c] :
                    r \in files[c][i] /\ LastWith(files[c], i, r.key)
  <2>1. PICK i \in DOMAIN fs : r \in fs[i] /\ LastWith(fs, i, r.key)
    BY <1>8
  <2>2. i \in DOMAIN files[c] /\ fs[i] = files[c][i] /\ i < n + 1
    BY <1>5, <1>6, <1>7, <1>10, <2>1
  <2>3. r.key \notin KeysOf(X)
    <3>1. CASE extra = <<X>>
      <4>1. n + 1 \in DOMAIN fs /\ n + 1 > i
        BY <1>2, <1>6, <2>2, <3>1
      <4> QED BY <1>6, <2>1, <3>1, <4>1 DEF LastWith
    <3>2. CASE extra # <<X>>
      BY <3>2 DEF KeysOf
    <3> QED BY <3>1, <3>2
  <2>4. LastWith(files[c], i, r.key)
    BY <1>5, <2>1, <2>2 DEF LastWith
  <2> QED BY <1>2, <2>1, <2>2, <2>3, <2>4
<1> QED BY <1>1, <1>8, <1>9, <1>10

LEMMA RemovedFirst ==
    ASSUME FilesOK, NEW c \in Cells, Len(files[c]) >= 1,
           files' = [files EXCEPT ![c] = Tail(@)],
           UNCHANGED <<folders, made>>
    PROVE  /\ FilesOK'
           /\ \A d \in Cells \ {c} : files'[d] = files[d] /\ Contents(d)' = Contents(d)
           /\ Len(files'[c]) = Len(files[c]) - 1
           /\ DOMAIN files'[c] = 1..Len(files[c]) - 1
           /\ \A i \in 1..Len(files[c]) - 1 : files'[c][i] = files[c][i + 1]
<1>1. files[c] \in Seq(SUBSET Rows) /\ files[c] # <<>> /\ Len(files[c]) \in Nat
  BY FolderFiles, EmptySeq
<1>2. files'[c] = Tail(files[c]) /\ \A d \in Cells \ {c} : files'[d] = files[d]
  BY DEF FilesOK
<1>3. /\ files'[c] \in Seq(SUBSET Rows)
      /\ Len(files'[c]) = Len(files[c]) - 1
      /\ DOMAIN files'[c] = 1..Len(files[c]) - 1
      /\ \A i \in 1..Len(files[c]) - 1 : files'[c][i] = files[c][i + 1]
  <2>1. /\ Tail(files[c]) \in Seq(SUBSET Rows)
        /\ Len(Tail(files[c])) = Len(files[c]) - 1
        /\ \A i \in 1..Len(Tail(files[c])) : Tail(files[c])[i] = files[c][i + 1]
    BY <1>1, HeadTailProperties
  <2>2. DOMAIN Tail(files[c]) = 1..Len(Tail(files[c]))
    BY <2>1, LenProperties
  <2> QED BY <1>2, <2>1, <2>2
<1>4. FilesOK'
  BY <1>1, <1>2, <1>3 DEF FilesOK
<1>5. \A d \in Cells \ {c} : Contents(d)' = Contents(d)
  BY <1>2 DEF Contents
<1> QED BY <1>2, <1>3, <1>4, <1>5

LEMMA FilesSame ==
    ASSUME UNCHANGED files
    PROVE  Stored' = Stored /\ \A c : Contents(c)' = Contents(c)
BY DEF Stored, Contents

-----------------------------------------------------------------------------
(* What an operation has in memory                                         *)

LocalsOK ==
    /\ todo \subseteq Cells /\ frame \subseteq Rows
    /\ DOMAIN batch \subseteq Keys /\ Range(batch) \subseteq Cells
    /\ DOMAIN rest \subseteq Keys /\ Range(rest) \subseteq Cells
    /\ DOMAIN size = DOMAIN rest /\ Range(size) \subseteq Nat
    /\ free \in BOOLEAN
    /\ src \in Cells \cup {None}
    /\ level \in IF Placing THEN -1..TargetLevel + 1 ELSE 0..TargetLevel
    /\ \A r \in counts : r[1] \in Cells /\ r[2] \in Nat

PlacesOK ==
    /\ \A k \in DOMAIN batch : IsPrefix(batch[k], Root[k])
    /\ \A k \in DOMAIN rest : IsPrefix(rest[k], Root[k])

\* Outside of a repartition nothing is said about it.
LEMMA Elsewhere ==
    ASSUME pc \in Early
    PROVE  SourceOK /\ FrameOK /\ DeepestOK /\ RecordsOK
BY DEF Early, SourceOK, FrameOK, DeepestOK, RecordsOK, Sourcing,
       Rebalancing, Combining

LEMMA Forgotten ==
    ASSUME Forget
    PROVE  LocalsOK' /\ PlacesOK' /\ PlaceOK' /\ pc' = "idle" /\ pc' \in Early
<1>1. DOMAIN <<>> = {} /\ Range(<<>>) = {}
  BY NoRow
<1>2. 0 \in 0..TargetLevel
  BY Bounds
<1>3. LocalsOK'
  BY <1>1, <1>2 DEF Forget, LocalsOK, Placing
<1> QED BY <1>1, <1>3 DEF Forget, PlacesOK, PlaceOK, Placing, Early

LEMMA FolderDoneStep ==
    ASSUME LocalsOK, PlacesOK, PlaceOK, NEW c, FolderDone(c), pc \notin {"place", "place_merged"}
    PROVE  LocalsOK' /\ PlacesOK' /\ PlaceOK' /\ pc' \in {pc, "idle"}
<1>1. CASE todo = {c}
  BY <1>1, Forgotten DEF FolderDone
<1>2. CASE todo # {c}
  BY <1>2 DEF FolderDone, LocalsOK, PlacesOK, PlaceOK, Placing, plan, Early
<1> QED BY <1>1, <1>2

LEMMA InvInit == Init => IInv
<1> SUFFICES ASSUME Init PROVE IInv
  OBVIOUS
<1>1. DOMAIN <<>> = {} /\ Range(<<>>) = {} /\ \A S : <<>> \in Seq(S)
  BY NoRow, EmptySeq
<1>2. 0 \in 0..TargetLevel /\ 0 \in 0..MaxUploads /\ 0 \in 0..MaxCrashes
  BY Bounds
<1>3. TypeOK /\ FilesOK
  BY <1>1, <1>2 DEF Init, TypeOK, FilesOK, Placing
<1>4. \A c \in Cells : files[c] = <<>> /\ Contents(c) = {}
  BY <1>1 DEF Init, Contents
<1>5. pc \in Early
  BY DEF Init, Early
<1>6. TrimOK /\ PlaceOK /\ CellsOK /\ VersionsOK
  BY <1>1, <1>4, <1>5 DEF Init, TrimOK, PlaceOK, Early, CellsOK, VersionsOK, Placing, Sourcing,
     Rebalancing, Combining
<1>7. KeysAreSafe
  BY DEF Init, KeysAreSafe
<1>8. RowsInTheirPartition
  BY DEF Init, RowsInTheirPartition
<1> QED BY <1>3, <1>5, <1>6, <1>7, <1>8, Elsewhere DEF IInv

-----------------------------------------------------------------------------
(* Placing the rows of a batch                                             *)

LEMMA StartCells ==
    ASSUME NEW b \in SUBSET Keys, NEW k \in b
    PROVE  Start(b)[k] \in Cells /\ IsPrefix(Start(b)[k], Root[k])
<1> DEFINE S == {Len(Root[k]), TargetLevel + 1}
<1>1. Root[k] \in Seq(Quadrants) /\ Len(Root[k]) \in Nat /\ TargetLevel + 1 \in Nat
  BY RootAssumption, Bounds, LenProperties
<1>2. Min(S) \in S /\ \A m \in S : Min(S) <= m
  <2>1. S \in SUBSET Nat /\ S # {}
    BY <1>1
  <2> QED BY <2>1, MinOf
<1>3. Min(S) \in 0..Len(Root[k]) /\ Min(S) <= TargetLevel + 1
  BY <1>1, <1>2
<1>4. Start(b)[k] = SubSeq(Root[k], 1, Min(S))
  BY DEF Start
<1> HIDE DEF S
<1> QED BY <1>1, <1>3, <1>4, FirstOf

\* How many keys share a cell is a number.
LEMMA CountOfKeys ==
    ASSUME NEW S \in SUBSET Keys
    PROVE  Cardinality(S) \in Nat
BY KeysAssumption, FS_Subset, FS_CardinalityType

\* Some cell is common to all roots, so there is a longest one.
LEMMA CommonCellOf ==
    ASSUME NEW ks \in SUBSET Keys
    PROVE  CommonCell(ks) \in Cells /\ \A k \in ks : IsPrefix(CommonCell(ks), Root[k])
<1> DEFINE common == {c \in Cells : /\ Len(c) <= TargetLevel
                                   /\ \A k \in ks : IsPrefix(c, Root[k])}
           lengths == {Len(c) : c \in common}
<1>1. TargetLevel \in Nat /\ TargetLevel + 1 \in Nat
  BY Bounds
<1>2. \A c \in common : c \in Cells /\ Len(c) \in 0..TargetLevel + 1
  BY <1>1, CellLength
<1>3. common # {}
  <2>1. PICK e \in Cells : Len(e) = 0
    BY EmptyCell
  <2>2. e \in Seq(Quadrants)
    BY CellLength
  <2>3. ASSUME NEW k \in ks PROVE IsPrefix(e, Root[k])
    <3>1. Root[k] \in Seq(Quadrants) /\ Len(Root[k]) \in Nat
      BY RootAssumption, LenProperties
    <3>2. Len(e) <= Len(Root[k]) /\ \A i \in 1..Len(e) : e[i] = Root[k][i]
      BY <2>1, <3>1
    <3> QED BY <2>2, <3>1, <3>2, PrefixElements
  <2> QED BY <1>1, <2>1, <2>3
<1> HIDE DEF common
<1>4. lengths \in SUBSET (0..TargetLevel + 1) /\ lengths # {}
  BY <1>2, <1>3
<1> HIDE DEF lengths
<1>5. PICK n \in lengths : \A m \in lengths : m <= n
  BY <1>1, <1>4, MaxOf
<1>6. PICK c \in common : Len(c) = n
  BY DEF lengths
<1>7. \A d \in common : Len(d) <= Len(c)
  BY <1>5, <1>6 DEF lengths
<1>8. CommonCell(ks) \in common
  BY <1>6, <1>7 DEF CommonCell, common
<1> QED BY <1>8 DEF common

\* A folder that does not exist holds no rows.
LEMMA RowsAbove ==
    ASSUME IInv, ~misplaced, NEW c \in Cells, NEW r \in Contents(c)
    PROVE  IsPrefix(c, Root[r.key])
<1>1. c \in folders
  BY FolderFiles DEF IInv
<1> QED BY <1>1 DEF IInv, RowsInTheirPartition

LEMMA InvParts ==
    ASSUME IInv
    PROVE  /\ FilesOK /\ LocalsOK /\ PlacesOK /\ PlaceOK
           /\ reordered = FALSE => pc \in Early \cup {"raised"}
BY DEF IInv, TypeOK, LocalsOK, PlacesOK, CellsOK, VersionsOK, Sourcing,
       Rebalancing, Combining, Early

\* A step between uploads, and other early ones, that leaves the files alone.
LEMMA EarlyStep ==
    ASSUME IInv, pc' \in Early, TypeOK', FilesOK', PlaceOK', PlacesOK', TrimOK',
           UNCHANGED <<files, newest, reordered, misplaced>>,
           \A k \in Keys : newest[k] > 0 => \/ k \in KeysOf(Stored)
                                            \/ k \in doomed'
    PROVE  IInv'
<1>1. Stored' = Stored /\ \A c : Contents(c)' = Contents(c)
  BY FilesSame
<1>2. ~Sourcing' /\ ~Rebalancing' /\ ~Combining'
  BY DEF Early, Sourcing, Rebalancing, Combining
<1>3. SourceOK' /\ FrameOK' /\ DeepestOK' /\ RecordsOK'
  BY <1>2 DEF SourceOK, FrameOK, DeepestOK, RecordsOK, Sourcing, Rebalancing, Combining
<1>4. CellsOK'
  BY <1>2 DEF CellsOK, PlacesOK
<1>5. VersionsOK'
  BY <1>2 DEF IInv, VersionsOK
<1>6. KeysAreSafe'
  BY <1>1 DEF KeysAreSafe
<1>7. RowsInTheirPartition'
  BY <1>1, RowsAbove DEF RowsInTheirPartition, FilesOK
<1> QED BY <1>3, <1>4, <1>5, <1>6, <1>7 DEF IInv

\* An operation raises before it has done anything to the folder at hand.
LEMMA RaiseStep ==
    ASSUME IInv, pc \in {"upload_merged", "defrag", "levels", "combine"}, pc' = "raised",
           UNCHANGED <<store, locals, uploads, crashes, history>>
    PROVE  IInv'
<1>1. UNCHANGED <<folders, files, broken, made, trim, todo, batch, rest, size,
                  free, src, frame, level, counts, uploads, crashes, newest,
                  doomed, reordered, misplaced>>
  BY DEF store, disk, locals, plan, history
<1>2. Stored' = Stored /\ \A c : Contents(c)' = Contents(c)
  BY <1>1, FilesSame
<1>3. ~Sourcing' /\ ~Rebalancing' /\ ~Combining' /\ ~Placing /\ ~Placing' /\ ~Rewriting
  BY DEF Sourcing, Rebalancing, Combining, Placing, Rewriting
<1>4. TypeOK' /\ FilesOK'
  BY <1>1, <1>3 DEF IInv, TypeOK, FilesOK
<1>5. TrimOK' /\ PlaceOK'
  BY <1>1, <1>3 DEF IInv, TrimOK, PlaceOK, Early
<1>6. SourceOK' /\ FrameOK' /\ DeepestOK' /\ RecordsOK'
  BY <1>3 DEF SourceOK, FrameOK, DeepestOK, RecordsOK, Sourcing
<1>7. CellsOK'
  BY <1>1, <1>3 DEF IInv, CellsOK
<1>8. VersionsOK'
  BY <1>1, <1>3 DEF IInv, VersionsOK
<1>9. KeysAreSafe' /\ RowsInTheirPartition'
  BY <1>1, <1>2, <1>3 DEF IInv, KeysAreSafe, RowsInTheirPartition
<1> QED BY <1>4, <1>5, <1>6, <1>7, <1>8, <1>9 DEF IInv

LEMMA UploadStep ==
    ASSUME IInv, trim = None, NEW b \in Batches, NEW defrag \in BOOLEAN,
           Upload(b, defrag)
    PROVE  IInv'
<1> DEFINE lengths == {Len(Start(b)[k]) : k \in b}
<1>1. b \in SUBSET Keys /\ b # {}
  BY BatchesAssumption
<1>2. \A k \in b : /\ Start(b)[k] \in Cells /\ IsPrefix(Start(b)[k], Root[k])
                   /\ Len(Start(b)[k]) \in 0..TargetLevel + 1
  BY <1>1, StartCells, CellLength, Bounds
<1>3. level' \in 0..TargetLevel + 1 /\ \A k \in b : Len(Start(b)[k]) <= level'
  <2>1. lengths \in SUBSET (0..TargetLevel + 1) /\ lengths # {}
    BY <1>1, <1>2
  <2>2. level' = Max(lengths)
    BY DEF Upload
  <2> HIDE DEF lengths
  <2>3. TargetLevel + 1 \in Nat
    BY Bounds
  <2>4. Max(lengths) \in lengths /\ \A m \in lengths : m <= Max(lengths)
    BY <2>1, <2>3, MaxOf
  <2> QED BY <2>1, <2>2, <2>4 DEF lengths
<1>4. \A k \in b : Cardinality({j \in b : Root[j] = Root[k]}) \in Nat
  <2>1. \A k \in b : {j \in b : Root[j] = Root[k]} \in SUBSET Keys
    BY <1>1
  <2> QED BY <2>1, CountOfKeys
<1>5. /\ pc' \in {"place", "place_merged"} /\ pc = "idle"
      /\ UNCHANGED <<folders, files, broken, made, trim, todo, batch, free, src,
                     frame, counts, crashes, newest, doomed, reordered,
                     misplaced>>
      /\ uploads' = uploads + 1 /\ uploads < MaxUploads
      /\ rest' = Start(b)
      /\ size' = [k \in b |-> Cardinality({j \in b : Root[j] = Root[k]})]
  BY DEF Upload, store, disk, history
<1>6. DOMAIN rest' = b /\ DOMAIN size' = b /\ \A k \in b : rest'[k] = Start(b)[k]
  BY <1>5 DEF Start
<1>7. uploads' \in 0..MaxUploads /\ uploads' > 0
  BY <1>5, Bounds DEF IInv, TypeOK
<1>8. Range(rest') \subseteq Cells /\ Range(size') \subseteq Nat
  BY <1>2, <1>4, <1>5, <1>6 DEF Range
<1>9. TypeOK' /\ FilesOK'
  <2>1. level' \in -1..TargetLevel + 1
    BY <1>3, Bounds
  <2>2. Placing'
    BY <1>5 DEF Placing
  <2> QED BY <1>1, <1>5, <1>6, <1>7, <1>8, <2>1, <2>2 DEF IInv, TypeOK, FilesOK
<1>10. PlaceOK' /\ PlacesOK'
  BY <1>2, <1>3, <1>5, <1>6, InvParts DEF PlaceOK, PlacesOK, Placing, Early
<1>11. TrimOK' /\ pc' \in Early
  BY <1>5, <1>7 DEF TrimOK, Early
<1>12. \A k \in Keys : newest[k] > 0 => k \in KeysOf(Stored) \/ k \in doomed'
  BY <1>5 DEF IInv, KeysAreSafe, Rewriting
<1> QED BY <1>5, <1>9, <1>10, <1>11, <1>12, EarlyStep

LEMMA PlaceLevelStep ==
    ASSUME IInv, trim = None, PlaceLevel
    PROVE  IInv'
<1> DEFINE here == {k \in DOMAIN rest : Len(rest[k]) = level}
           taken == {k \in here : free \/ level = 0 \/ 2 * size[k] >= TargetRows}
           left == [k \in DOMAIN rest \ taken |->
                       IF k \in here THEN Parent(rest[k]) ELSE rest[k]]
           placed == [k \in taken |-> IF level = 0 THEN CommonCell(here)
                                                   ELSE rest[k]]
<1>1. /\ Placing /\ pc' = pc /\ level >= 0 /\ level' = level - 1
      /\ rest' = left
      /\ batch' = [k \in taken \cup DOMAIN batch |->
                      IF k \in taken THEN placed[k] ELSE batch[k]]
      /\ size' = [k \in DOMAIN left |->
                     Cardinality({j \in DOMAIN left : left[j] = left[k]})]
      /\ free' \in BOOLEAN
      /\ UNCHANGED <<folders, files, broken, made, trim, todo, src, frame, counts,
                     uploads, crashes, newest, doomed, reordered, misplaced>>
  BY InvParts DEF PlaceLevel, store, disk, history, LocalsOK
<1>2. /\ LocalsOK /\ PlacesOK /\ PlaceOK
      /\ level \in -1..TargetLevel + 1 /\ level \in 0..TargetLevel + 1
  BY <1>1, InvParts, Bounds DEF LocalsOK
<1>3. \A k \in DOMAIN rest : /\ k \in Keys /\ rest[k] \in Cells /\ Len(rest[k]) \in Nat
                             /\ IsPrefix(rest[k], Root[k]) /\ Len(rest[k]) <= level
  BY <1>1, <1>2, CellLength DEF LocalsOK, PlacesOK, PlaceOK, Range
<1>4. \A k \in taken : placed[k] \in Cells /\ IsPrefix(placed[k], Root[k])
  <2>1. here \in SUBSET Keys
    BY <1>3
  <2>2. CommonCell(here) \in Cells /\ \A k \in here : IsPrefix(CommonCell(here), Root[k])
    BY <2>1, CommonCellOf
  <2> QED BY <1>3, <2>2
<1>5. \A k \in DOMAIN left : /\ k \in DOMAIN rest /\ left[k] \in Cells
                             /\ IsPrefix(left[k], Root[k])
                             /\ Len(left[k]) <= level - 1
  <2>1. ASSUME NEW k \in here \ taken
        PROVE  /\ Parent(rest[k]) \in Cells /\ IsPrefix(Parent(rest[k]), Root[k])
               /\ Len(Parent(rest[k])) <= level - 1
    <3>1. rest[k] \in Cells /\ Len(rest[k]) = level /\ level # 0
      BY <1>3, <2>1
    <3>2. rest[k] # <<>>
      BY <3>1, EmptySeq
    <3>3. /\ Parent(rest[k]) \in Cells /\ Len(Parent(rest[k])) = level - 1
          /\ IsPrefix(Parent(rest[k]), rest[k])
      BY <3>1, <3>2, ParentOf
    <3>4. IsPrefix(Parent(rest[k]), Root[k])
      BY <1>3, <3>1, <3>3, UnderAbove
    <3> QED BY <1>2, <3>3, <3>4
  <2>2. \A k \in DOMAIN rest \ here : Len(rest[k]) <= level - 1
    BY <1>2, <1>3
  <2> QED BY <1>3, <2>1, <2>2
<1> HIDE DEF placed, left
<1>6. /\ DOMAIN batch' = taken \cup DOMAIN batch
      /\ \A k \in DOMAIN batch' : batch'[k] = IF k \in taken THEN placed[k] ELSE batch[k]
  BY <1>1
<1>7. LocalsOK'
  <2>1. DOMAIN batch' \subseteq Keys /\ Range(batch') \subseteq Cells
    BY <1>2, <1>3, <1>4, <1>6 DEF LocalsOK, Range
  <2>2. DOMAIN rest' \subseteq Keys /\ Range(rest') \subseteq Cells
    BY <1>1, <1>3, <1>5 DEF Range
  <2>3. ASSUME NEW k \in DOMAIN left
        PROVE  Cardinality({j \in DOMAIN left : left[j] = left[k]}) \in Nat
    <3>1. {j \in DOMAIN left : left[j] = left[k]} \in SUBSET Keys
      BY <1>3, <1>5
    <3> QED BY <3>1, CountOfKeys
  <2>4. DOMAIN size' = DOMAIN rest' /\ Range(size') \subseteq Nat
    BY <1>1, <2>3 DEF Range
  <2>5. level' \in -1..TargetLevel + 1 /\ Placing'
    BY <1>1, <1>2, Bounds DEF Placing
  <2> QED BY <1>1, <1>2, <2>1, <2>2, <2>4, <2>5 DEF LocalsOK
<1>8. TypeOK' /\ FilesOK'
  BY <1>1, <1>7 DEF IInv, TypeOK, FilesOK, LocalsOK
<1>9. PlacesOK'
  BY <1>1, <1>2, <1>4, <1>5, <1>6 DEF PlacesOK
<1>10. PlaceOK'
  BY <1>1, <1>2, <1>5 DEF PlaceOK, Placing, Early
<1>11. TrimOK' /\ pc' \in Early
  BY <1>1 DEF IInv, TrimOK, Early, Placing
<1>12. \A k \in Keys : newest[k] > 0 => k \in KeysOf(Stored) \/ k \in doomed'
  BY <1>1 DEF IInv, KeysAreSafe, Rewriting, Placing
<1> QED BY <1>1, <1>8, <1>9, <1>10, <1>11, <1>12, EarlyStep

LEMMA PlacedStep ==
    ASSUME IInv, trim = None, Placed
    PROVE  IInv'
<1>1. /\ Placing /\ DOMAIN rest = {} /\ todo' = Range(batch)
      /\ pc' \in {"upload", "upload_merged"} /\ free' = FALSE /\ level' = 0
      /\ UNCHANGED <<folders, files, broken, made, trim, batch, rest, size, src,
                     frame, counts, uploads, crashes, newest, doomed, reordered,
                     misplaced>>
  BY DEF Placed, store, disk, history
<1>2. 0 \in 0..TargetLevel
  BY Bounds
<1>3. TypeOK' /\ FilesOK'
  BY <1>1, <1>2 DEF IInv, TypeOK, FilesOK, Placing
<1>4. PlaceOK' /\ PlacesOK' /\ pc' \in Early
  BY <1>1, InvParts DEF PlaceOK, PlacesOK, Placing, Early
<1>5. TrimOK'
  BY <1>1 DEF IInv, TrimOK, Placing
<1>6. \A k \in Keys : newest[k] > 0 => k \in KeysOf(Stored) \/ k \in doomed'
  BY <1>1 DEF IInv, KeysAreSafe, Rewriting, Placing
<1> QED BY <1>1, <1>3, <1>4, <1>5, <1>6, EarlyStep

-----------------------------------------------------------------------------
(* Operations that begin and end                                           *)

LEMMA DefragStep ==
    ASSUME IInv, trim = None, Defrag
    PROVE  IInv'
<1>1. /\ pc = "idle" /\ pc' = "defrag" /\ todo' = folders
      /\ UNCHANGED <<folders, files, broken, made, trim, batch, rest, size, free,
                     src, frame, level, counts, uploads, crashes, newest, doomed,
                     reordered, misplaced>>
  BY DEF Defrag, store, disk, plan, history
<1>2. TypeOK' /\ FilesOK'
  BY <1>1 DEF IInv, TypeOK, FilesOK, Placing
<1>3. PlaceOK' /\ PlacesOK' /\ pc' \in Early /\ TrimOK'
  BY <1>1, InvParts DEF PlaceOK, PlacesOK, Placing, Early, TrimOK
<1>4. \A k \in Keys : newest[k] > 0 => k \in KeysOf(Stored) \/ k \in doomed'
  BY <1>1 DEF IInv, KeysAreSafe, Rewriting
<1> QED BY <1>1, <1>2, <1>3, <1>4, EarlyStep

\* An operation ends without a write, or the process dies.
LEMMA ForgetStep ==
    ASSUME IInv, Forget, trim' = None, made' = None, broken' \subseteq Cells,
           crashes' \in 0..MaxCrashes,
           doomed' = doomed \cup (IF Rewriting THEN KeysOf(frame) \ KeysOf(Stored) ELSE {}),
           UNCHANGED <<folders, files, uploads, newest, reordered, misplaced>>
    PROVE  IInv'
<1>1. LocalsOK' /\ PlacesOK' /\ PlaceOK' /\ pc' = "idle" /\ pc' \in Early
  BY Forgotten
<1>2. KeysOf(frame) \subseteq Keys
  BY DEF IInv, TypeOK, KeysOf, Rows
<1>3. TypeOK' /\ FilesOK'
  BY <1>1, <1>2 DEF IInv, TypeOK, FilesOK, LocalsOK
<1>4. TrimOK'
  BY <1>1 DEF TrimOK
<1>5. \A k \in Keys : newest[k] > 0 => k \in KeysOf(Stored) \/ k \in doomed'
  BY DEF IInv, KeysAreSafe
<1> QED BY <1>1, <1>3, <1>4, <1>5, EarlyStep

LEMMA RecoverStep ==
    ASSUME IInv, trim = None, made = None, Recover \/ CombineDone
    PROVE  IInv'
<1>1. /\ Forget /\ ~Rewriting /\ trim' = None /\ made' = None /\ broken' \subseteq Cells
      /\ crashes' \in 0..MaxCrashes
      /\ UNCHANGED <<folders, files, uploads, newest, doomed, reordered, misplaced>>
  BY DEF Recover, CombineDone, Rewriting, store, disk, history, IInv, TypeOK
<1> QED BY <1>1, ForgetStep

LEMMA CrashStep ==
    ASSUME IInv, Crash
    PROVE  IInv'
<1>1. crashes' \in 0..MaxCrashes /\ broken' \subseteq Cells
  BY Bounds DEF Crash, IInv, TypeOK
<1>2. doomed' = doomed \cup (IF Rewriting THEN KeysOf(frame) \ KeysOf(Stored) ELSE {})
  BY DEF Crash
<1> QED BY <1>1, <1>2, ForgetStep DEF Crash

-----------------------------------------------------------------------------
(* Files written by an upload or a defrag                                  *)

\* A file new is appended to folder c: the rows X, and merged ones of c.
LEMMA NewFileStep ==
    ASSUME IInv, pc \in {"upload", "upload_merged", "defrag"},
           NEW c \in Cells, NEW X \in SUBSET Rows, NEW new \in SUBSET Rows,
           Write(c, new),
           \A r \in X : r.ver = uploads /\ IsPrefix(c, Root[r.key]),
           KeysOf(X) \subseteq KeysOf(new),
           \A r, q \in new : r.key = q.key => r = q,
           \A r \in new :
              \/ r \in X
              \/ /\ r.key \notin KeysOf(X) /\ r \in Contents(c)
                 /\ \E i \in DOMAIN files[c] :
                       r \in files[c][i] /\ LastWith(files[c], i, r.key),
           \/ trim' = None
           \/ /\ trim' = c /\ files[c] # <<>> /\ pc # "upload"
              /\ KeysOf(new) = KeysOf(Contents(c)) \cup KeysOf(X),
           newest' = [k \in Keys |-> IF k \in KeysOf(X) THEN uploads ELSE newest[k]],
           doomed' = doomed \ KeysOf(X),
           FolderDone(c),
           UNCHANGED <<uploads, crashes, reordered, misplaced>>
    PROVE  IInv'
<1> DEFINE n == Len(files[c])
<1>1. /\ FilesOK /\ files[c] \in Seq(SUBSET Rows) /\ n \in Nat /\ DOMAIN files[c] = 1..n
      /\ \A i \in DOMAIN files[c] : files[c][i] \subseteq Contents(c)
      /\ files[c] # <<>> <=> n # 0
  BY InvParts, FolderFiles
<1>2. /\ FilesOK' /\ folders' = folders /\ made' = None /\ broken' = broken
      /\ Contents(c)' = Contents(c) \cup new
      /\ \A d \in Cells \ {c} : files'[d] = files[d] /\ Contents(d)' = Contents(d)
      /\ DOMAIN files'[c] = 1..n + 1 /\ Len(files'[c]) = n + 1
      /\ files'[c][n + 1] = new
      /\ \A i \in DOMAIN files[c] : files'[c][i] = files[c][i]
  BY <1>1, AppendedFile
<1>3. LocalsOK' /\ PlacesOK' /\ PlaceOK' /\ pc' \in {pc, "idle"} /\ pc' \in Early
  BY InvParts, FolderDoneStep DEF Early
<1> HIDE DEF n
<1>4. TypeOK'
  <2>1. newest' \in [Keys -> 0..MaxUploads] /\ doomed' \subseteq Keys
    BY DEF IInv, TypeOK
  <2>2. /\ trim' \in Cells \cup {None}
        /\ pc' \in {"idle", "upload", "upload_merged", "defrag"}
    BY <1>3
  <2> QED BY <1>2, <1>3, <2>1, <2>2 DEF IInv, TypeOK, FilesOK, LocalsOK
<1>5. TrimOK'
  <2>1. pc' \in {"upload", "upload_merged"} => uploads' > 0
    BY <1>3 DEF IInv, TrimOK
  <2>2. ASSUME trim' # None
        PROVE  /\ pc' \in {"idle", "upload_merged", "defrag"}
               /\ n + 1 >= 2
               /\ \A i \in 1..n + 1 : KeysOf(files'[c][i]) \subseteq KeysOf(new)
    <3>1. n # 0 /\ KeysOf(new) = KeysOf(Contents(c)) \cup KeysOf(X)
      BY <1>1, <2>2
    <3>2. \A i \in 1..n + 1 : i \in DOMAIN files[c] \/ i = n + 1
      BY <1>1
    <3>3. \A i \in DOMAIN files[c] : KeysOf(files[c][i]) \subseteq KeysOf(Contents(c))
      BY <1>1 DEF KeysOf
    <3>4. n + 1 >= 2
      BY <1>1, <3>1
    <3> QED BY <1>2, <1>3, <2>2, <3>1, <3>2, <3>3, <3>4
  <2> QED BY <1>2, <1>3, <2>1, <2>2 DEF TrimOK
<1>6. SourceOK' /\ FrameOK' /\ DeepestOK' /\ RecordsOK'
      /\ ~Sourcing' /\ ~Rebalancing' /\ ~Combining'
  BY <1>3 DEF SourceOK, FrameOK, DeepestOK, RecordsOK, Sourcing,
     Rebalancing, Combining
<1>7. CellsOK'
  BY <1>3, <1>6 DEF CellsOK, PlacesOK
<1>8. VersionsOK'
  <2> SUFFICES ASSUME ~reordered PROVE VersionsOK'
    BY DEF VersionsOK
  <2>1. /\ \A d \in Cells : \A i \in DOMAIN files[d] :
              \A r, q \in files[d][i] : r.key = q.key => r = q
        /\ \A k \in Keys : newest[k] > 0 =>
              \E d \in Cells : \E i \in DOMAIN files[d] :
                  /\ LastWith(files[d], i, k)
                  /\ [key |-> k, ver |-> newest[k]] \in files[d][i]
    BY DEF IInv, VersionsOK
  <2>2. \A i \in DOMAIN files'[c] : i \in DOMAIN files[c] \/ i = n + 1
    BY <1>1, <1>2
  <2>3. \A i \in DOMAIN files[c] : i \in DOMAIN files'[c] /\ i < n + 1
    BY <1>1, <1>2
  <2>4. \A d \in Cells : \A i \in DOMAIN files'[d] :
              \A r, q \in files'[d][i] : r.key = q.key => r = q
    BY <1>2, <2>1, <2>2
  <2>5. \A r \in new : r = [key |-> r.key, ver |-> r.ver]
    BY DEF Rows
  <2>6. n + 1 \in DOMAIN files'[c] /\ \A j \in DOMAIN files'[c] : ~(j > n + 1)
    BY <1>1, <1>2
  <2>7. ASSUME NEW k \in Keys, k \in KeysOf(new)
        PROVE  LastWith(files'[c], n + 1, k)
    BY <1>2, <2>6, <2>7 DEF LastWith
  <2>8. ASSUME NEW k \in Keys, newest'[k] > 0
        PROVE  \E d \in Cells : \E i \in DOMAIN files'[d] :
                  /\ LastWith(files'[d], i, k)
                  /\ [key |-> k, ver |-> newest'[k]] \in files'[d][i]
    <3>1. CASE k \in KeysOf(X)
      <4>1. PICK r \in new : r.key = k
        BY <3>1 DEF KeysOf
      <4>2. r \in X
        BY <3>1, <4>1
      <4>3. r = [key |-> k, ver |-> newest'[k]]
        BY <2>5, <3>1, <4>1, <4>2
      <4> QED BY <1>2, <2>6, <2>7, <3>1, <4>1, <4>3
    <3>2. CASE k \notin KeysOf(X)
      <4>1. newest'[k] = newest[k]
        BY <3>2
      <4>2. PICK d \in Cells : \E i \in DOMAIN files[d] :
                /\ LastWith(files[d], i, k)
                /\ [key |-> k, ver |-> newest[k]] \in files[d][i]
        BY <2>1, <2>8, <4>1
      <4>3. PICK i \in DOMAIN files[d] :
                /\ LastWith(files[d], i, k)
                /\ [key |-> k, ver |-> newest[k]] \in files[d][i]
        BY <4>2
      <4>4. CASE d # c
        BY <1>2, <4>1, <4>3, <4>4
      <4>5. CASE d = c /\ k \in KeysOf(new)
        <5>1. PICK r \in new : r.key = k
          BY <4>5 DEF KeysOf
        <5>2. r \notin X
          BY <3>2, <5>1 DEF KeysOf
        <5>3. PICK j \in DOMAIN files[c] : r \in files[c][j] /\ LastWith(files[c], j, k)
          BY <5>1, <5>2
        <5>4. j = i
          BY <1>1, <4>3, <4>5, <5>3 DEF LastWith
        <5>5. r = [key |-> k, ver |-> newest[k]]
          BY <2>1, <4>3, <4>5, <5>1, <5>3, <5>4
        <5> QED BY <1>2, <2>6, <2>7, <4>1, <4>5, <5>1, <5>5
      <4>6. CASE d = c /\ k \notin KeysOf(new)
        <5>1. LastWith(files'[c], i, k)
          BY <1>2, <2>2, <2>3, <4>3, <4>6 DEF LastWith
        <5> QED BY <1>2, <2>3, <4>1, <4>3, <4>6, <5>1
      <4> QED BY <4>4, <4>5, <4>6
    <3> QED BY <3>1, <3>2
  <2> QED BY <1>6, <2>4, <2>8 DEF VersionsOK
<1>9. KeysAreSafe'
  <2>1. \A k : k \in KeysOf(Stored) => k \in KeysOf(Stored)'
    BY <1>2 DEF KeysOf, Stored
  <2>2. KeysOf(X) \subseteq KeysOf(Stored)'
    BY <1>2 DEF KeysOf, Stored
  <2>3. ~Rewriting
    BY DEF Rewriting
  <2>4. ASSUME NEW k \in Keys, newest'[k] > 0
        PROVE  k \in KeysOf(Stored)' \/ k \in doomed'
    <3>1. CASE k \in KeysOf(X)
      BY <2>2, <3>1
    <3>2. CASE k \notin KeysOf(X)
      <4>1. newest[k] > 0
        BY <2>4, <3>2
      <4> QED BY <2>1, <2>3, <3>2, <4>1 DEF IInv, KeysAreSafe
    <3> QED BY <3>1, <3>2
  <2> QED BY <2>4 DEF KeysAreSafe
<1>10. RowsInTheirPartition'
  <2> SUFFICES ASSUME ~misplaced', NEW d \in folders', NEW r \in Contents(d)'
               PROVE  IsPrefix(d, Root[r.key])
    BY DEF RowsInTheirPartition
  <2>1. \A e \in Cells : \A q \in Contents(e) : IsPrefix(e, Root[q.key])
    BY RowsAbove
  <2>2. \A q \in new : IsPrefix(c, Root[q.key])
    BY <2>1
  <2> QED BY <1>2, <2>1, <2>2 DEF FilesOK
<1> QED BY <1>2, <1>4, <1>5, <1>3, <1>6, <1>7, <1>8, <1>9, <1>10 DEF IInv

\* _filter_partition: rows of this upload, of keys placed in the folder.
LEMMA PartRows ==
    ASSUME IInv, pc \in {"upload", "upload_merged"}, NEW c
    PROVE  /\ PartOf(c) \in SUBSET Rows
           /\ \A r \in PartOf(c) : r.ver = uploads /\ IsPrefix(c, Root[r.key])
           /\ \A r, q \in PartOf(c) : r.key = q.key => r = q
<1>1. uploads \in 1..MaxUploads /\ DOMAIN batch \subseteq Keys
  BY Bounds DEF IInv, TypeOK, TrimOK
<1>2. \A k \in DOMAIN batch : IsPrefix(batch[k], Root[k])
  BY DEF IInv, CellsOK
<1> QED BY <1>1, <1>2 DEF PartOf, Rows

LEMMA UploadFragmentStep ==
    ASSUME IInv, trim = None, NEW c \in Cells, UploadFragment(c)
    PROVE  IInv'
<1> DEFINE X == PartOf(c)
<1>1. /\ X \in SUBSET Rows
      /\ \A r \in X : r.ver = uploads /\ IsPrefix(c, Root[r.key])
      /\ \A r, q \in X : r.key = q.key => r = q
  BY PartRows DEF UploadFragment
<1>2. /\ pc = "upload" /\ Write(c, X) /\ trim' = None
      /\ newest' = [k \in Keys |-> IF k \in KeysOf(X) THEN uploads ELSE newest[k]]
      /\ doomed' = doomed \ KeysOf(X)
      /\ FolderDone(c) /\ UNCHANGED <<uploads, crashes, reordered, misplaced>>
  BY DEF UploadFragment, Written
<1> HIDE DEF X
<1> QED BY <1>1, <1>2, NewFileStep

LEMMA UploadMergedStep ==
    ASSUME IInv, trim = None, NEW c \in Cells, UploadMerged(c)
    PROVE  IInv'
<1> DEFINE X == PartOf(c)
<1>1. /\ X \in SUBSET Rows
      /\ \A r \in X : r.ver = uploads /\ IsPrefix(c, Root[r.key])
  BY PartRows DEF UploadMerged
<1>2. /\ pc = "upload_merged" /\ Merge(c, <<X>>)
      /\ newest' = [k \in Keys |-> IF k \in KeysOf(X) THEN uploads ELSE newest[k]]
      /\ doomed' = doomed \ KeysOf(X)
      /\ FolderDone(c) /\ UNCHANGED <<uploads, crashes, reordered, misplaced>>
  BY DEF UploadMerged, Written
<1> HIDE DEF X
<1>3. PICK new \in SUBSET Rows :
          /\ Write(c, new)
          /\ KeysOf(new) = KeysOf(Contents(c)) \cup KeysOf(X)
          /\ \A r, q \in new : r.key = q.key => r = q
          /\ \A r \in new :
                \/ r \in X
                \/ /\ r.key \notin KeysOf(X) /\ r \in Contents(c)
                   /\ \E i \in DOMAIN files[c] :
                         r \in files[c][i] /\ LastWith(files[c], i, r.key)
  BY <1>1, <1>2, InvParts, MergedFolder
<1>4. \/ trim' = None
      \/ trim' = c /\ files[c] # <<>>
  BY <1>2 DEF Merge
<1> QED BY <1>1, <1>2, <1>3, <1>4, NewFileStep

LEMMA DefragFolderStep ==
    ASSUME IInv, trim = None, NEW c \in Cells, DefragFolder(c)
    PROVE  IInv'
<1> DEFINE X == {}
<1>1. X \in SUBSET Rows /\ KeysOf(X) = {}
  BY DEF KeysOf
<1>2. /\ pc = "defrag" /\ Merge(c, <<>>)
      /\ newest' = [k \in Keys |-> IF k \in KeysOf(X) THEN uploads ELSE newest[k]]
      /\ doomed' = doomed \ KeysOf(X)
      /\ FolderDone(c) /\ UNCHANGED <<uploads, crashes, reordered, misplaced>>
  BY <1>1 DEF DefragFolder, history, IInv, TypeOK
<1>3. PICK new \in SUBSET Rows :
          /\ Write(c, new)
          /\ KeysOf(new) = KeysOf(Contents(c)) \cup KeysOf(X)
          /\ \A r, q \in new : r.key = q.key => r = q
          /\ \A r \in new :
                \/ r \in X
                \/ /\ r.key \notin KeysOf(X) /\ r \in Contents(c)
                   /\ \E i \in DOMAIN files[c] :
                         r \in files[c][i] /\ LastWith(files[c], i, r.key)
  BY <1>1, <1>2, InvParts, MergedFolder
<1>4. \/ trim' = None
      \/ trim' = c /\ files[c] # <<>>
  BY <1>2 DEF Merge
<1>5. \A r \in X : r.ver = uploads /\ IsPrefix(c, Root[r.key])
  OBVIOUS
<1> HIDE DEF X
<1> QED BY <1>1, <1>2, <1>3, <1>4, <1>5, NewFileStep

\* A fragment is removed: a key that was last in it would be in no later file,
\* and the last one has them all.
LEMMA RemoveFragmentStep ==
    ASSUME IInv, RemoveFragment
    PROVE  IInv'
<1>1. PICK c \in Cells : c = trim
  BY DEF IInv, TypeOK, RemoveFragment
<1> DEFINE n == Len(files[c])
<1>2. /\ pc' = pc /\ pc \in {"idle", "upload_merged", "defrag", "combine_erase", "raised"}
      /\ files' = [files EXCEPT ![c] = Tail(@)]
      /\ trim' = IF n = 2 THEN None ELSE c
      /\ UNCHANGED <<folders, broken, made, todo, batch, rest, size, free, src,
                     frame, level, counts, uploads, crashes, newest, doomed,
                     reordered, misplaced>>
      /\ n >= 2 /\ \A i \in DOMAIN files[c] : KeysOf(files[c][i]) \subseteq KeysOf(files[c][n])
  BY <1>1 DEF IInv, TrimOK, RemoveFragment, locals, plan, history
<1>3. /\ FilesOK /\ n \in Nat /\ DOMAIN files[c] = 1..n
      /\ \A r : r \in Contents(c) <=> \E i \in DOMAIN files[c] : r \in files[c][i]
      /\ Len(files[c]) >= 1
  BY <1>2, InvParts, FolderFiles
<1>4. /\ FilesOK'
      /\ \A d \in Cells \ {c} : files'[d] = files[d] /\ Contents(d)' = Contents(d)
      /\ Len(files'[c]) = n - 1 /\ DOMAIN files'[c] = 1..n - 1
      /\ \A i \in 1..n - 1 : files'[c][i] = files[c][i + 1]
  BY <1>2, <1>3, RemovedFirst
<1> HIDE DEF n
<1>5. \A i \in 1..n - 1 : i + 1 \in DOMAIN files[c]
  BY <1>2, <1>3
<1>6. n - 1 \in DOMAIN files'[c] /\ n - 1 >= 1 /\ files'[c][n - 1] = files[c][n]
  BY <1>2, <1>3, <1>4
<1>7. \A r : r \in Contents(c)' <=> \E i \in DOMAIN files'[c] : r \in files'[c][i]
  BY DEF Contents, Range
<1>8. Contents(c)' \subseteq Contents(c)
  BY <1>3, <1>4, <1>5, <1>7
<1>9. KeysOf(Contents(c)') = KeysOf(Contents(c))
  <2>1. \A k \in KeysOf(Contents(c)) : k \in KeysOf(files[c][n])
    BY <1>2, <1>3 DEF KeysOf
  <2>2. files[c][n] \subseteq Contents(c)'
    BY <1>6, <1>7
  <2> QED BY <1>8, <2>1, <2>2 DEF KeysOf
<1>10. \A d \in Cells : /\ Contents(d)' \subseteq Contents(d)
                        /\ KeysOf(Contents(d)') = KeysOf(Contents(d))
  BY <1>4, <1>8, <1>9
<1>11. folders' = folders
  BY <1>2
<1>12. TypeOK'
  BY <1>2, <1>4, InvParts DEF IInv, TypeOK, FilesOK, Placing
<1>13. TrimOK'
  <2>1. CASE n = 2
    BY <1>2, <2>1 DEF IInv, TrimOK
  <2>2. CASE n # 2
    <3>1. trim' = c /\ Len(files'[c]) >= 2
      BY <1>2, <1>3, <1>4, <2>2
    <3>2. \A i \in DOMAIN files'[c] :
              KeysOf(files'[c][i]) \subseteq KeysOf(files'[c][Len(files'[c])])
      BY <1>2, <1>4, <1>5, <1>6
    <3> QED BY <1>2, <3>1, <3>2 DEF IInv, TrimOK
  <2> QED BY <2>1, <2>2
<1>14. PlaceOK' /\ CellsOK'
  BY <1>2 DEF IInv, PlaceOK, CellsOK, Placing, Sourcing
<1>15. SourceOK' /\ RecordsOK' /\ DeepestOK'
  BY <1>2, <1>11 DEF IInv, SourceOK, RecordsOK, DeepestOK, Sourcing, Rebalancing, Combining
<1>16. FrameOK'
  <2>1. CASE pc = "combine_erase"
    <3>1. /\ src \in Cells /\ Parent(src) \in Cells
          /\ KeysOf(Contents(src)) \subseteq KeysOf(Contents(Parent(src)))
      BY <2>1 DEF IInv, SourceOK, FrameOK, FilesOK
    <3>2. PICK s \in Cells, p \in Cells : s = src /\ p = Parent(src)
      BY <3>1
    <3>3. KeysOf(Contents(s)') \subseteq KeysOf(Contents(p)')
      BY <1>10, <3>1, <3>2
    <3>4. src' = s /\ Parent(src)' = p
      BY <1>2, <3>2 DEF Parent
    <3> QED BY <1>2, <2>1, <3>3, <3>4 DEF FrameOK
  <2>2. CASE pc # "combine_erase"
    BY <1>2, <2>2 DEF FrameOK
  <2> QED BY <2>1, <2>2
<1>17. VersionsOK'
  <2> SUFFICES ASSUME ~reordered PROVE VersionsOK'
    BY <1>2 DEF VersionsOK
  <2>1. /\ ~Rebalancing /\ ~Combining
        /\ \A d \in Cells : \A i \in DOMAIN files[d] :
              \A r, q \in files[d][i] : r.key = q.key => r = q
        /\ \A k \in Keys : newest[k] > 0 =>
              \E d \in Cells : \E i \in DOMAIN files[d] :
                  /\ LastWith(files[d], i, k)
                  /\ [key |-> k, ver |-> newest[k]] \in files[d][i]
    BY DEF IInv, VersionsOK
  <2>2. \A d \in Cells : \A i \in DOMAIN files'[d] :
              \A r, q \in files'[d][i] : r.key = q.key => r = q
    BY <1>4, <1>5, <2>1
  <2>3. ASSUME NEW k \in Keys, newest[k] > 0
        PROVE  \E d \in Cells : \E i \in DOMAIN files'[d] :
                  /\ LastWith(files'[d], i, k)
                  /\ [key |-> k, ver |-> newest[k]] \in files'[d][i]
    <3>1. PICK d \in Cells : \E i \in DOMAIN files[d] :
              /\ LastWith(files[d], i, k)
              /\ [key |-> k, ver |-> newest[k]] \in files[d][i]
      BY <2>1, <2>3
    <3>2. PICK i \in DOMAIN files[d] :
              /\ LastWith(files[d], i, k)
              /\ [key |-> k, ver |-> newest[k]] \in files[d][i]
      BY <3>1
    <3>3. CASE d # c
      BY <1>4, <3>2, <3>3
    <3>4. CASE d = c
      <4>1. i # 1
        <5>1. n \in DOMAIN files[c] /\ n > 1
          BY <1>2, <1>3
        <5>2. k \in KeysOf(files[c][n])
          BY <1>2, <3>2, <3>4 DEF LastWith
        <5> QED BY <3>2, <3>4, <5>1, <5>2 DEF LastWith
      <4>2. i - 1 \in 1..n - 1 /\ i - 1 + 1 = i
        BY <1>3, <3>4, <4>1
      <4>3. files'[c][i - 1] = files[c][i]
        BY <1>4, <4>2
      <4>4. \A j \in 1..n - 1 : j > i - 1 => j + 1 > i
        BY <1>3, <3>4
      <4>5. LastWith(files'[c], i - 1, k)
        BY <1>4, <1>5, <3>2, <3>4, <4>2, <4>3, <4>4 DEF LastWith
      <4> QED BY <1>4, <3>2, <3>4, <4>2, <4>3, <4>5
    <3> QED BY <3>3, <3>4
  <2> QED BY <1>2, <2>1, <2>2, <2>3 DEF VersionsOK, Rebalancing, Combining, Sourcing
<1>18. KeysAreSafe'
  <2>1. \A k : k \in KeysOf(Stored) => k \in KeysOf(Stored')
    BY <1>10 DEF KeysOf, Stored
  <2> QED BY <1>2, <2>1 DEF IInv, KeysAreSafe, Rewriting
<1>19. RowsInTheirPartition'
  BY <1>2, <1>10, <1>11 DEF IInv, RowsInTheirPartition, FilesOK
<1> QED BY <1>4, <1>12, <1>13, <1>14, <1>15, <1>16, <1>17, <1>18, <1>19 DEF IInv

-----------------------------------------------------------------------------
(* Going through the levels                                                *)

\* What the steps of a repartition have in common.
LEMMA LateFrame ==
    ASSUME IInv, pc' \in Late, ~Placing, FilesOK', reordered' = TRUE,
           UNCHANGED <<plan, uploads, crashes, newest, doomed>>,
           broken' \subseteq Cells, misplaced' \in BOOLEAN, trim' \in Cells \cup {None},
           todo' \subseteq Cells, frame' \subseteq Rows, src' \in Cells \cup {None},
           level' \in 0..TargetLevel,
           \A r \in counts' : r[1] \in Cells /\ r[2] \in Nat
    PROVE  /\ TypeOK' /\ PlaceOK' /\ PlacesOK' /\ VersionsOK'
           /\ trim' = None => TrimOK'
<1>1. ~Placing' /\ pc' \notin Early
  BY DEF Late, Early, Placing
<1>2. LocalsOK' /\ PlacesOK'
  BY <1>1, InvParts DEF plan, LocalsOK, PlacesOK
<1>3. TypeOK'
  BY <1>2 DEF IInv, TypeOK, FilesOK, LocalsOK, Late
<1>4. PlaceOK'
  BY <1>1, InvParts DEF plan, PlaceOK
<1> QED BY <1>2, <1>3, <1>4 DEF VersionsOK, TrimOK, Late

LEMMA LateFacts ==
    ASSUME IInv, pc \in Late, pc # "raised"
    PROVE  /\ FilesOK /\ reordered = TRUE /\ ~Placing /\ level \in 0..TargetLevel
           /\ LocalsOK /\ PlacesOK /\ misplaced \in BOOLEAN /\ broken \subseteq Cells
BY InvParts DEF IInv, TypeOK, Late, Early, Placing

LEMMA RepartitionStep ==
    ASSUME IInv, trim = None, Repartition
    PROVE  IInv'
<1> DEFINE lens == {Len(c) : c \in Coarse}
<1>1. /\ pc = "idle" /\ pc' = "levels" /\ reordered' = TRUE
      /\ level' = IF Coarse = {} THEN TargetLevel ELSE Min(lens)
      /\ todo' = {c \in Coarse : Len(c) = Min(lens)}
      /\ UNCHANGED <<folders, files, broken, made, trim, plan, src, frame, counts,
                     uploads, crashes, newest, doomed, misplaced>>
  BY DEF Repartition, store, disk
<1>2. folders' = folders /\ made' = made /\ Stored' = Stored /\ \A c : Contents(c)' = Contents(c)
  BY <1>1, FilesSame
<1>3. /\ counts = {} /\ ~Placing /\ FilesOK /\ LocalsOK /\ TargetLevel \in Nat
      /\ misplaced \in BOOLEAN /\ broken \subseteq Cells
  BY <1>1, InvParts, Bounds DEF IInv, TypeOK, PlaceOK, Placing, Early
<1>4. \A c \in Coarse : /\ c \in folders /\ c \in Cells
                        /\ Len(c) \in 0..TargetLevel
  BY <1>3, CellLength, Bounds DEF Coarse, FilesOK
<1>5. Coarse # {} => Min(lens) \in lens /\ \A c \in Coarse : Min(lens) <= Len(c)
  <2>1. ASSUME Coarse # {}
        PROVE  lens \in SUBSET Nat /\ lens # {}
    <3>1. \A c \in Coarse : Len(c) \in Nat
      BY <1>4
    <3> QED BY <2>1, <3>1
  <2>2. ASSUME Coarse # {}
        PROVE  Min(lens) \in lens /\ \A m \in lens : Min(lens) <= m
    <3> HIDE DEF lens
    <3> QED BY <2>1, <2>2, MinOf
  <2> QED BY <2>2
<1>6. level' \in 0..TargetLevel
  BY <1>1, <1>3, <1>4, <1>5
<1>7. \A c \in todo' : c \in Cells /\ c \in folders /\ Len(c) = level'
  BY <1>1, <1>4
<1>8. \A c \in folders : ~(Len(c) < level') /\ (Len(c) = level' => c \in todo')
  <2> SUFFICES ASSUME NEW c \in folders
               PROVE  ~(Len(c) < level') /\ (Len(c) = level' => c \in todo')
    OBVIOUS
  <2>1. c \in Cells /\ Len(c) \in Nat
    BY <1>3, CellLength DEF FilesOK
  <2>2. c \in Coarse <=> Len(c) <= TargetLevel
    BY DEF Coarse
  <2>3. CASE Coarse = {}
    BY <1>1, <1>3, <2>1, <2>2, <2>3
  <2>4. CASE Coarse # {}
    <3>1. level' \in 0..TargetLevel /\ level' = Min(lens)
      BY <1>1, <1>6, <2>4
    <3>2. Len(c) <= level' => c \in Coarse
      BY <2>1, <2>2, <3>1, <1>3
    <3>3. Len(c) <= level' => Len(c) = level'
      BY <1>5, <2>1, <2>4, <3>1, <3>2
    <3>4. Len(c) = level' => c \in todo'
      BY <1>1, <2>1, <3>1, <3>2
    <3> QED BY <2>1, <3>1, <3>3, <3>4
  <2> QED BY <2>3, <2>4
<1> HIDE DEF lens
<1>9. ~Sourcing' /\ Rebalancing' /\ ~Combining' /\ ~Rewriting' /\ ~Rewriting
  BY <1>1 DEF Sourcing, Rebalancing, Combining, Rewriting
<1>10. TypeOK' /\ FilesOK' /\ PlaceOK' /\ PlacesOK' /\ VersionsOK' /\ TrimOK'
  <2>1. FilesOK' /\ pc' \in Late
    BY <1>1, <1>3 DEF FilesOK, Late
  <2>2. todo' \subseteq Cells /\ frame' \subseteq Rows /\ src' \in Cells \cup {None}
    BY <1>1, <1>3, <1>7 DEF LocalsOK
  <2> QED BY <1>1, <1>3, <1>6, <2>1, <2>2, LateFrame
<1>11. SourceOK' /\ FrameOK' /\ CellsOK' /\ RecordsOK'
  BY <1>1, <1>2, <1>3, <1>7, <1>9, <1>10
     DEF SourceOK, FrameOK, CellsOK, PlacesOK, RecordsOK
<1>12. DeepestOK'
  BY <1>1, <1>2, <1>8, <1>9 DEF DeepestOK, Through
<1>13. KeysAreSafe' /\ RowsInTheirPartition'
  BY <1>1, <1>2, <1>9 DEF IInv, KeysAreSafe, RowsInTheirPartition
<1> QED BY <1>10, <1>11, <1>12, <1>13 DEF IInv

LEMMA FailsStep ==
    ASSUME IInv, trim = None, NEW c \in Cells,
           UploadFails(c) \/ DefragFails(c) \/ SourceFails(c) \/ LevelsFail \/ CombineFails(c)
    PROVE  IInv'
BY RaiseStep DEF UploadFails, DefragFails, SourceFails, LevelsFail, CombineFails

LEMMA NextLevelStep ==
    ASSUME IInv, trim = None, made = None, NextLevel
    PROVE  IInv'
<1>1. /\ pc = "levels" /\ pc' = "levels" /\ todo = {} /\ level < TargetLevel
      /\ level' = level + 1 /\ todo' = {c \in folders : Len(c) = level + 1}
      /\ trim' = None
      /\ UNCHANGED <<folders, files, broken, made, plan, src, frame, counts,
                     uploads, crashes, newest, doomed, reordered, misplaced>>
  BY DEF NextLevel, store, disk, history
<1>2. folders' = folders /\ Stored' = Stored /\ \A c : Contents(c)' = Contents(c)
  BY <1>1, FilesSame
<1>3. /\ ~Sourcing' /\ Rebalancing' /\ ~Combining' /\ ~Rewriting /\ ~Rewriting'
      /\ ~Sourcing /\ Rebalancing
  BY <1>1 DEF Sourcing, Rebalancing, Combining, Rewriting
<1>4. pc \in Late /\ FilesOK /\ LocalsOK /\ level \in 0..TargetLevel /\ reordered = TRUE
  BY <1>1, LateFacts DEF Late
<1>5. level' \in 0..TargetLevel
  BY <1>1, <1>4, Bounds
<1>6. TypeOK' /\ FilesOK' /\ PlaceOK' /\ PlacesOK' /\ VersionsOK' /\ TrimOK'
  <2>1. FilesOK' /\ pc' \in Late /\ todo' \subseteq Cells
    BY <1>1, <1>4 DEF FilesOK, Late
  <2> QED BY <1>1, <1>4, <1>5, <2>1, LateFacts, LateFrame DEF LocalsOK
<1>7. \A c \in folders : Through(c)' => Through(c)
  BY <1>1, <1>3, <1>4, CellLength DEF Through
<1>8. \A c \in Cells : Through(c) => Through(c)'
  BY <1>1, <1>3, <1>4, CellLength DEF Through
<1>9. SourceOK' /\ FrameOK' /\ CellsOK'
  BY <1>1, <1>2, <1>3, <1>6 DEF SourceOK, FrameOK, CellsOK, PlacesOK
<1>10. RecordsOK'
  BY <1>1, <1>2, <1>3, <1>4, <1>8 DEF IInv, RecordsOK, LocalsOK
<1>11. DeepestOK'
  <2>1. \A d : Present(d)' => Present(d)
    BY <1>2, <1>3 DEF Present
  <2> QED BY <1>1, <1>2, <1>3, <1>7, <2>1 DEF IInv, DeepestOK, Under, FilesOK
<1>12. KeysAreSafe' /\ RowsInTheirPartition'
  BY <1>1, <1>2, <1>3 DEF IInv, KeysAreSafe, RowsInTheirPartition
<1> QED BY <1>6, <1>9, <1>10, <1>11, <1>12 DEF IInv

LEMMA NextSourceStep ==
    ASSUME IInv, trim = None, made = None, NEW c \in Cells, NextSource(c)
    PROVE  IInv'
<1>1. /\ pc = "levels" /\ pc' = "shard" /\ c \in todo /\ todo' = todo \ {c}
      /\ src' = c /\ frame' = Contents(c) /\ trim' = None
      /\ UNCHANGED <<folders, files, broken, made, plan, level, counts, uploads,
                     crashes, newest, doomed, reordered, misplaced>>
  BY DEF NextSource, store, disk, history
<1>2. folders' = folders /\ Stored' = Stored /\ \A d : Contents(d)' = Contents(d)
  BY <1>1, FilesSame
<1>3. /\ Sourcing' /\ Rebalancing' /\ ~Combining' /\ ~Rewriting /\ ~Rewriting'
      /\ ~Sourcing /\ Rebalancing
  BY <1>1 DEF Sourcing, Rebalancing, Combining, Rewriting
<1>4. pc \in Late /\ FilesOK /\ LocalsOK /\ level \in 0..TargetLevel /\ reordered = TRUE
  BY <1>1, LateFacts DEF Late
<1>5. /\ c \in folders /\ Len(c) = level /\ Contents(c) \subseteq Rows
      /\ \A d \in todo : d \in folders /\ Len(d) = level
  BY <1>1, <1>3, <1>4, FolderFiles DEF IInv, SourceOK
<1>6. TypeOK' /\ FilesOK' /\ PlaceOK' /\ PlacesOK' /\ VersionsOK' /\ TrimOK'
  <2>1. FilesOK' /\ pc' \in Late /\ todo' \subseteq Cells /\ frame' \subseteq Rows
    BY <1>1, <1>4, <1>5 DEF FilesOK, Late, LocalsOK
  <2> QED BY <1>1, <1>4, <2>1, LateFacts, LateFrame DEF LocalsOK
<1>7. \A d \in Cells : Through(d)' <=> Through(d)
  BY <1>1, <1>3 DEF Through
<1>8. SourceOK'
  BY <1>1, <1>2, <1>5 DEF SourceOK
<1>9. FrameOK'
  <2>1. \A r \in Contents(c) : r \in frame'
    BY <1>1
  <2> QED BY <1>1, <1>2, <2>1 DEF FrameOK
<1>10. CellsOK'
  BY <1>1, <1>5, <1>6 DEF IInv, CellsOK, PlacesOK, RowsInTheirPartition
<1>11. RecordsOK'
  BY <1>1, <1>2, <1>3, <1>4, <1>7 DEF IInv, RecordsOK, LocalsOK
<1>12. DeepestOK'
  <2>1. \A d : Present(d)' => Present(d)
    BY <1>1, <1>2, <1>5 DEF Present
  <2> QED BY <1>1, <1>2, <1>3, <1>7, <2>1 DEF IInv, DeepestOK, Under, FilesOK
<1>13. KeysAreSafe' /\ RowsInTheirPartition'
  BY <1>1, <1>2, <1>3 DEF IInv, KeysAreSafe, RowsInTheirPartition
<1> QED BY <1>6, <1>8, <1>9, <1>10, <1>11, <1>12, <1>13 DEF IInv

\* Nothing can be moved any more, by sharding or by splitting.
LEMMA NothingMoreStep ==
    ASSUME IInv, trim = None, made = None, pc \in {"shard", "split"},
           pc = "shard" => Targets = {}, pc' \in {"split", "erase_sharded", "erase_split"},
           UNCHANGED <<store, locals, uploads, crashes, history>>
    PROVE  IInv'
<1>1. UNCHANGED <<folders, files, broken, made, trim, todo, plan, src, frame,
                  level, counts, uploads, crashes, newest, doomed, reordered,
                  misplaced>>
  BY DEF store, disk, locals, history
<1>2. Stored' = Stored /\ \A d : Contents(d)' = Contents(d)
  BY <1>1, FilesSame
<1>3. /\ Sourcing' /\ Rebalancing' /\ ~Combining' /\ ~Rewriting
      /\ Sourcing /\ Rebalancing
  BY DEF Sourcing, Rebalancing, Combining, Rewriting
<1>4. /\ pc \in Late /\ FilesOK /\ LocalsOK /\ level \in 0..TargetLevel /\ reordered = TRUE
      /\ broken \subseteq Cells
  BY LateFacts DEF Late, IInv, TypeOK
<1>5. TypeOK' /\ FilesOK' /\ PlaceOK' /\ PlacesOK' /\ VersionsOK' /\ TrimOK'
  <2>1. FilesOK' /\ pc' \in Late
    BY <1>1, <1>4 DEF FilesOK, Late
  <2> QED BY <1>1, <1>4, <2>1, LateFacts, LateFrame DEF LocalsOK
<1>6. \A d : (Through(d)' <=> Through(d)) /\ (Present(d)' <=> Present(d))
  BY <1>1, <1>3 DEF Through, Present
<1>7. SourceOK' /\ CellsOK' /\ RecordsOK'
  BY <1>1, <1>2, <1>3, <1>5, <1>6 DEF IInv, SourceOK, CellsOK, PlacesOK, RecordsOK
<1>8. FrameOK'
  <2>1. Contents(src)' = Contents(src)
    BY <1>1 DEF Contents
  <2> QED BY <1>1, <1>2, <2>1 DEF IInv, FrameOK
<1>9. DeepestOK'
  <2>1. \A d \in folders \ {made} : Above(src, d) => Under(frame, d) = {}
    <3>1. CASE pc = "shard"
      BY <3>1 DEF Targets
    <3>2. CASE pc = "split"
      BY <1>3, <3>2 DEF IInv, DeepestOK
    <3> QED BY <3>1, <3>2
  <2> QED BY <1>1, <1>2, <1>3, <1>6, <2>1 DEF IInv, DeepestOK, Under, Above
<1>10. KeysAreSafe' /\ RowsInTheirPartition'
  BY <1>1, <1>2, <1>3 DEF IInv, KeysAreSafe, RowsInTheirPartition
<1> QED BY <1>5, <1>7, <1>8, <1>9, <1>10 DEF IInv

LEMMA NothingShardedStep ==
    ASSUME IInv, trim = None, made = None, ShardNothing \/ SomeSharded \/ SomeSplit
    PROVE  IInv'
BY NothingMoreStep DEF ShardNothing, SomeSharded, SomeSplit

-----------------------------------------------------------------------------
(* Sharding and splitting a folder                                         *)

\* The folder at hand, for the steps that move its rows.
LEMMA SourceFacts ==
    ASSUME IInv, Sourcing
    PROVE  /\ src \in Cells /\ Len(src) = level /\ src \notin todo /\ Rebalancing
           /\ ~Combining /\ pc \in Late /\ pc # "raised"
           /\ frame \subseteq Rows /\ todo \subseteq Cells
           /\ \A d \in todo : d \in folders /\ Len(d) = level
           /\ FilesOK /\ reordered = TRUE /\ ~Placing /\ level \in 0..TargetLevel
           /\ misplaced \in BOOLEAN
           /\ \A r \in counts : r[1] \in Cells /\ r[2] \in Nat
           /\ \A r \in counts : (r[1] \in folders \/ r[2] = 0) /\ r[1] # src
           /\ \A r \in counts : Through(r[1])
           /\ broken \subseteq Cells
<1>1. pc \in Late /\ Rebalancing /\ ~Combining /\ pc # "raised"
  BY DEF Sourcing, Late, Rebalancing, Combining
<1>2. src \in Cells /\ Len(src) = level /\ src \notin todo
      /\ \A d \in todo : d \in folders /\ Len(d) = level
  BY <1>1 DEF IInv, SourceOK
<1>3. /\ \A r \in counts : r[1] \in folders \/ r[2] = 0
      /\ \A r \in counts : Through(r[1])
  BY <1>1 DEF IInv, RecordsOK
<1>4. level \in 0..TargetLevel
  BY <1>1, LateFacts
<1>5. ~Through(src)
  BY <1>2, <1>4 DEF Through
<1> QED BY <1>1, <1>2, <1>3, <1>5, LateFacts DEF LocalsOK, IInv, TypeOK

\* Rows leave the folder for one below.
LEMMA MoveStep ==
    ASSUME IInv, pc \in {"shard", "split"}, NEW c \in Cells, Above(src, c),
           Write(c, Under(frame, c)),
           frame' = frame \ Under(frame, c), trim' = None,
           UNCHANGED <<pc, todo, plan, src, level, counts, uploads, crashes,
                       newest, doomed, reordered, misplaced>>
    PROVE  IInv'
<1> DEFINE U == Under(frame, c)
<1>1. /\ Sourcing /\ Sourcing' /\ Rebalancing' /\ ~Combining' /\ ~Rewriting
      /\ ~Placing
  BY DEF Sourcing, Rebalancing, Combining, Rewriting, Placing
<1>2. PICK s \in Cells : s = src
  BY <1>1, SourceFacts
<1>3. /\ src' = s /\ src = s /\ Len(s) = level /\ s \notin todo /\ pc \in Late
      /\ frame \subseteq Rows /\ todo \subseteq Cells
      /\ \A d \in todo : d \in folders /\ Len(d) = level
      /\ FilesOK /\ reordered = TRUE /\ level \in 0..TargetLevel /\ misplaced \in BOOLEAN
      /\ \A r \in counts : r[1] \in Cells /\ r[2] \in Nat
      /\ \A r \in counts : r[1] \in folders \/ r[2] = 0
      /\ broken \subseteq Cells
  BY <1>1, <1>2, SourceFacts
<1>4. s \in folders
  BY <1>2 DEF IInv, SourceOK
<1>5. /\ Len(s) < Len(c) /\ IsPrefix(s, c) /\ s # c /\ Len(c) \in Nat
  BY <1>2, AboveParent, CellLength
<1>6. /\ U \in SUBSET Rows /\ U \subseteq frame
      /\ \A r \in U : IsPrefix(c, Root[r.key])
  BY <1>3 DEF Under
<1>7. /\ FilesOK' /\ c \in folders /\ folders' = folders /\ made' = None /\ broken' = broken
      /\ made = c
      /\ Contents(c)' = Contents(c) \cup U
      /\ \A d \in Cells \ {c} : Contents(d)' = Contents(d)
  BY <1>3, <1>6, AppendedFile DEF Write
<1>8. frame' = frame \ U
  OBVIOUS
<1> HIDE DEF U
<1>9. TypeOK' /\ PlaceOK' /\ PlacesOK' /\ VersionsOK' /\ TrimOK'
  <2>1. frame' \subseteq Rows
    BY <1>3, <1>8
  <2> QED BY <1>1, <1>2, <1>3, <1>7, <2>1, LateFrame
<1>10. \A d \in Cells : (Through(d)' <=> Through(d)) /\ (Through(d) => d # c /\ d # s)
  BY <1>1, <1>3, <1>5 DEF Through
<1>11. SourceOK'
  BY <1>1, <1>2, <1>3, <1>4, <1>7 DEF SourceOK
<1>12. FrameOK'
  <2>1. \A r \in Contents(s) : r \in frame \/ \E d \in Cells \ {s} : r \in Contents(d)
    BY <1>2 DEF IInv, FrameOK
  <2>2. \A d \in Cells : Contents(d) \subseteq Contents(d)'
    BY <1>7
  <2>3. ASSUME NEW r \in Contents(s)'
        PROVE  r \in frame' \/ \E d \in Cells \ {s} : r \in Contents(d)'
    <3>1. r \in Contents(s)
      BY <1>5, <1>7
    <3>2. CASE r \in U
      BY <1>5, <1>7, <3>2
    <3>3. CASE r \notin U
      BY <1>8, <2>1, <2>2, <3>1, <3>3
    <3> QED BY <3>2, <3>3
  <2>4. pc' # "combine_erase"
    OBVIOUS
  <2> QED BY <1>2, <1>3, <2>3, <2>4 DEF FrameOK
<1>13. CellsOK'
  BY <1>1, <1>2, <1>8, <1>9 DEF IInv, CellsOK, PlacesOK
<1>14. RecordsOK'
  BY <1>1, <1>3, <1>7, <1>10, SourceFacts DEF RecordsOK
<1>15. DeepestOK'
  <2>1. ASSUME NEW d \in folders', NEW e \in Cells, Through(d), Above(d, e), Present(e)'
        PROVE  Under(Contents(d)', e) = {}
    <3>1. d \in Cells /\ d \in folders /\ Contents(d)' = Contents(d) /\ Present(e)
      BY <1>1, <1>7, <1>10, <2>1 DEF FilesOK, Present
    <3> QED BY <1>1, <2>1, <3>1, SourceFacts DEF IInv, DeepestOK
  <2>2. ASSUME pc' = "split", NEW d \in folders', Above(s, d)
        PROVE  Under(frame', d) = {}
    <3>1. CASE d = c
      BY <1>8, <3>1 DEF Under, U
    <3>2. CASE d # c
      <4>1. d \in folders /\ pc = "split" /\ Above(src, d)
        BY <1>2, <1>7, <2>2, <3>2
      <4>2. Under(frame, d) = {}
        BY <1>1, <1>7, <3>2, <4>1, SourceFacts DEF IInv, DeepestOK
      <4> QED BY <1>8, <4>2 DEF Under
    <3> QED BY <3>1, <3>2
  <2>3. \A d, e : Above(d, e)' <=> Above(d, e)
    BY DEF Above
  <2>4. ASSUME NEW d \in folders', NEW e \in Cells, Through(d)', Above(d, e), Present(e)'
        PROVE  Under(Contents(d), e)' = {}
    <3>1. d \in Cells
      BY <1>7 DEF FilesOK
    <3> QED BY <1>10, <2>1, <2>4, <3>1 DEF Under
  <2>5. pc' # "shard" => pc' = "split"
    OBVIOUS
  <2> QED BY <1>3, <2>2, <2>4, <2>5 DEF DeepestOK, Above, Under
<1>16. KeysAreSafe'
  <2>1. \A k : k \in KeysOf(Stored) => k \in KeysOf(Stored)'
    BY <1>7 DEF KeysOf, Stored
  <2> QED BY <1>1, <2>1 DEF IInv, KeysAreSafe
<1>17. RowsInTheirPartition'
  <2> SUFFICES ASSUME ~misplaced, NEW d \in folders', NEW r \in Contents(d)'
               PROVE  IsPrefix(d, Root[r.key])
    BY DEF RowsInTheirPartition
  <2>1. d \in Cells
    BY <1>7 DEF FilesOK
  <2>2. r \in Contents(d) \/ (d = c /\ r \in U)
    BY <1>7, <2>1
  <2> QED BY <1>6, <2>1, <2>2, RowsAbove
<1> QED BY <1>7, <1>9, <1>11, <1>12, <1>13, <1>14, <1>15, <1>16, <1>17 DEF IInv

LEMMA ShardToStep ==
    ASSUME IInv, trim = None, NEW c \in Cells, ShardTo(c)
    PROVE  IInv'
<1>1. Above(src, c)
  BY DEF ShardTo, Targets
<1> QED BY <1>1, MoveStep DEF ShardTo, history

\* Rows are split among the children of the folder.
LEMMA ChildOf ==
    ASSUME IInv, pc = "split", NEW c \in WorthChildren
    PROVE  Above(src, c) /\ Len(c) = level + 1
<1>1. PICK s \in Cells : s = src
  BY SourceFacts DEF Sourcing
<1>2. Len(s) = level /\ s \in Seq(Quadrants) /\ Len(s) \in Nat
  BY <1>1, SourceFacts, CellLength DEF Sourcing
<1>3. PICK x \in Quadrants : c = Append(s, x)
  BY <1>1 DEF WorthChildren
<1>4. /\ c \in Seq(Quadrants) /\ Len(c) = Len(s) + 1
      /\ \A i \in 1..Len(s) : c[i] = s[i]
  BY <1>2, <1>3, AppendProperties
<1>5. Above(s, c)
  <2>1. IsPrefix(s, c)
    BY <1>2, <1>4, PrefixElements
  <2>2. s # c
    BY <1>2, <1>4
  <2> QED BY <2>1, <2>2 DEF Above, IsStrictPrefix
<1> QED BY <1>1, <1>2, <1>4, <1>5

LEMMA SplitToStep ==
    ASSUME IInv, trim = None, NEW c \in Cells, SplitTo(c)
    PROVE  IInv'
<1>1. Above(src, c)
  BY ChildOf DEF SplitTo
<1> QED BY <1>1, MoveStep DEF SplitTo, history

\* A file of the folder at hand is removed: its rows are elsewhere or in memory.
LEMMA RemoveFileStep ==
    ASSUME IInv, trim = None, RemoveFile
    PROVE  IInv'
<1>1. /\ pc \in {"erase_sharded", "erase_split", "combine_erase"}
      /\ UNCHANGED <<folders, broken, made, trim, pc, todo, plan, src, frame,
                     level, counts, uploads, crashes, newest, doomed, reordered,
                     misplaced>>
  BY DEF RemoveFile, Erasing, locals, history
<1>2. PICK s \in Cells : s = src
  BY <1>1 DEF IInv, SourceOK, Sourcing
<1>3. PICK i \in DOMAIN files[s] : files' = [files EXCEPT ![s] = RemoveAt(@, i)]
  BY <1>2 DEF RemoveFile
<1>4. /\ FilesOK /\ reordered = TRUE /\ ~Placing /\ level \in 0..TargetLevel /\ LocalsOK
      /\ misplaced \in BOOLEAN /\ broken \subseteq Cells /\ pc \in Late
  BY <1>1, LateFacts DEF Late, IInv, TypeOK
<1>5. /\ FilesOK' /\ Contents(s)' \subseteq Contents(s)
      /\ \A d \in Cells \ {s} : Contents(d)' = Contents(d)
  BY <1>1, <1>3, <1>4, RemovedFile
<1>6. \A d \in Cells : Contents(d)' \subseteq Contents(d)
  BY <1>5
<1>7. TypeOK' /\ PlaceOK' /\ PlacesOK' /\ VersionsOK' /\ TrimOK'
  <2>1. trim' = None
    BY <1>1
  <2> QED BY <1>1, <1>4, <1>5, <2>1, LateFrame DEF LocalsOK
<1>8. SourceOK'
  BY <1>1 DEF IInv, SourceOK, Sourcing, Rebalancing, Parent
<1>9. CellsOK'
  BY <1>1, <1>7 DEF IInv, CellsOK, PlacesOK, Sourcing
<1>10. RecordsOK'
  BY <1>1 DEF IInv, RecordsOK, Rebalancing, Combining, Sourcing, Through
<1>11. FrameOK'
  <2>1. CASE pc = "combine_erase"
    <3>1. PICK q \in Cells : q = Parent(src) /\ q # s
      BY <1>2, <2>1, ParentOf DEF IInv, SourceOK
    <3>2. KeysOf(Contents(s)') \subseteq KeysOf(Contents(q)')
      <4>1. KeysOf(Contents(s)) \subseteq KeysOf(Contents(q))
        BY <1>2, <2>1, <3>1 DEF IInv, FrameOK
      <4>2. Contents(q)' = Contents(q)
        BY <1>5, <3>1
      <4> QED BY <1>6, <4>1, <4>2 DEF KeysOf
    <3>3. src' = s /\ Parent(src)' = q
      BY <1>1, <1>2, <3>1 DEF Parent
    <3>4. /\ KeysOf(Contents(src))' = KeysOf(Contents(s)')
          /\ KeysOf(Contents(Parent(src)))' = KeysOf(Contents(q)')
      BY <3>3 DEF KeysOf, Contents
    <3> QED BY <1>1, <2>1, <3>2, <3>4 DEF FrameOK
  <2>2. CASE pc # "combine_erase"
    <3>1. \A r \in Contents(s) : r \in frame \/ \E c \in Cells \ {s} : r \in Contents(c)
      BY <1>1, <1>2, <2>2 DEF IInv, FrameOK
    <3>2. \A r \in Contents(s)' : r \in frame \/ \E c \in Cells \ {s} : r \in Contents(c)'
      BY <1>5, <3>1
    <3>3. src' = s /\ frame' = frame
      BY <1>1, <1>2
    <3>4. Contents(src)' = Contents(s)'
      BY <3>3 DEF Contents
    <3> QED BY <1>1, <2>2, <3>2, <3>3, <3>4 DEF FrameOK
  <2> QED BY <2>1, <2>2
<1>12. DeepestOK'
  <2>1. \A c, d : (Above(c, d)' <=> Above(c, d)) /\ (Through(c)' <=> Through(c))
                   /\ (Present(d)' <=> Present(d))
    BY <1>1 DEF Above, Through, Present, Sourcing
  <2>2. folders \subseteq Cells /\ folders' = folders
    BY <1>1, <1>4 DEF FilesOK
  <2>3. \A c \in folders, d \in Cells :
            Under(Contents(c), d) = {} => Under(Contents(c), d)' = {}
    BY <1>6, <2>2 DEF Under
  <2>4. CASE Rebalancing
    <3>1. \A c \in folders, d \in Cells :
              Through(c) /\ Above(c, d) /\ Present(d) => Under(Contents(c), d) = {}
      BY <2>4 DEF IInv, DeepestOK
    <3>2. \A c \in folders', d \in Cells :
              (Through(c) /\ Above(c, d) /\ Present(d))' => Under(Contents(c), d)' = {}
      BY <2>1, <2>2, <2>3, <3>1
    <3>3. Sourcing => \A d \in folders \ {made} : Above(src, d) => Under(frame, d) = {}
      BY <1>1, <2>4 DEF IInv, DeepestOK, Sourcing
    <3>4. (Sourcing => \A d \in folders \ {made} : Above(src, d) => Under(frame, d) = {})'
      BY <1>1, <3>3 DEF Sourcing, Above, Under
    <3> QED BY <3>2, <3>4 DEF DeepestOK
  <2>5. CASE ~Rebalancing
    BY <1>1, <2>5 DEF DeepestOK, Rebalancing, Sourcing
  <2> QED BY <2>4, <2>5
<1>13. KeysAreSafe'
  <2>1. ASSUME NEW k \in KeysOf(Stored), k \notin KeysOf(Stored)'
        PROVE  Rewriting' /\ k \in KeysOf(frame')
    <3>1. PICK d \in Cells, r \in Rows : r \in Contents(d) /\ r.key = k
      BY <1>4, <2>1, FolderFiles DEF KeysOf, Stored
    <3>2. \A e \in Cells \ {s} : \A q \in Contents(e) : q.key # k
      BY <1>5, <2>1 DEF KeysOf, Stored
    <3>3. d = s
      BY <3>1, <3>2
    <3>4. CASE pc = "combine_erase"
      <4>1. PICK q \in Cells : q = Parent(src) /\ q # s
        BY <1>2, <3>4, ParentOf DEF IInv, SourceOK
      <4>2. k \in KeysOf(Contents(q))
        BY <1>2, <3>1, <3>3, <3>4, <4>1 DEF IInv, FrameOK, KeysOf
      <4> QED BY <3>2, <4>1, <4>2 DEF KeysOf
    <3>5. CASE pc # "combine_erase"
      <4>1. r \in frame
        BY <1>1, <1>2, <3>1, <3>2, <3>3, <3>5 DEF IInv, FrameOK
      <4> QED BY <1>1, <3>1, <3>5, <4>1 DEF Rewriting, KeysOf
    <3> QED BY <3>4, <3>5
  <2>2. Rewriting' <=> Rewriting
    BY <1>1 DEF Rewriting
  <2> QED BY <1>1, <2>1, <2>2 DEF IInv, KeysAreSafe
<1>14. RowsInTheirPartition'
  BY <1>1, <1>4, <1>6 DEF IInv, RowsInTheirPartition, FilesOK
<1> QED BY <1>5, <1>7, <1>8, <1>9, <1>10, <1>11, <1>12, <1>13, <1>14 DEF IInv

\* The folder at hand is removed: its rows are elsewhere or in memory.
LEMMA EraseStep ==
    ASSUME IInv, made = None, pc \in {"erase_sharded", "erase_split"}, Erase(src),
           pc' \in IF frame = {} THEN {"levels"} ELSE {"restore_sharded", "restore_split"},
           trim' = None,
           counts' = counts \/ (frame = {} /\ counts' = counts \cup {<<src, 0>>}),
           UNCHANGED <<todo, plan, src, frame, level, uploads, crashes, newest,
                       doomed, reordered, misplaced>>
    PROVE  IInv'
<1>1. Sourcing /\ ~Placing /\ Rewriting
  BY DEF Sourcing, Placing, Rewriting
<1>2. PICK s \in Cells : s = src
  BY <1>1, SourceFacts
<1>3. /\ src' = s /\ src = s /\ Len(s) = level /\ s \notin todo
      /\ frame \subseteq Rows /\ todo \subseteq Cells
      /\ \A d \in todo : d \in folders /\ Len(d) = level
      /\ FilesOK /\ reordered = TRUE /\ level \in 0..TargetLevel /\ misplaced \in BOOLEAN
      /\ \A r \in counts : r[1] \in Cells /\ r[2] \in Nat
      /\ \A r \in counts : (r[1] \in folders \/ r[2] = 0) /\ r[1] # s
      /\ \A r \in counts : Through(r[1])
      /\ broken \subseteq Cells /\ s \in folders
  BY <1>1, <1>2, SourceFacts DEF IInv, SourceOK
<1>4. /\ FilesOK' /\ folders' = folders \ {s} /\ files[s] = <<>> /\ files'[s] = <<>>
      /\ made' = None /\ broken' = broken
      /\ Stored' = Stored /\ \A d : Contents(d)' = Contents(d)
  BY <1>2, <1>3, ErasedFolder DEF Erase
<1>5. /\ Rebalancing' /\ ~Combining' /\ pc' \in Late
      /\ frame # {} => Sourcing' /\ Rewriting'
  BY DEF Sourcing, Rebalancing, Combining, Late, Rewriting
<1>6. \A r \in counts' : \/ r \in counts
                         \/ r[1] = s /\ r[2] = 0 /\ s \in Cells /\ 0 \in Nat
  BY <1>2
<1>7. TypeOK' /\ PlaceOK' /\ PlacesOK' /\ VersionsOK' /\ TrimOK'
  BY <1>1, <1>2, <1>3, <1>4, <1>5, <1>6, LateFrame
<1>8. /\ \A d \in Cells : Through(d)' /\ d # s => Through(d)
      /\ \A d \in Cells : Through(d) => Through(d)'
  BY <1>1, <1>2, <1>3 DEF Through
<1>9. SourceOK'
  BY <1>2, <1>3, <1>4, <1>5 DEF SourceOK, Sourcing
<1>10. FrameOK'
  BY DEF FrameOK
<1>11. CellsOK'
  BY <1>1, <1>2, <1>3, <1>7 DEF IInv, CellsOK, PlacesOK
<1>12. RecordsOK'
  <2>1. ASSUME NEW r \in counts'
        PROVE  (r[1] \in folders' \/ r[2] = 0) /\ Through(r[1])'
    <3>1. CASE r \in counts
      BY <1>3, <1>4, <1>8, <3>1
    <3>2. CASE r \notin counts
      <4>1. ~Sourcing' /\ r[1] = s /\ r[2] = 0
        BY <1>6, <3>2 DEF Sourcing
      <4> QED BY <1>3, <4>1 DEF Through
    <3> QED BY <3>1, <3>2
  <2> QED BY <2>1 DEF RecordsOK
<1>13. DeepestOK'
  <2>1. ASSUME NEW d \in folders', NEW e \in Cells, Through(d)', Above(d, e), Present(e)'
        PROVE  Under(Contents(d), e)' = {}
    <3>1. d \in Cells /\ d \in folders /\ d # s /\ Contents(d)' = Contents(d)
      BY <1>3, <1>4 DEF FilesOK
    <3>2. Through(d) /\ Present(e)
      BY <1>1, <1>2, <1>3, <1>4, <1>8, <2>1, <3>1 DEF Present
    <3>3. Under(Contents(d), e) = {}
      BY <1>1, <2>1, <3>1, <3>2, SourceFacts DEF IInv, DeepestOK
    <3> QED BY <3>1, <3>3 DEF Under
  <2>2. \A d \in folders' : Above(src, d)' => Under(frame, d)' = {}
    <3>1. \A d \in folders \ {made} : Above(src, d) => Under(frame, d) = {}
      BY <1>1, SourceFacts DEF IInv, DeepestOK
    <3>2. \A d \in folders' : d \in folders \ {made}
      BY <1>3, <1>4, NoneIsNoCell DEF FilesOK
    <3> QED BY <3>1, <3>2 DEF Above, Under
  <2> QED BY <2>1, <2>2 DEF DeepestOK, Above
<1>14. KeysAreSafe'
  <2>1. frame = {} => KeysOf(frame) = {}
    BY DEF KeysOf
  <2> QED BY <1>3, <1>4, <1>5, <2>1 DEF IInv, KeysAreSafe
<1>15. RowsInTheirPartition'
  BY <1>4 DEF IInv, RowsInTheirPartition
<1> QED BY <1>4, <1>7, <1>9, <1>10, <1>11, <1>12, <1>13, <1>14, <1>15 DEF IInv

LEMMA EraseShardedStep ==
    ASSUME IInv, trim = None, made = None, EraseSharded
    PROVE  IInv'
BY EraseStep DEF EraseSharded, locals, history

LEMMA EraseSplitStep ==
    ASSUME IInv, trim = None, made = None, EraseSplit
    PROVE  IInv'
BY EraseStep DEF EraseSplit, Record, history

\* A folder of rows is a number of them.
LEMMA CountOfRows ==
    ASSUME NEW S \in SUBSET Rows
    PROVE  Cardinality(S) \in Nat
<1>1. IsFiniteSet(1..MaxUploads)
  BY Bounds, FS_Interval
<1>2. IsFiniteSet(Keys \X (1..MaxUploads))
  BY <1>1, KeysAssumption, FS_Product
<1> DEFINE f == [p \in Keys \X (1..MaxUploads) |-> [key |-> p[1], ver |-> p[2]]]
<1>3. f \in Surjection(Keys \X (1..MaxUploads), Rows)
  <2>1. \A r \in Rows : \E p \in Keys \X (1..MaxUploads) : f[p] = r
    <3> SUFFICES ASSUME NEW r \in Rows
                 PROVE  \E p \in Keys \X (1..MaxUploads) : f[p] = r
      OBVIOUS
    <3>1. <<r.key, r.ver>> \in Keys \X (1..MaxUploads) /\ r = [key |-> r.key, ver |-> r.ver]
      BY DEF Rows
    <3>2. f[<<r.key, r.ver>>] = r
      BY <3>1
    <3> QED BY <3>1, <3>2
  <2>2. f \in [Keys \X (1..MaxUploads) -> Rows]
    BY DEF Rows
  <2> HIDE DEF f
  <2> QED BY <2>1, <2>2 DEF Surjection
<1> HIDE DEF f
<1>4. IsFiniteSet(Rows)
  BY <1>2, <1>3, FS_Surjection
<1> QED BY <1>4, FS_Subset, FS_CardinalityType

\* What is left of the folder is written again, after sharding or splitting.
LEMMA RestoreStep ==
    ASSUME IInv, pc \in {"restore_sharded", "restore_split"}, Write(src, frame),
           \/ pc' = "split" /\ counts' = counts
           \/ pc' = "levels" /\ counts' = counts \cup {<<src, Cardinality(frame)>>},
           trim' = None,
           UNCHANGED <<todo, plan, src, frame, level, uploads, crashes, newest,
                       doomed, reordered, misplaced>>
    PROVE  IInv'
<1>1. Sourcing /\ ~Placing
  BY DEF Sourcing, Placing, Rewriting
<1>2. PICK s \in Cells : s = src
  BY <1>1, SourceFacts
<1>3. /\ src' = s /\ src = s /\ Len(s) = level /\ s \notin todo
      /\ frame \in SUBSET Rows /\ todo \subseteq Cells
      /\ \A d \in todo : d \in folders /\ Len(d) = level
      /\ FilesOK /\ reordered = TRUE /\ level \in 0..TargetLevel /\ misplaced \in BOOLEAN
      /\ \A r \in counts : r[1] \in Cells /\ r[2] \in Nat
      /\ \A r \in counts : r[1] \in folders \/ r[2] = 0
      /\ \A r \in counts : Through(r[1])
      /\ broken \subseteq Cells
  BY <1>1, <1>2, SourceFacts
<1>4. Contents(s) = {}
  <2>1. files[s] = <<>>
    BY <1>2 DEF IInv, SourceOK
  <2> QED BY <2>1, NoRow DEF Contents
<1>5. /\ FilesOK' /\ s \in folders /\ folders' = folders /\ made = s /\ made' = None
      /\ broken' = broken
      /\ Contents(s)' = frame
      /\ \A d \in Cells \ {s} : Contents(d)' = Contents(d)
  <2>1. Write(s, frame) /\ made = s
    BY <1>2 DEF Write
  <2>2. Contents(s)' = Contents(s) \cup frame
    BY <1>3, <2>1, AppendedFile
  <2>3. Contents(s)' = frame
    BY <1>4, <2>2
  <2>4. /\ FilesOK' /\ s \in folders /\ folders' = folders /\ made' = None
        /\ broken' = broken
        /\ \A d \in Cells \ {s} : Contents(d)' = Contents(d)
    BY <1>3, <2>1, AppendedFile
  <2> QED BY <2>1, <2>3, <2>4
<1>6. /\ Rebalancing' /\ ~Combining' /\ pc' \in Late
      /\ Sourcing' => pc' = "split"
  BY DEF Sourcing, Rebalancing, Combining, Late, Rewriting
<1>7. \A r \in counts' : r \in counts \/ (r[1] = s /\ r[2] \in Nat /\ pc' = "levels")
  BY <1>2, <1>3, CountOfRows
<1>8. TypeOK' /\ PlaceOK' /\ PlacesOK' /\ VersionsOK' /\ TrimOK'
  BY <1>1, <1>2, <1>3, <1>5, <1>6, <1>7, LateFrame
<1>9. /\ \A d \in Cells : Through(d)' /\ d # s => Through(d)
      /\ \A d \in Cells : Through(d) => Through(d)'
      /\ Through(s)' => pc' = "levels"
  BY <1>1, <1>2, <1>3 DEF Through, Sourcing
<1>10. SourceOK'
  BY <1>2, <1>3, <1>5, <1>6 DEF SourceOK, Sourcing
<1>11. FrameOK'
  <2>1. \A r \in Contents(s)' : r \in frame'
    BY <1>5
  <2> QED BY <1>3, <2>1 DEF FrameOK
<1>12. CellsOK'
  BY <1>1, <1>2, <1>3, <1>8 DEF IInv, CellsOK, PlacesOK
<1>13. RecordsOK'
  <2>1. ASSUME NEW r \in counts'
        PROVE  (r[1] \in folders' \/ r[2] = 0) /\ Through(r[1])'
    <3>1. CASE r \in counts
      BY <1>3, <1>5, <1>9, <3>1
    <3>2. CASE r \notin counts
      <4>1. r[1] = s /\ pc' = "levels" /\ ~Sourcing'
        BY <1>7, <3>2 DEF Sourcing
      <4> QED BY <1>3, <1>5, <4>1 DEF Through
    <3> QED BY <3>1, <3>2
  <2> QED BY <2>1 DEF RecordsOK
<1>14. DeepestOK'
  <2>1. \A d \in folders \ {s} : Above(s, d) => Under(frame, d) = {}
    BY <1>1, <1>2, <1>5, SourceFacts DEF IInv, DeepestOK
  <2>2. \A d \in folders' : Above(s, d) => Under(frame, d) = {}
    BY <1>5, <2>1 DEF Above, IsStrictPrefix
  <2>3. ASSUME NEW d \in folders', NEW e \in Cells, Through(d)', Above(d, e), Present(e)'
        PROVE  Under(Contents(d), e)' = {}
    <3>1. CASE d = s
      <4>1. e \in folders'
        BY <1>3, <1>9, <2>3, <3>1 DEF Present, Sourcing
      <4>2. Under(frame, e) = {}
        BY <2>2, <2>3, <3>1, <4>1
      <4> QED BY <1>5, <3>1, <4>2 DEF Under
    <3>2. CASE d # s
      <4>1. d \in Cells /\ d \in folders /\ Contents(d)' = Contents(d) /\ Through(d)
        BY <1>3, <1>5, <1>9, <2>3, <3>2 DEF FilesOK
      <4>2. Present(e)
        BY <1>1, <1>2, <1>3, <1>5, <2>3 DEF Present
      <4>3. Under(Contents(d), e) = {}
        BY <1>1, <2>3, <4>1, <4>2, SourceFacts DEF IInv, DeepestOK
      <4> QED BY <4>1, <4>3 DEF Under
    <3> QED BY <3>1, <3>2
  <2> QED BY <1>3, <2>2, <2>3 DEF DeepestOK, Above, Under
<1>15. KeysAreSafe'
  <2>1. \A k : k \in KeysOf(Stored) \/ k \in KeysOf(frame) => k \in KeysOf(Stored)'
    BY <1>2, <1>4, <1>5 DEF KeysOf, Stored
  <2> QED BY <2>1 DEF IInv, KeysAreSafe
<1>16. RowsInTheirPartition'
  <2> SUFFICES ASSUME ~misplaced, NEW d \in folders', NEW r \in Contents(d)'
               PROVE  IsPrefix(d, Root[r.key])
    BY DEF RowsInTheirPartition
  <2>1. d \in Cells
    BY <1>5 DEF FilesOK
  <2>2. CASE d = s
    BY <1>1, <1>2, <1>5, <2>2 DEF IInv, CellsOK
  <2>3. CASE d # s
    BY <1>5, <2>1, <2>3, RowsAbove
  <2> QED BY <2>2, <2>3
<1> QED BY <1>5, <1>8, <1>10, <1>11, <1>12, <1>13, <1>14, <1>15, <1>16 DEF IInv

LEMMA RestoreShardedStep ==
    ASSUME IInv, trim = None, RestoreSharded
    PROVE  IInv'
BY RestoreStep DEF RestoreSharded, locals, history

LEMMA RestoreSplitStep ==
    ASSUME IInv, trim = None, RestoreSplit
    PROVE  IInv'
BY RestoreStep DEF RestoreSplit, Record, history

LEMMA SplitNothingStep ==
    ASSUME IInv, trim = None, made = None, SplitNothing
    PROVE  IInv'
<1>1. /\ pc = "split" /\ pc' = "levels" /\ trim' = None /\ frame = Contents(src)
      /\ counts' = counts \cup {<<src, Cardinality(frame)>>}
      /\ UNCHANGED <<folders, files, broken, made, todo, plan, src, frame, level,
                     uploads, crashes, newest, doomed, reordered, misplaced>>
  BY DEF SplitNothing, Record, store, disk, history
<1>2. folders' = folders /\ Stored' = Stored /\ \A d : Contents(d)' = Contents(d)
  BY <1>1, FilesSame
<1>3. /\ ~Sourcing' /\ Rebalancing' /\ ~Combining' /\ ~Rewriting /\ ~Rewriting'
      /\ Sourcing /\ Rebalancing
  BY <1>1 DEF Sourcing, Rebalancing, Combining, Rewriting
<1>4. /\ src \in Cells /\ src \in folders /\ Len(src) = level /\ src \notin todo
      /\ FilesOK /\ reordered = TRUE /\ ~Placing /\ level \in 0..TargetLevel
      /\ misplaced \in BOOLEAN /\ broken \subseteq Cells /\ frame \in SUBSET Rows /\ todo \subseteq Cells
      /\ \A r \in counts : r[1] \in Cells /\ r[2] \in Nat
      /\ \A r \in counts : r[1] \in folders \/ r[2] = 0
      /\ \A r \in counts : Through(r[1])
  BY <1>1, <1>3, SourceFacts DEF IInv, SourceOK
<1>5. \A r \in counts' : r \in counts \/ (r[1] = src /\ r[2] \in Nat)
  BY <1>1, <1>4, CountOfRows
<1>6. TypeOK' /\ FilesOK' /\ PlaceOK' /\ PlacesOK' /\ VersionsOK' /\ TrimOK'
  <2>1. FilesOK' /\ pc' \in Late
    BY <1>1, <1>4 DEF FilesOK, Late
  <2> QED BY <1>1, <1>4, <1>5, <2>1, LateFrame
<1>7. /\ \A d : Through(d)' => Through(d) \/ d = src
      /\ \A d : Through(d) => Through(d)'
      /\ Through(src)'
      /\ \A d : Present(d)' => Present(d) /\ d \in folders
  BY <1>1, <1>2, <1>3, <1>4 DEF Through, Present
<1>8. SourceOK' /\ FrameOK' /\ CellsOK'
  BY <1>1, <1>2, <1>3, <1>6 DEF IInv, SourceOK, FrameOK, CellsOK, PlacesOK
<1>9. RecordsOK'
  <2>1. ASSUME NEW r \in counts'
        PROVE  (r[1] \in folders' \/ r[2] = 0) /\ Through(r[1])'
    <3>1. CASE r \in counts
      BY <1>2, <1>4, <1>7, <3>1
    <3>2. CASE r[1] = src
      <4>1. PICK s \in Cells : s = src
        BY <1>4
      <4>2. Through(s)' /\ s \in folders'
        BY <1>1, <1>2, <1>3, <1>4, <4>1 DEF Through
      <4> QED BY <3>2, <4>1, <4>2
    <3> QED BY <1>5, <3>1, <3>2
  <2> QED BY <2>1 DEF RecordsOK
<1>10. DeepestOK'
  <2>1. \A d \in folders : Above(src, d) => Under(Contents(src), d) = {}
    BY <1>1, <1>3, <1>4, NoneIsNoCell DEF IInv, DeepestOK, FilesOK
  <2>2. \A d \in folders, e \in Cells :
            Through(d)' /\ Above(d, e) /\ Present(e)' => Under(Contents(d), e) = {}
    BY <1>3, <1>7, <2>1, <1>4 DEF IInv, DeepestOK, FilesOK
  <2> QED BY <1>1, <1>2, <1>3, <2>2 DEF DeepestOK, Above, Under
<1>11. KeysAreSafe' /\ RowsInTheirPartition'
  BY <1>1, <1>2, <1>3 DEF IInv, KeysAreSafe, RowsInTheirPartition
<1> QED BY <1>6, <1>8, <1>9, <1>10, <1>11 DEF IInv

-----------------------------------------------------------------------------
(* Combining the small folders                                             *)

\* What the steps of _combine have in common.
LEMMA CombineFrame ==
    ASSUME IInv, pc \in {"levels", "combine", "combine_erase"},
           pc' \in {"combine", "combine_erase", "raised"},
           FilesOK', trim' \in Cells \cup {None}, trim' = None \/ TrimOK',
           frame' \in SUBSET Rows, src' \in Cells \cup {None}, misplaced' \in BOOLEAN,
           UNCHANGED <<todo, plan, level, uploads, crashes, newest, doomed,
                       reordered>>,
           \A r \in counts' : r[1] \in Cells /\ r[2] \in Nat,
           \A r \in counts' : r[1] \in folders' \/ r[2] = 0,
           KeysOf(Stored) \subseteq KeysOf(Stored)',
           ~misplaced' => \A c \in Cells : \A r \in Contents(c)' : IsPrefix(c, Root[r.key]),
           pc' = "combine_erase" => SourceOK' /\ FrameOK',
           broken' \subseteq Cells
    PROVE  IInv'
<1>1. /\ pc \in Late /\ pc' \in Late /\ ~Rewriting
      /\ ~Sourcing' /\ ~Rebalancing' /\ ~Rewriting'
  BY DEF Late, Rewriting, Sourcing, Rebalancing
<1>2. reordered = TRUE /\ ~Placing /\ level \in 0..TargetLevel /\ LocalsOK /\ PlacesOK
  BY <1>1, LateFacts
<1>3. TypeOK' /\ PlaceOK' /\ PlacesOK' /\ VersionsOK' /\ TrimOK'
  BY <1>1, <1>2, LateFrame DEF LocalsOK
<1>4. pc' # "combine_erase" => SourceOK' /\ FrameOK'
  BY <1>1 DEF SourceOK, FrameOK, Rewriting, Sourcing
<1>5. CellsOK'
  BY <1>1, <1>3 DEF CellsOK, PlacesOK
<1>6. DeepestOK' /\ RecordsOK'
  BY <1>1 DEF DeepestOK, RecordsOK
<1>7. KeysAreSafe'
  BY <1>1 DEF IInv, KeysAreSafe
<1>8. RowsInTheirPartition'
  BY DEF RowsInTheirPartition, FilesOK
<1> QED BY <1>3, <1>4, <1>5, <1>6, <1>7, <1>8 DEF IInv

\* What is known whenever _combine goes on.
LEMMA CombineFacts ==
    ASSUME IInv, pc \in {"levels", "combine", "combine_erase"}
    PROVE  /\ FilesOK /\ todo \subseteq Cells /\ frame \in SUBSET Rows
           /\ src \in Cells \cup {None} /\ trim \in Cells \cup {None}
           /\ misplaced \in BOOLEAN /\ broken \subseteq Cells
           /\ \A r \in counts : r[1] \in Cells /\ r[2] \in Nat
           /\ \A r \in counts : r[1] \in folders \/ r[2] = 0
           /\ ~misplaced => \A c \in Cells : \A r \in Contents(c) : IsPrefix(c, Root[r.key])
<1>1. pc \in Late /\ (Rebalancing \/ Combining)
  BY DEF Late, Rebalancing, Combining
<1>2. FilesOK /\ LocalsOK /\ misplaced \in BOOLEAN
  BY <1>1, LateFacts
<1>3. ~misplaced => \A c \in Cells : \A r \in Contents(c) : IsPrefix(c, Root[r.key])
  BY RowsAbove
<1> QED
  BY <1>1, <1>2, <1>3 DEF IInv, TypeOK, LocalsOK, RecordsOK

LEMMA StartCombineStep ==
    ASSUME IInv, trim = None, StartCombine
    PROVE  IInv'
<1>1. /\ pc = "levels" /\ pc' = "combine" /\ frame' = {} /\ src' = None /\ trim' = None
      /\ UNCHANGED <<folders, files, broken, made, todo, plan, level, counts,
                     uploads, crashes, newest, doomed, reordered, misplaced>>
  BY DEF StartCombine, store, disk, history
<1>2. folders' = folders /\ Stored' = Stored /\ \A d : Contents(d)' = Contents(d)
  BY <1>1, FilesSame
<1>3. FilesOK' /\ KeysOf(Stored) \subseteq KeysOf(Stored)'
  BY <1>1, <1>2, CombineFacts DEF FilesOK, KeysOf
<1> QED BY <1>1, <1>2, <1>3, CombineFacts, CombineFrame

LEMMA CombineAloneStep ==
    ASSUME IInv, trim = None, NEW c \in Cells, CombineAlone(c)
    PROVE  IInv'
<1>1. /\ pc = "combine" /\ pc' = "combine" /\ trim' = None
      /\ counts' \subseteq counts
      /\ UNCHANGED <<folders, files, broken, made, todo, plan, src, frame, level,
                     uploads, crashes, newest, doomed, reordered, misplaced>>
  BY DEF CombineAlone, store, disk, history
<1>2. folders' = folders /\ Stored' = Stored /\ \A d : Contents(d)' = Contents(d)
  BY <1>1, FilesSame
<1>3. FilesOK' /\ KeysOf(Stored) \subseteq KeysOf(Stored)'
  BY <1>1, <1>2, CombineFacts DEF FilesOK, KeysOf
<1> QED BY <1>1, <1>2, <1>3, CombineFacts, CombineFrame

\* The folder to be combined is no root and has a record.
LEMMA Finest ==
    ASSUME NEW c \in Cells, c \in {r[1] : r \in FinestSmall}
    PROVE  /\ \E r \in counts : r[1] = c
           /\ c # <<>> /\ Parent(c) \in Cells /\ Parent(c) # c /\ IsPrefix(Parent(c), c)
<1>1. c # <<>> /\ \E r \in counts : r[1] = c
  BY DEF FinestSmall, Small
<1> QED BY <1>1, ParentOf

LEMMA CombineRenameStep ==
    ASSUME IInv, trim = None, made = None, NEW c \in Cells, CombineRename(c)
    PROVE  IInv'
<1> DEFINE p == Parent(c)
<1>1. /\ pc = "combine" /\ pc' = "combine" /\ trim' = None /\ p \notin folders /\ c \in folders
      /\ folders' = (folders \ {c}) \cup {p} /\ broken' = broken /\ made' = None
      /\ files' = [files EXCEPT ![p] = files[c], ![c] = <<>>]
      /\ counts' = {<<IF r[1] = c THEN p ELSE r[1], r[2]>> : r \in counts}
      /\ UNCHANGED <<todo, plan, src, frame, level, uploads, crashes, newest,
                     doomed, reordered, misplaced>>
  BY DEF CombineRename, RenameFolder, history
<1>2. p \in Cells /\ p # c /\ IsPrefix(p, c)
  BY Finest DEF CombineRename
<1> HIDE DEF p
<1>3. /\ FilesOK /\ misplaced \in BOOLEAN /\ broken \subseteq Cells
      /\ \A r \in counts : r[1] \in Cells /\ r[2] \in Nat
      /\ \A r \in counts : r[1] \in folders \/ r[2] = 0
      /\ ~misplaced => \A d \in Cells : \A r \in Contents(d) : IsPrefix(d, Root[r.key])
  BY <1>1, CombineFacts
<1>4. /\ files'[p] = files[c] /\ files'[c] = <<>>
      /\ \A d \in Cells \ {p, c} : files'[d] = files[d]
  BY <1>1, <1>2, <1>3 DEF FilesOK
<1>5. FilesOK'
  <2>1. files' \in [Cells -> Seq(SUBSET Rows)]
    BY <1>1, <1>2, <1>3, EmptySeq DEF FilesOK
  <2>2. folders' \subseteq Cells
    BY <1>1, <1>2, <1>3 DEF FilesOK
  <2>3. \A d \in Cells : files'[d] # <<>> => d \in folders'
    BY <1>1, <1>3, <1>4 DEF FilesOK
  <2> QED BY <1>1, <2>1, <2>2, <2>3 DEF FilesOK
<1>6. files[p] = <<>>
  BY <1>1, <1>2, <1>3 DEF FilesOK
<1>7. folders' = (folders \cup {p}) \ {c}
  BY <1>1, <1>2
<1>8. /\ Contents(p)' = Contents(c) /\ Contents(c)' = {} /\ Contents(p) = {}
      /\ \A d \in Cells \ {p, c} : Contents(d)' = Contents(d)
  <2>1. Range(<<>>) = {}
    BY NoRow
  <2> QED BY <1>4, <1>6, <2>1 DEF Contents
<1>9. Stored' = Stored
  <2>1. \A r : r \in Stored' <=> r \in Stored
    BY <1>2, <1>8 DEF Stored
  <2> QED BY <2>1
<1>10. ASSUME NEW r \in counts'
       PROVE  r[1] \in Cells /\ r[2] \in Nat /\ (r[1] \in folders' \/ r[2] = 0)
  <2>1. PICK q \in counts : r = <<IF q[1] = c THEN p ELSE q[1], q[2]>>
    BY <1>1
  <2>2. r[1] = (IF q[1] = c THEN p ELSE q[1]) /\ r[2] = q[2]
    BY <2>1
  <2> QED BY <1>2, <1>3, <1>7, <2>2
<1>11. ASSUME ~misplaced', NEW d \in Cells, NEW r \in Contents(d)'
       PROVE  IsPrefix(d, Root[r.key])
  <2>1. CASE d = p
    <3>1. r \in Contents(c) /\ IsPrefix(c, Root[r.key])
      BY <1>1, <1>3, <1>8, <1>11, <2>1
    <3>2. r.key \in Keys
      BY <1>3, <3>1, FolderFiles DEF Rows
    <3> QED BY <1>2, <2>1, <3>1, <3>2, UnderAbove
  <2>2. CASE d # p
    BY <1>1, <1>3, <1>8, <1>11, <2>2
  <2> QED BY <2>1, <2>2
<1>12. KeysOf(Stored) \subseteq KeysOf(Stored)'
  BY <1>9 DEF KeysOf
<1> QED BY <1>1, <1>5, <1>10, <1>11, <1>12, CombineFacts, CombineFrame

\* Rows are merged into the existing parent of a folder.
LEMMA IntoParent ==
    ASSUME IInv, pc = "combine", NEW p \in Cells, NEW X \in SUBSET Rows,
           Merge(p, <<X>>), pc' \in {"combine_erase", "raised"}
    PROVE  /\ FilesOK' /\ folders' = folders /\ broken' = broken /\ broken' \subseteq Cells
           /\ TrimOK' /\ trim' \in Cells \cup {None}
           /\ \A d \in Cells \ {p} : Contents(d)' = Contents(d)
           /\ KeysOf(X) \subseteq KeysOf(Contents(p)')
           /\ KeysOf(Stored) \subseteq KeysOf(Stored)'
           /\ \A r \in Contents(p)' : r \in Contents(p) \cup X
<1> DEFINE n == Len(files[p])
<1>1. FilesOK /\ broken \subseteq Cells
  BY CombineFacts
<1>2. /\ n \in Nat /\ DOMAIN files[p] = 1..n
      /\ \A i \in DOMAIN files[p] : files[p][i] \subseteq Contents(p)
      /\ files[p] # <<>> <=> n # 0
  BY <1>1, FolderFiles
<1>3. PICK new \in SUBSET Rows :
         /\ Write(p, new)
         /\ KeysOf(new) = KeysOf(Contents(p)) \cup KeysOf(X)
         /\ \A r \in new : r \in X \/ r \in Contents(p)
  BY <1>1, MergedFolder
<1>4. /\ FilesOK' /\ folders' = folders /\ broken' = broken
      /\ Contents(p)' = Contents(p) \cup new
      /\ \A d \in Cells \ {p} : Contents(d)' = Contents(d)
      /\ DOMAIN files'[p] = 1..n + 1 /\ Len(files'[p]) = n + 1
      /\ files'[p][n + 1] = new
      /\ \A i \in DOMAIN files[p] : files'[p][i] = files[p][i]
  BY <1>1, <1>3, AppendedFile
<1>5. trim' = IF n = 0 THEN None ELSE p
  BY <1>2 DEF Merge
<1> HIDE DEF n
<1>6. TrimOK'
  <2>1. \A i \in 1..n + 1 : i \in DOMAIN files[p] \/ i = n + 1
    BY <1>2
  <2>2. \A i \in DOMAIN files[p] : KeysOf(files[p][i]) \subseteq KeysOf(Contents(p))
    BY <1>2 DEF KeysOf
  <2>3. \A i \in 1..n + 1 : KeysOf(files'[p][i]) \subseteq KeysOf(new)
    BY <1>3, <1>4, <2>1, <2>2
  <2>4. n # 0 => n + 1 >= 2
    BY <1>2
  <2> QED BY <1>4, <1>5, <2>3, <2>4 DEF TrimOK
<1>7. KeysOf(X) \subseteq KeysOf(Contents(p)')
  BY <1>3, <1>4 DEF KeysOf
<1>8. KeysOf(Stored) \subseteq KeysOf(Stored)'
  BY <1>4 DEF KeysOf, Stored
<1> QED BY <1>1, <1>3, <1>4, <1>5, <1>6, <1>7, <1>8

LEMMA CombineMergeStep ==
    ASSUME IInv, trim = None, NEW c \in Cells, CombineMerge(c)
    PROVE  IInv'
<1> DEFINE p == Parent(c)
           X == Contents(c)
<1>1. /\ pc = "combine" /\ pc' = "combine_erase" /\ {c, p} \subseteq folders
      /\ src' = c /\ frame' = X /\ Merge(p, <<X>>)
      /\ UNCHANGED <<todo, plan, level, counts, uploads, crashes, newest, doomed,
                     reordered, misplaced>>
  BY DEF CombineMerge, history
<1>2. /\ FilesOK /\ misplaced \in BOOLEAN
      /\ \A r \in counts : r[1] \in Cells /\ r[2] \in Nat
      /\ \A r \in counts : r[1] \in folders \/ r[2] = 0
      /\ ~misplaced => \A d \in Cells : \A r \in Contents(d) : IsPrefix(d, Root[r.key])
  BY <1>1, CombineFacts
<1>3. c # <<>> /\ p \in Cells /\ p # c /\ IsPrefix(p, c)
  BY Finest DEF CombineMerge
<1>4. X \in SUBSET Rows
  BY <1>2, FolderFiles
<1>5. X = Contents(c)
  OBVIOUS
<1>6. p = Parent(c)
  OBVIOUS
<1> HIDE DEF X, p
<1>7. /\ FilesOK' /\ folders' = folders /\ broken' \subseteq Cells
      /\ TrimOK' /\ trim' \in Cells \cup {None}
      /\ \A d \in Cells \ {p} : Contents(d)' = Contents(d)
      /\ KeysOf(X) \subseteq KeysOf(Contents(p)')
      /\ KeysOf(Stored) \subseteq KeysOf(Stored)'
      /\ \A r \in Contents(p)' : r \in Contents(p) \cup X
  BY <1>1, <1>3, <1>4, IntoParent
<1>8. SourceOK'
  <2>1. ~Sourcing' /\ ~Rebalancing'
    BY <1>1 DEF Sourcing, Rebalancing
  <2> QED BY <1>1, <1>3, <1>6, <1>7, <2>1 DEF SourceOK
<1>9. FrameOK'
  <2>1. KeysOf(Contents(c)') \subseteq KeysOf(Contents(p)')
    BY <1>3, <1>5, <1>7
  <2>2. KeysOf(Contents(src))' = KeysOf(Contents(c)')
    BY <1>1 DEF KeysOf, Contents
  <2>3. KeysOf(Contents(Parent(src)))' = KeysOf(Contents(p)')
    BY <1>1, <1>6 DEF KeysOf, Contents, Parent
  <2> QED BY <1>1, <2>1, <2>2, <2>3 DEF FrameOK
<1>10. ASSUME ~misplaced', NEW d \in Cells, NEW r \in Contents(d)'
       PROVE  IsPrefix(d, Root[r.key])
  <2>1. CASE d = p
    <3>1. CASE r \in X
      <4>1. IsPrefix(c, Root[r.key]) /\ r.key \in Keys
        BY <1>1, <1>2, <1>4, <1>5, <1>10, <3>1 DEF Rows
      <4> QED BY <1>3, <2>1, <4>1, UnderAbove
    <3>2. CASE r \in Contents(p)
      BY <1>1, <1>2, <1>3, <1>10, <2>1, <3>2
    <3> QED BY <1>7, <1>10, <2>1, <3>1, <3>2
  <2>2. CASE d # p
    BY <1>1, <1>2, <1>7, <1>10, <2>2
  <2> QED BY <2>1, <2>2
<1> QED BY <1>1, <1>2, <1>4, <1>7, <1>8, <1>9, <1>10, CombineFrame

LEMMA CombineEraseStep ==
    ASSUME IInv, trim = None, made = None, CombineErase
    PROVE  IInv'
<1>1. /\ pc = "combine_erase" /\ pc' = "combine" /\ trim' = None
      /\ Erase(src)
      /\ UNCHANGED <<todo, plan, src, frame, level, uploads, crashes, newest,
                     doomed, reordered, misplaced>>
  BY DEF CombineErase, history
<1>2. /\ FilesOK /\ misplaced \in BOOLEAN /\ broken \subseteq Cells
      /\ \A r \in counts : r[1] \in Cells /\ r[2] \in Nat
      /\ \A r \in counts : r[1] \in folders \/ r[2] = 0
      /\ ~misplaced => \A d \in Cells : \A r \in Contents(d) : IsPrefix(d, Root[r.key])
  BY <1>1, CombineFacts
<1>3. PICK s \in Cells : s = src
  BY <1>1 DEF IInv, SourceOK
<1>4. PICK p \in Cells : p = Parent(s) /\ p # s /\ p \in folders
  BY <1>1, <1>3, ParentOf DEF IInv, SourceOK
<1>5. /\ FilesOK' /\ folders' = folders \ {s} /\ broken' = broken
      /\ Stored' = Stored /\ \A d : Contents(d)' = Contents(d)
  BY <1>1, <1>2, <1>3, ErasedFolder
<1>6. KeysOf(Stored) \subseteq KeysOf(Stored)'
  BY <1>5 DEF KeysOf
<1>7. ASSUME NEW r \in counts'
      PROVE  r[1] \in Cells /\ r[2] \in Nat /\ (r[1] \in folders' \/ r[2] = 0)
  <2>1. PICK t \in counts :
           counts' = {<<q[1], IF q[1] = p THEN q[2] + t[2] ELSE q[2]>> :
                        q \in {o \in counts : o[1] # s}}
    BY <1>3, <1>4 DEF CombineErase
  <2>2. PICK q \in counts :
           q[1] # s /\ r = <<q[1], IF q[1] = p THEN q[2] + t[2] ELSE q[2]>>
    BY <2>1
  <2>3. r[1] = q[1] /\ r[2] = (IF q[1] = p THEN q[2] + t[2] ELSE q[2])
    BY <2>2
  <2>4. t[2] \in Nat /\ q[2] \in Nat /\ q[1] \in Cells
    BY <1>2
  <2>5. r[2] \in Nat
    BY <2>3, <2>4
  <2> QED BY <1>2, <1>4, <1>5, <2>2, <2>3, <2>4, <2>5
<1>8. ASSUME ~misplaced', NEW d \in Cells, NEW r \in Contents(d)'
      PROVE  IsPrefix(d, Root[r.key])
  BY <1>1, <1>2, <1>5, <1>8
<1> QED BY <1>1, <1>2, <1>5, <1>6, <1>7, <1>8, CombineFacts, CombineFrame

LEMMA CombineMisplacesStep ==
    ASSUME IInv, trim = None, NEW c \in Cells, CombineMisplaces(c)
    PROVE  IInv'
<1> DEFINE p == Parent(c)
<1>1. /\ pc = "combine" /\ pc' = "raised" /\ Merge(p, <<frame>>) /\ misplaced' = TRUE
      /\ UNCHANGED <<todo, plan, src, frame, level, counts, uploads, crashes,
                     newest, doomed, reordered>>
  BY DEF CombineMisplaces, locals
<1>2. p \in Cells
  BY Finest DEF CombineMisplaces
<1> HIDE DEF p
<1>3. PICK X \in SUBSET Rows : X = frame
  BY <1>1, CombineFacts
<1>4. /\ FilesOK' /\ folders' = folders /\ broken' \subseteq Cells
      /\ TrimOK' /\ trim' \in Cells \cup {None}
      /\ KeysOf(Stored) \subseteq KeysOf(Stored)'
  BY <1>1, <1>2, <1>3, IntoParent
<1> QED BY <1>1, <1>4, CombineFacts, CombineFrame

-----------------------------------------------------------------------------
(* Folders made                                                            *)

\* A folder is made for rows the step after writes to it: it holds none yet.
LEMMA MakeFolderStep ==
    ASSUME IInv, trim = None, made = None, NEW c \in Cells, MakeFolder(c)
    PROVE  IInv'
<1>1. /\ folders' = folders \cup {c} /\ made' = c
      /\ UNCHANGED <<files, broken, trim, pc, todo, batch, rest, size, free, src,
                     frame, level, counts, uploads, crashes, newest, doomed,
                     reordered, misplaced>>
  BY DEF MakeFolder, locals, plan, history
<1>2. Stored' = Stored /\ \A d : Contents(d)' = Contents(d)
  BY <1>1, FilesSame
<1>3. TypeOK' /\ FilesOK' /\ FilesOK
  BY <1>1 DEF IInv, TypeOK, FilesOK, Placing
<1>4. TrimOK' /\ PlaceOK' /\ PlacesOK'
  BY <1>1, InvParts DEF IInv, TrimOK, PlaceOK, PlacesOK, Placing
<1>5. KeysAreSafe' /\ RowsInTheirPartition'
  BY <1>1, <1>2, <1>3, RowsAbove
     DEF IInv, KeysAreSafe, Rewriting, RowsInTheirPartition, FilesOK
<1>6. SourceOK' /\ FrameOK' /\ RecordsOK'
  BY <1>1, <1>2
     DEF IInv, SourceOK, FrameOK, RecordsOK, Sourcing, Rebalancing, Combining, Through, Parent
<1>7. CellsOK' /\ VersionsOK'
  BY <1>1 DEF IInv, CellsOK, VersionsOK, Sourcing, Rebalancing, Combining
<1>8. DeepestOK'
  <2>1. CASE ~Sourcing
    <3>1. NextFile(c)
      BY DEF MakeFolder
    <3>2. pc # "levels"
      BY <3>1 DEF NextFile
    <3> QED BY <1>1, <2>1, <3>2 DEF DeepestOK, Rebalancing, Sourcing
  <2>2. CASE Sourcing
    <3>1. PICK s \in Cells : s = src
      BY <2>2, SourceFacts
    <3>2. Len(s) = level /\ level \in 0..TargetLevel /\ folders \subseteq Cells /\ Rebalancing
      BY <1>3, <2>2, <3>1, SourceFacts DEF FilesOK
    <3>3. c \in folders \/ c = s \/ (Above(s, c) /\ Len(c) = level + 1)
      <4>1. NextFile(c)
        BY DEF MakeFolder
      <4>2. CASE pc = "shard"
        BY <4>1, <4>2 DEF NextFile, Targets
      <4>3. CASE pc = "split"
        BY <3>1, <4>1, <4>3, ChildOf DEF NextFile
      <4>4. CASE pc \in {"restore_sharded", "restore_split"}
        BY <3>1, <4>1, <4>4 DEF NextFile
      <4>5. pc \notin {"erase_sharded", "erase_split"}
        BY <4>1 DEF NextFile
      <4> QED BY <2>2, <4>2, <4>3, <4>4, <4>5 DEF Sourcing
    <3>4. ASSUME NEW d \in folders, NEW e \in Cells, Through(d), Above(d, e),
                 Present(e) \/ e = c
          PROVE  Under(Contents(d), e) = {}
      <4>1. CASE Present(e)
        BY <3>2, <3>4, <4>1 DEF IInv, DeepestOK
      <4>2. CASE ~Present(e)
        <5>1. e = c /\ Above(s, c) /\ Len(c) = level + 1
          BY <2>2, <3>1, <3>3, <3>4, <4>2 DEF Present
        <5>2. d \in Cells /\ d # s
          BY <2>2, <3>1, <3>2, <3>4 DEF Through
        <5>3. IsPrefix(s, Parent(c)) /\ IsPrefix(d, Parent(c)) /\ c # <<>> /\ IsPrefix(s, c)
          BY <3>1, <3>4, <5>1, <5>2, AboveParent
        <5>4. Parent(c) \in Cells /\ Len(Parent(c)) = level
          BY <3>2, <5>1, <5>3, ParentOf
        <5>5. Parent(c) = s
          <6>1. s \in Seq(Quadrants) /\ Parent(c) \in Seq(Quadrants)
            BY <5>4, CellLength
          <6> QED BY <3>2, <5>3, <5>4, <6>1, PrefixElements, SeqEqual
        <5>6. Above(d, s) /\ Present(s)
          BY <2>2, <3>1, <5>2, <5>3, <5>5 DEF Above, IsStrictPrefix, Present
        <5>7. Under(Contents(d), s) = {}
          BY <3>2, <3>4, <5>6 DEF IInv, DeepestOK
        <5>8. \A r \in Contents(d) : r.key \in Keys
          BY <1>3, <5>2, FolderFiles DEF Rows
        <5>9. \A r \in Contents(d) : IsPrefix(c, Root[r.key]) => IsPrefix(s, Root[r.key])
          BY <5>3, <5>8, UnderAbove
        <5> QED BY <5>1, <5>7, <5>9 DEF Under
      <4> QED BY <4>1, <4>2
    <3>5. ASSUME NEW d \in folders', NEW e \in Cells, Through(d)', Above(d, e)', Present(e)'
          PROVE  Under(Contents(d), e)' = {}
      <4>1. Through(d) /\ Above(d, e) /\ (Present(e) \/ e = c)
        BY <1>1, <3>5 DEF Through, Above, Present, Sourcing
      <4>2. CASE d \in folders
        BY <1>2, <3>4, <4>1, <4>2 DEF Under
      <4>3. CASE d \notin folders
        <5>1. d \in Cells /\ Contents(d) = {}
          BY <1>1, <1>3, <4>3, FolderFiles
        <5> QED BY <1>2, <5>1 DEF Under
      <4> QED BY <4>2, <4>3
    <3>6. pc # "shard" => \A d \in folders' \ {made'} : Above(src, d) => Under(frame, d) = {}
      <4>1. \A d \in folders' \ {made'} : d \in folders \ {made}
        BY <1>1, <3>2, NoneIsNoCell
      <4> QED BY <2>2, <3>2, <4>1 DEF IInv, DeepestOK
    <3>7. (Sourcing /\ pc # "shard" => \A d \in folders \ {made} :
                                          Above(src, d) => Under(frame, d) = {})'
      BY <1>1, <3>6 DEF Above, Under
    <3> QED BY <3>5, <3>7 DEF DeepestOK
  <2> QED BY <2>1, <2>2
<1> QED BY <1>3, <1>4, <1>5, <1>6, <1>7, <1>8 DEF IInv

-----------------------------------------------------------------------------
(* The specification                                                       *)

LEMMA InvWrite ==
    ASSUME IInv, trim = None, NEW c \in Cells, WriteFile(c)
    PROVE  IInv'
BY UploadFragmentStep, UploadMergedStep, DefragFolderStep, ShardToStep, SplitToStep,
   RestoreShardedStep, RestoreSplitStep, CombineMergeStep, CombineMisplacesStep DEF WriteFile

LEMMA InvProceed ==
    ASSUME IInv, trim = None, made = None, NEW c \in Cells, Proceed(c)
    PROVE  IInv'
<1>1. CASE MakeFolder(c) \/ NextSource(c) \/ CombineAlone(c) \/ CombineRename(c)
  BY <1>1, MakeFolderStep, NextSourceStep, CombineAloneStep, CombineRenameStep
<1>2. CASE UploadFails(c) \/ DefragFails(c) \/ SourceFails(c) \/ LevelsFail \/ CombineFails(c)
  BY <1>2, FailsStep
<1>3. CASE PlaceLevel \/ Placed \/ NextLevel
  BY <1>3, PlaceLevelStep, PlacedStep, NextLevelStep
<1>4. CASE ShardNothing \/ SomeSharded \/ SomeSplit \/ SplitNothing
  BY <1>4, NothingShardedStep, SplitNothingStep
<1>5. CASE EraseSharded \/ EraseSplit \/ RemoveFile
  BY <1>5, EraseShardedStep, EraseSplitStep, RemoveFileStep
<1>6. CASE StartCombine \/ CombineErase \/ CombineDone \/ Recover
  BY <1>6, StartCombineStep, CombineEraseStep, RecoverStep
<1> QED BY <1>1, <1>2, <1>3, <1>4, <1>5, <1>6 DEF Proceed

LEMMA InvWork ==
    ASSUME IInv, Work
    PROVE  IInv'
<1>1. CASE RemoveFragment
  BY <1>1, RemoveFragmentStep
<1>2. CASE trim = None /\ \E c \in Cells : WriteFile(c)
  BY <1>2, InvWrite
<1>3. CASE trim = None /\ made = None /\ \E c \in Cells : Proceed(c)
  BY <1>3, InvProceed
<1> QED BY <1>1, <1>2, <1>3 DEF Work

LEMMA InvStutter ==
    ASSUME IInv, UNCHANGED vars
    PROVE  IInv'
BY FilesSame DEF vars, IInv, TypeOK, FilesOK, TrimOK, PlaceOK, SourceOK, FrameOK, CellsOK,
   VersionsOK, DeepestOK, RecordsOK, KeysAreSafe, RowsInTheirPartition, Placing, Sourcing,
   Rebalancing, Combining, Rewriting, Through, Present

LEMMA InvNext == IInv /\ [Next]_vars => IInv'
<1> SUFFICES ASSUME IInv, [Next]_vars PROVE IInv'
  OBVIOUS
<1>1. CASE Work
  BY <1>1, InvWork
<1>2. CASE trim = None /\ \E b \in Batches, defrag \in BOOLEAN : Upload(b, defrag)
  BY <1>2, UploadStep
<1>3. CASE trim = None /\ Defrag
  BY <1>3, DefragStep
<1>4. CASE trim = None /\ Repartition
  BY <1>4, RepartitionStep
<1>5. CASE Crash
  BY <1>5, CrashStep
<1>6. CASE UNCHANGED vars
  BY <1>6, InvStutter
<1> QED BY <1>1, <1>2, <1>3, <1>4, <1>5, <1>6 DEF Next

LEMMA InvAlways == Spec => []IInv
BY InvInit, InvNext, PTL DEF Spec

-----------------------------------------------------------------------------
(* What can be read                                                        *)

\* Truncated files are in folders.  Until a crash every folder has a file,
\* apart from the one just made and the one being erased.  What was read is
\* not truncated, and defrag goes through folders that exist.
ReadOK ==
    /\ broken \subseteq folders
    /\ crashes = 0 =>
          /\ broken = {}
          /\ \A c \in folders \ {made} : files[c] = <<>> => Erasing /\ c = src
    /\ Sourcing \/ pc = "combine_erase" => src \notin broken
    /\ pc # "idle" => \A r \in counts : r[1] \notin broken
    /\ pc = "defrag" => todo \subseteq folders

JInv == ReadOK /\ RaisesForAReason

LEMMA ReadInit == Init => JInv
BY DEF Init, JInv, ReadOK, RaisesForAReason, Sourcing

\* A file written leaves its folder with a file.
LEMMA FileWritten ==
    ASSUME FilesOK, NEW c \in Cells, NEW X, Write(c, X)
    PROVE  /\ made' = None /\ UNCHANGED <<folders, broken>>
           /\ files'[c] # <<>> /\ \A d \in Cells \ {c} : files'[d] = files[d]
<1>1. files'[c] = Append(files[c], X) /\ \A d \in Cells \ {c} : files'[d] = files[d]
  BY DEF FilesOK, Write
<1>2. files[c] \in Seq(SUBSET Rows \cup {X})
  <2>1. Len(files[c]) \in Nat /\ files[c] \in [1..Len(files[c]) -> SUBSET Rows]
    BY FolderFiles, LenProperties
  <2>2. files[c] \in [1..Len(files[c]) -> SUBSET Rows \cup {X}]
    BY <2>1
  <2> QED BY <2>1, <2>2, SeqDef
<1>3. Append(files[c], X) # <<>>
  BY <1>2, AppendProperties
<1> QED BY <1>1, <1>3 DEF Write

\* The files that are written.
LEMMA SomethingWritten ==
    ASSUME NEW c \in Cells, WriteFile(c), FilesOK, src \in Cells \cup {None},
           pc \in {"restore_sharded", "restore_split"} => src \in Cells
    PROVE  \E d \in Cells : \E X : Write(d, X)
<1>1. CASE UploadFragment(c) \/ ShardTo(c) \/ SplitTo(c) \/ RestoreSharded \/ RestoreSplit
  BY <1>1 DEF UploadFragment, ShardTo, SplitTo, RestoreSharded, RestoreSplit
<1>2. CASE UploadMerged(c) \/ DefragFolder(c)
  BY <1>2 DEF UploadMerged, DefragFolder, Merge
<1>3. CASE CombineMerge(c) \/ CombineMisplaces(c)
  <2>1. Parent(c) \in Cells
    BY <1>3, Finest DEF CombineMerge, CombineMisplaces
  <2> QED BY <1>3, <2>1 DEF CombineMerge, CombineMisplaces, Merge
<1> QED BY <1>1, <1>2, <1>3 DEF WriteFile

LEMMA ReadWrite ==
    ASSUME IInv, ReadOK, NEW c \in Cells, WriteFile(c)
    PROVE  ReadOK'
<1>1. FilesOK /\ src \in Cells \cup {None}
  BY InvParts DEF LocalsOK
<1>2. PICK d \in Cells : \E X : Write(d, X)
  <2>1. pc \in {"restore_sharded", "restore_split"} => src \in Cells
    BY SourceFacts DEF Sourcing
  <2> QED BY <1>1, <2>1, SomethingWritten
<1>3. /\ made' = None /\ UNCHANGED <<folders, broken>>
      /\ files'[d] # <<>> /\ \A e \in Cells \ {d} : files'[e] = files[e]
      /\ made = d
  BY <1>1, <1>2, FileWritten DEF Write
<1>4. ~Erasing /\ crashes' = crashes
  BY DEF WriteFile, UploadFragment, UploadMerged, DefragFolder, ShardTo, SplitTo,
     RestoreSharded, RestoreSplit, CombineMerge, CombineMisplaces, Written, Erasing
<1>5. /\ Sourcing' \/ pc' = "combine_erase" => src' \notin broken
      /\ pc' # "idle" => \A r \in counts' : r[1] \notin broken
      /\ pc' = "defrag" => todo' \subseteq folders
  <2>1. CASE UploadFragment(c) \/ UploadMerged(c) \/ DefragFolder(c)
    <3>1. FolderDone(c) /\ pc \in {"upload", "upload_merged", "defrag"}
      BY <2>1 DEF UploadFragment, UploadMerged, DefragFolder, Written
    <3> QED BY <3>1 DEF FolderDone, Forget, ReadOK, Sourcing
  <2>2. CASE ShardTo(c) \/ SplitTo(c) \/ RestoreSharded
    <3>1. Sourcing /\ pc # "idle" /\ pc' \in {pc, "split"} /\ pc # "defrag"
          /\ src' = src /\ counts' = counts
      BY <2>2 DEF ShardTo, SplitTo, RestoreSharded, Sourcing, locals
    <3> QED BY <3>1 DEF ReadOK
  <2>3. CASE RestoreSplit
    <3>1. Sourcing /\ pc # "idle" /\ pc' = "levels" /\ counts' = counts \cup {<<src, Cardinality(frame)>>}
      BY <2>3 DEF RestoreSplit, Record, Sourcing
    <3>2. \A r \in counts' : r \in counts \/ r[1] = src
      BY <3>1
    <3> QED BY <3>1, <3>2 DEF ReadOK, Sourcing
  <2>4. CASE CombineMerge(c)
    <3>1. pc = "combine" /\ pc' = "combine_erase" /\ src' = c /\ c \notin broken /\ counts' = counts
      BY <2>4 DEF CombineMerge, Readable
    <3> QED BY <3>1 DEF ReadOK, Sourcing
  <2>5. CASE CombineMisplaces(c)
    <3>1. pc = "combine" /\ pc' = "raised" /\ counts' = counts
      BY <2>5 DEF CombineMisplaces, locals
    <3> QED BY <3>1 DEF ReadOK, Sourcing
  <2> QED BY <2>1, <2>2, <2>3, <2>4, <2>5 DEF WriteFile
<1>6. \A e \in folders \ {None} : files'[e] = <<>> => e # made /\ files[e] = <<>> /\ e \in Cells
  BY <1>1, <1>3 DEF FilesOK
<1>7. crashes = 0 => \A e \in folders \ {None} : files'[e] # <<>>
  BY <1>4, <1>6 DEF ReadOK
<1> QED BY <1>3, <1>4, <1>5, <1>7 DEF ReadOK

\* A step that leaves the disk alone.
LEMMA ReadSame ==
    ASSUME ReadOK, ~Erasing, UNCHANGED <<folders, files, broken, made, crashes>>,
           Sourcing' \/ pc' = "combine_erase" => src' \notin broken,
           pc' # "idle" => \A r \in counts' : r[1] \notin broken,
           pc' = "defrag" => todo' \subseteq folders
    PROVE  ReadOK'
BY DEF ReadOK

LEMMA ReadProceed ==
    ASSUME IInv, ReadOK, trim = None, made = None, NEW c \in Cells, Proceed(c)
    PROVE  ReadOK'
<1>1. FilesOK /\ src \in Cells \cup {None}
  BY InvParts DEF LocalsOK
<1>2. CASE MakeFolder(c)
  <2>1. /\ folders' = folders \cup {c} /\ made' = c /\ NextFile(c)
        /\ UNCHANGED <<files, broken, pc, src, todo, counts, crashes>>
    BY <1>2 DEF MakeFolder, locals
  <2>2. \A d \in folders' \ {made'} : d \in folders \ {made}
    BY <1>1, <2>1, NoneIsNoCell DEF FilesOK
  <2> QED BY <2>1, <2>2 DEF ReadOK, Erasing, Sourcing
<1>3. CASE UploadFails(c) \/ DefragFails(c) \/ SourceFails(c) \/ LevelsFail \/ CombineFails(c)
  <2>1. /\ pc' = "raised" /\ ~Erasing /\ pc # "idle" /\ counts' = counts
        /\ UNCHANGED <<folders, files, broken, made, crashes>>
    BY <1>3 DEF UploadFails, DefragFails, SourceFails, LevelsFail, CombineFails, Erasing,
       store, disk, locals
  <2> QED BY <2>1, ReadSame DEF ReadOK, Sourcing
<1>4. CASE NextSource(c)
  <2>1. /\ pc = "levels" /\ pc' = "shard" /\ src' = c /\ counts' = counts /\ c \notin broken
        /\ UNCHANGED <<folders, files, broken, made, crashes>>
    BY <1>4 DEF NextSource, Readable, store, disk
  <2> QED BY <2>1, ReadSame DEF ReadOK, Erasing
<1>5. CASE PlaceLevel \/ Placed
  <2>1. /\ pc \in {"place", "place_merged"} /\ pc' \in {pc, "upload", "upload_merged"}
        /\ counts' = counts /\ UNCHANGED <<folders, files, broken, made, crashes>>
    BY <1>5 DEF PlaceLevel, Placed, Placing, store, disk
  <2> QED BY <2>1, ReadSame DEF ReadOK, Erasing, Sourcing
<1>6. CASE NextLevel \/ StartCombine
  <2>1. /\ pc = "levels" /\ pc' \in {"levels", "combine"} /\ counts' = counts
        /\ UNCHANGED <<folders, files, broken, made, crashes>>
    BY <1>6 DEF NextLevel, StartCombine, store, disk
  <2> QED BY <2>1, ReadSame DEF ReadOK, Erasing, Sourcing
<1>7. CASE CombineAlone(c)
  <2>1. /\ pc = "combine" /\ pc' = "combine" /\ counts' \subseteq counts
        /\ UNCHANGED <<folders, files, broken, made, crashes>>
    BY <1>7 DEF CombineAlone, store, disk
  <2> QED BY <2>1, ReadSame DEF ReadOK, Erasing, Sourcing
<1>8. CASE ShardNothing \/ SomeSharded \/ SomeSplit
  <2>1. /\ pc \in {"shard", "split"} /\ pc' \in {"split", "erase_sharded", "erase_split"}
        /\ UNCHANGED <<src, counts, folders, files, broken, made, crashes>>
    BY <1>8 DEF ShardNothing, SomeSharded, SomeSplit, store, disk, locals
  <2> QED BY <2>1, ReadSame DEF ReadOK, Erasing, Sourcing
<1>9. CASE SplitNothing
  <2>1. /\ pc = "split" /\ pc' = "levels"
        /\ counts' = counts \cup {<<src, Cardinality(frame)>>}
        /\ UNCHANGED <<folders, files, broken, made, crashes>>
    BY <1>9 DEF SplitNothing, Record, store, disk
  <2>2. \A r \in counts' : r \in counts \/ r[1] = src
    BY <2>1
  <2> QED BY <2>1, <2>2, ReadSame DEF ReadOK, Erasing, Sourcing
<1>10. CASE EraseSharded \/ EraseSplit \/ CombineErase
  <2>1. /\ folders' = folders \ {src} /\ UNCHANGED <<files, broken, made, crashes>>
        /\ pc \in {"erase_sharded", "erase_split", "combine_erase"}
        /\ pc' \in {"levels", "restore_sharded", "restore_split", "combine"}
        /\ src' = src
    BY <1>10 DEF EraseSharded, EraseSplit, CombineErase, Erase, locals
  <2>2. src \notin broken /\ \A r \in counts : r[1] \notin broken
    BY <2>1 DEF ReadOK, Sourcing
  <2>3. \A r \in counts' : r[1] = src \/ \E q \in counts : r[1] = q[1]
    <3>1. CASE EraseSharded
      BY <3>1 DEF EraseSharded, locals
    <3>2. CASE EraseSplit
      BY <3>2 DEF EraseSplit, Record
    <3>3. CASE CombineErase
      BY <3>3 DEF CombineErase
    <3> QED BY <1>10, <3>1, <3>2, <3>3
  <2>4. broken' \subseteq folders'
    BY <2>1, <2>2 DEF ReadOK
  <2>5. crashes = 0 => \A d \in folders' \ {made'} : files[d] # <<>>
    BY <2>1 DEF ReadOK
  <2>6. ~Erasing' /\ pc' # "defrag" /\ pc' # "combine_erase"
    BY <2>1 DEF Erasing
  <2> QED BY <2>1, <2>2, <2>3, <2>4, <2>5, <2>6 DEF ReadOK
<1>11. CASE CombineRename(c)
  <2>1. PICK p \in Cells : p = Parent(c) /\ p # c
    BY <1>11, Finest DEF CombineRename
  <2>2. /\ pc = "combine" /\ pc' = "combine" /\ c \in folders /\ p \notin folders
        /\ folders' = (folders \ {c}) \cup {p}
        /\ files' = [files EXCEPT ![p] = files[c], ![c] = <<>>]
        /\ counts' = {<<IF r[1] = c THEN p ELSE r[1], r[2]>> : r \in counts}
        /\ UNCHANGED <<broken, made, crashes>>
    BY <1>11, <2>1 DEF CombineRename, RenameFolder
  <2>3. c \notin broken /\ p \notin broken /\ \A r \in counts : r[1] \notin broken
    <3>1. \E r \in counts : r[1] = c
      BY <1>11, Finest DEF CombineRename
    <3> QED BY <2>2, <3>1 DEF ReadOK
  <2>4. \A r \in counts' : r[1] \notin broken
    BY <2>2, <2>3
  <2>5. files'[p] = files[c] /\ \A d \in Cells \ {p, c} : files'[d] = files[d]
    BY <1>1, <2>1, <2>2 DEF FilesOK
  <2>6. crashes = 0 => \A d \in folders' \ {made'} : files'[d] # <<>>
    <3>1. crashes = 0 => \A d \in folders : files[d] # <<>>
      BY <1>1, <2>2, NoneIsNoCell DEF ReadOK, FilesOK, Erasing
    <3> QED BY <1>1, <2>1, <2>2, <2>5, <3>1 DEF FilesOK
  <2>7. broken' \subseteq folders'
    BY <2>2, <2>3 DEF ReadOK
  <2> QED BY <2>2, <2>4, <2>6, <2>7 DEF ReadOK, Sourcing
<1>12. CASE RemoveFile
  <2>1. /\ Erasing /\ UNCHANGED <<pc, src, todo, counts, folders, broken, made,
                                  crashes>>
        /\ \E i \in DOMAIN files[src] : files' = [files EXCEPT ![src] = RemoveAt(@, i)]
    BY <1>12 DEF RemoveFile, locals
  <2>2. \A d \in Cells \ {src} : files'[d] = files[d]
    BY <1>1, <2>1 DEF FilesOK
  <2> QED BY <1>1, <2>1, <2>2 DEF ReadOK, Erasing, Sourcing, FilesOK
<1>13. CASE CombineDone \/ Recover
  <2>1. /\ pc \in {"combine", "raised"} /\ pc' = "idle"
        /\ UNCHANGED <<folders, files, broken, made, crashes>>
    BY <1>13 DEF CombineDone, Recover, Forget, store, disk
  <2> QED BY <2>1, ReadSame DEF Erasing, Sourcing
<1> QED
  BY <1>2, <1>3, <1>4, <1>5, <1>6, <1>7, <1>8, <1>9, <1>10, <1>11, <1>12, <1>13 DEF Proceed

LEMMA ReadNext ==
    ASSUME IInv, ReadOK, [Next]_vars
    PROVE  ReadOK'
<1>1. FilesOK
  BY InvParts
<1>2. CASE RemoveFragment
  <2>1. PICK c \in Cells : c = trim
    BY <1>2 DEF IInv, TypeOK, RemoveFragment
  <2>2. /\ files' = [files EXCEPT ![c] = Tail(@)] /\ Len(files[c]) >= 2
        /\ UNCHANGED <<folders, broken, made, pc, src, todo, counts, crashes>>
    BY <1>2, <2>1 DEF RemoveFragment, locals, IInv, TrimOK
  <2>3. Len(files[c]) \in Nat /\ Len(files[c]) >= 2 /\ Len(files[c]) >= 1
    BY <1>1, <2>2, FolderFiles
  <2>4. /\ Len(files'[c]) = Len(files[c]) - 1
        /\ \A d \in Cells \ {c} : files'[d] = files[d]
    BY <1>1, <2>2, <2>3, RemovedFirst
  <2>5. files'[c] # <<>>
    <3>1. \A n \in Nat : n >= 2 => n - 1 # 0
      OBVIOUS
    <3>2. Len(files'[c]) # 0
      BY <2>3, <2>4, <3>1
    <3> QED BY <3>2, EmptyCell
  <2> QED BY <1>1, <2>2, <2>4, <2>5 DEF ReadOK, Erasing, Sourcing, FilesOK
<1>3. CASE trim = None /\ \E c \in Cells : WriteFile(c)
  BY <1>3, ReadWrite
<1>4. CASE trim = None /\ made = None /\ \E c \in Cells : Proceed(c)
  BY <1>4, ReadProceed
<1>5. CASE (\E b \in Batches, defrag \in BOOLEAN : Upload(b, defrag)) \/ Defrag \/ Repartition
  <2>1. /\ pc = "idle" /\ counts' = counts
        /\ UNCHANGED <<folders, files, broken, made, crashes>>
    BY <1>5 DEF Upload, Defrag, Repartition, store, disk
  <2>2. counts = {}
    BY <2>1 DEF IInv, PlaceOK, Early
  <2>3. /\ pc' \in {"place", "place_merged", "defrag", "levels"}
        /\ pc' = "defrag" => todo' = folders
    BY <1>5 DEF Upload, Defrag, Repartition
  <2> QED BY <2>1, <2>2, <2>3, ReadSame DEF Erasing, Sourcing
<1>6. CASE Crash
  <2>1. /\ folders' = folders /\ crashes' = crashes + 1 /\ crashes \in Nat /\ pc' = "idle"
        /\ broken' \subseteq broken \cup ({made} \ {None})
    BY <1>6 DEF Crash, Forget, IInv, TypeOK
  <2>2. broken' \subseteq folders'
    BY <1>1, <2>1 DEF FilesOK, ReadOK
  <2>3. crashes' # 0
    BY <2>1
  <2> QED BY <2>1, <2>2, <2>3 DEF ReadOK, Sourcing
<1>7. CASE UNCHANGED vars
  BY <1>7 DEF vars, ReadOK, Erasing, Sourcing
<1> QED BY <1>2, <1>3, <1>4, <1>5, <1>6, <1>7 DEF Next, Work

LEMMA ReasonNext ==
    ASSUME IInv, ReadOK, RaisesForAReason, [Next]_vars
    PROVE  RaisesForAReason'
<1> SUFFICES ASSUME pc' = "raised" PROVE RaisesForAReason'
  BY DEF RaisesForAReason
<1>1. FilesOK /\ crashes \in Nat
  BY InvParts DEF IInv, TypeOK
<1>2. CASE RemoveFragment
  <2>1. PICK c \in Cells : c = trim
    BY <1>2 DEF IInv, TypeOK, RemoveFragment
  <2>2. /\ files' = [files EXCEPT ![c] = Tail(@)] /\ Len(files[c]) >= 2 /\ pc = "raised"
        /\ UNCHANGED <<folders, broken, todo, counts, crashes>>
    BY <1>2, <2>1 DEF RemoveFragment, locals, IInv, TrimOK
  <2>3. files[c] # <<>>
    BY <2>2, EmptySeq
  <2>4. \A d \in Cells \ {c} : files'[d] = files[d]
    BY <1>1, <2>2 DEF FilesOK
  <2>5. \A d \in folders : ~Readable(d) => ~Readable(d)'
    BY <1>1, <2>2, <2>3, <2>4 DEF Readable, FilesOK
  <2>6. Coarse' = Coarse
    BY <2>2 DEF Coarse
  <2> QED BY <2>2, <2>5, <2>6 DEF RaisesForAReason
<1>3. ASSUME NEW c \in Cells, UploadFails(c) \/ DefragFails(c) \/ SourceFails(c), made = None
      PROVE  RaisesForAReason'
  <2>1. /\ pc \in {"upload_merged", "defrag", "levels"} /\ c \in todo /\ ~Readable(c)
        /\ pc = "upload_merged" => c \in broken
        /\ UNCHANGED <<folders, files, broken, todo, crashes>>
    BY <1>3 DEF UploadFails, DefragFails, SourceFails, Readable, store, disk, locals
  <2>2. c \in folders
    BY <2>1 DEF ReadOK, IInv, SourceOK, Rebalancing
  <2>3. crashes > 0
    BY <1>1, <1>3, <2>1, <2>2, NoneIsNoCell DEF ReadOK, Readable, Erasing
  <2>4. ~Readable(c)'
    BY <2>1 DEF Readable
  <2> QED BY <2>1, <2>2, <2>3, <2>4 DEF RaisesForAReason
<1>4. CASE LevelsFail
  BY <1>4 DEF LevelsFail, RaisesForAReason, Coarse, store, disk
<1>5. ASSUME NEW c \in Cells, CombineFails(c) \/ CombineMisplaces(c)
      PROVE  RaisesForAReason'
  <2>1. /\ pc = "combine" /\ c \in {r[1] : r \in FinestSmall} /\ c \notin folders
        /\ UNCHANGED <<folders, counts>>
    BY <1>5 DEF CombineFails, CombineMisplaces, Merge, Write, store, disk, locals
  <2>2. PICK r \in counts : r[1] = c
    BY <2>1, Finest
  <2>3. r[2] = 0
    BY <2>1, <2>2 DEF IInv, RecordsOK, Combining
  <2> QED BY <2>1, <2>2, <2>3 DEF RaisesForAReason
<1>6. ASSUME NEW c \in Cells, WriteFile(c)
      PROVE  RaisesForAReason'
  <2>1. CASE CombineMisplaces(c)
    BY <1>5, <2>1
  <2>2. CASE ~CombineMisplaces(c)
    <3>1. pc' # "raised"
      BY <1>6, <2>2 DEF WriteFile, UploadFragment, UploadMerged, DefragFolder, ShardTo, SplitTo,
         RestoreSharded, RestoreSplit, CombineMerge, Written, FolderDone, Forget
    <3> QED BY <3>1
  <2> QED BY <2>1, <2>2
<1>7. ASSUME NEW c \in Cells, Proceed(c), made = None
      PROVE  RaisesForAReason'
  <2>1. CASE UploadFails(c) \/ DefragFails(c) \/ SourceFails(c) \/ LevelsFail \/ CombineFails(c)
    BY <1>3, <1>4, <1>5, <1>7, <2>1
  <2>2. CASE ~(UploadFails(c) \/ DefragFails(c) \/ SourceFails(c) \/ LevelsFail \/ CombineFails(c))
    <3>1. pc' # "raised"
      <4>1. ~MakeFolder(c)
        <5>1. MakeFolder(c) => pc' = pc /\ NextFile(c)
          BY DEF MakeFolder
        <5>2. NextFile(c) => pc # "raised"
          BY DEF NextFile
        <5> QED BY <5>1, <5>2
      <4>2. ~NextSource(c) /\ ~CombineAlone(c) /\ ~CombineRename(c) /\ ~PlaceLevel /\ ~Placed
        BY DEF NextSource, CombineAlone, CombineRename, PlaceLevel, Placed, Placing
      <4>3. ~NextLevel /\ ~ShardNothing /\ ~SomeSharded /\ ~EraseSharded /\ ~SplitNothing
            /\ ~SomeSplit /\ ~EraseSplit /\ ~StartCombine /\ ~CombineErase /\ ~CombineDone
        BY DEF NextLevel, ShardNothing, SomeSharded, EraseSharded, SplitNothing, SomeSplit,
           EraseSplit, StartCombine, CombineErase, CombineDone, Forget
      <4>4. ~RemoveFile /\ ~Recover
        BY DEF RemoveFile, Recover, Forget, Erasing
      <4> QED BY <1>7, <2>2, <4>1, <4>2, <4>3, <4>4 DEF Proceed
    <3> QED BY <3>1
  <2> QED BY <2>1, <2>2
<1>8. CASE (\E b \in Batches, defrag \in BOOLEAN : Upload(b, defrag)) \/ Defrag \/ Repartition
           \/ Crash
  <2>1. pc' # "raised"
    BY <1>8 DEF Upload, Defrag, Repartition, Crash, Forget
  <2> QED BY <2>1
<1>9. CASE UNCHANGED vars
  BY <1>9 DEF vars, RaisesForAReason, Coarse, Readable
<1> QED BY <1>2, <1>6, <1>7, <1>8, <1>9 DEF Next, Work

LEMMA ReadAlways == Spec => []JInv
<1>1. IInv /\ JInv /\ [Next]_vars => JInv'
  BY ReadNext, ReasonNext DEF JInv
<1> QED BY <1>1, ReadInit, InvAlways, PTL DEF Spec

-----------------------------------------------------------------------------
(* Theorems                                                                *)

\* Every variable stays in its domain: the level of a repartition never passes
\* target_level, an upload places keys in cells only, records stay numbers.
THEOREM TypesHold == Spec => []TypeOK
<1>1. IInv => TypeOK
  BY DEF IInv
<1> QED BY <1>1, InvAlways, PTL

\* Uploads, defrags, and all that repartition moves, erases, writes again,
\* renames and combines lose no key, except when the process dies between the
\* erasure of a folder and the writing of what was left of it.
THEOREM KeysStaySafe == Spec => []KeysAreSafe
<1>1. IInv => KeysAreSafe
  BY DEF IInv
<1> QED BY <1>1, InvAlways, PTL

\* Every row is in a folder at or above its root, where a query of the area
\* looks for it, unless _combine wrote the rows of another folder and raised.
THEOREM RowsStayInPlace == Spec => []RowsInTheirPartition
<1>1. IInv => RowsInTheirPartition
  BY DEF IInv
<1> QED BY <1>1, InvAlways, PTL

\* Until the first repartition, the last version of each key is in the store,
\* whatever is uploaded, merged or interrupted.
THEOREM NewestIsKept == Spec => []DefragKeepsNewest
<1>1. IInv => DefragKeepsNewest
  <2> SUFFICES ASSUME IInv, ~reordered, NEW k \in Keys, newest[k] > 0
               PROVE  [key |-> k, ver |-> newest[k]] \in Stored
    BY DEF DefragKeepsNewest
  <2>1. FilesOK
    BY InvParts
  <2>2. PICK c \in Cells : \E i \in DOMAIN files[c] :
           [key |-> k, ver |-> newest[k]] \in files[c][i]
    BY DEF IInv, VersionsOK
  <2>3. [key |-> k, ver |-> newest[k]] \in Contents(c)
    BY <2>1, <2>2, FolderFiles
  <2> QED BY <2>3 DEF Stored
<1> QED BY <1>1, InvAlways, PTL

\* A repartition that has gone through the levels has left every row in the
\* finest folder there is for it.
THEOREM RowsEndDeepest == Spec => []ShardedDeepest
<1>1. IInv => ShardedDeepest
  <2> SUFFICES ASSUME IInv, pc = "levels", todo = {}, level = TargetLevel,
                      NEW c \in folders, NEW d \in folders, Above(c, d)
               PROVE  Under(Contents(c), d) = {}
    BY DEF ShardedDeepest
  <2>1. c \in Cells /\ d \in Cells
    BY DEF IInv, FilesOK
  <2>2. Len(c) \in Nat /\ Len(c) < Len(d) /\ Len(d) <= TargetLevel + 1 /\ Len(d) \in Nat
    BY <2>1, AboveParent, CellLength
  <2>3. Through(c)
    BY <2>2, Bounds DEF Through, Sourcing
  <2> QED BY <2>1, <2>3 DEF IInv, DeepestOK, Rebalancing, Present
<1> QED BY <1>1, InvAlways, PTL

\* The assertion at the end of create_partitions holds: when the loop is over,
\* no key is left without a partition, and the partitions are above the roots.
AllPlaced ==
    Placing /\ level < 0 =>
        /\ DOMAIN rest = {}
        /\ \A k \in DOMAIN batch : IsPrefix(batch[k], Root[k])

THEOREM EverythingIsPlaced == Spec => []AllPlaced
<1>1. IInv => AllPlaced
  <2> SUFFICES ASSUME IInv, Placing, level < 0
               PROVE  DOMAIN rest = {}
    BY DEF AllPlaced, IInv, CellsOK
  <2>1. ASSUME NEW k \in DOMAIN rest PROVE FALSE
    <3>1. rest[k] \in Cells
      BY DEF IInv, TypeOK, Range
    <3>2. Len(rest[k]) \in Nat /\ Len(rest[k]) <= level /\ level \in Int
      BY <3>1, CellLength DEF IInv, PlaceOK, TypeOK
    <3> QED BY <3>2
  <2> QED BY <2>1
<1> QED BY <1>1, InvAlways, PTL

\* An operation raises only because no folder is at target_level or coarser, a
\* folder that splitting emptied is still on record, or a crash has left a
\* folder that cannot be read: nothing else that an upload, a defrag or a
\* repartition does can make the next one raise.
THEOREM RaisesAreExplained == Spec => []RaisesForAReason
<1>1. JInv => RaisesForAReason
  BY DEF JInv
<1> QED BY <1>1, ReadAlways, PTL

\* While no process has died, every folder can be read, apart from the one just
\* made for a file and the one being erased.
FoldersReadable ==
    crashes = 0 => \A c \in folders : Readable(c) \/ c = made \/ (Erasing /\ c = src)

THEOREM FoldersStayReadable == Spec => []FoldersReadable
<1>1. JInv => FoldersReadable
  BY DEF JInv, ReadOK, FoldersReadable, Readable
<1> QED BY <1>1, ReadAlways, PTL
=============================================================================
