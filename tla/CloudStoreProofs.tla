-------------------------- MODULE CloudStoreProofs --------------------------
(***************************************************************************)
(* Proofs about CloudStore, for any tree of folders, any names, any remote *)
(* directories and any number of runs.                                     *)
(***************************************************************************)
EXTENDS CloudStore, TLAPS

InRun == pc \in {"upload", "item", "done"}
Chosen == {f \in Names : at[f] \in Selected(run)}

\* A file the run has dealt with, its item included.
Past(f) == f \in Chosen \ left /\ ~(pc = "item" /\ file = f)

Replacing == run.type \in {"replace_all", "replace_partition"}

\* The variables of a run: what is doomed is what the run replaces, nothing is
\* uploaded while something is doomed, and uploads go to one of two directories.
RunOK ==
    /\ pc # "item" => file = None
    /\ \A f \in Names : item[f] # None => item[f].name = f
    /\ InRun =>
          /\ run \in Runs
          /\ left \subseteq Chosen
          /\ prefix \in {run.dir, Default}
          /\ \A p \in doomed : Replaces(p)
          /\ doomed # {} => pc = "upload" /\ left = Chosen
    /\ pc = "item" => file \in Chosen \ left
    /\ pc = "item" /\ run.type # "stac_items_only" =>
          CopyOf(prefix, file) \in objects

\* What a run that replaces is done with has a copy where its item says.
ServedOK ==
    InRun /\ Replacing =>
        \A f \in Names : Past(f) =>
            /\ Served(f)
            /\ item[f] \in {PathOf(run.dir, f), PathOf(Default, f)}

\* A directory of which everything is replaced holds what is still doomed and
\* copies of files the run has uploaded: of one file only, the first one, if
\* the directory is not the default.
MirrorOK ==
    InRun /\ run.type = "replace_all" =>
        /\ \A o \in objects : o.path.dir = run.dir =>
              \/ o.path \in doomed
              \/ \E f \in Chosen \ left : o = CopyOf(run.dir, f)
        /\ run.dir # Default =>
              /\ prefix = run.dir =>
                    Chosen \ left = IF pc = "item" THEN {file} ELSE {}
              /\ prefix # run.dir =>
                    \E f \in Chosen \ left : Copies(run.dir) = {CopyOf(run.dir, f)}

\* What an add skips has an item that leads to it or was half done before.
AddOK ==
    InRun /\ run.type = "add" =>
        \A f \in Names :
            /\ Past(f) => Reachable(f) \/ f \in halves
            /\ f \in left /\ (\E d \in {run.dir, Default} : Uploaded(PathOf(d, f)))
                  => Reachable(f) \/ f \in halves

Inv == TypeOK /\ RunOK /\ ServedOK /\ MirrorOK /\ AddOK

LEMMA InvInit == Init => Inv
<1> SUFFICES ASSUME Init PROVE Inv
  OBVIOUS
<1>1. 0 \in 0..MaxRewrites /\ 0 \in 0..MaxRuns
  BY BoundsAssumption
<1>2. \A f \in Names \ unused : PathOf(Default, f) \in Paths /\ PathOf(Default, f).name = f
  BY DefaultAssumption DEF Init, PathOf, Paths
<1>3. TypeOK
  BY <1>1, <1>2, DefaultAssumption DEF Init, TypeOK
<1>4. RunOK
  BY <1>2 DEF Init, RunOK, InRun
<1> QED
  BY <1>3, <1>4 DEF Init, Inv, InRun, ServedOK, MirrorOK, AddOK

-----------------------------------------------------------------------------
(* The local store                                                         *)

DiskOK ==
    /\ at \in [Names -> Folders \cup {None}]
    /\ unused \subseteq {f \in Names : at[f] = None}
    /\ content \in [Names -> 0..MaxRewrites]

LEMMA ReplaceKeepsDisk ==
    ASSUME DiskOK, NEW gone, NEW new, Replace(gone, new),
           \A f \in DOMAIN new : new[f] \in Folders
    PROVE  DiskOK'
BY BoundsAssumption DEF DiskOK, Replace

\* Only files at rest change, and every file stays in a folder.
LEMMA MaintainKeepsDisk == ASSUME DiskOK, Maintain PROVE AtRest /\ DiskOK'
<1>1. ASSUME NEW f \in Names, NEW c \in Folders,
             WriteFragment(f, c) \/ Defrag(f, c)
      PROVE  AtRest /\ DiskOK'
  BY <1>1, ReplaceKeepsDisk DEF WriteFragment, Defrag
<1>2. ASSUME NEW f \in Names, NEW c \in Folders, MergeUp(f, c)
      PROVE  AtRest /\ DiskOK'
  <2>1. Parent[c] \in Folders
    BY <1>2, NoneAssumption DEF DiskOK, MergeUp, Existing
  <2> QED BY <1>2, <2>1, ReplaceKeepsDisk DEF MergeUp
<1>3. ASSUME NEW f \in Names, NEW c \in Folders, NEW rest \in SUBSET Names,
             MoveDown(f, rest, c)
      PROVE  AtRest /\ DiskOK'
  <2>1. Parent[c] \in Folders
    BY <1>3, NoneAssumption DEF DiskOK, MoveDown, Existing
  <2> QED BY <1>3, <2>1, ReplaceKeepsDisk DEF MoveDown
<1>4. ASSUME NEW c \in Folders, Rename(c)
      PROVE  AtRest /\ DiskOK'
  <2>1. Parent[c] \in Folders
    BY <1>4, ParentAssumption DEF Rename
  <2> QED BY <1>4, <2>1, NoneAssumption DEF Rename, DiskOK, Existing
<1>5. ASSUME NEW fs \in SUBSET Names, Unify(fs)
      PROVE  AtRest /\ DiskOK'
  BY <1>5, BoundsAssumption DEF Unify, DiskOK
<1> QED BY <1>1, <1>2, <1>3, <1>4, <1>5 DEF Maintain

LEMMA MaintainStep == ASSUME Inv, Maintain PROVE Inv'
<1>1. AtRest /\ DiskOK'
  BY MaintainKeepsDisk DEF Inv, TypeOK, DiskOK
<1>2. TypeOK'
  BY <1>1 DEF Inv, TypeOK, DiskOK, AtRest, cloud
<1>3. RunOK'
  BY <1>1 DEF Inv, RunOK, AtRest, cloud, InRun, TypeOK
<1> QED
  BY <1>1, <1>2, <1>3 DEF Inv, AtRest, InRun, ServedOK, MirrorOK, AddOK

-----------------------------------------------------------------------------
(* The steps of a run                                                      *)

LEMMA ToCosStep == ASSUME Inv, NEW r \in Runs, ToCos(r) PROVE Inv'
<1>1. /\ pc' = "upload" /\ run' = r /\ file' = None
      /\ prefix' = r.dir /\ doomed' = Doomed(r) /\ left' = Chosen'
      /\ UNCHANGED <<at, unused, content, objects, item>>
  BY DEF ToCos, Inv, TypeOK, Chosen, Selected, Existing, disk, cloud
<1>2. /\ r.dir \in Directories /\ r.type \in Types /\ r.folders \in Choices
      /\ Doomed(r) \subseteq Paths
  BY DEF Runs, Doomed, Inv, TypeOK
<1>3. TypeOK'
  <2>1. runs' \in 0..MaxRuns /\ halves' \subseteq Names /\ left' \subseteq Names
    BY <1>1, BoundsAssumption DEF Inv, TypeOK, ToCos, Chosen
  <2> QED BY <1>1, <1>2, <2>1 DEF Inv, TypeOK
<1>4. RunOK'
  <2>1. \A p \in doomed' : Replaces(p)'
    BY <1>1 DEF Doomed, Replaces, Selected, Existing, Types, Runs
  <2> QED BY <1>1, <2>1 DEF Inv, RunOK, InRun
<1>5. \A f \in Names : ~Past(f)'
  BY <1>1 DEF Past
<1>6. ServedOK'
  BY <1>5 DEF ServedOK
<1>7. MirrorOK'
  <2>1. ASSUME r.type = "replace_all", NEW o \in objects, o.path.dir = r.dir
        PROVE  o.path \in doomed'
    BY <1>1, <2>1 DEF Doomed
  <2> QED BY <1>1, <2>1 DEF MirrorOK
<1>8. AddOK'
  <2>1. ASSUME NEW f \in Names, NEW d \in {r.dir, Default}, Uploaded(PathOf(d, f))
        PROVE  Reachable(f) \/ f \in halves'
    BY <2>1 DEF ToCos
  <2>2. \A f \in Names :
            /\ Reachable(f)' <=> Reachable(f)
            /\ \A d \in {r.dir, Default} :
                  Uploaded(PathOf(d, f))' <=> Uploaded(PathOf(d, f))
    BY <1>1 DEF Reachable, Uploaded, ObjectsAt, PathOf
  <2> QED BY <1>1, <1>5, <2>1, <2>2 DEF AddOK
<1> QED BY <1>3, <1>4, <1>6, <1>7, <1>8 DEF Inv

\* While a run goes on its files and folders are the same.
LEMMA RunFrame ==
    ASSUME UNCHANGED <<at, unused, content, run>>
    PROVE  /\ Chosen' = Chosen /\ Replacing' = Replacing
           /\ \A p : Replaces(p)' <=> Replaces(p)
           /\ \A d, f : PathOf(d, f)' = PathOf(d, f) /\ CopyOf(d, f)' = CopyOf(d, f)
BY DEF Chosen, Selected, Existing, Replacing, Replaces, PathOf, CopyOf

LEMMA RemoveStep ==
    ASSUME Inv, NEW p \in doomed, RemoveObject(p) PROVE Inv'
<1>1. /\ pc = "upload" /\ pc' = "upload" /\ left = Chosen /\ InRun /\ InRun'
      /\ objects' = objects \ ObjectsAt(p) /\ doomed' = doomed \ {p}
      /\ UNCHANGED <<at, unused, content, item, run, prefix, left, file, runs, halves>>
  BY DEF RemoveObject, Inv, RunOK, disk, InRun
<1>2. /\ Chosen' = Chosen /\ Replacing' = Replacing
      /\ \A q : Replaces(q)' <=> Replaces(q)
      /\ \A d, f : PathOf(d, f)' = PathOf(d, f) /\ CopyOf(d, f)' = CopyOf(d, f)
  BY <1>1, RunFrame
<1>3. TypeOK'
  BY <1>1 DEF Inv, TypeOK
<1>4. RunOK'
  BY <1>1, <1>2 DEF Inv, RunOK
<1>5. \A f \in Names : ~Past(f)'
  BY <1>1, <1>2 DEF Past
<1>6. ServedOK'
  BY <1>5 DEF ServedOK
<1>7. MirrorOK'
  <2>1. \A o \in objects' : o \in objects /\ o.path # p
    BY <1>1 DEF ObjectsAt
  <2>2. Chosen \ left = {}
    BY <1>1
  <2> QED BY <1>1, <1>2, <2>1, <2>2 DEF Inv, MirrorOK, Copies
<1>8. AddOK'
  BY <1>1, <1>2 DEF Inv, RunOK, Replaces, AddOK
<1> QED BY <1>3, <1>4, <1>6, <1>7, <1>8 DEF Inv

LEMMA SkipStep == ASSUME Inv, NEW f \in left, Skip(f) PROVE Inv'
<1>1. /\ pc = "upload" /\ pc' = "upload" /\ InRun /\ InRun'
      /\ run.type = "add" /\ Uploaded(PathOf(prefix, f))
      /\ left' = left \ {f} /\ doomed = {}
      /\ UNCHANGED <<at, unused, content, objects, item, run, prefix, doomed,
                     file, runs, halves>>
  BY DEF Skip, Skips, disk, cloud, InRun
<1>2. /\ Chosen' = Chosen /\ Replacing' = Replacing
      /\ \A q : Replaces(q)' <=> Replaces(q)
      /\ \A d, g : PathOf(d, g)' = PathOf(d, g) /\ CopyOf(d, g)' = CopyOf(d, g)
  BY <1>1, RunFrame
<1>3. TypeOK'
  BY <1>1 DEF Inv, TypeOK
<1>4. RunOK'
  BY <1>1, <1>2 DEF Inv, RunOK
<1>5. ServedOK' /\ MirrorOK'
  BY <1>1, <1>2 DEF ServedOK, MirrorOK, Replacing
<1>6. AddOK'
  <2>1. Reachable(f) \/ f \in halves
    BY <1>1 DEF Inv, RunOK, TypeOK, AddOK
  <2>2. \A g \in Names :
            /\ Reachable(g)' <=> Reachable(g)
            /\ Past(g)' => Past(g) \/ g = f
            /\ \A d \in {run.dir, Default} :
                  Uploaded(PathOf(d, g))' <=> Uploaded(PathOf(d, g))
    BY <1>1, <1>2 DEF Reachable, Uploaded, ObjectsAt, Past
  <2> QED BY <1>1, <2>1, <2>2 DEF Inv, AddOK
<1> QED BY <1>3, <1>4, <1>5, <1>6 DEF Inv

\* Every file the run is done with was dealt with before, except the one whose
\* upload begins.
LEMMA UploadStep == ASSUME Inv, NEW f \in left, Upload(f) PROVE Inv'
<1> DEFINE p == PathOf(prefix, f)
<1>1. /\ pc = "upload" /\ pc' = "item" /\ InRun /\ InRun'
      /\ ~Skips(f) /\ file' = f
      /\ left' = left \ {f} /\ doomed = {} /\ f \in Chosen
      /\ objects' = IF run.type = "stac_items_only" THEN objects
                    ELSE (objects \ ObjectsAt(p)) \cup {CopyOf(prefix, f)}
      /\ UNCHANGED <<at, unused, content, item, run, prefix, doomed, runs, halves>>
  BY DEF Inv, RunOK, Upload, disk, InRun, CopyOf
<1>2. /\ Chosen' = Chosen /\ Replacing' = Replacing
      /\ \A q : Replaces(q)' <=> Replaces(q)
      /\ \A d, g : PathOf(d, g)' = PathOf(d, g) /\ CopyOf(d, g)' = CopyOf(d, g)
  BY <1>1, RunFrame
<1>3. /\ f \in Names /\ at[f] \in Folders /\ prefix \in Directories
      /\ p \in Paths /\ CopyOf(prefix, f) \in [path : Paths, ver : 0..MaxRewrites]
  <2>1. at[f] \in Selected(run) /\ f \in Names /\ run \in Runs
    BY <1>1 DEF Chosen, Inv, RunOK
  <2>2. at[f] \in Folders
    BY <2>1, ChoicesAssumption, NoneAssumption DEF Inv, TypeOK, Selected, Existing, Runs
  <2> QED BY <2>1, <2>2 DEF Inv, TypeOK, PathOf, Paths, CopyOf
<1>4. TypeOK'
  BY <1>1, <1>3 DEF Inv, TypeOK
<1>5. RunOK'
  BY <1>1, <1>2 DEF Inv, RunOK
<1>6. \A g \in Names : Past(g)' => Past(g) /\ g # f
  BY <1>1, <1>2 DEF Past, Inv, RunOK
\* Objects of other files are as they were.
<1>7. \A o : o.path.name # f => (o \in objects' <=> o \in objects)
  BY <1>1 DEF ObjectsAt, CopyOf, PathOf
<1>8. \A g, d : g # f => (Uploaded(PathOf(d, g))' <=> Uploaded(PathOf(d, g)))
  BY <1>2, <1>7 DEF Uploaded, ObjectsAt, PathOf
<1>9. ServedOK'
  <2>1. ASSUME NEW g \in Names, g # f, Served(g)
        PROVE  Served(g)'
    BY <1>1, <1>7, <2>1 DEF Served, Inv, RunOK
  <2> QED BY <1>1, <1>2, <1>6, <2>1 DEF Inv, ServedOK
<1>10. MirrorOK'
  <2> SUFFICES ASSUME run.type = "replace_all"
               PROVE  MirrorOK'
    BY <1>1 DEF MirrorOK
  <2>1. /\ objects' = (objects \ ObjectsAt(p)) \cup {CopyOf(prefix, f)}
        /\ (Chosen \ left)' = (Chosen \ left) \cup {f}
    BY <1>1, <1>2
  <2>2. ASSUME NEW o \in objects', o.path.dir = run.dir
        PROVE  \E g \in (Chosen \ left)' : o = CopyOf(run.dir, g)
    <3>1. CASE o = CopyOf(prefix, f)
      BY <2>1, <2>2, <3>1 DEF CopyOf, PathOf
    <3>2. CASE o # CopyOf(prefix, f)
      BY <1>1, <2>1, <2>2, <3>2 DEF Inv, MirrorOK
    <3> QED BY <3>1, <3>2
  <2>3. ASSUME run.dir # Default, prefix = run.dir
        PROVE  (Chosen \ left)' = {f}
    BY <1>1, <2>1, <2>3 DEF Inv, MirrorOK
  <2>4. ASSUME run.dir # Default, prefix # run.dir
        PROVE  \E g \in (Chosen \ left)' : Copies(run.dir)' = {CopyOf(run.dir, g)}
    <3>1. PICK g \in Chosen \ left : Copies(run.dir) = {CopyOf(run.dir, g)}
      BY <1>1, <2>4 DEF Inv, MirrorOK
    <3>2. p.dir # run.dir /\ CopyOf(prefix, f).path.dir # run.dir
      BY <2>4 DEF CopyOf, PathOf
    <3>3. Copies(run.dir)' = Copies(run.dir)
      BY <1>1, <2>1, <3>2 DEF Copies, ObjectsAt
    <3> QED BY <2>1, <3>1, <3>3
  <2> QED BY <1>1, <1>2, <2>2, <2>3, <2>4 DEF MirrorOK
<1>11. AddOK'
  <2>1. ASSUME NEW g \in Names, g # f
        PROVE  Reachable(g)' <=> Reachable(g)
    <3>1. item[g] # None => item[g].name = g
      BY DEF Inv, RunOK
    <3> QED BY <1>1, <1>7, <2>1, <3>1 DEF Reachable, Uploaded, ObjectsAt
  <2> QED BY <1>1, <1>2, <1>6, <1>8, <2>1 DEF Inv, AddOK
<1> QED BY <1>4, <1>5, <1>9, <1>10, <1>11 DEF Inv

LEMMA ItemStep == ASSUME Inv, ToStacItem PROVE Inv'
<1> DEFINE p == PathOf(prefix, file)
<1>1. /\ pc = "item" /\ pc' = "upload" /\ InRun /\ InRun'
      /\ item' = [item EXCEPT ![file] = p] /\ prefix' = Default /\ file' = None
      /\ file \in Chosen \ left
      /\ UNCHANGED <<at, unused, content, objects, run, doomed, left, runs, halves>>
  BY DEF Inv, RunOK, ToStacItem, disk, InRun
<1>2. /\ Chosen' = Chosen /\ Replacing' = Replacing
      /\ \A q : Replaces(q)' <=> Replaces(q)
      /\ \A d, g : PathOf(d, g)' = PathOf(d, g) /\ CopyOf(d, g)' = CopyOf(d, g)
  BY <1>1, RunFrame
<1>3. file \in Names /\ p \in Paths /\ p.name = file /\ p # None
  <2>1. at[file] \in Selected(run) /\ file \in Names /\ run \in Runs
    BY <1>1 DEF Chosen, Inv, RunOK
  <2>2. at[file] \in Folders
    BY <2>1, ChoicesAssumption, NoneAssumption DEF Inv, TypeOK, Selected, Existing, Runs
  <2> QED BY <2>1, <2>2, NoneAssumption DEF Inv, TypeOK, PathOf, Paths
<1>4. PICK f \in Names : f = file
  BY <1>3
<1>5. /\ item'[f] = p
      /\ \A g \in Names : g # f => item'[g] = item[g]
  BY <1>1, <1>3, <1>4 DEF Inv, TypeOK
<1>6. TypeOK' /\ RunOK'
  <2>1. TypeOK'
    BY <1>1, <1>3, DefaultAssumption DEF Inv, TypeOK
  <2>2. RunOK'
    BY <1>1, <1>2, <1>3, <1>4, <1>5 DEF Inv, RunOK
  <2> QED BY <2>1, <2>2
<1>7. \A g \in Names : Past(g)' => g = f \/ Past(g)
  BY <1>1, <1>2, <1>4 DEF Past
<1>8. \A g \in Names : g # f => /\ Served(g)' <=> Served(g)
                                /\ Reachable(g)' <=> Reachable(g)
  BY <1>1, <1>5 DEF Served, Reachable, Uploaded, ObjectsAt
<1>9. run.type # "stac_items_only" => Served(f)' /\ Reachable(f)'
  <2>1. run.type # "stac_items_only" => CopyOf(prefix, f) \in objects
    BY <1>1, <1>4 DEF Inv, RunOK
  <2> QED BY <1>1, <1>3, <1>4, <1>5, <2>1
          DEF Served, Reachable, Uploaded, ObjectsAt, CopyOf
<1>10. ServedOK'
  <2>1. p \in {PathOf(run.dir, f), PathOf(Default, f)}
    BY <1>1, <1>4 DEF Inv, RunOK
  <2>2. ASSUME Replacing, NEW g \in Names, Past(g)'
        PROVE  Served(g)' /\ item'[g] \in {PathOf(run.dir, g), PathOf(Default, g)}
    <3>1. CASE g = f
      BY <1>5, <1>9, <2>1, <2>2, <3>1 DEF Replacing
    <3>2. CASE g # f
      BY <1>1, <1>5, <1>7, <1>8, <2>2, <3>2 DEF Inv, ServedOK
    <3> QED BY <3>1, <3>2
  <2> QED BY <1>1, <1>2, <2>2 DEF ServedOK
<1>11. MirrorOK'
  <2> SUFFICES ASSUME run.type = "replace_all"
               PROVE  MirrorOK'
    BY <1>1 DEF MirrorOK
  <2>1. ASSUME run.dir # Default
        PROVE  \E g \in Chosen \ left : Copies(run.dir) = {CopyOf(run.dir, g)}
    <3>1. CASE prefix # run.dir
      BY <1>1, <2>1, <3>1 DEF Inv, MirrorOK
    <3>2. CASE prefix = run.dir
      <4>1. Chosen \ left = {file} /\ CopyOf(run.dir, file) \in objects
        BY <1>1, <2>1, <3>2 DEF Inv, MirrorOK, RunOK
      <4>2. doomed = {}
        BY <1>1 DEF Inv, RunOK
      <4>3. \A o \in objects : o.path.dir = run.dir => o = CopyOf(run.dir, file)
        BY <1>1, <4>1, <4>2 DEF Inv, MirrorOK
      <4>4. CopyOf(run.dir, file).path.dir = run.dir
        BY DEF CopyOf, PathOf
      <4> QED BY <4>1, <4>3, <4>4 DEF Copies
    <3> QED BY <3>1, <3>2
  <2>2. Copies(run.dir)' = Copies(run.dir)
    BY <1>1 DEF Copies
  <2> QED BY <1>1, <1>2, <2>1, <2>2 DEF Inv, MirrorOK
<1>12. AddOK'
  <2>1. \A q : Uploaded(q)' <=> Uploaded(q)
    BY <1>1 DEF Uploaded, ObjectsAt
  <2> QED BY <1>1, <1>2, <1>7, <1>8, <1>9, <2>1 DEF Inv, AddOK
<1> QED BY <1>6, <1>10, <1>11, <1>12 DEF Inv

LEMMA FinishStep == ASSUME Inv, Finish PROVE Inv'
<1>1. /\ pc = "upload" /\ pc' = "done" /\ InRun /\ InRun' /\ doomed = {} /\ left = {}
      /\ UNCHANGED <<at, unused, content, objects, item, run, prefix, doomed,
                     left, file, runs, halves>>
  BY DEF Finish, disk, cloud, locals, InRun
<1>2. /\ Chosen' = Chosen /\ Replacing' = Replacing
      /\ \A q : Replaces(q)' <=> Replaces(q)
      /\ \A d, g : PathOf(d, g)' = PathOf(d, g) /\ CopyOf(d, g)' = CopyOf(d, g)
  BY <1>1, RunFrame
<1>3. TypeOK' /\ RunOK'
  BY <1>1, <1>2 DEF Inv, TypeOK, RunOK
<1>4. \A f : Past(f)' => Past(f)
  BY <1>1, <1>2 DEF Past
<1>5. ServedOK' /\ AddOK'
  BY <1>1, <1>2, <1>4 DEF Inv, ServedOK, AddOK, Served, Reachable, Uploaded, ObjectsAt
<1>6. MirrorOK'
  BY <1>1, <1>2 DEF Inv, MirrorOK, Copies
<1> QED BY <1>3, <1>5, <1>6 DEF Inv

LEMMA FailStep == ASSUME Inv, Fail PROVE Inv'
<1>1. TypeOK' /\ RunOK'
  BY DefaultAssumption DEF Inv, Fail, TypeOK, RunOK, InRun, disk, cloud
<1> QED
  BY <1>1 DEF Fail, Inv, InRun, ServedOK, MirrorOK, AddOK

LEMMA InvNext == Inv /\ [Next]_vars => Inv'
<1> SUFFICES ASSUME Inv, [Next]_vars PROVE Inv'
  OBVIOUS
<1>1. CASE UNCHANGED vars
  <2>1. /\ UNCHANGED <<at, unused, content, objects, item, pc, run, prefix, doomed,
                       left, file, runs, halves>>
        /\ Chosen' = Chosen /\ Replacing' = Replacing /\ InRun' = InRun
        /\ \A q : Replaces(q)' <=> Replaces(q)
        /\ \A d, g : PathOf(d, g)' = PathOf(d, g) /\ CopyOf(d, g)' = CopyOf(d, g)
        /\ \A d : Copies(d)' = Copies(d)
    BY <1>1, RunFrame DEF vars, InRun, Copies
  <2>2. \A f : /\ Past(f)' <=> Past(f)
               /\ Served(f)' <=> Served(f)
               /\ Reachable(f)' <=> Reachable(f)
    BY <2>1 DEF Past, Served, Reachable, Uploaded, ObjectsAt
  <2>3. \A q : Uploaded(q)' <=> Uploaded(q)
    BY <2>1 DEF Uploaded, ObjectsAt
  <2>4. TypeOK' /\ RunOK'
    BY <2>1 DEF Inv, TypeOK, RunOK
  <2>5. ServedOK' /\ MirrorOK'
    BY <2>1, <2>2 DEF Inv, ServedOK, MirrorOK
  <2>6. AddOK'
    BY <2>1, <2>2, <2>3 DEF Inv, AddOK
  <2> QED BY <2>4, <2>5, <2>6 DEF Inv
<1>2. CASE Next
  BY <1>2, MaintainStep, ToCosStep, RemoveStep, SkipStep, UploadStep, ItemStep,
     FinishStep, FailStep DEF Next, Step
<1> QED BY <1>1, <1>2

LEMMA InvAlways == Spec => []Inv
BY InvInit, InvNext, PTL DEF Spec

-----------------------------------------------------------------------------
(* What follows                                                            *)

\* Every variable keeps its type, and at rest nothing is left to do.
THEOREM TypesHold == Spec => []TypeOK
<1>1. Inv => TypeOK
  BY DEF Inv
<1> QED BY <1>1, InvAlways, PTL

LEMMA AllChosen ==
    ASSUME TypeOK, run.folders = None
    PROVE  Chosen = LocalFiles
BY DEF TypeOK, Chosen, LocalFiles, Selected, Existing

\* What the end of a replace_all over all partitions says of the run's variables.
LEMMA ReplacedAll ==
    ASSUME Inv, Ended({"replace_all"})
    PROVE  /\ pc = "done" /\ InRun /\ Replacing /\ run.type = "replace_all"
           /\ left = {} /\ doomed = {} /\ Chosen = LocalFiles
           /\ \A o \in Copies(run.dir) : \E f \in LocalFiles : o = CopyOf(run.dir, f)
           /\ \A f \in LocalFiles : \E d \in {run.dir, Default} : CopyOf(d, f) \in objects
<1>1. /\ pc = "done" /\ InRun /\ Replacing /\ run.type = "replace_all"
      /\ left = {} /\ doomed = {} /\ Chosen = LocalFiles
  BY AllChosen DEF Ended, Inv, TypeOK, InRun, Replacing
<1>2. \A o \in Copies(run.dir) : \E f \in LocalFiles : o = CopyOf(run.dir, f)
  BY <1>1 DEF Inv, MirrorOK, Copies
<1>3. \A f \in LocalFiles : \E d \in {run.dir, Default} : CopyOf(d, f) \in objects
  BY <1>1 DEF Inv, ServedOK, Past, Served, CopyOf, LocalFiles
<1> QED BY <1>1, <1>2, <1>3

\* replace_all over all partitions makes the default directory an exact copy
\* of the local store.
THEOREM ReplacementMirrors == Spec => []DefaultMirrored
<1>1. ASSUME Inv PROVE DefaultMirrored
  <2> SUFFICES ASSUME Ended({"replace_all"}), run.dir = Default
               PROVE  Copies(Default) = {CopyOf(Default, f) : f \in LocalFiles}
    BY DEF DefaultMirrored
  <2>1. \A d, f : CopyOf(d, f).path.dir = d
    BY DEF CopyOf, PathOf
  <2> QED BY <1>1, <2>1, ReplacedAll DEF Copies
<1> QED BY <1>1, InvAlways, PTL

\* A directory of one's own gets a single file by a replace_all, however many
\* there are: to_stac_item turns the run to the default directory for the
\* others.  ReplaceAllMirrors fails there for every store with two files.
OneFileElsewhere ==
    Ended({"replace_all"}) /\ run.dir # Default /\ LocalFiles # {} =>
        \E f \in LocalFiles : Copies(run.dir) = {CopyOf(run.dir, f)}

THEOREM OwnDirectoryGetsOneFile == Spec => []OneFileElsewhere
<1>1. ASSUME Inv PROVE OneFileElsewhere
  <2> SUFFICES ASSUME Ended({"replace_all"}), run.dir # Default, LocalFiles # {}
               PROVE  \E f \in LocalFiles : Copies(run.dir) = {CopyOf(run.dir, f)}
    BY DEF OneFileElsewhere
  <2>1. pc = "done" /\ InRun /\ run.type = "replace_all" /\ left = {} /\ Chosen = LocalFiles
    BY <1>1, ReplacedAll
  <2>2. prefix # run.dir
    BY <1>1, <2>1 DEF Inv, MirrorOK
  <2>3. PICK f \in LocalFiles : Copies(run.dir) = {CopyOf(run.dir, f)}
    BY <1>1, <2>1, <2>2 DEF Inv, MirrorOK
  <2> QED BY <2>3
<1> QED BY <1>1, InvAlways, PTL

\* After a run over all partitions the items lead to copies of the files.
THEOREM FinishedRunsServe == Spec => []RunsServe
<1>1. ASSUME Inv PROVE RunsServe
  <2>1. \A types : Ended(types) => /\ InRun /\ left = {} /\ Chosen = LocalFiles
                                   /\ \A f \in LocalFiles : Past(f)
    BY <1>1, AllChosen DEF Ended, Inv, TypeOK, InRun, Past
  <2> QED BY <1>1, <2>1
          DEF RunsServe, Ended, Inv, ServedOK, AddOK, Replacing, LocalFiles
<1> QED BY <1>1, InvAlways, PTL

\* What is served stays so until it is replaced or announced elsewhere.
THEOREM ServedFilesStay == Spec => ServedUntilReplaced
<1> DEFINE Lost(f) ==
      Served(f) /\ ~Served(f)' =>
          \/ content'[f] # content[f]
          \/ /\ pc = "upload" /\ Replaces(item[f])
             /\ item'[f] = item[f]
          \/ /\ pc = "item" /\ run.type = "stac_items_only"
             /\ item'[f] # item[f]
<1>1. ASSUME Inv, [Next]_vars, NEW f \in Names
      PROVE  Lost(f)
  <2>1. CASE UNCHANGED cloud
    BY <2>1 DEF Served, cloud
  <2>2. ASSUME NEW p \in doomed, RemoveObject(p)
        PROVE  Lost(f)
    <3>1. Replaces(p)
      BY <1>1, <2>2 DEF Inv, RunOK, InRun, RemoveObject
    <3> QED BY <2>2, <3>1 DEF RemoveObject, Served, ObjectsAt, disk
  <2>3. ASSUME NEW g \in left, Upload(g)
        PROVE  Lost(f)
    <3>1. Served(f) => item[f].name = f
      BY <1>1 DEF Inv, RunOK, Served
    <3>2. PathOf(prefix, g).name = g
      BY DEF PathOf
    <3> QED BY <2>3, <3>1, <3>2 DEF Upload, Served, ObjectsAt, disk
  <2>4. CASE ToStacItem
    <3>1. CASE file # f
      BY <1>1, <2>4, <3>1 DEF ToStacItem, Served, disk, Inv, TypeOK
    <3>2. CASE file = f
      <4>1. item'[f] = PathOf(prefix, f) /\ item \in [Names -> Paths \cup {None}]
        BY <1>1, <2>4, <3>2 DEF ToStacItem, Inv, TypeOK
      <4>2. CASE run.type = "stac_items_only"
        BY <2>4, <4>1, <4>2 DEF ToStacItem, Served, disk
      <4>3. CASE run.type # "stac_items_only"
        <5>1. CopyOf(prefix, f) \in objects
          BY <1>1, <2>4, <3>2, <4>3 DEF ToStacItem, Inv, RunOK
        <5>2. Served(f) /\ item'[f] # None => Served(f)'
          BY <2>4, <4>1, <5>1 DEF ToStacItem, Served, CopyOf, disk
        <5>3. PathOf(prefix, f) # None
          <6>1. at[f] \in Selected(run) /\ run \in Runs
            BY <1>1, <2>4, <3>2 DEF ToStacItem, Inv, RunOK, Chosen, InRun
          <6>2. at[f] \in Folders
            BY <1>1, <6>1, ChoicesAssumption, NoneAssumption
            DEF Inv, TypeOK, Selected, Existing, Runs
          <6> QED BY <1>1, <6>2, NoneAssumption DEF Inv, TypeOK, PathOf, Paths
        <5> QED BY <4>1, <5>2, <5>3
      <4> QED BY <4>2, <4>3
    <3> QED BY <3>1, <3>2
  <2>5. CASE Maintain
    BY <1>1, <2>1, <2>5, MaintainKeepsDisk DEF Inv, TypeOK, DiskOK, AtRest
  <2> QED
    BY <1>1, <2>1, <2>2, <2>3, <2>4, <2>5
    DEF Next, Step, vars, cloud, ToCos, Skip, Finish, Fail
<1>2. Inv /\ [Next]_vars => [\A f \in Names : Lost(f)]_vars
  BY <1>1
<1>3. [][\A f \in Names : Lost(f)]_vars => ServedUntilReplaced
  BY DEF ServedUntilReplaced
<1> QED BY <1>2, <1>3, InvAlways, PTL DEF Spec, ServedUntilReplaced
=============================================================================
