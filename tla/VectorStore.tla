----------------------------- MODULE VectorStore ----------------------------
(***************************************************************************)
(* The vector store of overviews/vectorstore/vectorstore.py: rows kept in  *)
(* GeoParquet files, in one folder per spatial partition.  A partition is  *)
(* a cell of a quadtree and a row belongs under the smallest cell that     *)
(* contains its geometry, its root.                                        *)
(*                                                                         *)
(* One process uploads rows, merges the fragments of a folder (defrag) and *)
(* rebalances the folders (repartition).  Every folder made, removed or    *)
(* renamed and every file written or removed is a step, and the process    *)
(* may die between any two of them or while a file is being written: what  *)
(* is left is a folder without files, with some of its files, or with a    *)
(* truncated one.  Cells are the sequences of quadrants behind the "0q" of *)
(* the code.                                                               *)
(***************************************************************************)
EXTENDS Integers, SequencesExt

CONSTANTS
    Quadrants,     \* 0..3 in the code
    Keys,          \* primary keys, each with a geometry of its own: finitely
                   \* many, for a data frame holds the rows of a batch
    Root,          \* the root of the geometry of each key
    TargetLevel,   \* target_level
    TargetRows,    \* target_rows
    Batches,       \* what one upload may hold: sets of keys
    MaxUploads,    \* bound on the uploads
    MaxCrashes     \* bound on the crashes

ASSUME QuadrantsAssumption == Quadrants \subseteq Nat
ASSUME KeysAssumption == IsFiniteSet(Keys)
ASSUME RootAssumption == Root \in [Keys -> Seq(Quadrants)]
ASSUME BatchesAssumption == \A b \in Batches : b \subseteq Keys /\ b # {}
ASSUME BoundsAssumption ==
    {TargetLevel, TargetRows, MaxUploads, MaxCrashes} \subseteq Nat

VARIABLES
    folders,     \* the folders on disk, by their cells
    files,       \* the files of each folder as sets of rows, oldest first
    broken,      \* folders with a truncated file, which cannot be read
    made,        \* the folder made sure of for the next file
    pc,          \* what the process does
    todo,        \* folders it has still to go through
    batch,       \* the partition of each key being uploaded (df_idx), of
    rest,        \* those still without one (df_count) the cell they are at
    size,        \* and the number of keys counted for it, and
    free,        \* whether any number will do from now on (n_rows = 0)
    trim,        \* the folder whose old fragments are being removed
    src,         \* the folder at hand, and
    frame,       \* the rows read from it (gdf_source)
    level,       \* the level being partitioned, or sharded and split
    counts,      \* df_rows of repartition: pairs of a folder and its rows
    uploads,     \* number of uploads so far, the version of their rows
    crashes,
    newest,      \* history: the last version written of each key, 0 if none
    doomed,      \* history: keys whose rows a crash has lost
    reordered,   \* history: a repartition has begun
    misplaced    \* history: _combine wrote rows of another folder

disk == <<folders, files, broken, made>>
store == <<disk, trim>>
plan == <<batch, rest, size, free>>
locals == <<todo, plan, src, frame, level, counts>>
history == <<newest, doomed, reordered, misplaced>>
vars == <<folders, files, broken, made, pc, todo, batch, rest, size, free, trim,
          src, frame, level, counts, uploads, crashes, newest, doomed,
          reordered, misplaced>>

Cells == UNION {[1..n -> Quadrants] : n \in 0..TargetLevel + 1}
Rows == [key : Keys, ver : 1..MaxUploads]
None == <<-1>>

\* read_parquet of a folder raises on a truncated file and finds no schema
\* when there is no file.
Readable(c) == files[c] # <<>> /\ c \notin broken
Contents(c) == UNION Range(files[c])
Stored == UNION {Contents(c) : c \in Cells}
KeysOf(rows) == {r.key : r \in rows}

Parent(c) == SubSeq(c, 1, Len(c) - 1)
Above(c, d) == IsStrictPrefix(c, d)

UnderOrAbove(rows, c) ==
    {r \in rows : IsPrefix(c, Root[r.key]) \/ IsPrefix(Root[r.key], c)}

\* The rows below cell c: their root starts with it.
Under(rows, c) == {r \in rows : IsPrefix(c, Root[r.key])}

(***************************************************************************)
(* drop_duplicates over the concatenated files keeps the last row of each  *)
(* key: one of the last file that has the key.  A file that was written    *)
(* from several fragments has their rows in the order of the random names  *)
(* of the fragments, so any of its rows with that key may be the last.     *)
(***************************************************************************)
FirstFileOf(fs, k) == Min({i \in DOMAIN fs : k \in KeysOf(fs[i])})
FileOf(fs, k) == Max({i \in DOMAIN fs : k \in KeysOf(fs[i])})

Deduplicated(fs) ==
    LET ks == KeysOf(UNION Range(fs))
        last == UNION {{r \in fs[FileOf(fs, k)] : r.key = k} : k \in ks}
    IN  {m \in SUBSET last : /\ KeysOf(m) = ks
                             /\ \A r, q \in m : r.key = q.key => r = q}

-----------------------------------------------------------------------------
Init ==
    /\ folders = {} /\ files = [c \in Cells |-> <<>>] /\ broken = {} /\ made = None
    /\ pc = "idle" /\ todo = {} /\ trim = None
    /\ batch = <<>> /\ rest = <<>> /\ size = <<>> /\ free = FALSE
    /\ src = None /\ frame = {} /\ level = 0 /\ counts = {}
    /\ uploads = 0 /\ crashes = 0
    /\ newest = [k \in Keys |-> 0]
    /\ doomed = {} /\ reordered = FALSE /\ misplaced = FALSE

\* An operation is over: what it had in memory is of no more use.
Forget ==
    /\ pc' = "idle" /\ todo' = {}
    /\ batch' = <<>> /\ rest' = <<>> /\ size' = <<>> /\ free' = FALSE
    /\ src' = None /\ frame' = {} /\ level' = 0 /\ counts' = {}

FolderDone(c) ==
    IF todo = {c}
    THEN Forget
    ELSE todo' = todo \ {c} /\ UNCHANGED <<pc, plan, src, frame, level, counts>>

\* _to_parquet makes sure of the folder and writes a file of its own to it.
Write(c, rows) ==
    /\ made = c /\ made' = None
    /\ files' = [files EXCEPT ![c] = Append(@, rows)]
    /\ UNCHANGED <<folders, broken>>

\* _defrag writes one file for the folder's files and the extra ones; the
\* files it has read are removed one after the other by RemoveFragment.
Merge(c, extra) ==
    /\ \E merged \in Deduplicated(files[c] \o extra) : Write(c, merged)
    /\ trim' = IF files[c] = <<>> THEN None ELSE c

RemoveFragment ==
    /\ trim # None
    /\ files' = [files EXCEPT ![trim] = Tail(@)]
    /\ trim' = IF Len(files[trim]) = 2 THEN None ELSE trim
    /\ UNCHANGED <<folders, broken, made, pc, locals, uploads, crashes, history>>

\* shutil.rmtree removes the files of the folder at hand, in any order, ...
Erasing == pc \in {"erase_sharded", "erase_split", "combine_erase"}

RemoveFile ==
    /\ Erasing
    /\ \E i \in DOMAIN files[src] : files' = [files EXCEPT ![src] = RemoveAt(@, i)]
    /\ UNCHANGED <<folders, broken, made, trim, pc, locals, uploads, crashes, history>>

\* ... and then the folder.
Erase(c) ==
    /\ files[c] = <<>>
    /\ folders' = folders \ {c}
    /\ UNCHANGED <<files, broken, made>>

-----------------------------------------------------------------------------
(***************************************************************************)
(* partial_upload: create_partitions places the rows of the batch, from    *)
(* the finest level upwards.  The keys of a cell that holds half of        *)
(* target_rows stay there and the others move to the parent; the first     *)
(* level counts each root for itself, the later ones the keys of the cell. *)
(* Once all that is left shares a cell, or at level 0, everything is       *)
(* placed, at level 0 in the longest common prefix.  The assertion that    *)
(* nothing is left after level 0 would leave the operation without a step. *)
(***************************************************************************)
Start(ks) ==
    [k \in ks |-> SubSeq(Root[k], 1, Min({Len(Root[k]), TargetLevel + 1}))]

Upload(b, defrag) ==
    /\ pc = "idle" /\ uploads < MaxUploads
    /\ uploads' = uploads + 1
    /\ rest' = Start(b)
    /\ size' = [k \in b |-> Cardinality({j \in b : Root[j] = Root[k]})]
    /\ level' = Max({Len(Start(b)[k]) : k \in b})
    /\ pc' = IF defrag THEN "place_merged" ELSE "place"
    /\ UNCHANGED <<store, todo, batch, free, src, frame, counts, crashes, history>>

Placing == pc \in {"place", "place_merged"}

CommonCell(ks) ==
    LET common == {c \in Cells : /\ Len(c) <= TargetLevel
                                 /\ \A k \in ks : IsPrefix(c, Root[k])}
    IN  CHOOSE c \in common : \A d \in common : Len(d) <= Len(c)

PlaceLevel ==
    LET here == {k \in DOMAIN rest : Len(rest[k]) = level}
        taken == {k \in here : free \/ level = 0 \/ 2 * size[k] >= TargetRows}
        left == [k \in DOMAIN rest \ taken |->
                    IF k \in here THEN Parent(rest[k]) ELSE rest[k]]
        placed == [k \in taken |-> IF level = 0 THEN CommonCell(here)
                                                ELSE rest[k]]
    IN  /\ Placing /\ level >= 0 /\ DOMAIN rest # {}
        /\ batch' = [k \in taken \cup DOMAIN batch |->
                        IF k \in taken THEN placed[k] ELSE batch[k]]
        /\ rest' = left
        /\ size' = [k \in DOMAIN left |->
                       Cardinality({j \in DOMAIN left : left[j] = left[k]})]
        /\ free' = (free \/ Cardinality(Range(left)) = 1)
        /\ level' = level - 1
        /\ UNCHANGED <<store, pc, todo, src, frame, counts, uploads, crashes,
                       history>>

\* to_parquet: folder by folder the rows are written as a fragment or
\* (defrag) merged with what the folder holds.
Placed ==
    /\ Placing /\ DOMAIN rest = {}
    /\ todo' = Range(batch)
    /\ pc' = IF pc = "place_merged" THEN "upload_merged" ELSE "upload"
    /\ free' = FALSE /\ level' = 0
    /\ UNCHANGED <<store, batch, rest, size, src, frame, counts, uploads,
                   crashes, history>>

\* _filter_partition
PartOf(c) == {[key |-> k, ver |-> uploads] :
                k \in {j \in DOMAIN batch : batch[j] = c}}

Written(c) ==
    /\ FolderDone(c)
    /\ newest' = [k \in Keys |-> IF k \in KeysOf(PartOf(c)) THEN uploads
                                                          ELSE newest[k]]
    /\ doomed' = doomed \ KeysOf(PartOf(c))
    /\ UNCHANGED <<uploads, crashes, reordered, misplaced>>

UploadFragment(c) ==
    /\ pc = "upload" /\ c \in todo
    /\ Write(c, PartOf(c))
    /\ Written(c)
    /\ UNCHANGED trim

UploadMerged(c) ==
    /\ pc = "upload_merged" /\ c \in todo \ broken
    /\ Merge(c, <<PartOf(c)>>)
    /\ Written(c)

\* _defrag raises on a truncated file, before it has written anything.
UploadFails(c) ==
    /\ pc = "upload_merged" /\ c \in todo \cap broken
    /\ pc' = "raised"
    /\ UNCHANGED <<store, locals, uploads, crashes, history>>

-----------------------------------------------------------------------------
\* defrag goes through all folders.
Defrag ==
    /\ pc = "idle" /\ folders # {}
    /\ todo' = folders
    /\ pc' = "defrag"
    /\ UNCHANGED <<store, plan, src, frame, level, counts, uploads, crashes,
                   history>>

DefragFolder(c) ==
    /\ pc = "defrag" /\ c \in todo /\ Readable(c)
    /\ Merge(c, <<>>)
    /\ FolderDone(c)
    /\ UNCHANGED <<uploads, crashes, history>>

\* A truncated file cannot be read, and without files there is no length.
DefragFails(c) ==
    /\ pc = "defrag" /\ c \in todo /\ ~Readable(c)
    /\ pc' = "raised"
    /\ UNCHANGED <<store, locals, uploads, crashes, history>>

-----------------------------------------------------------------------------
(***************************************************************************)
(* repartition: level by level, from the coarsest folder to target_level,  *)
(* each folder of the level is sharded and split.  No folder a source has  *)
(* to look for appears or goes away while its level is processed, so the   *)
(* folders are looked up as they are and not as they were at its start.    *)
(* The loop runs on to max_level, far beyond target_level, and takes the   *)
(* minimum of the levels of the folders at target_level or coarser: that   *)
(* raises when there is no such folder.                                    *)
(***************************************************************************)
Coarse == {c \in folders : Len(c) <= TargetLevel}

Repartition ==
    LET first == Min({Len(c) : c \in Coarse})
    IN  /\ pc = "idle" /\ folders # {}
        /\ reordered' = TRUE
        /\ pc' = "levels"
        /\ level' = IF Coarse = {} THEN TargetLevel ELSE first
        /\ todo' = {c \in Coarse : Len(c) = first}
        /\ UNCHANGED <<store, plan, src, frame, counts, uploads, crashes,
                       newest, doomed, misplaced>>

LevelsFail ==
    /\ pc = "levels" /\ todo = {} /\ Coarse = {}
    /\ pc' = "raised"
    /\ UNCHANGED <<store, locals, uploads, crashes, history>>

NextLevelUnbounded ==
    /\ pc = "levels" /\ todo = {} /\ Coarse # {}
    /\ level' = level + 1
    /\ todo' = {c \in folders : Len(c) = level + 1}
    /\ UNCHANGED <<store, pc, plan, src, frame, counts, uploads, crashes,
                   history>>

NextLevel ==
    /\ pc = "levels" /\ todo = {} /\ Coarse # {} /\ level < TargetLevel
    /\ level' = level + 1
    /\ todo' = {c \in folders : Len(c) = level + 1}
    /\ UNCHANGED <<store, pc, plan, src, frame, counts, uploads, crashes,
                   history>>

NextSource(c) ==
    /\ pc = "levels" /\ c \in todo /\ Readable(c)
    /\ todo' = todo \ {c}
    /\ src' = c /\ frame' = Contents(c)
    /\ pc' = "shard"
    /\ UNCHANGED <<store, plan, level, counts, uploads, crashes, history>>

SourceFails(c) ==
    /\ pc = "levels" /\ c \in todo /\ ~Readable(c)
    /\ pc' = "raised"
    /\ UNCHANGED <<store, locals, uploads, crashes, history>>

\* _shard moves rows to the existing folders below, finest first.
ChildTargets ==
    {c \in folders : /\ Len(c) = Len(src) + 1 /\ Above(src, c)
                      /\ Under(frame, c) # {}}
Targets == {c \in folders : Above(src, c) /\ Under(frame, c) # {}}

ShardTo(c) ==
    /\ pc = "shard"
    /\ c \in Targets /\ \A d \in Targets : Len(d) <= Len(c)
    /\ Write(c, Under(frame, c))
    /\ frame' = frame \ Under(frame, c)
    /\ UNCHANGED <<pc, todo, plan, trim, src, level, counts, uploads,
                   crashes, history>>

\* _split moves rows to a child that holds half of target_rows, or that
\* exists while some rows cannot leave the folder.
KeepPartition == \E r \in frame : Root[r.key] = src
WorthChild(c) ==
    \/ 2 * Cardinality(Under(frame, c)) > TargetRows
    \/ c \in folders /\ Under(frame, c) # {} /\ KeepPartition
WorthChildren == {q \in {Append(src, x) : x \in Quadrants} : WorthChild(q)}

SplitTo(c) ==
    /\ pc = "split" /\ c \in WorthChildren
    /\ Write(c, Under(frame, c))
    /\ frame' = frame \ Under(frame, c)
    /\ UNCHANGED <<pc, todo, plan, trim, src, level, counts, uploads,
                   crashes, history>>

\* Nothing is moved: the folder stays as it is.
ShardNothing ==
    /\ pc = "shard" /\ Targets = {} /\ frame = Contents(src)
    /\ pc' = "split"
    /\ UNCHANGED <<store, locals, uploads, crashes, history>>

Record(n) == counts' = counts \cup {<<src, n>>}

SplitNothing ==
    /\ pc = "split" /\ WorthChildren = {} /\ frame = Contents(src)
    /\ Record(Cardinality(frame))
    /\ pc' = "levels"
    /\ UNCHANGED <<store, todo, plan, src, frame, level, uploads, crashes,
                   history>>

\* Rows were moved: the folder is erased and what is left written again.  A
\* folder emptied by sharding is forgotten, one emptied by splitting recorded.
SomeSharded ==
    /\ pc = "shard" /\ Targets = {} /\ frame # Contents(src)
    /\ pc' = "erase_sharded"
    /\ UNCHANGED <<store, locals, uploads, crashes, history>>

EraseSharded ==
    /\ pc = "erase_sharded"
    /\ Erase(src)
    /\ pc' = IF frame = {} THEN "levels" ELSE "restore_sharded"
    /\ UNCHANGED <<locals, trim, uploads, crashes, history>>

RestoreShardedNot ==
    /\ pc = "restore_sharded"
    /\ pc' = "split"
    /\ UNCHANGED <<locals, store, uploads, crashes, history>>

RestoreSharded ==
    /\ pc = "restore_sharded"
    /\ Write(src, frame)
    /\ pc' = "split"
    /\ UNCHANGED <<locals, trim, uploads, crashes, history>>

SomeSplit ==
    /\ pc = "split" /\ WorthChildren = {} /\ frame # Contents(src)
    /\ pc' = "erase_split"
    /\ UNCHANGED <<store, locals, uploads, crashes, history>>

EraseSplit ==
    /\ pc = "erase_split"
    /\ Erase(src)
    /\ IF frame = {} THEN Record(0) /\ pc' = "levels"
                     ELSE pc' = "restore_split" /\ UNCHANGED counts
    /\ UNCHANGED <<trim, todo, plan, src, frame, level, uploads, crashes,
                   history>>

RestoreSplit ==
    /\ pc = "restore_split"
    /\ Write(src, frame)
    /\ Record(Cardinality(frame))
    /\ pc' = "levels"
    /\ UNCHANGED <<trim, todo, plan, src, frame, level, uploads, crashes,
                   history>>

StartCombine ==
    /\ pc = "levels" /\ todo = {} /\ Coarse # {} /\ level = TargetLevel
    /\ frame' = {} /\ src' = None     \* gdf_source is unbound in _combine
    /\ pc' = "combine"
    /\ UNCHANGED <<store, todo, plan, level, counts, uploads, crashes,
                   history>>

-----------------------------------------------------------------------------
(***************************************************************************)
(* _combine: the finest of the small folders goes to its parent when other *)
(* small folders of its grandparent, or one of its ancestors, are on       *)
(* record.  The records are those of the folders as sources of repartition *)
(* and not of the folders themselves.                                      *)
(***************************************************************************)
Small == {r \in counts : 2 * r[2] <= TargetRows}
FinestSmall ==
    {r \in Small : r[1] # <<>> /\ \A q \in Small : Len(q[1]) <= Len(r[1])}

Grandparent(c) == SubSeq(c, 1, Len(c) - 2)     \* <<>> when there is none
Relatives(c) ==
    {r \in counts :
        /\ r[1] # c
        /\ \/ r \in Small /\ IsPrefix(Grandparent(c), r[1])
           \/ Above(r[1], c)}

CombineDone ==
    /\ pc = "combine" /\ FinestSmall = {}
    /\ Forget
    /\ UNCHANGED <<store, uploads, crashes, history>>

CombineAloneStays(c) ==
    /\ pc = "combine" /\ c \in {r[1] : r \in FinestSmall}
    /\ Relatives(c) = {}
    /\ UNCHANGED <<store, pc, todo, plan, src, frame, level, uploads,
                   counts, crashes, history>>

CombineAlone(c) ==
    /\ pc = "combine" /\ c \in {r[1] : r \in FinestSmall}
    /\ Relatives(c) = {}
    /\ counts' = {r \in counts : r[1] # c}
    /\ UNCHANGED <<store, pc, todo, plan, src, frame, level, uploads,
                   crashes, history>>

RenameFolder(c, d) ==
    /\ folders' = (folders \ {c}) \cup {d}
    /\ files' = [files EXCEPT ![d] = files[c], ![c] = <<>>]
    /\ UNCHANGED <<broken, made>>

CombineRenameOnDisk(c) ==
    /\ pc = "combine" /\ c \in {r[1] : r \in FinestSmall}
    /\ Relatives(c) # {} /\ Parent(c) \notin folders /\ c \in folders
    /\ RenameFolder(c, Parent(c))
    /\ UNCHANGED <<trim, pc, locals, uploads, crashes, history>>

\* The parent has no folder: the folder is renamed.
CombineRename(c) ==
    /\ pc = "combine" /\ c \in {r[1] : r \in FinestSmall}
    /\ Relatives(c) # {} /\ Parent(c) \notin folders /\ c \in folders
    /\ RenameFolder(c, Parent(c))
    /\ counts' = {<<IF r[1] = c THEN Parent(c) ELSE r[1], r[2]>> : r \in counts}
    /\ UNCHANGED <<trim, pc, todo, plan, src, frame, level, uploads, crashes,
                   history>>

\* The parent has a folder: the rows are merged into it, the folder erased.
\* Both have been read when their levels were gone through.
CombineMerge(c) ==
    /\ pc = "combine" /\ c \in {r[1] : r \in FinestSmall}
    /\ Relatives(c) # {} /\ {c, Parent(c)} \subseteq folders
    /\ Readable(c) /\ Readable(Parent(c))
    /\ src' = c /\ frame' = Contents(c)
    /\ Merge(Parent(c), <<Contents(c)>>)
    /\ pc' = "combine_erase"
    /\ UNCHANGED <<todo, plan, level, counts, uploads, crashes, history>>

CombineErase ==
    /\ pc = "combine_erase"
    /\ Erase(src)
    /\ \E r \in counts :
          /\ r[1] = src
          /\ counts' = {<<q[1], IF q[1] = Parent(src) THEN q[2] + r[2] ELSE q[2]>> :
                           q \in {p \in counts : p[1] # src}}
    /\ pc' = "combine"
    /\ UNCHANGED <<trim, todo, plan, src, frame, level, uploads, crashes,
                   history>>

\* The folder on record does not exist.  The rename, or the removal of the
\* folder, raises; before the latter the rows last read, if any, are merged
\* into the parent.
CombineFails(c) ==
    /\ pc = "combine" /\ c \in {r[1] : r \in FinestSmall}
    /\ Relatives(c) # {} /\ c \notin folders
    /\ Parent(c) \notin folders \/ frame = {}
    /\ pc' = "raised"
    /\ UNCHANGED <<store, locals, uploads, crashes, history>>

CombineMisplaces(c) ==
    /\ pc = "combine" /\ c \in {r[1] : r \in FinestSmall}
    /\ Relatives(c) # {} /\ c \notin folders
    /\ Parent(c) \in folders /\ frame # {}
    /\ Merge(Parent(c), <<frame>>)
    /\ misplaced' = TRUE
    /\ pc' = "raised"
    /\ UNCHANGED <<locals, uploads, crashes, newest, doomed, reordered>>

-----------------------------------------------------------------------------
\* The folder a file is to be written to next ...
NextFile(c) ==
    \/ pc = "upload" /\ c \in todo
    \/ pc = "upload_merged" /\ c \in todo \ broken
    \/ pc = "defrag" /\ c \in todo /\ Readable(c)
    \/ pc = "shard" /\ c \in Targets /\ \A d \in Targets : Len(d) <= Len(c)
    \/ pc = "split" /\ c \in WorthChildren
    \/ pc \in {"restore_sharded", "restore_split"} /\ c = src
    \/ /\ pc = "combine" /\ c \in folders
       /\ \E d \in {r[1] : r \in FinestSmall} :
             Relatives(d) # {} /\ c = Parent(d) /\ (d \in folders \/ frame # {})

\* ... is made if it does not exist (os.makedirs).
MakeFolder(c) ==
    /\ NextFile(c)
    /\ made' = c /\ folders' = folders \cup {c}
    /\ UNCHANGED <<files, broken, trim, pc, locals, uploads, crashes, history>>

-----------------------------------------------------------------------------
\* The caller of an operation that raised goes on.
Recover ==
    /\ pc = "raised"
    /\ Forget
    /\ UNCHANGED <<store, uploads, crashes, history>>

\* The process dies and is started again: only the disk is left, with a
\* truncated file if one was being written.
Rewriting ==
    pc \in {"erase_sharded", "restore_sharded", "erase_split", "restore_split"}

Crash ==
    /\ pc # "idle" \/ trim # None
    /\ crashes < MaxCrashes
    /\ crashes' = crashes + 1
    /\ Forget
    /\ broken' \in {broken, broken \cup ({made} \ {None})}
    /\ made' = None /\ trim' = None
    /\ doomed' = IF Rewriting
                 THEN doomed \cup (KeysOf(frame) \ KeysOf(Stored))
                 ELSE doomed
    /\ UNCHANGED <<folders, files, uploads, newest, reordered, misplaced>>

\* Steps that write a file, ...
WriteFile(c) ==
    \/ UploadFragment(c) \/ UploadMerged(c) \/ DefragFolder(c)
    \/ ShardTo(c) \/ SplitTo(c) \/ RestoreSharded \/ RestoreSplit
    \/ CombineMerge(c) \/ CombineMisplaces(c)

\* ... and all others.
Proceed(c) ==
    \/ MakeFolder(c)
    \/ UploadFails(c) \/ DefragFails(c) \/ NextSource(c) \/ SourceFails(c)
    \/ CombineAlone(c) \/ CombineRename(c) \/ CombineFails(c)
    \/ PlaceLevel \/ Placed
    \/ NextLevel \/ LevelsFail
    \/ ShardNothing \/ SomeSharded \/ EraseSharded
    \/ SplitNothing \/ SomeSplit \/ EraseSplit
    \/ StartCombine \/ CombineErase \/ CombineDone
    \/ RemoveFile \/ Recover

Work ==
    \/ RemoveFragment
    \/ trim = None /\ \E c \in Cells : WriteFile(c)
    \/ trim = None /\ made = None /\ \E c \in Cells : Proceed(c)

Next ==
    \/ Work
    \/ /\ trim = None /\ made = None
       /\ \/ \E b \in Batches, defrag \in BOOLEAN : Upload(b, defrag)
          \/ Defrag \/ Repartition
    \/ Crash

\* An operation that has begun goes on, unless the process dies.
Spec == Init /\ [][Next]_vars /\ WF_vars(Work)

-----------------------------------------------------------------------------
\* Every variable stays in its domain: folders hold rows, the level never
\* passes target_level, the records pair folders with numbers of rows.
TypeOK ==
    /\ folders \subseteq Cells /\ files \in [Cells -> Seq(SUBSET Rows)]
    /\ broken \subseteq Cells /\ made \in Cells \cup {None}
    /\ pc \in {"idle", "place", "place_merged", "upload", "upload_merged",
               "defrag", "levels", "shard", "erase_sharded", "restore_sharded",
               "split", "erase_split", "restore_split", "combine",
               "combine_erase", "raised"}
    /\ todo \subseteq Cells /\ frame \subseteq Rows
    /\ DOMAIN batch \subseteq Keys /\ Range(batch) \subseteq Cells
    /\ DOMAIN rest \subseteq Keys /\ Range(rest) \subseteq Cells
    /\ DOMAIN size = DOMAIN rest /\ Range(size) \subseteq Nat
    /\ free \in BOOLEAN
    /\ trim \in Cells \cup {None} /\ src \in Cells \cup {None}
    /\ level \in IF Placing THEN -1..TargetLevel + 1 ELSE 0..TargetLevel
    /\ \A r \in counts : r[1] \in Cells /\ r[2] \in Nat
    /\ uploads \in 0..MaxUploads /\ crashes \in 0..MaxCrashes
    /\ newest \in [Keys -> 0..MaxUploads] /\ doomed \subseteq Keys
    /\ reordered \in BOOLEAN /\ misplaced \in BOOLEAN

\* No operation loses a key that was written: it is in some folder, in the
\* rows about to be written again to a folder being erased, or it was lost
\* when the process died in that window, the only one in which it can be.
KeysAreSafe ==
    \A k \in Keys :
        newest[k] > 0 => \/ k \in KeysOf(Stored)
                         \/ Rewriting /\ k \in KeysOf(frame)
                         \/ k \in doomed

\* Queries read only the folders of the cells around the area they ask for:
\* every row is in a folder above (or at) its root, whatever was merged,
\* split, renamed or interrupted (except for the rows _combine misplaces
\* just before it raises).
RowsInTheirPartition ==
    ~misplaced =>
        \A c \in folders : \A r \in Contents(c) : IsPrefix(c, Root[r.key])

\* Uploads and defrags, with or without fragments and interrupted anywhere,
\* never drop the last version of a key (until a repartition, which does
\* not keep the order of the versions, see LatestVersionIsKept).
DefragKeepsNewest ==
    ~reordered =>
        \A k \in Keys :
            newest[k] > 0 => [key |-> k, ver |-> newest[k]] \in Stored

\* "assure latest version of record is kept" (vectorstore.py:1258): whatever
\* was done, the store holds the last version of every key it has.
LatestVersionIsKept ==
    pc = "idle" =>
        \A k \in Keys \ doomed :
            newest[k] > 0 => [key |-> k, ver |-> newest[k]] \in Stored

\* When repartition has gone through the levels, every row lies in the
\* finest folder there is for it.
ShardedDeepest ==
    pc = "levels" /\ todo = {} /\ level = TargetLevel =>
        \A c, d \in folders : Above(c, d) => Under(Contents(c), d) = {}

\* An operation raises for one of three reasons: no folder is at target_level
\* or coarser, a folder that splitting emptied is still on record, or a crash
\* has left a folder to be read without files or with a truncated one.
RaisesForAReason ==
    pc = "raised" => \/ Coarse = {}
                     \/ \E r \in counts : r[2] = 0 /\ r[1] \notin folders
                     \/ crashes > 0 /\ \E c \in todo \cap folders : ~Readable(c)

\* "Initialize partition key with root at target_level+1 so maximum partition
\* becomes target_level" (vectorstore.py:449): no key is placed in a finer
\* cell.
PartitionsWithinTarget == \A k \in DOMAIN batch : Len(batch[k]) <= TargetLevel

\* Every operation ends.
OperationsEnd == pc # "idle" ~> pc = "idle"
=============================================================================
