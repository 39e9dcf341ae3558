------------------------------- MODULE HsiRuns ------------------------------
(***************************************************************************)
(* The Hierarchical Spatial Index of overviews/hierarchical_spatial_index: *)
(* a run searches the STAC items of a collection and computes, with one    *)
(* hsi_worker per partition (a spatial cell and, where asked for, a year,  *)
(* month or day), statistics of every timestamp. A worker                  *)
(*   - fetches the partition's parquet file from the bucket, if there is   *)
(*     one, to know the timestamps it can skip,                            *)
(*   - downloads the raster files of each other timestamp to a directory   *)
(*     all workers share, loads them and removes them,                     *)
(*   - writes the parquet file locally, uploads it, and describes the      *)
(*     uploaded file in a STAC item.                                       *)
(*                                                                         *)
(* Workers are processes of one pool: they run in parallel, any of them    *)
(* may die, and local files outlive them. Requests to the object store may *)
(* fail. The raster files are what the model keeps of the data: a row of   *)
(* a parquet file is a timestamp and the file its pixels came from.        *)
(***************************************************************************)
EXTENDS Naturals, FiniteSets, Sequences

CONSTANTS
    Partitions,   \* elements_lst
    Items,        \* raster files, each with the STAC item that names it
    Timestamps,   \* epochs (and other dimension values), in order
    TimesOf,      \* item -> its timestamps: one, or a range with a step
    Touches,      \* item -> the partitions its bounding box intersects
    Covers,       \* item -> the partitions it has valid pixels in
    MaxRuns,      \* bound on the number of runs
    MaxCrashes,   \* bound on the workers that die
    MaxFailures   \* bound on the requests that fail

ASSUME TimestampsAssumption == Timestamps \subseteq Nat
ASSUME ItemsAssumption ==
    /\ TimesOf \in [Items -> SUBSET Timestamps]
    /\ Touches \in [Items -> SUBSET Partitions]
    /\ Covers \in [Items -> SUBSET Partitions]
    /\ \A i \in Items : Covers[i] \subseteq Touches[i]
ASSUME BoundsAssumption == MaxRuns \in Nat /\ MaxCrashes \in Nat /\ MaxFailures \in Nat

VARIABLES
    published,  \* items in the STAC collection of the raw data
    meta,       \* gdf_local_meta: the items this run found
    skip,       \* skip_existing of this run
    pc,         \* where each worker is
    todo,       \* timestamps a worker has yet to look at
    got,        \* files it has downloaded for the present one and not yet removed
    rows,       \* df_stats, what it has computed so far
    local,      \* parquet file on the local disk, complete or torn
    remote,     \* rows of the parquet file in the bucket (none: no file)
    json,       \* first and last timestamp of the partition's STAC item
    tmp,        \* files in tmp_directory
    runs, crashes, failures,
    recomputed  \* history: some run has not skipped what exists

shared == <<published, meta, skip, runs, recomputed>>
memory == <<todo, got, rows>>
faults == <<crashes, failures>>
results == <<local, remote, json>>
vars == <<published, meta, skip, pc, todo, got, rows, local, remote, json, tmp,
          runs, crashes, failures, recomputed>>

Ended == {"done", "failed", "dead"}
Steps == {"none", "fetch", "read", "times", "load", "clean", "remove", "write", "upload",
          "register"} \cup Ended

Rows == Timestamps \X Items
NoFile == [torn |-> FALSE, rows |-> {}]
TornFile == [torn |-> TRUE, rows |-> {}]
Whole(r) == [torn |-> FALSE, rows |-> r]
TimesIn(r) == {x[1] : x \in r}
Extent(ts) == {t \in ts : (\A u \in ts : t <= u) \/ (\A u \in ts : u <= t)}

Init ==
    /\ published = {} /\ meta = {}
    /\ skip = TRUE
    /\ pc = [p \in Partitions |-> "none"]
    /\ todo = [p \in Partitions |-> {}]
    /\ got = [p \in Partitions |-> <<>>]
    /\ rows = [p \in Partitions |-> {}]
    /\ local = [p \in Partitions |-> NoFile]
    /\ remote = [p \in Partitions |-> {}]
    /\ json = [p \in Partitions |-> {}]
    /\ tmp = {}
    /\ runs = 0 /\ crashes = 0 /\ failures = 0
    /\ recomputed = FALSE

\* The files and timestamps a worker is concerned with.
FilesOf(p, t) == {i \in meta : p \in Touches[i] /\ t \in TimesOf[i]}
Queried(p) == UNION {TimesOf[i] : i \in {j \in meta : p \in Touches[j]}}
Current(p) == CHOOSE t \in todo[p] : \A u \in todo[p] : t <= u

\* elements_lst: the partitions some item overlaps.
Elements == {p \in Partitions : \E i \in published : p \in Touches[i]}

Goto(p, step) == pc' = [pc EXCEPT ![p] = step]

\* A worker returns, raises or dies, and its memory with it.
Exit(p, how) ==
    /\ Goto(p, how)
    /\ todo' = [todo EXCEPT ![p] = {}]
    /\ got' = [got EXCEPT ![p] = <<>>]
    /\ rows' = [rows EXCEPT ![p] = {}]

-----------------------------------------------------------------------------
(* Faults seeded for mutation runs: none of them is part of Next.          *)

\* The file in the bucket is not fetched over a local one.
FetchedIfMissing(p) == IF local[p] = NoFile THEN Whole(remote[p]) ELSE local[p]

\* The rows of the file there are overwritten although timestamps were skipped.
Overwritten(p) == rows[p]

\* The item describes what the run was asked for, not what is in the file.
DescribedQuery(p) == Extent(Queried(p))

\* The loop goes over the same timestamp again.
SameTimes(p) == todo[p]

-----------------------------------------------------------------------------
(* Runs                                                                    *)

\* Raw data arrive at the collection at any time.
Publish(i) ==
    /\ i \notin published
    /\ published' = published \cup {i}
    /\ UNCHANGED <<meta, skip, pc, memory, results, tmp, runs, faults, recomputed>>

\* HSI(): the search fixes the items and the partitions of the run. The
\* constructor raises when the search finds nothing.
Search(flag) ==
    /\ runs < MaxRuns
    /\ \A p \in Partitions : pc[p] \in Ended \cup {"none"}
    /\ published # {}
    /\ meta' = published
    /\ skip' = flag
    /\ runs' = runs + 1
    /\ recomputed' = (recomputed \/ ~flag)
    /\ pc' = [p \in Partitions |-> IF p \in Elements THEN "fetch" ELSE "none"]
    /\ UNCHANGED <<published, memory, results, tmp, faults>>

-----------------------------------------------------------------------------
(* hsi_worker                                                              *)

Fetched(p) == IF remote[p] # {} THEN Whole(remote[p]) ELSE local[p]

\* Without a file in the bucket a local one stays.
Fetch(p) ==
    /\ pc[p] = "fetch"
    /\ local' = [local EXCEPT ![p] = IF skip THEN Fetched(p) ELSE @]
    /\ Goto(p, "read")
    /\ UNCHANGED <<shared, memory, remote, json, tmp, faults>>

\* df_existing and the timestamps left. A torn file is not an IOError.
ReadExisting(p) ==
    /\ pc[p] = "read"
    /\ IF skip /\ local[p].torn
         THEN Exit(p, "failed")
         ELSE /\ todo' = [todo EXCEPT ![p] =
                    IF skip THEN Queried(p) \ TimesIn(local[p].rows) ELSE Queried(p)]
              /\ Goto(p, "times") /\ UNCHANGED <<got, rows>>
    /\ UNCHANGED <<shared, results, tmp, faults>>

\* _setup_xarray_cos: all files of a timestamp are downloaded, in the order the
\* search returned them, before the first is loaded.
Download(p, i) ==
    /\ pc[p] = "times" /\ todo[p] # {}
    /\ i \in FilesOf(p, Current(p))
    /\ \A k \in DOMAIN got[p] : got[p][k] # i
    /\ got' = [got EXCEPT ![p] = Append(@, i)]
    /\ tmp' = tmp \cup {i}
    /\ Goto(p, IF Len(got'[p]) = Cardinality(FilesOf(p, Current(p))) THEN "load" ELSE "times")
    /\ UNCHANGED <<shared, todo, rows, results, faults>>

\* Only the first file counts: the result of fillna is not kept.
Computed(p) ==
    IF /\ Len(got[p]) = Cardinality(FilesOf(p, Current(p)))
       /\ p \in Covers[Head(got[p])]
      THEN {<<Current(p), Head(got[p])>>} ELSE {}

Load(p) ==
    /\ pc[p] = "load"
    /\ Head(got[p]) \in tmp
    /\ rows' = [rows EXCEPT ![p] = @ \cup Computed(p)]
    /\ Goto(p, "clean")
    /\ UNCHANGED <<shared, todo, got, results, tmp, faults>>

\* Another worker has removed the file of the same name: before it could be
\* loaded, or after it was seen to be there and before it could be removed.
FileIsGone(p) ==
    /\ pc[p] \in {"load", "remove"}
    /\ Head(got[p]) \notin tmp
    /\ Exit(p, "failed")
    /\ UNCHANGED <<shared, results, tmp, faults>>

TimesLeft(p) == todo[p] \ {Current(p)}

\* On to the next file of the timestamp, or to the next timestamp.
NextFile(p) ==
    /\ got' = [got EXCEPT ![p] = Tail(@)]
    /\ IF Len(got[p]) > 1
         THEN Goto(p, "load") /\ UNCHANGED todo
         ELSE Goto(p, "times") /\ todo' = [todo EXCEPT ![p] = TimesLeft(p)]
    /\ UNCHANGED <<shared, rows, results, faults>>

\* The file is removed if it was still there when the worker looked.
FindFile(p) ==
    /\ pc[p] = "clean"
    /\ Head(got[p]) \in tmp
    /\ Goto(p, "remove")
    /\ UNCHANGED <<shared, memory, results, tmp, faults>>

SkipRemoval(p) ==
    /\ pc[p] = "clean"
    /\ Head(got[p]) \notin tmp
    /\ NextFile(p)
    /\ UNCHANGED tmp

Clean(p) ==
    /\ pc[p] = "remove"
    /\ Head(got[p]) \in tmp
    /\ tmp' = tmp \ {Head(got[p])}
    /\ NextFile(p)

\* hsi_statistics returns found_something.
AllTimesSeen(p) ==
    /\ pc[p] = "times" /\ todo[p] = {}
    /\ IF rows[p] = {} THEN Exit(p, "done") ELSE Goto(p, "write") /\ UNCHANGED memory
    /\ UNCHANGED <<shared, results, tmp, faults>>

Appended(p) == local[p].rows \cup rows[p]

\* to_parquet appends to the local file, or replaces it without skip_existing.
Write(p) ==
    /\ pc[p] = "write"
    /\ local' = [local EXCEPT ![p] = Whole(IF skip THEN Appended(p) ELSE rows[p])]
    /\ Goto(p, "upload")
    /\ UNCHANGED <<shared, memory, remote, json, tmp, faults>>

Upload(p) ==
    /\ pc[p] = "upload"
    /\ remote' = [remote EXCEPT ![p] = local[p].rows]
    /\ Goto(p, "register")
    /\ UNCHANGED <<shared, memory, local, json, tmp, faults>>

\* register_hsi_items_stac reads the uploaded file.
Described(p) == Extent(TimesIn(remote[p]))

Register(p) ==
    /\ pc[p] = "register"
    /\ json' = [json EXCEPT ![p] = Described(p)]
    /\ Exit(p, "done")
    /\ UNCHANGED <<shared, local, remote, tmp, faults>>

-----------------------------------------------------------------------------
(* What goes wrong                                                         *)

\* A request to the object store fails: of a raster file, on which
\* _setup_xarray_cos returns None and its caller cannot unpack it, or of the
\* worker's own parquet file. Either way the exception ends the worker.
RequestFails(p) ==
    /\ failures < MaxFailures
    /\ \/ pc[p] = "fetch" /\ skip
       \/ pc[p] = "times" /\ todo[p] # {}
       \/ pc[p] \in {"upload", "register"}
    /\ failures' = failures + 1
    /\ Exit(p, "failed")
    /\ UNCHANGED <<shared, results, tmp, crashes>>

\* A worker dies; a file it was writing may be torn.
Crash(p) ==
    /\ crashes < MaxCrashes
    /\ pc[p] \notin Ended \cup {"none"}
    /\ crashes' = crashes + 1
    /\ Exit(p, "dead")
    /\ \/ UNCHANGED local
       \/ /\ pc[p] = "write" \/ (pc[p] = "fetch" /\ skip /\ remote[p] # {})
          /\ local' = [local EXCEPT ![p] = TornFile]
    /\ UNCHANGED <<shared, remote, json, tmp, failures>>

-----------------------------------------------------------------------------
Work(p) ==
    \/ Fetch(p) \/ ReadExisting(p)
    \/ \E i \in Items : Download(p, i)
    \/ Load(p) \/ FileIsGone(p) \/ FindFile(p) \/ SkipRemoval(p) \/ Clean(p)
    \/ AllTimesSeen(p) \/ Write(p) \/ Upload(p) \/ Register(p)

Next ==
    \/ \E i \in Items : Publish(i)
    \/ \E flag \in BOOLEAN : Search(flag)
    \/ \E p \in Partitions : Work(p) \/ RequestFails(p) \/ Crash(p)

Spec == Init /\ [][Next]_vars /\ \A p \in Partitions : WF_vars(Work(p))

-----------------------------------------------------------------------------
(* Properties                                                              *)

\* Every variable stays in its range; only complete files have rows.
TypeOK ==
    /\ published \subseteq Items /\ meta \subseteq published
    /\ skip \in BOOLEAN /\ recomputed \in BOOLEAN
    /\ pc \in [Partitions -> Steps]
    /\ todo \in [Partitions -> SUBSET Timestamps]
    /\ got \in [Partitions -> Seq(Items)]
    /\ rows \in [Partitions -> SUBSET Rows]
    /\ local \in [Partitions -> [torn : BOOLEAN, rows : SUBSET Rows]]
    /\ \A p \in Partitions : local[p].torn => local[p].rows = {}
    /\ remote \in [Partitions -> SUBSET Rows]
    /\ json \in [Partitions -> SUBSET Timestamps]
    /\ tmp \subseteq Items
    /\ runs \in 0..MaxRuns /\ crashes \in 0..MaxCrashes /\ failures \in 0..MaxFailures

\* The extent a partition's STAC item announces begins and ends at timestamps the
\* file in the bucket has, whenever a worker dies or an upload fails and whichever
\* runs follow. This holds while all runs skip what exists: one that computes
\* everything anew may lose a timestamp and die before it registers the rest.
RegisteredIsServed ==
    ~recomputed => \A p \in Partitions : json[p] \subseteq TimesIn(remote[p])

\* A run that skips what exists never takes a row away from the file in the
\* bucket, although it replaces the file: the local copy it extends is never
\* behind the bucket, whatever earlier runs have left on the disk.
ServedRowsStay == [][skip' => \A p \in Partitions : remote[p] \subseteq remote'[p]]_remote

\* A file a run wrote but never uploaded, with none in the bucket to replace it.
Stranded(p) == remote[p] = {} /\ local[p].rows # {}

\* A worker that ends normally leaves every timestamp of its items in the bucket,
\* also those an earlier worker computed and lost, with two exceptions: files
\* without valid pixels in the partition, one of which may come first and hide
\* the others of its timestamp, and a first file that was never uploaded and now
\* counts as existing.
FinishedIsIndexed ==
    \A p \in Partitions : pc[p] = "done" =>
        \/ Stranded(p)
        \/ \A t \in Queried(p) :
             \/ t \in TimesIn(remote[p])
             \/ \E i \in FilesOf(p, t) : p \notin Covers[i]

\* Every worker ends, also when others take its files away.
WorkersEnd == \A p \in Partitions : pc[p] = "fetch" ~> pc[p] \in Ended
=============================================================================
