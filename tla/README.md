# TLA+ models of tensorlakehouse

These modules describe the concurrent and the crash-prone parts of
tensorlakehouse, an openEO backend for geospatial data: the job registers of its
two web applications, the loading of a collection with the ingestion pipelines it may
trigger, and the stores of vector data and of raster statistics in `overviews/`
with the quadtree they rest on. TLC checks them on small instances; TLAPS proves the
invariants of the two job modules, of the pipelines, of the loading of a collection,
of the vector store with its copy in the bucket, and of the index, for every size of
them.

Paths below are relative to the root of the repository;
`driver/` abbreviates `tensorlakehouse_openeo_driver/`.

## The system

| Part | Source | State it keeps | Talks to |
|---|---|---|---|
| FastAPI application | `openeo_fastapi_app/app.py`, `auth.py`, `settings.py`, `processes.py` | none | job register, catalogue |
| Job register | `openeo_fastapi_app/jobs.py` | `_JOB_STORE`, `_JOB_FUTURES`, a lock, a thread pool | process graph executor (threads) |
| openEO driver backend | `driver/tensorlakehouse_backend.py`, `local_app.py` | per-process dictionary of user-defined processes | Celery jobs, catalogue |
| Celery batch jobs | `driver/batch_jobs.py`, `tasks.py`, `celeryconfig.py` | rows in the Redis result backend, messages in the Redis broker, files in a bucket | workers, through the broker |
| Process evaluation | `driver/processes.py`, `processing.py`, `save_result.py`, `udf.py` | none (xarray values) | `load_collection` |
| load_collection | `driver/process_implementations/load_collection.py` | none | pipelines, STAC search, file readers |
| Ingestion pipelines | `driver/pipeline/` | rows in the tables `tasks` and `downloads`; runs in Kubeflow | an ingestion service, Kubeflow |
| Catalogue, STAC clients | `driver/catalog.py`, `driver/stac/`, `openeo_fastapi_app/collections.py` | none (a STAC server) | STAC server |
| Data model, geometry | `driver/model/`, `driver/geospatial_utils.py` | none | - |
| File readers | `driver/file_reader/`, `driver/util/` | none | object store |
| Vector store | `overviews/vectorstore/vectorstore.py` | GeoParquet files in one folder per quadtree cell | object store, STAC |
| Hierarchical spatial index | `overviews/hierarchical_spatial_index/` | local parquet files, their copies in a bucket, item files, a directory for downloads | STAC, object store |
| Quadtree and grids | `overviews/qtree_index/` | none | - |
| Earlier overviews | `overviews/old/` | superseded copies | - |

What each must get right, and what makes that hard:

- **Job register.** Request handlers run on threads of the web server, process
  graphs on a pool of four. Some accesses to the shared records take
  `_STORE_LOCK`, some do not. A job may be started twice, cancelled between two
  steps of a worker, changed or deleted while it is queued or runs. It must not
  stay "running" with nobody working on it, a run must report once and to its own
  job, a deleted job must stay deleted, and an outcome must be complete when seen.
- **Celery jobs.** API and workers share only Redis. Messages are acknowledged
  late, so a crash or a run longer than the visibility timeout means a second
  run. `start_job` and `get_job_info` make several round trips each. Every result
  named must exist, a row must be coherent, and a job must not be forgotten.
- **Ingestion pipelines.** A request compares two catalogues, inserts tasks for
  what is missing and polls until another service has processed them. Requests
  overlap, insertions fail silently, lists shrink while they are enumerated.
  No missing item may be forgotten silently and every wait must end.
- **Vector store.** Uploading, merging fragments and rebalancing rewrite many
  files one by one, and may die between any two. Rows must not be lost, must stay
  under the cells queries look in, and the newest version of a key must win. The
  copy in the bucket is made file by file, from a store whose files change their
  names and folders between two copies; it must follow them, and must not withdraw
  what is served without putting something in its place.
- **Hierarchical spatial index.** Parallel workers reuse what earlier runs left
  locally and in the bucket. What is announced must be served, what is served must
  stay, and what was seen must be indexed in the end.
- **load_collection and the file readers.** Items arrive while the request waits,
  come back from the search in any order, and are regrouped twice before they are
  put on a temporal axis. Nothing ingested may be missed, and an image must appear
  at its own band and time, once.
- **Quadtree and partitions** (`qtree_index/`): keys, boxes and neighbouring levels
  are computed by formulas of their own and must agree; partitions are planned by
  splitting while counting. No part of a geometry may be lost or stored twice.
- **Other pure code** (`model/`, `geospatial_utils.py`): dimension merges, boxes
  across a meridian, binary searches. The hazards are boundaries, not
  interleavings.

## Modules

| Module | Models |
|---|---|
| `JobsRegister` | `openeo_fastapi_app/jobs.py`, thread by thread |
| `JobLedger` | what the register promises: an atomic ledger of jobs and runs |
| `JobsRegisterProofs` | proofs |
| `BatchJobs` | `driver/batch_jobs.py`, `tasks.py`, and Celery with Redis as these configure it |
| `BatchJobsProofs` | proofs |
| `SentinelPipeline`, `MCSentinelPipeline` | the database pipelines of Sentinel-1 and Sentinel-2 L2A |
| `SentinelPipelineProofs` | proofs |
| `KfpRuns` | the Kubeflow pipelines of HLS and Sentinel-2 L1C |
| `LoadCollection`, `MCLoadCollection` | `load_collection`, the search, the grouping of items and the readers of COG, NetCDF and Zarr files, on top of `KfpRuns` |
| `LoadCollectionProofs` | proofs about `KfpRuns` and `LoadCollection` |
| `TimeFilter` | `filter_by_time` of `driver/geospatial_utils.py` and the binary searches it uses |
| `VectorStore`, `MCVectorStore` | uploads, defrag and repartition of the vector store |
| `VectorStoreProofs` | proofs |
| `CloudStore`, `MCCloudStore` | the copy of the vector store in the bucket and its STAC items |
| `CloudStoreProofs` | proofs |
| `HsiRuns`, `MCHsiRuns` | runs of the index over the partitions of a collection |
| `HsiRunsProofs` | proofs |
| `Quadtree` | Morton keys and the quadtree of a geometry: `overviews/qtree_index/qtree.py`, `mortoncurve.py` |
| `SpatialPartition`, `MCSpatialPartition` | the planning of partitions, `overviews/qtree_index/partition.py`, with a `Quadtree` for every row |
| `SpatialPartitionProofs` | proofs about `Quadtree` and `SpatialPartition` |

`LoadCollection` composes the evaluation of a request with the pipelines it waits
for and the catalogue both use; `SpatialPartition` composes the planning with the
trees. Otherwise the specifications are separate because the components share no
state: the job modules take the outcome of a process graph as a choice, the
database pipelines compare and wait by their tables alone, and the overview
stores are maintained offline. `CloudStore` takes the operations of the local
vector store as single steps, for what they do to its files; `VectorStore` has
their details.

### JobsRegister

`inStore` is the key set of `_JOB_STORE`; `status`, `results`, `logs` and
`process` are the fields of the record dictionaries, which a handler that looked
one up keeps alive after it was removed from the store. `registered` is
`_JOB_FUTURES`. `fstate`, `fjob`, `fgraph` and `queue` are the futures and the
work queue of the executor. A handler is one action where it holds the lock or
touches shared state once, and is split wherever another thread can act between
two of its accesses: `start_job` looks the job up, submits, registers the future;
`cancel_job` looks it up, cancels the future, writes the status. The sections a
worker runs under `_STORE_LOCK` are split too, so that the handlers that take no
lock can run between their writes (`lock` says who is inside one).

`JobLedger` is the abstract promise: every request and every outcome is one step.
The refinement mapping lets a run commit when its worker writes the status, adds
the results and log entry to come, and hides the rest of the section.

Abstracted: a result is present or not, a log is the set of (run, level) pairs,
graphs are model values, job ids are never reused (uuid4).

### BatchJobs

`row` is the result backend, `message` and `deliveries` the broker, `bucket` the
uploaded files, named after the job and the second. `store_result` of Celery reads
the row and leaves a success alone, then writes: two steps, for workers and for
`start_job` alike. `cinfo` and `cstate` hold what a request read in an earlier
round trip. A whole worker may crash (the message returns to the queue), its child
process may be lost (Celery stores a failure), and a message that is out for
longer than the visibility timeout is delivered a second time.
Expiry of rows after a day is left out. `outcomes` is a history variable.

### SentinelPipeline and KfpRuns

A request is a record of program counter, items to compare (`found`, the order of
the search, and `todo`, the positions still to be gone through), tasks to wait for
(`params`) and loop variables. Its steps are the queries: other requests, and the
ingestion service, act between them. Every item has one task key; an item is registered in
the local catalogue once one of its downloads has succeeded. The service is
external: it may process tasks and downloads in any order, fail, or stop.

`KfpRuns` keeps `wait_until_complete`'s list, index and counter exactly, because
the loop pops from the list it enumerates. It is checked as a part of
`LoadCollection`.

### LoadCollection and TimeFilter

`stage` is where the evaluation of one request is; `query` fixes what is asked and
what the collection holds: for each item the bands of its `cube:variables`, its
assets in order with their media types and bands, and the times of its file. A
pipeline run ingests one item, so `Items` is `Runs`, and registers it in the
catalogue (`registered`) before it completes; runs advance between any two steps
of the request. `Entries` is the grouping by media type. `Read` says what the
readers make of the entries: a set of slices, each with the band and time it is
labelled with, its place on the axis, and the item and time its pixels really come
from, so that a misplaced image is visible. `FilterByTime` keeps the loop of the
binary searches (`Bisect`, a recursive function of the span still searched), because
the code runs them on times that need not ascend.

External: what a STAC search returns (items whose times meet the interval, in any
order), `reindex_like` (the nearest time), the merge of equal times by odc-stac.
Left out: space (clipping, reprojection, resolution), the conversion of the
properties filter, which only narrows the search, and the GRIB2 reader.

### VectorStore

`files` maps a cell (a sequence of quadrants) to the files of its folder, oldest
first, each a set of rows; a row is a key and a version. One process uploads
(`create_partitions`, `to_parquet`), merges (`_defrag`) and rebalances
(`repartition`: `_shard` and `_split` level by level, then `_combine`). Each operation
on a file or a folder is a step: `os.makedirs` (`MakeFolder`, which leaves the folder in
`made`), the write that follows, the removal of a merged fragment, and in
`shutil.rmtree` each removal of a file (`RemoveFile`, in any order) and that of the
folder (`Erase`). So is each level `create_partitions` goes through (`Upload`,
`PlaceLevel`, `Placed`). A crash may fall between any two, and may truncate the file
being written. What it can leave is a folder that is listed (`folders`) and has no files,
some of its files, or a truncated one (`broken`); reading the first or the last raises
(`Readable`; `UploadFails`, `DefragFails`, `SourceFails`). The assertion of
`create_partitions` that nothing is left after level 0 has no step of its own: were it
false, the operation would be stuck, which `OperationsEnd` and `AllPlaced` exclude.
Geometry is what it amounts to here: the smallest cell that contains it, `Root`.
`newest`, `doomed`, `reordered` and `misplaced` are history. Rows that are equal count
once, and `target_level + 2 < max_level` is assumed.

### CloudStore

`at` and `content` are the local store: where each file is, and how often
`unify_schemas` rewrote it in place. A file has a random name that is never used
twice and keeps it when its folder is renamed, which is why a path tells a run of
type "add" whether a file was uploaded. `objects` is the bucket, `item` the path
the STAC item of each file gives. `to_cos` is `ToCos` (the arguments of a run), one
`RemoveObject` for each path it replaces (`doomed`), then for each file of `left`
`Skip` or `Upload` and `ToStacItem`; it may `Fail` at any request, and the files
come in any order. `prefix` is the remote directory of the object, which
`to_stac_item` resets. Rows do not matter here: the local operations (`Maintain`)
are taken for the files they remove, write, move or rewrite, and happen only
between runs, because one process does both. `halves` is history. The item server
keeps what it was given; the collection document is left out.

### HsiRuns

A run fixes `meta`, the items its search found; one worker per partition then goes
through `hsi_worker`. A row is a timestamp and the raster file its pixels came
from. `local`, `remote` and `json` are the parquet file on the disk (possibly torn),
the one in the bucket, and the extent its STAC item announces; `tmp` is the
directory all workers download to. An item touches a partition if their boxes
intersect and covers it if it has valid pixels there. The order in which files of
one timestamp are downloaded is the order of the search and left open. After a file
is loaded the worker looks whether it is still there (`FindFile`, `SkipRemoval`) and
then removes it (`Clean`); when another worker has removed it before the load or between
the look and the removal, the worker ends with an exception (`FileIsGone`). Downloads
are atomic. `skip_existing` is chosen for every run. `recomputed` is history.

### Quadtree and SpatialPartition

The plane is the grid of squares of the deepest level, and a geometry is the
squares it meets and those it covers. Every formula of the code is kept apart:
children by shifting keys, boxes of keys by taking their bits apart, quadrants by
halving a box around its center. Powers of two are a recursive function (`Power2`), of
which the proofs can use the recursion. `Grown` is the descent with its early stops (deepest
level, maximum depth, containment) and its pruning, `Walk` the dictionary of
levels, `Gridded` the keys. The recursion is a recursive function on cells.

`SpatialPartition` has one action per round of the loop in `planned_partitions`.
`counts` is what the previous round counted, before the rows were cut: the rounds
compare counts of two levels, so a row is counted at one level as a whole and at
the next one as parts. Only the gridding and the planning are modelled; nothing in
the repository calls `SpatialPartition`, the index (`HsiRuns`) uses the uniform
variant, which is a prefix of the key, and `QTree.gridded`. Boxes are half-open;
that a geometry may hide in the epsilon between two of them is left out. An input is
finitely many rows with any geometries and options (`InputsAssumption`); the run takes
some of them, with `simplify_n` at 3 or more.

## Runs

| Run | Instance | Distinct states | Shows |
|---|---|---|---|
| `jobs` | 1 job, 2 submissions, 2 workers, 2 requests, fair | 217 000 | safety of the register, refinement of the ledger, submissions settle, jobs leave "running" |
| `batch_jobs` | 1 job, 2 workers, 1 client, 2 seconds, 3 deliveries, fair | 701 000 | safety and liveness of Celery jobs |
| `batch_jobs_restart` | 1 job, 1 worker, 1 delivery | violation | `start_job` overwrites an outcome |
| `sentinel_pipeline` | 2 requests for overlapping items, 1 poll per task | 651 000 | no item forgotten, waits bounded |
| `load_collection` | 3 items or runs, 2 bands, 3 rounds, fair request | 371 000 | nothing unfinished leaves the list, what is ingested is found, cubes are exact, requests get items or fail |
| `vector_store` | 4 keys, 2 quadrants, 3 uploads, 1 crash, fair | 310 000 | rows safe and in place, what raises has a reason, operations end |
| `vector_store_versions` | the same, no crash | violation | an old version survives |
| `vector_store_target_level` | the same, 1 upload | violation | keys are placed below `target_level` |
| `cloud_store` | 2 folders, 3 files, 2 directories, 2 runs after a first upload | 1 763 000 | a full replacement of the default directory mirrors the store, an add repairs, what is served stays |
| `cloud_store_replace_all` | the same, 1 run, nothing rewritten | violation | a directory of its own gets one file |
| `hsi_runs` | 2 partitions, 3 files, 3 runs, 1 death, 1 failed request, fair | 573 000 | announced is served, served stays, finished is indexed |
| `spatial_partition` | 8 x 8 squares, 3 geometries or up to 7 raster squares, partitions of 1 row | 9 800 | gridding covers geometries, planning gives the reference partitions |

Bounds, and why they are enough. Two workers and two requests are what the races of
`jobs.py` need: each property relates at most two runs of a job, or a run and two
requests, and jobs share nothing but the lock, the queue and the workers. Two submissions
also wait for each other, since a worker may stay away from the queue while the other
executes. That the safety properties hold for any number of each is proved. In `BatchJobs`
a job's rows never depend on another job, so one job suffices, and three deliveries give a
run, a run that overlaps it and one after both; two seconds let two runs name the same or
different files. In `SentinelPipeline` the selections of the requests overlap and hold two
items, so that the list shrinks while it is walked, with tasks of one's own and of others.
Three runs are the least for which popping during enumeration hides one and shows the
next, and three items the least for times that neither ascend nor descend;
`MCLoadCollection` goes through the ways bands, assets and times can be distributed over
them, with extents before, inside, across, beyond and reversed. `MCVectorStore` takes a
domain of two quadrants instead of four, a binary tree of the same shape, with keys that
share a cell, one that fits only the whole domain and one elsewhere; the batches re-upload
keys, so that versions exist. `MCCloudStore` starts from a new store or one that was
uploaded as a whole, so its two runs are a second and a third: one that fails and leaves
its traces, and one that has to cope with them, of any types, over all partitions or one,
to either directory. Three files are a file that was there, one written since and one
moved; folders need only one step up and down. `MCHsiRuns` has two files of one timestamp,
the first without pixels, and a file both partitions need; three runs give one that fails,
one that repairs and one that finds nothing new. `MCSpatialPartition` has levels enough
for a head below the root, two levels of splits and a pruned subtree, and limits
partitions to one row so that few rows split; the rectangles lie on cell borders and
across them, filled and hollow. Bounds that are not in the code are named `Max...`, or are
the size of a set (`Futures` bounds the submissions, `Seconds` the clock).

Deadlock is checked for the job register; the other systems really stop, when the
bounds on messages, runs, uploads or names of files are used up.

Fairness. `JobsRegister`: every thread that can run does, and process graphs terminate
(`RunningEnds` would be false otherwise, and the code has no timeout). `BatchJobs`:
workers make progress and the broker delivers unacknowledged messages again (that is what
a visibility timeout is for); crashes need no fairness. `LoadCollection`: the request goes
on until it has its items; Kubeflow owes nothing. This takes for granted that each HTTP
request returns or raises. `requests.get` has no timeout in `KFPClientWrapper`
(`driver/pipeline/kfpclient.py:286` and the other requests there), so a server that
accepts a connection and never answers would hold the request for ever, and
`ItemsOrFailure` says nothing about that. `VectorStore`: an operation that has begun goes
on; none has to begin. `HsiRuns`: a worker that has begun goes on. `CloudStore` and
`SentinelPipeline` assume none: the runs of the first say what holds when they end, and of
the second `WaitsEnd` says that every step of a waiting request decreases a lexicographic
measure of what it has left.

The type invariants are theorems, so the runs of `JobsRegister`, `BatchJobs`,
`SentinelPipeline` and `HsiRuns` do not check them again; those of `VectorStore`,
`CloudStore` and `LoadCollection` do.

Every property has a seeded fault that violates it in the same run: a mutant next to
the definition it replaces or in the section "Faults seeded for mutation runs" of its
module.

## What is proved

For every value of the constants, from the named assumptions of the modules only: that
`None` is none of the ids (`JobsRegister`, `BatchJobs`), that bounds are natural numbers
(`MaxDeliveriesAssumption`, `MaxIterationsAssumption`, `MaxRunsAssumption`,
`MaxRequestsAssumption`, `BoundsAssumption` of `HsiRuns`, `CloudStore` and `VectorStore`),
that selections, items, timestamps, queries, roots, batches, the tree of folders and the
partitions a run may be given are well-formed (`SelectionsAssumption`, `ItemsAssumption`,
`TimestampsAssumption`, `QueriesAssumption`, `RootAssumption`, `QuadrantsAssumption`,
`BatchesAssumption`, `ParentAssumption`, `ChoicesAssumption`), that the default remote
directory is one (`DefaultAssumption`), that the absence of a folder, file or path is none
of them (`NoneAssumption` of `CloudStore`), and that a request needs finitely many runs
(`RunsAssumption`) and the store has finitely many keys (`KeysAssumption`).
`InputsAssumption` asks that finitely many geometries are to be partitioned, that each
meets some square and all it covers, and that a raster row is one square; the depth of the
quadtree, the size of partitions and the options of the trees are any
(`MaxLevelAssumption`, `SplitNAssumption`). `QueriesAssumption` asks of a collection only
what documents and files give: a query names each band once; an item lists finitely many
bands, at least one, and has an asset for each or one for all, in every item alike; media
types are any; the times of a file ascend, and a COG has one. How the times of different
files lie to each other, and which bands a file holds, is left open.

| Theorem | States |
|---|---|
| `JobsRegisterProofs!TypeCorrect` | `Spec => []TypeOK` |
| `JobsRegisterProofs!RunningHasWorker` | `Spec => []RunningIsLive` |
| `JobsRegisterProofs!OutcomeIsSettled` | `Spec => []SettledOutcome` |
| `JobsRegisterProofs!DeletedJobsAreSilent` | `Spec => DeletedStaysSilent` |
| `JobsRegisterProofs!OneOutcome` | `Spec => []OneOutcomePerRun` |
| `JobsRegisterProofs!CompletedRunsReport` | `Spec => []CompletedRunsLogged` |
| `JobsRegisterProofs!RegisterImplementsLedger` | `Spec => ImplementsLedger` |
| `BatchJobsProofs!TypesHold` | `Spec => []TypeOK` |
| `BatchJobsProofs!ResultsAreUploaded` | `Spec => []AssetsAreUploaded` |
| `BatchJobsProofs!RowsStayCoherent` | `Spec => []RowsAreCoherent` |
| `BatchJobsProofs!NoJobIsForgotten` | `Spec => []AckedIsDecided` |
| `BatchJobsProofs!AnswersStayHonest` | `Spec => []AnswersAreHonest` |
| `BatchJobsProofs!SuccessIsFinal` | `Spec => SuccessSettles` |
| `SentinelPipelineProofs!TypesHold` | `Spec => []TypeOK` |
| `SentinelPipelineProofs!MissingItemsHaveTasks` | `Spec => []NoItemForgotten` |
| `SentinelPipelineProofs!ReturnsWhenProcessed` | `Spec => []OwnTasksAreProcessed` |
| `SentinelPipelineProofs!WaitsAreBounded` | `Spec => WaitsEnd` |
| `LoadCollectionProofs!PipelineTypesHold` | `Spec => []TypeOK` of `KfpRuns` |
| `LoadCollectionProofs!UnfinishedStayWatched` | `Spec => []UnfinishedAreWatched` of `KfpRuns` |
| `LoadCollectionProofs!RequestRunsPipeline` | `LoadSpec => Spec`: a request runs its pipeline as `KfpRuns` allows |
| `LoadCollectionProofs!IngestedItemsAreFound` | `LoadSpec => []IngestedIsFound` |
| `LoadCollectionProofs!LoadTypesHold` | `LoadSpec => []LoadTypeOK` |
| `LoadCollectionProofs!RefusalsHaveReasons` | `LoadSpec => []RefusalsAreDeserved` |
| `LoadCollectionProofs!CubesAreExact` | `LoadSpec => []CubeIsExact` |
| `VectorStoreProofs!TypesHold` | `Spec => []TypeOK` |
| `VectorStoreProofs!KeysStaySafe` | `Spec => []KeysAreSafe` |
| `VectorStoreProofs!RowsStayInPlace` | `Spec => []RowsInTheirPartition` |
| `VectorStoreProofs!NewestIsKept` | `Spec => []DefragKeepsNewest` |
| `VectorStoreProofs!RowsEndDeepest` | `Spec => []ShardedDeepest` |
| `VectorStoreProofs!RaisesAreExplained` | `Spec => []RaisesForAReason` |
| `VectorStoreProofs!FoldersStayReadable` | `Spec => []FoldersReadable`: until a crash every folder can be read, except the one just made or being erased |
| `VectorStoreProofs!EverythingIsPlaced` | `Spec => []AllPlaced`: the assertion that ends `create_partitions` |
| `CloudStoreProofs!TypesHold` | `Spec => []TypeOK` |
| `CloudStoreProofs!ReplacementMirrors` | `Spec => []DefaultMirrored` |
| `CloudStoreProofs!OwnDirectoryGetsOneFile` | `Spec => []OneFileElsewhere`: a replacement of another directory leaves one of the local files there |
| `CloudStoreProofs!FinishedRunsServe` | `Spec => []RunsServe` |
| `CloudStoreProofs!ServedFilesStay` | `Spec => ServedUntilReplaced` |
| `HsiRunsProofs!TypesHold` | `Spec => []TypeOK` |
| `HsiRunsProofs!AnnouncedIsServed` | `Spec => []RegisteredIsServed` |
| `HsiRunsProofs!FinishedWorkersIndexed` | `Spec => []FinishedIsIndexed` |
| `HsiRunsProofs!RowsAreNotWithdrawn` | `Spec => ServedRowsStay` |
| `SpatialPartitionProofs!PlanInvariant` | `Spec => []PlanOK`: the inductive invariant |
| `SpatialPartitionProofs!PlansAreReference` | `Spec => []PlanIsReference` |
| `SpatialPartitionProofs!GridsCover` | `Spec => []GridCovers` |

*Job register.* None of the properties is inductive. `TypeInv` adds to `TypeOK`
what the local variables of a thread are at each step (`Locals`). `RunningIsLive`
needs that jobs in the store have a record (`Stored`). `SettledOutcome` speaks of
moments when the lock is free; `SectionInv` extends it into the locked sections
(`LockInv`: who is inside, and that its job is still stored; `OutcomeInv`: what of
the outcome is already written at each step). `OneOutcomePerRun` and
`CompletedRunsLogged` follow from `RunInv`: a future is in the queue or in the
hands of one worker, never both or twice (`OwnInv`), and the job of every future
is one that was stored (`Known`). The refinement adds `RegisteredInv`, a registered
future being a run of its job, and shows each step to be a step of the ledger or
invisible.

*Celery jobs.* `Inv` is `TypeOK` with one predicate per worker (what it is about to
store exists and fits its job), per client (what it read some row once held) and
per job (state, info, history and message fit together). An actor's step is shown
to keep its own predicate and, by frame lemmas, everybody else's.

*Database pipelines.* `NoItemForgotten` and `OwnTasksAreProcessed` speak of a
request that has returned; the invariant says what leads there. `SearchOK`: an item
found missing has a task, is waited for, or is at a position of `todo`. `WaitOK`: a
task of one's own was processed or is still in `params`; behind the index of a pass
everything in `params` has a row (the first pass asserts that, line by line, and no
row is ever deleted); and the patience of the first pass is too large to be used up
within it, so that no request returns before each row was seen once. Requests
disturb each other only by rows they add, which the frame lemmas say once for all
steps. `WaitsEnd` needs only the types and the bound on the index: the measure counts
passes, then positions, then queries of a position.

*Loading.* `Watching` strengthens `UnfinishedAreWatched`: the list has no run twice,
so taking one off leaves the others; started runs are known to Kubeflow; the counter
is below its bound while the loop polls. That the list without the run at an index
keeps all others is a lemma on `RemoveAt`; that the list of started runs is one of
the enumerations of a set needs the set to be finite (a pigeonhole argument,
`SetToSeqsRange`). `RequestRunsPipeline` shows each step of a request to be a step of
the pipeline or to leave it alone, so the pipeline's invariant holds in the
composition. `Ingesting` then joins the two: the request goes on only when the pipeline
gave up, had nothing to run or has all its runs over, a completed run has registered
its item, and nothing is removed from the catalogue; so the search that follows finds
what was ingested, which later stages keep.

`LoadTypeOK` and `RefusalsAreDeserved` rest on `Loading`, which carries the search and
the grouping along to the moment of reading: what was found is selected, and the
entries are those of what was found (`AnswersOK`). A request that is refused was
refused for one of the reasons named because whatever `FilterByTime` raises needs a
disorder: on times that ascend the binary search returns a position of the list
(`BisectProperties`), so both ends of the slice exist. `Bisect` and `FlattenSeq` are
recursive functions; that they exist is shown by hand, by contradiction from a
smallest argument at which no partial function exists, and what they
return by the same argument on the length of the span.

`CubeIsExact` compares a finished cube with the images asked for, so its invariant
`Serving` says that the cube is what the reader made of the entries, that the entries
are of one type, that no item was found twice and that the interval has an end. The
rest is about the readers. For files, each image is counted through three one-to-one
correspondences: slices of the image with its positions on the axis inside the extent,
those positions with the entries of its item (`AxisCounts`), and those entries with
the bands (`EntriesCount`). The last two rest on `FlattenPlaces`: every element of every
part has a place of its own in the flattened sequence, and there are no others. That
the filter leaves exactly the positions in the extent is `FilterExact`, the binary
searches on ascending times. For COGs, items with the same bands make one group
(`OneGroup`), the nearest time on the axis of a group is an item's own (`NearestIsSelf`),
and labels among the bands asked for are all the bands of the item (`LabelsExact`).

*Index.* `WorkerOK` follows one partition through its worker: every timestamp no longer
in `todo` has a row or a file without valid pixels as its excuse, and the argument
passes from the rows in memory to the local file, the bucket and the end, except for
partitions stranded by a death between write and upload. `CopyOK` is what makes
skipping safe: the local copy a worker extends is the file in the bucket, so the
upload contains it. It holds although runs die, because every run that finds a file
in the bucket fetches it first. Other workers are out of the picture by frame lemmas:
the only thing they share is the directory of downloads.

*Vector store.* `IInv` joins the properties of the run with what they rest on. `FilesOK`:
files are in folders on disk, and so is the folder made for the next one. `TrimOK`:
while old fragments are removed, the last file of the folder has every key of the
others, so removing one loses nothing. `PlaceOK` and `CellsOK`: what is still to be
placed is no finer than the level at hand, and everything placed or moved is above its
root; so nothing is left after level 0, which is the assertion of the code.
`SourceOK` and `FrameOK`: the rows of the folder at hand are in memory or in another
folder, and the folders still to come exist and are of this level; the one gap, from the
first file of a folder removed to the end of its rewriting, is where `doomed` comes
from. `VersionsOK`
follows `newest`: in some folder the last file with the key has its last version, which
merging keeps because it takes the rows of last files. `DeepestOK`: a folder gone
through holds nothing for the folders that exist below it; a move writes only to
folders of later levels, so it cannot undo this. `RecordsOK`: a recorded folder exists
or its record is zero, so `_combine` can miss a folder only after splitting emptied it.
A second invariant, `JInv`, is proved on top of the first for what can be read (`ReadOK`):
truncated files come from crashes only, and while there was none a folder without files
is the one just made or the one being erased. What `_combine` reads was read before, so
it never raises on a truncated file; `RaisesForAReason` follows from `RecordsOK` and `ReadOK`.
Lemmas on cells (prefixes of one root are comparable, a parent is above whatever its
child is above) and on folders (what `Write`, `Merge`, `Erase` and `RemoveFragment` do
to contents and keys) carry the steps.

*Copy in the bucket.* `RunOK` says that nothing is uploaded while something is doomed and
that uploads go to one of two directories; `ServedOK` that each file a replacing run is
done with is in the bucket where its item says; `MirrorOK` that the directory a full
replacement works on holds what is still doomed and copies of the files it is done with,
of one file only if the directory is not the default (hence `OneFileElsewhere`); `AddOK`
that what a run of type "add" skips is reachable or was half done when the run began. At
the end of a run `doomed` and `left` are empty, and the properties are what remains.
`ServedFilesStay` is an action property: each step that takes a file out of service is a
removal, or an item, of a run that replaces or announces it.

*Quadtree and partitions.* Nothing here is recursion the provers can unfold, so each
recursive function (powers, sums of bits, heads, trees, walks) is first shown to exist,
from the deepest level upwards or from the root downwards (`Upwards`, `Downwards`), and
to satisfy its equation. On them rests the geometry of the keys. `DeinterleaveChild`: a
child adds one bit to each coordinate of its parent, whence the four children of a cell
are its quadrants and divide its box (`ChildBoxes`); so each square is in one cell of
each level (`CellOfSquare`), cells that share a square lie above each other
(`CellsNest`), and the block of keys below a cell fills its box (`BlockBoxes`).

For a tree, `WalkNodes` says that a level of the walk holds nodes of cells that the
geometry meets, and `WalkChildren` that from a node that is no leaf the walk goes on to
all its hit children. `GridsCover` follows a square of the geometry down from the head:
if no cell on its way were a leaf, the one at the deepest level would be. The converse
goes up: four pruned leaves are all four children (`FourLeaves`), so their parent is
made of cells the geometry meets; with fewer that is false, hence the condition on
`simplify`.

`PlanOK`, the inductive invariant of the planning, compares each round with the
reference: at level `n` the rows are `RowsAt(n)`, those of the partitions split down to
`n`; the counts name exactly `Oversized(n)`; and the partitions split last are
`Oversized(n - 1)`. That a cell is not counted too often is an injection of its rows into
the geometries that meet it, because two rows of one geometry lie in partitions without a
common square (`OneRow`). That it is not counted too seldom is the delicate half: the tree
of a row is grown from what was cut, its head may be anywhere, and it may stop early.
But one level below its partition a tree finds all cells the geometry meets or none at all
(`CellsAtExact`), and none is the KeyError; so whoever passes the guard counts right
(`NextCounts`), and no cell that is too large is lost in the merge of two levels
(`AllParentsFound`). Splitting overlays all rows of all parents with each parent, and what
is left are the cuts of its own (`PartSplit`), so the rows are those of the next level
(`RowsNext`). At the end nothing was too large one level above, or there is no level left,
and the partitions are those of the plan (`PlannedIs`).

Only model-checked: the liveness properties and everything else that needs fairness
or ENABLED, which the prover does not handle (`SubmittedSettles`, `RunningEnds`,
`CreatedJobsDecide`, `ItemsOrFailure`, `OperationsEnd`, `WorkersEnd`). All other
properties of the passing runs are theorems.

## What the models found

Four statements that comments or docstrings of the code make are violated:

1. `start_job` (`driver/batch_jobs.py:254`) checks that a task has not finished and
   then stores "started" in another round trip, over an outcome that came in
   between.
2. `vectorstore.py:1258` orders fragments so that the latest version of a record
   survives; `_shard` and `_split` (567) lose that order.
3. `vectorstore.py:449` says that the largest partition becomes `target_level`, but keys
   stay one level below when their cell holds half of `target_rows`. `repartition` leaves
   such folders alone, and raises (741) when there are no others.
4. `vectorstore.py:1568` says that "replace_all" replaces the entire remote store, but
   `to_stac_item` connects again without arguments (1676, 1534), which resets the remote
   directory: of a run with a directory of its own only the first file goes there and
   the rest to the default one.

A fifth was found by reading: `sentinel_1_pipeline_handler.py:47` says that the query
returns None without rows, but `fetchall` returns an empty list, so the status becomes
"done". `SentinelPipeline!DownloadStatus` is what the code does.

The passing runs describe further behaviour precisely, in the exceptions their
properties name: `VectorStore!RaisesForAReason` (no folder at or above `target_level`; a
folder that splitting emptied, which `_combine` still has on record and whose place it
may fill with the rows of another, line 694; an empty folder or a truncated file after a
crash); `VectorStore!KeysAreSafe` (keys in a folder being rewritten when
the process dies are lost); `HsiRuns!FinishedIsIndexed` (a partition written but
never uploaded counts as existing for all later runs; of several files of one
timestamp only the first contributes, because the result of `fillna` is dropped);
`KfpRuns!TimedOut` (the counter alone decides, so a wait may time out with no run
left); `JobsRegister!SettledOutcome` (only under the lock: `get_results`,
`openeo_fastapi_app/jobs.py:310`, takes none and can see the status "finished"
before the results are stored). In `CloudStore`:

- `RunsServe`: a file whose run died between its upload and its item is skipped by
  all later runs of type "add", and stays without an item;
- `ServedUntilReplaced`: a run removes all it will replace before it uploads the first
  file, and one that fails leaves the items without files; a run of type
  "stac_items_only" announces paths nothing was uploaded to;
- a partition given to a run of type "replace_partition" is removed from the bucket
  even if it has no local version any more (1570, 1609); the items of files that are
  gone are never removed.

In `LoadCollection!CubeIsExact` and `RefusalsAreDeserved`:

- an item enters its group once for every band asked for: NetCDF files are repeated
  in time, and Zarr collections load only with one band and one item;
- times that do not ascend in the order of the search make `filter_by_time` keep
  other images than those of the extent, or raise an IndexError; where no image is
  in the extent it keeps a neighbour;
- of COG items with different bands only the first band of each group is kept,
  shown at the nearest times of the first group; items with one asset "data" for
  several bands are labelled with that key instead of their bands;
- a band that an item does not list is loaded from its NetCDF or Zarr file all the
  same, if another band asked for has brought the item in;
- the FSTD reader indexes items like dictionaries and always fails, and an
  interval without an end fails only after the ingestion it has triggered.

In `SpatialPartition!PlanIsReference`: planning for vector data ends in a KeyError
when a tree stops above the level being counted, that is, when trees are limited or
pruned or a geometry covers a whole cell.

## Not modelled

- *Process evaluation*: values of xarray, computed by libraries; the job modules take
  the outcome of a process graph as a choice. *Catalogue, STAC clients, data model*:
  translations between documents, one request each, nothing kept.
- *openEO driver backend, FastAPI application*: wiring; no operation spans steps.
- *`overviews/old`*: imported by nothing. *Deployments, notebooks, tutorials*: no
  code of the system, although the notebooks are most of the repository's lines.
- Hazards that the models contain and no property excludes, because nothing in the code
  says that they should not happen: a reader of `get_results` between two writes of a
  worker, a cancellation that finds no future, two tasks for one item, the AttributeError
  of `get_job_info`. `PROJECT.json` has a note on each.
- Parts of the modelled components: in `load_collection` and the readers the spatial side
  (clipping, reprojection, meridians), the properties filter, the pages of a search and
  the GRIB2 reader; in `qtree_index` the areas and projections of the grids, the text form
  of keys, temporal partitions; in the vector store the geometry index (an option that is
  off by default and that nothing in the repository turns on; `reindex` is called in no
  cell that is not commented out), `reproject`, `unify_schemas` as a step of `VectorStore`
  (it rewrites files in place and so changes their modification times; `CloudStore!Unify`
  models it for the copies) and the collection document; in the index HBase and Zarr
  sources, the statistics, `search_hsi` and the collection document; in the pipelines the
  SQL texts and Kubeflow's own states.

## Plan

Done, in this order: `JobsRegister` with `JobLedger` and proofs; `BatchJobs` with
proofs; `SentinelPipeline`, `KfpRuns`; `VectorStore`; `HsiRuns`; `LoadCollection` with
`TimeFilter`, on top of `KfpRuns`; `Quadtree` and `SpatialPartition`; proofs of the
loading, of the index and of the database pipelines; `CloudStore`; proofs of
`CloudStore` and of `VectorStore`; proofs of the types, the refusals and the cube of
`LoadCollection`; proofs of `SpatialPartition`.

What would come next:

1. The geometry index of the vector store (`reindex` and the `_index` functions), as a
   cache that goes stale when files change.
2. An abstract store of versioned keys which `VectorStore` implements while
   nothing crashes and nothing is repartitioned.

## Running

In this directory, `tlc -config <run>.cfg <module>.tla` checks a run (its module
and configuration are in `PROJECT.json`), `tlapm <module>.tla` the proofs.
