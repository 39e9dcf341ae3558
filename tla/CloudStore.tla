----------------------------- MODULE CloudStore -----------------------------
(***************************************************************************)
(* The copy of the vector store in the cloud: to_cos and to_stac_item of   *)
(* overviews/vectorstore/vectorstore.py.  Local files are uploaded one by  *)
(* one, each followed by the JSON of a STAC item that says where it is.    *)
(*                                                                         *)
(* Between two runs the local store changes.  Its operations are single    *)
(* steps here (VectorStore has theirs), taken for what they do to files:   *)
(* a file has a random name, never used twice, and keeps it when its       *)
(* folder is renamed or when unify_schemas rewrites it in place.  A run    *)
(* may fail at any request to the object store, or die.                    *)
(***************************************************************************)
EXTENDS Integers, FiniteSets

CONSTANTS
    Folders,       \* the folders of spatial partitions, cells of a quadtree
    Parent,        \* the parent of a folder's cell, None if it has none
    Names,         \* names of parquet files
    Directories,   \* what remote_vectorstore_directory may be
    Default,       \* its default, REMOTE_VECTORSTORE_DIRECTORY
    Choices,       \* what spatial_partitions may be, None for all folders
    None,
    MaxRewrites,   \* bound on the rewrites of one file
    MaxRuns        \* bound on the runs of to_cos

ASSUME ParentAssumption == Parent \in [Folders -> Folders \cup {None}]
ASSUME DefaultAssumption == Default \in Directories
ASSUME ChoicesAssumption == Choices \subseteq (SUBSET Folders) \cup {None}
ASSUME BoundsAssumption == {MaxRewrites, MaxRuns} \subseteq Nat

Types == {"replace_all", "replace_partition", "add", "stac_items_only"}

VARIABLES
    at,        \* the folder of each local file, None if there is no such file
    unused,    \* names not given yet
    content,   \* how often a file was rewritten
    objects,   \* what the bucket holds
    item,      \* the path in the item of each file, None without an item
    pc,        \* "idle", "done" (a run has just ended), "upload" or "item"
    run,       \* the arguments of the run
    prefix,    \* remote_prefix: the directory uploads go to
    doomed,    \* paths the run has still to remove
    left,      \* files the run has still to look at
    file,      \* the file whose item comes next
    runs,
    halves     \* history: files with an object but without an item that led
               \* to one when the run began

disk == <<at, unused, content>>
cloud == <<objects, item>>
locals == <<run, prefix, doomed, left, file>>
vars == <<at, unused, content, objects, item, pc, run, prefix, doomed, left,
          file, runs, halves>>

Paths == [dir : Directories, folder : Folders, name : Names]
ASSUME NoneAssumption == None \notin Folders \cup Names \cup Paths

Runs == [type : Types, dir : Directories, folders : Choices]

Existing == {at[f] : f \in Names} \ {None}
Selected(r) == IF r.folders = None THEN Existing ELSE r.folders

PathOf(d, f) == [dir |-> d, folder |-> at[f], name |-> f]
ObjectsAt(p) == {o \in objects : o.path = p}
Uploaded(p) == ObjectsAt(p) # {}

\* An item of the file leads to an object, which is a copy of the file.
Reachable(f) == item[f] # None /\ Uploaded(item[f])
Served(f) == item[f] # None /\ [path |-> item[f], ver |-> content[f]] \in objects

\* A new store, or one whose files were all uploaded to the default directory.
Init ==
    /\ at \in [Names -> Folders \cup {None}]
    /\ unused = {f \in Names : at[f] = None}
    /\ content = [f \in Names |-> 0]
    /\ objects = {[path |-> PathOf(Default, f), ver |-> 0] : f \in Names \ unused}
    /\ item = [f \in Names |-> IF f \in unused THEN None
                                               ELSE PathOf(Default, f)]
    /\ pc = "idle" /\ run = None /\ prefix = Default /\ doomed = {}
    /\ left = {} /\ file = None /\ runs = 0 /\ halves = {}

-----------------------------------------------------------------------------
(* Faults seeded for mutation runs.                                        *)

\* A name may be given again.
ReplaceReusing(gone, new) ==
    /\ DOMAIN new \subseteq unused
    /\ at' = [f \in Names |-> IF f \in DOMAIN new THEN new[f]
                              ELSE IF at[f] \in gone THEN None ELSE at[f]]
    /\ content' = [f \in Names |-> IF at[f] \in gone THEN 0 ELSE content[f]]
    /\ UNCHANGED unused

\* replace_all leaves partitions alone that do not exist locally.
DoomedExisting(r) ==
    IF r.type \in {"replace_all", "replace_partition"}
    THEN {o.path : o \in {x \in objects : /\ x.path.dir = r.dir
                                          /\ x.path.folder \in Selected(r)}}
    ELSE {}

\* The folders are looked for in every remote directory.
DoomedEverywhere(r) ==
    CASE r.type = "replace_all" ->
            {o.path : o \in {x \in objects : x.path.dir = r.dir}}
      [] r.type = "replace_partition" ->
            {o.path : o \in {x \in objects : x.path.folder \in Selected(r)}}
      [] OTHER -> {}

\* An add skips what is in any directory.
SkipsElsewhere(f) ==
    run.type = "add" /\ \E d \in Directories : Uploaded(PathOf(d, f))

-----------------------------------------------------------------------------
\* The local store at rest.
AtRest ==
    /\ pc \in {"idle", "done"}
    /\ pc' = "idle"
    /\ run' = None /\ halves' = {}
    /\ UNCHANGED <<cloud, prefix, doomed, left, file, runs>>

\* Files of the folders in gone are removed, those in new, a function from
\* names to folders, are written.
Replace(gone, new) ==
    /\ DOMAIN new \subseteq unused
    /\ unused' = unused \ DOMAIN new
    /\ at' = [f \in Names |-> IF f \in DOMAIN new THEN new[f]
                              ELSE IF at[f] \in gone THEN None ELSE at[f]]
    /\ content' = [f \in Names |-> IF at[f] \in gone THEN 0 ELSE content[f]]

\* _to_parquet
WriteFragment(f, c) ==
    /\ AtRest
    /\ Replace({}, [x \in {f} |-> c])

\* _defrag, also of a folder with a single file
Defrag(f, c) ==
    /\ AtRest /\ c \in Existing
    /\ Replace({c}, [x \in {f} |-> c])

\* _shard, _split: rows move to a folder below, the rest is written again.
MoveDown(f, rest, d) ==
    /\ AtRest /\ Parent[d] \in Existing /\ f \notin rest
    /\ Cardinality(rest) <= 1
    /\ Replace({Parent[d]},
               [x \in {f} \cup rest |-> IF x = f THEN d ELSE Parent[d]])

\* _combine merges a folder into its parent, or renames it.
MergeUp(f, c) ==
    /\ AtRest /\ {c, Parent[c]} \subseteq Existing
    /\ Replace({c, Parent[c]}, [x \in {f} |-> Parent[c]])

Rename(c) ==
    /\ AtRest /\ c \in Existing
    /\ Parent[c] \notin Existing \cup {None}
    /\ at' = [f \in Names |-> IF at[f] = c THEN Parent[c] ELSE at[f]]
    /\ UNCHANGED <<unused, content>>

\* unify_schemas rewrites the files whose columns or metadata differ.
Unify(fs) ==
    /\ AtRest
    /\ \A f \in fs : at[f] # None /\ content[f] < MaxRewrites
    /\ content' = [f \in Names |-> IF f \in fs THEN content[f] + 1
                                               ELSE content[f]]
    /\ UNCHANGED <<at, unused>>

Maintain ==
    \/ \E f \in Names, c \in Folders :
          \/ WriteFragment(f, c) \/ Defrag(f, c) \/ MergeUp(f, c)
          \/ \E rest \in SUBSET Names : MoveDown(f, rest, c)
    \/ \E c \in Folders : Rename(c)
    \/ \E fs \in SUBSET Names : fs # {} /\ Unify(fs)

-----------------------------------------------------------------------------
\* What a run removes first: whatever the bucket has in the directory, or in
\* the selected folders of it.
Doomed(r) ==
    {p \in {o.path : o \in objects} :
        /\ p.dir = r.dir
        /\ \/ r.type = "replace_all"
           \/ r.type = "replace_partition" /\ p.folder \in Selected(r)}

\* Nothing changes the local store while a run goes on, so the files of all
\* selected folders may be listed at its start.
ToCos(r) ==
    /\ pc \in {"idle", "done"} /\ runs < MaxRuns
    /\ run' = r /\ prefix' = r.dir
    /\ doomed' = Doomed(r)
    /\ left' = {f \in Names : at[f] \in Selected(r)}
    /\ halves' = {f \in Names : /\ \/ Uploaded(PathOf(r.dir, f))
                                   \/ Uploaded(PathOf(Default, f))
                                /\ ~Reachable(f)}
    /\ runs' = runs + 1
    /\ pc' = "upload"
    /\ UNCHANGED <<disk, cloud, file>>

RemoveObject(p) ==
    /\ pc = "upload" /\ p \in doomed
    /\ objects' = objects \ ObjectsAt(p)
    /\ doomed' = doomed \ {p}
    /\ UNCHANGED <<disk, item, pc, run, prefix, left, file, runs, halves>>

Skips(f) == run.type = "add" /\ Uploaded(PathOf(prefix, f))

Skip(f) ==
    /\ pc = "upload" /\ doomed = {} /\ f \in left
    /\ Skips(f)
    /\ left' = left \ {f}
    /\ UNCHANGED <<disk, cloud, pc, run, prefix, doomed, file, runs, halves>>

Upload(f) ==
    LET p == PathOf(prefix, f)
        copy == [path |-> p, ver |-> content[f]]
    IN  /\ pc = "upload" /\ doomed = {} /\ f \in left
        /\ ~Skips(f)
        /\ objects' = IF run.type = "stac_items_only"
                      THEN objects
                      ELSE (objects \ ObjectsAt(p)) \cup {copy}
        /\ left' = left \ {f} /\ file' = f
        /\ pc' = "item"
        /\ UNCHANGED <<disk, item, run, prefix, doomed, runs, halves>>

\* to_stac_item connects again without arguments: the remote directory is
\* the default from then on.
ToStacItem ==
    /\ pc = "item"
    /\ item' = [item EXCEPT ![file] = PathOf(prefix, file)]
    /\ prefix' = Default
    /\ file' = None
    /\ pc' = "upload"
    /\ UNCHANGED <<disk, objects, run, doomed, left, runs, halves>>

Finish ==
    /\ pc = "upload" /\ doomed = {} /\ left = {}
    /\ pc' = "done"
    /\ UNCHANGED <<disk, cloud, locals, runs, halves>>

\* A request fails, or the process dies.
Fail ==
    /\ pc \in {"upload", "item"}
    /\ pc' = "idle"
    /\ run' = None /\ prefix' = Default /\ doomed' = {} /\ left' = {}
    /\ file' = None /\ halves' = {}
    /\ UNCHANGED <<disk, cloud, runs>>

Step ==
    \/ \E p \in doomed : RemoveObject(p)
    \/ \E f \in left : Skip(f) \/ Upload(f)
    \/ ToStacItem \/ Finish

Next == Maintain \/ (\E r \in Runs : ToCos(r)) \/ Step \/ Fail

Spec == Init /\ [][Next]_vars

-----------------------------------------------------------------------------
\* Types, and what holds at rest: nothing is left to do.
TypeOK ==
    /\ at \in [Names -> Folders \cup {None}]
    /\ unused \subseteq {f \in Names : at[f] = None}
    /\ content \in [Names -> 0..MaxRewrites]
    /\ objects \subseteq [path : Paths, ver : 0..MaxRewrites]
    /\ item \in [Names -> Paths \cup {None}]
    /\ pc \in {"idle", "done", "upload", "item"}
    /\ run \in Runs \cup {None} /\ prefix \in Directories
    /\ doomed \subseteq Paths /\ left \subseteq Names
    /\ file \in Names \cup {None} /\ runs \in 0..MaxRuns
    /\ halves \subseteq Names
    /\ pc \in {"idle", "done"} => doomed = {} /\ left = {} /\ file = None

Ended(types) == pc = "done" /\ run.type \in types /\ run.folders = None

LocalFiles == {f \in Names : at[f] # None}
Copies(d) == {o \in objects : o.path.dir = d}
CopyOf(d, f) == [path |-> PathOf(d, f), ver |-> content[f]]

\* "Replace entire remote parquet store with local version" (vectorstore.py:1568):
\* after a replace_all over all partitions the remote directory it was given
\* holds an exact copy of the local store.
ReplaceAllMirrors ==
    Ended({"replace_all"}) =>
        Copies(run.dir) = {CopyOf(run.dir, f) : f \in LocalFiles}

\* It is so of the default directory, whatever failed runs, renamed folders
\* and uploads of any kind have left there.
DefaultMirrored ==
    Ended({"replace_all"}) /\ run.dir = Default =>
        Copies(Default) = {CopyOf(Default, f) : f \in LocalFiles}

\* After a run over all partitions the item of every local file leads to a copy
\* of it, in whichever directory that is: a current one if the run replaced.  An
\* add repairs whatever interrupted runs and changes of the local store have
\* left, except that a file whose object was there without an item leading to
\* it, as when a run died between the two, is skipped for ever.
RunsServe ==
    /\ Ended({"replace_all", "replace_partition"}) =>
            \A f \in LocalFiles : Served(f)
    /\ Ended({"add"}) =>
            \A f \in LocalFiles : Reachable(f) \/ f \in halves

Replaces(p) ==
    /\ run.type \in {"replace_all", "replace_partition"}
    /\ p.dir = run.dir
    /\ run.type = "replace_all" \/ p.folder \in Selected(run)

\* A local file that is served stays so, through maintenance of the local
\* store and runs of any kind, until unify_schemas rewrites it, a replacement
\* of its folder or its whole directory begins, or a run that writes items
\* only announces a path nothing was uploaded to.
ServedUntilReplaced ==
    [][\A f \in Names :
          Served(f) /\ ~Served(f)' =>
              \/ content'[f] # content[f]
              \/ /\ pc = "upload" /\ Replaces(item[f])
                 /\ item'[f] = item[f]
              \/ /\ pc = "item" /\ run.type = "stac_items_only"
                 /\ item'[f] # item[f]]_vars
=============================================================================
