--------------------------- MODULE LoadCollection ----------------------------
(***************************************************************************)
(* One evaluation of load_collection: it lets the ingestion pipeline fetch *)
(* what the local catalogue misses (KfpRuns, for the collections that have *)
(* a handler), searches the catalogue, groups the items by the media type  *)
(* of the bands asked for, and hands them to the reader of that type.      *)
(*                                                                         *)
(* A pipeline run ingests one item and is named after it: Items is Runs.   *)
(***************************************************************************)
EXTENDS KfpRuns, TimeFilter

CONSTANTS
    Queries,    \* what is asked, of which collection: see IsQuery
    OpenEnd     \* the end of an interval that has none

VARIABLES
    query,
    registered, \* items in the local catalogue
    missing,    \* items the handler is to ingest
    stage,
    found,      \* what the search has returned, in its order
    entries,    \* the items grouped, with their media types
    cube,       \* the loaded slices
    failure     \* why the evaluation has failed

loadVars == <<query, registered, missing, stage, found, entries, cube, failure>>
allVars == <<vars, loadVars>>

Items == Runs
Media == {"cog", "netcdf", "zarr", "fstd", "other"}
Stages == {"trigger", "ingest", "search", "group", "load", "done", "failed"}
Failures == {"none", "ingestion", "open end", "reversed", "no item", "types",
             "reader", "no band", "entries", "no time"}
DataKey == "data"

AssetKeys(c, i) == {c.assets[i][n].key : n \in DOMAIN c.assets[i]}

(* A collection: has make_handler a handler for it; the bands each item      *)
(* lists in cube:variables; its assets in their order, with the bands their *)
(* file holds; the timestamps of its file, in order.                        *)
IsCollection(c) ==
    /\ c.handled \in BOOLEAN
    /\ \A i \in Items :
        /\ \A n \in DOMAIN c.assets[i] : c.assets[i][n].type \in Media
        /\ c.offers[i] # {} /\ IsFiniteSet(c.offers[i])
        /\ (DataKey \in AssetKeys(c, i) \/ c.offers[i] \subseteq AssetKeys(c, i))
        /\ \A j \in Items : DataKey \in AssetKeys(c, i) <=> DataKey \in AssetKeys(c, j)
        /\ c.times[i] \in Seq(Int) \ {<<>>}
        /\ \A m, n \in DOMAIN c.times[i] : m < n => c.times[i][m] < c.times[i][n]
        /\ (\E n \in DOMAIN c.assets[i] : c.assets[i][n].type = "cog") => Len(c.times[i]) = 1

IsQuery(q) ==
    /\ IsCollection(q.collection)
    /\ q.bands \in Seq(ToSet(q.bands)) \ {<<>>} /\ IsInjective(q.bands)
    /\ q.start \in Int
    /\ q.end = OpenEnd \/ q.end \in Int

ASSUME QueriesAssumption == \A q \in Queries : IsQuery(q)

LoadInit ==
    /\ Init
    /\ query \in Queries
    /\ registered \in SUBSET Items
    /\ missing = {}
    /\ stage = "trigger"
    /\ found = <<>>
    /\ entries = <<>>
    /\ cube = {}
    /\ failure = "none"

Data == query.collection

Selected(i) ==
    /\ query.end # OpenEnd => Data.times[i][1] <= query.end
    /\ query.start <= Last(Data.times[i])

-----------------------------------------------------------------------------
(* _group_items_by_media_type                                              *)

Keys(i) == AssetKeys(Data, i)
HasAsset(i, b) == b \in Data.offers[i] /\ Keys(i) \cap {DataKey, b} # {}

AssetOf(i, b) ==
    LET key == IF DataKey \in Keys(i) THEN DataKey ELSE b
        n == CHOOSE m \in DOMAIN Data.assets[i] : Data.assets[i][m].key = key
    IN  Data.assets[i][n]

EntryOf(i, b) == IF HasAsset(i, b) THEN <<[item |-> i, type |-> AssetOf(i, b).type]>>
                                  ELSE <<>>

\* Fault seeded for mutation runs: a band the item lacks ends its loop.
EntriesUntilMissing(items, bands) ==
    FlattenSeq([n \in DOMAIN items |->
        FlattenSeq([m \in DOMAIN bands |->
            IF \A l \in 1..m : HasAsset(items[n], bands[l])
            THEN EntryOf(items[n], bands[m]) ELSE <<>>])])

\* An item enters its group once for every band asked for that it has.
Entries(items, bands) ==
    FlattenSeq([n \in DOMAIN items |->
        FlattenSeq([m \in DOMAIN bands |-> EntryOf(items[n], bands[m])])])

EntryItems == [n \in DOMAIN entries |-> entries[n].item]
Type == entries[1].type

-----------------------------------------------------------------------------
(* The readers. A slice is labelled with a band and a time, has a place on  *)
(* the temporal axis, and holds the image of an item taken at some time.    *)

Slice(band, time, place, item, taken) ==
    [band |-> band, time |-> time, place |-> place, item |-> item, taken |-> taken]
Loaded(slices) == [failure |-> "none", cube |-> slices]
Broken(reason) == [failure |-> reason, cube |-> {}]

FileBands(i) == Data.assets[i][1].holds

\* The files one after the other, in the order of the entries.
Axis(items) ==
    FlattenSeq([n \in DOMAIN items |->
        [m \in DOMAIN Data.times[items[n]] |->
            [item |-> items[n], time |-> Data.times[items[n]][m]]]])

SlicesOf(axis) ==
    {Slice(b, axis[n].time, n, axis[n].item, axis[n].time) :
        b \in ToSet(query.bands), n \in DOMAIN axis}

\* Both readers end with the filter.
Filtered(axis) ==
    IF FilterSlice([n \in DOMAIN axis |-> axis[n].time], query.start, query.end) = NoSlice
    THEN Broken("no time")
    ELSE Loaded(SlicesOf(FilterByTime(axis, query.start, query.end)))

ReadNetcdf(items) ==
    IF \E i \in ToSet(items) : ~(ToSet(query.bands) \subseteq FileBands(i))
    THEN Broken("no band")
    ELSE Filtered(Axis(items))

ReadZarr(items) ==
    IF Len(items) # 1 THEN Broken("entries")
    ELSE IF ~(ToSet(query.bands) \subseteq FileBands(items[1])) THEN Broken("no band")
    ELSE Filtered(Axis(items))

(* The COG reader groups the items once more, by the bands it takes of them; *)
(* a difference of projection or resolution only splits a group for a while. *)
TakenBands(i) ==
    IF DataKey \in Keys(i) THEN SetToSeq(Data.offers[i])
    ELSE FlattenSeq([m \in DOMAIN query.bands |->
            IF query.bands[m] \in Data.offers[i] THEN <<query.bands[m]>> ELSE <<>>])

\* The asset "data" of items with one band is renamed to that band.
Labels(i) ==
    IF DataKey \in Keys(i) /\ Cardinality(Data.offers[i]) # 1
    THEN <<DataKey>> ELSE TakenBands(i)

TimeOf(i) == Data.times[i][1]

\* reindex_like(method="nearest"): of two times equally near the later one.
Nearest(times, t) ==
    LET Distance(u) == IF u < t THEN t - u ELSE u - t
    IN  CHOOSE u \in times : \A v \in times \ {u} :
            Distance(u) < Distance(v) \/ (Distance(u) = Distance(v) /\ v < u)

\* odc-stac sorts the times of a group and merges equal ones. With several
\* groups only the first band of each is kept, on the axis of the first group.
ReadCog(items) ==
    LET Group(i) == {j \in ToSet(items) : TakenBands(j) = TakenBands(i)}
        Times(i) == {TimeOf(j) : j \in Group(i)}
        axis == Times(items[1])
        Kept(i) == IF Group(i) = ToSet(items) THEN ToSet(Labels(i)) ELSE {Labels(i)[1]}
        Shown(t, i) == TimeOf(i) = Nearest(Times(i), t)
        Place(t) == Cardinality({u \in axis : u <= t})
    IN  Loaded(UNION {{Slice(b, t, Place(t), i, TimeOf(i)) :
                            b \in Kept(i), t \in {u \in axis : Shown(u, i)}} :
                        i \in ToSet(items)})

\* The reader of FSTD files indexes the items like dictionaries, which fails.
Read(items, type) ==
    CASE type = "cog" -> ReadCog(items)
      [] type = "netcdf" -> ReadNetcdf(items)
      [] type = "zarr" -> ReadZarr(items)
      [] OTHER -> Broken("reader")

-----------------------------------------------------------------------------
(* load_collection                                                         *)

NoHandler ==
    /\ stage = "trigger" /\ ~Data.handled
    /\ stage' = "search"
    /\ UNCHANGED <<vars, query, registered, missing, found, entries, cube, failure>>

\* trigger_pipeline asks both catalogues and compares the answers.
NothingExternal ==
    /\ stage = "trigger" /\ Data.handled
    /\ ~\E i \in Items : Selected(i)
    /\ stage' = "search"
    /\ UNCHANGED <<vars, query, registered, missing, found, entries, cube, failure>>

Compare ==
    /\ stage = "trigger" /\ Data.handled
    /\ \E i \in Items : Selected(i)
    /\ missing' = {i \in Items \ registered : Selected(i)}
    /\ stage' = "ingest"
    /\ UNCHANGED <<vars, query, registered, found, entries, cube, failure>>

\* A step of run_pipeline, which returns, times out or raises in the end.
Pipeline ==
    \/ \E i \in missing : StartRun(i)
    \/ ToSet(started) = missing /\ AllStarted
    \/ StartFails \/ BeginRound \/ TimedOut \/ AllComplete
    \/ Poll \/ PollFails \/ Retry \/ RetryFails \/ EndRound

\* Fault seeded for mutation runs: a timeout is caught and the search begun.
IngestIgnoresTimeout ==
    /\ stage = "ingest"
    /\ Pipeline
    /\ stage' = CASE pc' \in {"completed", "timeout"} -> "search"
                  [] pc' = "raised" -> "failed"
                  [] OTHER -> "ingest"
    /\ failure' = IF stage' = "failed" THEN "ingestion" ELSE "none"
    /\ UNCHANGED <<query, registered, missing, found, entries, cube>>

Ingest ==
    /\ stage = "ingest"
    /\ Pipeline
    /\ stage' = CASE pc' = "completed" -> "search"
                  [] pc' \in {"timeout", "raised"} -> "failed"
                  [] OTHER -> "ingest"
    /\ failure' = IF stage' = "failed" THEN "ingestion" ELSE "none"
    /\ UNCHANGED <<query, registered, missing, found, entries, cube>>

Fail(reason) ==
    /\ stage' = "failed"
    /\ failure' = reason
    /\ UNCHANGED <<vars, query, registered, missing, found, entries, cube>>

\* The end of the interval is converted although it may be None.
SearchOpenEnd == stage = "search" /\ query.end = OpenEnd /\ Fail("open end")

SearchReversed ==
    /\ stage = "search" /\ query.end # OpenEnd
    /\ query.start > query.end
    /\ Fail("reversed")

\* The catalogue answers in an order of its own.
Search ==
    /\ stage = "search" /\ query.end # OpenEnd
    /\ query.start <= query.end
    /\ LET matched == {i \in registered : Selected(i)}
       IN  \/ matched = {} /\ Fail("no item")
           \/ /\ matched # {}
              /\ found' \in SetToSeqs(matched)
              /\ stage' = "group"
              /\ UNCHANGED <<vars, query, registered, missing, entries, cube, failure>>

\* The items must agree on one media type.
Group ==
    /\ stage = "group"
    /\ entries' = Entries(found, query.bands)
    /\ IF Cardinality({entries'[n].type : n \in DOMAIN entries'}) = 1
       THEN stage' = "load" /\ UNCHANGED failure
       ELSE stage' = "failed" /\ failure' = "types"
    /\ UNCHANGED <<vars, query, registered, missing, found, cube>>

Load ==
    /\ stage = "load"
    /\ LET result == Read(EntryItems, Type)
       IN  /\ failure' = result.failure
           /\ cube' = result.cube
           /\ stage' = IF result.failure = "none" THEN "done" ELSE "failed"
    /\ UNCHANGED <<vars, query, registered, missing, found, entries>>

\* Kubeflow goes on at any time; a run registers its item before it completes.
RunAdvances(i) ==
    /\ Advance(i)
    /\ registered' = IF status'[i] = "Completed" THEN registered \cup {i} ELSE registered
    /\ UNCHANGED <<clientVars, query, missing, stage, found, entries, cube, failure>>

\* What a request does before it has its items.
Request ==
    \/ NoHandler \/ NothingExternal \/ Compare \/ Ingest
    \/ SearchOpenEnd \/ SearchReversed \/ Search

LoadNext == Request \/ Group \/ Load \/ \E i \in Items : RunAdvances(i)

\* The request goes on, whether Kubeflow does or not.
LoadSpec == LoadInit /\ [][LoadNext]_allVars /\ WF_allVars(Request)

-----------------------------------------------------------------------------
(* Properties                                                              *)

\* Every variable holds what the code can store in it.
LoadTypeOK ==
    /\ TypeOK
    /\ IsQuery(query)
    /\ registered \subseteq Items /\ missing \subseteq Items
    /\ stage \in Stages
    /\ found \in Seq(Items)
    /\ entries \in Seq([item : Items, type : Media])
    /\ failure \in Failures
    /\ \A s \in cube : s.item \in ToSet(found) /\ s.taken \in ToSet(Data.times[s.item])
    /\ stage = "failed" <=> failure # "none"

\* The items of one request are ingested before it searches: when the search
\* has answered, no run of the request goes on, and every item it has ingested
\* with success is among the answers.
IngestedIsFound ==
    stage \in {"group", "load", "done"} =>
        \A i \in ToSet(started) :
            /\ Ready(i)
            /\ status[i] = "Completed" => i \in ToSet(found)

Wanted == ToSet(query.bands)

\* What the query asks for: the images of the items found, in the extent.
Images ==
    UNION {{<<b, i, t>> : b \in Wanted \cap Data.offers[i],
                          t \in ToSet(Data.times[i]) \cap (query.start..query.end)} :
        i \in ToSet(found)}

\* The times ascend in the order in which the files are put together.
InOrder ==
    LET axis == Axis(EntryItems)
    IN  \A n \in 1..(Len(axis) - 1) : axis[n].time <= axis[n + 1].time

\* All items are taken with the same bands, under the names of the bands and
\* not that of the asset.
Uniform ==
    \A i, j \in ToSet(found) :
        /\ TakenBands(i) = TakenBands(j)
        /\ ToSet(Labels(i)) \subseteq Wanted \ {DataKey}

\* The files hold no bands that the items do not list.
Listed == \A i \in ToSet(found) : FileBands(i) \subseteq Data.offers[i]

\* A loaded cube shows exactly what was asked for, every image at its own band
\* and time, and once - but in NetCDF files once per band, because an item
\* enters its group once per band. COG items must agree on their bands, or
\* bands are dropped and images shown at the times of others; in other files
\* the times must ascend and one of them lie in the extent, or the temporal
\* filter takes others, and bands the items do not list are not wanted of them.
CubeIsExact ==
    stage = "done"
    /\ (IF Type = "cog" THEN Uniform ELSE InOrder /\ Listed /\ Images # {}) =>
        /\ \A s \in cube : s.time = s.taken /\ <<s.band, s.item, s.taken>> \in Images
        /\ \A image \in Images :
            Cardinality({s \in cube : <<s.band, s.item, s.taken>> = image}) =
                IF Type = "netcdf" THEN Len(query.bands) ELSE 1

\* A request that gets as far as its search is refused only if it asks for
\* nothing that can be loaded, or for one of four things the code cannot do:
\* an open interval, several media types, more than one band or item of Zarr,
\* and files whose times do not ascend.
RefusalsAreDeserved ==
    /\ failure = "no item" => \A i \in ToSet(started) : status[i] # "Completed"
    /\ failure = "types" =>
        ~\E t \in Media : /\ \A i \in ToSet(found), b \in Wanted :
                                b \in Data.offers[i] => AssetOf(i, b).type = t
                          /\ \E i \in ToSet(found) : Data.offers[i] \cap Wanted # {}
    /\ failure = "no band" =>
        \E i \in ToSet(found) : ~(Wanted \subseteq Data.offers[i])
                               \/ ~(Data.offers[i] \subseteq FileBands(i))
    /\ failure = "entries" => Type = "zarr" /\ (Len(found) > 1 \/ Len(query.bands) > 1)
    /\ failure = "no time" => ~InOrder

\* Every request comes to an end of its waiting, whatever Kubeflow does: it has
\* its items, or fails.
ItemsOrFailure == <>(stage \notin {"trigger", "ingest", "search"})
=============================================================================
