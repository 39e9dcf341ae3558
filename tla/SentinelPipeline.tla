--------------------------- MODULE SentinelPipeline --------------------------
(***************************************************************************)
(* The database pipelines of pipeline/handler/: a request that loads a     *)
(* Sentinel collection compares the items of the data provider with those  *)
(* of the local catalog, inserts a task for every item that is missing,    *)
(* and polls two tables until the ingestion service has processed them or  *)
(* its patience is exhausted.                                              *)
(*                                                                         *)
(* Requests run concurrently and share nothing but the tables.  The        *)
(* ingestion service is not part of the repository: it may process a task  *)
(* and its download in any order the handlers allow for, fail, or stop.    *)
(***************************************************************************)
EXTENDS Integers, SequencesExt

CONSTANTS
    Items,         \* items of the external catalog; each has one task key
    Selections,    \* what the search of each request may find, in order and
                   \* every item once
    Requests,      \* concurrent calls of trigger_pipeline
    MaxIterations  \* polls per task (100 in the code)

ASSUME SelectionsAssumption ==
    \A r \in Requests : \A s \in Selections[r] :
        s \in Seq(Items) /\ IsInjective(s)
ASSUME MaxIterationsAssumption == MaxIterations \in Nat \ {0}

VARIABLES
    tasks,       \* rows of the tasks table: the status of the row a request
                 \* inserted for an item, or "absent"
    downloads,   \* the statuses of the rows of the downloads table for an item
    pc,          \* where each request is
    found,       \* external_items, in order
    todo,        \* positions of the unregistered ones it has still to go through
    params,      \* task_params: the items it waits for
    returned,    \* unregistered_items
    i,           \* index into params
    iterations, quota

tableVars == <<tasks, downloads>>
requestVars == <<pc, found, todo, params, returned, i, iterations, quota>>
vars == <<tableVars, requestVars>>

RowStatuses == {"absent", "pending", "done", "fail"}
Steps == {"idle", "compare", "check", "insert", "loop", "query", "download",
          "returned", "raised"}

Init ==
    /\ tasks = [r \in Requests |-> [x \in Items |-> "absent"]]
    /\ downloads = [x \in Items |-> {}]
    /\ pc = [r \in Requests |-> "idle"]
    /\ found = [r \in Requests |-> <<>>]
    /\ todo = [r \in Requests |-> {}]
    /\ params = [r \in Requests |-> <<>>]
    /\ returned = [r \in Requests |-> {}]
    /\ i = [r \in Requests |-> 0]
    /\ iterations = [r \in Requests |-> 0]
    /\ quota = [r \in Requests |-> 0]

-----------------------------------------------------------------------------
(* The tables as the handlers query them                                   *)

TaskRows(x) == {tasks[r][x] : r \in Requests} \ {"absent"}

\* fetchone returns some matching row, there is no order; None without one.
TaskStatuses(x) == IF TaskRows(x) = {} THEN {"None"} ELSE TaskRows(x)

\* _select_status_from_downloads_table: fetchall returns an empty list, and
\* never None, when no row matches.
DownloadStatus(x) ==
    IF "pending" \in downloads[x] THEN "pending"
    ELSE IF "fail" \in downloads[x] THEN "fail" ELSE "done"

\* An item is in the local catalog once one of its downloads has succeeded.
Registered(x) == "done" \in downloads[x]

\* The next of the unregistered items, in the order of the search.
IsNext(r, n) == n \in todo[r] /\ \A m \in todo[r] : n <= m

Goes(r, step) == pc' = [pc EXCEPT ![r] = step]

\* The request ends with an exception; its local variables are gone.
Raises(r) ==
    /\ Goes(r, "raised")
    /\ found' = [found EXCEPT ![r] = <<>>]
    /\ todo' = [todo EXCEPT ![r] = {}]
    /\ params' = [params EXCEPT ![r] = <<>>]
    /\ returned' = [returned EXCEPT ![r] = {}]
    /\ i' = [i EXCEPT ![r] = 0]
    /\ iterations' = [iterations EXCEPT ![r] = 0]
    /\ quota' = [quota EXCEPT ![r] = 0]
    /\ UNCHANGED tableVars

-----------------------------------------------------------------------------
(* Faults seeded for mutation runs: none of them is part of Next.          *)

\* A task without a row is only skipped.
QueryMissingSkip(r) ==
    /\ pc[r] = "query" /\ i[r] > 0
    /\ "None" \in TaskStatuses(params[r][i[r]])
    /\ i' = [i EXCEPT ![r] = @ - 1]
    /\ UNCHANGED <<tableVars, pc, found, todo, params, returned, iterations, quota>>

\* The downloads table is asked whatever the status of the task.
QueryAnyStatus(r) ==
    /\ pc[r] = "query" /\ i[r] > 0
    /\ \E s \in TaskStatuses(params[r][i[r]]) : s # "None"
    /\ Goes(r, "download")
    /\ UNCHANGED <<tableVars, found, todo, params, returned, i, iterations, quota>>

\* iterations is never incremented.
PassUncounted(r) ==
    /\ pc[r] = "loop"
    /\ params[r] # <<>> /\ iterations[r] < quota[r]
    /\ i' = [i EXCEPT ![r] = Len(params[r])]
    /\ Goes(r, "query")
    /\ UNCHANGED <<tableVars, found, todo, params, returned, iterations, quota>>

-----------------------------------------------------------------------------
(* trigger_pipeline                                                        *)

\* Without external items there is nothing to do.
NoExternalItem(r) ==
    /\ pc[r] = "idle"
    /\ Goes(r, "returned")
    /\ UNCHANGED <<tableVars, found, todo, params, returned, i, iterations, quota>>

SearchExternal(r, items) ==
    /\ pc[r] = "idle"
    /\ found' = [found EXCEPT ![r] = items]
    /\ Goes(r, "compare")
    /\ UNCHANGED <<tableVars, todo, params, returned, i, iterations, quota>>

\* compare_items keeps the items without an equivalent local one, in order.
CompareItems(r) ==
    /\ pc[r] = "compare"
    /\ LET missing == {n \in DOMAIN found[r] : ~Registered(found[r][n])} IN
       /\ todo' = [todo EXCEPT ![r] = missing]
       /\ returned' = [returned EXCEPT ![r] = {found[r][n] : n \in missing}]
    /\ Goes(r, "check")
    /\ UNCHANGED <<tableVars, found, params, i, iterations, quota>>

-----------------------------------------------------------------------------
(* run_pipeline                                                            *)

\* A task somebody has inserted before is neither inserted nor waited for.
TaskKnown(r, n) ==
    /\ pc[r] = "check" /\ IsNext(r, n)
    /\ TaskRows(found[r][n]) # {}
    /\ todo' = [todo EXCEPT ![r] = @ \ {n}]
    /\ UNCHANGED <<tableVars, pc, found, params, returned, i, iterations, quota>>

TaskUnknown(r, n) ==
    /\ pc[r] = "check" /\ IsNext(r, n)
    /\ TaskRows(found[r][n]) = {}
    /\ Goes(r, "insert")
    /\ UNCHANGED <<tableVars, found, todo, params, returned, i, iterations, quota>>

InsertTask(r, n) ==
    /\ pc[r] = "insert" /\ IsNext(r, n)
    /\ tasks' = [tasks EXCEPT ![r][found[r][n]] = "pending"]
    /\ params' = [params EXCEPT ![r] = Append(@, found[r][n])]
    /\ todo' = [todo EXCEPT ![r] = @ \ {n}]
    /\ Goes(r, "check")
    /\ UNCHANGED <<downloads, found, returned, i, iterations, quota>>

\* The error of a failed insertion is only logged: the item is waited for.
InsertFails(r, n) ==
    /\ pc[r] = "insert" /\ IsNext(r, n)
    /\ params' = [params EXCEPT ![r] = Append(@, found[r][n])]
    /\ todo' = [todo EXCEPT ![r] = @ \ {n}]
    /\ Goes(r, "check")
    /\ UNCHANGED <<tableVars, found, returned, i, iterations, quota>>

-----------------------------------------------------------------------------
(* _wait_tasks                                                             *)

WaitTasks(r) ==
    /\ pc[r] = "check" /\ todo[r] = {}
    /\ quota' = [quota EXCEPT ![r] = MaxIterations * Len(params[r])]
    /\ Goes(r, "loop")
    /\ UNCHANGED <<tableVars, found, todo, params, returned, i, iterations>>

\* One pass over the tasks, from the last one to the first.
Pass(r) ==
    /\ pc[r] = "loop"
    /\ params[r] # <<>> /\ iterations[r] < quota[r]
    /\ iterations' = [iterations EXCEPT ![r] = @ + 1]
    /\ i' = [i EXCEPT ![r] = Len(params[r])]
    /\ Goes(r, "query")
    /\ UNCHANGED <<tableVars, found, todo, params, returned, quota>>

\* Done, or out of patience: the caller is not told which.
Return(r) ==
    /\ pc[r] = "loop"
    /\ params[r] = <<>> \/ iterations[r] >= quota[r]
    /\ found' = [found EXCEPT ![r] = <<>>]
    /\ params' = [params EXCEPT ![r] = <<>>]
    /\ Goes(r, "returned")
    /\ UNCHANGED <<tableVars, todo, returned, i, iterations, quota>>

EndPass(r) ==
    /\ pc[r] = "query" /\ i[r] = 0
    /\ Goes(r, "loop")
    /\ UNCHANGED <<tableVars, found, todo, params, returned, i, iterations, quota>>

\* assert isinstance(status_task, str)
QueryMissing(r) ==
    /\ pc[r] = "query" /\ i[r] > 0
    /\ "None" \in TaskStatuses(params[r][i[r]])
    /\ Raises(r)

QueryNotDone(r) ==
    /\ pc[r] = "query" /\ i[r] > 0
    /\ TaskStatuses(params[r][i[r]]) \cap {"pending", "fail"} # {}
    /\ i' = [i EXCEPT ![r] = @ - 1]
    /\ UNCHANGED <<tableVars, pc, found, todo, params, returned, iterations, quota>>

QueryDone(r) ==
    /\ pc[r] = "query" /\ i[r] > 0
    /\ "done" \in TaskStatuses(params[r][i[r]])
    /\ Goes(r, "download")
    /\ UNCHANGED <<tableVars, found, todo, params, returned, i, iterations, quota>>

DownloadDone(r) ==
    /\ pc[r] = "download"
    /\ DownloadStatus(params[r][i[r]]) = "done"
    /\ params' = [params EXCEPT ![r] = RemoveAt(@, i[r])]
    /\ i' = [i EXCEPT ![r] = @ - 1]
    /\ Goes(r, "query")
    /\ UNCHANGED <<tableVars, found, todo, returned, iterations, quota>>

DownloadNotDone(r) ==
    /\ pc[r] = "download"
    /\ DownloadStatus(params[r][i[r]]) # "done"
    /\ i' = [i EXCEPT ![r] = @ - 1]
    /\ Goes(r, "query")
    /\ UNCHANGED <<tableVars, found, todo, params, returned, iterations, quota>>

\* A catalog search or a query fails: the error reaches load_collection.
Raise(r) ==
    /\ pc[r] \in {"idle", "compare", "check", "query", "download"}
    /\ Raises(r)

-----------------------------------------------------------------------------
(* The ingestion service                                                   *)

ProcessTask(r, x, status) ==
    /\ tasks[r][x] = "pending"
    /\ tasks' = [tasks EXCEPT ![r][x] = status]
    /\ UNCHANGED <<downloads, requestVars>>

\* A task may lead to several downloads, and an item may have several tasks.
AddDownload(x) ==
    /\ TaskRows(x) \cap {"pending", "done"} # {}
    /\ downloads' = [downloads EXCEPT ![x] = @ \cup {"pending"}]
    /\ UNCHANGED <<tasks, requestVars>>

EndDownload(x, status) ==
    /\ "pending" \in downloads[x]
    /\ downloads' = [downloads EXCEPT ![x] = (@ \ {"pending"}) \cup {status}]
    /\ UNCHANGED <<tasks, requestVars>>

-----------------------------------------------------------------------------
Handle(r) ==
    \/ CompareItems(r)
    \/ \E n \in todo[r] : \/ TaskKnown(r, n) \/ TaskUnknown(r, n)
                         \/ InsertTask(r, n) \/ InsertFails(r, n)
    \/ WaitTasks(r) \/ Pass(r) \/ Return(r) \/ EndPass(r)
    \/ QueryMissing(r) \/ QueryNotDone(r) \/ QueryDone(r)
    \/ DownloadDone(r) \/ DownloadNotDone(r) \/ Raise(r)

Trigger(r) ==
    \/ NoExternalItem(r)
    \/ \E items \in Selections[r] : SearchExternal(r, items)

Ingest ==
    \E r \in Requests, x \in Items :
        \/ \E s \in {"done", "fail"} : ProcessTask(r, x, s)
        \/ AddDownload(x)
        \/ \E s \in {"done", "fail"} : EndDownload(x, s)

Next == Ingest \/ \E r \in Requests : Trigger(r) \/ Handle(r)

Spec == Init /\ [][Next]_vars

-----------------------------------------------------------------------------
(* Properties                                                              *)

\* Every variable holds what the code can store in it.
TypeOK ==
    /\ tasks \in [Requests -> [Items -> RowStatuses]]
    /\ downloads \in [Items -> SUBSET {"pending", "done", "fail"}]
    /\ pc \in [Requests -> Steps]
    /\ found \in [Requests -> Seq(Items)]
    /\ todo \in [Requests -> SUBSET Nat]
    /\ \A r \in Requests : todo[r] \subseteq DOMAIN found[r]
    /\ params \in [Requests -> Seq(Items)]
    /\ returned \in [Requests -> SUBSET Items]
    /\ i \in [Requests -> Nat]
    /\ iterations \in [Requests -> Nat]
    /\ quota \in [Requests -> Nat]

\* Although the error of a failed insertion is swallowed, no request returns
\* as if all was well while one of the items it found missing has no task.
NoItemForgotten ==
    \A r \in Requests : pc[r] = "returned" =>
        \A x \in returned[r] : TaskRows(x) # {}

\* A request gives up waiting for a task of its own only at the end of its
\* patience: before that every task it inserted has been processed.
OwnTasksAreProcessed ==
    \A r \in Requests : pc[r] = "returned" /\ iterations[r] < quota[r] =>
        \A x \in Items : tasks[r][x] # "absent" => "done" \in TaskRows(x)

\* Every step of a waiting request brings it closer to its end, whether the
\* ingestion service fails, stops or never marks a failed download as done:
\* the passes left, the tasks left in the pass and the queries left for the
\* task decrease lexicographically.
QueriesLeft(step) == CASE step = "query" -> 2 [] step = "download" -> 1
                       [] OTHER -> 0

WaitsLess(r) ==
    LET before == quota[r] - iterations[r]
        after == quota'[r] - iterations'[r]
    IN  /\ before >= after /\ after >= 0
        /\ before = after => i[r] >= i'[r]
        /\ before = after /\ i[r] = i'[r] =>
              QueriesLeft(pc[r]) > QueriesLeft(pc'[r])

Waiting == {"loop", "query", "download"}

WaitsEnd ==
    [][\A r \in Requests :
            /\ pc[r] \in Waiting /\ pc'[r] \in Waiting
            /\ <<pc[r], i[r], iterations[r]>> # <<pc[r], i[r], iterations[r]>>'
         => WaitsLess(r)]_vars
=============================================================================
