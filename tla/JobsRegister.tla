---------------------------- MODULE JobsRegister ----------------------------
(***************************************************************************)
(* The in-memory batch-job register of openeo_fastapi_app/jobs.py.         *)
(*                                                                         *)
(* Request handlers are plain "def" endpoints, so each request runs on a   *)
(* thread of its own; the process graphs run on the threads of a           *)
(* ThreadPoolExecutor.  All of them share _JOB_STORE, the record           *)
(* dictionaries stored in it and _JOB_FUTURES.  Some accesses are made     *)
(* under _STORE_LOCK and some are not, so a handler is split exactly where *)
(* another thread can act between two of its accesses to shared state.     *)
(*                                                                         *)
(* A record is one mutable dictionary per job: it outlives its removal     *)
(* from the store in the hands of a handler that looked it up before, so   *)
(* the record's fields are indexed by job whether or not it is stored.     *)
(***************************************************************************)
EXTENDS Sequences

CONSTANTS
    Jobs,      \* job identifiers (uuid4: never used twice)
    Graphs,    \* process graphs a client may send
    Futures,   \* future objects; bounds the number of executor submissions
    Workers,   \* threads of _EXECUTOR (max_workers = 4 in the code)
    Clients,   \* request threads of the web server
    None       \* Python's None

ASSUME NoneAssumption == None \notin Jobs \cup Graphs \cup Futures \cup Workers

VARIABLES
    inStore,     \* the keys of _JOB_STORE
    status,      \* record["status"], "absent" before the record exists
    results,     \* record["results"] is not None
    logs,        \* record["logs"]: which run appended an entry of which level
    process,     \* record["process"]
    registered,  \* _JOB_FUTURES
    fstate,      \* state of each Future
    fjob,        \* first argument of the submitted call
    fgraph,      \* second argument of the submitted call
    queue,       \* work queue of the executor
    wpc, wfut,   \* where each worker thread is, and in which work item
    cpc, cjob, cfut,  \* where each request is, on which job and future
    lock         \* the worker inside a multi-step _STORE_LOCK section, or None

storeVars == <<inStore, status, results, logs, process, registered>>
futureVars == <<fstate, fjob, fgraph, queue>>
workerVars == <<wpc, wfut>>
clientVars == <<cpc, cjob, cfut>>
vars == <<storeVars, futureVars, workerVars, clientVars, lock>>

Statuses == {"created", "running", "finished", "error", "canceled"}
FutureStates == {"unused", "pending", "cancelled", "running", "done", "raised"}
\* The handlers that go through _get_or_404 and then touch shared state.
Operations == {"update", "delete", "results", "start", "cancel"}
ClientSteps == Operations \cup
    {"idle", "return", "submit", "register", "withdraw", "mark"}
WorkerSteps == {"idle", "claim", "begin", "execute", "results", "log",
                "except", "errlog"}
\* Steps a worker takes while it holds _STORE_LOCK.
HoldingSteps == {"results", "log", "errlog"}
LogEntries == [run : Futures, level : {"info", "error"}]

\* The job a worker is working on.
JobOf(w) == fjob[wfut[w]]

Init ==
    /\ inStore = {}
    /\ status = [j \in Jobs |-> "absent"]
    /\ results = [j \in Jobs |-> FALSE]
    /\ logs = [j \in Jobs |-> {}]
    /\ process = [j \in Jobs |-> None]
    /\ registered = [j \in Jobs |-> None]
    /\ fstate = [f \in Futures |-> "unused"]
    /\ fjob = [f \in Futures |-> None]
    /\ fgraph = [f \in Futures |-> None]
    /\ queue = <<>>
    /\ wpc = [w \in Workers |-> "idle"]
    /\ wfut = [w \in Workers |-> None]
    /\ cpc = [c \in Clients |-> "idle"]
    /\ cjob = [c \in Clients |-> None]
    /\ cfut = [c \in Clients |-> None]
    /\ lock = None

-----------------------------------------------------------------------------
(* Steps the handlers and the workers share                                *)

\* The request has been answered; its local variables are gone.
Answer(c) ==
    /\ cpc' = [cpc EXCEPT ![c] = "idle"]
    /\ cjob' = [cjob EXCEPT ![c] = None]
    /\ cfut' = [cfut EXCEPT ![c] = None]

GoOn(c, step) ==
    /\ cpc' = [cpc EXCEPT ![c] = step]
    /\ UNCHANGED <<cjob, cfut>>

\* future.cancel(): only a future nobody has started can be cancelled.
CancelFuture(f) ==
    fstate' = IF f # None /\ fstate[f] = "pending"
              THEN [fstate EXCEPT ![f] = "cancelled"]
              ELSE fstate

WorkerGoes(w, step) ==
    /\ wpc' = [wpc EXCEPT ![w] = step]
    /\ UNCHANGED wfut

\* The work item is over; its Future ends in state s.
WorkerEnds(w, s) ==
    /\ wpc' = [wpc EXCEPT ![w] = "idle"]
    /\ wfut' = [wfut EXCEPT ![w] = None]
    /\ fstate' = [fstate EXCEPT ![wfut[w]] = s]

-----------------------------------------------------------------------------
(* Faults seeded for mutation runs: none of them is part of Next.          *)

\* The record is deleted without taking _STORE_LOCK.
DeleteJobUnlocked(c) ==
    /\ cpc[c] = "delete"
    /\ inStore' = inStore \ {cjob[c]}
    /\ registered' = [registered EXCEPT ![cjob[c]] = None]
    /\ CancelFuture(registered[cjob[c]])
    /\ Answer(c)
    /\ UNCHANGED <<status, results, logs, process, fjob, fgraph, queue,
                   workerVars, lock>>

\* The worker does not look whether the job is still in the store.
BeginUnchecked(w) ==
    /\ wpc[w] = "begin"
    /\ lock = None
    /\ status' = [status EXCEPT ![JobOf(w)] = "running"]
    /\ WorkerGoes(w, "execute")
    /\ UNCHANGED <<inStore, results, logs, process, registered, futureVars,
                   clientVars, lock>>

\* The lock is released between the status and the results.
SucceedUnlocked(w) ==
    /\ wpc[w] = "execute"
    /\ lock = None
    /\ JobOf(w) \in inStore
    /\ status' = [status EXCEPT ![JobOf(w)] = "finished"]
    /\ WorkerGoes(w, "results")
    /\ UNCHANGED <<inStore, results, logs, process, registered, futureVars,
                   clientVars, lock>>

\* A failure after the log entry was appended reaches the except clause.
LogSuccessThenRaise(w) ==
    /\ wpc[w] = "log"
    /\ logs' = [logs EXCEPT ![JobOf(w)] =
                    @ \cup {[run |-> wfut[w], level |-> "info"]}]
    /\ lock' = None
    /\ WorkerGoes(w, "except")
    /\ UNCHANGED <<inStore, status, results, process, registered, futureVars,
                   clientVars>>

\* No except clause: the exception goes straight into the Future.
RaiseUncaught(w) ==
    /\ wpc[w] = "execute"
    /\ WorkerEnds(w, "raised")
    /\ UNCHANGED <<storeVars, fjob, fgraph, queue, clientVars, lock>>

\* A canceled job is left alone when its run fails.
ErrorStatusUnlessCanceled(w) ==
    /\ wpc[w] = "except"
    /\ lock = None
    /\ JobOf(w) \in inStore
    /\ IF status[JobOf(w)] = "canceled"
       THEN /\ WorkerEnds(w, "done")
            /\ UNCHANGED <<status, lock>>
       ELSE /\ status' = [status EXCEPT ![JobOf(w)] = "error"]
            /\ lock' = w
            /\ WorkerGoes(w, "errlog")
            /\ UNCHANGED fstate
    /\ UNCHANGED <<inStore, results, logs, process, registered, fjob, fgraph,
                   queue, clientVars>>

\* acquire() without a with statement: KeyError leaves the lock taken.
ErrorMissingLocked(w) ==
    /\ wpc[w] = "except"
    /\ lock = None
    /\ JobOf(w) \notin inStore
    /\ lock' = w
    /\ WorkerEnds(w, "raised")
    /\ UNCHANGED <<storeVars, fjob, fgraph, queue, clientVars>>

-----------------------------------------------------------------------------
(* Request handlers                                                        *)

\* GET /jobs reads the whole store under the lock.
ListJobs(c) ==
    /\ cpc[c] = "idle"
    /\ lock = None
    /\ UNCHANGED vars

\* POST /jobs inserts a fresh record under the lock.
CreateJob(c, j, g) ==
    /\ cpc[c] = "idle"
    /\ lock = None
    /\ status[j] = "absent"
    /\ status' = [status EXCEPT ![j] = "created"]
    /\ process' = [process EXCEPT ![j] = g]
    /\ inStore' = inStore \cup {j}
    /\ UNCHANGED <<results, logs, registered, futureVars, workerVars,
                   clientVars, lock>>

\* _get_or_404, without the lock, opens every other handler; a request for a
\* job that is not in the store is answered 404 and changes nothing.
GetOr404(c, j, op) ==
    /\ cpc[c] = "idle"
    /\ j \in inStore
    /\ cpc' = [cpc EXCEPT ![c] = op]
    /\ cjob' = [cjob EXCEPT ![c] = j]
    /\ UNCHANGED <<storeVars, futureVars, workerVars, cfut, lock>>

\* PATCH /jobs/{id} writes into the record without the lock.
UpdateJob(c, g) ==
    /\ cpc[c] = "update"
    /\ process' = [process EXCEPT ![cjob[c]] = g]
    /\ Answer(c)
    /\ UNCHANGED <<inStore, status, results, logs, registered, futureVars,
                   workerVars, lock>>

\* DELETE /jobs/{id}: both pops and the cancellation are one locked section.
DeleteJob(c) ==
    /\ cpc[c] = "delete"
    /\ lock = None
    /\ inStore' = inStore \ {cjob[c]}
    /\ registered' = [registered EXCEPT ![cjob[c]] = None]
    /\ CancelFuture(registered[cjob[c]])
    /\ Answer(c)
    /\ UNCHANGED <<status, results, logs, process, fjob, fgraph, queue,
                   workerVars, lock>>

\* GET /jobs/{id}/results reads the status, and the results in a second step.
ResultsNotFinished(c) ==
    /\ cpc[c] = "results"
    /\ status[cjob[c]] # "finished"
    /\ Answer(c)
    /\ UNCHANGED <<storeVars, futureVars, workerVars, lock>>

ResultsCheck(c) ==
    /\ cpc[c] = "results"
    /\ status[cjob[c]] = "finished"
    /\ GoOn(c, "return")
    /\ UNCHANGED <<storeVars, futureVars, workerVars, lock>>

ResultsReturn(c) ==
    /\ cpc[c] = "return"
    /\ Answer(c)
    /\ UNCHANGED <<storeVars, futureVars, workerVars, lock>>

\* POST /jobs/{id}/results: JobLocked, or check, submit and register.
StartLocked(c) ==
    /\ cpc[c] = "start"
    /\ status[cjob[c]] \in {"running", "finished"}
    /\ Answer(c)
    /\ UNCHANGED <<storeVars, futureVars, workerVars, lock>>

StartCheck(c) ==
    /\ cpc[c] = "start"
    /\ status[cjob[c]] \notin {"running", "finished"}
    /\ GoOn(c, "submit")
    /\ UNCHANGED <<storeVars, futureVars, workerVars, lock>>

StartSubmit(c, f) ==
    /\ cpc[c] = "submit"
    /\ fstate[f] = "unused"
    /\ fstate' = [fstate EXCEPT ![f] = "pending"]
    /\ fjob' = [fjob EXCEPT ![f] = cjob[c]]
    /\ fgraph' = [fgraph EXCEPT ![f] = process[cjob[c]]]
    /\ queue' = Append(queue, f)
    /\ cpc' = [cpc EXCEPT ![c] = "register"]
    /\ cfut' = [cfut EXCEPT ![c] = f]
    /\ UNCHANGED <<storeVars, workerVars, cjob, lock>>

\* Every future has been used: the bound on submissions ends the request.
StartExhausted(c) ==
    /\ cpc[c] = "submit"
    /\ \A f \in Futures : fstate[f] # "unused"
    /\ Answer(c)
    /\ UNCHANGED <<storeVars, futureVars, workerVars, lock>>

StartRegister(c) ==
    /\ cpc[c] = "register"
    /\ lock = None
    /\ registered' = [registered EXCEPT ![cjob[c]] = cfut[c]]
    /\ Answer(c)
    /\ UNCHANGED <<inStore, status, results, logs, process, futureVars,
                   workerVars, lock>>

\* cancel_job takes no lock: it reads the future, tries to cancel that one,
\* and overwrites whatever the status has become by then.
CancelLookup(c) ==
    /\ cpc[c] = "cancel"
    /\ cpc' = [cpc EXCEPT ![c] = "withdraw"]
    /\ cfut' = [cfut EXCEPT ![c] = registered[cjob[c]]]
    /\ UNCHANGED <<storeVars, futureVars, workerVars, cjob, lock>>

CancelWithdraw(c) ==
    /\ cpc[c] = "withdraw"
    /\ CancelFuture(cfut[c])
    /\ GoOn(c, "mark")
    /\ UNCHANGED <<storeVars, fjob, fgraph, queue, workerVars, lock>>

CancelMark(c) ==
    /\ cpc[c] = "mark"
    /\ status' = [status EXCEPT ![cjob[c]] = "canceled"]
    /\ Answer(c)
    /\ UNCHANGED <<inStore, results, logs, process, registered, futureVars,
                   workerVars, lock>>

-----------------------------------------------------------------------------
(* Worker threads of the executor                                          *)

\* A worker takes the oldest work item off the queue ...
Take(w) ==
    /\ wpc[w] = "idle"
    /\ queue # <<>>
    /\ wfut' = [wfut EXCEPT ![w] = Head(queue)]
    /\ wpc' = [wpc EXCEPT ![w] = "claim"]
    /\ queue' = Tail(queue)
    /\ UNCHANGED <<storeVars, fstate, fjob, fgraph, clientVars, lock>>

\* ... and runs it, unless its future has been cancelled in the meantime.
Claim(w) ==
    /\ wpc[w] = "claim"
    /\ fstate[wfut[w]] = "pending"
    /\ fstate' = [fstate EXCEPT ![wfut[w]] = "running"]
    /\ WorkerGoes(w, "begin")
    /\ UNCHANGED <<storeVars, fjob, fgraph, queue, clientVars, lock>>

Skip(w) ==
    /\ wpc[w] = "claim"
    /\ fstate[wfut[w]] = "cancelled"
    /\ WorkerEnds(w, "cancelled")
    /\ UNCHANGED <<storeVars, fjob, fgraph, queue, clientVars, lock>>

\* First locked section of _run_process_graph.
Begin(w) ==
    /\ wpc[w] = "begin"
    /\ lock = None
    /\ JobOf(w) \in inStore
    /\ status' = [status EXCEPT ![JobOf(w)] = "running"]
    /\ WorkerGoes(w, "execute")
    /\ UNCHANGED <<inStore, results, logs, process, registered, futureVars,
                   clientVars, lock>>

BeginMissing(w) ==
    /\ wpc[w] = "begin"
    /\ lock = None
    /\ JobOf(w) \notin inStore
    /\ WorkerEnds(w, "done")
    /\ UNCHANGED <<storeVars, fjob, fgraph, queue, clientVars, lock>>

\* The graph has returned: the success section writes the status, the results
\* and the log entry one after the other under the lock.
Succeed(w) ==
    /\ wpc[w] = "execute"
    /\ lock = None
    /\ JobOf(w) \in inStore
    /\ status' = [status EXCEPT ![JobOf(w)] = "finished"]
    /\ lock' = w
    /\ WorkerGoes(w, "results")
    /\ UNCHANGED <<inStore, results, logs, process, registered, futureVars,
                   clientVars>>

\* _JOB_STORE[job_id] raises KeyError inside the try: the job was deleted.
SucceedMissing(w) ==
    /\ wpc[w] = "execute"
    /\ lock = None
    /\ JobOf(w) \notin inStore
    /\ WorkerGoes(w, "except")
    /\ UNCHANGED <<storeVars, futureVars, clientVars, lock>>

StoreResults(w) ==
    /\ wpc[w] = "results"
    /\ results' = [results EXCEPT ![JobOf(w)] = TRUE]
    /\ WorkerGoes(w, "log")
    /\ UNCHANGED <<inStore, status, logs, process, registered, futureVars,
                   clientVars, lock>>

\* The entry appended to record["logs"]; leaving the section releases the lock.
AppendLog(w, level) ==
    /\ logs' = [logs EXCEPT ![JobOf(w)] =
                    @ \cup {[run |-> wfut[w], level |-> level]}]
    /\ lock' = None
    /\ WorkerEnds(w, "done")
    /\ UNCHANGED <<inStore, status, results, process, registered, fjob, fgraph,
                   queue, clientVars>>

LogSuccess(w) == wpc[w] = "log" /\ AppendLog(w, "info")

\* Importing, parsing or executing the graph raised.
Raise(w) ==
    /\ wpc[w] = "execute"
    /\ WorkerGoes(w, "except")
    /\ UNCHANGED <<storeVars, futureVars, clientVars, lock>>

ErrorStatus(w) ==
    /\ wpc[w] = "except"
    /\ lock = None
    /\ JobOf(w) \in inStore
    /\ status' = [status EXCEPT ![JobOf(w)] = "error"]
    /\ lock' = w
    /\ WorkerGoes(w, "errlog")
    /\ UNCHANGED <<inStore, results, logs, process, registered, futureVars,
                   clientVars>>

LogError(w) == wpc[w] = "errlog" /\ AppendLog(w, "error")

\* KeyError again, in the except clause: it ends up in the Future.
ErrorMissing(w) ==
    /\ wpc[w] = "except"
    /\ lock = None
    /\ JobOf(w) \notin inStore
    /\ WorkerEnds(w, "raised")
    /\ UNCHANGED <<storeVars, fjob, fgraph, queue, clientVars, lock>>

-----------------------------------------------------------------------------
\* A client sends a request it has not sent yet ...
Request(c) ==
    \/ ListJobs(c)
    \/ \E j \in Jobs, g \in Graphs : CreateJob(c, j, g)
    \/ \E j \in Jobs, op \in Operations : GetOr404(c, j, op)

\* ... and the handler goes on with it.
Handle(c) ==
    \/ \E g \in Graphs : UpdateJob(c, g)
    \/ DeleteJob(c)
    \/ ResultsNotFinished(c) \/ ResultsCheck(c) \/ ResultsReturn(c)
    \/ StartLocked(c) \/ StartCheck(c)
    \/ \E f \in Futures : StartSubmit(c, f)
    \/ StartExhausted(c) \/ StartRegister(c)
    \/ CancelLookup(c) \/ CancelWithdraw(c) \/ CancelMark(c)

Work(w) ==
    \/ Take(w) \/ Claim(w) \/ Skip(w)
    \/ Begin(w) \/ BeginMissing(w)
    \/ Succeed(w) \/ SucceedMissing(w) \/ StoreResults(w) \/ LogSuccess(w)
    \/ Raise(w) \/ ErrorStatus(w) \/ LogError(w) \/ ErrorMissing(w)

Next ==
    \/ \E c \in Clients : Request(c) \/ Handle(c)
    \/ \E w \in Workers : Work(w)

Spec == Init /\ [][Next]_vars

\* Threads that can run are scheduled, and process graphs terminate: a request
\* that was accepted is handled, while nobody is obliged to send one.
Fairness ==
    /\ \A c \in Clients : WF_vars(Handle(c))
    /\ \A w \in Workers : WF_vars(Work(w))

FairSpec == Spec /\ Fairness

-----------------------------------------------------------------------------
(* Properties                                                              *)

\* Every variable holds what the code can store in it.
TypeOK ==
    /\ inStore \subseteq Jobs
    /\ status \in [Jobs -> Statuses \cup {"absent"}]
    /\ results \in [Jobs -> BOOLEAN]
    /\ logs \in [Jobs -> SUBSET LogEntries]
    /\ process \in [Jobs -> Graphs \cup {None}]
    /\ registered \in [Jobs -> Futures \cup {None}]
    /\ fstate \in [Futures -> FutureStates]
    /\ fjob \in [Futures -> Jobs \cup {None}]
    /\ fgraph \in [Futures -> Graphs \cup {None}]
    /\ queue \in Seq(Futures)
    /\ wpc \in [Workers -> WorkerSteps]
    /\ wfut \in [Workers -> Futures \cup {None}]
    /\ cpc \in [Clients -> ClientSteps]
    /\ cjob \in [Clients -> Jobs \cup {None}]
    /\ cfut \in [Clients -> Futures \cup {None}]
    /\ lock \in Workers \cup {None}

\* A job in the store that says "running" has a worker that will still write
\* its outcome: neither a failing graph, nor a double start, nor a cancel
\* request that races with the worker leaves a job running for ever.
RunningIsLive ==
    \A j \in inStore : status[j] = "running" =>
        \E w \in Workers : wpc[w] \in {"execute", "except"} /\ JobOf(w) = j

\* Seen by whoever takes _STORE_LOCK, a finished job has its results and the
\* log entry of the run that finished it, and a failed one has the entry of a
\* run that failed, whichever runs of the job overlapped.  (get_results takes
\* no lock and may return the None that is about to be overwritten.)
SettledOutcome ==
    lock = None => \A j \in Jobs :
        /\ status[j] = "finished" =>
              results[j] /\ \E e \in logs[j] : e.level = "info"
        /\ status[j] = "error" => \E e \in logs[j] : e.level = "error"

\* A run leaves at most one log entry, in the log of its own job and only once
\* it is done: a cancelled, withdrawn or abandoned run never reports.
OneOutcomePerRun ==
    \A j \in Jobs : \A e \in logs[j] :
        /\ fjob[e.run] = j
        /\ fstate[e.run] = "done"
        /\ \A d \in logs[j] : d.run = e.run => d = e

\* A run that is done left its entry unless the job was deleted, and an
\* exception ends up unseen in a Future only for a deleted job.
CompletedRunsLogged ==
    \A f \in Futures :
        /\ fstate[f] = "done" =>
              \/ fjob[f] \notin inStore
              \/ \E e \in logs[fjob[f]] : e.run = f
        /\ fstate[f] = "raised" => fjob[f] \notin inStore

\* Once a job has been deleted no run writes to its record any more, however
\* far the run had come; only a cancel request that looked the record up
\* before the deletion may still mark it.
SilentAfterDelete ==
    \A j \in Jobs : status[j] # "absent" /\ j \notin inStore =>
        /\ j \notin inStore'
        /\ results'[j] = results[j] /\ logs'[j] = logs[j]
        /\ status'[j] \in {status[j], "canceled"}

DeletedStaysSilent == [][SilentAfterDelete]_vars

\* Every submitted run is picked up and ends, or is cancelled.
SubmittedSettles ==
    \A f \in Futures :
        fstate[f] = "pending" ~> fstate[f] \in {"cancelled", "done", "raised"}

\* A running job leaves the state "running" or the store.
RunningEnds ==
    \A j \in Jobs :
        status[j] = "running" ~> status[j] # "running" \/ j \notin inStore

-----------------------------------------------------------------------------
(* Refinement: a run commits its whole outcome when it writes the status.  *)

RunAt(steps, f) == \E w \in Workers : wfut[w] = f /\ wpc[w] \in steps

\* The job of a worker past the status write has its results, and the entry of
\* its run, before they are stored.
LedgerResults == {j \in Jobs :
    results[j] \/ \E w \in Workers : wpc[w] = "results" /\ JobOf(w) = j}

Reporting(level) == IF level = "info" THEN {"results", "log"} ELSE {"errlog"}

LedgerEntries == [j \in Jobs |-> logs[j] \cup {e \in LogEntries :
    fjob[e.run] = j /\ RunAt(Reporting(e.level), e.run)}]

LedgerRun == [f \in Futures |->
    IF fstate[f] = "unused" THEN "new"
    ELSE IF fstate[f] = "pending" \/ RunAt({"begin"}, f) THEN "pending"
    ELSE IF RunAt({"execute", "except"}, f) THEN "active"
    ELSE "over"]

Ledger == INSTANCE JobLedger WITH
    Runs <- Futures, stored <- inStore, owner <- fjob,
    hasResults <- LedgerResults, entries <- LedgerEntries, run <- LedgerRun

\* The register, with its partly locked handlers, implements the ledger in
\* which status, results and log entry of a run change in one step.
ImplementsLedger == Ledger!Spec
=============================================================================
