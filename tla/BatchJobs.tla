------------------------------ MODULE BatchJobs ------------------------------
(***************************************************************************)
(* Batch jobs of the legacy openeo-python-driver backend: API processes    *)
(* (tensorlakehouse_openeo_driver/batch_jobs.py) and Celery workers        *)
(* (tasks.py) that only share a Redis broker and a Redis result backend.   *)
(*                                                                         *)
(* The broker keeps one message per job.  celeryconfig.py asks for late    *)
(* acknowledgement, so a message that stays unacknowledged, because its    *)
(* worker died or is slower than the visibility timeout, is delivered      *)
(* again and two workers may run the same job.  The backend keeps one row  *)
(* per job; its store_result reads the row, leaves a success alone, and    *)
(* otherwise overwrites the row in a second step.                          *)
(***************************************************************************)
EXTENDS Naturals

CONSTANTS
    Jobs,           \* Celery task ids, which are the job ids of the API
    Workers,        \* worker processes
    Clients,        \* request threads of the API
    Seconds,        \* what the clock may show when a result file is named
    MaxDeliveries,  \* bound on the deliveries of one message
    None            \* Python's None

ASSUME MaxDeliveriesAssumption == MaxDeliveries \in Nat \ {0}
ASSUME NoneAssumption == None \notin Jobs \cup (Jobs \X Seconds)

VARIABLES
    row,         \* result backend: the state and the info of each task
    message,     \* broker: where the message of each job is
    deliveries,  \* how often the message was put into the queue
    bucket,      \* result files in OUTPUT_BUCKET_NAME
    outcomes,    \* history: the final states ever stored for a job
    wpc, wjob,   \* where each worker is, and in which job
    wrow,        \* the row a worker is about to store
    wfile,       \* the result file of the run
    cpc, cjob,   \* where each request is, and on which job
    cinfo,       \* the info start_job has read
    cstate,      \* the state get_job_info has read
    answer       \* the last answer of get_job_info to each client

backendVars == <<row, outcomes>>
brokerVars == <<message, deliveries>>
workerVars == <<wpc, wjob, wrow, wfile>>
clientVars == <<cpc, cjob, cinfo, cstate, answer>>
vars == <<backendVars, brokerVars, bucket, workerVars, clientVars>>

Files == Jobs \X Seconds
States == {"PENDING", "STARTED", "SUCCESS", "FAILURE"}
ReadyStates == {"SUCCESS", "FAILURE"}

\* The info of a row: nothing, the pid and hostname Celery tracks a started
\* task with, the metadata of the process graph, that metadata with the
\* filename and href of the result, or an exception.
Info(kind) == [kind |-> kind, file |-> None]
Asset(f) == [kind |-> "asset", file |-> f]
Infos == {Info(k) : k \in {"none", "pid", "process", "exception"}}
            \cup {Asset(f) : f \in Files}
Row(s, i) == [state |-> s, info |-> i]
Rows == [state : States, info : Infos]
\* A task the backend has no row for reads as pending.
NoRow == Row("PENDING", Info("none"))

WorkerSteps == {"idle", "check", "write", "extract", "execute", "upload",
                "link", "ack"}
ClientSteps == {"idle", "inspect", "fetch", "check", "write"}
Answers == {"none", "queued", "created", "finished", "failed", "unreadable",
            "assets", "no assets"}

Init ==
    /\ row = [j \in Jobs |-> NoRow]
    /\ outcomes = [j \in Jobs |-> {}]
    /\ message = [j \in Jobs |-> "unsent"]
    /\ deliveries = [j \in Jobs |-> 0]
    /\ bucket = {}
    /\ wpc = [w \in Workers |-> "idle"]
    /\ wjob = [w \in Workers |-> None]
    /\ wrow = [w \in Workers |-> NoRow]
    /\ wfile = [w \in Workers |-> None]
    /\ cpc = [c \in Clients |-> "idle"]
    /\ cjob = [c \in Clients |-> None]
    /\ cinfo = [c \in Clients |-> Info("none")]
    /\ cstate = [c \in Clients |-> "PENDING"]
    /\ answer = [c \in Clients |-> "none"]

-----------------------------------------------------------------------------
(* Steps shared by the actions below                                       *)

\* The row r is written over whatever the row of j is.
Overwrite(j, r) ==
    /\ row' = [row EXCEPT ![j] = r]
    /\ outcomes' = [outcomes EXCEPT ![j] = @ \cup ({r.state} \cap ReadyStates)]

WorkerGoes(w, step) ==
    /\ wpc' = [wpc EXCEPT ![w] = step]
    /\ UNCHANGED <<wjob, wrow, wfile>>

\* The worker calls store_result.
WorkerStores(w, r) ==
    /\ wpc' = [wpc EXCEPT ![w] = "check"]
    /\ wrow' = [wrow EXCEPT ![w] = r]
    /\ UNCHANGED <<wjob, wfile>>

WorkerForgets(w) ==
    /\ wpc' = [wpc EXCEPT ![w] = "idle"]
    /\ wjob' = [wjob EXCEPT ![w] = None]
    /\ wrow' = [wrow EXCEPT ![w] = NoRow]
    /\ wfile' = [wfile EXCEPT ![w] = None]

\* What the worker does once the row r is stored, or left alone.
AfterStore(r) ==
    CASE r.info.kind = "pid" -> "extract"
      [] r.info.kind = "process" -> "execute"
      [] OTHER -> "ack"

ClientGoes(c, step) ==
    /\ cpc' = [cpc EXCEPT ![c] = step]
    /\ UNCHANGED <<cjob, cinfo, cstate, answer>>

\* A request for job j begins; the last answer belongs to an older request.
Ask(c, j, step) ==
    /\ cpc[c] = "idle"
    /\ cpc' = [cpc EXCEPT ![c] = step]
    /\ cjob' = [cjob EXCEPT ![c] = j]
    /\ cinfo' = [cinfo EXCEPT ![c] = Info("none")]
    /\ cstate' = [cstate EXCEPT ![c] = row[j].state]

-----------------------------------------------------------------------------
(* Faults seeded for mutation runs: none of them is part of Next.          *)

\* The link is created, and the task returns, before the upload.
ExecuteLink(w, s) ==
    /\ wpc[w] = "execute"
    /\ wfile' = [wfile EXCEPT ![w] = <<wjob[w], s>>]
    /\ wpc' = [wpc EXCEPT ![w] = "link"]
    /\ UNCHANGED <<backendVars, brokerVars, bucket, wjob, wrow, clientVars>>

\* update_state(FAILURE, meta=metadata): no exception in the row.
TaskFailsWithMetadata(w) ==
    /\ wpc[w] \in {"extract", "execute", "upload", "link"}
    /\ WorkerStores(w, Row("FAILURE", Info("process")))
    /\ UNCHANGED <<backendVars, brokerVars, bucket, clientVars>>

\* Every row may be overwritten.
StoreSkipNever(w) ==
    /\ wpc[w] = "check"
    /\ row[wjob[w]].state = "SUCCESS"
    /\ WorkerGoes(w, "write")
    /\ UNCHANGED <<backendVars, brokerVars, bucket, clientVars>>

\* task_acks_late = False: the message is acknowledged when it is received.
ReceiveAndAck(w, j) ==
    /\ wpc[w] = "idle"
    /\ message[j] = "queued"
    /\ message' = [message EXCEPT ![j] = "acked"]
    /\ wpc' = [wpc EXCEPT ![w] = "check"]
    /\ wjob' = [wjob EXCEPT ![w] = j]
    /\ wrow' = [wrow EXCEPT ![w] = Row("STARTED", Info("pid"))]
    /\ UNCHANGED <<backendVars, deliveries, bucket, wfile, clientVars>>

\* A started task is reported as finished.
StatusStartedFinished(s) ==
    CASE s = "PENDING" -> "queued"
      [] s \in {"STARTED", "SUCCESS"} -> "finished"
      [] s = "FAILURE" -> "failed"

-----------------------------------------------------------------------------
(* Broker                                                                  *)

\* A message nobody has acknowledged for the visibility timeout goes back to
\* the queue, whether its worker died or is merely slow.
Redeliver(j) ==
    /\ message[j] = "unacked"
    /\ deliveries[j] < MaxDeliveries
    /\ message' = [message EXCEPT ![j] = "queued"]
    /\ deliveries' = [deliveries EXCEPT ![j] = @ + 1]
    /\ UNCHANGED <<backendVars, bucket, workerVars, clientVars>>

-----------------------------------------------------------------------------
(* Workers                                                                 *)

\* task_track_started: the task is first marked as started by this process.
Receive(w, j) ==
    /\ wpc[w] = "idle"
    /\ message[j] = "queued"
    /\ message' = [message EXCEPT ![j] = "unacked"]
    /\ wpc' = [wpc EXCEPT ![w] = "check"]
    /\ wjob' = [wjob EXCEPT ![w] = j]
    /\ wrow' = [wrow EXCEPT ![w] = Row("STARTED", Info("pid"))]
    /\ UNCHANGED <<backendVars, deliveries, bucket, wfile, clientVars>>

\* store_result reads the row, and leaves a success alone ...
StoreSkip(w) ==
    /\ wpc[w] = "check"
    /\ row[wjob[w]].state = "SUCCESS"
    /\ WorkerGoes(w, AfterStore(wrow[w]))
    /\ UNCHANGED <<backendVars, brokerVars, bucket, clientVars>>

StoreCheck(w) ==
    /\ wpc[w] = "check"
    /\ row[wjob[w]].state # "SUCCESS"
    /\ WorkerGoes(w, "write")
    /\ UNCHANGED <<backendVars, brokerVars, bucket, clientVars>>

\* ... but overwrites it if it came in between.
StoreWrite(w) ==
    /\ wpc[w] = "write"
    /\ Overwrite(wjob[w], wrow[w])
    /\ WorkerGoes(w, AfterStore(wrow[w]))
    /\ UNCHANGED <<brokerVars, bucket, clientVars>>

\* _extract_metadata, then update_state with the metadata of the graph.
ExtractMetadata(w) ==
    /\ wpc[w] = "extract"
    /\ WorkerStores(w, Row("STARTED", Info("process")))
    /\ UNCHANGED <<backendVars, brokerVars, bucket, clientVars>>

\* The graph is executed and its result saved on the worker's disk, in a file
\* named after the second and the job.
Execute(w, s) ==
    /\ wpc[w] = "execute"
    /\ wfile' = [wfile EXCEPT ![w] = <<wjob[w], s>>]
    /\ wpc' = [wpc EXCEPT ![w] = "upload"]
    /\ UNCHANGED <<backendVars, brokerVars, bucket, wjob, wrow, clientVars>>

Upload(w) ==
    /\ wpc[w] = "upload"
    /\ bucket' = bucket \cup {wfile[w]}
    /\ WorkerGoes(w, "link")
    /\ UNCHANGED <<backendVars, brokerVars, clientVars>>

\* The presigned link completes the metadata the task returns.
CreateLink(w) ==
    /\ wpc[w] = "link"
    /\ WorkerStores(w, Row("SUCCESS", Asset(wfile[w])))
    /\ UNCHANGED <<backendVars, brokerVars, bucket, clientVars>>

\* Any part of the task may raise: a graph without the extent it needs, the
\* execution, an unsupported media type, the object store.
TaskFails(w) ==
    /\ wpc[w] \in {"extract", "execute", "upload", "link"}
    /\ WorkerStores(w, Row("FAILURE", Info("exception")))
    /\ UNCHANGED <<backendVars, brokerVars, bucket, clientVars>>

\* Late acknowledgement: only an unacknowledged message is taken away, one
\* that went back to the queue in the meantime stays there.
Ack(w) ==
    /\ wpc[w] = "ack"
    /\ message' = IF message[wjob[w]] = "unacked"
                  THEN [message EXCEPT ![wjob[w]] = "acked"]
                  ELSE message
    /\ WorkerForgets(w)
    /\ UNCHANGED <<backendVars, deliveries, bucket, clientVars>>

\* The whole worker is killed, pod and all; MaxDeliveries also bounds the
\* crashes.
Crash(w) ==
    /\ wpc[w] # "idle"
    /\ deliveries[wjob[w]] < MaxDeliveries
    /\ WorkerForgets(w)
    /\ UNCHANGED <<backendVars, brokerVars, bucket, clientVars>>

-----------------------------------------------------------------------------
(* API                                                                     *)

\* create_job publishes the task: its row is absent until a worker has it.
CreateJob(c, j) ==
    /\ cpc[c] = "idle"
    /\ message[j] = "unsent"
    /\ row[j] = NoRow
    /\ \A d \in Clients : cjob[d] # j
    /\ message' = [message EXCEPT ![j] = "queued"]
    /\ deliveries' = [deliveries EXCEPT ![j] = 1]
    /\ UNCHANGED <<backendVars, bucket, workerVars, clientVars>>

\* mapping_states of get_job_info.
OpeneoStatus(s) ==
    CASE s = "PENDING" -> "queued"
      [] s = "STARTED" -> "created"
      [] s = "SUCCESS" -> "finished"
      [] s = "FAILURE" -> "failed"

\* get_job_info, which is also all that cancel_job, delete_job, get_results
\* and get_log_entries do with a job.  The first read of a finished task
\* is cached with its info and decides the answer ...
InquireReady(c, j) ==
    /\ row[j].state \in ReadyStates
    /\ Ask(c, j, "idle")
    /\ answer' = [answer EXCEPT ![c] = OpeneoStatus(row[j].state)]
    /\ UNCHANGED <<backendVars, brokerVars, bucket, workerVars>>

\* ... while the info of any other task is read again after the state.
InquireState(c, j) ==
    /\ row[j].state \notin ReadyStates
    /\ Ask(c, j, "inspect")
    /\ answer' = [answer EXCEPT ![c] = "none"]
    /\ UNCHANGED <<backendVars, brokerVars, bucket, workerVars>>

\* An exception has no keys(): the AttributeError is not a KeyError.
InquireInfo(c) ==
    /\ cpc[c] = "inspect"
    /\ cpc' = [cpc EXCEPT ![c] = "idle"]
    /\ answer' = [answer EXCEPT ![c] =
            IF row[cjob[c]].info.kind = "exception"
            THEN "unreadable" ELSE OpeneoStatus(cstate[c])]
    /\ UNCHANGED <<backendVars, brokerVars, bucket, workerVars, cjob, cinfo,
                   cstate>>

\* get_result_assets takes whatever info has a filename, in any state, and
\* fails an assertion or a lookup on any other.
ResultAssets(c, j) ==
    /\ Ask(c, j, "idle")
    /\ answer' = [answer EXCEPT ![c] =
            IF row[j].info.kind = "asset" THEN "assets" ELSE "no assets"]
    /\ UNCHANGED <<backendVars, brokerVars, bucket, workerVars>>

\* start_job does nothing for a task that is ready; any other one, also one
\* that was never created, is marked as started with the result it has ...
StartReady(c, j) ==
    /\ row[j].state \in ReadyStates
    /\ Ask(c, j, "idle")
    /\ answer' = [answer EXCEPT ![c] = "none"]
    /\ UNCHANGED <<backendVars, brokerVars, bucket, workerVars>>

StartCheck(c, j) ==
    /\ row[j].state \notin ReadyStates
    /\ Ask(c, j, "fetch")
    /\ answer' = [answer EXCEPT ![c] = "none"]
    /\ UNCHANGED <<backendVars, brokerVars, bucket, workerVars>>

StartFetch(c) ==
    /\ cpc[c] = "fetch"
    /\ cinfo' = [cinfo EXCEPT ![c] = row[cjob[c]].info]
    /\ cpc' = [cpc EXCEPT ![c] = "check"]
    /\ UNCHANGED <<backendVars, brokerVars, bucket, workerVars, cjob, cstate,
                   answer>>

\* ... unless store_result finds a success, or the result has become an
\* exception, which the JSON serializer refuses.
StartSkip(c) ==
    /\ cpc[c] = "check"
    /\ row[cjob[c]].state = "SUCCESS" \/ cinfo[c].kind = "exception"
    /\ ClientGoes(c, "idle")
    /\ UNCHANGED <<backendVars, brokerVars, bucket, workerVars>>

StartStore(c) ==
    /\ cpc[c] = "check"
    /\ row[cjob[c]].state # "SUCCESS" /\ cinfo[c].kind # "exception"
    /\ ClientGoes(c, "write")
    /\ UNCHANGED <<backendVars, brokerVars, bucket, workerVars>>

StartWrite(c) ==
    /\ cpc[c] = "write"
    /\ Overwrite(cjob[c], Row("STARTED", cinfo[c]))
    /\ ClientGoes(c, "idle")
    /\ UNCHANGED <<brokerVars, bucket, workerVars>>

-----------------------------------------------------------------------------
Run(w) ==
    \/ \E j \in Jobs : Receive(w, j)
    \/ StoreSkip(w) \/ StoreCheck(w) \/ StoreWrite(w)
    \/ ExtractMetadata(w) \/ \E s \in Seconds : Execute(w, s)
    \/ Upload(w) \/ CreateLink(w) \/ TaskFails(w) \/ Ack(w)

Request(c) ==
    \/ \E j \in Jobs : CreateJob(c, j) \/ InquireReady(c, j)
                       \/ InquireState(c, j) \/ ResultAssets(c, j)
                       \/ StartReady(c, j) \/ StartCheck(c, j)

Handle(c) == InquireInfo(c) \/ StartFetch(c) \/ StartSkip(c) \/ StartStore(c)
                \/ StartWrite(c)

Next ==
    \/ \E c \in Clients : Request(c) \/ Handle(c)
    \/ \E w \in Workers : Run(w) \/ Crash(w)
    \/ \E j \in Jobs : Redeliver(j)

Spec == Init /\ [][Next]_vars

\* Workers run what they can and their tasks terminate; the broker gives an
\* unacknowledged message back after its visibility timeout.  Clients owe
\* nothing and workers may crash.
Fairness ==
    /\ \A w \in Workers : WF_vars(Run(w))
    /\ \A j \in Jobs : WF_vars(Redeliver(j))

FairSpec == Spec /\ Fairness

-----------------------------------------------------------------------------
(* Properties                                                              *)

\* Every variable holds what the code can store in it.
TypeOK ==
    /\ row \in [Jobs -> Rows]
    /\ outcomes \in [Jobs -> SUBSET ReadyStates]
    /\ message \in [Jobs -> {"unsent", "queued", "unacked", "acked"}]
    /\ deliveries \in [Jobs -> 0..MaxDeliveries]
    /\ bucket \subseteq Files
    /\ wpc \in [Workers -> WorkerSteps]
    /\ wjob \in [Workers -> Jobs \cup {None}]
    /\ wrow \in [Workers -> Rows]
    /\ wfile \in [Workers -> Files \cup {None}]
    /\ cpc \in [Clients -> ClientSteps]
    /\ cjob \in [Clients -> Jobs \cup {None}]
    /\ cinfo \in [Clients -> Infos]
    /\ cstate \in [Clients -> States]
    /\ answer \in [Clients -> Answers]

\* Every result anyone can be told about is in the bucket already, under the
\* name of its own job: in the row, and in the copy of the row that start_job
\* carries from its read to its write.
AssetsAreUploaded ==
    /\ \A j \in Jobs : row[j].info.kind = "asset" =>
          row[j].info.file \in bucket /\ row[j].info.file[1] = j
    /\ \A c \in Clients : cinfo[c].kind = "asset" =>
          cinfo[c].file \in bucket /\ cinfo[c].file[1] = cjob[c]

\* State and info of a row fit together although start_job stores an info it
\* read earlier: a success always carries an asset for get_result_assets, and
\* an exception is found in failures only, where get_job_info raises it.
RowsAreCoherent ==
    \A j \in Jobs :
        /\ row[j].state = "SUCCESS" => row[j].info.kind = "asset"
        /\ row[j].info.kind = "exception" <=> row[j].state = "FAILURE"

\* The broker forgets the message of a job only once an outcome of the job was
\* stored, however many workers ran it and whoever crashed.
AckedIsDecided ==
    \A j \in Jobs : message[j] = "acked" => outcomes[j] # {}

\* get_job_info calls a job finished, and get_result_assets serves a result,
\* only if one of its runs succeeded; get_job_info fails only if one of its
\* runs failed, although it reads state and info of a running task in two
\* steps.
AnswersAreHonest ==
    \A c \in Clients :
        /\ answer[c] \in {"finished", "assets"} =>
              "SUCCESS" \in outcomes[cjob[c]]
        /\ answer[c] \in {"failed", "unreadable"} =>
              "FAILURE" \in outcomes[cjob[c]]

\* A success that nobody is in the middle of overwriting is there for good: no
\* redelivered run and no later start_job takes it away.
Settled(j) ==
    /\ row[j].state = "SUCCESS"
    /\ \A w \in Workers : wjob[w] = j => wpc[w] # "write"
    /\ \A c \in Clients : cjob[c] = j => cpc[c] # "write"

SuccessSettles == [][\A j \in Jobs : Settled(j) => Settled(j)']_vars

\* A created job has an outcome some day, in spite of crashed workers and of
\* workers that acknowledge a message another one is still working on.  (Not
\* every delivery has: a redelivered run may hide a failure and then crash
\* when the failed run has acknowledged the message.)
CreatedJobsDecide ==
    \A j \in Jobs : message[j] = "queued" /\ outcomes[j] = {}
                        ~> row[j].state \in ReadyStates

\* start_job does not touch a task that has finished.
FinishedIsNotRestarted ==
    [][\A c \in Clients : \A j \in Jobs :
            /\ cpc[c] = "write" /\ cpc'[c] = "idle"
            /\ row[j].state \in ReadyStates
         => row'[j] = row[j]]_vars
=============================================================================
