--------------------------- MODULE BatchJobsProofs ---------------------------
(***************************************************************************)
(* Proofs about BatchJobs for any number of jobs, workers, clients and     *)
(* deliveries.                                                             *)
(***************************************************************************)
EXTENDS BatchJobs, TLAPS

\* The rows a task stores.
TaskRow(r, j) ==
    \/ r \in {Row("STARTED", Info("pid")), Row("STARTED", Info("process")),
              Row("FAILURE", Info("exception"))}
    \/ \E f \in bucket : f[1] = j /\ r = Row("SUCCESS", Asset(f))

\* A worker past Receive has a job; it has a file once the graph was executed,
\* the link is created for an uploaded file only, what it is about to store
\* fits together, and it acknowledges a job that has an outcome.
WorkerOK(w) ==
    /\ wpc[w] # "idle" => wjob[w] \in Jobs
    /\ wpc[w] \in {"upload", "link"} =>
          wfile[w] \in Files /\ wfile[w][1] = wjob[w]
    /\ wpc[w] = "link" => wfile[w] \in bucket
    /\ wpc[w] \in {"check", "write"} => TaskRow(wrow[w], wjob[w])
    /\ wpc[w] = "ack" => outcomes[wjob[w]] # {}

WorkerInv == \A w \in Workers : WorkerOK(w)

\* What start_job carries is what some row of its job held, and what an answer
\* says of a job is what some row of the job said.
ClientOK(c) ==
    /\ cpc[c] # "idle" => cjob[c] \in Jobs
    /\ cpc[c] = "inspect" => cstate[c] \notin ReadyStates
    /\ cpc[c] = "write" => cinfo[c].kind # "exception"
    /\ cinfo[c].kind = "asset" =>
          /\ cinfo[c].file \in bucket /\ cinfo[c].file[1] = cjob[c]
          /\ cjob[c] \in Jobs /\ "SUCCESS" \in outcomes[cjob[c]]
    /\ answer[c] # "none" => cjob[c] \in Jobs
    /\ answer[c] \in {"finished", "assets"} => "SUCCESS" \in outcomes[cjob[c]]
    /\ answer[c] \in {"failed", "unreadable"} =>
          "FAILURE" \in outcomes[cjob[c]]

ClientInv == \A c \in Clients : ClientOK(c)

\* State, info and history of a row fit together, and a message is acknowledged
\* for a job that has an outcome.
JobOK(j) ==
    /\ row[j].state = "SUCCESS" => row[j].info.kind = "asset"
    /\ row[j].info.kind = "exception" <=> row[j].state = "FAILURE"
    /\ row[j].info.kind = "exception" => "FAILURE" \in outcomes[j]
    /\ row[j].info.kind = "asset" =>
          /\ row[j].info.file \in bucket /\ row[j].info.file[1] = j
          /\ "SUCCESS" \in outcomes[j]
    /\ message[j] = "acked" => outcomes[j] # {}

JobInv == \A j \in Jobs : JobOK(j)

\* The inductive invariant.
Inv ==
    /\ TypeOK
    /\ WorkerInv
    /\ ClientInv
    /\ JobInv

-----------------------------------------------------------------------------
(* Types                                                                   *)

\* A published message has been delivered once.
LEMMA FirstDelivery == 1 \in 0..MaxDeliveries
BY MaxDeliveriesAssumption

LEMMA TypeInit == Init => TypeOK
<1> SUFFICES ASSUME Init PROVE TypeOK
  OBVIOUS
<1>1. NoRow \in Rows /\ Info("none") \in Infos
  BY DEF NoRow, Rows, Row, States, Infos, Info
<1> QED
  BY <1>1, MaxDeliveriesAssumption
     DEF Init, TypeOK, WorkerSteps, ClientSteps, Answers, States

\* What a worker may be about to store, and what it does afterwards.
LEMMA RowTypes ==
  /\ NoRow \in Rows
  /\ Row("STARTED", Info("pid")) \in Rows
  /\ Row("STARTED", Info("process")) \in Rows
  /\ Row("FAILURE", Info("exception")) \in Rows
  /\ \A f \in Files : Row("SUCCESS", Asset(f)) \in Rows
  /\ \A x \in Infos : Row("STARTED", x) \in Rows
  /\ \A r \in Rows : r.info \in Infos /\ r.state \in States
  /\ \A r \in Rows : AfterStore(r) \in {"extract", "execute", "ack"}
BY DEF NoRow, Row, Rows, States, Infos, Info, Asset, AfterStore

\* Every step of a worker keeps the types, given that it knows its job.
LEMMA TypeWorker ==
  ASSUME TypeOK, WorkerInv, NEW w \in Workers, Run(w) \/ Crash(w)
  PROVE  TypeOK'
<1> USE RowTypes DEF TypeOK, backendVars, brokerVars, workerVars, clientVars
<1>1. ASSUME NEW j \in Jobs, Receive(w, j) PROVE TypeOK'
  BY <1>1 DEF Receive, WorkerSteps
<1>2. CASE StoreSkip(w)
  BY <1>2 DEF StoreSkip, WorkerGoes, WorkerSteps
<1>3. CASE StoreCheck(w)
  BY <1>3 DEF StoreCheck, WorkerGoes, WorkerSteps
<1>4. CASE StoreWrite(w)
  <2>1. wjob[w] \in Jobs
    BY <1>4 DEF StoreWrite, WorkerInv, WorkerOK
  <2> QED
    BY <1>4, <2>1 DEF StoreWrite, Overwrite, WorkerGoes, WorkerSteps
<1>5. CASE ExtractMetadata(w)
  BY <1>5 DEF ExtractMetadata, WorkerStores, WorkerSteps
<1>6. ASSUME NEW s \in Seconds, Execute(w, s) PROVE TypeOK'
  <2>1. <<wjob[w], s>> \in Files
    BY <1>6 DEF Execute, WorkerInv, WorkerOK, Files
  <2> QED
    BY <1>6, <2>1 DEF Execute, WorkerSteps
<1>7. CASE Upload(w)
  <2>1. wfile[w] \in Files
    BY <1>7 DEF Upload, WorkerInv, WorkerOK
  <2> QED
    BY <1>7, <2>1 DEF Upload, WorkerGoes, WorkerSteps
<1>8. CASE CreateLink(w)
  <2>1. wfile[w] \in Files
    BY <1>8 DEF CreateLink, WorkerInv, WorkerOK
  <2> QED
    BY <1>8, <2>1 DEF CreateLink, WorkerStores, WorkerSteps
<1>9. CASE TaskFails(w)
  BY <1>9 DEF TaskFails, WorkerStores, WorkerSteps
<1>10. CASE Ack(w)
  BY <1>10 DEF Ack, WorkerForgets, WorkerSteps
<1>11. CASE Crash(w)
  BY <1>11 DEF Crash, WorkerForgets, WorkerSteps
<1> QED
  BY <1>1, <1>2, <1>3, <1>4, <1>5, <1>6, <1>7, <1>8, <1>9, <1>10, <1>11
     DEF Run

\* Every step of a request keeps the types, given that it knows its job.
LEMMA TypeClient ==
  ASSUME TypeOK, ClientInv, NEW c \in Clients, Request(c) \/ Handle(c)
  PROVE  TypeOK'
<1> USE RowTypes DEF TypeOK, backendVars, brokerVars, workerVars, clientVars,
                     ClientSteps, Answers
<1> DEFINE Statuses == {"queued", "created", "finished", "failed"}
<1>0. \A s \in States : OpeneoStatus(s) \in Statuses
  BY DEF OpeneoStatus, States
<1>1. ASSUME NEW j \in Jobs, CreateJob(c, j) PROVE TypeOK'
  BY <1>1, FirstDelivery DEF CreateJob
<1>2. ASSUME NEW j \in Jobs, InquireReady(c, j) PROVE TypeOK'
  BY <1>2, <1>0 DEF InquireReady, Ask, Infos
<1>3. ASSUME NEW j \in Jobs, InquireState(c, j) PROVE TypeOK'
  BY <1>3 DEF InquireState, Ask, Infos
<1>4. ASSUME NEW j \in Jobs, ResultAssets(c, j) PROVE TypeOK'
  BY <1>4 DEF ResultAssets, Ask, Infos
<1>5. ASSUME NEW j \in Jobs, StartReady(c, j) PROVE TypeOK'
  BY <1>5 DEF StartReady, Ask, Infos
<1>6. ASSUME NEW j \in Jobs, StartCheck(c, j) PROVE TypeOK'
  BY <1>6 DEF StartCheck, Ask, Infos
<1>7. CASE InquireInfo(c)
  BY <1>7, <1>0 DEF InquireInfo
<1>8. CASE StartFetch(c)
  <2>1. cjob[c] \in Jobs
    BY <1>8 DEF StartFetch, ClientInv, ClientOK
  <2> QED
    BY <1>8, <2>1 DEF StartFetch
<1>9. CASE StartSkip(c)
  BY <1>9 DEF StartSkip, ClientGoes
<1>10. CASE StartStore(c)
  BY <1>10 DEF StartStore, ClientGoes
<1>11. CASE StartWrite(c)
  <2>1. cjob[c] \in Jobs
    BY <1>11 DEF StartWrite, ClientInv, ClientOK
  <2> QED
    BY <1>11, <2>1 DEF StartWrite, Overwrite, ClientGoes
<1> QED
  BY <1>1, <1>2, <1>3, <1>4, <1>5, <1>6, <1>7, <1>8, <1>9, <1>10, <1>11
     DEF Request, Handle

LEMMA TypeNext ==
  ASSUME TypeOK, WorkerInv, ClientInv, [Next]_vars PROVE TypeOK'
<1>1. CASE UNCHANGED vars
  BY <1>1 DEF vars, backendVars, brokerVars, workerVars, clientVars, TypeOK
<1>2. ASSUME NEW j \in Jobs, Redeliver(j) PROVE TypeOK'
  BY <1>2, MaxDeliveriesAssumption
     DEF Redeliver, TypeOK, backendVars, workerVars, clientVars
<1> QED
  BY <1>1, <1>2, TypeWorker, TypeClient DEF Next

-----------------------------------------------------------------------------
(* Frames: the history and the bucket only grow, so what is known of an     *)
(* actor or a job survives the steps of the others.                         *)

Grows ==
    /\ bucket \subseteq bucket'
    /\ \A j \in Jobs : outcomes[j] \subseteq outcomes'[j]

LEMMA WorkerKept ==
  ASSUME Grows, NEW w \in Workers, WorkerOK(w),
         wpc'[w] = wpc[w], wjob'[w] = wjob[w], wrow'[w] = wrow[w],
         wfile'[w] = wfile[w]
  PROVE  WorkerOK(w)'
<1>1. TaskRow(wrow[w], wjob[w]) => TaskRow(wrow[w], wjob[w])'
  BY DEF TaskRow, Grows
<1> QED
  BY <1>1 DEF WorkerOK, Grows

LEMMA ClientKept ==
  ASSUME Grows, NEW c \in Clients, ClientOK(c),
         cpc'[c] = cpc[c], cjob'[c] = cjob[c], cinfo'[c] = cinfo[c],
         cstate'[c] = cstate[c], answer'[c] = answer[c]
  PROVE  ClientOK(c)'
BY DEF ClientOK, Grows, Answers

LEMMA JobKept ==
  ASSUME Grows, NEW j \in Jobs, JobOK(j), row'[j] = row[j],
         message'[j] = message[j] \/ message'[j] # "acked"
  PROVE  JobOK(j)'
BY DEF JobOK, Grows

\* What the parts of a stored row are.
LEMMA RowParts ==
  /\ \A s, x : Row(s, x).state = s /\ Row(s, x).info = x
  /\ \A k : Info(k).kind = k
  /\ \A f : Asset(f).kind = "asset" /\ Asset(f).file = f
BY DEF Row, Info, Asset

\* Overwriting the row of a job keeps the rows of all jobs in order when the
\* new row fits together.
LEMMA OverwriteKeeps ==
  ASSUME TypeOK, JobInv, NEW j \in Jobs, NEW r \in Rows, Overwrite(j, r),
         UNCHANGED <<bucket, message>>,
         r.state = "SUCCESS" => r.info.kind = "asset",
         r.info.kind = "exception" <=> r.state = "FAILURE",
         r.info.kind = "asset" =>
            /\ r.info.file \in bucket /\ r.info.file[1] = j
            /\ r.state = "SUCCESS" \/ "SUCCESS" \in outcomes[j]
  PROVE  Grows /\ JobInv' /\ outcomes'[j] = outcomes[j] \cup ({r.state} \cap ReadyStates)
<1>1. outcomes'[j] = outcomes[j] \cup ({r.state} \cap ReadyStates)
  BY DEF Overwrite, TypeOK
<1>2. Grows
  BY DEF Grows, Overwrite, TypeOK
<1>3. \A k \in Jobs : JobOK(k)'
  <2> TAKE k \in Jobs
  <2>1. CASE k = j
    <3>1. row'[j] = r
      BY DEF Overwrite, TypeOK
    <3>2. JobOK(j)
      BY DEF JobInv
    <3> QED
      BY <2>1, <3>1, <3>2, <1>1 DEF JobOK, ReadyStates
  <2>2. CASE k # j
    BY <2>2, <1>2, JobKept DEF Overwrite, TypeOK, JobInv
  <2> QED
    BY <2>1, <2>2
<1> QED
  BY <1>1, <1>2, <1>3 DEF JobInv

-----------------------------------------------------------------------------
(* Steps of a worker                                                       *)

\* A step of worker w only has to care for w itself and for the jobs.
LEMMA WorkerStep ==
  ASSUME Inv, NEW w \in Workers, Grows, UNCHANGED clientVars, JobInv',
         WorkerOK(w)',
         \A v \in Workers \ {w} :
            /\ wpc'[v] = wpc[v] /\ wjob'[v] = wjob[v]
            /\ wrow'[v] = wrow[v] /\ wfile'[v] = wfile[v]
  PROVE  (WorkerInv /\ ClientInv /\ JobInv)'
<1>1. \A v \in Workers : WorkerOK(v)'
  BY WorkerKept DEF Inv, WorkerInv
<1>2. \A c \in Clients : ClientOK(c)'
  BY ClientKept DEF Inv, ClientInv, clientVars
<1> QED
  BY <1>1, <1>2 DEF WorkerInv, ClientInv

\* A step that leaves the backend, the messages and the bucket alone.
LEMMA QuietStep ==
  ASSUME Inv, UNCHANGED <<row, outcomes, message, bucket>>
  PROVE  Grows /\ JobInv'
<1>1. Grows
  BY DEF Grows
<1> QED
  BY <1>1, JobKept DEF Inv, JobInv

LEMMA WorkerKeeps ==
  ASSUME Inv, NEW w \in Workers, Run(w) \/ Crash(w)
  PROVE  (WorkerInv /\ ClientInv /\ JobInv)'
<1> USE DEF backendVars, brokerVars, workerVars, clientVars
<1>0. TypeOK /\ WorkerOK(w) /\ JobInv
  BY DEF Inv, WorkerInv
<1>1. ASSUME NEW j \in Jobs, Receive(w, j)
      PROVE  (WorkerInv /\ ClientInv /\ JobInv)'
  <2>1. Grows
    BY <1>1 DEF Receive, Grows
  <2>2. JobInv'
    BY <1>0, <1>1, <2>1, JobKept DEF Receive, JobInv, TypeOK
  <2>3. WorkerOK(w)'
    BY <1>0, <1>1 DEF Receive, WorkerOK, TaskRow, TypeOK
  <2> QED
    BY <1>0, <1>1, <2>1, <2>2, <2>3, WorkerStep DEF Receive, TypeOK
<1>2. CASE StoreSkip(w)
  <2>1. wjob[w] \in Jobs
    BY <1>0, <1>2 DEF StoreSkip, WorkerOK
  <2>2. outcomes[wjob[w]] # {}
    BY <1>0, <1>2, <2>1 DEF StoreSkip, JobInv, JobOK
  <2>3. AfterStore(wrow[w]) \in {"extract", "execute", "ack"}
    BY <1>0, RowTypes DEF TypeOK
  <2>4. WorkerOK(w)'
    BY <1>0, <1>2, <2>1, <2>2, <2>3
       DEF StoreSkip, WorkerGoes, WorkerOK, TypeOK
  <2> QED
    BY <1>0, <1>2, <2>4, QuietStep, WorkerStep
       DEF StoreSkip, WorkerGoes, TypeOK
<1>3. CASE StoreCheck(w)
  <2>1. WorkerOK(w)'
    BY <1>0, <1>3 DEF StoreCheck, WorkerGoes, WorkerOK, TaskRow, TypeOK
  <2> QED
    BY <1>0, <1>3, <2>1, QuietStep, WorkerStep
       DEF StoreCheck, WorkerGoes, TypeOK
<1>4. CASE StoreWrite(w)
  <2> DEFINE j == wjob[w]
             r == wrow[w]
  <2>1. j \in Jobs /\ TaskRow(r, j) /\ r \in Rows
    BY <1>0, <1>4 DEF StoreWrite, WorkerOK, TypeOK
  <2>2. /\ r.state = "SUCCESS" <=> r.info.kind = "asset"
        /\ r.info.kind = "exception" <=> r.state = "FAILURE"
        /\ r.info.kind = "asset" =>
              r.info.file \in bucket /\ r.info.file[1] = j
        /\ r.info.kind \notin {"pid", "process"} => r.state \in ReadyStates
    BY <2>1, RowParts DEF TaskRow, ReadyStates
  <2>3. /\ Grows /\ JobInv'
        /\ outcomes'[j] = outcomes[j] \cup ({r.state} \cap ReadyStates)
    BY <1>0, <1>4, <2>1, <2>2, OverwriteKeeps DEF StoreWrite
  <2>4. /\ AfterStore(r) \in {"extract", "execute", "ack"}
        /\ AfterStore(r) = "ack" => r.info.kind \notin {"pid", "process"}
    BY <2>1, RowTypes DEF AfterStore
  <2>5. WorkerOK(w)'
    BY <1>0, <1>4, <2>1, <2>2, <2>3, <2>4
       DEF StoreWrite, WorkerGoes, WorkerOK, TypeOK
  <2> QED
    BY <1>0, <1>4, <2>3, <2>5, WorkerStep DEF StoreWrite, WorkerGoes, TypeOK
<1>5. CASE ExtractMetadata(w)
  <2>1. WorkerOK(w)'
    BY <1>0, <1>5
       DEF ExtractMetadata, WorkerStores, WorkerOK, TaskRow, TypeOK
  <2> QED
    BY <1>0, <1>5, <2>1, QuietStep, WorkerStep
       DEF ExtractMetadata, WorkerStores, TypeOK
<1>6. ASSUME NEW s \in Seconds, Execute(w, s)
      PROVE  (WorkerInv /\ ClientInv /\ JobInv)'
  <2>1. WorkerOK(w)'
    BY <1>0, <1>6 DEF Execute, WorkerOK, Files, TypeOK
  <2> QED
    BY <1>0, <1>6, <2>1, QuietStep, WorkerStep DEF Execute, TypeOK
<1>7. CASE Upload(w)
  <2>1. Grows
    BY <1>7 DEF Upload, Grows
  <2>2. JobInv'
    BY <1>0, <1>7, <2>1, JobKept DEF Upload, JobInv
  <2>3. WorkerOK(w)'
    BY <1>0, <1>7 DEF Upload, WorkerGoes, WorkerOK, TypeOK
  <2> QED
    BY <1>0, <1>7, <2>1, <2>2, <2>3, WorkerStep
       DEF Upload, WorkerGoes, TypeOK
<1>8. CASE CreateLink(w)
  <2>1. WorkerOK(w)'
    BY <1>0, <1>8 DEF CreateLink, WorkerStores, WorkerOK, TaskRow, TypeOK
  <2> QED
    BY <1>0, <1>8, <2>1, QuietStep, WorkerStep
       DEF CreateLink, WorkerStores, TypeOK
<1>9. CASE TaskFails(w)
  <2>1. WorkerOK(w)'
    BY <1>0, <1>9 DEF TaskFails, WorkerStores, WorkerOK, TaskRow, TypeOK
  <2> QED
    BY <1>0, <1>9, <2>1, QuietStep, WorkerStep
       DEF TaskFails, WorkerStores, TypeOK
<1>10. CASE Ack(w)
  <2>1. Grows
    BY <1>10 DEF Ack, Grows
  <2>2. wjob[w] \in Jobs /\ outcomes[wjob[w]] # {}
    BY <1>0, <1>10 DEF Ack, WorkerOK
  <2>3. \A k \in Jobs : JobOK(k)'
    <3> TAKE k \in Jobs
    <3>1. CASE k = wjob[w]
      BY <1>0, <1>10, <2>2, <3>1 DEF Ack, JobInv, JobOK
    <3>2. CASE k # wjob[w]
      BY <1>0, <1>10, <2>1, <3>2, JobKept DEF Ack, JobInv, TypeOK
    <3> QED
      BY <3>1, <3>2
  <2>4. WorkerOK(w)'
    BY <1>0, <1>10 DEF Ack, WorkerForgets, WorkerOK, TypeOK
  <2> QED
    BY <1>0, <1>10, <2>1, <2>3, <2>4, WorkerStep
       DEF Ack, WorkerForgets, TypeOK, JobInv
<1>11. CASE Crash(w)
  <2>1. WorkerOK(w)'
    BY <1>0, <1>11 DEF Crash, WorkerForgets, WorkerOK, TypeOK
  <2> QED
    BY <1>0, <1>11, <2>1, QuietStep, WorkerStep
       DEF Crash, WorkerForgets, TypeOK
<1> QED
  BY <1>1, <1>2, <1>3, <1>4, <1>5, <1>6, <1>7, <1>8, <1>9, <1>10, <1>11
     DEF Run

-----------------------------------------------------------------------------
(* Steps of a client                                                       *)

LEMMA ClientStep ==
  ASSUME Inv, NEW c \in Clients, Grows, UNCHANGED workerVars, JobInv',
         ClientOK(c)',
         \A d \in Clients \ {c} :
            /\ cpc'[d] = cpc[d] /\ cjob'[d] = cjob[d] /\ cinfo'[d] = cinfo[d]
            /\ cstate'[d] = cstate[d] /\ answer'[d] = answer[d]
  PROVE  (WorkerInv /\ ClientInv /\ JobInv)'
<1>1. \A d \in Clients : ClientOK(d)'
  BY ClientKept DEF Inv, ClientInv
<1>2. \A v \in Workers : WorkerOK(v)'
  BY WorkerKept DEF Inv, WorkerInv, workerVars
<1> QED
  BY <1>1, <1>2 DEF WorkerInv, ClientInv

\* What a status says of the state it stands for.
LEMMA StatusOfState ==
  ASSUME NEW s \in States
  PROVE  /\ OpeneoStatus(s) = "finished" <=> s = "SUCCESS"
         /\ OpeneoStatus(s) = "failed" <=> s = "FAILURE"
         /\ OpeneoStatus(s) \in {"queued", "created", "finished", "failed"}
BY DEF OpeneoStatus, States

LEMMA ClientKeeps ==
  ASSUME Inv, NEW c \in Clients, Request(c) \/ Handle(c)
  PROVE  (WorkerInv /\ ClientInv /\ JobInv)'
<1> USE DEF backendVars, brokerVars, workerVars, clientVars
<1>0. TypeOK /\ ClientOK(c) /\ JobInv
  BY DEF Inv, ClientInv
<1>1. ASSUME NEW j \in Jobs, CreateJob(c, j)
      PROVE  (WorkerInv /\ ClientInv /\ JobInv)'
  <2>1. Grows
    BY <1>1 DEF CreateJob, Grows
  <2>2. JobInv'
    BY <1>0, <1>1, <2>1, JobKept DEF CreateJob, JobInv, TypeOK
  <2>3. ClientOK(c)'
    BY <1>0, <1>1, <2>1, ClientKept DEF CreateJob
  <2> QED
    BY <1>1, <2>1, <2>2, <2>3, ClientStep DEF CreateJob
<1>2. ASSUME NEW j \in Jobs, InquireReady(c, j)
      PROVE  (WorkerInv /\ ClientInv /\ JobInv)'
  <2>1. /\ row[j].state \in States
        /\ row[j].state = "SUCCESS" => "SUCCESS" \in outcomes[j]
        /\ row[j].state = "FAILURE" => "FAILURE" \in outcomes[j]
    BY <1>0 DEF TypeOK, Rows, JobInv, JobOK
  <2>2. ClientOK(c)'
    BY <1>0, <1>2, <2>1, StatusOfState, RowParts
       DEF InquireReady, Ask, ClientOK, TypeOK
  <2> QED
    BY <1>0, <1>2, <2>2, QuietStep, ClientStep DEF InquireReady, Ask, TypeOK
<1>3. ASSUME NEW j \in Jobs, InquireState(c, j)
      PROVE  (WorkerInv /\ ClientInv /\ JobInv)'
  <2>1. ClientOK(c)'
    BY <1>0, <1>3, RowParts DEF InquireState, Ask, ClientOK, TypeOK
  <2> QED
    BY <1>0, <1>3, <2>1, QuietStep, ClientStep DEF InquireState, Ask, TypeOK
<1>4. ASSUME NEW j \in Jobs, ResultAssets(c, j)
      PROVE  (WorkerInv /\ ClientInv /\ JobInv)'
  <2>1. row[j].info.kind = "asset" => "SUCCESS" \in outcomes[j]
    BY <1>0 DEF JobInv, JobOK
  <2>2. ClientOK(c)'
    BY <1>0, <1>4, <2>1, RowParts DEF ResultAssets, Ask, ClientOK, TypeOK
  <2> QED
    BY <1>0, <1>4, <2>2, QuietStep, ClientStep DEF ResultAssets, Ask, TypeOK
<1>5. ASSUME NEW j \in Jobs, StartReady(c, j)
      PROVE  (WorkerInv /\ ClientInv /\ JobInv)'
  <2>1. ClientOK(c)'
    BY <1>0, <1>5, RowParts DEF StartReady, Ask, ClientOK, TypeOK
  <2> QED
    BY <1>0, <1>5, <2>1, QuietStep, ClientStep DEF StartReady, Ask, TypeOK
<1>6. ASSUME NEW j \in Jobs, StartCheck(c, j)
      PROVE  (WorkerInv /\ ClientInv /\ JobInv)'
  <2>1. ClientOK(c)'
    BY <1>0, <1>6, RowParts DEF StartCheck, Ask, ClientOK, TypeOK
  <2> QED
    BY <1>0, <1>6, <2>1, QuietStep, ClientStep DEF StartCheck, Ask, TypeOK
<1>7. CASE InquireInfo(c)
  <2>1. cjob[c] \in Jobs /\ cstate[c] \in States /\ cstate[c] \notin ReadyStates
    BY <1>0, <1>7 DEF InquireInfo, ClientOK, TypeOK
  <2>2. OpeneoStatus(cstate[c]) \in {"queued", "created"}
    BY <2>1, StatusOfState DEF ReadyStates
  <2>3. row[cjob[c]].info.kind = "exception" => "FAILURE" \in outcomes[cjob[c]]
    BY <1>0, <2>1 DEF JobInv, JobOK
  <2>4. ClientOK(c)'
    BY <1>0, <1>7, <2>1, <2>2, <2>3 DEF InquireInfo, ClientOK, TypeOK
  <2> QED
    BY <1>0, <1>7, <2>4, QuietStep, ClientStep DEF InquireInfo, TypeOK
<1>8. CASE StartFetch(c)
  <2>1. cjob[c] \in Jobs
    BY <1>0, <1>8 DEF StartFetch, ClientOK
  <2>2. ClientOK(c)'
    BY <1>0, <1>8, <2>1 DEF StartFetch, ClientOK, JobInv, JobOK, TypeOK
  <2> QED
    BY <1>0, <1>8, <2>2, QuietStep, ClientStep DEF StartFetch, TypeOK
<1>9. CASE StartSkip(c)
  <2>1. ClientOK(c)'
    BY <1>0, <1>9 DEF StartSkip, ClientGoes, ClientOK, TypeOK
  <2> QED
    BY <1>0, <1>9, <2>1, QuietStep, ClientStep
       DEF StartSkip, ClientGoes, TypeOK
<1>10. CASE StartStore(c)
  <2>1. ClientOK(c)'
    BY <1>0, <1>10 DEF StartStore, ClientGoes, ClientOK, TypeOK
  <2> QED
    BY <1>0, <1>10, <2>1, QuietStep, ClientStep
       DEF StartStore, ClientGoes, TypeOK
<1>11. CASE StartWrite(c)
  <2> DEFINE r == Row("STARTED", cinfo[c])
  <2>1. cjob[c] \in Jobs /\ cinfo[c] \in Infos /\ cinfo[c].kind # "exception"
    BY <1>0, <1>11 DEF StartWrite, ClientOK, TypeOK
  <2>2. r \in Rows /\ r.state = "STARTED" /\ r.info = cinfo[c]
    BY <2>1, RowTypes, RowParts
  <2>3. Grows /\ JobInv'
    <3> HIDE DEF r
    <3>1. Overwrite(cjob[c], r)
      BY <1>11 DEF StartWrite, r
    <3>2. r.info.kind = "asset" =>
             /\ r.info.file \in bucket /\ r.info.file[1] = cjob[c]
             /\ "SUCCESS" \in outcomes[cjob[c]]
      BY <1>0, <2>2 DEF ClientOK
    <3>3. UNCHANGED <<bucket, message>>
      BY <1>11 DEF StartWrite
    <3> QED
      BY <1>0, <2>1, <2>2, <3>1, <3>2, <3>3, OverwriteKeeps
  <2>4. ClientOK(c)'
    BY <1>0, <1>11, <2>3 DEF StartWrite, ClientGoes, ClientOK, Grows, TypeOK
  <2> QED
    BY <1>0, <1>11, <2>3, <2>4, ClientStep DEF StartWrite, ClientGoes, TypeOK
<1> QED
  BY <1>1, <1>2, <1>3, <1>4, <1>5, <1>6, <1>7, <1>8, <1>9, <1>10, <1>11
     DEF Request, Handle

-----------------------------------------------------------------------------
(* The invariant and what follows from it                                  *)

LEMMA InvInit == Init => Inv
<1> SUFFICES ASSUME Init PROVE Inv
  OBVIOUS
<1>1. \A w \in Workers : WorkerOK(w)
  BY DEF Init, WorkerOK
<1>2. \A c \in Clients : ClientOK(c)
  BY RowParts DEF Init, ClientOK
<1>3. \A j \in Jobs : JobOK(j)
  <2>1. NoRow.state = "PENDING" /\ NoRow.info.kind = "none"
    BY DEF NoRow, Row, Info
  <2> QED
    BY <2>1 DEF Init, JobOK
<1> QED
  BY <1>1, <1>2, <1>3, TypeInit DEF Inv, WorkerInv, ClientInv, JobInv

LEMMA InvNext == Inv /\ [Next]_vars => Inv'
<1> SUFFICES ASSUME Inv, [Next]_vars PROVE Inv'
  OBVIOUS
<1> USE DEF vars, backendVars, brokerVars, workerVars, clientVars
<1>0. TypeOK'
  BY TypeNext DEF Inv
<1>1. CASE UNCHANGED vars
  BY <1>1, <1>0 DEF Inv, WorkerInv, WorkerOK, TaskRow, ClientInv, ClientOK,
                    JobInv, JobOK
<1>2. ASSUME NEW c \in Clients, Request(c) \/ Handle(c) PROVE Inv'
  BY <1>2, <1>0, ClientKeeps DEF Inv
<1>3. ASSUME NEW w \in Workers, Run(w) \/ Crash(w) PROVE Inv'
  BY <1>3, <1>0, WorkerKeeps DEF Inv
<1>4. ASSUME NEW j \in Jobs, Redeliver(j) PROVE Inv'
  <2>1. Grows
    BY <1>4 DEF Redeliver, Grows
  <2>2. \A k \in Jobs : JobOK(k)'
    BY <1>4, <2>1, JobKept DEF Redeliver, Inv, JobInv, TypeOK
  <2>3. \A w \in Workers : WorkerOK(w)'
    BY <1>4, <2>1, WorkerKept DEF Redeliver, Inv, WorkerInv
  <2>4. \A c \in Clients : ClientOK(c)'
    BY <1>4, <2>1, ClientKept DEF Redeliver, Inv, ClientInv
  <2> QED
    BY <1>0, <2>2, <2>3, <2>4 DEF Inv, WorkerInv, ClientInv, JobInv
<1> QED
  BY <1>1, <1>2, <1>3, <1>4 DEF Next

LEMMA InvAlways == Spec => []Inv
<1> QED
  BY InvInit, InvNext, PTL DEF Spec

\* Every variable keeps its type, whatever requests, workers, crashes and
\* redeliveries do.
THEOREM TypesHold == Spec => []TypeOK
<1>1. Inv => TypeOK
  BY DEF Inv
<1> QED
  BY <1>1, InvAlways, PTL

\* A result that a row names, or that start_job is about to write into a row,
\* is in the bucket under the name of its own job: _upload_output comes before
\* the return of the metadata, and no overwrite mixes up jobs.
THEOREM ResultsAreUploaded == Spec => []AssetsAreUploaded
<1>1. Inv => AssetsAreUploaded
  BY DEF Inv, JobInv, JobOK, ClientInv, ClientOK, AssetsAreUploaded
<1> QED
  BY <1>1, InvAlways, PTL

\* State and info of a row fit together although store_result and start_job
\* write what they prepared from an earlier read.
THEOREM RowsStayCoherent == Spec => []RowsAreCoherent
<1>1. Inv => RowsAreCoherent
  BY DEF Inv, JobInv, JobOK, RowsAreCoherent
<1> QED
  BY <1>1, InvAlways, PTL

\* With late acknowledgement no message is forgotten before its job has an
\* outcome, for any number of workers, crashes and redeliveries.
THEOREM NoJobIsForgotten == Spec => []AckedIsDecided
<1>1. Inv => AckedIsDecided
  BY DEF Inv, JobInv, JobOK, AckedIsDecided
<1> QED
  BY <1>1, InvAlways, PTL

\* No answer of get_job_info or get_result_assets claims an outcome that no run
\* of the job had.
THEOREM AnswersStayHonest == Spec => []AnswersAreHonest
<1>1. Inv => AnswersAreHonest
  BY DEF Inv, ClientInv, ClientOK, AnswersAreHonest
<1> QED
  BY <1>1, InvAlways, PTL

-----------------------------------------------------------------------------
(* A settled success                                                       *)

LEMMA SettledWorker ==
  ASSUME TypeOK, NEW j \in Jobs, Settled(j), NEW w \in Workers,
         Run(w) \/ Crash(w)
  PROVE  Settled(j)'
<1> USE DEF Settled, TypeOK, backendVars, brokerVars, workerVars, clientVars
<1>1. ASSUME NEW k \in Jobs, Receive(w, k) PROVE Settled(j)'
  BY <1>1 DEF Receive
<1>2. CASE StoreSkip(w)
  BY <1>2, RowTypes DEF StoreSkip, WorkerGoes
<1>3. CASE StoreCheck(w)
  BY <1>3 DEF StoreCheck, WorkerGoes
<1>4. CASE StoreWrite(w)
  <2>1. wjob[w] # j
    BY <1>4 DEF StoreWrite
  <2> QED
    BY <1>4, <2>1, RowTypes DEF StoreWrite, Overwrite, WorkerGoes
<1>5. CASE ExtractMetadata(w)
  BY <1>5 DEF ExtractMetadata, WorkerStores
<1>6. ASSUME NEW s \in Seconds, Execute(w, s) PROVE Settled(j)'
  BY <1>6 DEF Execute
<1>7. CASE Upload(w)
  BY <1>7 DEF Upload, WorkerGoes
<1>8. CASE CreateLink(w)
  BY <1>8 DEF CreateLink, WorkerStores
<1>9. CASE TaskFails(w)
  BY <1>9 DEF TaskFails, WorkerStores
<1>10. CASE Ack(w)
  BY <1>10 DEF Ack, WorkerForgets
<1>11. CASE Crash(w)
  BY <1>11 DEF Crash, WorkerForgets
<1> QED
  BY <1>1, <1>2, <1>3, <1>4, <1>5, <1>6, <1>7, <1>8, <1>9, <1>10, <1>11
     DEF Run

LEMMA SettledClient ==
  ASSUME TypeOK, NEW j \in Jobs, Settled(j), NEW c \in Clients,
         Request(c) \/ Handle(c)
  PROVE  Settled(j)'
<1> USE DEF Settled, TypeOK, backendVars, brokerVars, workerVars, clientVars
<1>1. ASSUME NEW k \in Jobs, CreateJob(c, k) PROVE Settled(j)'
  BY <1>1 DEF CreateJob
<1>2. ASSUME NEW k \in Jobs, InquireReady(c, k) PROVE Settled(j)'
  BY <1>2 DEF InquireReady, Ask
<1>3. ASSUME NEW k \in Jobs, InquireState(c, k) PROVE Settled(j)'
  BY <1>3 DEF InquireState, Ask
<1>4. ASSUME NEW k \in Jobs, ResultAssets(c, k) PROVE Settled(j)'
  BY <1>4 DEF ResultAssets, Ask
<1>5. ASSUME NEW k \in Jobs, StartReady(c, k) PROVE Settled(j)'
  BY <1>5 DEF StartReady, Ask
<1>6. ASSUME NEW k \in Jobs, StartCheck(c, k) PROVE Settled(j)'
  BY <1>6 DEF StartCheck, Ask
<1>7. CASE InquireInfo(c)
  BY <1>7 DEF InquireInfo
<1>8. CASE StartFetch(c)
  BY <1>8 DEF StartFetch
<1>9. CASE StartSkip(c)
  BY <1>9 DEF StartSkip, ClientGoes
<1>10. CASE StartStore(c)
  BY <1>10 DEF StartStore, ClientGoes
<1>11. CASE StartWrite(c)
  <2>1. cjob[c] # j
    BY <1>11 DEF StartWrite
  <2> QED
    BY <1>11, <2>1 DEF StartWrite, Overwrite, ClientGoes
<1> QED
  BY <1>1, <1>2, <1>3, <1>4, <1>5, <1>6, <1>7, <1>8, <1>9, <1>10, <1>11
     DEF Request, Handle

\* Once a success is stored and nobody is between the check and the write of
\* store_result, no redelivered run and no start_job takes it away.
THEOREM SuccessIsFinal == Spec => SuccessSettles
<1>1. ASSUME Inv, [Next]_vars, NEW j \in Jobs, Settled(j) PROVE Settled(j)'
  <2>0. TypeOK
    BY <1>1 DEF Inv
  <2>1. CASE UNCHANGED vars
    BY <1>1, <2>1 DEF vars, backendVars, workerVars, clientVars, Settled
  <2>2. ASSUME NEW k \in Jobs, Redeliver(k) PROVE Settled(j)'
    BY <1>1, <2>2 DEF Redeliver, Settled, backendVars, workerVars, clientVars
  <2> QED
    BY <1>1, <2>0, <2>1, <2>2, SettledWorker, SettledClient DEF Next
<1>2. Inv /\ [Next]_vars => [\A j \in Jobs : Settled(j) => Settled(j)']_vars
  BY <1>1
<1> QED
  BY <1>2, InvAlways, PTL DEF Spec, SuccessSettles
=============================================================================
