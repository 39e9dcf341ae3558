------------------------- MODULE JobsRegisterProofs -------------------------
(***************************************************************************)
(* Theorems about the job register for any number of jobs, submissions,    *)
(* worker threads and concurrent requests.                                 *)
(***************************************************************************)
EXTENDS JobsRegister, Integers, TLAPS

-----------------------------------------------------------------------------
(* Types.  Beside TypeOK, a request past its lookup knows its job and a    *)
(* worker that is not idle knows its work item.                            *)

Locals ==
    /\ \A c \in Clients : cpc[c] # "idle" => cjob[c] \in Jobs
    /\ \A c \in Clients : cpc[c] = "register" => cfut[c] \in Futures
    /\ \A w \in Workers : wpc[w] # "idle" => wfut[w] \in Futures
    /\ \A w \in Workers : wpc[w] # "idle" => fstate[wfut[w]] # "unused"
    /\ \A i \in 1..Len(queue) : fstate[queue[i]] # "unused"
    /\ \A f \in Futures : fstate[f] # "unused" => fjob[f] \in Jobs

TypeInv == TypeOK /\ Locals

LEMMA TypeInit == Init => TypeInv
<1> SUFFICES ASSUME Init PROVE TypeInv
  OBVIOUS
<1>1. TypeOK
  BY DEF Init, TypeOK, Statuses, FutureStates, ClientSteps, WorkerSteps
<1>2. Locals
  BY DEF Init, Locals
<1> QED
  BY <1>1, <1>2 DEF TypeInv

\* A request's first step keeps the types.
LEMMA TypeRequest ==
  ASSUME TypeInv, NEW c \in Clients, Request(c) PROVE TypeInv'
<1> USE DEF TypeInv, TypeOK, Locals, storeVars, futureVars, workerVars,
            clientVars, vars, Statuses, ClientSteps, Operations
<1>1. CASE ListJobs(c)
  BY <1>1 DEF ListJobs
<1>2. ASSUME NEW j \in Jobs, NEW g \in Graphs, CreateJob(c, j, g)
      PROVE  TypeInv'
  BY <1>2 DEF CreateJob
<1>3. ASSUME NEW j \in Jobs, NEW op \in Operations, GetOr404(c, j, op)
      PROVE  TypeInv'
  BY <1>3 DEF GetOr404
<1> QED
  BY <1>1, <1>2, <1>3 DEF Request

\* Every later step of a request keeps the types.
LEMMA TypeHandle ==
  ASSUME TypeInv, NEW c \in Clients, Handle(c) PROVE TypeInv'
<1> USE DEF TypeInv, TypeOK, Locals, storeVars, futureVars, workerVars,
            clientVars, Statuses, FutureStates, ClientSteps, Operations,
            Answer, GoOn, CancelFuture
<1>1. ASSUME NEW g \in Graphs, UpdateJob(c, g) PROVE TypeInv'
  BY <1>1 DEF UpdateJob
<1>2. CASE DeleteJob(c)
  BY <1>2 DEF DeleteJob
<1>3. CASE ResultsNotFinished(c)
  BY <1>3 DEF ResultsNotFinished
<1>4. CASE ResultsCheck(c)
  BY <1>4 DEF ResultsCheck
<1>5. CASE ResultsReturn(c)
  BY <1>5 DEF ResultsReturn
<1>6. CASE StartLocked(c)
  BY <1>6 DEF StartLocked
<1>7. CASE StartCheck(c)
  BY <1>7 DEF StartCheck
<1>8. ASSUME NEW f \in Futures, StartSubmit(c, f) PROVE TypeInv'
  BY <1>8 DEF StartSubmit
<1>9. CASE StartExhausted(c)
  BY <1>9 DEF StartExhausted
<1>10. CASE StartRegister(c)
  BY <1>10 DEF StartRegister
<1>11. CASE CancelLookup(c)
  BY <1>11 DEF CancelLookup
<1>12. CASE CancelWithdraw(c)
  BY <1>12 DEF CancelWithdraw
<1>13. CASE CancelMark(c)
  BY <1>13 DEF CancelMark
<1> QED
  BY <1>1, <1>2, <1>3, <1>4, <1>5, <1>6, <1>7, <1>8, <1>9, <1>10, <1>11,
     <1>12, <1>13 DEF Handle

\* Every step of a worker keeps the types.
LEMMA TypeWork ==
  ASSUME TypeInv, NEW w \in Workers, Work(w) PROVE TypeInv'
<1> USE DEF TypeInv, TypeOK, Locals, storeVars, futureVars, workerVars,
            clientVars, Statuses, FutureStates, WorkerSteps, LogEntries,
            WorkerGoes, WorkerEnds, JobOf
<1>1. CASE Take(w)
  BY <1>1 DEF Take
<1>2. CASE Claim(w)
  BY <1>2 DEF Claim
<1>3. CASE Skip(w)
  BY <1>3 DEF Skip
<1>4. CASE Begin(w)
  BY <1>4 DEF Begin
<1>5. CASE BeginMissing(w)
  BY <1>5 DEF BeginMissing
<1>6. CASE Succeed(w)
  BY <1>6 DEF Succeed
<1>7. CASE SucceedMissing(w)
  BY <1>7 DEF SucceedMissing
<1>8. CASE StoreResults(w)
  BY <1>8 DEF StoreResults
<1>9. CASE LogSuccess(w)
  BY <1>9 DEF LogSuccess, AppendLog
<1>10. CASE Raise(w)
  BY <1>10 DEF Raise
<1>11. CASE ErrorStatus(w)
  BY <1>11 DEF ErrorStatus
<1>12. CASE LogError(w)
  BY <1>12 DEF LogError, AppendLog
<1>13. CASE ErrorMissing(w)
  BY <1>13 DEF ErrorMissing
<1> QED
  BY <1>1, <1>2, <1>3, <1>4, <1>5, <1>6, <1>7, <1>8, <1>9, <1>10, <1>11,
     <1>12, <1>13 DEF Work

LEMMA TypeStep == TypeInv /\ [Next]_vars => TypeInv'
<1> SUFFICES ASSUME TypeInv, [Next]_vars PROVE TypeInv'
  OBVIOUS
<1>1. CASE UNCHANGED vars
  BY <1>1 DEF vars, storeVars, futureVars, workerVars, clientVars,
              TypeInv, TypeOK, Locals
<1>2. CASE Next
  BY <1>2, TypeRequest, TypeHandle, TypeWork DEF Next
<1> QED
  BY <1>1, <1>2

\* TypeOK and the facts about local variables hold in every reachable state.
LEMMA TypeInvariant == Spec => []TypeInv
  BY TypeInit, TypeStep, PTL DEF Spec

\* Every variable of the register keeps its type: each handler and each worker
\* step stores in it only what the code can store there.
THEOREM TypeCorrect == Spec => []TypeOK
<1>1. TypeInv => TypeOK
  BY DEF TypeInv
<1> QED
  BY <1>1, TypeInvariant, PTL

-----------------------------------------------------------------------------
(* A running job has a worker.                                             *)

\* What RunningIsLive needs to be inductive: a job without a record is not in
\* the store, so creating one cannot resurrect a job that was running.
Stored == \A j \in inStore : status[j] # "absent"

LiveInv == RunningIsLive /\ Stored

\* The witness of RunningIsLive survives any step that leaves the worker and
\* its work item alone.
LEMMA LiveRequest ==
  ASSUME TypeInv, LiveInv, NEW c \in Clients, Request(c) PROVE LiveInv'
<1> USE DEF TypeInv, TypeOK, Locals, LiveInv, RunningIsLive, Stored, JobOf,
            storeVars, futureVars, workerVars, clientVars, vars
<1>1. CASE ListJobs(c)
  BY <1>1 DEF ListJobs
<1>2. ASSUME NEW j \in Jobs, NEW g \in Graphs, CreateJob(c, j, g)
      PROVE  LiveInv'
  BY <1>2 DEF CreateJob
<1>3. ASSUME NEW j \in Jobs, NEW op \in Operations, GetOr404(c, j, op)
      PROVE  LiveInv'
  BY <1>3 DEF GetOr404
<1> QED
  BY <1>1, <1>2, <1>3 DEF Request

LEMMA LiveHandle ==
  ASSUME TypeInv, LiveInv, NEW c \in Clients, Handle(c) PROVE LiveInv'
<1> USE DEF TypeInv, TypeOK, Locals, LiveInv, RunningIsLive, Stored, JobOf,
            storeVars, futureVars, workerVars, clientVars, Answer, GoOn,
            CancelFuture
<1>1. ASSUME NEW g \in Graphs, UpdateJob(c, g) PROVE LiveInv'
  BY <1>1 DEF UpdateJob
<1>2. CASE DeleteJob(c)
  BY <1>2 DEF DeleteJob
<1>3. CASE ResultsNotFinished(c)
  BY <1>3 DEF ResultsNotFinished
<1>4. CASE ResultsCheck(c)
  BY <1>4 DEF ResultsCheck
<1>5. CASE ResultsReturn(c)
  BY <1>5 DEF ResultsReturn
<1>6. CASE StartLocked(c)
  BY <1>6 DEF StartLocked
<1>7. CASE StartCheck(c)
  BY <1>7 DEF StartCheck
<1>8. ASSUME NEW f \in Futures, StartSubmit(c, f) PROVE LiveInv'
  BY <1>8 DEF StartSubmit
<1>9. CASE StartExhausted(c)
  BY <1>9 DEF StartExhausted
<1>10. CASE StartRegister(c)
  BY <1>10 DEF StartRegister
<1>11. CASE CancelLookup(c)
  BY <1>11 DEF CancelLookup
<1>12. CASE CancelWithdraw(c)
  BY <1>12 DEF CancelWithdraw
<1>13. CASE CancelMark(c)
  BY <1>13 DEF CancelMark
<1> QED
  BY <1>1, <1>2, <1>3, <1>4, <1>5, <1>6, <1>7, <1>8, <1>9, <1>10, <1>11,
     <1>12, <1>13 DEF Handle

LEMMA LiveWork ==
  ASSUME TypeInv, LiveInv, NEW w \in Workers, Work(w) PROVE LiveInv'
<1> USE DEF TypeInv, TypeOK, Locals, LiveInv, RunningIsLive, Stored, JobOf,
            storeVars, futureVars, workerVars, clientVars, WorkerGoes,
            WorkerEnds
<1>1. CASE Take(w)
  BY <1>1 DEF Take
<1>2. CASE Claim(w)
  BY <1>2 DEF Claim
<1>3. CASE Skip(w)
  BY <1>3 DEF Skip
<1>4. CASE Begin(w)
  BY <1>4 DEF Begin
<1>5. CASE BeginMissing(w)
  BY <1>5 DEF BeginMissing
<1>6. CASE Succeed(w)
  BY <1>6 DEF Succeed
<1>7. CASE SucceedMissing(w)
  BY <1>7 DEF SucceedMissing
<1>8. CASE StoreResults(w)
  BY <1>8 DEF StoreResults
<1>9. CASE LogSuccess(w)
  BY <1>9 DEF LogSuccess, AppendLog
<1>10. CASE Raise(w)
  BY <1>10 DEF Raise
<1>11. CASE ErrorStatus(w)
  BY <1>11 DEF ErrorStatus
<1>12. CASE LogError(w)
  BY <1>12 DEF LogError, AppendLog
<1>13. CASE ErrorMissing(w)
  BY <1>13 DEF ErrorMissing
<1> QED
  BY <1>1, <1>2, <1>3, <1>4, <1>5, <1>6, <1>7, <1>8, <1>9, <1>10, <1>11,
     <1>12, <1>13 DEF Work

\* No stored job is left "running" without a worker that will write its
\* outcome, for any number of overlapping starts, cancellations and deletions.
THEOREM RunningHasWorker == Spec => []RunningIsLive
<1>1. Init => LiveInv
  BY DEF Init, LiveInv, RunningIsLive, Stored
<1>2. TypeInv /\ LiveInv /\ [Next]_vars => LiveInv'
  <2> SUFFICES ASSUME TypeInv, LiveInv, [Next]_vars PROVE LiveInv'
    OBVIOUS
  <2>1. CASE UNCHANGED vars
    BY <2>1 DEF vars, storeVars, futureVars, workerVars, LiveInv,
                RunningIsLive, Stored, JobOf
  <2>2. CASE Next
    BY <2>2, LiveRequest, LiveHandle, LiveWork DEF Next
  <2> QED
    BY <2>1, <2>2
<1>3. LiveInv => RunningIsLive
  BY DEF LiveInv
<1> QED
  BY <1>1, <1>2, <1>3, TypeInvariant, PTL DEF Spec

-----------------------------------------------------------------------------
(* What the locked sections guarantee.                                     *)

\* The lock is held exactly by the worker inside a multi-step section, and the
\* job of that section cannot be deleted meanwhile.
LockInv ==
    /\ \A w \in Workers : wpc[w] \in HoldingSteps <=> lock = w
    /\ \A w \in Workers : wpc[w] \in HoldingSteps => JobOf(w) \in inStore

\* An outcome shown by the status is recorded, or about to be recorded by the
\* worker that holds the lock.
OutcomeInv ==
    \A j \in Jobs :
        /\ status[j] = "finished" =>
              \/ results[j] /\ \E e \in logs[j] : e.level = "info"
              \/ \E w \in Workers : JobOf(w) = j /\ wpc[w] = "results"
              \/ \E w \in Workers :
                    JobOf(w) = j /\ wpc[w] = "log" /\ results[j]
        /\ status[j] = "error" =>
              \/ \E e \in logs[j] : e.level = "error"
              \/ \E w \in Workers : JobOf(w) = j /\ wpc[w] = "errlog"

SectionInv == LockInv /\ OutcomeInv /\ Stored

\* A step that writes neither the store nor the record, and takes no worker into,
\* out of or along a multi-step section, keeps all of this.
LEMMA SectionFrame ==
  ASSUME SectionInv, UNCHANGED <<inStore, status, results, logs, lock>>,
         \A u \in Workers : wpc'[u] \in HoldingSteps <=> wpc[u] \in HoldingSteps,
         \A u \in Workers : wpc[u] \in HoldingSteps =>
             wpc'[u] = wpc[u] /\ JobOf(u)' = JobOf(u)
  PROVE  SectionInv'
<1>1. (LockInv /\ Stored)'
  BY DEF SectionInv, LockInv, Stored
<1>2. OutcomeInv'
  BY DEF SectionInv, OutcomeInv, HoldingSteps
<1> QED
  BY <1>1, <1>2 DEF SectionInv

LEMMA SectionRequest ==
  ASSUME TypeInv, SectionInv, NEW c \in Clients, Request(c) PROVE SectionInv'
<1> USE DEF TypeInv, TypeOK, Locals, JobOf, storeVars, futureVars,
            workerVars, clientVars, HoldingSteps, vars
<1>1. CASE ListJobs(c)
  BY <1>1, SectionFrame DEF ListJobs
<1>2. ASSUME NEW j \in Jobs, NEW g \in Graphs, CreateJob(c, j, g)
      PROVE  SectionInv'
  BY <1>2, NoneAssumption DEF CreateJob, SectionInv, LockInv, OutcomeInv, Stored
<1>3. ASSUME NEW j \in Jobs, NEW op \in Operations, GetOr404(c, j, op)
      PROVE  SectionInv'
  BY <1>3, SectionFrame DEF GetOr404
<1> QED
  BY <1>1, <1>2, <1>3 DEF Request

LEMMA SectionHandle ==
  ASSUME TypeInv, SectionInv, NEW c \in Clients, Handle(c) PROVE SectionInv'
<1> USE DEF TypeInv, TypeOK, Locals, JobOf, storeVars, futureVars,
            workerVars, clientVars, HoldingSteps, Answer, GoOn, CancelFuture
<1>1. ASSUME NEW g \in Graphs, UpdateJob(c, g) PROVE SectionInv'
  BY <1>1, SectionFrame DEF UpdateJob
<1>2. CASE DeleteJob(c)
  BY <1>2, NoneAssumption DEF DeleteJob, SectionInv, LockInv, OutcomeInv, Stored
<1>3. CASE ResultsNotFinished(c)
  BY <1>3, SectionFrame DEF ResultsNotFinished
<1>4. CASE ResultsCheck(c)
  BY <1>4, SectionFrame DEF ResultsCheck
<1>5. CASE ResultsReturn(c)
  BY <1>5, SectionFrame DEF ResultsReturn
<1>6. CASE StartLocked(c)
  BY <1>6, SectionFrame DEF StartLocked
<1>7. CASE StartCheck(c)
  BY <1>7, SectionFrame DEF StartCheck
<1>8. ASSUME NEW f \in Futures, StartSubmit(c, f) PROVE SectionInv'
  BY <1>8, SectionFrame DEF StartSubmit
<1>9. CASE StartExhausted(c)
  BY <1>9, SectionFrame DEF StartExhausted
<1>10. CASE StartRegister(c)
  BY <1>10, SectionFrame DEF StartRegister
<1>11. CASE CancelLookup(c)
  BY <1>11, SectionFrame DEF CancelLookup
<1>12. CASE CancelWithdraw(c)
  BY <1>12, SectionFrame DEF CancelWithdraw
<1>13. CASE CancelMark(c)
  BY <1>13, NoneAssumption DEF CancelMark, SectionInv, LockInv, OutcomeInv, Stored
<1> QED
  BY <1>1, <1>2, <1>3, <1>4, <1>5, <1>6, <1>7, <1>8, <1>9, <1>10, <1>11,
     <1>12, <1>13 DEF Handle

LEMMA SectionWork ==
  ASSUME TypeInv, SectionInv, NEW w \in Workers, Work(w) PROVE SectionInv'
<1> USE DEF TypeInv, TypeOK, Locals, JobOf, storeVars, futureVars,
            workerVars, clientVars, HoldingSteps, WorkerGoes, WorkerEnds
<1>1. CASE Take(w)
  BY <1>1, SectionFrame DEF Take
<1>2. CASE Claim(w)
  BY <1>2, SectionFrame DEF Claim
<1>3. CASE Skip(w)
  BY <1>3, SectionFrame DEF Skip
<1>4. CASE Begin(w)
  BY <1>4, NoneAssumption DEF Begin, SectionInv, LockInv, OutcomeInv, Stored
<1>5. CASE BeginMissing(w)
  BY <1>5, SectionFrame DEF BeginMissing
<1>6. CASE Succeed(w)
  BY <1>6, NoneAssumption DEF Succeed, SectionInv, LockInv, OutcomeInv, Stored
<1>7. CASE SucceedMissing(w)
  BY <1>7, SectionFrame DEF SucceedMissing
<1>8. CASE StoreResults(w)
  BY <1>8, NoneAssumption DEF StoreResults, SectionInv, LockInv, OutcomeInv, Stored
<1>9. CASE LogSuccess(w)
  <2> DEFINE entry == [run |-> wfut[w], level |-> "info"]
  <2>1. /\ wpc[w] = "log" /\ lock = w /\ lock' = None
        /\ entry \in logs'[JobOf(w)]
        /\ \A j \in Jobs : logs[j] \subseteq logs'[j]
        /\ \A u \in Workers : wpc[u] \in HoldingSteps => u = w
    BY <1>9 DEF LogSuccess, AppendLog,
                SectionInv, LockInv
  <2>2. (LockInv /\ Stored)'
    BY <1>9, <2>1, NoneAssumption DEF LogSuccess, AppendLog,
                SectionInv, LockInv, Stored
  <2>3. ASSUME NEW j \in Jobs, j # JobOf(w)
        PROVE  logs'[j] = logs[j] /\ \A u \in Workers : JobOf(u) = j =>
                    JobOf(u)' = j /\ wpc'[u] = wpc[u]
    BY <1>9, <2>3 DEF LogSuccess, AppendLog
  <2>4. UNCHANGED <<status, results>>
    BY <1>9 DEF LogSuccess, AppendLog
  <2>5. OutcomeInv'
    BY <2>1, <2>3, <2>4 DEF SectionInv, OutcomeInv
  <2> QED
    BY <2>2, <2>5 DEF SectionInv
<1>10. CASE Raise(w)
  BY <1>10, SectionFrame DEF Raise
<1>11. CASE ErrorStatus(w)
  BY <1>11, NoneAssumption DEF ErrorStatus, SectionInv, LockInv, OutcomeInv, Stored
<1>12. CASE LogError(w)
  <2> DEFINE entry == [run |-> wfut[w], level |-> "error"]
  <2>1. /\ wpc[w] = "errlog" /\ lock = w /\ lock' = None
        /\ entry \in logs'[JobOf(w)]
        /\ \A j \in Jobs : logs[j] \subseteq logs'[j]
        /\ \A u \in Workers : wpc[u] \in HoldingSteps => u = w
    BY <1>12 DEF LogError, AppendLog,
                SectionInv, LockInv
  <2>2. (LockInv /\ Stored)'
    BY <1>12, <2>1, NoneAssumption DEF LogError, AppendLog,
                SectionInv, LockInv, Stored
  <2>3. ASSUME NEW j \in Jobs, j # JobOf(w)
        PROVE  logs'[j] = logs[j] /\ \A u \in Workers : JobOf(u) = j =>
                    JobOf(u)' = j /\ wpc'[u] = wpc[u]
    BY <1>12, <2>3 DEF LogError, AppendLog
  <2>4. UNCHANGED <<status, results>>
    BY <1>12 DEF LogError, AppendLog
  <2>5. OutcomeInv'
    BY <2>1, <2>3, <2>4 DEF SectionInv, OutcomeInv
  <2> QED
    BY <2>2, <2>5 DEF SectionInv
<1>13. CASE ErrorMissing(w)
  BY <1>13, SectionFrame DEF ErrorMissing
<1> QED
  BY <1>1, <1>2, <1>3, <1>4, <1>5, <1>6, <1>7, <1>8, <1>9, <1>10, <1>11,
     <1>12, <1>13 DEF Work

LEMMA SectionInvariant == Spec => []SectionInv
<1>1. Init => SectionInv
  BY NoneAssumption DEF Init, SectionInv, LockInv, OutcomeInv, Stored,
                        HoldingSteps
<1>2. TypeInv /\ SectionInv /\ [Next]_vars => SectionInv'
  <2> SUFFICES ASSUME TypeInv, SectionInv, [Next]_vars PROVE SectionInv'
    OBVIOUS
  <2>1. CASE UNCHANGED vars
    BY <2>1, SectionFrame DEF vars, storeVars, futureVars, workerVars, JobOf
  <2>2. CASE Next
    BY <2>2, SectionRequest, SectionHandle, SectionWork DEF Next
  <2> QED
    BY <2>1, <2>2
<1> QED
  BY <1>1, <1>2, TypeInvariant, PTL DEF Spec

\* Whoever takes _STORE_LOCK finds the outcome a job's status announces: the
\* results and log entry of a finished job, the log entry of a failed one.
THEOREM OutcomeIsSettled == Spec => []SettledOutcome
<1>1. SectionInv => SettledOutcome
  <2> SUFFICES ASSUME SectionInv, lock = None, NEW j \in Jobs
               PROVE  /\ status[j] = "finished" =>
                            results[j] /\ \E e \in logs[j] : e.level = "info"
                      /\ status[j] = "error" =>
                            \E e \in logs[j] : e.level = "error"
    BY DEF SettledOutcome
  <2>1. \A w \in Workers : wpc[w] \notin HoldingSteps
    BY NoneAssumption DEF SectionInv, LockInv
  <2> QED
    BY <2>1 DEF SectionInv, OutcomeInv, HoldingSteps
<1> QED
  BY <1>1, SectionInvariant, PTL

\* A run whose job was deleted, at whatever moment, writes nothing any more to
\* the record, and no job comes back into the store.
THEOREM DeletedJobsAreSilent == Spec => DeletedStaysSilent
<1>1. TypeInv /\ SectionInv /\ [Next]_vars => [SilentAfterDelete]_vars
  <2> SUFFICES ASSUME TypeInv, SectionInv, Next PROVE SilentAfterDelete
    OBVIOUS
  <2> SUFFICES ASSUME NEW j \in Jobs, status[j] # "absent", j \notin inStore
               PROVE  /\ j \notin inStore'
                      /\ results'[j] = results[j] /\ logs'[j] = logs[j]
                      /\ status'[j] \in {status[j], "canceled"}
    BY DEF SilentAfterDelete
  <2> USE DEF TypeInv, TypeOK, Locals, storeVars, futureVars, workerVars,
              clientVars, vars
  <2>1. ASSUME NEW c \in Clients, Request(c)
        PROVE  UNCHANGED <<results, logs>> /\ j \notin inStore'
               /\ status'[j] = status[j]
    BY <2>1 DEF Request, ListJobs, CreateJob, GetOr404
  <2>2. ASSUME NEW c \in Clients, Handle(c)
        PROVE  UNCHANGED <<results, logs>> /\ j \notin inStore'
               /\ status'[j] \in {status[j], "canceled"}
    BY <2>2 DEF Handle, UpdateJob, DeleteJob, ResultsNotFinished,
                ResultsCheck, ResultsReturn, StartLocked, StartCheck,
                StartSubmit, StartExhausted, StartRegister, CancelLookup,
                CancelWithdraw, CancelMark
  <2>3. ASSUME NEW w \in Workers, Work(w)
        PROVE  /\ j \notin inStore'
               /\ results'[j] = results[j] /\ logs'[j] = logs[j]
               /\ status'[j] = status[j]
    <3>1. wpc[w] \in HoldingSteps => JobOf(w) # j
      BY DEF SectionInv, LockInv
    <3>2. CASE Take(w) \/ Claim(w) \/ Skip(w) \/ BeginMissing(w)
               \/ SucceedMissing(w) \/ Raise(w) \/ ErrorMissing(w)
      BY <3>2 DEF Take, Claim, Skip, BeginMissing, SucceedMissing, Raise,
                  ErrorMissing
    <3>3. CASE Begin(w) \/ Succeed(w) \/ ErrorStatus(w)
      BY <3>3 DEF Begin, Succeed, ErrorStatus
    <3>4. CASE StoreResults(w) \/ LogSuccess(w) \/ LogError(w)
      BY <3>1, <3>4 DEF StoreResults, LogSuccess, LogError, AppendLog,
                        HoldingSteps
    <3> QED
      BY <2>3, <3>2, <3>3, <3>4 DEF Work
  <2> QED
    BY <2>1, <2>2, <2>3 DEF Next
<1> QED
  BY <1>1, TypeInvariant, SectionInvariant, PTL DEF Spec, DeletedStaysSilent

-----------------------------------------------------------------------------
(***************************************************************************)
(* What becomes of a run: it is in one place at a time and reports at most *)
(* once.                                                                   *)
(***************************************************************************)

BusySteps == {"begin", "execute", "results", "log", "except", "errlog"}

\* A work item is in the queue or with one worker, its future says which, and
\* it is never handed out twice.
OwnInv ==
    /\ \A w \in Workers : wpc[w] = "claim" =>
          fstate[wfut[w]] \in {"pending", "cancelled"}
    /\ \A w \in Workers : wpc[w] \in BusySteps => fstate[wfut[w]] = "running"
    /\ \A u, w \in Workers :
          u # w /\ wpc[u] # "idle" /\ wpc[w] # "idle" => wfut[u] # wfut[w]
    /\ \A i \in 1..Len(queue) : fstate[queue[i]] \in {"pending", "cancelled"}
    /\ \A i \in 1..Len(queue), w \in Workers :
          wpc[w] # "idle" => wfut[w] # queue[i]
    /\ \A i, k \in 1..Len(queue) : i # k => queue[i] # queue[k]

\* Cancelling a pending future, or moving between two steps of one run, keeps
\* OwnInv.
LEMMA OwnFrame ==
  ASSUME TypeInv, OwnInv, UNCHANGED <<queue, wfut>>,
         \A f \in Futures : \/ fstate'[f] = fstate[f]
                            \/ fstate[f] = "pending" /\ fstate'[f] = "cancelled",
         \A u \in Workers : \/ wpc'[u] = wpc[u]
                            \/ wpc[u] \in BusySteps /\ wpc'[u] \in BusySteps
  PROVE  OwnInv'
<1> USE DEF TypeInv, TypeOK, Locals, BusySteps
<1>1. \A i \in 1..Len(queue) : queue[i] \in Futures
  OBVIOUS
<1>2. \A u \in Workers :
         /\ wpc'[u] # "idle" => wpc[u] # "idle" /\ wfut[u] \in Futures
         /\ wpc'[u] = "claim" => wpc[u] = "claim"
         /\ wpc'[u] \in BusySteps => wpc[u] \in BusySteps
  OBVIOUS
<1> HIDE DEF BusySteps
<1>3. /\ \A w \in Workers : wpc'[w] = "claim" =>
            fstate'[wfut[w]] \in {"pending", "cancelled"}
      /\ \A w \in Workers : wpc'[w] \in BusySteps =>
            fstate'[wfut[w]] = "running"
  BY <1>2 DEF OwnInv, BusySteps
<1>4. \A i \in 1..Len(queue) : fstate'[queue[i]] \in {"pending", "cancelled"}
  BY <1>1 DEF OwnInv
<1> QED
  BY <1>1, <1>2, <1>3, <1>4 DEF OwnInv

\* So does ending a run, whatever the future says afterwards.
LEMMA OwnEnds ==
  ASSUME TypeInv, OwnInv, NEW w \in Workers, wpc[w] # "idle", NEW s,
         WorkerEnds(w, s), UNCHANGED queue
  PROVE  OwnInv'
<1> USE DEF TypeInv, TypeOK, Locals, BusySteps
<1>1. \A i \in 1..Len(queue) : queue[i] \in Futures /\ queue[i] # wfut[w]
  BY DEF OwnInv
<1>2. \A u \in Workers : wpc'[u] # "idle" =>
          /\ u # w /\ wpc'[u] = wpc[u] /\ wfut'[u] = wfut[u]
          /\ fstate'[wfut[u]] = fstate[wfut[u]]
  BY DEF WorkerEnds, OwnInv
<1> QED
  BY <1>1, <1>2 DEF OwnInv, WorkerEnds

LEMMA OwnStep == TypeInv /\ OwnInv /\ [Next]_vars => OwnInv'
<1> SUFFICES ASSUME TypeInv, OwnInv, [Next]_vars PROVE OwnInv'
  OBVIOUS
<1>1. CASE UNCHANGED vars
  BY <1>1, OwnFrame DEF vars, futureVars, workerVars
<1>2. ASSUME NEW c \in Clients, Request(c) PROVE OwnInv'
  BY <1>2, OwnFrame DEF Request, ListJobs, CreateJob, GetOr404, vars,
                        futureVars, workerVars
<1>3. ASSUME NEW c \in Clients, Handle(c) PROVE OwnInv'
  <2>1. CASE \E f \in Futures : StartSubmit(c, f)
    <3> PICK f \in Futures : StartSubmit(c, f)
      BY <2>1
    <3>1. /\ queue \in Seq(Futures) /\ queue' = Append(queue, f)
          /\ wpc' = wpc /\ wfut' = wfut
          /\ fstate' = [fstate EXCEPT ![f] = "pending"]
          /\ fstate \in [Futures -> FutureStates]
      BY DEF StartSubmit, workerVars, TypeInv, TypeOK
    <3>2. /\ \A w \in Workers : wpc[w] # "idle" =>
                wfut[w] \in Futures /\ wfut[w] # f
          /\ \A i \in 1..Len(queue) : queue[i] \in Futures /\ queue[i] # f
      BY DEF StartSubmit, TypeInv, TypeOK, Locals
    <3>3. /\ Len(queue') = Len(queue) + 1 /\ queue'[Len(queue) + 1] = f
          /\ \A i \in 1..Len(queue) : queue'[i] = queue[i]
          /\ Len(queue) \in Nat
      BY <3>1
    <3>4. \A i \in 1..Len(queue') : i \in 1..Len(queue) \/ queue'[i] = f
      BY <3>3
    <3> QED
      BY <3>1, <3>2, <3>3, <3>4 DEF OwnInv, BusySteps
  <2>2. CASE ~ \E f \in Futures : StartSubmit(c, f)
    <3>1. /\ UNCHANGED <<queue, wfut, wpc>>
          /\ UNCHANGED fstate \/ \E x : CancelFuture(x)
      BY <1>3, <2>2 DEF Handle, UpdateJob, DeleteJob, ResultsNotFinished,
           ResultsCheck, ResultsReturn, StartLocked, StartCheck, StartExhausted,
           StartRegister, CancelLookup, CancelWithdraw, CancelMark,
           futureVars, workerVars
    <3>2. \A f \in Futures : \/ fstate'[f] = fstate[f]
                             \/ fstate[f] = "pending" /\ fstate'[f] = "cancelled"
      BY <3>1 DEF CancelFuture, TypeInv, TypeOK
    <3> QED
      BY <3>1, <3>2, OwnFrame
  <2> QED
    BY <2>1, <2>2
<1>4. ASSUME NEW w \in Workers, Work(w) PROVE OwnInv'
  <2>1. CASE Take(w)
    <3> DEFINE f == Head(queue)
    <3>1. /\ queue \in Seq(Futures) /\ queue # <<>> /\ f = queue[1]
          /\ Len(queue) \in Nat /\ 1 \in 1..Len(queue)
          /\ Len(queue') = Len(queue) - 1
          /\ \A i \in 1..Len(queue') : queue'[i] = queue[i + 1]
          /\ \A i \in 1..Len(queue') : i + 1 \in 1..Len(queue) /\ i + 1 # 1
      BY <2>1 DEF Take, TypeInv, TypeOK
    <3>2. /\ wfut' = [wfut EXCEPT ![w] = f] /\ wpc[w] = "idle"
          /\ wpc' = [wpc EXCEPT ![w] = "claim"] /\ UNCHANGED fstate
          /\ wfut \in [Workers -> Futures \cup {None}]
          /\ wpc \in [Workers -> WorkerSteps]
      BY <2>1 DEF Take, TypeInv, TypeOK
    <3>3. \A u \in Workers : wpc[u] # "idle" => wfut[u] # f
      BY <3>1 DEF OwnInv
    <3>4. fstate[f] \in {"pending", "cancelled"}
      BY <3>1 DEF OwnInv
    <3>5. \A i \in 1..Len(queue') : queue'[i] # f
      BY <3>1 DEF OwnInv
    <3>6. \A i \in 1..Len(queue') : fstate[queue'[i]] \in {"pending", "cancelled"}
      BY <3>1 DEF OwnInv
    <3>7. \A i \in 1..Len(queue'), u \in Workers :
              wpc[u] # "idle" => wfut[u] # queue'[i]
      BY <3>1 DEF OwnInv
    <3>8. \A i, k \in 1..Len(queue') : i # k => queue'[i] # queue'[k]
      BY <3>1 DEF OwnInv
    <3> HIDE DEF f
    <3> QED
      BY <3>2, <3>3, <3>4, <3>5, <3>6, <3>7, <3>8 DEF OwnInv, BusySteps
  <2>2. CASE Claim(w)
    <3>1. \A i \in 1..Len(queue) : queue[i] \in Futures /\ queue[i] # wfut[w]
      BY <2>2 DEF OwnInv, Claim, TypeInv, TypeOK
    <3>2. \A u \in Workers : u # w /\ wpc[u] # "idle" => wfut[u] # wfut[w]
      BY <2>2 DEF OwnInv, Claim
    <3> QED
      BY <2>2, <3>1, <3>2 DEF OwnInv, Claim, WorkerGoes, BusySteps, TypeInv,
                              TypeOK, Locals
  <2>3. CASE Skip(w) \/ BeginMissing(w) \/ LogSuccess(w) \/ LogError(w)
             \/ ErrorMissing(w)
    BY <2>3, OwnEnds DEF Skip, BeginMissing, LogSuccess, LogError,
                         ErrorMissing, AppendLog
  <2>4. CASE Begin(w) \/ Succeed(w) \/ SucceedMissing(w) \/ StoreResults(w)
             \/ Raise(w) \/ ErrorStatus(w)
    BY <2>4, OwnFrame DEF Begin, Succeed, SucceedMissing, StoreResults, Raise,
                          ErrorStatus, WorkerGoes, BusySteps, futureVars,
                          TypeInv, TypeOK
  <2> QED
    BY <1>4, <2>1, <2>2, <2>3, <2>4 DEF Work
<1> QED
  BY <1>1, <1>2, <1>3, <1>4 DEF Next

-----------------------------------------------------------------------------
(* Reports                                                                 *)

\* The job of a request and of a run has been created.
Known ==
    /\ \A c \in Clients : cpc[c] # "idle" => status[cjob[c]] # "absent"
    /\ \A f \in Futures : fstate[f] # "unused" => status[fjob[f]] # "absent"
    /\ Stored

ReportInv == OneOutcomePerRun /\ CompletedRunsLogged

LEMMA KnownStep == TypeInv /\ Known /\ [Next]_vars => Known'
<1> SUFFICES ASSUME TypeInv, Known, [Next]_vars PROVE Known'
  OBVIOUS
<1> USE DEF TypeInv, TypeOK, Locals, storeVars, futureVars, workerVars,
            clientVars
<1>1. CASE UNCHANGED vars
  BY <1>1 DEF vars, Known, Stored
<1>2. ASSUME NEW c \in Clients, Request(c) PROVE Known'
  <2>1. CASE ListJobs(c)
    BY <2>1 DEF ListJobs, vars, Known, Stored
  <2>2. ASSUME NEW j \in Jobs, NEW g \in Graphs, CreateJob(c, j, g)
        PROVE  Known'
    BY <2>2 DEF CreateJob, Known, Stored
  <2>3. ASSUME NEW j \in Jobs, NEW op \in Operations, GetOr404(c, j, op)
        PROVE  Known'
    BY <2>3 DEF GetOr404, Known, Stored, Operations
  <2> QED
    BY <1>2, <2>1, <2>2, <2>3 DEF Request
<1>3. ASSUME NEW c \in Clients, Handle(c) PROVE Known'
  <2>1. ASSUME NEW f \in Futures, StartSubmit(c, f) PROVE Known'
    BY <2>1 DEF StartSubmit, Known, Stored
  <2>2. CASE CancelMark(c)
    BY <2>2 DEF CancelMark, Answer, Known, Stored
  <2>3. CASE DeleteJob(c) \/ CancelWithdraw(c)
    BY <2>3 DEF DeleteJob, CancelWithdraw, CancelFuture, Answer, GoOn, Known,
                Stored
  <2>4. CASE (\E g \in Graphs : UpdateJob(c, g)) \/ ResultsNotFinished(c)
             \/ ResultsCheck(c) \/ ResultsReturn(c) \/ StartLocked(c)
             \/ StartCheck(c) \/ StartExhausted(c) \/ StartRegister(c)
             \/ CancelLookup(c)
    BY <2>4 DEF UpdateJob, ResultsNotFinished, ResultsCheck, ResultsReturn,
                StartLocked, StartCheck, StartExhausted, StartRegister,
                CancelLookup, Answer, GoOn, Known, Stored
  <2> QED
    BY <1>3, <2>1, <2>2, <2>3, <2>4 DEF Handle
<1>4. ASSUME NEW w \in Workers, Work(w) PROVE Known'
  <2>1. CASE Begin(w) \/ Succeed(w) \/ ErrorStatus(w)
    BY <2>1 DEF Begin, Succeed, ErrorStatus, WorkerGoes, JobOf, Known, Stored
  <2>2. CASE Claim(w) \/ Skip(w) \/ BeginMissing(w) \/ LogSuccess(w)
             \/ LogError(w) \/ ErrorMissing(w)
    BY <2>2 DEF Claim, Skip, BeginMissing, LogSuccess, LogError, ErrorMissing,
                AppendLog, WorkerGoes, WorkerEnds, Known, Stored
  <2>3. CASE Take(w) \/ SucceedMissing(w) \/ StoreResults(w) \/ Raise(w)
    BY <2>3 DEF Take, SucceedMissing, StoreResults, Raise, WorkerGoes, Known,
                Stored
  <2> QED
    BY <1>4, <2>1, <2>2, <2>3 DEF Work
<1> QED
  BY <1>1, <1>2, <1>3, <1>4 DEF Next

\* Reports stay right as long as no log changes, runs that are over stay as
\* they are, and no job of a run enters the store.
LEMMA ReportFrame ==
  ASSUME TypeInv, ReportInv, UNCHANGED logs,
         \A f \in Futures : fstate[f] # "unused" => fjob'[f] = fjob[f],
         \A f \in Futures : fstate[f] = "done" => fstate'[f] = "done",
         \A f \in Futures : fstate'[f] \in {"done", "raised"} =>
             \/ fstate'[f] = fstate[f]
             \/ fstate[f] # "unused" /\ fjob[f] \notin inStore,
         \A f \in Futures : fstate[f] # "unused" /\ fjob[f] \notin inStore =>
             fjob[f] \notin inStore'
  PROVE  ReportInv'
<1> USE DEF TypeInv, TypeOK, Locals, LogEntries
<1>1. OneOutcomePerRun'
  BY DEF ReportInv, OneOutcomePerRun
<1>2. CompletedRunsLogged'
  BY DEF ReportInv, CompletedRunsLogged
<1> QED
  BY <1>1, <1>2 DEF ReportInv

\* The one entry of a run: its future was running until now.
LEMMA ReportAppend ==
  ASSUME TypeInv, OwnInv, ReportInv, NEW w \in Workers,
         wpc[w] \in BusySteps, NEW level \in {"info", "error"},
         AppendLog(w, level)
  PROVE  ReportInv'
<1> DEFINE entry == [run |-> wfut[w], level |-> level]
<1>1. /\ wfut[w] \in Futures /\ JobOf(w) \in Jobs
      /\ fstate[wfut[w]] = "running"
      /\ fstate' = [fstate EXCEPT ![wfut[w]] = "done"]
      /\ logs' = [logs EXCEPT ![JobOf(w)] = @ \cup {entry}]
      /\ UNCHANGED <<inStore, fjob>>
  BY DEF AppendLog, WorkerEnds, TypeInv, TypeOK, Locals, OwnInv, JobOf,
         BusySteps
<1>2. /\ fstate \in [Futures -> FutureStates]
      /\ logs \in [Jobs -> SUBSET LogEntries]
  BY DEF TypeInv, TypeOK
<1>3. \A j \in Jobs : \A e \in logs'[j] :
          \/ e \in logs[j]
          \/ e = entry /\ j = fjob[wfut[w]]
  BY <1>1, <1>2 DEF JobOf
<1>4. \A j \in Jobs : \A e \in logs[j] : e.run \in Futures /\ e.run # wfut[w]
  BY <1>1, <1>2 DEF ReportInv, OneOutcomePerRun, LogEntries
<1>5. entry.run = wfut[w]
  OBVIOUS
<1>6. OneOutcomePerRun'
  <2> SUFFICES ASSUME NEW j \in Jobs, NEW e \in logs'[j]
               PROVE  /\ fjob'[e.run] = j
                      /\ fstate'[e.run] = "done"
                      /\ \A d \in logs'[j] : d.run = e.run => d = e
    BY DEF OneOutcomePerRun
  <2> HIDE DEF entry
  <2>1. CASE e \in logs[j]
    BY <2>1, <1>1, <1>2, <1>3, <1>4, <1>5 DEF ReportInv, OneOutcomePerRun
  <2>2. CASE e = entry /\ j = fjob[wfut[w]]
    BY <2>2, <1>1, <1>2, <1>3, <1>4, <1>5
  <2> QED
    BY <2>1, <2>2, <1>3
<1>7. CompletedRunsLogged'
  <2>1. entry \in logs'[JobOf(w)]
    BY <1>1, <1>2
  <2>2. \A j \in Jobs : logs[j] \subseteq logs'[j]
    BY <1>1, <1>2
  <2> HIDE DEF entry
  <2>3. ASSUME NEW f \in Futures, f # wfut[w]
        PROVE  /\ fstate'[f] = fstate[f]
               /\ fstate[f] # "unused" => fjob[f] \in Jobs
    BY <2>3, <1>1, <1>2 DEF TypeInv, Locals
  <2> QED
    BY <1>1, <1>2, <1>5, <2>1, <2>2, <2>3
       DEF ReportInv, CompletedRunsLogged, JobOf
<1> QED
  BY <1>6, <1>7 DEF ReportInv

LEMMA ReportStep ==
  TypeInv /\ OwnInv /\ Known /\ ReportInv /\ [Next]_vars => ReportInv'
<1> SUFFICES ASSUME TypeInv, OwnInv, Known, ReportInv, [Next]_vars
             PROVE  ReportInv'
  OBVIOUS
<1> USE DEF storeVars, futureVars, workerVars, clientVars
<1>1. CASE UNCHANGED vars
  BY <1>1, ReportFrame DEF vars
<1>2. ASSUME NEW c \in Clients, Request(c) PROVE ReportInv'
  <2>1. UNCHANGED <<logs, fstate, fjob>>
    BY <1>2 DEF Request, ListJobs, CreateJob, GetOr404, vars
  <2>2. \A f \in Futures : fstate[f] # "unused" /\ fjob[f] \notin inStore =>
            fjob[f] \notin inStore'
    BY <1>2 DEF Request, ListJobs, CreateJob, GetOr404, vars, Known
  <2> QED
    BY <2>1, <2>2, ReportFrame
<1>3. ASSUME NEW c \in Clients, Handle(c) PROVE ReportInv'
  <2>1. UNCHANGED logs /\ inStore' \subseteq inStore
    BY <1>3 DEF Handle, UpdateJob, DeleteJob, ResultsNotFinished,
         ResultsCheck, ResultsReturn, StartLocked, StartCheck, StartSubmit,
         StartExhausted, StartRegister, CancelLookup, CancelWithdraw,
         CancelMark
  <2>2. \A f \in Futures : fstate[f] # "unused" => fjob'[f] = fjob[f]
    BY <1>3 DEF Handle, UpdateJob, DeleteJob, ResultsNotFinished,
         ResultsCheck, ResultsReturn, StartLocked, StartCheck, StartSubmit,
         StartExhausted, StartRegister, CancelLookup, CancelWithdraw,
         CancelMark, TypeInv, TypeOK
  <2>3. \/ UNCHANGED fstate
        \/ \E x : CancelFuture(x)
        \/ \E f \in Futures : /\ fstate[f] = "unused"
                              /\ fstate' = [fstate EXCEPT ![f] = "pending"]
    BY <1>3 DEF Handle, UpdateJob, DeleteJob, ResultsNotFinished,
         ResultsCheck, ResultsReturn, StartLocked, StartCheck, StartSubmit,
         StartExhausted, StartRegister, CancelLookup, CancelWithdraw,
         CancelMark
  <2>4. \A f \in Futures :
            fstate[f] \in {"done", "raised"} \/ fstate'[f] \in {"done", "raised"}
                => fstate'[f] = fstate[f]
    BY <2>3 DEF CancelFuture, TypeInv, TypeOK
  <2> QED
    BY <2>1, <2>2, <2>4, ReportFrame
<1>4. ASSUME NEW w \in Workers, Work(w) PROVE ReportInv'
  <2> USE DEF TypeInv, TypeOK, Locals
  <2>1. CASE LogSuccess(w) \/ LogError(w)
    BY <2>1, ReportAppend DEF LogSuccess, LogError, BusySteps
  <2>2. CASE Take(w) \/ Begin(w) \/ Succeed(w) \/ SucceedMissing(w)
             \/ StoreResults(w) \/ Raise(w) \/ ErrorStatus(w)
    <3>1. UNCHANGED <<inStore, logs, fstate, fjob>>
      BY <2>2 DEF Take, Begin, Succeed, SucceedMissing, StoreResults, Raise,
                  ErrorStatus
    <3> QED
      BY <3>1, ReportFrame
  <2>3. CASE Claim(w) \/ Skip(w) \/ BeginMissing(w) \/ ErrorMissing(w)
    <3>1. UNCHANGED <<inStore, logs, fjob>>
      BY <2>3 DEF Claim, Skip, BeginMissing, ErrorMissing
    <3>2. wfut[w] \in Futures /\ fstate[wfut[w]] \notin {"unused", "done", "raised"}
      BY <2>3 DEF Claim, Skip, BeginMissing, ErrorMissing, OwnInv, BusySteps
    <3>3. PICK s \in FutureStates :
              /\ fstate' = [fstate EXCEPT ![wfut[w]] = s]
              /\ s \in {"done", "raised"} => JobOf(w) \notin inStore
      BY <2>3 DEF Claim, Skip, BeginMissing, ErrorMissing, WorkerEnds,
                  FutureStates
    <3> QED
      BY <3>1, <3>2, <3>3, ReportFrame DEF JobOf
  <2> QED
    BY <1>4, <2>1, <2>2, <2>3 DEF Work
<1> QED
  BY <1>1, <1>2, <1>3, <1>4 DEF Next

RunInv == TypeInv /\ OwnInv /\ Known /\ ReportInv

LEMMA RunInvariant == Spec => []RunInv
<1>1. Init => OwnInv /\ Known /\ ReportInv
  BY DEF Init, OwnInv, BusySteps, Known, Stored, ReportInv, OneOutcomePerRun,
         CompletedRunsLogged
<1>2. RunInv /\ [Next]_vars => RunInv'
  <2>1. TypeInv /\ [Next]_vars => TypeInv'
    BY TypeStep
  <2> QED
    BY <2>1, OwnStep, KnownStep, ReportStep DEF RunInv
<1> QED
  BY <1>1, <1>2, TypeInit, PTL DEF Spec, RunInv

\* A run reports at most once, in the log of its own job, and never after it
\* was cancelled, withdrawn or abandoned.
THEOREM OneOutcome == Spec => []OneOutcomePerRun
<1>1. RunInv => OneOutcomePerRun
  BY DEF RunInv, ReportInv
<1> QED
  BY <1>1, RunInvariant, PTL

\* A run that is done has reported unless its job was deleted, and only for a
\* deleted job does an exception end up in the future.
THEOREM CompletedRunsReport == Spec => []CompletedRunsLogged
<1>1. RunInv => CompletedRunsLogged
  BY DEF RunInv, ReportInv
<1> QED
  BY <1>1, RunInvariant, PTL

-----------------------------------------------------------------------------
(***************************************************************************)
(* Every behaviour of the job register is one of the ledger: a run commits *)
(* its outcome when its worker writes the status, and every other step of  *)
(* a locked section is invisible.                                          *)
(***************************************************************************)

(* A registered future is a run of the job it is registered for.           *)

RegisteredInv ==
    /\ \A j \in Jobs : registered[j] # None =>
          fstate[registered[j]] # "unused" /\ fjob[registered[j]] = j
    /\ \A c \in Clients : cpc[c] = "register" =>
          fstate[cfut[c]] # "unused" /\ fjob[cfut[c]] = cjob[c]

LEMMA RegisteredStep ==
  TypeInv /\ RegisteredInv /\ [Next]_vars => RegisteredInv'
<1> SUFFICES ASSUME TypeInv, RegisteredInv, [Next]_vars PROVE RegisteredInv'
  OBVIOUS
<1> USE NoneAssumption DEF TypeInv, TypeOK, Locals, storeVars, futureVars,
                           workerVars, clientVars, RegisteredInv
<1>1. CASE UNCHANGED vars
  BY <1>1 DEF vars
<1>2. ASSUME NEW c \in Clients, Request(c) PROVE RegisteredInv'
  BY <1>2 DEF Request, ListJobs, CreateJob, GetOr404, Operations, vars
<1>3. ASSUME NEW c \in Clients, Handle(c) PROVE RegisteredInv'
  <2>1. ASSUME NEW f \in Futures, StartSubmit(c, f) PROVE RegisteredInv'
    BY <2>1 DEF StartSubmit
  <2>2. CASE StartRegister(c)
    BY <2>2 DEF StartRegister, Answer
  <2>3. CASE DeleteJob(c)
    <3>1. /\ registered' = [registered EXCEPT ![cjob[c]] = None]
          /\ CancelFuture(registered[cjob[c]]) /\ UNCHANGED fjob
          /\ \A d \in Clients : cpc'[d] = "register" =>
                cpc[d] = "register" /\ cfut'[d] = cfut[d] /\ cjob'[d] = cjob[d]
      BY <2>3 DEF DeleteJob, Answer
    <3>2. \A f \in Futures : fstate[f] # "unused" => fstate'[f] # "unused"
      BY <3>1 DEF CancelFuture
    <3> QED
      BY <3>1, <3>2
  <2>4. CASE CancelWithdraw(c)
    BY <2>4 DEF CancelWithdraw, CancelFuture, GoOn
  <2>5. CASE (\E g \in Graphs : UpdateJob(c, g)) \/ ResultsNotFinished(c)
             \/ ResultsCheck(c) \/ ResultsReturn(c) \/ StartLocked(c)
             \/ StartCheck(c) \/ StartExhausted(c) \/ CancelLookup(c)
             \/ CancelMark(c)
    <3>1. UNCHANGED <<registered, fstate, fjob>>
      BY <2>5 DEF UpdateJob, ResultsNotFinished, ResultsCheck, ResultsReturn,
                  StartLocked, StartCheck, StartExhausted, CancelLookup,
                  CancelMark
    <3>2. \A d \in Clients : cpc'[d] = "register" =>
              cpc[d] = "register" /\ cfut'[d] = cfut[d] /\ cjob'[d] = cjob[d]
      BY <2>5 DEF UpdateJob, ResultsNotFinished, ResultsCheck, ResultsReturn,
                  StartLocked, StartCheck, StartExhausted, CancelLookup,
                  CancelMark, Answer, GoOn
    <3> QED
      BY <3>1, <3>2
  <2> QED
    BY <1>3, <2>1, <2>2, <2>3, <2>4, <2>5 DEF Handle
<1>4. ASSUME NEW w \in Workers, Work(w) PROVE RegisteredInv'
  <2>1. CASE Claim(w) \/ Skip(w) \/ BeginMissing(w) \/ LogSuccess(w)
             \/ LogError(w) \/ ErrorMissing(w)
    BY <2>1 DEF Claim, Skip, BeginMissing, LogSuccess, LogError, ErrorMissing,
                AppendLog, WorkerEnds
  <2>2. CASE Take(w) \/ Begin(w) \/ Succeed(w) \/ SucceedMissing(w)
             \/ StoreResults(w) \/ Raise(w) \/ ErrorStatus(w)
    BY <2>2 DEF Take, Begin, Succeed, SucceedMissing, StoreResults, Raise,
                ErrorStatus
  <2> QED
    BY <1>4, <2>1, <2>2 DEF Work
<1> QED
  BY <1>1, <1>2, <1>3, <1>4 DEF Next

MapInv == RunInv /\ RegisteredInv

-----------------------------------------------------------------------------
(* How a worker's step moves the run it holds.                             *)

LEMMA RunAtHolder ==
  ASSUME RunInv, NEW w \in Workers, wpc[w] # "idle",
         NEW steps, "idle" \notin steps
  PROVE  RunAt(steps, wfut[w]) <=> wpc[w] \in steps
BY DEF RunAt, RunInv, OwnInv

LEMMA RunAtGoes ==
  ASSUME RunInv, NEW w \in Workers, wpc[w] # "idle", NEW step,
         WorkerGoes(w, step), NEW steps, "idle" \notin steps, NEW f \in Futures
  PROVE  RunAt(steps, f)' <=>
             IF f = wfut[w] THEN step \in steps ELSE RunAt(steps, f)
<1>1. /\ wpc' = [wpc EXCEPT ![w] = step] /\ wfut' = wfut
      /\ wpc \in [Workers -> WorkerSteps]
      /\ \A u \in Workers : u # w /\ wpc[u] # "idle" => wfut[u] # wfut[w]
  BY DEF WorkerGoes, RunInv, OwnInv, TypeInv, TypeOK
<1> QED
  BY <1>1 DEF RunAt

LEMMA RunAtEnds ==
  ASSUME RunInv, NEW w \in Workers, wpc[w] # "idle", NEW s, WorkerEnds(w, s),
         NEW steps, "idle" \notin steps, NEW f \in Futures
  PROVE  RunAt(steps, f)' <=> f # wfut[w] /\ RunAt(steps, f)
<1>1. /\ \A u \in Workers : u # w => wfut'[u] = wfut[u] /\ wpc'[u] = wpc[u]
      /\ wpc'[w] = "idle"
      /\ \A u \in Workers : u # w /\ wpc[u] # "idle" => wfut[u] # wfut[w]
  BY DEF WorkerEnds, RunInv, OwnInv, TypeInv, TypeOK, Locals
<1>2. ASSUME NEW u \in Workers
      PROVE  (wfut'[u] = f /\ wpc'[u] \in steps) <=>
             (f # wfut[w] /\ wfut[u] = f /\ wpc[u] \in steps)
  <2>1. CASE u = w
    BY <2>1, <1>1
  <2>2. CASE u # w
    BY <2>2, <1>1
  <2> QED
    BY <2>1, <2>2
<1> QED
  BY <1>2 DEF RunAt

-----------------------------------------------------------------------------
(* The three mapped variables, member by member.                           *)

\* Where the ledger sees a run whose worker is at a given step.
Place(step) == IF step = "begin" THEN "pending"
               ELSE IF step \in {"execute", "except"} THEN "active" ELSE "over"

LEMMA HolderPlace ==
  ASSUME RunInv, NEW w \in Workers, wpc[w] \in BusySteps
  PROVE  LedgerRun[wfut[w]] = Place(wpc[w])
<1>1. wfut[w] \in Futures /\ fstate[wfut[w]] = "running" /\ wpc[w] # "idle"
  BY DEF RunInv, TypeInv, Locals, OwnInv, BusySteps
<1>2. /\ RunAt({"begin"}, wfut[w]) <=> wpc[w] = "begin"
      /\ RunAt({"execute", "except"}, wfut[w]) <=> wpc[w] \in {"execute", "except"}
  BY <1>1, RunAtHolder
<1> QED
  BY <1>1, <1>2 DEF LedgerRun, Place

LEMMA HolderMoves ==
  ASSUME RunInv, NEW w \in Workers, wpc[w] \in BusySteps, UNCHANGED fstate,
         NEW step \in BusySteps, WorkerGoes(w, step)
  PROVE  LedgerRun' = [LedgerRun EXCEPT ![wfut[w]] = Place(step)]
<1>1. wfut[w] \in Futures /\ fstate[wfut[w]] = "running" /\ wpc[w] # "idle"
  BY DEF RunInv, TypeInv, Locals, OwnInv, BusySteps
<1>2. \A f \in Futures :
          /\ RunAt({"begin"}, f)' <=>
                IF f = wfut[w] THEN step = "begin" ELSE RunAt({"begin"}, f)
          /\ RunAt({"execute", "except"}, f)' <=>
                IF f = wfut[w] THEN step \in {"execute", "except"}
                ELSE RunAt({"execute", "except"}, f)
  BY <1>1, RunAtGoes
<1> QED
  BY <1>1, <1>2 DEF LedgerRun, Place

LEMMA HolderEnds ==
  ASSUME RunInv, NEW w \in Workers, wpc[w] \in BusySteps,
         NEW s \in {"done", "raised"}, WorkerEnds(w, s)
  PROVE  LedgerRun' = [LedgerRun EXCEPT ![wfut[w]] = "over"]
<1>1. /\ wfut[w] \in Futures /\ wpc[w] # "idle"
      /\ fstate' = [fstate EXCEPT ![wfut[w]] = s]
      /\ fstate \in [Futures -> FutureStates]
  BY DEF RunInv, TypeInv, TypeOK, Locals, OwnInv, BusySteps, WorkerEnds
<1>2. \A f \in Futures :
          /\ RunAt({"begin"}, f)' <=> f # wfut[w] /\ RunAt({"begin"}, f)
          /\ RunAt({"execute", "except"}, f)' <=>
                f # wfut[w] /\ RunAt({"execute", "except"}, f)
  BY <1>1, RunAtEnds
<1> QED
  BY <1>1, <1>2 DEF LedgerRun

\* Changing the future of a run that no worker holds.
LEMMA UnheldRun ==
  ASSUME RunInv, NEW f \in Futures, fstate[f] \in {"unused", "pending"},
         NEW s \in {"pending", "cancelled"},
         fstate' = [fstate EXCEPT ![f] = s], UNCHANGED <<wpc, wfut>>
  PROVE  LedgerRun' = [LedgerRun EXCEPT ![f] =
                          IF s = "pending" THEN "pending" ELSE "over"]
<1>1. ~ RunAt({"begin"}, f) /\ ~ RunAt({"execute", "except"}, f)
  BY DEF RunAt, RunInv, OwnInv, BusySteps
<1>2. fstate \in [Futures -> FutureStates]
  BY DEF RunInv, TypeInv, TypeOK
<1>3. \A g \in Futures :
          /\ RunAt({"begin"}, g)' <=> RunAt({"begin"}, g)
          /\ RunAt({"execute", "except"}, g)' <=> RunAt({"execute", "except"}, g)
  BY DEF RunAt
<1> QED
  BY <1>1, <1>2, <1>3 DEF LedgerRun

LEMMA EntryIn ==
  ASSUME RunInv, NEW j \in Jobs
  PROVE  /\ LedgerEntries[j] \subseteq LogEntries
         /\ \A e \in LogEntries : e \in LedgerEntries[j] <=>
               \/ e \in logs[j]
               \/ fjob[e.run] = j /\ RunAt(Reporting(e.level), e.run)
BY DEF LedgerEntries, RunInv, TypeInv, TypeOK

-----------------------------------------------------------------------------
(* Steps the ledger does not see.                                          *)

\* The mapping only looks at these variables, and of the workers' steps only at
\* the ones that belong to a run.
LEMMA Invisible ==
  ASSUME MapInv, UNCHANGED <<inStore, status, results, logs, fjob, fstate>>,
         \A steps \in SUBSET BusySteps, f \in Futures :
             RunAt(steps, f)' <=> RunAt(steps, f),
         \A w \in Workers : wpc'[w] = "results" <=> wpc[w] = "results",
         \A w \in Workers : wpc[w] = "results" => wfut'[w] = wfut[w]
  PROVE  UNCHANGED Ledger!ledger
<1>1. LedgerResults' = LedgerResults
  BY DEF LedgerResults, JobOf
<1>2. LedgerEntries' = LedgerEntries
  <2>1. \A e \in LogEntries : e.run \in Futures
    BY DEF LogEntries
  <2> QED
    BY <2>1 DEF LedgerEntries, BusySteps, LogEntries, Reporting
<1>3. LedgerRun' = LedgerRun
  BY DEF LedgerRun, BusySteps
<1> QED
  BY <1>1, <1>2, <1>3 DEF Ledger!ledger

-----------------------------------------------------------------------------
(* Requests                                                                *)

LEMMA MapRequest ==
  ASSUME MapInv, NEW c \in Clients, Request(c)
  PROVE  Ledger!Next \/ UNCHANGED Ledger!ledger
<1> USE DEF storeVars, futureVars, workerVars, clientVars, vars
<1>1. CASE ListJobs(c) \/ \E j \in Jobs, op \in Operations : GetOr404(c, j, op)
  <2>1. UNCHANGED <<inStore, status, results, logs, fjob, fstate, wpc, wfut>>
    BY <1>1 DEF ListJobs, GetOr404
  <2> QED
    BY <2>1, Invisible DEF RunAt
<1>2. ASSUME NEW j \in Jobs, NEW g \in Graphs, CreateJob(c, j, g)
      PROVE  Ledger!Next
  <2>1. UNCHANGED <<LedgerResults, LedgerEntries, LedgerRun>>
    BY <1>2 DEF CreateJob, LedgerResults, LedgerEntries, LedgerRun, RunAt, JobOf
  <2>2. Ledger!Create(j)
    BY <1>2, <2>1 DEF CreateJob, Ledger!Create
  <2> QED
    BY <2>2 DEF Ledger!Next
<1> QED
  BY <1>1, <1>2 DEF Request

\* Cancelling future x: nothing, or one pending run is withdrawn.
LEMMA MapCancel ==
  ASSUME MapInv, NEW x \in Futures \cup {None}, CancelFuture(x),
         UNCHANGED <<results, logs, fjob, wpc, wfut>>
  PROVE  /\ UNCHANGED <<LedgerResults, LedgerEntries>>
         /\ \/ UNCHANGED LedgerRun
            \/ /\ x \in Futures /\ fstate[x] = "pending"
               /\ LedgerRun[x] = "pending"
               /\ LedgerRun' = [LedgerRun EXCEPT ![x] = "over"]
<1>1. UNCHANGED <<LedgerResults, LedgerEntries>>
  BY DEF LedgerResults, LedgerEntries, RunAt, JobOf
<1>2. CASE UNCHANGED fstate
  BY <1>1, <1>2 DEF LedgerRun, RunAt
<1>3. CASE ~ UNCHANGED fstate
  <2>1. /\ x \in Futures /\ fstate[x] = "pending"
        /\ fstate' = [fstate EXCEPT ![x] = "cancelled"]
    BY <1>3 DEF CancelFuture
  <2>2. LedgerRun' = [LedgerRun EXCEPT ![x] = "over"]
    BY <2>1, UnheldRun DEF MapInv
  <2>3. LedgerRun[x] = "pending"
    BY <2>1 DEF LedgerRun
  <2> QED
    BY <1>1, <2>1, <2>2, <2>3
<1> QED
  BY <1>2, <1>3

LEMMA MapHandle ==
  ASSUME MapInv, NEW c \in Clients, Handle(c)
  PROVE  Ledger!Next \/ UNCHANGED Ledger!ledger
<1> USE DEF storeVars, futureVars, workerVars, clientVars
<1>1. CASE (\E g \in Graphs : UpdateJob(c, g)) \/ ResultsNotFinished(c)
           \/ ResultsCheck(c) \/ ResultsReturn(c) \/ StartLocked(c)
           \/ StartCheck(c) \/ StartExhausted(c) \/ StartRegister(c)
           \/ CancelLookup(c)
  <2>1. UNCHANGED <<inStore, status, results, logs, fjob, fstate, wpc, wfut>>
    BY <1>1 DEF UpdateJob, ResultsNotFinished, ResultsCheck, ResultsReturn,
                StartLocked, StartCheck, StartExhausted, StartRegister,
                CancelLookup
  <2> QED
    BY <2>1, Invisible DEF RunAt
<1>2. CASE DeleteJob(c)
  <2>1. /\ cjob[c] \in Jobs /\ registered[cjob[c]] \in Futures \cup {None}
        /\ registered[cjob[c]] # None => fjob[registered[cjob[c]]] = cjob[c]
    BY <1>2, NoneAssumption
       DEF DeleteJob, MapInv, RunInv, TypeInv, TypeOK, Locals, RegisteredInv
  <2>2. /\ inStore' = inStore \ {cjob[c]}
        /\ UNCHANGED <<status, results, logs, fjob, wpc, wfut>>
        /\ CancelFuture(registered[cjob[c]])
    BY <1>2 DEF DeleteJob
  <2>3. /\ UNCHANGED <<LedgerResults, LedgerEntries>>
        /\ \/ UNCHANGED LedgerRun
           \/ \E x \in Futures :
                 /\ LedgerRun[x] = "pending" /\ fjob[x] = cjob[c]
                 /\ LedgerRun' = [LedgerRun EXCEPT ![x] = "over"]
    BY <2>1, <2>2, MapCancel, NoneAssumption
  <2>4. CASE cjob[c] \in inStore
    <3>1. Ledger!Delete(cjob[c])
      BY <2>2, <2>3, <2>4 DEF Ledger!Delete
    <3> QED
      BY <2>1, <3>1 DEF Ledger!Next
  <2>5. CASE cjob[c] \notin inStore
    <3>1. UNCHANGED inStore
      BY <2>2, <2>5
    <3>2. CASE UNCHANGED LedgerRun
      BY <2>2, <2>3, <3>1, <3>2 DEF Ledger!ledger
    <3>3. ASSUME NEW x \in Futures, LedgerRun[x] = "pending",
                 LedgerRun' = [LedgerRun EXCEPT ![x] = "over"]
          PROVE  Ledger!Next
      <4>1. Ledger!Withdraw(x)
        BY <2>2, <2>3, <3>1, <3>3 DEF Ledger!Withdraw
      <4> QED
        BY <4>1 DEF Ledger!Next
    <3> QED
      BY <2>3, <3>2, <3>3
  <2> QED
    BY <2>4, <2>5
<1>3. CASE CancelWithdraw(c)
  <2>1. /\ UNCHANGED <<inStore, status, results, logs, fjob, wpc, wfut>>
        /\ CancelFuture(cfut[c]) /\ cfut[c] \in Futures \cup {None}
    BY <1>3 DEF CancelWithdraw, MapInv, RunInv, TypeInv, TypeOK
  <2>2. /\ UNCHANGED <<LedgerResults, LedgerEntries>>
        /\ \/ UNCHANGED LedgerRun
           \/ \E x \in Futures :
                 /\ LedgerRun[x] = "pending"
                 /\ LedgerRun' = [LedgerRun EXCEPT ![x] = "over"]
    BY <2>1, MapCancel
  <2>3. CASE UNCHANGED LedgerRun
    BY <2>1, <2>2, <2>3 DEF Ledger!ledger
  <2>4. ASSUME NEW x \in Futures, LedgerRun[x] = "pending",
               LedgerRun' = [LedgerRun EXCEPT ![x] = "over"]
        PROVE  Ledger!Next
    <3>1. Ledger!Withdraw(x)
      BY <2>1, <2>2, <2>4 DEF Ledger!Withdraw
    <3> QED
      BY <3>1 DEF Ledger!Next
  <2> QED
    BY <2>2, <2>3, <2>4
<1>4. CASE CancelMark(c)
  <2>1. cjob[c] \in Jobs /\ status[cjob[c]] # "absent"
    BY <1>4 DEF CancelMark, MapInv, RunInv, TypeInv, Locals, Known
  <2>2. UNCHANGED <<LedgerResults, LedgerEntries, LedgerRun>>
    BY <1>4 DEF CancelMark, LedgerResults, LedgerEntries, LedgerRun, RunAt, JobOf
  <2>3. Ledger!Mark(cjob[c])
    BY <1>4, <2>1, <2>2 DEF CancelMark, Ledger!Mark
  <2> QED
    BY <2>1, <2>3 DEF Ledger!Next
<1>5. ASSUME NEW f \in Futures, StartSubmit(c, f) PROVE Ledger!Next
  <2>1. /\ cjob[c] \in Jobs /\ status[cjob[c]] # "absent"
        /\ fstate[f] = "unused" /\ LedgerRun[f] = "new"
        /\ UNCHANGED <<inStore, status, results, logs, wpc, wfut>>
        /\ fstate' = [fstate EXCEPT ![f] = "pending"]
        /\ fjob' = [fjob EXCEPT ![f] = cjob[c]]
    BY <1>5 DEF StartSubmit, MapInv, RunInv, TypeInv, Locals, Known, LedgerRun
  <2>2. LedgerRun' = [LedgerRun EXCEPT ![f] = "pending"]
    BY <2>1, UnheldRun DEF MapInv
  <2>3. \A w \in Workers : wpc[w] # "idle" =>
            wfut[w] \in Futures /\ wfut[w] # f /\ JobOf(w)' = JobOf(w)
    BY <2>1 DEF MapInv, RunInv, TypeInv, TypeOK, Locals, JobOf
  <2>4. LedgerResults' = LedgerResults
    BY <2>1, <2>3 DEF LedgerResults
  <2>5. LedgerEntries' = LedgerEntries
    <3>1. \A e \in LogEntries :
              /\ RunAt(Reporting(e.level), e.run)' <=>
                    RunAt(Reporting(e.level), e.run)
              /\ RunAt(Reporting(e.level), e.run) =>
                    fjob'[e.run] = fjob[e.run]
      BY <2>1, <2>3 DEF RunAt, Reporting, MapInv, RunInv, TypeInv, TypeOK
    <3> QED
      BY <2>1, <3>1 DEF LedgerEntries
  <2>6. Ledger!Submit(f, cjob[c])
    BY <2>1, <2>2, <2>4, <2>5 DEF Ledger!Submit
  <2> QED
    BY <2>1, <2>6 DEF Ledger!Next
<1> QED
  BY <1>1, <1>2, <1>3, <1>4, <1>5 DEF Handle

-----------------------------------------------------------------------------
(* Workers                                                                 *)

\* Writing the outcome into the status commits the run.
LEMMA MapCommit ==
  ASSUME MapInv, NEW w \in Workers, NEW from \in {"execute", "except"},
         NEW level \in {"info", "error"}, wpc[w] = from,
         JobOf(w) \in inStore,
         WorkerGoes(w, IF level = "info" THEN "results" ELSE "errlog"),
         status' = [status EXCEPT ![JobOf(w)] =
                       IF level = "info" THEN "finished" ELSE "error"],
         UNCHANGED <<inStore, results, logs, fjob, fstate>>
  PROVE  Ledger!Commit(wfut[w], level)
<1> DEFINE step == IF level = "info" THEN "results" ELSE "errlog"
           entry == [run |-> wfut[w], level |-> level]
<1>1. /\ wfut[w] \in Futures /\ fjob[wfut[w]] \in Jobs /\ entry \in LogEntries
      /\ wpc[w] \in BusySteps /\ step \in BusySteps /\ wpc[w] # "idle"
      /\ wpc' = [wpc EXCEPT ![w] = step] /\ wfut' = wfut
      /\ wpc \in [Workers -> WorkerSteps]
  BY DEF MapInv, RunInv, TypeInv, TypeOK, Locals, BusySteps, LogEntries,
         WorkerGoes
<1>2. LedgerRun[wfut[w]] = "active"
  BY <1>1, HolderPlace DEF MapInv, Place
<1>3. LedgerRun' = [LedgerRun EXCEPT ![wfut[w]] = "over"]
  BY <1>1, HolderMoves DEF MapInv, Place
<1>4. LedgerResults' =
          LedgerResults \cup (IF level = "info" THEN {fjob[wfut[w]]} ELSE {})
  <2>1. \A u \in Workers : /\ JobOf(u)' = JobOf(u)
                           /\ u # w => wpc'[u] = wpc[u]
    BY <1>1 DEF JobOf
  <2>2. /\ wpc'[w] = "results" <=> level = "info"
        /\ wpc[w] # "results"
    BY <1>1
  <2>3. ASSUME NEW j \in Jobs
        PROVE  (\E u \in Workers : wpc'[u] = "results" /\ JobOf(u)' = j) <=>
                   \/ \E u \in Workers : wpc[u] = "results" /\ JobOf(u) = j
                   \/ JobOf(w) = j /\ level = "info"
    BY <2>1, <2>2
  <2>4. results' = results
    OBVIOUS
  <2> QED
    BY <1>1, <2>3, <2>4 DEF LedgerResults, JobOf
<1>5. LedgerEntries' = [LedgerEntries EXCEPT ![fjob[wfut[w]]] = @ \cup {entry}]
  <2>1. \A e \in LogEntries :
            RunAt(Reporting(e.level), e.run)' <=>
                \/ e = entry
                \/ RunAt(Reporting(e.level), e.run)
    <3> SUFFICES ASSUME NEW e \in LogEntries
                 PROVE  RunAt(Reporting(e.level), e.run)' <=>
                            \/ e = entry
                            \/ RunAt(Reporting(e.level), e.run)
      OBVIOUS
    <3>1. /\ e.run \in Futures /\ e.level \in {"info", "error"}
          /\ e = entry <=> e.run = wfut[w] /\ e.level = level
          /\ "idle" \notin Reporting(e.level)
          /\ from \notin Reporting(e.level)
          /\ step \in Reporting(e.level) <=> e.level = level
      BY DEF LogEntries, Reporting
    <3>2. RunAt(Reporting(e.level), e.run)' <=>
              IF e.run = wfut[w] THEN step \in Reporting(e.level)
              ELSE RunAt(Reporting(e.level), e.run)
      BY <1>1, <3>1, RunAtGoes DEF MapInv
    <3>3. ~ RunAt(Reporting(e.level), wfut[w])
      BY <1>1, <3>1, RunAtHolder DEF MapInv
    <3> QED
      BY <3>1, <3>2, <3>3
  <2>2. entry.run = wfut[w]
    OBVIOUS
  <2> HIDE DEF entry
  <2> QED
    BY <1>1, <2>1, <2>2 DEF LedgerEntries
<1> QED
  BY <1>1, <1>2, <1>3, <1>4, <1>5 DEF Ledger!Commit, JobOf

\* The log entry and the results were visible to the ledger before.
LEMMA MapLog ==
  ASSUME MapInv, NEW w \in Workers, NEW level \in {"info", "error"},
         wpc[w] = (IF level = "info" THEN "log" ELSE "errlog"),
         AppendLog(w, level)
  PROVE  UNCHANGED Ledger!ledger
<1> DEFINE entry == [run |-> wfut[w], level |-> level]
<1>1. /\ wfut[w] \in Futures /\ fjob[wfut[w]] \in Jobs /\ entry \in LogEntries
      /\ wpc[w] \in BusySteps /\ wpc[w] # "idle"
      /\ logs \in [Jobs -> SUBSET LogEntries]
      /\ wpc \in [Workers -> WorkerSteps] /\ wfut \in [Workers -> Futures \cup {None}]
  BY DEF MapInv, RunInv, TypeInv, TypeOK, Locals, BusySteps, LogEntries
<1>2. /\ WorkerEnds(w, "done") /\ UNCHANGED <<inStore, status, results, fjob>>
      /\ logs' = [logs EXCEPT ![fjob[wfut[w]]] = @ \cup {entry}]
  BY DEF AppendLog, JobOf
<1>3. LedgerRun' = LedgerRun
  <2>1. LedgerRun' = [LedgerRun EXCEPT ![wfut[w]] = "over"]
    BY <1>1, <1>2, HolderEnds DEF MapInv
  <2>2. LedgerRun[wfut[w]] = "over"
    BY <1>1, HolderPlace DEF MapInv, Place
  <2> QED
    BY <2>1, <2>2 DEF LedgerRun
<1>4. LedgerResults' = LedgerResults
  <2>1. \A u \in Workers :
            /\ wpc'[u] = "results" <=> wpc[u] = "results"
            /\ wpc[u] = "results" => JobOf(u)' = JobOf(u)
    BY <1>1, <1>2 DEF WorkerEnds, JobOf
  <2> QED
    BY <1>2, <2>1 DEF LedgerResults
<1>5. LedgerEntries' = LedgerEntries
  <2>1. \A e \in LogEntries :
            RunAt(Reporting(e.level), e.run) <=>
                \/ e = entry
                \/ RunAt(Reporting(e.level), e.run)'
    <3> SUFFICES ASSUME NEW e \in LogEntries
                 PROVE  RunAt(Reporting(e.level), e.run) <=>
                            \/ e = entry
                            \/ RunAt(Reporting(e.level), e.run)'
      OBVIOUS
    <3>1. /\ e.run \in Futures /\ e.level \in {"info", "error"}
          /\ e = entry <=> e.run = wfut[w] /\ e.level = level
          /\ "idle" \notin Reporting(e.level)
          /\ wpc[w] \in Reporting(e.level) <=> e.level = level
      BY DEF LogEntries, Reporting
    <3>2. RunAt(Reporting(e.level), e.run)' <=>
              e.run # wfut[w] /\ RunAt(Reporting(e.level), e.run)
      BY <1>1, <1>2, <3>1, RunAtEnds DEF MapInv
    <3>3. RunAt(Reporting(e.level), wfut[w]) <=> wpc[w] \in Reporting(e.level)
      BY <1>1, <3>1, RunAtHolder DEF MapInv
    <3> QED
      BY <3>1, <3>2, <3>3
  <2>2. entry.run = wfut[w]
    OBVIOUS
  <2> HIDE DEF entry
  <2> QED
    BY <1>1, <1>2, <2>1, <2>2 DEF LedgerEntries
<1> QED
  BY <1>2, <1>3, <1>4, <1>5 DEF Ledger!ledger

\* A worker at a step that is not part of a locked section leaves results and
\* entries as they are.
LEMMA MapGoes ==
  ASSUME MapInv, NEW w \in Workers, NEW from \in {"begin", "execute"},
         NEW step \in {"execute", "except"}, wpc[w] = from, WorkerGoes(w, step),
         UNCHANGED <<results, logs, fjob>>
  PROVE  UNCHANGED <<LedgerResults, LedgerEntries>>
<1>1. /\ wpc' = [wpc EXCEPT ![w] = step] /\ wfut' = wfut
      /\ wpc \in [Workers -> WorkerSteps]
  BY DEF WorkerGoes, MapInv, RunInv, TypeInv, TypeOK
<1>2. \A u \in Workers, p \in {"results", "log", "errlog"} :
          wpc'[u] = p <=> wpc[u] = p
  BY <1>1
<1>3. LedgerResults' = LedgerResults
  BY <1>1, <1>2 DEF LedgerResults, JobOf
<1>4. LedgerEntries' = LedgerEntries
  BY <1>1, <1>2 DEF LedgerEntries, RunAt, Reporting
<1> QED
  BY <1>3, <1>4

\* Nor does one that gives up on a deleted job.
LEMMA MapGivesUp ==
  ASSUME MapInv, NEW w \in Workers, wpc[w] \in {"begin", "except"},
         NEW s \in {"done", "raised"}, WorkerEnds(w, s),
         JobOf(w) \notin inStore,
         UNCHANGED <<inStore, status, results, logs, fjob>>
  PROVE  Ledger!Abandon(wfut[w])
<1>1. /\ wpc' = [wpc EXCEPT ![w] = "idle"] /\ wfut' = [wfut EXCEPT ![w] = None]
      /\ wpc \in [Workers -> WorkerSteps]
      /\ wfut \in [Workers -> Futures \cup {None}]
      /\ wpc[w] \in BusySteps
  BY DEF WorkerEnds, MapInv, RunInv, TypeInv, TypeOK, BusySteps
<1>2. \A u \in Workers, p \in {"results", "log", "errlog"} :
          /\ wpc'[u] = p <=> wpc[u] = p
          /\ wpc[u] = p => wfut'[u] = wfut[u]
  BY <1>1
<1>3. LedgerResults' = LedgerResults
  BY <1>2 DEF LedgerResults, JobOf
<1>4. LedgerEntries' = LedgerEntries
  BY <1>2 DEF LedgerEntries, RunAt, Reporting
<1>5. LedgerRun' = [LedgerRun EXCEPT ![wfut[w]] = "over"]
  BY <1>1, HolderEnds DEF MapInv
<1>6. LedgerRun[wfut[w]] \in {"pending", "active"}
  BY <1>1, HolderPlace DEF MapInv, Place
<1> QED
  BY <1>3, <1>4, <1>5, <1>6 DEF Ledger!Abandon, JobOf

LEMMA MapWork ==
  ASSUME MapInv, NEW w \in Workers, Work(w)
  PROVE  Ledger!Next \/ UNCHANGED Ledger!ledger
<1> USE DEF storeVars, futureVars, clientVars
<1>1. CASE Take(w)
  <2>1. /\ UNCHANGED <<inStore, status, results, logs, fjob, fstate>>
        /\ wpc[w] = "idle" /\ wpc' = [wpc EXCEPT ![w] = "claim"]
        /\ wpc \in [Workers -> WorkerSteps]
        /\ \A u \in Workers : u # w => wfut'[u] = wfut[u]
    BY <1>1 DEF Take, MapInv, RunInv, TypeInv, TypeOK
  <2>2. \A u \in Workers, p \in BusySteps :
            /\ wpc'[u] = p <=> wpc[u] = p
            /\ wpc[u] = p => wfut'[u] = wfut[u]
    BY <2>1 DEF BusySteps
  <2> QED
    BY <2>1, <2>2, Invisible DEF RunAt, BusySteps
<1>2. CASE Claim(w)
  <2>1. /\ UNCHANGED <<inStore, status, results, logs, fjob>>
        /\ wfut[w] \in Futures /\ wpc[w] = "claim"
        /\ fstate[wfut[w]] = "pending"
        /\ fstate' = [fstate EXCEPT ![wfut[w]] = "running"]
        /\ fstate \in [Futures -> FutureStates]
        /\ WorkerGoes(w, "begin") /\ wfut' = wfut
        /\ wpc' = [wpc EXCEPT ![w] = "begin"]
        /\ wpc \in [Workers -> WorkerSteps]
    BY <1>2 DEF Claim, WorkerGoes, MapInv, RunInv, TypeInv, TypeOK, Locals
  <2>2. UNCHANGED <<LedgerResults, LedgerEntries>>
    <3>1. \A u \in Workers, p \in {"results", "log", "errlog"} :
              wpc'[u] = p <=> wpc[u] = p
      BY <2>1
    <3> QED
      BY <2>1, <3>1 DEF LedgerResults, LedgerEntries, RunAt, Reporting, JobOf
  <2>3. \A f \in Futures :
            /\ RunAt({"begin"}, f)' <=> f = wfut[w] \/ RunAt({"begin"}, f)
            /\ RunAt({"execute", "except"}, f)' <=>
                  f # wfut[w] /\ RunAt({"execute", "except"}, f)
    BY <2>1, RunAtGoes DEF MapInv
  <2>4. ~ RunAt({"execute", "except"}, wfut[w])
    BY <2>1, RunAtHolder DEF MapInv
  <2>5. LedgerRun' = LedgerRun
    BY <2>1, <2>3, <2>4 DEF LedgerRun
  <2> QED
    BY <2>1, <2>2, <2>5 DEF Ledger!ledger
<1>3. CASE Skip(w)
  <2>1. /\ UNCHANGED <<inStore, status, results, logs, fjob>>
        /\ wpc[w] = "claim" /\ wpc' = [wpc EXCEPT ![w] = "idle"]
        /\ fstate' = fstate
        /\ wpc \in [Workers -> WorkerSteps]
        /\ \A u \in Workers : u # w => wfut'[u] = wfut[u]
    BY <1>3 DEF Skip, WorkerEnds, MapInv, RunInv, TypeInv, TypeOK, Locals
  <2>2. \A u \in Workers, p \in BusySteps :
            /\ wpc'[u] = p <=> wpc[u] = p
            /\ wpc[u] = p => wfut'[u] = wfut[u]
    BY <2>1 DEF BusySteps
  <2> QED
    BY <2>1, <2>2, Invisible DEF RunAt, BusySteps
<1>4. CASE Begin(w)
  <2>1. /\ wpc[w] = "begin" /\ WorkerGoes(w, "execute") /\ wfut[w] \in Futures
        /\ UNCHANGED <<inStore, results, logs, fjob, fstate>>
        /\ JobOf(w) \in inStore
        /\ status' = [status EXCEPT ![JobOf(w)] = "running"]
    BY <1>4 DEF Begin, MapInv, RunInv, TypeInv, Locals
  <2>2. LedgerRun[wfut[w]] = "pending"
    BY <2>1, HolderPlace DEF MapInv, Place, BusySteps
  <2>3. LedgerRun' = [LedgerRun EXCEPT ![wfut[w]] = "active"]
    BY <2>1, HolderMoves DEF MapInv, Place, BusySteps
  <2>4. UNCHANGED <<LedgerResults, LedgerEntries>>
    BY <2>1, MapGoes
  <2>5. Ledger!Begin(wfut[w])
    BY <2>1, <2>2, <2>3, <2>4 DEF Ledger!Begin, JobOf
  <2> QED
    BY <2>1, <2>5 DEF Ledger!Next
<1>5. CASE BeginMissing(w) \/ ErrorMissing(w)
  <2>1. /\ wpc[w] \in {"begin", "except"} /\ wfut[w] \in Futures
        /\ WorkerEnds(w, "done") \/ WorkerEnds(w, "raised")
        /\ JobOf(w) \notin inStore
        /\ UNCHANGED <<inStore, status, results, logs, fjob>>
    BY <1>5 DEF BeginMissing, ErrorMissing, MapInv, RunInv, TypeInv, Locals
  <2>2. Ledger!Abandon(wfut[w])
    BY <2>1, MapGivesUp
  <2> QED
    BY <2>1, <2>2 DEF Ledger!Next
<1>6. CASE SucceedMissing(w) \/ Raise(w)
  <2>1. /\ wpc[w] = "execute" /\ WorkerGoes(w, "except") /\ wfut[w] \in Futures
        /\ UNCHANGED <<inStore, status, results, logs, fjob, fstate>>
    BY <1>6 DEF SucceedMissing, Raise, MapInv, RunInv, TypeInv, Locals
  <2>2. LedgerRun[wfut[w]] = "active"
    BY <2>1, HolderPlace DEF MapInv, Place, BusySteps
  <2>3. LedgerRun' = [LedgerRun EXCEPT ![wfut[w]] = "active"]
    BY <2>1, HolderMoves DEF MapInv, Place, BusySteps
  <2>4. LedgerRun' = LedgerRun
    BY <2>2, <2>3 DEF LedgerRun
  <2>5. UNCHANGED <<LedgerResults, LedgerEntries>>
    BY <2>1, MapGoes
  <2> QED
    BY <2>1, <2>4, <2>5 DEF Ledger!ledger
<1>7. CASE Succeed(w)
  <2>1. Ledger!Commit(wfut[w], "info") /\ wfut[w] \in Futures
    BY <1>7, MapCommit DEF Succeed, MapInv, RunInv, TypeInv, Locals
  <2> QED
    BY <2>1 DEF Ledger!Next
<1>8. CASE ErrorStatus(w)
  <2>1. Ledger!Commit(wfut[w], "error") /\ wfut[w] \in Futures
    BY <1>8, MapCommit DEF ErrorStatus, MapInv, RunInv, TypeInv, Locals
  <2> QED
    BY <2>1 DEF Ledger!Next
<1>9. CASE StoreResults(w)
  <2>1. /\ wpc[w] = "results" /\ WorkerGoes(w, "log")
        /\ wfut[w] \in Futures /\ JobOf(w) \in Jobs
        /\ UNCHANGED <<inStore, status, logs, fjob, fstate>>
        /\ results' = [results EXCEPT ![JobOf(w)] = TRUE]
        /\ wfut' = wfut /\ wpc' = [wpc EXCEPT ![w] = "log"]
        /\ wpc \in [Workers -> WorkerSteps] /\ results \in [Jobs -> BOOLEAN]
    BY <1>9 DEF StoreResults, WorkerGoes, MapInv, RunInv, TypeInv, TypeOK,
                Locals, JobOf
  <2>2. LedgerResults' = LedgerResults
    <3>1. \A u \in Workers : /\ JobOf(u)' = JobOf(u)
                             /\ u # w => wpc'[u] = wpc[u]
      BY <2>1 DEF JobOf
    <3>2. ASSUME NEW j \in Jobs
          PROVE  j \in LedgerResults' <=> j \in LedgerResults
      <4>1. CASE j = JobOf(w)
        BY <2>1, <4>1 DEF LedgerResults
      <4>2. CASE j # JobOf(w)
        <5>1. results'[j] = results[j]
          BY <2>1, <4>2
        <5>2. \A u \in Workers : (wpc'[u] = "results" /\ JobOf(u)' = j) <=>
                                 (wpc[u] = "results" /\ JobOf(u) = j)
          BY <2>1, <3>1, <4>2
        <5> QED
          BY <5>1, <5>2 DEF LedgerResults
      <4> QED
        BY <4>1, <4>2
    <3> QED
      BY <3>2 DEF LedgerResults
  <2>3. LedgerEntries' = LedgerEntries
    <3>1. \A u \in Workers, level \in {"info", "error"} :
              wpc'[u] \in Reporting(level) <=> wpc[u] \in Reporting(level)
      BY <2>1 DEF Reporting
    <3> QED
      BY <2>1, <3>1 DEF LedgerEntries, RunAt, LogEntries
  <2>4. LedgerRun' = LedgerRun
    <3>1. LedgerRun' = [LedgerRun EXCEPT ![wfut[w]] = "over"]
      BY <2>1, HolderMoves DEF MapInv, Place, BusySteps
    <3>2. LedgerRun[wfut[w]] = "over"
      BY <2>1, HolderPlace DEF MapInv, Place, BusySteps
    <3> QED
      BY <3>1, <3>2 DEF LedgerRun
  <2> QED
    BY <2>1, <2>2, <2>3, <2>4 DEF Ledger!ledger
<1>10. CASE LogSuccess(w) \/ LogError(w)
  BY <1>10, MapLog DEF LogSuccess, LogError
<1> QED
  BY <1>1, <1>2, <1>3, <1>4, <1>5, <1>6, <1>7, <1>8, <1>9, <1>10 DEF Work

-----------------------------------------------------------------------------
\* The register implements the ledger: whatever requests overlap, a run begins
\* only for a stored job, commits status, results and log entry at once and at
\* most once, or leaves nothing behind.
THEOREM RegisterImplementsLedger == Spec => ImplementsLedger
<1>1. Init => Ledger!Init
  <2> SUFFICES ASSUME Init PROVE Ledger!Init
    OBVIOUS
  <2>1. LedgerResults = {} /\ LedgerEntries = [j \in Jobs |-> {}]
    BY DEF Init, LedgerResults, LedgerEntries, RunAt, Reporting
  <2>2. LedgerRun = [f \in Futures |-> "new"]
    BY DEF Init, LedgerRun
  <2> QED
    BY <2>1, <2>2 DEF Init, Ledger!Init
<1>2. MapInv /\ [Next]_vars => [Ledger!Next]_(Ledger!ledger)
  <2> SUFFICES ASSUME MapInv, [Next]_vars
               PROVE  Ledger!Next \/ UNCHANGED Ledger!ledger
    OBVIOUS
  <2>1. CASE UNCHANGED vars
    BY <2>1, Invisible DEF vars, storeVars, futureVars, workerVars, RunAt
  <2>2. CASE Next
    BY <2>2, MapRequest, MapHandle, MapWork DEF Next
  <2> QED
    BY <2>1, <2>2
<1>3. Init => RegisteredInv
  BY DEF Init, RegisteredInv
<1>4. RunInv /\ RegisteredInv /\ [Next]_vars => RegisteredInv'
  BY RegisteredStep DEF RunInv
<1>5. RunInv /\ RegisteredInv => MapInv
  BY DEF MapInv
<1> QED
  BY <1>1, <1>2, <1>3, <1>4, <1>5, RunInvariant, PTL
     DEF Spec, ImplementsLedger, Ledger!Spec

=============================================================================
