------------------------------ MODULE JobLedger ------------------------------
(***************************************************************************)
(* What openeo_fastapi_app/jobs.py promises about the runs of batch jobs,  *)
(* without threads, locks and queues: a run is submitted for a job that    *)
(* was created, begins only while the job is stored, and commits its       *)
(* outcome (status, results and log entry) at once and at most once, or is *)
(* withdrawn or abandoned and leaves nothing behind.                       *)
(***************************************************************************)
CONSTANTS Jobs, Runs, None

VARIABLES
    stored,      \* jobs a client can look up
    status,      \* the status of every job, "absent" before its creation
    hasResults,  \* the jobs with a result asset
    entries,     \* log entries of every job
    owner,       \* the job of a run
    run          \* where each run is

ledger == <<stored, status, hasResults, entries, owner, run>>

RunSteps == {"new", "pending", "active", "over"}

Init ==
    /\ stored = {}
    /\ status = [j \in Jobs |-> "absent"]
    /\ hasResults = {}
    /\ entries = [j \in Jobs |-> {}]
    /\ owner = [r \in Runs |-> None]
    /\ run = [r \in Runs |-> "new"]

Create(j) ==
    /\ status[j] = "absent"
    /\ stored' = stored \cup {j}
    /\ status' = [status EXCEPT ![j] = "created"]
    /\ UNCHANGED <<hasResults, entries, owner, run>>

\* A cancel request marks a job whatever its status is; so may one that looked
\* the job up before it was deleted.
Mark(j) ==
    /\ status[j] # "absent"
    /\ status' = [status EXCEPT ![j] = "canceled"]
    /\ UNCHANGED <<stored, hasResults, entries, owner, run>>

Submit(r, j) ==
    /\ run[r] = "new"
    /\ status[j] # "absent"
    /\ owner' = [owner EXCEPT ![r] = j]
    /\ run' = [run EXCEPT ![r] = "pending"]
    /\ UNCHANGED <<stored, status, hasResults, entries>>

Withdraw(r) ==
    /\ run[r] = "pending"
    /\ run' = [run EXCEPT ![r] = "over"]
    /\ UNCHANGED <<stored, status, hasResults, entries, owner>>

\* Deleting a job withdraws at most one of its runs that has not begun.
Delete(j) ==
    /\ j \in stored
    /\ stored' = stored \ {j}
    /\ \/ UNCHANGED run
       \/ \E r \in Runs : /\ run[r] = "pending" /\ owner[r] = j
                          /\ run' = [run EXCEPT ![r] = "over"]
    /\ UNCHANGED <<status, hasResults, entries, owner>>

Begin(r) ==
    /\ run[r] = "pending"
    /\ owner[r] \in stored
    /\ run' = [run EXCEPT ![r] = "active"]
    /\ status' = [status EXCEPT ![owner[r]] = "running"]
    /\ UNCHANGED <<stored, hasResults, entries, owner>>

Commit(r, level) ==
    /\ run[r] = "active"
    /\ owner[r] \in stored
    /\ run' = [run EXCEPT ![r] = "over"]
    /\ status' = [status EXCEPT ![owner[r]] =
                     IF level = "info" THEN "finished" ELSE "error"]
    /\ hasResults' = hasResults \cup (IF level = "info" THEN {owner[r]} ELSE {})
    /\ entries' = [entries EXCEPT ![owner[r]] =
                      @ \cup {[run |-> r, level |-> level]}]
    /\ UNCHANGED <<stored, owner>>

\* The job of the run is gone: nobody learns what became of it.
Abandon(r) ==
    /\ run[r] \in {"pending", "active"}
    /\ owner[r] \notin stored
    /\ run' = [run EXCEPT ![r] = "over"]
    /\ UNCHANGED <<stored, status, hasResults, entries, owner>>

Next ==
    \/ \E j \in Jobs : Create(j) \/ Mark(j) \/ Delete(j)
    \/ \E r \in Runs, j \in Jobs : Submit(r, j)
    \/ \E r \in Runs : Withdraw(r) \/ Begin(r) \/ Abandon(r)
    \/ \E r \in Runs, level \in {"info", "error"} : Commit(r, level)

Spec == Init /\ [][Next]_ledger
=============================================================================
