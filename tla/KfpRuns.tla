------------------------------- MODULE KfpRuns -------------------------------
(***************************************************************************)
(* The Kubeflow pipelines of pipeline/handler/: one call of trigger_       *)
(* pipeline starts a pipeline run per missing item through the REST API    *)
(* of Kubeflow (pipeline/kfpclient.py) and polls all of them, with a       *)
(* growing pause, until every run is over or the rounds are used up.       *)
(*                                                                         *)
(* wait_until_complete pops finished runs off the list it is enumerating,  *)
(* so the run behind a finished one is not looked at in the same round.    *)
(***************************************************************************)
EXTENDS Integers, SequencesExt

CONSTANTS
    Runs,        \* pipeline runs Kubeflow may create
    MaxRuns,     \* bound on the number of missing items
    MaxRequests  \* rounds before TimeoutError (max_requests, 200 in the code)

ASSUME RunsAssumption == IsFiniteSet(Runs)
ASSUME MaxRunsAssumption == MaxRuns \in Nat
ASSUME MaxRequestsAssumption == MaxRequests \in Nat \ {0}

VARIABLES
    status,     \* what Kubeflow knows of each run
    started,    \* the runs create_pipeline_run has returned, in order
    pc,
    runs,       \* the list wait_until_complete works on
    index,      \* where the enumeration of runs is
    counter     \* rounds

clientVars == <<started, pc, runs, index, counter>>
vars == <<status, clientVars>>

\* "fresh" runs exist but have no status key yet.
ReadyStatus == {"Completed", "Failed", "PipelineRunStopping"}
Statuses == {"unknown", "fresh", "Running"} \cup ReadyStatus
Steps == {"start", "round", "poll", "retry", "completed", "timeout", "raised"}

Init ==
    /\ status = [k \in Runs |-> "unknown"]
    /\ started = <<>>
    /\ pc = "start"
    /\ runs = <<>>
    /\ index = 1
    /\ counter = 0

Ready(k) == status[k] \in ReadyStatus

-----------------------------------------------------------------------------
(* Faults seeded for mutation runs: none of them is part of Next.          *)

\* The last round is begun although the rounds are used up.
BeginRoundTooMany ==
    /\ pc = "round"
    /\ runs # <<>> /\ counter <= MaxRequests
    /\ index' = 1
    /\ pc' = "poll"
    /\ UNCHANGED <<status, started, runs, counter>>

\* pop() without the index takes the last run away.
TakeOffLast(k) ==
    /\ runs' = IF Ready(k) THEN SubSeq(runs, 1, Len(runs) - 1) ELSE runs
    /\ index' = index + 1
    /\ pc' = "poll"

\* counter is not incremented.
EndRoundUncounted ==
    /\ pc = "poll" /\ index > Len(runs)
    /\ pc' = "round"
    /\ UNCHANGED <<status, started, runs, index, counter>>

-----------------------------------------------------------------------------
(* Kubeflow                                                                *)

\* A run gets a status, proceeds, and is over; a stopping run ends as well.
Advance(k) ==
    \/ status[k] = "fresh" /\ status' = [status EXCEPT ![k] = "Running"]
    \/ status[k] = "Running" /\ \E s \in ReadyStatus :
            status' = [status EXCEPT ![k] = s]
    \/ status[k] = "PipelineRunStopping" /\
            status' = [status EXCEPT ![k] = "Failed"]

-----------------------------------------------------------------------------
(* run_pipeline of the handlers                                            *)

StartRun(k) ==
    /\ pc = "start" /\ Len(started) < MaxRuns
    /\ status[k] = "unknown"
    /\ status' = [status EXCEPT ![k] = "fresh"]
    /\ started' = Append(started, k)
    /\ UNCHANGED <<pc, runs, index, counter>>

\* A request fails: the runs started so far go on without anyone waiting.
StartFails ==
    /\ pc = "start"
    /\ pc' = "raised"
    /\ UNCHANGED <<status, started, runs, index, counter>>

AllStarted ==
    /\ pc = "start"
    /\ runs' = started
    /\ pc' = "round"
    /\ UNCHANGED <<status, started, index, counter>>

-----------------------------------------------------------------------------
(* wait_until_complete                                                     *)

BeginRound ==
    /\ pc = "round"
    /\ runs # <<>> /\ counter < MaxRequests
    /\ index' = 1
    /\ pc' = "poll"
    /\ UNCHANGED <<status, started, runs, counter>>

\* The counter decides, not whether runs are left.
TimedOut ==
    /\ pc = "round"
    /\ counter >= MaxRequests
    /\ pc' = "timeout"
    /\ UNCHANGED <<status, started, runs, index, counter>>

AllComplete ==
    /\ pc = "round"
    /\ runs = <<>> /\ counter < MaxRequests
    /\ pc' = "completed"
    /\ UNCHANGED <<status, started, runs, index, counter>>

\* The status of k has arrived; a finished run is popped and the enumeration
\* moves on all the same, past the run that has moved up.
TakeOff(k) ==
    /\ runs' = IF Ready(k) THEN RemoveAt(runs, index) ELSE runs
    /\ index' = index + 1
    /\ pc' = "poll"

Poll ==
    /\ pc = "poll" /\ index <= Len(runs)
    /\ status[runs[index]] # "fresh"
    /\ TakeOff(runs[index])
    /\ UNCHANGED <<status, started, counter>>

\* The request fails, or the answer has no status: one more try after a minute.
PollFails ==
    /\ pc = "poll" /\ index <= Len(runs)
    /\ pc' = "retry"
    /\ UNCHANGED <<status, started, runs, index, counter>>

Retry ==
    /\ pc = "retry"
    /\ status[runs[index]] # "fresh"
    /\ TakeOff(runs[index])
    /\ UNCHANGED <<status, started, counter>>

RetryFails ==
    /\ pc = "retry"
    /\ pc' = "raised"
    /\ UNCHANGED <<status, started, runs, index, counter>>

EndRound ==
    /\ pc = "poll" /\ index > Len(runs)
    /\ counter' = counter + 1
    /\ pc' = "round"
    /\ UNCHANGED <<status, started, runs, index>>

-----------------------------------------------------------------------------
Client ==
    \/ \E k \in Runs : StartRun(k)
    \/ StartFails \/ AllStarted
    \/ BeginRound \/ TimedOut \/ AllComplete
    \/ Poll \/ PollFails \/ Retry \/ RetryFails \/ EndRound

Kubeflow == \E k \in Runs : Advance(k) /\ UNCHANGED clientVars

Next == Client \/ Kubeflow

Spec == Init /\ [][Next]_vars

\* The client goes on, whether Kubeflow does or not.
FairSpec == Spec /\ WF_vars(Client)

-----------------------------------------------------------------------------
(* Properties                                                              *)

\* Every variable holds what the code can store in it.
TypeOK ==
    /\ status \in [Runs -> Statuses]
    /\ started \in Seq(Runs)
    /\ pc \in Steps
    /\ runs \in Seq(Runs)
    /\ index \in 1..(MaxRuns + 1)
    /\ counter \in 0..MaxRequests

\* A run leaves the list only when it was seen to be over, although the list
\* shrinks while it is enumerated: every started run that is still going is in
\* the list, in its place, and a normal end means that all runs are over.
UnfinishedAreWatched ==
    pc \in {"round", "poll", "retry", "completed", "timeout"} =>
        /\ \A k \in ToSet(started) : Ready(k) \/ k \in ToSet(runs)
        /\ IsInjective(runs)
        /\ pc = "completed" => \A k \in ToSet(started) : Ready(k)
=============================================================================
