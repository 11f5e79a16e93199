--------------------------- MODULE LocalWorkerLoop ---------------------------
(***************************************************************************)
(* The loop threads the service runs for a worker of its own machine       *)
(* (service.py, start_local_worker, stop_local_worker, _local_worker_loop, *)
(* run_worker_cycle).  The service's lock is taken for each request and    *)
(* for each part of a cycle, but not while the stop event is read nor      *)
(* while the model runs: a step is what happens under one hold of the lock *)
(* or between two.  One worker id; the loops of others are independent.    *)
(*                                                                         *)
(* Abstracted: the queue (a job that is queued is one this worker can      *)
(* claim, see Coordinator), the poll interval, the counters of the status. *)
(***************************************************************************)
EXTENDS Naturals, FiniteSets

CONSTANTS
    Threads,        \* bound: the loop threads that are ever started
    NoThread,       \* no entry in _local_worker_loops
    Jobs,           \* the jobs the worker can claim
    NoJob,
    Capacity        \* max_concurrent_jobs

ASSUME LoopAssumption ==
    /\ NoThread \notin Threads
    /\ NoJob \notin Jobs
    /\ Capacity \in Nat \ {0}

VARIABLES
    pc,             \* where each thread is
    stopEvent,      \* stop_event of each thread's session, set or not
    running,        \* status["running"] of each thread's session
    session,        \* _local_worker_loops[worker_id]["thread"]
    assignment,     \* the job a thread's cycle has claimed
    jobs,           \* job -> "queued", "assigned", "closed"
    online,         \* the worker node: online
    active,         \* and active_jobs
    lastRequest,    \* the last of start and stop that was answered
    lateClaims      \* claims of each thread since its stop event was set

loopVars == <<pc, assignment>>

workerVars == <<online, active>>

vars == <<pc, stopEvent, running, session, assignment, jobs, online, active,
          lastRequest, lateClaims>>

Place == {"unborn", "check", "claim", "execute", "complete", "report", "failed", "wait", "ended"}

Alive(t) == pc[t] \notin {"unborn", "ended"}

Goto(t, place) == pc' = [pc EXCEPT ![t] = place]

(* The loop writes to whatever session is registered for its worker. *)
ReportRunning == running' = [running EXCEPT ![session] = TRUE]

-----------------------------------------------------------------------------
(* Variants of the methods, each with a plausible bug.                     *)

(* A session whose stop event is set is taken for a dead one. *)
LoopUsableUnlessStopped == session # NoThread /\ Alive(session) /\ ~stopEvent[session]

(* The loop looks at the status instead of the event. *)
CheckStatus(t) ==
    /\ pc[t] = "check"
    /\ Goto(t, IF running[session] THEN "claim" ELSE "ended")
    /\ UNCHANGED <<stopEvent, running, session, assignment, jobs, workerVars, lastRequest, lateClaims>>

(* After a job the loop polls at once, without a look at the event. *)
WaitThenClaim(t) ==
    /\ pc[t] = "wait"
    /\ Goto(t, IF assignment[t] = NoJob THEN "check" ELSE "claim")
    /\ assignment' = [assignment EXCEPT ![t] = NoJob]
    /\ UNCHANGED <<stopEvent, running, session, jobs, workerVars, lastRequest, lateClaims>>

(* An exception of the executor is left to the loop. *)
ExecuteUncaught(t) ==
    /\ pc[t] = "execute"
    /\ \E place \in {"complete", "failed"} : Goto(t, place)
    /\ UNCHANGED <<stopEvent, running, session, assignment, jobs, workerVars, lastRequest, lateClaims>>

-----------------------------------------------------------------------------
(* Requests *)

Init ==
    /\ pc = [t \in Threads |-> "unborn"]
    /\ stopEvent = [t \in Threads |-> FALSE]
    /\ running = [t \in Threads |-> FALSE]
    /\ session = NoThread
    /\ assignment = [t \in Threads |-> NoJob]
    /\ jobs = [j \in Jobs |-> "queued"]
    /\ online = FALSE
    /\ active = 0
    /\ lastRequest = "none"
    /\ lateClaims = [t \in Threads |-> 0]

(* existing and existing["thread"].is_alive() *)
LoopUsable == session # NoThread /\ Alive(session)

(* start_local_worker: the worker is registered, online and with no active *)
(* jobs; a thread is started unless the registered one is still alive.     *)
StartLocalWorker ==
    /\ online' = TRUE
    /\ active' = 0
    /\ IF LoopUsable
       THEN UNCHANGED <<pc, running, session>>
       ELSE \E t \in Threads :
              /\ pc[t] = "unborn"
              /\ session' = t
              /\ running' = [running EXCEPT ![t] = TRUE]
              /\ Goto(t, "check")
    /\ lastRequest' = "start"
    /\ UNCHANGED <<stopEvent, assignment, jobs, lateClaims>>

(* stop_local_worker, with and without a session. *)
StopLocalWorker ==
    /\ IF session = NoThread
       THEN UNCHANGED <<stopEvent, running>>
       ELSE /\ stopEvent' = [stopEvent EXCEPT ![session] = TRUE]
            /\ running' = [running EXCEPT ![session] = FALSE]
    /\ online' = FALSE
    /\ lastRequest' = "stop"
    /\ UNCHANGED <<loopVars, session, jobs, active, lateClaims>>

-----------------------------------------------------------------------------
(* The loop *)

(* while not stop_event.is_set(), read without the lock. *)
CheckStop(t) ==
    /\ pc[t] = "check"
    /\ Goto(t, IF stopEvent[t] THEN "ended" ELSE "claim")
    /\ UNCHANGED <<stopEvent, running, session, assignment, jobs, workerVars, lastRequest, lateClaims>>

(* run_worker_cycle's claim: online, whether or not there is a job. *)
Claim(t) ==
    /\ pc[t] = "claim"
    /\ online' = TRUE
    /\ \E job \in Jobs :
         /\ jobs[job] = "queued"
         /\ active < Capacity
         /\ jobs' = [jobs EXCEPT ![job] = "assigned"]
         /\ assignment' = [assignment EXCEPT ![t] = job]
    /\ active' = active + 1
    /\ lateClaims' = [lateClaims EXCEPT ![t] = IF stopEvent[t] THEN @ + 1 ELSE @]
    /\ Goto(t, "execute")
    /\ UNCHANGED <<stopEvent, running, session, lastRequest>>

ClaimNothing(t) ==
    /\ pc[t] = "claim"
    /\ active >= Capacity \/ \A job \in Jobs : jobs[job] # "queued"
    /\ online' = TRUE
    /\ Goto(t, "report")
    /\ UNCHANGED <<stopEvent, running, session, assignment, jobs, active, lastRequest, lateClaims>>

(* The executor returns or raises; either way there is a result to post. *)
Execute(t) ==
    /\ pc[t] = "execute"
    /\ Goto(t, "complete")
    /\ UNCHANGED <<stopEvent, running, session, assignment, jobs, workerVars, lastRequest, lateClaims>>

(* complete_job; saving may raise after the job is closed. *)
Complete(t) ==
    /\ pc[t] = "complete"
    /\ jobs' = [jobs EXCEPT ![assignment[t]] = "closed"]
    /\ active' = IF active > 0 THEN active - 1 ELSE 0
    /\ \E place \in {"report", "failed"} : Goto(t, place)
    /\ UNCHANGED <<stopEvent, running, session, assignment, online, lastRequest, lateClaims>>

(* The status after a cycle: running, also when a stop came in meanwhile. *)
Report(t) ==
    /\ pc[t] = "report"
    /\ ReportRunning
    /\ Goto(t, "wait")
    /\ UNCHANGED <<stopEvent, session, assignment, jobs, workerVars, lastRequest, lateClaims>>

(* The except branch. *)
ReportError(t) ==
    /\ pc[t] = "failed"
    /\ ReportRunning
    /\ Goto(t, "wait")
    /\ UNCHANGED <<stopEvent, session, assignment, jobs, workerVars, lastRequest, lateClaims>>

(* stop_event.wait returns when the interval is over or the event is set. *)
Wait(t) ==
    /\ pc[t] = "wait"
    /\ Goto(t, "check")
    /\ assignment' = [assignment EXCEPT ![t] = NoJob]
    /\ UNCHANGED <<stopEvent, running, session, jobs, workerVars, lastRequest, lateClaims>>

LoopStep(t) ==
    \/ CheckStop(t) \/ Claim(t) \/ ClaimNothing(t) \/ Execute(t)
    \/ Complete(t) \/ Report(t) \/ ReportError(t) \/ Wait(t)

Next ==
    \/ StartLocalWorker
    \/ StopLocalWorker
    \/ \E t \in Threads : LoopStep(t)

Spec == Init /\ [][Next]_vars

(* Threads are scheduled, the lock is not held for ever, and the executor  *)
(* comes back (it has a timeout); nobody has to start or stop anything.    *)
FairSpec == Spec /\ \A t \in Threads : WF_vars(LoopStep(t))

-----------------------------------------------------------------------------
(* Properties *)

(* However starts and stops fall into a cycle, at most one thread polls    *)
(* for the worker, it is the registered one, and every job its cycles have *)
(* claimed and not closed is in its hands (service.py:1145).               *)
OneLoopPerWorker ==
    /\ \A t \in Threads : Alive(t) => t = session
    /\ \A j \in Jobs : jobs[j] = "assigned" =>
         \E t \in Threads : assignment[t] = j /\ pc[t] \in {"execute", "complete"}

(* A stop that falls between the check of the event and the claim lets the *)
(* loop take one more job, never a second one.                             *)
OneLateClaim == \A t \in Threads : lateClaims[t] <= 1

(* After a stop the thread ends, though it overwrites the status the stop  *)
(* has set.                                                                *)
StopEndsLoop ==
    \A t \in Threads : (stopEvent[t] /\ Alive(t)) ~> pc[t] = "ended"

(* A job the loop has claimed is closed, stopped or not, failing or not.   *)
ClaimedJobsAreClosed ==
    \A j \in Jobs : (jobs[j] = "assigned") ~> (jobs[j] = "closed")

-----------------------------------------------------------------------------
(* What the page and the tests say and the code does not do                *)

(* dashboard.py:1744: "Worker ${workerId} was stopped."                    *)
StoppedWorkerIsOffline == lastRequest = "stop" => ~online

(* tests/test_runtime_api.py:255, of the answer to a start:                *)
(* "assert started["loop"]["running"] is True"                             *)
StartedWorkerHasLoop ==
    lastRequest = "start" => \E t \in Threads : Alive(t) /\ ~stopEvent[t]

=============================================================================
