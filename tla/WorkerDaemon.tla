---------------------------- MODULE WorkerDaemon ----------------------------
(***************************************************************************)
(* A worker daemon on another machine (worker_daemon.py, class             *)
(* WorkerDaemon) and the server's handlers for its three requests, over a  *)
(* network that loses requests and replies and delays them past the        *)
(* daemon's timeout.  The daemon never repeats a request: an error ends    *)
(* it, and whoever runs it may start it again under the same worker id.    *)
(*                                                                         *)
(* Abstracted: what a request carries besides the job; the other workers   *)
(* (a job queued here is one this worker can claim); credits.              *)
(***************************************************************************)
EXTENDS Naturals, FiniteSets

CONSTANTS
    Jobs,
    NoJob,
    Capacity,       \* max_concurrent_jobs
    MaxFaults       \* bound: lost messages, early timeouts and crashes

ASSUME DaemonAssumption ==
    /\ NoJob \notin Jobs
    /\ Capacity \in Nat \ {0}
    /\ MaxFaults \in Nat

VARIABLES
    run,            \* how often the daemon has been started
    place,          \* what its only thread is doing
    held,           \* the job it executes or reports
    requests,       \* requests on their way to the server or waiting there
    replies,        \* replies on their way to the daemon
    jobs,           \* server: job -> "queued", "assigned", "closed"
    active,         \* server: active_jobs of the worker
    handed,         \* how often each job was given to a daemon
    lateClaim,      \* a claim was served after a later start had registered
    faults

daemonVars == <<run, place, held>>
networkVars == <<requests, replies>>
serverVars == <<jobs, active, handed, lateClaim>>
vars == <<daemonVars, networkVars, serverVars, faults>>

Starts == 1 .. MaxFaults + 1

Kinds == {"register", "claim", "complete"}

Waiting == {"registering", "claiming", "posting"}

Send(kind, job) == requests' = requests \cup {[run |-> run', kind |-> kind, job |-> job]}

(* A reply is of use only to the daemon that still waits for it. *)
Answer(request, kind, job) ==
    /\ requests' = requests \ {request}
    /\ replies' = IF request.run = run /\ place \in Waiting
                  THEN replies \cup {[kind |-> kind, job |-> job]} ELSE replies

(* An exception leaves serve_forever; what it waited for is dropped.       *)
Stop ==
    /\ place' = "down"
    /\ held' = NoJob
    /\ replies' = {}

Fault == faults < MaxFaults /\ faults' = faults + 1

-----------------------------------------------------------------------------
(* Variants, each with a plausible bug.                                    *)

(* A registration queues what the worker still had. *)
RegisterRequeueing(m) ==
    /\ m.kind = "register"
    /\ active' = 0
    /\ jobs' = [j \in Jobs |-> IF jobs[j] = "assigned" THEN "queued" ELSE jobs[j]]
    /\ Answer(m, "registered", NoJob)
    /\ UNCHANGED <<daemonVars, handed, lateClaim, faults>>

(* A registration keeps the slots of the worker it replaces. *)
RegisterKeepingSlots(m) ==
    /\ m.kind = "register"
    /\ Answer(m, "registered", NoJob)
    /\ UNCHANGED <<daemonVars, serverVars, faults>>

(* An exception of the executor is not turned into a failing result.       *)
ExecuteUncaught ==
    /\ place = "executing"
    /\ Stop
    /\ UNCHANGED <<run, requests, serverVars, faults>>

-----------------------------------------------------------------------------
(* The daemon *)

Init ==
    /\ run = 0
    /\ place = "down"
    /\ held = NoJob
    /\ requests = {}
    /\ replies = {}
    /\ jobs = [j \in Jobs |-> "queued"]
    /\ active = 0
    /\ handed = [j \in Jobs |-> 0]
    /\ lateClaim = FALSE
    /\ faults = 0

(* serve_forever, started: register. *)
Register ==
    /\ place = "down"
    /\ run' = run + 1
    /\ place' = "registering"
    /\ Send("register", NoJob)
    /\ UNCHANGED <<held, replies, serverVars, faults>>

(* run_once, again and again *)
Poll ==
    /\ place = "idle"
    /\ run' = run
    /\ place' = "claiming"
    /\ Send("claim", NoJob)
    /\ UNCHANGED <<held, replies, serverVars, faults>>

ReceiveReply(reply) ==
    /\ place \in Waiting
    /\ replies' = replies \ {reply}
    /\ held' = reply.job
    /\ place' = IF reply.job = NoJob THEN "idle" ELSE "executing"
    /\ UNCHANGED <<run, requests, serverVars, faults>>

(* The executor returns or raises: a result is posted in both cases. *)
Execute ==
    /\ place = "executing"
    /\ run' = run
    /\ place' = "posting"
    /\ Send("complete", held)
    /\ UNCHANGED <<held, replies, serverVars, faults>>

(* urlopen gives up: nothing is under way any more for this daemon. *)
GiveUp ==
    /\ place \in Waiting
    /\ replies = {}
    /\ \A m \in requests : m.run # run
    /\ Stop
    /\ UNCHANGED <<run, requests, serverVars, faults>>

-----------------------------------------------------------------------------
(* The server *)

(* POST /workers/register: a new node takes the place of the old one. *)
HandleRegister(m) ==
    /\ m.kind = "register"
    /\ active' = 0
    /\ Answer(m, "registered", NoJob)
    /\ UNCHANGED <<daemonVars, jobs, handed, lateClaim, faults>>

(* POST /workers/<id>/claim *)
HandleClaim(m) ==
    /\ m.kind = "claim"
    /\ active < Capacity
    /\ \E j \in Jobs :
         /\ jobs[j] = "queued"
         /\ jobs' = [jobs EXCEPT ![j] = "assigned"]
         /\ handed' = [handed EXCEPT ![j] = @ + 1]
         /\ Answer(m, "claimed", j)
    /\ active' = active + 1
    /\ lateClaim' = (lateClaim \/ m.run # run)
    /\ UNCHANGED <<daemonVars, faults>>

HandleClaimNothing(m) ==
    /\ m.kind = "claim"
    /\ active >= Capacity \/ \A j \in Jobs : jobs[j] # "queued"
    /\ Answer(m, "claimed", NoJob)
    /\ UNCHANGED <<daemonVars, serverVars, faults>>

(* POST /jobs/complete: the job is the worker's, whichever start claimed it. *)
HandleComplete(m) ==
    /\ m.kind = "complete"
    /\ jobs[m.job] = "assigned"
    /\ jobs' = [jobs EXCEPT ![m.job] = "closed"]
    /\ active' = IF active > 0 THEN active - 1 ELSE 0
    /\ Answer(m, "completed", NoJob)
    /\ UNCHANGED <<daemonVars, handed, lateClaim, faults>>

(* Each request has a thread of its own (ThreadingHTTPServer). *)
Handle(start, kind) ==
    \E m \in requests :
      /\ m.run = start /\ m.kind = kind
      /\ HandleRegister(m) \/ HandleClaim(m) \/ HandleClaimNothing(m) \/ HandleComplete(m)

-----------------------------------------------------------------------------
(* Faults *)

LoseRequest ==
    /\ Fault
    /\ \E m \in requests : requests' = requests \ {m}
    /\ UNCHANGED <<daemonVars, replies, serverVars>>

LoseReply ==
    /\ Fault
    /\ \E reply \in replies : replies' = replies \ {reply}
    /\ UNCHANGED <<daemonVars, requests, serverVars>>

(* The timeout passes while the server has yet to answer, or the daemon is *)
(* ended at any other moment.                                              *)
EndDaemon ==
    /\ Fault
    /\ place # "down"
    /\ Stop
    /\ UNCHANGED <<run, requests, serverVars>>

-----------------------------------------------------------------------------

DaemonStep ==
    \/ Poll \/ Execute \/ GiveUp
    \/ \E reply \in replies : ReceiveReply(reply)

Next ==
    \/ Register
    \/ DaemonStep
    \/ \E start \in Starts, kind \in Kinds : Handle(start, kind)
    \/ LoseRequest \/ LoseReply \/ EndDaemon

Spec == Init /\ [][Next]_vars

(* The daemon's thread and the server's handlers run, the executor returns *)
(* (it has a timeout), and a daemon that ended is started again.           *)
FairSpec ==
    /\ Spec
    /\ WF_vars(Register)
    /\ WF_vars(DaemonStep)
    /\ \A start \in Starts, kind \in Kinds : WF_vars(Handle(start, kind))

-----------------------------------------------------------------------------
(* Properties *)

(* Assigned for good: no daemon executes the job or is told of it, and no  *)
(* result is under way.  Nothing reassigns it (LLM_NETWORK_MVP.md:114).    *)
Orphans ==
    {j \in Jobs :
       /\ jobs[j] = "assigned"
       /\ held # j
       /\ \A m \in requests : m.job # j
       /\ \A reply \in replies : reply.job # j}

(* A job is given to one start of the daemon only, and executed by nobody  *)
(* else, however its requests are lost, delayed or answered too late.      *)
ExecutedOnce ==
    /\ \A j \in Jobs : handed[j] <= 1
    /\ held # NoJob => jobs[held] # "queued"

(* A fault costs at most one job: without one, no job is left assigned     *)
(* that nobody works on (worker_daemon.py:62-76 posts failures too).       *)
OneJobPerFault == Cardinality(Orphans) <= faults

(* Once faults are over, a queued job is executed and closed, unless its   *)
(* own claim was among what was lost; and unless a claim of an earlier     *)
(* start was served after the last registration: that claim's slot is      *)
(* never given back, and the worker is told of nothing any more.           *)
QueuedJobsAreServed ==
    \A j \in Jobs :
      (jobs[j] = "queued") ~> (jobs[j] = "closed" \/ j \in Orphans \/ lateClaim)

=============================================================================
