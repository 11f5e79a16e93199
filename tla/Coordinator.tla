---------------------------- MODULE Coordinator ----------------------------
(***************************************************************************)
(* The scheduler (coordinator.py, class OllamaNetworkCoordinator) over the *)
(* credit ledger: registered workers, job records and the queue of job ids.*)
(* The service calls each method under its lock, so a method is an action. *)
(*                                                                         *)
(* Abstracted: prompts, tokens and timestamps; prices (a reservation and a *)
(* cost are any member of Prices, catalog.py computes them); the catalog   *)
(* (a worker offers the selectors for which it has a model it can run);    *)
(* the score that ranks workers (assign_next_job may pick any candidate).  *)
(***************************************************************************)
EXTENDS Ledger, Sequences

CONSTANTS
    Workers,        \* worker identifiers
    NoWorker,       \* assigned_worker_id = None
    Selectors,      \* model tags and quality selectors a job can name
    Offers          \* bound: what a worker can register with

WorkerOffer ==
    [owner : Users, serves : SUBSET Selectors, online : BOOLEAN, capacity : Nat]

ASSUME CoordinatorAssumption ==
    /\ NoWorker \notin Workers
    /\ Offers \subseteq WorkerOffer

VARIABLES
    workers,        \* worker id -> WorkerNode
    jobs,           \* job id -> JobRecord
    queue           \* _queued_job_ids

coordinatorVars == <<workers, jobs, queue>>

vars == <<ledgerVars, coordinatorVars>>

JobStatus == {"queued", "assigned", "completed", "failed", "canceled"}

Terminal == {"completed", "failed", "canceled"}

WorkerNode ==
    [owner : Users, serves : SUBSET Selectors, online : BOOLEAN, capacity : Nat, active : Nat]

(* A result is verified when it succeeded and its verified flag is set.    *)
JobRecord ==
    [requester : Users, selector : Selectors, reserved : Prices, status : JobStatus,
     worker : Workers \cup {NoWorker}, actual : Nat, refunded : Nat,
     workerEarned : Nat, platformFee : Nat, result : {"none", "verified", "failed"}]

-----------------------------------------------------------------------------
(* Helpers *)

IsQueued(job) == job \in DOMAIN jobs /\ jobs[job].status = "queued"

NewJob(requester, selector, reserved) ==
    [requester |-> requester, selector |-> selector, reserved |-> reserved,
     status |-> "queued", worker |-> NoWorker, actual |-> 0, refunded |-> 0,
     workerEarned |-> 0, platformFee |-> 0, result |-> "none"]

NewWorker(offer) ==
    [owner |-> offer.owner, serves |-> offer.serves, online |-> offer.online,
     capacity |-> offer.capacity, active |-> 0]

(* supports_model, for the model the job's selector resolves to. *)
HasRoom(worker) == workers[worker].active < workers[worker].capacity

Serves(worker, job) ==
    /\ HasRoom(worker)
    /\ jobs[job].selector \in workers[worker].serves

(* Variant with a bug: the job's requester is compared with the worker id. *)
OwnJobByWorkerId(worker, job) == worker = jobs[job].requester

OwnJob(worker, job) == workers[worker].owner = jobs[job].requester

(* claim_job_for_worker takes a job, after it has put the worker online. *)
CanClaim(worker, job, allowOwn) ==
    /\ IsQueued(job)
    /\ allowOwn \/ ~OwnJob(worker, job)
    /\ Serves(worker, job)

(* _select_worker: the online workers of other owners that can serve the job. *)
Candidates(job) ==
    {w \in DOMAIN workers : workers[w].online /\ ~OwnJob(w, job) /\ Serves(w, job)}

(* What a pass over a sequence leaves of it: its elements in a set, in order. *)
Keeping(s, kept) ==
    LET passed[n \in 0 .. Len(s)] ==
          IF n = 0 THEN <<>>
          ELSE IF s[n] \in kept THEN Append(passed[n - 1], s[n]) ELSE passed[n - 1]
    IN  passed[Len(s)]

QueuedJobs == {j \in DOMAIN jobs : IsQueued(j)}

(* Variant with a bug: the jobs scanned before the k-th are not put back.   *)
RotatedQueueDropping(k) == SubSeq(queue, k + 1, Len(queue))

(* The queue once its k-th job is taken: the queued jobs scanned before it *)
(* went to the back, ids of jobs no longer queued were dropped.            *)
RotatedQueue(k) ==
    SubSeq(queue, k + 1, Len(queue)) \o Keeping(SubSeq(queue, 1, k - 1), QueuedJobs)

Assign(job, worker) ==
    jobs' = [jobs EXCEPT ![job].status = "assigned", ![job].worker = worker]

(* Variant with a bug: the cost is not capped at the reservation.           *)
UncappedBill(job, cost) == cost

(* min(reserved_credits, actual_cost) *)
BilledCredits(job, cost) ==
    IF cost < jobs[job].reserved THEN cost ELSE jobs[job].reserved

(* Variant with a bug: the worker's slot is not given back.                *)
AcceptResultKeepingSlot(job) ==
    /\ job \in DOMAIN jobs
    /\ jobs[job].worker \in DOMAIN workers
    /\ UNCHANGED workers

(* complete_job accepts a result from the worker the job names, whatever   *)
(* the job's status; this much happens before the ledger is called.        *)
AcceptResult(job) ==
    /\ job \in DOMAIN jobs
    /\ jobs[job].worker \in DOMAIN workers
    /\ workers' = [workers EXCEPT ![jobs[job].worker].active = IF @ > 0 THEN @ - 1 ELSE 0]

-----------------------------------------------------------------------------
(* Variants of the methods, each with a plausible bug; see Ledger.         *)

(* A submission overwrites an earlier job of the same id. *)
SubmitReusingIds(job, requester, selector, reserved) ==
    /\ Reserve(requester, job, reserved)
    /\ jobs' = With(jobs, job, NewJob(requester, selector, reserved))
    /\ queue' = Append(queue, job)
    /\ UNCHANGED workers

(* A failed job's record shows no refund. *)
FailWithoutRefund(job) ==
    /\ AcceptResult(job)
    /\ Release(job, "job_failed_or_unverified")
    /\ jobs' = [jobs EXCEPT ![job].result = "failed", ![job].status = "failed"]
    /\ UNCHANGED queue

(* The status is set before the ledger is asked. *)
LateResultSetsStatus(job, result) ==
    /\ AcceptResult(job)
    /\ job \notin DOMAIN holds
    /\ jobs' = [jobs EXCEPT ![job].result = result,
                            ![job].status = IF result = "failed" THEN "failed" ELSE "completed"]
    /\ UNCHANGED <<ledgerVars, queue>>

(* A cancellation leaves the credits on hold. *)
CancelKeepingHold(job) ==
    /\ IsQueued(job)
    /\ queue' = Keeping(queue, JobIds \ {job})
    /\ jobs' = [jobs EXCEPT ![job].status = "canceled", ![job].result = "failed"]
    /\ UNCHANGED <<ledgerVars, workers>>

-----------------------------------------------------------------------------
(* Methods of OllamaNetworkCoordinator *)

Init ==
    /\ LedgerInit
    /\ workers = EmptyDict
    /\ jobs = EmptyDict
    /\ queue = <<>>

(* Registering an id again replaces the node: active_jobs is 0 once more,  *)
(* whatever jobs the old node still has, and the owner may be another one. *)
RegisterWorker(worker, offer) ==
    /\ workers' = With(workers, worker, NewWorker(offer))
    /\ RegisterUser(offer.owner)
    /\ UNCHANGED <<jobs, queue>>

(* update_worker(online=False), from service.stop_local_worker. *)
StopWorker(worker) ==
    /\ worker \in DOMAIN workers
    /\ workers' = [workers EXCEPT ![worker].online = FALSE]
    /\ UNCHANGED <<ledgerVars, jobs, queue>>

SubmitJob(job, requester, selector, reserved) ==
    /\ job \notin DOMAIN jobs
    /\ Reserve(requester, job, reserved)
    /\ jobs' = With(jobs, job, NewJob(requester, selector, reserved))
    /\ queue' = Append(queue, job)
    /\ UNCHANGED workers

(* service.restart_failed_job: the failed job stays, a copy is submitted. *)
RestartFailedJob(failed, job, reserved) ==
    /\ failed \in DOMAIN jobs
    /\ jobs[failed].status = "failed"
    /\ SubmitJob(job, jobs[failed].requester, jobs[failed].selector, reserved)

(* assign_next_job: the first queued job that has a candidate goes to one. *)
(* (A scan that assigns nothing turns the queue once around: no step.)     *)
AssignNextJob(k) ==
    /\ k \in 1 .. Len(queue)
    /\ IsQueued(queue[k])
    /\ \A i \in 1 .. k - 1 : IsQueued(queue[i]) => Candidates(queue[i]) = {}
    /\ \E worker \in Candidates(queue[k]) :
         /\ Assign(queue[k], worker)
         /\ workers' = [workers EXCEPT ![worker].active = @ + 1]
    /\ queue' = RotatedQueue(k)
    /\ UNCHANGED ledgerVars

ClaimJobForWorker(worker, allowOwn, k) ==
    /\ worker \in DOMAIN workers
    /\ k \in 1 .. Len(queue)
    /\ CanClaim(worker, queue[k], allowOwn)
    /\ \A i \in 1 .. k - 1 : ~CanClaim(worker, queue[i], allowOwn)
    /\ Assign(queue[k], worker)
    /\ workers' = [workers EXCEPT ![worker].online = TRUE, ![worker].active = @ + 1]
    /\ queue' = RotatedQueue(k)
    /\ UNCHANGED ledgerVars

(* A poll that finds nothing still puts the worker online. *)
ClaimNothing(worker, allowOwn) ==
    /\ worker \in DOMAIN workers
    /\ \A i \in 1 .. Len(queue) : ~CanClaim(worker, queue[i], allowOwn)
    /\ workers' = [workers EXCEPT ![worker].online = TRUE]
    /\ queue' = Keeping(queue, QueuedJobs)
    /\ UNCHANGED <<ledgerVars, jobs>>

FailJob(job) ==
    /\ AcceptResult(job)
    /\ Release(job, "job_failed_or_unverified")
    /\ jobs' = [jobs EXCEPT ![job].result = "failed",
                            ![job].status = "failed",
                            ![job].refunded = jobs[job].reserved]
    /\ UNCHANGED queue

SelfServedJob(job) ==
    /\ AcceptResult(job)
    /\ OwnJob(jobs[job].worker, job)
    /\ Release(job, "self_served_refund")
    /\ jobs' = [jobs EXCEPT ![job].result = "verified",
                            ![job].status = "completed",
                            ![job].refunded = jobs[job].reserved]
    /\ UNCHANGED queue

SettleJob(job, cost) ==
    LET billed == BilledCredits(job, cost)
        share  == WorkerShare(billed)
    IN  /\ AcceptResult(job)
        /\ ~OwnJob(jobs[job].worker, job)
        /\ Settle(job, workers[jobs[job].worker].owner, billed)
        /\ jobs' = [jobs EXCEPT ![job].result = "verified",
                                ![job].status = "completed",
                                ![job].actual = billed,
                                ![job].refunded = holds[job].amount - billed,
                                ![job].workerEarned = share,
                                ![job].platformFee = billed - share]
        /\ UNCHANGED queue

(* A result for a job whose hold is gone: the ledger's pop raises KeyError *)
(* after the slot was given back and the stored result was replaced.       *)
LateResult(job, result) ==
    /\ AcceptResult(job)
    /\ job \notin DOMAIN holds
    /\ jobs' = [jobs EXCEPT ![job].result = result]
    /\ UNCHANGED <<ledgerVars, queue>>

CancelQueuedJob(job) ==
    /\ IsQueued(job)
    /\ queue' = Keeping(queue, JobIds \ {job})
    /\ IF job \in DOMAIN holds THEN Release(job, "admin_cancel") ELSE UNCHANGED ledgerVars
    /\ jobs' = [jobs EXCEPT ![job].status = "canceled",
                            ![job].refunded = IF job \in DOMAIN holds THEN holds[job].amount ELSE 0,
                            ![job].result = "failed"]
    /\ UNCHANGED workers

RerouteQueuedJob(job, selector) ==
    /\ IsQueued(job)
    /\ jobs' = [jobs EXCEPT ![job].selector = selector, ![job].worker = NoWorker]
    /\ UNCHANGED <<ledgerVars, workers, queue>>

(* Calls of the service that reach the ledger only. *)
LedgerCall ==
    /\ \/ \E user \in Users : RegisterUser(user)
       \/ \E user \in Users, amount \in Grants : Bootstrap(user, amount)
       \/ \E user \in Users, amount \in Grants : Purchase(user, amount)
       \/ \E account \in Accounts, amount \in Adjustments : AdminAdjust(account, amount)
    /\ UNCHANGED coordinatorVars

-----------------------------------------------------------------------------

WorkerStep(worker) ==
    \/ \E offer \in Offers : RegisterWorker(worker, offer)
    \/ StopWorker(worker)
    \/ \E allowOwn \in BOOLEAN, k \in 1 .. Len(queue) : ClaimJobForWorker(worker, allowOwn, k)
    \/ \E allowOwn \in BOOLEAN : ClaimNothing(worker, allowOwn)

JobStep(job) ==
    \/ \E user \in Users, selector \in Selectors, reserved \in Prices :
         SubmitJob(job, user, selector, reserved)
    \/ \E failed \in JobIds, reserved \in Prices : RestartFailedJob(failed, job, reserved)
    \/ FailJob(job)
    \/ SelfServedJob(job)
    \/ \E cost \in Prices : SettleJob(job, cost)
    \/ \E result \in {"verified", "failed"} : LateResult(job, result)
    \/ CancelQueuedJob(job)
    \/ \E selector \in Selectors : RerouteQueuedJob(job, selector)

Next ==
    \/ LedgerCall
    \/ \E k \in 1 .. Len(queue) : AssignNextJob(k)
    \/ \E worker \in Workers : WorkerStep(worker)
    \/ \E job \in JobIds : JobStep(job)

Spec == Init /\ [][Next]_vars

-----------------------------------------------------------------------------
(* Properties *)

JobsInStatus(statuses) == {j \in DOMAIN jobs : jobs[j].status \in statuses}

WorkersTypeOK ==
    /\ DOMAIN workers \subseteq Workers
    /\ \A w \in DOMAIN workers : workers[w] \in WorkerNode

JobsTypeOK ==
    /\ DOMAIN jobs \subseteq JobIds
    /\ \A j \in DOMAIN jobs : jobs[j] \in JobRecord

(* Workers, job records and the queue have their types. *)
TypeOK == WorkersTypeOK /\ JobsTypeOK /\ queue \in Seq(JobIds)

(* The queue holds exactly the queued jobs, each once, however claims      *)
(* rotate it and cancellations filter it (coordinator.py:112-170, 352): a  *)
(* job missing from it would be lost, a job in it twice served twice.      *)
QueueHoldsQueuedJobs ==
    /\ {queue[i] : i \in 1 .. Len(queue)} = JobsInStatus({"queued"})
    /\ Len(queue) = Cardinality(JobsInStatus({"queued"}))

(* Credits are on hold for exactly the jobs that are queued or assigned,   *)
(* and a hold is the job's requester's, for what the job reserved.  It is  *)
(* what makes every _holds.pop of a first result succeed.                  *)
HoldsMatchOpenJobs ==
    /\ DOMAIN holds = JobsInStatus({"queued", "assigned"})
    /\ \A j \in DOMAIN holds :
         /\ holds[j].user = jobs[j].requester
         /\ holds[j].amount = jobs[j].reserved

RowTotal(job, type) ==
    SumOfAmounts({t \in JobRows(job) : t.type = type /\ ~t.pending})

(* What a job record says was charged, refunded, earned and kept is what   *)
(* the ledger's rows for that job say, and adds up to the reservation.     *)
RecordsMatchRows ==
    \A j \in DOMAIN jobs :
        /\ jobs[j].actual = -RowTotal(j, "spend")
        /\ jobs[j].refunded = RowTotal(j, "refund")
        /\ jobs[j].workerEarned = RowTotal(j, "earn")
        /\ jobs[j].platformFee = RowTotal(j, "adjustment")
        /\ jobs[j].status \in Terminal => jobs[j].actual + jobs[j].refunded = jobs[j].reserved

(* Credits are earned only for another user's job that completed           *)
(* (LLM_NETWORK_MVP.md:10), even when workers change owner mid-job.        *)
EarnedFromOthers ==
    \A t \in transactions :
        t.type = "earn" => /\ t.job \in DOMAIN jobs
                           /\ jobs[t.job].status = "completed"
                           /\ jobs[t.job].requester # t.user

(* A job names a worker from its assignment on, a queued or canceled job   *)
(* names none, and the worker it names is registered.                      *)
AssignedWorkerKnown ==
    \A j \in DOMAIN jobs :
        IF jobs[j].status \in {"queued", "canceled"}
        THEN jobs[j].worker = NoWorker
        ELSE jobs[j].worker \in DOMAIN workers

AssignedTo(worker) ==
    {j \in JobsInStatus({"assigned"}) : jobs[j].worker = worker}

(* A worker never counts more active jobs than it has assigned, nor more   *)
(* than its limit: no slot leaks away, whatever results come late or       *)
(* twice.  (It may count fewer: registering again resets the count.)       *)
NoSlotLeaks ==
    \A w \in DOMAIN workers :
        /\ workers[w].active <= Cardinality(AssignedTo(w))
        /\ workers[w].active <= workers[w].capacity

(* Once a job is completed, failed or canceled nothing about its credits   *)
(* or its status changes again, late and repeated results included.        *)
Settlement(job) ==
    <<jobs[job].status, jobs[job].reserved, jobs[job].actual, jobs[job].refunded,
      jobs[job].workerEarned, jobs[job].platformFee>>

ClosedJobsStayClosed ==
    [][\A j \in JobsInStatus(Terminal) : Settlement(j)' = Settlement(j)]_vars

(* The coordinator uses the ledger as the ledger's own specification       *)
(* allows: fresh ids, costs within the hold, never paying the requester.   *)
ImplementsLedger == LedgerSpec

-----------------------------------------------------------------------------
(* What the design notes say and the code does not do *)

(* LLM_NETWORK_MVP.md:11: "Self-owned workers are excluded from network    *)
(* assignment to prevent self-farming."                                    *)
SelfOwnedWorkersExcluded ==
    \A j \in JobsInStatus({"assigned"}) : ~OwnJob(jobs[j].worker, j)

(* LLM_NETWORK_MVP.md:31: "Transfer the actual job credits to the worker   *)
(* owner and refund unused reservation."                                   *)
OwnerReceivesActualCredits ==
    \A j \in JobsInStatus({"completed"}) : jobs[j].workerEarned = jobs[j].actual

(* LLM_NETWORK_MVP.md:30: "Complete the job with a verified result."       *)
CompletedJobsAreVerified ==
    \A j \in JobsInStatus({"completed"}) : jobs[j].result = "verified"

=============================================================================
