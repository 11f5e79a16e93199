------------------------- MODULE CoordinatorProofs -------------------------
(***************************************************************************)
(* Proofs about the coordinator, for every set of users, workers, jobs,    *)
(* selectors, prices and offers, and every bound.                          *)
(*                                                                         *)
(* The inductive invariant CoordinatorInv says that holds and open jobs    *)
(* correspond, and that no row mentions a job that was never submitted.    *)
(* It makes every step of the coordinator a step of the ledger's own       *)
(* specification, so what LedgerProofs proves holds of the coordinator.    *)
(* On top of it stand, each in its own section, the amounts the job        *)
(* records carry, the slots the workers have promised, and what a pass     *)
(* over the queue keeps of it.                                             *)
(***************************************************************************)
EXTENDS Coordinator, LedgerProofs, SequenceTheorems

RowsOfKnownJobs ==
    \A t \in transactions : t.job \in JobIds => t.job \in DOMAIN jobs

CoordinatorInv ==
    /\ LedgerTypeOK
    /\ WorkersTypeOK
    /\ JobsTypeOK
    /\ HoldsMatchOpenJobs
    /\ RowsOfKnownJobs

-----------------------------------------------------------------------------
(* Every step of the coordinator is a step of the ledger, or leaves it be  *)

LEMMA SubmitIsReserve ==
    ASSUME CoordinatorInv, NEW job \in JobIds, NEW user \in Users, NEW selector,
           NEW amount \in Prices, SubmitJob(job, user, selector, amount)
    PROVE  LedgerReserve(job)
<1>1. job \notin DOMAIN holds
  BY DEF SubmitJob, CoordinatorInv, HoldsMatchOpenJobs, JobsInStatus
<1>2. \A t \in transactions : t.job # job
  BY DEF SubmitJob, CoordinatorInv, RowsOfKnownJobs
<1> QED
  BY <1>1, <1>2 DEF SubmitJob, LedgerReserve, FreshJob

(* What a settlement bills is a price within the hold.                     *)
LEMMA BilledWithinHold ==
    ASSUME CoordinatorInv, NEW job \in DOMAIN holds, NEW cost \in Prices
    PROVE  /\ job \in DOMAIN jobs
           /\ BilledCredits(job, cost) \in Prices
           /\ BilledCredits(job, cost) <= holds[job].amount
           /\ holds[job].user = jobs[job].requester
<1>1. job \in DOMAIN jobs /\ holds[job].amount = jobs[job].reserved
      /\ holds[job].user = jobs[job].requester
  BY DEF CoordinatorInv, HoldsMatchOpenJobs, JobsInStatus
<1>2. jobs[job].reserved \in Prices /\ Prices \subseteq Nat
  BY <1>1, LedgerAssumption DEF CoordinatorInv, JobsTypeOK, JobRecord
<1> QED
  BY <1>1, <1>2 DEF BilledCredits

LEMMA SettleIsLedgerSettle ==
    ASSUME CoordinatorInv, NEW job \in JobIds, NEW cost \in Prices, SettleJob(job, cost)
    PROVE  LedgerSettle(job)
<1> DEFINE billed == BilledCredits(job, cost)
           owner == workers[jobs[job].worker].owner
<1>1. Settle(job, owner, billed) /\ ~OwnJob(jobs[job].worker, job)
  BY DEF SettleJob
<1>2. job \in DOMAIN holds
  BY <1>1 DEF Settle
<1>3. billed \in Prices /\ billed <= holds[job].amount
  BY <1>2, BilledWithinHold
<1>4. owner \in Users
  BY DEF SettleJob, AcceptResult, CoordinatorInv, WorkersTypeOK, WorkerNode
<1>5. owner # holds[job].user
  BY <1>1, <1>2, BilledWithinHold DEF OwnJob
<1> HIDE DEF billed, owner
<1> QED
  BY <1>1, <1>2, <1>3, <1>4, <1>5 DEF LedgerSettle

LEMMA CoordinatorStepIsLedgerStep ==
    ASSUME CoordinatorInv, [Next]_vars
    PROVE  [LedgerNext]_ledgerVars
<1>1. CASE LedgerCall
  BY <1>1 DEF LedgerCall, LedgerNext
<1>2. CASE \E k \in 1 .. Len(queue) : AssignNextJob(k)
  BY <1>2 DEF AssignNextJob
<1>3. ASSUME NEW worker \in Workers, WorkerStep(worker)
      PROVE  [LedgerNext]_ledgerVars
  <2>1. CASE \E offer \in Offers : RegisterWorker(worker, offer)
    BY <2>1, CoordinatorAssumption DEF RegisterWorker, LedgerNext, WorkerOffer
  <2>2. CASE StopWorker(worker)
    BY <2>2 DEF StopWorker
  <2>3. CASE \E allowOwn \in BOOLEAN, k \in 1 .. Len(queue) :
               ClaimJobForWorker(worker, allowOwn, k)
    BY <2>3 DEF ClaimJobForWorker
  <2>4. CASE \E allowOwn \in BOOLEAN : ClaimNothing(worker, allowOwn)
    BY <2>4 DEF ClaimNothing
  <2> QED
    BY <1>3, <2>1, <2>2, <2>3, <2>4 DEF WorkerStep
<1>4. ASSUME NEW job \in JobIds, JobStep(job)
      PROVE  [LedgerNext]_ledgerVars
  <2>1. CASE \E user \in Users, selector \in Selectors, reserved \in Prices :
               SubmitJob(job, user, selector, reserved)
    BY <2>1, SubmitIsReserve DEF LedgerNext
  <2>2. CASE \E failed \in JobIds, reserved \in Prices : RestartFailedJob(failed, job, reserved)
    BY <2>2, SubmitIsReserve
    DEF RestartFailedJob, LedgerNext, CoordinatorInv, JobsTypeOK, JobRecord
  <2>3. CASE FailJob(job)
    BY <2>3 DEF FailJob, LedgerNext, LedgerRelease, ReleaseSource
  <2>4. CASE SelfServedJob(job)
    BY <2>4 DEF SelfServedJob, LedgerNext, LedgerRelease, ReleaseSource
  <2>5. CASE \E cost \in Prices : SettleJob(job, cost)
    BY <2>5, SettleIsLedgerSettle DEF LedgerNext
  <2>6. CASE \E result \in {"verified", "failed"} : LateResult(job, result)
    BY <2>6 DEF LateResult
  <2>7. CASE CancelQueuedJob(job)
    BY <2>7 DEF CancelQueuedJob, LedgerNext, LedgerRelease, ReleaseSource
  <2>8. CASE \E selector \in Selectors : RerouteQueuedJob(job, selector)
    BY <2>8 DEF RerouteQueuedJob
  <2> QED
    BY <1>4, <2>1, <2>2, <2>3, <2>4, <2>5, <2>6, <2>7, <2>8 DEF JobStep
<1>5. CASE UNCHANGED vars
  BY <1>5 DEF vars
<1> QED
  BY <1>1, <1>2, <1>3, <1>4, <1>5 DEF Next

-----------------------------------------------------------------------------
(* How the handlers edit job records *)

JobUpdated(job) ==
    /\ DOMAIN jobs' = DOMAIN jobs
    /\ \A j \in DOMAIN jobs \ {job} : jobs'[j] = jobs[j]

(* The credits a record shows, apart from what was refunded.               *)
SameCharges(old, new) ==
    /\ new.reserved = old.reserved /\ new.actual = old.actual
    /\ new.workerEarned = old.workerEarned /\ new.platformFee = old.platformFee

LEMMA AssignEdit ==
    ASSUME JobsTypeOK, NEW job \in DOMAIN jobs, NEW worker \in Workers, Assign(job, worker)
    PROVE  /\ JobUpdated(job)
           /\ jobs'[job] \in JobRecord
           /\ jobs'[job].status = "assigned"
           /\ jobs'[job].worker = worker
           /\ jobs'[job].requester = jobs[job].requester
           /\ jobs'[job].refunded = jobs[job].refunded
           /\ SameCharges(jobs[job], jobs'[job])
<1> DEFINE new == [jobs[job] EXCEPT !.status = "assigned", !.worker = worker]
<1>1. jobs' = [jobs EXCEPT ![job] = new]
  BY DEF Assign
<1>2. jobs[job] \in JobRecord
  BY DEF JobsTypeOK
<1>3. new \in JobRecord
  BY <1>2, Zenon DEF JobRecord, JobStatus
<1>4. /\ new.requester = jobs[job].requester /\ new.refunded = jobs[job].refunded
      /\ new.status = "assigned" /\ new.worker = worker /\ SameCharges(jobs[job], new)
  BY <1>2, Zenon DEF JobRecord, SameCharges
<1> HIDE DEF new
<1> QED
  BY <1>1, <1>3, <1>4 DEF JobUpdated

Open == {"queued", "assigned"}

(* A job whose first result is in, or that was canceled.                   *)
JobClosed(job) ==
    /\ JobUpdated(job)
    /\ jobs'[job] \in JobRecord
    /\ jobs'[job].status \in Terminal
    /\ jobs'[job].worker = jobs[job].worker
    /\ jobs'[job].requester = jobs[job].requester

LEMMA FailEdit ==
    ASSUME JobsTypeOK, NEW job \in JobIds, FailJob(job)
    PROVE  /\ JobClosed(job) /\ jobs'[job].status = "failed"
           /\ jobs'[job].refunded = jobs[job].reserved
           /\ SameCharges(jobs[job], jobs'[job])
<1> DEFINE new == [jobs[job] EXCEPT !.result = "failed", !.status = "failed",
                                    !.refunded = jobs[job].reserved]
<1>1. job \in DOMAIN jobs /\ jobs' = [jobs EXCEPT ![job] = new]
  BY DEF FailJob, AcceptResult
<1>2. jobs[job] \in JobRecord
  BY <1>1 DEF JobsTypeOK
<1>3. jobs[job].reserved \in Nat
  BY <1>2, LedgerAssumption DEF JobRecord
<1>4. new \in JobRecord /\ new.status = "failed"
      /\ new.refunded = jobs[job].reserved /\ SameCharges(jobs[job], new)
      /\ new.worker = jobs[job].worker /\ new.requester = jobs[job].requester
  BY <1>2, <1>3, Zenon DEF JobRecord, JobStatus, SameCharges
<1> HIDE DEF new
<1> QED
  BY <1>1, <1>4 DEF JobClosed, JobUpdated, Terminal

LEMMA SelfServedEdit ==
    ASSUME JobsTypeOK, NEW job \in JobIds, SelfServedJob(job)
    PROVE  /\ JobClosed(job) /\ jobs'[job].status = "completed"
           /\ jobs'[job].refunded = jobs[job].reserved
           /\ SameCharges(jobs[job], jobs'[job])
<1> DEFINE new == [jobs[job] EXCEPT !.result = "verified", !.status = "completed",
                                    !.refunded = jobs[job].reserved]
<1>1. job \in DOMAIN jobs /\ jobs' = [jobs EXCEPT ![job] = new]
  BY DEF SelfServedJob, AcceptResult
<1>2. jobs[job] \in JobRecord
  BY <1>1 DEF JobsTypeOK
<1>3. jobs[job].reserved \in Nat
  BY <1>2, LedgerAssumption DEF JobRecord
<1>4. new \in JobRecord /\ new.status = "completed"
      /\ new.refunded = jobs[job].reserved /\ SameCharges(jobs[job], new)
      /\ new.worker = jobs[job].worker /\ new.requester = jobs[job].requester
  BY <1>2, <1>3, Zenon DEF JobRecord, JobStatus, SameCharges
<1> HIDE DEF new
<1> QED
  BY <1>1, <1>4 DEF JobClosed, JobUpdated, Terminal

(* The parts of a settlement are whole, non-negative numbers of credits.   *)
LEMMA SettleEdit ==
    ASSUME CoordinatorInv, NEW job \in JobIds, NEW cost \in Prices, SettleJob(job, cost)
    PROVE  /\ JobClosed(job)
           /\ jobs'[job].status = "completed"
           /\ jobs'[job].requester = jobs[job].requester
           /\ jobs'[job].reserved = jobs[job].reserved
           /\ LET billed == BilledCredits(job, cost) IN
              /\ jobs'[job].actual = billed
              /\ jobs'[job].refunded = holds[job].amount - billed
              /\ jobs'[job].workerEarned = WorkerShare(billed)
              /\ jobs'[job].platformFee = billed - WorkerShare(billed)
<1> DEFINE billed == BilledCredits(job, cost)
           share == WorkerShare(billed)
           refund == holds[job].amount - billed
           fee == billed - share
           new == [jobs[job] EXCEPT !.result = "verified", !.status = "completed",
                     !.actual = billed, !.refunded = refund,
                     !.workerEarned = share, !.platformFee = fee]
<1>1. job \in DOMAIN jobs /\ jobs' = [jobs EXCEPT ![job] = new]
  BY DEF SettleJob, AcceptResult
<1>2. jobs[job] \in JobRecord
  BY <1>1 DEF CoordinatorInv, JobsTypeOK
<1>3. job \in DOMAIN holds
  BY DEF SettleJob, Settle
<1>4. billed \in Prices /\ billed <= holds[job].amount /\ holds[job].amount \in Nat
  BY <1>3, BilledWithinHold DEF CoordinatorInv, LedgerTypeOK, CreditHold
<1>5. billed \in Nat /\ refund \in Nat /\ share \in Nat /\ fee \in Nat
  <2>1. billed \in Nat
    BY <1>4, LedgerAssumption
  <2> HIDE DEF billed
  <2> QED
    BY <1>4, <2>1, SettlementParts
<1> HIDE DEF billed, refund, share, fee
<1>6. new \in JobRecord
  BY <1>2, <1>5, Zenon DEF JobRecord, JobStatus
<1>7. /\ new.status = "completed" /\ new.requester = jobs[job].requester
      /\ new.reserved = jobs[job].reserved /\ new.actual = billed /\ new.refunded = refund
      /\ new.workerEarned = share /\ new.platformFee = fee
      /\ new.worker = jobs[job].worker
  BY <1>2, Zenon DEF JobRecord
<1> HIDE DEF new
<1> QED
  BY <1>1, <1>6, <1>7 DEF fee, share, refund, billed, JobClosed, JobUpdated, Terminal

LEMMA CancelEdit ==
    ASSUME CoordinatorInv, NEW job \in JobIds, CancelQueuedJob(job)
    PROVE  /\ JobClosed(job) /\ jobs'[job].status = "canceled"
           /\ jobs'[job].refunded = IF job \in DOMAIN holds THEN holds[job].amount ELSE 0
           /\ SameCharges(jobs[job], jobs'[job])
<1> DEFINE refund == IF job \in DOMAIN holds THEN holds[job].amount ELSE 0
           new == [jobs[job] EXCEPT !.status = "canceled", !.refunded = refund,
                                    !.result = "failed"]
<1>1. job \in DOMAIN jobs /\ jobs' = [jobs EXCEPT ![job] = new]
  BY DEF CancelQueuedJob, IsQueued
<1>2. jobs[job] \in JobRecord
  BY <1>1 DEF CoordinatorInv, JobsTypeOK
<1>3. refund \in Nat
  BY DEF CoordinatorInv, LedgerTypeOK, CreditHold
<1> HIDE DEF refund
<1>4. new \in JobRecord /\ new.status = "canceled"
      /\ new.refunded = refund /\ SameCharges(jobs[job], new)
      /\ new.worker = jobs[job].worker /\ new.requester = jobs[job].requester
  BY <1>2, <1>3, Zenon DEF JobRecord, JobStatus, SameCharges
<1> HIDE DEF new
<1> QED
  BY <1>1, <1>4 DEF refund, JobClosed, JobUpdated, Terminal

(* A late result edits the stored result only.                             *)
LEMMA LateEdit ==
    ASSUME JobsTypeOK, NEW job \in JobIds, NEW result \in {"verified", "failed"},
           LateResult(job, result)
    PROVE  /\ job \in DOMAIN jobs
           /\ JobUpdated(job)
           /\ jobs'[job] \in JobRecord
           /\ jobs'[job].requester = jobs[job].requester
           /\ jobs'[job].worker = jobs[job].worker
           /\ Settlement(job)' = Settlement(job)
<1> DEFINE new == [jobs[job] EXCEPT !.result = result]
<1>1. job \in DOMAIN jobs /\ jobs' = [jobs EXCEPT ![job] = new]
  BY DEF LateResult, AcceptResult
<1>2. jobs[job] \in JobRecord
  BY <1>1 DEF JobsTypeOK
<1>3. new \in JobRecord
  BY <1>2, Zenon DEF JobRecord
<1>4. /\ new.requester = jobs[job].requester /\ new.status = jobs[job].status
      /\ new.reserved = jobs[job].reserved /\ new.actual = jobs[job].actual
      /\ new.refunded = jobs[job].refunded /\ new.workerEarned = jobs[job].workerEarned
      /\ new.platformFee = jobs[job].platformFee /\ new.worker = jobs[job].worker
  BY <1>2, Zenon DEF JobRecord
<1> HIDE DEF new
<1>5. JobUpdated(job) /\ jobs'[job] = new
  BY <1>1 DEF JobUpdated
<1> QED
  BY <1>1, <1>3, <1>4, <1>5 DEF Settlement

LEMMA RerouteEdit ==
    ASSUME JobsTypeOK, NEW job \in JobIds, NEW selector \in Selectors,
           RerouteQueuedJob(job, selector)
    PROVE  /\ job \in DOMAIN jobs
           /\ JobUpdated(job)
           /\ jobs'[job] \in JobRecord
           /\ jobs[job].status = "queued" /\ jobs'[job].status = "queued"
           /\ jobs'[job].requester = jobs[job].requester
           /\ jobs'[job].worker = NoWorker
           /\ jobs'[job].refunded = jobs[job].refunded
           /\ SameCharges(jobs[job], jobs'[job])
<1> DEFINE new == [jobs[job] EXCEPT !.selector = selector, !.worker = NoWorker]
<1>1. job \in DOMAIN jobs /\ jobs' = [jobs EXCEPT ![job] = new]
  BY DEF RerouteQueuedJob, IsQueued
<1>2. jobs[job] \in JobRecord /\ jobs[job].status = "queued"
  BY <1>1 DEF JobsTypeOK, RerouteQueuedJob, IsQueued
<1>3. new \in JobRecord
  BY <1>2, Zenon DEF JobRecord
<1>4. /\ new.requester = jobs[job].requester /\ new.status = jobs[job].status
      /\ new.worker = NoWorker /\ new.refunded = jobs[job].refunded /\ SameCharges(jobs[job], new)
  BY <1>2, Zenon DEF JobRecord, SameCharges
<1> HIDE DEF new
<1> QED
  BY <1>1, <1>2, <1>3, <1>4 DEF JobUpdated

-----------------------------------------------------------------------------
(* The workers keep their type *)

LEMMA RegisterWorkerType ==
    ASSUME WorkersTypeOK, NEW worker \in Workers, NEW offer \in Offers,
           RegisterWorker(worker, offer)
    PROVE  WorkersTypeOK'
<1>1. NewWorker(offer) \in WorkerNode
  BY CoordinatorAssumption DEF NewWorker, WorkerNode, WorkerOffer
<1> QED
  BY <1>1 DEF RegisterWorker, With, WorkersTypeOK

(* Replacing one worker's node by a well-formed one.                       *)
LEMMA NodeReplaced ==
    ASSUME WorkersTypeOK, NEW worker \in DOMAIN workers, NEW node \in WorkerNode,
           workers' = [workers EXCEPT ![worker] = node]
    PROVE  WorkersTypeOK'
  BY DEF WorkersTypeOK

LEMMA NodeFields ==
    ASSUME NEW node \in WorkerNode, NEW online \in BOOLEAN, NEW active \in Nat
    PROVE  /\ [node EXCEPT !.online = online] \in WorkerNode
           /\ [node EXCEPT !.active = active] \in WorkerNode
           /\ [node EXCEPT !.online = online, !.active = active] \in WorkerNode
  BY Zenon DEF WorkerNode

LEMMA WorkersTypeStep ==
    ASSUME CoordinatorInv, [Next]_vars
    PROVE  WorkersTypeOK'
<1> USE DEF CoordinatorInv
<1>1. \A w \in DOMAIN workers :
        /\ workers[w] \in WorkerNode
        /\ workers[w].active + 1 \in Nat
        /\ (IF workers[w].active > 0 THEN workers[w].active - 1 ELSE 0) \in Nat
  BY DEF WorkersTypeOK, WorkerNode
<1>2. CASE UNCHANGED workers
  BY <1>2 DEF WorkersTypeOK
<1>3. ASSUME NEW k \in 1 .. Len(queue), AssignNextJob(k)
      PROVE  WorkersTypeOK'
  <2>1. PICK w \in DOMAIN workers :
          workers' = [workers EXCEPT ![w] = [workers[w] EXCEPT !.active = workers[w].active + 1]]
    BY <1>3, Zenon DEF AssignNextJob, Candidates
  <2> QED
    BY <1>1, <2>1, NodeFields, NodeReplaced
<1>4. ASSUME NEW worker \in Workers, WorkerStep(worker)
      PROVE  WorkersTypeOK'
  <2>1. CASE \E offer \in Offers : RegisterWorker(worker, offer)
    BY <2>1, RegisterWorkerType
  <2>2. CASE StopWorker(worker)
    <3>1. /\ worker \in DOMAIN workers
          /\ workers' = [workers EXCEPT ![worker] = [workers[worker] EXCEPT !.online = FALSE]]
      BY <2>2, Zenon DEF StopWorker
    <3> QED
      BY <1>1, <3>1, NodeFields, NodeReplaced
  <2>3. ASSUME NEW allowOwn \in BOOLEAN, NEW k \in 1 .. Len(queue),
               ClaimJobForWorker(worker, allowOwn, k)
        PROVE  WorkersTypeOK'
    <3>1. /\ worker \in DOMAIN workers
          /\ workers' = [workers EXCEPT ![worker] =
               [workers[worker] EXCEPT !.online = TRUE, !.active = workers[worker].active + 1]]
      BY <1>1, <2>3 DEF ClaimJobForWorker, WorkerNode
    <3> QED
      BY <1>1, <3>1, NodeFields, NodeReplaced
  <2>4. ASSUME NEW allowOwn \in BOOLEAN, ClaimNothing(worker, allowOwn)
        PROVE  WorkersTypeOK'
    <3>1. /\ worker \in DOMAIN workers
          /\ workers' = [workers EXCEPT ![worker] = [workers[worker] EXCEPT !.online = TRUE]]
      BY <2>4, Zenon DEF ClaimNothing
    <3> QED
      BY <1>1, <3>1, NodeFields, NodeReplaced
  <2> QED
    BY <1>4, <2>1, <2>2, <2>3, <2>4 DEF WorkerStep
<1>5. ASSUME NEW job \in JobIds, AcceptResult(job)
      PROVE  WorkersTypeOK'
  <2> DEFINE w == jobs[job].worker
             active == IF workers[w].active > 0 THEN workers[w].active - 1 ELSE 0
  <2>1. w \in DOMAIN workers
    BY <1>5 DEF AcceptResult
  <2>2. workers' = [workers EXCEPT ![w] = [workers[w] EXCEPT !.active = active]]
    BY <1>5, Zenon DEF AcceptResult
  <2>3. active \in Nat
    BY <1>1, <2>1
  <2> HIDE DEF w, active
  <2> QED
    BY <1>1, <2>1, <2>2, <2>3, NodeFields, NodeReplaced
<1>6. ASSUME NEW job \in JobIds, JobStep(job)
      PROVE  WorkersTypeOK'
  <2>1. AcceptResult(job) \/ UNCHANGED workers
    BY <1>6 DEF JobStep, SubmitJob, RestartFailedJob, FailJob, SelfServedJob, SettleJob,
                LateResult, CancelQueuedJob, RerouteQueuedJob
  <2> QED
    BY <1>2, <1>5, <2>1
<1>7. LedgerCall \/ UNCHANGED vars => UNCHANGED workers
  BY DEF LedgerCall, coordinatorVars, vars
<1> QED
  BY <1>2, <1>3, <1>4, <1>6, <1>7 DEF Next

-----------------------------------------------------------------------------
(* Job records, holds and rows stay in step *)

JobsInv == JobsTypeOK /\ HoldsMatchOpenJobs /\ RowsOfKnownJobs

(* A job is submitted: its record, its hold and its first row appear.      *)
LEMMA SubmitKeepsInv ==
    ASSUME CoordinatorInv, NEW job \in JobIds, NEW user \in Users, NEW selector \in Selectors,
           NEW amount \in Prices, SubmitJob(job, user, selector, amount)
    PROVE  JobsInv'
<1> USE DEF CoordinatorInv
<1> DEFINE new == NewJob(user, selector, amount)
<1>1. /\ job \notin DOMAIN jobs
      /\ DOMAIN jobs' = DOMAIN jobs \cup {job}
      /\ jobs'[job] = new
      /\ \A j \in DOMAIN jobs : jobs'[j] = jobs[j]
  BY DEF SubmitJob, With
<1>2. /\ new \in JobRecord
      /\ new.status = "queued" /\ new.requester = user /\ new.reserved = amount
  BY DEF NewJob, JobRecord, JobStatus
<1>3. /\ DOMAIN holds' = DOMAIN holds \cup {job}
      /\ holds'[job] = [user |-> user, amount |-> amount]
      /\ \A j \in DOMAIN holds \ {job} : holds'[j] = holds[j]
  BY DEF SubmitJob, Reserve, With
<1>4. \A t \in transactions' : t \in transactions \/ t.job = job
  BY DEF SubmitJob, Reserve, Record, PendingRow
<1> HIDE DEF new
<1>5. JobsTypeOK'
  BY <1>1, <1>2 DEF JobsTypeOK
<1>6. HoldsMatchOpenJobs'
  BY <1>1, <1>2, <1>3 DEF HoldsMatchOpenJobs, JobsInStatus
<1>7. RowsOfKnownJobs'
  BY <1>1, <1>4 DEF RowsOfKnownJobs
<1> QED
  BY <1>5, <1>6, <1>7 DEF JobsInv

(* An open job is closed: its hold goes, rows of that job only are added.  *)
LEMMA CloseKeepsInv ==
    ASSUME CoordinatorInv, NEW job \in JobIds, job \in DOMAIN holds,
           JobClosed(job), holds' = HoldsWithout(job),
           \A t \in transactions' : t \in transactions \/ t.job = job
    PROVE  JobsInv'
<1> USE DEF CoordinatorInv
<1>1. job \in DOMAIN jobs
  BY DEF HoldsMatchOpenJobs, JobsInStatus
<1>2. /\ DOMAIN holds' = DOMAIN holds \ {job}
      /\ \A j \in DOMAIN holds' : holds'[j] = holds[j]
  BY DEF HoldsWithout, Restrict
<1>3. JobsTypeOK'
  BY <1>1 DEF JobsTypeOK, JobClosed, JobUpdated
<1>4. HoldsMatchOpenJobs'
  BY <1>1, <1>2 DEF HoldsMatchOpenJobs, JobsInStatus, JobClosed, JobUpdated, Terminal
<1>5. RowsOfKnownJobs'
  BY <1>1 DEF RowsOfKnownJobs, JobClosed, JobUpdated
<1> QED
  BY <1>3, <1>4, <1>5 DEF JobsInv

(* A record is edited without a word to the ledger, open or closed as it   *)
(* was, with the same requester and reservation.                           *)
LEMMA EditKeepsInv ==
    ASSUME CoordinatorInv, NEW job \in DOMAIN jobs,
           JobUpdated(job), jobs'[job] \in JobRecord,
           jobs[job].status \in Open <=> jobs'[job].status \in Open,
           jobs'[job].requester = jobs[job].requester,
           jobs'[job].reserved = jobs[job].reserved,
           UNCHANGED ledgerVars
    PROVE  JobsInv'
<1> USE DEF CoordinatorInv
<1>1. JobsTypeOK'
  BY DEF JobsTypeOK, JobUpdated
<1>2. HoldsMatchOpenJobs'
  BY DEF HoldsMatchOpenJobs, JobsInStatus, JobUpdated, Open, ledgerVars
<1>3. RowsOfKnownJobs'
  BY DEF RowsOfKnownJobs, JobUpdated, ledgerVars
<1> QED
  BY <1>1, <1>2, <1>3 DEF JobsInv

LEMMA ReleaseRows ==
    ASSUME NEW job, NEW source, Release(job, source)
    PROVE  /\ job \in DOMAIN holds
           /\ holds' = HoldsWithout(job)
           /\ \A t \in transactions' : t \in transactions \/ (t.job = job /\ t.type = "refund")
  BY DEF Release, WithoutPending, Row

LEMMA SettleRows ==
    ASSUME LedgerTypeOK, NEW job, NEW owner, NEW cost, Settle(job, owner, cost)
    PROVE  /\ job \in DOMAIN holds
           /\ holds' = HoldsWithout(job)
           /\ \A t \in transactions' :
                t \in transactions \/ (t.job = job /\ (t.type = "earn" => t.user = owner))
  BY DEF Settle, SettlementRows, WithoutPending, Row

(* Assigning a queued job, from either scan of the queue.                  *)
LEMMA AssignKeepsInv ==
    ASSUME CoordinatorInv, NEW job, IsQueued(job), NEW worker \in DOMAIN workers,
           Assign(job, worker), UNCHANGED ledgerVars
    PROVE  JobsInv'
<1>1. job \in DOMAIN jobs /\ jobs[job].status = "queued" /\ worker \in Workers
  BY DEF IsQueued, CoordinatorInv, WorkersTypeOK
<1>2. /\ JobUpdated(job) /\ jobs'[job] \in JobRecord /\ jobs'[job].status = "assigned"
      /\ jobs'[job].requester = jobs[job].requester
      /\ jobs'[job].reserved = jobs[job].reserved
  BY <1>1, AssignEdit DEF CoordinatorInv, SameCharges
<1> QED
  BY <1>1, <1>2, EditKeepsInv DEF Open

LEMMA RowsAddedByLedgerCall ==
    ASSUME LedgerCall
    PROVE  /\ UNCHANGED <<holds, jobs>>
           /\ \A t \in transactions' : t \in transactions \/ (t.job = NoJob /\ t.type # "earn")
  BY DEF LedgerCall, RegisterUser, Bootstrap, Purchase, AdminAdjust, Record, Row, coordinatorVars

LEMMA LedgerCallKeepsInv ==
    ASSUME CoordinatorInv, LedgerCall
    PROVE  JobsInv'
  BY RowsAddedByLedgerCall, LedgerAssumption
  DEF CoordinatorInv, JobsInv, JobsTypeOK, HoldsMatchOpenJobs, JobsInStatus, RowsOfKnownJobs

LEMMA JobsInvStep ==
    ASSUME CoordinatorInv, [Next]_vars
    PROVE  JobsInv'
<1> USE DEF CoordinatorInv
<1>1. CASE UNCHANGED <<ledgerVars, jobs>>
  BY <1>1 DEF JobsInv, JobsTypeOK, HoldsMatchOpenJobs, JobsInStatus, RowsOfKnownJobs, ledgerVars
<1>2. ASSUME NEW k \in 1 .. Len(queue), AssignNextJob(k)
      PROVE  JobsInv'
  BY <1>2, AssignKeepsInv DEF AssignNextJob, Candidates
<1>3. ASSUME NEW worker \in Workers, WorkerStep(worker)
      PROVE  JobsInv'
  <2>1. ASSUME NEW offer \in Offers, RegisterWorker(worker, offer)
        PROVE  JobsInv'
    BY <2>1 DEF RegisterWorker, RegisterUser, JobsInv, JobsTypeOK, HoldsMatchOpenJobs,
                JobsInStatus, RowsOfKnownJobs
  <2>2. CASE StopWorker(worker)
    BY <1>1, <2>2 DEF StopWorker
  <2>3. ASSUME NEW allowOwn \in BOOLEAN, NEW k \in 1 .. Len(queue),
               ClaimJobForWorker(worker, allowOwn, k)
        PROVE  JobsInv'
    BY <2>3, AssignKeepsInv DEF ClaimJobForWorker, CanClaim
  <2>4. CASE \E allowOwn \in BOOLEAN : ClaimNothing(worker, allowOwn)
    BY <1>1, <2>4 DEF ClaimNothing
  <2> QED
    BY <1>3, <2>1, <2>2, <2>3, <2>4 DEF WorkerStep
<1>4. ASSUME NEW job \in JobIds, JobStep(job)
      PROVE  JobsInv'
  <2>1. CASE \E user \in Users, selector \in Selectors, reserved \in Prices :
               SubmitJob(job, user, selector, reserved)
    BY <2>1, SubmitKeepsInv
  <2>2. CASE \E failed \in JobIds, reserved \in Prices : RestartFailedJob(failed, job, reserved)
    BY <2>2, SubmitKeepsInv DEF RestartFailedJob, JobsTypeOK, JobRecord
  <2>3. CASE FailJob(job)
    <3>1. JobClosed(job)
      BY <2>3, FailEdit
    <3>2. /\ job \in DOMAIN holds /\ holds' = HoldsWithout(job)
          /\ \A t \in transactions' : t \in transactions \/ t.job = job
      BY <2>3, ReleaseRows DEF FailJob
    <3> QED
      BY <3>1, <3>2, CloseKeepsInv
  <2>4. CASE SelfServedJob(job)
    <3>1. JobClosed(job)
      BY <2>4, SelfServedEdit
    <3>2. /\ job \in DOMAIN holds /\ holds' = HoldsWithout(job)
          /\ \A t \in transactions' : t \in transactions \/ t.job = job
      BY <2>4, ReleaseRows DEF SelfServedJob
    <3> QED
      BY <3>1, <3>2, CloseKeepsInv
  <2>5. ASSUME NEW cost \in Prices, SettleJob(job, cost)
        PROVE  JobsInv'
    <3>1. JobClosed(job)
      BY <2>5, SettleEdit
    <3>2. /\ job \in DOMAIN holds /\ holds' = HoldsWithout(job)
          /\ \A t \in transactions' : t \in transactions \/ t.job = job
      BY <2>5, SettleRows DEF SettleJob
    <3> QED
      BY <3>1, <3>2, CloseKeepsInv
  <2>6. ASSUME NEW result \in {"verified", "failed"}, LateResult(job, result)
        PROVE  JobsInv'
    <3>1. /\ job \in DOMAIN jobs /\ JobUpdated(job) /\ jobs'[job] \in JobRecord
          /\ jobs'[job].requester = jobs[job].requester
          /\ jobs'[job].status = jobs[job].status
          /\ jobs'[job].reserved = jobs[job].reserved
      BY <2>6, LateEdit DEF Settlement
    <3> QED
      BY <2>6, <3>1, EditKeepsInv DEF LateResult
  <2>7. CASE CancelQueuedJob(job)
    <3>1. job \in DOMAIN holds
      BY <2>7 DEF CancelQueuedJob, IsQueued, HoldsMatchOpenJobs, JobsInStatus
    <3>2. Release(job, "admin_cancel")
      BY <2>7, <3>1 DEF CancelQueuedJob
    <3> QED
      BY <2>7, <3>1, <3>2, CancelEdit, ReleaseRows, CloseKeepsInv
  <2>8. ASSUME NEW selector \in Selectors, RerouteQueuedJob(job, selector)
        PROVE  JobsInv'
    <3>1. /\ job \in DOMAIN jobs /\ JobUpdated(job) /\ jobs'[job] \in JobRecord
          /\ jobs'[job].requester = jobs[job].requester
          /\ jobs'[job].status = jobs[job].status
          /\ jobs'[job].reserved = jobs[job].reserved
      BY <2>8, RerouteEdit DEF SameCharges
    <3> QED
      BY <2>8, <3>1, EditKeepsInv DEF RerouteQueuedJob
  <2> QED
    BY <1>4, <2>1, <2>2, <2>3, <2>4, <2>5, <2>6, <2>7, <2>8 DEF JobStep
<1>5. CASE UNCHANGED vars
  BY <1>1, <1>5 DEF vars, coordinatorVars
<1> QED
  BY <1>2, <1>3, <1>4, <1>5, LedgerCallKeepsInv DEF Next

-----------------------------------------------------------------------------
(* Theorems *)

LEMMA CoordinatorInvInit == Init => CoordinatorInv
<1> SUFFICES ASSUME Init PROVE CoordinatorInv
  OBVIOUS
<1>1. LedgerTypeOK
  BY LedgerInitType DEF Init
<1>2. WorkersTypeOK /\ JobsTypeOK /\ HoldsMatchOpenJobs /\ RowsOfKnownJobs
  BY DEF Init, LedgerInit, EmptyDict, WorkersTypeOK, JobsTypeOK, HoldsMatchOpenJobs,
         JobsInStatus, RowsOfKnownJobs
<1> QED
  BY <1>1, <1>2 DEF CoordinatorInv

LEMMA CoordinatorInvStep ==
    ASSUME CoordinatorInv, [Next]_vars
    PROVE  CoordinatorInv'
<1>1. LedgerTypeOK'
  BY CoordinatorStepIsLedgerStep, LedgerTypeStep DEF CoordinatorInv
<1>2. WorkersTypeOK'
  BY WorkersTypeStep
<1>3. JobsInv'
  BY JobsInvStep
<1> QED
  BY <1>1, <1>2, <1>3 DEF CoordinatorInv, JobsInv

LEMMA CoordinatorInvHolds == Spec => []CoordinatorInv
<1>1. CoordinatorInv /\ [Next]_vars => CoordinatorInv'
  BY CoordinatorInvStep
<1> QED
  BY <1>1, CoordinatorInvInit, PTL DEF Spec

(* Credits are on hold for exactly the queued and assigned jobs, whatever  *)
(* the order of submissions, claims, results, cancellations and reroutes.  *)
THEOREM HoldsAreOpenJobs == Spec => []HoldsMatchOpenJobs
<1>1. CoordinatorInv => HoldsMatchOpenJobs
  BY DEF CoordinatorInv
<1> QED
  BY <1>1, CoordinatorInvHolds, PTL

(* Wallets, holds, rows, worker nodes and job records keep their types; in *)
(* particular no interleaving of the coordinator's calls overdraws a wallet.*)
THEOREM CoordinatorTypes == Spec => [](LedgerTypeOK /\ WorkersTypeOK /\ JobsTypeOK)
<1>1. CoordinatorInv => LedgerTypeOK /\ WorkersTypeOK /\ JobsTypeOK
  BY DEF CoordinatorInv
<1> QED
  BY <1>1, CoordinatorInvHolds, PTL

(* The coordinator only makes ledger calls the ledger's specification      *)
(* allows: fresh job ids, costs within the hold, another owner than the    *)
(* payer (coordinator.py:100, 198-222).                                    *)
THEOREM CoordinatorImplementsLedger == Spec => ImplementsLedger
<1>1. Init => LedgerInit
  BY DEF Init
<1>2. CoordinatorInv /\ [Next]_vars => [LedgerNext]_ledgerVars
  BY CoordinatorStepIsLedgerStep
<1> QED
  BY <1>1, <1>2, CoordinatorInvHolds, PTL DEF Spec, ImplementsLedger, LedgerSpec

(* So the coordinator's ledger is the abstract escrow too, and its pending *)
(* rows are the open holds.                                                *)
THEOREM CoordinatorImplementsEscrow == Spec => ImplementsEscrow /\ []PendingMatchesHolds
  BY CoordinatorImplementsLedger, LedgerImplementsEscrow, PendingRowsMatchHolds
  DEF ImplementsLedger

-----------------------------------------------------------------------------
(* What a step can do to closed jobs and to earnings *)

(* A job that is neither queued nor assigned has no hold left to take.     *)
LEMMA TerminalHasNoHold ==
    ASSUME CoordinatorInv, NEW job \in JobsInStatus(Terminal)
    PROVE  /\ job \in DOMAIN jobs /\ job \in JobIds
           /\ job \notin DOMAIN holds
           /\ ~IsQueued(job)
  BY DEF CoordinatorInv, JobsTypeOK, HoldsMatchOpenJobs, JobsInStatus, Terminal, IsQueued

Unaltered(job) ==
    /\ job \in DOMAIN jobs'
    /\ jobs'[job].requester = jobs[job].requester
    /\ Settlement(job)' = Settlement(job)

(* Records other than the closed job's own do not matter to it.            *)
LEMMA OtherJobUpdated ==
    ASSUME NEW job, NEW closed \in DOMAIN jobs, closed # job,
           DOMAIN jobs \subseteq DOMAIN jobs',
           \A j \in DOMAIN jobs \ {job} : jobs'[j] = jobs[j]
    PROVE  Unaltered(closed)
  BY DEF Unaltered, Settlement, JobUpdated

LEMMA ClosedJobStep ==
    ASSUME CoordinatorInv, [Next]_vars, NEW closed \in JobsInStatus(Terminal)
    PROVE  Unaltered(closed)
<1> USE TerminalHasNoHold DEF CoordinatorInv
<1>1. CASE UNCHANGED jobs
  BY <1>1 DEF Unaltered, Settlement
<1>2. ASSUME NEW job, IsQueued(job), NEW worker \in DOMAIN workers, Assign(job, worker)
      PROVE  Unaltered(closed)
  <2>1. JobUpdated(job)
    BY <1>2, AssignEdit DEF IsQueued, WorkersTypeOK
  <2> QED
    BY <1>2, <2>1, OtherJobUpdated DEF JobUpdated
<1>3. ASSUME NEW k \in 1 .. Len(queue), AssignNextJob(k)
      PROVE  Unaltered(closed)
  BY <1>2, <1>3 DEF AssignNextJob, Candidates
<1>4. ASSUME NEW worker \in Workers, WorkerStep(worker)
      PROVE  Unaltered(closed)
  <2>1. ASSUME NEW allowOwn \in BOOLEAN, NEW k \in 1 .. Len(queue),
               ClaimJobForWorker(worker, allowOwn, k)
        PROVE  Unaltered(closed)
    BY <1>2, <2>1 DEF ClaimJobForWorker, CanClaim
  <2> QED
    BY <1>1, <1>4, <2>1 DEF WorkerStep, RegisterWorker, StopWorker, ClaimNothing
<1>5. ASSUME NEW job \in JobIds, NEW user, NEW selector, NEW amount,
             SubmitJob(job, user, selector, amount)
      PROVE  Unaltered(closed)
  <2>1. closed # job /\ DOMAIN jobs \subseteq DOMAIN jobs'
        /\ \A j \in DOMAIN jobs : jobs'[j] = jobs[j]
    BY <1>5 DEF SubmitJob, With
  <2> QED
    BY <2>1, OtherJobUpdated
<1>6. ASSUME NEW job \in JobIds, NEW source, Release(job, source), JobClosed(job)
      PROVE  Unaltered(closed)
  BY <1>6, ReleaseRows, OtherJobUpdated DEF JobClosed, JobUpdated
<1>7. ASSUME NEW job \in JobIds, JobStep(job)
      PROVE  Unaltered(closed)
  <2>1. CASE FailJob(job)
    BY <1>6, <2>1, FailEdit DEF FailJob
  <2>2. CASE SelfServedJob(job)
    BY <1>6, <2>2, SelfServedEdit DEF SelfServedJob
  <2>3. ASSUME NEW cost \in Prices, SettleJob(job, cost)
        PROVE  Unaltered(closed)
    <3>1. job \in DOMAIN holds
      BY <2>3 DEF SettleJob, Settle
    <3>2. JobUpdated(job)
      BY <2>3, SettleEdit DEF JobClosed
    <3> QED
      BY <3>1, <3>2, OtherJobUpdated DEF JobUpdated
  <2>4. ASSUME NEW result \in {"verified", "failed"}, LateResult(job, result)
        PROVE  Unaltered(closed)
    BY <2>4, LateEdit, OtherJobUpdated DEF JobUpdated, Unaltered
  <2>5. CASE CancelQueuedJob(job)
    <3>1. JobUpdated(job) /\ closed # job
      BY <2>5, CancelEdit DEF JobClosed, CancelQueuedJob
    <3> QED
      BY <3>1, OtherJobUpdated DEF JobUpdated
  <2>6. ASSUME NEW selector \in Selectors, RerouteQueuedJob(job, selector)
        PROVE  Unaltered(closed)
    <3>1. JobUpdated(job) /\ closed # job
      BY <2>6, RerouteEdit DEF RerouteQueuedJob
    <3> QED
      BY <3>1, OtherJobUpdated DEF JobUpdated
  <2> QED
    BY <1>5, <1>7, <2>1, <2>2, <2>3, <2>4, <2>5, <2>6 DEF JobStep, RestartFailedJob
<1> QED
  BY <1>1, <1>3, <1>4, <1>7 DEF Next, LedgerCall, vars, coordinatorVars

(* The status and the credits of a completed, failed or canceled job never *)
(* change again: a late or repeated result (coordinator.py:180-187) cannot *)
(* settle it twice, reopen it or refund it.                                *)
THEOREM ClosedForGood == Spec => ClosedJobsStayClosed
<1>1. CoordinatorInv /\ [Next]_vars
        => [\A j \in JobsInStatus(Terminal) : Settlement(j)' = Settlement(j)]_vars
  BY ClosedJobStep DEF Unaltered
<1> QED
  BY <1>1, CoordinatorInvHolds, PTL DEF Spec, ClosedJobsStayClosed

(* The rows a step adds are of one kind: none earns credits unless a job   *)
(* served by another user's worker is settled.                             *)
LEMMA RowsAdded ==
    ASSUME CoordinatorInv, [Next]_vars, NEW t \in transactions', t \notin transactions,
           t.type = "earn"
    PROVE  \E job \in JobIds, cost \in Prices : SettleJob(job, cost) /\ t.job = job
<1> USE DEF CoordinatorInv
<1>1. transactions' # transactions
  OBVIOUS
<1>2. ~LedgerCall /\ ~UNCHANGED vars
  BY RowsAddedByLedgerCall DEF vars, ledgerVars
<1>3. ~\E k \in 1 .. Len(queue) : AssignNextJob(k)
  BY DEF AssignNextJob, ledgerVars
<1>4. ~\E worker \in Workers : WorkerStep(worker)
  BY DEF WorkerStep, RegisterWorker, RegisterUser, StopWorker, ClaimJobForWorker,
         ClaimNothing, ledgerVars
<1>5. PICK job \in JobIds : JobStep(job)
  BY <1>2, <1>3, <1>4 DEF Next
<1>6. ~\E source : Release(job, source)
  BY ReleaseRows
<1>7. ASSUME NEW user, NEW selector, NEW amount, SubmitJob(job, user, selector, amount)
      PROVE  FALSE
  <2>1. t = PendingRow(user, amount, job)
    BY <1>7 DEF SubmitJob, Reserve, Record
  <2> QED
    BY <2>1 DEF PendingRow
<1>8. transactions' # transactions => ~\E result : LateResult(job, result)
  BY DEF LateResult, ledgerVars
<1>9. ~CancelQueuedJob(job) /\ ~\E selector : RerouteQueuedJob(job, selector)
  BY <1>6 DEF CancelQueuedJob, RerouteQueuedJob, ledgerVars
<1>10. PICK cost \in Prices : SettleJob(job, cost)
  BY <1>1, <1>5, <1>6, <1>7, <1>8, <1>9
  DEF JobStep, RestartFailedJob, FailJob, SelfServedJob
<1>11. t.job = job
  BY <1>10, SettleRows DEF SettleJob
<1> QED
  BY <1>10, <1>11

LEMMA EarningStep ==
    ASSUME CoordinatorInv, EarnedFromOthers, [Next]_vars,
           NEW t \in transactions', t.type = "earn"
    PROVE  /\ t.job \in DOMAIN jobs'
           /\ jobs'[t.job].status = "completed"
           /\ jobs'[t.job].requester # t.user
<1>1. CASE t \in transactions
  <2>1. t.job \in JobsInStatus(Terminal) /\ jobs[t.job].status = "completed"
        /\ jobs[t.job].requester # t.user
    BY <1>1 DEF EarnedFromOthers, JobsInStatus, Terminal
  <2>2. Unaltered(t.job)
    BY <2>1, ClosedJobStep
  <2> QED
    BY <2>1, <2>2 DEF Unaltered, Settlement
<1>2. CASE t \notin transactions
  <2>1. PICK job \in JobIds, cost \in Prices : SettleJob(job, cost) /\ t.job = job
    BY <1>2, RowsAdded
  <2> DEFINE owner == workers[jobs[job].worker].owner
  <2>2. /\ DOMAIN jobs' = DOMAIN jobs
        /\ jobs'[job].status = "completed"
        /\ jobs'[job].requester = jobs[job].requester
    BY <2>1, SettleEdit DEF JobClosed, JobUpdated
  <2>3. job \in DOMAIN jobs /\ owner # jobs[job].requester
    BY <2>1 DEF SettleJob, AcceptResult, OwnJob
  <2>4. t.user = owner
    BY <1>2, <2>1, SettleRows DEF SettleJob, CoordinatorInv
  <2> QED
    BY <2>1, <2>2, <2>3, <2>4
<1> QED
  BY <1>1, <1>2

(* Nobody earns credits from a job of their own, nor from a job that did   *)
(* not complete, even when a worker changes hands between claim and result.*)
THEOREM EarningsComeFromOthers == Spec => []EarnedFromOthers
<1>1. Init => EarnedFromOthers
  BY DEF Init, LedgerInit, EarnedFromOthers
<1>2. CoordinatorInv /\ EarnedFromOthers /\ [Next]_vars => EarnedFromOthers'
  BY EarningStep DEF EarnedFromOthers
<1> QED
  BY <1>1, <1>2, CoordinatorInvHolds, PTL DEF Spec

-----------------------------------------------------------------------------
(* The ledger's theorems hold under the coordinator *)

LEMMA CoordinatorBooks == Spec => [](LedgerInv /\ BooksBalance)
  BY CoordinatorImplementsLedger, BooksCorrect, PTL DEF ImplementsLedger

(* However jobs are submitted, claimed, rerouted, answered twice or late,  *)
(* no credits appear or vanish: the coordinator never opens a hold or      *)
(* closes one behind the ledger's back (coordinator.py:94-268).            *)
THEOREM CoordinatorConservesCredits == Spec => []CreditsConserved
<1>1. LedgerInv /\ BooksBalance => CreditsConserved
  BY BooksBalanceMeaning DEF LedgerInv
<1> QED
  BY <1>1, CoordinatorBooks, PTL

-----------------------------------------------------------------------------
(* Job records and the ledger's rows tell the same story *)

SettledRows(job, type) ==
    {t \in CreditTransaction : t.job = job /\ t.type = type /\ ~t.pending}

SettledTotal(job, type) == TotalOf(SettledRows(job, type))

(* What an open job's record says: nothing was charged or paid yet.        *)
NothingBooked(record) ==
    record.actual = 0 /\ record.refunded = 0 /\ record.workerEarned = 0 /\ record.platformFee = 0

RecordBooked(job) ==
    /\ SettledTotal(job, "spend") = -jobs[job].actual
    /\ SettledTotal(job, "refund") = jobs[job].refunded
    /\ SettledTotal(job, "earn") = jobs[job].workerEarned
    /\ SettledTotal(job, "adjustment") = jobs[job].platformFee
    /\ IF jobs[job].status \in Terminal
       THEN jobs[job].actual + jobs[job].refunded = jobs[job].reserved
       ELSE NothingBooked(jobs[job])

RecordsInv == \A j \in DOMAIN jobs : RecordBooked(j)

LEMMA RecordsInvMeaning ==
    ASSUME CoordinatorInv, RecordsInv
    PROVE  RecordsMatchRows
<1>1. transactions \subseteq CreditTransaction
  BY DEF CoordinatorInv, LedgerTypeOK
<1>2. \A job, type : {t \in JobRows(job) : t.type = type /\ ~t.pending}
                       = transactions \cap SettledRows(job, type)
  BY <1>1 DEF SettledRows, JobRows
<1>3. \A job, type : RowTotal(job, type) = SettledTotal(job, type)
  BY <1>2, Zenon DEF RowTotal, SettledTotal, TotalOf
<1>4. ASSUME NEW j \in DOMAIN jobs
      PROVE  /\ jobs[j].actual = -RowTotal(j, "spend")
             /\ jobs[j].refunded = RowTotal(j, "refund")
             /\ jobs[j].workerEarned = RowTotal(j, "earn")
             /\ jobs[j].platformFee = RowTotal(j, "adjustment")
             /\ jobs[j].status \in Terminal => jobs[j].actual + jobs[j].refunded = jobs[j].reserved
  <2>1. RecordBooked(j)
    BY DEF RecordsInv
  <2>2. jobs[j].actual \in Nat
    BY DEF CoordinatorInv, JobsTypeOK, JobRecord
  <2> QED
    BY <1>3, <2>1, <2>2 DEF RecordBooked
<1> QED
  BY <1>4 DEF RecordsMatchRows

(* What a row counts for.                                                  *)
LEMMA SettledAmount ==
    ASSUME NEW row \in CreditTransaction, ~row.pending, NEW job, NEW type
    PROVE  AmountIn(SettledRows(job, type), row)
             = IF row.job = job /\ row.type = type THEN row.amount ELSE 0
  BY DEF AmountIn, SettledRows

LEMMA PendingAmount ==
    ASSUME NEW row, row.pending, NEW job, NEW type
    PROVE  AmountIn(SettledRows(job, type), row) = 0
  BY DEF AmountIn, SettledRows

(* Granting, buying and adjusting credits record a row of no job.          *)
LEMMA MintSettles ==
    ASSUME LedgerInv, NEW account \in Accounts, NEW amount \in Int,
           NEW rowType \in EntryType, NEW source \in Source,
           Record(Row(0, account, rowType, amount, source, NoJob)), NEW job \in JobIds, NEW type
    PROVE  SettledTotal(job, type)' = SettledTotal(job, type)
<1> DEFINE row == Row(0, account, rowType, amount, source, NoJob)
<1>1. row \in CreditTransaction
  BY RowType DEF LedgerInv
<1>2. row.id = nextEntry /\ row.job # job
  BY LedgerAssumption DEF Row, LedgerInv, LedgerTypeOK
<1> HIDE DEF row
<1>3. AmountIn(SettledRows(job, type), row) = 0
  BY <1>2 DEF AmountIn, SettledRows
<1>4. TotalOf(SettledRows(job, type))' = TotalOf(SettledRows(job, type)) + 0
  BY <1>1, <1>2, <1>3, RecordTotals DEF TotalOf, row
<1> QED
  BY <1>4, TotalsAreWhole DEF SettledTotal

LEMMA LedgerCallSettles ==
    ASSUME LedgerInv, LedgerCall, NEW job \in JobIds, NEW type
    PROVE  SettledTotal(job, type)' = SettledTotal(job, type)
<1> USE LedgerAssumption
<1> Users \subseteq Accounts
  BY DEF Accounts
<1> /\ "adjustment" \in EntryType /\ "purchase" \in EntryType
    /\ {"bootstrap_credits", "usd_purchase", "admin_adjustment"} \subseteq Source
  BY DEF EntryType, Source
<1>1. CASE \E user \in Users : RegisterUser(user)
  BY <1>1 DEF RegisterUser, SettledTotal, TotalOf
<1>2. CASE \E user \in Users, amount \in Grants : Bootstrap(user, amount)
  BY <1>2, MintSettles DEF Bootstrap
<1>3. CASE \E user \in Users, amount \in Grants : Purchase(user, amount)
  BY <1>3, MintSettles DEF Purchase
<1>4. CASE \E account \in Accounts, amount \in Adjustments : AdminAdjust(account, amount)
  BY <1>4, MintSettles DEF AdminAdjust
<1> QED
  BY <1>1, <1>2, <1>3, <1>4 DEF LedgerCall

(* Reserving records a pending row only.                                   *)
LEMMA ReserveSettles ==
    ASSUME LedgerInv, NEW user \in Users, NEW reserving \in JobIds, NEW amount \in Prices,
           Reserve(user, reserving, amount), NEW job, NEW type
    PROVE  SettledTotal(job, type)' = SettledTotal(job, type)
<1> DEFINE row == PendingRow(user, amount, reserving)
<1>1. row \in CreditTransaction
  <2>1. amount \in Nat \ {0} /\ LedgerTypeOK /\ user \in Accounts
    BY LedgerAssumption DEF LedgerInv, Accounts
  <2> QED
    BY <2>1, PendingRowType
<1>2. row.id = nextEntry /\ row.pending
  BY DEF PendingRow
<1>3. Record(row)
  BY DEF Reserve
<1> HIDE DEF row
<1>4. AmountIn(SettledRows(job, type), row) = 0
  BY <1>2, PendingAmount
<1>5. TotalOf(SettledRows(job, type))' = TotalOf(SettledRows(job, type)) + 0
  BY <1>1, <1>2, <1>3, <1>4, RecordTotals DEF TotalOf
<1> QED
  BY <1>5, TotalsAreWhole DEF SettledTotal

(* Giving a hold back drops a pending row and records one refund.          *)
LEMMA ReleaseSettles ==
    ASSUME LedgerInv, NEW closing \in JobIds, NEW source \in ReleaseSource,
           Release(closing, source), NEW job, NEW type
    PROVE  SettledTotal(job, type)' = SettledTotal(job, type)
             + (IF closing = job /\ type = "refund" THEN holds[closing].amount ELSE 0)
<1> DEFINE row == RefundRow(closing, source)
           old == ReservationOf(closing)
<1>1. /\ closing \in DOMAIN holds
      /\ holds[closing].user \in Accounts /\ holds[closing].amount \in Int
  BY DEF Release, LedgerInv, LedgerTypeOK, CreditHold, Accounts
<1>2. row \in CreditTransaction
  BY <1>1, RowType DEF LedgerInv, EntryType, Source, ReleaseSource, RefundRow
<1>3. /\ ~row.pending /\ row.job = closing /\ row.type = "refund"
      /\ row.amount = holds[closing].amount
  BY DEF RefundRow, Row
<1>4. old.pending
  BY <1>1, ReservationRow
<1>5. TotalOf(SettledRows(job, type))'
        = TotalOf(SettledRows(job, type)) - AmountIn(SettledRows(job, type), old)
            + AmountIn(SettledRows(job, type), row)
  BY ReleaseTotals DEF TotalOf
<1> HIDE DEF row, old
<1>6. AmountIn(SettledRows(job, type), old) = 0
  BY <1>4, PendingAmount
<1>7. AmountIn(SettledRows(job, type), row)
        = IF closing = job /\ type = "refund" THEN holds[closing].amount ELSE 0
  BY <1>2, <1>3, SettledAmount
<1> QED
  BY <1>1, <1>5, <1>6, <1>7, TotalsAreWhole DEF SettledTotal

(* A settlement drops a pending row and records what the record will say.  *)
SettledAs(type, cost, refund, share, fee) ==
    IF type = "spend" THEN -cost
    ELSE IF type = "refund" THEN refund
    ELSE IF type = "earn" THEN share
    ELSE IF type = "adjustment" THEN fee ELSE 0

LEMMA SettleSettles ==
    ASSUME LedgerInv, NEW closing \in JobIds, NEW owner \in Users, NEW cost \in Nat,
           Settle(closing, owner, cost), cost <= holds[closing].amount, NEW job, NEW type
    PROVE  SettledTotal(job, type)' = SettledTotal(job, type)
             + (IF closing = job
                THEN SettledAs(type, cost, holds[closing].amount - cost, WorkerShare(cost),
                               cost - WorkerShare(cost))
                ELSE 0)
<1> DEFINE payer == holds[closing].user
           amount == holds[closing].amount
           refund == amount - cost
           share == WorkerShare(cost)
           fee == cost - share
           old == ReservationOf(closing)
           r0 == Row(0, payer, "spend", -cost, "job_execution", closing)
           r1 == Row(1, payer, "refund", refund, "unused_reserved_credits", closing)
           r2 == Row(2, owner, "earn", share, "job_execution", closing)
           r3 == Row(3, Platform, "adjustment", fee, "platform_fee", closing)
           kind == SettledRows(job, type)
<1>1. /\ closing \in DOMAIN holds /\ payer \in Accounts /\ amount \in Nat
      /\ owner \in Accounts /\ Platform \in Accounts
  BY DEF Settle, LedgerInv, LedgerTypeOK, CreditHold, Accounts
<1>2. refund \in Nat /\ share \in Nat /\ fee \in Nat
  BY <1>1, SettlementParts
<1>3. old.pending
  BY <1>1, ReservationRow
<1>4. TotalOf(kind)' = TotalOf(kind) - AmountIn(kind, old) + AmountIn(kind, r0)
                         + AmountIn(kind, r1) + AmountIn(kind, r2) + AmountIn(kind, r3)
  BY SettleTotals DEF TotalOf
<1> HIDE DEF payer, amount, refund, share, fee, old
<1>5. /\ ~r0.pending /\ r0.job = closing /\ r0.type = "spend" /\ r0.amount = -cost
      /\ ~r1.pending /\ r1.job = closing /\ r1.type = "refund" /\ r1.amount = refund
      /\ ~r2.pending /\ r2.job = closing /\ r2.type = "earn" /\ r2.amount = share
      /\ ~r3.pending /\ r3.job = closing /\ r3.type = "adjustment" /\ r3.amount = fee
  BY DEF Row
<1> USE <1>1, <1>2, RowType DEF LedgerInv, EntryType, Source
<1>6. r0 \in CreditTransaction
  <2>1. -cost \in Int /\ closing \in JobIds \cup {NoJob} /\ LedgerTypeOK
    OBVIOUS
  <2>2. payer \in Accounts /\ "spend" \in EntryType /\ "job_execution" \in Source
    OBVIOUS
  <2> QED
    BY ONLY <2>1, <2>2, 0 \in Nat, RowType
<1>7. r1 \in CreditTransaction
  OBVIOUS
<1>8. r2 \in CreditTransaction
  OBVIOUS
<1>9. r3 \in CreditTransaction
  OBVIOUS
<1> HIDE <1>1, <1>2, RowType DEF LedgerInv, EntryType, Source, r0, r1, r2, r3
<1>10. AmountIn(kind, old) = 0
  BY <1>3, PendingAmount
<1>11. AmountIn(kind, r0) = IF closing = job /\ type = "spend" THEN -cost ELSE 0
  BY <1>5, <1>6, SettledAmount
<1>12. AmountIn(kind, r1) = IF closing = job /\ type = "refund" THEN refund ELSE 0
  BY <1>5, <1>7, SettledAmount
<1>13. AmountIn(kind, r2) = IF closing = job /\ type = "earn" THEN share ELSE 0
  BY <1>5, <1>8, SettledAmount
<1>14. AmountIn(kind, r3) = IF closing = job /\ type = "adjustment" THEN fee ELSE 0
  BY <1>5, <1>9, SettledAmount
<1> HIDE DEF kind
<1>15. TotalOf(kind)' = TotalOf(kind) + (IF closing = job
                                         THEN SettledAs(type, cost, refund, share, fee) ELSE 0)
  BY <1>2, <1>4, <1>10, <1>11, <1>12, <1>13, <1>14, TotalsAreWhole DEF SettledAs
<1> QED
  BY <1>15 DEF SettledTotal, kind, refund, share, fee, amount

(* No row mentions a job that was never submitted.                         *)
LEMMA UnknownJobSettles ==
    ASSUME CoordinatorInv, NEW job \in JobIds, job \notin DOMAIN jobs, NEW type
    PROVE  SettledTotal(job, type) = 0
<1>1. transactions \cap SettledRows(job, type) = {}
  BY DEF SettledRows, CoordinatorInv, RowsOfKnownJobs
<1> QED
  BY <1>1, NoRowsNoAmount DEF SettledTotal, TotalOf

(* A record that shows the credits it showed before, over the rows it had. *)
LEMMA RecordStaysBooked ==
    ASSUME CoordinatorInv, RecordsInv, NEW job \in DOMAIN jobs,
           \A type : SettledTotal(job, type)' = SettledTotal(job, type),
           SameCharges(jobs[job], jobs'[job]),
           jobs'[job].refunded = jobs[job].refunded,
           jobs'[job].status \in Terminal <=> jobs[job].status \in Terminal
    PROVE  RecordBooked(job)'
  BY DEF RecordsInv, RecordBooked, NothingBooked, SameCharges

LEMMA RecordsUntouched ==
    ASSUME CoordinatorInv, RecordsInv, UNCHANGED jobs,
           \A job \in JobIds : \A type : SettledTotal(job, type)' = SettledTotal(job, type)
    PROVE  RecordsInv'
<1>1. ASSUME NEW job \in DOMAIN jobs
      PROVE  RecordBooked(job)'
  <2>1. job \in JobIds /\ SameCharges(jobs[job], jobs'[job])
    BY DEF CoordinatorInv, JobsTypeOK, SameCharges
  <2> QED
    BY <2>1, RecordStaysBooked
<1> QED
  BY <1>1 DEF RecordsInv

(* A step that edits one job's record and leaves the ledger alone.         *)
LEMMA EditKeepsRecords ==
    ASSUME CoordinatorInv, RecordsInv, NEW job \in DOMAIN jobs, JobUpdated(job),
           SameCharges(jobs[job], jobs'[job]), jobs'[job].refunded = jobs[job].refunded,
           jobs'[job].status \in Terminal <=> jobs[job].status \in Terminal,
           UNCHANGED ledgerVars
    PROVE  RecordsInv'
<1>1. \A j, type : SettledTotal(j, type)' = SettledTotal(j, type)
  BY DEF SettledTotal, TotalOf, ledgerVars
<1>2. ASSUME NEW j \in DOMAIN jobs
      PROVE  RecordBooked(j)'
  <2>1. CASE j = job
    BY <1>1, <2>1, RecordStaysBooked
  <2>2. CASE j # job
    <3>1. jobs'[j] = jobs[j]
      BY <2>2 DEF JobUpdated
    <3>2. SameCharges(jobs[j], jobs'[j])
      BY <3>1 DEF SameCharges
    <3> QED
      BY <1>1, <3>1, <3>2, RecordStaysBooked
  <2> QED
    BY <2>1, <2>2
<1> QED
  BY <1>2 DEF RecordsInv, JobUpdated

LEMMA SubmitKeepsRecords ==
    ASSUME CoordinatorInv, LedgerInv, RecordsInv, NEW job \in JobIds, NEW user \in Users,
           NEW selector, NEW amount \in Prices, SubmitJob(job, user, selector, amount)
    PROVE  RecordsInv'
<1>1. \A j, type : SettledTotal(j, type)' = SettledTotal(j, type)
  BY ReserveSettles DEF SubmitJob
<1>2. /\ job \notin DOMAIN jobs
      /\ DOMAIN jobs' = DOMAIN jobs \cup {job}
      /\ jobs'[job] = NewJob(user, selector, amount)
      /\ \A j \in DOMAIN jobs : jobs'[j] = jobs[j]
  BY DEF SubmitJob, With
<1>3. ASSUME NEW j \in DOMAIN jobs
      PROVE  RecordBooked(j)'
  <2>1. jobs'[j] = jobs[j] /\ SameCharges(jobs[j], jobs'[j])
    BY <1>2 DEF SameCharges
  <2> QED
    BY <1>1, <2>1, RecordStaysBooked
<1>4. RecordBooked(job)'
  <2>1. \A type : SettledTotal(job, type)' = 0
    BY <1>1, <1>2, UnknownJobSettles
  <2>2. NothingBooked(jobs'[job]) /\ jobs'[job].status \notin Terminal
    BY <1>2 DEF NewJob, NothingBooked, Terminal
  <2> QED
    BY <2>1, <2>2 DEF RecordBooked, NothingBooked
<1> QED
  BY <1>2, <1>3, <1>4 DEF RecordsInv

(* An open job has nothing booked, and its hold is its reservation.        *)
LEMMA OpenJobIsUnbooked ==
    ASSUME CoordinatorInv, RecordsInv, NEW job \in DOMAIN holds
    PROVE  /\ job \in DOMAIN jobs /\ job \in JobIds
           /\ holds[job].amount = jobs[job].reserved /\ jobs[job].reserved \in Nat
           /\ NothingBooked(jobs[job])
           /\ \A type \in {"spend", "refund", "earn", "adjustment"} : SettledTotal(job, type) = 0
<1>1. /\ job \in DOMAIN jobs /\ holds[job].amount = jobs[job].reserved
      /\ jobs[job].status \notin Terminal
  BY DEF CoordinatorInv, HoldsMatchOpenJobs, JobsInStatus, Terminal
<1>2. job \in JobIds /\ jobs[job].reserved \in Nat
  BY <1>1, LedgerAssumption DEF CoordinatorInv, JobsTypeOK, JobRecord
<1> QED
  BY <1>1, <1>2 DEF RecordsInv, RecordBooked, NothingBooked

(* A step that closes one job leaves the records of the others booked.     *)
LEMMA OtherRecordsBooked ==
    ASSUME CoordinatorInv, RecordsInv, NEW job \in DOMAIN jobs, JobUpdated(job),
           \A j \in JobIds \ {job} : \A type : SettledTotal(j, type)' = SettledTotal(j, type),
           RecordBooked(job)'
    PROVE  RecordsInv'
<1>1. ASSUME NEW j \in DOMAIN jobs, j # job
      PROVE  RecordBooked(j)'
  <2>1. jobs'[j] = jobs[j] /\ j \in JobIds
    BY <1>1 DEF JobUpdated, CoordinatorInv, JobsTypeOK
  <2>2. SameCharges(jobs[j], jobs'[j])
    BY <2>1 DEF SameCharges
  <2>3. \A type : SettledTotal(j, type)' = SettledTotal(j, type)
    BY <1>1, <2>1
  <2> QED
    BY <2>1, <2>2, <2>3, RecordStaysBooked
<1> QED
  BY <1>1 DEF RecordsInv, JobUpdated

(* A failed, self-served or canceled job gives the whole reservation back. *)
LEMMA ReleaseKeepsRecords ==
    ASSUME CoordinatorInv, LedgerInv, RecordsInv, NEW job \in JobIds,
           NEW source \in ReleaseSource, Release(job, source), JobClosed(job),
           SameCharges(jobs[job], jobs'[job]), jobs'[job].refunded = holds[job].amount
    PROVE  RecordsInv'
<1> DEFINE amount == holds[job].amount
<1>1. job \in DOMAIN holds
  BY DEF Release
<1>2. /\ job \in DOMAIN jobs /\ amount = jobs[job].reserved /\ amount \in Nat
      /\ NothingBooked(jobs[job])
      /\ \A type \in {"spend", "refund", "earn", "adjustment"} : SettledTotal(job, type) = 0
  BY <1>1, OpenJobIsUnbooked
<1>3. \A j, type : SettledTotal(j, type)' = SettledTotal(j, type)
                     + (IF job = j /\ type = "refund" THEN amount ELSE 0)
  BY ReleaseSettles
<1> HIDE DEF amount
<1>4. \A j, type : SettledTotal(j, type) \in Int
  BY TotalsAreWhole DEF SettledTotal
<1>5. \A j \in JobIds \ {job} : \A type : SettledTotal(j, type)' = SettledTotal(j, type)
  BY <1>3, <1>4
<1>6. /\ SettledTotal(job, "spend")' = 0 /\ SettledTotal(job, "refund")' = amount
      /\ SettledTotal(job, "earn")' = 0 /\ SettledTotal(job, "adjustment")' = 0
  BY <1>2, <1>3
<1>7. /\ jobs'[job].actual = 0 /\ jobs'[job].workerEarned = 0 /\ jobs'[job].platformFee = 0
      /\ jobs'[job].refunded = amount /\ jobs'[job].reserved = amount
      /\ jobs'[job].status \in Terminal
  BY <1>2 DEF SameCharges, NothingBooked, JobClosed, amount
<1>8. RecordBooked(job)'
  BY <1>2, <1>6, <1>7 DEF RecordBooked
<1> QED
  BY <1>2, <1>5, <1>8, OtherRecordsBooked DEF JobClosed

(* A settled job's record shows what settle booked.                        *)
LEMMA SettleKeepsRecords ==
    ASSUME CoordinatorInv, LedgerInv, RecordsInv, NEW job \in JobIds, NEW cost \in Prices,
           SettleJob(job, cost)
    PROVE  RecordsInv'
<1> DEFINE billed == BilledCredits(job, cost)
           owner == workers[jobs[job].worker].owner
           amount == holds[job].amount
           share == WorkerShare(billed)
<1>1. job \in DOMAIN holds /\ Settle(job, owner, billed)
  BY DEF SettleJob, Settle
<1>2. /\ job \in DOMAIN jobs /\ amount = jobs[job].reserved /\ amount \in Nat
      /\ NothingBooked(jobs[job])
      /\ \A type \in {"spend", "refund", "earn", "adjustment"} : SettledTotal(job, type) = 0
  BY <1>1, OpenJobIsUnbooked
<1>3. billed \in Nat /\ billed <= amount
  BY <1>1, BilledWithinHold, LedgerAssumption
<1>4. owner \in Users
  BY DEF SettleJob, AcceptResult, CoordinatorInv, WorkersTypeOK, WorkerNode
<1>5. /\ JobClosed(job) /\ jobs'[job].reserved = jobs[job].reserved
      /\ jobs'[job].actual = billed /\ jobs'[job].refunded = amount - billed
      /\ jobs'[job].workerEarned = share /\ jobs'[job].platformFee = billed - share
  BY SettleEdit
<1>6. share \in Nat
  BY <1>3, SettlementParts
<1> HIDE DEF billed, owner
<1>7. \A j, type : SettledTotal(j, type)' = SettledTotal(j, type)
        + (IF job = j THEN SettledAs(type, billed, amount - billed, share, billed - share) ELSE 0)
  BY <1>1, <1>3, <1>4, SettleSettles
<1> HIDE DEF amount, share
<1>8. \A j, type : SettledTotal(j, type) \in Int
  BY TotalsAreWhole DEF SettledTotal
<1>9. \A j \in JobIds \ {job} : \A type : SettledTotal(j, type)' = SettledTotal(j, type)
  BY <1>7, <1>8
<1>10. /\ SettledTotal(job, "spend")' = -billed
       /\ SettledTotal(job, "refund")' = amount - billed
       /\ SettledTotal(job, "earn")' = share
       /\ SettledTotal(job, "adjustment")' = billed - share
  BY <1>2, <1>3, <1>6, <1>7 DEF SettledAs
<1>11. RecordBooked(job)'
  BY <1>2, <1>3, <1>5, <1>6, <1>10 DEF RecordBooked, JobClosed
<1> QED
  BY <1>2, <1>5, <1>9, <1>11, OtherRecordsBooked DEF JobClosed

LEMMA RecordsStep ==
    ASSUME CoordinatorInv, LedgerInv, RecordsInv, [Next]_vars
    PROVE  RecordsInv'
<1>1. CASE UNCHANGED <<transactions, jobs>>
  <2>1. \A j, type : SettledTotal(j, type)' = SettledTotal(j, type)
    BY <1>1 DEF SettledTotal, TotalOf
  <2> QED
    BY <1>1, <2>1, RecordsUntouched
<1>2. CASE LedgerCall
  BY <1>2, LedgerCallSettles, RecordsUntouched, RowsAddedByLedgerCall
<1>3. ASSUME NEW job, IsQueued(job), NEW worker \in DOMAIN workers, Assign(job, worker),
             UNCHANGED ledgerVars
      PROVE  RecordsInv'
  <2>1. job \in DOMAIN jobs /\ jobs[job].status = "queued" /\ worker \in Workers
    BY <1>3 DEF IsQueued, CoordinatorInv, WorkersTypeOK
  <2>2. /\ JobUpdated(job) /\ jobs'[job].status = "assigned"
        /\ jobs'[job].refunded = jobs[job].refunded /\ SameCharges(jobs[job], jobs'[job])
    BY <1>3, <2>1, AssignEdit DEF CoordinatorInv
  <2> QED
    BY <1>3, <2>1, <2>2, EditKeepsRecords DEF Terminal
<1>4. ASSUME NEW k \in 1 .. Len(queue), AssignNextJob(k)
      PROVE  RecordsInv'
  BY <1>3, <1>4 DEF AssignNextJob, Candidates
<1>5. ASSUME NEW worker \in Workers, WorkerStep(worker)
      PROVE  RecordsInv'
  <2>1. ASSUME NEW allowOwn \in BOOLEAN, NEW k \in 1 .. Len(queue),
               ClaimJobForWorker(worker, allowOwn, k)
        PROVE  RecordsInv'
    BY <1>3, <2>1 DEF ClaimJobForWorker, CanClaim
  <2>2. (\E offer \in Offers : RegisterWorker(worker, offer)) \/ StopWorker(worker)
          \/ (\E allowOwn \in BOOLEAN : ClaimNothing(worker, allowOwn))
          => UNCHANGED <<transactions, jobs>>
    BY DEF RegisterWorker, RegisterUser, StopWorker, ClaimNothing, ledgerVars
  <2> QED
    BY <1>1, <1>5, <2>1, <2>2 DEF WorkerStep
<1>6. ASSUME NEW job \in JobIds, JobStep(job)
      PROVE  RecordsInv'
  <2>1. CASE \E user \in Users, selector \in Selectors, reserved \in Prices :
               SubmitJob(job, user, selector, reserved)
    BY <2>1, SubmitKeepsRecords
  <2>2. CASE \E failed \in JobIds, reserved \in Prices : RestartFailedJob(failed, job, reserved)
    <3>1. PICK failed \in DOMAIN jobs, reserved \in Prices :
            SubmitJob(job, jobs[failed].requester, jobs[failed].selector, reserved)
      BY <2>2 DEF RestartFailedJob
    <3>2. jobs[failed].requester \in Users
      BY DEF CoordinatorInv, JobsTypeOK, JobRecord
    <3> QED
      BY <3>1, <3>2, SubmitKeepsRecords
  <2>3. ASSUME NEW source \in ReleaseSource, Release(job, source), JobClosed(job),
               SameCharges(jobs[job], jobs'[job]), jobs'[job].refunded = jobs[job].reserved
        PROVE  RecordsInv'
    <3>1. jobs'[job].refunded = holds[job].amount
      BY <2>3, OpenJobIsUnbooked DEF Release
    <3> QED
      BY <2>3, <3>1, ReleaseKeepsRecords
  <2>4. CASE FailJob(job)
    <3>1. Release(job, "job_failed_or_unverified") /\ "job_failed_or_unverified" \in ReleaseSource
      BY <2>4 DEF FailJob, ReleaseSource
    <3> QED
      BY <2>3, <2>4, <3>1, FailEdit DEF CoordinatorInv
  <2>5. CASE SelfServedJob(job)
    <3>1. Release(job, "self_served_refund") /\ "self_served_refund" \in ReleaseSource
      BY <2>5 DEF SelfServedJob, ReleaseSource
    <3> QED
      BY <2>3, <2>5, <3>1, SelfServedEdit DEF CoordinatorInv
  <2>6. CASE \E cost \in Prices : SettleJob(job, cost)
    BY <2>6, SettleKeepsRecords
  <2>7. ASSUME NEW result \in {"verified", "failed"}, LateResult(job, result)
        PROVE  RecordsInv'
    <3>1. job \in DOMAIN jobs /\ JobUpdated(job) /\ Settlement(job)' = Settlement(job)
      BY <2>7, LateEdit DEF CoordinatorInv
    <3>2. /\ SameCharges(jobs[job], jobs'[job]) /\ jobs'[job].refunded = jobs[job].refunded
          /\ jobs'[job].status = jobs[job].status
      BY <3>1 DEF Settlement, SameCharges
    <3> QED
      BY <2>7, <3>1, <3>2, EditKeepsRecords DEF LateResult
  <2>8. CASE CancelQueuedJob(job)
    <3>1. job \in DOMAIN holds
      BY <2>8 DEF CancelQueuedJob, IsQueued, CoordinatorInv, HoldsMatchOpenJobs, JobsInStatus
    <3>2. Release(job, "admin_cancel") /\ "admin_cancel" \in ReleaseSource
      BY <2>8, <3>1 DEF CancelQueuedJob, ReleaseSource
    <3> QED
      BY <2>8, <3>1, <3>2, CancelEdit, ReleaseKeepsRecords
  <2>9. ASSUME NEW selector \in Selectors, RerouteQueuedJob(job, selector)
        PROVE  RecordsInv'
    <3>1. /\ job \in DOMAIN jobs /\ JobUpdated(job) /\ jobs'[job].status = jobs[job].status
          /\ SameCharges(jobs[job], jobs'[job]) /\ jobs'[job].refunded = jobs[job].refunded
      BY <2>9, RerouteEdit DEF CoordinatorInv
    <3> QED
      BY <2>9, <3>1, EditKeepsRecords DEF RerouteQueuedJob
  <2> QED
    BY <1>6, <2>1, <2>2, <2>4, <2>5, <2>6, <2>7, <2>8, <2>9 DEF JobStep
<1>7. CASE UNCHANGED vars
  BY <1>1, <1>7 DEF vars, ledgerVars, coordinatorVars
<1> QED
  BY <1>2, <1>4, <1>5, <1>6, <1>7 DEF Next

(* What the record of every job says was charged, refunded, earned and     *)
(* kept is what the ledger's rows for it say, and a closed job's charge    *)
(* and refund add up to its reservation: a result that comes late or twice *)
(* changes neither (coordinator.py:171-268).                               *)
THEOREM RecordsAlwaysMatchRows == Spec => []RecordsMatchRows
<1>1. Init => RecordsInv
  BY DEF Init, EmptyDict, RecordsInv
<1>2. CoordinatorInv /\ LedgerInv /\ RecordsInv /\ [Next]_vars => RecordsInv'
  BY RecordsStep
<1>3. CoordinatorInv /\ RecordsInv => RecordsMatchRows
  BY RecordsInvMeaning
<1> QED
  BY <1>1, <1>2, <1>3, CoordinatorInvHolds, CoordinatorBooks, PTL DEF Spec

-----------------------------------------------------------------------------
(* Workers and the jobs they hold *)

(* Assigned jobs name registered workers; reassigning, stopping and        *)
(* registering again lose none.                                            *)
LEMMA AssignedWorkerStep ==
    ASSUME CoordinatorInv, AssignedWorkerKnown, [Next]_vars
    PROVE  AssignedWorkerKnown'
<1> USE DEF CoordinatorInv
<1>1. NoWorker \notin DOMAIN workers
  BY CoordinatorAssumption DEF WorkersTypeOK
<1>2. ASSUME DOMAIN workers \subseteq DOMAIN workers', UNCHANGED jobs
      PROVE  AssignedWorkerKnown'
  BY <1>2 DEF AssignedWorkerKnown
<1>3. ASSUME NEW job \in DOMAIN jobs, JobUpdated(job), DOMAIN workers' = DOMAIN workers,
             IF jobs'[job].status \in {"queued", "canceled"}
             THEN jobs'[job].worker = NoWorker
             ELSE jobs'[job].worker \in DOMAIN workers
      PROVE  AssignedWorkerKnown'
  BY <1>3 DEF AssignedWorkerKnown, JobUpdated
<1>4. ASSUME NEW job, IsQueued(job), NEW worker \in DOMAIN workers, Assign(job, worker),
             DOMAIN workers' = DOMAIN workers
      PROVE  AssignedWorkerKnown'
  <2>1. job \in DOMAIN jobs /\ worker \in Workers
    BY <1>4 DEF IsQueued, WorkersTypeOK
  <2>2. JobUpdated(job) /\ jobs'[job].status = "assigned" /\ jobs'[job].worker = worker
    BY <1>4, <2>1, AssignEdit
  <2> QED
    BY <1>3, <1>4, <2>1, <2>2
<1>5. ASSUME NEW k \in 1 .. Len(queue), AssignNextJob(k)
      PROVE  AssignedWorkerKnown'
  BY <1>4, <1>5 DEF AssignNextJob, Candidates
<1>6. ASSUME NEW worker \in Workers, WorkerStep(worker)
      PROVE  AssignedWorkerKnown'
  <2>1. ASSUME NEW allowOwn \in BOOLEAN, NEW k \in 1 .. Len(queue),
               ClaimJobForWorker(worker, allowOwn, k)
        PROVE  AssignedWorkerKnown'
    BY <1>4, <2>1 DEF ClaimJobForWorker, CanClaim
  <2>2. ASSUME NEW offer \in Offers, RegisterWorker(worker, offer)
        PROVE  AssignedWorkerKnown'
    BY <1>2, <2>2 DEF RegisterWorker, With
  <2>3. CASE StopWorker(worker)
    BY <1>2, <2>3 DEF StopWorker
  <2>4. CASE \E allowOwn \in BOOLEAN : ClaimNothing(worker, allowOwn)
    BY <1>2, <2>4 DEF ClaimNothing
  <2> QED
    BY <1>6, <2>1, <2>2, <2>3, <2>4 DEF WorkerStep
<1>7. ASSUME NEW job \in JobIds, AcceptResult(job), JobUpdated(job),
             jobs'[job].status # "queued", jobs'[job].status # "canceled",
             jobs'[job].worker = jobs[job].worker
      PROVE  AssignedWorkerKnown'
  BY <1>3, <1>7 DEF AcceptResult
<1>8. ASSUME NEW job \in JobIds, JobStep(job)
      PROVE  AssignedWorkerKnown'
  <2>1. ASSUME NEW user, NEW selector, NEW amount, SubmitJob(job, user, selector, amount)
        PROVE  AssignedWorkerKnown'
    BY <2>1 DEF SubmitJob, With, NewJob, AssignedWorkerKnown
  <2>2. CASE FailJob(job)
    BY <1>7, <2>2, FailEdit DEF FailJob, JobClosed
  <2>3. CASE SelfServedJob(job)
    BY <1>7, <2>3, SelfServedEdit DEF SelfServedJob, JobClosed
  <2>4. ASSUME NEW cost \in Prices, SettleJob(job, cost)
        PROVE  AssignedWorkerKnown'
    BY <1>7, <2>4, SettleEdit DEF SettleJob, JobClosed
  <2>5. ASSUME NEW result \in {"verified", "failed"}, LateResult(job, result)
        PROVE  AssignedWorkerKnown'
    <3>1. AcceptResult(job) /\ JobUpdated(job)
      BY <2>5, LateEdit DEF LateResult
    <3>2. jobs'[job].worker = jobs[job].worker /\ jobs'[job].status = jobs[job].status
      BY <2>5, LateEdit DEF Settlement
    <3>3. jobs[job].status # "queued" /\ jobs[job].status # "canceled"
      BY <1>1, <3>1 DEF AcceptResult, AssignedWorkerKnown
    <3> QED
      BY <1>7, <3>1, <3>2, <3>3
  <2>6. CASE CancelQueuedJob(job)
    <3>1. job \in DOMAIN jobs /\ jobs[job].worker = NoWorker /\ DOMAIN workers' = DOMAIN workers
      BY <2>6 DEF CancelQueuedJob, IsQueued, AssignedWorkerKnown
    <3>2. JobClosed(job) /\ jobs'[job].status = "canceled"
      BY <2>6, CancelEdit
    <3> QED
      BY <1>3, <3>1, <3>2 DEF JobClosed
  <2>7. ASSUME NEW selector \in Selectors, RerouteQueuedJob(job, selector)
        PROVE  AssignedWorkerKnown'
    BY <1>3, <2>7, RerouteEdit DEF RerouteQueuedJob
  <2> QED
    BY <1>8, <2>1, <2>2, <2>3, <2>4, <2>5, <2>6, <2>7 DEF JobStep, RestartFailedJob
<1>9. CASE LedgerCall
  BY <1>2, <1>9 DEF LedgerCall, coordinatorVars
<1>10. CASE UNCHANGED vars
  BY <1>2, <1>10 DEF vars, coordinatorVars
<1> QED
  BY <1>5, <1>6, <1>8, <1>9, <1>10 DEF Next

(* A job names its worker from its assignment on and a worker that is      *)
(* registered; a queued or canceled one names none, so no result for it    *)
(* can be accepted (coordinator.py:171-183).                               *)
THEOREM AssignedWorkersAreKnown == Spec => []AssignedWorkerKnown
<1>1. Init => AssignedWorkerKnown
  BY DEF Init, EmptyDict, AssignedWorkerKnown
<1>2. CoordinatorInv /\ AssignedWorkerKnown /\ [Next]_vars => AssignedWorkerKnown'
  BY AssignedWorkerStep
<1> QED
  BY <1>1, <1>2, CoordinatorInvHolds, PTL DEF Spec

(* A worker's slots against the jobs assigned to it.                       *)
SlotsHeld(worker) ==
    /\ workers[worker].active <= Cardinality(AssignedTo(worker))
    /\ workers[worker].active <= workers[worker].capacity

LEMMA AssignedIsFinite ==
    ASSUME CoordinatorInv, NEW worker
    PROVE  IsFiniteSet(AssignedTo(worker)) /\ Cardinality(AssignedTo(worker)) \in Nat
<1>1. AssignedTo(worker) \subseteq JobIds
  BY DEF AssignedTo, JobsInStatus, CoordinatorInv, JobsTypeOK
<1> QED
  BY <1>1, LedgerAssumption, FS_Subset, FS_CardinalityType

(* No job changes hands and no worker counts another slot.                 *)
LEMMA SlotsKept ==
    ASSUME CoordinatorInv, NoSlotLeaks, NEW worker \in DOMAIN workers,
           workers'[worker].capacity = workers[worker].capacity,
           workers'[worker].active = workers[worker].active \/ workers'[worker].active = 0,
           AssignedTo(worker)' = AssignedTo(worker)
    PROVE  SlotsHeld(worker)'
<1>1. workers[worker].active \in Nat /\ workers[worker].capacity \in Nat
  BY DEF CoordinatorInv, WorkersTypeOK, WorkerNode
<1>2. Cardinality(AssignedTo(worker)) \in Nat
  BY AssignedIsFinite
<1> QED
  BY <1>1, <1>2 DEF SlotsHeld, NoSlotLeaks

(* A queued job goes to a worker with room.                                *)
LEMMA AssignKeepsSlots ==
    ASSUME CoordinatorInv, NoSlotLeaks, NEW job, IsQueued(job), NEW worker \in DOMAIN workers,
           HasRoom(worker), Assign(job, worker), DOMAIN workers' = DOMAIN workers,
           workers'[worker].active = workers[worker].active + 1,
           workers'[worker].capacity = workers[worker].capacity,
           \A w \in DOMAIN workers \ {worker} : workers'[w] = workers[w]
    PROVE  NoSlotLeaks'
<1>1. job \in DOMAIN jobs /\ jobs[job].status = "queued" /\ worker \in Workers
  BY DEF IsQueued, CoordinatorInv, WorkersTypeOK
<1>2. JobUpdated(job) /\ jobs'[job].status = "assigned" /\ jobs'[job].worker = worker
  BY <1>1, AssignEdit DEF CoordinatorInv
<1>3. job \notin AssignedTo(worker) /\ AssignedTo(worker)' = AssignedTo(worker) \cup {job}
  BY <1>1, <1>2 DEF AssignedTo, JobsInStatus, JobUpdated
<1>4. \A w \in DOMAIN workers \ {worker} : AssignedTo(w)' = AssignedTo(w)
  BY <1>1, <1>2 DEF AssignedTo, JobsInStatus, JobUpdated
<1>5. Cardinality(AssignedTo(worker))' = Cardinality(AssignedTo(worker)) + 1
      /\ Cardinality(AssignedTo(worker)) \in Nat
  BY <1>3, AssignedIsFinite, FS_AddElement
<1>6. /\ workers[worker].active \in Nat /\ workers[worker].capacity \in Nat
      /\ workers[worker].active < workers[worker].capacity
      /\ workers[worker].active <= Cardinality(AssignedTo(worker))
  BY DEF CoordinatorInv, WorkersTypeOK, WorkerNode, HasRoom, NoSlotLeaks
<1>7. SlotsHeld(worker)'
  BY <1>5, <1>6 DEF SlotsHeld
<1>8. \A w \in DOMAIN workers \ {worker} : SlotsHeld(w)'
  BY <1>4, SlotsKept
<1> QED
  BY <1>7, <1>8 DEF NoSlotLeaks, SlotsHeld

(* What accepting a result does to the worker's count.                     *)
LEMMA AcceptedCount ==
    ASSUME CoordinatorInv, NEW job, AcceptResult(job)
    PROVE  LET w == jobs[job].worker IN
           /\ job \in DOMAIN jobs /\ w \in DOMAIN workers
           /\ DOMAIN workers' = DOMAIN workers
           /\ workers'[w].capacity = workers[w].capacity
           /\ workers'[w].active = IF workers[w].active > 0 THEN workers[w].active - 1 ELSE 0
           /\ \A x \in DOMAIN workers \ {w} : workers'[x] = workers[x]
<1> DEFINE w == jobs[job].worker
           active == IF workers[w].active > 0 THEN workers[w].active - 1 ELSE 0
           new == [workers[w] EXCEPT !.active = active]
<1>1. job \in DOMAIN jobs /\ w \in DOMAIN workers /\ workers' = [workers EXCEPT ![w] = new]
  BY DEF AcceptResult
<1>2. workers[w] \in WorkerNode
  BY <1>1 DEF CoordinatorInv, WorkersTypeOK
<1> HIDE DEF active
<1>3. new.capacity = workers[w].capacity /\ new.active = active
  BY <1>2, Zenon DEF WorkerNode
<1> HIDE DEF new
<1> QED
  BY <1>1, <1>3 DEF active

(* The first result of a job gives its slot back.                          *)
LEMMA ResultKeepsSlots ==
    ASSUME CoordinatorInv, AssignedWorkerKnown, NoSlotLeaks, NEW job \in DOMAIN holds,
           AcceptResult(job), JobClosed(job)
    PROVE  NoSlotLeaks'
<1>0. PICK w \in DOMAIN workers : w = jobs[job].worker
  BY DEF AcceptResult
<1>1. /\ job \in DOMAIN jobs /\ w \in DOMAIN workers /\ DOMAIN workers' = DOMAIN workers
      /\ workers'[w].capacity = workers[w].capacity
      /\ workers'[w].active = IF workers[w].active > 0 THEN workers[w].active - 1 ELSE 0
      /\ \A x \in DOMAIN workers \ {w} : workers'[x] = workers[x]
  BY <1>0, AcceptedCount
<1>2. jobs[job].status = "assigned"
  <2>1. w # NoWorker
    BY <1>1, CoordinatorAssumption DEF CoordinatorInv, WorkersTypeOK
  <2>2. jobs[job].status \in {"queued", "assigned"}
    BY DEF CoordinatorInv, HoldsMatchOpenJobs, JobsInStatus
  <2> QED
    BY <1>0, <1>1, <2>1, <2>2 DEF AssignedWorkerKnown
<1>3. job \in AssignedTo(w) /\ AssignedTo(w)' = AssignedTo(w) \ {job}
  BY <1>0, <1>1, <1>2 DEF AssignedTo, JobsInStatus, JobClosed, JobUpdated, Terminal
<1>4. \A x \in DOMAIN workers \ {w} : AssignedTo(x)' = AssignedTo(x)
  BY <1>0, <1>1, <1>2 DEF AssignedTo, JobsInStatus, JobClosed, JobUpdated, Terminal
<1>5. Cardinality(AssignedTo(w))' = Cardinality(AssignedTo(w)) - 1
      /\ Cardinality(AssignedTo(w)) \in Nat /\ Cardinality(AssignedTo(w))' \in Nat
  BY <1>3, AssignedIsFinite, FS_RemoveElement, FS_CardinalityType
<1>6. /\ workers[w].active \in Nat /\ workers[w].capacity \in Nat
      /\ workers[w].active <= workers[w].capacity
      /\ workers[w].active <= Cardinality(AssignedTo(w))
  BY <1>1 DEF CoordinatorInv, WorkersTypeOK, WorkerNode, NoSlotLeaks
<1>7. SlotsHeld(w)'
  BY <1>1, <1>5, <1>6 DEF SlotsHeld
<1>8. \A x \in DOMAIN workers \ {w} : SlotsHeld(x)'
  BY <1>1, <1>4, SlotsKept
<1> QED
  BY <1>1, <1>7, <1>8 DEF NoSlotLeaks, SlotsHeld

LEMMA SlotsStep ==
    ASSUME CoordinatorInv, AssignedWorkerKnown, NoSlotLeaks, [Next]_vars
    PROVE  NoSlotLeaks'
<1>1. \A w \in DOMAIN workers : workers[w] \in WorkerNode
  BY DEF CoordinatorInv, WorkersTypeOK
<1>2. ASSUME DOMAIN workers' = DOMAIN workers,
             \A w \in DOMAIN workers :
               /\ workers'[w].capacity = workers[w].capacity
               /\ workers'[w].active = workers[w].active
               /\ AssignedTo(w)' = AssignedTo(w)
      PROVE  NoSlotLeaks'
  <2>1. \A w \in DOMAIN workers : SlotsHeld(w)'
    BY <1>2, SlotsKept
  <2> QED
    BY <1>2, <2>1 DEF NoSlotLeaks, SlotsHeld
<1>3. ASSUME UNCHANGED <<workers, jobs>>
      PROVE  NoSlotLeaks'
  BY <1>2, <1>3 DEF AssignedTo, JobsInStatus
<1>4. ASSUME NEW k \in 1 .. Len(queue), AssignNextJob(k)
      PROVE  NoSlotLeaks'
  <2>1. PICK w \in DOMAIN workers :
          /\ IsQueued(queue[k]) /\ HasRoom(w) /\ Assign(queue[k], w)
          /\ workers' = [workers EXCEPT ![w] = [workers[w] EXCEPT !.active = workers[w].active + 1]]
    BY <1>4, Zenon DEF AssignNextJob, Candidates, Serves
  <2>2. PICK job : job = queue[k]
    OBVIOUS
  <2>3. workers'[w].active = workers[w].active + 1 /\ workers'[w].capacity = workers[w].capacity
    BY <1>1, <2>1 DEF WorkerNode
  <2>4. DOMAIN workers' = DOMAIN workers
        /\ \A x \in DOMAIN workers \ {w} : workers'[x] = workers[x]
    BY <2>1
  <2> QED
    BY <2>1, <2>2, <2>3, <2>4, AssignKeepsSlots
<1>5. ASSUME NEW worker \in Workers, WorkerStep(worker)
      PROVE  NoSlotLeaks'
  <2>1. ASSUME NEW offer \in Offers, RegisterWorker(worker, offer)
        PROVE  NoSlotLeaks'
    <3>1. /\ DOMAIN workers' = DOMAIN workers \cup {worker}
          /\ workers'[worker] = NewWorker(offer)
          /\ \A w \in DOMAIN workers \ {worker} : workers'[w] = workers[w]
      BY <2>1 DEF RegisterWorker, With
    <3>2. \A w : AssignedTo(w)' = AssignedTo(w)
      BY <2>1 DEF RegisterWorker, AssignedTo, JobsInStatus
    <3>3. SlotsHeld(worker)'
      <4>1. workers'[worker].active = 0 /\ workers'[worker].capacity \in Nat
        BY <3>1, CoordinatorAssumption DEF NewWorker, WorkerOffer
      <4>2. Cardinality(AssignedTo(worker)) \in Nat
        BY AssignedIsFinite
      <4> QED
        BY <3>2, <4>1, <4>2 DEF SlotsHeld
    <3>4. \A w \in DOMAIN workers \ {worker} : SlotsHeld(w)'
      BY <3>1, <3>2, SlotsKept
    <3> QED
      BY <3>1, <3>3, <3>4 DEF NoSlotLeaks, SlotsHeld
  <2>2. CASE StopWorker(worker)
    <3>1. /\ worker \in DOMAIN workers
          /\ workers' = [workers EXCEPT ![worker] = [workers[worker] EXCEPT !.online = FALSE]]
      BY <2>2, Zenon DEF StopWorker
    <3>2. \A w : AssignedTo(w)' = AssignedTo(w)
      BY <2>2 DEF StopWorker, AssignedTo, JobsInStatus
    <3> QED
      BY <1>1, <1>2, <3>1, <3>2 DEF WorkerNode
  <2>3. ASSUME NEW allowOwn \in BOOLEAN, NEW k \in 1 .. Len(queue),
               ClaimJobForWorker(worker, allowOwn, k)
        PROVE  NoSlotLeaks'
    <3>1. /\ worker \in DOMAIN workers /\ IsQueued(queue[k]) /\ HasRoom(worker)
          /\ Assign(queue[k], worker)
          /\ workers' = [workers EXCEPT ![worker] =
               [workers[worker] EXCEPT !.online = TRUE, !.active = workers[worker].active + 1]]
      BY <1>1, <2>3 DEF ClaimJobForWorker, CanClaim, Serves, WorkerNode
    <3>2. PICK job : job = queue[k]
      OBVIOUS
    <3>3. workers'[worker].active = workers[worker].active + 1
          /\ workers'[worker].capacity = workers[worker].capacity
      BY <1>1, <3>1 DEF WorkerNode
    <3>4. DOMAIN workers' = DOMAIN workers
          /\ \A x \in DOMAIN workers \ {worker} : workers'[x] = workers[x]
      BY <3>1
    <3> QED
      BY <3>1, <3>2, <3>3, <3>4, AssignKeepsSlots
  <2>4. ASSUME NEW allowOwn \in BOOLEAN, ClaimNothing(worker, allowOwn)
        PROVE  NoSlotLeaks'
    <3>1. /\ worker \in DOMAIN workers
          /\ workers' = [workers EXCEPT ![worker] = [workers[worker] EXCEPT !.online = TRUE]]
      BY <2>4, Zenon DEF ClaimNothing
    <3>2. \A w : AssignedTo(w)' = AssignedTo(w)
      BY <2>4 DEF ClaimNothing, AssignedTo, JobsInStatus
    <3> QED
      BY <1>1, <1>2, <3>1, <3>2 DEF WorkerNode
  <2> QED
    BY <1>5, <2>1, <2>2, <2>3, <2>4 DEF WorkerStep
<1>6. ASSUME NEW job \in JobIds, JobStep(job)
      PROVE  NoSlotLeaks'
  <2>1. ASSUME NEW user, NEW selector, NEW amount, SubmitJob(job, user, selector, amount)
        PROVE  NoSlotLeaks'
    <3>1. UNCHANGED workers
          /\ \A w : AssignedTo(w)' = AssignedTo(w)
      BY <2>1 DEF SubmitJob, With, NewJob, AssignedTo, JobsInStatus
    <3> QED
      BY <1>2, <3>1
  <2>2. CASE FailJob(job)
    BY <2>2, FailEdit, ReleaseRows, ResultKeepsSlots DEF FailJob, CoordinatorInv
  <2>3. CASE SelfServedJob(job)
    BY <2>3, SelfServedEdit, ReleaseRows, ResultKeepsSlots DEF SelfServedJob, CoordinatorInv
  <2>4. ASSUME NEW cost \in Prices, SettleJob(job, cost)
        PROVE  NoSlotLeaks'
    <3>1. job \in DOMAIN holds /\ AcceptResult(job)
      BY <2>4 DEF SettleJob, Settle
    <3> QED
      BY <2>4, <3>1, SettleEdit, ResultKeepsSlots
  <2>5. ASSUME NEW result \in {"verified", "failed"}, LateResult(job, result)
        PROVE  NoSlotLeaks'
    <3>1. PICK w \in DOMAIN workers : w = jobs[job].worker
      BY <2>5 DEF LateResult, AcceptResult
    <3>2. /\ DOMAIN workers' = DOMAIN workers
          /\ workers'[w].capacity = workers[w].capacity
          /\ workers'[w].active = IF workers[w].active > 0 THEN workers[w].active - 1 ELSE 0
          /\ \A x \in DOMAIN workers \ {w} : workers'[x] = workers[x]
      BY <2>5, <3>1, AcceptedCount DEF LateResult
    <3>3. JobUpdated(job) /\ jobs'[job].status = jobs[job].status
          /\ jobs'[job].worker = jobs[job].worker
      BY <2>5, LateEdit DEF Settlement, CoordinatorInv
    <3>4. \A x : AssignedTo(x)' = AssignedTo(x)
      BY <3>3 DEF JobUpdated, AssignedTo, JobsInStatus
    <3>5. SlotsHeld(w)'
      <4>1. workers[w].active \in Nat /\ workers[w].capacity \in Nat
        BY <1>1 DEF WorkerNode
      <4>2. Cardinality(AssignedTo(w)) \in Nat
        BY AssignedIsFinite
      <4> QED
        BY <3>2, <3>4, <4>1, <4>2 DEF SlotsHeld, NoSlotLeaks
    <3>6. \A x \in DOMAIN workers \ {w} : SlotsHeld(x)'
      BY <3>2, <3>4, SlotsKept
    <3> QED
      BY <3>2, <3>5, <3>6 DEF NoSlotLeaks, SlotsHeld
  <2>6. CASE CancelQueuedJob(job)
    <3>1. UNCHANGED workers /\ jobs[job].status = "queued"
      BY <2>6 DEF CancelQueuedJob, IsQueued
    <3>2. JobUpdated(job) /\ jobs'[job].status = "canceled"
      BY <2>6, CancelEdit DEF JobClosed
    <3>3. \A w : AssignedTo(w)' = AssignedTo(w)
      BY <3>1, <3>2 DEF JobUpdated, AssignedTo, JobsInStatus
    <3> QED
      BY <1>2, <3>1, <3>3
  <2>7. ASSUME NEW selector \in Selectors, RerouteQueuedJob(job, selector)
        PROVE  NoSlotLeaks'
    <3>1. UNCHANGED workers
      BY <2>7 DEF RerouteQueuedJob
    <3>2. JobUpdated(job) /\ jobs[job].status = "queued" /\ jobs'[job].status = "queued"
      BY <2>7, RerouteEdit DEF CoordinatorInv
    <3>3. \A w : AssignedTo(w)' = AssignedTo(w)
      BY <3>2 DEF JobUpdated, AssignedTo, JobsInStatus
    <3> QED
      BY <1>2, <3>1, <3>3
  <2> QED
    BY <1>6, <2>1, <2>2, <2>3, <2>4, <2>5, <2>6, <2>7 DEF JobStep, RestartFailedJob
<1>7. CASE LedgerCall
  BY <1>3, <1>7 DEF LedgerCall, coordinatorVars
<1>8. CASE UNCHANGED vars
  BY <1>3, <1>8 DEF vars, coordinatorVars
<1> QED
  BY <1>4, <1>5, <1>6, <1>7, <1>8 DEF Next

(* A worker never counts more active jobs than are assigned to it, nor     *)
(* more than its limit: every accepted result gives back the slot its      *)
(* claim took, late and repeated results take none (coordinator.py:112-187).*)
THEOREM SlotsNeverLeak == Spec => []NoSlotLeaks
<1>1. Init => NoSlotLeaks
  BY DEF Init, EmptyDict, NoSlotLeaks
<1>2. CoordinatorInv /\ AssignedWorkerKnown /\ NoSlotLeaks /\ [Next]_vars => NoSlotLeaks'
  BY SlotsStep
<1> QED
  BY <1>1, <1>2, CoordinatorInvHolds, AssignedWorkersAreKnown, PTL DEF Spec

-----------------------------------------------------------------------------
(* What a pass over a sequence keeps *)

(* Induction along an interval, for a set of numbers.                      *)
LEMMA UpTo ==
    ASSUME NEW N \in Nat, NEW Good, 0 \in Good,
           \A n \in 0 .. N : n \in Good /\ n < N => n + 1 \in Good
    PROVE  \A n \in 0 .. N : n \in Good
<1> DEFINE Bad == {n \in 0 .. N : n \notin Good}
<1>1. SUFFICES ASSUME Bad # {} PROVE FALSE
  OBVIOUS
<1>2. PICK n \in Bad : \A m \in Bad : n <= m
  <2>1. Bad \subseteq Nat
    OBVIOUS
  <2> HIDE DEF Bad
  <2> QED
    BY <1>1, <2>1, SmallestNat
<1>3. n - 1 \in 0 .. N /\ n - 1 < N /\ n - 1 \notin Bad
  BY <1>2
<1>4. n \in Good
  BY <1>3
<1> QED
  BY <1>4

(* The n-th value of the recursion behind Keeping.                         *)
Pass(passed, s, kept, n) ==
    IF n = 0 THEN <<>>
    ELSE IF s[n] \in kept THEN Append(passed[n - 1], s[n]) ELSE passed[n - 1]

Passes(s, kept) ==
    CHOOSE passed : passed =
      [n \in 0 .. Len(s) |->
         IF n = 0 THEN <<>>
         ELSE IF s[n] \in kept THEN Append(passed[n - 1], s[n]) ELSE passed[n - 1]]

LEMMA PassesUpTo ==
    ASSUME NEW S, NEW s \in Seq(S), NEW kept
    PROVE  \E f : f = [i \in 0 .. Len(s) |-> Pass(f, s, kept, i)]
<1> DEFINE Good == {n \in 0 .. Len(s) : \E f : f = [i \in 0 .. n |-> Pass(f, s, kept, i)]}
<1>1. Len(s) \in Nat
  OBVIOUS
<1>2. 0 \in Good
  <2> DEFINE f == [i \in 0 .. 0 |-> <<>>]
  <2>1. f = [i \in 0 .. 0 |-> Pass(f, s, kept, i)]
    BY DEF Pass
  <2> QED
    BY <1>1, <2>1
<1>3. ASSUME NEW n \in 0 .. Len(s), n \in Good, n < Len(s)
      PROVE  n + 1 \in Good
  <2>1. PICK f : f = [i \in 0 .. n |-> Pass(f, s, kept, i)]
    BY <1>3
  <2> DEFINE g == [i \in 0 .. n + 1 |-> IF i = n + 1 THEN Pass(f, s, kept, i) ELSE f[i]]
  <2>2. \A i \in 0 .. n : g[i] = f[i]
    BY <1>1
  <2>3. \A i \in 0 .. n + 1 : Pass(g, s, kept, i) = Pass(f, s, kept, i)
    <3> TAKE i \in 0 .. n + 1
    <3>1. i # 0 => i - 1 \in 0 .. n
      BY <1>1
    <3> HIDE DEF g
    <3> QED
      BY <2>2, <3>1 DEF Pass
  <2>4. \A i \in 0 .. n + 1 : g[i] = Pass(f, s, kept, i)
    BY <1>1, <2>1
  <2>5. g = [i \in 0 .. n + 1 |-> Pass(g, s, kept, i)]
    BY <2>3, <2>4
  <2>6. n + 1 \in 0 .. Len(s)
    BY <1>1, <1>3
  <2> QED
    BY <2>5, <2>6
<1>4. \A n \in 0 .. Len(s) : n \in Good
  <2> HIDE DEF Good
  <2> QED
    BY <1>1, <1>2, <1>3, UpTo
<1>5. Len(s) \in Good
  BY <1>1, <1>4
<1> QED
  BY <1>5

LEMMA PassesUnfold ==
    ASSUME NEW S, NEW s \in Seq(S), NEW kept
    PROVE  /\ \A n \in 0 .. Len(s) : Passes(s, kept)[n] = Pass(Passes(s, kept), s, kept, n)
           /\ Keeping(s, kept) = Passes(s, kept)[Len(s)]
<1>1. \E f : f = [i \in 0 .. Len(s) |-> Pass(f, s, kept, i)]
  BY PassesUpTo
<1>2. Passes(s, kept) = [i \in 0 .. Len(s) |-> Pass(Passes(s, kept), s, kept, i)]
  BY <1>1 DEF Passes, Pass
<1>3. Keeping(s, kept) = Passes(s, kept)[Len(s)]
  BY DEF Keeping, Passes
<1> QED
  BY <1>2, <1>3

(* The elements of a sequence, and that no two places hold the same.       *)
Elements(s) == {s[i] : i \in 1 .. Len(s)}

Distinct(s) == \A i, j \in 1 .. Len(s) : s[i] = s[j] => i = j

LEMMA AppendElements ==
    ASSUME NEW S, NEW s \in Seq(S), NEW x \in S
    PROVE  /\ Append(s, x) \in Seq(S)
           /\ Elements(Append(s, x)) = Elements(s) \cup {x}
           /\ Distinct(s) /\ x \notin Elements(s) => Distinct(Append(s, x))
<1>1. /\ Append(s, x) \in Seq(S) /\ Len(Append(s, x)) = Len(s) + 1 /\ Len(s) \in Nat
      /\ \A i \in 1 .. Len(s) : Append(s, x)[i] = s[i]
      /\ Append(s, x)[Len(s) + 1] = x
  OBVIOUS
<1>2. Elements(Append(s, x)) = Elements(s) \cup {x}
  <2>1. \A i \in 1 .. Len(s) + 1 : i \in 1 .. Len(s) \/ i = Len(s) + 1
    BY <1>1
  <2>2. Len(s) + 1 \in 1 .. Len(s) + 1 /\ 1 .. Len(s) \subseteq 1 .. Len(s) + 1
    BY <1>1
  <2> QED
    BY <1>1, <2>1, <2>2 DEF Elements
<1>3. ASSUME Distinct(s), x \notin Elements(s) PROVE Distinct(Append(s, x))
  BY <1>1, <1>3 DEF Elements, Distinct
<1> QED
  BY <1>1, <1>2, <1>3

(* What a pass keeps: the elements in the set, still each of them once.    *)
LEMMA KeepingElements ==
    ASSUME NEW S, NEW s \in Seq(S), NEW kept
    PROVE  /\ Keeping(s, kept) \in Seq(S)
           /\ Elements(Keeping(s, kept)) = Elements(s) \cap kept
           /\ Distinct(s) => Distinct(Keeping(s, kept))
<1> DEFINE t == Passes(s, kept)
           Seen(n) == {s[i] : i \in 1 .. n}
           Good == {n \in 0 .. Len(s) : /\ t[n] \in Seq(S)
                                        /\ Elements(t[n]) = Seen(n) \cap kept
                                        /\ Distinct(s) => Distinct(t[n])}
<1>1. Len(s) \in Nat /\ \A i \in 1 .. Len(s) : s[i] \in S
  OBVIOUS
<1>2. /\ t[0] = <<>>
      /\ \A n \in 0 .. Len(s) : n < Len(s) =>
           t[n + 1] = IF s[n + 1] \in kept THEN Append(t[n], s[n + 1]) ELSE t[n]
  BY <1>1, PassesUnfold DEF Pass
<1> HIDE DEF t
<1>3. 0 \in Good
  <2>1. Elements(<<>>) = {} /\ Seen(0) = {} /\ Distinct(<<>>)
    BY DEF Elements, Distinct
  <2>2. 0 \in 0 .. Len(s) /\ <<>> \in Seq(S)
    BY <1>1
  <2> HIDE DEF Seen
  <2> QED
    BY <1>2, <2>1, <2>2
<1>4. ASSUME NEW n \in 0 .. Len(s), n \in Good, n < Len(s)
      PROVE  n + 1 \in Good
  <2>1. n \in Nat /\ n + 1 \in 1 .. Len(s) /\ s[n + 1] \in S
    BY <1>1, <1>4
  <2>2. Seen(n + 1) = Seen(n) \cup {s[n + 1]}
    <3>1. 1 .. n + 1 = (1 .. n) \cup {n + 1}
      BY <2>1
    <3> QED
      BY <3>1
  <2>3. Distinct(s) => s[n + 1] \notin Seen(n)
    BY <1>1, <2>1 DEF Distinct
  <2>4. t[n] \in Seq(S) /\ Elements(t[n]) = Seen(n) \cap kept /\ (Distinct(s) => Distinct(t[n]))
    BY <1>4
  <2> HIDE DEF Seen
  <2>5. CASE s[n + 1] \in kept
    <3>1. t[n + 1] = Append(t[n], s[n + 1])
      BY <1>2, <1>4, <2>5
    <3>2. t[n + 1] \in Seq(S) /\ Elements(t[n + 1]) = Elements(t[n]) \cup {s[n + 1]}
      BY <2>1, <2>4, <3>1, AppendElements
    <3>3. Distinct(s) => Distinct(t[n + 1])
      BY <2>1, <2>3, <2>4, <3>1, AppendElements
    <3>4. Elements(t[n + 1]) = Seen(n + 1) \cap kept
      BY <2>2, <2>4, <2>5, <3>2
    <3> QED
      BY <2>1, <3>2, <3>3, <3>4
  <2>6. CASE s[n + 1] \notin kept
    <3>1. t[n + 1] = t[n]
      BY <1>2, <1>4, <2>6
    <3>2. Elements(t[n + 1]) = Seen(n + 1) \cap kept
      BY <2>2, <2>4, <2>6, <3>1
    <3> QED
      BY <2>1, <2>4, <3>1, <3>2
  <2> QED
    BY <2>5, <2>6
<1>5. Len(s) \in Good
  <2> HIDE DEF Good
  <2>1. \A n \in 0 .. Len(s) : n \in Good
    BY <1>1, <1>3, <1>4, UpTo
  <2> QED
    BY <1>1, <2>1
<1>6. Keeping(s, kept) = t[Len(s)]
  BY PassesUnfold DEF t
<1> QED
  BY <1>5, <1>6 DEF Elements

(* A sequence of different elements is as long as they are many.           *)
LEMMA DistinctLength ==
    ASSUME NEW S, NEW s \in Seq(S), Distinct(s)
    PROVE  Len(s) = Cardinality(Elements(s))
<1>1. Len(s) \in Nat /\ DOMAIN s = 1 .. Len(s)
  OBVIOUS
<1>2. s \in Bijection(1 .. Len(s), Elements(s))
  BY <1>1 DEF Bijection, Injection, Surjection, IsInjective, Elements, Distinct
<1> QED
  BY <1>1, <1>2, FS_CountingElements DEF ExistsBijection

LEMMA JoinedElements ==
    ASSUME NEW S, NEW s \in Seq(S), NEW t \in Seq(S), Distinct(s), Distinct(t),
           Elements(s) \cap Elements(t) = {}
    PROVE  /\ s \o t \in Seq(S)
           /\ Elements(s \o t) = Elements(s) \cup Elements(t)
           /\ Distinct(s \o t)
<1> DEFINE u == s \o t
           m == Len(s)
           n == Len(t)
<1>1. /\ u \in Seq(S) /\ m \in Nat /\ n \in Nat /\ Len(u) = m + n
      /\ \A i \in 1 .. m : u[i] = s[i]
      /\ \A i \in 1 .. n : u[m + i] = t[i]
  OBVIOUS
<1>2. \A i \in 1 .. m + n : i \in 1 .. m \/ (i - m \in 1 .. n /\ u[i] = t[i - m])
  <2> TAKE i \in 1 .. m + n
  <2>1. i \in 1 .. m \/ i - m \in 1 .. n
    BY <1>1
  <2>2. i - m \in 1 .. n => u[m + (i - m)] = t[i - m] /\ m + (i - m) = i
    BY <1>1
  <2> QED
    BY <2>1, <2>2
<1> HIDE DEF u
<1>3. Elements(u) = Elements(s) \cup Elements(t)
  <2>1. \A i \in 1 .. m : i \in 1 .. m + n
    BY <1>1
  <2>2. \A i \in 1 .. n : m + i \in 1 .. m + n
    BY <1>1
  <2>3. ASSUME NEW x \in Elements(u)
        PROVE  x \in Elements(s) \cup Elements(t)
    <3>1. PICK i \in 1 .. m + n : x = u[i]
      BY <1>1 DEF Elements
    <3> QED
      BY <1>1, <1>2, <3>1 DEF Elements
  <2>4. ASSUME NEW x \in Elements(s)
        PROVE  x \in Elements(u)
    BY <1>1, <2>1 DEF Elements
  <2>5. ASSUME NEW x \in Elements(t)
        PROVE  x \in Elements(u)
    BY <1>1, <2>2 DEF Elements
  <2> QED
    BY <2>3, <2>4, <2>5
<1>4. Distinct(u)
  <2> SUFFICES ASSUME NEW i \in 1 .. m + n, NEW j \in 1 .. m + n, u[i] = u[j]
               PROVE  i = j
    BY <1>1 DEF Distinct
  <2>1. CASE i \in 1 .. m /\ j \in 1 .. m
    BY <1>1, <2>1 DEF Distinct
  <2>2. CASE i - m \in 1 .. n /\ j - m \in 1 .. n
    <3> DEFINE a == i - m
               b == j - m
    <3>1. a \in 1 .. n /\ m + a = i
      BY <1>1, <2>2
    <3>2. b \in 1 .. n /\ m + b = j
      BY <1>1, <2>2
    <3> HIDE DEF a, b
    <3>3. t[a] = t[b]
      BY <1>1, <3>1, <3>2
    <3>4. a = b
      BY <3>1, <3>2, <3>3 DEF Distinct
    <3> QED
      BY <3>1, <3>2, <3>4
  <2>3. ASSUME NEW a \in 1 .. m, NEW b \in 1 .. n, s[a] = t[b] PROVE FALSE
    BY <2>3 DEF Elements
  <2> QED
    BY <1>1, <1>2, <2>1, <2>2, <2>3
<1> QED
  BY <1>1, <1>3, <1>4 DEF u

(* Taking the k-th element out and putting what is kept of those before it *)
(* behind those after it.                                                  *)
LEMMA RotatedElements ==
    ASSUME NEW S, NEW s \in Seq(S), Distinct(s), NEW k \in 1 .. Len(s), NEW kept,
           Elements(s) \subseteq kept
    PROVE  LET t == SubSeq(s, k + 1, Len(s)) \o Keeping(SubSeq(s, 1, k - 1), kept) IN
           /\ t \in Seq(S) /\ Distinct(t)
           /\ Elements(t) = Elements(s) \ {s[k]}
<1> DEFINE after == SubSeq(s, k + 1, Len(s))
           before == SubSeq(s, 1, k - 1)
           back == Keeping(before, kept)
           n == Len(s)
<1>1. n \in Nat /\ k \in Nat /\ 1 <= k /\ k <= n /\ \A i \in 1 .. n : s[i] \in S
  OBVIOUS
<1>2. /\ after \in Seq(S) /\ Len(after) = n - k
      /\ \A i \in 1 .. n - k : after[i] = s[k + i]
  <2>1. /\ after \in Seq(S) /\ Len(after) = IF k + 1 <= n THEN n - (k + 1) + 1 ELSE 0
        /\ \A i \in 1 .. n - (k + 1) + 1 : after[i] = s[k + 1 + i - 1]
    BY <1>1, SubSeqProperties
  <2> HIDE DEF after
  <2> QED
    BY <1>1, <2>1
<1>3. /\ before \in Seq(S) /\ Len(before) = k - 1
      /\ \A i \in 1 .. k - 1 : before[i] = s[i]
  <2>1. /\ before \in Seq(S) /\ Len(before) = IF 1 <= k - 1 THEN k - 1 - 1 + 1 ELSE 0
        /\ \A i \in 1 .. k - 1 - 1 + 1 : before[i] = s[1 + i - 1]
    BY <1>1, SubSeqProperties
  <2> HIDE DEF before
  <2> QED
    BY <1>1, <2>1
<1> HIDE DEF after, before
<1>4. Elements(after) = {s[i] : i \in k + 1 .. n} /\ Distinct(after)
  <2>1. ASSUME NEW i \in k + 1 .. n
        PROVE  i - k \in 1 .. n - k /\ after[i - k] = s[i]
    <3>1. i - k \in 1 .. n - k /\ k + (i - k) = i
      BY <1>1
    <3> QED
      BY <1>2, <3>1
  <2>2. \A i \in 1 .. n - k : k + i \in k + 1 .. n
    BY <1>1
  <2>3. Len(after) = n - k
    BY <1>2
  <2>4. ASSUME NEW x \in Elements(after)
        PROVE  x \in {s[i] : i \in k + 1 .. n}
    BY <1>2, <2>2, <2>4 DEF Elements
  <2>5. ASSUME NEW x \in {s[i] : i \in k + 1 .. n}
        PROVE  x \in Elements(after)
    BY <2>1, <2>3, <2>5 DEF Elements
  <2>6. ASSUME NEW i \in 1 .. n - k, NEW j \in 1 .. n - k, after[i] = after[j]
        PROVE  i = j
    <3>1. s[k + i] = s[k + j] /\ k + i \in 1 .. n /\ k + j \in 1 .. n
      BY <1>1, <1>2, <2>6
    <3>2. k + i = k + j
      BY <3>1 DEF Distinct
    <3> QED
      BY <1>1, <3>2
  <2>7. Distinct(after)
    BY <2>3, <2>6 DEF Distinct
  <2> QED
    BY <2>4, <2>5, <2>7
<1>5. Elements(before) = {s[i] : i \in 1 .. k - 1} /\ Distinct(before)
  BY <1>1, <1>3 DEF Elements, Distinct
<1>6. back \in Seq(S) /\ Elements(back) = {s[i] : i \in 1 .. k - 1} /\ Distinct(back)
  <2>1. back \in Seq(S) /\ Elements(back) = Elements(before) \cap kept /\ Distinct(back)
    BY <1>3, <1>5, KeepingElements
  <2>2. {s[i] : i \in 1 .. k - 1} \subseteq kept
    BY <1>1 DEF Elements
  <2> QED
    BY <1>5, <2>1, <2>2
<1> HIDE DEF back
<1>7. Elements(after) \cap Elements(back) = {}
  BY <1>1, <1>4, <1>6 DEF Distinct
<1>8. Elements(after) \cup Elements(back) = Elements(s) \ {s[k]}
  <2>1. \A i \in 1 .. n : i \in 1 .. k - 1 \/ i = k \/ i \in k + 1 .. n
    BY <1>1
  <2>2. Elements(s) = {s[i] : i \in 1 .. k - 1} \cup {s[k]} \cup {s[i] : i \in k + 1 .. n}
    BY <1>1, <2>1 DEF Elements
  <2>3. s[k] \notin {s[i] : i \in 1 .. k - 1} /\ s[k] \notin {s[i] : i \in k + 1 .. n}
    BY <1>1 DEF Distinct
  <2> QED
    BY <1>4, <1>6, <2>2, <2>3
<1>9. /\ after \o back \in Seq(S)
      /\ Elements(after \o back) = Elements(after) \cup Elements(back)
      /\ Distinct(after \o back)
  BY <1>2, <1>4, <1>6, <1>7, JoinedElements
<1> QED
  BY <1>8, <1>9 DEF after, before, back

-----------------------------------------------------------------------------
(* The queue *)

QueueInv ==
    /\ queue \in Seq(JobIds)
    /\ Distinct(queue)
    /\ Elements(queue) = JobsInStatus({"queued"})

LEMMA QueueInvMeaning ==
    ASSUME QueueInv
    PROVE  queue \in Seq(JobIds) /\ QueueHoldsQueuedJobs
<1>1. Len(queue) = Cardinality(Elements(queue))
  BY DistinctLength DEF QueueInv
<1> QED
  BY <1>1 DEF QueueInv, QueueHoldsQueuedJobs, Elements

LEMMA QueueKept ==
    ASSUME QueueInv, UNCHANGED queue, JobsInStatus({"queued"})' = JobsInStatus({"queued"})
    PROVE  QueueInv'
  BY DEF QueueInv, Elements, Distinct

(* Both scans of the queue take the k-th job out of it and assign it.      *)
LEMMA RotateKeepsQueue ==
    ASSUME CoordinatorInv, QueueInv, NEW k \in 1 .. Len(queue), IsQueued(queue[k]),
           NEW worker \in DOMAIN workers, Assign(queue[k], worker), queue' = RotatedQueue(k)
    PROVE  QueueInv'
<1>1. PICK job : job = queue[k]
  OBVIOUS
<1>2. job \in DOMAIN jobs /\ jobs[job].status = "queued" /\ worker \in Workers
  BY <1>1 DEF IsQueued, CoordinatorInv, WorkersTypeOK
<1>3. JobUpdated(job) /\ jobs'[job].status = "assigned"
  BY <1>1, <1>2, AssignEdit DEF CoordinatorInv
<1>4. JobsInStatus({"queued"})' = JobsInStatus({"queued"}) \ {job}
  BY <1>2, <1>3 DEF JobsInStatus, JobUpdated
<1>5. Elements(queue) \subseteq QueuedJobs
  BY DEF QueueInv, QueuedJobs, IsQueued, JobsInStatus
<1>6. /\ RotatedQueue(k) \in Seq(JobIds) /\ Distinct(RotatedQueue(k))
      /\ Elements(RotatedQueue(k)) = Elements(queue) \ {queue[k]}
  BY <1>5, RotatedElements DEF RotatedQueue, QueueInv
<1>7. /\ queue' \in Seq(JobIds) /\ Distinct(queue')
      /\ Elements(queue') = Elements(queue) \ {job}
  BY <1>1, <1>6
<1> QED
  BY <1>4, <1>7 DEF QueueInv, Elements, Distinct

(* A result is accepted only for a job that has left the queue.            *)
LEMMA ResultIsOfTakenJob ==
    ASSUME CoordinatorInv, AssignedWorkerKnown, NEW job, AcceptResult(job)
    PROVE  job \in DOMAIN jobs /\ jobs[job].status # "queued"
  BY CoordinatorAssumption
  DEF AcceptResult, AssignedWorkerKnown, CoordinatorInv, WorkersTypeOK

LEMMA ResultKeepsQueue ==
    ASSUME CoordinatorInv, AssignedWorkerKnown, QueueInv, NEW job, AcceptResult(job),
           JobUpdated(job), jobs'[job].status # "queued", UNCHANGED queue
    PROVE  QueueInv'
<1>1. job \in DOMAIN jobs /\ jobs[job].status # "queued"
  BY ResultIsOfTakenJob
<1>2. JobsInStatus({"queued"})' = JobsInStatus({"queued"})
  BY <1>1 DEF JobsInStatus, JobUpdated
<1> QED
  BY <1>2, QueueKept

LEMMA SubmitKeepsQueue ==
    ASSUME CoordinatorInv, QueueInv, NEW job \in JobIds, NEW user, NEW selector, NEW amount,
           SubmitJob(job, user, selector, amount)
    PROVE  QueueInv'
<1>1. job \notin DOMAIN jobs /\ queue' = Append(queue, job)
  BY DEF SubmitJob
<1>2. JobsInStatus({"queued"})' = JobsInStatus({"queued"}) \cup {job}
  BY DEF SubmitJob, With, NewJob, JobsInStatus
<1>3. job \notin Elements(queue)
  BY <1>1 DEF QueueInv, JobsInStatus
<1>4. /\ Append(queue, job) \in Seq(JobIds) /\ Distinct(Append(queue, job))
      /\ Elements(Append(queue, job)) = Elements(queue) \cup {job}
  BY <1>3, AppendElements DEF QueueInv
<1>5. /\ queue' \in Seq(JobIds) /\ Distinct(queue')
      /\ Elements(queue') = Elements(queue) \cup {job}
  BY <1>1, <1>4
<1> QED
  BY <1>2, <1>5 DEF QueueInv, Elements, Distinct

LEMMA CancelKeepsQueue ==
    ASSUME CoordinatorInv, QueueInv, NEW job \in JobIds, CancelQueuedJob(job)
    PROVE  QueueInv'
<1>1. job \in DOMAIN jobs /\ queue' = Keeping(queue, JobIds \ {job})
  BY DEF CancelQueuedJob, IsQueued
<1>2. JobUpdated(job) /\ jobs'[job].status = "canceled"
  BY CancelEdit DEF JobClosed
<1>3. JobsInStatus({"queued"})' = JobsInStatus({"queued"}) \ {job}
  BY <1>1, <1>2 DEF JobsInStatus, JobUpdated
<1>4. Elements(queue) \subseteq JobIds
  BY DEF QueueInv, JobsInStatus, CoordinatorInv, JobsTypeOK
<1>5. /\ queue' \in Seq(JobIds) /\ Distinct(queue')
      /\ Elements(queue') = Elements(queue) \cap (JobIds \ {job})
  BY <1>1, KeepingElements DEF QueueInv
<1>6. Elements(queue') = Elements(queue) \ {job}
  BY <1>4, <1>5
<1> QED
  BY <1>3, <1>5, <1>6 DEF QueueInv, Elements, Distinct

LEMMA ClaimNothingKeepsQueue ==
    ASSUME QueueInv, NEW worker, NEW allowOwn, ClaimNothing(worker, allowOwn)
    PROVE  QueueInv'
<1>1. queue' = Keeping(queue, QueuedJobs) /\ UNCHANGED jobs
  BY DEF ClaimNothing
<1>2. JobsInStatus({"queued"})' = JobsInStatus({"queued"})
  BY <1>1 DEF JobsInStatus
<1>3. Elements(queue) \subseteq QueuedJobs
  BY DEF QueueInv, QueuedJobs, IsQueued, JobsInStatus
<1>4. /\ queue' \in Seq(JobIds) /\ Distinct(queue')
      /\ Elements(queue') = Elements(queue) \cap QueuedJobs
  BY <1>1, KeepingElements DEF QueueInv
<1>5. Elements(queue') = Elements(queue)
  BY <1>3, <1>4
<1> QED
  BY <1>2, <1>4, <1>5 DEF QueueInv, Elements, Distinct

LEMMA QueueStep ==
    ASSUME CoordinatorInv, AssignedWorkerKnown, QueueInv, [Next]_vars
    PROVE  QueueInv'
<1>1. ASSUME UNCHANGED <<queue, jobs>>
      PROVE  QueueInv'
  BY <1>1, QueueKept DEF JobsInStatus
<1>2. ASSUME NEW k \in 1 .. Len(queue), AssignNextJob(k)
      PROVE  QueueInv'
  BY <1>2, RotateKeepsQueue DEF AssignNextJob, Candidates
<1>3. ASSUME NEW worker \in Workers, WorkerStep(worker)
      PROVE  QueueInv'
  <2>1. ASSUME NEW allowOwn \in BOOLEAN, NEW k \in 1 .. Len(queue),
               ClaimJobForWorker(worker, allowOwn, k)
        PROVE  QueueInv'
    BY <2>1, RotateKeepsQueue DEF ClaimJobForWorker, CanClaim
  <2>2. CASE \E allowOwn \in BOOLEAN : ClaimNothing(worker, allowOwn)
    BY <2>2, ClaimNothingKeepsQueue
  <2>3. (\E offer \in Offers : RegisterWorker(worker, offer)) \/ StopWorker(worker)
          => UNCHANGED <<queue, jobs>>
    BY DEF RegisterWorker, StopWorker
  <2> QED
    BY <1>1, <1>3, <2>1, <2>2, <2>3 DEF WorkerStep
<1>4. ASSUME NEW job \in JobIds, JobStep(job)
      PROVE  QueueInv'
  <2>1. CASE FailJob(job)
    BY <2>1, FailEdit, ResultKeepsQueue DEF FailJob, JobClosed, CoordinatorInv
  <2>2. CASE SelfServedJob(job)
    BY <2>2, SelfServedEdit, ResultKeepsQueue DEF SelfServedJob, JobClosed, CoordinatorInv
  <2>3. ASSUME NEW cost \in Prices, SettleJob(job, cost)
        PROVE  QueueInv'
    BY <2>3, SettleEdit, ResultKeepsQueue DEF SettleJob, JobClosed
  <2>4. ASSUME NEW result \in {"verified", "failed"}, LateResult(job, result)
        PROVE  QueueInv'
    <3>1. AcceptResult(job) /\ UNCHANGED queue
      BY <2>4 DEF LateResult
    <3>2. JobUpdated(job) /\ jobs'[job].status = jobs[job].status
      BY <2>4, LateEdit DEF Settlement, CoordinatorInv
    <3> QED
      BY <3>1, <3>2, ResultIsOfTakenJob, ResultKeepsQueue
  <2>5. ASSUME NEW selector \in Selectors, RerouteQueuedJob(job, selector)
        PROVE  QueueInv'
    <3>1. JobUpdated(job) /\ jobs[job].status = "queued" /\ jobs'[job].status = "queued"
      BY <2>5, RerouteEdit DEF CoordinatorInv
    <3>2. JobsInStatus({"queued"})' = JobsInStatus({"queued"})
      BY <3>1 DEF JobsInStatus, JobUpdated
    <3> QED
      BY <2>5, <3>2, QueueKept DEF RerouteQueuedJob
  <2> QED
    BY <1>4, <2>1, <2>2, <2>3, <2>4, <2>5, SubmitKeepsQueue, CancelKeepsQueue
    DEF JobStep, RestartFailedJob
<1>5. CASE LedgerCall
  BY <1>1, <1>5 DEF LedgerCall, coordinatorVars
<1>6. CASE UNCHANGED vars
  BY <1>1, <1>6 DEF vars, coordinatorVars
<1> QED
  BY <1>2, <1>3, <1>4, <1>5, <1>6 DEF Next

LEMMA QueueInvInit == Init => QueueInv
<1> SUFFICES ASSUME Init PROVE QueueInv
  OBVIOUS
<1>1. queue = <<>> /\ DOMAIN jobs = {}
  BY DEF Init, EmptyDict
<1>2. Elements(<<>>) = {} /\ Distinct(<<>>) /\ <<>> \in Seq(JobIds)
  BY DEF Elements, Distinct
<1> QED
  BY <1>1, <1>2 DEF QueueInv, JobsInStatus

LEMMA QueueInvHolds == Spec => []QueueInv
<1>1. CoordinatorInv /\ AssignedWorkerKnown /\ QueueInv /\ [Next]_vars => QueueInv'
  BY QueueStep
<1> QED
  BY <1>1, QueueInvInit, CoordinatorInvHolds, AssignedWorkersAreKnown, PTL DEF Spec

(* The queue holds exactly the queued jobs, each once: the two scans that  *)
(* rotate it (coordinator.py:116-130, 151-163), the cancellation that      *)
(* filters it (352) and the submissions that append to it neither lose a   *)
(* job nor keep one that was taken.                                        *)
THEOREM QueueIsTheQueuedJobs == Spec => []QueueHoldsQueuedJobs
<1>1. QueueInv => QueueHoldsQueuedJobs
  BY QueueInvMeaning
<1> QED
  BY <1>1, QueueInvHolds, PTL

(* Workers, job records and the queue keep their types.                    *)
THEOREM CoordinatorTypeCorrect == Spec => []TypeOK
<1>1. CoordinatorInv /\ QueueInv => TypeOK
  BY QueueInvMeaning DEF CoordinatorInv, TypeOK
<1> QED
  BY <1>1, CoordinatorInvHolds, QueueInvHolds, PTL

=============================================================================
