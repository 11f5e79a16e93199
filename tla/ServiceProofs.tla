---------------------------- MODULE ServiceProofs ----------------------------
(***************************************************************************)
(* Proofs about what the service (service.py) wraps around the calls of    *)
(* the coordinator: the document it is saved in and restarted from         *)
(* (Recovery), the threads of a conversation (Conversations), and the      *)
(* document that several processes write over each other (SharedStore).    *)
(* Each part is about its own specification; the first two go on from the  *)
(* coordinator's invariants.                                               *)
(***************************************************************************)
EXTENDS Recovery, Conversations, SharedStore, CoordinatorProofs

-----------------------------------------------------------------------------
(* Recovery: the coordinator behind its saved document, for any number of  *)
(* crashes, failing saves and restarts, whatever the constants.            *)
(*                                                                         *)
(* The inductive invariant RecoveryInv says that two coordinators are in   *)
(* order at every moment: the one in memory and the one in the document,   *)
(* from which the next server starts.  A call moves the first, a save      *)
(* copies the first over the second, a restart the second over the first.  *)
(* What was answered is what the document says, and an execution on a      *)
(* worker's machine is in it too: it outlives the server.                  *)

(* The coordinator as it is in the document. *)
Saved == INSTANCE CoordinatorProofs
    WITH workers <- document.workers, jobs <- document.jobs, queue <- document.queue,
         registered <- document.ledger.registered, available <- document.ledger.available,
         spent <- document.ledger.spent, earned <- document.ledger.earned,
         holds <- document.ledger.holds, transactions <- document.ledger.transactions,
         nextEntry <- document.ledger.nextEntry

Sound ==
    /\ CoordinatorInv
    /\ QueueInv
    /\ AssignedWorkerKnown
    /\ NoSlotLeaks

SavedSound ==
    /\ Saved!CoordinatorInv
    /\ Saved!QueueInv
    /\ Saved!AssignedWorkerKnown
    /\ Saved!NoSlotLeaks

(* The execution runs the job its worker was given. *)
Runs(x) == x.job \in JobsInStatus({"assigned"}) /\ jobs[x.job].worker = x.worker

SavedRuns(x) ==
    /\ x.job \in Saved!JobsInStatus({"assigned"})
    /\ document.jobs[x.job].worker = x.worker

ExecutionsInv ==
    /\ executing \subseteq Execution
    /\ \A x, y \in executing : x.job = y.job => x = y
    /\ \A x \in executing :
         /\ x.place = "server" => up
         /\ up => Runs(x)
         /\ x.place # "server" => SavedRuns(x)

RecoveryInv ==
    /\ Sound
    /\ SavedSound
    /\ acked = Facts(document)
    /\ up => Knows(Snapshot)
    /\ ExecutionsInv

-----------------------------------------------------------------------------
(* The coordinator's own steps, and the copies between memory and document *)

LEMMA SoundStep ==
    ASSUME Sound, [Next]_vars
    PROVE  Sound'
  BY CoordinatorInvStep, QueueStep, AssignedWorkerStep, SlotsStep DEF Sound

LEMMA SavedCount == \A S : Saved!Cardinality(S) = Cardinality(S)
  BY DEF Cardinality, Saved!Cardinality

LEMMA RestoredIsSound ==
    ASSUME SavedSound, Restore(document)
    PROVE  Sound'
<1> USE DEF SavedSound, Restore, RestoreLedger, Saved!JobsInStatus, JobsInStatus
<1>1. LedgerTypeOK'
  BY DEF Saved!CoordinatorInv, Saved!LedgerTypeOK, LedgerTypeOK, Saved!Accounts, Accounts,
     Saved!CreditHold, CreditHold, Saved!CreditTransaction, CreditTransaction,
     Saved!EntryType, EntryType, Saved!Source, Source
<1>2. WorkersTypeOK' /\ JobsTypeOK'
  BY DEF Saved!CoordinatorInv, Saved!WorkersTypeOK, WorkersTypeOK, Saved!JobsTypeOK, JobsTypeOK,
     Saved!WorkerNode, WorkerNode, Saved!JobRecord, JobRecord, Saved!JobStatus, JobStatus
<1>3. HoldsMatchOpenJobs' /\ RowsOfKnownJobs'
  BY DEF Saved!CoordinatorInv, Saved!HoldsMatchOpenJobs, HoldsMatchOpenJobs,
     Saved!RowsOfKnownJobs, RowsOfKnownJobs
<1>4. QueueInv'
  BY DEF Saved!QueueInv, QueueInv, Saved!Elements, Elements, Saved!Distinct, Distinct
<1>5. AssignedWorkerKnown'
  BY DEF Saved!AssignedWorkerKnown, AssignedWorkerKnown
<1>6. NoSlotLeaks'
  <2>1. \A w \in DOMAIN workers' : Saved!AssignedTo(w) = AssignedTo(w)'
    BY DEF Saved!AssignedTo, AssignedTo
  <2> QED
    BY <2>1, SavedCount DEF Saved!NoSlotLeaks, NoSlotLeaks
<1> QED
  BY <1>1, <1>2, <1>3, <1>4, <1>5, <1>6 DEF Sound, CoordinatorInv

LEMMA CopyIsSound ==
    ASSUME Sound, document = Snapshot
    PROVE  SavedSound
<1> USE DEF Sound, Saved!JobsInStatus, JobsInStatus
<1>1. /\ document.workers = workers /\ document.jobs = jobs /\ document.queue = queue
      /\ document.ledger = LedgerSnapshot
  BY DEF Snapshot
<1>2. /\ document.ledger.registered = registered /\ document.ledger.available = available
      /\ document.ledger.spent = spent /\ document.ledger.earned = earned
      /\ document.ledger.holds = holds /\ document.ledger.transactions = transactions
      /\ document.ledger.nextEntry = nextEntry
  BY <1>1 DEF LedgerSnapshot
<1>3. Saved!LedgerTypeOK
  BY <1>2 DEF CoordinatorInv, Saved!LedgerTypeOK, LedgerTypeOK, Saved!Accounts, Accounts,
     Saved!CreditHold, CreditHold, Saved!CreditTransaction, CreditTransaction,
     Saved!EntryType, EntryType, Saved!Source, Source
<1>4. Saved!WorkersTypeOK /\ Saved!JobsTypeOK
  BY <1>1 DEF CoordinatorInv, Saved!WorkersTypeOK, WorkersTypeOK, Saved!JobsTypeOK, JobsTypeOK,
     Saved!WorkerNode, WorkerNode, Saved!JobRecord, JobRecord, Saved!JobStatus, JobStatus
<1>5. Saved!HoldsMatchOpenJobs /\ Saved!RowsOfKnownJobs
  BY <1>1, <1>2 DEF CoordinatorInv, Saved!HoldsMatchOpenJobs, HoldsMatchOpenJobs,
     Saved!RowsOfKnownJobs, RowsOfKnownJobs
<1>6. Saved!QueueInv
  BY <1>1 DEF Saved!QueueInv, QueueInv, Saved!Elements, Elements, Saved!Distinct, Distinct
<1>7. Saved!AssignedWorkerKnown
  BY <1>1 DEF Saved!AssignedWorkerKnown, AssignedWorkerKnown
<1>8. Saved!NoSlotLeaks
  <2>1. \A w \in DOMAIN workers : Saved!AssignedTo(w) = AssignedTo(w)
    BY <1>1 DEF Saved!AssignedTo, AssignedTo
  <2> QED
    BY <1>1, <2>1, SavedCount DEF Saved!NoSlotLeaks, NoSlotLeaks
<1> QED
  BY <1>3, <1>4, <1>5, <1>6, <1>7, <1>8 DEF SavedSound, Saved!CoordinatorInv

LEMMA WrittenIsSound == Sound' /\ Written => SavedSound'
<1>1. Sound /\ document = Snapshot => SavedSound
  BY CopyIsSound
<1>2. Written => (document = Snapshot)'
  BY DEF Written
<1> QED
  BY <1>1, <1>2, PTL

LEMMA SavedUntouched ==
    ASSUME SavedSound, UNCHANGED document
    PROVE  SavedSound'
<1>1. Saved!CoordinatorInv'
  BY DEF SavedSound, Saved!CoordinatorInv, Saved!LedgerTypeOK, Saved!WorkersTypeOK,
     Saved!JobsTypeOK, Saved!HoldsMatchOpenJobs, Saved!RowsOfKnownJobs, Saved!JobsInStatus
<1>2. Saved!QueueInv'
  BY DEF SavedSound, Saved!QueueInv, Saved!JobsInStatus
<1>3. Saved!AssignedWorkerKnown' /\ Saved!NoSlotLeaks'
  BY DEF SavedSound, Saved!AssignedWorkerKnown, Saved!NoSlotLeaks, Saved!AssignedTo,
     Saved!JobsInStatus
<1> QED
  BY <1>1, <1>2, <1>3 DEF SavedSound

-----------------------------------------------------------------------------
(* What the calls of the service do to jobs and rows *)

(* A result of a job that is open, whatever it says.                       *)
FirstResult(job) ==
    \/ FailJob(job)
    \/ SelfServedJob(job)
    \/ \E cost \in Prices : SettleJob(job, cost)

(* The job keeps its status and its worker.                                *)
Stays(job) ==
    /\ job \in DOMAIN jobs'
    /\ jobs'[job].status = jobs[job].status
    /\ jobs'[job].worker = jobs[job].worker

LEMMA OtherJobStays ==
    ASSUME NEW job, JobUpdated(job), NEW j \in DOMAIN jobs, j # job
    PROVE  Stays(j)
  BY DEF JobUpdated, Stays

LEMMA FirstResultClosesOne ==
    ASSUME CoordinatorInv, NEW job \in JobIds, FirstResult(job)
    PROVE  /\ JobClosed(job)
           /\ job \in DOMAIN holds
           /\ job \in DOMAIN jobs
<1>1. JobClosed(job)
  BY FailEdit, SelfServedEdit, SettleEdit DEF FirstResult, CoordinatorInv
<1>2. job \in DOMAIN holds
  BY DEF FirstResult, FailJob, SelfServedJob, SettleJob, Release, Settle
<1> QED
  BY <1>1, <1>2 DEF CoordinatorInv, HoldsMatchOpenJobs, JobsInStatus

LEMMA ClaimTakesOne ==
    ASSUME CoordinatorInv, NEW worker \in Workers, NEW allowOwn, NEW k \in 1 .. Len(queue),
           ClaimJobForWorker(worker, allowOwn, k)
    PROVE  /\ queue[k] \in DOMAIN jobs /\ jobs[queue[k]].status = "queued"
           /\ JobUpdated(queue[k])
           /\ jobs'[queue[k]].status = "assigned" /\ jobs'[queue[k]].worker = worker
<1>1. PICK job : job = queue[k]
  OBVIOUS
<1>2. job \in DOMAIN jobs /\ jobs[job].status = "queued" /\ Assign(job, worker)
  BY <1>1 DEF ClaimJobForWorker, CanClaim, IsQueued
<1> QED
  BY <1>1, <1>2, AssignEdit DEF CoordinatorInv

(* A call that is no first result leaves a job that has a worker alone.    *)
LEMMA SavedCallKeepsTaken ==
    ASSUME CoordinatorInv, AssignedWorkerKnown, SavedCall,
           NEW taken \in DOMAIN jobs, jobs[taken].worker # NoWorker
    PROVE  Stays(taken)
<1>1. jobs[taken].status # "queued"
  BY DEF AssignedWorkerKnown
<1>2. CASE UNCHANGED jobs
  BY <1>2 DEF Stays
<1>3. ASSUME NEW job, NEW user, NEW selector, NEW reserved, SubmitJob(job, user, selector, reserved)
      PROVE  Stays(taken)
  BY <1>3 DEF SubmitJob, With, Stays
<1>4. ASSUME NEW job \in JobIds, CancelQueuedJob(job)
      PROVE  Stays(taken)
  <2>1. JobUpdated(job) /\ jobs[job].status = "queued"
    BY <1>4, CancelEdit DEF CancelQueuedJob, IsQueued, JobClosed
  <2> QED
    BY <1>1, <2>1, OtherJobStays
<1>5. ASSUME NEW job \in JobIds, NEW selector \in Selectors, RerouteQueuedJob(job, selector)
      PROVE  Stays(taken)
  <2>1. JobUpdated(job) /\ jobs[job].status = "queued"
    BY <1>5, RerouteEdit DEF CoordinatorInv
  <2> QED
    BY <1>1, <2>1, OtherJobStays
<1> QED
  BY <1>2, <1>3, <1>4, <1>5
  DEF SavedCall, LedgerCall, coordinatorVars, RegisterWorker, StopWorker, RestartFailedJob

LEMMA ClaimKeepsTaken ==
    ASSUME CoordinatorInv, AssignedWorkerKnown, NEW worker \in Workers, NEW allowOwn,
           NEW k \in 1 .. Len(queue), ClaimJobForWorker(worker, allowOwn, k),
           NEW taken \in DOMAIN jobs, jobs[taken].worker # NoWorker
    PROVE  Stays(taken) /\ taken # queue[k]
<1>1. jobs[taken].status # "queued"
  BY DEF AssignedWorkerKnown
<1> QED
  BY <1>1, ClaimTakesOne, OtherJobStays

LEMMA LateResultKeepsTaken ==
    ASSUME CoordinatorInv, NEW job \in JobIds, NEW result \in {"verified", "failed"},
           LateResult(job, result), NEW taken \in DOMAIN jobs
    PROVE  Stays(taken)
<1>1. JobUpdated(job) /\ jobs'[job].worker = jobs[job].worker
      /\ jobs'[job].status = jobs[job].status /\ job \in DOMAIN jobs
  BY LateEdit DEF CoordinatorInv, Settlement
<1> QED
  BY <1>1, OtherJobStays DEF JobUpdated, Stays

(* Every call of the service is a step of the coordinator. *)
LEMMA ServiceCallIsStep ==
    ASSUME ServiceCall, executing \subseteq Execution
    PROVE  [Next]_vars
<1>1. CASE SavedCall
  BY <1>1 DEF SavedCall, Next, WorkerStep, JobStep
<1>2. ASSUME NEW worker \in Workers, NEW allowOwn \in BOOLEAN, NEW k \in 1 .. Len(queue),
             RemoteClaim(worker, allowOwn, k) \/ CycleClaim(worker, allowOwn, k)
      PROVE  [Next]_vars
  BY <1>2 DEF RemoteClaim, CycleClaim, Next, WorkerStep
<1>3. ASSUME NEW worker \in Workers, NEW allowOwn \in BOOLEAN, EmptyPoll(worker, allowOwn)
      PROVE  [Next]_vars
  BY <1>3 DEF EmptyPoll, Next, WorkerStep
<1>4. ASSUME NEW x \in executing, Result(x)
      PROVE  [Next]_vars
  BY <1>4 DEF Result, Next, JobStep, Execution
<1>5. ASSUME NEW job \in JobIds, NEW result \in {"verified", "failed"}, RepeatedResult(job, result)
      PROVE  [Next]_vars
  BY <1>5 DEF RepeatedResult, Next, JobStep
<1> QED
  BY <1>1, <1>2, <1>3, <1>4, <1>5 DEF ServiceCall

(* It saves the whole of the memory, or leaves document and answers alone. *)
LEMMA ServiceCallSaves ==
    ASSUME ServiceCall
    PROVE  Written \/ UNCHANGED <<document, acked>>
  BY DEF ServiceCall, SavedCall, RemoteClaim, CycleClaim, EmptyPoll, Result, RepeatedResult,
     Persist, NotWritten

-----------------------------------------------------------------------------
(* What has been answered stays true *)

LEMMA SettledRowsStay ==
    ASSUME [LedgerNext]_ledgerVars, NEW t \in transactions, ~t.pending
    PROVE  t \in transactions'
  BY DEF LedgerNext, ledgerVars, RegisterUser, Bootstrap, Purchase, AdminAdjust, Record,
     LedgerReserve, Reserve, LedgerRelease, Release, LedgerSettle, Settle,
     WithoutPending, IsPendingReservation

LEMMA WorkerOfTakenStays ==
    ASSUME CoordinatorInv, AssignedWorkerKnown, executing \subseteq Execution, ServiceCall,
           NEW taken \in DOMAIN jobs, jobs[taken].worker # NoWorker
    PROVE  taken \in DOMAIN jobs' /\ jobs'[taken].worker = jobs[taken].worker
<1>1. CASE SavedCall
  BY <1>1, SavedCallKeepsTaken DEF Stays
<1>2. ASSUME NEW worker \in Workers, NEW allowOwn \in BOOLEAN, NEW k \in 1 .. Len(queue),
             RemoteClaim(worker, allowOwn, k) \/ CycleClaim(worker, allowOwn, k)
      PROVE  Stays(taken)
  BY <1>2, ClaimKeepsTaken DEF RemoteClaim, CycleClaim
<1>3. ASSUME NEW worker \in Workers, NEW allowOwn \in BOOLEAN, EmptyPoll(worker, allowOwn)
      PROVE  Stays(taken)
  BY <1>3 DEF EmptyPoll, ClaimNothing, Stays
<1>4. ASSUME NEW x \in executing, Result(x)
      PROVE  taken \in DOMAIN jobs' /\ jobs'[taken].worker = jobs[taken].worker
  <2>1. x.job \in JobIds /\ FirstResult(x.job)
    BY <1>4 DEF Result, FirstResult, Execution
  <2>2. JobClosed(x.job)
    BY <2>1, FirstResultClosesOne
  <2> QED
    BY <2>2 DEF JobClosed, JobUpdated
<1>5. ASSUME NEW job \in JobIds, NEW result \in {"verified", "failed"}, RepeatedResult(job, result)
      PROVE  Stays(taken)
  BY <1>5, LateResultKeepsTaken DEF RepeatedResult
<1> QED
  BY <1>1, <1>2, <1>3, <1>4, <1>5 DEF ServiceCall, Stays

(* A running server learns facts and forgets none.                         *)
LEMMA FactsGrow ==
    ASSUME Sound, executing \subseteq Execution, ServiceCall, Knows(Snapshot), UNCHANGED acked
    PROVE  Knows(Snapshot)'
<1> USE DEF Sound
<1>1. [Next]_vars
  BY ServiceCallIsStep
<1>2. /\ acked.rows \subseteq {t \in transactions : ~t.pending}
      /\ acked.closed \subseteq {<<j, jobs[j].status>> : j \in {i \in DOMAIN jobs : jobs[i].status \in Terminal}}
      /\ acked.claims \subseteq {<<j, jobs[j].worker>> : j \in {i \in DOMAIN jobs : jobs[i].worker # NoWorker}}
  BY DEF Knows, Facts, Snapshot, LedgerSnapshot
<1>3. acked.rows \subseteq {t \in transactions' : ~t.pending}
  BY <1>1, <1>2, CoordinatorStepIsLedgerStep, SettledRowsStay
<1>4. ASSUME NEW fact \in acked.closed
      PROVE  fact \in {<<j, jobs'[j].status>> : j \in {i \in DOMAIN jobs' : jobs'[i].status \in Terminal}}
  <2>1. PICK j \in DOMAIN jobs : jobs[j].status \in Terminal /\ fact = <<j, jobs[j].status>>
    BY <1>2, <1>4
  <2>2. Unaltered(j)
    BY <1>1, <2>1, ClosedJobStep DEF JobsInStatus
  <2>3. j \in DOMAIN jobs' /\ jobs'[j].status = jobs[j].status
    BY <2>2 DEF Unaltered, Settlement
  <2> QED
    BY <2>1, <2>3
<1>5. ASSUME NEW fact \in acked.claims
      PROVE  fact \in {<<j, jobs'[j].worker>> : j \in {i \in DOMAIN jobs' : jobs'[i].worker # NoWorker}}
  <2>1. PICK j \in DOMAIN jobs : jobs[j].worker # NoWorker /\ fact = <<j, jobs[j].worker>>
    BY <1>2, <1>5
  <2>2. j \in DOMAIN jobs' /\ jobs'[j].worker = jobs[j].worker
    BY <2>1, WorkerOfTakenStays
  <2> QED
    BY <2>1, <2>2
<1> QED
  BY <1>3, <1>4, <1>5 DEF Knows, Facts, Snapshot, LedgerSnapshot

-----------------------------------------------------------------------------
(* Executions *)

(* An execution that goes on across a step is assigned after it as before, *)
(* in the document too.                                                    *)
LEMMA GoesOn ==
    ASSUME ExecutionsInv, up, NEW x \in executing, Stays(x.job),
           Written \/ UNCHANGED document
    PROVE  Runs(x)' /\ (x.place # "server" => SavedRuns(x)')
<1>1. Runs(x)'
  BY DEF ExecutionsInv, Runs, JobsInStatus, Stays
<1>2. CASE Written
  BY <1>1, <1>2 DEF Written, Snapshot, Runs, SavedRuns, Saved!JobsInStatus, JobsInStatus
<1>3. CASE UNCHANGED document
  BY <1>1, <1>3 DEF ExecutionsInv, SavedRuns, Saved!JobsInStatus
<1> QED
  BY <1>1, <1>2, <1>3

LEMMA RunningIsTaken ==
    ASSUME CoordinatorInv, ExecutionsInv, up, NEW x \in executing
    PROVE  /\ x.job \in DOMAIN jobs /\ jobs[x.job].status = "assigned"
           /\ jobs[x.job].worker = x.worker /\ jobs[x.job].worker # NoWorker
           /\ x.job \in DOMAIN holds
<1>1. x.job \in DOMAIN jobs /\ jobs[x.job].status = "assigned" /\ jobs[x.job].worker = x.worker
  BY DEF ExecutionsInv, Runs, JobsInStatus
<1>2. x.worker # NoWorker
  BY CoordinatorAssumption DEF ExecutionsInv, Execution
<1> QED
  BY <1>1, <1>2 DEF CoordinatorInv, HoldsMatchOpenJobs, JobsInStatus

(* Executions that all go on, and one more or fewer.                       *)
LEMMA ExecutionsGoOn ==
    ASSUME ExecutionsInv, up, up', executing' \subseteq executing,
           \A x \in executing' : Stays(x.job),
           Written \/ UNCHANGED document
    PROVE  ExecutionsInv'
<1>1. \A x \in executing' : Runs(x)' /\ (x.place # "server" => SavedRuns(x)')
  BY GoesOn
<1> QED
  BY <1>1 DEF ExecutionsInv

LEMMA ClaimKeepsExecutions ==
    ASSUME CoordinatorInv, AssignedWorkerKnown, ExecutionsInv, up, up',
           NEW worker \in Workers, NEW allowOwn, NEW k \in 1 .. Len(queue), NEW place,
           ClaimJobForWorker(worker, allowOwn, k),
           \/ Written /\ place = "daemon"
           \/ UNCHANGED document /\ place = "server",
           executing' = executing \cup {[worker |-> worker, job |-> queue[k], place |-> place]}
    PROVE  ExecutionsInv'
<1>1. PICK job : job = queue[k]
  OBVIOUS
<1>2. job \in DOMAIN jobs /\ JobUpdated(job)
      /\ jobs'[job].status = "assigned" /\ jobs'[job].worker = worker
  BY <1>1, ClaimTakesOne
<1>3. job \in JobIds
  BY <1>2 DEF CoordinatorInv, JobsTypeOK
<1>4. PICK new : new = [worker |-> worker, job |-> job, place |-> place]
  OBVIOUS
<1>5. /\ executing' = executing \cup {new} /\ new \in Execution
      /\ new.worker = worker /\ new.job = job /\ new.place = place
  BY <1>1, <1>3, <1>4 DEF Execution
<1>6. Runs(new)' /\ (place # "server" => SavedRuns(new)')
  <2>1. Runs(new)'
    BY <1>2, <1>5 DEF Runs, JobsInStatus, JobUpdated
  <2>2. ASSUME Written PROVE SavedRuns(new)'
    BY <2>1, <2>2 DEF Written, Snapshot, Runs, SavedRuns, Saved!JobsInStatus, JobsInStatus
  <2> QED
    BY <2>1, <2>2
<1>7. \A x \in executing : /\ x.job # job
                           /\ Runs(x)' /\ (x.place # "server" => SavedRuns(x)')
  BY <1>1, RunningIsTaken, ClaimKeepsTaken, GoesOn
<1> QED
  BY <1>5, <1>6, <1>7 DEF ExecutionsInv

LEMMA ServiceCallKeepsExecutions ==
    ASSUME Sound, ExecutionsInv, up, up', ServiceCall
    PROVE  ExecutionsInv'
<1> USE DEF Sound
<1>1. ASSUME UNCHANGED executing, Written \/ UNCHANGED document, \A x \in executing : Stays(x.job)
      PROVE  ExecutionsInv'
  BY <1>1, ExecutionsGoOn
<1>2. CASE SavedCall
  <2>1. UNCHANGED executing /\ (Written \/ UNCHANGED document)
    BY <1>2 DEF SavedCall, Persist, NotWritten
  <2> QED
    BY <1>1, <1>2, <2>1, RunningIsTaken, SavedCallKeepsTaken
<1>3. ASSUME NEW worker \in Workers, NEW allowOwn \in BOOLEAN, NEW k \in 1 .. Len(queue),
             RemoteClaim(worker, allowOwn, k)
      PROVE  ExecutionsInv'
  <2>1. CASE Written /\ executing' = executing \cup
                 {[worker |-> worker, job |-> queue[k], place |-> "daemon"]}
    BY <1>3, <2>1, ClaimKeepsExecutions DEF RemoteClaim
  <2>2. CASE NotWritten /\ UNCHANGED executing
    BY <1>1, <1>3, <2>2, RunningIsTaken, ClaimKeepsTaken DEF RemoteClaim, NotWritten
  <2> QED
    BY <1>3, <2>1, <2>2 DEF RemoteClaim
<1>4. ASSUME NEW worker \in Workers, NEW allowOwn \in BOOLEAN, NEW k \in 1 .. Len(queue),
             CycleClaim(worker, allowOwn, k)
      PROVE  ExecutionsInv'
  BY <1>4, ClaimKeepsExecutions DEF CycleClaim
<1>5. ASSUME NEW worker \in Workers, NEW allowOwn \in BOOLEAN, EmptyPoll(worker, allowOwn)
      PROVE  ExecutionsInv'
  BY <1>1, <1>5, RunningIsTaken DEF EmptyPoll, ClaimNothing, Stays
<1>6. ASSUME NEW x \in executing, Result(x)
      PROVE  ExecutionsInv'
  <2>1. x.job \in JobIds /\ FirstResult(x.job) /\ executing' = executing \ {x}
        /\ (Written \/ UNCHANGED document)
    BY <1>6 DEF Result, FirstResult, ExecutionsInv, Execution, Persist, NotWritten
  <2>2. JobUpdated(x.job)
    BY <2>1, FirstResultClosesOne DEF JobClosed
  <2>3. \A y \in executing' : Stays(y.job)
    BY <2>1, <2>2, OtherJobStays, RunningIsTaken DEF ExecutionsInv
  <2> QED
    BY <2>1, <2>3, ExecutionsGoOn
<1>7. ASSUME NEW job \in JobIds, NEW result \in {"verified", "failed"}, RepeatedResult(job, result)
      PROVE  ExecutionsInv'
  BY <1>1, <1>7, RunningIsTaken, LateResultKeepsTaken DEF RepeatedResult
<1> QED
  BY <1>2, <1>3, <1>4, <1>5, <1>6, <1>7 DEF ServiceCall

-----------------------------------------------------------------------------
(* Every step of the recovering service *)

LEMMA InitIsSound == Init => Sound
<1>1. Init => QueueInv /\ AssignedWorkerKnown /\ NoSlotLeaks
  BY QueueInvInit DEF Init, EmptyDict, AssignedWorkerKnown, NoSlotLeaks
<1> QED
  BY <1>1, CoordinatorInvInit DEF Sound

LEMMA EmptyIsInit ==
    ASSUME Restore(EmptySnapshot)
    PROVE  Init'
  BY DEF Restore, RestoreLedger, EmptySnapshot, NoCredits, Init, LedgerInit

LEMMA EmptyIsSound == Restore(EmptySnapshot) => Sound'
<1>1. Restore(EmptySnapshot) => Init'
  BY EmptyIsInit
<1> QED
  BY <1>1, InitIsSound, PTL

LEMMA RecoveryInvInit == RecoveryInit => RecoveryInv
<1> SUFFICES ASSUME RecoveryInit PROVE RecoveryInv
  OBVIOUS
<1>1. Sound
  BY InitIsSound DEF RecoveryInit
<1>2. document = Snapshot
  BY DEF RecoveryInit, Init, LedgerInit, EmptySnapshot, NoCredits, Snapshot, LedgerSnapshot
<1>3. acked = Facts(document) /\ ExecutionsInv
  BY DEF RecoveryInit, ExecutionsInv
<1> QED
  BY <1>1, <1>2, <1>3, CopyIsSound DEF RecoveryInv, Knows

LEMMA CallKeepsInv ==
    ASSUME RecoveryInv, up, up', ServiceCall
    PROVE  RecoveryInv'
<1> USE DEF RecoveryInv
<1>1. executing \subseteq Execution
  BY DEF ExecutionsInv
<1>2. Sound'
  BY <1>1, ServiceCallIsStep, SoundStep
<1>3. ExecutionsInv'
  BY ServiceCallKeepsExecutions
<1>4. CASE Written
  <2>1. acked' = Facts(document)' /\ document' = Snapshot'
    BY <1>4 DEF Written, Facts
  <2>2. Knows(Snapshot)'
    BY <1>4 DEF Written, Facts, Knows
  <2> QED
    BY <1>2, <1>3, <1>4, <2>1, <2>2, WrittenIsSound
<1>5. CASE UNCHANGED <<document, acked>>
  <2>1. acked' = Facts(document)'
    BY <1>5 DEF Facts
  <2> QED
    BY <1>1, <1>2, <1>3, <1>5, <2>1, SavedUntouched, FactsGrow
<1> QED
  BY <1>4, <1>5, ServiceCallSaves

LEMMA AbandonKeepsInv ==
    ASSUME RecoveryInv, NEW x \in executing, Abandon(x)
    PROVE  RecoveryInv'
<1>1. UNCHANGED <<vars, document, acked, up>> /\ executing' = executing \ {x}
  BY DEF Abandon
<1>2. Sound'
  BY <1>1, SoundStep DEF RecoveryInv
<1>3. SavedSound' /\ acked' = Facts(document)'
  BY <1>1, SavedUntouched DEF RecoveryInv, Facts
<1>4. up' => Knows(Snapshot)'
  BY <1>1 DEF RecoveryInv, Knows, Facts, Snapshot, LedgerSnapshot, vars, ledgerVars, coordinatorVars
<1>5. ExecutionsInv'
  BY <1>1 DEF RecoveryInv, ExecutionsInv, Runs, SavedRuns, JobsInStatus, Saved!JobsInStatus,
              vars, coordinatorVars
<1> QED
  BY <1>2, <1>3, <1>4, <1>5 DEF RecoveryInv

LEMMA CrashKeepsInv ==
    ASSUME RecoveryInv, Crash
    PROVE  RecoveryInv'
<1>1. /\ UNCHANGED <<document, acked>> /\ up /\ ~up' /\ Restore(EmptySnapshot)
      /\ executing' = {x \in executing : x.place = "daemon"}
  BY DEF Crash
<1>2. Sound'
  BY <1>1, EmptyIsSound
<1>3. SavedSound' /\ acked' = Facts(document)'
  BY <1>1, SavedUntouched DEF RecoveryInv, Facts
<1>4. ExecutionsInv'
  BY <1>1 DEF RecoveryInv, ExecutionsInv, SavedRuns, Saved!JobsInStatus
<1> QED
  BY <1>1, <1>2, <1>3, <1>4 DEF RecoveryInv

LEMMA RestartKeepsInv ==
    ASSUME RecoveryInv, Restart
    PROVE  RecoveryInv'
<1>1. UNCHANGED <<document, acked, executing>> /\ ~up /\ up' /\ Restore(document)
  BY DEF Restart
<1>2. Sound'
  BY <1>1, RestoredIsSound DEF RecoveryInv
<1>3. SavedSound' /\ acked' = Facts(document)'
  BY <1>1, SavedUntouched DEF RecoveryInv, Facts
<1>4. Knows(Snapshot)'
  BY <1>1, <1>3 DEF Knows, Facts, Snapshot, LedgerSnapshot, Restore, RestoreLedger
<1>5. ExecutionsInv'
  BY <1>1 DEF RecoveryInv, ExecutionsInv, Runs, SavedRuns, JobsInStatus, Saved!JobsInStatus, Restore
<1> QED
  BY <1>2, <1>3, <1>4, <1>5 DEF RecoveryInv

LEMMA RecoveryInvHolds == RecoverySpec => []RecoveryInv
<1>1. RecoveryInv /\ [RecoveryNext]_servedVars => RecoveryInv'
  <2> SUFFICES ASSUME RecoveryInv, [RecoveryNext]_servedVars PROVE RecoveryInv'
    OBVIOUS
  <2>1. CASE up /\ ServiceCall /\ UNCHANGED up
    BY <2>1, CallKeepsInv
  <2>2. CASE UNCHANGED servedVars
    <3>1. UNCHANGED <<vars, document, acked, up, executing>>
      BY <2>2 DEF servedVars, recoveryVars
    <3>2. Sound'
      BY <3>1, SoundStep DEF RecoveryInv
    <3>3. SavedSound' /\ acked' = Facts(document)'
      BY <3>1, SavedUntouched DEF RecoveryInv, Facts
    <3>4. up' => Knows(Snapshot)'
      BY <3>1 DEF RecoveryInv, Knows, Facts, Snapshot, LedgerSnapshot, vars, ledgerVars,
                  coordinatorVars
    <3>5. ExecutionsInv'
      BY <3>1 DEF RecoveryInv, ExecutionsInv, Runs, SavedRuns, JobsInStatus, Saved!JobsInStatus,
                  vars, coordinatorVars
    <3> QED
      BY <3>2, <3>3, <3>4, <3>5 DEF RecoveryInv
  <2> QED
    BY <2>1, <2>2, AbandonKeepsInv, CrashKeepsInv, RestartKeepsInv DEF RecoveryNext
<1> QED
  BY <1>1, RecoveryInvInit, PTL DEF RecoverySpec

-----------------------------------------------------------------------------

(* Whatever a client was answered - rows that are final, jobs that are     *)
(* closed, claims - is in the document, through failing saves, crashes and *)
(* restarts, and a server that runs still knows it (service.py,            *)
(* _persist_locked and _load_state).                                       *)
THEOREM AnswersAlwaysSurvive == RecoverySpec => []AnswersSurvive
<1>1. RecoveryInv => AnswersSurvive
  BY DEF RecoveryInv, AnswersSurvive, Knows
<1> QED
  BY <1>1, RecoveryInvHolds, PTL

(* While a server runs, every execution - on another machine since before  *)
(* the last crash, or in a thread of this server - is of an assigned job,  *)
(* by the worker it is assigned to, with its hold in place, and no job is  *)
(* executed twice (service.py:225, 1068).                                  *)
THEOREM ExecutionsAlwaysAssigned == RecoverySpec => []ExecutionsAreAssigned
<1>1. RecoveryInv => ExecutionsAreAssigned
  BY RunningIsTaken DEF RecoveryInv, Sound, ExecutionsInv, ExecutionsAreAssigned, JobsInStatus
<1> QED
  BY <1>1, RecoveryInvHolds, PTL

(* The state a server serves is one the coordinator can be in, the first   *)
(* one after a restart included: the queue, the holds, the assignments and *)
(* the slots agree with the jobs.                                          *)
THEOREM ServedStateAlwaysSound == RecoverySpec => []ServedStateIsSound
<1>1. RecoveryInv => ServedStateIsSound
  BY QueueInvMeaning DEF RecoveryInv, Sound, ServedStateIsSound, CoordinatorInv
<1> QED
  BY <1>1, RecoveryInvHolds, PTL

-----------------------------------------------------------------------------
(* Conversations, for any number of threads, jobs, users and messages, and *)
(* every limit on the context.                                             *)
(*                                                                         *)
(* Every call of the service is a call of the coordinator inside, or none  *)
(* (ConversationsImplementCoordinator), so holds tell a first result from  *)
(* a repeated one.  The inductive invariant ConversationsInv follows each  *)
(* job to its thread: what is said of it there is its prompt and, once it  *)
(* completed or failed, its answer.  Messages are only ever appended, and  *)
(* the lemmas on sequences say what an append changes of that.             *)

Answered == {"completed", "failed"}

ThreadMessage ==
    [role : {"user", "assistant"}, job : JobIds, status : {"none"} \cup JobStatus]

Thread == [user : Users, archived : BOOLEAN, messages : Seq(ThreadMessage)]

(* Where a sequence of messages speaks of a job. *)
Said(messages, role, job) ==
    {i \in 1 .. Len(messages) : messages[i].role = role /\ messages[i].job = job}

(* A job's prompt is in the messages once, and its answer once after it if *)
(* the job is answered.                                                    *)
Told(messages, job, status) ==
    \E p \in 1 .. Len(messages) :
        /\ Said(messages, "user", job) = {p}
        /\ IF status \in Answered
           THEN \E i \in 1 .. Len(messages) :
                  /\ Said(messages, "assistant", job) = {i}
                  /\ p < i
                  /\ messages[i].status = status
           ELSE Said(messages, "assistant", job) = {}

(* The turns and contexts in f are the ones the messages show. *)
Numbered(messages, f) ==
    \A i \in 1 .. Len(messages) :
        messages[i].role = "user" =>
            /\ f[messages[i].job].turn = Cardinality(By("user", SubSeq(messages, 1, i)))
            /\ f[messages[i].job].context = Context(SubSeq(messages, 1, i - 1))

JobsTold ==
    \A job \in DOMAIN jobs :
        /\ turns[job].conversation \in DOMAIN threads
        /\ Told(threads[turns[job].conversation].messages, job, jobs[job].status)

ConversationsInv ==
    /\ DOMAIN turns = DOMAIN jobs
    /\ \A c \in DOMAIN threads : threads[c] \in Thread
    /\ JobsTold
    /\ MessagesHaveJobs
    /\ TurnsFollowThread

-----------------------------------------------------------------------------
(* What an append changes *)

LEMMA Appended ==
    ASSUME NEW messages \in Seq(ThreadMessage), NEW m \in ThreadMessage
    PROVE  /\ Append(messages, m) \in Seq(ThreadMessage)
           /\ Len(messages) \in Nat
           /\ Len(Append(messages, m)) = Len(messages) + 1
           /\ \A i \in 1 .. Len(messages) : Append(messages, m)[i] = messages[i]
           /\ Append(messages, m)[Len(messages) + 1] = m
           /\ 1 .. Len(messages) + 1 = (1 .. Len(messages)) \cup {Len(messages) + 1}
           /\ Len(messages) + 1 \notin 1 .. Len(messages)
  OBVIOUS

LEMMA SaidAppended ==
    ASSUME NEW messages \in Seq(ThreadMessage), NEW m \in ThreadMessage, NEW role, NEW job
    PROVE  /\ m.role = role /\ m.job = job
                => Said(Append(messages, m), role, job)
                     = Said(messages, role, job) \cup {Len(messages) + 1}
           /\ ~(m.role = role /\ m.job = job)
                => Said(Append(messages, m), role, job) = Said(messages, role, job)
  BY Appended DEF Said

LEMMA ToldStays ==
    ASSUME NEW messages \in Seq(ThreadMessage), NEW m \in ThreadMessage, NEW job, NEW status,
           m.job # job, Told(messages, job, status)
    PROVE  Told(Append(messages, m), job, status)
<1>1. ASSUME NEW role
      PROVE  Said(Append(messages, m), role, job) = Said(messages, role, job)
  BY SaidAppended
<1>2. \A i \in 1 .. Len(messages) :
        i \in 1 .. Len(Append(messages, m)) /\ Append(messages, m)[i] = messages[i]
  BY Appended
<1> QED
  BY <1>1, <1>2 DEF Told

LEMMA ToldFirst ==
    ASSUME NEW messages \in Seq(ThreadMessage), NEW m \in ThreadMessage, NEW job, NEW status,
           m.role = "user", m.job = job, status \notin Answered,
           \A i \in 1 .. Len(messages) : messages[i].job # job
    PROVE  Told(Append(messages, m), job, status)
<1>1. \A role : Said(messages, role, job) = {}
  BY DEF Said
<1>2. /\ Said(Append(messages, m), "user", job) = {Len(messages) + 1}
      /\ Said(Append(messages, m), "assistant", job) = {}
  <2>1. Said(Append(messages, m), "user", job)
          = Said(messages, "user", job) \cup {Len(messages) + 1}
    BY SaidAppended
  <2>2. m.role # "assistant"
    OBVIOUS
  <2>3. Said(Append(messages, m), "assistant", job) = Said(messages, "assistant", job)
    BY <2>2, SaidAppended
  <2> QED
    BY <1>1, <2>1, <2>3
<1>3. Len(messages) + 1 \in 1 .. Len(Append(messages, m))
  BY Appended
<1> QED
  BY <1>2, <1>3 DEF Told

LEMMA ToldAnswer ==
    ASSUME NEW messages \in Seq(ThreadMessage), NEW m \in ThreadMessage, NEW job, NEW old,
           m.role = "assistant", m.job = job, m.status \in Answered, old \notin Answered,
           Told(messages, job, old)
    PROVE  Told(Append(messages, m), job, m.status)
<1> DEFINE n == Len(messages) + 1
<1>1. PICK p \in 1 .. Len(messages) :
        Said(messages, "user", job) = {p} /\ Said(messages, "assistant", job) = {}
  BY DEF Told
<1>2. /\ Said(Append(messages, m), "user", job) = {p}
      /\ Said(Append(messages, m), "assistant", job) = {n}
  <2>1. /\ Said(Append(messages, m), "user", job) = Said(messages, "user", job)
        /\ Said(Append(messages, m), "assistant", job)
             = Said(messages, "assistant", job) \cup {n}
    BY SaidAppended
  <2> QED
    BY <1>1, <2>1
<1>3. /\ p \in 1 .. Len(Append(messages, m)) /\ n \in 1 .. Len(Append(messages, m))
      /\ p < n /\ Append(messages, m)[n] = m
  BY Appended
<1> QED
  BY <1>2, <1>3 DEF Told

LEMMA ToldUnanswered ==
    ASSUME NEW messages, NEW job, NEW old, NEW new, Told(messages, job, old),
           old = new \/ (old \notin Answered /\ new \notin Answered)
    PROVE  Told(messages, job, new)
  BY DEF Told

LEMMA ByAppended ==
    ASSUME NEW messages \in Seq(ThreadMessage), NEW m \in ThreadMessage, m.role = "user"
    PROVE  Cardinality(By("user", Append(messages, m))) = 1 + Cardinality(By("user", messages))
<1>1. By("user", Append(messages, m)) = By("user", messages) \cup {Len(messages) + 1}
  BY Appended DEF By
<1>2. Len(messages) + 1 \notin By("user", messages)
  BY Appended DEF By
<1>3. By("user", messages) \subseteq 1 .. Len(messages) /\ IsFiniteSet(1 .. Len(messages))
  BY Appended, FS_Interval DEF By
<1>4. IsFiniteSet(By("user", messages))
  BY <1>3, FS_Subset
<1>5. Cardinality(By("user", messages)) \in Nat
  BY <1>4, FS_CardinalityType
<1>6. Cardinality(By("user", messages) \cup {Len(messages) + 1})
        = Cardinality(By("user", messages)) + 1
  BY <1>2, <1>4, FS_AddElement
<1>7. Cardinality(By("user", messages)) + 1 = 1 + Cardinality(By("user", messages))
  BY <1>5
<1> QED
  BY <1>1, <1>6, <1>7, Zenon

LEMMA PrefixAppended ==
    ASSUME NEW messages \in Seq(ThreadMessage), NEW m \in ThreadMessage,
           NEW i \in 0 .. Len(messages)
    PROVE  SubSeq(Append(messages, m), 1, i) = SubSeq(messages, 1, i)
  OBVIOUS

LEMMA WholeSequence ==
    ASSUME NEW messages \in Seq(ThreadMessage)
    PROVE  SubSeq(messages, 1, Len(messages)) = messages
  OBVIOUS

LEMMA NumberedAppended ==
    ASSUME NEW messages \in Seq(ThreadMessage), NEW m \in ThreadMessage, NEW f, NEW g,
           Numbered(messages, f), \A i \in 1 .. Len(messages) : g[messages[i].job] = f[messages[i].job],
           m.role = "user" => /\ g[m.job].turn = 1 + Cardinality(By("user", messages))
                              /\ g[m.job].context = Context(messages)
    PROVE  Numbered(Append(messages, m), g)
<1> DEFINE n == Len(messages)
           more == Append(messages, m)
<1>1. /\ n \in Nat /\ Len(more) = n + 1 /\ more \in Seq(ThreadMessage)
      /\ \A i \in 1 .. n : more[i] = messages[i]
      /\ more[n + 1] = m
  BY Appended
<1>2. \A i \in 0 .. n : SubSeq(more, 1, i) = SubSeq(messages, 1, i)
  BY PrefixAppended
<1>3. SubSeq(more, 1, n + 1) = more /\ SubSeq(messages, 1, n) = messages
  BY <1>1, WholeSequence
<1>4. m.role = "user" => Cardinality(By("user", more)) = 1 + Cardinality(By("user", messages))
  BY ByAppended
<1> HIDE DEF more, n
<1> SUFFICES ASSUME NEW i \in 1 .. n + 1, more[i].role = "user"
             PROVE  /\ g[more[i].job].turn = Cardinality(By("user", SubSeq(more, 1, i)))
                    /\ g[more[i].job].context = Context(SubSeq(more, 1, i - 1))
  BY <1>1 DEF Numbered, more
<1>5. CASE i \in 1 .. n
  <2>1. i \in 0 .. n /\ i - 1 \in 0 .. n
    BY <1>1, <1>5
  <2>2. SubSeq(more, 1, i) = SubSeq(messages, 1, i) /\ SubSeq(more, 1, i - 1) = SubSeq(messages, 1, i - 1)
    BY <1>2, <2>1
  <2>3. more[i] = messages[i] /\ g[messages[i].job] = f[messages[i].job]
    BY <1>1, <1>5 DEF n
  <2> QED
    BY <1>5, <2>2, <2>3 DEF Numbered, n
<1>6. CASE i = n + 1
  <2>1. i - 1 = n /\ n \in 0 .. n
    BY <1>1, <1>6
  <2>2. SubSeq(more, 1, i) = more /\ SubSeq(more, 1, i - 1) = messages /\ more[i] = m
    BY <1>1, <1>2, <1>3, <1>6, <2>1
  <2> QED
    BY <1>4, <2>2
<1> QED
  BY <1>1, <1>5, <1>6

-----------------------------------------------------------------------------
(* Every call of the service has a call of the coordinator inside          *)

LEMMA RestartIsPrompt ==
    ASSUME NEW failed, NEW job, NEW reserved, RestartPrompt(failed, job, reserved)
    PROVE  /\ failed \in DOMAIN jobs
           /\ SubmitPrompt(turns[failed].conversation, jobs[failed].requester, job,
                           jobs[failed].selector, reserved)
  BY DEF RestartPrompt, RestartFailedJob, SubmitPrompt

LEMMA ConversationStepIsStep ==
    ASSUME [ConversationsNext]_talkVars
    PROVE  [Next]_vars
<1>1. CASE OtherCall
  BY <1>1 DEF OtherCall, Next, JobStep
<1>2. ASSUME NEW c \in Threads, ThreadStep(c)
      PROVE  [Next]_vars
  BY <1>2 DEF ThreadStep, SubmitPrompt, RefusedPrompt, ArchiveConversation, RestoreConversation,
              Next, JobStep, LedgerCall
<1>3. CASE \E failed, job \in JobIds, reserved \in Prices : RestartPrompt(failed, job, reserved)
  BY <1>3 DEF RestartPrompt, Next, JobStep
<1>4. CASE \E job \in JobIds : CompleteJob(job)
  BY <1>4 DEF CompleteJob, Next, JobStep
<1>5. CASE \E job \in JobIds, result \in {"verified", "failed"} : RepeatedAnswer(job, result)
  BY <1>5 DEF RepeatedAnswer, Next, JobStep
<1>6. CASE UNCHANGED talkVars
  BY <1>6 DEF talkVars
<1> QED
  BY <1>1, <1>2, <1>3, <1>4, <1>5, <1>6 DEF ConversationsNext

-----------------------------------------------------------------------------
(* What the calls do to threads *)

(* Jobs stay their requesters', and as answered as they were. *)
SameAnswers ==
    /\ DOMAIN jobs' = DOMAIN jobs
    /\ \A j \in DOMAIN jobs :
         /\ jobs'[j].requester = jobs[j].requester
         /\ \/ jobs'[j].status = jobs[j].status
            \/ jobs'[j].status \notin Answered /\ jobs[j].status \notin Answered

(* Jobs are as answered as before, and threads say the same.               *)
LEMMA TalkUntouched ==
    ASSUME ConversationsInv, UNCHANGED turns, SameAnswers,
           DOMAIN threads \subseteq DOMAIN threads',
           \A c \in DOMAIN threads' : threads'[c] \in Thread,
           \A c \in DOMAIN threads : /\ threads'[c].user = threads[c].user
                                     /\ threads'[c].messages = threads[c].messages,
           \A c \in DOMAIN threads' \ DOMAIN threads : threads'[c].messages = <<>>
    PROVE  ConversationsInv'
<1> USE DEF SameAnswers
<1>1. JobsTold'
  <2> SUFFICES ASSUME NEW job \in DOMAIN jobs
               PROVE  /\ turns[job].conversation \in DOMAIN threads'
                      /\ Told(threads'[turns[job].conversation].messages, job, jobs'[job].status)
    BY DEF JobsTold
  <2>1. /\ turns[job].conversation \in DOMAIN threads
        /\ Told(threads[turns[job].conversation].messages, job, jobs[job].status)
    BY DEF ConversationsInv, JobsTold
  <2>2. Told(threads[turns[job].conversation].messages, job, jobs'[job].status)
    BY <2>1, ToldUnanswered
  <2> QED
    BY <2>1, <2>2
<1>2. MessagesHaveJobs'
  <2> SUFFICES ASSUME NEW c \in DOMAIN threads', NEW i \in 1 .. Len(threads'[c].messages)
               PROVE  /\ threads'[c].messages[i].job \in DOMAIN jobs
                      /\ turns[threads'[c].messages[i].job].conversation = c
                      /\ jobs'[threads'[c].messages[i].job].requester = threads'[c].user
    BY DEF MessagesHaveJobs
  <2>1. c \in DOMAIN threads
    OBVIOUS
  <2> QED
    BY <2>1 DEF ConversationsInv, MessagesHaveJobs
<1>3. TurnsFollowThread'
  <2> SUFFICES ASSUME NEW c \in DOMAIN threads'
               PROVE  Numbered(threads'[c].messages, turns)
    BY DEF TurnsFollowThread, Numbered
  <2>1. CASE c \in DOMAIN threads
    BY <2>1 DEF ConversationsInv, TurnsFollowThread, Numbered
  <2>2. CASE c \notin DOMAIN threads
    BY <2>2 DEF Numbered
  <2> QED
    BY <2>1, <2>2
<1> QED
  BY <1>1, <1>2, <1>3 DEF ConversationsInv

(* The coordinator's call inside closes no job, or one that is canceled.   *)
LEMMA OtherCallKeepsAnswers ==
    ASSUME CoordinatorInv, OtherCall
    PROVE  SameAnswers
<1>1. UNCHANGED jobs => SameAnswers
  BY DEF SameAnswers
<1>2. ASSUME NEW job \in DOMAIN jobs, JobUpdated(job), jobs[job].status \notin Answered,
             jobs'[job].status \notin Answered, jobs'[job].requester = jobs[job].requester
      PROVE  SameAnswers
  BY <1>2 DEF JobUpdated, SameAnswers
<1>3. ASSUME NEW job, IsQueued(job), NEW worker \in DOMAIN workers, Assign(job, worker)
      PROVE  SameAnswers
  <2>1. job \in DOMAIN jobs /\ worker \in Workers /\ jobs[job].status = "queued"
    BY <1>3 DEF IsQueued, CoordinatorInv, WorkersTypeOK
  <2>2. /\ JobUpdated(job) /\ jobs'[job].status = "assigned"
        /\ jobs'[job].requester = jobs[job].requester
    BY <1>3, <2>1, AssignEdit DEF CoordinatorInv
  <2> QED
    BY <1>2, <2>1, <2>2 DEF Answered
<1>4. CASE LedgerCall
  BY <1>1, <1>4 DEF LedgerCall, coordinatorVars
<1>5. ASSUME NEW worker \in Workers, WorkerStep(worker)
      PROVE  SameAnswers
  <2>1. ASSUME NEW allowOwn \in BOOLEAN, NEW k \in 1 .. Len(queue),
               ClaimJobForWorker(worker, allowOwn, k)
        PROVE  SameAnswers
    BY <1>3, <2>1 DEF ClaimJobForWorker, CanClaim
  <2>2. \/ \E offer \in Offers : RegisterWorker(worker, offer)
        \/ StopWorker(worker)
        \/ \E allowOwn \in BOOLEAN : ClaimNothing(worker, allowOwn)
        => UNCHANGED jobs
    BY DEF RegisterWorker, StopWorker, ClaimNothing
  <2> QED
    BY <1>1, <1>5, <2>1, <2>2 DEF WorkerStep
<1>6. ASSUME NEW k \in 1 .. Len(queue), AssignNextJob(k)
      PROVE  SameAnswers
  BY <1>3, <1>6 DEF AssignNextJob, Candidates
<1>7. ASSUME NEW job \in JobIds, CancelQueuedJob(job)
      PROVE  SameAnswers
  <2>1. job \in DOMAIN jobs /\ jobs[job].status = "queued"
    BY <1>7 DEF CancelQueuedJob, IsQueued
  <2>2. JobClosed(job) /\ jobs'[job].status = "canceled"
    BY <1>7, CancelEdit
  <2> QED
    BY <1>2, <2>1, <2>2 DEF JobClosed, Answered
<1>8. ASSUME NEW job \in JobIds, NEW selector \in Selectors, RerouteQueuedJob(job, selector)
      PROVE  SameAnswers
  BY <1>2, <1>8, RerouteEdit DEF CoordinatorInv, Answered
<1> QED
  BY <1>4, <1>5, <1>6, <1>7, <1>8 DEF OtherCall

LEMMA OtherCallKeepsTalk ==
    ASSUME CoordinatorInv, ConversationsInv, OtherCall
    PROVE  ConversationsInv'
<1>1. UNCHANGED <<threads, turns>>
  BY DEF OtherCall, conversationVars
<1>2. \A c \in DOMAIN threads : threads[c] \in Thread
  BY DEF ConversationsInv
<1> QED
  BY <1>1, <1>2, OtherCallKeepsAnswers, TalkUntouched

(* A result for a job already closed changes neither its status nor what   *)
(* its thread says.                                                        *)
LEMMA RepeatedAnswerKeepsTalk ==
    ASSUME CoordinatorInv, ConversationsInv, NEW job \in JobIds,
           NEW result \in {"verified", "failed"}, RepeatedAnswer(job, result)
    PROVE  ConversationsInv'
<1>1. UNCHANGED <<threads, turns>> /\ LateResult(job, result)
  BY DEF RepeatedAnswer, conversationVars
<1>2. /\ job \in DOMAIN jobs /\ JobUpdated(job) /\ jobs'[job].requester = jobs[job].requester
      /\ jobs'[job].status = jobs[job].status
  BY <1>1, LateEdit DEF CoordinatorInv, Settlement
<1>3. \A c \in DOMAIN threads : threads[c] \in Thread
  BY DEF ConversationsInv
<1> QED
  BY <1>1, <1>2, <1>3, TalkUntouched DEF JobUpdated, SameAnswers

(* A thread with no message yet, or with another flag.                     *)
LEMMA ThreadsEdited ==
    ASSUME ConversationsInv, UNCHANGED <<jobs, turns>>, NEW c, NEW thread \in Thread,
           threads' = With(threads, c, thread),
           IF c \in DOMAIN threads
           THEN thread.user = threads[c].user /\ thread.messages = threads[c].messages
           ELSE thread.messages = <<>>
    PROVE  ConversationsInv'
<1>1. /\ DOMAIN threads' = DOMAIN threads \cup {c} /\ threads'[c] = thread
      /\ \A d \in DOMAIN threads \ {c} : threads'[d] = threads[d]
  BY DEF With
<1>2. \A d \in DOMAIN threads : threads[d] \in Thread
  BY DEF ConversationsInv
<1> QED
  BY <1>1, <1>2, TalkUntouched DEF SameAnswers

LEMMA ThreadForType ==
    ASSUME ConversationsInv, NEW c, NEW user \in Users
    PROVE  /\ ThreadFor(c, user) \in Thread
           /\ c \notin DOMAIN threads => ThreadFor(c, user).messages = <<>>
  BY DEF ConversationsInv, ThreadFor, NewThread, Thread

LEMMA RefusedPromptKeepsTalk ==
    ASSUME ConversationsInv, NEW c, NEW user \in Users, NEW reserved,
           RefusedPrompt(c, user, reserved)
    PROVE  ConversationsInv'
<1>1. UNCHANGED <<jobs, turns>> /\ threads' = With(threads, c, ThreadFor(c, user))
  BY DEF RefusedPrompt, coordinatorVars
<1>2. c \in DOMAIN threads => ThreadFor(c, user) = threads[c]
  BY DEF ThreadFor
<1> QED
  BY <1>1, <1>2, ThreadForType, ThreadsEdited

(* Archiving and restoring. *)
LEMMA FlagKeepsTalk ==
    ASSUME ConversationsInv, NEW c \in DOMAIN threads, NEW flag \in BOOLEAN,
           threads' = [threads EXCEPT ![c].archived = flag], UNCHANGED <<vars, turns>>
    PROVE  ConversationsInv'
<1> DEFINE thread == [threads[c] EXCEPT !.archived = flag]
<1>1. threads' = [threads EXCEPT ![c] = thread]
  OBVIOUS
<1>2. threads[c] \in Thread
  BY DEF ConversationsInv
<1>3. /\ thread \in Thread /\ thread.user = threads[c].user
      /\ thread.messages = threads[c].messages
  BY <1>2 DEF Thread
<1> HIDE DEF thread
<1>4. threads' = With(threads, c, thread)
  BY <1>1 DEF With
<1>5. UNCHANGED <<jobs, turns>>
  BY DEF vars, coordinatorVars
<1> QED
  BY <1>3, <1>4, <1>5, ThreadsEdited

(* A message about a job of the thread's user joins the thread, a new one  *)
(* or one that is there; other jobs stay as they are.                      *)
MessageJoins(c, thread, m) ==
    /\ thread \in Thread /\ m \in ThreadMessage
    /\ IF c \in DOMAIN threads THEN thread = threads[c] ELSE thread.messages = <<>>
    /\ DOMAIN threads' = DOMAIN threads \cup {c}
    /\ threads'[c] \in Thread /\ threads'[c].user = thread.user
    /\ threads'[c].messages = Append(thread.messages, m)
    /\ \A d \in DOMAIN threads \ {c} : threads'[d] = threads[d]
    /\ DOMAIN jobs' = DOMAIN jobs \cup {m.job} /\ DOMAIN turns' = DOMAIN jobs'
    /\ \A j \in DOMAIN jobs : /\ turns'[j] = turns[j]
                              /\ jobs'[j].requester = jobs[j].requester
                              /\ j # m.job => jobs'[j].status = jobs[j].status
    /\ turns'[m.job].conversation = c /\ jobs'[m.job].requester = thread.user
    /\ m.role = "user" =>
         /\ turns'[m.job].turn = 1 + Cardinality(By("user", thread.messages))
         /\ turns'[m.job].context = Context(thread.messages)

(* If the thread then tells the job right, every job is told as before.    *)
LEMMA MessageAppended ==
    ASSUME ConversationsInv, NEW c, NEW thread, NEW m, MessageJoins(c, thread, m),
           Told(Append(thread.messages, m), m.job, jobs'[m.job].status)
    PROVE  ConversationsInv'
<1> USE DEF MessageJoins
<1>1. /\ thread.messages \in Seq(ThreadMessage)
      /\ \A d \in DOMAIN threads : threads[d].messages \in Seq(ThreadMessage)
  BY DEF ConversationsInv, Thread
<1>2. \A i \in 1 .. Len(thread.messages) :
        LET j == thread.messages[i].job IN
        /\ j \in DOMAIN jobs /\ turns[j].conversation = c
        /\ jobs[j].requester = thread.user
  <2>1. CASE c \in DOMAIN threads
    BY <2>1 DEF ConversationsInv, MessagesHaveJobs
  <2>2. CASE c \notin DOMAIN threads
    <3>1. Len(thread.messages) = 0
      BY <2>2
    <3> QED
      BY <3>1
  <2> QED
    BY <2>1, <2>2
<1>3. JobsTold'
  <2> SUFFICES ASSUME NEW job \in DOMAIN jobs'
               PROVE  /\ turns'[job].conversation \in DOMAIN threads'
                      /\ Told(threads'[turns'[job].conversation].messages, job, jobs'[job].status)
    BY DEF JobsTold
  <2>1. CASE job = m.job
    BY <2>1
  <2>2. CASE job # m.job
    <3>1. /\ job \in DOMAIN jobs /\ turns'[job] = turns[job]
          /\ jobs'[job].status = jobs[job].status
      BY <2>2
    <3>2. /\ turns[job].conversation \in DOMAIN threads
          /\ Told(threads[turns[job].conversation].messages, job, jobs[job].status)
      BY <3>1 DEF ConversationsInv, JobsTold
    <3>3. CASE turns[job].conversation = c
      <4>1. Told(thread.messages, job, jobs[job].status)
        BY <3>2, <3>3
      <4>2. Told(Append(thread.messages, m), job, jobs[job].status)
        BY <1>1, <2>2, <4>1, ToldStays
      <4>3. turns'[job].conversation = c
        BY <3>1, <3>3
      <4>4. threads'[turns'[job].conversation].messages = Append(thread.messages, m)
        BY <4>3
      <4> QED
        BY <3>1, <4>2, <4>3, <4>4
    <3>4. CASE turns[job].conversation # c
      BY <3>1, <3>2, <3>4
    <3> QED
      BY <3>3, <3>4
  <2> QED
    BY <2>1, <2>2
<1>4. MessagesHaveJobs'
  <2> SUFFICES ASSUME NEW d \in DOMAIN threads', NEW i \in 1 .. Len(threads'[d].messages)
               PROVE  /\ threads'[d].messages[i].job \in DOMAIN jobs'
                      /\ turns'[threads'[d].messages[i].job].conversation = d
                      /\ jobs'[threads'[d].messages[i].job].requester = threads'[d].user
    BY DEF MessagesHaveJobs
  <2>1. CASE d # c
    <3>1. d \in DOMAIN threads /\ threads'[d] = threads[d]
      BY <2>1
    <3>2. LET j == threads[d].messages[i].job IN
          j \in DOMAIN jobs /\ turns[j].conversation = d /\ jobs[j].requester = threads[d].user
      BY <3>1 DEF ConversationsInv, MessagesHaveJobs
    <3> QED
      BY <3>1, <3>2
  <2>2. CASE d = c
    <3>1. \/ i \in 1 .. Len(thread.messages) /\ threads'[d].messages[i] = thread.messages[i]
          \/ threads'[d].messages[i] = m
      BY <1>1, <2>2, Appended
    <3> QED
      BY <1>2, <2>2, <3>1
  <2> QED
    BY <2>1, <2>2
<1>5. TurnsFollowThread'
  <2> SUFFICES ASSUME NEW d \in DOMAIN threads'
               PROVE  Numbered(threads'[d].messages, turns')
    BY DEF TurnsFollowThread, Numbered
  <2>1. CASE d # c
    <3>1. d \in DOMAIN threads /\ threads'[d] = threads[d]
      BY <2>1
    <3>2. Numbered(threads[d].messages, turns)
      BY <3>1 DEF ConversationsInv, TurnsFollowThread, Numbered
    <3>3. \A i \in 1 .. Len(threads[d].messages) : threads[d].messages[i].job \in DOMAIN jobs
      BY <3>1 DEF ConversationsInv, MessagesHaveJobs
    <3> QED
      BY <3>1, <3>2, <3>3 DEF Numbered
  <2>2. CASE d = c
    <3>1. Numbered(thread.messages, turns)
      <4>1. CASE c \in DOMAIN threads
        BY <4>1 DEF ConversationsInv, TurnsFollowThread, Numbered
      <4>2. CASE c \notin DOMAIN threads
        <5>1. Len(thread.messages) = 0
          BY <4>2
        <5> QED
          BY <5>1 DEF Numbered
      <4> QED
        BY <4>1, <4>2
    <3>2. \A i \in 1 .. Len(thread.messages) :
            turns'[thread.messages[i].job] = turns[thread.messages[i].job]
      BY <1>2
    <3>3. Numbered(Append(thread.messages, m), turns')
      BY <1>1, <3>1, <3>2, NumberedAppended
    <3> QED
      BY <2>2, <3>3
  <2> QED
    BY <2>1, <2>2
<1>6. \A d \in DOMAIN threads' : threads'[d] \in Thread
  BY DEF ConversationsInv
<1> QED
  BY <1>3, <1>4, <1>5, <1>6 DEF ConversationsInv

LEMMA PromptKeepsTalk ==
    ASSUME CoordinatorInv, ConversationsInv, NEW c, NEW user \in Users, NEW job \in JobIds,
           NEW selector, NEW reserved, SubmitPrompt(c, user, job, selector, reserved)
    PROVE  ConversationsInv'
<1> DEFINE m == Message("user", job, "none")
<1>1. PICK thread : thread = ThreadFor(c, user)
  OBVIOUS
<1>2. /\ job \notin DOMAIN jobs /\ jobs' = With(jobs, job, NewJob(user, selector, reserved))
      /\ threads' = With(threads, c, [thread EXCEPT !.messages = Append(@, m)])
      /\ turns' = With(turns, job, [conversation |-> c, turn |-> NextTurn(c, user),
                                    context |-> Context(thread.messages)])
  BY <1>1 DEF SubmitPrompt, SubmitJob, AppendPrompt
<1>3. /\ thread \in Thread /\ thread.user = user
      /\ IF c \in DOMAIN threads THEN thread = threads[c] ELSE thread.messages = <<>>
  BY <1>1, ThreadForType DEF SubmitPrompt, CanContinue, ThreadFor
<1>4. m \in ThreadMessage /\ m.role = "user" /\ m.job = job
  BY DEF Message, ThreadMessage
<1> HIDE DEF m
<1>5. PICK more : more = [thread EXCEPT !.messages = Append(@, m)]
  OBVIOUS
<1>6. /\ more \in Thread /\ more.user = thread.user
      /\ more.messages = Append(thread.messages, m)
  <2>1. Append(thread.messages, m) \in Seq(ThreadMessage)
    BY <1>3, <1>4, Appended DEF Thread
  <2> QED
    BY <1>3, <1>5, <2>1 DEF Thread
<1>7. /\ DOMAIN threads' = DOMAIN threads \cup {c} /\ threads'[c] = more
      /\ \A d \in DOMAIN threads \ {c} : threads'[d] = threads[d]
  BY <1>2, <1>5 DEF With
<1>8. /\ DOMAIN jobs' = DOMAIN jobs \cup {job} /\ \A j \in DOMAIN jobs : jobs'[j] = jobs[j]
      /\ jobs'[job].requester = user /\ jobs'[job].status = "queued"
  BY <1>2 DEF With, NewJob
<1>9. DOMAIN turns = DOMAIN jobs
  BY DEF ConversationsInv
<1>10. /\ DOMAIN turns' = DOMAIN jobs' /\ \A j \in DOMAIN jobs : turns'[j] = turns[j]
       /\ turns'[job].conversation = c /\ turns'[job].turn = NextTurn(c, user)
       /\ turns'[job].context = Context(thread.messages)
  BY <1>2, <1>8, <1>9 DEF With
<1>11. \A i \in 1 .. Len(thread.messages) : thread.messages[i].job # job
  <2>1. CASE c \in DOMAIN threads
    BY <1>2, <1>3, <2>1 DEF ConversationsInv, MessagesHaveJobs
  <2>2. CASE c \notin DOMAIN threads
    <3>1. Len(thread.messages) = 0
      BY <1>3, <2>2
    <3> QED
      BY <3>1
  <2> QED
    BY <2>1, <2>2
<1>12. Told(Append(thread.messages, m), job, "queued")
  <2>1. thread.messages \in Seq(ThreadMessage)
    BY <1>3 DEF Thread
  <2> QED
    BY <1>4, <1>11, <2>1, ToldFirst DEF Answered
<1>13. turns'[job].turn = 1 + Cardinality(By("user", thread.messages))
  BY <1>1, <1>10 DEF NextTurn
<1>14. MessageJoins(c, thread, m)
  BY <1>3, <1>4, <1>6, <1>7, <1>8, <1>10, <1>13 DEF MessageJoins
<1> QED
  BY <1>4, <1>8, <1>12, <1>14, MessageAppended

(* The first result: only an open job has a hold, so no answer is there.   *)
LEMMA FirstResultIsFirst ==
    ASSUME CoordinatorInv, NEW job \in JobIds,
           FailJob(job) \/ SelfServedJob(job) \/ \E cost \in Prices : SettleJob(job, cost)
    PROVE  job \in DOMAIN jobs /\ jobs[job].status \notin Answered
<1>1. job \in DOMAIN holds
  BY DEF FailJob, SelfServedJob, SettleJob, Release, Settle
<1> QED
  BY <1>1 DEF CoordinatorInv, HoldsMatchOpenJobs, JobsInStatus, Answered

LEMMA AnswerKeepsTalk ==
    ASSUME CoordinatorInv, ConversationsInv, NEW job \in JobIds, NEW status \in Answered,
           job \in DOMAIN jobs, jobs[job].status \notin Answered,
           JobClosed(job), jobs'[job].status = status, AppendAnswer(job, status)
    PROVE  ConversationsInv'
<1> DEFINE m == Message("assistant", job, status)
<1>1. PICK c : c = turns[job].conversation
  OBVIOUS
<1>2. c \in DOMAIN threads /\ Told(threads[c].messages, job, jobs[job].status)
  BY <1>1 DEF ConversationsInv, JobsTold
<1>3. threads[c] \in Thread /\ DOMAIN turns = DOMAIN jobs
  BY <1>2 DEF ConversationsInv
<1>4. m \in ThreadMessage /\ m.role = "assistant" /\ m.job = job /\ m.status = status
  BY DEF Message, ThreadMessage, Answered, JobStatus
<1>5. UNCHANGED turns /\ threads' = [threads EXCEPT ![c].messages = Append(@, m)]
  BY <1>1 DEF AppendAnswer
<1> HIDE DEF m
<1>6. PICK more : more = [threads[c] EXCEPT !.messages = Append(@, m)]
  OBVIOUS
<1>7. /\ more \in Thread /\ more.user = threads[c].user
      /\ more.messages = Append(threads[c].messages, m)
  <2>1. Append(threads[c].messages, m) \in Seq(ThreadMessage)
    BY <1>3, <1>4, Appended DEF Thread
  <2> QED
    BY <1>3, <1>6, <2>1 DEF Thread
<1>8. threads' = [threads EXCEPT ![c] = more]
  BY <1>5, <1>6
<1>9. /\ DOMAIN threads' = DOMAIN threads \cup {c} /\ threads'[c] = more
      /\ \A d \in DOMAIN threads \ {c} : threads'[d] = threads[d]
  BY <1>2, <1>8
<1>10. /\ DOMAIN jobs' = DOMAIN jobs /\ jobs'[job].requester = jobs[job].requester
       /\ \A j \in DOMAIN jobs \ {job} : jobs'[j] = jobs[j]
  BY DEF JobClosed, JobUpdated
<1>11. Told(Append(threads[c].messages, m), job, status)
  <2>1. threads[c].messages \in Seq(ThreadMessage)
    BY <1>3 DEF Thread
  <2> QED
    BY <1>2, <1>4, <2>1, ToldAnswer
<1>12. jobs[job].requester = threads[c].user
  <2>1. PICK p \in 1 .. Len(threads[c].messages) :
          Said(threads[c].messages, "user", job) = {p}
    BY <1>2 DEF Told
  <2>2. threads[c].messages[p].job = job
    BY <2>1 DEF Said
  <2> QED
    BY <1>2, <2>2 DEF ConversationsInv, MessagesHaveJobs
<1>13. PICK thread : thread = threads[c]
  OBVIOUS
<1>14. MessageJoins(c, thread, m)
  <2>1. /\ thread \in Thread /\ m \in ThreadMessage /\ m.role # "user"
        /\ c \in DOMAIN threads
        /\ threads'[c] \in Thread /\ threads'[c].user = thread.user
        /\ threads'[c].messages = Append(thread.messages, m)
    BY <1>2, <1>3, <1>4, <1>7, <1>9, <1>13
  <2>2. DOMAIN jobs' = DOMAIN jobs \cup {m.job} /\ DOMAIN turns' = DOMAIN jobs'
    BY <1>3, <1>4, <1>5, <1>10
  <2>3. ASSUME NEW j \in DOMAIN jobs
        PROVE  /\ turns'[j] = turns[j]
               /\ jobs'[j].requester = jobs[j].requester
               /\ j # m.job => jobs'[j].status = jobs[j].status
    BY <1>4, <1>5, <1>10
  <2>4. turns'[m.job].conversation = c /\ jobs'[m.job].requester = thread.user
    BY <1>1, <1>4, <1>5, <1>10, <1>12, <1>13
  <2> QED
    BY <1>9, <1>13, <2>1, <2>2, <2>3, <2>4 DEF MessageJoins
<1>15. Told(Append(thread.messages, m), m.job, jobs'[m.job].status)
  BY <1>4, <1>11, <1>13
<1> QED
  BY <1>14, <1>15, MessageAppended

LEMMA CompleteKeepsTalk ==
    ASSUME CoordinatorInv, ConversationsInv, NEW job \in JobIds, CompleteJob(job)
    PROVE  ConversationsInv'
<1>1. job \in DOMAIN jobs /\ jobs[job].status \notin Answered
  BY FirstResultIsFirst DEF CompleteJob
<1>2. CASE FailJob(job) /\ AppendAnswer(job, "failed")
  BY <1>1, <1>2, FailEdit, AnswerKeepsTalk DEF CoordinatorInv, Answered
<1>3. CASE SelfServedJob(job) /\ AppendAnswer(job, "completed")
  BY <1>1, <1>3, SelfServedEdit, AnswerKeepsTalk DEF CoordinatorInv, Answered
<1>4. ASSUME NEW cost \in Prices, SettleJob(job, cost), AppendAnswer(job, "completed")
      PROVE  ConversationsInv'
  BY <1>1, <1>4, SettleEdit, AnswerKeepsTalk DEF Answered
<1> QED
  BY <1>2, <1>3, <1>4 DEF CompleteJob

LEMMA ConversationsStep ==
    ASSUME CoordinatorInv, ConversationsInv, [ConversationsNext]_talkVars
    PROVE  ConversationsInv'
<1>1. ASSUME NEW c, ThreadStep(c)
      PROVE  ConversationsInv'
  <2>1. CASE ArchiveConversation(c)
    BY <2>1, FlagKeepsTalk DEF ArchiveConversation
  <2>2. CASE RestoreConversation(c)
    BY <2>2, FlagKeepsTalk DEF RestoreConversation
  <2> QED
    BY <1>1, <2>1, <2>2, PromptKeepsTalk, RefusedPromptKeepsTalk DEF ThreadStep
<1>2. ASSUME NEW failed \in JobIds, NEW job \in JobIds, NEW reserved \in Prices,
             RestartPrompt(failed, job, reserved)
      PROVE  ConversationsInv'
  <2>1. failed \in DOMAIN jobs /\ jobs[failed].requester \in Users
    BY <1>2, RestartIsPrompt DEF CoordinatorInv, JobsTypeOK, JobRecord
  <2> QED
    BY <1>2, <2>1, RestartIsPrompt, PromptKeepsTalk
<1>3. CASE UNCHANGED talkVars
  <2>1. UNCHANGED <<threads, turns, jobs>>
    BY <1>3 DEF talkVars, conversationVars, vars, coordinatorVars
  <2>2. SameAnswers /\ \A c \in DOMAIN threads : threads[c] \in Thread
    BY <2>1 DEF SameAnswers, ConversationsInv
  <2> QED
    BY <2>1, <2>2, TalkUntouched
<1> QED
  BY <1>1, <1>2, <1>3, OtherCallKeepsTalk, CompleteKeepsTalk, RepeatedAnswerKeepsTalk
  DEF ConversationsNext

-----------------------------------------------------------------------------
(* The specification *)

LEMMA ConversationsInvInit == ConversationsInit => ConversationsInv
  BY DEF ConversationsInit, Init, EmptyDict, ConversationsInv, JobsTold, MessagesHaveJobs,
         TurnsFollowThread

(* What the service does around the coordinator's calls leaves them alone: *)
(* every behaviour of the conversations is one of the coordinator, and its *)
(* theorems hold of it (service.py:155-290).                               *)
THEOREM ConversationsImplementCoordinator == ConversationsSpec => Spec
<1>1. ConversationsInit => Init
  BY DEF ConversationsInit
<1>2. [ConversationsNext]_talkVars => [Next]_vars
  BY ConversationStepIsStep
<1> QED
  BY <1>1, <1>2, PTL DEF ConversationsSpec, Spec

LEMMA ConversationsInvHolds == ConversationsSpec => []ConversationsInv
<1>1. CoordinatorInv /\ ConversationsInv /\ [ConversationsNext]_talkVars => ConversationsInv'
  BY ConversationsStep
<1> QED
  BY <1>1, ConversationsInvInit, ConversationsImplementCoordinator, CoordinatorInvHolds, PTL
  DEF ConversationsSpec

(* A job's thread holds its prompt once, and its answer once and after it  *)
(* when it completed or failed (service.py:187, 253), in whatever order    *)
(* results come and repeat, and if the thread was archived meanwhile.      *)
THEOREM PromptsAlwaysAnsweredOnce == ConversationsSpec => []PromptsAnsweredOnce
<1>1. ConversationsInv => PromptsAnsweredOnce
  <2> SUFFICES ASSUME ConversationsInv, NEW job \in DOMAIN jobs
               PROVE  LET c == turns[job].conversation IN
                      /\ Cardinality(Places(c, "user", job)) = 1
                      /\ Cardinality(Places(c, "assistant", job))
                           = IF jobs[job].status \in {"completed", "failed"} THEN 1 ELSE 0
                      /\ \A i \in Places(c, "assistant", job) :
                           /\ \A k \in Places(c, "user", job) : k < i
                           /\ threads[c].messages[i].status = jobs[job].status
    BY DEF PromptsAnsweredOnce
  <2>1. PICK c : c = turns[job].conversation
    OBVIOUS
  <2>2. Told(threads[c].messages, job, jobs[job].status)
    BY <2>1 DEF ConversationsInv, JobsTold
  <2>3. \A role : Places(c, role, job) = Said(threads[c].messages, role, job)
    BY DEF Places, Said
  <2>4. PICK p \in 1 .. Len(threads[c].messages) :
          /\ Places(c, "user", job) = {p}
          /\ IF jobs[job].status \in Answered
             THEN \E i \in 1 .. Len(threads[c].messages) :
                    /\ Places(c, "assistant", job) = {i}
                    /\ p < i
                    /\ threads[c].messages[i].status = jobs[job].status
             ELSE Places(c, "assistant", job) = {}
    BY <2>2, <2>3 DEF Told
  <2>5. Cardinality({}) = 0 /\ \A x : Cardinality({x}) = 1
    BY FS_EmptySet, FS_Singleton
  <2> QED
    BY <2>1, <2>4, <2>5 DEF Answered
<1> QED
  BY <1>1, ConversationsInvHolds, PTL

(* A thread speaks of submitted jobs of its user only; a prompt the ledger *)
(* refused left no message (service.py:166).                               *)
THEOREM MessagesAlwaysHaveJobs == ConversationsSpec => []MessagesHaveJobs
<1>1. ConversationsInv => MessagesHaveJobs
  BY DEF ConversationsInv
<1> QED
  BY <1>1, ConversationsInvHolds, PTL

(* The turns of a thread are numbered in its order, and a job is told what *)
(* its thread shows above its prompt (service.py:1367-1372), for prompts   *)
(* sent before earlier ones are answered and for restarts.                 *)
THEOREM TurnsAlwaysFollowThread == ConversationsSpec => []TurnsFollowThread
<1>1. ConversationsInv => TurnsFollowThread
  BY DEF ConversationsInv
<1> QED
  BY <1>1, ConversationsInvHolds, PTL

-----------------------------------------------------------------------------
(* SharedStore: processes that overlap on one document, for any number of  *)
(* servers and commands.                                                   *)

(* What was answered without contest is in the document and in every       *)
(* memory; a process that starts loads it, and a process that saves writes *)
(* a memory that has it.                                                   *)
SharedInv ==
    /\ memory \in [Processes -> SUBSET SavedFacts]
    /\ stage \in [Processes -> {"new", "running", "ended"}]
    /\ saved \subseteq SavedFacts
    /\ UncontestedAnswersLast

LEMMA SharedInvInit == StoreInit => SharedInv
  BY DEF StoreInit, SharedInv, UncontestedAnswersLast, Running

(* A save overwrites what others saved, but never an uncontested answer.   *)
LEMMA SaveKeepsShared ==
    ASSUME SharedInv, NEW p \in Processes, Running(p), NEW added \in SUBSET SavedFacts,
           SaveAll(p, added)
    PROVE  SharedInv'
<1>1. /\ memory' = [memory EXCEPT ![p] = memory[p] \cup added]
      /\ saved' = memory[p] \cup added
      /\ answered' = answered \cup added
      /\ contested' = IF Alone(p) THEN contested \ added ELSE contested \cup added
      /\ stage' = [stage EXCEPT ![p] = IF p \in Commands THEN "ended" ELSE stage[p]]
  BY DEF SaveAll, SharedInv
<1>2. /\ memory' \in [Processes -> SUBSET SavedFacts]
      /\ stage' \in [Processes -> {"new", "running", "ended"}]
      /\ saved' \subseteq SavedFacts
  BY <1>1 DEF SharedInv
<1>3. \A q \in Processes : Running(q)' => Running(q)
  BY <1>1 DEF SharedInv, Running
<1>4. ASSUME NEW fact \in (answered \ contested)'
      PROVE  fact \in saved' /\ \A q \in Processes : Running(q)' => fact \in memory'[q]
  <2>1. CASE fact \in added
    <3>1. Alone(p)
      BY <1>1, <1>4, <2>1
    <3>2. \A q \in Processes : Running(q)' => q = p
      BY <1>3, <3>1 DEF Alone
    <3> QED
      BY <1>1, <2>1, <3>2 DEF SharedInv
  <2>2. CASE fact \notin added
    <3>1. fact \in answered \ contested
      BY <1>1, <1>4, <2>2
    <3>2. \A q \in Processes : Running(q) => fact \in memory[q]
      BY <3>1 DEF SharedInv, UncontestedAnswersLast
    <3> QED
      BY <1>1, <1>3, <3>2 DEF SharedInv
  <2> QED
    BY <2>1, <2>2
<1> QED
  BY <1>2, <1>4 DEF SharedInv, UncontestedAnswersLast

LEMMA SharedInvStep == SharedInv /\ [ServersNext]_storeVars => SharedInv'
<1> SUFFICES ASSUME SharedInv, [ServersNext]_storeVars PROVE SharedInv'
  OBVIOUS
<1>1. ASSUME NEW p \in Processes, Start(p)
      PROVE  SharedInv'
  BY <1>1 DEF Start, SharedInv, UncontestedAnswersLast, Running
<1>2. ASSUME NEW p \in Processes, Stop(p)
      PROVE  SharedInv'
  BY <1>2 DEF Stop, SharedInv, UncontestedAnswersLast, Running
<1>3. ASSUME NEW p \in Processes, Call(p)
      PROVE  SharedInv'
  <2>1. ASSUME NEW purchase \in Purchases, PurchaseCredits(p, purchase)
        PROVE  SharedInv'
    <3>1. {Fact("purchase", purchase)} \in SUBSET SavedFacts
      BY DEF Fact, SavedFacts
    <3> QED
      BY <2>1, <3>1, SaveKeepsShared DEF PurchaseCredits
  <2>2. ASSUME NEW token \in Tokens, IssueWorkerToken(p, token)
        PROVE  SharedInv'
    <3>1. {Fact("issued", token)} \in SUBSET SavedFacts
      BY DEF Fact, SavedFacts
    <3> QED
      BY <2>2, <3>1, SaveKeepsShared DEF IssueWorkerToken
  <2>3. ASSUME NEW token \in Tokens, RevokeWorkerToken(p, token)
        PROVE  SharedInv'
    <3>1. {Fact("revoked", token)} \in SUBSET SavedFacts
      BY DEF Fact, SavedFacts
    <3> QED
      BY <2>3, <3>1, SaveKeepsShared DEF RevokeWorkerToken
  <2>4. ASSUME NEW token \in Tokens, AuthenticateWorkerToken(p, token)
        PROVE  SharedInv'
    BY <2>4, SaveKeepsShared DEF AuthenticateWorkerToken
  <2> QED
    BY <1>3, <2>1, <2>2, <2>3, <2>4 DEF Call
<1>4. CASE UNCHANGED storeVars
  BY <1>4 DEF storeVars, SharedInv, UncontestedAnswersLast, Running
<1> QED
  BY <1>1, <1>2, <1>3, <1>4 DEF ServersNext

LEMMA SharedInvHolds == ServersSpec => []SharedInv
  BY SharedInvInit, SharedInvStep, PTL DEF ServersSpec

(* What a call answered while no other process ran survives every later    *)
(* overlap of any number of servers and commands (state_store.py:68, 77):  *)
(* all that the refuted README lines can lose was answered while another   *)
(* process ran.                                                            *)
THEOREM UncontestedAnswersAlwaysLast == ServersSpec => []UncontestedAnswersLast
<1>1. SharedInv => UncontestedAnswersLast
  BY DEF SharedInv
<1> QED
  BY <1>1, SharedInvHolds, PTL

(* A worker token revoked while no other process ran stays refused by      *)
(* every process, whatever processes save later.                           *)
THEOREM UncontestedRevocationsAlwaysHold == ServersSpec => []UncontestedRevocationsHold
<1>1. SharedInv => UncontestedRevocationsHold
  BY DEF SharedInv, UncontestedAnswersLast, UncontestedRevocationsHold, Accepts
<1> QED
  BY <1>1, SharedInvHolds, PTL

=============================================================================
