------------------------------ MODULE Recovery ------------------------------
(***************************************************************************)
(* The coordinator behind the service's saved document (service.py,        *)
(* _persist_locked and _load_state; state_store.py, LocalStateStore).  A   *)
(* call changes the memory, then saves all of it, then answers; the server *)
(* may stop at any point and comes back with the document.  Workers that   *)
(* run on other machines go on executing across a restart, the cycles of   *)
(* the server's own threads (run_worker_cycle) end with it.                *)
(*                                                                         *)
(* Abstracted: the document's JSON form and the migration of documents of  *)
(* older versions (ledger.py:241-262, 323-355); "_meta", which is saved.   *)
(***************************************************************************)
EXTENDS Coordinator

VARIABLES
    document,       \* what the state file holds; at first what an absent file means
    torn,           \* the state file was cut off while being written
    up,             \* the server process runs
    executing,      \* executions under way: [worker, job, place]
    acked           \* what clients have been told: [rows, closed, claims]

recoveryVars == <<document, torn, up, executing, acked>>

servedVars == <<vars, recoveryVars>>

Execution == [worker : Workers, job : JobIds, place : {"daemon", "server"}]

LedgerSnapshot ==
    [registered |-> registered, available |-> available, spent |-> spent,
     earned |-> earned, holds |-> holds, transactions |-> transactions,
     nextEntry |-> nextEntry]

Snapshot == [workers |-> workers, jobs |-> jobs, queue |-> queue, ledger |-> LedgerSnapshot]

NoCredits == [a \in Accounts |-> 0]

(* An absent file: the state the constructors start with. *)
EmptySnapshot ==
    [workers |-> EmptyDict, jobs |-> EmptyDict, queue |-> <<>>,
     ledger |-> [registered |-> {}, available |-> NoCredits, spent |-> NoCredits,
                 earned |-> NoCredits, holds |-> EmptyDict, transactions |-> {},
                 nextEntry |-> 0]]

(* What a client who gets an answer may rely on: rows that are final, jobs *)
(* that are closed and who was given which job.                            *)
Facts(s) ==
    [rows |-> {t \in s.ledger.transactions : ~t.pending},
     closed |-> {<<j, s.jobs[j].status>> : j \in {i \in DOMAIN s.jobs : s.jobs[i].status \in Terminal}},
     claims |-> {<<j, s.jobs[j].worker>> : j \in {i \in DOMAIN s.jobs : s.jobs[i].worker # NoWorker}}]

-----------------------------------------------------------------------------
(* Saving *)

(* Variant with a bug: the document is built before the change.            *)
WrittenTooEarly ==
    /\ document' = Snapshot
    /\ torn' = FALSE
    /\ acked' = Facts(Snapshot')

(* The file was replaced, or written in place in full: the call answers.   *)
Written ==
    /\ document' = Snapshot'
    /\ torn' = FALSE
    /\ acked' = Facts(Snapshot')

(* LocalStateStore.save raises, or the server stops inside it: nothing was *)
(* written, or the fallback write in place was cut off.  No answer is      *)
(* given, and the change stays in memory.                                  *)
NotWritten ==
    /\ torn' \in {torn, TRUE}
    /\ UNCHANGED <<document, acked>>

Persist == Written \/ NotWritten

(* CreditLedger.import_state: wallets, holds and rows are replaced. *)
RestoreLedger(s) ==
    /\ registered' = s.registered
    /\ available' = s.available
    /\ spent' = s.spent
    /\ earned' = s.earned
    /\ holds' = s.holds
    /\ transactions' = s.transactions
    /\ nextEntry' = s.nextEntry

-----------------------------------------------------------------------------
(* Variants of the service's calls, each with a plausible bug.             *)

(* The claim is answered without being saved. *)
RemoteClaimUnsaved(worker, allowOwn, k) ==
    /\ ClaimJobForWorker(worker, allowOwn, k)
    /\ executing' = executing \cup {[worker |-> worker, job |-> queue[k], place |-> "daemon"]}
    /\ acked' = Facts(Snapshot')
    /\ UNCHANGED <<document, torn>>

(* The import leaves the queue out. *)
RestoreWithoutQueue(s) ==
    /\ workers' = s.workers
    /\ jobs' = s.jobs
    /\ queue' = <<>>
    /\ RestoreLedger(s.ledger)

-----------------------------------------------------------------------------
(* Calls of NetworkService *)

RecoveryInit ==
    /\ Init
    /\ document = EmptySnapshot
    /\ torn = FALSE
    /\ up = TRUE
    /\ executing = {}
    /\ acked = Facts(EmptySnapshot)

(* Every call that ends in _persist_locked, but claims and results. *)
SavedCall ==
    /\ \/ LedgerCall
       \/ \E worker \in Workers, offer \in Offers : RegisterWorker(worker, offer)
       \/ \E worker \in Workers : StopWorker(worker)
       \/ \E job \in JobIds :
            \/ \E user \in Users, selector \in Selectors, reserved \in Prices :
                 SubmitJob(job, user, selector, reserved)
            \/ \E failed \in JobIds, reserved \in Prices : RestartFailedJob(failed, job, reserved)
            \/ CancelQueuedJob(job)
            \/ \E selector \in Selectors : RerouteQueuedJob(job, selector)
    /\ Persist
    /\ UNCHANGED executing

(* service.claim_job_for_worker: the worker hears of the job once it is    *)
(* saved.                                                                  *)
RemoteClaim(worker, allowOwn, k) ==
    /\ ClaimJobForWorker(worker, allowOwn, k)
    /\ \/ /\ Written
          /\ executing' = executing \cup {[worker |-> worker, job |-> queue[k], place |-> "daemon"]}
       \/ /\ NotWritten
          /\ UNCHANGED executing

(* run_worker_cycle claims from the coordinator itself: not saved. *)
CycleClaim(worker, allowOwn, k) ==
    /\ ClaimJobForWorker(worker, allowOwn, k)
    /\ executing' = executing \cup {[worker |-> worker, job |-> queue[k], place |-> "server"]}
    /\ UNCHANGED <<document, torn, acked>>

(* A poll that finds nothing returns before _persist_locked. *)
EmptyPoll(worker, allowOwn) ==
    /\ ClaimNothing(worker, allowOwn)
    /\ UNCHANGED <<document, torn, acked, executing>>

(* complete_job, by the one who executes the job *)
Result(execution) ==
    /\ jobs[execution.job].worker = execution.worker
    /\ \/ FailJob(execution.job)
       \/ SelfServedJob(execution.job)
       \/ \E cost \in Prices : SettleJob(execution.job, cost)
    /\ Persist
    /\ executing' = executing \ {execution}

(* A result for a closed job raises before _persist_locked. *)
RepeatedResult(job, result) ==
    /\ LateResult(job, result)
    /\ UNCHANGED <<document, torn, acked, executing>>

(* The execution ends without a result: the daemon stopped, or its call    *)
(* was refused or lost.                                                    *)
Abandon(execution) ==
    /\ execution.place = "daemon"
    /\ executing' = executing \ {execution}
    /\ UNCHANGED <<vars, document, torn, up, acked>>

(* import_state: workers are registered again with the active_jobs they    *)
(* had, jobs and queue are replaced; nothing that was assigned is queued.  *)
Restore(s) ==
    /\ workers' = s.workers
    /\ jobs' = s.jobs
    /\ queue' = s.queue
    /\ RestoreLedger(s.ledger)

Crash ==
    /\ up
    /\ up' = FALSE
    /\ executing' = {x \in executing : x.place = "daemon"}
    /\ Restore(EmptySnapshot)
    /\ UNCHANGED <<document, torn, acked>>

(* _load_state; a torn file makes json.loads raise: no server comes up. *)
Restart ==
    /\ ~up
    /\ ~torn
    /\ up' = TRUE
    /\ Restore(document)
    /\ UNCHANGED <<document, torn, executing, acked>>

-----------------------------------------------------------------------------

ServiceCall ==
    \/ SavedCall
    \/ \E worker \in Workers, allowOwn \in BOOLEAN :
         \/ \E k \in 1 .. Len(queue) : RemoteClaim(worker, allowOwn, k)
         \/ \E k \in 1 .. Len(queue) : CycleClaim(worker, allowOwn, k)
         \/ EmptyPoll(worker, allowOwn)
    \/ \E execution \in executing : Result(execution)
    \/ \E job \in JobIds, result \in {"verified", "failed"} : RepeatedResult(job, result)

RecoveryNext ==
    \/ up /\ ServiceCall /\ UNCHANGED up
    \/ \E execution \in executing : Abandon(execution)
    \/ Crash
    \/ Restart

RecoverySpec == RecoveryInit /\ [][RecoveryNext]_servedVars

-----------------------------------------------------------------------------
(* Properties *)

(* What a client was told is in the document, through failing saves and    *)
(* any number of restarts, unless the fallback write was cut off           *)
(* (state_store.py:39); and a server that runs still knows it.             *)
Knows(s) ==
    /\ acked.rows \subseteq Facts(s).rows
    /\ acked.closed \subseteq Facts(s).closed
    /\ acked.claims \subseteq Facts(s).claims

AnswersSurvive == (~torn => Knows(document)) /\ (up => Knows(Snapshot))

(* Whoever executes a job, on another machine or in a thread of the        *)
(* server, is the one it is assigned to, also after a restart that lost    *)
(* the claims no save recorded: every result that comes in finds its hold, *)
(* and no job has two executions (service.py:225, 1068).                   *)
ExecutionsAreAssigned ==
    up => \A x \in executing :
            /\ x.job \in JobsInStatus({"assigned"})
            /\ jobs[x.job].worker = x.worker
            /\ x.job \in DOMAIN holds
            /\ \A y \in executing : y.job = x.job => y = x

(* The state a server serves, the first after a restart included, is one   *)
(* the coordinator can be in: queue, holds and slots agree with the jobs.  *)
ServedStateIsSound ==
    up => /\ QueueHoldsQueuedJobs
          /\ HoldsMatchOpenJobs
          /\ AssignedWorkerKnown
          /\ NoSlotLeaks

=============================================================================
