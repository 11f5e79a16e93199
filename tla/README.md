# Verification of the Ollama network

TLA+ models, model-checking configurations and machine-checked proofs for the
reciprocal inference network in `src/src/ollama_network/` (X-Ring-Classic).
Paths below are relative to that directory unless they start with `src/`.

Contents

1. [The system](#1-the-system): components, state, interactions, what is hard
2. [Modules](#2-modules): which module models which part, and how
3. [Runs](#3-runs): what each one checks, its bounds
4. [Proofs](#4-proofs): what holds for every value of the constants, and why
5. [Disagreements between the notes and the code](#5-disagreements-between-the-notes-and-the-code)
6. [What is not modelled](#6-what-is-not-modelled)
7. [Plan](#7-plan)

## 1. The system

Users spend credits on inference jobs and earn them by letting their machines
(workers) serve the jobs of others.  A single server process keeps all state in
memory, saves it as one document, and is called by HTTP clients, by remote worker
daemons and by threads of its own that run local workers.

| Component | State | Operations |
|---|---|---|
| Ledger (`ledger.py`) | wallets (available, spent, earned), holds per job, typed rows | register_user, reserve, purchase, adjust, release, settle |
| Coordinator (`coordinator.py`) | workers, job records, queue of job ids | register/update worker, submit, assign, claim, complete, cancel, reroute, explain |
| Catalog (`catalog.py`) | a constant table of models | normalise and resolve a selector, price a reservation and a result |
| Service (`service.py`) | identities, conversations, worker tokens, sessions, loop status, the lock | every API operation, save after each, load at start |
| Local worker loops (`service.py:1129-1215`, `1568-1617`) | one thread, stop event and status per worker | start, stop, poll |
| State stores (`state_store.py`) | a local file or a Firestore document | save, load |
| Worker daemon (`worker_daemon.py`) | none between polls | register, claim, run, post the result |
| Executor (`executor.py`) | none | run a model, judge its output |
| Artifacts (`artifacts.py`) | none | find files in an answer |
| Auth (`auth.py`), API (`api.py`, `server.py`) | none of their own | verify an ID token or worker token, route |
| Dashboard (`dashboard.py`) | in the browser: who is signed in, the tracked job, the selected conversation, an interval | sign in and out, submit, restart, poll, pick a conversation |
| Landing page, CLI, detection, scripts | none | text and I/O |

**Interactions.** API handlers, daemons (through the API) and local loops call the
service; the service takes one re-entrant lock around each operation, calls the
coordinator, and saves.  The coordinator calls the ledger and the catalog
synchronously.  Because every coordinator method runs under the lock, a method is
one atomic action; concurrency is in the *order* of these actions, and outside the
lock: in model execution, saving, the network, the loop threads and the browser's
asynchronous handlers.

**A job's life.** `submit_job` puts the price of the largest answer on hold and
queues the id.  A scan of the queue (`assign_next_job`, or `claim_job_for_worker`
when a worker polls) hands the first servable job to a worker and turns the queue by
the ids it passed over.  `complete_job` gives the slot back and then either releases
the hold (failure, or a self-served job) or settles: the payer is charged at most the
reservation, 70 % of it goes to the worker's owner, the rest to the platform's wallet.
Queued jobs can be canceled or rerouted, failed ones submitted again.

**Where it is hard**

* Results come late, twice, or after the job was closed; `complete_job` checks the
  worker but never the status, and mutates before the ledger can refuse.
* Workers register again at any time: the node is replaced, its slot count restarts,
  its owner may be another user in the middle of a job.
* `settle` pops the hold before it validates; its share is truncated floating point.
* A refund is recorded *and* the reservation's row is dropped, so rows and balances
  must be read together.
* The queue is rotated by scans, filtered by cancellations and raced for by workers.
* Nothing ever reassigns a job whose worker went away; some changes are never saved;
  two servers may share one document; local loops race with stop and start.
* A request is authenticated under one hold of the lock and handled under another.
* Every handler of the page awaits its request and goes on with whatever the page's
  state is by then.

`PROJECT.json` lists each of these hazards at its line, with the properties that
would catch it going wrong or the reason why there is none.

**What makes each component correct**

* *Ledger*: conserves credits; never overdraws; a hold is closed once and handed out
  to the last credit; rows explain balances.
* *Coordinator*: holds are exactly the open jobs; the queue is exactly the queued
  jobs; no slot stays counted for a job that left; closed jobs stay closed; nobody earns from themselves.
* *Catalog*: what it says a worker can serve, a claim accepts; a reservation covers
  the cost of any answer within the limit.
* *Service and stores*: what was acknowledged survives a restart; no job is executed
  twice because of one.
* *Loops and daemon*: one loop per worker; after a stop, one claim at most; a claimed job
  is closed; a lost message costs one job at most.
* *Executor*: only a finished answer is paid; every run ends.
* *Conversations, identity*: prompts and answers belong to their turns; accounts, grants
  and tokens to the people they were bound or issued to.
* *Artifacts*: a file the answer names is created under that name; an answer that names
  none loses no block.
* *Dashboard*: what the user is shown catches up with the server; prompts go where, and
  are charged to whom, the page says.

## 2. Modules

| Module | Role |
|---|---|
| `Escrow` | abstract specification of what the ledger promises |
| `Ledger` | the ledger: state, one action per method, properties, refinement of `Escrow` |
| `Coordinator` | extends `Ledger`: workers, job records, queue, one action per method or outcome |
| `LedgerProofs`, `CoordinatorProofs`, `IdentityProofs`, `WorkerDaemonProofs`, `DashboardProofs`, `MatchingProofs` | theorems about the module of that name, and their proofs |
| `ServiceProofs` | the same of `Recovery`, `Conversations` and `SharedStore` |
| `ExecutionProofs` | the same of `LocalWorkerLoop`, `Executor` and `Artifacts` |
| `Recovery` | extends `Coordinator`: saves, crashes, the restart, executions that outlive it |
| `Conversations` | extends `Coordinator`: threads and turns around its calls |
| `Identity` | extends `Ledger`: accounts, tokens, and requests that are authenticated, then handled |
| `SharedStore` | several processes on one saved state |
| `LocalWorkerLoop` | the server's own loop threads against start and stop |
| `WorkerDaemon` | a remote worker, the network and the server's handlers |
| `Executor` | one run of a model: stream, timeouts, verdict |
| `Catalog`, `DefaultCatalog` | selectors, memory floors and prices; the table in the code |
| `Matching` | extends `Catalog`: resolution, ranking, claims, explanations and bills |
| `Artifacts` | the files of an answer, as functions over blocks |
| `Dashboard` | a tab of the page, its calls under way, and the server's answers |
| `MC...` | instances for TLC |

`Coordinator` is the hub: `Recovery`, `Conversations` extend it with the service's state
around the same actions, so that what they add is checked against the real holds, queue
and records; `Matching` fills in the choices that `Coordinator` leaves open.
`LocalWorkerLoop`, `WorkerDaemon` and `Dashboard` look at one side of a conversation with
the server closely, and at the server's part of it as far as that side can tell.

**Ledger.**  `registered`, `available`, `spent`, `earned` are the fields of the
`UserWallet`s (a wallet not yet created reads as zeros; `registered` says which
exist), `holds` is `_holds`, `transactions` is `_transactions` as a set of rows that
fresh `id`s tell apart (`nextEntry` stands for `uuid4`).  `Reserve`, `Release`,
`Settle`, `Purchase`, `Bootstrap` and `RegisterUser` are the methods with their checks;
`AdminAdjust` is `adjust` behind the checks of `service.admin_adjust_credits`, its only
caller besides `register_user`.  `Settle` keeps the code's order: the hold goes first, a cost outside it
then changes nothing else.  `SeventyPercent` is exactly what `int(cost * 0.70)` computes
on IEEE doubles (found by analysis and compared with Python for every cost up to
200000): one less than the exact product for some multiples of ten.

*Abstracted*: wallet and row timestamps; the free text in `source`; the order of rows.
*Assumed* (`LedgerAssumption`): amounts are positive where the code rejects others, and
no user has the platform wallet's id: ids the service issues are `usr_` and twelve hex
digits (`service.py:1300`), though a registration that brings its own id is not checked.

**Coordinator.**  `workers` and `jobs` are the dictionaries, `queue` is
`_queued_job_ids`.  `complete_job` is four actions, one per outcome: `FailJob`,
`SelfServedJob`, `SettleJob`, and `LateResult` for a job whose hold is gone, where the
ledger's `KeyError` leaves the slot given back and the result replaced.  They share
`AcceptResult`, which, like the code, does not look at the status.  `RotatedQueue(k)` is
the queue after a scan that took its k-th id.  `LedgerCall` is every service call that
reaches the ledger only, the wallet a failing submission leaves behind included.

*Abstracted*: prompts, tokens, timestamps; prices (any member of `Prices`; the catalog
never prices below one credit); model resolution (a worker offers the set of selectors
for which it has a model it can run, `serves`); ranking (`AssignNextJob` may pick any
candidate, `_select_worker` picks the best one); the stored result (none, verified or
failed).  `public_pool`, `runtime` and host memory are fixed at registration and folded
into `serves`.

**Escrow.**  Three variables and four actions: `Deposit`, `PutAside`, `GiveBack`,
`PayOutAll`.  `Ledger` implements it with `balance <- available`, `escrow <- holds`,
`closed <- ClosedJobs` (jobs with rows and no hold).

**Recovery.**  A call of the service is the coordinator's action and `Persist`: saved
(`Written`: `document` is all of the memory, and only then the client is told, `acked`) or
not (the exception reaches the client, the memory stays changed).  `CycleClaim` is
`run_worker_cycle`'s claim, which is not saved; `RemoteClaim` is the daemon's, which is.
`Crash` may come at any point, inside the in-place write too (`torn`, after which nothing
starts); `Restart` is `import_state`, which takes the records, the queue and each worker's
active count from the document as they were saved.  `executing` is what runs on machines that know nothing of a restart.

**LocalWorkerLoop.**  A thread's `pc` is the place of its cycle between two holds of the
lock: look at the event, claim, execute, complete, report, wait.  `StartLocalWorker` and
`StopLocalWorker` are atomic as the lock makes them, and come at every place.

**WorkerDaemon.**  `requests` and `replies` are messages of the starts of the daemon;
`LoseRequest`, `LoseReply`, `GiveUp` (the timeout while the request is still on its way)
and `EndDaemon` are faults.  Every fault ends the daemon, as the code has no retry;
`Register` is its next start.

**Matching.**  `nodes` and `jobs` are the coordinator's, with real tags, memory and
speeds.  The score is in integers (tenths), exact for the speeds of the instances.
`Catalog` has every selector and price function; `DefaultCatalog` is the code's table.

**Conversations.**  A message is its role, job and status; a job's turn records the
context it was compiled with.  `RefusedPrompt` is the submission whose reservation fails
after the thread was made.

**Identity.**  A request is in `requests` with the credentials it was accepted with, and
handled later or refused.  `SignIn` is `get_authenticated_session` for a uid.

**SharedStore.**  The state is the set of facts that saved calls added; a process starts
with the document and each of its saves writes all it knows.  Processes run at will, as
nothing in the code keeps them apart.  `contested` is a history: the facts that were
answered while another process ran.  No guard reads it; the properties that hold do.

**Executor.**  A line of the stream is one of seven kinds, two of them last lines: those
whose `done_reason` is "stop" and the others.  `Verdict` follows the merged payload: `Done`
is the `done` field of the last line that has one, true if none has; `Stopped` is the
`done_reason` "stop" of the last final line, which overrules it (`executor.py:79-81`), so
that a stream that goes on after its last line is still verified.  `urlopen` waits for the
connection (`Connect`) and for the headers (`Respond`), each under its own idle timeout;
then lines are read.  `clock` ticks between these.

*Abstracted*: a line arrives whole.  Bytes that trickle in restart the read's timeout while
no line is complete, so the bound of `EndsInTime` is one on streams whose lines arrive whole.

**Artifacts.**  A path is its directory, name and the numbers appended to it, so that
"the renamed path equals another block's name" can be told without strings.

**Dashboard.**  `authUser` to `pollHandle` are fields of the script's `state`; `intervals`
counts the timers that run.  A call is in `calls` from the request to the rest of its
handler; in between the server serves it, or it fails, or is repeated after a 401 as
whoever is signed in.  The chain `handleAuthenticatedSession` is the calls "session",
"open", "first" and "wallet" after each other.

**Variants.**  Operators in the sections "Variants of the methods", and those marked
"Variant with a bug", are not part of any specification.  Each is a plausible mistake;
put in place of its original it makes TLC report the property named beside it in
`PROJECT.json`, which shows that the property can fail.

## 3. Runs

| Run | Instance | What it shows |
|---|---|---|
| `ledger` | 2 users, 2 jobs, prices 1-3, grants of 3, adjustments -1 and 2, 2 mint rows; 208 206 states | types, pending rows, balances explained by rows, conservation, rows of each job, refinement of `Escrow` |
| `coordinator` | 2 users, 2 jobs of 2 selectors, 2 workers with two possible registrations (other owner, limit, selectors), prices 1-2; 559 792 states | holds, records, rows and queue agree; slots are not leaked; earnings come from others; closed jobs stay closed; refinement of `Ledger` |
| `recovery` | 2 users, 2 jobs, 1 worker; 165 769 states | told answers survive crashes at every point; executions find their holds; the state served is sound |
| `local_loop` | 3 threads, 2 jobs, capacity 1; 8 522 states | one loop, one late claim, loops end, claimed jobs are closed (liveness) |
| `worker_daemon` | 3 jobs, 3 faults, 4 starts of the daemon; 28 639 states | executed once, one job per fault, the others served (liveness) |
| `matching` | the code's catalog, 2 workers, 6 machines, 6 selectors, 1 job at a time; 190 203 states | explanations, capacity, prices and ranking |
| `conversations` | 3 jobs, 2 threads, contexts of 2 messages; 353 986 states | prompts, answers and turns |
| `identity` | 2 people (1 admin), 1 worker, 1 token, 1 job, 2 requests at a time; 366 329 states | accounts and grants |
| `executor` | streams of 4 lines, timeouts of 2 and 4 ticks; 61 872 states | the verdict, and that runs end (liveness) |
| `artifacts` | answers of 4 blocks, prompts that name up to 3 files; 723 872 states | which files are written |
| `dashboard` | 2 people, 2 jobs, 1 conversation, 2 calls under way; 1 699 535 states | intervals, and who pays |
| `shared_servers` | 2 servers, 1 token command, 2 purchases, 2 tokens | a violation, section 5 |

Each run asks its questions of one instance.  Further configurations are kept beside
them, for larger or narrower instances and for the disagreements of section 5; they are
run as `tlc -config <file> <module>`.

| Configuration | What it shows |
|---|---|
| `MCSharedStoreUncontested.cfg` | the processes of `shared_servers` (173 573 states): `UncontestedAnswersLast`, `UncontestedRevocationsHold` |
| `MCDashboardPolls.cfg` | 1 person, no sign-out (71 848 states): `FinishedJobsAreShown`, the end of the tracked job is shown eventually and stays (liveness) |
| `MCCoordinatorSelfOwned.cfg`, `MCCoordinatorOwnerShare.cfg`, `MCCoordinatorRepeatedResult.cfg`, `MCLocalWorkerLoopStopped.cfg`, `MCLocalWorkerLoopStarted.cfg`, `MCSharedStoreCommand.cfg`, `MCArtifactsFiles.cfg`, `MCDashboardNewConversation.cfg` | violations, section 5 |

**Bounds.**  `MaxMints` caps the rows that create credits, and with them all other
unbounded behaviour: every job consumes one of finitely many ids, every other row
belongs to a job.  No variable is truncated by a state constraint.  Two jobs suffice
for one job's hold, rows or id to be confused with another's; two users for payer and
owner to differ, swap or coincide; prices 1-3 contain a share of nothing before it is
raised (1), an uneven split (2, 3) and partial refunds; one grant pays for two jobs
but not for every pair of reservations, so refused reservations occur.  Two workers are
needed for results of one to meet slots of the other, and a worker registered again
under another owner for a hand-over in mid-job.  Three jobs would be the fewest where a
scan skips one, takes one and leaves one; that the queue survives it is proved for any
number of jobs (`QueueIsTheQueuedJobs`), as are slots for any limits and workers.  Job and
worker ids are symmetric where a configuration says so; no property under symmetry is a
liveness property.

Of the other modules: three threads are a loop that was stopped, its successor and one
more start; two jobs are one in hand and one to claim late.  Three faults are a lost
claim, a lost result and a late one.  Four blocks are two with one name, one that
is named as the second is renamed, and one more, and the prompt may name the file that a
third page without a name would get; four lines a beginning, two in between
and an end.  Two calls under way are the fewest whose answers change order; a second
conversation adds only which of them is selected, and `MCDashboardNewConversation.cfg` has
two.  In
`identity` a job can put all bootstrap credits on hold, the case `register_user` could
mistake for an empty wallet.  The offers of `matching` contain a memory floor met exactly,
two equally strong models, a model without a measurement and one not in the catalog.

**Deadlock** is checked except where the system stops: an execution (`executor`) and an
answer (`artifacts`) end, and a server whose state file is torn never starts again
(`recovery`).

**Fairness.**  Assumed of what runs by itself, never of people:

* `LocalWorkerLoop`: weak fairness of each loop thread.  Threads are scheduled, no hold of
  the lock waits for anything, and the executor returns (`RunEnds`).
* `WorkerDaemon`: weak fairness of the daemon's own steps, of each handler for a request
  that arrived, and of starting a daemon that ended, which is the operator's part: without
  it one lost message ends all service.  Losing messages is never fair.
* `Executor`: weak fairness of time, and of the read timeout that is due; none of Ollama.
* `Dashboard` (`MCDashboardPolls.cfg`): every call ends (weak); the timer goes on firing
  (strong, as the bound on calls under way disables it now and then, which no browser
  does); polls do not fail for ever (strong), an assumption on the network, not on the code.

The coordinator itself gives no progress guarantee: a claimed job may stay assigned for
ever (`Orphans` in `WorkerDaemon`).

## 4. Proofs

All proofs are checked by `tlapm` from the assumptions on constants only, each in the
module that declares the constants; TLC evaluates them on every run.

* `LedgerAssumption`, `CoordinatorAssumption`, `IdentityAssumption`, `LoopAssumption`,
  `DaemonAssumption`, `MatchingAssumption`, `ArtifactsAssumption` say what kind of value a
  constant is, that users, job ids and the names in a prompt are finitely many in any one
  behaviour, and that the names for "none" and for the platform are nobody's.
* `ExecutorAssumption`: the idle timeout is positive and twice as long no longer than the
  overall one, as the defaults are (`executor.py:26-27`), so that the waits for the
  connection and the headers do not use up the overall time.
* `CatalogAssumption`: finitely many models, each with a price tier and a quality, and some
  model of each quality, as in the table of the code (`DefaultCatalog`).
* `TiersOutweighTerms`, used by `NearestTierAlwaysWins` alone: strengths are under 150, and a
  model under the highest price tier needs 24 GB at most.  The table satisfies it; the score
  does not enforce it, and a table that breaks it may break the ranking.

Users, workers, jobs, prices, offers, threads, faults, timeouts, catalogs, names of files
and every bound are otherwise arbitrary.

*Ledger* (`LedgerProofs`)

* `LedgerTypeCorrect`: `LedgerTypeOK` is inductive by itself.  Its content is that the
  three parts of a settlement are natural numbers (`WorkerShareBounds`,
  `SettlementParts`), so no wallet goes below zero.
* `PendingRowsMatchHolds`: inductive next to the types.  Closing a job drops exactly the
  one pending row of its hold (`CloseKeepsPending`); a fresh id adds one.
* `LedgerImplementsEscrow`: each call is a deposit, a putting aside, a giving back or a
  complete pay-out.  The pay-out needs `SettlementParts` and that the owner is not the
  payer.
* `RowsExplainTheBalances`, `CreditsAreConserved`, `JobRowsAlwaysBalance`: the three parts
  of `BooksBalance`, inductive next to `LedgerInv` (types, pending rows, and fresh ids:
  without the latter a recorded row might be there already and add nothing).  A sum is a
  fold, defined by recursion over the choice of elements; that it does not depend on the
  choice is proved by choosing a smallest counterexample among subsets (`SmallestNat`,
  `SubsetInduction`, `AnyOrder`), and from then on sums are only used through
  `SumFunctionAdd` and `SumFunctionUpdate`: what one more element, or another value at one
  place, does to them.  The rest says per call which rows it adds and drops
  (`RecordTotals`, `ReleaseTotals`, `SettleTotals`).

*Coordinator* (`CoordinatorProofs`)

The inductive invariant `CoordinatorInv` is the types, `HoldsMatchOpenJobs`, and
`RowsOfKnownJobs`: no row mentions a job that was never submitted.  The last one is what
makes a submission's id fresh *to the ledger*; `HoldsMatchOpenJobs` is what bounds the
bill by the hold and makes a late result find no hold.  With it every step of the
coordinator is a ledger step (`CoordinatorStepIsLedgerStep`), so the ledger's type
correctness is inherited rather than proved again, and the rest splits into lemmas on
how each handler edits a job record (`...Edit`) and on what such edits keep
(`SubmitKeepsInv`, `CloseKeepsInv`, `EditKeepsInv`).

* `CoordinatorTypes`, `HoldsAreOpenJobs`: parts of the invariant.
* `CoordinatorImplementsLedger`, and through it `CoordinatorImplementsEscrow` and
  `CoordinatorConservesCredits`.
* `ClosedForGood`: a closed job has no hold, so only a late result can reach it, and
  that edits nothing but the stored result.
* `EarningsComeFromOthers`: earn rows are added by `SettleJob` only (`RowsAdded`), for an
  owner other than the requester; the job is then completed, hence unaltered from there on.
* `RecordsAlwaysMatchRows`: `RecordsInv` says for every record that its four amounts are the
  totals of its settled rows.  An open job has no settled rows yet, so the rows of its
  closing are all of them (`OpenJobIsUnbooked`); a closed job gets no more.
* `AssignedWorkersAreKnown`, `SlotsNeverLeak`: a worker's count goes up with an assignment
  only, and a result takes it down by one at most; registering again sets it to zero, which
  is why the property is an inequality: it says that no slot is lost, not that none is
  given back twice or that a worker has no more jobs than its limit, which registering
  again in mid-job can bring about.  Needs the library's facts on cardinality.
* `QueueIsTheQueuedJobs`: `QueueInv` says that the queue has no repetition and that its
  elements are the queued jobs; the length in `QueueHoldsQueuedJobs` follows
  (`DistinctLength`).  A filter is a recursive function over prefixes (`Keeping`), about
  which `KeepingElements` says all that is needed, and a rotation is a concatenation
  (`RotatedElements`).
* `CoordinatorTypeCorrect`: `TypeOK`, the queue's type included.

*Recovery* (`ServiceProofs`)

Two coordinators are in order at every moment, the one in memory and the one in the
document (`Saved`, an instance of `CoordinatorProofs` with the document's fields for its
variables).  A call moves the first by a step of the coordinator; a save copies the first
over the second; a restart copies the second into the first (`coordinator.py:549`, `616`),
queue and active counts included, which then satisfy the invariants, as the document
does (`RestoredIsSound`).  `RecoveryInv` adds that what
was answered is what the document says, that a running server knows it, and that an
execution is of a job assigned to its worker, in memory, and in the document if it runs on
another machine.

* `AnswersAlwaysSurvive`, `ExecutionsAlwaysAssigned`, `ServedStateAlwaysSound`.

*Conversations* (`ServiceProofs`)

* `ConversationsImplementCoordinator`: each call of the service is a call of the coordinator
  inside or none, so the coordinator's theorems hold of it; in particular holds tell a
  first result from a repeated one.
* `PromptsAlwaysAnsweredOnce`, `MessagesAlwaysHaveJobs`, `TurnsAlwaysFollowThread`:
  `ConversationsInv` follows each job to its thread (`Told`).  Messages are only appended,
  so a message's turn and context are functions of a prefix no later step changes
  (`PrefixAppended`, `NumberedAppended`).

*Shared store* (`ServiceProofs`), for any number of servers and commands that overlap

* `UncontestedAnswersAlwaysLast`, `UncontestedRevocationsAlwaysHold`: in `SharedInv` what
  was answered while no other process ran is in the document and in every running memory.
  A process that starts loads it, and a save, of whatever memory, writes it
  (`SaveKeepsShared`).  So an answer that is lost, as run `shared_servers` shows one, was
  given while another process ran.

*Identity* (`IdentityProofs`)

* `AccountsAlwaysBound`, `BootstrapGrantedOnce`: a request is handled long after it was
  authenticated, so `NamesInv` follows the names it brings: its actor, and the owners,
  token users and payers, all have a wallet; `BindingsInv` says that wallets are those of
  bound accounts, and `GrantsInv` that a wallet has one bootstrap row.
* `ApiConservesCredits`: every handler is a call of the ledger or none.

*Local loops* (`ExecutionProofs`), for any number of threads, jobs and slots

* `OneLoopAtATime`: `OneLoopPerWorker` is inductive next to the types.  A start replaces
  the registered thread only when it is not alive, and then no thread is.
* `LateClaimsAreOne`: `OneLateClaim` alone is not inductive.  `LateClaimsAreLast` adds that
  a thread with a late claim has its event set and is past the claim, so that its next look
  at the event ends it.

*Executor* (`ExecutionProofs`), for any timeouts and streams of any length

* `RunsEndInTime`: `EndsInTime` alone is not inductive.  `TimesBounded` says that the clock
  without the silence since the last byte is within the overall timeout, which a line
  resets only while it is, that the silence is within the idle timeout, and that the two
  waits before the stream take an idle timeout each.
* `VerifiedMeansFinished`: "done" is asked of the last line that has the field, and the
  "stop" that overrules it comes with a last line only; the last of the lines with a field
  is one of them (`LastOfIsCarried`), as a nonempty set of places has a last one
  (`LastPlace`).

*Artifacts* (`ExecutionProofs`), for any number of blocks, names and defaults

* `NamedFilesAlwaysExist`: of the blocks with one path the first keeps it
  (`FirstKeepsPath`), and it exists (`FirstFile`), so the path is written.
* `UnnamedBlocksAlwaysSurvive`: the files of such an answer differ (`UnnamedDiffer`).  A
  later block of a path counts more (`SamePathGrows`); a renaming has one number more than
  the path the prompt or the counter of blocks gave.  The proof needs that the prompt names
  no path with two numbers; without it the property is false, see section 5.

*Matching* (`MatchingProofs`), for every catalog, machine, selector and limit

* `FittingModelsServe`: if one model of a quality fits, some strongest one among those that
  fit exists (`StrongestExists`, from `SomeUnbeaten`: in a finite set with a transitive
  and irreflexive order some member is beaten by none), and the claim takes it.
* `ExplanationsAgree`: the model chosen among all installed ones, if it fits, is still among
  the strongest of those that fit (`ChosenAmongFewer`), and "auto" means the same quality.
* `ReservationsCoverBills`: `MatchInv` says that an assigned job's model is one its selector
  may resolve to.  The reservation is the dearest of those (`ReservationIsDearest`), and
  the price grows with the tokens (`CreditsGrow`).
* `NearestTierAlwaysWins`: of two models at one speed a nearer tier counts at least 600
  points, a tier above the one asked for 500 more; strength gives less than 600, and VRAM
  takes points from the highest tier only (`TierDecides`).

*Worker daemon* (`WorkerDaemonProofs`), for any number of jobs, faults and starts

* `JobsExecutedOnce`: whoever speaks of a job (the daemon, a request, a reply) has it off the
  queue, and a job leaves the queue once (`HandedInv`).
* `FaultsCostOneJobEach`: `OneJobPerFault` alone is not inductive, as a claim the daemon
  gave up on may yet be served and take a job at no further fault.  `LossesInv` counts
  such claims with the lost jobs: together they are at most the faults.  `OneUnderWay`
  makes one fault end at most one of them.

*Dashboard* (`DashboardProofs`), for any number of people, jobs and calls under way

* `IntervalsAreRemembered`: `NoStrayInterval` with the type of the handle; only signing out
  and `EnsurePolling` touch the two.
* `ShownAccountAlwaysPays`: jobs are made where the server serves a submission or a restart
  (`JobsMade`); the first is charged to the account the page showed, the second names
  nobody (`RestartsNameNobody`) and is charged to whoever's token it carries.

*Model-checked only*

* liveness (`StopEndsLoop`, `ClaimedJobsAreClosed`, `QueuedJobsAreServed`, `RunEnds`,
  `FinishedJobsAreShown`), which is out of the prover's reach;
* the configurations that TLC refutes, section 5.

Every invariant, action property and refinement that a run checks is stated by a theorem.

Each invariant a theorem states is model-checked by the run that lists it.  The inductive
invariants `CoordinatorInv`, `RecoveryInv`, `ConversationsInv`, `IdentityInv`, `DaemonInv`,
`MatchInv`, `RunInv` and `SharedInv` were model-checked too, on the instances of their runs.

## 5. Disagreements between the notes and the code

Each is a property that quotes its source and a configuration that TLC refutes; the one
of the servers is a run of the project.

* **Self-owned workers** (`SelfOwnedWorkersExcluded`; `src/LLM_NETWORK_MVP.md:11`: "Self-owned workers are excluded
  from network assignment to prevent self-farming.").  An administrator's worker claims
  with `allow_own_jobs`, and a worker may change owner while it holds a job.  Such jobs
  are refunded, so no credits are farmed (`EarnedFromOthers`), but they are assigned.
* **The owner's share** (`OwnerReceivesActualCredits`; `src/LLM_NETWORK_MVP.md:31`: "Transfer the actual job credits to
  the worker owner and refund unused reservation.").  The owner gets 70 %.
* **Repeated results** (`CompletedJobsAreVerified`; `src/LLM_NETWORK_MVP.md:30`: "Complete the job with a verified
  result.").  A failing repeat replaces the verified result of a completed job; the
  call then raises `KeyError`.  Credits and status are untouched (`ClosedForGood`).
* **Stopping a local worker** (`StoppedWorkerIsOffline`; `dashboard.py:1744`: "Worker ${workerId} was stopped.").
  A stop in the middle of a cycle does not reach the cycle's claim, which puts the worker
  back online and may take one more job (at most one: `OneLateClaim`).
* **Starting it again** (`StartedWorkerHasLoop`; `src/tests/test_runtime_api.py:255`: `assert
  started["loop"]["running"] is True`).  A start during the last cycle of a stopped
  thread starts nothing; the answer says it runs, and then nothing does.
* **Two servers** (`BalancesPersist`, run `shared_servers`; `src/README.md:175`: "To persist balances, conversations, account
  bindings, and history across multiple machines, configure the Firestore backend").  Two
  servers at a time erase each other's answers; what one answered while it ran alone they do
  not (`UncontestedAnswersLast`).
* **Tokens on the command line** (`IssuedTokensAccepted`; `src/README.md:217`: "Issue a worker token on the
  coordinator host").  A running server neither knows such a token nor keeps it.
* **Created files** (`CreatedFilesExist`; `dashboard.py:1784`: "Created ${payload.files.length} file(s) in
  ${payload.export_dir}.").  A renamed file can overwrite another block's file.
* **A new conversation** (`NewConversationStays`; `dashboard.py:836`: "Start a new conversation").  The next poll
  of the last job selects its conversation again, unseen: the select box stays blank, and
  the prompt goes into the old conversation.

The models also show, without a statement of the repository to hold against it: a
claim that is served after the daemon was started again takes a slot for good
(`lateClaim` in `WorkerDaemon`); a failed job can be restarted and charged any number of
times; an answer to an older poll shows a finished job as queued until the next one; a
rerouted job keeps the reservation of its old selector, so its worker may be paid less
than the price; and where the prompt names `index-3.html` and `index-3-2.html`, a third page
without a name is renamed to the second of these and overwrites it
(`UnnamedBlocksSurvive` excepts such prompts).

## 6. What is not modelled

* Landing page, branding, detection of hardware and models, deployment scripts: no state
  of the network.
* Views of the service that only read: overview, statistics, network map, contexts.
* Migrations of documents of older versions (`ledger.py:241-262`, `323-355`): they run once,
  on data no current call produces.
* The verification of Firebase tokens, an external library; sanitising paths and parsing
  Markdown in `artifacts.py`; estimating tokens from text.
* The dashboard's drawing, drawers and administrator's console.

## 7. Plan

What can be proved of what the runs check is proved.  What is left:

1. Deeper theorems about the components that have the fewest: of `Dashboard`, that the
   prompts of one thread are one person's; of `Identity`, that a revoked token stays
   revoked and an account stays bound (action properties).
2. The migrations of old documents (`ledger.py:241-262`, `323-355`), as functions from one
   document to another that the coordinator's invariants survive.
3. The views the service computes without saving, should they come to decide anything.
