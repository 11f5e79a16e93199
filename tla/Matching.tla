------------------------------ MODULE Matching ------------------------------
(***************************************************************************)
(* How a queued job finds a model on a worker (coordinator.py with         *)
(* catalog.py and models.py): resolution of selectors, the capacity test,  *)
(* the ranking of workers, the explanation shown to a worker's owner, and  *)
(* what the match costs.  Coordinator models the same calls with the       *)
(* outcome of this match left open.                                        *)
(*                                                                         *)
(* Abstracted: the ledger (see Coordinator); prompts, of which only the    *)
(* tokens count; the wording of the explanation.                           *)
(***************************************************************************)
EXTENDS Catalog, Sequences

CONSTANTS
    Workers, Users,
    NoWorker, NoModel,      \* None
    Jobs,                   \* bound: job ids of a behaviour
    Selectors,              \* bound: selectors and tags that clients name
    TokenCounts,            \* bound: prompt tokens plus output limit of a job, tokens used
    Offers                  \* bound: what a worker registers with

(* A worker as register_worker takes it, its benchmarks by model. *)
IsMachine(offer) ==
    /\ DOMAIN offer = {"owner", "installed", "speed", "ram", "online", "capacity", "active"}
    /\ offer.speed \in [offer.installed -> Nat]

(* Selectors are normalised: others are refused (catalog.py:319). *)
ASSUME MatchingAssumption ==
    /\ Selectors \subseteq QualitySelectors \cup Tags
    /\ TokenCounts \subseteq Nat
    /\ \A offer \in Offers : IsMachine(offer)

(* What the weights of the score rely on, and the catalog satisfies: the   *)
(* strengths are less than a tier apart, and no model below the highest    *)
(* tier is charged for its VRAM.                                           *)
ASSUME TiersOutweighTerms ==
    \A tag \in Tags :
        /\ Models[tag].strength < 150
        /\ Models[tag].rank < 4 => Models[tag].vram <= 24

VARIABLES
    nodes,          \* worker id -> [owner, installed, speed (0 without a benchmark),
                    \*               ram (effective_host_ram_gb), online, capacity, active]
    jobs,           \* job id -> JobRecord
    queue           \* _queued_job_ids

vars == <<nodes, jobs, queue>>

IsQueued(job) == job \in DOMAIN jobs /\ jobs[job].status = "queued"

OwnJob(worker, job) == nodes[worker].owner = jobs[job].requester

HasRoom(node) == node.active < node.capacity

(* WorkerNode.supports_model *)
SupportsModel(node, tag) ==
    /\ node.online
    /\ tag \in node.installed /\ node.speed[tag] > 0
    /\ HasRoom(node)
    /\ node.ram >= EstimatedSystemRam(tag)

(* Variant with a bug: the strongest model is picked, then tested.         *)
ResolveModelForWorkerThenTest(node, selector, requireCapacity) ==
    ResolveSelector(selector, node.installed \cap Tags)

(* _resolve_model_for_worker *)
ResolveModelForWorker(node, selector, requireCapacity) ==
    ResolveSelector(selector,
        {tag \in node.installed \cap Tags : requireCapacity => SupportsModel(node, tag)})

(* The models claim_job_for_worker may take the job with. *)
ClaimModels(node, job) ==
    {tag \in ResolveModelForWorker(node, jobs[job].selector, TRUE) : SupportsModel(node, tag)}

Online(worker) == [nodes[worker] EXCEPT !.online = TRUE]

CanClaim(worker, job, allowOwn) ==
    /\ IsQueued(job)
    /\ allowOwn \/ ~OwnJob(worker, job)
    /\ ClaimModels(Online(worker), job) # {}

(* Variant with a bug: an installed model is enough.                       *)
UnblockedIfInstalled(worker, job, allowOwn) ==
    /\ allowOwn \/ ~OwnJob(worker, job)
    /\ HasRoom(nodes[worker]) /\ nodes[worker].online
    /\ ResolveModelForWorker(nodes[worker], jobs[job].selector, FALSE) # {}

(* _queue_block_reason is empty: the job counts as compatible.  Models of  *)
(* equal strength may be told apart either way: \E.                        *)
Unblocked(worker, job, allowOwn) ==
    /\ allowOwn \/ ~OwnJob(worker, job)
    /\ HasRoom(nodes[worker]) /\ nodes[worker].online
    /\ \E tag \in ResolveModelForWorker(nodes[worker], jobs[job].selector, FALSE) :
         SupportsModel(nodes[worker], tag)

-----------------------------------------------------------------------------
(* Ranking *)

TargetRank(selector) ==
    CASE selector = "good" -> 1 [] selector = "best" -> 4 [] OTHER -> 2

RankDistance(tag, selector) ==
    LET gap == Models[tag].rank - TargetRank(selector) IN IF gap > 0 THEN gap ELSE -gap

(* Variant with a bug: only the speed and the strength count.              *)
WorkerScoreUnranked(node, tag, selector) == 20 * node.speed[tag] + 4 * Models[tag].strength

(* _worker_score times 20, for reliability 1. *)
WorkerScore(node, tag, selector) ==
    LET throughput == 20 * node.speed[tag] + 4 * Models[tag].strength
        overshoot  == Max({0, Models[tag].rank - TargetRank(selector)})
        autoVram   == IF selector = "auto" THEN Max({0, Models[tag].vram - 24}) ELSE 0
    IN  IF selector \in QualitySelectors
        THEN throughput - 600 * RankDistance(tag, selector) - 500 * overshoot - 5 * autoVram
        ELSE throughput

(* The workers _select_worker scores, with the model each would use. *)
Candidates(job) ==
    {pair \in (DOMAIN nodes) \X Tags :
        /\ ~OwnJob(pair[1], job)
        /\ pair[2] \in ClaimModels(nodes[pair[1]], job)}

Score(job, pair) == WorkerScore(nodes[pair[1]], pair[2], jobs[job].selector)

BestCandidates(job) ==
    {pair \in Candidates(job) :
        \A other \in Candidates(job) : Score(job, pair) >= Score(job, other)}

-----------------------------------------------------------------------------
(* Methods of OllamaNetworkCoordinator *)

Init ==
    /\ nodes = [worker \in {} |-> 0]
    /\ jobs = [job \in {} |-> 0]
    /\ queue = <<>>

With(f, key, value) == [x \in DOMAIN f \cup {key} |-> IF x = key THEN value ELSE f[x]]

RegisterWorker(worker, offer) ==
    /\ nodes' = With(nodes, worker, offer)
    /\ UNCHANGED <<jobs, queue>>

StopWorker(worker) ==
    /\ worker \in DOMAIN nodes
    /\ nodes' = [nodes EXCEPT ![worker].online = FALSE]
    /\ UNCHANGED <<jobs, queue>>

SubmitJob(job, requester, selector, tokens) ==
    /\ job \notin DOMAIN jobs
    /\ jobs' = With(jobs, job,
           [requester |-> requester, selector |-> selector, tokens |-> tokens,
            reserved |-> EstimateReservation(selector, tokens), rerouted |-> FALSE,
            status |-> "queued", worker |-> NoWorker, model |-> NoModel, used |-> 0, actual |-> 0])
    /\ queue' = Append(queue, job)
    /\ UNCHANGED nodes

(* Keeps the credits reserved for the old selector. *)
RerouteQueuedJob(job, selector) ==
    /\ IsQueued(job)
    /\ jobs' = [jobs EXCEPT ![job].selector = selector, ![job].rerouted = TRUE]
    /\ UNCHANGED <<nodes, queue>>

RotatedQueue(k) ==
    SubSeq(queue, k + 1, Len(queue)) \o SelectSeq(SubSeq(queue, 1, k - 1), IsQueued)

Assign(k, worker, tag) ==
    /\ jobs' = [jobs EXCEPT ![queue[k]].status = "assigned", ![queue[k]].worker = worker,
                            ![queue[k]].model = tag]
    /\ queue' = RotatedQueue(k)
    /\ nodes' = [nodes EXCEPT ![worker].online = TRUE, ![worker].active = @ + 1]

AssignNextJob(k) ==
    /\ k \in 1 .. Len(queue)
    /\ IsQueued(queue[k])
    /\ \A i \in 1 .. k - 1 : IsQueued(queue[i]) => Candidates(queue[i]) = {}
    /\ \E pair \in BestCandidates(queue[k]) : Assign(k, pair[1], pair[2])

ClaimJobForWorker(worker, allowOwn, k) ==
    /\ worker \in DOMAIN nodes
    /\ k \in 1 .. Len(queue)
    /\ CanClaim(worker, queue[k], allowOwn)
    /\ \A i \in 1 .. k - 1 : ~CanClaim(worker, queue[i], allowOwn)
    /\ \E tag \in ClaimModels(Online(worker), queue[k]) : Assign(k, worker, tag)

(* complete_job, for the first, verified result of a job: the bill is the  *)
(* price of the model that ran, cut at the reservation; a job of the       *)
(* worker's own owner is free (completed too, told apart here).            *)
CompleteJob(job, used) ==
    /\ job \in DOMAIN jobs
    /\ jobs[job].status = "assigned"
    /\ jobs' = IF OwnJob(jobs[job].worker, job)
               THEN [jobs EXCEPT ![job].status = "selfServed", ![job].used = used]
               ELSE [jobs EXCEPT ![job].status = "completed", ![job].used = used,
                        ![job].actual = Min({jobs[job].reserved, ActualCost(jobs[job].model, used)})]
    /\ nodes' = [nodes EXCEPT ![jobs[job].worker].active = Max({@ - 1, 0})]
    /\ UNCHANGED queue

Next ==
    \/ \E worker \in Workers, offer \in Offers : RegisterWorker(worker, offer)
    \/ \E worker \in Workers : StopWorker(worker)
    \/ \E job \in Jobs, user \in Users, selector \in Selectors, tokens \in TokenCounts :
         SubmitJob(job, user, selector, tokens)
    \/ \E job \in Jobs, selector \in Selectors : RerouteQueuedJob(job, selector)
    \/ \E k \in 1 .. Len(queue) : AssignNextJob(k)
    \/ \E worker \in Workers, allowOwn \in BOOLEAN, k \in 1 .. Len(queue) :
         ClaimJobForWorker(worker, allowOwn, k)
    \/ \E job \in Jobs, used \in TokenCounts : CompleteJob(job, used)

Spec == Init /\ [][Next]_vars

-----------------------------------------------------------------------------
(* Properties *)

(* A job counted as compatible in the explanation (coordinator.py:318,     *)
(* 491: resolved without the capacity test, tested afterwards) is one the  *)
(* claim would take (:131: tested first, resolved afterwards); for a job   *)
(* that names a model the two agree both ways.                             *)
ExplanationAgrees ==
    \A worker \in DOMAIN nodes, job \in Jobs, allowOwn \in BOOLEAN :
        IsQueued(job) =>
            /\ Unblocked(worker, job, allowOwn) => CanClaim(worker, job, allowOwn)
            /\ (CanClaim(worker, job, allowOwn) /\ nodes[worker].online /\ jobs[job].selector \in Tags)
                 => Unblocked(worker, job, allowOwn)

(* An installed model that does not fit in memory, or was never measured,  *)
(* hides no model that does: a worker with any model of the asked quality  *)
(* it can run is given the job (coordinator.py:462, capacity first).       *)
FittingModelServes ==
    \A worker \in DOMAIN nodes, job \in Jobs :
        /\ IsQueued(job)
        /\ \E tag \in CandidateModels(jobs[job].selector) : SupportsModel(nodes[worker], tag)
        => CanClaim(worker, job, TRUE)

(* The reservation made before any model was known (catalog.py:354) covers *)
(* the bill of whichever model ran, so the cut at complete_job takes       *)
(* nothing from a worker whose job kept its selector and its limits.       *)
ReservationCoversBill ==
    \A job \in DOMAIN jobs :
        /\ jobs[job].status = "completed"
        /\ ~jobs[job].rerouted
        /\ jobs[job].used <= jobs[job].tokens
        => jobs[job].actual = ActualCost(jobs[job].model, jobs[job].used)

(* Among workers of equal speed assign_next_job gives a quality selector   *)
(* to one whose model's price tier is nearest to the tier asked for: the   *)
(* strength and VRAM terms of the score (coordinator.py:435) never         *)
(* outweigh a tier.                                                        *)
NearestTierWins ==
    [][\A job \in DOMAIN jobs :
        /\ IsQueued(job)
        /\ jobs[job].selector \in QualitySelectors
        /\ \E k \in 1 .. Len(queue) : queue[k] = job /\ AssignNextJob(k)
        => \A pair \in Candidates(job) :
             nodes[pair[1]].speed[pair[2]] = nodes[jobs'[job].worker].speed[jobs'[job].model] =>
                RankDistance(jobs'[job].model, jobs[job].selector)
                  <= RankDistance(pair[2], jobs[job].selector)]_vars

=============================================================================
