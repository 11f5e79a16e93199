--------------------------- MODULE MatchingProofs ---------------------------
(***************************************************************************)
(* Proofs about the match of a job and a model (Matching), for every       *)
(* catalog, machine and limit that Catalog and Matching assume.            *)
(*                                                                         *)
(* The inductive invariant MatchInv says that the nodes are machines and   *)
(* that every job is priced: its reservation is the one of its selector,   *)
(* and the model that ran is one the selector may resolve to.  The rest is *)
(* about one state, and rests on the lemmas about a finite catalog: a      *)
(* model that no other beats exists, and it stays unbeaten among fewer.    *)
(***************************************************************************)
EXTENDS Matching, FiniteSetTheorems, WellFoundedInduction, TLAPS

(* A finite set has a member that no other beats.                          *)
LEMMA SomeUnbeaten ==
    ASSUME NEW S, IsFiniteSet(S), S # {}, NEW Beats,
           \A x \in S : <<x, x>> \notin Beats,
           \A x, y, z \in S : <<x, y>> \in Beats /\ <<y, z>> \in Beats => <<x, z>> \in Beats
    PROVE  \E x \in S : \A y \in S : <<y, x>> \notin Beats
<1> DEFINE above == [x \in S |-> {y \in S : <<y, x>> \in Beats}]
           size == [x \in S |-> Cardinality(above[x])]
           Sizes == {size[x] : x \in S}
<1>1. \A x \in S : above[x] \in SUBSET S /\ IsFiniteSet(above[x]) /\ size[x] \in Nat
  <2> TAKE x \in S
  <2>1. above[x] \in SUBSET S
    OBVIOUS
  <2>2. IsFiniteSet(above[x]) /\ Cardinality(above[x]) \in Nat
    <3> HIDE DEF above
    <3> QED
      BY <2>1, FS_Subset, FS_CardinalityType
  <2> QED
    BY <2>1, <2>2
<1>2. \A x, y \in S : above[y] \subseteq above[x] /\ above[y] # above[x] => size[y] < size[x]
  <2> TAKE x, y \in S
  <2> HAVE above[y] \subseteq above[x] /\ above[y] # above[x]
  <2>1. size[x] = Cardinality(above[x]) /\ size[y] = Cardinality(above[y])
    OBVIOUS
  <2> HIDE DEF above, size
  <2> QED
    BY <1>1, <2>1, FS_Subset
<1>3. PICK x \in S : \A y \in S : ~(size[y] < size[x])
  <2> HIDE DEF above, size
  <2>1. Sizes \subseteq Nat /\ Sizes # {}
    BY <1>1
  <2>2. PICK n \in Sizes : \A m \in Sizes : ~(<<m, n>> \in OpToRel(<, Nat))
    <3> HIDE DEF Sizes
    <3> QED
      BY <2>1, WFMin, NatLessThanWellFounded
  <2>3. PICK x \in S : n = size[x]
    BY <2>2
  <2> QED
    BY <1>1, <2>2, <2>3 DEF OpToRel
<1>4. ASSUME NEW y \in S, <<y, x>> \in Beats
      PROVE  FALSE
  <2>1. above[y] \subseteq above[x]
    BY <1>4
  <2>2. y \in above[x] /\ y \notin above[y]
    BY <1>4
  <2> QED
    BY <1>2, <1>3, <2>1, <2>2
<1> QED
  BY <1>4

-----------------------------------------------------------------------------
(* Prices *)

(* A set of naturals with a largest member has its maximum in it, and the  *)
(* choice of Max and Min is that member.                                   *)
LEMMA MaxIs ==
    ASSUME NEW S, NEW x \in S, S \subseteq Int, \A y \in S : x >= y
    PROVE  Max(S) = x
<1>1. \A z \in S : (\A y \in S : z >= y) => z = x
  OBVIOUS
<1> QED
  BY <1>1 DEF Max

LEMMA MinIs ==
    ASSUME NEW S, NEW x \in S, S \subseteq Int, \A y \in S : x <= y
    PROVE  Min(S) = x
<1>1. \A z \in S : (\A y \in S : z <= y) => z = x
  OBVIOUS
<1> QED
  BY <1>1 DEF Min

LEMMA MaxOfTwo ==
    ASSUME NEW a \in Int, NEW b \in Int
    PROVE  Max({a, b}) = IF a >= b THEN a ELSE b
<1>1. CASE a >= b
  <2>1. Max({a, b}) = a
    BY <1>1, MaxIs
  <2> QED
    BY <1>1, <2>1
<1>2. CASE ~(a >= b)
  <2>1. \A y \in {a, b} : b >= y
    BY <1>2
  <2>2. Max({a, b}) = b
    BY <2>1, MaxIs
  <2> QED
    BY <1>2, <2>2
<1> QED
  BY <1>1, <1>2

LEMMA MinOfTwo ==
    ASSUME NEW a \in Int, NEW b \in Int
    PROVE  Min({a, b}) = IF a <= b THEN a ELSE b
<1>1. CASE a <= b
  <2>1. Min({a, b}) = a
    BY <1>1, MinIs
  <2> QED
    BY <1>1, <2>1
<1>2. CASE ~(a <= b)
  <2>1. \A y \in {a, b} : b <= y
    BY <1>2
  <2>2. Min({a, b}) = b
    BY <2>1, MinIs
  <2> QED
    BY <1>2, <2>2
<1> QED
  BY <1>1, <1>2

(* Thousands of tokens, one at least, times the multiplier of the tier, by *)
(* two, rounded up.                                                        *)
LEMMA CreditsAre ==
    ASSUME NEW tag \in Tags, NEW tokens \in Nat
    PROVE  \E m \in {2, 3, 5, 6}, units \in Nat :
             /\ DoubleMultiplier[Models[tag].rank] = m
             /\ units = (IF (tokens + 999) \div 1000 >= 1 THEN (tokens + 999) \div 1000 ELSE 1)
             /\ EstimateCredits(tag, tokens) = (units * m + 1) \div 2
<1>1. Models[tag].rank \in 1 .. 4
  BY CatalogAssumption DEF ModelDefinition
<1>2. DoubleMultiplier[Models[tag].rank] \in {2, 3, 5, 6}
  <2>1. /\ DoubleMultiplier[1] = 2 /\ DoubleMultiplier[2] = 3
        /\ DoubleMultiplier[3] = 5 /\ DoubleMultiplier[4] = 6
    BY DEF DoubleMultiplier
  <2>2. \A r \in 1 .. 4 : r = 1 \/ r = 2 \/ r = 3 \/ r = 4
    OBVIOUS
  <2> QED
    BY <1>1, <2>1, <2>2
<1>3. CeilDiv(tokens, 1000) \in Nat /\ CeilDiv(tokens, 1000) = (tokens + 999) \div 1000
  BY DEF CeilDiv
<1>4. Max({CeilDiv(tokens, 1000), 1})
        = IF (tokens + 999) \div 1000 >= 1 THEN (tokens + 999) \div 1000 ELSE 1
  BY <1>3, MaxOfTwo
<1> DEFINE units == Max({CeilDiv(tokens, 1000), 1})
<1>5. units \in Nat
  BY <1>3, <1>4
<1>6. EstimateCredits(tag, tokens) = (units * DoubleMultiplier[Models[tag].rank] + 1) \div 2
  <2>1. \A n \in Nat : CeilDiv(n, 2) = (n + 1) \div 2
    BY DEF CeilDiv
  <2>2. \A m \in {2, 3, 5, 6} : units * m \in Nat
    BY <1>5
  <2> QED
    BY <1>2, <2>1, <2>2 DEF EstimateCredits
<1>7. units = IF (tokens + 999) \div 1000 >= 1 THEN (tokens + 999) \div 1000 ELSE 1
  BY <1>4
<1> HIDE DEF units
<1> QED
  BY <1>2, <1>5, <1>6, <1>7

LEMMA CreditsType ==
    ASSUME NEW tag \in Tags, NEW tokens \in Nat
    PROVE  EstimateCredits(tag, tokens) \in Nat
  BY CreditsAre

(* More tokens never cost less.                                            *)
LEMMA CreditsGrow ==
    ASSUME NEW tag \in Tags, NEW used \in Nat, NEW tokens \in Nat, used <= tokens
    PROVE  EstimateCredits(tag, used) <= EstimateCredits(tag, tokens)
<1>1. PICK m \in {2, 3, 5, 6}, few \in Nat :
        /\ DoubleMultiplier[Models[tag].rank] = m
        /\ few = (IF (used + 999) \div 1000 >= 1 THEN (used + 999) \div 1000 ELSE 1)
        /\ EstimateCredits(tag, used) = (few * m + 1) \div 2
  BY CreditsAre
<1>2. PICK m2 \in {2, 3, 5, 6}, many \in Nat :
        /\ DoubleMultiplier[Models[tag].rank] = m2
        /\ many = (IF (tokens + 999) \div 1000 >= 1 THEN (tokens + 999) \div 1000 ELSE 1)
        /\ EstimateCredits(tag, tokens) = (many * m2 + 1) \div 2
  BY CreditsAre
<1>3. m2 = m /\ few <= many
  BY <1>1, <1>2
<1>4. (few * m + 1) \div 2 <= (many * m + 1) \div 2
  BY <1>3
<1> QED
  BY <1>1, <1>2, <1>3, <1>4

(* The reservation is the price of the dearest model the selector may      *)
(* resolve to.                                                             *)
LEMMA CandidatesType ==
    ASSUME NEW selector \in QualitySelectors \cup Tags
    PROVE  CandidateModels(selector) \subseteq Tags /\ CandidateModels(selector) # {}
<1>1. \A quality \in {"good", "better", "best"} : WithQuality(Tags, quality) # {}
  BY CatalogAssumption DEF WithQuality
<1>2. CASE selector = "auto"
  BY <1>1, <1>2 DEF CandidateModels, WithQuality
<1>3. CASE selector \in QualitySelectors \ {"auto"}
  BY <1>1, <1>3 DEF CandidateModels, WithQuality, QualitySelectors
<1>4. CASE selector \in Tags
  BY <1>4, CatalogAssumption DEF CandidateModels, QualitySelectors
<1> QED
  BY <1>2, <1>3, <1>4

LEMMA ReservationIsDearest ==
    ASSUME NEW selector \in QualitySelectors \cup Tags, NEW tokens \in Nat
    PROVE  /\ EstimateReservation(selector, tokens) \in Nat
           /\ \A tag \in CandidateModels(selector) :
                EstimateCredits(tag, tokens) <= EstimateReservation(selector, tokens)
<1> DEFINE C == CandidateModels(selector)
           price == [tag \in C |-> EstimateCredits(tag, tokens)]
           Beats == {p \in C \X C : price[p[1]] > price[p[2]]}
<1>1. C \subseteq Tags /\ C # {} /\ IsFiniteSet(C)
  BY CandidatesType, CatalogAssumption, FS_Subset
<1>2. \A tag \in C : price[tag] \in Nat /\ price[tag] = EstimateCredits(tag, tokens)
  BY <1>1, CreditsType
<1>3. \E x \in C : \A y \in C : <<y, x>> \notin Beats
  <2> HIDE DEF C, price
  <2>1. \A x, y \in C : <<x, y>> \in Beats <=> price[x] > price[y]
    OBVIOUS
  <2> HIDE DEF Beats
  <2>2. \A x \in C : <<x, x>> \notin Beats
    BY <1>2, <2>1
  <2>3. \A x, y, z \in C : <<x, y>> \in Beats /\ <<y, z>> \in Beats => <<x, z>> \in Beats
    BY <1>2, <2>1
  <2> QED
    BY <1>1, <2>2, <2>3, SomeUnbeaten
<1>4. PICK dearest \in C : \A y \in C : ~(price[y] > price[dearest])
  BY <1>3
<1>5. EstimateReservation(selector, tokens) = price[dearest]
  <2>1. {EstimateCredits(tag, tokens) : tag \in C} = {price[tag] : tag \in C}
    BY <1>2
  <2> HIDE DEF C, price
  <2>2. {price[tag] : tag \in C} \subseteq Int
    BY <1>2
  <2>3. \A y \in {price[tag] : tag \in C} : price[dearest] >= y
    BY <1>2, <1>4
  <2>4. Max({price[tag] : tag \in C}) = price[dearest]
    BY <2>2, <2>3, MaxIs
  <2> QED
    BY <2>1, <2>4 DEF EstimateReservation, C
<1> QED
  BY <1>2, <1>4, <1>5

-----------------------------------------------------------------------------
(* Resolving a selector *)

(* Which quality a selector means on a machine with these models.          *)
Means(selector, tags, quality) ==
    /\ quality \in {"good", "better", "best"}
    /\ selector # "auto" => quality = selector
    /\ selector = "auto" =>
         /\ quality = "better" => WithQuality(tags, "better") # {}
         /\ quality = "best" => WithQuality(tags, "better") = {} /\ WithQuality(tags, "best") # {}
         /\ quality = "good" => WithQuality(tags, "better") = {} /\ WithQuality(tags, "best") = {}

LEMMA ResolveQuality ==
    ASSUME NEW selector \in QualitySelectors, NEW tags
    PROVE  \E quality : /\ Means(selector, tags \cap Tags, quality)
                        /\ ResolveSelector(selector, tags)
                             = Strongest(WithQuality(tags \cap Tags, quality))
<1>1. CASE selector # "auto"
  <2>1. Means(selector, tags \cap Tags, selector)
    BY <1>1 DEF Means, QualitySelectors
  <2>2. ResolveSelector(selector, tags) = Strongest(WithQuality(tags \cap Tags, selector))
    BY <1>1 DEF ResolveSelector
  <2> QED
    BY <2>1, <2>2
<1>2. CASE selector = "auto" /\ WithQuality(tags \cap Tags, "better") # {}
  <2>1. Means(selector, tags \cap Tags, "better")
    BY <1>2 DEF Means
  <2>2. ResolveSelector(selector, tags) = Strongest(WithQuality(tags \cap Tags, "better"))
    BY <1>2 DEF ResolveSelector
  <2> QED
    BY <2>1, <2>2
<1>3. CASE /\ selector = "auto" /\ WithQuality(tags \cap Tags, "better") = {}
           /\ WithQuality(tags \cap Tags, "best") # {}
  <2>1. Means(selector, tags \cap Tags, "best")
    BY <1>3 DEF Means
  <2>2. ResolveSelector(selector, tags) = Strongest(WithQuality(tags \cap Tags, "best"))
    BY <1>3 DEF ResolveSelector
  <2> QED
    BY <2>1, <2>2
<1>4. CASE /\ selector = "auto" /\ WithQuality(tags \cap Tags, "better") = {}
           /\ WithQuality(tags \cap Tags, "best") = {}
  <2>1. Means(selector, tags \cap Tags, "good")
    BY <1>4 DEF Means
  <2>2. ResolveSelector(selector, tags) = Strongest(WithQuality(tags \cap Tags, "good"))
    BY <1>4 DEF ResolveSelector
  <2> QED
    BY <2>1, <2>2
<1> QED
  BY <1>1, <1>2, <1>3, <1>4

LEMMA ResolveTag ==
    ASSUME NEW selector \in Tags, NEW tags
    PROVE  ResolveSelector(selector, tags) = {selector} \cap tags
  BY CatalogAssumption DEF ResolveSelector

(* What a selector resolves to is installed and one of its candidates.     *)
LEMMA ResolvedIsCandidate ==
    ASSUME NEW selector \in QualitySelectors \cup Tags, NEW tags,
           NEW tag \in ResolveSelector(selector, tags)
    PROVE  tag \in tags \cap CandidateModels(selector) /\ tag \in Tags
<1>1. CASE selector \in Tags
  <2>1. tag = selector /\ tag \in tags
    BY <1>1, ResolveTag
  <2>2. CandidateModels(selector) = {selector}
    BY <1>1, CatalogAssumption DEF CandidateModels, QualitySelectors
  <2> QED
    BY <1>1, <2>1, <2>2
<1>2. CASE selector \in QualitySelectors
  <2>1. PICK quality : /\ Means(selector, tags \cap Tags, quality)
                       /\ ResolveSelector(selector, tags)
                            = Strongest(WithQuality(tags \cap Tags, quality))
    BY <1>2, ResolveQuality
  <2>2. tag \in tags \cap Tags /\ Models[tag].quality = quality
    BY <2>1 DEF Strongest, WithQuality
  <2>3. CASE selector = "auto"
    BY <2>2, <2>3 DEF CandidateModels
  <2>4. CASE selector # "auto"
    <3>1. CandidateModels(selector) = WithQuality(Tags, selector)
      BY <1>2, <2>4 DEF CandidateModels
    <3> QED
      BY <2>1, <2>2, <2>4, <3>1 DEF Means, WithQuality
  <2> QED
    BY <2>2, <2>3, <2>4
<1> QED
  BY <1>1, <1>2

(* A model chosen among more models is chosen among fewer that contain it. *)
LEMMA ChosenAmongFewer ==
    ASSUME NEW selector \in QualitySelectors \cup Tags, NEW tags, NEW fewer, fewer \subseteq tags,
           NEW tag \in ResolveSelector(selector, tags), tag \in fewer
    PROVE  tag \in ResolveSelector(selector, fewer)
<1>1. CASE selector \in Tags
  BY <1>1, ResolveTag
<1>2. CASE selector \in QualitySelectors
  <2>1. PICK quality : /\ Means(selector, tags \cap Tags, quality)
                       /\ ResolveSelector(selector, tags)
                            = Strongest(WithQuality(tags \cap Tags, quality))
    BY <1>2, ResolveQuality
  <2>2. PICK same : /\ Means(selector, fewer \cap Tags, same)
                    /\ ResolveSelector(selector, fewer)
                         = Strongest(WithQuality(fewer \cap Tags, same))
    BY <1>2, ResolveQuality
  <2>3. tag \in WithQuality(fewer \cap Tags, quality)
    BY <2>1 DEF Strongest, WithQuality
  <2>4. same = quality
    <3>1. \A q : WithQuality(fewer \cap Tags, q) \subseteq WithQuality(tags \cap Tags, q)
      BY DEF WithQuality
    <3> QED
      BY <2>1, <2>2, <2>3, <3>1 DEF Means
  <2>5. WithQuality(fewer \cap Tags, quality) \subseteq WithQuality(tags \cap Tags, quality)
    BY DEF WithQuality
  <2> QED
    BY <2>1, <2>2, <2>3, <2>4, <2>5 DEF Strongest
<1> QED
  BY <1>1, <1>2

(* Some model of a set is the strongest.                                   *)
LEMMA StrongestExists ==
    ASSUME NEW tags, tags \subseteq Tags, tags # {}
    PROVE  Strongest(tags) # {}
<1> DEFINE Stronger(a, b) == \/ Models[a].strength > Models[b].strength
                             \/ /\ Models[a].strength = Models[b].strength
                                /\ Models[a].vram > Models[b].vram
           Beats == {p \in tags \X tags : Stronger(p[1], p[2])}
<1>1. \A tag \in tags : Models[tag].strength \in Nat /\ Models[tag].vram \in Nat
  BY CatalogAssumption DEF ModelDefinition
<1>2. \A x, y \in tags : <<x, y>> \in Beats <=> Stronger(x, y)
  OBVIOUS
<1> HIDE DEF Beats
<1>3. \A x \in tags : <<x, x>> \notin Beats
  BY <1>1, <1>2
<1>4. \A x, y, z \in tags : <<x, y>> \in Beats /\ <<y, z>> \in Beats => <<x, z>> \in Beats
  BY <1>1, <1>2
<1>5. IsFiniteSet(tags)
  BY CatalogAssumption, FS_Subset
<1>6. PICK x \in tags : \A y \in tags : <<y, x>> \notin Beats
  BY <1>3, <1>4, <1>5, SomeUnbeaten
<1>7. \A y \in tags : ~Stronger(y, x)
  BY <1>2, <1>6
<1>8. \A y \in tags : \/ Models[x].strength > Models[y].strength
                      \/ /\ Models[x].strength = Models[y].strength
                         /\ Models[x].vram >= Models[y].vram
  BY <1>1, <1>7
<1>9. x \in Strongest(tags)
  BY <1>8 DEF Strongest
<1> QED
  BY <1>9

(* A machine with a candidate of the selector resolves it.                 *)
LEMMA ResolvesIfCandidate ==
    ASSUME NEW selector \in QualitySelectors \cup Tags, NEW tags,
           NEW tag \in Tags, tag \in tags, tag \in CandidateModels(selector)
    PROVE  ResolveSelector(selector, tags) # {}
<1>1. CASE selector \in Tags
  <2>1. CandidateModels(selector) = {selector}
    BY <1>1, CatalogAssumption DEF CandidateModels, QualitySelectors
  <2> QED
    BY <1>1, <2>1, ResolveTag
<1>2. CASE selector \in QualitySelectors
  <2>1. PICK quality : /\ Means(selector, tags \cap Tags, quality)
                       /\ ResolveSelector(selector, tags)
                            = Strongest(WithQuality(tags \cap Tags, quality))
    BY <1>2, ResolveQuality
  <2>2. Models[tag].quality \in {"good", "better", "best"}
    BY CatalogAssumption DEF ModelDefinition
  <2>3. tag \in WithQuality(tags \cap Tags, Models[tag].quality)
    BY DEF WithQuality
  <2>4. selector # "auto" => Models[tag].quality = selector
    BY <1>2 DEF CandidateModels, WithQuality
  <2>5. WithQuality(tags \cap Tags, quality) # {}
    BY <2>1, <2>2, <2>3, <2>4 DEF Means
  <2>6. WithQuality(tags \cap Tags, quality) \subseteq Tags
    BY DEF WithQuality
  <2> QED
    BY <2>1, <2>5, <2>6, StrongestExists
<1> QED
  BY <1>1, <1>2

-----------------------------------------------------------------------------
(* The inductive invariant *)

(* A job's reservation is the one of its selector, unless it was rerouted, *)
(* and the model that ran was one of the selector's.                       *)
Priced(record) ==
    /\ DOMAIN record = {"requester", "selector", "tokens", "reserved", "rerouted", "status",
                        "worker", "model", "used", "actual"}
    /\ record.selector \in QualitySelectors \cup Tags
    /\ record.tokens \in Nat
    /\ ~record.rerouted =>
         record.reserved = EstimateReservation(record.selector, record.tokens)
    /\ record.status # "queued" => record.model \in CandidateModels(record.selector)
    /\ record.status = "completed" /\ ~record.rerouted /\ record.used <= record.tokens =>
         record.actual = ActualCost(record.model, record.used)

NodesInv == \A worker \in DOMAIN nodes : IsMachine(nodes[worker])

JobsInv == \A job \in DOMAIN jobs : Priced(jobs[job])

MatchInv == NodesInv /\ JobsInv

LEMMA MachineEdited ==
    ASSUME NEW node, IsMachine(node), NEW online, NEW active
    PROVE  /\ IsMachine([node EXCEPT !.online = online])
           /\ IsMachine([node EXCEPT !.active = active])
           /\ IsMachine([node EXCEPT !.online = online, !.active = active])
  BY DEF IsMachine

LEMMA OnlineNode ==
    ASSUME NEW worker \in DOMAIN nodes, IsMachine(nodes[worker])
    PROVE  /\ Online(worker).online = TRUE
           /\ Online(worker).installed = nodes[worker].installed
           /\ Online(worker).speed = nodes[worker].speed
           /\ Online(worker).ram = nodes[worker].ram
           /\ Online(worker).capacity = nodes[worker].capacity
           /\ Online(worker).active = nodes[worker].active
  BY DEF Online, IsMachine

(* The models a claim may take a job with, on a machine like this one.     *)
LEMMA ClaimedModel ==
    ASSUME NEW node, NEW job, jobs[job].selector \in QualitySelectors \cup Tags,
           NEW tag \in ClaimModels(node, job)
    PROVE  /\ tag \in CandidateModels(jobs[job].selector)
           /\ tag \in Tags
           /\ SupportsModel(node, tag)
  BY ResolvedIsCandidate DEF ClaimModels, ResolveModelForWorker

LEMMA AssignKeepsInv ==
    ASSUME MatchInv, NEW k \in 1 .. Len(queue), IsQueued(queue[k]),
           NEW worker \in DOMAIN nodes, NEW tag, tag \in CandidateModels(jobs[queue[k]].selector),
           Assign(k, worker, tag)
    PROVE  MatchInv'
<1> DEFINE job == queue[k]
<1>1. job \in DOMAIN jobs
  BY DEF IsQueued
<1>2. NodesInv'
  <2>1. nodes' = [nodes EXCEPT ![worker] =
                    [nodes[worker] EXCEPT !.online = TRUE, !.active = nodes[worker].active + 1]]
    BY DEF Assign
  <2> QED
    BY <2>1, MachineEdited DEF MatchInv, NodesInv
<1>3. JobsInv'
  <2>1. jobs' = [jobs EXCEPT ![job] = [jobs[job] EXCEPT !.status = "assigned", !.worker = worker,
                                                       !.model = tag]]
    BY DEF Assign
  <2>2. Priced(jobs'[job])
    BY <1>1, <2>1 DEF MatchInv, JobsInv, Priced
  <2>3. DOMAIN jobs' = DOMAIN jobs /\ \A j \in DOMAIN jobs : j # job => jobs'[j] = jobs[j]
    BY <2>1
  <2> QED
    BY <2>2, <2>3 DEF MatchInv, JobsInv
<1> QED
  BY <1>2, <1>3 DEF MatchInv

(* The bill: at most the reservation, which covers the price of any model  *)
(* of the selector.                                                        *)
LEMMA CompleteKeepsInv ==
    ASSUME MatchInv, NEW job \in Jobs, NEW used \in TokenCounts, CompleteJob(job, used)
    PROVE  MatchInv'
<1>1. job \in DOMAIN jobs /\ jobs[job].status = "assigned" /\ Priced(jobs[job])
  BY DEF CompleteJob, MatchInv, JobsInv
<1>2. used \in Nat
  BY MatchingAssumption
<1>3. NodesInv'
  <2>1. DOMAIN nodes' = DOMAIN nodes
    BY DEF CompleteJob
  <2>2. ASSUME NEW worker \in DOMAIN nodes
        PROVE  IsMachine(nodes'[worker])
    <3> DEFINE fewer == Max({nodes[worker].active - 1, 0})
    <3>1. \/ nodes'[worker] = nodes[worker]
          \/ nodes'[worker] = [nodes[worker] EXCEPT !.active = fewer]
      BY DEF CompleteJob
    <3>2. IsMachine(nodes[worker])
      BY DEF MatchInv, NodesInv
    <3>3. IsMachine([nodes[worker] EXCEPT !.active = fewer])
      BY <3>2, MachineEdited
    <3> QED
      BY <3>1, <3>2, <3>3
  <2> QED
    BY <2>1, <2>2 DEF NodesInv
<1>4. Priced(jobs'[job])
  <2>1. CASE OwnJob(jobs[job].worker, job)
    <3>1. jobs'[job] = [jobs[job] EXCEPT !.status = "selfServed", !.used = used]
      BY <1>1, <2>1 DEF CompleteJob
    <3> QED
      BY <1>1, <3>1 DEF Priced
  <2>2. CASE ~OwnJob(jobs[job].worker, job)
    <3> DEFINE bill == Min({jobs[job].reserved, ActualCost(jobs[job].model, used)})
    <3>1. jobs'[job] = [jobs[job] EXCEPT !.status = "completed", !.used = used, !.actual = bill]
      BY <1>1, <2>2 DEF CompleteJob
    <3>2. ASSUME ~jobs[job].rerouted, used <= jobs[job].tokens
          PROVE  bill = ActualCost(jobs[job].model, used)
      <4>1. jobs[job].model \in CandidateModels(jobs[job].selector) /\ jobs[job].model \in Tags
        BY <1>1, CandidatesType DEF Priced
      <4>2. /\ jobs[job].reserved \in Nat
            /\ EstimateCredits(jobs[job].model, jobs[job].tokens) <= jobs[job].reserved
        BY <1>1, <3>2, <4>1, ReservationIsDearest DEF Priced
      <4>3. /\ EstimateCredits(jobs[job].model, used) \in Nat
            /\ EstimateCredits(jobs[job].model, jobs[job].tokens) \in Nat
            /\ EstimateCredits(jobs[job].model, used)
                 <= EstimateCredits(jobs[job].model, jobs[job].tokens)
        BY <1>1, <1>2, <3>2, <4>1, CreditsType, CreditsGrow DEF Priced
      <4>4. Min({jobs[job].reserved, EstimateCredits(jobs[job].model, used)})
              = EstimateCredits(jobs[job].model, used)
        BY <4>2, <4>3, MinOfTwo
      <4> QED
        BY <4>4 DEF ActualCost
    <3> HIDE DEF bill
    <3> QED
      BY <1>1, <3>1, <3>2 DEF Priced
  <2> QED
    BY <2>1, <2>2
<1>5. DOMAIN jobs' = DOMAIN jobs /\ \A j \in DOMAIN jobs : j # job => jobs'[j] = jobs[j]
  BY DEF CompleteJob
<1> QED
  BY <1>3, <1>4, <1>5 DEF MatchInv, JobsInv

LEMMA MatchInvStep == MatchInv /\ [Next]_vars => MatchInv'
<1> SUFFICES ASSUME MatchInv, [Next]_vars PROVE MatchInv'
  OBVIOUS
<1>1. ASSUME NEW worker \in Workers, NEW offer \in Offers, RegisterWorker(worker, offer)
      PROVE  MatchInv'
  BY <1>1, MatchingAssumption DEF RegisterWorker, With, MatchInv, NodesInv, JobsInv
<1>2. ASSUME NEW worker \in Workers, StopWorker(worker)
      PROVE  MatchInv'
  <2>1. /\ nodes' = [nodes EXCEPT ![worker] = [nodes[worker] EXCEPT !.online = FALSE]]
        /\ UNCHANGED jobs
    BY <1>2 DEF StopWorker
  <2>2. IsMachine([nodes[worker] EXCEPT !.online = FALSE])
    BY <1>2, MachineEdited DEF StopWorker, MatchInv, NodesInv
  <2> QED
    BY <2>1, <2>2 DEF MatchInv, NodesInv, JobsInv
<1>3. ASSUME NEW job \in Jobs, NEW user \in Users, NEW selector \in Selectors,
             NEW tokens \in TokenCounts, SubmitJob(job, user, selector, tokens)
      PROVE  MatchInv'
  <2> DEFINE new == [requester |-> user, selector |-> selector, tokens |-> tokens,
                     reserved |-> EstimateReservation(selector, tokens), rerouted |-> FALSE,
                     status |-> "queued", worker |-> NoWorker, model |-> NoModel,
                     used |-> 0, actual |-> 0]
  <2>1. jobs' = With(jobs, job, new) /\ UNCHANGED nodes
    BY <1>3 DEF SubmitJob
  <2>2. Priced(new)
    BY MatchingAssumption DEF Priced
  <2> HIDE DEF new
  <2> QED
    BY <2>1, <2>2 DEF With, MatchInv, NodesInv, JobsInv
<1>4. ASSUME NEW job \in Jobs, NEW selector \in Selectors, RerouteQueuedJob(job, selector)
      PROVE  MatchInv'
  <2>1. jobs' = [jobs EXCEPT ![job] = [jobs[job] EXCEPT !.selector = selector, !.rerouted = TRUE]]
    BY <1>4 DEF RerouteQueuedJob
  <2>2. job \in DOMAIN jobs /\ jobs[job].status = "queued" /\ UNCHANGED nodes
    BY <1>4 DEF RerouteQueuedJob, IsQueued
  <2>3. Priced(jobs'[job])
    BY <2>1, <2>2, MatchingAssumption DEF MatchInv, JobsInv, Priced
  <2>4. DOMAIN jobs' = DOMAIN jobs /\ \A j \in DOMAIN jobs : j # job => jobs'[j] = jobs[j]
    BY <2>1
  <2> QED
    BY <2>2, <2>3, <2>4 DEF MatchInv, NodesInv, JobsInv
<1>5. ASSUME NEW k \in 1 .. Len(queue), AssignNextJob(k)
      PROVE  MatchInv'
  <2>1. IsQueued(queue[k])
    BY <1>5 DEF AssignNextJob
  <2>2. PICK pair \in BestCandidates(queue[k]) : Assign(k, pair[1], pair[2])
    BY <1>5 DEF AssignNextJob
  <2>3. pair[1] \in DOMAIN nodes /\ pair[2] \in ClaimModels(nodes[pair[1]], queue[k])
    BY DEF BestCandidates, Candidates
  <2>4. pair[2] \in CandidateModels(jobs[queue[k]].selector)
    BY <2>1, <2>3, ClaimedModel DEF IsQueued, MatchInv, JobsInv, Priced
  <2> QED
    BY <2>1, <2>2, <2>3, <2>4, AssignKeepsInv
<1>6. ASSUME NEW worker \in Workers, NEW allowOwn \in BOOLEAN, NEW k \in 1 .. Len(queue),
             ClaimJobForWorker(worker, allowOwn, k)
      PROVE  MatchInv'
  <2>1. worker \in DOMAIN nodes /\ IsQueued(queue[k])
    BY <1>6 DEF ClaimJobForWorker, CanClaim
  <2>2. PICK tag \in ClaimModels(Online(worker), queue[k]) : Assign(k, worker, tag)
    BY <1>6 DEF ClaimJobForWorker
  <2>3. tag \in CandidateModels(jobs[queue[k]].selector)
    BY <2>1, ClaimedModel DEF IsQueued, MatchInv, JobsInv, Priced
  <2> QED
    BY <2>1, <2>2, <2>3, AssignKeepsInv
<1>7. CASE UNCHANGED vars
  BY <1>7 DEF vars, MatchInv, NodesInv, JobsInv
<1> QED
  BY <1>1, <1>2, <1>3, <1>4, <1>5, <1>6, <1>7, CompleteKeepsInv DEF Next

LEMMA MatchInvHolds == Spec => []MatchInv
<1>1. Init => MatchInv
  BY DEF Init, MatchInv, NodesInv, JobsInv
<1> QED
  BY <1>1, MatchInvStep, PTL DEF Spec

-----------------------------------------------------------------------------
(* What a claim accepts *)

LEMMA OnlineSupports ==
    ASSUME NEW worker \in DOMAIN nodes, IsMachine(nodes[worker]), nodes[worker].online, NEW tag
    PROVE  SupportsModel(Online(worker), tag) <=> SupportsModel(nodes[worker], tag)
  BY OnlineNode DEF SupportsModel, HasRoom

(* A claim takes the job if one of the models it resolves to is chosen     *)
(* among those the machine supports.                                       *)
LEMMA ClaimIfResolved ==
    ASSUME NEW worker \in DOMAIN nodes, NEW job, IsQueued(job),
           jobs[job].selector \in QualitySelectors \cup Tags,
           NEW allowOwn, allowOwn \/ ~OwnJob(worker, job),
           ResolveModelForWorker(Online(worker), jobs[job].selector, TRUE) # {}
    PROVE  CanClaim(worker, job, allowOwn)
<1>1. PICK tag \in ResolveModelForWorker(Online(worker), jobs[job].selector, TRUE) : TRUE
  OBVIOUS
<1>2. SupportsModel(Online(worker), tag)
  BY <1>1, ResolvedIsCandidate DEF ResolveModelForWorker
<1> QED
  BY <1>1, <1>2 DEF CanClaim, ClaimModels

(* An installed model that is too large or was never measured hides no     *)
(* model that fits, since capacity is tested before the choice             *)
(* (coordinator.py:462): for every catalog and machine.                    *)
THEOREM FittingModelsServe == Spec => []FittingModelServes
<1>1. ASSUME MatchInv, NEW worker \in DOMAIN nodes, NEW job \in Jobs, IsQueued(job),
             NEW tag \in CandidateModels(jobs[job].selector), SupportsModel(nodes[worker], tag)
      PROVE  CanClaim(worker, job, TRUE)
  <2>1. jobs[job].selector \in QualitySelectors \cup Tags
    BY <1>1 DEF IsQueued, MatchInv, JobsInv, Priced
  <2>2. IsMachine(nodes[worker]) /\ nodes[worker].online
    BY <1>1 DEF MatchInv, NodesInv, SupportsModel
  <2>3. tag \in Tags /\ tag \in nodes[worker].installed
    BY <1>1, <2>1, CandidatesType DEF SupportsModel
  <2>4. SupportsModel(Online(worker), tag) /\ tag \in Online(worker).installed
    BY <1>1, <2>2, <2>3, OnlineSupports, OnlineNode
  <2>5. tag \in {t \in Online(worker).installed \cap Tags : SupportsModel(Online(worker), t)}
    BY <2>3, <2>4
  <2>6. ResolveModelForWorker(Online(worker), jobs[job].selector, TRUE) # {}
    BY <2>1, <2>3, <2>5, ResolvesIfCandidate DEF ResolveModelForWorker
  <2> QED
    BY <1>1, <2>1, <2>6, ClaimIfResolved
<1>2. MatchInv => FittingModelServes
  BY <1>1 DEF FittingModelServes
<1> QED
  BY <1>2, MatchInvHolds, PTL

(* What the explanation counts as compatible, having chosen a model before *)
(* it tests it, a claim takes, which tests before it chooses; and the      *)
(* other way for a job that names a model (coordinator.py:131, 318, 491).  *)
THEOREM ExplanationsAgree == Spec => []ExplanationAgrees
<1>1. ASSUME MatchInv, NEW worker \in DOMAIN nodes, NEW job \in Jobs, NEW allowOwn \in BOOLEAN,
             IsQueued(job), Unblocked(worker, job, allowOwn)
      PROVE  CanClaim(worker, job, allowOwn)
  <2>1. jobs[job].selector \in QualitySelectors \cup Tags
    BY <1>1 DEF IsQueued, MatchInv, JobsInv, Priced
  <2>2. IsMachine(nodes[worker]) /\ nodes[worker].online /\ (allowOwn \/ ~OwnJob(worker, job))
    BY <1>1 DEF MatchInv, NodesInv, Unblocked
  <2>3. PICK tag \in ResolveModelForWorker(nodes[worker], jobs[job].selector, FALSE) :
          SupportsModel(nodes[worker], tag)
    BY <1>1 DEF Unblocked
  <2> DEFINE all == nodes[worker].installed \cap Tags
             fitting == {t \in Online(worker).installed \cap Tags :
                           SupportsModel(Online(worker), t)}
  <2>4. tag \in ResolveSelector(jobs[job].selector, all)
    <3>1. {t \in nodes[worker].installed \cap Tags : FALSE => SupportsModel(nodes[worker], t)} = all
      OBVIOUS
    <3> QED
      BY <2>3, <3>1 DEF ResolveModelForWorker
  <2>5. tag \in all /\ fitting \subseteq all
    BY <2>1, <2>2, <2>4, ResolvedIsCandidate, OnlineNode
  <2>6. tag \in fitting
    BY <2>2, <2>3, <2>5, OnlineSupports, OnlineNode
  <2>7. tag \in ResolveSelector(jobs[job].selector, fitting)
    <3> HIDE DEF all, fitting
    <3> QED
      BY <2>1, <2>4, <2>5, <2>6, ChosenAmongFewer
  <2>8. ResolveModelForWorker(Online(worker), jobs[job].selector, TRUE) # {}
    BY <2>7 DEF ResolveModelForWorker
  <2> QED
    BY <1>1, <2>1, <2>2, <2>8, ClaimIfResolved
<1>2. ASSUME MatchInv, NEW worker \in DOMAIN nodes, NEW job \in Jobs, NEW allowOwn \in BOOLEAN,
             IsQueued(job), CanClaim(worker, job, allowOwn), nodes[worker].online,
             jobs[job].selector \in Tags
      PROVE  Unblocked(worker, job, allowOwn)
  <2>1. IsMachine(nodes[worker])
    BY <1>2 DEF MatchInv, NodesInv
  <2>2. PICK tag \in ClaimModels(Online(worker), job) : TRUE
    BY <1>2 DEF CanClaim
  <2>3. tag = jobs[job].selector
    BY <1>2, <2>2, ResolveTag DEF ClaimModels, ResolveModelForWorker
  <2>4. SupportsModel(nodes[worker], tag)
    BY <1>2, <2>1, <2>2, OnlineSupports DEF ClaimModels
  <2>5. tag \in ResolveModelForWorker(nodes[worker], jobs[job].selector, FALSE)
    BY <1>2, <2>3, <2>4, ResolveTag DEF ResolveModelForWorker, SupportsModel
  <2>6. HasRoom(nodes[worker]) /\ (allowOwn \/ ~OwnJob(worker, job))
    BY <1>2, <2>4 DEF SupportsModel, CanClaim
  <2> QED
    BY <1>2, <2>4, <2>5, <2>6 DEF Unblocked
<1>3. MatchInv => ExplanationAgrees
  BY <1>1, <1>2 DEF ExplanationAgrees
<1> QED
  BY <1>3, MatchInvHolds, PTL

(* The reservation made before any model was known covers the bill of      *)
(* whichever model ran (catalog.py:354), for every catalog, limit and      *)
(* selector, unless the job was rerouted or used more than its limit.      *)
THEOREM ReservationsCoverBills == Spec => []ReservationCoversBill
<1>1. MatchInv => ReservationCoversBill
  BY DEF MatchInv, JobsInv, Priced, ReservationCoversBill
<1> QED
  BY <1>1, MatchInvHolds, PTL

-----------------------------------------------------------------------------
(* Ranking *)

Overshoot(tag, selector) ==
    IF Models[tag].rank > TargetRank(selector) THEN Models[tag].rank - TargetRank(selector) ELSE 0

AutoVram(tag, selector) ==
    IF selector = "auto" /\ Models[tag].vram > 24 THEN Models[tag].vram - 24 ELSE 0

LEMMA ScoreTerms ==
    ASSUME NEW selector \in QualitySelectors, NEW tag \in Tags
    PROVE  /\ Models[tag].rank \in 1 .. 4
           /\ Models[tag].strength \in 0 .. 149
           /\ TargetRank(selector) \in {1, 2, 4}
           /\ RankDistance(tag, selector)
                = IF Models[tag].rank > TargetRank(selector)
                  THEN Models[tag].rank - TargetRank(selector)
                  ELSE TargetRank(selector) - Models[tag].rank
           /\ AutoVram(tag, selector) \in Nat
           /\ AutoVram(tag, selector) > 0 => Models[tag].rank = 4 /\ TargetRank(selector) = 2
<1>1. /\ Models[tag].rank \in 1 .. 4
      /\ Models[tag].strength \in 0 .. 149
      /\ Models[tag].vram \in Nat
      /\ Models[tag].rank < 4 => Models[tag].vram <= 24
  BY CatalogAssumption, TiersOutweighTerms DEF ModelDefinition
<1>2. TargetRank(selector) \in {1, 2, 4} /\ (selector = "auto" => TargetRank(selector) = 2)
  BY DEF TargetRank, QualitySelectors
<1>3. RankDistance(tag, selector)
        = IF Models[tag].rank > TargetRank(selector)
          THEN Models[tag].rank - TargetRank(selector)
          ELSE TargetRank(selector) - Models[tag].rank
  BY <1>1, <1>2 DEF RankDistance
<1> QED
  BY <1>1, <1>2, <1>3 DEF AutoVram

LEMMA ScoreIs ==
    ASSUME NEW selector \in QualitySelectors, NEW tag \in Tags,
           NEW node, node.speed[tag] \in Nat
    PROVE  WorkerScore(node, tag, selector)
             = 20 * node.speed[tag] + 4 * Models[tag].strength
                 - 600 * RankDistance(tag, selector) - 500 * Overshoot(tag, selector)
                 - 5 * AutoVram(tag, selector)
<1>1. Models[tag].rank - TargetRank(selector) \in Int /\ Models[tag].vram - 24 \in Int
  BY ScoreTerms, CatalogAssumption DEF ModelDefinition
<1>2. Max({0, Models[tag].rank - TargetRank(selector)}) = Overshoot(tag, selector)
  <2>1. Max({0, Models[tag].rank - TargetRank(selector)})
          = IF 0 >= Models[tag].rank - TargetRank(selector) THEN 0
            ELSE Models[tag].rank - TargetRank(selector)
    BY <1>1, MaxOfTwo
  <2> QED
    BY <2>1, ScoreTerms DEF Overshoot
<1>3. (IF selector = "auto" THEN Max({0, Models[tag].vram - 24}) ELSE 0) = AutoVram(tag, selector)
  <2>1. Max({0, Models[tag].vram - 24})
          = IF 0 >= Models[tag].vram - 24 THEN 0 ELSE Models[tag].vram - 24
    BY <1>1, MaxOfTwo
  <2>2. Models[tag].vram \in Nat
    BY CatalogAssumption DEF ModelDefinition
  <2> QED
    BY <2>1, <2>2 DEF AutoVram
<1>4. /\ Models[tag].strength \in Int
      /\ RankDistance(tag, selector) \in Int
      /\ Overshoot(tag, selector) \in Int
      /\ AutoVram(tag, selector) \in Int
  BY ScoreTerms DEF Overshoot
<1> QED
  BY <1>2, <1>3, <1>4, SMTT(60) DEF WorkerScore

(* Of two models at the same speed the one that scores no less is no       *)
(* farther from the tier asked for: a tier counts 600, an overshoot 500    *)
(* more, and neither strength nor the VRAM of a model of the highest tier  *)
(* makes up for it.                                                        *)
LEMMA TierDecides ==
    ASSUME NEW selector \in QualitySelectors, NEW node1, NEW tag1 \in Tags, NEW node2, NEW tag2 \in Tags,
           node1.speed[tag1] \in Nat, node2.speed[tag2] = node1.speed[tag1],
           WorkerScore(node1, tag1, selector) >= WorkerScore(node2, tag2, selector)
    PROVE  RankDistance(tag1, selector) <= RankDistance(tag2, selector)
<1> DEFINE speed == node1.speed[tag1]
           target == TargetRank(selector)
           rank1 == Models[tag1].rank
           rank2 == Models[tag2].rank
           strength1 == Models[tag1].strength
           strength2 == Models[tag2].strength
           far1 == RankDistance(tag1, selector)
           far2 == RankDistance(tag2, selector)
           over1 == Overshoot(tag1, selector)
           over2 == Overshoot(tag2, selector)
           vram1 == AutoVram(tag1, selector)
           vram2 == AutoVram(tag2, selector)
<1>1. 20 * speed + 4 * strength1 - 600 * far1 - 500 * over1 - 5 * vram1
        >= 20 * speed + 4 * strength2 - 600 * far2 - 500 * over2 - 5 * vram2
  BY ScoreIs
<1>2. /\ target \in {1, 2, 4}
      /\ rank1 \in 1 .. 4 /\ rank2 \in 1 .. 4
      /\ strength1 \in 0 .. 149 /\ strength2 \in 0 .. 149
      /\ vram1 \in Nat /\ vram2 \in Nat /\ speed \in Nat
      /\ vram2 > 0 => rank2 = 4 /\ target = 2
  BY ScoreTerms
<1>3. /\ far1 = IF rank1 > target THEN rank1 - target ELSE target - rank1
      /\ far2 = IF rank2 > target THEN rank2 - target ELSE target - rank2
  BY ScoreTerms
<1>4. /\ over1 = IF rank1 > target THEN rank1 - target ELSE 0
      /\ over2 = IF rank2 > target THEN rank2 - target ELSE 0
  BY DEF Overshoot
<1> HIDE DEF speed, target, rank1, rank2, strength1, strength2, far1, far2, over1, over2, vram1, vram2
<1>5. far1 <= far2
  BY <1>1, <1>2, <1>3, <1>4
<1> QED
  BY <1>5 DEF far1, far2

(* assign_next_job gives a quality selector to the nearest price tier      *)
(* among workers of equal speed (coordinator.py:435), for every catalog    *)
(* whose strengths and VRAM keep within TiersOutweighTerms.                *)
THEOREM NearestTierAlwaysWins == Spec => NearestTierWins
<1>1. ASSUME MatchInv, NEW job \in DOMAIN jobs, jobs[job].selector \in QualitySelectors,
             NEW k \in 1 .. Len(queue), queue[k] = job, AssignNextJob(k),
             NEW pair \in Candidates(job),
             nodes[pair[1]].speed[pair[2]] = nodes[jobs'[job].worker].speed[jobs'[job].model]
      PROVE  RankDistance(jobs'[job].model, jobs[job].selector)
               <= RankDistance(pair[2], jobs[job].selector)
  <2>1. PICK best \in BestCandidates(job) : Assign(k, best[1], best[2])
    BY <1>1 DEF AssignNextJob
  <2>2. jobs'[job].worker = best[1] /\ jobs'[job].model = best[2]
    <3>1. jobs'[job] = [jobs[job] EXCEPT !.status = "assigned", !.worker = best[1],
                                        !.model = best[2]]
      BY <1>1, <2>1 DEF Assign
    <3>2. {"worker", "model", "status"} \subseteq DOMAIN jobs[job]
      BY <1>1 DEF MatchInv, JobsInv, Priced
    <3> QED
      BY <3>1, <3>2
  <2>3. best \in Candidates(job) /\ Score(job, best) >= Score(job, pair)
    BY <1>1, <2>1 DEF BestCandidates
  <2>4. best[2] \in Tags /\ pair[2] \in Tags
    BY <1>1, <2>3 DEF Candidates
  <2>5. nodes[best[1]].speed[best[2]] \in Nat
    <3>1. best[1] \in DOMAIN nodes /\ best[2] \in ClaimModels(nodes[best[1]], job)
      BY <2>3 DEF Candidates
    <3>2. best[2] \in nodes[best[1]].installed
      BY <3>1 DEF ClaimModels, SupportsModel
    <3>3. nodes[best[1]].speed \in [nodes[best[1]].installed -> Nat]
      BY <1>1, <3>1 DEF MatchInv, NodesInv, IsMachine
    <3> QED
      BY <3>2, <3>3
  <2> QED
    BY <1>1, <2>2, <2>3, <2>4, <2>5, TierDecides DEF Score
<1>2. MatchInv
        => [\A job \in DOMAIN jobs :
              /\ IsQueued(job)
              /\ jobs[job].selector \in QualitySelectors
              /\ \E k \in 1 .. Len(queue) : queue[k] = job /\ AssignNextJob(k)
              => \A pair \in Candidates(job) :
                   nodes[pair[1]].speed[pair[2]]
                     = nodes[jobs'[job].worker].speed[jobs'[job].model] =>
                     RankDistance(jobs'[job].model, jobs[job].selector)
                       <= RankDistance(pair[2], jobs[job].selector)]_vars
  BY <1>1
<1> QED
  BY <1>2, MatchInvHolds, PTL DEF NearestTierWins
=============================================================================
