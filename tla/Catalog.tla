------------------------------ MODULE Catalog ------------------------------
(***************************************************************************)
(* The catalog of approved models (catalog.py, ApprovedModelCatalog) and   *)
(* the prices and memory floors of its models (models.py).  A job names a  *)
(* model tag or a quality selector; a selector is resolved against the     *)
(* models a worker has installed.                                          *)
(*                                                                         *)
(* Units: host RAM in tenths of a GB, VRAM in GB (whole numbers in the     *)
(* catalog), multipliers in halves.  Abstracted: the family, and the flags *)
(* (runtime, local_only, supports_public_pool) no catalog entry changes.   *)
(***************************************************************************)
EXTENDS Integers, FiniteSetsExt

CONSTANTS
    Models          \* model tag -> [vram, quality, rank, strength]

QualitySelectors == {"auto", "good", "better", "best"}

Tags == DOMAIN Models

ModelDefinition ==
    [vram : Nat, quality : {"good", "better", "best"}, rank : 1 .. 4, strength : Nat]

ASSUME CatalogAssumption ==
    /\ IsFiniteSet(Tags)
    /\ \A tag \in Tags : Models[tag] \in ModelDefinition
    /\ Tags \cap QualitySelectors = {}
    /\ \A quality \in {"good", "better", "best"} : \E tag \in Tags : Models[tag].quality = quality

CeilDiv(x, y) == (x + y - 1) \div y

(* MODEL_TIER_MULTIPLIERS, in halves, by pricing rank. *)
DoubleMultiplier == <<2, 3, 5, 6>>

-----------------------------------------------------------------------------

(* estimate_credits, of prompt and output tokens together. *)
EstimateCredits(tag, tokens) ==
    CeilDiv(Max({CeilDiv(tokens, 1000), 1}) * DoubleMultiplier[Models[tag].rank], 2)

EstimatedSystemRam(tag) == Max({10 * Models[tag].vram + 10, 11 * Models[tag].vram})

WithQuality(tags, quality) == {tag \in tags : Models[tag].quality = quality}

(* _strongest_model: by strength, then VRAM.  Among equals max keeps the   *)
(* first of a set's iteration order: any of them.                          *)
Strongest(tags) ==
    {tag \in tags : \A other \in tags :
        \/ Models[tag].strength > Models[other].strength
        \/ /\ Models[tag].strength = Models[other].strength
           /\ Models[tag].vram >= Models[other].vram}

(* resolve_selector_for_models: the models it may return, {} for None. *)
ResolveSelector(selector, installed) ==
    LET Of(quality) == WithQuality(installed \cap Tags, quality)
        quality == CASE selector # "auto" -> selector
                     [] selector = "auto" /\ Of("better") # {} -> "better"
                     [] selector = "auto" /\ Of("better") = {} /\ Of("best") # {} -> "best"
                     [] OTHER -> "good"
    IN  IF selector \in QualitySelectors THEN Strongest(Of(quality))
                                         ELSE {selector} \cap installed \cap Tags

(* _candidate_models_for_selector *)
CandidateModels(selector) ==
    CASE selector = "auto" -> Tags
      [] selector \in QualitySelectors \ {"auto"} -> WithQuality(Tags, selector)
      [] OTHER -> {selector}

(* Variant with a bug: the cheapest candidate is reserved for.             *)
EstimateReservationCheapest(selector, tokens) ==
    Min({EstimateCredits(tag, tokens) : tag \in CandidateModels(selector)})

EstimateReservation(selector, tokens) ==
    Max({EstimateCredits(tag, tokens) : tag \in CandidateModels(selector)})

ActualCost(tag, tokens) == EstimateCredits(tag, tokens)

=============================================================================
