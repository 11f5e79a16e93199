SPECIFICATION Spec
CONSTANTS
    Models <- DefaultModels
    Workers = {w1, w2}
    Users = {"alice", "bob"}
    NoWorker = NoWorker
    NoModel = NoModel
    Jobs = {j1}
    Selectors <- MCSelectors
    TokenCounts = {500, 1500}
    Offers <- MCOffers
SYMMETRY WorkerSymmetry
INVARIANTS
    ExplanationAgrees
    FittingModelServes
    ReservationCoversBill
PROPERTY
    NearestTierWins
