SPECIFICATION RecoverySpec
CONSTANTS
    alice = alice
    bob = bob
    w1 = w1
    j1 = j1
    j2 = j2
    small = small
    Platform = platform_treasury
    NoJob = no_job
    NoWorker = no_worker
    Users <- MCUsers
    JobIds <- TwoJobs
    Grants <- MCGrants
    Adjustments <- NoAdjustments
    Prices <- MCPrices
    Selectors <- MCSelectors
    Workers <- OneWorker
    Offers <- MCOffers
    MaxMints = 1
SYMMETRY JobSymmetry
CHECK_DEADLOCK FALSE
INVARIANTS
    AnswersSurvive
    ExecutionsAreAssigned
    ServedStateIsSound
