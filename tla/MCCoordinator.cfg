SPECIFICATION Spec
CONSTANTS
    alice = alice
    bob = bob
    w1 = w1
    w2 = w2
    j1 = j1
    j2 = j2
    small = small
    large = large
    Platform = platform_treasury
    NoJob = no_job
    NoWorker = no_worker
    Users <- MCUsers
    JobIds <- MCJobIds
    Grants <- MCGrants
    Adjustments <- MCAdjustments
    Prices <- MCPrices
    Selectors <- MCSelectors
    Workers <- TwoWorkers
    Offers <- MCOffers
    MaxMints = 1
SYMMETRY WorkerSymmetry
INVARIANTS
    TypeOK
    HoldsMatchOpenJobs
    RecordsMatchRows
    EarnedFromOthers
    QueueHoldsQueuedJobs
    NoSlotLeaks
PROPERTIES
    ClosedJobsStayClosed
    ImplementsLedger
