SPECIFICATION ConversationsSpec
CONSTANTS
    alice = alice
    bob = bob
    w1 = w1
    j1 = j1
    j2 = j2
    j3 = j3
    c1 = c1
    c2 = c2
    small = small
    Platform = platform_treasury
    NoJob = no_job
    NoWorker = no_worker
    Users <- MCUsers
    JobIds <- ThreeJobs
    Grants <- MCGrants
    Adjustments <- NoAdjustments
    Prices <- MCPrices
    Selectors <- MCSelectors
    Workers <- OneWorker
    Offers <- MCOffers
    Threads <- TwoThreads
    ContextLimit = 2
    MaxMints = 1
SYMMETRY JobSymmetry
INVARIANTS
    PromptsAnsweredOnce
    MessagesHaveJobs
    TurnsFollowThread
