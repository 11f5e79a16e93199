SPECIFICATION IdentitySpec
CONSTANTS
    u1 = u1
    u2 = u2
    uid1 = uid1
    uid2 = uid2
    j1 = j1
    w1 = w1
    t1 = t1
    Platform = platform_treasury
    NoJob = no_job
    Users <- MCUsers
    JobIds <- MCJobs
    Grants <- MCGrants
    Adjustments <- MCAdjustments
    Prices <- MCPrices
    Uids <- MCUids
    Admins <- MCAdmins
    WorkerIds <- MCWorkers
    Tokens <- MCTokens
    BootstrapCredits = 2
    MaxRequests = 2
    MaxMints = 4
SYMMETRY UserSymmetry
INVARIANTS
    AccountsAreBound
    GrantedOnce
