SPECIFICATION LedgerSpec
CONSTANTS
    u1 = u1
    u2 = u2
    j1 = j1
    j2 = j2
    Platform = platform_treasury
    NoJob = no_job
    Users <- MCUsers
    JobIds <- MCJobIds
    Grants <- MCGrants
    Adjustments <- MCAdjustments
    Prices <- MCPrices
    MaxMints = 2
INVARIANTS
    LedgerTypeOK
    PendingMatchesHolds
    RowsExplainBalances
    CreditsConserved
    JobRowsBalance
PROPERTIES
    ImplementsEscrow
