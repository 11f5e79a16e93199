SPECIFICATION ServersSpec
CONSTANTS
    s1 = s1
    s2 = s2
    cli = cli
    p1 = p1
    p2 = p2
    t1 = t1
    t2 = t2
    Commands <- OneCommand
    Servers <- MCServers
    Purchases <- MCPurchases
    Tokens <- MCTokens
INVARIANTS
    BalancesPersist
