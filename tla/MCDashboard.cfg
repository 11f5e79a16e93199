SPECIFICATION DashboardSpec
CONSTANTS
    u1 = u1
    u2 = u2
    j1 = j1
    j2 = j2
    t1 = t1
    t2 = t2
    c1 = c1
    c2 = c2
    None = None
    Users <- TwoUsers
    JobIds <- TwoJobs
    Threads <- OneThread
    Slots <- TwoCalls
    Buttons <- AllButtons
SYMMETRY Symmetry
INVARIANT
    NoStrayInterval
PROPERTY
    ShownAccountPays
