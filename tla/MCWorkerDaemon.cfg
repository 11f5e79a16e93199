SPECIFICATION FairSpec
CONSTANTS
    j1 = j1
    j2 = j2
    j3 = j3
    NoJob = no_job
    Capacity = 1
    MaxFaults = 3
    Jobs <- MCJobs
INVARIANTS
    ExecutedOnce
    OneJobPerFault
PROPERTIES
    QueuedJobsAreServed
