SPECIFICATION Spec
CONSTANTS
    t1 = t1
    t2 = t2
    t3 = t3
    j1 = j1
    j2 = j2
    NoThread = no_thread
    NoJob = no_job
    Capacity = 1
    Threads <- MCThreads
    Jobs <- MCJobs
INVARIANT
    StoppedWorkerIsOffline
