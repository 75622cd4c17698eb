\* Every failure but one of n8n, which the exclusion run has.
CONSTANTS
    e1 = e1
    e2 = e2
    j1 = j1
    j2 = j2
    j3 = j3
    Environments <- MCEnvironments
    Jobs <- MCJobs
    EnvOf <- MCEnvOf
    NoJob = NoJob
    Faults = {"write", "listing", "cancel", "slow", "crash"}
SPECIFICATION FairSpec
INVARIANTS TypeOK OneActiveJob
PROPERTY BlockedEnds
\* The bound on job rows makes the system stop.
CHECK_DEADLOCK FALSE
