\* Failures that leave the work of a task alone.
CONSTANTS
    e1 = e1
    e2 = e2
    j1 = j1
    j2 = j2
    j3 = j3
    Environments <- MCEnvironments
    Jobs <- MCJobs
    EnvOf <- MCEnvOf
    NoJob = NoJob
    Faults = {"sync", "write", "listing", "crash"}
SPECIFICATION Spec
PROPERTIES SyncsExclusively
\* The bound on job rows makes the system stop.
CHECK_DEADLOCK FALSE
