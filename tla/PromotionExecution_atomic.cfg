\* Where the promise of atomicity holds: existing workflows, failing calls.
CONSTANTS
    Count = 4
    ChangeTypes <- MCExisting
    MaxAttempts = 3
    MaxRuns = 2
    Faults = {"call", "read", "hidden"}
SPECIFICATION FairSpec
PROPERTIES AtomicallyPromoted
\* The bound on executions makes the system stop.
CHECK_DEADLOCK FALSE
