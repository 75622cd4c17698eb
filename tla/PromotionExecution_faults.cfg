\* Every failure at once, one execution of two workflows.
CONSTANTS
    Count = 2
    ChangeTypes <- MCAllTypes
    MaxAttempts = 2
    MaxRuns = 1
    Faults = {"call", "read", "lost", "sync", "commit", "restore", "policy", "ids", "edit", "reject", "hidden"}
SPECIFICATION Spec
INVARIANTS TypeOK CompletedDelivers
\* The bound on executions makes the system stop.
CHECK_DEADLOCK FALSE
