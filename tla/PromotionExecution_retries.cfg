\* Failing calls, lost answers and edits; the promotion is carried out twice.
CONSTANTS
    Count = 3
    ChangeTypes <- MCNewOrChanged
    MaxAttempts = 2
    MaxRuns = 2
    Faults = {"call", "lost", "commit", "restore", "ids", "edit"}
SPECIFICATION Spec
INVARIANTS RestoresSnapshot NewIsCreatedOnce
\* The bound on executions makes the system stop.
CHECK_DEADLOCK FALSE
