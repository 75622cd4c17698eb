\* Two promotions, failing database calls and a crash at every step.
CONSTANTS
    Stages <- MCStages
    Environments <- MCEnvironments
    Target <- MCTarget
    ApprovalStages <- MCApprovalStages
    MaxPromotions = 2
    MaxDeployments = 2
    MaxJobs = 2
    Faults = {"db", "crash"}
SPECIFICATION Spec
INVARIANTS
    TypeOK
    WorkingHoldsLock
    CompletedJobAgrees
    WorkIsApproved
PROPERTIES
    ExecutesExclusively
    EndedStaysEnded
\* The bounds on rows make the system stop.
CHECK_DEADLOCK FALSE
