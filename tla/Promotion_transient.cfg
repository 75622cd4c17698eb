\* What survives when the first read of execute_deployment raises.
CONSTANTS
    Stages <- MCStages
    Environments <- MCEnvironments
    Target <- MCTarget
    ApprovalStages <- MCApprovalStages
    MaxPromotions = 2
    MaxDeployments = 2
    MaxJobs = 2
    Faults = {"lookup"}
SPECIFICATION FairSpec
INVARIANTS
    SuccessIsEarned
PROPERTY WorkEnds
\* The bounds on rows make the system stop.
CHECK_DEADLOCK FALSE
