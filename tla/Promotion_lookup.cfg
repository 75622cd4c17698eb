\* The first read of execute_deployment may raise.
CONSTANTS
    Stages <- MCStages
    Environments <- MCEnvironments
    Target <- MCTarget
    ApprovalStages <- MCApprovalStages
    MaxPromotions = 2
    MaxDeployments = 2
    MaxJobs = 2
    Faults = {"lookup"}
SPECIFICATION Spec
INVARIANT OneTaskPerEnvironment
\* The bounds on rows make the system stop.
CHECK_DEADLOCK FALSE
