SPECIFICATION Spec
CONSTANTS
    staging = staging
    prod = prod
    s0 = s0
    s1 = s1
    s2 = s2
    Environments = {staging, prod}
    Staging = {staging}
    Production = {prod}
    Workflows = {w1, w2}
    Snapshots = {s0, s1, s2}
    Ops = {o1, o2}
    None = None
    Async = Async
    Earlier <- MCEarlier
    Faults = {"export", "calls", "db", "git", "crash"}
SYMMETRY Symmetry
INVARIANTS TypeOK PointerWasDeployed WritesAreCommitted OutcomeAgrees OnboardedOnce
PROPERTY OperationsAsDecided
CHECK_DEADLOCK FALSE
