\* Every failure but an unread policy; reconciliation needs an approval.
CONSTANTS
    e1 = e1
    i1 = i1
    i2 = i2
    a1 = a1
    Environments = {e1}
    Incidents = {i1, i2}
    EnvOf <- MCEnvOf
    Approvals = {a1}
    AboutOf <- MCAboutOf
    Users = {u1, u2}
    NoIncident = NoIncident
    Required = {"reconcile"}
    BlockOnDrift = TRUE
    BlockOnExpired = TRUE
    Faults = {"pointer", "expiry", "execute", "read", "admin", "purge", "crash"}
SPECIFICATION FairSpec
INVARIANTS TypeOK OneActiveIncident PointerNamesOpen GatedIsApproved GateIsJustified
PROPERTIES ClosedStaysClosed ExpiredEnds
\* The bound on incidents makes the system stop.
CHECK_DEADLOCK FALSE
