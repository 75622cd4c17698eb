CONSTANTS
    t1 = t1
    t2 = t2
    d1 = d1
    d3 = d3
    j1 = j1
    j2 = j2
    e1 = e1
    Tenants = {t1, t2}
    Deployments = {d1, d3}
    Jobs = {j1, j2}
    Environments = {e1}
    Owner <- MCOwner
    EnvironmentOf <- MCEnvironmentOf
    NoEnvironment = NoEnvironment
    Pages = {p1}
    Scopes <- MCScopes
    Streams = {s1, s2}
    NoStream = NoStream
    QueueSize = 2
    MaxAttempts = 2
    MaxWrites = 2
    Faults = {"silent", "emit", "network", "restart"}
SPECIFICATION FairSpec
INVARIANTS
    TypeOK
    LastWordIsComing
    CountersSurviveOverflow
    Isolation
PROPERTIES
    PagesReplicate
    EventuallyShown
