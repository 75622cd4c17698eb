\* Every failure; batches of one workflow, so that syncs alternate between two.
CONSTANTS
    w1 = w1
    w2 = w2
    x = x
    y = y
    Ids = {w1, w2}
    Contents = {x, y}
    Initially <- MCInitially
    Canonicals = {c1, c2}
    Syncs = {scheduled, backup}
    Scheduler = scheduled
    Backups = {backup}
    Free = Free
    NoCanonical = NoCanonical
    Nothing = Nothing
    BatchSize = 1
    MaxEvents = 2
    Second <- MCSecond
    Faults = {"list", "fetch", "read", "row", "mark", "db", "git", "push", "crash"}
SPECIFICATION FairSpec
INVARIANTS TypeOK
PROPERTIES BackupIsComplete IdentityStays RowsMirror
