CONSTANTS
    Task = {t1}
    Key = {k1, k2}
    Poller = {p1}
    Client = {c1, c2}
    Proposer = {c1}
    Ops = {"accept", "pause", "resume", "run_due"}
    MaxTasks = 3
    MaxToken = 4
    MaxStamp = 6
    MaxAbandon = 0
    LongRuns = FALSE
    LongLists = FALSE
    None = None
SPECIFICATION FairSpec
CHECK_DEADLOCK FALSE
INVARIANT ExclusiveRun
