CONSTANTS
    Task = {t1}
    Key = {k1}
    Poller = {p1}
    Client = {c1}
    Proposer = {c1}
    Ops = {"accept", "dismiss", "pause", "resume", "delete", "run_due", "run_early", "run_paused"}
    MaxTasks = 3
    MaxToken = 4
    MaxStamp = 4
    MaxAbandon = 1
    LongRuns = FALSE
    LongLists = FALSE
    None = None
SPECIFICATION FairSpec
INVARIANTS ActiveHasNextRun
PROPERTY DueTaskIsHandled
