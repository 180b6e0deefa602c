CONSTANTS
    Task = {t1}
    Key = {k1}
    Poller = {p1}
    Client = {c1, c2}
    Proposer = {c1, c2}
    Ops = {"accept", "delete", "run_due"}
    MaxTasks = 3
    MaxToken = 4
    MaxStamp = 5
    MaxAbandon = 0
    LongRuns = FALSE
    LongLists = TRUE
    None = None
SPECIFICATION Spec
CHECK_DEADLOCK FALSE
SYMMETRY Symmetry
INVARIANTS TypeOK ClaimHolderRunsAlone OnceRunsOnce
PROPERTIES StoppedStaysStopped PollRunsWhatIsDue
