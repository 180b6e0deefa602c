CONSTANTS
    Task = {t1, t2}
    MaxSession = 2
    File = {f1}
    MaxPending = 1
    MaxRows = 1
    MaxArchived = 1
    BadTargets = {0}
    NoSession = NoSession
SPECIFICATION Spec
INVARIANT BusyOnlyWhileRunning
