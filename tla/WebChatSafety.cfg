CONSTANTS
    Task = {t1, t2}
    MaxSession = 3
    File = {f1}
    MaxPending = 1
    MaxRows = 1
    MaxArchived = 1
    BadTargets = {0}
    NoSession = NoSession
SPECIFICATION Spec
SYMMETRY Symmetry
INVARIANTS TypeOK OneWorkflow ChatsAreSound
