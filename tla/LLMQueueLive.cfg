CONSTANTS
    Entry = {e1, e2, e3}
    User = {ann}
    NoUser = NoUser
    MaxConcurrent = 1
    Sticky = {0}
    Overflow = {}
    NoSlot = NoSlot
SPECIFICATION FairSpec
PROPERTY EveryoneIsServed
