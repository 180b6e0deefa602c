CONSTANTS
    Entry = {e1, e2, e3}
    User = {ann, bob}
    NoUser = NoUser
    MaxConcurrent = 1
    Sticky = {0}
    Overflow = {1}
    NoSlot = NoSlot
SPECIFICATION Spec
SYMMETRY Symmetry
INVARIANTS TypeOK PermitConservation SlotsAreSound
PROPERTIES NoOvertaking ImplementsLimiter
