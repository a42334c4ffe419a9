SPECIFICATION Spec
CONSTANTS
    Nodes = {a, b}
    Senders = {s1}
    None = None
    Durable = TRUE
    DropsSends = TRUE
    MaxEph = 2
    MaxSends = 2
    MaxFaults = 1
    MaxReplays = 1
    MaxAged = 0
SYMMETRY NodeSymmetry
ACTION_CONSTRAINT OneSendsMore
INVARIANTS
    NonceUniqueUnlessCut
    NoReplay
    InOrderDelivery
    SessionInv
CHECK_DEADLOCK FALSE
