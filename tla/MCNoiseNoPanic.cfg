SPECIFICATION Spec
CONSTANTS
    Nodes = {a, b}
    Senders = {s1}
    None = None
    Durable = FALSE
    DropsSends = FALSE
    MaxEph = 3
    MaxSends = 2
    MaxFaults = 1
    MaxReplays = 0
    MaxAged = 0
SYMMETRY NodeSymmetry
INVARIANT NoPanic
CHECK_DEADLOCK FALSE
