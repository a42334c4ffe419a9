SPECIFICATION FairSpec
CONSTANTS
    Nodes = {a, b}
    Senders = {s1}
    None = None
    Durable = TRUE
    DropsSends = TRUE
    MaxEph = 2
    MaxSends = 1
    MaxFaults = 1
    MaxReplays = 0
    MaxAged = 1
PROPERTIES SendCompletes InboxDrains
CHECK_DEADLOCK FALSE
