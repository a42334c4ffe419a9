SPECIFICATION MCSpec
CONSTANTS
    Connectors = {c1}
    Kind = "script"
    MaxTries = 1
    MaxAttempts = 1
    MaxEdits = 0
    MaxFaults = 0
    MaxCrashes = 0
    MaxDisturbances = 0
INVARIANT ChangeIsRecorded
CHECK_DEADLOCK FALSE
