SPECIFICATION MCSpec
CONSTANTS
    Connectors = {c1, c2}
    Kind = "script"
    MaxTries = 2
    MaxAttempts = 2
    MaxEdits = 1
    MaxFaults = 2
    MaxCrashes = 1
    MaxDisturbances = 1
INVARIANTS
    SuccessIsTrue
    UnchangedIsTrue
PROPERTIES
    EditsSurvive
    AttemptsEnd
CHECK_DEADLOCK FALSE
