SPECIFICATION Spec
CONSTANTS
    None = None
    Peers = {"browser", "web"}
    Users = {"u1"}
    Leader <- WebLeader
    Kind <- OwnKind
    Origin <- WebOrigin
    VaultUrl <- OneVault
    Accounts <- AllAccounts
    OptIn <- AllKinds
    DestinationSets = {{}}
    MaxTime = 2
    MaxEvents = 2
    MaxFaults = 0
    MaxChanges = 1
ACTION_CONSTRAINTS Forward OneDisturbance
INVARIANTS Provenance NoRelockAfterRestart
PROPERTIES LastWriterWins LockSurvivesReload SyncsCleared
