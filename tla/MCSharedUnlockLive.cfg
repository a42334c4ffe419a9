SPECIFICATION FairSpec
CONSTANTS
    None = None
    Peers = {"desktop", "browser"}
    Users = {"u1"}
    Leader <- PairLeader
    Kind <- OwnKind
    Origin <- NoOrigin
    VaultUrl <- OneVault
    Accounts <- AllAccounts
    OptIn <- AllKinds
    DestinationSets = {}
    MaxTime = 1
    MaxEvents = 2
    MaxFaults = 1
    MaxChanges = 0
PROPERTY Convergence
