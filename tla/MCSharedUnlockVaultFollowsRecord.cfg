SPECIFICATION Spec
CONSTANTS
    None = None
    Peers = {"desktop", "browser"}
    Users = {"u1"}
    Leader <- PairLeader
    Kind <- OwnKind
    Origin <- NoOrigin
    VaultUrl <- OneVault
    Accounts <- AllAccounts
    OptIn <- AllKinds
    DestinationSets = {}
    MaxTime = 1
    MaxEvents = 3
    MaxFaults = 0
    MaxChanges = 0
INVARIANT VaultFollowsRecord
