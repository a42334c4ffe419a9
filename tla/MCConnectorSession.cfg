SPECIFICATION FairSpec
CONSTANTS
    Tasks = {worker, heartbeat}
    Starter = worker
    Nobody = Nobody
    MaxTries = 2
    MaxBearers = 3
INVARIANTS
    TypeOK
    SecretsFollowPhase
    RetryUsesAnotherBearer
PROPERTIES
    RenewedForCause
    ImplementsPhases
    CallsEnd
CHECK_DEADLOCK FALSE
