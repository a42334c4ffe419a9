SPECIFICATION Spec
CONSTANTS
    Correct = {"popup"}
    Faulty = {"page", "tab"}
    Web = {"page", "tab"}
    Topics = {"t"}
    Lengths = {2, 4}
    FaultyFragments <- AnyFragment
    MaxPayloadLen = 3
    MaxHeaderLen = 1
    MaxPayloadSize = 8
    SourceLimit <- OneSource
    OtherPoolLimit <- TwoSources
    WebPoolLimit <- OneSource
    ReassemblyTimeout = 3
    IdleTimeout = 2
    MaxSends = 2
    MaxTime = 3
INVARIANTS
    ReassemblyInv
    WholeMessages
    BoundedLifetime
    WithinLimits
    TimelyIsDelivered
