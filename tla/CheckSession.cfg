SPECIFICATION FairSpec
CONSTANTS
    NComponents = 1
    Checkable = {"s1", "r1"}
    Reflexive = {"d1"}
    NoPair = "none"
    Parent <- MCParent
    CompOf <- MCCompOf
    Foundation <- MCFoundation
    PrioControlling <- MCPrioControlling
    PrioControlled <- MCPrioControlled
    HostHost <- MCHostHost
    Compatible <- MCCompatible
    SockOf <- MCSockOf
    Nomination = "REGULAR"
    InitRole = "controlled"
    MaxConnChecks = 2
    MaxIncoming = 1
    IdleTicks = 2
    MaxTxns = 2
    Features = {"badreply", "sendfail", "early", "restart", "forcerelay"}
INVARIANTS
    AssertionsHold
    ReadyIsSettled
PROPERTIES
    TimerStops
