SPECIFICATION Spec
CONSTANTS
    NComponents = 2
    Checkable = {"h1", "s1", "s2"}
    Reflexive = {}
    NoPair = "none"
    Parent <- MCParent
    CompOf <- MCCompOf
    Foundation <- MCFoundation
    PrioControlling <- MCPrioControlling
    PrioControlled <- MCPrioControlled
    HostHost <- MCHostHost
    Compatible <- MCCompatible
    SockOf <- MCSockOf
    Nomination = "REGULAR"
    InitRole = "controlling"
    MaxConnChecks = 3
    MaxIncoming = 1
    IdleTicks = 1
    MaxTxns = 2
    Features = {}
INVARIANTS
    NominatesOnce
    ReadyIsSettled
CHECK_DEADLOCK FALSE
