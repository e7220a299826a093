SPECIFICATION Spec
CONSTANTS
    NComponents = 1
    Checkable = {"h1", "s1", "r1"}
    Reflexive = {}
    NoPair = "none"
    Parent <- MCParent
    CompOf <- MCCompOf
    Foundation <- MCFoundation
    PrioControlling <- MCPrioControlling
    PrioControlled <- MCPrioControlled
    HostHost <- MCHostHost
    Compatible <- MCCompatible
    SockOf <- MCSockOf
    Nomination = "REGULAR"
    InitRole = "controlling"
    MaxConnChecks = 3
    MaxIncoming = 1
    IdleTicks = 2
    MaxTxns = 2
    Features = {"badreply"}
INVARIANTS
    TypeOK
    QueueSound
    ChecksCanEnd
    OutcomeIsFinal
    AssertionsHold
    NominatesOnce
