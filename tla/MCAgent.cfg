CONSTANTS
    Payloads <- EveryClass
    SignerKeys = {alice}
    OnlineKeys = {online}
    Signed <- SignedOnes
    MaxJobAge = 2
    Policies <- AllOrNothing
    PauseStates = {TRUE, FALSE}
    Anchors <- AnyAnchor
    MaxTime = 2
    MaxOps = 1
    NoSig = NoSig
    NoJob = NoJob
CONSTRAINT Scope
SPECIFICATION Spec
INVARIANTS AgentInv AcceptedOnceInsideWindow NothingWithoutTheOfflineKey
PROPERTIES PauseStopsTheHost
