CONSTANTS
    Hosts = {h1, h2}
    Operators = {alice, bob}
    SignerIds = {s1, s2}
    ServerIds = {r1}
    SignerNonces = {n1}
    OpSlots = {o1, o2}
    AgentSlots = {a1}
    Statuses = {failed}
    FailureStatuses = {failed}
    ClaimLimit = 1
    MaxClockSkew = 1
    MaxTime = 1
    NoOne = NoOne
    NoRow = NoRow
    NoResult = NoResult
SYMMETRY Symmetry
CONSTRAINT Scope
CHECK_DEADLOCK FALSE
SPECIFICATION Spec
INVARIANTS QueueInv OnlyReleasedWorkRuns HandedOutOnce
PROPERTIES JobHistoryIsFinal RevocationCutsOff
