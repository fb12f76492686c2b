CONSTANTS
    Procs = {p1, p2}
    Units = {u1}
    Policies <- MCPolicies
    Requests <- MCRequests
    MaxDelay = 2
    Minute = 2
    DefaultMaxAge = 1
    LastTick = 2
    NoTime = NoTime
    NoReq = NoReq
    Absent = Absent
    Unreadable = Unreadable
CHECK_DEADLOCK FALSE
SPECIFICATION HelpersSpec
INVARIANTS TighteningPermitsNoMore
PROPERTIES FollowUpHonoursPolicyNow OkMeansDone
