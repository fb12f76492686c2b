CONSTANTS
    DayLen = 8
    Zones <- MCZones
    Specs <- MCSpecs
    FirstInstant = 56
    LastInstant = 120
SPECIFICATION WindowSpec
CHECK_DEADLOCK FALSE
INVARIANTS ReadsTheClock OpeningsHold
