CONSTANTS
  Browsers <- MCBrowsers
  Burst = 2
  Refill = 2
  IdleTTL = 4
  SweepAt = 2
  Ttl = 3
  MaxAge = 5
  RenewAfter = 2
  ShareLife = 2
  Situations <- AllSituations
  MaxSessions = 6
  MaxTokens = 3
SPECIFICATION Spec
CHECK_DEADLOCK FALSE
INVARIANTS AccessInv EndedStaysEnded RemovalLeavesNothing WithinBudget
PROPERTIES WithdrawnGoesDark
