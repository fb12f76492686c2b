CONSTANTS
  Lifetime = 7
  RenewPoint = 4
  Overlap = 2
  MaxLive = 3
  Situations <- AllSituations
  MaxCerts = 5
  MaxTime = 9
SPECIFICATION Spec
CHECK_DEADLOCK FALSE
INVARIANTS ContactInv WorkingCredential WithdrawnIsRefused
PROPERTIES DocumentsArrive
