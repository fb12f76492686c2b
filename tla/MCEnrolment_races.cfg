CONSTANTS
  Enrolments = {"e1", "e2"}
  Machines = {"m1", "m2"}
  Tokens = {"t1", "t2"}
  Names = {"standard"}
  Anonymous = {"m2"}
  Keys = {"ops"}
  HostLimits = {1}
  Situations <- AllSituations
  MaxActs = 2
  MaxFaults = 2
SPECIFICATION Spec
CHECK_DEADLOCK FALSE
INVARIANTS EnrolmentInv AppliedOnce AppliedWasInUse
PROPERTIES AdmitsInOneStep
