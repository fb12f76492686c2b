CONSTANTS
  Replicas = {"ra", "rb"}
  Hosts = {"h1", "h2"}
  Units = {"u1"}
  RuleIDs = {"r1"}
  Deployments <- SafeDeployments
  FactsDocs <- Docs
  Watched = {"u1"}
  Thresholds = {1}
  Cooldown = 2
  AlertDigestThreshold = 1
  MaxOutboundInFlight = 2
  MaxUnitEventsPerBeat = 1
  DeliveryAttempts = 2
  StreamBuffer = 1
  MaxTime = 5
SPECIFICATION Spec
CHECK_DEADLOCK FALSE
INVARIANTS AlertsInv NoSilentLoss
PROPERTIES OnePerCooldown RecoveriesAreTrue EndIsTold
