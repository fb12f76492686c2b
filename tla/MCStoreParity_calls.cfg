CONSTANTS
  Tenants = {"t1", "t2"}
  DefaultTenant = "t1"
  HostIDs = {h1, h2}
  Machines = {"m1"}
  Fingerprints = {f1, f2, f3}
  Keys = {k1, k2}
  JobIDs = {"j1", "j2"}
  Nonces = {"n1"}
  Operators = {ann, bob}
  AccountIDs = {a1, a2}
  Emails = {e1, e2}
  RuleIDs = {"r1"}
  Names = {"x1"}
  MaxTime = 3
  MaxVersions = 2
  MaxEvents = 3
  MaxLive = 2
  MaxEventsPerTenant = 2
  MaxUnitTransitionsPerHost = 2
  MaxWallboardSharesPerTenant = 1
  MaxBatch = 1
  Areas = {"enrolment", "enrollment_tokens", "documents", "certificates", "jobs", "history", "accounts", "sessions", "api_tokens", "events", "alerts", "templates", "shares"}
SYMMETRY Interchangeable
VIEW Stored
SPECIFICATION Spec
INVARIANTS StoreInv ReadsAgree
PROPERTIES StoresAgree SidesAreIsolated
