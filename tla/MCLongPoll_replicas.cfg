SPECIFICATION FairSpec
CONSTANTS
  h1 = h1
  r1 = r1
  r2 = r2
  p1 = p1
  p2 = p2
  Jobs = {1}
  Hosts = {h1}
  Replicas = {r1, r2}
  Polls = {p1, p2}
  JobHost <- ForOne
  PollHost <- PlacesOfOne
  ServedBy <- AtEither
  Limit = 1
  MaxFaults = 2
  Nobody = Nobody
INVARIANTS PollInv NoLostWakeUp ClaimedByOne
PROPERTIES ReadyWorkIsClaimed
