CONSTANTS
  Pods = {p1, p2}
  MaxRow = 3
  IncidentOf <- TwoIncidents
  MaxQueuings = 2
  MaxCrashes = 1
SPECIFICATION FairSpec
INVARIANTS
  ClaimedOncePerQueuing
  ClaimIsNotEmpty
PROPERTY QueuedIsClaimed
CHECK_DEADLOCK FALSE
