\* Redis and the pod work: what was begun must come to its end.
SPECIFICATION FairSpec
CONSTANTS
  Handlers = {h1}
  Objectives = {cause}
  StoreFaults = FALSE
  PodFaults = FALSE
  Requests = {r1, r2}
PROPERTIES
  AcceptedTakesEffect
  CleanupCompletes
CHECK_DEADLOCK FALSE
