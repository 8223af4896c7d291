\* A close whose pipeline has not shut down.
SPECIFICATION Spec
CONSTANTS
  Handlers = {h1}
  Objectives = {cause}
  StoreFaults = FALSE
  PodFaults = FALSE
  Requests = {r1}
INVARIANTS
  BackstopUntilShutdown
CHECK_DEADLOCK FALSE
