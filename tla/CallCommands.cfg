\* Redis and the owner's pod may fail at any step.
SPECIFICATION Spec
CONSTANTS
  Handlers = {h1, h2}
  Objectives = {cause, eta}
  StoreFaults = TRUE
  PodFaults = TRUE
  Requests = {r1, r2}
INVARIANTS
  ExecutedOnce
  RefusedNeverRuns
  CloseOnce
  BackstopStands
  AutoCloseNeedsAll
SYMMETRY Interchangeable
CHECK_DEADLOCK FALSE
