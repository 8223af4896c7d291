SPECIFICATION FairSpec
CONSTANTS
  Procs = {p1}
  Workers = {w1}
  MaxRows = 3
  Playbook <- PoSlackEmail
  Commands = {}
  Handlers = {"decide"}
  MaxRetries = 3
  QueuedMode = TRUE
  RequireHumanApproval = TRUE
  MaxRequests = 3
  MaxAborts = 0
INVARIANTS TypeOK AtMostOnce DeadLetterEscalates ResolvedIsSettled
PROPERTIES QueueSettles ApprovedIsExecuted CompletedIsFinal
CHECK_DEADLOCK FALSE
