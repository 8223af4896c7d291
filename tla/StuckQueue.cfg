SPECIFICATION FairSpec
CONSTANTS
  Procs = {p1}
  Workers = {w1}
  MaxRows = 1
  Playbook <- OnlySlack
  Commands = {}
  Handlers = {"decide"}
  MaxRetries = 2
  QueuedMode = TRUE
  RequireHumanApproval = TRUE
  MaxRequests = 0
  MaxAborts = 1
PROPERTIES QueueSettles
CHECK_DEADLOCK FALSE
