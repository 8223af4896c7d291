SPECIFICATION Spec
CONSTANTS
  Procs = {p1}
  Workers = {w1, w2}
  MaxRows = 2
  Playbook <- SlackThenEmail
  Commands = {}
  Handlers = {"decide"}
  MaxRetries = 2
  QueuedMode = TRUE
  RequireHumanApproval = TRUE
  MaxRequests = 2
  MaxAborts = 0
SYMMETRY Threads
PROPERTIES NoRepeatAfterCompletion
CHECK_DEADLOCK FALSE
