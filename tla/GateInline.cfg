SPECIFICATION Spec
CONSTANTS
  Procs = {p1, p2}
  Workers = {}
  MaxRows = 3
  Playbook <- SlackThenEmail
  Commands = {"slack_notify", "email_customer", "call_production", "escalate_ticket"}
  Handlers = {"decide", "retry", "requeue", "command", "chat", "voice"}
  MaxRetries = 2
  QueuedMode = FALSE
  RequireHumanApproval = TRUE
  MaxRequests = 2
  MaxAborts = 1
SYMMETRY Threads
INVARIANTS ApprovalGate NoFakeSuccess
PROPERTIES ImplementsGate
CHECK_DEADLOCK FALSE
