---------------------------- MODULE ActionRuns ----------------------------
(***************************************************************************)
(* The life of one incident's action rows in the FastAPI backend, as every *)
(* handler that touches them sees it:                                      *)
(*   services/incidents.py          ingest_delay / ingest_absence          *)
(*   routers/approvals.py           decide_approval                        *)
(*   services/action_dispatcher.py  dispatch, requeue and the queue worker *)
(*   services/action_executor.py    execute, retry, evaluate               *)
(*   routers/chat.py, services/chat.py, services/voice_tools.py  commands  *)
(*                                                                         *)
(* A request thread or a worker p has a SQLAlchemy session of its own.     *)
(* The session reads rows once and never re-reads a row it still holds     *)
(* (autoflush=False, expire_on_commit=False), so mem[p] is the copy the    *)
(* handler acts on, and a commit writes the columns that differ from what  *)
(* was loaded, whatever the row has become meanwhile.  One step is one     *)
(* transaction, or one call to a connector.                                *)
(***************************************************************************)
EXTENDS Integers, FiniteSets, Sequences

CONSTANTS
  Procs,                 \* request threads
  Workers,               \* queue workers, one per pod
  MaxRows,               \* bound: action rows the incident may come to have
  Playbook,              \* action types the ingestion creates, in order
  Commands,              \* bound: action types the chat and voice channels ask for
  Handlers,              \* bound: endpoints the clients use
  MaxRetries,            \* settings.max_retries
  QueuedMode,            \* settings.action_execution_mode = "queued"
  RequireHumanApproval,  \* settings.require_human_approval
  MaxRequests,           \* bound: client requests and tool calls
  MaxAborts              \* bound: crashes and uncaught exceptions

ActionType == {"slack_notify", "call_production", "call_contractor", "update_po",
               "update_labor", "email_customer", "notify_manager", "escalate_ticket"}

Endpoint == {"decide", "retry", "requeue", "command", "chat", "voice"}

ASSUME ConstantsAssumption ==
  /\ Procs \cap Workers = {}
  /\ MaxRows \in Nat \ {0}
  /\ Playbook \in Seq(ActionType)
  /\ Len(Playbook) \in 1..MaxRows
  /\ Commands \subseteq ActionType
  /\ Handlers \subseteq Endpoint
  /\ MaxRetries \in Nat \ {0}
  /\ QueuedMode \in BOOLEAN
  /\ RequireHumanApproval \in BOOLEAN
  /\ MaxRequests \in Nat
  /\ MaxAborts \in Nat

VARIABLES
  status,       \* status[a]: ActionRun.status of row a, "none" before it exists
  kind,         \* kind[a]: ActionRun.action_type
  retries,      \* retries[a]: ActionRun.retry_count
  approval,     \* approval[a]: Approval.status, "none" without an approval row
  incident,     \* Incident.status, "none" before it is ingested
  pc,           \* pc[p]: where p's handler stands
  channel,      \* channel[p]: the command channel p serves, if any
  mem,          \* mem[p][a]: row a's status in p's session, "none" if not loaded
  memRetries,   \* memRetries[p][a]: row a's retry_count in p's session
  memIncident,  \* memIncident[p]: the incident's status in p's session
  result,       \* result[p]: what the connector answered
  delivered,    \* delivered[a]: effects of row a the outside world has seen
  requests,     \* requests served
  aborts        \* handlers that died half-way

database == <<status, kind, retries, approval, incident>>
session  == <<pc, channel, mem, memRetries, memIncident, result>>
vars     == <<database, session, delivered, requests, aborts>>

----------------------------------------------------------------------------
(* Types. *)

Rows     == 1..MaxRows
Sessions == Procs \cup Workers

ActionStatus   == {"pending", "queued", "completed", "failed", "needs_approval", "skipped"}
RowStatus      == ActionStatus \cup {"none"}
ApprovalStatus == {"pending", "approved", "rejected"}
IncidentStatus == {"in_progress", "resolved", "escalated"}
Channel        == {"command", "chat", "voice"}
Outcome        == {"ok", "error", "timeout"}
Step           == {"idle", "enqueue", "load", "run", "commit",
                   "retry", "requeue", "command", "due", "claim"}

DELAY_PLAYBOOK   == <<"slack_notify", "call_production", "update_po", "email_customer">>
ABSENCE_PLAYBOOK == <<"update_labor", "call_contractor", "notify_manager">>

\* Customer-facing: the playbooks' second component, and what chat and voice gate.
APPROVAL_REQUIRED_ACTIONS == {"email_customer"}

\* Connectors that cannot recognise a repeated call.
NON_IDEMPOTENT_TIMEOUT_ACTIONS ==
  {"slack_notify", "call_production", "call_contractor", "notify_manager"}

TypeOK ==
  /\ status      \in [Rows -> RowStatus]
  /\ kind        \in [Rows -> ActionType \cup {"none"}]
  /\ retries     \in [Rows -> Nat]
  /\ approval    \in [Rows -> ApprovalStatus \cup {"none"}]
  /\ incident    \in IncidentStatus \cup {"none"}
  /\ pc          \in [Sessions -> Step]
  /\ channel     \in [Sessions -> Channel \cup {"none"}]
  /\ mem         \in [Sessions -> [Rows -> RowStatus]]
  /\ memRetries  \in [Sessions -> [Rows -> Nat]]
  /\ memIncident \in [Sessions -> IncidentStatus \cup {"none"}]
  /\ result      \in [Sessions -> Outcome \cup {"none"}]
  /\ delivered   \in [Rows -> Nat]
  /\ requests    \in Nat
  /\ aborts      \in Nat

----------------------------------------------------------------------------
(* Sessions. *)

NoRows == [a \in Rows |-> "none"]

\* a is the first row of S in the order the incident lists its rows.
First(a, S) == a \in S /\ \A b \in S : a <= b

LoadedIn(p)  == {a \in Rows : mem[p][a] # "none"}

\* The rows the executor does not pass over.
PendingIn(p) == {a \in Rows : mem[p][a] = "pending"}

\* What a flush leaves in a column: only an attribute that differs from the
\* value it was loaded with is written, over whatever the row holds by now.
Written(new, loaded, current) == IF new = loaded THEN current ELSE new

Move(p, step) == pc' = [pc EXCEPT ![p] = step]

\* p's session holds only the rows of held: a refresh of the incident expires
\* its collection and drops the rows no local variable refers to.
HoldOnly(p, held) ==
  /\ mem' = [mem EXCEPT ![p] = [a \in Rows |-> IF a \in held THEN @[a] ELSE "none"]]
  /\ memRetries' = [memRetries EXCEPT ![p] = [a \in Rows |-> IF a \in held THEN @[a] ELSE 0]]

\* p reads the rows of S; a row its session already holds keeps the old values.
ReadRows(p, S) ==
  /\ mem' = [mem EXCEPT ![p] =
       [a \in Rows |-> IF a \in S /\ @[a] = "none" THEN status[a] ELSE @[a]]]
  /\ memRetries' = [memRetries EXCEPT ![p] =
       [a \in Rows |-> IF a \in S /\ mem[p][a] = "none" THEN retries[a] ELSE @[a]]]

\* The handler is over: the session is closed and its copies are gone.
EndSession(p) ==
  /\ Move(p, "idle")
  /\ channel' = [channel EXCEPT ![p] = "none"]
  /\ HoldOnly(p, {})
  /\ memIncident' = [memIncident EXCEPT ![p] = "none"]
  /\ result' = [result EXCEPT ![p] = "none"]

\* A client request reaches an idle request thread.
Request(p, endpoint) ==
  /\ pc[p] = "idle"
  /\ incident # "none"
  /\ endpoint \in Handlers
  /\ requests < MaxRequests
  /\ requests' = requests + 1

\* Mutation: queued mode leaves the new pending rows for the worker to find.
NoDispatchWhenQueued == IF QueuedMode THEN "idle" ELSE "load"

\* dispatch_incident_actions: queued mode enqueues, inline mode executes.
DispatchStep == IF QueuedMode THEN "enqueue" ELSE "load"

\* Mutation: a row is exhausted only beyond its budget.
BeyondBudget(count) == count > MaxRetries

\* The retry budget is used up: the row is dead-lettered.
Exhausted(count) == count >= MaxRetries

----------------------------------------------------------------------------
(* Ingestion and approval. *)

\* safety.py: may an action run without a human decision?
CheckHumanApprovalRequired(required, customerFacing, approvedByHuman) ==
  ~required \/ ~customerFacing \/ approvedByHuman

\* _create_action_runs: the status a playbook row starts with.
InitialStatus(type) ==
  IF CheckHumanApprovalRequired(RequireHumanApproval,
                                type \in APPROVAL_REQUIRED_ACTIONS, FALSE)
  THEN "pending" ELSE "needs_approval"

\* ingest_delay / ingest_absence: the incident, its playbook rows and their
\* approvals appear in one commit; the dispatch comes after it.
Ingest(p) ==
  LET planned == 1..Len(Playbook)
      first   == [a \in Rows |-> IF a \in planned THEN InitialStatus(Playbook[a]) ELSE "none"]
  IN
  /\ pc[p] = "idle"
  /\ incident = "none"
  /\ incident' = "in_progress"
  /\ status'   = first
  /\ kind'     = [a \in Rows |-> IF a \in planned THEN Playbook[a] ELSE "none"]
  /\ approval' = [a \in Rows |-> IF first[a] = "needs_approval" THEN "pending" ELSE "none"]
  /\ Move(p, DispatchStep)
  /\ UNCHANGED <<retries, channel, mem, memRetries, memIncident, result,
                 delivered, requests, aborts>>

\* Mutation: a decision may be taken again.
HasApproval(a) == approval[a] # "none"

\* The compare-and-swap of decide_approval: only a pending approval is decided.
Undecided(a) == approval[a] = "pending"

\* decide_approval "approved": approval and action status change in one
\* commit; the action object stays in the session for the dispatch.
Approve(p, a) ==
  /\ Request(p, "decide")
  /\ Undecided(a)
  /\ approval' = [approval EXCEPT ![a] = "approved"]
  /\ status'   = [status EXCEPT ![a] = "pending"]
  /\ mem'        = [mem EXCEPT ![p][a] = "pending"]
  /\ memRetries' = [memRetries EXCEPT ![p][a] = retries[a]]
  /\ Move(p, DispatchStep)
  /\ UNCHANGED <<kind, retries, incident, channel, memIncident, result, delivered, aborts>>

\* decide_approval "rejected": the action is skipped and nothing else happens.
Reject(p, a) ==
  /\ Request(p, "decide")
  /\ Undecided(a)
  /\ approval' = [approval EXCEPT ![a] = "rejected"]
  /\ status'   = [status EXCEPT ![a] = "skipped"]
  /\ UNCHANGED <<kind, retries, incident, session, delivered, aborts>>

\* Mutation: the update's status condition is lost for the rows that ran.
EveryRunRow == {a \in Rows : status[a] \in {"pending", "completed"}}

\* The rows enqueue_pending_actions updates: every pending row of the incident,
\* also one another session is executing.
Enqueueable == {a \in Rows : status[a] = "pending"}

Enqueue(p) ==
  /\ pc[p] = "enqueue"
  /\ status' = [a \in Rows |-> IF a \in Enqueueable THEN "queued" ELSE status[a]]
  /\ EndSession(p)
  /\ UNCHANGED <<kind, retries, approval, incident, delivered, requests, aborts>>

\* incident.actions: the rows execute_pending_actions will go through.
Load(p) ==
  /\ pc[p] = "load"
  /\ ReadRows(p, Rows)
  /\ memIncident' = [memIncident EXCEPT ![p] = incident]
  /\ Move(p, "run")
  /\ UNCHANGED <<database, channel, result, delivered, requests, aborts>>

----------------------------------------------------------------------------
(* Execution. *)

\* What _dispatch can get back for an action of this type.  escalate_ticket is
\* not implemented; the PO table and the labor mock answer without a time-out.
Outcomes(type) ==
  IF type = "escalate_ticket" THEN {"error"}
  ELSE IF type \in {"update_po", "update_labor"} THEN {"ok", "error"}
  ELSE Outcome

\* Whether the outside world may have seen the call.  A time-out does not
\* cancel it; the e-mail and manager connectors report any exception, one
\* raised after the request went out included, as an error.
Effects(type, outcome) ==
  CASE outcome = "ok" -> {TRUE}
    [] outcome = "timeout" -> BOOLEAN
    [] outcome = "error" -> IF type \in {"email_customer", "notify_manager"}
                            THEN BOOLEAN ELSE {FALSE}

\* The e-mail provider drops a repeated idempotency key action:{id}; marking a
\* worker absent twice is one absence.  Every other effect counts each time.
Deliver(a) ==
  delivered' = [delivered EXCEPT ![a] =
    IF kind[a] \in {"email_customer", "update_labor"} THEN 1 ELSE @ + 1]

\* execute_pending_actions, the connector call: the session's next pending row.
\* A PO update is a statement of the open transaction, so it shows at the commit.
Dispatch(p, a) ==
  /\ pc[p] = "run"
  /\ First(a, PendingIn(p))
  /\ \E outcome \in Outcomes(kind[a]) : \E landed \in Effects(kind[a], outcome) :
       /\ result' = [result EXCEPT ![p] = outcome]
       /\ IF landed /\ kind[a] # "update_po" THEN Deliver(a) ELSE UNCHANGED delivered
  /\ Move(p, "commit")
  /\ UNCHANGED <<database, channel, mem, memRetries, memIncident, requests, aborts>>

\* Mutation: the uncertain time-out is retried like any failure.
OneRetryUsed(type, outcome, count) == count + 1

\* _handle_failure: a time-out of a connector that cannot recognise a repeat
\* exhausts the retries at once; any other failure uses up one.
RetriesAfterFailure(type, outcome, count) ==
  IF outcome = "timeout" /\ type \in NON_IDEMPOTENT_TIMEOUT_ACTIONS
  THEN MaxRetries ELSE count + 1

\* Mutation: a call that timed out is taken for sent.
NotRefused(p) == result[p] # "error"

Succeeded(p) == result[p] = "ok"

\* execute_pending_actions, the commit after each action.
CommitAction(p, a) ==
  LET ok    == Succeeded(p)
      final == IF ok THEN "completed" ELSE "failed"
      count == IF ok THEN memRetries[p][a]
               ELSE RetriesAfterFailure(kind[a], result[p], memRetries[p][a])
  IN
  /\ pc[p] = "commit"
  /\ First(a, PendingIn(p))
  /\ status'  = [status EXCEPT ![a] = final]
  /\ retries' = [retries EXCEPT ![a] = Written(count, memRetries[p][a], @)]
  /\ mem'        = [mem EXCEPT ![p][a] = final]
  /\ memRetries' = [memRetries EXCEPT ![p][a] = count]
  /\ IF ok /\ kind[a] = "update_po" THEN Deliver(a) ELSE UNCHANGED delivered
  /\ result' = [result EXCEPT ![p] = "none"]
  /\ Move(p, "run")
  /\ UNCHANGED <<kind, approval, incident, channel, memIncident, requests, aborts>>

\* Mutation: every row that has run counts.
HasRun == {"completed", "skipped", "failed"}

Terminal == {"completed", "skipped"}

\* _evaluate_incident_lifecycle over the session's copies.
IncidentAfter(p) ==
  IF \A a \in LoadedIn(p) : mem[p][a] \in Terminal THEN "resolved"
  ELSE IF \E a \in LoadedIn(p) : mem[p][a] = "failed" /\ Exhausted(memRetries[p][a])
  THEN "escalated" ELSE memIncident[p]

\* The handler answers; a chat goes on to the model's next tool call.
Reply(p) ==
  IF channel[p] = "chat"
  THEN Move(p, "command") /\ UNCHANGED <<channel, mem, memRetries, result>>
  ELSE Move(p, "idle")
       /\ channel' = [channel EXCEPT ![p] = "none"]
       /\ HoldOnly(p, {})
       /\ UNCHANGED result

EvaluateIncidentLifecycle(p) ==
  /\ pc[p] = "run"
  /\ PendingIn(p) = {}
  /\ incident' = Written(IncidentAfter(p), memIncident[p], incident)
  /\ memIncident' = [memIncident EXCEPT ![p] =
       IF channel[p] = "chat" THEN IncidentAfter(p) ELSE "none"]
  /\ Reply(p)
  /\ UNCHANGED <<status, kind, retries, approval, delivered, requests, aborts>>

----------------------------------------------------------------------------
(* Retry and requeue. *)

\* POST /incidents/{id}/retry reads the rows, then sleeps through the backoffs.
RetryLoad(p) ==
  /\ Request(p, "retry")
  /\ ReadRows(p, Rows)
  /\ memIncident' = [memIncident EXCEPT ![p] = incident]
  /\ Move(p, "retry")
  /\ UNCHANGED <<database, channel, result, delivered, aborts>>

Retriable(p) == {a \in Rows : mem[p][a] = "failed" /\ ~Exhausted(memRetries[p][a])}

\* retry_failed_actions: what was read as failed is pending again, and executed
\* here, in either mode.
RetryFailedActions(p) ==
  /\ pc[p] = "retry"
  /\ \/ /\ Retriable(p) # {}
        /\ status' = [a \in Rows |-> IF a \in Retriable(p) THEN "pending" ELSE status[a]]
        /\ mem' = [mem EXCEPT ![p] = [a \in Rows |-> IF a \in Retriable(p) THEN "pending" ELSE @[a]]]
        /\ Move(p, "run")
        /\ UNCHANGED <<channel, memRetries, memIncident, result>>
     \/ /\ Retriable(p) = {}
        /\ EndSession(p)
        /\ UNCHANGED status
  /\ UNCHANGED <<kind, retries, approval, incident, delivered, requests, aborts>>

\* Mutation: any row that has run can be requeued.
RequeuableOnceRun(a) == status[a] \in {"failed", "completed"}

Requeuable(a) == status[a] = "failed"

\* POST /incidents/actions/{id}/requeue reads one row; only a failed one passes.
RequeueLoad(p, a) ==
  /\ Request(p, "requeue")
  /\ Requeuable(a)
  /\ ReadRows(p, {a})
  /\ Move(p, "requeue")
  /\ UNCHANGED <<database, channel, memIncident, result, delivered, aborts>>

\* requeue_failed_action: a fresh retry budget, for the worker or executed here.
RequeueFailedAction(p, a) ==
  /\ pc[p] = "requeue"
  /\ a \in LoadedIn(p)
  /\ retries' = [retries EXCEPT ![a] = Written(0, memRetries[p][a], @)]
  /\ \/ /\ QueuedMode
        /\ status' = [status EXCEPT ![a] = "queued"]
        /\ EndSession(p)
     \/ /\ ~QueuedMode
        /\ status' = [status EXCEPT ![a] = "pending"]
        /\ mem'        = [mem EXCEPT ![p][a] = "pending"]
        /\ memRetries' = [memRetries EXCEPT ![p][a] = 0]
        /\ Move(p, "load")
        /\ UNCHANGED <<channel, memIncident, result>>
  /\ UNCHANGED <<kind, approval, incident, delivered, requests, aborts>>

----------------------------------------------------------------------------
(* Commands of the operator chat, the chat agent and the voice agent. *)

\* The handler opens a session and reads the incident's rows; a chat agent then
\* talks to the model for a while before its first tool call.
CommandLoad(p, ch) ==
  /\ Request(p, ch)
  /\ channel' = [channel EXCEPT ![p] = ch]
  /\ ReadRows(p, Rows)
  /\ memIncident' = [memIncident EXCEPT ![p] = incident]
  /\ Move(p, "command")
  /\ UNCHANGED <<database, result, delivered, aborts>>

\* A tool call or command asking for this type, in one of these channels.
Asked(p, channels) ==
  /\ pc[p] = "command"
  /\ channel[p] \in channels

RowsOfType(p, type) == {a \in LoadedIn(p) : kind[a] = type}

\* A failed or pending row is made pending again; a failed one counts a retry.
Retrigger(p, a) ==
  LET count == IF mem[p][a] = "failed" THEN memRetries[p][a] + 1 ELSE memRetries[p][a]
  IN
  /\ status'  = [status EXCEPT ![a] = Written("pending", mem[p][a], @)]
  /\ retries' = [retries EXCEPT ![a] = Written(count, memRetries[p][a], @)]
  /\ UNCHANGED <<kind, approval>>

\* The session's copies after Retrigger, if it goes on with the rows of held.
RetriggeredCopies(p, a, held) ==
  /\ mem' = [mem EXCEPT ![p] =
       [b \in Rows |-> IF b = a THEN "pending" ELSE IF b \in held THEN @[b] ELSE "none"]]
  /\ memRetries' = [memRetries EXCEPT ![p] =
       [b \in Rows |-> IF b = a /\ mem[p][a] = "failed" THEN @[b] + 1
                       ELSE IF b = a \/ b \in held THEN @[b] ELSE 0]]

NewRow(a) == First(a, {b \in Rows : status[b] = "none"})

\* Mutation: the approval of a proposed row is forgotten.
InsertUngated(a, type, gated) ==
  /\ NewRow(a)
  /\ status' = [status EXCEPT ![a] = "pending"]
  /\ kind'   = [kind EXCEPT ![a] = type]
  /\ UNCHANGED <<approval, retries>>

\* A new row at the end of the incident, behind an approval if gated.
InsertRow(a, type, gated) ==
  /\ NewRow(a)
  /\ status' = [status EXCEPT ![a] = IF gated THEN "needs_approval" ELSE "pending"]
  /\ kind'   = [kind EXCEPT ![a] = type]
  /\ approval' = IF gated THEN [approval EXCEPT ![a] = "pending"] ELSE approval
  /\ UNCHANGED retries

\* The rows the loop variable of the search still holds when it finds none.
LastLoaded(p) == {a \in LoadedIn(p) : \A b \in LoadedIn(p) : b <= a}

\* Session copies after an insert: the new row and the rows of held.
InsertedCopies(p, a, held) ==
  /\ mem' = [mem EXCEPT ![p] =
       [b \in Rows |-> IF b = a THEN "pending" ELSE IF b \in held THEN @[b] ELSE "none"]]
  /\ memRetries' = [memRetries EXCEPT ![p] =
       [b \in Rows |-> IF b \in held /\ b # a THEN @[b] ELSE 0]]

\* POST /chat/command: re-trigger the first open row of the type and execute
\* the rows as read, or insert a row and execute after a refresh.
ChatCommand(p, type) ==
  LET open  == {a \in RowsOfType(p, type) : mem[p][a] \in {"pending", "failed", "needs_approval"}}
      gated == type \in APPROVAL_REQUIRED_ACTIONS
  IN
  /\ Asked(p, {"command"})
  /\ \/ \E a \in open :
          /\ First(a, open)
          /\ mem[p][a] = "needs_approval"
          /\ EndSession(p)
          /\ UNCHANGED <<status, kind, retries, approval>>
     \/ \E a \in open :
          /\ First(a, open)
          /\ mem[p][a] # "needs_approval"
          /\ Retrigger(p, a)
          /\ RetriggeredCopies(p, a, Rows)
          /\ Move(p, "run")
          /\ UNCHANGED <<channel, memIncident, result>>
     \/ /\ open = {}
        /\ \E a \in Rows :
             /\ InsertRow(a, type, gated)
             /\ IF gated THEN EndSession(p)
                ELSE /\ InsertedCopies(p, a, LastLoaded(p))
                     /\ Move(p, "load")
                     /\ UNCHANGED <<channel, memIncident, result>>
  /\ UNCHANGED <<incident, delivered, requests, aborts>>

\* The tool call is answered: the chat loop goes on, the voice session closes.
Answer(p) == IF channel[p] = "chat" THEN UNCHANGED session ELSE EndSession(p)

\* The chat agent proposes a customer-facing action unless the first row of its
\* type waits for approval or is completed; the voice agent always does.
AlreadyProposed(p, type) ==
  /\ channel[p] = "chat"
  /\ \E a \in RowsOfType(p, type) :
       First(a, RowsOfType(p, type)) /\ mem[p][a] \in {"needs_approval", "completed"}

ProposeForApproval(p, type) ==
  /\ Asked(p, {"chat", "voice"})
  /\ type \in APPROVAL_REQUIRED_ACTIONS
  /\ requests < MaxRequests
  /\ \/ /\ AlreadyProposed(p, type)
        /\ UNCHANGED <<status, kind, retries, approval>>
     \/ /\ ~AlreadyProposed(p, type)
        /\ \E a \in Rows : InsertRow(a, type, TRUE)
  /\ Answer(p)
  /\ requests' = requests + 1
  /\ UNCHANGED <<incident, delivered, aborts>>

\* execute_command on an internal action, chat and voice alike: the first row
\* of the type is reported, re-triggered, or left to others; without one a row
\* is inserted; then the incident is refreshed and what is pending executed.
ExecuteCommand(p, type) ==
  LET rows == RowsOfType(p, type)
      kept == IF channel[p] = "chat" THEN LastLoaded(p) ELSE {}
  IN
  /\ Asked(p, {"chat", "voice"})
  /\ type \notin APPROVAL_REQUIRED_ACTIONS
  /\ requests < MaxRequests
  /\ requests' = requests + 1
  /\ \/ \E a \in rows :
          /\ First(a, rows)
          /\ mem[p][a] = "completed"
          /\ Answer(p)
          /\ UNCHANGED <<status, kind, retries, approval>>
     \/ /\ \/ \E a \in rows :
                /\ First(a, rows)
                /\ mem[p][a] \in {"pending", "failed"}
                /\ Retrigger(p, a)
                /\ RetriggeredCopies(p, a, {})
           \/ \E a \in rows :
                /\ First(a, rows)
                /\ mem[p][a] \notin {"completed", "pending", "failed"}
                /\ HoldOnly(p, {a})
                /\ UNCHANGED <<status, kind, retries, approval>>
           \/ /\ rows = {}
              /\ \E a \in Rows : InsertRow(a, type, FALSE) /\ InsertedCopies(p, a, kept)
        /\ Move(p, "load")
        /\ UNCHANGED <<channel, memIncident, result>>
  /\ UNCHANGED <<incident, delivered, aborts>>

\* The model stops asking for tools, or the command is not in COMMAND_TO_ACTION.
CommandReply(p) ==
  /\ Asked(p, Channel)
  /\ EndSession(p)
  /\ UNCHANGED <<database, delivered, requests, aborts>>

----------------------------------------------------------------------------
(* The queue worker.  Each half of a cycle has a session of its own. *)

\* Mutation: the last attempt of the budget is not made.
DueButTheLast == {a \in Rows : status[a] = "failed" /\ ~Exhausted(retries[a] + 1)}

DueCandidates == {a \in Rows : status[a] = "failed" /\ ~Exhausted(retries[a])}

\* _requeue_due_failed_actions: the candidates, as one query reads them.
RequeueDueLoad(w) ==
  /\ QueuedMode
  /\ pc[w] = "idle"
  /\ ReadRows(w, DueCandidates)
  /\ Move(w, "due")
  /\ UNCHANGED <<database, channel, memIncident, result, delivered, requests, aborts>>

\* ... and the ones whose backoff is over are queued, as read.
RequeueDueFailedActions(w, due) ==
  /\ pc[w] = "due"
  /\ due \subseteq LoadedIn(w)
  /\ status' = [a \in Rows |-> IF a \in due THEN "queued" ELSE status[a]]
  /\ HoldOnly(w, {})
  /\ Move(w, "claim")
  /\ UNCHANGED <<kind, retries, approval, incident, channel, memIncident, result,
                 delivered, requests, aborts>>

\* Mutation: the claim uses the status the model has for it.
InProgress == "in_progress"

\* The status the claim gives the rows of the incident.
ClaimedStatus == "pending"

\* _process_next_queued_incident: the claim sets every queued row of the
\* incident back to pending and commits before anything is executed.
ProcessNextQueuedIncident(w) ==
  /\ pc[w] = "claim"
  /\ \/ /\ \E a \in Rows : status[a] = "queued"
        /\ status' = [a \in Rows |-> IF status[a] = "queued" THEN ClaimedStatus ELSE status[a]]
        /\ Move(w, "load")
     \/ /\ \A a \in Rows : status[a] # "queued"
        /\ Move(w, "idle")
        /\ UNCHANGED status
  /\ UNCHANGED <<kind, retries, approval, incident, channel, mem, memRetries,
                 memIncident, result, delivered, requests, aborts>>

----------------------------------------------------------------------------
(* The system. *)

\* A handler dies between two of its steps: the process is killed, or an
\* exception nobody catches rolls the open transaction back.
Abort(p) ==
  /\ pc[p] # "idle"
  /\ aborts < MaxAborts
  /\ aborts' = aborts + 1
  /\ EndSession(p)
  /\ UNCHANGED <<database, delivered, requests>>

Init ==
  /\ status      = NoRows
  /\ kind        = NoRows
  /\ retries     = [a \in Rows |-> 0]
  /\ approval    = NoRows
  /\ incident    = "none"
  /\ pc          = [p \in Sessions |-> "idle"]
  /\ channel     = [p \in Sessions |-> "none"]
  /\ mem         = [p \in Sessions |-> NoRows]
  /\ memRetries  = [p \in Sessions |-> [a \in Rows |-> 0]]
  /\ memIncident = [p \in Sessions |-> "none"]
  /\ result      = [p \in Sessions |-> "none"]
  /\ delivered   = [a \in Rows |-> 0]
  /\ requests    = 0
  /\ aborts      = 0

\* A client request is taken up.
Begin(p) ==
  \/ Ingest(p)
  \/ \E a \in Rows : Approve(p, a) \/ Reject(p, a) \/ RequeueLoad(p, a)
  \/ RetryLoad(p)
  \/ \E ch \in Channel : CommandLoad(p, ch)

\* execute_pending_actions, from reading the rows to the evaluation.
Execute(p) ==
  \/ Load(p)
  \/ \E a \in Rows : Dispatch(p, a) \/ CommitAction(p, a)
  \/ EvaluateIncidentLifecycle(p)

\* A request thread goes on with the handler it is in.
Continue(p) ==
  \/ Enqueue(p)
  \/ Execute(p)
  \/ RetryFailedActions(p)
  \/ \E a \in Rows : RequeueFailedAction(p, a)
  \/ \E type \in Commands :
       ChatCommand(p, type) \/ ProposeForApproval(p, type) \/ ExecuteCommand(p, type)
  \/ CommandReply(p)

\* The worker loop.
Work(w) ==
  \/ RequeueDueLoad(w)
  \/ \E due \in SUBSET Rows : RequeueDueFailedActions(w, due)
  \/ ProcessNextQueuedIncident(w)
  \/ Execute(w)

Next ==
  \/ \E p \in Procs : Begin(p) \/ Continue(p)
  \/ \E w \in Workers : Work(w)
  \/ \E p \in Sessions : Abort(p)

Spec == Init /\ [][Next]_vars

\* A thread that is in a handler goes on with it (every connector call returns,
\* in time or by its time-out); the worker loop keeps polling; and a failed
\* row's backoff is bounded (backoff_max_ms), so a worker that keeps coming
\* back finds it due at last.
Fairness ==
  /\ \A p \in Procs : WF_vars(Continue(p))
  /\ \A w \in Workers : WF_vars(Work(w))
  /\ \A w \in Workers : \A a \in Rows :
       SF_vars(\E due \in SUBSET Rows : a \in due /\ RequeueDueFailedActions(w, due))

FairSpec == Spec /\ Fairness

----------------------------------------------------------------------------
(* Properties. *)

\* README: the operator must approve a customer-facing action before it goes
\* out.  Neither a stale session nor a retry, a requeue, a chat or a worker gives
\* a row an effect while its approval is undecided or after it was rejected, and
\* with the policy on a customer-facing row has an effect only once approved.
ApprovalGate ==
  \A a \in Rows :
    /\ approval[a] \in {"pending", "rejected"} => delivered[a] = 0
    /\ RequireHumanApproval /\ kind[a] \in APPROVAL_REQUIRED_ACTIONS /\ delivered[a] > 0
         => approval[a] = "approved"

\* Why no handler can send a gated row: the row's status and its approval go
\* together, and no session holds a copy it would execute or retry.
ApprovalShape ==
  /\ \A a \in Rows :
       /\ approval[a] = "pending" <=> status[a] = "needs_approval"
       /\ approval[a] = "rejected" <=> status[a] = "skipped"
       /\ RequireHumanApproval /\ kind[a] \in APPROVAL_REQUIRED_ACTIONS => approval[a] # "none"
  /\ \A p \in Sessions : \A a \in Rows :
       mem[p][a] \in {"pending", "failed"} => approval[a] \notin {"pending", "rejected"}

\* ... which holds because rows exist from the ingestion on, a session holds only
\* rows that exist, and an idle thread holds none, so that what a requeue or the
\* worker's due scan holds is what it has just read, failed rows.
SessionShape ==
  /\ \A a \in Rows :
       /\ status[a] = "none" <=> kind[a] = "none"
       /\ status[a] = "none" => approval[a] = "none" /\ delivered[a] = 0
  /\ incident = "none" => \A a \in Rows : status[a] = "none"
  /\ \A p \in Sessions : \A a \in Rows :
       /\ mem[p][a] # "none" => status[a] # "none"
       /\ pc[p] \in {"idle", "claim"} => mem[p][a] = "none"
       /\ pc[p] \in {"requeue", "due"} => mem[p][a] \in {"none", "failed"}
  /\ \A p \in Sessions : pc[p] \notin {"idle", "due", "claim"} => incident # "none"

\* The inductive strengthening of ApprovalGate: every step of every handler keeps
\* it, whatever the other sessions hold.
GateInv == TypeOK /\ SessionShape /\ ApprovalShape /\ ApprovalGate

\* Failure drill 2: time-outs and errors do not produce a fake success.  A row
\* anybody holds to be completed has had its effect.
NoFakeSuccess ==
  \A a \in Rows :
    status[a] = "completed" \/ (\E p \in Sessions : mem[p][a] = "completed") => delivered[a] > 0

\* Why: a handler about to commit an ok answer has had the effect of the row it
\* called for; only a PO update takes its effect with that commit.
OkIsDelivered ==
  \A p \in Sessions : \A a \in Rows :
    /\ pc[p] = "commit"
    /\ result[p] = "ok"
    /\ First(a, PendingIn(p))
    /\ kind[a] # "update_po"
    => delivered[a] > 0

\* The inductive strengthening of NoFakeSuccess: a failed, timed-out or interrupted
\* call never counts as done, in the row or in anybody's copy of it.
SuccessInv == GateInv /\ NoFakeSuccess /\ OkIsDelivered

\* README: a time-out of a connector that cannot recognise a repeat fails closed
\* to avoid duplicate side effects.  (notify_manager is left out: its connector
\* also reports a broken connection as a plain, retried error.)
AtMostOnce ==
  \A a \in Rows :
    kind[a] \in NON_IDEMPOTENT_TIMEOUT_ACTIONS \ {"notify_manager"} => delivered[a] <= 1

\* A completed action stays completed: no later handler reopens or fails it.
CompletedIsFinal ==
  [][\A a \in Rows : status[a] = "completed" => status'[a] = "completed"]_vars

Dead(a) == status[a] = "failed" /\ retries[a] >= MaxRetries

Quiet == \A p \in Sessions : pc[p] = "idle"

\* Once its handlers have run to the end, an incident with a dead-lettered row
\* shows as escalated.
DeadLetterEscalates ==
  Quiet /\ aborts = 0 /\ (\E a \in Rows : Dead(a)) => incident = "escalated"

\* ... and a resolved incident has no row left to execute or to retry.
ResolvedIsSettled ==
  Quiet /\ aborts = 0 /\ incident = "resolved" =>
    \A a \in Rows : status[a] \notin {"pending", "queued", "failed"}

\* Every queued row is in the end completed or dead-lettered: the worker drains
\* the queue and retries to the end of the budget.
QueueSettles ==
  \A a \in Rows : status[a] = "queued" ~> status[a] = "completed" \/ Dead(a)

\* Approving an action is enough to have it executed.
ApprovedIsExecuted ==
  \A a \in Rows : approval[a] = "approved" ~> status[a] \in {"completed", "failed"}

\* Failure drill 3: no duplicate side effect for an action already completed.
NoRepeatAfterCompletion ==
  [][\A p \in Sessions : \A a \in Rows : Dispatch(p, a) => status[a] # "completed"]_vars

\* _handle_failure: retrying a dead-lettered row is disabled; it takes an
\* operator's requeue or command to bring it back, never the retry endpoint or
\* the worker's own requeue.  Both pass over what they have read as dead; what
\* has died since they read it, only one executor at a time keeps from them.
DeadLetterStaysDead ==
  [][\A p \in Sessions :
       RetryFailedActions(p) \/ (\E due \in SUBSET Rows : RequeueDueFailedActions(p, due))
       => \A a \in Rows : Dead(a) => status'[a] = "failed"]_vars

----------------------------------------------------------------------------
(* Refinement. *)

\* Where a row stands with respect to the gate, read off its approval.
GateOf(a) ==
  IF status[a] = "none" THEN "absent"
  ELSE CASE approval[a] = "none"    -> "free"
         [] approval[a] = "pending" -> "proposed"
         [] OTHER                   -> approval[a]

Gate == INSTANCE GatedActions WITH
  Actions <- Rows,
  gate    <- [a \in Rows |-> GateOf(a)],
  sent    <- [a \in Rows |-> delivered[a] > 0]

\* The handlers implement the gate: a decision is taken once, by a human, and
\* no row has an effect before it is free or approved, however the requests,
\* retries, chats and workers interleave and wherever they die.
ImplementsGate == Gate!GateSpec
=============================================================================
