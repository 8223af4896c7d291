# Supply Genie: a TLA+ verification project

Supply Genie receives supply-chain incidents (a delayed shipment, an absent
worker), creates a playbook of *actions* for each, runs them against external
connectors (Slack, e-mail, Twilio calls, the purchase-order table, the labor
system) and lets an operator approve, retry, requeue and command them through
HTTP, a chat agent and a voice agent. This directory models that life of an
incident, the delivery of its webhook, the queue's claims, the connectors'
resilience, the purchase order and the phone call, checks them with TLC and
proves their safety with TLAPS. Paths
below are relative to `src/backend/app/` unless they start with `src/`.

Contents: [inventory](#inventory), [the modules](#the-modules),
[how the model corresponds to the code](#how-the-model-corresponds-to-the-code),
[runs](#runs-and-what-they-show), [bounds](#bounds), [fairness](#fairness),
[proofs](#proofs), [findings](#findings), [not modelled](#what-is-not-modelled),
[plan](#plan).

## Inventory

| Component | State it keeps | Operations that change state | Hard behaviours | What makes it correct |
|---|---|---|---|---|
| **Action execution** `services/action_executor.py` | `ActionRun.status`, `retry_count`, `Incident.status` | `execute_pending_actions`, `retry_failed_actions`, `_handle_failure`, `_evaluate_incident_lifecycle` | works on copies of rows read before long connector calls; one commit per action; time-outs whose effect is unknown | no effect without approval; no effect twice; no success without effect; a completed row stays completed; dead letters escalate and stay dead |
| **Dispatcher, queue worker** `services/action_dispatcher.py` | the `queued` status; one worker thread per process | `dispatch_incident_actions`, `enqueue_pending_actions`, `requeue_failed_action`, `_requeue_due_failed_actions`, `_process_next_queued_incident` | the claim is committed before execution; several pods; crash after the claim | the queue drains; no row is executed by two workers |
| **Approvals** `routers/approvals.py` | `Approval.status` | `decide_approval` | compare-and-swap on the approval, plain write on the action; then a dispatch of the whole incident | a decision is taken once; an approved action is executed; a rejected one never |
| **Ingestion** `services/incidents.py`, `services/safety.py` | `Incident` with its idempotency key, rows, approvals | `ingest_delay`, `ingest_absence` | duplicate webhooks; a crash between commit and dispatch | one incident per key; what needs approval starts gated |
| **Incident endpoints** `routers/incidents.py` | none | retry, requeue | race with everything above | the same |
| **Operator chat and chat agent** `routers/chat.py`, `services/chat.py` | new rows and approvals | `/chat/command`, tool calls of the agent | one session over many tool calls: the oldest copies of all | the same |
| **Voice agent tools** `services/voice_tools.py` | new rows and approvals | `execute_command` | the same with a session per tool call | the same |
| **Persistence** `models.py`, `database.py` | the tables | | sessions with `autoflush=False`, `expire_on_commit=False`: identity map, column-wise flush | |
| **Connectors** `services/connectors/*.py` | the outside world | one call each | which failures may have been delivered; which repeats are recognised | |
| **PO system** `services/connectors/po_system.py` | `PurchaseOrder` with a version | `update_po` | version compare-and-swap inside the caller's transaction, under READ COMMITTED | no amendment lost or repeated; nobody charged without a conflict |
| **Resilience** `resilience.py` | circuit breakers per connector, a pool of four threads | `allow_request`, `record_success`, `record_failure`, `with_timeout` | results of old calls recorded in a new state; threads kept by timed-out calls | breakers open and close on streaks; every call returns; the pool recovers |
| **Voice pipeline** `services/voice_pipeline.py` | the session, its lifecycle manager, heartbeat and checkpoints | start, tools, commands, callbacks, end | awaits between check and act; four ways to end a call; a safety timeout | the end is asked for once and comes; nothing is left behind |
| **Voice endpoints** `routers/voice.py` | `VoiceSession` rows | control command, media stream, outbound call | checkpoint read, then command pushed; two handlers insert one row | a refused command never runs, an accepted one does; records stay |
| **Voice state store, command bus** `services/voice_state_store.py`, `services/voice_command_bus.py` | Redis keys and lists | put, get, delete, push, pop | expiry; failures at any call | a command is popped once |
| **Audio codec** `services/connectors/audio_utils.py` | none | mu-law and resampling functions | | |
| **KPIs and call summary** `services/kpi.py`, `services/call_summary.py` | the summary of a call | read-only queries; `summarize_and_notify` | steps that fail one by one | the transcript outlives the summary |
| **Workflow engine** `services/workflows/`, `services/orchestrator.py` | none | returns a fixed plan | | |
| **Wiring, console, deployment** | none | | | |

How they interact: every handler reaches the same rows through its own
SQLAlchemy session; nothing locks the rows (the worker's claim locks the one row
it picks). Ingestion, approvals, retry, requeue, chat and voice either call
`execute_pending_actions` themselves (inline mode) or leave `queued` rows for
the worker (queued mode); retry and the commands always execute themselves.
The execution calls the connectors and commits after each action; connector
results reach the rows only through that commit. So the interleavings that
matter there are those of sessions holding old copies, and that is what the core
module is about. A phone call lives in the event loop of one pod; other pods
reach it through Redis, and it reaches the database when it is over. The
connectors share a breaker per provider and one pool of threads per process.

## The modules

| Module | What it is |
|---|---|
| `ActionRuns` | The core: the rows of one incident and every handler that touches them, sessions with their copies, connector outcomes, crashes. Its properties and the refinement mapping are at the end. |
| `GatedActions` | The abstract specification of the approval gate: free, proposed, approved and rejected actions, and effects. No sessions, no queue, no retries. |
| `MCActionRuns` | Playbooks for the small instances, and the symmetry of threads. |
| `Ingestion` | Deliveries of one webhook at the level of PostgreSQL's unique index. |
| `QueueWorker`, `MCQueueWorker` | Workers of several pods claiming rows of several incidents at the level of row locks. |
| `PoSystem`, `MCPoSystem` | One purchase order under concurrent sessions that run `update_po` actions, stale copies of an action included. |
| `PoLedger` | What it promises: a ledger that only grows, where an action is done only by the step that enters its line. |
| `CircuitBreaker` | The breakers and the connectors that consult them. |
| `ConnectorPool` | Extends it with the thread pool and the time-out. |
| `VoiceLifecycle` | One call on the pod that owns it, between its awaits. |
| `VoiceControl`, `MCVoiceControl` | Extends it with control commands from other pods, Redis, and the pods' failures. |
| `VoiceRecords` | The `voice_sessions` row, its transcript, summary and notice, written by two handlers. |
| `ActionRunsProofs` | Theorems about the core: types, the gate with its refinement, `NoFakeSuccess`. |
| `OneExecutorProofs` | Theorems about the core where one session at a time executes. |
| `IngestionProofs`, `QueueProofs`, `PoProofs` | Theorems about `Ingestion`, `QueueWorker` and `PoSystem`. |
| `BreakerProofs` | Theorems about `CircuitBreaker` and, by refinement and by an invariant of its own, `ConnectorPool`. |
| `VoiceProofs`, `RecordsProofs` | Theorems about `VoiceLifecycle` and `VoiceControl`, and about `VoiceRecords`. |

The definitions headed by a `Mutation:` comment are plausible bugs in the
definition that follows them; they are in no specification. `PROJECT.json`
pairs each with the property it breaks.

The other modules refine or abstract what the core treats as one step:
`Ingestion` the commit of an incident, `QueueWorker` the claim, `PoSystem` the
purchase-order update inside a commit, `CircuitBreaker` and `ConnectorPool` the
outcomes of a connector call, which the core takes to be any of ok, error and
time-out.

## How the model corresponds to the code

| Variable | Code |
|---|---|
| `status`, `kind`, `retries` | `ActionRun.status`, `.action_type`, `.retry_count`, in sequence order; `"none"` is a row not inserted yet |
| `approval` | `Approval.status` of the row's approval, `"none"` if it has none |
| `incident` | `Incident.status` |
| `pc[p]`, `channel[p]` | where a request thread or worker is between two of its transactions |
| `mem`, `memRetries`, `memIncident` | the session's identity map: the attributes of the objects the handler still holds |
| `result` | what `_dispatch` answered, until the commit |
| `delivered` | a history variable: effects the outside world has seen |

**Sessions.** With `expire_on_commit=False` an object read once keeps its values
over later commits; a query that meets an object already in the identity map
does not overwrite it (`ReadRows`). A flush writes the changed columns only, so
an assignment that equals the loaded value writes nothing (`Written`).
`session.refresh(incident)` expires the `actions` collection, and the weakly
referenced rows nobody holds are read anew; the rows a local variable still
holds are not (`HoldOnly`, `LastLoaded`, the `held` argument).

**Steps.** One action of the model is one transaction, or one connector call:
that is where other sessions can come in between.

| Code | Actions |
|---|---|
| `ingest_delay` / `ingest_absence` | `Ingest`, then `Enqueue` or `Load` … |
| `decide_approval` | `Approve`, `Reject` |
| `enqueue_pending_actions` | `Enqueue` |
| `execute_pending_actions` | `Load`, then `Dispatch` and `CommitAction` for each pending copy in order, then `EvaluateIncidentLifecycle` |
| `retry_failed_actions` | `RetryLoad` (the read), `RetryFailedActions` (after the back-off sleep), then the execution |
| `requeue_failed_action` | `RequeueLoad`, `RequeueFailedAction` |
| `_requeue_due_failed_actions` | `RequeueDueLoad`, `RequeueDueFailedActions` |
| `_process_next_queued_incident` | `ProcessNextQueuedIncident`, then the execution |
| `/chat/command` | `CommandLoad`, `ChatCommand` |
| chat agent, voice agent | `CommandLoad`, `ProposeForApproval` or `ExecuteCommand`; a chat comes back for further tool calls until `CommandReply` |
| a killed process, an uncaught exception | `Abort` |

**Connectors** (`Outcomes`, `Effects`, `Deliver`). A call is answered ok, error or
time-out. A time-out does not cancel the thread that made the call, so the
effect may have happened. The e-mail and manager connectors turn any exception
into an error, one raised after the request was sent included. A repeated
e-mail is recognised by its idempotency key and a second absence mark changes
nothing; every other repeated effect counts. The purchase-order update is a
statement of the row's own transaction and takes effect with its commit.

**Abstracted.** Messages, payloads, texts, metrics, logs and timestamps. The
length of a back-off (any failed row may be due or not yet). The agent's choice
of tools (any of `Commands`, any number up to the bound). One incident is
modelled: the handlers touch the rows of one incident only, and the worker
takes one incident at a time; `QueueWorker` has several.

### Ingestion

`pc[p]` is where the thread of one HTTP request stands, `inserting` the
uncommitted entry of the unique index, `creator` the committed one. `Flush`
inserts, and is not enabled while another transaction holds the entry: that is
how PostgreSQL waits. `FindWinner` is the look-up after `IntegrityError`,
`RequestTimeout` the middleware's 504, after which the thread goes on. After the
commit come the refresh and the dispatch, `Dispatch` and `FinishDispatch`; what
the dispatch does is the core's subject. Either may raise (`db.refresh`, the enqueue's
UPDATE or commit, anything in an inline execution): `RaiseAfterCommit` is that 500,
with the incident committed and its pod alive.

### Queue worker

`lock`, `scope`, `aim` and `written` are the claim's transaction: `SelectForUpdate`
skips locked rows and takes one, `BeginUpdate` takes the UPDATE's snapshot,
`Visit` and `UpdateRow` go through it row by row, waiting for locks and matching
the row again as it is committed now. `DeadlockDetected` is PostgreSQL's,
`WakeUp` the end of the loop's sleep after an exception. What queues a row again
is `Requeue`, one step that stands for the operator's requeue and for the due scan:
the read and the later write of that scan are apart in the core
(`RequeueDueLoad`, `RequeueDueFailedActions`), whose subject they are.

### Purchase order

A session of the model has one action loaded (`job`), with its copy of the retry
count (`held`); a session of the code that holds several counts once for each. The
executor's test is of that copy (`services/action_executor.py:40`), read by `Load` or
by the retry's `LoadFailed`, whose back-off ends in `Retry`, and nothing looks at the
committed row again: two sessions may hold one action, both run it, and whoever
ends last writes the row's status and count. `shared` is a history of the actions
that two sessions have held at once. `ReadOrder` is the query, `UpdateWhereVersion`
the compare-and-swap with its wait for the row's lock, `CommitAmendment` the
executor's commit of order and action together, `HandleFailure` the committed
charge of a conflict; `notes` stands for the lines `update_po` appends. A queued row
counts as pending, and any pending row may be loaded: who queues and claims it is
the core's and `QueueWorker`'s subject. The optional `expected_version` is given by
no caller.

### Circuit breaker and pool

Each method of `CircuitBreaker` holds its lock and is one operator
(`ReadState`, `RecordSuccess`, `RecordFailure`); the network call between
`AllowRequest` and `CallEnds` holds nothing. `HealthCheck` is the readiness
probe, whose reading of `state` moves an open breaker on. What a call answers is
settled when it ends; it is recorded by a later step of its caller, and the
provider may have gone down or come up by then (`CallEnds`). `results` is a history of
the last `Threshold` results. In `ConnectorPool` a call is a job in the queue,
then in a thread; `TimesOut` abandons the future and not the job.

### Phone call

A step of `VoiceLifecycle` is what one coroutine does between two awaits: `run`
is where `VoicePipelineSession.run` stands, `pc[c]` the await of a handler or of
the heartbeat loop, and `manager` the attributes of `CallLifecycleManager`.
`begin_graceful_close` is two steps around `queue_frames`. `pipeline` is all that
is left of Pipecat: running, ending, ended. In `VoiceControl`, `answer[r]` follows
one POST on another pod through its awaits, `queue` is the Redis list, `stored`
the checkpoint with its age. Nothing ages while the heartbeat loop comes round in
time. `VoiceRecords` has the endpoint that places a call (`request`) and the
websocket that serves it (`stream`), a step per transaction.

## Runs and what they show

| Run | Instance | Checks |
|---|---|---|
| `GateInline` | inline mode, two request threads on all endpoints, with every kind of command, one crash | `ApprovalGate`, `NoFakeSuccess`, and that the handlers implement `GatedActions` (`ImplementsGate`) |
| `QueueDrain` | queued mode, one worker and the operator's decisions, full retry budget, with fairness | `QueueSettles` (every queued row is completed or dead-lettered), `ApprovedIsExecuted`, `AtMostOnce` (the fail-closed treatment of time-outs keeps Slack messages and calls to one), `DeadLetterEscalates`, `ResolvedIsSettled`, `CompletedIsFinal` although an approval re-queues rows the worker is executing, `TypeOK` |
| `ClaimRace` | two pods, three rows of two incidents, requeues, one crash, with fairness | `ClaimedOncePerQueuing`, `ClaimIsNotEmpty`, and that every queued row is claimed although claims deadlock (`QueuedIsClaimed`) |
| `Webhook` | three deliveries, statements and commits that fail before and after the incident is there, time-outs, dying pods, with fairness | `OneIncident`, `AnswerIsTrue`, `DispatchedUnlessCreatorFails` |
| `Amendments` | three sessions and two actions on one order, stale copies, lock time-outs, rollbacks and retries | `NoLostUpdate`, `AmendedOnceUnlessShared`, `ChargedOnlyForConflicts`, and the refinement `LedgerSpec` |
| `SharedPool` | two callers, two connectors, one thread, a provider that goes down and up again, with fairness | `OneJobPerWait`, `OpensOnAStreak`, `ClosesOnSuccesses`, `EveryCallReturns`, `OrphansAreWorkedOff`, `Recovers` |
| `CallCommands` | a call with two tool calls at a time, two objectives and two commands from another pod; Redis fails, the owner is held, stopped or killed | `ExecutedOnce`, `RefusedNeverRuns`, `CloseOnce`, `BackstopStands`, `AutoCloseNeedsAll` |
| `CallEnds` | one tool call at a time and two commands, with a Redis and a pod that work, with fairness | `AcceptedTakesEffect`, `CleanupCompletes` (the session leaves nothing behind, for good: the checkpoint that lands after the deletion goes with its TTL) |
| `CallRecords` | an outbound and an inbound call; database, model, Slack and pods fail | `TranscriptOutlivesSummary`, `AnsweredIsOutbound`, `RecordedForGood` |
| `DuplicateWorkers` | two workers | a counterexample to `NoRepeatAfterCompletion` |
| `StuckQueue` | a worker that dies once | a counterexample to `QueueSettles` |
| `StuckClose` | a call with one tool call at a time and one command, nothing failing | a counterexample to `BackstopUntilShutdown` |

`AtMostOnce`, `CompletedIsFinal` and `DeadLetterStaysDead` hold where one session
executes, as the worker of `QueueDrain` does, and are refuted where two do (two
sessions with the same pending copy both send it). The purchase order is no exception:
an action that two sessions have held at once may amend it twice, hence
`AmendedOnceUnlessShared`. What holds there with no condition is that no line is
lost, that nobody is charged without a conflict, and that a completed action has its
line (`NoLostUpdate`, `ChargedOnlyForConflicts`, `LedgerSpec`). `DeadLetterEscalates` and `ResolvedIsSettled` speak of
quiet states (no handler running, none crashed): in between they are broken on
purpose, since the evaluation is the last transaction of a handler.
`QueuedIsClaimed` is checked of two pods only: with a third, two can deadlock on
an incident's rows again and again while the third takes others.

`BackstopStands` speaks of a call that is not closed: the end of the bot's sentence
closes it and cancels the backstop, whether or not the pipeline has shut down, which
is what `StuckClose` shows. `CleanupCompletes` speaks of a pipeline that has run and
ended; a start that raises before leaves the registry entry behind (Findings).

`RefusedNeverRuns` excludes the answer 500: a push whose expiry fails is answered
with an error and may run all the same. `CallEnds` assumes working Redis and pods
because the code's answers promise nothing without them.

Deadlock is checked in `SharedPool` only. Elsewhere the system rightly stops: the
bounded requests are used up, the call is over, every delivery is answered.

## Bounds

| Bound | Values | Why it is enough |
|---|---|---|
| `MaxRows` | 1 to 3 | a row of each kind that is treated differently (free, gated), and one or two that a command inserts |
| `Playbook` | cut-down playbooks | rows interact only through the order of execution and the incident's status; the PO update, the one transactional effect, is in `QueueDrain` |
| `Commands` | one free, one gated type, one that has no row yet and the one no connector implements | the commands tell types apart only by this |
| `Handlers` (core) | the endpoints a run is about | named per run |
| `MaxRetries` | 2 (3, the default, in `QueueDrain`) | first attempt, one retry and exhaustion are all reached |
| `MaxRequests` | 0 to 3 | two concurrent handlers; in `QueueDrain` a sequence of decisions |
| `MaxAborts` | 0 or 1 | a single crash at any step |
| `MaxRow`, `MaxQueuings`, `MaxCrashes` | 3, 2, 1 | two rows of one incident for two pods to deadlock on and one of another; each row is queued again once; one crash |
| `Deliveries` | 3 | a winner, a loser that waits, and one that comes when all is done or has failed |
| `Sessions`, `Actions` (orders) | 3, 2, `MaxRetries` 2 | two sessions share an action while a third amends the order with the other; an action can use up its retries |
| `MaxLines` | 6, a constraint of the run | a stale retry may amend the order again and again; six lines are more than two for each session |
| `Threshold` | 2, its minimum | longer streaks change only the count; the theorems are for every threshold |
| `Threads`, `MaxQueue`, `MaxChanges` | 1, 2, 2 | one hung call fills the pool, as four fill the code's; each caller has at most one live job, so two places hold it behind an orphan; a provider goes down and comes back |
| `Handlers`, `Objectives`, `Requests` (calls) | 2, 2, 2 (1, 1, 2 with fairness) | two tools report two objectives at once, in either order, or ask for the end together, next to the heartbeat loop and two commands; `VoiceProofs` is for any number |
| `Outbound`, `Inbound` | one call each | calls share nothing but the table, whose rows they do not share |

Threads, sessions, commands, handlers and objectives are symmetric where the run
checks no liveness. The
properties listed under Proofs do not rest on these bounds: they are proved for
all values. Queued mode with retries, requeues and voice commands is left to
those proofs.

## Fairness

The core's `FairSpec` adds three assumptions. A thread in a handler goes on with
it (weak fairness of `Continue`): every connector call returns, by `with_timeout`
if not otherwise, which `EveryCallReturns` shows of the pool. The worker loop
keeps polling (weak fairness of `Work`): `_run` loops until it is stopped and
catches the exceptions of a cycle. A failed row with retries left is found due
infinitely often if it is looked at infinitely often (strong fairness, per row):
its back-off is bounded by `backoff_max_ms` and the loop comes back after it. No
request, decision or crash is assumed to happen.

`QueueWorker`: the workers run and PostgreSQL detects deadlocks. `Ingestion`: a
thread that has begun a handler's work goes on, waits for locks included; no
delivery need come and no fault need happen. `ConnectorPool`: a free thread takes
the next job, a provider that is up answers, callers notice answers and
time-outs, and `recovery_timeout_s` passes; while its provider is down a hung call
need never end. That one that hung in an outage ends once the provider is up is an
assumption on the network (the peer answers, resets or is given up by TCP) which a
Twilio call, made without a socket timeout, need not meet: `OrphansAreWorkedOff` and
`Recovers` are about providers that meet it, `EveryCallReturns` does not need it.
`VoiceControl`: the event loop resumes coroutines whose await is over and ends
sleeps, and it is not held for ever; the poll is assumed strongly fair, since
checkpoints of the same loop come in between. A key that nobody writes again ages
until Redis drops it (`CheckpointAges`), by its TTL. Nobody is assumed to hang up or to
speak, nor the pipeline to drain.

## Proofs

The assumptions are the modules' named `ASSUME`s (sentinels are not members of
the sets they extend, the retry budget or the threshold is at least its
configured minimum, the playbook fits the rows); there is no bound on anything.

| Theorem | States |
|---|---|
| `ActionRunsProofs!TypeCorrect` | `Spec => []TypeOK` |
| `ActionRunsProofs!GateInvariant`, `GateHolds` | `Spec => []GateInv`, `Spec => []ApprovalGate` |
| `ActionRunsProofs!GateImplemented` | `Spec => ImplementsGate` |
| `ActionRunsProofs!SuccessInvariant`, `SuccessIsReal` | `Spec => []SuccessInv`, `Spec => []NoFakeSuccess` |
| `OneExecutorProofs!SoloInvariant`, `RowsLiveOneLife` | with one executor: `[]SoloInv`, `[][\A a \in Rows : RowStep(a)]_vars` |
| `OneExecutorProofs!CompletedStays`, `CompletedIsNotRepeated`, `DeadStaysDead` | with one executor: `CompletedIsFinal`, `NoRepeatAfterCompletion`, `DeadLetterStaysDead` |
| `OneExecutorProofs!DeadLetterShows`, `ResolvedIsOver`, `EffectsHappenOnce` | with one executor and what is said below: `DeadLetterEscalates`, `ResolvedIsSettled`, `AtMostOnce` |
| `IngestionProofs!WebhookIsIdempotent`, `AnswersAreTrue` | `OneIncident`, `AnswerIsTrue` |
| `QueueProofs!ClaimsAreExclusive`, `ClaimsAreLocked`, `ClaimsAreReal` | `ClaimedOncePerQueuing`, `WrittenIsLocked`, `ClaimIsNotEmpty` |
| `PoProofs!NoUpdateIsLost`, `AmendedOnce`, `ChargesAreBounded` | `NoLostUpdate`, `AmendedOnceUnlessShared`, `ChargedOnlyForConflicts` |
| `PoProofs!OrderIsLedger` | `Spec => LedgerSpec` |
| `BreakerProofs!ClosedHasRoom`, `HalfOpenHasRoom` | `ClosedBelowThreshold`, `HalfOpenIsUndecided` |
| `BreakerProofs!OpensOnlyOnAStreak`, `ClosesOnlyOnSuccesses` | `OpensOnAStreak`, `ClosesOnSuccesses` of `BreakerSpec` |
| `BreakerProofs!PoolUsesBreakers` | `PoolSpec => BreakerSpec` |
| `BreakerProofs!PoolOpensOnAStreak`, `PoolClosesOnSuccesses` | the same two of `PoolSpec` |
| `BreakerProofs!PoolInvariant`, `PoolJobsMatch` | `PoolSpec => []PoolInv`, `PoolSpec => []OneJobPerWait` |
| `VoiceProofs!OneEndTaskFrame`, `BackstopPending`, `ReadyMeansAll` | `CloseOnce`, `BackstopStands`, `AutoCloseNeedsAll` of `CallSpec`, the call by itself |
| `VoiceProofs!CallOnItsPod` | the same three of `Spec`, the call with the commands |
| `VoiceProofs!ControlInvariant`, `CommandsRunOnce`, `RefusedIsNeverRun` | `[]ControlInv`, `[]ExecutedOnce`, `[]RefusedNeverRuns` |
| `RecordsProofs!RecordsInvariant`, `TranscriptIsKept`, `OutboundIsRecorded` | `[]RInv`, `[]TranscriptOutlivesSummary`, `[]AnsweredIsOutbound` |
| `RecordsProofs!RecordIsFinal` | `RecordedForGood` |

Every invariant and every action property of a passing run is stated by one of
these theorems.

`ApprovalGate` is not inductive: it says nothing of sessions, and a session that
held a pending copy of an undecided row would send it. The strengthening has
two parts. `ApprovalShape`: a row needs approval exactly while its approval is
undecided, is skipped exactly if it was rejected, and no session holds a
pending or failed copy of a row in either state; since decisions are never
taken back and a gated row is born gated, a stale copy can only be *more*
restrictive than the row. `SessionShape`: sessions hold only rows that exist, an
idle session holds none, and the two handlers that act on a row without
looking at its copy's status again (requeue, due scan) hold failed copies only.
The proof shows first what each session helper does to each copy
(`MoveEach`, `ReadEach`, `HoldEach`, `EndEach`), then one lemma per group of
actions, then the step lemma `NextGate`.

The refinement maps a row to its standing with the gate (`GateOf`, read off
the approval) and to whether it has been delivered. Decisions, insertions and
effects map to `Decide`, `Plan` and `Send`; everything else, retries, queueing,
crashes and evaluations, is shown to stutter, and `Send`'s guard comes from
`GateInv` in the state before.

`NoFakeSuccess` is not inductive either: what a commit writes depends on the
answer the connector gave a step before. `OkIsDelivered` is the link: a session
that stands before its commit with an ok answer has had the effect of the row
it called for, except for a PO update, whose effect is the commit itself. It
survives the steps of others because effects are never undone, a row's type
never changes, and nobody else writes a session's copies. The call and its commit are looked at in
detail (`DispatchSuccess`, `CommitSuccess`); of all other steps it is enough that
they complete no row or copy (`KeepSuccess`).

`OneExecutorProofs` is about what the core keeps only while one session
executes, which is its hypothesis `OneExecutor`, a statement about the constants:
there is a single thread, or a single queue worker and any number of threads
whose requests only ingest, approve and reject (`OnlyWorkersExecute`). The
configuration of `QueueDrain` satisfies it, the one of
`DuplicateWorkers` does not, and there `NoRepeatAfterCompletion` fails. The
inductive invariant `SoloInv` says that the executor's copies agree with the
table (`Fresh`): they are equal, except that an approval may have decided a gated
row, or queued a pending one again, since it was read. With it goes which rows
have been read at all (`AllRead`), that the incident is as read (`IncidentRead`)
and that what the due scan holds has retries left (`DueInBudget`). From it
follows, for every action, that it takes each row one step of its life
(`RowStep`: born, decided, moved between pending and queued, committed, retried
within its budget, brought back by an operator); one lemma per group of actions
shows both at once (`Steps`), one more that the clients leave the worker's copies
in agreement (`BystanderKeeps`). Four things are then short:

- `CompletedIsFinal` and `DeadLetterStaysDead` are read off `RowStep` and `Fresh`.
- `DeadLetterEscalates`: what dead-letters a row is a commit, whose executor goes on
  to the evaluation unless it dies (`EscalationInv`, `RunsOn`), and the evaluation is
  of the table (`EvaluationIsOfTheTable`).
- `ResolvedIsSettled` has the further hypothesis that `Handlers` has no command
  channel. An incident stays resolved when a chat proposes another e-mail, and
  still does when that is approved and fails: `_evaluate_incident_lifecycle` has no
  way back. The invariant `ResolvedInv` holds at every moment, running handlers
  and crashes included.
- `AtMostOnce` has two: nobody dies (a call whose process is killed before the
  commit is made again), and `Handlers` has decisions and retries only (a requeue or a
  command brings back what a time-out has dead-lettered, which is an operator's
  choice). `OnceInv`: a row that has had its effect is completed, dead, or of the
  call whose answer is being committed.

`IngestionProofs`: `IndexInv` ties the index entry to the one request between its
insert and its commit, `CreatorInv` gives the steps after the commit to the
creator alone, so that the dispatch happens once, and is over when its client is told so
(`AnswerInv`).

`QueueProofs`: locks lie on queued rows only and belong to transactions under way
(`LockInv`), what a transaction has written it has locked (`WriteInv`), and a
queued row has been claimed less often than queued (`CountInv`). `HoldInv` follows
the row a worker selected from its lock through `scope` and `aim` into `written`;
without it a claim might end up empty.

`PoProofs`: a row read with the current version has the current notes
(`ReadInv`), and whoever has updated holds the lock, so nobody commits in
between (`LockInv`). `ChargeInv` bounds the retries, on the rows and on the copies
the sessions hold, by the lines of the order: a copy's count is smaller than the
version its session read, and a conflict shows that one to be smaller than the committed one.
`OnceInv` is about the actions that no two sessions have held at once: such a row
says what the copy of its one session says, so that its line is entered when, and
only when, it completes. Of the ledger a commit is `Amend`, whoever makes it and
from whatever copy; a retry or a failure written over a completed row is `Reopen`;
every other step stutters.

`BreakerProofs`: in the closed state the failure counter, and in the half-open
one the probe counter, is the length of a streak at the end of the recorded
results (`StreakInv`); in the open state nothing is claimed, and leaving it resets
what the next state counts. `PoolUsesBreakers` shows each step of the pool to be a step of the
breakers or to leave them alone: a caller that reads its future, or gives up on
it, records the end of a call, and what happens in queue and threads is hidden. `Matched` ties each waiting caller to its job, in the queue or
in a thread: a time-out lets go of the job (its `by` becomes nobody), so no late
answer has a caller to reach.

`VoiceProofs`: besides the three properties only `BoundInv` is needed, that no
frame is queued before the task is bound and none without `_closing`. It is
proved of the steps of the call, so that the composition inherits it (`CallOnItsPod`). For
the commands `Routed` says that the list holds a command once, and only one that
was published and is not yet dispatched; popping is `TailRouted`.

`RecordsProofs`: how far the websocket's handler has come says what its row must
hold (`StreamShape`); a row that is completed has been completed by it, so the
endpoint, which inserts a row only where there is none, takes nothing back.

Only model-checked, because fairness and ENABLED are beyond the prover: the
liveness properties `QueueSettles`, `ApprovedIsExecuted`, `QueuedIsClaimed`,
`DispatchedUnlessCreatorFails`, `EveryCallReturns`, `OrphansAreWorkedOff`,
`Recovers`, `AcceptedTakesEffect` and `CleanupCompletes`.

## Findings

1. **Duplicate execution with two pods** (`DuplicateWorkers`). The claim sets the
   rows it takes from `queued` back to `pending` and commits
   (`services/action_dispatcher.py:194-202`); an approval's
   `enqueue_pending_actions` (49-56) queues every pending row again, the second
   worker claims them and repeats calls the first has completed. Failure drill 3
   rules that out (`src/docs/operations/failure-drill-checklist.md:38`). With one
   worker it is harmless (`QueueDrain`): the worker re-reads before the next claim.
2. **A crashed claim strands its rows** (`StuckQueue`): they are `pending`, and the
   worker looks only for `queued` and `failed`. The drill asks for "Queue drains
   after worker restarts" (line 37).
3. **A close without its backstop** (`StuckClose`). The safety timeout is there "if
   pipeline doesn't shut down in time" (`services/voice_pipeline.py:204`), but the end
   of a sentence the bot speaks while the call is closing marks it closed and cancels
   the timeout (425-426, 221-225) before the pipeline has shut down; if the shutdown
   then hangs, this code no longer forces it.

Met while modelling, and visible in the modules as steps, though no run is
devoted to them:

- Rejecting the last open action evaluates nothing (`routers/approvals.py:113`;
  `Reject`): the incident stays in progress.
- A dead letter does not stay dead beside a second executor: a retry acts on rows
  read before its back-off sleep (`services/action_executor.py:74-89`), the worker's due
  scan on rows it has read (`services/action_dispatcher.py:219-250`). With one worker, one
  row and one retrying thread in queued mode TLC refutes `DeadLetterStaysDead`, and with
  it "auto-retry disabled to prevent duplicate side effects" (445 of the former): the row
  is dead-lettered between the read and the write and made pending or queued again.
- An exception or a death between the commit of an incident and the end of its dispatch
  (`services/incidents.py:101-105`; `RaiseAfterCommit`, `PodDies`) leaves it undispatched,
  and the webhook's retry is answered with the duplicate.
- A request answered with 504 goes on and creates its incident (`RequestTimeout`).
- A hung provider's calls hold the pool's threads until the calls to another
  provider time out in the queue and open its breaker (`TimesOut`).
- A command between the creation of the lifecycle manager and `bind_task` sets
  `_closing` and queues no frame (`CloseWithoutTask`), and the end of the bot's next
  sentence cancels the backstop: such a close need never end the call.
- One failing LPOP ends the heartbeat loop of a call that goes on (`PollFails`): the pop
  (`services/voice_pipeline.py:697`) is outside of any try, so that the call shows as
  stale from then on and executes no remote command, whatever "while the call is alive" (644) says.
- An exception between the session's registration and `run`'s try (350-354) leaves the loop
  and the registry entry behind (`StreamStart`, `StartPipeline`), against "Active session
  removed after call completion" (`src/docs/operations/voice-sticky-routing-smoke-test.md:49`).
- The owner may finish the call, or die, between the check of its checkpoint and
  the push of a command, which is then accepted in vain (`ReadCheckpoint`, `Push`);
  an unavailable Redis is a 500, not a 503 (`RedisError`).
- An outbound row committed between the websocket's look-up and its insert, or an
  incident id nobody knows, costs the transcript (`PersistFails`); a call that is
  over before its endpoint has written the row is recorded as inbound.
- `Incident.resolved_at` is set nowhere, so the mean time to resolution
  (`services/kpi.py:61-81`) is never shown.

## What is not modelled

- The action's JSON payload: its `dead_lettered` and `next_retry_at` flags. (A requeue
  edits them in place and assigns the same object, `services/action_dispatcher.py:112-118`;
  the session sees no change and, in queued mode, the flags stay in the table.)
- Audio: frames and turn-taking are Pipecat's. `services/connectors/audio_utils.py`
  is pure and has no caller in the service; the probe that imports it also imports
  a module the repository does not have.
- The KPIs: read-only queries whose figures are displayed and decide nothing.
- The workflow engine returns a fixed plan nothing executes.
- Database connection limits, migrations, schemas, prompts, health, metrics and
  configuration; the console, the load and latency scripts and the deployment
  files. They keep no state a handler reads. That the ingress may route a command to
  any pod is in `VoiceControl`.
- Several incidents, row locks and several queued handlers in one model: the core
  has one incident, `QueueWorker` has the locks.

## Plan

1. The claim of `QueueWorker` shown to implement the core's, for every incident:
   the statements of one UPDATE, interleaved with other pods', are one claim.
2. The composition of `ConnectorPool` with one incident's executor: which
   failures `_handle_failure` takes for uncertain, with the manager connector's
   error text, and effects that land after the time-out.
3. What several executors still guarantee, as theorems: which of the steps of
   `RowStep` a stale copy can add to a row's life.
