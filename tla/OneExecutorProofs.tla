------------------------- MODULE OneExecutorProofs -------------------------
(***************************************************************************)
(* What becomes of an incident's rows when one session at a time executes  *)
(* them: a single thread, or the single queue worker of a deployment whose *)
(* clients only approve and reject, through any number of threads.  With   *)
(* two executors these properties fail, for a session acts on copies that  *)
(* the other has outdated; with one, its copies are what the table holds   *)
(* (UpToDate), and every row goes through the life its statuses suggest    *)
(* (RowStep).                                                              *)
(***************************************************************************)
EXTENDS ActionRunsProofs

\* Queued rows and approvals are all the clients leave behind: the worker executes.
OnlyWorkersExecute == QueuedMode /\ Handlers \subseteq {"decide"}

Executors == IF OnlyWorkersExecute THEN Workers ELSE Sessions

OneExecutor == \A p, q \in Executors : p = q

----------------------------------------------------------------------------
(* The invariant. *)

\* A copy is what the row is, but that a pending row may have been enqueued
\* again, and a gated one decided, since it was read.
Agrees(copy, current) ==
  \/ copy = current
  \/ copy = "pending" /\ current = "queued"
  \/ copy = "needs_approval" /\ current \in {"pending", "queued", "skipped"}

\* The copies of a handler about to enqueue are not looked at again.
Fresh(p) ==
  pc[p] # "enqueue" =>
    \A a \in Rows : mem[p][a] # "none" =>
      Agrees(mem[p][a], status[a]) /\ memRetries[p][a] = retries[a]

\* Who executes, retries, or takes a command has read every row.
AllRead(p) ==
  pc[p] \in {"run", "commit", "retry"} \/ (pc[p] = "command" /\ channel[p] = "command") =>
    \A a \in Rows : status[a] # "none" => mem[p][a] # "none"

IncidentRead(p) ==
  pc[p] \in {"run", "commit", "retry", "command"} => memIncident[p] = incident

\* The worker's due scan holds failed rows that have retries left.
DueInBudget(p) ==
  pc[p] = "due" => \A a \in Rows : mem[p][a] # "none" => ~Exhausted(memRetries[p][a])

UpToDate(p) == Fresh(p) /\ AllRead(p) /\ IncidentRead(p) /\ DueInBudget(p)

\* A thread is where its endpoint has taken it.
UsesEndpoints(p) ==
  /\ pc[p] = "requeue" => "requeue" \in Handlers
  /\ pc[p] = "retry" => "retry" \in Handlers
  /\ pc[p] = "command" \/ channel[p] # "none" => Handlers \cap Channel # {}

Bystands(p) == pc[p] \in {"idle", "enqueue"}

NewIsUntried == \A a \in Rows : status[a] = "none" => retries[a] = 0

SoloInv ==
  /\ GateInv
  /\ NewIsUntried
  /\ \A p \in Sessions : UsesEndpoints(p)
  /\ \A p \in Sessions \ Executors : Bystands(p)
  /\ \A p \in Executors : UpToDate(p)

----------------------------------------------------------------------------
(* The life of a row. *)

\* What its executor's commit makes of row a: completed on an ok answer,
\* failed with a retry counted, or with none left, on any other.
Committed(a) ==
  \E p \in Executors :
    /\ pc[p] = "commit" /\ pc'[p] = "run"
    /\ First(a, PendingIn(p))
    /\ IF Succeeded(p) THEN status'[a] = "completed" /\ retries'[a] = retries[a]
       ELSE /\ status'[a] = "failed"
            /\ retries'[a] = RetriesAfterFailure(kind[a], result[p], retries[a])

\* An operator brings a failed row back, whatever its budget.
BroughtBack(a) ==
  /\ \E p \in Executors : pc[p] \in {"requeue", "command"}
  /\ status'[a] \in {"pending", "queued"}

RowStep(a) ==
  \/ status'[a] = status[a] /\ retries'[a] = retries[a]
  \/ /\ status[a] = "none" /\ status'[a] \in {"pending", "needs_approval"}
     /\ incident = "none" \/ \E p \in Executors : pc[p] = "command"
  \/ /\ status[a] = "needs_approval" /\ status'[a] \in {"pending", "skipped"}
     /\ retries'[a] = retries[a]
  \/ /\ status[a] \in {"pending", "queued"} /\ status'[a] \in {"pending", "queued"}
     /\ retries'[a] = retries[a]
  \/ status[a] \in {"pending", "queued"} /\ Committed(a)
  \/ /\ status[a] = "failed" /\ status'[a] \in {"pending", "queued"}
     /\ retries'[a] = retries[a] /\ ~Exhausted(retries[a])
     /\ \E p \in Executors : pc[p] \in {"retry", "due"}
  \/ status[a] = "failed" /\ BroughtBack(a)

----------------------------------------------------------------------------
\* A dead-lettered row shows in the incident once its executor has evaluated it.
EscalationInv ==
  aborts = 0 /\ (\E a \in Rows : Dead(a)) =>
    incident = "escalated" \/ \E p \in Executors : pc[p] \in {"run", "commit"}

\* Without commands, nothing is left to do in a resolved incident.
ResolvedInv ==
  incident = "resolved" => \A a \in Rows : status[a] \in {"none", "completed", "skipped"}

\* The connectors whose time-out is the only answer that leaves the effect open.
UncertainOnTimeout == NON_IDEMPOTENT_TIMEOUT_ACTIONS \ {"notify_manager"}

\* Row a is done, dead, or about to be the one or the other.
Spent(a) ==
  \/ status[a] = "completed"
  \/ Dead(a)
  \/ \E p \in Executors : /\ pc[p] = "commit"
                          /\ First(a, PendingIn(p))
                          /\ result[p] \in {"ok", "timeout"}

OnceInv ==
  \A a \in Rows : kind[a] \in UncertainOnTimeout =>
    delivered[a] = 0 \/ (delivered[a] = 1 /\ Spent(a))

----------------------------------------------------------------------------
(* What a step of the executor must establish. *)

Steps(p) ==
  /\ \A q \in Sessions \ {p} : pc'[q] = pc[q] /\ channel'[q] = channel[q]
  /\ UpToDate(p)' /\ UsesEndpoints(p)'
  /\ NewIsUntried'
  /\ \A a \in Rows : RowStep(a)

LEMMA ExecutorsAreSessions == Executors \subseteq Sessions /\ Workers \subseteq Executors
BY DEF Executors, Sessions

\* A session's own copies after a read, and after rows are let go.
LEMMA ReadCopies ==
  ASSUME TypeOK, NEW p \in Sessions, NEW S, ReadRows(p, S)
  PROVE  \A b \in Rows :
           IF b \in S /\ mem[p][b] = "none"
           THEN mem'[p][b] = status[b] /\ memRetries'[p][b] = retries[b]
           ELSE mem'[p][b] = mem[p][b] /\ memRetries'[p][b] = memRetries[p][b]
BY DEF TypeOK, ReadRows

LEMMA KeptCopies ==
  ASSUME TypeOK, NEW p \in Sessions, NEW held, HoldOnly(p, held)
  PROVE  \A b \in Rows :
           IF b \in held
           THEN mem'[p][b] = mem[p][b] /\ memRetries'[p][b] = memRetries[p][b]
           ELSE mem'[p][b] = "none" /\ memRetries'[p][b] = 0
BY DEF TypeOK, HoldOnly

\* Where no row or incident is to be compared, fresh copies are enough.
LEMMA BetweenSteps ==
  ASSUME TypeOK, NEW p \in Sessions, NEW step \in {"idle", "enqueue", "load", "claim"}, Move(p, step),
         \A q \in Sessions \ {p} : channel'[q] = channel[q],
         channel'[p] # "none" => Handlers \cap Channel # {},
         step # "enqueue" => \A a \in Rows : mem'[p][a] # "none" =>
           Agrees(mem'[p][a], status'[a]) /\ memRetries'[p][a] = retries'[a],
         NewIsUntried', \A a \in Rows : RowStep(a)
  PROVE  Steps(p)
<1>1. \A q \in Sessions : pc'[q] = IF q = p THEN step ELSE pc[q]
  BY MoveEach
<1>2. UpToDate(p)'
  BY <1>1 DEF UpToDate, Fresh, AllRead, IncidentRead, DueInBudget
<1>3. UsesEndpoints(p)'
  BY <1>1 DEF UsesEndpoints
<1> QED BY <1>1, <1>2, <1>3 DEF Steps

\* A session that ends holds nothing.
LEMMA EndSteps ==
  ASSUME TypeOK, NEW p \in Sessions, EndSession(p), NewIsUntried', \A a \in Rows : RowStep(a)
  PROVE  Steps(p)
<1>1. /\ Move(p, "idle") /\ HoldOnly(p, {})
      /\ channel' = [channel EXCEPT ![p] = "none"]
  BY DEF EndSession
<1>2. \A a \in Rows : mem'[p][a] = "none"
  BY <1>1, KeptCopies
<1>3. \A q \in Sessions : channel'[q] = IF q = p THEN "none" ELSE channel[q]
  BY <1>1 DEF TypeOK
<1> QED BY <1>1, <1>2, <1>3, BetweenSteps

\* Reading rows: what is held was fresh, what is read is.
LEMMA ReadSteps ==
  ASSUME SoloInv, NEW p \in Executors, NEW S \in SUBSET Rows, ReadRows(p, S),
         pc[p] \in {"idle", "load"}, UNCHANGED database,
         NEW step \in {"run", "retry", "due", "requeue", "command"}, Move(p, step),
         step \in {"run", "retry", "command"} => S = Rows /\ memIncident'[p] = incident,
         step = "due" => pc[p] = "idle" /\ S = DueCandidates,
         step \in {"requeue", "retry"} => step \in Handlers,
         step = "command" \/ channel'[p] # "none" => Handlers \cap Channel # {},
         \A q \in Sessions \ {p} : channel'[q] = channel[q]
  PROVE  Steps(p)
<1>0. p \in Sessions /\ TypeOK
  BY ExecutorsAreSessions DEF SoloInv, GateInv
<1>1. \A q \in Sessions : pc'[q] = IF q = p THEN step ELSE pc[q]
  BY <1>0, MoveEach
<1>2. \A b \in Rows :
        IF b \in S /\ mem[p][b] = "none"
        THEN mem'[p][b] = status[b] /\ memRetries'[p][b] = retries[b]
        ELSE mem'[p][b] = mem[p][b] /\ memRetries'[p][b] = memRetries[p][b]
  BY <1>0, ReadCopies
<1>3. UNCHANGED <<status, retries, incident>>
  BY DEF database
<1>4. Fresh(p)'
  BY <1>1, <1>2, <1>3 DEF SoloInv, UpToDate, Fresh, Agrees
<1>5. AllRead(p)' /\ IncidentRead(p)'
  BY <1>0, <1>1, <1>2, <1>3 DEF AllRead, IncidentRead
<1>6. DueInBudget(p)'
  <2> SUFFICES ASSUME step = "due", NEW a \in Rows, mem'[p][a] # "none"
               PROVE  ~Exhausted(memRetries'[p][a])
    BY <1>0, <1>1 DEF DueInBudget, Exhausted
  <2>1. mem[p][a] = "none"
    BY <1>0 DEF SoloInv, GateInv, SessionShape
  <2> QED BY <1>2, <2>1 DEF DueCandidates, Exhausted
<1>7. UsesEndpoints(p)'
  BY <1>0, <1>1 DEF UsesEndpoints
<1>8. NewIsUntried' /\ \A a \in Rows : RowStep(a)
  BY <1>3 DEF SoloInv, NewIsUntried, RowStep
<1> QED BY <1>1, <1>4, <1>5, <1>6, <1>7, <1>8 DEF Steps, UpToDate

LEMMA LoadsSteps ==
  ASSUME SoloInv, NEW p \in Executors,
         \/ Load(p) \/ RetryLoad(p) \/ RequeueDueLoad(p)
         \/ \E a \in Rows : RequeueLoad(p, a)
         \/ \E ch \in Channel : CommandLoad(p, ch)
  PROVE  Steps(p)
<1>0. p \in Sessions /\ TypeOK /\ UsesEndpoints(p)
  BY ExecutorsAreSessions DEF SoloInv, GateInv
<1>1. CASE Load(p)
  <2>1. memIncident'[p] = incident
    BY <1>0, <1>1 DEF Load, TypeOK
  <2> QED BY <1>0, <1>1, <2>1, ReadSteps DEF Load, UsesEndpoints
<1>2. CASE RetryLoad(p)
  <2>1. memIncident'[p] = incident
    BY <1>0, <1>2 DEF RetryLoad, TypeOK
  <2> QED BY <1>0, <1>2, <2>1, ReadSteps DEF RetryLoad, Request, UsesEndpoints
<1>3. CASE RequeueDueLoad(p)
  <2>1. DueCandidates \in SUBSET Rows
    BY DEF DueCandidates
  <2> QED BY <1>0, <1>3, <2>1, ReadSteps DEF RequeueDueLoad, UsesEndpoints
<1>4. ASSUME NEW a \in Rows, RequeueLoad(p, a)
      PROVE  Steps(p)
  <2>1. {a} \in SUBSET Rows
    OBVIOUS
  <2> QED BY <1>0, <1>4, <2>1, ReadSteps DEF RequeueLoad, Request, UsesEndpoints
<1>5. ASSUME NEW ch \in Channel, CommandLoad(p, ch)
      PROVE  Steps(p)
  <2>1. memIncident'[p] = incident /\ Handlers \cap Channel # {}
    BY <1>0, <1>5 DEF CommandLoad, Request, TypeOK
  <2>2. \A q \in Sessions \ {p} : channel'[q] = channel[q]
    BY <1>0, <1>5 DEF CommandLoad, TypeOK
  <2> QED BY <1>0, <1>5, <2>1, <2>2, ReadSteps DEF CommandLoad, Request
<1> QED BY <1>1, <1>2, <1>3, <1>4, <1>5

\* What an idle executor, or one between two halves of a cycle, holds: nothing.
LEMMA IdleHoldsNothing ==
  ASSUME SoloInv, NEW p \in Sessions, pc[p] \in {"idle", "claim"}
  PROVE  \A a \in Rows : mem[p][a] = "none"
BY DEF SoloInv, GateInv, SessionShape

\* The rows an executor acts on are as it holds them.
LEMMA CopyIsCurrent ==
  ASSUME SoloInv, NEW p \in Executors, pc[p] # "enqueue", NEW a \in Rows, mem[p][a] # "none"
  PROVE  Agrees(mem[p][a], status[a]) /\ memRetries[p][a] = retries[a]
BY DEF SoloInv, UpToDate, Fresh

LEMMA IngestSteps ==
  ASSUME SoloInv, NEW p \in Executors, Ingest(p)
  PROVE  Steps(p)
<1>0. p \in Sessions /\ TypeOK
  BY ExecutorsAreSessions DEF SoloInv, GateInv
<1>1. /\ pc[p] = "idle" /\ incident = "none"
      /\ Move(p, DispatchStep)
      /\ UNCHANGED <<retries, channel, mem, memRetries>>
      /\ \A a \in Rows : status'[a] = "none" \/ status'[a] = InitialStatus(Playbook[a])
  BY DEF Ingest
<1>2. \A a \in Rows : status[a] = "none" /\ mem'[p][a] = "none"
  BY <1>0, <1>1, IdleHoldsNothing DEF SoloInv, GateInv, SessionShape
<1>3. NewIsUntried' /\ \A a \in Rows : RowStep(a)
  BY <1>1, <1>2 DEF SoloInv, NewIsUntried, RowStep, InitialStatus
<1>4. DispatchStep \in {"enqueue", "load"}
  BY DEF DispatchStep
<1>5. channel'[p] # "none" => Handlers \cap Channel # {}
  BY <1>0, <1>1 DEF SoloInv, UsesEndpoints
<1> QED BY <1>0, <1>1, <1>2, <1>3, <1>4, <1>5, BetweenSteps

LEMMA DecideSteps ==
  ASSUME SoloInv, NEW p \in Executors, NEW a \in Rows, Approve(p, a) \/ Reject(p, a)
  PROVE  Steps(p)
<1>0. p \in Sessions /\ TypeOK
  BY ExecutorsAreSessions DEF SoloInv, GateInv
<1>1. /\ pc[p] = "idle" /\ UNCHANGED <<retries, channel>>
      /\ \A b \in Rows : mem[p][b] = "none"
      /\ status[a] = "needs_approval"
  BY <1>0, IdleHoldsNothing DEF Approve, Reject, Request, Undecided, session, SoloInv, GateInv,
     ApprovalShape
<1>2. channel'[p] # "none" => Handlers \cap Channel # {}
  BY <1>0, <1>1 DEF SoloInv, UsesEndpoints
<1>3. CASE Approve(p, a)
  <2>1. /\ \A b \in Rows : status'[b] = IF b = a THEN "pending" ELSE status[b]
        /\ \A b \in Rows : mem'[p][b] = IF b = a THEN "pending" ELSE "none"
        /\ memRetries'[p][a] = retries[a]
        /\ Move(p, DispatchStep)
    BY <1>0, <1>1, <1>3 DEF Approve, TypeOK
  <2>2. NewIsUntried' /\ \A b \in Rows : RowStep(b)
    BY <1>1, <2>1 DEF SoloInv, NewIsUntried, RowStep
  <2>3. DispatchStep \in {"enqueue", "load"}
    BY DEF DispatchStep
  <2> QED BY <1>0, <1>1, <1>2, <2>1, <2>2, <2>3, BetweenSteps DEF Agrees
<1>4. CASE Reject(p, a)
  <2>1. /\ \A b \in Rows : status'[b] = IF b = a THEN "skipped" ELSE status[b]
        /\ UNCHANGED <<mem, pc>>
    BY <1>0, <1>4 DEF Reject, TypeOK, session
  <2>2. NewIsUntried' /\ \A b \in Rows : RowStep(b)
    BY <1>1, <2>1 DEF SoloInv, NewIsUntried, RowStep
  <2>3. Move(p, "idle")
    BY <1>0, <1>1, <2>1 DEF Move, TypeOK
  <2> QED BY <1>0, <1>1, <1>2, <2>1, <2>2, <2>3, BetweenSteps
<1> QED BY <1>3, <1>4

\* The call changes nothing but where p stands.
LEMMA DispatchSteps ==
  ASSUME SoloInv, NEW p \in Executors, NEW a \in Rows, Dispatch(p, a)
  PROVE  Steps(p)
<1>0. p \in Sessions /\ TypeOK
  BY ExecutorsAreSessions DEF SoloInv, GateInv
<1>1. /\ pc[p] = "run" /\ Move(p, "commit")
      /\ UNCHANGED <<status, retries, incident, channel, mem, memRetries, memIncident>>
  BY DEF Dispatch, database
<1>2. \A q \in Sessions : pc'[q] = IF q = p THEN "commit" ELSE pc[q]
  BY <1>0, <1>1, MoveEach
<1>3. UpToDate(p)' /\ UsesEndpoints(p)'
  BY <1>0, <1>1, <1>2 DEF SoloInv, UpToDate, Fresh, AllRead, IncidentRead, DueInBudget,
     UsesEndpoints
<1>4. NewIsUntried' /\ \A b \in Rows : RowStep(b)
  BY <1>1 DEF SoloInv, NewIsUntried, RowStep
<1> QED BY <1>1, <1>2, <1>3, <1>4 DEF Steps

\* The commit makes of the row what the answer says.
LEMMA CommitSteps ==
  ASSUME SoloInv, NEW p \in Executors, NEW a \in Rows, CommitAction(p, a)
  PROVE  Steps(p)
<1> DEFINE final == IF Succeeded(p) THEN "completed" ELSE "failed"
           count == IF Succeeded(p) THEN memRetries[p][a]
                    ELSE RetriesAfterFailure(kind[a], result[p], memRetries[p][a])
<1>0. p \in Sessions /\ TypeOK
  BY ExecutorsAreSessions DEF SoloInv, GateInv
<1>1. /\ pc[p] = "commit" /\ First(a, PendingIn(p)) /\ Move(p, "run")
      /\ status' = [status EXCEPT ![a] = final]
      /\ retries' = [retries EXCEPT ![a] = Written(count, memRetries[p][a], @)]
      /\ mem' = [mem EXCEPT ![p][a] = final]
      /\ memRetries' = [memRetries EXCEPT ![p][a] = count]
      /\ UNCHANGED <<incident, channel, memIncident>>
  BY DEF CommitAction
<1>2. \A q \in Sessions : pc'[q] = IF q = p THEN "run" ELSE pc[q]
  BY <1>0, <1>1, MoveEach
<1>3. /\ mem[p][a] = "pending" /\ status[a] \in {"pending", "queued"}
      /\ memRetries[p][a] = retries[a]
  BY <1>1, CopyIsCurrent DEF First, PendingIn, Agrees
<1> HIDE DEF final, count
<1>4. /\ \A b \in Rows : status'[b] = IF b = a THEN final ELSE status[b]
      /\ \A b \in Rows : retries'[b] = IF b = a THEN count ELSE retries[b]
      /\ \A b \in Rows : mem'[p][b] = IF b = a THEN final ELSE mem[p][b]
      /\ \A b \in Rows : memRetries'[p][b] = IF b = a THEN count ELSE memRetries[p][b]
  BY <1>0, <1>1, <1>3 DEF TypeOK, Written
<1>5. final # "none"
  BY DEF final
<1>6. Fresh(p)' /\ AllRead(p)'
  BY <1>1, <1>2, <1>4, <1>5 DEF SoloInv, UpToDate, Fresh, AllRead, Agrees
<1>7. IncidentRead(p)' /\ DueInBudget(p)' /\ UsesEndpoints(p)'
  BY <1>0, <1>1, <1>2 DEF SoloInv, UpToDate, IncidentRead, DueInBudget, UsesEndpoints
<1>8. NewIsUntried'
  BY <1>4, <1>5 DEF SoloInv, NewIsUntried
<1>9. Committed(a)
  <2>1. IF Succeeded(p) THEN status'[a] = "completed" /\ retries'[a] = retries[a]
        ELSE /\ status'[a] = "failed"
             /\ retries'[a] = RetriesAfterFailure(kind[a], result[p], retries[a])
    BY <1>3, <1>4 DEF final, count
  <2> QED BY <1>0, <1>1, <1>2, <2>1 DEF Committed
<1>10. \A b \in Rows : RowStep(b)
  BY <1>3, <1>4, <1>9 DEF RowStep
<1> QED BY <1>1, <1>2, <1>6, <1>7, <1>8, <1>10 DEF Steps, UpToDate

\* The evaluation is of the incident and the rows as they are.
LEMMA EvaluateSteps ==
  ASSUME SoloInv, NEW p \in Executors, EvaluateIncidentLifecycle(p)
  PROVE  Steps(p)
<1>0. p \in Sessions /\ TypeOK
  BY ExecutorsAreSessions DEF SoloInv, GateInv
<1>1. /\ pc[p] = "run" /\ Reply(p)
      /\ UNCHANGED <<status, retries>>
      /\ incident' = Written(IncidentAfter(p), memIncident[p], incident)
  BY DEF EvaluateIncidentLifecycle
<1>2. NewIsUntried' /\ \A a \in Rows : RowStep(a)
  BY <1>1 DEF SoloInv, NewIsUntried, RowStep
<1>3. CASE channel[p] = "chat"
  <2>1. /\ Move(p, "command") /\ UNCHANGED <<channel, mem, memRetries>>
        /\ memIncident' = [memIncident EXCEPT ![p] = IncidentAfter(p)]
    BY <1>1, <1>3 DEF Reply, EvaluateIncidentLifecycle
  <2>2. \A q \in Sessions : pc'[q] = IF q = p THEN "command" ELSE pc[q]
    BY <1>0, <2>1, MoveEach
  <2>3. IncidentRead(p)'
    <3>1. memIncident[p] = incident
      BY <1>1 DEF SoloInv, UpToDate, IncidentRead
    <3> QED BY <1>0, <1>1, <2>1, <3>1 DEF IncidentRead, Written, TypeOK
  <2>4. Fresh(p)' /\ AllRead(p)' /\ DueInBudget(p)' /\ UsesEndpoints(p)'
    BY <1>0, <1>1, <1>3, <2>1, <2>2 DEF SoloInv, UpToDate, Fresh, AllRead, DueInBudget,
       UsesEndpoints
  <2> QED BY <1>2, <2>1, <2>2, <2>3, <2>4 DEF Steps, UpToDate
<1>4. CASE channel[p] # "chat"
  <2>1. /\ Move(p, "idle") /\ HoldOnly(p, {})
        /\ channel' = [channel EXCEPT ![p] = "none"]
    BY <1>1, <1>4 DEF Reply
  <2>2. \A a \in Rows : mem'[p][a] = "none"
    BY <1>0, <2>1, KeptCopies
  <2>3. \A q \in Sessions : channel'[q] = IF q = p THEN "none" ELSE channel[q]
    BY <1>0, <2>1 DEF TypeOK
  <2> QED BY <1>0, <1>2, <2>1, <2>2, <2>3, BetweenSteps
<1> QED BY <1>3, <1>4

\* What is retried is failed now, and within its budget now.
LEMMA RetrySteps ==
  ASSUME SoloInv, NEW p \in Executors, RetryFailedActions(p)
  PROVE  Steps(p)
<1>0. p \in Sessions /\ TypeOK
  BY ExecutorsAreSessions DEF SoloInv, GateInv
<1>1. pc[p] = "retry" /\ UNCHANGED <<retries, incident>>
  BY DEF RetryFailedActions
<1>2. CASE Retriable(p) # {}
  <2>1. /\ status' = [a \in Rows |-> IF a \in Retriable(p) THEN "pending" ELSE status[a]]
        /\ mem' = [mem EXCEPT ![p] = [a \in Rows |-> IF a \in Retriable(p) THEN "pending" ELSE @[a]]]
        /\ Move(p, "run")
        /\ UNCHANGED <<channel, memRetries, memIncident>>
    BY <1>2 DEF RetryFailedActions
  <2>2. \A q \in Sessions : pc'[q] = IF q = p THEN "run" ELSE pc[q]
    BY <1>0, <2>1, MoveEach
  <2>3. \A a \in Rows : mem'[p][a] = IF a \in Retriable(p) THEN "pending" ELSE mem[p][a]
    BY <1>0, <2>1 DEF TypeOK
  <2>4. \A a \in Retriable(p) : /\ a \in Rows /\ mem[p][a] = "failed" /\ status[a] = "failed"
                                /\ ~Exhausted(retries[a])
    BY <1>1, CopyIsCurrent DEF Retriable, Agrees
  <2>5. Fresh(p)' /\ AllRead(p)'
    BY <1>1, <2>1, <2>2, <2>3, <2>4 DEF SoloInv, UpToDate, Fresh, AllRead, Agrees
  <2>6. IncidentRead(p)' /\ DueInBudget(p)' /\ UsesEndpoints(p)'
    BY <1>0, <1>1, <2>1, <2>2 DEF SoloInv, UpToDate, IncidentRead, DueInBudget, UsesEndpoints
  <2>7. NewIsUntried' /\ \A a \in Rows : RowStep(a)
    BY <1>1, <2>1, <2>4 DEF SoloInv, NewIsUntried, RowStep
  <2> QED BY <2>1, <2>2, <2>5, <2>6, <2>7 DEF Steps, UpToDate
<1>3. CASE Retriable(p) = {}
  <2>1. EndSession(p) /\ UNCHANGED status
    BY <1>3 DEF RetryFailedActions
  <2>2. NewIsUntried' /\ \A a \in Rows : RowStep(a)
    BY <1>1, <2>1 DEF SoloInv, NewIsUntried, RowStep
  <2> QED BY <1>0, <2>1, <2>2, EndSteps
<1> QED BY <1>2, <1>3

LEMMA RequeueSteps ==
  ASSUME SoloInv, NEW p \in Executors, NEW a \in Rows, RequeueFailedAction(p, a)
  PROVE  Steps(p)
<1>0. p \in Sessions /\ TypeOK
  BY ExecutorsAreSessions DEF SoloInv, GateInv
<1>1. /\ pc[p] = "requeue"
      /\ mem[p][a] = "failed" /\ status[a] = "failed" /\ memRetries[p][a] = retries[a]
      /\ retries' = [retries EXCEPT ![a] = Written(0, memRetries[p][a], @)]
  <2>1. pc[p] = "requeue" /\ mem[p][a] # "none"
    BY DEF RequeueFailedAction, LoadedIn
  <2>2. mem[p][a] = "failed"
    BY <1>0, <2>1 DEF SoloInv, GateInv, SessionShape
  <2> QED BY <2>1, <2>2, CopyIsCurrent DEF RequeueFailedAction, Agrees
<1>2. \A b \in Rows : retries'[b] = IF b = a THEN 0 ELSE retries[b]
  BY <1>0, <1>1 DEF TypeOK, Written
<1>3. ASSUME NEW new \in {"pending", "queued"}, status' = [status EXCEPT ![a] = new]
      PROVE  /\ \A b \in Rows : status'[b] = IF b = a THEN new ELSE status[b]
             /\ NewIsUntried' /\ \A b \in Rows : RowStep(b)
  <2>1. \A b \in Rows : status'[b] = IF b = a THEN new ELSE status[b]
    BY <1>0, <1>3 DEF TypeOK
  <2> QED BY <1>1, <1>2, <2>1 DEF SoloInv, NewIsUntried, RowStep, BroughtBack
<1>4. CASE QueuedMode
  <2>1. EndSession(p) /\ status' = [status EXCEPT ![a] = "queued"]
    BY <1>4 DEF RequeueFailedAction
  <2> QED BY <1>0, <1>3, <2>1, EndSteps
<1>5. CASE ~QueuedMode
  <2>1. /\ status' = [status EXCEPT ![a] = "pending"]
        /\ mem' = [mem EXCEPT ![p][a] = "pending"]
        /\ memRetries' = [memRetries EXCEPT ![p][a] = 0]
        /\ Move(p, "load") /\ UNCHANGED channel
    BY <1>5 DEF RequeueFailedAction
  <2>2. /\ \A b \in Rows : mem'[p][b] = IF b = a THEN "pending" ELSE mem[p][b]
        /\ \A b \in Rows : memRetries'[p][b] = IF b = a THEN 0 ELSE memRetries[p][b]
    BY <1>0, <2>1 DEF TypeOK
  <2>3. \A b \in Rows : mem'[p][b] # "none" =>
          Agrees(mem'[p][b], status'[b]) /\ memRetries'[p][b] = retries'[b]
    BY <1>1, <1>2, <1>3, <2>1, <2>2, CopyIsCurrent DEF Agrees
  <2>4. channel'[p] # "none" => Handlers \cap Channel # {}
    BY <1>0, <2>1 DEF SoloInv, UsesEndpoints
  <2> QED BY <1>0, <1>3, <2>1, <2>3, <2>4, BetweenSteps
<1> QED BY <1>4, <1>5

\* The worker queues what is failed and within its budget, then claims.
LEMMA WorkerSteps ==
  ASSUME SoloInv, NEW w \in Executors,
         \/ \E due \in SUBSET Rows : RequeueDueFailedActions(w, due)
         \/ ProcessNextQueuedIncident(w)
  PROVE  Steps(w)
<1>0. w \in Sessions /\ TypeOK
  BY ExecutorsAreSessions DEF SoloInv, GateInv
<1>1. channel[w] # "none" => Handlers \cap Channel # {}
  BY <1>0 DEF SoloInv, UsesEndpoints
<1>2. ASSUME NEW due \in SUBSET Rows, RequeueDueFailedActions(w, due)
      PROVE  Steps(w)
  <2>1. /\ pc[w] = "due" /\ due \subseteq LoadedIn(w)
        /\ status' = [a \in Rows |-> IF a \in due THEN "queued" ELSE status[a]]
        /\ HoldOnly(w, {}) /\ Move(w, "claim")
        /\ UNCHANGED <<retries, channel>>
    BY <1>2 DEF RequeueDueFailedActions
  <2>2. \A a \in due : mem[w][a] = "failed"
    BY <1>0, <2>1 DEF LoadedIn, SoloInv, GateInv, SessionShape
  <2>3. \A a \in due : status[a] = "failed" /\ memRetries[w][a] = retries[a]
    BY <2>1, <2>2, CopyIsCurrent DEF Agrees
  <2>4. \A a \in due : ~Exhausted(retries[a])
    BY <2>1, <2>2, <2>3 DEF SoloInv, UpToDate, DueInBudget, Exhausted
  <2>5. NewIsUntried' /\ \A a \in Rows : RowStep(a)
    BY <2>1, <2>3, <2>4 DEF SoloInv, NewIsUntried, RowStep
  <2>6. \A a \in Rows : mem'[w][a] = "none"
    BY <1>0, <2>1, KeptCopies
  <2> QED BY <1>0, <1>1, <2>1, <2>5, <2>6, BetweenSteps
<1>3. CASE ProcessNextQueuedIncident(w)
  <2>1. /\ pc[w] = "claim" /\ UNCHANGED <<retries, channel, mem>>
        /\ \/ /\ status' = [a \in Rows |-> IF status[a] = "queued" THEN ClaimedStatus ELSE status[a]]
              /\ Move(w, "load")
           \/ Move(w, "idle") /\ UNCHANGED status
    BY <1>3 DEF ProcessNextQueuedIncident
  <2>2. \A a \in Rows : mem'[w][a] = "none"
    BY <1>0, <2>1, IdleHoldsNothing
  <2>3. NewIsUntried' /\ \A a \in Rows : RowStep(a)
    BY <2>1 DEF SoloInv, NewIsUntried, RowStep, ClaimedStatus
  <2> QED BY <1>0, <1>1, <2>1, <2>2, <2>3, BetweenSteps
<1> QED BY <1>2, <1>3

LEMMA LeaveSteps ==
  ASSUME SoloInv, NEW p \in Executors, CommandReply(p) \/ Enqueue(p) \/ Abort(p)
  PROVE  Steps(p)
<1>0. p \in Sessions /\ TypeOK /\ EndSession(p)
  BY ExecutorsAreSessions DEF SoloInv, GateInv, CommandReply, Enqueue, Abort
<1>1. /\ UNCHANGED retries
      /\ UNCHANGED status \/ status' = [a \in Rows |-> IF a \in Enqueueable THEN "queued" ELSE status[a]]
  BY DEF CommandReply, Enqueue, Abort, database
<1>2. NewIsUntried' /\ \A a \in Rows : RowStep(a)
  BY <1>1 DEF SoloInv, NewIsUntried, RowStep, Enqueueable
<1> QED BY <1>0, <1>2, EndSteps

\* A row taken up again by a command is pending in the table as in the session.
LEMMA RetriggerSteps ==
  ASSUME SoloInv, NEW p \in Executors, NEW a \in Rows, NEW held,
         pc[p] = "command", mem[p][a] \in {"pending", "failed"},
         Retrigger(p, a), RetriggeredCopies(p, a, held),
         NEW step \in {"run", "load"}, Move(p, step),
         step = "run" => held = Rows /\ channel[p] = "command",
         UNCHANGED <<incident, channel, memIncident>>
  PROVE  Steps(p)
<1> DEFINE count == IF mem[p][a] = "failed" THEN memRetries[p][a] + 1 ELSE memRetries[p][a]
<1>0. p \in Sessions /\ TypeOK
  BY ExecutorsAreSessions DEF SoloInv, GateInv
<1>1. /\ status' = [status EXCEPT ![a] = Written("pending", mem[p][a], @)]
      /\ retries' = [retries EXCEPT ![a] = Written(count, memRetries[p][a], @)]
      /\ mem' = [mem EXCEPT ![p] =
           [b \in Rows |-> IF b = a THEN "pending" ELSE IF b \in held THEN @[b] ELSE "none"]]
      /\ memRetries' = [memRetries EXCEPT ![p] =
           [b \in Rows |-> IF b = a /\ mem[p][a] = "failed" THEN @[b] + 1
                           ELSE IF b = a \/ b \in held THEN @[b] ELSE 0]]
  BY DEF Retrigger, RetriggeredCopies
<1>2. /\ Agrees(mem[p][a], status[a]) /\ memRetries[p][a] = retries[a]
      /\ retries[a] \in Nat
  BY <1>0, CopyIsCurrent DEF TypeOK
<1>3. \A q \in Sessions : pc'[q] = IF q = p THEN step ELSE pc[q]
  BY <1>0, MoveEach
<1>4. /\ \A b \in Rows : status'[b] =
           IF b = a THEN (IF mem[p][a] = "failed" THEN "pending" ELSE status[a]) ELSE status[b]
      /\ \A b \in Rows : retries'[b] = IF b = a THEN count ELSE retries[b]
  BY <1>0, <1>1, <1>2 DEF TypeOK, Written
<1>5. /\ \A b \in Rows : mem'[p][b] =
           IF b = a THEN "pending" ELSE IF b \in held THEN mem[p][b] ELSE "none"
      /\ \A b \in Rows : memRetries'[p][b] =
           IF b = a THEN count ELSE IF b \in held THEN memRetries[p][b] ELSE 0
  BY <1>0, <1>1 DEF TypeOK
<1>6. mem[p][a] # "failed" => count = retries[a]
  BY <1>2
<1>7. mem[p][a] = "failed" => status[a] = "failed"
  BY <1>2 DEF Agrees
<1>8. mem[p][a] = "pending" => status[a] \in {"pending", "queued"}
  BY <1>2 DEF Agrees
<1> HIDE DEF count
<1>9. Fresh(p)'
  <2> SUFFICES ASSUME NEW b \in Rows, mem'[p][b] # "none"
               PROVE  Agrees(mem'[p][b], status'[b]) /\ memRetries'[p][b] = retries'[b]
    BY DEF Fresh
  <2>1. CASE b = a
    BY <1>4, <1>5, <1>8, <2>1 DEF Agrees
  <2>2. CASE b # a
    BY <1>4, <1>5, <2>2, CopyIsCurrent
  <2> QED BY <2>1, <2>2
<1>10. AllRead(p)'
  BY <1>3, <1>4, <1>5, <1>0 DEF SoloInv, UpToDate, AllRead
<1>11. IncidentRead(p)' /\ DueInBudget(p)' /\ UsesEndpoints(p)'
  BY <1>0, <1>3 DEF SoloInv, UpToDate, IncidentRead, DueInBudget, UsesEndpoints
<1>12. NewIsUntried'
  BY <1>4, <1>7, <1>8 DEF SoloInv, NewIsUntried
<1>13. \A b \in Rows : RowStep(b)
  BY <1>4, <1>6, <1>7, <1>8 DEF RowStep, BroughtBack
<1> QED BY <1>3, <1>9, <1>10, <1>11, <1>12, <1>13 DEF Steps, UpToDate

\* A row inserted by a command, which its session may hold.
LEMMA InsertSteps ==
  ASSUME SoloInv, NEW p \in Executors, NEW a \in Rows, NEW type, NEW gated \in BOOLEAN,
         pc[p] = "command", InsertRow(a, type, gated), UNCHANGED incident,
         \/ EndSession(p)
         \/ channel[p] = "chat" /\ UNCHANGED session
         \/ /\ ~gated /\ Move(p, "load") /\ UNCHANGED channel
            /\ \E held : InsertedCopies(p, a, held)
  PROVE  Steps(p)
<1>0. p \in Sessions /\ TypeOK
  BY ExecutorsAreSessions DEF SoloInv, GateInv
<1>1. /\ status[a] = "none" /\ mem[p][a] = "none"
      /\ \A b \in Rows : status'[b] =
           IF b = a THEN (IF gated THEN "needs_approval" ELSE "pending") ELSE status[b]
      /\ UNCHANGED retries
  BY <1>0 DEF InsertRow, NewRow, First, TypeOK, SoloInv, GateInv, SessionShape
<1>2. NewIsUntried' /\ \A b \in Rows : RowStep(b)
  BY <1>1 DEF SoloInv, NewIsUntried, RowStep
<1>3. CASE EndSession(p)
  BY <1>0, <1>2, <1>3, EndSteps
<1>4. CASE channel[p] = "chat" /\ UNCHANGED session
  <2>1. UNCHANGED <<pc, channel, mem, memRetries, memIncident>>
    BY <1>4 DEF session
  <2>2. UpToDate(p)' /\ UsesEndpoints(p)'
    BY <1>0, <1>1, <1>4, <2>1 DEF SoloInv, UpToDate, Fresh, AllRead, IncidentRead,
       DueInBudget, UsesEndpoints
  <2> QED BY <1>2, <2>1, <2>2 DEF Steps
<1>5. ASSUME NEW held, InsertedCopies(p, a, held), ~gated, Move(p, "load"), UNCHANGED channel
      PROVE  Steps(p)
  <2>1. /\ \A b \in Rows : mem'[p][b] =
             IF b = a THEN "pending" ELSE IF b \in held THEN mem[p][b] ELSE "none"
        /\ \A b \in Rows : memRetries'[p][b] =
             IF b \in held /\ b # a THEN memRetries[p][b] ELSE 0
    BY <1>0, <1>5 DEF InsertedCopies, TypeOK
  <2>2. retries[a] = 0
    BY <1>1 DEF SoloInv, NewIsUntried
  <2>3. \A b \in Rows : mem'[p][b] # "none" =>
          Agrees(mem'[p][b], status'[b]) /\ memRetries'[p][b] = retries'[b]
    <3> SUFFICES ASSUME NEW b \in Rows, mem'[p][b] # "none"
                 PROVE  Agrees(mem'[p][b], status'[b]) /\ memRetries'[p][b] = retries'[b]
      OBVIOUS
    <3>1. CASE b = a
      BY <1>1, <1>5, <2>1, <2>2, <3>1 DEF Agrees
    <3>2. CASE b # a
      BY <1>1, <2>1, <3>2, CopyIsCurrent
    <3> QED BY <3>1, <3>2
  <2>4. channel'[p] # "none" => Handlers \cap Channel # {}
    BY <1>0, <1>5 DEF SoloInv, UsesEndpoints
  <2> QED BY <1>0, <1>2, <1>5, <2>3, <2>4, BetweenSteps
<1> QED BY <1>3, <1>4, <1>5

\* A command that finds nothing to do, and answers or goes on to execute.
LEMMA NothingSteps ==
  ASSUME SoloInv, NEW p \in Executors, pc[p] = "command", UNCHANGED <<status, retries, incident>>,
         \/ EndSession(p)
         \/ UNCHANGED session
         \/ Move(p, "load") /\ UNCHANGED channel /\ \E held : HoldOnly(p, held)
  PROVE  Steps(p)
<1>0. p \in Sessions /\ TypeOK
  BY ExecutorsAreSessions DEF SoloInv, GateInv
<1>1. NewIsUntried' /\ \A b \in Rows : RowStep(b)
  BY DEF SoloInv, NewIsUntried, RowStep
<1>2. CASE EndSession(p)
  BY <1>0, <1>1, <1>2, EndSteps
<1>3. CASE UNCHANGED session
  BY <1>0, <1>1, <1>3 DEF session, Steps, SoloInv, UpToDate, Fresh, AllRead, IncidentRead,
     DueInBudget, UsesEndpoints
<1>4. ASSUME NEW held, HoldOnly(p, held), Move(p, "load"), UNCHANGED channel
      PROVE  Steps(p)
  <2>1. \A b \in Rows : mem'[p][b] # "none" =>
          Agrees(mem'[p][b], status'[b]) /\ memRetries'[p][b] = retries'[b]
    BY <1>0, <1>4, KeptCopies, CopyIsCurrent
  <2>2. channel'[p] # "none" => Handlers \cap Channel # {}
    BY <1>0, <1>4 DEF SoloInv, UsesEndpoints
  <2> QED BY <1>0, <1>1, <1>4, <2>1, <2>2, BetweenSteps
<1> QED BY <1>2, <1>3, <1>4

LEMMA CommandSteps ==
  ASSUME SoloInv, NEW p \in Executors, NEW type \in ActionType,
         ChatCommand(p, type) \/ ProposeForApproval(p, type) \/ ExecuteCommand(p, type)
  PROVE  Steps(p)
<1> DEFINE gated == type \in APPROVAL_REQUIRED_ACTIONS
<1>0. pc[p] = "command" /\ UNCHANGED incident
  <2>1. CASE ChatCommand(p, type)
    BY <2>1 DEF ChatCommand, Asked
  <2>2. CASE ProposeForApproval(p, type)
    BY <2>2 DEF ProposeForApproval, Asked
  <2>3. CASE ExecuteCommand(p, type)
    BY <2>3 DEF ExecuteCommand, Asked
  <2> QED BY <2>1, <2>2, <2>3
<1>1. ASSUME EndSession(p) \/ UNCHANGED session, UNCHANGED <<status, kind, retries, approval>>
      PROVE  Steps(p)
  BY <1>0, <1>1, NothingSteps
<1>2. CASE ChatCommand(p, type)
  <2> DEFINE open == {a \in RowsOfType(p, type) :
                        mem[p][a] \in {"pending", "failed", "needs_approval"}}
  <2>1. channel[p] = "command"
    BY <1>2 DEF ChatCommand, Asked
  <2>2. \A a : First(a, open) => a \in Rows /\ mem[p][a] \in {"pending", "failed", "needs_approval"}
    BY DEF First, RowsOfType, LoadedIn
  <2>3. ASSUME NEW a \in Rows, mem[p][a] \in {"pending", "failed"},
               Retrigger(p, a), RetriggeredCopies(p, a, Rows), Move(p, "run"),
               UNCHANGED <<channel, memIncident, result>>
        PROVE  Steps(p)
    BY <1>0, <2>1, <2>3, RetriggerSteps
  <2>4. ASSUME NEW a \in Rows, InsertRow(a, type, gated),
               IF gated THEN EndSession(p)
               ELSE /\ InsertedCopies(p, a, LastLoaded(p))
                    /\ Move(p, "load")
                    /\ UNCHANGED <<channel, memIncident, result>>
        PROVE  Steps(p)
    <3> HIDE DEF gated
    <3>1. CASE gated
      <4>1. InsertRow(a, type, TRUE)
        BY <2>4, <3>1 DEF InsertRow
      <4> QED BY <1>0, <2>4, <3>1, <4>1, InsertSteps
    <3>2. CASE ~gated
      <4>1. InsertRow(a, type, FALSE)
        BY <2>4, <3>2 DEF InsertRow
      <4> QED BY <1>0, <2>4, <3>2, <4>1, InsertSteps
    <3> QED BY <3>1, <3>2
  <2> HIDE DEF open
  <2>5. \/ EndSession(p) /\ UNCHANGED <<status, kind, retries, approval>>
        \/ \E a : /\ First(a, open) /\ mem[p][a] # "needs_approval"
                  /\ Retrigger(p, a) /\ RetriggeredCopies(p, a, Rows) /\ Move(p, "run")
                  /\ UNCHANGED <<channel, memIncident, result>>
        \/ \E a \in Rows :
             /\ InsertRow(a, type, gated)
             /\ IF gated THEN EndSession(p)
                ELSE /\ InsertedCopies(p, a, LastLoaded(p))
                     /\ Move(p, "load")
                     /\ UNCHANGED <<channel, memIncident, result>>
    BY <1>2 DEF ChatCommand, open
  <2> QED BY <1>1, <2>2, <2>3, <2>4, <2>5
<1>3. CASE ProposeForApproval(p, type)
  <2>1. EndSession(p) \/ (channel[p] = "chat" /\ UNCHANGED session)
    BY <1>3 DEF ProposeForApproval, Answer
  <2>2. CASE AlreadyProposed(p, type)
    BY <1>1, <1>3, <2>1, <2>2 DEF ProposeForApproval
  <2>3. CASE ~AlreadyProposed(p, type)
    <3>1. PICK a \in Rows : InsertRow(a, type, TRUE)
      BY <1>3, <2>3 DEF ProposeForApproval
    <3> QED BY <1>0, <2>1, <3>1, InsertSteps
  <2> QED BY <2>2, <2>3
<1>4. CASE ExecuteCommand(p, type)
  <2> DEFINE rows == RowsOfType(p, type)
             kept == IF channel[p] = "chat" THEN LastLoaded(p) ELSE {}
  <2>1. rows \subseteq Rows
    BY DEF RowsOfType, LoadedIn
  <2>2. CASE Answer(p) /\ UNCHANGED <<status, kind, retries, approval>>
    BY <1>1, <2>2 DEF Answer
  <2>3. ASSUME NEW a \in Rows, mem[p][a] \in {"pending", "failed"},
               Retrigger(p, a), RetriggeredCopies(p, a, {}), Move(p, "load"),
               UNCHANGED <<channel, memIncident, result>>
        PROVE  Steps(p)
    BY <1>0, <2>3, RetriggerSteps
  <2>4. ASSUME NEW a \in Rows, HoldOnly(p, {a}), UNCHANGED <<status, kind, retries, approval>>,
               Move(p, "load"), UNCHANGED channel
        PROVE  Steps(p)
    BY <1>0, <2>4, NothingSteps
  <2>5. ASSUME NEW a \in Rows, InsertRow(a, type, FALSE), InsertedCopies(p, a, kept),
               Move(p, "load"), UNCHANGED channel
        PROVE  Steps(p)
    BY <1>0, <2>5, InsertSteps
  <2> QED BY <1>4, <2>1, <2>2, <2>3, <2>4, <2>5 DEF ExecuteCommand
<1> QED BY <1>2, <1>3, <1>4

----------------------------------------------------------------------------
(* What a step of a client must leave alone, where the worker executes. *)

\* A client approves, rejects, ingests, and enqueues.
LEMMA BystanderActs ==
  ASSUME SoloInv, NEW p \in Procs, p \notin Executors,
         Begin(p) \/ Continue(p) \/ Abort(p)
  PROVE  \/ Ingest(p) \/ Enqueue(p) \/ Abort(p)
         \/ \E a \in Rows : Approve(p, a) \/ Reject(p, a)
<1>1. QueuedMode /\ Handlers \subseteq {"decide"} /\ pc[p] \in {"idle", "enqueue"}
  BY DEF Executors, OnlyWorkersExecute, Sessions, SoloInv, Bystands
<1>2. Begin(p) => Ingest(p) \/ \E a \in Rows : Approve(p, a) \/ Reject(p, a)
  BY <1>1 DEF Begin, RequeueLoad, RetryLoad, CommandLoad, Request, Channel
<1>3. ~Execute(p)
  BY <1>1 DEF Execute, Load, Dispatch, CommitAction, EvaluateIncidentLifecycle
<1>4. Continue(p) => Enqueue(p)
  BY <1>1, <1>3 DEF Continue, RetryFailedActions, RequeueFailedAction, ChatCommand,
     ProposeForApproval, ExecuteCommand, CommandReply, Asked
<1> QED BY <1>2, <1>4

\* An executor's copies stay what they were, and they stay up to date.
LEMMA BystanderKeeps ==
  ASSUME SoloInv, NEW q \in Executors, UNCHANGED retries,
         \A a \in Rows : mem'[q][a] = mem[q][a] /\ memRetries'[q][a] = memRetries[q][a],
         pc'[q] = pc[q], channel'[q] = channel[q], memIncident'[q] = memIncident[q],
         \/ incident = "none"
         \/ /\ incident' = incident
            /\ \A a \in Rows : \/ status'[a] = status[a]
                               \/ /\ status[a] = "needs_approval"
                                  /\ status'[a] \in {"pending", "skipped"}
                               \/ status[a] = "pending" /\ status'[a] = "queued"
  PROVE  UpToDate(q)'
<1>0. q \in Sessions
  BY ExecutorsAreSessions
<1>1. CASE incident = "none"
  <2>1. /\ pc[q] \in {"idle", "due", "claim"}
        /\ \A a \in Rows : mem[q][a] = "none"
    BY <1>0, <1>1 DEF SoloInv, GateInv, SessionShape
  <2> QED BY <2>1 DEF UpToDate, Fresh, AllRead, IncidentRead, DueInBudget
<1>2. CASE /\ incident' = incident
           /\ \A a \in Rows : \/ status'[a] = status[a]
                              \/ /\ status[a] = "needs_approval"
                                 /\ status'[a] \in {"pending", "skipped"}
                              \/ status[a] = "pending" /\ status'[a] = "queued"
  <2>1. UpToDate(q)
    BY DEF SoloInv
  <2>2. Fresh(q)'
    <3> SUFFICES ASSUME pc[q] # "enqueue", NEW a \in Rows, mem[q][a] # "none"
                 PROVE  Agrees(mem[q][a], status'[a]) /\ memRetries[q][a] = retries[a]
      BY DEF Fresh, Agrees
    <3>1. Agrees(mem[q][a], status[a]) /\ memRetries[q][a] = retries[a]
      BY CopyIsCurrent
    <3> QED BY <1>2, <3>1 DEF Agrees
  <2>3. AllRead(q)' /\ IncidentRead(q)' /\ DueInBudget(q)'
    BY <1>2, <2>1 DEF UpToDate, AllRead, IncidentRead, DueInBudget, Exhausted
  <2> QED BY <2>2, <2>3 DEF UpToDate
<1> QED BY <1>1, <1>2

LEMMA BystanderSteps ==
  ASSUME SoloInv, NEW p \in Procs, p \notin Executors,
         Begin(p) \/ Continue(p) \/ Abort(p)
  PROVE  /\ \A q \in Sessions \ {p} :
              /\ pc'[q] = pc[q] /\ channel'[q] = channel[q] /\ result'[q] = result[q]
              /\ \A a \in Rows : mem'[q][a] = mem[q][a]
         /\ Bystands(p)' /\ UsesEndpoints(p)'
         /\ \A q \in Executors : UpToDate(q)'
         /\ NewIsUntried'
         /\ \A a \in Rows : RowStep(a)
<1>0. p \in Sessions /\ TypeOK /\ Executors \subseteq Sessions \ {p}
  BY ExecutorsAreSessions DEF SoloInv, GateInv, Sessions
<1>1. channel'[p] # "none" => channel'[p] = channel[p]
  <2>1. CASE Ingest(p)
    BY <2>1 DEF Ingest
  <2>2. CASE Enqueue(p) \/ Abort(p)
    BY <1>0, <2>2, EndEach DEF Enqueue, Abort, EndSession, TypeOK
  <2>3. CASE \E a \in Rows : Approve(p, a) \/ Reject(p, a)
    BY <2>3 DEF Approve, Reject, session
  <2> QED BY <2>1, <2>2, <2>3, BystanderActs
<1>2. /\ \A q \in Sessions \ {p} :
           /\ pc'[q] = pc[q] /\ channel'[q] = channel[q]
           /\ memIncident'[q] = memIncident[q] /\ result'[q] = result[q]
           /\ \A a \in Rows : mem'[q][a] = mem[q][a] /\ memRetries'[q][a] = memRetries[q][a]
      /\ pc'[p] \in {"idle", "enqueue"}
  <2>0. DispatchStep = "enqueue"
    BY <1>0 DEF DispatchStep, Executors, OnlyWorkersExecute
  <2>1. CASE Ingest(p)
    BY <1>0, <2>0, <2>1 DEF Ingest, Move, TypeOK
  <2>2. CASE Enqueue(p) \/ Abort(p)
    <3>1. EndSession(p)
      BY <2>2 DEF Enqueue, Abort
    <3> QED BY <1>0, <3>1 DEF EndSession, Move, HoldOnly, TypeOK
  <2>3. ASSUME NEW a \in Rows, Approve(p, a)
        PROVE  <1>2!1 /\ <1>2!2
    BY <1>0, <2>0, <2>3 DEF Approve, Move, TypeOK
  <2>4. ASSUME NEW a \in Rows, Reject(p, a)
        PROVE  <1>2!1 /\ <1>2!2
    BY <1>0, <2>4 DEF Reject, Request, session, TypeOK
  <2> QED BY <2>1, <2>2, <2>3, <2>4, BystanderActs
<1>3. /\ UNCHANGED retries
      /\ \A a \in Rows :
           \/ incident = "none" /\ status[a] = "none"
              /\ status'[a] \in {"none", "pending", "needs_approval"}
           \/ status'[a] = status[a]
           \/ status[a] = "needs_approval" /\ status'[a] \in {"pending", "skipped"}
           \/ status[a] = "pending" /\ status'[a] = "queued"
      /\ incident = "none" \/ incident' = incident
  <2>1. CASE Ingest(p)
    <3>1. \A a \in Rows : status[a] = "none"
      BY <2>1 DEF Ingest, SoloInv, GateInv, SessionShape
    <3> QED BY <2>1, <3>1 DEF Ingest, InitialStatus
  <2>2. CASE Enqueue(p)
    BY <2>2 DEF Enqueue, Enqueueable
  <2>3. CASE Abort(p)
    BY <2>3 DEF Abort, database
  <2>4. ASSUME NEW a \in Rows, Approve(p, a) \/ Reject(p, a)
        PROVE  /\ UNCHANGED <<retries, incident>>
               /\ status[a] = "needs_approval"
               /\ \A b \in Rows : \/ status'[b] = status[b]
                                  \/ b = a /\ status'[b] \in {"pending", "skipped"}
    BY <1>0, <2>4 DEF Approve, Reject, Undecided, TypeOK, SoloInv, GateInv, ApprovalShape
  <2> QED BY <2>1, <2>2, <2>3, <2>4, BystanderActs
<1>4. ASSUME NEW q \in Executors
      PROVE  UpToDate(q)'
  BY <1>0, <1>2, <1>3, <1>4, BystanderKeeps
<1>5. Bystands(p)' /\ UsesEndpoints(p)'
  BY <1>0, <1>1, <1>2 DEF Bystands, SoloInv, UsesEndpoints
<1>6. NewIsUntried' /\ \A a \in Rows : RowStep(a)
  BY <1>3 DEF SoloInv, NewIsUntried, RowStep
<1> QED BY <1>2, <1>4, <1>5, <1>6

----------------------------------------------------------------------------
(* The invariant holds, and every step is a step in the life of each row. *)

LEMMA ExecutorSteps ==
  ASSUME SoloInv, NEW p \in Executors,
         \/ p \in Procs /\ (Begin(p) \/ Continue(p))
         \/ p \in Workers /\ Work(p)
         \/ Abort(p)
  PROVE  Steps(p)
<1>1. Begin(p) => Steps(p)
  BY IngestSteps, DecideSteps, LoadsSteps DEF Begin
<1>2. Execute(p) => Steps(p)
  BY LoadsSteps, DispatchSteps, CommitSteps, EvaluateSteps DEF Execute
<1>3. Continue(p) => Steps(p)
  BY <1>2, LeaveSteps, RetrySteps, RequeueSteps, CommandSteps, ConstantsAssumption DEF Continue
<1>4. Work(p) => Steps(p)
  BY <1>2, LoadsSteps, WorkerSteps DEF Work
<1> QED BY <1>1, <1>3, <1>4, LeaveSteps

LEMMA NextSolo ==
  ASSUME OneExecutor, SoloInv, [Next]_vars
  PROVE  SoloInv' /\ \A a \in Rows : RowStep(a)
<1>0. GateInv' /\ Executors \subseteq Sessions /\ Workers \subseteq Executors
      /\ Sessions = Procs \cup Workers
  BY NextGate, ExecutorsAreSessions DEF SoloInv, Sessions
<1>1. ASSUME NEW p \in Executors, Steps(p)
      PROVE  SoloInv' /\ \A a \in Rows : RowStep(a)
  <2>1. \A q \in Executors : q = p
    BY DEF OneExecutor
  <2>2. \A q \in Sessions : UsesEndpoints(q)'
    BY <1>1 DEF Steps, SoloInv, UsesEndpoints
  <2>3. \A q \in Sessions \ Executors : Bystands(q)'
    BY <1>1 DEF Steps, SoloInv, Bystands
  <2>4. \A q \in Executors : UpToDate(q)'
    BY <1>1, <2>1 DEF Steps
  <2>5. NewIsUntried' /\ \A a \in Rows : RowStep(a)
    BY <1>1 DEF Steps
  <2> QED BY <1>0, <2>2, <2>3, <2>4, <2>5 DEF SoloInv
<1>2. ASSUME NEW p \in Procs, p \notin Executors, Begin(p) \/ Continue(p) \/ Abort(p)
      PROVE  SoloInv' /\ \A a \in Rows : RowStep(a)
  <2>1. /\ \A q \in Sessions \ {p} : pc'[q] = pc[q] /\ channel'[q] = channel[q]
        /\ Bystands(p)' /\ UsesEndpoints(p)'
        /\ \A q \in Executors : UpToDate(q)'
        /\ NewIsUntried'
        /\ \A a \in Rows : RowStep(a)
    BY <1>2, BystanderSteps
  <2>2. \A q \in Sessions : UsesEndpoints(q)'
    BY <2>1 DEF SoloInv, UsesEndpoints
  <2>3. \A q \in Sessions \ Executors : Bystands(q)'
    BY <2>1 DEF SoloInv, Bystands
  <2> QED BY <1>0, <2>1, <2>2, <2>3 DEF SoloInv
<1>3. CASE UNCHANGED vars
  <2>1. UNCHANGED <<status, retries, incident, pc, channel, mem, memRetries, memIncident>>
    BY <1>3 DEF vars, database, session
  <2>2. \A q \in Sessions : (UsesEndpoints(q) => UsesEndpoints(q)') /\ (Bystands(q) => Bystands(q)')
    BY <2>1 DEF UsesEndpoints, Bystands
  <2>3. \A q \in Sessions : UpToDate(q) => UpToDate(q)'
    BY <2>1 DEF UpToDate, Fresh, AllRead, IncidentRead, DueInBudget
  <2>4. NewIsUntried' /\ \A a \in Rows : RowStep(a)
    BY <2>1 DEF SoloInv, NewIsUntried, RowStep
  <2> QED BY <1>0, <2>2, <2>3, <2>4 DEF SoloInv
<1> QED
  BY <1>0, <1>1, <1>2, <1>3, ExecutorSteps DEF Next

LEMMA InitSolo == Init => SoloInv
<1> SUFFICES ASSUME Init
             PROVE  SoloInv
  OBVIOUS
<1>1. GateInv
  BY InitGate
<1>2. /\ \A a \in Rows : retries[a] = 0
      /\ \A p \in Sessions : /\ pc[p] = "idle" /\ channel[p] = "none"
                             /\ \A a \in Rows : mem[p][a] = "none"
  BY DEF Init, NoRows
<1> QED
  BY <1>1, <1>2, ExecutorsAreSessions DEF SoloInv, NewIsUntried, UsesEndpoints, Bystands,
     UpToDate, Fresh, AllRead, IncidentRead, DueInBudget

\* With one executor, the copies it acts on are what the table holds.
THEOREM SoloInvariant ==
  ASSUME OneExecutor
  PROVE  Spec => []SoloInv
<1>1. SoloInv /\ [Next]_vars => SoloInv'
  BY NextSolo
<1> QED
  BY <1>1, InitSolo, PTL DEF Spec

\* Every step, of anybody, is a step in the life of each row.
THEOREM RowsLiveOneLife ==
  ASSUME OneExecutor
  PROVE  Spec => [][\A a \in Rows : RowStep(a)]_vars
<1>1. SoloInv /\ [Next]_vars => [\A a \in Rows : RowStep(a)]_vars
  BY NextSolo
<1> QED
  BY <1>1, SoloInvariant, PTL DEF Spec

\* In particular no retry, requeue, command or second run reopens a completed action.
THEOREM CompletedStays ==
  ASSUME OneExecutor
  PROVE  Spec => CompletedIsFinal
<1>1. SoloInv /\ [Next]_vars =>
        [\A a \in Rows : status[a] = "completed" => status'[a] = "completed"]_vars
  BY NextSolo DEF RowStep
<1> QED
  BY <1>1, SoloInvariant, PTL DEF Spec, CompletedIsFinal

\* No connector is called again for an action that is completed.
THEOREM CompletedIsNotRepeated ==
  ASSUME OneExecutor
  PROVE  Spec => NoRepeatAfterCompletion
<1>1. SoloInv /\ [Next]_vars =>
        [\A p \in Sessions : \A a \in Rows : Dispatch(p, a) => status[a] # "completed"]_vars
  <2> SUFFICES ASSUME SoloInv, NEW p \in Sessions, NEW a \in Rows, Dispatch(p, a)
               PROVE  status[a] # "completed"
    OBVIOUS
  <2>1. p \in Executors /\ pc[p] = "run" /\ mem[p][a] = "pending"
    BY DEF Dispatch, SoloInv, Bystands, First, PendingIn
  <2> QED BY <2>1, CopyIsCurrent DEF Agrees
<1> QED
  BY <1>1, SoloInvariant, PTL DEF Spec, NoRepeatAfterCompletion

\* The retry endpoint and the worker's due scan pass over what is dead-lettered
\* when they write, for they hold it as it is.
THEOREM DeadStaysDead ==
  ASSUME OneExecutor
  PROVE  Spec => DeadLetterStaysDead
<1>1. SoloInv /\ [Next]_vars =>
        [\A p \in Sessions :
           RetryFailedActions(p) \/ (\E due \in SUBSET Rows : RequeueDueFailedActions(p, due))
           => \A a \in Rows : Dead(a) => status'[a] = "failed"]_vars
  <2> SUFFICES ASSUME SoloInv, NEW p \in Sessions, NEW a \in Rows, Dead(a),
                      \/ RetryFailedActions(p)
                      \/ \E due \in SUBSET Rows : RequeueDueFailedActions(p, due)
               PROVE  status'[a] = "failed"
    OBVIOUS
  <2>1. status[a] = "failed" /\ Exhausted(retries[a])
    BY DEF Dead, Exhausted
  <2>2. p \in Executors /\ pc[p] \in {"retry", "due"}
    BY DEF RetryFailedActions, RequeueDueFailedActions, SoloInv, Bystands
  <2>3. CASE RetryFailedActions(p)
    <3>1. a \notin Retriable(p)
      BY <2>1, <2>2, CopyIsCurrent DEF Retriable
    <3> QED BY <2>1, <2>3, <3>1 DEF RetryFailedActions
  <2>4. ASSUME NEW due \in SUBSET Rows, RequeueDueFailedActions(p, due)
        PROVE  status'[a] = "failed"
    <3>1. pc[p] = "due" /\ due \subseteq LoadedIn(p)
      BY <2>4 DEF RequeueDueFailedActions
    <3>2. mem[p][a] # "none" => FALSE
      BY <2>1, <2>2, <3>1, CopyIsCurrent DEF SoloInv, UpToDate, DueInBudget
    <3> QED BY <2>1, <2>4, <3>1, <3>2 DEF RequeueDueFailedActions, LoadedIn
  <2> QED BY <2>3, <2>4
<1> QED
  BY <1>1, SoloInvariant, PTL DEF Spec, DeadLetterStaysDead

----------------------------------------------------------------------------
(* The incident. *)

\* Whose step it was.
LEMMA OneSteps ==
  ASSUME OneExecutor, SoloInv, Next
  PROVE  \E p \in Sessions :
           /\ \/ p \in Procs /\ (Begin(p) \/ Continue(p))
              \/ p \in Workers /\ Work(p)
              \/ Abort(p)
           /\ \A q \in Sessions \ {p} : pc'[q] = pc[q]
<1>1. PICK p \in Sessions : \/ p \in Procs /\ (Begin(p) \/ Continue(p))
                            \/ p \in Workers /\ Work(p)
                            \/ Abort(p)
  BY DEF Next, Sessions
<1>2. CASE p \in Executors
  BY <1>1, <1>2, ExecutorSteps DEF Steps
<1>3. CASE p \notin Executors
  BY <1>1, <1>3, BystanderSteps, ExecutorsAreSessions DEF Sessions
<1> QED BY <1>1, <1>2, <1>3

\* An executor that executes goes on to the evaluation, unless it dies.
LEMMA RunsOn ==
  ASSUME OneExecutor, SoloInv, [Next]_vars, NEW p \in Executors, pc[p] \in {"run", "commit"}
  PROVE  \/ pc'[p] \in {"run", "commit"}
         \/ EvaluateIncidentLifecycle(p)
         \/ Abort(p)
<1>0. p \in Sessions /\ TypeOK
  BY ExecutorsAreSessions DEF SoloInv, GateInv
<1>1. CASE UNCHANGED vars
  BY <1>1 DEF vars, session
<1>2. CASE Next
  <2>1. PICK q \in Sessions :
           /\ \/ q \in Procs /\ (Begin(q) \/ Continue(q))
              \/ q \in Workers /\ Work(q)
              \/ Abort(q)
           /\ \A r \in Sessions \ {q} : pc'[r] = pc[r]
    BY <1>2, OneSteps
  <2>2. CASE p # q
    BY <1>0, <2>1, <2>2
  <2>3. CASE p = q
    <3>1. ~Begin(p)
      BY DEF Begin, Ingest, Approve, Reject, RequeueLoad, RetryLoad, CommandLoad, Request
    <3>2. Continue(p) => Execute(p)
      BY DEF Continue, Enqueue, RetryFailedActions, RequeueFailedAction, ChatCommand,
         ProposeForApproval, ExecuteCommand, CommandReply, Asked
    <3>3. Work(p) => Execute(p)
      BY DEF Work, RequeueDueLoad, RequeueDueFailedActions, ProcessNextQueuedIncident
    <3>4. Execute(p) => pc'[p] \in {"run", "commit"} \/ EvaluateIncidentLifecycle(p)
      BY <1>0, MoveEach DEF Execute, Load, Dispatch, CommitAction
    <3> QED BY <2>1, <2>3, <3>1, <3>2, <3>3, <3>4
  <2> QED BY <2>2, <2>3
<1> QED BY <1>1, <1>2

\* The incident changes when it is ingested and when an executor evaluates it.
LEMMA IncidentSteps ==
  ASSUME SoloInv, [Next]_vars
  PROVE  \/ incident' = incident
         \/ incident = "none" /\ incident' = "in_progress"
         \/ \E p \in Executors : EvaluateIncidentLifecycle(p)
<1>1. \A p : Begin(p) =>
        incident' = incident \/ (incident = "none" /\ incident' = "in_progress")
  BY DEF Begin, Ingest, Approve, Reject, RequeueLoad, RetryLoad, CommandLoad, database
<1>2. \A p : Execute(p) => incident' = incident \/ EvaluateIncidentLifecycle(p)
  BY DEF Execute, Load, Dispatch, CommitAction, database
<1>3. \A p : Continue(p) => incident' = incident \/ EvaluateIncidentLifecycle(p)
  <2>1. \A p : \A type \in Commands :
           ChatCommand(p, type) \/ ProposeForApproval(p, type) \/ ExecuteCommand(p, type)
           => incident' = incident
    <3>1. \A p : \A type \in Commands : ChatCommand(p, type) => incident' = incident
      BY DEF ChatCommand
    <3>2. \A p : \A type \in Commands : ProposeForApproval(p, type) => incident' = incident
      BY DEF ProposeForApproval
    <3>3. \A p : \A type \in Commands : ExecuteCommand(p, type) => incident' = incident
      BY DEF ExecuteCommand
    <3> QED BY <3>1, <3>2, <3>3
  <2>2. \A p : Enqueue(p) \/ CommandReply(p) => incident' = incident
    BY DEF Enqueue, CommandReply, database
  <2>3. \A p : RetryFailedActions(p) => incident' = incident
    BY DEF RetryFailedActions
  <2>4. \A p : \A a \in Rows : RequeueFailedAction(p, a) => incident' = incident
    BY DEF RequeueFailedAction
  <2> QED BY <1>2, <2>1, <2>2, <2>3, <2>4 DEF Continue
<1>4. \A p : Work(p) => incident' = incident \/ EvaluateIncidentLifecycle(p)
  BY <1>2 DEF Work, RequeueDueLoad, RequeueDueFailedActions, ProcessNextQueuedIncident, database
<1>5. \A p : Abort(p) => incident' = incident
  BY DEF Abort, database
<1>6. \A p \in Sessions : EvaluateIncidentLifecycle(p) => p \in Executors
  BY DEF EvaluateIncidentLifecycle, SoloInv, Bystands
<1>7. Procs \subseteq Sessions /\ Workers \subseteq Sessions
  BY DEF Sessions
<1> QED BY <1>1, <1>3, <1>4, <1>5, <1>6, <1>7 DEF Next, vars, database

\* An evaluation gives the incident what the rows are now.
LEMMA EvaluationIsOfTheTable ==
  ASSUME SoloInv, NEW p \in Executors, EvaluateIncidentLifecycle(p)
  PROVE  /\ UNCHANGED <<status, retries, aborts>>
         /\ (\E a \in Rows : Dead(a)) => incident' = "escalated"
         /\ incident' = "resolved" /\ incident # "resolved" =>
              \A a \in Rows : status[a] \in {"none", "completed", "skipped"}
<1>1. /\ pc[p] = "run" /\ PendingIn(p) = {}
      /\ UNCHANGED <<status, retries, aborts>>
      /\ incident' = Written(IncidentAfter(p), memIncident[p], incident)
  BY DEF EvaluateIncidentLifecycle
<1>2. incident' = IncidentAfter(p) /\ memIncident[p] = incident
  BY <1>1 DEF SoloInv, UpToDate, IncidentRead, Written
<1>3. \A a \in Rows : status[a] # "none" =>
        /\ a \in LoadedIn(p) /\ Agrees(mem[p][a], status[a]) /\ memRetries[p][a] = retries[a]
  BY <1>1, CopyIsCurrent DEF SoloInv, UpToDate, AllRead, LoadedIn
<1>4. ASSUME NEW a \in Rows, Dead(a)
      PROVE  incident' = "escalated"
  BY <1>2, <1>3, <1>4 DEF Dead, Agrees, IncidentAfter, Terminal, Exhausted
<1>5. ASSUME incident' = "resolved", incident # "resolved", NEW a \in Rows, status[a] # "none"
      PROVE  status[a] \in {"completed", "skipped"}
  BY <1>2, <1>3, <1>5 DEF Agrees, IncidentAfter, Terminal
<1> QED BY <1>1, <1>4, <1>5

\* Only a crash or an uncaught exception counts as an abort.
LEMMA AbortsCount == [Next]_vars => aborts' = aborts \/ aborts' = aborts + 1
<1>1. \A p : Begin(p) => UNCHANGED aborts
  BY DEF Begin, Ingest, Approve, Reject, RequeueLoad, RetryLoad, CommandLoad
<1>2. \A p : Execute(p) => UNCHANGED aborts
  BY DEF Execute, Load, Dispatch, CommitAction, EvaluateIncidentLifecycle
<1>3. \A p : Continue(p) => UNCHANGED aborts
  <2>1. \A p : \A type \in Commands :
           ChatCommand(p, type) \/ ProposeForApproval(p, type) \/ ExecuteCommand(p, type)
           => UNCHANGED aborts
    <3>1. \A p : \A type \in Commands : ChatCommand(p, type) => UNCHANGED aborts
      BY DEF ChatCommand
    <3>2. \A p : \A type \in Commands : ProposeForApproval(p, type) => UNCHANGED aborts
      BY DEF ProposeForApproval
    <3>3. \A p : \A type \in Commands : ExecuteCommand(p, type) => UNCHANGED aborts
      BY DEF ExecuteCommand
    <3> QED BY <3>1, <3>2, <3>3
  <2>2. \A p : Enqueue(p) \/ CommandReply(p) \/ RetryFailedActions(p) => UNCHANGED aborts
    BY DEF Enqueue, CommandReply, RetryFailedActions
  <2>3. \A p : \A a \in Rows : RequeueFailedAction(p, a) => UNCHANGED aborts
    BY DEF RequeueFailedAction
  <2> QED BY <1>2, <2>1, <2>2, <2>3 DEF Continue
<1>4. \A w : Work(w) => UNCHANGED aborts
  BY <1>2 DEF Work, RequeueDueLoad, RequeueDueFailedActions, ProcessNextQueuedIncident
<1> QED BY <1>1, <1>3, <1>4 DEF Next, Abort, vars

LEMMA NextEscalation ==
  ASSUME OneExecutor, SoloInv, EscalationInv, [Next]_vars
  PROVE  EscalationInv'
<1> SUFFICES ASSUME aborts' = 0, NEW a \in Rows, Dead(a)'
             PROVE  incident' = "escalated" \/ \E p \in Executors : pc'[p] \in {"run", "commit"}
  BY DEF EscalationInv
<1>1. aborts = 0 /\ \A p \in Sessions : ~Abort(p)
  <2>1. aborts \in Nat
    BY DEF SoloInv, GateInv, TypeOK
  <2>2. aborts' = aborts \/ aborts' = aborts + 1
    BY AbortsCount
  <2>3. \A p \in Sessions : Abort(p) => aborts' = aborts + 1
    BY DEF Abort
  <2> QED BY <2>1, <2>2, <2>3
<1>2. CASE ~Dead(a)
  <2>1. Committed(a)
    BY <1>2, NextSolo DEF Dead, RowStep, BroughtBack
  <2> QED BY <2>1 DEF Committed
<1>3. CASE Dead(a)
  <2>1. incident = "escalated" \/ \E p \in Executors : pc[p] \in {"run", "commit"}
    BY <1>1, <1>3 DEF EscalationInv
  <2>2. CASE \E p \in Executors : EvaluateIncidentLifecycle(p)
    BY <1>3, <2>2, EvaluationIsOfTheTable
  <2>3. CASE ~\E p \in Executors : EvaluateIncidentLifecycle(p)
    <3>1. CASE incident = "escalated"
      <4>1. incident' = incident \/ incident = "none"
        BY <2>3, IncidentSteps
      <4> QED BY <3>1, <4>1
    <3>2. ASSUME NEW p \in Executors, pc[p] \in {"run", "commit"}
          PROVE  pc'[p] \in {"run", "commit"}
      BY <1>1, <2>3, <3>2, RunsOn, ExecutorsAreSessions
    <3> QED BY <2>1, <3>1, <3>2
  <2> QED BY <2>2, <2>3
<1> QED BY <1>2, <1>3

\* Once its handlers have run to the end, an incident with a dead-lettered row shows
\* as escalated: whoever dead-letters a row evaluates the incident after it.
THEOREM DeadLetterShows ==
  ASSUME OneExecutor
  PROVE  Spec => []DeadLetterEscalates
<1>1. Init => EscalationInv
  BY DEF Init, NoRows, EscalationInv, Dead
<1>2. SoloInv /\ EscalationInv /\ [Next]_vars => EscalationInv'
  BY NextEscalation
<1>3. EscalationInv => DeadLetterEscalates
  BY ExecutorsAreSessions DEF EscalationInv, DeadLetterEscalates, Quiet
<1> QED
  BY <1>1, <1>2, <1>3, SoloInvariant, PTL DEF Spec

LEMMA NextResolved ==
  ASSUME OneExecutor, Handlers \cap Channel = {}, SoloInv, ResolvedInv, [Next]_vars
  PROVE  ResolvedInv'
<1> SUFFICES ASSUME incident' = "resolved", NEW a \in Rows
             PROVE  status'[a] \in {"none", "completed", "skipped"}
  BY DEF ResolvedInv
<1>1. CASE incident = "resolved"
  <2>1. status[a] \in {"none", "completed", "skipped"}
    BY <1>1 DEF ResolvedInv
  <2>2. \A p \in Executors : pc[p] # "command"
    BY ExecutorsAreSessions DEF SoloInv, UsesEndpoints
  <2> QED BY <1>1, <2>1, <2>2, NextSolo DEF RowStep
<1>2. CASE incident # "resolved"
  <2>1. PICK p \in Executors : EvaluateIncidentLifecycle(p)
    BY <1>2, IncidentSteps
  <2> QED BY <1>2, <2>1, EvaluationIsOfTheTable
<1> QED BY <1>1, <1>2

\* Where nobody adds rows by command, a resolved incident has nothing left to execute
\* or to retry, at any time.
THEOREM ResolvedIsOver ==
  ASSUME OneExecutor, Handlers \cap Channel = {}
  PROVE  Spec => []ResolvedIsSettled
<1>1. Init => ResolvedInv
  BY DEF Init, ResolvedInv
<1>2. SoloInv /\ ResolvedInv /\ [Next]_vars => ResolvedInv'
  BY NextResolved
<1>3. ResolvedInv => ResolvedIsSettled
  BY DEF ResolvedInv, ResolvedIsSettled
<1> QED
  BY <1>1, <1>2, <1>3, SoloInvariant, PTL DEF Spec

----------------------------------------------------------------------------
(* No repeated effect. *)

\* Only calls and commits of PO updates reach the outside world; without commands, a
\* row's type is given once.
LEMMA EffectSteps ==
  ASSUME SoloInv, Handlers \cap Channel = {}, [Next]_vars
  PROVE  /\ \/ UNCHANGED delivered
            \/ \E p \in Executors : \E a \in Rows : Dispatch(p, a) \/ CommitAction(p, a)
         /\ \A a \in Rows : kind'[a] = kind[a] \/ (status[a] = "none" /\ delivered'[a] = 0)
<1>0. /\ \A p \in Sessions : channel[p] = "none" /\ pc[p] # "command"
      /\ Procs \subseteq Sessions /\ Workers \subseteq Sessions
  BY DEF SoloInv, UsesEndpoints, Sessions
<1>1. ASSUME NEW p \in Sessions, Begin(p)
      PROVE  UNCHANGED delivered /\ (UNCHANGED kind \/ incident = "none")
  BY <1>1 DEF Begin, Ingest, Approve, Reject, RequeueLoad, RetryLoad, CommandLoad, database
<1>2. ASSUME NEW p \in Sessions, Execute(p)
      PROVE  /\ UNCHANGED kind
             /\ UNCHANGED delivered \/ \E a \in Rows : Dispatch(p, a) \/ CommitAction(p, a)
  BY <1>2 DEF Execute, Load, Dispatch, CommitAction, EvaluateIncidentLifecycle, database
<1>3. ASSUME NEW p \in Sessions, Continue(p), ~Execute(p)
      PROVE  UNCHANGED <<delivered, kind>>
  <2>1. ~CommandReply(p) /\ \A type \in Commands :
           ~ChatCommand(p, type) /\ ~ProposeForApproval(p, type) /\ ~ExecuteCommand(p, type)
    BY <1>0 DEF ChatCommand, ProposeForApproval, ExecuteCommand, CommandReply, Asked
  <2> QED
    BY <1>3, <2>1 DEF Continue, Enqueue, RetryFailedActions, RequeueFailedAction
<1>4. ASSUME NEW w \in Sessions, Work(w), ~Execute(w)
      PROVE  UNCHANGED <<delivered, kind>>
  BY <1>4 DEF Work, RequeueDueLoad, RequeueDueFailedActions, ProcessNextQueuedIncident, database
<1>5. ASSUME NEW p \in Sessions, Abort(p)
      PROVE  UNCHANGED <<delivered, kind>>
  BY <1>5 DEF Abort, database
<1>6. ASSUME NEW p \in Sessions, NEW a \in Rows, Dispatch(p, a) \/ CommitAction(p, a)
      PROVE  p \in Executors
  BY <1>6 DEF Dispatch, CommitAction, SoloInv, Bystands
<1>7. \/ UNCHANGED delivered
      \/ \E p \in Executors : \E a \in Rows : Dispatch(p, a) \/ CommitAction(p, a)
  BY <1>0, <1>1, <1>2, <1>3, <1>4, <1>5, <1>6 DEF Next, vars
<1>8. UNCHANGED kind \/ (UNCHANGED delivered /\ incident = "none")
  BY <1>0, <1>1, <1>2, <1>3, <1>4, <1>5 DEF Next, vars, database
<1>9. incident = "none" => \A a \in Rows : status[a] = "none" /\ delivered[a] = 0
  BY DEF SoloInv, GateInv, SessionShape
<1> QED BY <1>7, <1>8, <1>9

\* Between a call and its commit, where nobody dies, an executor keeps what it has.
LEMMA CommitIsNext ==
  ASSUME OneExecutor, MaxAborts = 0, SoloInv, [Next]_vars,
         NEW p \in Executors, pc[p] = "commit", \A a \in Rows : ~CommitAction(p, a)
  PROVE  pc'[p] = "commit" /\ result'[p] = result[p] /\ \A a \in Rows : mem'[p][a] = mem[p][a]
<1>0. p \in Sessions /\ TypeOK /\ \A q \in Executors : q = p
  BY ExecutorsAreSessions DEF SoloInv, GateInv, OneExecutor
<1>1. CASE UNCHANGED vars
  BY <1>1 DEF vars, session
<1>2. ASSUME NEW q \in Sessions,
             \/ q \in Procs /\ (Begin(q) \/ Continue(q))
             \/ q \in Workers /\ Work(q)
             \/ Abort(q)
      PROVE  pc'[p] = "commit" /\ result'[p] = result[p] /\ \A a \in Rows : mem'[p][a] = mem[p][a]
  <2>1. CASE q # p
    <3>1. q \notin Executors /\ q \in Procs /\ (Begin(q) \/ Continue(q) \/ Abort(q))
      BY <1>0, <1>2, <2>1, ExecutorsAreSessions DEF Sessions
    <3> QED BY <1>0, <2>1, <3>1, BystanderSteps
  <2>2. ~Begin(p)
    BY DEF Begin, Ingest, Approve, Reject, RequeueLoad, RetryLoad, CommandLoad, Request
  <2>3. ~Execute(p)
    BY DEF Execute, Load, Dispatch, EvaluateIncidentLifecycle
  <2>4. ~Continue(p)
    BY <2>3 DEF Continue, Enqueue, RetryFailedActions, RequeueFailedAction, ChatCommand,
       ProposeForApproval, ExecuteCommand, CommandReply, Asked
  <2>5. ~Work(p)
    BY <2>3 DEF Work, RequeueDueLoad, RequeueDueFailedActions, ProcessNextQueuedIncident
  <2>6. ~Abort(p)
    BY <1>0 DEF Abort, TypeOK
  <2> QED BY <1>2, <2>1, <2>2, <2>4, <2>5, <2>6
<1> QED BY <1>1, <1>2 DEF Next, Sessions

\* The call of the executor's next row is the first that had an effect, if it has.
LEMMA DispatchOnce ==
  ASSUME OneExecutor, SoloInv, OnceInv, NEW p \in Executors, NEW b \in Rows, Dispatch(p, b)
  PROVE  OnceInv'
<1>0. p \in Sessions /\ TypeOK /\ \A q \in Executors : q = p
  BY ExecutorsAreSessions DEF SoloInv, GateInv, OneExecutor
<1>1. /\ pc[p] = "run" /\ First(b, PendingIn(p))
      /\ UNCHANGED <<status, kind, retries, mem>>
      /\ pc'[p] = "commit"
  BY <1>0, MoveEach DEF Dispatch, database
<1>2. mem[p][b] = "pending" /\ status[b] \in {"pending", "queued"}
  BY <1>1, CopyIsCurrent DEF First, PendingIn, Agrees
<1>3. PICK outcome \in Outcomes(kind[b]) : \E landed \in Effects(kind[b], outcome) :
        /\ result' = [result EXCEPT ![p] = outcome]
        /\ IF landed /\ kind[b] # "update_po" THEN Deliver(b) ELSE UNCHANGED delivered
  BY DEF Dispatch
<1>4. PICK landed \in Effects(kind[b], outcome) :
        /\ result'[p] = outcome
        /\ IF landed /\ kind[b] # "update_po" THEN Deliver(b) ELSE UNCHANGED delivered
  BY <1>0, <1>3 DEF TypeOK
<1>5. \A a \in Rows : a # b => delivered'[a] = delivered[a]
  BY <1>0, <1>4 DEF Deliver, TypeOK
<1>6. ASSUME NEW a \in Rows, kind[a] \in UncertainOnTimeout
      PROVE  delivered'[a] = 0 \/ (delivered'[a] = 1 /\ Spent(a)')
  <2>1. Spent(a) => status[a] = "completed" \/ Dead(a)
    BY <1>0, <1>1 DEF Spent
  <2>2. CASE a # b
    BY <1>1, <1>5, <1>6, <2>1, <2>2 DEF OnceInv, Spent, Dead
  <2>3. CASE a = b
    <3>1. delivered[b] = 0
      BY <1>2, <1>6, <2>1, <2>3 DEF OnceInv, Dead
    <3>2. kind[b] \in {"slack_notify", "call_production", "call_contractor"}
      BY <1>6, <2>3 DEF UncertainOnTimeout, NON_IDEMPOTENT_TIMEOUT_ACTIONS
    <3>3. CASE ~landed
      BY <1>4, <2>3, <3>1, <3>3
    <3>4. CASE landed
      <4>1. outcome \in {"ok", "timeout"}
        BY <1>3, <3>2, <3>4 DEF Outcomes, Outcome, Effects
      <4>2. delivered'[b] = 1
        BY <1>0, <1>4, <3>1, <3>2, <3>4 DEF Deliver, TypeOK
      <4>3. First(b, PendingIn(p))'
        BY <1>1 DEF First, PendingIn
      <4> QED BY <1>1, <1>4, <2>3, <4>1, <4>2, <4>3 DEF Spent
    <3> QED BY <3>3, <3>4
  <2> QED BY <2>2, <2>3
<1> QED BY <1>1, <1>6 DEF OnceInv

\* The commit makes of a row that may have had its effect a completed or a dead one.
LEMMA CommitOnce ==
  ASSUME OneExecutor, SoloInv, OnceInv, NEW p \in Executors, NEW b \in Rows, CommitAction(p, b)
  PROVE  OnceInv'
<1>0. p \in Sessions /\ TypeOK /\ \A q \in Executors : q = p
  BY ExecutorsAreSessions DEF SoloInv, GateInv, OneExecutor
<1>1. /\ pc[p] = "commit" /\ First(b, PendingIn(p)) /\ UNCHANGED kind
      /\ kind[b] = "update_po" \/ UNCHANGED delivered
  BY DEF CommitAction
<1>2. /\ \A a \in Rows : a # b => status'[a] = status[a] /\ retries'[a] = retries[a]
      /\ IF Succeeded(p) THEN status'[b] = "completed"
         ELSE /\ status'[b] = "failed"
              /\ retries'[b] = RetriesAfterFailure(kind[b], result[p], retries[b])
  <2>1. memRetries[p][b] = retries[b]
    BY <1>1, CopyIsCurrent DEF First, PendingIn
  <2> QED BY <1>0, <2>1 DEF CommitAction, TypeOK, Written
<1>3. \A a \in Rows : kind[a] \in UncertainOnTimeout => delivered'[a] = delivered[a]
  <2>1. "update_po" \notin UncertainOnTimeout
    BY DEF UncertainOnTimeout, NON_IDEMPOTENT_TIMEOUT_ACTIONS
  <2>2. kind[b] = "update_po" => \A a \in Rows : a # b => delivered'[a] = delivered[a]
    BY <1>0 DEF CommitAction, Deliver, TypeOK
  <2> QED BY <1>1, <2>1, <2>2
<1>4. ASSUME NEW a \in Rows, kind[a] \in UncertainOnTimeout, Spent(a)
      PROVE  Spent(a)'
  <2>1. CASE a # b
    <3>1. ~First(a, PendingIn(p))
      <4>1. PendingIn(p) \subseteq Rows /\ Rows \subseteq Int
        BY DEF PendingIn, Rows
      <4> QED BY <1>1, <2>1, <4>1, OneFirst
    <3> QED BY <1>0, <1>2, <1>4, <2>1, <3>1 DEF Spent, Dead
  <2>2. CASE a = b
    <3>1. status[b] \in {"pending", "queued"}
      BY <1>1, CopyIsCurrent DEF First, PendingIn, Agrees
    <3>2. result[p] \in {"ok", "timeout"}
      BY <1>0, <1>4, <2>2, <3>1 DEF Spent, Dead
    <3>3. CASE Succeeded(p)
      BY <1>2, <2>2, <3>3 DEF Spent
    <3>4. CASE ~Succeeded(p)
      <4>1. retries'[b] = MaxRetries
        BY <1>2, <1>4, <2>2, <3>2, <3>4 DEF Succeeded, RetriesAfterFailure, UncertainOnTimeout
      <4> QED BY <1>2, <2>2, <3>4, <4>1, ConstantsAssumption DEF Spent, Dead
    <3> QED BY <3>3, <3>4
  <2> QED BY <2>1, <2>2
<1> QED BY <1>1, <1>3, <1>4 DEF OnceInv

\* Nothing else gives a row an effect, or brings one back that may have had it.
LEMMA OtherOnce ==
  ASSUME OneExecutor, MaxAborts = 0, Handlers \subseteq {"decide", "retry"},
         SoloInv, OnceInv, [Next]_vars,
         ~\E p \in Executors : \E a \in Rows : Dispatch(p, a) \/ CommitAction(p, a)
  PROVE  OnceInv'
<1>0. /\ Handlers \cap Channel = {}
      /\ \A p \in Sessions : pc[p] \notin {"requeue", "command"}
      /\ Executors \subseteq Sessions
  BY ExecutorsAreSessions DEF Channel, SoloInv, UsesEndpoints
<1>1. UNCHANGED delivered /\ \A a \in Rows : kind'[a] = kind[a] \/ delivered'[a] = 0
  BY <1>0, EffectSteps
<1>2. ASSUME NEW p \in Executors, pc[p] = "commit"
      PROVE  pc'[p] = "commit" /\ result'[p] = result[p] /\ \A a \in Rows : mem'[p][a] = mem[p][a]
  BY <1>2, CommitIsNext
<1>3. ASSUME NEW a \in Rows, Spent(a)
      PROVE  Spent(a)'
  <2>1. CASE status[a] = "completed"
    BY <2>1, NextSolo DEF RowStep, Spent
  <2>2. CASE Dead(a)
    <3>1. ~BroughtBack(a) /\ Exhausted(retries[a])
      BY <1>0, <2>2 DEF BroughtBack, Dead, Exhausted
    <3> QED BY <2>2, <3>1, NextSolo DEF RowStep, Spent, Dead
  <2>3. ASSUME NEW p \in Executors, pc[p] = "commit", First(a, PendingIn(p)),
               result[p] \in {"ok", "timeout"}
        PROVE  Spent(a)'
    <3>1. First(a, PendingIn(p))'
      BY <1>2, <2>3 DEF First, PendingIn
    <3> QED BY <1>2, <2>3, <3>1 DEF Spent
  <2> QED BY <1>3, <2>1, <2>2, <2>3 DEF Spent
<1> QED BY <1>1, <1>3 DEF OnceInv

\* Whatever times out, no slack message or call is made twice, where nobody dies
\* between a call and its commit and nobody brings back what is dead-lettered: the
\* uncertain time-out fails closed.
THEOREM EffectsHappenOnce ==
  ASSUME OneExecutor, MaxAborts = 0, Handlers \subseteq {"decide", "retry"}
  PROVE  Spec => []AtMostOnce
<1>1. Init => OnceInv
  BY DEF Init, OnceInv
<1>2. SoloInv /\ OnceInv /\ [Next]_vars => OnceInv'
  BY DispatchOnce, CommitOnce, OtherOnce
<1>3. OnceInv => AtMostOnce
  BY DEF OnceInv, AtMostOnce, UncertainOnTimeout
<1> QED
  BY <1>1, <1>2, <1>3, SoloInvariant, PTL DEF Spec

=============================================================================
