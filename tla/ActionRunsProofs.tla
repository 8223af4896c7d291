-------------------------- MODULE ActionRunsProofs --------------------------
(***************************************************************************)
(* The types of ActionRuns, its approval gate, the refinement of           *)
(* GatedActions and the truth of every success, for every number of        *)
(* request threads, workers and rows, every playbook, either execution     *)
(* mode and either policy.  GateInv and SuccessInv are inductive: one      *)
(* lemma per group of actions gives them after the step, from what the     *)
(* step makes of each row (status, kind, approval, delivered) and of each  *)
(* session's copies.                                                       *)
(***************************************************************************)
EXTENDS ActionRuns, TLAPS

----------------------------------------------------------------------------
(* Types. *)

\* The session helpers keep the sessions well typed.
LEMMA ReadRowsType ==
  ASSUME TypeOK, NEW p \in Sessions, NEW S, ReadRows(p, S)
  PROVE  mem' \in [Sessions -> [Rows -> RowStatus]]
         /\ memRetries' \in [Sessions -> [Rows -> Nat]]
BY DEF TypeOK, ReadRows

LEMMA HoldOnlyType ==
  ASSUME TypeOK, NEW p \in Sessions, NEW S, HoldOnly(p, S)
  PROVE  mem' \in [Sessions -> [Rows -> RowStatus]]
         /\ memRetries' \in [Sessions -> [Rows -> Nat]]
BY DEF TypeOK, HoldOnly, RowStatus

LEMMA MoveType ==
  ASSUME TypeOK, NEW p \in Sessions, NEW step \in Step, Move(p, step)
  PROVE  pc' \in [Sessions -> Step]
BY DEF TypeOK, Move

LEMMA EndSessionType ==
  ASSUME TypeOK, NEW p \in Sessions, EndSession(p)
  PROVE  /\ pc' \in [Sessions -> Step]
         /\ channel' \in [Sessions -> Channel \cup {"none"}]
         /\ mem' \in [Sessions -> [Rows -> RowStatus]]
         /\ memRetries' \in [Sessions -> [Rows -> Nat]]
         /\ memIncident' \in [Sessions -> IncidentStatus \cup {"none"}]
         /\ result' \in [Sessions -> Outcome \cup {"none"}]
BY HoldOnlyType, MoveType DEF EndSession, TypeOK, Step

LEMMA IngestType ==
  ASSUME TypeOK, NEW p \in Procs, Ingest(p)
  PROVE  TypeOK'
<1>1. Playbook \in Seq(ActionType) /\ Len(Playbook) \in Nat
  BY ConstantsAssumption
<1>2. \A a \in 1..Len(Playbook) : Playbook[a] \in ActionType
  BY <1>1
<1>3. \A t : InitialStatus(t) \in RowStatus
  BY DEF InitialStatus, RowStatus, ActionStatus
<1>4. status' \in [Rows -> RowStatus]
  BY <1>3 DEF Ingest, RowStatus
<1>5. kind' \in [Rows -> ActionType \cup {"none"}]
  BY <1>2 DEF Ingest
<1>6. approval' \in [Rows -> ApprovalStatus \cup {"none"}]
  BY DEF Ingest, ApprovalStatus
<1>7. pc' \in [Sessions -> Step]
  BY DEF Ingest, TypeOK, Move, DispatchStep, Step, Sessions
<1>8. incident' \in IncidentStatus \cup {"none"}
  BY DEF Ingest, IncidentStatus
<1> QED
  BY <1>4, <1>5, <1>6, <1>7, <1>8 DEF Ingest, TypeOK

LEMMA DecideType ==
  ASSUME TypeOK, NEW p \in Procs, NEW a \in Rows, Approve(p, a) \/ Reject(p, a)
  PROVE  TypeOK'
<1>1. CASE Approve(p, a)
  <2>1. pc' \in [Sessions -> Step]
    BY <1>1 DEF Approve, TypeOK, Move, DispatchStep, Step, Sessions
  <2>2. /\ mem' \in [Sessions -> [Rows -> RowStatus]]
        /\ memRetries' \in [Sessions -> [Rows -> Nat]]
    BY <1>1 DEF Approve, TypeOK, RowStatus, ActionStatus
  <2>3. /\ status' \in [Rows -> RowStatus]
        /\ approval' \in [Rows -> ApprovalStatus \cup {"none"}]
        /\ requests' \in Nat
    BY <1>1 DEF Approve, Request, TypeOK, RowStatus, ActionStatus, ApprovalStatus
  <2> QED
    BY <1>1, <2>1, <2>2, <2>3 DEF Approve, TypeOK
<1>2. CASE Reject(p, a)
  BY <1>2 DEF Reject, Request, TypeOK, RowStatus, ActionStatus, ApprovalStatus, session
<1> QED
  BY <1>1, <1>2

LEMMA ExecuteType ==
  ASSUME TypeOK, NEW p \in Sessions, Execute(p)
  PROVE  TypeOK'
<1>1. CASE Load(p)
  <2>1. "run" \in Step
    BY DEF Step
  <2> QED
    BY <1>1, <2>1, ReadRowsType, MoveType DEF Load, TypeOK, database
<1>2. ASSUME NEW a \in Rows, Dispatch(p, a)
      PROVE  TypeOK'
  <2>1. "commit" \in Step
    BY DEF Step
  <2>2. pc' \in [Sessions -> Step]
    BY <1>2, <2>1, MoveType DEF Dispatch
  <2>3. PICK outcome \in Outcomes(kind[a]) : result' = [result EXCEPT ![p] = outcome]
    BY <1>2 DEF Dispatch
  <2>4. result' \in [Sessions -> Outcome \cup {"none"}]
    BY <2>3 DEF TypeOK, Outcomes, Outcome
  <2>5. delivered' \in [Rows -> Nat]
    BY <1>2 DEF Dispatch, Deliver, TypeOK
  <2> QED
    BY <1>2, <2>2, <2>4, <2>5 DEF Dispatch, TypeOK, database
<1>3. ASSUME NEW a \in Rows, CommitAction(p, a)
      PROVE  TypeOK'
  <2> DEFINE ok    == Succeeded(p)
             final == IF ok THEN "completed" ELSE "failed"
             count == IF ok THEN memRetries[p][a]
                      ELSE RetriesAfterFailure(kind[a], result[p], memRetries[p][a])
  <2>1. final \in RowStatus
    BY DEF RowStatus, ActionStatus
  <2>2. count \in Nat
    BY ConstantsAssumption DEF TypeOK, RetriesAfterFailure
  <2>3. /\ status' = [status EXCEPT ![a] = final]
        /\ retries' = [retries EXCEPT ![a] = Written(count, memRetries[p][a], @)]
        /\ mem' = [mem EXCEPT ![p][a] = final]
        /\ memRetries' = [memRetries EXCEPT ![p][a] = count]
    BY <1>3 DEF CommitAction
  <2> HIDE DEF final, count
  <2>4. /\ status' \in [Rows -> RowStatus]
        /\ retries' \in [Rows -> Nat]
        /\ mem' \in [Sessions -> [Rows -> RowStatus]]
        /\ memRetries' \in [Sessions -> [Rows -> Nat]]
    BY <2>1, <2>2, <2>3 DEF TypeOK, Written
  <2>5. delivered' \in [Rows -> Nat]
    <3>1. Deliver(a) \/ UNCHANGED delivered
      BY <1>3 DEF CommitAction
    <3> QED
      BY <3>1 DEF Deliver, TypeOK
  <2>6. result' \in [Sessions -> Outcome \cup {"none"}]
    BY <1>3 DEF CommitAction, TypeOK
  <2>7. pc' \in [Sessions -> Step]
    BY <1>3, MoveType DEF CommitAction, Step
  <2> QED
    BY <1>3, <2>4, <2>5, <2>6, <2>7 DEF CommitAction, TypeOK
<1>4. CASE EvaluateIncidentLifecycle(p)
  <2>1. IncidentAfter(p) \in IncidentStatus \cup {"none"}
    BY DEF IncidentAfter, IncidentStatus, TypeOK
  <2>2. /\ incident' \in IncidentStatus \cup {"none"}
        /\ memIncident' \in [Sessions -> IncidentStatus \cup {"none"}]
    BY <1>4, <2>1 DEF EvaluateIncidentLifecycle, Written, TypeOK
  <2>3. Reply(p)
    BY <1>4 DEF EvaluateIncidentLifecycle
  <2>4. "idle" \in Step /\ "command" \in Step
    BY DEF Step
  <2>5. /\ pc' \in [Sessions -> Step]
        /\ channel' \in [Sessions -> Channel \cup {"none"}]
        /\ mem' \in [Sessions -> [Rows -> RowStatus]]
        /\ memRetries' \in [Sessions -> [Rows -> Nat]]
        /\ result' \in [Sessions -> Outcome \cup {"none"}]
    BY <2>3, <2>4, MoveType, HoldOnlyType DEF Reply, TypeOK
  <2> QED
    BY <1>4, <2>2, <2>5 DEF EvaluateIncidentLifecycle, TypeOK
<1> QED
  BY <1>1, <1>2, <1>3, <1>4 DEF Execute

LEMMA RetryType ==
  ASSUME TypeOK, NEW p \in Procs, RetryLoad(p) \/ RetryFailedActions(p)
  PROVE  TypeOK'
<1>1. p \in Sessions /\ {"retry", "run"} \subseteq Step /\ "pending" \in RowStatus
  BY DEF Sessions, Step, RowStatus, ActionStatus
<1>2. CASE RetryLoad(p)
  BY <1>1, <1>2, ReadRowsType, MoveType DEF RetryLoad, Request, TypeOK, database
<1>3. CASE RetryFailedActions(p)
  <2>1. CASE Retriable(p) # {}
    <3>1. /\ status' \in [Rows -> RowStatus]
          /\ mem' \in [Sessions -> [Rows -> RowStatus]]
      <4>1. /\ status' = [a \in Rows |-> IF a \in Retriable(p) THEN "pending" ELSE status[a]]
            /\ mem' = [mem EXCEPT ![p] =
                 [a \in Rows |-> IF a \in Retriable(p) THEN "pending" ELSE @[a]]]
        BY <1>3, <2>1 DEF RetryFailedActions
      <4>2. mem \in [Sessions -> [Rows -> RowStatus]] /\ status \in [Rows -> RowStatus]
        BY DEF TypeOK
      <4> QED
        BY <1>1, <4>1, <4>2
    <3>2. pc' \in [Sessions -> Step]
      BY <1>1, <1>3, <2>1, MoveType DEF RetryFailedActions
    <3> QED
      BY <1>3, <2>1, <3>1, <3>2 DEF RetryFailedActions, TypeOK
  <2>2. CASE Retriable(p) = {}
    BY <1>1, <1>3, <2>2, EndSessionType DEF RetryFailedActions, TypeOK
  <2> QED
    BY <2>1, <2>2
<1> QED
  BY <1>2, <1>3

LEMMA RequeueType ==
  ASSUME TypeOK, NEW p \in Procs, NEW a \in Rows,
         RequeueLoad(p, a) \/ RequeueFailedAction(p, a)
  PROVE  TypeOK'
<1>1. /\ p \in Sessions /\ {"requeue", "load"} \subseteq Step
      /\ {"pending", "queued"} \subseteq RowStatus
  BY DEF Sessions, Step, RowStatus, ActionStatus
<1>2. CASE RequeueLoad(p, a)
  BY <1>1, <1>2, ReadRowsType, MoveType DEF RequeueLoad, Request, TypeOK, database
<1>3. CASE RequeueFailedAction(p, a)
  <2>1. retries' \in [Rows -> Nat]
    BY <1>3 DEF RequeueFailedAction, Written, TypeOK
  <2>2. CASE QueuedMode
    <3>1. /\ status' = [status EXCEPT ![a] = "queued"]
          /\ EndSession(p)
      BY <1>3, <2>2 DEF RequeueFailedAction
    <3>2. status' \in [Rows -> RowStatus]
      BY <1>1, <3>1 DEF TypeOK
    <3> QED
      BY <1>1, <1>3, <2>1, <3>1, <3>2, EndSessionType DEF RequeueFailedAction, TypeOK
  <2>3. CASE ~QueuedMode
    <3>1. /\ status' = [status EXCEPT ![a] = "pending"]
          /\ mem' = [mem EXCEPT ![p][a] = "pending"]
          /\ memRetries' = [memRetries EXCEPT ![p][a] = 0]
          /\ Move(p, "load")
          /\ UNCHANGED <<channel, memIncident, result>>
      BY <1>3, <2>3 DEF RequeueFailedAction
    <3>2. /\ status' \in [Rows -> RowStatus]
          /\ mem' \in [Sessions -> [Rows -> RowStatus]]
          /\ memRetries' \in [Sessions -> [Rows -> Nat]]
      BY <1>1, <3>1 DEF TypeOK
    <3>3. pc' \in [Sessions -> Step]
      BY <1>1, <3>1, MoveType
    <3> QED
      BY <1>3, <2>1, <3>1, <3>2, <3>3 DEF RequeueFailedAction, TypeOK
  <2> QED
    BY <2>2, <2>3
<1> QED
  BY <1>2, <1>3

LEMMA RetriggerType ==
  ASSUME TypeOK, NEW p \in Sessions, NEW a \in Rows, NEW held,
         Retrigger(p, a), RetriggeredCopies(p, a, held)
  PROVE  /\ status' \in [Rows -> RowStatus]
         /\ retries' \in [Rows -> Nat]
         /\ mem' \in [Sessions -> [Rows -> RowStatus]]
         /\ memRetries' \in [Sessions -> [Rows -> Nat]]
         /\ UNCHANGED <<kind, approval>>
<1> DEFINE count == IF mem[p][a] = "failed" THEN memRetries[p][a] + 1 ELSE memRetries[p][a]
<1>1. count \in Nat /\ {"pending", "none"} \subseteq RowStatus
  BY DEF TypeOK, RowStatus, ActionStatus
<1>2. /\ status' = [status EXCEPT ![a] = Written("pending", mem[p][a], @)]
      /\ retries' = [retries EXCEPT ![a] = Written(count, memRetries[p][a], @)]
      /\ UNCHANGED <<kind, approval>>
  BY DEF Retrigger
<1>3. status' \in [Rows -> RowStatus]
  BY <1>1, <1>2 DEF TypeOK, Written
<1>4. retries' \in [Rows -> Nat]
  <2> HIDE DEF count
  <2> QED
    BY <1>1, <1>2 DEF TypeOK, Written
<1>5. mem' \in [Sessions -> [Rows -> RowStatus]]
  BY <1>1 DEF TypeOK, RetriggeredCopies
<1>6. memRetries' \in [Sessions -> [Rows -> Nat]]
  BY DEF TypeOK, RetriggeredCopies
<1> QED
  BY <1>2, <1>3, <1>4, <1>5, <1>6

LEMMA InsertRowType ==
  ASSUME TypeOK, NEW a \in Rows, NEW type \in ActionType, NEW gated,
         InsertRow(a, type, gated)
  PROVE  /\ status' \in [Rows -> RowStatus]
         /\ kind' \in [Rows -> ActionType \cup {"none"}]
         /\ approval' \in [Rows -> ApprovalStatus \cup {"none"}]
         /\ UNCHANGED retries
BY DEF TypeOK, InsertRow, RowStatus, ActionStatus, ApprovalStatus

LEMMA InsertedCopiesType ==
  ASSUME TypeOK, NEW p \in Sessions, NEW a \in Rows, NEW held, InsertedCopies(p, a, held)
  PROVE  /\ mem' \in [Sessions -> [Rows -> RowStatus]]
         /\ memRetries' \in [Sessions -> [Rows -> Nat]]
<1>1. {"pending", "none"} \subseteq RowStatus
  BY DEF RowStatus, ActionStatus
<1> QED
  BY <1>1 DEF TypeOK, InsertedCopies

LEMMA CommandType ==
  ASSUME TypeOK, NEW p \in Procs, NEW type \in Commands,
         ChatCommand(p, type) \/ ProposeForApproval(p, type) \/ ExecuteCommand(p, type)
  PROVE  TypeOK'
<1>1. /\ p \in Sessions /\ type \in ActionType
      /\ {"run", "load"} \subseteq Step
  BY ConstantsAssumption DEF Sessions, Step
<1>2. CASE ChatCommand(p, type)
  <2> DEFINE open  == {a \in RowsOfType(p, type) :
                         mem[p][a] \in {"pending", "failed", "needs_approval"}}
             gated == type \in APPROVAL_REQUIRED_ACTIONS
  <2>0. UNCHANGED <<incident, delivered, requests, aborts>>
    BY <1>2 DEF ChatCommand
  <2>1. CASE EndSession(p) /\ UNCHANGED <<status, kind, retries, approval>>
    BY <1>1, <2>0, <2>1, EndSessionType DEF TypeOK
  <2>2. ASSUME NEW a \in Rows, Retrigger(p, a), RetriggeredCopies(p, a, Rows), Move(p, "run"),
               UNCHANGED <<channel, memIncident, result>>
        PROVE  TypeOK'
    BY <1>1, <2>0, <2>2, RetriggerType, MoveType DEF TypeOK
  <2>3. ASSUME NEW a \in Rows, InsertRow(a, type, gated), EndSession(p)
        PROVE  TypeOK'
    BY <1>1, <2>0, <2>3, InsertRowType, EndSessionType DEF TypeOK
  <2>4. ASSUME NEW a \in Rows, InsertRow(a, type, gated), Move(p, "load"),
               InsertedCopies(p, a, LastLoaded(p)), UNCHANGED <<channel, memIncident, result>>
        PROVE  TypeOK'
    BY <1>1, <2>0, <2>4, InsertRowType, InsertedCopiesType, MoveType DEF TypeOK
  <2>5. open \subseteq Rows
    BY DEF RowsOfType, LoadedIn
  <2> QED
    BY <1>2, <2>1, <2>2, <2>3, <2>4, <2>5 DEF ChatCommand
<1>3. CASE ProposeForApproval(p, type)
  <2>1. /\ UNCHANGED <<incident, delivered, aborts>>
        /\ requests' \in Nat
        /\ Answer(p)
    BY <1>3 DEF ProposeForApproval, TypeOK
  <2>2. /\ status' \in [Rows -> RowStatus]
        /\ kind' \in [Rows -> ActionType \cup {"none"}]
        /\ approval' \in [Rows -> ApprovalStatus \cup {"none"}]
        /\ UNCHANGED retries
    <3>1. CASE AlreadyProposed(p, type)
      BY <1>3, <3>1 DEF ProposeForApproval, TypeOK
    <3>2. CASE ~AlreadyProposed(p, type)
      <4>1. PICK a \in Rows : InsertRow(a, type, TRUE)
        BY <1>3, <3>2 DEF ProposeForApproval
      <4> QED
        BY <1>1, <4>1, InsertRowType
    <3> QED
      BY <3>1, <3>2
  <2>3. CASE UNCHANGED session
    BY <2>1, <2>2, <2>3 DEF TypeOK, session
  <2>4. CASE EndSession(p)
    BY <1>1, <2>1, <2>2, <2>4, EndSessionType DEF TypeOK
  <2> QED
    BY <2>1, <2>3, <2>4 DEF Answer
<1>4. CASE ExecuteCommand(p, type)
  <2> DEFINE rows == RowsOfType(p, type)
             kept == IF channel[p] = "chat" THEN LastLoaded(p) ELSE {}
             Goes == Move(p, "load") /\ UNCHANGED <<channel, memIncident, result>>
  <2>0. /\ UNCHANGED <<incident, delivered, aborts>>
        /\ requests' \in Nat
    BY <1>4 DEF ExecuteCommand, TypeOK
  <2>1. CASE Answer(p) /\ UNCHANGED <<status, kind, retries, approval>>
    <3>1. CASE UNCHANGED session
      BY <2>0, <2>1, <3>1 DEF TypeOK, session
    <3>2. CASE EndSession(p)
      BY <1>1, <2>0, <2>1, <3>2, EndSessionType DEF TypeOK
    <3> QED
      BY <2>1, <3>1, <3>2 DEF Answer
  <2>2. ASSUME NEW a \in Rows, Retrigger(p, a), RetriggeredCopies(p, a, {}), Goes
        PROVE  TypeOK'
    BY <1>1, <2>0, <2>2, RetriggerType, MoveType DEF TypeOK
  <2>3. ASSUME NEW a \in Rows, HoldOnly(p, {a}), UNCHANGED <<status, kind, retries, approval>>, Goes
        PROVE  TypeOK'
    BY <1>1, <2>0, <2>3, HoldOnlyType, MoveType DEF TypeOK
  <2>4. ASSUME NEW a \in Rows, InsertRow(a, type, FALSE), InsertedCopies(p, a, kept), Goes
        PROVE  TypeOK'
    BY <1>1, <2>0, <2>4, InsertRowType, InsertedCopiesType, MoveType DEF TypeOK
  <2>5. rows \subseteq Rows
    BY DEF RowsOfType, LoadedIn
  <2> QED
    BY <1>4, <2>1, <2>2, <2>3, <2>4, <2>5 DEF ExecuteCommand
<1> QED
  BY <1>2, <1>3, <1>4

LEMMA WorkerType ==
  ASSUME TypeOK, NEW w \in Workers,
         \/ RequeueDueLoad(w)
         \/ \E due \in SUBSET Rows : RequeueDueFailedActions(w, due)
         \/ ProcessNextQueuedIncident(w)
  PROVE  TypeOK'
<1>1. /\ w \in Sessions /\ {"due", "claim", "load", "idle"} \subseteq Step
      /\ {"queued", "pending"} \subseteq RowStatus
  BY DEF Sessions, Step, RowStatus, ActionStatus
<1>2. CASE RequeueDueLoad(w)
  BY <1>1, <1>2, ReadRowsType, MoveType DEF RequeueDueLoad, TypeOK, database
<1>3. ASSUME NEW due \in SUBSET Rows, RequeueDueFailedActions(w, due)
      PROVE  TypeOK'
  <2>1. status' \in [Rows -> RowStatus]
    BY <1>1, <1>3 DEF RequeueDueFailedActions, TypeOK
  <2> QED
    BY <1>1, <1>3, <2>1, HoldOnlyType, MoveType DEF RequeueDueFailedActions, TypeOK
<1>4. CASE ProcessNextQueuedIncident(w)
  <2>1. status' \in [Rows -> RowStatus]
    BY <1>1, <1>4 DEF ProcessNextQueuedIncident, ClaimedStatus, TypeOK
  <2>2. pc' \in [Sessions -> Step]
    BY <1>1, <1>4, MoveType DEF ProcessNextQueuedIncident
  <2> QED
    BY <1>4, <2>1, <2>2 DEF ProcessNextQueuedIncident, TypeOK
<1> QED
  BY <1>2, <1>3, <1>4

LEMMA OtherType ==
  ASSUME TypeOK, NEW p \in Sessions,
         \/ \E ch \in Channel : CommandLoad(p, ch)
         \/ CommandReply(p) \/ Enqueue(p) \/ Abort(p)
  PROVE  TypeOK'
<1>1. "command" \in Step /\ "queued" \in RowStatus
  BY DEF Step, RowStatus, ActionStatus
<1>2. ASSUME NEW ch \in Channel, CommandLoad(p, ch)
      PROVE  TypeOK'
  BY <1>1, <1>2, ReadRowsType, MoveType DEF CommandLoad, Request, TypeOK, database
<1>3. CASE CommandReply(p)
  BY <1>3, EndSessionType DEF CommandReply, TypeOK, database
<1>4. CASE Enqueue(p)
  <2>1. status' \in [Rows -> RowStatus]
    BY <1>1, <1>4 DEF Enqueue, TypeOK
  <2> QED
    BY <1>4, <2>1, EndSessionType DEF Enqueue, TypeOK
<1>5. CASE Abort(p)
  BY <1>5, EndSessionType DEF Abort, TypeOK, database
<1> QED
  BY <1>2, <1>3, <1>4, <1>5

LEMMA NextType == TypeOK /\ [Next]_vars => TypeOK'
<1> SUFFICES ASSUME TypeOK, [Next]_vars
             PROVE  TypeOK'
  OBVIOUS
<1>1. Procs \subseteq Sessions /\ Workers \subseteq Sessions
  BY DEF Sessions
<1>2. ASSUME NEW p \in Procs, Begin(p)
      PROVE  TypeOK'
  BY <1>1, <1>2, IngestType, DecideType, RequeueType, RetryType, OtherType DEF Begin
<1>3. ASSUME NEW p \in Procs, Continue(p)
      PROVE  TypeOK'
  BY <1>1, <1>3, OtherType, ExecuteType, RetryType, RequeueType, CommandType DEF Continue
<1>4. ASSUME NEW w \in Workers, Work(w)
      PROVE  TypeOK'
  BY <1>1, <1>4, WorkerType, ExecuteType DEF Work
<1>5. ASSUME NEW p \in Sessions, Abort(p)
      PROVE  TypeOK'
  BY <1>5, OtherType
<1>6. CASE UNCHANGED vars
  BY <1>6 DEF vars, database, session, TypeOK
<1> QED
  BY <1>2, <1>3, <1>4, <1>5, <1>6 DEF Next

LEMMA InitType == Init => TypeOK
BY DEF Init, TypeOK, NoRows, RowStatus, Step

\* The variables keep their types in every behaviour.
THEOREM TypeCorrect == Spec => []TypeOK
BY InitType, NextType, PTL DEF Spec

----------------------------------------------------------------------------
(* What the session helpers do to each copy. *)

\* Only p's step changes.
LEMMA MoveEach ==
  ASSUME TypeOK, NEW p \in Sessions, NEW step, Move(p, step)
  PROVE  \A q \in Sessions : pc'[q] = IF q = p THEN step ELSE pc[q]
BY DEF TypeOK, Move

\* Rows the session did not hold are read, the others keep their old copy.
LEMMA ReadEach ==
  ASSUME TypeOK, NEW p \in Sessions, NEW S, ReadRows(p, S)
  PROVE  \A q \in Sessions : \A b \in Rows :
           mem'[q][b] = IF q = p /\ b \in S /\ mem[p][b] = "none" THEN status[b] ELSE mem[q][b]
BY DEF TypeOK, ReadRows

\* Copies outside of held are gone.
LEMMA HoldEach ==
  ASSUME TypeOK, NEW p \in Sessions, NEW held, HoldOnly(p, held)
  PROVE  \A q \in Sessions : \A b \in Rows :
           mem'[q][b] = IF q = p /\ b \notin held THEN "none" ELSE mem[q][b]
BY DEF TypeOK, HoldOnly

\* A session that ends is idle and holds nothing.
LEMMA EndEach ==
  ASSUME TypeOK, NEW p \in Sessions, EndSession(p)
  PROVE  /\ \A q \in Sessions : pc'[q] = IF q = p THEN "idle" ELSE pc[q]
         /\ \A q \in Sessions : \A b \in Rows :
              mem'[q][b] = IF q = p THEN "none" ELSE mem[q][b]
<1>1. Move(p, "idle") /\ HoldOnly(p, {})
  BY DEF EndSession
<1> QED
  BY <1>1, MoveEach, HoldEach

----------------------------------------------------------------------------
(* The inductive invariant, action by action. *)

LEMMA IngestGate ==
  ASSUME GateInv, TypeOK', NEW p \in Procs, Ingest(p)
  PROVE  GateInv'
<1> DEFINE planned == 1..Len(Playbook)
           first   == [a \in Rows |-> IF a \in planned THEN InitialStatus(Playbook[a]) ELSE "none"]
<1>1. /\ incident = "none" /\ incident' = "in_progress"
      /\ status' = first
      /\ kind' = [a \in Rows |-> IF a \in planned THEN Playbook[a] ELSE "none"]
      /\ approval' = [a \in Rows |-> IF first[a] = "needs_approval" THEN "pending" ELSE "none"]
      /\ UNCHANGED <<mem, delivered>>
      /\ Move(p, DispatchStep)
  BY DEF Ingest
<1>2. \A t : /\ InitialStatus(t) \in {"pending", "needs_approval"}
             /\ RequireHumanApproval /\ t \in APPROVAL_REQUIRED_ACTIONS
                  => InitialStatus(t) = "needs_approval"
  BY DEF InitialStatus, CheckHumanApprovalRequired
<1>3. /\ "none" \notin APPROVAL_REQUIRED_ACTIONS
      /\ \A b \in planned : Playbook[b] # "none"
  <2>1. Playbook \in Seq(ActionType) /\ "none" \notin ActionType
    BY ConstantsAssumption DEF ActionType
  <2> QED
    BY <2>1 DEF APPROVAL_REQUIRED_ACTIONS
<1>4. \A b \in Rows :
        /\ status'[b] = IF b \in planned THEN InitialStatus(Playbook[b]) ELSE "none"
        /\ kind'[b] = IF b \in planned THEN Playbook[b] ELSE "none"
        /\ approval'[b] = IF status'[b] = "needs_approval" THEN "pending" ELSE "none"
        /\ delivered'[b] = 0
        /\ \A q \in Sessions : mem'[q][b] = "none"
  BY <1>1 DEF GateInv, SessionShape
<1>5. DispatchStep \in {"enqueue", "load"} /\ p \in Sessions
  BY DEF DispatchStep, Sessions
<1>6. \A q \in Sessions : pc'[q] = IF q = p THEN DispatchStep ELSE pc[q]
  BY <1>1, <1>5, MoveEach DEF GateInv
<1>7. SessionShape'
  BY <1>1, <1>2, <1>3, <1>4, <1>5, <1>6 DEF SessionShape
<1>8. ApprovalShape' /\ ApprovalGate'
  BY <1>2, <1>3, <1>4 DEF ApprovalShape, ApprovalGate
<1> QED
  BY <1>7, <1>8 DEF GateInv

\* A decision: no session can hold a copy of the row it would execute, for the
\* row was waiting for the decision.
LEMMA DecideGate ==
  ASSUME GateInv, TypeOK', NEW p \in Procs, NEW a \in Rows, Approve(p, a) \/ Reject(p, a)
  PROVE  GateInv'
<1>1. /\ p \in Sessions
      /\ pc[p] = "idle" /\ incident # "none" /\ incident' = incident
      /\ approval[a] = "pending" /\ status[a] = "needs_approval" /\ delivered[a] = 0
      /\ \A q \in Sessions : mem[q][a] \notin {"pending", "failed"}
      /\ UNCHANGED <<kind, delivered>>
  BY DEF Approve, Reject, Request, Undecided, Sessions, GateInv, ApprovalShape, ApprovalGate
<1>2. CASE Approve(p, a)
  <2>1. \A b \in Rows :
          /\ status'[b] = IF b = a THEN "pending" ELSE status[b]
          /\ approval'[b] = IF b = a THEN "approved" ELSE approval[b]
    BY <1>2 DEF Approve, GateInv, TypeOK
  <2>2. \A q \in Sessions : \A b \in Rows :
          mem'[q][b] = IF q = p /\ b = a THEN "pending" ELSE mem[q][b]
    BY <1>1, <1>2 DEF Approve, GateInv, TypeOK
  <2>3. DispatchStep \in {"enqueue", "load"} /\ Move(p, DispatchStep)
    BY <1>2 DEF DispatchStep, Approve
  <2>4. \A q \in Sessions : pc'[q] = IF q = p THEN DispatchStep ELSE pc[q]
    BY <1>1, <2>3, MoveEach DEF GateInv
  <2>5. SessionShape'
    BY <1>1, <2>1, <2>2, <2>3, <2>4 DEF GateInv, SessionShape
  <2>6. ApprovalShape' /\ ApprovalGate'
    BY <1>1, <2>1, <2>2 DEF GateInv, ApprovalShape, ApprovalGate
  <2> QED
    BY <2>5, <2>6 DEF GateInv
<1>3. CASE Reject(p, a)
  <2>1. /\ UNCHANGED <<mem, pc>>
        /\ \A b \in Rows :
             /\ status'[b] = IF b = a THEN "skipped" ELSE status[b]
             /\ approval'[b] = IF b = a THEN "rejected" ELSE approval[b]
    BY <1>3 DEF Reject, GateInv, TypeOK, session
  <2>2. SessionShape'
    BY <1>1, <2>1 DEF GateInv, SessionShape
  <2>3. ApprovalShape' /\ ApprovalGate'
    BY <1>1, <2>1 DEF GateInv, ApprovalShape, ApprovalGate
  <2> QED
    BY <2>2, <2>3 DEF GateInv
<1> QED
  BY <1>2, <1>3

\* A handler or worker only reads rows.  A copy of a row that has a status it
\* could be executed with is a copy of a row the gate lets through.
LEMMA ReadGate ==
  ASSUME GateInv, TypeOK', NEW p \in Sessions, NEW S \in SUBSET Rows, ReadRows(p, S),
         NEW step, step \notin {"idle", "claim"}, Move(p, step),
         step # "due" => incident # "none",
         step \in {"requeue", "due"} =>
           pc[p] = "idle" /\ \A a \in S : status[a] = "failed",
         UNCHANGED <<database, delivered>>
  PROVE  GateInv'
<1>1. \A q \in Sessions : \A b \in Rows :
        mem'[q][b] = IF q = p /\ b \in S /\ mem[p][b] = "none" THEN status[b] ELSE mem[q][b]
  BY ReadEach DEF GateInv
<1>2. \A q \in Sessions : pc'[q] = IF q = p THEN step ELSE pc[q]
  BY MoveEach DEF GateInv
<1>3. UNCHANGED <<status, kind, approval, incident, delivered>>
  BY DEF database
<1>4. SessionShape'
  BY <1>1, <1>2, <1>3 DEF GateInv, SessionShape
<1>5. ApprovalShape' /\ ApprovalGate'
  BY <1>1, <1>3 DEF GateInv, ApprovalShape, ApprovalGate
<1> QED
  BY <1>4, <1>5 DEF GateInv

LEMMA LoadsGate ==
  ASSUME GateInv, TypeOK', NEW p \in Sessions,
         \/ Load(p) \/ RetryLoad(p) \/ RequeueDueLoad(p)
         \/ \E a \in Rows : RequeueLoad(p, a)
         \/ \E ch \in Channel : CommandLoad(p, ch)
  PROVE  GateInv'
<1>1. CASE Load(p)
  <2>1. incident # "none" /\ UNCHANGED <<database, delivered>>
        /\ ReadRows(p, Rows) /\ Move(p, "run")
    BY <1>1 DEF Load, GateInv, SessionShape
  <2> QED
    BY <2>1, ReadGate
<1>2. CASE RetryLoad(p)
  <2>1. incident # "none" /\ UNCHANGED <<database, delivered>>
        /\ ReadRows(p, Rows) /\ Move(p, "retry")
    BY <1>2 DEF RetryLoad, Request
  <2> QED
    BY <2>1, ReadGate
<1>3. CASE RequeueDueLoad(p)
  <2>1. UNCHANGED <<database, delivered>> /\ pc[p] = "idle"
        /\ ReadRows(p, DueCandidates) /\ Move(p, "due")
    BY <1>3 DEF RequeueDueLoad
  <2>2. DueCandidates \in SUBSET Rows /\ \A a \in DueCandidates : status[a] = "failed"
    BY DEF DueCandidates
  <2> QED
    BY <2>1, <2>2, ReadGate
<1>4. ASSUME NEW a \in Rows, RequeueLoad(p, a)
      PROVE  GateInv'
  <2>1. incident # "none" /\ UNCHANGED <<database, delivered>> /\ pc[p] = "idle"
        /\ status[a] = "failed" /\ ReadRows(p, {a}) /\ Move(p, "requeue")
    BY <1>4 DEF RequeueLoad, Request, Requeuable
  <2> QED
    BY <2>1, ReadGate
<1>5. ASSUME NEW ch \in Channel, CommandLoad(p, ch)
      PROVE  GateInv'
  <2>1. incident # "none" /\ UNCHANGED <<database, delivered>>
        /\ ReadRows(p, Rows) /\ Move(p, "command")
    BY <1>5 DEF CommandLoad, Request
  <2> QED
    BY <2>1, ReadGate
<1> QED
  BY <1>1, <1>2, <1>3, <1>4, <1>5

\* The connector call and the commit concern a row the session holds as pending,
\* which the gate lets through.
LEMMA RunGate ==
  ASSUME GateInv, TypeOK', NEW p \in Sessions, NEW a \in Rows,
         Dispatch(p, a) \/ CommitAction(p, a)
  PROVE  GateInv'
<1>1. /\ First(a, PendingIn(p)) /\ pc[p] \in {"run", "commit"}
      /\ UNCHANGED <<kind, approval, incident>>
  BY DEF Dispatch, CommitAction, database
<1>2. /\ mem[p][a] = "pending"
      /\ approval[a] \notin {"pending", "rejected"}
      /\ status[a] \notin {"none", "needs_approval", "skipped"}
      /\ incident # "none"
  BY <1>1 DEF First, PendingIn, GateInv, ApprovalShape, SessionShape
<1>3. \A b \in Rows \ {a} : delivered'[b] = delivered[b]
  <2>1. Deliver(a) \/ UNCHANGED delivered
    BY DEF Dispatch, CommitAction
  <2> QED
    BY <2>1 DEF Deliver, GateInv, TypeOK
<1>4. approval[a] \in {"none", "approved"}
  BY <1>2 DEF GateInv, TypeOK, ApprovalStatus
<1>5. /\ \A b \in Rows : status'[b] # status[b]
                        => b = a /\ status'[b] \in {"completed", "failed"}
      /\ \A q \in Sessions : \A b \in Rows : mem'[q][b] # mem[q][b]
                        => q = p /\ b = a /\ mem'[q][b] \in {"completed", "failed"}
  <2>1. CASE Dispatch(p, a)
    <3>1. UNCHANGED <<status, mem>>
      BY <2>1 DEF Dispatch, database
    <3> QED
      BY <3>1
  <2>2. CASE CommitAction(p, a)
    <3> DEFINE final == IF Succeeded(p) THEN "completed" ELSE "failed"
    <3>1. /\ status' = [status EXCEPT ![a] = final]
          /\ mem' = [mem EXCEPT ![p][a] = final]
      BY <2>2 DEF CommitAction
    <3>2. final \in {"completed", "failed"}
      OBVIOUS
    <3> HIDE DEF final
    <3> QED
      BY <3>1, <3>2 DEF GateInv, TypeOK
  <2> QED
    BY <2>1, <2>2
<1>6. Move(p, "run") \/ Move(p, "commit")
  BY DEF Dispatch, CommitAction
<1>7. \A q \in Sessions : pc'[q] # pc[q] => q = p /\ pc'[q] \in {"run", "commit"}
  BY <1>6, MoveEach DEF GateInv
<1>8. SessionShape'
  BY <1>1, <1>2, <1>3, <1>5, <1>7 DEF GateInv, SessionShape
<1>9. ApprovalShape' /\ ApprovalGate'
  BY <1>1, <1>2, <1>3, <1>4, <1>5 DEF GateInv, ApprovalShape, ApprovalGate
<1> QED
  BY <1>8, <1>9 DEF GateInv

LEMMA EvaluateGate ==
  ASSUME GateInv, TypeOK', NEW p \in Sessions, EvaluateIncidentLifecycle(p)
  PROVE  GateInv'
<1>1. /\ pc[p] = "run" /\ incident # "none" /\ Reply(p)
      /\ incident' = Written(IncidentAfter(p), memIncident[p], incident)
      /\ UNCHANGED <<status, kind, approval, delivered>>
  BY DEF EvaluateIncidentLifecycle, GateInv, SessionShape
<1>2. incident' # "none"
  BY <1>1 DEF Written, IncidentAfter
<1>3. \/ Move(p, "command") /\ UNCHANGED mem
      \/ Move(p, "idle") /\ HoldOnly(p, {})
  BY <1>1 DEF Reply
<1>4. \/ /\ \A q \in Sessions : pc'[q] = IF q = p THEN "command" ELSE pc[q]
         /\ UNCHANGED mem
      \/ /\ \A q \in Sessions : pc'[q] = IF q = p THEN "idle" ELSE pc[q]
         /\ \A q \in Sessions : \A b \in Rows :
              mem'[q][b] = IF q = p THEN "none" ELSE mem[q][b]
  BY <1>3, MoveEach, HoldEach DEF GateInv
<1>5. SessionShape'
  BY <1>1, <1>2, <1>4 DEF GateInv, SessionShape
<1>6. ApprovalShape' /\ ApprovalGate'
  BY <1>1, <1>4 DEF GateInv, ApprovalShape, ApprovalGate
<1> QED
  BY <1>5, <1>6 DEF GateInv

\* The session ends, and rows no approval is concerned with may have changed:
\* what Enqueue, the queued requeue, an abort and an answer have in common.
LEMMA EndGate ==
  ASSUME GateInv, TypeOK', NEW p \in Sessions, EndSession(p),
         UNCHANGED <<kind, approval, incident, delivered>>,
         \A b \in Rows : \/ status'[b] = status[b]
                        \/ /\ status'[b] \in {"queued", "pending"}
                           /\ status[b] \notin {"none", "needs_approval", "skipped"}
  PROVE  GateInv'
<1>1. /\ \A q \in Sessions : pc'[q] = IF q = p THEN "idle" ELSE pc[q]
      /\ \A q \in Sessions : \A b \in Rows :
           mem'[q][b] = IF q = p THEN "none" ELSE mem[q][b]
  BY EndEach DEF GateInv
<1>2. SessionShape'
  BY <1>1 DEF GateInv, SessionShape
<1>3. ApprovalShape' /\ ApprovalGate'
  BY <1>1 DEF GateInv, ApprovalShape, ApprovalGate
<1> QED
  BY <1>2, <1>3 DEF GateInv

\* The session goes on with copies of rows the gate lets through: it held them
\* already, or has just made the pending row a, and the row table changed only
\* where such a row is pending again.
LEMMA KeepGate ==
  ASSUME GateInv, TypeOK', NEW p \in Sessions, NEW step \in {"run", "load"}, Move(p, step),
         pc[p] \in {"retry", "requeue", "command"},
         UNCHANGED <<kind, approval, incident, delivered>>,
         \A b \in Rows : status'[b] # status[b] =>
           status'[b] = "pending" /\ mem[p][b] \in {"pending", "failed"},
         \A q \in Sessions : \A b \in Rows : mem'[q][b] # mem[q][b] =>
           /\ q = p
           /\ \/ mem'[q][b] = "none"
              \/ mem'[q][b] = "pending" /\ mem[p][b] \in {"pending", "failed"}
  PROVE  GateInv'
<1>1. \A q \in Sessions : pc'[q] = IF q = p THEN step ELSE pc[q]
  BY MoveEach DEF GateInv
<1>2. incident # "none"
  BY DEF GateInv, SessionShape
<1>3. \A b \in Rows : mem[p][b] \in {"pending", "failed"} =>
        /\ status[b] \notin {"none", "needs_approval", "skipped"}
        /\ approval[b] \notin {"pending", "rejected"}
  BY DEF GateInv, SessionShape, ApprovalShape
<1>4. SessionShape'
  BY <1>1, <1>2, <1>3 DEF GateInv, SessionShape
<1>5. ApprovalShape' /\ ApprovalGate'
  BY <1>3 DEF GateInv, ApprovalShape, ApprovalGate
<1> QED
  BY <1>4, <1>5 DEF GateInv

LEMMA RetryGate ==
  ASSUME GateInv, TypeOK', NEW p \in Sessions, RetryFailedActions(p)
  PROVE  GateInv'
<1>1. pc[p] = "retry" /\ UNCHANGED <<kind, approval, incident, delivered>>
  BY DEF RetryFailedActions
<1>2. CASE Retriable(p) # {}
  <2>1. /\ status' = [a \in Rows |-> IF a \in Retriable(p) THEN "pending" ELSE status[a]]
        /\ mem' = [mem EXCEPT ![p] = [a \in Rows |-> IF a \in Retriable(p) THEN "pending" ELSE @[a]]]
        /\ Move(p, "run")
    BY <1>2 DEF RetryFailedActions
  <2>2. \A a \in Retriable(p) : mem[p][a] = "failed"
    BY DEF Retriable
  <2>3. /\ \A b \in Rows : status'[b] # status[b] =>
             status'[b] = "pending" /\ mem[p][b] \in {"pending", "failed"}
        /\ \A q \in Sessions : \A b \in Rows : mem'[q][b] # mem[q][b] =>
             /\ q = p
             /\ mem'[q][b] = "pending" /\ mem[p][b] \in {"pending", "failed"}
    BY <2>1, <2>2 DEF GateInv, TypeOK
  <2> QED
    BY <1>1, <2>1, <2>3, KeepGate
<1>3. CASE Retriable(p) = {}
  <2>1. EndSession(p) /\ UNCHANGED status
    BY <1>3 DEF RetryFailedActions
  <2> QED
    BY <1>1, <2>1, EndGate
<1> QED
  BY <1>2, <1>3

LEMMA RequeueGate ==
  ASSUME GateInv, TypeOK', NEW p \in Sessions, NEW a \in Rows, RequeueFailedAction(p, a)
  PROVE  GateInv'
<1>1. /\ pc[p] = "requeue" /\ UNCHANGED <<kind, approval, incident, delivered>>
      /\ mem[p][a] = "failed"
  BY DEF RequeueFailedAction, LoadedIn, GateInv, SessionShape
<1>2. status[a] \notin {"none", "needs_approval", "skipped"}
  BY <1>1 DEF GateInv, SessionShape, ApprovalShape
<1>3. CASE QueuedMode
  <2>1. EndSession(p) /\ status' = [status EXCEPT ![a] = "queued"]
    BY <1>3 DEF RequeueFailedAction
  <2>2. \A b \in Rows : status'[b] = IF b = a THEN "queued" ELSE status[b]
    BY <2>1 DEF GateInv, TypeOK
  <2> QED
    BY <1>1, <1>2, <2>1, <2>2, EndGate
<1>4. CASE ~QueuedMode
  <2>1. /\ status' = [status EXCEPT ![a] = "pending"]
        /\ mem' = [mem EXCEPT ![p][a] = "pending"]
        /\ Move(p, "load")
    BY <1>4 DEF RequeueFailedAction
  <2>2. /\ \A b \in Rows : status'[b] # status[b] =>
             status'[b] = "pending" /\ mem[p][b] \in {"pending", "failed"}
        /\ \A q \in Sessions : \A b \in Rows : mem'[q][b] # mem[q][b] =>
             /\ q = p
             /\ mem'[q][b] = "pending" /\ mem[p][b] \in {"pending", "failed"}
    BY <1>1, <2>1 DEF GateInv, TypeOK
  <2> QED
    BY <1>1, <2>1, <2>2, KeepGate
<1> QED
  BY <1>3, <1>4

LEMMA WorkerGate ==
  ASSUME GateInv, TypeOK', NEW w \in Sessions,
         \/ \E due \in SUBSET Rows : RequeueDueFailedActions(w, due)
         \/ ProcessNextQueuedIncident(w)
  PROVE  GateInv'
<1>1. ASSUME NEW due \in SUBSET Rows, RequeueDueFailedActions(w, due)
      PROVE  GateInv'
  <2>1. /\ pc[w] = "due" /\ due \subseteq LoadedIn(w)
        /\ status' = [a \in Rows |-> IF a \in due THEN "queued" ELSE status[a]]
        /\ HoldOnly(w, {}) /\ Move(w, "claim")
        /\ UNCHANGED <<kind, approval, incident, delivered>>
    BY <1>1 DEF RequeueDueFailedActions
  <2>2. \A b \in due : mem[w][b] = "failed"
    BY <2>1 DEF LoadedIn, GateInv, SessionShape
  <2>3. \A b \in Rows : status'[b] # status[b] =>
          /\ status'[b] = "queued"
          /\ status[b] \notin {"none", "needs_approval", "skipped"}
    BY <2>1, <2>2 DEF GateInv, SessionShape, ApprovalShape
  <2>4. /\ \A q \in Sessions : pc'[q] = IF q = w THEN "claim" ELSE pc[q]
        /\ \A q \in Sessions : \A b \in Rows :
             mem'[q][b] = IF q = w THEN "none" ELSE mem[q][b]
    BY <2>1, MoveEach, HoldEach DEF GateInv
  <2>5. SessionShape'
    BY <2>1, <2>3, <2>4 DEF GateInv, SessionShape
  <2>6. ApprovalShape' /\ ApprovalGate'
    BY <2>1, <2>3, <2>4 DEF GateInv, ApprovalShape, ApprovalGate
  <2> QED
    BY <2>5, <2>6 DEF GateInv
<1>2. CASE ProcessNextQueuedIncident(w)
  <2>1. /\ pc[w] = "claim" /\ UNCHANGED <<kind, approval, incident, delivered, mem>>
        /\ \A b \in Rows : status'[b] # status[b] => status'[b] = "pending" /\ status[b] = "queued"
        /\ \/ Move(w, "load") /\ \E b \in Rows : status[b] = "queued"
           \/ Move(w, "idle")
    BY <1>2 DEF ProcessNextQueuedIncident, ClaimedStatus
  <2>2. \E step \in {"load", "idle"} :
          /\ \A q \in Sessions : pc'[q] = IF q = w THEN step ELSE pc[q]
          /\ step = "load" => incident # "none"
    BY <2>1, MoveEach DEF GateInv, SessionShape
  <2>3. SessionShape'
    BY <2>1, <2>2 DEF GateInv, SessionShape
  <2>4. ApprovalShape' /\ ApprovalGate'
    BY <2>1 DEF GateInv, ApprovalShape, ApprovalGate
  <2> QED
    BY <2>3, <2>4 DEF GateInv
<1> QED
  BY <1>1, <1>2

LEMMA LeaveGate ==
  ASSUME GateInv, TypeOK', NEW p \in Sessions,
         CommandReply(p) \/ Enqueue(p) \/ Abort(p)
  PROVE  GateInv'
<1>1. CASE CommandReply(p)
  BY <1>1, EndGate DEF CommandReply, database
<1>2. CASE Enqueue(p)
  BY <1>2, EndGate DEF Enqueue, Enqueueable
<1>3. CASE Abort(p)
  BY <1>3, EndGate DEF Abort, database
<1> QED
  BY <1>1, <1>2, <1>3

LEMMA StayGate ==
  ASSUME GateInv, TypeOK', UNCHANGED <<status, kind, approval, incident, delivered, mem, pc>>
  PROVE  GateInv'
<1>1. SessionShape'
  BY DEF GateInv, SessionShape
<1>2. ApprovalShape' /\ ApprovalGate'
  BY DEF GateInv, ApprovalShape, ApprovalGate
<1> QED
  BY <1>1, <1>2 DEF GateInv

\* A row made pending again was pending or failed in the session's eyes.
LEMMA RetriggerGate ==
  ASSUME GateInv, TypeOK', NEW p \in Sessions, NEW a \in Rows, NEW held,
         pc[p] = "command", mem[p][a] \in {"pending", "failed"},
         Retrigger(p, a), RetriggeredCopies(p, a, held),
         NEW step \in {"run", "load"}, Move(p, step), UNCHANGED <<incident, delivered>>
  PROVE  GateInv'
<1>1. /\ status' = [status EXCEPT ![a] = Written("pending", mem[p][a], @)]
      /\ UNCHANGED <<kind, approval>>
      /\ mem' = [mem EXCEPT ![p] =
           [b \in Rows |-> IF b = a THEN "pending" ELSE IF b \in held THEN @[b] ELSE "none"]]
  BY DEF Retrigger, RetriggeredCopies
<1>2. \A b \in Rows : status'[b] # status[b] =>
        status'[b] = "pending" /\ mem[p][b] \in {"pending", "failed"}
  BY <1>1 DEF Written, GateInv, TypeOK
<1>3. \A q \in Sessions : \A b \in Rows : mem'[q][b] # mem[q][b] =>
        /\ q = p
        /\ \/ mem'[q][b] = "none"
           \/ mem'[q][b] = "pending" /\ mem[p][b] \in {"pending", "failed"}
  BY <1>1 DEF GateInv, TypeOK
<1> QED
  BY <1>1, <1>2, <1>3, KeepGate

\* A new row is behind an approval, or its type needs none; nobody has seen it.
LEMMA InsertGate ==
  ASSUME GateInv, TypeOK', NEW p \in Sessions, NEW a \in Rows, NEW type \in ActionType,
         NEW gated \in BOOLEAN, type \in APPROVAL_REQUIRED_ACTIONS => gated,
         pc[p] = "command", InsertRow(a, type, gated), UNCHANGED <<incident, delivered>>,
         \/ UNCHANGED session
         \/ EndSession(p)
         \/ ~gated /\ Move(p, "load") /\ \E held : InsertedCopies(p, a, held)
  PROVE  GateInv'
<1>1. /\ status[a] = "none" /\ incident # "none" /\ type # "none"
      /\ \A b \in Rows : status'[b] = IF b = a THEN IF gated THEN "needs_approval" ELSE "pending"
                                   ELSE status[b]
      /\ \A b \in Rows : kind'[b] = IF b = a THEN type ELSE kind[b]
      /\ \A b \in Rows : approval'[b] = IF b = a /\ gated THEN "pending" ELSE approval[b]
  <2>1. status[a] = "none" /\ incident # "none" /\ type # "none"
    BY DEF InsertRow, NewRow, First, GateInv, SessionShape, ActionType
  <2> QED BY <2>1 DEF InsertRow, GateInv, TypeOK
<1>2. approval[a] = "none" /\ delivered[a] = 0 /\ \A q \in Sessions : mem[q][a] = "none"
  BY <1>1 DEF GateInv, SessionShape
<1>3. \A q \in Sessions :
        /\ pc'[q] # pc[q] =>
             /\ q = p
             /\ pc'[q] \in {"idle", "load"}
             /\ pc'[q] = "idle" => \A b \in Rows : mem'[q][b] = "none"
        /\ \A b \in Rows : mem'[q][b] # mem[q][b] =>
             \/ mem'[q][b] = "none"
             \/ b = a /\ ~gated /\ pc'[q] = "load" /\ mem'[q][b] = "pending"
  <2>1. CASE UNCHANGED session
    BY <2>1 DEF session
  <2>2. CASE EndSession(p)
    BY <2>2, EndEach DEF GateInv
  <2>3. CASE ~gated /\ Move(p, "load") /\ \E held : InsertedCopies(p, a, held)
    <3>1. PICK held : mem' = [mem EXCEPT ![p] =
            [b \in Rows |-> IF b = a THEN "pending" ELSE IF b \in held THEN @[b] ELSE "none"]]
      BY <2>3 DEF InsertedCopies
    <3>2. \A q \in Sessions : pc'[q] = IF q = p THEN "load" ELSE pc[q]
      BY <2>3, MoveEach DEF GateInv
    <3>3. \A q \in Sessions : \A b \in Rows : mem'[q][b] # mem[q][b] =>
            q = p /\ \/ mem'[q][b] = "none"
                     \/ b = a /\ mem'[q][b] = "pending"
      BY <3>1 DEF GateInv, TypeOK
    <3> QED
      BY <2>3, <3>2, <3>3
  <2> QED
    BY <2>1, <2>2, <2>3
<1>4. SessionShape'
  BY <1>1, <1>2, <1>3 DEF GateInv, SessionShape
<1>5. ApprovalShape' /\ ApprovalGate'
  BY <1>1, <1>2, <1>3 DEF GateInv, ApprovalShape, ApprovalGate
<1> QED
  BY <1>4, <1>5 DEF GateInv

LEMMA CommandGate ==
  ASSUME GateInv, TypeOK', NEW p \in Sessions, NEW type \in ActionType,
         ChatCommand(p, type) \/ ProposeForApproval(p, type) \/ ExecuteCommand(p, type)
  PROVE  GateInv'
<1> DEFINE gated == type \in APPROVAL_REQUIRED_ACTIONS
<1>0. pc[p] = "command" /\ UNCHANGED <<incident, delivered>> /\ gated \in BOOLEAN
  <2>1. CASE ChatCommand(p, type)
    BY <2>1 DEF ChatCommand, Asked
  <2>2. CASE ProposeForApproval(p, type)
    BY <2>2 DEF ProposeForApproval, Asked
  <2>3. CASE ExecuteCommand(p, type)
    BY <2>3 DEF ExecuteCommand, Asked
  <2> QED
    BY <2>1, <2>2, <2>3
<1>1. ASSUME EndSession(p) \/ UNCHANGED session, UNCHANGED <<status, kind, retries, approval>>
      PROVE  GateInv'
  <2>1. CASE EndSession(p)
    BY <1>0, <1>1, <2>1, EndGate
  <2>2. CASE UNCHANGED session
    BY <1>0, <1>1, <2>2, StayGate DEF session
  <2> QED
    BY <1>1, <2>1, <2>2
<1>2. CASE ChatCommand(p, type)
  <2> DEFINE open == {a \in RowsOfType(p, type) :
                        mem[p][a] \in {"pending", "failed", "needs_approval"}}
  <2>1. ASSUME NEW a \in Rows, mem[p][a] \in {"pending", "failed"}, Retrigger(p, a),
               RetriggeredCopies(p, a, Rows), Move(p, "run")
        PROVE  GateInv'
    BY <1>0, <2>1, RetriggerGate
  <2>2. ASSUME NEW a \in Rows, InsertRow(a, type, gated),
               \/ EndSession(p)
               \/ ~gated /\ InsertedCopies(p, a, LastLoaded(p)) /\ Move(p, "load")
        PROVE  GateInv'
    BY <1>0, <2>2, InsertGate
  <2>3. \A a : First(a, open) =>
          a \in Rows /\ (mem[p][a] # "needs_approval" => mem[p][a] \in {"pending", "failed"})
    BY DEF First, RowsOfType, LoadedIn
  <2> QED
    BY <1>1, <1>2, <2>1, <2>2, <2>3 DEF ChatCommand
<1>3. CASE ProposeForApproval(p, type)
  <2>1. Answer(p) /\ gated
    BY <1>3 DEF ProposeForApproval
  <2>2. EndSession(p) \/ UNCHANGED session
    BY <2>1 DEF Answer
  <2>3. CASE AlreadyProposed(p, type)
    BY <1>1, <1>3, <2>2, <2>3 DEF ProposeForApproval
  <2>4. CASE ~AlreadyProposed(p, type)
    <3>1. PICK a \in Rows : InsertRow(a, type, TRUE)
      BY <1>3, <2>4 DEF ProposeForApproval
    <3> QED
      BY <1>0, <2>2, <3>1, InsertGate
  <2> QED
    BY <2>3, <2>4
<1>4. CASE ExecuteCommand(p, type)
  <2> DEFINE rows == RowsOfType(p, type)
             kept == IF channel[p] = "chat" THEN LastLoaded(p) ELSE {}
  <2>1. ~gated /\ rows \subseteq Rows
    BY <1>4 DEF ExecuteCommand, RowsOfType, LoadedIn
  <2>2. CASE Answer(p) /\ UNCHANGED <<status, kind, retries, approval>>
    BY <1>1, <2>2 DEF Answer
  <2>3. ASSUME NEW a \in Rows, mem[p][a] \in {"pending", "failed"}, Retrigger(p, a),
               RetriggeredCopies(p, a, {}), Move(p, "load")
        PROVE  GateInv'
    BY <1>0, <2>3, RetriggerGate
  <2>4. ASSUME NEW a \in Rows, HoldOnly(p, {a}), UNCHANGED <<status, kind, retries, approval>>,
               Move(p, "load")
        PROVE  GateInv'
    <3>1. \A q \in Sessions : \A b \in Rows : mem'[q][b] # mem[q][b] =>
            q = p /\ mem'[q][b] = "none"
      BY <2>4, HoldEach DEF GateInv
    <3> QED
      BY <1>0, <2>4, <3>1, KeepGate
  <2>5. ASSUME NEW a \in Rows, InsertRow(a, type, FALSE), InsertedCopies(p, a, kept), Move(p, "load")
        PROVE  GateInv'
    BY <1>0, <2>1, <2>5, InsertGate
  <2> QED
    BY <1>4, <2>1, <2>2, <2>3, <2>4, <2>5 DEF ExecuteCommand
<1> QED
  BY <1>2, <1>3, <1>4

LEMMA InitGate == Init => GateInv
<1> SUFFICES ASSUME Init
             PROVE  GateInv
  OBVIOUS
<1>1. TypeOK
  BY InitType
<1>2. SessionShape /\ ApprovalShape /\ ApprovalGate
  BY DEF Init, NoRows, SessionShape, ApprovalShape, ApprovalGate, APPROVAL_REQUIRED_ACTIONS
<1> QED
  BY <1>1, <1>2 DEF GateInv

LEMMA NextGate == GateInv /\ [Next]_vars => GateInv'
<1> SUFFICES ASSUME GateInv, [Next]_vars
             PROVE  GateInv'
  OBVIOUS
<1>0. /\ TypeOK'
      /\ Procs \subseteq Sessions /\ Workers \subseteq Sessions
      /\ Commands \subseteq ActionType
  BY NextType, ConstantsAssumption DEF GateInv, Sessions
<1>1. ASSUME NEW p \in Procs, Begin(p)
      PROVE  GateInv'
  BY <1>0, <1>1, IngestGate, DecideGate, LoadsGate DEF Begin
<1>2. ASSUME NEW p \in Sessions, Execute(p)
      PROVE  GateInv'
  BY <1>0, <1>2, LoadsGate, RunGate, EvaluateGate DEF Execute
<1>3. ASSUME NEW p \in Procs, Continue(p)
      PROVE  GateInv'
  BY <1>0, <1>2, <1>3, LeaveGate, RetryGate, RequeueGate, CommandGate DEF Continue
<1>4. ASSUME NEW w \in Workers, Work(w)
      PROVE  GateInv'
  BY <1>0, <1>2, <1>4, LoadsGate, WorkerGate DEF Work
<1>5. ASSUME NEW p \in Sessions, Abort(p)
      PROVE  GateInv'
  BY <1>0, <1>5, LeaveGate
<1>6. CASE UNCHANGED vars
  BY <1>0, <1>6, StayGate DEF vars, database, session
<1> QED
  BY <1>1, <1>3, <1>4, <1>5, <1>6 DEF Next

\* The strengthening holds in every behaviour ...
THEOREM GateInvariant == Spec => []GateInv
BY InitGate, NextGate, PTL DEF Spec

\* ... and with it the gate: nothing goes out undecided or rejected, and with the
\* policy on nothing customer-facing goes out unapproved.
THEOREM GateHolds == Spec => []ApprovalGate
<1>1. GateInv => ApprovalGate
  BY DEF GateInv
<1> QED
  BY <1>1, GateInvariant, PTL

----------------------------------------------------------------------------
(* The refinement: every step is a step of the abstract gate or stutters. *)

LEMMA InitRefines == Init => Gate!GateInit
<1> SUFFICES ASSUME Init
             PROVE  Gate!GateInit
  OBVIOUS
<1>1. \A a \in Rows : GateOf(a) = "absent"
  BY DEF Init, NoRows, GateOf
<1>2. \A a \in Rows : (delivered[a] > 0) = FALSE
  BY DEF Init
<1> QED
  BY <1>1, <1>2 DEF Gate!GateInit

\* Steps that create, decide and deliver nothing leave the abstract gate alone.
LEMMA QuietRefines ==
  ASSUME GateInv, GateInv', UNCHANGED <<kind, approval, delivered>>
  PROVE  UNCHANGED Gate!gateVars
<1>1. \A a \in Rows : GateOf(a)' = GateOf(a)
  BY DEF GateInv, SessionShape, GateOf
<1> QED
  BY <1>1 DEF Gate!gateVars

\* New rows are free or proposed: the step plans them.
LEMMA PlanRefines ==
  ASSUME GateInv, GateInv', NEW S \in SUBSET Rows, UNCHANGED delivered,
         \A a \in S : status[a] = "none" /\ status'[a] # "none"
                     /\ approval'[a] \in {"none", "pending"},
         \A a \in Rows \ S : kind'[a] = kind[a] /\ approval'[a] = approval[a]
  PROVE  Gate!GateNext
<1>1. /\ \A a \in S : GateOf(a) = "absent" /\ GateOf(a)' \in {"free", "proposed"}
      /\ \A a \in Rows \ S : GateOf(a)' = GateOf(a)
  BY DEF GateInv, SessionShape, GateOf
<1>2. \A a \in Rows : GateOf(a)' \in Gate!Gate
  BY DEF GateInv, TypeOK, GateOf, Gate!Gate, ApprovalStatus
<1>3. Gate!Plan(S)
  BY <1>1, <1>2 DEF Gate!Plan
<1> QED
  BY <1>3 DEF Gate!GateNext

LEMMA DecideRefines ==
  ASSUME GateInv, GateInv', NEW p \in Procs, NEW a \in Rows, Approve(p, a) \/ Reject(p, a)
  PROVE  Gate!GateNext
<1>1. /\ approval[a] = "pending" /\ UNCHANGED <<kind, delivered>>
      /\ \/ approval' = [approval EXCEPT ![a] = "approved"]
         \/ approval' = [approval EXCEPT ![a] = "rejected"]
  BY DEF Approve, Reject, Undecided
<1>2. /\ GateOf(a) = "proposed"
      /\ GateOf(a)' \in {"approved", "rejected"}
      /\ \A b \in Rows \ {a} : GateOf(b)' = GateOf(b)
  BY <1>1 DEF GateInv, SessionShape, TypeOK, GateOf
<1>3. Gate!Decide(a, GateOf(a)')
  BY <1>1, <1>2 DEF Gate!Decide
<1> QED
  BY <1>2, <1>3 DEF Gate!GateNext

\* A row that has an effect is free or approved, so the step sends it.
LEMMA RunRefines ==
  ASSUME GateInv, GateInv', NEW p \in Sessions, NEW a \in Rows,
         Dispatch(p, a) \/ CommitAction(p, a)
  PROVE  [Gate!GateNext]_Gate!gateVars
<1>1. /\ First(a, PendingIn(p)) /\ UNCHANGED <<kind, approval>>
      /\ Deliver(a) \/ UNCHANGED delivered
  BY DEF Dispatch, CommitAction, database
<1>2. /\ approval[a] \in {"none", "approved"} /\ status[a] # "none"
  BY <1>1 DEF First, PendingIn, GateInv, ApprovalShape, SessionShape, TypeOK, ApprovalStatus
<1>3. CASE UNCHANGED delivered
  BY <1>1, <1>3, QuietRefines
<1>4. CASE Deliver(a)
  <2>1. \A b \in Rows : GateOf(b)' = GateOf(b)
    BY <1>1 DEF GateInv, SessionShape, GateOf
  <2>2. GateOf(a) \in {"free", "approved"}
    BY <1>2 DEF GateOf
  <2>3. delivered'[a] > 0 /\ \A b \in Rows \ {a} : delivered'[b] = delivered[b]
    BY <1>4 DEF Deliver, GateInv, TypeOK
  <2>4. Gate!Send(a)
    BY <2>1, <2>2, <2>3 DEF Gate!Send
  <2> QED
    BY <2>4 DEF Gate!GateNext
<1> QED
  BY <1>1, <1>3, <1>4

LEMMA IngestRefines ==
  ASSUME GateInv, GateInv', NEW p \in Procs, Ingest(p)
  PROVE  Gate!GateNext
<1> DEFINE planned == 1..Len(Playbook)
<1>1. /\ incident = "none" /\ UNCHANGED delivered
      /\ kind' = [a \in Rows |-> IF a \in planned THEN Playbook[a] ELSE "none"]
      /\ \A a \in Rows : status'[a] = "none" <=> a \notin planned
      /\ \A a \in Rows : approval'[a] \in {"none", "pending"}
      /\ \A a \in Rows \ planned : approval'[a] = "none"
  BY DEF Ingest, InitialStatus
<1>2. planned \in SUBSET Rows
  BY ConstantsAssumption DEF Rows
<1>3. \A a \in Rows : status[a] = "none" /\ kind[a] = "none" /\ approval[a] = "none"
  BY <1>1 DEF GateInv, SessionShape
<1> QED
  BY <1>1, <1>2, <1>3, PlanRefines

LEMMA CommandRefines ==
  ASSUME GateInv, GateInv', NEW p \in Procs, NEW type \in ActionType,
         ChatCommand(p, type) \/ ProposeForApproval(p, type) \/ ExecuteCommand(p, type)
  PROVE  [Gate!GateNext]_Gate!gateVars
<1>1. UNCHANGED delivered
  BY DEF ChatCommand, ProposeForApproval, ExecuteCommand
<1>2. ASSUME NEW a \in Rows, NEW gated, InsertRow(a, type, gated)
      PROVE  Gate!GateNext
  <2>1. /\ status[a] = "none"
        /\ status'[a] # "none" /\ approval'[a] \in {"none", "pending"}
        /\ \A b \in Rows \ {a} : kind'[b] = kind[b] /\ approval'[b] = approval[b]
    BY <1>2 DEF InsertRow, NewRow, First, GateInv, SessionShape, TypeOK
  <2>2. {a} \in SUBSET Rows
    OBVIOUS
  <2> QED
    BY <1>1, <2>1, <2>2, PlanRefines
<1>3. ASSUME NEW a, Retrigger(p, a)
      PROVE  UNCHANGED <<kind, approval>>
  BY <1>3 DEF Retrigger
<1>4. UNCHANGED <<kind, approval>> \/ \E a \in Rows : \E gated : InsertRow(a, type, gated)
  <2>1. CASE ChatCommand(p, type)
    BY <1>3, <2>1 DEF ChatCommand
  <2>2. CASE ProposeForApproval(p, type)
    BY <2>2 DEF ProposeForApproval
  <2>3. CASE ExecuteCommand(p, type)
    BY <1>3, <2>3 DEF ExecuteCommand
  <2> QED
    BY <2>1, <2>2, <2>3
<1> QED
  BY <1>1, <1>2, <1>4, QuietRefines

LEMMA NextRefines == GateInv /\ GateInv' /\ [Next]_vars => [Gate!GateNext]_Gate!gateVars
<1> SUFFICES ASSUME GateInv, GateInv', [Next]_vars
             PROVE  [Gate!GateNext]_Gate!gateVars
  OBVIOUS
<1>0. /\ Procs \subseteq Sessions /\ Workers \subseteq Sessions
      /\ Commands \subseteq ActionType
  BY ConstantsAssumption DEF Sessions
<1>1. ASSUME NEW p \in Procs, Begin(p)
      PROVE  [Gate!GateNext]_Gate!gateVars
  <2>1. ASSUME NEW a \in Rows, RequeueLoad(p, a)
        PROVE  UNCHANGED <<kind, approval, delivered>>
    BY <2>1 DEF RequeueLoad, database
  <2>2. ASSUME RetryLoad(p)
        PROVE  UNCHANGED <<kind, approval, delivered>>
    BY <2>2 DEF RetryLoad, database
  <2>3. ASSUME NEW ch \in Channel, CommandLoad(p, ch)
        PROVE  UNCHANGED <<kind, approval, delivered>>
    BY <2>3 DEF CommandLoad, database
  <2> QED
    BY <1>1, <2>1, <2>2, <2>3, IngestRefines, DecideRefines, QuietRefines DEF Begin
<1>2. ASSUME NEW p \in Sessions, Execute(p)
      PROVE  [Gate!GateNext]_Gate!gateVars
  <2>1. ASSUME Load(p) \/ EvaluateIncidentLifecycle(p)
        PROVE  UNCHANGED <<kind, approval, delivered>>
    BY <2>1 DEF Load, EvaluateIncidentLifecycle, database
  <2> QED
    BY <1>2, <2>1, RunRefines, QuietRefines DEF Execute
<1>3. ASSUME NEW p \in Procs, Continue(p)
      PROVE  [Gate!GateNext]_Gate!gateVars
  <2>1. ASSUME Enqueue(p) \/ RetryFailedActions(p) \/ CommandReply(p)
        PROVE  UNCHANGED <<kind, approval, delivered>>
    BY <2>1 DEF Enqueue, RetryFailedActions, CommandReply, database
  <2>2. ASSUME NEW a \in Rows, RequeueFailedAction(p, a)
        PROVE  UNCHANGED <<kind, approval, delivered>>
    BY <2>2 DEF RequeueFailedAction
  <2> QED
    BY <1>0, <1>2, <1>3, <2>1, <2>2, CommandRefines, QuietRefines DEF Continue
<1>4. ASSUME NEW w \in Workers, Work(w)
      PROVE  [Gate!GateNext]_Gate!gateVars
  <2>1. ASSUME RequeueDueLoad(w) \/ ProcessNextQueuedIncident(w)
        PROVE  UNCHANGED <<kind, approval, delivered>>
    BY <2>1 DEF RequeueDueLoad, ProcessNextQueuedIncident, database
  <2>2. ASSUME NEW due \in SUBSET Rows, RequeueDueFailedActions(w, due)
        PROVE  UNCHANGED <<kind, approval, delivered>>
    BY <2>2 DEF RequeueDueFailedActions
  <2> QED
    BY <1>0, <1>2, <1>4, <2>1, <2>2, QuietRefines DEF Work
<1>5. ASSUME NEW p \in Sessions, Abort(p)
      PROVE  [Gate!GateNext]_Gate!gateVars
  BY <1>5, QuietRefines DEF Abort, database
<1>6. CASE UNCHANGED vars
  BY <1>6, QuietRefines DEF vars, database
<1> QED
  BY <1>1, <1>3, <1>4, <1>5, <1>6 DEF Next

\* The handlers implement the abstract gate: one human decision per proposed row,
\* never taken back, and no effect of a row that is not free or approved.
THEOREM GateImplemented == Spec => ImplementsGate
<1>1. Spec => Gate!GateInit /\ [][Gate!GateNext]_Gate!gateVars
  BY InitRefines, NextRefines, GateInvariant, PTL DEF Spec
<1> QED
  BY <1>1 DEF ImplementsGate, Gate!GateSpec

----------------------------------------------------------------------------
(* No fake success: a row that anybody holds to be completed has had its     *)
(* effect.  Only two steps matter, the call and the commit after it; of      *)
(* every other step it is enough that it makes no row or copy completed that *)
(* was not, and takes no session to its commit (KeepSuccess).                *)

\* p neither calls nor commits, and what it holds as completed it held, or read.
LEMMA KeepSuccess ==
  ASSUME SuccessInv, GateInv', NEW p \in Sessions,
         UNCHANGED delivered,
         \A a \in Rows : status'[a] = "completed" => status[a] = "completed",
         \A a \in Rows : status[a] # "none" => kind'[a] = kind[a],
         \A a \in Rows : mem'[p][a] = "completed"
                           => mem[p][a] = "completed" \/ status[a] = "completed",
         pc'[p] # "commit",
         \A q \in Sessions \ {p} : /\ pc'[q] = pc[q]
                                   /\ result'[q] = result[q]
                                   /\ mem'[q] = mem[q]
  PROVE  SuccessInv'
<1>1. NoFakeSuccess'
  BY DEF SuccessInv, NoFakeSuccess
<1>2. OkIsDelivered'
  <2> SUFFICES ASSUME NEW q \in Sessions, NEW a \in Rows,
                      pc'[q] = "commit", result'[q] = "ok",
                      First(a, PendingIn(q))', kind'[a] # "update_po"
               PROVE  delivered'[a] > 0
    BY DEF OkIsDelivered
  <2>1. q # p /\ pc[q] = "commit" /\ result[q] = "ok" /\ mem'[q] = mem[q]
    OBVIOUS
  <2>2. First(a, PendingIn(q))
    BY <2>1 DEF First, PendingIn
  <2>3. status[a] # "none"
    BY <2>2 DEF First, PendingIn, SuccessInv, GateInv, SessionShape
  <2> QED
    BY <2>1, <2>2, <2>3 DEF SuccessInv, OkIsDelivered
<1> QED
  BY <1>1, <1>2 DEF SuccessInv

\* Reading rows brings in nothing but what is in the table.
LEMMA ReadSuccess ==
  ASSUME SuccessInv, GateInv', NEW p \in Sessions, NEW S \in SUBSET Rows,
         ReadRows(p, S), NEW step \in Step \ {"commit"}, Move(p, step),
         UNCHANGED <<status, kind, delivered, result>>
  PROVE  SuccessInv'
<1>1. TypeOK
  BY DEF SuccessInv, GateInv
<1>2. \A a \in Rows : mem'[p][a] = "completed" => mem[p][a] = "completed" \/ status[a] = "completed"
  BY <1>1, ReadEach
<1>3. pc'[p] # "commit"
  BY <1>1, MoveEach
<1>4. \A q \in Sessions \ {p} : pc'[q] = pc[q] /\ mem'[q] = mem[q]
  BY <1>1 DEF TypeOK, Move, ReadRows
<1> QED
  BY <1>2, <1>3, <1>4, KeepSuccess

\* A handler that ends leaves no copies, and its last statement completes no row.
LEMMA EndSuccess ==
  ASSUME SuccessInv, GateInv', NEW p \in Sessions, EndSession(p),
         UNCHANGED delivered,
         \A a \in Rows : status'[a] = "completed" => status[a] = "completed",
         \A a \in Rows : status[a] # "none" => kind'[a] = kind[a]
  PROVE  SuccessInv'
<1>1. TypeOK
  BY DEF SuccessInv, GateInv
<1>2. \A a \in Rows : mem'[p][a] # "completed"
  BY <1>1, EndEach
<1>3. pc'[p] # "commit"
  BY <1>1, EndEach
<1>4. \A q \in Sessions \ {p} : pc'[q] = pc[q] /\ mem'[q] = mem[q] /\ result'[q] = result[q]
  BY <1>1 DEF TypeOK, EndSession, Move, HoldOnly
<1> QED
  BY <1>2, <1>3, <1>4, KeepSuccess

\* A step that changes p's copies in some rows, none of them to completed.
LEMMA StaySuccess ==
  ASSUME SuccessInv, GateInv', NEW p \in Sessions,
         UNCHANGED <<delivered, result>>,
         NEW step \in Step \ {"commit"}, Move(p, step),
         \A a \in Rows : status'[a] = "completed" => status[a] = "completed",
         \A a \in Rows : status[a] # "none" => kind'[a] = kind[a],
         \A q \in Sessions \ {p} : mem'[q] = mem[q],
         \A a \in Rows : mem'[p][a] = "completed" => mem[p][a] = "completed"
  PROVE  SuccessInv'
<1>1. TypeOK
  BY DEF SuccessInv, GateInv
<1>2. pc'[p] # "commit"
  BY <1>1 DEF TypeOK, Move
<1>3. \A q \in Sessions \ {p} : pc'[q] = pc[q]
  BY <1>1 DEF TypeOK, Move
<1> QED
  BY <1>2, <1>3, KeepSuccess

----------------------------------------------------------------------------
(* The call and its commit. *)

\* The row a session calls for is one row.
LEMMA OneFirst ==
  ASSUME NEW S \in SUBSET Rows, NEW a \in Rows, NEW b \in Rows, First(a, S), First(b, S)
  PROVE  a = b
BY ConstantsAssumption DEF First, Rows

\* An ok answer is the answer of a call that took effect.
LEMMA DispatchSuccess ==
  ASSUME SuccessInv, GateInv', NEW p \in Sessions, NEW a \in Rows, Dispatch(p, a)
  PROVE  SuccessInv'
<1>1. /\ UNCHANGED <<status, kind, mem>>
      /\ First(a, PendingIn(p))
      /\ Move(p, "commit")
  BY DEF Dispatch, database
<1>2. TypeOK /\ PendingIn(p) \in SUBSET Rows
  BY DEF SuccessInv, GateInv, PendingIn
<1>0. PICK outcome \in Outcomes(kind[a]) : \E landed \in Effects(kind[a], outcome) :
        /\ result' = [result EXCEPT ![p] = outcome]
        /\ IF landed /\ kind[a] # "update_po" THEN Deliver(a) ELSE UNCHANGED delivered
  BY DEF Dispatch
<1>3. PICK landed \in Effects(kind[a], outcome) :
        /\ result' = [result EXCEPT ![p] = outcome]
        /\ IF landed /\ kind[a] # "update_po" THEN Deliver(a) ELSE UNCHANGED delivered
  BY <1>0
<1>4. \A b \in Rows : delivered[b] > 0 => delivered'[b] > 0
  <2>1. Deliver(a) \/ UNCHANGED delivered
    BY <1>3
  <2> QED
    BY <1>2, <2>1 DEF Deliver, TypeOK
<1>5. NoFakeSuccess'
  BY <1>1, <1>4 DEF SuccessInv, NoFakeSuccess
<1>6. OkIsDelivered'
  <2> SUFFICES ASSUME NEW q \in Sessions, NEW b \in Rows,
                      pc'[q] = "commit", result'[q] = "ok",
                      First(b, PendingIn(q))', kind'[b] # "update_po"
               PROVE  delivered'[b] > 0
    BY DEF OkIsDelivered
  <2>0. First(b, PendingIn(q))
    BY <1>1 DEF First, PendingIn
  <2>1. CASE q = p
    <3>1. a = b /\ outcome = "ok"
      BY <1>1, <1>2, <1>3, <2>0, <2>1, OneFirst DEF TypeOK
    <3>2. landed
      BY <1>3, <3>1 DEF Effects
    <3> QED
      BY <1>1, <1>2, <1>3, <3>1, <3>2 DEF Deliver, TypeOK
  <2>2. CASE q # p
    <3>1. pc[q] = "commit" /\ result[q] = "ok"
      BY <1>1, <1>2, <1>3, <2>2 DEF TypeOK, Move
    <3> QED
      BY <1>1, <1>4, <2>0, <3>1 DEF SuccessInv, OkIsDelivered
  <2> QED
    BY <2>1, <2>2
<1> QED
  BY <1>5, <1>6 DEF SuccessInv

\* The commit completes the row whose call was answered ok.
LEMMA CommitSuccess ==
  ASSUME SuccessInv, GateInv', NEW p \in Sessions, NEW a \in Rows, CommitAction(p, a)
  PROVE  SuccessInv'
<1> DEFINE final == IF Succeeded(p) THEN "completed" ELSE "failed"
<1>1. /\ pc[p] = "commit"
      /\ First(a, PendingIn(p))
      /\ status' = [status EXCEPT ![a] = final]
      /\ mem' = [mem EXCEPT ![p][a] = final]
      /\ IF Succeeded(p) /\ kind[a] = "update_po" THEN Deliver(a) ELSE UNCHANGED delivered
      /\ result' = [result EXCEPT ![p] = "none"]
      /\ Move(p, "run")
      /\ UNCHANGED kind
  BY DEF CommitAction
<1>2. TypeOK
  BY DEF SuccessInv, GateInv
<1>3. \A b \in Rows : delivered[b] > 0 => delivered'[b] > 0
  BY <1>1, <1>2 DEF Deliver, TypeOK
<1>4. final = "completed" => delivered'[a] > 0
  <2>1. CASE Succeeded(p) /\ kind[a] = "update_po"
    BY <1>1, <1>2, <2>1 DEF Deliver, TypeOK
  <2>2. CASE Succeeded(p) /\ kind[a] # "update_po"
    BY <1>1, <1>3, <2>2 DEF Succeeded, SuccessInv, OkIsDelivered
  <2> QED
    BY <2>1, <2>2
<1> HIDE DEF final
<1>5. NoFakeSuccess'
  <2>1. \A b \in Rows : status'[b] = IF b = a THEN final ELSE status[b]
    BY <1>1, <1>2 DEF TypeOK
  <2>2. \A q \in Sessions : \A b \in Rows :
          mem'[q][b] = IF q = p /\ b = a THEN final ELSE mem[q][b]
    BY <1>1, <1>2 DEF TypeOK
  <2> QED
    BY <1>3, <1>4, <2>1, <2>2 DEF SuccessInv, NoFakeSuccess
<1>6. OkIsDelivered'
  <2> SUFFICES ASSUME NEW q \in Sessions, NEW b \in Rows,
                      pc'[q] = "commit", result'[q] = "ok",
                      First(b, PendingIn(q))', kind'[b] # "update_po"
               PROVE  delivered'[b] > 0
    BY DEF OkIsDelivered
  <2>1. q # p
    BY <1>1, <1>2, MoveEach
  <2>2. pc[q] = "commit" /\ result[q] = "ok" /\ mem'[q] = mem[q]
    BY <1>1, <1>2, <2>1 DEF TypeOK, Move
  <2>3. First(b, PendingIn(q))
    BY <2>2 DEF First, PendingIn
  <2> QED
    BY <1>1, <1>3, <2>2, <2>3 DEF SuccessInv, OkIsDelivered
<1> QED
  BY <1>5, <1>6 DEF SuccessInv

----------------------------------------------------------------------------
(* The other steps, handler by handler. *)

\* The rows of a new incident start pending or gated.
LEMMA IngestSuccess ==
  ASSUME SuccessInv, GateInv', NEW p \in Procs, Ingest(p)
  PROVE  SuccessInv'
<1>1. /\ UNCHANGED <<delivered, result, mem>>
      /\ Move(p, DispatchStep)
      /\ incident = "none"
      /\ \A a \in Rows : status'[a] = "none" \/ status'[a] = InitialStatus(Playbook[a])
  BY DEF Ingest
<1>2. /\ p \in Sessions
      /\ DispatchStep \in Step \ {"commit"}
      /\ TypeOK
      /\ \A a \in Rows : status[a] = "none"
  BY <1>1 DEF Sessions, DispatchStep, Step, SuccessInv, GateInv, SessionShape
<1>3. \A a \in Rows : status'[a] # "completed"
  BY <1>1 DEF InitialStatus
<1> QED
  BY <1>1, <1>2, <1>3, StaySuccess

LEMMA DecideSuccess ==
  ASSUME SuccessInv, GateInv', NEW p \in Procs, NEW a \in Rows, Approve(p, a) \/ Reject(p, a)
  PROVE  SuccessInv'
<1>1. p \in Sessions /\ TypeOK
  BY DEF Sessions, SuccessInv, GateInv
<1>2. CASE Approve(p, a)
  <2>1. /\ UNCHANGED <<delivered, result, kind>>
        /\ Move(p, DispatchStep)
        /\ status' = [status EXCEPT ![a] = "pending"]
        /\ mem' = [mem EXCEPT ![p][a] = "pending"]
    BY <1>2 DEF Approve
  <2>2. DispatchStep \in Step \ {"commit"}
    BY DEF DispatchStep, Step
  <2>3. \A b \in Rows : status'[b] = "completed" => status[b] = "completed"
    BY <1>1, <2>1 DEF TypeOK
  <2>4. /\ \A b \in Rows : mem'[p][b] = "completed" => mem[p][b] = "completed"
        /\ \A q \in Sessions \ {p} : mem'[q] = mem[q]
    BY <1>1, <2>1 DEF TypeOK
  <2> QED
    BY <1>1, <2>1, <2>2, <2>3, <2>4, StaySuccess
<1>3. CASE Reject(p, a)
  <2>1. /\ UNCHANGED <<delivered, result, kind, mem, pc>>
        /\ status' = [status EXCEPT ![a] = "skipped"]
        /\ pc[p] # "commit"
    BY <1>3 DEF Reject, Request, session
  <2>2. \A b \in Rows : status'[b] = "completed" => status[b] = "completed"
    BY <1>1, <2>1 DEF TypeOK
  <2> QED
    BY <1>1, <2>1, <2>2, KeepSuccess
<1> QED
  BY <1>2, <1>3

LEMMA LoadsSuccess ==
  ASSUME SuccessInv, GateInv', NEW p \in Sessions,
         \/ Load(p) \/ RetryLoad(p) \/ RequeueDueLoad(p)
         \/ \E a \in Rows : RequeueLoad(p, a)
         \/ \E ch \in Channel : CommandLoad(p, ch)
  PROVE  SuccessInv'
<1>1. {"run", "retry", "due", "requeue", "command"} \subseteq Step \ {"commit"}
  BY DEF Step
<1>2. CASE Load(p)
  BY <1>1, <1>2, ReadSuccess DEF Load, database
<1>3. CASE RetryLoad(p)
  BY <1>1, <1>3, ReadSuccess DEF RetryLoad, database
<1>4. CASE RequeueDueLoad(p)
  <2>1. DueCandidates \in SUBSET Rows
    BY DEF DueCandidates
  <2> QED
    BY <1>1, <1>4, <2>1, ReadSuccess DEF RequeueDueLoad, database
<1>5. ASSUME NEW a \in Rows, RequeueLoad(p, a)
      PROVE  SuccessInv'
  <2>1. {a} \in SUBSET Rows
    OBVIOUS
  <2> QED
    BY <1>1, <1>5, <2>1, ReadSuccess DEF RequeueLoad, database
<1>6. ASSUME NEW ch \in Channel, CommandLoad(p, ch)
      PROVE  SuccessInv'
  BY <1>1, <1>6, ReadSuccess DEF CommandLoad, database
<1> QED
  BY <1>2, <1>3, <1>4, <1>5, <1>6

\* A step that moves p on, with its copies as they are.
LEMMA MoveSuccess ==
  ASSUME SuccessInv, GateInv', NEW p \in Sessions,
         UNCHANGED <<delivered, result, kind, mem>>,
         NEW step \in Step \ {"commit"}, Move(p, step),
         \A a \in Rows : status'[a] = "completed" => status[a] = "completed"
  PROVE  SuccessInv'
BY StaySuccess

\* Only the copies of held are kept.
LEMMA DropSuccess ==
  ASSUME SuccessInv, GateInv', NEW p \in Sessions, NEW held, HoldOnly(p, held),
         UNCHANGED <<delivered, result, kind>>,
         NEW step \in Step \ {"commit"}, Move(p, step),
         \A a \in Rows : status'[a] = "completed" => status[a] = "completed"
  PROVE  SuccessInv'
<1>1. TypeOK
  BY DEF SuccessInv, GateInv
<1>2. /\ \A a \in Rows : mem'[p][a] = "completed" => mem[p][a] = "completed"
      /\ \A q \in Sessions \ {p} : mem'[q] = mem[q]
  BY <1>1 DEF HoldOnly, TypeOK
<1> QED
  BY <1>2, StaySuccess

LEMMA EvaluateSuccess ==
  ASSUME SuccessInv, GateInv', NEW p \in Sessions, EvaluateIncidentLifecycle(p)
  PROVE  SuccessInv'
<1>1. UNCHANGED <<status, kind, delivered, result>>
  BY DEF EvaluateIncidentLifecycle, Reply
<1>2. \/ Move(p, "command") /\ UNCHANGED mem
      \/ Move(p, "idle") /\ HoldOnly(p, {})
  BY DEF EvaluateIncidentLifecycle, Reply
<1>3. "command" \in Step \ {"commit"} /\ "idle" \in Step \ {"commit"}
  BY DEF Step
<1> QED
  BY <1>1, <1>2, <1>3, MoveSuccess, DropSuccess

LEMMA RetrySuccess ==
  ASSUME SuccessInv, GateInv', NEW p \in Sessions, RetryFailedActions(p)
  PROVE  SuccessInv'
<1>1. UNCHANGED <<kind, delivered>> /\ TypeOK
  BY DEF RetryFailedActions, SuccessInv, GateInv
<1>2. CASE Retriable(p) # {}
  <2>1. /\ status' = [a \in Rows |-> IF a \in Retriable(p) THEN "pending" ELSE status[a]]
        /\ mem' = [mem EXCEPT ![p] = [a \in Rows |-> IF a \in Retriable(p) THEN "pending" ELSE @[a]]]
        /\ Move(p, "run")
        /\ UNCHANGED result
    BY <1>2 DEF RetryFailedActions
  <2>2. /\ \A a \in Rows : mem'[p][a] = "completed" => mem[p][a] = "completed"
        /\ \A q \in Sessions \ {p} : mem'[q] = mem[q]
    BY <1>1, <2>1 DEF TypeOK
  <2>3. /\ \A a \in Rows : status'[a] = "completed" => status[a] = "completed"
        /\ "run" \in Step \ {"commit"}
    BY <2>1 DEF Step
  <2> QED
    BY <1>1, <2>1, <2>2, <2>3, StaySuccess
<1>3. CASE Retriable(p) = {}
  <2>1. EndSession(p) /\ UNCHANGED status
    BY <1>3 DEF RetryFailedActions
  <2> QED
    BY <1>1, <2>1, EndSuccess
<1> QED
  BY <1>2, <1>3

LEMMA RequeueSuccess ==
  ASSUME SuccessInv, GateInv', NEW p \in Sessions, NEW a \in Rows, RequeueFailedAction(p, a)
  PROVE  SuccessInv'
<1>1. UNCHANGED <<kind, delivered>> /\ TypeOK
  BY DEF RequeueFailedAction, SuccessInv, GateInv
<1>2. CASE QueuedMode
  <2>1. EndSession(p) /\ status' = [status EXCEPT ![a] = "queued"]
    BY <1>2 DEF RequeueFailedAction
  <2>2. \A b \in Rows : status'[b] = "completed" => status[b] = "completed"
    BY <1>1, <2>1 DEF TypeOK
  <2> QED
    BY <1>1, <2>1, <2>2, EndSuccess
<1>3. CASE ~QueuedMode
  <2>1. /\ status' = [status EXCEPT ![a] = "pending"]
        /\ mem' = [mem EXCEPT ![p][a] = "pending"]
        /\ Move(p, "load")
        /\ UNCHANGED result
    BY <1>3 DEF RequeueFailedAction
  <2>2. /\ \A b \in Rows : mem'[p][b] = "completed" => mem[p][b] = "completed"
        /\ \A q \in Sessions \ {p} : mem'[q] = mem[q]
    BY <1>1, <2>1 DEF TypeOK
  <2>3. /\ \A b \in Rows : status'[b] = "completed" => status[b] = "completed"
        /\ "load" \in Step \ {"commit"}
    BY <1>1, <2>1 DEF TypeOK, Step
  <2> QED
    BY <1>1, <2>1, <2>2, <2>3, StaySuccess
<1> QED
  BY <1>2, <1>3

LEMMA WorkerSuccess ==
  ASSUME SuccessInv, GateInv', NEW w \in Sessions,
         \/ \E due \in SUBSET Rows : RequeueDueFailedActions(w, due)
         \/ ProcessNextQueuedIncident(w)
  PROVE  SuccessInv'
<1>1. {"claim", "load", "idle"} \subseteq Step \ {"commit"}
  BY DEF Step
<1>2. ASSUME NEW due \in SUBSET Rows, RequeueDueFailedActions(w, due)
      PROVE  SuccessInv'
  <2>1. /\ \A a \in Rows : status'[a] = "completed" => status[a] = "completed"
        /\ HoldOnly(w, {}) /\ Move(w, "claim")
        /\ UNCHANGED <<kind, delivered, result>>
    BY <1>2 DEF RequeueDueFailedActions
  <2> QED
    BY <1>1, <2>1, DropSuccess
<1>3. CASE ProcessNextQueuedIncident(w)
  <2>1. /\ UNCHANGED <<kind, delivered, result, mem>>
        /\ \/ /\ status' = [a \in Rows |-> IF status[a] = "queued" THEN ClaimedStatus ELSE status[a]]
              /\ Move(w, "load")
           \/ Move(w, "idle") /\ UNCHANGED status
    BY <1>3 DEF ProcessNextQueuedIncident
  <2>2. \A a \in Rows : status'[a] = "completed" => status[a] = "completed"
    BY <2>1 DEF ClaimedStatus
  <2> QED
    BY <1>1, <2>1, <2>2, MoveSuccess
<1> QED
  BY <1>2, <1>3

LEMMA LeaveSuccess ==
  ASSUME SuccessInv, GateInv', NEW p \in Sessions,
         CommandReply(p) \/ Enqueue(p) \/ Abort(p)
  PROVE  SuccessInv'
<1>1. CASE CommandReply(p)
  BY <1>1, EndSuccess DEF CommandReply, database
<1>2. CASE Enqueue(p)
  BY <1>2, EndSuccess DEF Enqueue
<1>3. CASE Abort(p)
  BY <1>3, EndSuccess DEF Abort, database
<1> QED
  BY <1>1, <1>2, <1>3

LEMMA RetriggerSuccess ==
  ASSUME SuccessInv, GateInv', NEW p \in Sessions, NEW a \in Rows, NEW held,
         Retrigger(p, a), RetriggeredCopies(p, a, held),
         NEW step \in {"run", "load"}, Move(p, step), UNCHANGED <<delivered, result>>
  PROVE  SuccessInv'
<1>1. TypeOK /\ step \in Step \ {"commit"}
  BY DEF SuccessInv, GateInv, Step
<1>2. /\ status' = [status EXCEPT ![a] = Written("pending", mem[p][a], @)]
      /\ UNCHANGED kind
      /\ mem' = [mem EXCEPT ![p] =
           [b \in Rows |-> IF b = a THEN "pending" ELSE IF b \in held THEN @[b] ELSE "none"]]
  BY DEF Retrigger, RetriggeredCopies
<1>3. \A b \in Rows : mem'[p][b] = "completed" => mem[p][b] = "completed"
  BY <1>1, <1>2 DEF TypeOK
<1>4. \A q \in Sessions \ {p} : mem'[q] = mem[q]
  BY <1>1, <1>2 DEF TypeOK
<1>5. \A b \in Rows : status'[b] = "completed" => status[b] = "completed"
  BY <1>1, <1>2 DEF Written, TypeOK
<1> QED
  BY <1>1, <1>2, <1>3, <1>4, <1>5, StaySuccess

\* A new row is not completed, and no row that exists changes.
LEMMA InsertedRow ==
  ASSUME TypeOK, NEW a \in Rows, NEW type, NEW gated, InsertRow(a, type, gated)
  PROVE  /\ \A b \in Rows : status'[b] = "completed" => status[b] = "completed"
         /\ \A b \in Rows : status[b] # "none" => kind'[b] = kind[b]
<1>1. /\ status[a] = "none"
      /\ status' = [status EXCEPT ![a] = IF gated THEN "needs_approval" ELSE "pending"]
      /\ kind' = [kind EXCEPT ![a] = type]
  BY DEF InsertRow, NewRow, First
<1> QED
  BY <1>1 DEF TypeOK

LEMMA InsertSuccess ==
  ASSUME SuccessInv, GateInv', NEW p \in Sessions, NEW a \in Rows, NEW type, NEW gated,
         InsertRow(a, type, gated), pc[p] = "command", UNCHANGED delivered,
         \/ EndSession(p)
         \/ UNCHANGED session
         \/ \E held : InsertedCopies(p, a, held) /\ Move(p, "load") /\ UNCHANGED result
  PROVE  SuccessInv'
<1>1. /\ \A b \in Rows : status'[b] = "completed" => status[b] = "completed"
      /\ \A b \in Rows : status[b] # "none" => kind'[b] = kind[b]
      /\ TypeOK
  BY InsertedRow DEF SuccessInv, GateInv
<1>2. CASE EndSession(p)
  BY <1>1, <1>2, EndSuccess
<1>3. CASE UNCHANGED session
  BY <1>1, <1>3, KeepSuccess DEF session
<1>4. ASSUME NEW held, InsertedCopies(p, a, held), Move(p, "load"), UNCHANGED result
      PROVE  SuccessInv'
  <2>1. \A b \in Rows : mem'[p][b] = "completed" => mem[p][b] = "completed"
    BY <1>1, <1>4 DEF InsertedCopies, TypeOK
  <2>2. \A q \in Sessions \ {p} : mem'[q] = mem[q]
    BY <1>1, <1>4 DEF InsertedCopies, TypeOK
  <2>3. "load" \in Step \ {"commit"}
    BY DEF Step
  <2> QED
    BY <1>1, <1>4, <2>1, <2>2, <2>3, StaySuccess
<1> QED
  BY <1>2, <1>3, <1>4

LEMMA CommandSuccess ==
  ASSUME SuccessInv, GateInv', NEW p \in Sessions, NEW type \in ActionType,
         ChatCommand(p, type) \/ ProposeForApproval(p, type) \/ ExecuteCommand(p, type)
  PROVE  SuccessInv'
<1> DEFINE gated == type \in APPROVAL_REQUIRED_ACTIONS
<1>0. pc[p] = "command" /\ UNCHANGED delivered
  <2>1. CASE ChatCommand(p, type)
    BY <2>1 DEF ChatCommand, Asked
  <2>2. CASE ProposeForApproval(p, type)
    BY <2>2 DEF ProposeForApproval, Asked
  <2>3. CASE ExecuteCommand(p, type)
    BY <2>3 DEF ExecuteCommand, Asked
  <2> QED
    BY <2>1, <2>2, <2>3
<1>1. ASSUME EndSession(p) \/ UNCHANGED session, UNCHANGED <<status, kind, retries, approval>>
      PROVE  SuccessInv'
  <2>1. CASE EndSession(p)
    BY <1>0, <1>1, <2>1, EndSuccess
  <2>2. CASE UNCHANGED session
    BY <1>0, <1>1, <2>2, KeepSuccess DEF session
  <2> QED
    BY <1>1, <2>1, <2>2
<1>2. CASE ChatCommand(p, type)
  <2> DEFINE open == {a \in RowsOfType(p, type) :
                        mem[p][a] \in {"pending", "failed", "needs_approval"}}
  <2>1. ASSUME NEW a \in Rows, Retrigger(p, a), RetriggeredCopies(p, a, Rows),
               Move(p, "run"), UNCHANGED result
        PROVE  SuccessInv'
    BY <1>0, <2>1, RetriggerSuccess
  <2>2. ASSUME NEW a \in Rows, InsertRow(a, type, gated),
               \/ EndSession(p)
               \/ InsertedCopies(p, a, LastLoaded(p)) /\ Move(p, "load") /\ UNCHANGED result
        PROVE  SuccessInv'
    BY <1>0, <2>2, InsertSuccess
  <2>3. \A a : First(a, open) => a \in Rows
    BY DEF First, RowsOfType, LoadedIn
  <2> QED
    BY <1>1, <1>2, <2>1, <2>2, <2>3 DEF ChatCommand
<1>3. CASE ProposeForApproval(p, type)
  <2>1. EndSession(p) \/ UNCHANGED session
    BY <1>3 DEF ProposeForApproval, Answer
  <2>2. CASE AlreadyProposed(p, type)
    BY <1>1, <1>3, <2>1, <2>2 DEF ProposeForApproval
  <2>3. CASE ~AlreadyProposed(p, type)
    <3>1. PICK a \in Rows : InsertRow(a, type, TRUE)
      BY <1>3, <2>3 DEF ProposeForApproval
    <3> QED
      BY <1>0, <2>1, <3>1, InsertSuccess
  <2> QED
    BY <2>2, <2>3
<1>4. CASE ExecuteCommand(p, type)
  <2> DEFINE rows == RowsOfType(p, type)
             kept == IF channel[p] = "chat" THEN LastLoaded(p) ELSE {}
  <2>1. rows \subseteq Rows
    BY DEF RowsOfType, LoadedIn
  <2>2. CASE Answer(p) /\ UNCHANGED <<status, kind, retries, approval>>
    BY <1>1, <2>2 DEF Answer
  <2>3. ASSUME NEW a \in Rows, Retrigger(p, a), RetriggeredCopies(p, a, {}),
               Move(p, "load"), UNCHANGED result
        PROVE  SuccessInv'
    BY <1>0, <2>3, RetriggerSuccess
  <2>4. ASSUME NEW a \in Rows, HoldOnly(p, {a}), UNCHANGED <<status, kind, retries, approval>>,
               Move(p, "load"), UNCHANGED result
        PROVE  SuccessInv'
    <3>1. "load" \in Step \ {"commit"}
      BY DEF Step
    <3> QED
      BY <1>0, <2>4, <3>1, DropSuccess
  <2>5. ASSUME NEW a \in Rows, InsertRow(a, type, FALSE), InsertedCopies(p, a, kept),
               Move(p, "load"), UNCHANGED result
        PROVE  SuccessInv'
    BY <1>0, <2>5, InsertSuccess
  <2> QED
    BY <1>4, <2>1, <2>2, <2>3, <2>4, <2>5 DEF ExecuteCommand
<1> QED
  BY <1>2, <1>3, <1>4

----------------------------------------------------------------------------
(* The theorem. *)

LEMMA InitSuccess == Init => SuccessInv
<1> SUFFICES ASSUME Init
             PROVE  SuccessInv
  OBVIOUS
<1>1. NoFakeSuccess /\ OkIsDelivered
  BY DEF Init, NoRows, NoFakeSuccess, OkIsDelivered
<1> QED
  BY <1>1, InitGate DEF SuccessInv

LEMMA NextSuccess == SuccessInv /\ [Next]_vars => SuccessInv'
<1> SUFFICES ASSUME SuccessInv, [Next]_vars
             PROVE  SuccessInv'
  OBVIOUS
<1>0. /\ GateInv'
      /\ Procs \subseteq Sessions /\ Workers \subseteq Sessions
      /\ Commands \subseteq ActionType
  BY NextGate, ConstantsAssumption DEF SuccessInv, Sessions
<1>1. ASSUME NEW p \in Procs, Begin(p)
      PROVE  SuccessInv'
  BY <1>0, <1>1, IngestSuccess, DecideSuccess, LoadsSuccess DEF Begin
<1>2. ASSUME NEW p \in Sessions, Execute(p)
      PROVE  SuccessInv'
  BY <1>0, <1>2, LoadsSuccess, DispatchSuccess, CommitSuccess, EvaluateSuccess DEF Execute
<1>3. ASSUME NEW p \in Procs, Continue(p)
      PROVE  SuccessInv'
  BY <1>0, <1>2, <1>3, LeaveSuccess, RetrySuccess, RequeueSuccess, CommandSuccess DEF Continue
<1>4. ASSUME NEW w \in Workers, Work(w)
      PROVE  SuccessInv'
  BY <1>0, <1>2, <1>4, LoadsSuccess, WorkerSuccess DEF Work
<1>5. ASSUME NEW p \in Sessions, Abort(p)
      PROVE  SuccessInv'
  BY <1>0, <1>5, LeaveSuccess
<1>6. CASE UNCHANGED vars
  <2>1. UNCHANGED <<status, kind, pc, mem, result, delivered>>
    BY <1>6 DEF vars, database, session
  <2>2. NoFakeSuccess'
    BY <2>1 DEF SuccessInv, NoFakeSuccess
  <2>3. OkIsDelivered'
    BY <2>1 DEF SuccessInv, OkIsDelivered, First, PendingIn
  <2> QED
    BY <1>0, <2>2, <2>3 DEF SuccessInv
<1> QED
  BY <1>1, <1>3, <1>4, <1>5, <1>6 DEF Next

\* The strengthening holds in every behaviour ...
THEOREM SuccessInvariant == Spec => []SuccessInv
BY InitSuccess, NextSuccess, PTL DEF Spec

\* ... and so no action shows as completed, in the table or in a session, that
\* has not had its effect, whatever failed, timed out or died on the way.
THEOREM SuccessIsReal == Spec => []NoFakeSuccess
<1>1. SuccessInv => NoFakeSuccess
  BY DEF SuccessInv
<1> QED
  BY <1>1, SuccessInvariant, PTL
=============================================================================
