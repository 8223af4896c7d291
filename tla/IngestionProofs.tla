-------------------------- MODULE IngestionProofs --------------------------
(***************************************************************************)
(* Ingestion's safety for any number of deliveries: the unique index, the  *)
(* look-up after the conflict and the order of commit and dispatch make    *)
(* one incident, dispatched once, of however many deliveries.              *)
(***************************************************************************)
EXTENDS Ingestion, TLAPS

\* The unique index: at most one row with the key, uncommitted or committed.
IndexInv ==
  /\ inserting # Nobody => pc[inserting] = "inserted" /\ ~Exists
  /\ \A p \in Deliveries : pc[p] = "inserted" => inserting = p
  /\ incidents = IF Exists THEN 1 ELSE 0

\* The thread between its commit and its response is the creator's, and it
\* dispatches once.
CreatorInv ==
  /\ \A p \in Deliveries : pc[p] \in {"committed", "dispatching", "dispatched"} => creator = p
  /\ \A p \in Deliveries : pc[p] = "committed" => dispatches = 0
  /\ \A p \in Deliveries : pc[p] = "dispatched" => finished
  /\ dispatches \in {0, 1}
  /\ dispatches = 1 => Exists

\* What a client has been told.
AnswerInv ==
  /\ \A p \in Deliveries : answer[p] = "duplicate" => Exists
  /\ \A p \in Deliveries : answer[p] = "created" => p = creator /\ finished

IInv == TypeOK /\ IndexInv /\ CreatorInv /\ AnswerInv

LEMMA InitIInv == Init => IInv
<1> SUFFICES ASSUME Init PROVE IInv
  OBVIOUS
<1> USE IngestionAssumption DEF Init
<1>1. TypeOK
  BY DEF TypeOK, Working
<1>2. IndexInv /\ CreatorInv /\ AnswerInv
  BY DEF IndexInv, CreatorInv, AnswerInv, Exists
<1> QED BY <1>1, <1>2 DEF IInv

LEMMA FindIInv ==
  ASSUME IInv, NEW p \in Deliveries, Find(p)
  PROVE  IInv'
<1> USE IngestionAssumption DEF IInv, TypeOK, Working, Go, Respond, Exists
<1>1. CASE FindNothing(p)
  BY <1>1 DEF FindNothing, IndexInv, CreatorInv, AnswerInv
<1>2. CASE FindDuplicate(p)
  BY <1>2 DEF FindDuplicate, IndexInv, CreatorInv, AnswerInv
<1> QED BY <1>1, <1>2 DEF Find

LEMMA WorkIInv ==
  ASSUME IInv, NEW p \in Deliveries, Work(p)
  PROVE  IInv'
<1> USE IngestionAssumption DEF IInv, TypeOK, Working, Go, Respond, Exists
<1>1. CASE Flush(p)
  BY <1>1 DEF Flush, IndexInv, CreatorInv, AnswerInv
<1>2. CASE FindWinner(p)
  BY <1>2 DEF FindWinner, IndexInv, CreatorInv, AnswerInv
<1>3. CASE CommitIncident(p)
  BY <1>3 DEF CommitIncident, IndexInv, CreatorInv, AnswerInv
<1>4. CASE Dispatch(p)
  BY <1>4 DEF Dispatch, IndexInv, CreatorInv, AnswerInv
<1>5. CASE FinishDispatch(p)
  BY <1>5 DEF FinishDispatch, IndexInv, CreatorInv, AnswerInv
<1>6. CASE Created(p)
  BY <1>6 DEF Created, IndexInv, CreatorInv, AnswerInv
<1> QED BY <1>1, <1>2, <1>3, <1>4, <1>5, <1>6 DEF Work

LEMMA FaultIInv ==
  ASSUME IInv, NEW p \in Deliveries, Fault(p)
  PROVE  IInv'
<1> USE IngestionAssumption DEF IInv, TypeOK, Working, Go, Respond, Exists
<1>1. CASE StatementTimeout(p)
  BY <1>1 DEF StatementTimeout, IndexInv, CreatorInv, AnswerInv
<1>2. CASE CommitFails(p)
  BY <1>2 DEF CommitFails, IndexInv, CreatorInv, AnswerInv
<1>3. CASE RequestTimeout(p)
  BY <1>3 DEF RequestTimeout, IndexInv, CreatorInv, AnswerInv
<1>4. CASE PodDies(p)
  BY <1>4 DEF PodDies, IndexInv, CreatorInv, AnswerInv
<1>5. CASE RaiseAfterCommit(p)
  BY <1>5 DEF RaiseAfterCommit, IndexInv, CreatorInv, AnswerInv
<1> QED BY <1>1, <1>2, <1>3, <1>4, <1>5 DEF Fault

LEMMA StepIInv == IInv /\ [Next]_vars => IInv'
<1> SUFFICES ASSUME IInv, [Next]_vars PROVE IInv'
  OBVIOUS
<1>1. CASE Next
  BY <1>1, FindIInv, WorkIInv, FaultIInv DEF Next
<1>2. CASE UNCHANGED vars
  BY <1>2 DEF vars, IInv, TypeOK, Working, IndexInv, CreatorInv, AnswerInv, Exists
<1> QED BY <1>1, <1>2

\* The inductive invariant of the ingestion, for any number of deliveries.
THEOREM IngestionInvariant == Spec => []IInv
BY InitIInv, StepIInv, PTL DEF Spec

\* One webhook, however often delivered, makes one incident, dispatched once.
THEOREM WebhookIsIdempotent == Spec => []OneIncident
<1>1. IInv => OneIncident
  BY DEF IInv, TypeOK, IndexInv, CreatorInv, OneIncident
<1> QED BY <1>1, IngestionInvariant, PTL

\* Every client is told the truth about the incident.
THEOREM AnswersAreTrue == Spec => []AnswerIsTrue
<1>1. IInv => AnswerIsTrue
  BY IngestionAssumption DEF IInv, AnswerInv, AnswerIsTrue, Exists
<1> QED BY <1>1, IngestionInvariant, PTL
=============================================================================
