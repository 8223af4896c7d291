---------------------------- MODULE QueueProofs ----------------------------
(***************************************************************************)
(* The claims of the queue workers for any number of pods, rows, incidents,*)
(* retries and crashes: row locks make every claim exclusive, although the *)
(* UPDATE visits rows other workers are claiming.                          *)
(***************************************************************************)
EXTENDS QueueWorker, WellFoundedInduction, TLAPS

\* A lock is held by a transaction under way, on a row that is still queued.
LockInv ==
  \A r \in Rows : lock[r] # Nobody => pc[lock[r]] \in {"selected", "updating"} /\ status[r] = "queued"

\* A row a transaction has changed is locked by it.
WriteInv == \A p \in Pods : \A r \in written[p] : lock[r] = p

\* A queued row has not been claimed since it was queued.
CountInv ==
  \A r \in Rows :
    /\ claims[r] <= queuings[r]
    /\ status[r] = "queued" => claims[r] < queuings[r]

\* The row a worker selected is one it will change, or has changed.
HoldInv ==
  \A p \in Pods :
    /\ pc[p] = "selected" => \E r \in Rows : lock[r] = p /\ IncidentOf[r] = incident[p]
    /\ pc[p] = "updating" =>
         \E r \in Rows : lock[r] = p /\ (r \in scope[p] \/ r = aim[p] \/ r \in written[p])

QInv == TypeOK /\ LockInv /\ WriteInv /\ CountInv /\ HoldInv

LEMMA InitQInv == Init => QInv
<1> USE QueueAssumption DEF Init
<1>1. Init => TypeOK
  BY DEF TypeOK
<1>2. Init => LockInv /\ WriteInv /\ CountInv /\ HoldInv
  BY DEF LockInv, WriteInv, CountInv, HoldInv
<1> QED BY <1>1, <1>2 DEF QInv

\* The oldest row of a set of rows is one of them.
LEMMA FirstIsIn ==
  ASSUME NEW S \in SUBSET Rows, S # {}
  PROVE  First(S) \in S
<1> DEFINE less == OpToRel(<, Nat)
<1>1. S \subseteq Nat
  BY DEF Rows
<1>2. IsWellFoundedOn(less, Nat)
  BY NatLessThanWellFounded
<1>3. \A x, y \in S : <<y, x>> \in less <=> y < x
  BY <1>1 DEF OpToRel
<1> HIDE DEF less
<1>4. \E x \in S : \A y \in S : ~ (<<y, x>> \in less)
  BY <1>1, <1>2, WFMin
<1>5. PICK x \in S : \A y \in S : ~ (<<y, x>> \in less)
  BY <1>4
<1>6. \A y \in S : x <= y
  <2> TAKE y \in S
  <2>1. ~ (y < x)
    BY <1>3, <1>5
  <2> QED BY <1>1, <2>1
<1> QED BY <1>6 DEF First

\* The row selected is queued, and nobody has it locked.
LEMMA SelectQInv ==
  ASSUME QInv, NEW p \in Pods, SelectForUpdate(p)
  PROVE  QInv'
<1> USE QueueAssumption DEF QInv, Set
<1>0. LET free == {r \in Queued : lock[r] = Nobody}
      IN  First(free) \in Rows /\ lock[First(free)] = Nobody /\ status[First(free)] = "queued"
  <2> DEFINE free == {r \in Queued : lock[r] = Nobody}
  <2>1. free \in SUBSET Rows /\ free # {}
    BY DEF SelectForUpdate, Queued
  <2>2. First(free) \in free
    BY <2>1, FirstIsIn
  <2> QED BY <2>1, <2>2 DEF Queued
<1>1. TypeOK'
  BY <1>0 DEF SelectForUpdate, Queued, TypeOK
<1>2. LockInv'
  BY <1>0 DEF SelectForUpdate, Queued, TypeOK, LockInv, WriteInv
<1>3. WriteInv'
  BY <1>0 DEF SelectForUpdate, Queued, TypeOK, LockInv, WriteInv
<1>4. CountInv'
  BY <1>0 DEF SelectForUpdate, Queued, TypeOK, LockInv, WriteInv, CountInv
<1>5. HoldInv'
  <2> DEFINE row == First({r \in Queued : lock[r] = Nobody})
  <2>1. /\ row \in Rows /\ lock[row] = Nobody
        /\ lock' = [lock EXCEPT ![row] = p]
        /\ incident' = [incident EXCEPT ![p] = IncidentOf[row]]
        /\ pc' = [pc EXCEPT ![p] = "selected"]
        /\ UNCHANGED <<scope, aim, written>>
    BY <1>0 DEF SelectForUpdate
  <2> HIDE DEF row
  <2>2. ASSUME NEW q \in Pods, q # p, NEW r \in Rows, lock[r] = q
        PROVE  lock'[r] = q /\ pc'[q] = pc[q] /\ incident'[q] = incident[q]
    BY <2>1, <2>2 DEF TypeOK
  <2>3. lock'[row] = p /\ pc'[p] = "selected" /\ incident'[p] = IncidentOf[row]
    BY <2>1 DEF TypeOK
  <2>4. \A q \in Pods : q # p => pc'[q] = pc[q]
    BY <2>1 DEF TypeOK
  <2> QED BY <2>1, <2>2, <2>3, <2>4 DEF HoldInv
<1> QED BY <1>1, <1>2, <1>3, <1>4, <1>5

LEMMA BeginQInv ==
  ASSUME QInv, NEW p \in Pods, BeginUpdate(p)
  PROVE  QInv'
<1> USE QueueAssumption DEF QInv, Set
<1>1. TypeOK'
  BY DEF BeginUpdate, Of, Queued, TypeOK
<1>2. LockInv'
  BY DEF BeginUpdate, Of, Queued, TypeOK, LockInv, WriteInv
<1>3. WriteInv'
  BY DEF BeginUpdate, Of, Queued, TypeOK, LockInv, WriteInv
<1>4. CountInv'
  BY DEF BeginUpdate, Of, Queued, TypeOK, LockInv, WriteInv, CountInv
<1>5. HoldInv'
  BY DEF BeginUpdate, Of, Queued, TypeOK, LockInv, HoldInv
<1> QED BY <1>1, <1>2, <1>3, <1>4, <1>5

LEMMA VisitQInv ==
  ASSUME QInv, NEW p \in Pods, Visit(p)
  PROVE  QInv'
<1> USE QueueAssumption DEF QInv, Set
<1>1. TypeOK'
  BY DEF Visit, TypeOK
<1>2. LockInv'
  BY DEF Visit, TypeOK, LockInv, WriteInv
<1>3. WriteInv'
  BY DEF Visit, TypeOK, LockInv, WriteInv
<1>4. CountInv'
  BY DEF Visit, TypeOK, LockInv, WriteInv, CountInv
<1>5. HoldInv'
  <2>1. PICK r \in scope[p] : aim' = [aim EXCEPT ![p] = r] /\ scope' = [scope EXCEPT ![p] = scope[p] \ {r}]
    BY DEF Visit
  <2>2. pc[p] = "updating" /\ aim[p] = 0 /\ UNCHANGED <<lock, pc, incident, written>>
    BY DEF Visit
  <2>3. 0 \notin Rows
    BY DEF Rows
  <2>4. ASSUME NEW q \in Pods, NEW s \in Rows, s \in scope[q] \/ s = aim[q] \/ s \in written[q]
        PROVE  s \in scope'[q] \/ s = aim'[q] \/ s \in written'[q]
    BY <2>1, <2>2, <2>3, <2>4 DEF TypeOK
  <2> QED BY <2>2, <2>4 DEF HoldInv
<1> QED BY <1>1, <1>2, <1>3, <1>4, <1>5

LEMMA UpdateQInv ==
  ASSUME QInv, NEW p \in Pods, UpdateRow(p)
  PROVE  QInv'
<1> USE QueueAssumption DEF QInv, Set
<1>1. TypeOK'
  BY DEF UpdateRow, TypeOK
<1>2. LockInv'
  BY DEF UpdateRow, TypeOK, LockInv, WriteInv
<1>3. WriteInv'
  BY DEF UpdateRow, TypeOK, LockInv, WriteInv
<1>4. CountInv'
  BY DEF UpdateRow, TypeOK, LockInv, WriteInv, CountInv
<1>5. HoldInv'
  BY DEF UpdateRow, TypeOK, LockInv, HoldInv
<1> QED BY <1>1, <1>2, <1>3, <1>4, <1>5

LEMMA CommitQInv ==
  ASSUME QInv, NEW p \in Pods, CommitClaim(p)
  PROVE  QInv'
<1> USE QueueAssumption DEF QInv, Set
<1>1. TypeOK'
  BY DEF CommitClaim, EndTransaction, Unlock, Of, TypeOK
<1>2. LockInv'
  BY DEF CommitClaim, EndTransaction, Unlock, Of, TypeOK, LockInv, WriteInv
<1>3. WriteInv'
  BY DEF CommitClaim, EndTransaction, Unlock, Of, TypeOK, LockInv, WriteInv
<1>4. CountInv'
  BY DEF CommitClaim, EndTransaction, Unlock, Of, TypeOK, LockInv, WriteInv, CountInv
<1>5. HoldInv'
  BY DEF CommitClaim, EndTransaction, Unlock, Of, TypeOK, LockInv, HoldInv
<1> QED BY <1>1, <1>2, <1>3, <1>4, <1>5

LEMMA ExecuteQInv ==
  ASSUME QInv, NEW p \in Pods, ExecuteRow(p)
  PROVE  QInv'
<1> USE QueueAssumption DEF QInv, Set
<1>0. First(work[p]) \in Rows
  BY FirstIsIn DEF ExecuteRow, TypeOK
<1>1. TypeOK'
  BY <1>0 DEF ExecuteRow, transaction, TypeOK
<1>2. LockInv'
  BY <1>0 DEF ExecuteRow, transaction, TypeOK, LockInv, WriteInv
<1>3. WriteInv'
  BY <1>0 DEF ExecuteRow, transaction, TypeOK, LockInv, WriteInv
<1>4. CountInv'
  BY <1>0 DEF ExecuteRow, transaction, TypeOK, LockInv, WriteInv, CountInv
<1>5. HoldInv'
  BY <1>0 DEF ExecuteRow, transaction, TypeOK, LockInv, HoldInv
<1> QED BY <1>1, <1>2, <1>3, <1>4, <1>5

LEMMA WaitQInv ==
  ASSUME QInv, NEW p \in Pods, DoneExecuting(p) \/ WakeUp(p)
  PROVE  QInv'
<1> USE QueueAssumption DEF QInv, Set
<1>1. TypeOK'
  BY DEF DoneExecuting, WakeUp, transaction, TypeOK
<1>2. LockInv'
  BY DEF DoneExecuting, WakeUp, transaction, TypeOK, LockInv, WriteInv
<1>3. WriteInv'
  BY DEF DoneExecuting, WakeUp, transaction, TypeOK, LockInv, WriteInv
<1>4. CountInv'
  BY DEF DoneExecuting, WakeUp, transaction, TypeOK, LockInv, WriteInv, CountInv
<1>5. HoldInv'
  BY DEF DoneExecuting, WakeUp, transaction, TypeOK, LockInv, HoldInv
<1> QED BY <1>1, <1>2, <1>3, <1>4, <1>5

LEMMA RollbackQInv ==
  ASSUME QInv, NEW p \in Pods, DeadlockDetected(p) \/ Crash(p)
  PROVE  QInv'
<1> USE QueueAssumption DEF QInv, Set
<1>1. TypeOK'
  BY DEF DeadlockDetected, Crash, EndTransaction, Unlock, TypeOK
<1>2. LockInv'
  <2>1. CASE DeadlockDetected(p)
    BY <2>1 DEF DeadlockDetected, EndTransaction, Unlock, TypeOK, LockInv, WriteInv
  <2>2. CASE Crash(p)
    BY <2>2 DEF Crash, EndTransaction, Unlock, TypeOK, LockInv, WriteInv
  <2> QED BY <2>1, <2>2
<1>3. WriteInv'
  BY DEF DeadlockDetected, Crash, EndTransaction, Unlock, TypeOK, LockInv, WriteInv
<1>4. CountInv'
  BY DEF DeadlockDetected, Crash, EndTransaction, Unlock, TypeOK, LockInv, WriteInv, CountInv
<1>5. HoldInv'
  <2>1. CASE DeadlockDetected(p)
    BY <2>1 DEF DeadlockDetected, EndTransaction, Unlock, TypeOK, LockInv, HoldInv
  <2>2. CASE Crash(p)
    BY <2>2 DEF Crash, EndTransaction, Unlock, TypeOK, LockInv, HoldInv
  <2> QED BY <2>1, <2>2
<1> QED BY <1>1, <1>2, <1>3, <1>4, <1>5

LEMMA RequeueQInv ==
  ASSUME QInv, NEW r \in Rows, Requeue(r)
  PROVE  QInv'
<1> USE QueueAssumption DEF QInv, Set
<1>1. TypeOK'
  BY DEF Requeue, transaction, TypeOK
<1>2. LockInv'
  BY DEF Requeue, transaction, TypeOK, LockInv, WriteInv
<1>3. WriteInv'
  BY DEF Requeue, transaction, TypeOK, LockInv, WriteInv
<1>4. CountInv'
  BY DEF Requeue, transaction, TypeOK, LockInv, WriteInv, CountInv
<1>5. HoldInv'
  BY DEF Requeue, transaction, TypeOK, LockInv, HoldInv
<1> QED BY <1>1, <1>2, <1>3, <1>4, <1>5

LEMMA StepQInv == QInv /\ [Next]_vars => QInv'
<1> SUFFICES ASSUME QInv, [Next]_vars PROVE QInv'
  OBVIOUS
<1>1. CASE Next
  BY <1>1, SelectQInv, BeginQInv, VisitQInv, UpdateQInv, CommitQInv, ExecuteQInv, WaitQInv,
     RollbackQInv, RequeueQInv DEF Next, Worker
<1>2. CASE UNCHANGED vars
  BY <1>2 DEF vars, transaction, QInv, TypeOK, LockInv, WriteInv, CountInv, HoldInv
<1> QED BY <1>1, <1>2

\* The inductive invariant of the queue.
THEOREM QueueInvariant == Spec => []QInv
BY InitQInv, StepQInv, PTL DEF Spec

\* Each time a row is queued, at most one worker claims it.
THEOREM ClaimsAreExclusive == Spec => []ClaimedOncePerQueuing
<1>1. QInv => ClaimedOncePerQueuing
  BY DEF QInv, CountInv, ClaimedOncePerQueuing
<1> QED BY <1>1, QueueInvariant, PTL

\* A row being claimed is locked by the one worker that claims it.
THEOREM ClaimsAreLocked == Spec => []WrittenIsLocked
<1>1. QInv => WrittenIsLocked
  BY QueueAssumption DEF QInv, TypeOK, LockInv, WriteInv, WrittenIsLocked
<1> QED BY <1>1, QueueInvariant, PTL

\* A worker that goes on to execute an incident has claimed a row of it.
THEOREM ClaimsAreReal == Spec => []ClaimIsNotEmpty
<1>1. QInv => ClaimIsNotEmpty
  BY DEF QInv, TypeOK, Rows, HoldInv, ClaimIsNotEmpty
<1> QED BY <1>1, QueueInvariant, PTL
=============================================================================
