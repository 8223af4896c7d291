----------------------------- MODULE QueueWorker -----------------------------
(***************************************************************************)
(* Queue workers of several pods claiming action rows of several incidents *)
(* (services/action_dispatcher.py, _process_next_queued_incident), at the  *)
(* level of PostgreSQL's row locks: SELECT ... FOR UPDATE SKIP LOCKED      *)
(* takes one row, the UPDATE that follows visits every queued row of its   *)
(* incident and waits for those others have locked.                        *)
(***************************************************************************)
EXTENDS Naturals, FiniteSets

CONSTANTS
  Pods,         \* one worker each
  MaxRow,       \* action rows 1 .. MaxRow, in the order of created_at
  IncidentOf,   \* the incident of each row
  MaxQueuings,  \* bound: how often one row is queued (retries and requeues)
  MaxCrashes    \* bound: workers that die

Rows   == 1 .. MaxRow
Nobody == "nobody"

ASSUME QueueAssumption ==
  /\ MaxRow \in Nat
  /\ DOMAIN IncidentOf = Rows
  /\ Nobody \notin Pods
  /\ {MaxQueuings, MaxCrashes} \subseteq Nat

VARIABLES
  status,       \* ActionRun.status, as committed
  lock,         \* the transaction holding a row's lock
  pc,           \* where each worker stands
  incident,     \* the incident of the row a worker selected
  scope,        \* rows its UPDATE has still to visit
  aim,          \* the row among them it visits now
  written,      \* rows its UPDATE has changed, not committed
  work,         \* rows execute_pending_actions has still to execute
  queuings,     \* how often a row has been queued (history)
  claims,       \* how often a claim of it was committed (history)
  crashes

transaction == <<incident, scope, aim, written>>
vars == <<status, lock, pc, transaction, work, queuings, claims, crashes>>

TypeOK ==
  /\ status   \in [Rows -> {"queued", "pending", "completed", "failed"}]
  /\ lock     \in [Rows -> Pods \cup {Nobody}]
  /\ pc       \in [Pods -> {"idle", "selected", "updating", "executing", "sleeping"}]
  /\ incident \in [Pods -> {IncidentOf[r] : r \in Rows} \cup {Nobody}]
  /\ scope    \in [Pods -> SUBSET Rows]
  /\ aim      \in [Pods -> Rows \cup {0}]
  /\ written  \in [Pods -> SUBSET Rows]
  /\ work     \in [Pods -> SUBSET Rows]
  /\ queuings \in [Rows -> Nat]
  /\ claims   \in [Rows -> Nat]
  /\ crashes  \in 0 .. MaxCrashes

Set(f, p, value) == [f EXCEPT ![p] = value]
Of(i)            == {r \in Rows : IncidentOf[r] = i}
Queued           == {r \in Rows : status[r] = "queued"}
First(S)         == CHOOSE r \in S : \A s \in S : r <= s
Unlock(p)        == lock' = [r \in Rows |-> IF lock[r] = p THEN Nobody ELSE lock[r]]

----------------------------------------------------------------------------
\* Mutation: the row is selected without FOR UPDATE.
SelectUnlocked(p) ==
  /\ pc[p] = "idle"
  /\ Queued # {}
  /\ incident' = Set(incident, p, IncidentOf[First(Queued)])
  /\ pc'       = Set(pc, p, "selected")
  /\ UNCHANGED <<status, lock, scope, aim, written, work, queuings, claims, crashes>>

\* The oldest queued row nobody has locked; without one the worker sleeps.
SelectForUpdate(p) ==
  LET free == {r \in Queued : lock[r] = Nobody}
  IN  /\ pc[p] = "idle"
      /\ free # {}
      /\ lock'     = Set(lock, First(free), p)
      /\ incident' = Set(incident, p, IncidentOf[First(free)])
      /\ pc'       = Set(pc, p, "selected")
      /\ UNCHANGED <<status, scope, aim, written, work, queuings, claims, crashes>>

\* The UPDATE finds, in its snapshot, the queued rows of the incident.
BeginUpdate(p) ==
  /\ pc[p] = "selected"
  /\ scope' = Set(scope, p, Of(incident[p]) \cap Queued)
  /\ pc'    = Set(pc, p, "updating")
  /\ UNCHANGED <<status, lock, incident, aim, written, work, queuings, claims, crashes>>

\* It visits them in an order of its own.
Visit(p) ==
  /\ pc[p] = "updating"
  /\ aim[p] = 0
  /\ \E r \in scope[p] :
       /\ aim'   = Set(aim, p, r)
       /\ scope' = Set(scope, p, scope[p] \ {r})
  /\ UNCHANGED <<status, lock, pc, incident, written, work, queuings, claims, crashes>>

\* Mutation: the WHERE does not ask for the status.
UpdateAnyStatus(p) ==
  /\ pc[p] = "updating"
  /\ aim[p] # 0
  /\ lock[aim[p]] \in {p, Nobody}
  /\ lock'    = Set(lock, aim[p], p)
  /\ written' = Set(written, p, written[p] \cup {aim[p]})
  /\ aim'     = Set(aim, p, 0)
  /\ UNCHANGED <<status, pc, incident, scope, work, queuings, claims, crashes>>

\* With the lock in hand it matches the row, as it is committed now, again.
UpdateRow(p) ==
  LET r == aim[p]
  IN  /\ pc[p] = "updating"
      /\ r # 0
      /\ lock[r] \in {p, Nobody}
      /\ \/ /\ status[r] = "queued"
            /\ lock'    = Set(lock, r, p)
            /\ written' = Set(written, p, written[p] \cup {r})
         \/ status[r] # "queued" /\ UNCHANGED <<lock, written>>
      /\ aim' = Set(aim, p, 0)
      /\ UNCHANGED <<status, pc, incident, scope, work, queuings, claims, crashes>>

EndTransaction(p) ==
  /\ Unlock(p)
  /\ incident' = Set(incident, p, Nobody)
  /\ scope'    = Set(scope, p, {})
  /\ aim'      = Set(aim, p, 0)
  /\ written'  = Set(written, p, {})

\* db.commit() of the claim; then the incident's pending rows are loaded,
\* whoever claimed them.
CommitClaim(p) ==
  /\ pc[p] = "updating"
  /\ scope[p] = {} /\ aim[p] = 0
  /\ status' = [r \in Rows |-> IF r \in written[p] THEN "pending" ELSE status[r]]
  /\ claims' = [r \in Rows |-> IF r \in written[p] THEN claims[r] + 1 ELSE claims[r]]
  /\ work'   = Set(work, p, {r \in Of(incident[p]) : status'[r] = "pending"})
  /\ pc'     = Set(pc, p, "executing")
  /\ EndTransaction(p)
  /\ UNCHANGED <<queuings, crashes>>

\* execute_pending_actions commits the rows one by one.
ExecuteRow(p) ==
  /\ pc[p] = "executing"
  /\ work[p] # {}
  /\ lock[First(work[p])] = Nobody
  /\ \E outcome \in {"completed", "failed"} : status' = Set(status, First(work[p]), outcome)
  /\ work' = Set(work, p, work[p] \ {First(work[p])})
  /\ UNCHANGED <<lock, pc, transaction, queuings, claims, crashes>>

DoneExecuting(p) ==
  /\ pc[p] = "executing"
  /\ work[p] = {}
  /\ pc' = Set(pc, p, "idle")
  /\ UNCHANGED <<status, lock, transaction, work, queuings, claims, crashes>>

\* A due row, or one an operator requeues, goes back to the queue.
Requeue(r) ==
  /\ status[r] = "failed"
  /\ lock[r] = Nobody
  /\ queuings[r] < MaxQueuings
  /\ status'   = Set(status, r, "queued")
  /\ queuings' = Set(queuings, r, queuings[r] + 1)
  /\ UNCHANGED <<lock, pc, transaction, work, claims, crashes>>

----------------------------------------------------------------------------
(* PostgreSQL. *)

WaitsFor(p) ==
  IF pc[p] = "updating" /\ aim[p] # 0 /\ lock[aim[p]] # p THEN lock[aim[p]] ELSE Nobody

\* p is in a cycle of transactions that wait for one another.
Deadlocked(p) ==
  \E S \in SUBSET Pods :
    /\ p \in S
    /\ \A q \in S : WaitsFor(q) \in S /\ \E o \in S : WaitsFor(o) = q

\* Mutation: the loop does not sleep after an exception.
RetryAtOnce(p) ==
  /\ Deadlocked(p)
  /\ EndTransaction(p)
  /\ pc' = Set(pc, p, "idle")
  /\ UNCHANGED <<status, work, queuings, claims, crashes>>

\* The deadlock detector ends one of them; the finally closes the session, and
\* the loop logs the exception and sleeps.
DeadlockDetected(p) ==
  /\ Deadlocked(p)
  /\ EndTransaction(p)
  /\ pc' = Set(pc, p, "sleeping")
  /\ UNCHANGED <<status, work, queuings, claims, crashes>>

CanUpdate(q) == aim[q] # 0 /\ lock[aim[q]] \in {q, Nobody}

\* The sleep is longer than it takes a transaction to get a lock it was
\* waiting for.
WakeUp(p) ==
  /\ pc[p] = "sleeping"
  /\ \A q \in Pods : ~CanUpdate(q)
  /\ pc' = Set(pc, p, "idle")
  /\ UNCHANGED <<status, lock, transaction, work, queuings, claims, crashes>>

\* The worker dies before its claim is committed; a new one takes its place.
Crash(p) ==
  /\ pc[p] \in {"selected", "updating"}
  /\ crashes < MaxCrashes
  /\ crashes' = crashes + 1
  /\ EndTransaction(p)
  /\ pc' = Set(pc, p, "idle")
  /\ UNCHANGED <<status, work, queuings, claims>>

----------------------------------------------------------------------------
Init ==
  /\ status   = [r \in Rows |-> "queued"]
  /\ lock     = [r \in Rows |-> Nobody]
  /\ pc       = [p \in Pods |-> "idle"]
  /\ incident = [p \in Pods |-> Nobody]
  /\ scope    = [p \in Pods |-> {}]
  /\ aim      = [p \in Pods |-> 0]
  /\ written  = [p \in Pods |-> {}]
  /\ work     = [p \in Pods |-> {}]
  /\ queuings = [r \in Rows |-> 1]
  /\ claims   = [r \in Rows |-> 0]
  /\ crashes  = 0

Worker(p) ==
  \/ SelectForUpdate(p) \/ BeginUpdate(p) \/ Visit(p) \/ UpdateRow(p) \/ CommitClaim(p)
  \/ ExecuteRow(p) \/ DoneExecuting(p) \/ WakeUp(p)

Next ==
  \/ \E p \in Pods : Worker(p) \/ DeadlockDetected(p) \/ Crash(p)
  \/ \E r \in Rows : Requeue(r)

Spec == Init /\ [][Next]_vars

\* Workers run, and PostgreSQL's deadlock_timeout passes.  A pod that stops
\* for good is a crash, whose replacement runs.
FairSpec == Spec /\ \A p \in Pods : WF_vars(Worker(p)) /\ WF_vars(DeadlockDetected(p))

----------------------------------------------------------------------------
(* Properties. *)

\* Whatever pods select rows of one incident at once, wait for one another or
\* die, each time a row is queued at most one of them claims it.
ClaimedOncePerQueuing == \A r \in Rows : claims[r] <= queuings[r]

\* A lock is only held by a transaction, and a row being claimed is locked and
\* still queued: nobody else can claim or change it.
WrittenIsLocked ==
  /\ \A p \in Pods : \A r \in written[p] : lock[r] = p /\ status[r] = "queued"
  /\ \A r \in Rows : lock[r] # Nobody => pc[lock[r]] \in {"selected", "updating"}

\* A worker that goes on to execute an incident has claimed a row of it: it
\* does not execute what another worker has just claimed from under it.
ClaimIsNotEmpty ==
  \A p \in Pods : (pc[p] = "updating" /\ scope[p] = {} /\ aim[p] = 0) => written[p] # {}

\* Every queued row is claimed, although the claims of one incident deadlock.
QueuedIsClaimed == \A r \in Rows : (status[r] = "queued") ~> (status[r] # "queued")
=============================================================================
