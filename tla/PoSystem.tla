------------------------------ MODULE PoSystem ------------------------------
(***************************************************************************)
(* One purchase order and the sessions that amend it at the same time      *)
(* (services/connectors/po_system.py, called from action_executor.py).     *)
(* Each attempt runs in a transaction of its own at PostgreSQL's default   *)
(* isolation, READ COMMITTED: the UPDATE waits for the row's lock and then *)
(* matches its WHERE against the row as last committed.  The caller gives  *)
(* no expected_version, and the order exists.                              *)
(*                                                                         *)
(* The executor looks at its session's copy of an action, which a commit   *)
(* does not expire (expire_on_commit=False), so several sessions may run   *)
(* one action, and whoever ends last decides what its row says.  A session *)
(* with several actions counts once for each of them.                      *)
(***************************************************************************)
EXTENDS Naturals, Sequences, Functions

CONSTANTS
  Sessions,     \* database sessions, each with one action at a time
  Actions,      \* update_po actions on the order
  MaxRetries    \* settings.max_retries

Nobody == "nobody"

ASSUME PoAssumption ==
  /\ Nobody \notin Sessions \cup Actions
  /\ MaxRetries \in Nat \ {0}

VARIABLES
  version,      \* PurchaseOrder.version, as committed
  notes,        \* PurchaseOrder.notes: the actions whose lines it holds
  lock,         \* the session whose transaction holds the row's lock
  status,       \* ActionRun.status, as committed; a queued row counts as pending
  retries,      \* ActionRun.retry_count, as committed
  pc,           \* how far each session is
  job,          \* the action a session has loaded
  held,         \* its copy of the action's retry_count
  snapshot,     \* the order as the session has read it
  shared        \* history: the actions two sessions have held at once

order == <<version, notes, lock>>
rows  == <<status, retries>>
vars  == <<order, rows, pc, job, held, snapshot, shared>>

Row == [version : Nat, notes : Seq(Actions)]

TypeOK ==
  /\ version  \in Nat
  /\ notes    \in Seq(Actions)
  /\ lock     \in Sessions \cup {Nobody}
  /\ status   \in [Actions -> {"pending", "completed", "failed"}]
  /\ retries  \in [Actions -> Nat]
  /\ pc       \in [Sessions -> {"idle", "loaded", "backoff", "read", "updated", "conflict"}]
  /\ job      \in [Sessions -> Actions \cup {Nobody}]
  /\ held     \in [Sessions -> Nat]
  /\ snapshot \in [Sessions -> Row]
  /\ shared   \subseteq Actions

Go(s, to) == pc' = [pc EXCEPT ![s] = to]

\* An order that nobody has amended yet.
Seeded == [version |-> 1, notes |-> <<>>]

\* The session is over, and its copies with it.
Finish(s) ==
  /\ Go(s, "idle")
  /\ job'      = [job      EXCEPT ![s] = Nobody]
  /\ held'     = [held     EXCEPT ![s] = 0]
  /\ snapshot' = [snapshot EXCEPT ![s] = Seeded]
  /\ UNCHANGED shared

----------------------------------------------------------------------------
(* execute_pending_actions and retry_failed_actions, before update_po. *)

\* The session reads the row of an action.
LoadRow(s, a, to) ==
  /\ pc[s] = "idle"
  /\ Go(s, to)
  /\ job'    = [job  EXCEPT ![s] = a]
  /\ held'   = [held EXCEPT ![s] = retries[a]]
  /\ shared' = IF \E t \in Sessions : job[t] = a THEN shared \cup {a} ELSE shared
  /\ UNCHANGED <<order, rows, snapshot>>

\* The copy is pending, and that is what the executor looks at.
Load(s, a) ==
  /\ status[a] = "pending"
  /\ LoadRow(s, a, "loaded")

\* Mutation: retry_failed_actions takes completed rows too.
LoadFinished(s, a) ==
  /\ status[a] # "pending"
  /\ retries[a] < MaxRetries
  /\ LoadRow(s, a, "backoff")

\* The copy is failed with attempts left: the session sleeps before the retry.
LoadFailed(s, a) ==
  /\ status[a] = "failed"
  /\ retries[a] < MaxRetries
  /\ LoadRow(s, a, "backoff")

\* Commits pending over whatever the row says by now and executes the copy.
Retry(s) ==
  /\ pc[s] = "backoff"
  /\ status' = [status EXCEPT ![job[s]] = "pending"]
  /\ Go(s, "loaded")
  /\ UNCHANGED <<order, retries, job, held, snapshot, shared>>

----------------------------------------------------------------------------
(* update_po. *)

\* db.query(PurchaseOrder)...first().
ReadOrder(s) ==
  /\ pc[s] = "loaded"
  /\ snapshot' = [snapshot EXCEPT ![s] = [version |-> version, notes |-> notes]]
  /\ Go(s, "read")
  /\ UNCHANGED <<order, rows, job, held, shared>>

\* Mutation: the UPDATE names the row and not the version.
UpdateById(s) ==
  /\ pc[s] = "read"
  /\ lock = Nobody
  /\ lock' = s
  /\ Go(s, "updated")
  /\ UNCHANGED <<version, notes, rows, job, held, snapshot, shared>>

\* UPDATE ... WHERE id = ... AND version = old_version.
UpdateWhereVersion(s) ==
  /\ pc[s] = "read"
  /\ lock = Nobody
  /\ \/ version = snapshot[s].version /\ lock' = s /\ Go(s, "updated")
     \/ version # snapshot[s].version /\ Go(s, "conflict") /\ UNCHANGED lock
  /\ UNCHANGED <<version, notes, rows, job, held, snapshot, shared>>

\* Mutation: a timeout on the lock is charged to the action.
ChargeTimeout(s) ==
  /\ pc[s] = "read"
  /\ lock # Nobody
  /\ Go(s, "conflict")
  /\ UNCHANGED <<order, rows, job, held, snapshot, shared>>

\* statement_timeout ends the wait: the exception leaves the row as it is.
StatementTimeout(s) ==
  /\ pc[s] = "read"
  /\ lock # Nobody
  /\ Finish(s)
  /\ UNCHANGED <<order, rows>>

----------------------------------------------------------------------------
(* execute_pending_actions, after update_po. *)

\* Mutation: the amendment is committed before the action is completed.
CommitOrder(s) ==
  /\ pc[s] = "updated"
  /\ version' = snapshot[s].version + 1
  /\ notes'   = Append(snapshot[s].notes, job[s])
  /\ lock'    = Nobody
  /\ Finish(s)
  /\ UNCHANGED rows

\* The order and the completed action are committed together.
CommitAmendment(s) ==
  /\ pc[s] = "updated"
  /\ version' = snapshot[s].version + 1
  /\ notes'   = Append(snapshot[s].notes, job[s])
  /\ lock'    = Nobody
  /\ status'  = [status EXCEPT ![job[s]] = "completed"]
  /\ Finish(s)
  /\ UNCHANGED retries

\* rowcount = 0: _handle_failure counts the attempt on the copy, and both
\* fields are committed over whatever the row says by now.
HandleFailure(s) ==
  /\ pc[s] = "conflict"
  /\ status'  = [status  EXCEPT ![job[s]] = "failed"]
  /\ retries' = [retries EXCEPT ![job[s]] = held[s] + 1]
  /\ Finish(s)
  /\ UNCHANGED order

\* The process dies or the commit fails: PostgreSQL rolls back.
Rollback(s) ==
  /\ pc[s] # "idle"
  /\ lock' = IF lock = s THEN Nobody ELSE lock
  /\ Finish(s)
  /\ UNCHANGED <<version, notes, rows>>

----------------------------------------------------------------------------
Init ==
  /\ version  = 1
  /\ notes    = <<>>
  /\ lock     = Nobody
  /\ status   = [a \in Actions |-> "pending"]
  /\ retries  = [a \in Actions |-> 0]
  /\ pc       = [s \in Sessions |-> "idle"]
  /\ job      = [s \in Sessions |-> Nobody]
  /\ held     = [s \in Sessions |-> 0]
  /\ snapshot = [s \in Sessions |-> Seeded]
  /\ shared   = {}

Begin(s) == \E a \in Actions : Load(s, a) \/ LoadFailed(s, a)

Work(s) ==
  \/ Retry(s) \/ ReadOrder(s) \/ UpdateWhereVersion(s)
  \/ CommitAmendment(s) \/ HandleFailure(s)

Fault(s) == StatementTimeout(s) \/ Rollback(s)

Next == \E s \in Sessions : Begin(s) \/ Work(s) \/ Fault(s)

Spec == Init /\ [][Next]_vars

----------------------------------------------------------------------------
(* Properties. *)

\* Every committed amendment is in the order for good, with a version of its
\* own: an UPDATE computed from an older row never commits.
NoLostUpdate ==
  /\ version = Len(notes) + 1
  /\ \A a \in Actions : status[a] = "completed" => a \in Range(notes)

\* Over crashes, time-outs, conflicts and retries an order is amended by an
\* action exactly if the action is completed, and only once.  Two sessions
\* that have held the action at once are the exception: both copies are
\* pending, and the executor asks nobody else.
AmendedOnceUnlessShared ==
  \A a \in Actions \ shared :
    /\ a \in Range(notes) <=> status[a] = "completed"
    /\ \A i, j \in DOMAIN notes : notes[i] = a /\ notes[j] = a => i = j

\* An action is charged at most as many attempts as the order has been
\* amended: a lock time-out, a crash or a stale copy costs none, so with fewer
\* amendments than max_retries nobody is dead-lettered.
ChargedOnlyForConflicts == \A a \in Actions : retries[a] <= Len(notes)

\* The order and its actions implement the ledger, stale copies included.
Ledger == INSTANCE PoLedger
            WITH log  <- notes,
                 done <- {a \in Actions : status[a] = "completed"}
LedgerSpec == Ledger!LedgerSpec
=============================================================================
