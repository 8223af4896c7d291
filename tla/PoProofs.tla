------------------------------ MODULE PoProofs ------------------------------
(***************************************************************************)
(* The optimistic lock of the PO system, for any number of sessions and    *)
(* actions and any budget of retries: no amendment is lost, an action is   *)
(* doubled only if two sessions have held it at once, an action loses an   *)
(* attempt only to an amendment, and the order implements the ledger.      *)
(***************************************************************************)
EXTENDS PoSystem, TLAPS

\* A session works on an action exactly while it is not idle.
JobInv == \A s \in Sessions : pc[s] = "idle" <=> job[s] = Nobody

\* The row's lock and the session that has updated it.
LockInv == \A s \in Sessions : pc[s] = "updated" <=> lock = s

\* A row read is the order as it was, and the order as it is until somebody
\* amends it.
ReadInv ==
  \A s \in Sessions :
    pc[s] \in {"read", "updated", "conflict"} =>
      /\ snapshot[s].version <= version
      /\ snapshot[s].version = version => snapshot[s].notes = notes
      /\ pc[s] = "updated" => snapshot[s].version = version
      /\ pc[s] = "conflict" => snapshot[s].version < version
      /\ held[s] < snapshot[s].version

\* Attempts are charged against amendments, on the row and on every copy.
ChargeInv ==
  /\ version = Len(notes) + 1
  /\ \A a \in Actions : retries[a] <= Len(notes)
  /\ \A s \in Sessions : held[s] <= Len(notes)

\* A completed action has its line.
DoneInv == \A a \in Actions : status[a] = "completed" => \E i \in 1 .. Len(notes) : notes[i] = a

\* An action that two sessions have never held at once: its row says what the
\* copy of its one session says, and its line is entered when it completes.
Once(a) ==
  /\ \A s, t \in Sessions : job[s] = a /\ job[t] = a => s = t
  /\ \A s \in Sessions : job[s] = a => status[a] = IF pc[s] = "backoff" THEN "failed" ELSE "pending"
  /\ \A i \in 1 .. Len(notes) : notes[i] = a => status[a] = "completed"
  /\ \A i, j \in 1 .. Len(notes) : notes[i] = a /\ notes[j] = a => i = j

OnceInv == \A a \in Actions \ shared : Once(a)

Base == TypeOK /\ JobInv /\ LockInv /\ ReadInv /\ ChargeInv

PInv == Base /\ DoneInv /\ OnceInv

LEMMA InitPInv == Init => PInv
<1> SUFFICES ASSUME Init PROVE PInv
  OBVIOUS
<1>1. Len(notes) = 0 /\ notes \in Seq(Actions)
  BY DEF Init
<1>2. TypeOK
  BY <1>1 DEF Init, TypeOK, Row, Seeded
<1>3. JobInv /\ LockInv /\ ReadInv /\ ChargeInv
  BY <1>1, PoAssumption DEF Init, JobInv, LockInv, ReadInv, ChargeInv
<1>4. DoneInv /\ OnceInv
  BY <1>1, PoAssumption DEF Init, DoneInv, OnceInv, Once
<1> QED BY <1>2, <1>3, <1>4 DEF PInv, Base

----------------------------------------------------------------------------
(* The steps that leave the order's row alone. *)

\* What a step that enters no line must show: nothing is completed by it, and
\* of an action nobody shares it says what its session says.
LEMMA KeepDone ==
  ASSUME DoneInv, UNCHANGED notes,
         \A a \in Actions : status'[a] = "completed" => status[a] = "completed"
  PROVE  DoneInv'
BY DEF DoneInv

LEMMA BeginPInv ==
  ASSUME PInv, NEW s \in Sessions, Begin(s)
  PROVE  PInv' /\ UNCHANGED <<notes, status>>
<1> PICK a \in Actions : Load(s, a) \/ LoadFailed(s, a)
  BY DEF Begin
<1> DEFINE to == IF status[a] = "pending" THEN "loaded" ELSE "backoff"
<1>1. /\ LoadRow(s, a, to)
      /\ status[a] = IF to = "backoff" THEN "failed" ELSE "pending"
  BY DEF Load, LoadFailed
<1> HIDE DEF to
<1>2. to \in {"loaded", "backoff"}
  BY DEF to
<1>3. UNCHANGED <<version, notes, lock, status, retries, snapshot>>
  BY <1>1 DEF LoadRow, order, rows
<1>4. /\ pc[s] = "idle" /\ pc' = [pc EXCEPT ![s] = to]
      /\ job' = [job EXCEPT ![s] = a] /\ held' = [held EXCEPT ![s] = retries[a]]
      /\ shared' = IF \E t \in Sessions : job[t] = a THEN shared \cup {a} ELSE shared
  BY <1>1 DEF LoadRow, Go
<1>5. TypeOK /\ JobInv /\ LockInv /\ ReadInv /\ ChargeInv /\ DoneInv /\ OnceInv
  BY DEF PInv, Base
<1>6. TypeOK'
  BY <1>2, <1>3, <1>4, <1>5 DEF TypeOK
<1>7. JobInv' /\ LockInv' /\ ReadInv'
  BY <1>2, <1>3, <1>4, <1>5, PoAssumption DEF TypeOK, JobInv, LockInv, ReadInv
<1>8. ChargeInv'
  BY <1>3, <1>4, <1>5 DEF TypeOK, ChargeInv
<1>9. DoneInv'
  BY <1>3, <1>5, KeepDone
<1>10. OnceInv'
  <2> SUFFICES ASSUME NEW b \in Actions, b \notin shared' PROVE Once(b)'
    BY DEF OnceInv
  <2>1. Once(b)
    BY <1>4, <1>5 DEF OnceInv
  <2>2. CASE b = a
    <3>1. \A t \in Sessions : job[t] # a
      BY <2>2, <1>4
    <3>2. \A t \in Sessions : job'[t] = a => t = s
      BY <3>1, <1>4, <1>5 DEF TypeOK
    <3>3. pc'[s] = to
      BY <1>4, <1>5 DEF TypeOK
    <3> QED BY <2>1, <2>2, <3>2, <3>3, <1>1, <1>3 DEF Once
  <2>3. CASE b # a
    <3>1. \A t \in Sessions : job'[t] = b => t # s /\ job[t] = b /\ pc'[t] = pc[t]
      BY <2>3, <1>4, <1>5 DEF TypeOK
    <3> QED BY <2>1, <3>1, <1>3 DEF Once
  <2> QED BY <2>2, <2>3
<1> QED BY <1>3, <1>6, <1>7, <1>8, <1>9, <1>10 DEF PInv, Base

LEMMA ReadPInv ==
  ASSUME PInv, NEW s \in Sessions, ReadOrder(s) \/ UpdateWhereVersion(s)
  PROVE  PInv' /\ UNCHANGED <<notes, status>>
<1>1. TypeOK /\ JobInv /\ LockInv /\ ReadInv /\ ChargeInv /\ DoneInv /\ OnceInv
  BY DEF PInv, Base
<1>2. UNCHANGED <<version, notes, status, retries, job, held, shared>>
  BY DEF ReadOrder, UpdateWhereVersion, order, rows
<1>3. /\ pc[s] \in {"loaded", "read"}
      /\ pc'[s] \in {"read", "updated", "conflict"}
      /\ \A t \in Sessions : t # s => pc'[t] = pc[t]
      /\ pc' \in [Sessions -> {"idle", "loaded", "backoff", "read", "updated", "conflict"}]
  BY <1>1 DEF ReadOrder, UpdateWhereVersion, Go, TypeOK
<1>4. TypeOK'
  <2>1. lock' \in Sessions \cup {Nobody}
    BY <1>1 DEF ReadOrder, UpdateWhereVersion, order, TypeOK
  <2>2. CASE ReadOrder(s)
    <3>1. [version |-> version, notes |-> notes] \in Row
      BY <1>1 DEF TypeOK, Row
    <3> QED BY <2>1, <2>2, <3>1, <1>1, <1>2, <1>3 DEF ReadOrder, TypeOK
  <2>3. CASE UpdateWhereVersion(s)
    BY <2>1, <2>3, <1>1, <1>2, <1>3 DEF UpdateWhereVersion, TypeOK
  <2> QED BY <2>2, <2>3
<1>5. JobInv'
  BY <1>1, <1>2, <1>3 DEF JobInv
<1>6. LockInv'
  BY <1>1, PoAssumption DEF ReadOrder, UpdateWhereVersion, order, Go, TypeOK, LockInv
<1>7. ReadInv'
  <2>1. CASE ReadOrder(s)
    BY <2>1, <1>1, <1>2 DEF ReadOrder, Go, TypeOK, Row, ReadInv, ChargeInv
  <2>2. CASE UpdateWhereVersion(s)
    BY <2>2, <1>1, <1>2 DEF UpdateWhereVersion, Go, TypeOK, Row, ReadInv
  <2> QED BY <2>1, <2>2
<1>8. ChargeInv'
  BY <1>1, <1>2 DEF ChargeInv
<1>9. DoneInv'
  BY <1>1, <1>2, KeepDone
<1>10. OnceInv'
  BY <1>1, <1>2, <1>3 DEF OnceInv, Once
<1> QED BY <1>2, <1>4, <1>5, <1>6, <1>7, <1>8, <1>9, <1>10 DEF PInv, Base

\* Pending is committed over whatever the row says by now: only of an action
\* that is shared can that be anything but failed.
LEMMA RetryPInv ==
  ASSUME PInv, NEW s \in Sessions, Retry(s)
  PROVE  /\ PInv' /\ UNCHANGED notes
         /\ job[s] \in Actions /\ status' = [status EXCEPT ![job[s]] = "pending"]
<1>1. TypeOK /\ JobInv /\ LockInv /\ ReadInv /\ ChargeInv /\ DoneInv /\ OnceInv
  BY DEF PInv, Base
<1>2. /\ UNCHANGED <<version, notes, lock, retries, job, held, snapshot, shared>>
      /\ pc[s] = "backoff" /\ pc' = [pc EXCEPT ![s] = "loaded"]
      /\ status' = [status EXCEPT ![job[s]] = "pending"]
  BY DEF Retry, order, Go
<1>3. job[s] \in Actions
  BY <1>1, <1>2 DEF TypeOK, JobInv
<1>4. TypeOK'
  BY <1>1, <1>2, <1>3 DEF TypeOK
<1>5. JobInv' /\ LockInv' /\ ReadInv' /\ ChargeInv'
  BY <1>1, <1>2 DEF TypeOK, JobInv, LockInv, ReadInv, ChargeInv
<1>6. DoneInv'
  BY <1>1, <1>2, <1>3, KeepDone DEF TypeOK
<1>7. OnceInv'
  <2> SUFFICES ASSUME NEW b \in Actions, b \notin shared PROVE Once(b)'
    BY <1>2 DEF OnceInv
  <2>1. Once(b)
    BY <1>1 DEF OnceInv
  <2>2. CASE b = job[s]
    <3>1. status[b] = "failed" /\ status'[b] = "pending" /\ pc'[s] = "loaded"
      BY <2>1, <2>2, <1>1, <1>2 DEF Once, TypeOK
    <3>2. \A t \in Sessions : job'[t] = b => t = s
      BY <2>1, <2>2, <1>2 DEF Once
    <3> QED BY <2>1, <3>1, <3>2, <1>2 DEF Once
  <2>3. CASE b # job[s]
    BY <2>1, <2>3, <1>1, <1>2, <1>3 DEF Once, TypeOK
  <2> QED BY <2>2, <2>3
<1> QED BY <1>2, <1>3, <1>4, <1>5, <1>6, <1>7 DEF PInv, Base

\* A session that ends without an amendment: it charges its action or leaves
\* the row as it is.
LEMMA EndPInv ==
  ASSUME PInv, NEW s \in Sessions, HandleFailure(s) \/ Fault(s)
  PROVE  /\ PInv' /\ UNCHANGED notes
         /\ \/ UNCHANGED status
            \/ job[s] \in Actions /\ status' = [status EXCEPT ![job[s]] = "failed"]
<1>1. TypeOK /\ JobInv /\ LockInv /\ ReadInv /\ ChargeInv /\ DoneInv /\ OnceInv
  BY DEF PInv, Base
<1>2. /\ UNCHANGED <<version, notes, shared>>
      /\ pc[s] # "idle" /\ pc' = [pc EXCEPT ![s] = "idle"]
      /\ job' = [job EXCEPT ![s] = Nobody]
      /\ held' = [held EXCEPT ![s] = 0]
      /\ snapshot' = [snapshot EXCEPT ![s] = Seeded]
  BY DEF HandleFailure, Fault, StatementTimeout, Rollback, Finish, Go, order
<1>3. job[s] \in Actions
  BY <1>1, <1>2 DEF TypeOK, JobInv
<1>4. lock' = IF lock = s THEN Nobody ELSE lock
  BY <1>1 DEF HandleFailure, Fault, StatementTimeout, Rollback, order, LockInv
<1>5. \/ UNCHANGED <<status, retries>>
      \/ /\ pc[s] = "conflict"
         /\ status' = [status EXCEPT ![job[s]] = "failed"]
         /\ retries' = [retries EXCEPT ![job[s]] = held[s] + 1]
  BY DEF HandleFailure, Fault, StatementTimeout, Rollback, order, rows
<1>6. TypeOK'
  BY <1>1, <1>2, <1>3, <1>4, <1>5 DEF TypeOK, Row, Seeded
<1>7. JobInv'
  BY <1>1, <1>2 DEF TypeOK, JobInv
<1>8. LockInv'
  BY <1>1, <1>2, <1>4, PoAssumption DEF TypeOK, LockInv
<1>9. ReadInv'
  BY <1>1, <1>2 DEF TypeOK, ReadInv
<1>10. ChargeInv'
  <2>1. Len(notes) \in Nat /\ \A t \in Sessions : held'[t] <= Len(notes)
    BY <1>1, <1>2 DEF TypeOK, ChargeInv
  <2>2. pc[s] = "conflict" => held[s] + 1 <= Len(notes)
    BY <2>1, <1>1 DEF TypeOK, Row, ReadInv, ChargeInv
  <2> QED BY <2>1, <2>2, <1>1, <1>2, <1>3, <1>5 DEF TypeOK, ChargeInv
<1>11. DoneInv'
  BY <1>1, <1>2, <1>3, <1>5, KeepDone DEF TypeOK
<1>12. OnceInv'
  <2> SUFFICES ASSUME NEW b \in Actions, b \notin shared PROVE Once(b)'
    BY <1>2 DEF OnceInv
  <2>1. Once(b)
    BY <1>1 DEF OnceInv
  <2>2. \A t \in Sessions : job'[t] = b => t # s /\ job[t] = b /\ pc'[t] = pc[t]
    BY <1>1, <1>2, PoAssumption DEF TypeOK
  <2>3. CASE b = job[s]
    <3>1. \A t \in Sessions : job'[t] # b
      BY <2>1, <2>2, <2>3 DEF Once
    <3>2. pc[s] = "conflict" => status[b] = "pending"
      BY <2>1, <2>3 DEF Once
    <3>3. \A i \in 1 .. Len(notes) : notes[i] = b => status'[b] = "completed"
      BY <2>1, <3>2, <1>5 DEF Once
    <3> QED BY <2>1, <3>1, <3>3, <1>2 DEF Once
  <2>4. CASE b # job[s]
    <3>1. status'[b] = status[b]
      BY <2>4, <1>1, <1>3, <1>5 DEF TypeOK
    <3> QED BY <2>1, <2>2, <3>1, <1>2 DEF Once
  <2> QED BY <2>3, <2>4
<1> QED BY <1>2, <1>3, <1>5, <1>6, <1>7, <1>8, <1>9, <1>10, <1>11, <1>12 DEF PInv, Base

----------------------------------------------------------------------------
(* The commit of an amendment. *)

\* Appending an action to the notes, element by element.
LEMMA Appended ==
  ASSUME NEW q \in Seq(Actions), NEW a \in Actions
  PROVE  /\ Append(q, a) \in Seq(Actions)
         /\ Len(Append(q, a)) = Len(q) + 1
         /\ \A i \in 1 .. Len(q) : Append(q, a)[i] = q[i]
         /\ Append(q, a)[Len(q) + 1] = a
OBVIOUS

LEMMA CommitPInv ==
  ASSUME PInv, NEW s \in Sessions, CommitAmendment(s)
  PROVE  /\ PInv'
         /\ job[s] \in Actions
         /\ notes' = Append(notes, job[s])
         /\ status' = [status EXCEPT ![job[s]] = "completed"]
<1> DEFINE a == job[s]
           new == Append(notes, a)
<1>1. TypeOK /\ JobInv /\ LockInv /\ ReadInv /\ ChargeInv /\ DoneInv /\ OnceInv
  BY DEF PInv, Base
<1>2. /\ pc[s] = "updated" /\ lock = s /\ a \in Actions
      /\ snapshot[s].version = version /\ snapshot[s].notes = notes
  BY <1>1 DEF CommitAmendment, TypeOK, JobInv, LockInv, ReadInv
<1>3. /\ version' = version + 1 /\ notes' = new /\ lock' = Nobody
      /\ status' = [status EXCEPT ![a] = "completed"] /\ UNCHANGED <<retries, shared>>
      /\ pc' = [pc EXCEPT ![s] = "idle"] /\ job' = [job EXCEPT ![s] = Nobody]
      /\ held' = [held EXCEPT ![s] = 0] /\ snapshot' = [snapshot EXCEPT ![s] = Seeded]
  BY <1>2 DEF CommitAmendment, Finish, Go
<1>4. /\ new \in Seq(Actions) /\ Len(new) = Len(notes) + 1
      /\ \A i \in 1 .. Len(notes) : new[i] = notes[i]
      /\ new[Len(notes) + 1] = a
  BY <1>1, <1>2, Appended DEF TypeOK
<1>5. Len(notes) \in Nat /\ version \in Nat
  BY <1>1 DEF TypeOK
<1> HIDE DEF a, new
<1>6. \A i \in 1 .. Len(notes') : i \in 1 .. Len(notes) \/ i = Len(notes) + 1
  BY <1>3, <1>4, <1>5
<1>7. TypeOK'
  BY <1>1, <1>2, <1>3, <1>4, <1>5 DEF TypeOK, Row, Seeded
<1>8. JobInv' /\ LockInv'
  BY <1>1, <1>2, <1>3, PoAssumption DEF TypeOK, JobInv, LockInv
<1>9. ReadInv'
  <2> SUFFICES ASSUME NEW t \in Sessions, pc'[t] \in {"read", "updated", "conflict"}
               PROVE  /\ snapshot'[t].version < version'
                      /\ pc'[t] # "updated"
                      /\ held'[t] < snapshot'[t].version
    BY <1>5, <1>7 DEF ReadInv, TypeOK, Row
  <2>1. t # s /\ pc'[t] = pc[t] /\ snapshot'[t] = snapshot[t] /\ held'[t] = held[t]
    BY <1>1, <1>3 DEF TypeOK
  <2>2. lock # t
    BY <2>1, <1>2
  <2> QED BY <2>1, <2>2, <1>1, <1>3, <1>5 DEF TypeOK, Row, LockInv, ReadInv
<1>10. ChargeInv'
  BY <1>1, <1>3, <1>4, <1>5 DEF TypeOK, ChargeInv
<1>11. DoneInv'
  <2> SUFFICES ASSUME NEW b \in Actions, status'[b] = "completed"
               PROVE  \E i \in 1 .. Len(notes') : notes'[i] = b
    BY DEF DoneInv
  <2>1. CASE b = a
    <3>1. Len(notes) + 1 \in 1 .. Len(notes')
      BY <1>3, <1>4, <1>5
    <3> QED BY <2>1, <3>1, <1>3, <1>4
  <2>2. CASE b # a
    <3>1. PICK i \in 1 .. Len(notes) : notes[i] = b
      BY <2>2, <1>1, <1>3 DEF TypeOK, DoneInv
    <3>2. i \in 1 .. Len(notes')
      BY <1>3, <1>4, <1>5
    <3> QED BY <3>1, <3>2, <1>3, <1>4
  <2> QED BY <2>1, <2>2
<1>12. OnceInv'
  <2> SUFFICES ASSUME NEW b \in Actions, b \notin shared PROVE Once(b)'
    BY <1>3 DEF OnceInv
  <2>1. Once(b)
    BY <1>1 DEF OnceInv
  <2>2. \A t \in Sessions : job'[t] = b => t # s /\ job[t] = b /\ pc'[t] = pc[t]
    BY <1>1, <1>3, PoAssumption DEF TypeOK
  <2>3. CASE b = a
    <3>1. \A t \in Sessions : job'[t] # b
      BY <2>1, <2>2, <2>3 DEF Once, a
    <3>2. \A i \in 1 .. Len(notes) : notes[i] # b
      BY <2>1, <2>3, <1>2 DEF Once, a
    <3>3. status'[b] = "completed"
      BY <2>3, <1>1, <1>3 DEF TypeOK
    <3>4. \A i \in 1 .. Len(notes') : notes'[i] = b => i = Len(notes) + 1
      BY <3>2, <1>3, <1>4, <1>6
    <3> QED BY <3>1, <3>3, <3>4 DEF Once
  <2>4. CASE b # a
    <3>1. status'[b] = status[b]
      BY <2>4, <1>1, <1>2, <1>3 DEF TypeOK
    <3>2. \A i \in 1 .. Len(notes') : notes'[i] = b => i \in 1 .. Len(notes) /\ notes[i] = b
      BY <2>4, <1>3, <1>4, <1>6
    <3> QED BY <2>1, <2>2, <3>1, <3>2 DEF Once
  <2> QED BY <2>3, <2>4
<1> QED
  BY <1>2, <1>3, <1>7, <1>8, <1>9, <1>10, <1>11, <1>12 DEF PInv, Base, a, new

----------------------------------------------------------------------------
(* The theorems. *)

\* What one step does to the order and its actions: it enters a line and
\* completes the action, or it leaves the order alone and changes one row.
LEMMA StepPInv ==
  ASSUME PInv, [Next]_vars
  PROVE  /\ PInv'
         /\ [\E a \in Actions : Ledger!Amend(a) \/ Ledger!Reopen(a)]_<<notes, {a \in Actions : status[a] = "completed"}>>
<1> DEFINE done == {a \in Actions : status[a] = "completed"}
<1>1. ASSUME NEW a \in Actions, UNCHANGED notes,
             \E v \in {"pending", "failed"} : status' = [status EXCEPT ![a] = v]
      PROVE  Ledger!Reopen(a) \/ UNCHANGED <<notes, done>>
  BY <1>1 DEF PInv, Base, TypeOK, Ledger!Reopen
<1>2. ASSUME NEW s \in Sessions, CommitAmendment(s)
      PROVE  PInv' /\ \E a \in Actions : Ledger!Amend(a)
  <2>1. /\ PInv' /\ job[s] \in Actions /\ notes' = Append(notes, job[s])
        /\ status' = [status EXCEPT ![job[s]] = "completed"]
    BY <1>2, CommitPInv
  <2>2. done' = done \cup {job[s]}
    BY <2>1 DEF PInv, Base, TypeOK
  <2> QED BY <2>1, <2>2 DEF Ledger!Amend
<1>3. ASSUME NEW s \in Sessions, Begin(s) \/ Work(s) \/ Fault(s), ~CommitAmendment(s)
      PROVE  PInv' /\ ((\E a \in Actions : Ledger!Reopen(a)) \/ UNCHANGED <<notes, done>>)
  <2>1. CASE Begin(s) \/ ReadOrder(s) \/ UpdateWhereVersion(s)
    BY <2>1, BeginPInv, ReadPInv
  <2>2. CASE Retry(s)
    BY <2>2, <1>1, RetryPInv
  <2>3. CASE HandleFailure(s) \/ Fault(s)
    BY <2>3, <1>1, EndPInv
  <2> QED BY <1>3, <2>1, <2>2, <2>3 DEF Work
<1>4. CASE Next
  BY <1>2, <1>3, <1>4 DEF Next
<1>5. CASE UNCHANGED vars
  BY <1>5 DEF vars, order, rows, PInv, Base, TypeOK, JobInv, LockInv, ReadInv, ChargeInv, DoneInv, OnceInv, Once
<1> QED BY <1>4, <1>5

\* The inductive invariant of a purchase order: types, the lock's owner, what
\* a read row is worth, and the rows of the actions that nobody shares.
THEOREM OrderInvariant == Spec => []PInv
BY InitPInv, StepPInv, PTL DEF Spec

\* No committed amendment is ever lost to a concurrent one.
THEOREM NoUpdateIsLost == Spec => []NoLostUpdate
<1>1. PInv => NoLostUpdate
  BY DEF PInv, Base, TypeOK, ChargeInv, DoneInv, NoLostUpdate, Range
<1> QED BY <1>1, OrderInvariant, PTL

\* Over all crashes, conflicts, time-outs and retries, an action that two
\* sessions have never held at once amends the order exactly if it is
\* completed, and once.
THEOREM AmendedOnce == Spec => []AmendedOnceUnlessShared
<1>1. ASSUME PInv PROVE AmendedOnceUnlessShared
  <2> SUFFICES ASSUME NEW a \in Actions, a \notin shared
               PROVE  /\ a \in Range(notes) <=> status[a] = "completed"
                      /\ \A i, j \in DOMAIN notes : notes[i] = a /\ notes[j] = a => i = j
    BY DEF AmendedOnceUnlessShared
  <2>1. DOMAIN notes = 1 .. Len(notes)
    BY <1>1 DEF PInv, Base, TypeOK
  <2>2. Once(a) /\ (status[a] = "completed" => \E i \in 1 .. Len(notes) : notes[i] = a)
    BY <1>1 DEF PInv, OnceInv, DoneInv
  <2> QED BY <2>1, <2>2 DEF Once, Range
<1> QED BY <1>1, OrderInvariant, PTL

\* An attempt is charged only when the order has been amended meanwhile.
THEOREM ChargesAreBounded == Spec => []ChargedOnlyForConflicts
<1>1. PInv => ChargedOnlyForConflicts
  BY DEF PInv, Base, ChargeInv, ChargedOnlyForConflicts
<1> QED BY <1>1, OrderInvariant, PTL

\* The order, its lock, its transactions and the stale copies of its actions
\* implement the ledger.
THEOREM OrderIsLedger == Spec => LedgerSpec
<1>1. Init => Ledger!LedgerInit
  BY DEF Init, Ledger!LedgerInit
<1>2. PInv /\ [Next]_vars =>
        [\E a \in Actions : Ledger!Amend(a) \/ Ledger!Reopen(a)]_<<notes, {a \in Actions : status[a] = "completed"}>>
  BY StepPInv
<1> QED BY <1>1, <1>2, OrderInvariant, PTL DEF Spec, LedgerSpec, Ledger!LedgerSpec
=============================================================================
