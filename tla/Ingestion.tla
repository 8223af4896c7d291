------------------------------ MODULE Ingestion ------------------------------
(***************************************************************************)
(* Deliveries of one webhook, all with the same Idempotency-Key, some of   *)
(* them at the same time and on different pods: services/incidents.py      *)
(* (ingest_delay and ingest_absence are alike), routers/incidents.py and   *)
(* the request timeout of main.py.                                         *)
(***************************************************************************)
EXTENDS Naturals, FiniteSets

CONSTANT Deliveries     \* HTTP requests that carry the webhook

Nobody == "nobody"

ASSUME IngestionAssumption == Nobody \notin Deliveries

VARIABLES
  creator,      \* who committed the incident, Nobody before it exists
  inserting,    \* who has its row in the unique index, uncommitted
  pc,           \* where each request's thread stands
  answer,       \* the response its client has got
  incidents,    \* incidents committed (history)
  dispatches,   \* calls of dispatch_incident_actions (history)
  finished      \* one of them has returned (history)

vars == <<creator, inserting, pc, answer, incidents, dispatches, finished>>

Working == {"checked", "conflict", "inserted", "committed", "dispatching", "dispatched"}

TypeOK ==
  /\ creator    \in Deliveries \cup {Nobody}
  /\ inserting  \in Deliveries \cup {Nobody}
  /\ pc         \in [Deliveries -> Working \cup {"idle", "done", "raised", "dead"}]
  /\ answer     \in [Deliveries -> {"none", "created", "duplicate", "error", "timed_out"}]
  /\ incidents  \in Nat
  /\ dispatches \in Nat
  /\ finished   \in BOOLEAN

Go(p, to) == pc' = [pc EXCEPT ![p] = to]

\* The response, unless the client has had its 504 already.
Respond(p, response) ==
  /\ Go(p, "done")
  /\ answer' = [answer EXCEPT ![p] = IF @ = "none" THEN response ELSE @]

Exists == creator # Nobody

----------------------------------------------------------------------------
\* find_by_idempotency_key: nothing there yet, or a duplicate.
FindNothing(p) ==
  /\ pc[p] = "idle"
  /\ ~Exists
  /\ Go(p, "checked")
  /\ UNCHANGED <<creator, inserting, answer, incidents, dispatches, finished>>

FindDuplicate(p) ==
  /\ pc[p] = "idle"
  /\ Exists
  /\ Respond(p, "duplicate")
  /\ UNCHANGED <<creator, inserting, incidents, dispatches, finished>>

\* Mutation: the column is not unique.
FlushUnchecked(p) ==
  /\ pc[p] = "checked"
  /\ inserting' = p
  /\ Go(p, "inserted")
  /\ UNCHANGED <<creator, answer, incidents, dispatches, finished>>

\* db.flush() inserts the row.  The unique index makes it wait for a
\* transaction that has inserted the same key, and fail if that one commits.
Flush(p) ==
  /\ pc[p] = "checked"
  /\ inserting = Nobody
  /\ \/ ~Exists /\ inserting' = p /\ Go(p, "inserted")
     \/ Exists /\ Go(p, "conflict") /\ UNCHANGED inserting
  /\ UNCHANGED <<creator, answer, incidents, dispatches, finished>>

\* The wait outlasts statement_timeout: not an IntegrityError, so a 500.
StatementTimeout(p) ==
  /\ pc[p] = "checked"
  /\ inserting # Nobody
  /\ Respond(p, "error")
  /\ UNCHANGED <<creator, inserting, incidents, dispatches, finished>>

\* Mutation: the loser of the race dispatches as well.
DispatchExisting(p) ==
  /\ pc[p] = "conflict"
  /\ IF Exists THEN Go(p, "committed") /\ UNCHANGED answer ELSE Respond(p, "error")
  /\ UNCHANGED <<creator, inserting, incidents, dispatches, finished>>

\* After IntegrityError and rollback: the winner's incident, or the exception.
FindWinner(p) ==
  /\ pc[p] = "conflict"
  /\ Respond(p, IF Exists THEN "duplicate" ELSE "error")
  /\ UNCHANGED <<creator, inserting, incidents, dispatches, finished>>

\* The incident is committed with its actions and approvals.
CommitIncident(p) ==
  /\ pc[p] = "inserted"
  /\ creator'   = p
  /\ inserting' = Nobody
  /\ incidents' = incidents + 1
  /\ Go(p, "committed")
  /\ UNCHANGED <<answer, dispatches, finished>>

\* The database refuses: everything is rolled back.
CommitFails(p) ==
  /\ pc[p] = "inserted"
  /\ inserting' = Nobody
  /\ Respond(p, "error")
  /\ UNCHANGED <<creator, incidents, dispatches, finished>>

\* After a refresh of the incident: dispatch_incident_actions is called.
Dispatch(p) ==
  /\ pc[p] = "committed"
  /\ dispatches' = dispatches + 1
  /\ Go(p, "dispatching")
  /\ UNCHANGED <<creator, inserting, answer, incidents, finished>>

\* The rows are enqueued and that is committed, or executed one by one.
FinishDispatch(p) ==
  /\ pc[p] = "dispatching"
  /\ finished' = TRUE
  /\ Go(p, "dispatched")
  /\ UNCHANGED <<creator, inserting, answer, incidents, dispatches>>

Created(p) ==
  /\ pc[p] = "dispatched"
  /\ Respond(p, "created")
  /\ UNCHANGED <<creator, inserting, incidents, dispatches, finished>>

\* The database fails one of the statements after the commit: either refresh,
\* the enqueue's UPDATE or its commit, any step of an inline execution.  The
\* incident stays, dispatched or not, and the client gets a 500.
RaiseAfterCommit(p) ==
  /\ pc[p] \in {"committed", "dispatching", "dispatched"}
  /\ Go(p, "raised")
  /\ answer' = [answer EXCEPT ![p] = IF @ = "none" THEN "error" ELSE @]
  /\ UNCHANGED <<creator, inserting, incidents, dispatches, finished>>

\* Mutation: the middleware ends the handler.
EndRequest(p) ==
  /\ pc[p] \in Working
  /\ answer[p] = "none"
  /\ answer' = [answer EXCEPT ![p] = "timed_out"]
  /\ Go(p, "cancelled")
  /\ UNCHANGED <<creator, inserting, incidents, dispatches, finished>>

\* request_timeout_middleware: a thread of the pool cannot be cancelled.
RequestTimeout(p) ==
  /\ pc[p] \in Working
  /\ answer[p] = "none"
  /\ answer' = [answer EXCEPT ![p] = "timed_out"]
  /\ UNCHANGED <<creator, inserting, pc, incidents, dispatches, finished>>

\* The pod dies: PostgreSQL rolls its transaction back.
PodDies(p) ==
  /\ pc[p] \in Working
  /\ Go(p, "dead")
  /\ inserting' = IF inserting = p THEN Nobody ELSE inserting
  /\ UNCHANGED <<creator, answer, incidents, dispatches, finished>>

----------------------------------------------------------------------------
Init ==
  /\ creator    = Nobody
  /\ inserting  = Nobody
  /\ pc         = [p \in Deliveries |-> "idle"]
  /\ answer     = [p \in Deliveries |-> "none"]
  /\ incidents  = 0
  /\ dispatches = 0
  /\ finished   = FALSE

Find(p) == FindNothing(p) \/ FindDuplicate(p)

Work(p) ==
  \/ Flush(p) \/ FindWinner(p) \/ CommitIncident(p)
  \/ Dispatch(p) \/ FinishDispatch(p) \/ Created(p)

Fault(p) ==
  \/ StatementTimeout(p) \/ CommitFails(p) \/ RaiseAfterCommit(p)
  \/ RequestTimeout(p) \/ PodDies(p)

Next == \E p \in Deliveries : Find(p) \/ Work(p) \/ Fault(p)

Spec == Init /\ [][Next]_vars

\* A thread goes on to the end of its handler; deliveries need not come.
FairSpec == Spec /\ \A p \in Deliveries : WF_vars(Work(p))

----------------------------------------------------------------------------
(* Properties. *)

\* However many times the webhook is delivered, at once or again after a
\* failure, it makes one incident, dispatched once.
OneIncident == incidents <= 1 /\ dispatches <= incidents

\* A client told that the incident was created, or is there already, can rely
\* on its commit; the one told that it was created, also on its dispatch.
AnswerIsTrue ==
  /\ \A p \in Deliveries : answer[p] \in {"created", "duplicate"} => Exists
  /\ \A p \in Deliveries : answer[p] = "created" => p = creator /\ finished

\* A committed incident is dispatched to the end, a 504 to its creator or not,
\* unless the creator's pod dies or its handler raises in between: then no
\* other delivery does it, they are all answered as duplicates.
DispatchedUnlessCreatorFails ==
  Exists ~> (finished \/ \E p \in Deliveries : creator = p /\ pc[p] \in {"dead", "raised"})

=============================================================================
