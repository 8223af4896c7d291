---------------------------- MODULE ConnectorPool ----------------------------
(***************************************************************************)
(* The thread pool all connectors share (resilience.py, with_timeout).  A  *)
(* caller that times out abandons its future but not the job behind it,    *)
(* which keeps its place in the queue, or its thread, until it is done.    *)
(***************************************************************************)
EXTENDS CircuitBreaker

CONSTANTS
  Threads,      \* _timeout_pool: max_workers=4 in the code
  Reliable,     \* connectors whose provider always answers
  MaxChanges,   \* bound of the runs: how often providers go down or come up
  MaxQueue      \* bound of the runs: jobs in the queue, unbounded in the code

ASSUME PoolAssumption ==
  /\ Reliable \subseteq Connectors
  /\ {MaxChanges, MaxQueue} \subseteq Nat
  /\ "nobody" \notin Callers

VARIABLES
  queue,        \* jobs submitted and not started
  thread,       \* the job a thread runs, Free if none
  future,       \* what future.result of a caller has
  changes       \* changes of the providers so far

poolVars == <<breakerVars, queue, thread, future, changes>>

Job  == [by : Callers \cup {"nobody"}, to : Connectors]
Free == [by |-> "nobody", to |-> "idle"]

PoolTypeOK ==
  /\ BreakerTypeOK
  /\ queue   \in Seq(Job)
  /\ thread  \in [Threads -> Job \cup {Free}]
  /\ future  \in [Callers -> {"none", "waiting", "ok", "error"}]
  /\ changes \in 0 .. MaxChanges

Hung(w)  == thread[w] # Free /\ ~up[thread[w].to]
Running  == {w \in Threads : thread[w] # Free}

----------------------------------------------------------------------------
\* A connector asks its breaker, and with_timeout submits the call.
Submit(t, c) ==
  /\ Len(queue) < MaxQueue
  /\ AllowRequest(t, c)
  /\ queue'  = Append(queue, [by |-> t, to |-> c])
  /\ future' = [future EXCEPT ![t] = "waiting"]
  /\ UNCHANGED <<thread, changes>>

StartJob(w) ==
  /\ thread[w] = Free
  /\ queue # <<>>
  /\ thread' = [thread EXCEPT ![w] = Head(queue)]
  /\ queue'  = Tail(queue)
  /\ UNCHANGED <<breakerVars, future, changes>>

\* Mutation: a job whose caller has gone is started over.
KeepOrphan(w) ==
  /\ thread[w] # Free
  /\ LET job == thread[w]
         got == IF up[job.to] THEN "ok" ELSE "error"
     IN  future' = [t \in Callers |-> IF t = job.by THEN got ELSE future[t]]
  /\ thread' = [thread EXCEPT ![w] = IF @.by = "nobody" THEN @ ELSE Free]
  /\ UNCHANGED <<breakerVars, queue, changes>>

\* The job is done: with an answer of a provider that is up, with an error,
\* or a socket timeout, of one that is not, or may not be for some time.
FinishJob(w) ==
  /\ thread[w] # Free
  /\ LET job == thread[w]
         got == IF up[job.to] THEN "ok" ELSE "error"
     IN  future' = [t \in Callers |-> IF t = job.by THEN got ELSE future[t]]
  /\ thread' = [thread EXCEPT ![w] = Free]
  /\ UNCHANGED <<breakerVars, queue, changes>>

Forget(t) == future' = [future EXCEPT ![t] = "none"]

\* future.result returns, and the connector records what it got.
Settle(t, c) ==
  /\ \/ future[t] = "ok" /\ Succeeds(t, c)
     \/ future[t] = "error" /\ (Fails(t, c) \/ Raises(t, c))
  /\ Forget(t)
  /\ UNCHANGED <<queue, thread, changes>>

\* Mutation: the job of a call that timed out keeps its caller.
KeepCaller(t, c) ==
  /\ future[t] = "waiting"
  /\ \A w \in Threads : Hung(w)
  /\ Fails(t, c)
  /\ Forget(t)
  /\ UNCHANGED <<queue, thread, changes>>

\* Mutation: the timeout runs from the start of the job.
TimesOutInThread(t, c) ==
  /\ future[t] = "waiting"
  /\ \E w \in Threads : thread[w].by = t /\ Hung(w)
  /\ Fails(t, c)
  /\ Forget(t)
  /\ queue'  = queue
  /\ thread' = [w \in Threads |->
                  IF thread[w].by = t THEN [thread[w] EXCEPT !.by = "nobody"] ELSE thread[w]]
  /\ UNCHANGED changes

\* future.result times out: only of a call whose provider is down, or that
\* waits behind such calls in every thread.  (A provider that is up answers
\* at once.)
TimesOut(t, c) ==
  /\ future[t] = "waiting"
  /\ \/ \E w \in Threads : thread[w].by = t /\ Hung(w)
     \/ \A w \in Threads : Hung(w)
  /\ Fails(t, c)
  /\ Forget(t)
  /\ queue'  = [i \in DOMAIN queue |->
                  IF queue[i].by = t THEN [queue[i] EXCEPT !.by = "nobody"] ELSE queue[i]]
  /\ thread' = [w \in Threads |->
                  IF thread[w].by = t THEN [thread[w] EXCEPT !.by = "nobody"] ELSE thread[w]]
  /\ UNCHANGED changes

Change(c) ==
  /\ c \notin Reliable
  /\ changes < MaxChanges
  /\ changes' = changes + 1
  /\ ProviderChanges(c)
  /\ UNCHANGED <<queue, thread, future>>

Elapse(c) == (RecoveryTimeout(c) \/ HealthCheck(c)) /\ UNCHANGED <<queue, thread, future, changes>>

----------------------------------------------------------------------------
PoolInit ==
  /\ BreakerInit
  /\ queue   = <<>>
  /\ thread  = [w \in Threads |-> Free]
  /\ future  = [t \in Callers |-> "none"]
  /\ changes = 0

CallerStep(t, c) == Submit(t, c) \/ Settle(t, c) \/ TimesOut(t, c)

PoolNext ==
  \/ \E t \in Callers, c \in Connectors : CallerStep(t, c)
  \/ \E w \in Threads : StartJob(w) \/ FinishJob(w)
  \/ \E c \in Connectors : Change(c) \/ Elapse(c)

PoolSpec == PoolInit /\ [][PoolNext]_poolVars

\* A free thread takes the next job, a provider that is up answers, a caller
\* notices its answer or its timeout, time passes.  A hung call need not end.
PoolFairSpec ==
  /\ PoolSpec
  /\ \A w \in Threads :
       /\ WF_poolVars(StartJob(w))
       /\ WF_poolVars(~Hung(w) /\ FinishJob(w))
  /\ \A t \in Callers, c \in Connectors : WF_poolVars(Settle(t, c) \/ TimesOut(t, c))
  /\ \A c \in Connectors : WF_poolVars(~elapsed[c] /\ Elapse(c))

----------------------------------------------------------------------------
(* Properties. *)

\* A caller waits for exactly one job, and a job that answers nobody was
\* abandoned by its own caller: no late answer reaches a caller's next call.
OneJobPerWait ==
  \A t \in Callers :
    /\ \A i, j \in DOMAIN queue : queue[i].by = t /\ queue[j].by = t => i = j
    /\ \A v, w \in Threads : thread[v].by = t /\ thread[w].by = t => v = w
    /\ ~ \E i \in DOMAIN queue, w \in Threads : queue[i].by = t /\ thread[w].by = t
    /\ (future[t] = "waiting") <=>
         \/ \E i \in DOMAIN queue  : queue[i].by = t /\ queue[i].to = calling[t]
         \/ \E w \in Threads : thread[w].by = t /\ thread[w].to = calling[t]

\* Whatever hangs, a call returns to its action.
EveryCallReturns ==
  \A t \in Callers : (future[t] = "waiting") ~> (calling[t] = "idle")

\* Once every provider answers for good, the jobs of calls given up long ago
\* are worked off and the pool is free for the calls of the present.
OrphansAreWorkedOff ==
  (\A c \in Connectors : <>[]up[c])
    => <>[](/\ \A i \in DOMAIN queue : queue[i].by # "nobody"
            /\ \A w \in Running : thread[w].by # "nobody")

\* Once every provider answers for good, a breaker whose connector is called
\* while that is allowed, and that is consulted when its recovery is due,
\* closes and stays closed, whatever late results of the outage arrive.
Recovers ==
  (\A c \in Connectors : <>[]up[c]) =>
    \A c \in Connectors :
      (/\ []<>(state[c] = "open" \/ \E t \in Callers : calling[t] = c)
       /\ []<>~Recovering(c))
        => <>[](state[c] = "closed")
=============================================================================
