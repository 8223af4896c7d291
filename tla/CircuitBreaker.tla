--------------------------- MODULE CircuitBreaker ---------------------------
(***************************************************************************)
(* The circuit breakers of one process (resilience.py) and the connectors  *)
(* that consult them (services/connectors/slack.py, email.py,              *)
(* twilio_voice.py): a caller asks allow_request, makes its network call,  *)
(* and records the result.  Each method holds the breaker's lock; the call *)
(* between them does not, so results arrive after the state has moved on.  *)
(***************************************************************************)
EXTENDS Integers, Sequences

CONSTANTS
  Connectors,   \* the names get_circuit_breaker is called with
  Callers,      \* threads that execute actions
  Threshold     \* settings.cb_failure_threshold

ASSUME BreakerAssumption ==
  /\ Threshold \in Nat \ {0, 1}   \* min_value=2
  /\ "idle" \notin Connectors

VARIABLES
  state,        \* CircuitBreaker._state
  failures,     \* CircuitBreaker._failure_count
  probes,       \* CircuitBreaker._half_open_successes
  elapsed,      \* recovery_timeout_s has passed since _last_failure_time
  up,           \* the provider answers the calls that end now
  calling,      \* the connector whose call a caller is making, or "idle"
  results       \* the last Threshold results recorded (history)

breaker     == <<state, failures, probes, elapsed>>
breakerVars == <<breaker, up, calling, results>>

CircuitState == {"closed", "open", "half_open"}

BreakerTypeOK ==
  /\ state    \in [Connectors -> CircuitState]
  /\ failures \in [Connectors -> Nat]
  /\ probes   \in [Connectors -> Nat]
  /\ elapsed  \in [Connectors -> BOOLEAN]
  /\ up       \in [Connectors -> BOOLEAN]
  /\ calling  \in [Callers -> Connectors \cup {"idle"}]
  /\ results  \in [Connectors -> Seq(BOOLEAN)]

Remember(c, ok) ==
  LET log == Append(results[c], ok)
  IN  results' = [results EXCEPT ![c] = IF Len(log) > Threshold THEN Tail(log) ELSE log]

\* _failure_count is only compared with the threshold: counting stops there.
Counted(n) == IF n < Threshold THEN n + 1 ELSE n

----------------------------------------------------------------------------
(* CircuitBreaker. *)

Recovering(c) == state[c] = "open" /\ elapsed[c]

\* The property state, which every reader may use to leave OPEN.
ReadState(c) ==
  /\ state'  = [state  EXCEPT ![c] = IF Recovering(c) THEN "half_open" ELSE @]
  /\ probes' = [probes EXCEPT ![c] = IF Recovering(c) THEN 0 ELSE @]
  /\ UNCHANGED <<failures, elapsed>>

\* Mutation: every probe starts the count of probes anew.
ForgetProbe(c) ==
  LET probed == state[c] = "half_open"
      closes == probed /\ probes[c] + 1 >= 2
  IN  /\ probes'   = [probes   EXCEPT ![c] = 0]
      /\ state'    = [state    EXCEPT ![c] = IF closes THEN "closed" ELSE @]
      /\ failures' = [failures EXCEPT ![c] = IF ~probed \/ closes THEN 0 ELSE @]
      /\ Remember(c, TRUE)
      /\ UNCHANGED elapsed

\* Mutation: a success does not end a run of failures.
KeepFailures(c) ==
  LET probed == state[c] = "half_open"
      closes == probed /\ probes[c] + 1 >= 2
  IN  /\ probes'   = [probes   EXCEPT ![c] = IF probed THEN @ + 1 ELSE @]
      /\ state'    = [state    EXCEPT ![c] = IF closes THEN "closed" ELSE @]
      /\ failures' = [failures EXCEPT ![c] = IF closes THEN 0 ELSE @]
      /\ Remember(c, TRUE)
      /\ UNCHANGED elapsed

RecordSuccess(c) ==
  LET probed == state[c] = "half_open"
      closes == probed /\ probes[c] + 1 >= 2
  IN  /\ probes'   = [probes   EXCEPT ![c] = IF probed THEN @ + 1 ELSE @]
      /\ state'    = [state    EXCEPT ![c] = IF closes THEN "closed" ELSE @]
      /\ failures' = [failures EXCEPT ![c] = IF ~probed \/ closes THEN 0 ELSE @]
      /\ Remember(c, TRUE)
      /\ UNCHANGED elapsed

\* Mutation: a failed probe only counts.
CountFailure(c) ==
  LET opens == failures[c] + 1 >= Threshold
  IN  /\ failures' = [failures EXCEPT ![c] = Counted(@)]
      /\ elapsed'  = [elapsed  EXCEPT ![c] = FALSE]
      /\ state'    = [state    EXCEPT ![c] = IF opens /\ @ # "half_open" THEN "open" ELSE @]
      /\ Remember(c, FALSE)
      /\ UNCHANGED probes

RecordFailure(c) ==
  LET opens == state[c] = "half_open" \/ failures[c] + 1 >= Threshold
  IN  /\ failures' = [failures EXCEPT ![c] = Counted(@)]
      /\ elapsed'  = [elapsed  EXCEPT ![c] = FALSE]
      /\ state'    = [state    EXCEPT ![c] = IF opens THEN "open" ELSE @]
      /\ Remember(c, FALSE)
      /\ UNCHANGED probes

----------------------------------------------------------------------------
(* The connectors: send_message, send_email, make_call. *)

\* allow_request says yes: the caller goes on to its network call.
AllowRequest(t, c) ==
  /\ calling[t] = "idle"
  /\ state[c] # "open" \/ Recovering(c)
  /\ ReadState(c)
  /\ calling' = [calling EXCEPT ![t] = c]
  /\ UNCHANGED <<up, results>>

\* The readiness probe reads every state: an OPEN breaker may leave OPEN here.
HealthCheck(c) ==
  /\ Recovering(c)
  /\ ReadState(c)
  /\ UNCHANGED <<up, calling, results>>

Return(t) == calling' = [calling EXCEPT ![t] = "idle"]

Succeeds(t, c) ==
  /\ calling[t] = c
  /\ RecordSuccess(c)
  /\ Return(t)
  /\ UNCHANGED up

\* ConnectorTimeout, or the provider's own exception.
Fails(t, c) ==
  /\ calling[t] = c
  /\ RecordFailure(c)
  /\ Return(t)
  /\ UNCHANGED up

\* Another exception (a network error in Slack or Twilio): nothing recorded.
Raises(t, c) ==
  /\ calling[t] = c
  /\ Return(t)
  /\ UNCHANGED <<breaker, up, results>>

\* What a call came to was settled when it ended; the provider may have gone
\* down or come up before the caller is scheduled to record it.
CallEnds(t, c) == Succeeds(t, c) \/ Fails(t, c) \/ Raises(t, c)

RecoveryTimeout(c) ==
  /\ ~elapsed[c]
  /\ elapsed' = [elapsed EXCEPT ![c] = TRUE]
  /\ UNCHANGED <<state, failures, probes, up, calling, results>>

ProviderChanges(c) ==
  /\ up' = [up EXCEPT ![c] = ~@]
  /\ UNCHANGED <<breaker, calling, results>>

----------------------------------------------------------------------------
BreakerInit ==
  /\ state    = [c \in Connectors |-> "closed"]
  /\ failures = [c \in Connectors |-> 0]
  /\ probes   = [c \in Connectors |-> 0]
  /\ elapsed  = [c \in Connectors |-> TRUE]
  /\ up       = [c \in Connectors |-> TRUE]
  /\ calling  = [t \in Callers |-> "idle"]
  /\ results  = [c \in Connectors |-> <<>>]

BreakerNext ==
  \E c \in Connectors :
    \/ \E t \in Callers : AllowRequest(t, c) \/ CallEnds(t, c)
    \/ HealthCheck(c)
    \/ RecoveryTimeout(c)
    \/ ProviderChanges(c)

BreakerSpec == BreakerInit /\ [][BreakerNext]_breakerVars

----------------------------------------------------------------------------
(* Properties. *)

\* The last n results recorded were all equal to ok.
LastResults(log, n, ok) ==
  /\ Len(log) >= n
  /\ \A i \in (Len(log) - n + 1) .. Len(log) : log[i] = ok

\* A closed breaker always has failures left before it opens, whatever late
\* results were recorded while it was open or half open.
ClosedBelowThreshold == \A c \in Connectors : state[c] = "closed" => failures[c] < Threshold

\* A half-open breaker has fewer than the two successes that close it.
HalfOpenIsUndecided == \A c \in Connectors : state[c] = "half_open" => probes[c] < 2

\* A closed breaker opens only after Threshold failures in a row: no
\* success, and no failure of an earlier outage, is counted with them.
OpensOnAStreak ==
  [][\A c \in Connectors :
       state[c] = "closed" /\ state[c]' = "open"
         => LastResults(results[c]', Threshold, FALSE)]_breakerVars

\* A breaker closes only on two successes in a row and
\* never with a failure between them.
ClosesOnSuccesses ==
  [][\A c \in Connectors :
       state[c] # "closed" /\ state[c]' = "closed"
         => LastResults(results[c]', 2, TRUE)]_breakerVars

=============================================================================
