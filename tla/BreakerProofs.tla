--------------------------- MODULE BreakerProofs ---------------------------
(***************************************************************************)
(* The circuit breakers for any number of connectors and callers and any   *)
(* threshold: however late the results of old calls are recorded, and in   *)
(* whatever state, the breaker opens and closes only on a streak.  Then    *)
(* the pool, for any number of threads: it is one way of using breakers,   *)
(* and no answer reaches a call it was not meant for.                      *)
(***************************************************************************)
EXTENDS ConnectorPool, TLAPS

\* The counters are streaks of the results recorded last.
StreakInv ==
  \A c \in Connectors :
    /\ Len(results[c]) <= Threshold
    /\ state[c] = "closed" =>
         failures[c] < Threshold /\ LastResults(results[c], failures[c], FALSE)
    /\ state[c] = "half_open" =>
         probes[c] < 2 /\ LastResults(results[c], probes[c], TRUE)

BInv == BreakerTypeOK /\ StreakInv

LEMMA InitBInv == BreakerInit => BInv
BY BreakerAssumption DEF BreakerInit, BInv, BreakerTypeOK, CircuitState, StreakInv, LastResults

\* No results make a streak of length zero.
LEMMA EmptyStreak ==
  ASSUME NEW log \in Seq(BOOLEAN), NEW ok \in BOOLEAN
  PROVE  LastResults(log, 0, ok)
BY DEF LastResults

\* The log after one more result, and the streak it prolongs.
LEMMA OneMore ==
  ASSUME NEW log \in Seq(BOOLEAN), Len(log) <= Threshold,
         NEW ok \in BOOLEAN, NEW new,
         new = IF Len(Append(log, ok)) > Threshold THEN Tail(Append(log, ok)) ELSE Append(log, ok)
  PROVE  /\ new \in Seq(BOOLEAN)
         /\ Len(new) <= Threshold
         /\ \A n \in 0 .. Threshold - 1 : LastResults(log, n, ok) => LastResults(new, n + 1, ok)
<1> DEFINE more == Append(log, ok)
<1>1. /\ more \in Seq(BOOLEAN)
      /\ Len(more) = Len(log) + 1
      /\ \A i \in 1 .. Len(log) : more[i] = log[i]
      /\ more[Len(log) + 1] = ok
  OBVIOUS
<1>2. Len(log) \in Nat /\ Threshold \in Nat /\ Threshold > 1
  BY BreakerAssumption
<1>3. \A n \in 0 .. Threshold - 1 : LastResults(log, n, ok) => LastResults(more, n + 1, ok)
  BY <1>1, <1>2 DEF LastResults
<1> HIDE DEF more
<1>4. CASE Len(more) <= Threshold
  <2>1. new = more
    BY <1>1, <1>2, <1>4 DEF more
  <2> QED BY <1>1, <1>3, <1>4, <2>1
<1>5. CASE Len(more) > Threshold
  <2>1. new = Tail(more)
    BY <1>5 DEF more
  <2>2. /\ Tail(more) \in Seq(BOOLEAN)
        /\ Len(Tail(more)) = Len(log)
        /\ \A i \in 1 .. Len(log) : Tail(more)[i] = more[i + 1]
    BY <1>1, <1>2, <1>5
  <2>3. Len(log) = Threshold
    BY <1>1, <1>2, <1>5
  <2>4. ASSUME NEW n \in 0 .. Threshold - 1, LastResults(more, n + 1, ok)
        PROVE  LastResults(Tail(more), n + 1, ok)
    <3>1. Len(Tail(more)) >= n + 1
      BY <2>2, <2>3, <1>2
    <3>2. ASSUME NEW i \in (Len(Tail(more)) - (n + 1) + 1) .. Len(Tail(more))
          PROVE  Tail(more)[i] = ok
      <4>1. i \in 1 .. Len(log)
        BY <2>2, <2>3, <1>2
      <4>2. i + 1 \in (Len(more) - (n + 1) + 1) .. Len(more)
        BY <2>2, <1>1, <1>2
      <4> QED BY <4>1, <4>2, <2>2, <2>4 DEF LastResults
    <3> QED BY <3>1, <3>2 DEF LastResults
  <2> QED BY <2>1, <2>2, <2>3, <2>4, <1>2, <1>3
<1> QED BY <1>1, <1>2, <1>4, <1>5

\* What Remember leaves behind.
LEMMA Remembered ==
  ASSUME BInv, NEW c \in Connectors, NEW ok \in BOOLEAN, Remember(c, ok)
  PROVE  /\ results' \in [Connectors -> Seq(BOOLEAN)]
         /\ \A d \in Connectors : Len(results'[d]) <= Threshold
         /\ \A d \in Connectors \ {c} : results'[d] = results[d]
         /\ \A n \in 0 .. Threshold - 1 :
              LastResults(results[c], n, ok) => LastResults(results'[c], n + 1, ok)
<1> DEFINE log == Append(results[c], ok)
           new == IF Len(log) > Threshold THEN Tail(log) ELSE log
<1>1. results \in [Connectors -> Seq(BOOLEAN)]
      /\ \A d \in Connectors : Len(results[d]) <= Threshold
  BY DEF BInv, BreakerTypeOK, StreakInv
<1>2. results' = [results EXCEPT ![c] = new]
  BY DEF Remember
<1>3. /\ new \in Seq(BOOLEAN)
      /\ Len(new) <= Threshold
      /\ \A n \in 0 .. Threshold - 1 : LastResults(results[c], n, ok) => LastResults(new, n + 1, ok)
  BY <1>1, OneMore
<1> HIDE DEF new
<1> QED BY <1>1, <1>2, <1>3

\* allow_request and the readiness probe: leaving OPEN starts a new streak.
LEMMA ReadStateBInv ==
  ASSUME BInv, NEW c \in Connectors, ReadState(c), UNCHANGED <<up, results>>,
         calling' \in [Callers -> Connectors \cup {"idle"}]
  PROVE  BInv'
<1>1. BreakerTypeOK'
  BY DEF BInv, BreakerTypeOK, CircuitState, ReadState
<1>2. ASSUME NEW d \in Connectors
      PROVE  /\ Len(results'[d]) <= Threshold
             /\ state'[d] = "closed" =>
                  failures'[d] < Threshold /\ LastResults(results'[d], failures'[d], FALSE)
             /\ state'[d] = "half_open" =>
                  probes'[d] < 2 /\ LastResults(results'[d], probes'[d], TRUE)
  <2>1. results[d] \in Seq(BOOLEAN) /\ results' = results /\ failures' = failures
    BY DEF BInv, BreakerTypeOK, ReadState
  <2>2. CASE d = c /\ Recovering(c)
    <3>1. state'[d] = "half_open" /\ probes'[d] = 0
      BY <2>2 DEF BInv, BreakerTypeOK, ReadState
    <3>2. LastResults(results'[d], probes'[d], TRUE)
      BY <2>1, <3>1, EmptyStreak
    <3>3. Len(results'[d]) <= Threshold
      BY <2>1 DEF BInv, StreakInv
    <3>4. probes'[d] < 2
      BY <3>1
    <3> QED BY <3>1, <3>2, <3>3, <3>4
  <2>3. CASE ~(d = c /\ Recovering(c))
    <3>1. state'[d] = state[d] /\ probes'[d] = probes[d]
      BY <2>3 DEF BInv, BreakerTypeOK, ReadState
    <3> QED BY <2>1, <3>1 DEF BInv, StreakInv
  <2> QED BY <2>2, <2>3
<1> QED BY <1>1, <1>2 DEF BInv, StreakInv

\* A recorded success prolongs a run of probes or ends a run of failures.
LEMMA SuccessBInv ==
  ASSUME BInv, NEW c \in Connectors, RecordSuccess(c), UNCHANGED up,
         calling' \in [Callers -> Connectors \cup {"idle"}]
  PROVE  /\ BInv'
         /\ state[c] # "closed" /\ state'[c] = "closed" => LastResults(results'[c], 2, TRUE)
<1> DEFINE probed == state[c] = "half_open"
           closes == probed /\ probes[c] + 1 >= 2
<1>1. /\ probes'   = [probes   EXCEPT ![c] = IF probed THEN @ + 1 ELSE @]
      /\ state'    = [state    EXCEPT ![c] = IF closes THEN "closed" ELSE @]
      /\ failures' = [failures EXCEPT ![c] = IF ~probed \/ closes THEN 0 ELSE @]
      /\ Remember(c, TRUE)
      /\ elapsed' = elapsed
  BY DEF RecordSuccess
<1>2. /\ results' \in [Connectors -> Seq(BOOLEAN)]
      /\ \A d \in Connectors : Len(results'[d]) <= Threshold
      /\ \A d \in Connectors \ {c} : results'[d] = results[d]
      /\ \A n \in 0 .. Threshold - 1 :
           LastResults(results[c], n, TRUE) => LastResults(results'[c], n + 1, TRUE)
  BY <1>1, Remembered
<1>3. BreakerTypeOK'
  <2>1. /\ state' \in [Connectors -> CircuitState] /\ elapsed' \in [Connectors -> BOOLEAN]
        /\ up' \in [Connectors -> BOOLEAN]
    BY <1>1 DEF BInv, BreakerTypeOK, CircuitState
  <2>2. failures' \in [Connectors -> Nat]
    BY <1>1 DEF BInv, BreakerTypeOK
  <2>3. probes' \in [Connectors -> Nat]
    BY <1>1 DEF BInv, BreakerTypeOK
  <2> QED BY <1>2, <2>1, <2>2, <2>3 DEF BreakerTypeOK
<1>4. Threshold \in Nat /\ Threshold > 1
  BY BreakerAssumption
<1>5. probed => LastResults(results'[c], probes[c] + 1, TRUE) /\ probes[c] \in {0, 1}
  <2>1. probes[c] \in Nat
    BY DEF BInv, BreakerTypeOK
  <2>2. probed => probes[c] < 2 /\ LastResults(results[c], probes[c], TRUE)
    BY DEF BInv, StreakInv
  <2>3. probed => probes[c] \in {0, 1}
    BY <2>1, <2>2
  <2>4. probed => probes[c] \in 0 .. Threshold - 1
    BY <2>3, <1>4
  <2> HIDE DEF probed
  <2> QED BY <1>2, <2>2, <2>3, <2>4
<1>6. ASSUME NEW d \in Connectors
      PROVE  /\ Len(results'[d]) <= Threshold
             /\ state'[d] = "closed" =>
                  failures'[d] < Threshold /\ LastResults(results'[d], failures'[d], FALSE)
             /\ state'[d] = "half_open" =>
                  probes'[d] < 2 /\ LastResults(results'[d], probes'[d], TRUE)
  <2>1. CASE d # c
    <3>1. /\ state'[d] = state[d] /\ probes'[d] = probes[d] /\ failures'[d] = failures[d]
          /\ results'[d] = results[d]
      BY <2>1, <1>1, <1>2 DEF BInv, BreakerTypeOK
    <3> QED BY <3>1 DEF BInv, StreakInv
  <2>2. CASE d = c /\ probed /\ ~closes
    <3>1. state'[d] = "half_open" /\ probes'[d] = probes[c] + 1 /\ probes[c] + 1 < 2
      BY <2>2, <1>1, <1>5 DEF BInv, BreakerTypeOK
    <3> QED BY <2>2, <3>1, <1>2, <1>5
  <2>3. CASE d = c /\ (~probed \/ closes)
    <3>1. failures'[d] = 0 /\ state'[d] # "half_open"
      BY <2>3, <1>1 DEF BInv, BreakerTypeOK
    <3>2. LastResults(results'[d], 0, FALSE)
      BY <1>2, EmptyStreak
    <3>3. LastResults(results'[d], failures'[d], FALSE)
      BY <3>1, <3>2, Zenon
    <3>4. Len(results'[d]) <= Threshold
      BY <1>2
    <3>5. failures'[d] < Threshold
      BY <3>1, <1>4
    <3> QED BY <3>1, <3>3, <3>4, <3>5
  <2> QED BY <2>1, <2>2, <2>3
<1>7. state[c] # "closed" /\ state'[c] = "closed" => LastResults(results'[c], 2, TRUE)
  <2>1. state'[c] = IF closes THEN "closed" ELSE state[c]
    BY <1>1 DEF BInv, BreakerTypeOK
  <2>2. closes => probes[c] + 1 = 2
    BY <1>5
  <2> QED BY <2>1, <2>2, <1>5
<1> QED BY <1>3, <1>6, <1>7 DEF BInv, StreakInv

\* A recorded failure opens the breaker or prolongs a run of failures.
LEMMA FailureBInv ==
  ASSUME BInv, NEW c \in Connectors, RecordFailure(c), UNCHANGED up,
         calling' \in [Callers -> Connectors \cup {"idle"}]
  PROVE  /\ BInv'
         /\ state[c] = "closed" /\ state'[c] = "open" => LastResults(results'[c], Threshold, FALSE)
         /\ state'[c] # "closed" \/ state[c] = "closed"
<1> DEFINE opens == state[c] = "half_open" \/ failures[c] + 1 >= Threshold
<1>1. /\ failures' = [failures EXCEPT ![c] = Counted(failures[c])]
      /\ elapsed'  = [elapsed  EXCEPT ![c] = FALSE]
      /\ state'    = [state    EXCEPT ![c] = IF opens THEN "open" ELSE @]
      /\ Remember(c, FALSE)
      /\ probes' = probes
  BY DEF RecordFailure
<1>2. /\ results' \in [Connectors -> Seq(BOOLEAN)]
      /\ \A d \in Connectors : Len(results'[d]) <= Threshold
      /\ \A d \in Connectors \ {c} : results'[d] = results[d]
      /\ \A n \in 0 .. Threshold - 1 :
           LastResults(results[c], n, FALSE) => LastResults(results'[c], n + 1, FALSE)
  BY <1>1, Remembered
<1>3. BreakerTypeOK'
  <2>1. state' \in [Connectors -> CircuitState]
    BY <1>1 DEF BInv, BreakerTypeOK, CircuitState
  <2>2. failures' \in [Connectors -> Nat]
    BY <1>1 DEF BInv, BreakerTypeOK, Counted
  <2>3. probes' \in [Connectors -> Nat] /\ up' \in [Connectors -> BOOLEAN]
    BY <1>1 DEF BInv, BreakerTypeOK
  <2>4. elapsed' \in [Connectors -> BOOLEAN]
    BY <1>1 DEF BInv, BreakerTypeOK
  <2> QED BY <1>2, <2>1, <2>2, <2>3, <2>4 DEF BreakerTypeOK
<1>4. Threshold \in Nat /\ Threshold > 1
  BY BreakerAssumption
<1>5. state[c] = "closed" =>
        failures[c] \in 0 .. Threshold - 1 /\ LastResults(results'[c], failures[c] + 1, FALSE)
  <2>1. failures[c] \in Nat
    BY DEF BInv, BreakerTypeOK
  <2>2. state[c] = "closed" =>
          failures[c] < Threshold /\ LastResults(results[c], failures[c], FALSE)
    BY DEF BInv, StreakInv
  <2>3. state[c] = "closed" => failures[c] \in 0 .. Threshold - 1
    BY <2>1, <2>2, <1>4
  <2> QED BY <1>2, <2>2, <2>3
<1>6. state'[c] = IF opens THEN "open" ELSE state[c]
  BY <1>1 DEF BInv, BreakerTypeOK
<1>7. ASSUME NEW d \in Connectors
      PROVE  /\ Len(results'[d]) <= Threshold
             /\ state'[d] = "closed" =>
                  failures'[d] < Threshold /\ LastResults(results'[d], failures'[d], FALSE)
             /\ state'[d] = "half_open" =>
                  probes'[d] < 2 /\ LastResults(results'[d], probes'[d], TRUE)
  <2>1. CASE d # c
    <3>1. /\ state'[d] = state[d] /\ probes'[d] = probes[d] /\ failures'[d] = failures[d]
          /\ results'[d] = results[d]
      BY <2>1, <1>1, <1>2 DEF BInv, BreakerTypeOK
    <3> QED BY <3>1 DEF BInv, StreakInv
  <2>2. CASE d = c /\ opens
    BY <2>2, <1>2, <1>6
  <2>3. CASE d = c /\ ~opens
    <3>1. failures'[d] = failures[c] + 1 /\ failures[c] + 1 < Threshold
      BY <2>3, <1>1, <1>4 DEF BInv, BreakerTypeOK, Counted
    <3> QED BY <2>3, <3>1, <1>2, <1>5, <1>6
  <2> QED BY <2>1, <2>2, <2>3
<1>8. state[c] = "closed" /\ state'[c] = "open" => LastResults(results'[c], Threshold, FALSE)
  <2>1. state[c] = "closed" /\ state'[c] = "open" => failures[c] + 1 = Threshold
    BY <1>4, <1>5, <1>6
  <2> QED BY <2>1, <1>5
<1> QED BY <1>3, <1>6, <1>7, <1>8 DEF BInv, StreakInv

\* What a step may do to a breaker's state.
OpensFairly(c) ==
  state[c] = "closed" /\ state'[c] = "open" => LastResults(results'[c], Threshold, FALSE)

ClosesFairly(c) ==
  state[c] # "closed" /\ state'[c] = "closed" => LastResults(results'[c], 2, TRUE)

\* A caller's step.
LEMMA CallBInv ==
  ASSUME BInv, NEW t \in Callers, NEW c \in Connectors,
         AllowRequest(t, c) \/ CallEnds(t, c)
  PROVE  BInv' /\ \A d \in Connectors : OpensFairly(d) /\ ClosesFairly(d)
<1>1. /\ state \in [Connectors -> CircuitState] /\ up' = up
      /\ calling' \in [Callers -> Connectors \cup {"idle"}]
  BY DEF BInv, BreakerTypeOK, AllowRequest, CallEnds, Succeeds, Fails, Raises, Return
<1>2. CASE AllowRequest(t, c)
  <2>1. ReadState(c) /\ UNCHANGED <<up, results>>
    BY <1>2 DEF AllowRequest
  <2>2. BInv'
    BY <1>1, <2>1, ReadStateBInv
  <2>3. \A d \in Connectors : state'[d] # state[d] => state[d] = "open" /\ state'[d] = "half_open"
    BY <1>1, <2>1 DEF ReadState, Recovering
  <2> QED BY <2>2, <2>3 DEF OpensFairly, ClosesFairly
<1>3. CASE Succeeds(t, c)
  <2>1. RecordSuccess(c) /\ UNCHANGED up
    BY <1>3 DEF Succeeds
  <2>2. BInv' /\ ClosesFairly(c)
    BY <1>1, <2>1, SuccessBInv DEF ClosesFairly
  <2>3. \A d \in Connectors : state'[d] # state[d] => d = c /\ state'[d] = "closed"
    BY <1>1, <2>1 DEF RecordSuccess
  <2> QED BY <2>2, <2>3 DEF OpensFairly, ClosesFairly
<1>4. CASE Fails(t, c)
  <2>1. RecordFailure(c) /\ UNCHANGED up
    BY <1>4 DEF Fails
  <2>2. BInv' /\ OpensFairly(c)
    BY <1>1, <2>1, FailureBInv DEF OpensFairly
  <2>3. \A d \in Connectors : state'[d] # state[d] => d = c /\ state'[d] = "open"
    BY <1>1, <2>1 DEF RecordFailure
  <2> QED BY <2>2, <2>3 DEF OpensFairly, ClosesFairly
<1>5. CASE Raises(t, c)
  <2>1. UNCHANGED <<breaker, up, results>>
    BY <1>5 DEF Raises
  <2>2. BInv'
    BY <1>1, <2>1 DEF breaker, BInv, BreakerTypeOK, StreakInv
  <2> QED BY <2>1, <2>2 DEF breaker, OpensFairly, ClosesFairly
<1> QED BY <1>2, <1>3, <1>4, <1>5 DEF CallEnds

\* Time passes, and the provider goes down and up.
LEMMA WorldBInv ==
  ASSUME BInv, NEW c \in Connectors, RecoveryTimeout(c) \/ ProviderChanges(c)
  PROVE  BInv' /\ \A d \in Connectors : OpensFairly(d) /\ ClosesFairly(d)
<1>1. UNCHANGED <<state, failures, probes, calling, results>>
  BY DEF RecoveryTimeout, ProviderChanges, breaker
<1>2. /\ elapsed' \in [Connectors -> BOOLEAN]
      /\ up' \in [Connectors -> BOOLEAN]
  BY DEF BInv, BreakerTypeOK, RecoveryTimeout, ProviderChanges, breaker
<1> QED BY <1>1, <1>2 DEF BInv, BreakerTypeOK, StreakInv, OpensFairly, ClosesFairly

\* The readiness probe needs no caller.
LEMMA ProbeBInv ==
  ASSUME BInv, NEW c \in Connectors, HealthCheck(c)
  PROVE  BInv' /\ \A d \in Connectors : OpensFairly(d) /\ ClosesFairly(d)
<1>1. ReadState(c) /\ UNCHANGED <<up, results, calling>>
  BY DEF HealthCheck
<1>2. state \in [Connectors -> CircuitState] /\ calling \in [Callers -> Connectors \cup {"idle"}]
  BY DEF BInv, BreakerTypeOK
<1>3. BInv'
  BY <1>1, <1>2, ReadStateBInv
<1>4. \A d \in Connectors : state'[d] # state[d] => state[d] = "open" /\ state'[d] = "half_open"
  BY <1>1, <1>2 DEF ReadState, Recovering
<1> QED BY <1>3, <1>4 DEF OpensFairly, ClosesFairly

LEMMA StepBInv ==
  ASSUME BInv, [BreakerNext]_breakerVars
  PROVE  BInv' /\ \A d \in Connectors : OpensFairly(d) /\ ClosesFairly(d)
<1>1. CASE BreakerNext
  BY <1>1, CallBInv, WorldBInv, ProbeBInv DEF BreakerNext
<1>2. CASE UNCHANGED breakerVars
  BY <1>2 DEF breakerVars, breaker, BInv, BreakerTypeOK, StreakInv, OpensFairly, ClosesFairly
<1> QED BY <1>1, <1>2

\* The inductive invariant: the counters are streaks of recorded results.
THEOREM BreakerInvariant == BreakerSpec => []BInv
BY InitBInv, StepBInv, PTL DEF BreakerSpec

\* A closed breaker has failures left before it opens.
THEOREM ClosedHasRoom == BreakerSpec => []ClosedBelowThreshold
<1>1. BInv => ClosedBelowThreshold
  BY DEF BInv, StreakInv, ClosedBelowThreshold
<1> QED BY <1>1, BreakerInvariant, PTL

\* A half-open breaker has fewer than the two successes that close it.
THEOREM HalfOpenHasRoom == BreakerSpec => []HalfOpenIsUndecided
<1>1. BInv => HalfOpenIsUndecided
  BY DEF BInv, StreakInv, HalfOpenIsUndecided
<1> QED BY <1>1, BreakerInvariant, PTL

\* A closed breaker opens only on Threshold failures recorded in a row.
THEOREM OpensOnlyOnAStreak == BreakerSpec => OpensOnAStreak
<1>1. BInv /\ [BreakerNext]_breakerVars =>
        [\A c \in Connectors :
           state[c] = "closed" /\ state[c]' = "open"
             => LastResults(results[c]', Threshold, FALSE)]_breakerVars
  BY StepBInv DEF OpensFairly
<1> QED BY <1>1, BreakerInvariant, PTL DEF BreakerSpec, OpensOnAStreak

\* A breaker closes only on two successes recorded in a row.
THEOREM ClosesOnlyOnSuccesses == BreakerSpec => ClosesOnSuccesses
<1>1. BInv /\ [BreakerNext]_breakerVars =>
        [\A c \in Connectors :
           state[c] # "closed" /\ state[c]' = "closed"
             => LastResults(results[c]', 2, TRUE)]_breakerVars
  BY StepBInv DEF ClosesFairly
<1> QED BY <1>1, BreakerInvariant, PTL DEF BreakerSpec, ClosesOnSuccesses

----------------------------------------------------------------------------
(* The pool. *)

\* To the breakers, the pool's queue and threads are not there.
LEMMA PoolStepIsBreakerStep == [PoolNext]_poolVars => [BreakerNext]_breakerVars
<1> SUFFICES ASSUME [PoolNext]_poolVars PROVE [BreakerNext]_breakerVars
  OBVIOUS
<1>1. ASSUME NEW t \in Callers, NEW c \in Connectors, CallerStep(t, c)
      PROVE  AllowRequest(t, c) \/ CallEnds(t, c)
  BY <1>1 DEF CallerStep, Submit, Settle, TimesOut, CallEnds
<1>2. ASSUME NEW w \in Threads, StartJob(w) \/ FinishJob(w)
      PROVE  UNCHANGED breakerVars
  BY <1>2 DEF StartJob, FinishJob
<1>3. ASSUME NEW c \in Connectors, Change(c) \/ Elapse(c)
      PROVE  ProviderChanges(c) \/ RecoveryTimeout(c) \/ HealthCheck(c)
  BY <1>3 DEF Change, Elapse
<1>4. UNCHANGED poolVars => UNCHANGED breakerVars
  BY DEF poolVars
<1> QED BY <1>1, <1>2, <1>3, <1>4 DEF PoolNext, BreakerNext

\* The pool implements the breakers: whatever queues, hangs or comes too late,
\* a breaker sees requests and results in an order it allows for.
THEOREM PoolUsesBreakers == PoolSpec => BreakerSpec
<1>1. PoolInit => BreakerInit
  BY DEF PoolInit
<1> QED BY <1>1, PoolStepIsBreakerStep, PTL DEF PoolSpec, BreakerSpec

\* A breaker of the pool opens only on Threshold failures recorded in a row.
THEOREM PoolOpensOnAStreak == PoolSpec => OpensOnAStreak
BY PoolUsesBreakers, OpensOnlyOnAStreak, PTL

\* A breaker of the pool closes only on two successes recorded in a row.
THEOREM PoolClosesOnSuccesses == PoolSpec => ClosesOnSuccesses
BY PoolUsesBreakers, ClosesOnlyOnSuccesses, PTL

\* The job of a caller, queued or in a thread, is the only one it has, is for
\* the connector it is calling, and is there just as long as the caller waits.
Matched(t) ==
  /\ future[t] = "none" <=> calling[t] = "idle"
  /\ \A i \in 1 .. Len(queue) :
       queue[i].by = t => future[t] = "waiting" /\ queue[i].to = calling[t]
  /\ \A w \in Threads : thread[w].by = t => future[t] = "waiting" /\ thread[w].to = calling[t]
  /\ \A i, j \in 1 .. Len(queue) : queue[i].by = t /\ queue[j].by = t => i = j
  /\ \A v, w \in Threads : thread[v].by = t /\ thread[w].by = t => v = w
  /\ \A i \in 1 .. Len(queue), w \in Threads : ~(queue[i].by = t /\ thread[w].by = t)
  /\ future[t] = "waiting" =>
       \/ \E i \in 1 .. Len(queue) : queue[i].by = t
       \/ \E w \in Threads : thread[w].by = t

PoolInv == BInv /\ PoolTypeOK /\ \A t \in Callers : Matched(t)

LEMMA InitPoolInv == PoolInit => PoolInv
<1> SUFFICES ASSUME PoolInit PROVE PoolInv
  OBVIOUS
<1>1. BInv
  BY InitBInv DEF PoolInit
<1>2. PoolTypeOK
  BY <1>1, PoolAssumption DEF PoolInit, PoolTypeOK, BInv
<1>3. \A t \in Callers : Matched(t)
  BY PoolAssumption DEF PoolInit, BreakerInit, Matched, Free
<1> QED BY <1>1, <1>2, <1>3 DEF PoolInv

\* The types of a job.
LEMMA JobTypes ==
  /\ \A job \in Job : job.by \in Callers \cup {"nobody"} /\ job.to \in Connectors /\ job # Free
  /\ \A job \in Job : [job EXCEPT !.by = "nobody"] \in Job
  /\ \A t \in Callers, c \in Connectors : [by |-> t, to |-> c] \in Job
  /\ Free.by = "nobody" /\ "nobody" \notin Callers
BY BreakerAssumption, PoolAssumption DEF Job, Free

LEMMA SubmitPoolInv ==
  ASSUME PoolInv, NEW t \in Callers, NEW c \in Connectors, Submit(t, c), BInv'
  PROVE  PoolInv'
<1> DEFINE job == [by |-> t, to |-> c]
<1>1. /\ calling[t] = "idle" /\ calling' = [calling EXCEPT ![t] = c]
      /\ queue' = Append(queue, job)
      /\ future' = [future EXCEPT ![t] = "waiting"]
      /\ UNCHANGED <<thread, changes>>
  BY DEF Submit, AllowRequest
<1>2. /\ calling \in [Callers -> Connectors \cup {"idle"}] /\ queue \in Seq(Job)
      /\ future \in [Callers -> {"none", "waiting", "ok", "error"}]
  BY DEF PoolInv, PoolTypeOK, BreakerTypeOK
<1>3. job \in Job /\ job.by = t /\ job.to = c /\ c # "idle"
  BY JobTypes, BreakerAssumption
<1> HIDE DEF job
<1>4. /\ Len(queue') = Len(queue) + 1 /\ Len(queue) \in Nat
      /\ queue'[Len(queue) + 1] = job
      /\ \A i \in 1 .. Len(queue) : queue'[i] = queue[i]
      /\ queue' \in Seq(Job)
  BY <1>1, <1>2, <1>3
<1>5. PoolTypeOK'
  BY <1>1, <1>2, <1>4 DEF PoolInv, BInv, PoolTypeOK
<1>6. Matched(t)'
  BY <1>1, <1>2, <1>3, <1>4 DEF PoolInv, Matched
<1>7. ASSUME NEW u \in Callers \ {t} PROVE Matched(u)'
  BY <1>1, <1>2, <1>3, <1>4 DEF PoolInv, Matched
<1> QED BY <1>5, <1>6, <1>7 DEF PoolInv

LEMMA StartJobPoolInv ==
  ASSUME PoolInv, NEW w \in Threads, StartJob(w), BInv'
  PROVE  PoolInv'
<1> DEFINE job == Head(queue)
<1>1. /\ thread[w] = Free /\ queue # <<>>
      /\ thread' = [thread EXCEPT ![w] = job]
      /\ queue' = Tail(queue)
      /\ UNCHANGED <<calling, future, changes>>
  BY DEF StartJob, breakerVars
<1>2. queue \in Seq(Job) /\ thread \in [Threads -> Job \cup {Free}]
  BY DEF PoolInv, PoolTypeOK
<1>3. /\ job \in Job /\ job = queue[1]
      /\ Len(queue) \in Nat \ {0} /\ Len(queue') = Len(queue) - 1
      /\ queue' \in Seq(Job)
      /\ \A i \in 1 .. Len(queue') : queue'[i] = queue[i + 1]
  BY <1>1, <1>2
<1> HIDE DEF job
<1>4. /\ thread' \in [Threads -> Job \cup {Free}]
      /\ thread'[w] = job
      /\ \A v \in Threads \ {w} : thread'[v] = thread[v]
  BY <1>1, <1>2, <1>3
<1>5. PoolTypeOK'
  BY <1>1, <1>3, <1>4 DEF PoolInv, BInv, PoolTypeOK
<1>6. ASSUME NEW u \in Callers PROVE Matched(u)'
  <2>1. \A i \in 1 .. Len(queue') : i + 1 \in 1 .. Len(queue) /\ i + 1 # 1
    BY <1>3
  <2>2. \A i \in 1 .. Len(queue) : i = 1 \/ (i - 1 \in 1 .. Len(queue') /\ queue'[i - 1] = queue[i])
    BY <1>3
  <2>3. thread[w].by # u
    BY <1>1, JobTypes
  <2>4. /\ \A i \in 1 .. Len(queue') :
             queue'[i].by = u => future'[u] = "waiting" /\ queue'[i].to = calling'[u]
        /\ \A i, j \in 1 .. Len(queue') : queue'[i].by = u /\ queue'[j].by = u => i = j
    BY <1>1, <1>3, <2>1 DEF PoolInv, Matched
  <2>5. \A v \in Threads : thread'[v].by = u => future'[u] = "waiting" /\ thread'[v].to = calling'[u]
    BY <1>1, <1>3, <1>4 DEF PoolInv, Matched
  <2>6. /\ \A v, x \in Threads : thread'[v].by = u /\ thread'[x].by = u => v = x
        /\ \A i \in 1 .. Len(queue'), v \in Threads : ~(queue'[i].by = u /\ thread'[v].by = u)
    <3>1. 1 \in 1 .. Len(queue)
      BY <1>3
    <3>2. \A i \in 1 .. Len(queue), v \in Threads : ~(queue[i].by = u /\ thread[v].by = u)
      BY DEF PoolInv, Matched
    <3>3. \A v, x \in Threads : thread[v].by = u /\ thread[x].by = u => v = x
      BY DEF PoolInv, Matched
    <3>4. \A i \in 1 .. Len(queue) : queue[i].by = u /\ queue[1].by = u => i = 1
      BY <3>1 DEF PoolInv, Matched
    <3>5. \A v, x \in Threads : thread'[v].by = u /\ thread'[x].by = u => v = x
      BY <1>3, <1>4, <3>1, <3>2, <3>3
    <3>6. \A i \in 1 .. Len(queue'), v \in Threads \ {w} : ~(queue'[i].by = u /\ thread'[v].by = u)
      BY <1>3, <1>4, <2>1, <3>2
    <3>7. \A i \in 1 .. Len(queue') : ~(queue'[i].by = u /\ thread'[w].by = u)
      BY <1>3, <1>4, <2>1, <3>4
    <3> QED BY <3>5, <3>6, <3>7
  <2>7. future'[u] = "waiting" =>
          \/ \E i \in 1 .. Len(queue') : queue'[i].by = u
          \/ \E v \in Threads : thread'[v].by = u
    <3> SUFFICES ASSUME future[u] = "waiting"
                 PROVE  \/ \E i \in 1 .. Len(queue') : queue'[i].by = u
                        \/ \E v \in Threads : thread'[v].by = u
      BY <1>1
    <3>1. CASE \E v \in Threads : thread[v].by = u
      BY <1>4, <2>3, <3>1
    <3>2. CASE \E i \in 1 .. Len(queue) : queue[i].by = u
      <4>1. PICK i \in 1 .. Len(queue) : queue[i].by = u
        BY <3>2
      <4>2. CASE i = 1
        BY <1>3, <1>4, <4>1, <4>2
      <4>3. CASE i # 1
        BY <2>2, <4>1, <4>3
      <4> QED BY <4>2, <4>3
    <3> QED BY <3>1, <3>2 DEF PoolInv, Matched
  <2>8. future'[u] = "none" <=> calling'[u] = "idle"
    BY <1>1 DEF PoolInv, Matched
  <2> QED BY <2>4, <2>5, <2>6, <2>7, <2>8 DEF Matched
<1> QED BY <1>5, <1>6 DEF PoolInv

LEMMA FinishJobPoolInv ==
  ASSUME PoolInv, NEW w \in Threads, FinishJob(w), BInv'
  PROVE  PoolInv'
<1>1. PICK got \in {"ok", "error"} :
           future' = [t \in Callers |-> IF t = thread[w].by THEN got ELSE future[t]]
  BY DEF FinishJob
<1>2. /\ thread' = [thread EXCEPT ![w] = Free]
      /\ UNCHANGED <<calling, queue, changes>>
  BY DEF FinishJob, breakerVars
<1>3. thread \in [Threads -> Job \cup {Free}]
  BY DEF PoolInv, PoolTypeOK
<1>4. PoolTypeOK'
  BY <1>1, <1>2 DEF PoolInv, BInv, PoolTypeOK
<1>5. /\ thread'[w] = Free
      /\ \A v \in Threads \ {w} : thread'[v] = thread[v]
  BY <1>2, <1>3
<1>6. ASSUME NEW u \in Callers PROVE Matched(u)'
  <2>1. Free.by # u
    BY JobTypes
  <2>2. CASE thread[w].by = u
    <3>1. calling[u] # "idle"
      BY <2>2 DEF PoolInv, Matched
    <3>2. /\ \A i \in 1 .. Len(queue') : queue'[i].by # u
          /\ \A v \in Threads : thread'[v].by # u
      BY <1>2, <1>5, <2>1, <2>2 DEF PoolInv, Matched
    <3> QED BY <1>1, <1>2, <2>2, <3>1, <3>2 DEF Matched
  <2>3. CASE thread[w].by # u
    <3>1. future'[u] = future[u] /\ calling'[u] = calling[u] /\ queue' = queue
      BY <1>1, <1>2, <2>3 DEF PoolInv, PoolTypeOK
    <3>2. \A v \in Threads : thread'[v].by = u <=> thread[v].by = u
      BY <1>5, <2>1, <2>3
    <3>3. \A v \in Threads : thread'[v].by = u => thread'[v].to = thread[v].to
      BY <1>5, <2>1
    <3> QED BY <3>1, <3>2, <3>3 DEF PoolInv, Matched
  <2> QED BY <2>2, <2>3
<1> QED BY <1>4, <1>6 DEF PoolInv

\* Recording an answer only ends the wait of the caller that has it.
LEMMA SettlePoolInv ==
  ASSUME PoolInv, NEW t \in Callers, NEW c \in Connectors, Settle(t, c), BInv'
  PROVE  PoolInv'
<1>1. /\ future[t] \in {"ok", "error"} /\ future' = [future EXCEPT ![t] = "none"]
      /\ calling' = [calling EXCEPT ![t] = "idle"]
      /\ UNCHANGED <<queue, thread, changes>>
  BY DEF Settle, Forget, Succeeds, Fails, Raises, Return
<1>2. PoolTypeOK'
  BY <1>1 DEF PoolInv, BInv, PoolTypeOK
<1>3. ASSUME NEW u \in Callers PROVE Matched(u)'
  <2>1. CASE u = t
    <3>1. future'[t] = "none" /\ calling'[t] = "idle"
      BY <1>1 DEF PoolInv, PoolTypeOK, BreakerTypeOK
    <3>2. /\ \A i \in 1 .. Len(queue) : queue[i].by # t
          /\ \A w \in Threads : thread[w].by # t
      BY <1>1 DEF PoolInv, Matched
    <3> QED BY <1>1, <2>1, <3>1, <3>2 DEF Matched
  <2>2. CASE u # t
    <3>1. future'[u] = future[u] /\ calling'[u] = calling[u]
      BY <1>1, <2>2 DEF PoolInv, PoolTypeOK, BreakerTypeOK
    <3> QED BY <1>1, <3>1 DEF PoolInv, Matched
  <2> QED BY <2>1, <2>2
<1> QED BY <1>2, <1>3 DEF PoolInv

\* Giving a call up leaves its job to nobody.
LEMMA TimesOutPoolInv ==
  ASSUME PoolInv, NEW t \in Callers, NEW c \in Connectors, TimesOut(t, c), BInv'
  PROVE  PoolInv'
<1> DEFINE Orphan(job) == IF job.by = t THEN [job EXCEPT !.by = "nobody"] ELSE job
<1>1. /\ future' = [future EXCEPT ![t] = "none"]
      /\ calling' = [calling EXCEPT ![t] = "idle"]
      /\ queue' = [i \in DOMAIN queue |-> Orphan(queue[i])]
      /\ thread' = [w \in Threads |-> Orphan(thread[w])]
      /\ changes' = changes
  BY DEF TimesOut, Forget, Fails, Return
<1>2. queue \in Seq(Job) /\ thread \in [Threads -> Job \cup {Free}]
  BY DEF PoolInv, PoolTypeOK
<1>3. \A job \in Job \cup {Free} :
        /\ Orphan(job).by # t
        /\ job.by # t => Orphan(job) = job
        /\ \A u \in Callers \ {t} :
             (Orphan(job).by = u <=> job.by = u) /\ (Orphan(job).by = u => Orphan(job).to = job.to)
  <2>1. ASSUME NEW job \in Job \cup {Free}, job.by = t
        PROVE  Orphan(job).by = "nobody"
    BY <2>1, JobTypes DEF Job
  <2> QED BY <2>1, JobTypes
<1>4. /\ \A job \in Job : Orphan(job) \in Job
      /\ Orphan(Free) = Free
  BY JobTypes
<1> HIDE DEF Orphan
<1>5. /\ queue' \in Seq(Job) /\ Len(queue') = Len(queue)
      /\ \A i \in 1 .. Len(queue) : queue'[i] = Orphan(queue[i]) /\ queue[i] \in Job
  <2>1. Len(queue) \in Nat /\ DOMAIN queue = 1 .. Len(queue)
        /\ \A i \in 1 .. Len(queue) : queue[i] \in Job
    BY <1>2
  <2>2. queue' = [i \in 1 .. Len(queue) |-> Orphan(queue[i])]
    BY <1>1, <2>1
  <2> QED BY <1>4, <2>1, <2>2
<1>6. /\ thread' \in [Threads -> Job \cup {Free}]
      /\ \A w \in Threads : thread'[w] = Orphan(thread[w]) /\ thread[w] \in Job \cup {Free}
  BY <1>1, <1>2, <1>4
<1>7. PoolTypeOK'
  BY <1>1, <1>5, <1>6 DEF PoolInv, BInv, PoolTypeOK
<1>8. Matched(t)'
  BY <1>1, <1>3, <1>5, <1>6 DEF PoolInv, PoolTypeOK, BreakerTypeOK, Matched
<1>9. ASSUME NEW u \in Callers \ {t} PROVE Matched(u)'
  <2>1. /\ future'[u] = future[u] /\ calling'[u] = calling[u]
        /\ \A i \in 1 .. Len(queue) : queue'[i].by = u <=> queue[i].by = u
        /\ \A w \in Threads : thread'[w].by = u <=> thread[w].by = u
        /\ \A i \in 1 .. Len(queue) : queue'[i].by = u => queue'[i].to = queue[i].to
        /\ \A w \in Threads : thread'[w].by = u => thread'[w].to = thread[w].to
    <3>1. future'[u] = future[u] /\ calling'[u] = calling[u]
      BY <1>1 DEF PoolInv, PoolTypeOK, BreakerTypeOK
    <3>2. \A i \in 1 .. Len(queue) :
            (queue'[i].by = u <=> queue[i].by = u) /\ (queue'[i].by = u => queue'[i].to = queue[i].to)
      BY <1>3, <1>5
    <3>3. \A w \in Threads :
            (thread'[w].by = u <=> thread[w].by = u) /\ (thread'[w].by = u => thread'[w].to = thread[w].to)
      BY <1>3, <1>6
    <3> QED BY <3>1, <3>2, <3>3
  <2> QED BY <2>1, <1>5 DEF PoolInv, Matched
<1> QED BY <1>7, <1>8, <1>9 DEF PoolInv

\* Providers that change, and time that passes, are nothing to the pool.
LEMMA WorldPoolInv ==
  ASSUME PoolInv, NEW c \in Connectors, Change(c) \/ Elapse(c), BInv'
  PROVE  PoolInv'
<1>1. UNCHANGED <<calling, queue, thread, future>>
  BY DEF Change, Elapse, ProviderChanges, RecoveryTimeout, HealthCheck
<1>2. changes' \in 0 .. MaxChanges
  BY PoolAssumption DEF Change, Elapse, PoolInv, PoolTypeOK
<1> QED BY <1>1, <1>2 DEF PoolInv, BInv, PoolTypeOK, Matched

LEMMA StepPoolInv == PoolInv /\ [PoolNext]_poolVars => PoolInv'
<1> SUFFICES ASSUME PoolInv, [PoolNext]_poolVars PROVE PoolInv'
  OBVIOUS
<1>1. BInv'
  BY PoolStepIsBreakerStep, StepBInv DEF PoolInv
<1>2. CASE PoolNext
  BY <1>1, <1>2, SubmitPoolInv, SettlePoolInv, TimesOutPoolInv, StartJobPoolInv,
     FinishJobPoolInv, WorldPoolInv DEF PoolNext, CallerStep
<1>3. CASE UNCHANGED poolVars
  BY <1>1, <1>3 DEF poolVars, breakerVars, PoolInv, BInv, PoolTypeOK, Matched
<1> QED BY <1>2, <1>3

\* The inductive invariant of the pool.
THEOREM PoolInvariant == PoolSpec => []PoolInv
BY InitPoolInv, StepPoolInv, PTL DEF PoolSpec

\* However many threads, callers and connectors share the pool, an answer that
\* comes after its call was given up reaches no later call of that caller.
THEOREM PoolJobsMatch == PoolSpec => []OneJobPerWait
<1>1. PoolInv => OneJobPerWait
  <2> SUFFICES ASSUME PoolInv PROVE OneJobPerWait
    OBVIOUS
  <2>1. DOMAIN queue = 1 .. Len(queue)
    BY DEF PoolInv, PoolTypeOK
  <2> QED BY <2>1 DEF PoolInv, Matched, OneJobPerWait
<1> QED BY <1>1, PoolInvariant, PTL
=============================================================================
