--------------------------- MODULE MCQueueWorker ---------------------------
EXTENDS QueueWorker, TLC

\* Two rows of one incident, for pods to deadlock on, and one of another.
TwoIncidents == 1 :> "delay" @@ 2 :> "absence" @@ 3 :> "delay"

=============================================================================
