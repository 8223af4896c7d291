--------------------------- MODULE GatedActions ---------------------------
(***************************************************************************)
(* What the approval gate promises, without sessions, queues, retries or   *)
(* workers: an action is free to run, or it is proposed and waits for one  *)
(* human decision that is never taken back; it has an effect on the        *)
(* outside world only if it is free or approved.                           *)
(***************************************************************************)
EXTENDS Integers

CONSTANT Actions   \* the action rows of an incident

VARIABLES
  gate,   \* gate[a]: where action a stands with respect to the gate
  sent    \* sent[a]: it has had an effect

gateVars == <<gate, sent>>

Gate == {"absent", "free", "proposed", "approved", "rejected"}

GateTypeOK ==
  /\ gate \in [Actions -> Gate]
  /\ sent \in [Actions -> BOOLEAN]

GateInit ==
  /\ gate = [a \in Actions |-> "absent"]
  /\ sent = [a \in Actions |-> FALSE]

\* New actions appear, each free or proposed.
Plan(S) ==
  /\ \A a \in S : gate[a] = "absent"
  /\ gate' \in [Actions -> Gate]
  /\ \A a \in Actions :
       gate'[a] \in (IF a \in S THEN {"free", "proposed"} ELSE {gate[a]})
  /\ UNCHANGED sent

\* A human decides, once.
Decide(a, decision) ==
  /\ gate[a] = "proposed"
  /\ decision \in {"approved", "rejected"}
  /\ gate' = [gate EXCEPT ![a] = decision]
  /\ UNCHANGED sent

\* The action reaches its destination.
Send(a) ==
  /\ gate[a] \in {"free", "approved"}
  /\ sent' = [sent EXCEPT ![a] = TRUE]
  /\ UNCHANGED gate

GateNext ==
  \/ \E S \in SUBSET Actions : Plan(S)
  \/ \E a \in Actions :
       \/ Send(a)
       \/ \E decision \in {"approved", "rejected"} : Decide(a, decision)

GateSpec == GateInit /\ [][GateNext]_gateVars
=============================================================================
