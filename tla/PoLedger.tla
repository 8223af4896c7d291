------------------------------ MODULE PoLedger ------------------------------
(***************************************************************************)
(* What the PO system promises, whoever runs an action and how often: the  *)
(* amendments of a purchase order form a ledger that only grows, and an    *)
(* action becomes done in the very step that enters its line.  That a done *)
(* action may be opened again is what the executor's stale copies leave of *)
(* "each action once".                                                     *)
(***************************************************************************)
EXTENDS Sequences

CONSTANT Actions

VARIABLES
  log,          \* the lines, in the order they were entered
  done          \* the actions that are done

LedgerInit == log = <<>> /\ done = {}

\* a's line is entered, again if a was done before.
Amend(a) ==
  /\ log'  = Append(log, a)
  /\ done' = done \cup {a}

\* Somebody with an older copy opens a again; its line stays.
Reopen(a) ==
  /\ a \in done
  /\ done' = done \ {a}
  /\ UNCHANGED log

LedgerSpec ==
  LedgerInit /\ [][\E a \in Actions : Amend(a) \/ Reopen(a)]_<<log, done>>
=============================================================================
