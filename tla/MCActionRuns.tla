--------------------------- MODULE MCActionRuns ---------------------------
(***************************************************************************)
(* Small instances of ActionRuns for TLC: playbooks cut down to the rows a *)
(* run is about, and the symmetry of request threads and workers.          *)
(***************************************************************************)
EXTENDS ActionRuns, TLC

SlackThenEmail == <<"slack_notify", "email_customer">>
PoSlackEmail   == <<"update_po", "slack_notify", "email_customer">>
OnlySlack      == <<"slack_notify">>

Threads == Permutations(Procs) \cup Permutations(Workers)
=============================================================================
