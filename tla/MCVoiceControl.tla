--------------------------- MODULE MCVoiceControl ---------------------------
(* VoiceControl for TLC: commands, handlers and objectives are             *)
(* interchangeable.                                                        *)
EXTENDS VoiceControl, TLC

Interchangeable ==
  Permutations(Requests) \cup Permutations(Handlers) \cup Permutations(Objectives)
=============================================================================
