---------------------------- MODULE MCPromptLog ----------------------------
(* Two sessions that use the file of prompts at once.  Prompts are alike   *)
(* to the code but for being the same or not, and so are sessions; all     *)
(* that is checked is invariants.                                          *)
EXTENDS PromptLog, TLC

Symmetry == Permutations(Prompts) \cup Permutations(Trackers)
=============================================================================
