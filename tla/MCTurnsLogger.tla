---- MODULE MCTurnsLogger ----
(* Checks of the turns logger with model values for its goroutines.        *)
EXTENDS TurnsLogger
====
