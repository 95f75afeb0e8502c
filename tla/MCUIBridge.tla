----------------------------- MODULE MCUIBridge -----------------------------
(* A channel of one event is filled by the first, so that the second of    *)
(* the same producer or of the other waits or is shed; the third meets a   *)
(* listener that is draining, has panicked or has left.                    *)
EXTENDS UIBridge
=============================================================================
