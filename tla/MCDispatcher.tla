---------------------------- MODULE MCDispatcher ----------------------------
(* Model checking of Dispatcher: three calls and two workers are enough    *)
(* for a batch larger than the crew, for two parallel batches around a     *)
(* serial call, and for a zombie of one batch to live during the next.     *)
EXTENDS Dispatcher
=============================================================================
