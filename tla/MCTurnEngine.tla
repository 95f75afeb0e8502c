---------------------------- MODULE MCTurnEngine ----------------------------
(* Two chats, so that the second meets what a crash or a failure left in   *)
(* the history of the first; one call, repeated, and two texts that may    *)
(* come with it, so that a loop is found by count as well as by a repeated *)
(* response; a limit that changes between 0 and 2 while a turn runs, since *)
(* with one call a loop is broken before a limit that stays is reached;    *)
(* two failed appends, so that a persist and the emergency save can both   *)
(* fail.                                                                   *)
EXTENDS TurnEngine
=============================================================================
