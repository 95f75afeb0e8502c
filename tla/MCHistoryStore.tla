--------------------------- MODULE MCHistoryStore ---------------------------
(* Four messages hold a prompt, calls, their results and an answer; five   *)
(* operations suffice to fill the history and pin, edit or roll back, or   *)
(* to continue after the crash; one fault and one crash meet in any order. *)
EXTENDS HistoryStore
=============================================================================
