----------------------------- MODULE HistoryLog -----------------------------
(***************************************************************************)
(* What the history manager (internal/infrastructure/history) promises its *)
(* callers: the contents are changed by one update at a time, an update    *)
(* that was acknowledged survives a crash, and one that was not has either *)
(* taken effect or left the contents as they were.  The promise ends with  *)
(* an update that failed half-way, until the next rewrite of the file.     *)
(***************************************************************************)
VARIABLES
  contents,  \* what a reader of the history sees, or will after a restart
  pending,   \* contents the update in progress may leave behind
  exact,     \* no failed update left anything in the file
  status     \* "up", "down", "refused": the file cannot be read back

vars == <<contents, pending, exact, status>>

Init == contents = <<>> /\ pending = {} /\ exact = TRUE /\ status = "up"

Begin == /\ status = "up" /\ pending = {}
         /\ pending' # {}
         /\ UNCHANGED <<contents, exact, status>>

(* A rewrite of the file leaves nothing of the failed updates.             *)
Rewrite == /\ pending # {}
           /\ exact' = TRUE
           /\ UNCHANGED <<contents, pending, status>>

Commit == /\ pending # {}
          /\ contents' \in pending /\ pending' = {}
          /\ UNCHANGED <<exact, status>>

Fail == /\ pending # {}
        /\ pending' = {} /\ exact' \in {exact, FALSE}
        /\ UNCHANGED <<contents, status>>

(* Only an update in progress, or one that failed before, can cost the     *)
(* history.                                                                *)
Crash == /\ status = "up"
         /\ pending' = {} /\ UNCHANGED exact
         /\ \/ /\ status' = "down"
               /\ exact => contents' \in {contents} \cup pending
            \/ /\ status' = "refused"
               /\ pending # {} \/ ~exact

Restart == /\ status = "down"
           /\ status' = "up" /\ exact' = TRUE
           /\ UNCHANGED <<contents, pending>>

Next == Begin \/ Rewrite \/ Commit \/ Fail \/ Crash \/ Restart

Spec == Init /\ [][Next]_vars
=============================================================================
