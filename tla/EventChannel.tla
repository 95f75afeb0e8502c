---------------------------- MODULE EventChannel ----------------------------
(***************************************************************************)
(* What the bridge to the terminal (internal/agent/session/ui) promises    *)
(* the session: the events it accepts are shown in the order in which they *)
(* were accepted, each once; only so many wait; once it is closed it       *)
(* accepts nothing, and it ends when it is closed and all has been shown.  *)
(* Only a panic of the renderer ends the showing before that.              *)
(***************************************************************************)
EXTENDS Naturals, Sequences

CONSTANTS Events, Limit

VARIABLES
  accepted, \* events whose publisher was told so
  pending,  \* of them, those not yet shown, in order
  shown,    \* in order
  closed,
  fate      \* "showing", "broken", "over"

channel == <<accepted, pending, shown, closed, fate>>

Init == /\ accepted = {} /\ pending = <<>> /\ shown = <<>>
        /\ closed = FALSE /\ fate = "showing"

(* A broken channel may accept what nobody will see.                       *)
Accept(e) == /\ ~closed /\ e \notin accepted /\ Len(pending) <= Limit
             /\ accepted' = accepted \cup {e} /\ pending' = Append(pending, e)
             /\ UNCHANGED <<shown, closed, fate>>

Show == /\ fate = "showing" /\ pending # <<>>
        /\ shown' = Append(shown, Head(pending)) /\ pending' = Tail(pending)
        /\ UNCHANGED <<accepted, closed, fate>>

Break == /\ fate = "showing" /\ pending # <<>>
         /\ fate' = "broken" /\ pending' = Tail(pending)
         /\ UNCHANGED <<accepted, shown, closed>>

Close == /\ ~closed /\ closed' = TRUE
         /\ UNCHANGED <<accepted, pending, shown, fate>>

End == /\ fate = "showing" /\ closed /\ pending = <<>>
       /\ fate' = "over"
       /\ UNCHANGED <<accepted, pending, shown, closed>>

Next == Show \/ Break \/ Close \/ End \/ \E e \in Events : Accept(e)

Spec == Init /\ [][Next]_channel
=============================================================================
