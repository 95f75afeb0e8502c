-------------------------- MODULE MCSessionContext --------------------------
(* Two histories to begin with: two short turns, and one turn that is a    *)
(* loop of calls longer than the window first loaded for it.  What may     *)
(* happen once in between: a summary of one or two turns, a request, a     *)
(* pin, a change of the limits, a failure of the store.                    *)
EXTENDS SessionContext
Loop(n) == <<"user">> \o [i \in 1..(2 * n) |-> IF i % 2 = 1 THEN "calls"
                                              ELSE "results"] \o <<"text">>
MCStarts == {<<"user", "text">> \o Loop(1), Loop(2)}
=============================================================================
