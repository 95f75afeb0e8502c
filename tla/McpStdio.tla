------------------------------- MODULE McpStdio -------------------------------
(***************************************************************************)
(* The client of an MCP server that runs as a child process                *)
(* (internal/infrastructure/mcp): a handshake, a reaper that waits for the *)
(* child, calls with a timeout, and Close, which ends the child and joins  *)
(* the reaper.  ListTools is a call like any other; a caller makes one.    *)
(*                                                                         *)
(* What a call asks and what the server does with it are left to the       *)
(* module that uses the client (MemoryHook).  The child, its descendants   *)
(* and the SDK's session are not the program's: they answer, reject, stop  *)
(* or die as they please.                                                  *)
(***************************************************************************)
EXTENDS Naturals

CONSTANT Callers  \* those who call the server

VARIABLES
  client,    \* "connecting", "abandoned" (joins the reaper), "failed", "ready"
  child,     \* "running", "dead"
  heir,      \* a descendant of the child holds its standard error
  waitDone,  \* the reaper's channel: "empty", "full", "taken"
  exitErr,   \* the sticky error is set
  closed,    \* the flag
  closing,   \* Close holds the lock and: "no", "begun", "session", "killed",
             \* "returned" (it does not hold it any more)
  stage,     \* stage[c] of a call: "idle", "sent", "failing", "returned"
  answer,    \* answer[c]: what the call returns: "none", "ok", "rejected",
             \* "timeout", "lost", "exited", "closed"
  reply      \* reply[c]: the server's: "none", "ok", "rejected"

process == <<child, heir, waitDone>>
calls   == <<stage, answer, reply>>
mcpVars == <<client, process, exitErr, closed, closing, calls>>

McpInit ==
  /\ client = "connecting"
  /\ child = "running" /\ heir = FALSE /\ waitDone = "empty"
  /\ exitErr = FALSE /\ closed = FALSE /\ closing = "no"
  /\ stage = [c \in Callers |-> "idle"] /\ answer = [c \in Callers |-> "none"]
  /\ reply = [c \in Callers |-> "none"]

Locked == closing \in {"begun", "session", "killed"}

-----------------------------------------------------------------------------
(* The child and its reaper.                                               *)

Die ==
  /\ child = "running" /\ child' = "dead"
  /\ UNCHANGED <<client, heir, waitDone, exitErr, closed, closing, calls>>

Fork ==
  /\ child = "running" \/ heir
  /\ heir' = ~heir
  /\ UNCHANGED <<client, child, waitDone, exitErr, closed, closing, calls>>

(* cmd.Wait returns when the child is dead and its standard error, which   *)
(* is copied to the log, has ended.  It also closes the pipe of the        *)
(* answers: one that was not read yet is lost.                             *)
Reap ==
  /\ child = "dead" /\ ~heir /\ waitDone = "empty" /\ waitDone' = "full"
  /\ UNCHANGED <<client, child, heir, exitErr, closed, closing, calls>>

-----------------------------------------------------------------------------
(* NewStdioClient: the handshake succeeds, or it fails or times out, the   *)
(* child is killed and the reaper joined.                                  *)

Connect ==
  /\ client = "connecting"
  /\ \/ client' = "ready" /\ child = "running" /\ UNCHANGED child
     \/ client' = "abandoned" /\ child' = "dead"
  /\ UNCHANGED <<heir, waitDone, exitErr, closed, closing, calls>>

(* Mutant: the reaper is not joined.                                       *)
Abandon_NoJoin ==
  /\ client = "abandoned" /\ client' = "failed"
  /\ UNCHANGED <<process, exitErr, closed, closing, calls>>

Abandon ==
  /\ client = "abandoned" /\ waitDone = "full"
  /\ client' = "failed" /\ waitDone' = "taken"
  /\ UNCHANGED <<child, heir, exitErr, closed, closing, calls>>

-----------------------------------------------------------------------------
(* CallTool.                                                               *)

Returns(c, a) ==
  /\ stage' = [stage EXCEPT ![c] = "returned"]
  /\ answer' = [answer EXCEPT ![c] = a]

(* childExitErrLocked: the reaper's result is taken once and remembered.   *)
Dead == exitErr \/ waitDone = "full"
CheckChild ==
  /\ exitErr' = Dead
  /\ waitDone' = IF ~exitErr /\ waitDone = "full" THEN "taken" ELSE waitDone

Call(c) ==
  /\ client = "ready" /\ stage[c] = "idle" /\ ~Locked
  /\ \/ closed /\ Returns(c, "closed") /\ UNCHANGED <<exitErr, waitDone>>
     \/ ~closed /\ CheckChild /\ Dead /\ Returns(c, "exited")
     \/ /\ ~closed /\ CheckChild /\ ~Dead
        /\ stage' = [stage EXCEPT ![c] = "sent"] /\ UNCHANGED answer
  /\ UNCHANGED <<client, child, heir, closed, closing, reply>>

(* The server handles a request, also one whose caller has given up.       *)
WasSent(c) == stage[c] # "idle" /\ answer[c] # "closed"
Handle(c) ==
  /\ child = "running" /\ WasSent(c) /\ reply[c] = "none"
  /\ \E r \in {"ok", "rejected"} : reply' = [reply EXCEPT ![c] = r]
  /\ UNCHANGED <<client, process, exitErr, closed, closing, stage, answer>>

SessionOpen == closing \in {"no", "begun"} /\ waitDone = "empty"

Receive(c) ==
  /\ stage[c] = "sent" /\ reply[c] # "none" /\ SessionOpen
  /\ Returns(c, reply[c])
  /\ UNCHANGED <<client, process, exitErr, closed, closing, reply>>

(* The timeout passes, or the connection ends: annotateIfDead tells the    *)
(* death of the child from the rest.                                       *)
Timeout(c) ==
  /\ stage[c] = "sent"
  /\ stage' = [stage EXCEPT ![c] = "failing"]
  /\ answer' = [answer EXCEPT ![c] = "timeout"]
  /\ UNCHANGED <<client, process, exitErr, closed, closing, reply>>

ConnectionEnds(c) ==
  /\ stage[c] = "sent" /\ (~SessionOpen \/ child = "dead")
  /\ stage' = [stage EXCEPT ![c] = "failing"]
  /\ answer' = [answer EXCEPT ![c] = "lost"]
  /\ UNCHANGED <<client, process, exitErr, closed, closing, reply>>

Annotate(c) ==
  /\ stage[c] = "failing" /\ ~Locked
  /\ CheckChild
  /\ Returns(c, IF Dead /\ answer[c] = "lost" THEN "exited" ELSE answer[c])
  /\ UNCHANGED <<client, child, heir, closed, closing, reply>>

-----------------------------------------------------------------------------
(* Close, under the lock from its first step to its last: the session is   *)
(* closed, the child killed, the reaper joined unless somebody already     *)
(* took its result.                                                        *)

Close ==
  /\ client = "ready" /\ ~Locked /\ ~closed
  /\ closed' = TRUE /\ closing' = "begun"
  /\ UNCHANGED <<client, process, exitErr, calls>>

CloseSession ==
  /\ closing = "begun" /\ closing' = "session"
  /\ UNCHANGED <<client, process, exitErr, closed, calls>>

Kill ==
  /\ closing = "session" /\ closing' = "killed" /\ child' = "dead"
  /\ UNCHANGED <<client, heir, waitDone, exitErr, closed, calls>>

(* Mutant: the result is waited for although somebody took it.             *)
Join_Again ==
  /\ closing = "killed" /\ closing' = "returned"
  /\ waitDone = "full" /\ waitDone' = "taken"
  /\ UNCHANGED <<client, child, heir, exitErr, closed, calls>>

Join ==
  /\ closing = "killed" /\ closing' = "returned"
  /\ \/ exitErr /\ UNCHANGED waitDone
     \/ ~exitErr /\ waitDone = "full" /\ waitDone' = "taken"
  /\ UNCHANGED <<client, child, heir, exitErr, closed, calls>>

-----------------------------------------------------------------------------
McpSystem == Die \/ Fork \/ Reap \/ Connect \/ Abandon
             \/ Close \/ CloseSession \/ Kill \/ Join

(* The goroutines and timers of the client run, and a killed child dies;   *)
(* the server need not answer and nobody need call or close.               *)
McpFairness ==
  /\ WF_mcpVars(Reap) /\ WF_mcpVars(Connect) /\ WF_mcpVars(Abandon)
  /\ WF_mcpVars(CloseSession) /\ WF_mcpVars(Kill) /\ WF_mcpVars(Join)
  /\ \A c \in Callers : WF_mcpVars(Timeout(c)) /\ WF_mcpVars(Annotate(c))

-----------------------------------------------------------------------------
(* What must hold of the client, whoever uses it.                          *)

(* A client that could not be made, or that was closed, leaves no zombie   *)
(* process: the child is dead and somebody, but nobody twice, has taken    *)
(* the result of its reaper.                                               *)
ChildReaped ==
  client = "failed" \/ closing = "returned" => child = "dead" /\ waitDone = "taken"

(* Making a client, a call and Close all come back, in whatever order the  *)
(* child dies, calls notice it and Close joins the reaper, as long as no   *)
(* descendant of the child keeps its standard error open.                  *)
AllReturn ==
  [](~heir) =>
    /\ client \in {"connecting", "abandoned"} ~> client \in {"ready", "failed"}
    /\ closing = "begun" ~> closing = "returned"
    /\ \A c \in Callers : stage[c] = "sent" ~> stage[c] = "returned"

-----------------------------------------------------------------------------
(* Why the child is reaped: types, and what is known of it and of the      *)
(* result of its reaper in each state of the client and of Close.          *)

McpType ==
  /\ client \in {"connecting", "abandoned", "failed", "ready"}
  /\ child \in {"running", "dead"} /\ heir \in BOOLEAN
  /\ waitDone \in {"empty", "full", "taken"}
  /\ exitErr \in BOOLEAN /\ closed \in BOOLEAN
  /\ closing \in {"no", "begun", "session", "killed", "returned"}
  /\ stage \in [Callers -> {"idle", "sent", "failing", "returned"}]
  /\ answer \in [Callers -> {"none", "ok", "rejected", "timeout", "lost",
                             "exited", "closed"}]
  /\ reply \in [Callers -> {"none", "ok", "rejected"}]

ReaperInv ==
  /\ waitDone # "empty" \/ client \in {"abandoned", "failed"} => child = "dead"
  /\ exitErr \/ client = "failed" \/ closing = "returned" => waitDone = "taken"
  /\ closing \in {"killed", "returned"} => child = "dead"
  /\ closing # "no" => client = "ready" /\ closed

(* A call that was not made has no reply; a success that is reported is    *)
(* the server's.                                                           *)
CallInv ==
  \A c \in Callers :
    /\ stage[c] = "idle" => reply[c] = "none" /\ answer[c] = "none"
    /\ answer[c] = "ok" => reply[c] = "ok" /\ stage[c] = "returned"
=============================================================================
