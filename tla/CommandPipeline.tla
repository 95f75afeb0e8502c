--------------------------- MODULE CommandPipeline ---------------------------
(***************************************************************************)
(* One command, or one pipeline of commands, run by the shell tool         *)
(* (internal/tools/workspace, internal/infrastructure/process): the stages *)
(* are started one by one, each reading what the one before writes; the    *)
(* last one's output and the errors of all are captured until the pipes    *)
(* end; then the stages are reaped.  A time limit kills what still runs.   *)
(*                                                                         *)
(* RunCommand is the pipeline of one stage.  A line counts as one, so a    *)
(* pipe is the number of lines in it.  The stages are programs of the      *)
(* user: they read, write, exit, stop working or leave a child behind as   *)
(* they please.                                                            *)
(***************************************************************************)
EXTENDS Integers, FiniteSets

CONSTANTS
  MaxStages,   \* stages of the longest pipeline
  Capacity,    \* lines a pipe of the system holds
  Lines,       \* lines a stage writes of its own to a pipe, if it does
  MaxCapture,  \* lines the result holds
  Escapes      \* whether a child may leave the process group of its stage

ASSUME PipelineAssumption ==
  /\ MaxStages \in Nat \ {0} /\ Capacity \in Nat \ {0}
  /\ Lines \in Nat /\ MaxCapture \in Nat /\ Escapes \in BOOLEAN

Stages == 1..MaxStages

VARIABLES
  n,          \* stages of this pipeline
  phase,      \* the executor: "start", "failed", "capture", "wait", "returned"
  next,       \* the stage to start, or to wait for
  proc,       \* proc[i]: "none", "running", "exited", "reaped"
  child,      \* child[i]: "none", "inGroup", "escaped": left by stage i
  out,        \* lines in the pipe after stage i
  err,        \* lines in the pipe of its errors
  held,       \* whether the executor holds the read ends of stage i
  left,       \* lines stage i has yet to write to out and to err
  outReader,  \* "reading", "stopped" (a line too long), "done"
  errReader,  \* the same for the errors of each stage
  result,     \* the lines that were captured and kept; whether some were not
  written,    \* lines written to the pipes that are captured
  expired,    \* the time limit has passed
  odd         \* a stage exited early, hangs or left a child: from then on
              \* nothing is expected of the stages

pipes   == <<out, err, held>>
stages  == <<proc, child, left, odd>>
capture == <<outReader, errReader, result>>
control == <<n, phase, next, expired>>
vars    == <<control, stages, pipes, capture, written>>

Init ==
  /\ n \in Stages /\ phase = "start" /\ next = 1 /\ expired = FALSE
  /\ proc = [i \in Stages |-> "none"] /\ child = [i \in Stages |-> "none"]
  /\ out = [i \in Stages |-> 0] /\ err = [i \in Stages |-> 0]
  /\ held = [i \in Stages |-> FALSE]
  /\ left = [i \in Stages |-> [out |-> 0, err |-> 0]]
  /\ outReader = "reading" /\ errReader = [i \in Stages |-> "reading"]
  /\ result = [kept |-> 0, truncated |-> FALSE]
  /\ written = 0 /\ odd = FALSE

Running(i) == proc[i] = "running"
Alive(i)   == Running(i) \/ child[i] # "none"

(* A pipe ends when everybody who could write has closed it; a writer is   *)
(* killed when nobody is left who could read.                              *)
OutEnded(i) == out[i] = 0 /\ ~Alive(i)
ErrEnded(i) == err[i] = 0 /\ ~Alive(i)
OutIsRead(i) == held[i] \/ (i < n /\ Alive(i + 1))
ErrIsRead(i) == held[i]

-----------------------------------------------------------------------------
(* The stages and the system.                                              *)

Dies(i) == proc' = [proc EXCEPT ![i] = "exited"]

WriteOut(i) ==
  /\ Running(i) /\ left[i].out > 0
  /\ \/ /\ OutIsRead(i) /\ out[i] < Capacity
        /\ out' = [out EXCEPT ![i] = @ + 1]
        /\ left' = [left EXCEPT ![i].out = @ - 1]
        /\ written' = IF i = n THEN written + 1 ELSE written
        /\ UNCHANGED proc
     \/ ~OutIsRead(i) /\ Dies(i) /\ UNCHANGED <<out, left, written>>
  /\ UNCHANGED <<control, child, odd, err, held, capture>>

WriteErr(i) ==
  /\ Running(i) /\ left[i].err > 0
  /\ \/ /\ ErrIsRead(i) /\ err[i] < Capacity
        /\ err' = [err EXCEPT ![i] = @ + 1]
        /\ left' = [left EXCEPT ![i].err = @ - 1]
        /\ written' = written + 1
        /\ UNCHANGED proc
     \/ ~ErrIsRead(i) /\ Dies(i) /\ UNCHANGED <<err, left, written>>
  /\ UNCHANGED <<control, child, odd, out, held, capture>>

(* A filter passes a line on or drops it, once it has passed on the last.  *)
ReadIn(i) ==
  /\ i > 1 /\ Running(i) /\ left[i].out = 0 /\ out[i - 1] > 0
  /\ out' = [out EXCEPT ![i - 1] = @ - 1]
  /\ \E passes \in {0, 1} : left' = [left EXCEPT ![i].out = passes]
  /\ UNCHANGED <<control, proc, child, odd, err, held, capture, written>>

AtEnd(i) == \A j \in Stages : j = i - 1 => OutEnded(j)
Finish(i) ==
  /\ Running(i) /\ left[i] = [out |-> 0, err |-> 0] /\ AtEnd(i)
  /\ Dies(i)
  /\ UNCHANGED <<control, child, left, odd, pipes, capture, written>>

(* Stages that are not so well behaved: one exits before its input ends,   *)
(* one hangs, one leaves a child that keeps its pipes open.                *)
ExitEarly(i) ==
  /\ Running(i) /\ ~AtEnd(i)
  /\ Dies(i) /\ odd' = TRUE
  /\ UNCHANGED <<control, child, left, pipes, capture, written>>

Fork(i) ==
  /\ Running(i) /\ child[i] = "none"
  /\ \E c \in {"inGroup"} \cup (IF Escapes THEN {"escaped"} ELSE {}) :
       child' = [child EXCEPT ![i] = c]
  /\ odd' = TRUE
  /\ UNCHANGED <<control, proc, left, pipes, capture, written>>

ChildEnds(i) ==
  /\ child[i] # "none"
  /\ child' = [child EXCEPT ![i] = "none"]
  /\ UNCHANGED <<control, proc, left, odd, pipes, capture, written>>

Hang ==
  /\ ~odd /\ odd' = TRUE
  /\ UNCHANGED <<control, proc, child, left, pipes, capture, written>>

(* Mutant: only the stage is killed, not its group.                        *)
Kill_Direct(i) ==
  /\ expired /\ proc[i] \in {"running", "exited"}
  /\ Running(i)
  /\ proc' = [proc EXCEPT ![i] = "exited"]
  /\ UNCHANGED <<control, child, left, odd, pipes, capture, written>>

(* configureProcAttrs: the limit kills the group of the stage, also that   *)
(* of one that has exited and was not waited for.                          *)
Kill(i) ==
  /\ expired /\ proc[i] \in {"running", "exited"}
  /\ Running(i) \/ child[i] = "inGroup"
  /\ proc' = [proc EXCEPT ![i] = "exited"]
  /\ child' = [child EXCEPT ![i] = IF @ = "inGroup" THEN "none" ELSE @]
  /\ UNCHANGED <<control, left, odd, pipes, capture, written>>

Expire ==
  /\ ~expired /\ phase # "returned"
  /\ expired' = TRUE
  /\ UNCHANGED <<n, phase, next, stages, pipes, capture, written>>

-----------------------------------------------------------------------------
(* The executor.                                                           *)

Goto(p, i) == phase' = p /\ next' = i

Start ==
  /\ phase = "start"
  /\ \/ /\ ~expired
        /\ proc' = [proc EXCEPT ![next] = "running"]
        /\ held' = [held EXCEPT ![next] = TRUE]
        /\ \E o, e \in {0, Lines} :
             left' = [left EXCEPT ![next] = [out |-> o, err |-> e]]
        /\ IF next = n THEN Goto("capture", n) ELSE Goto("start", next + 1)
     \/ Goto("failed", next) /\ UNCHANGED <<proc, held, left>>
  /\ UNCHANGED <<n, expired, child, odd, out, err, capture, written>>

(* A stage could not be started: the pipes of the others are closed, so    *)
(* that none of them waits for a reader, and the others are reaped.        *)
(* Mutant: nobody is reaped.                                               *)
StartFailed_NoWait ==
  /\ phase = "failed" /\ Goto("returned", 0)
  /\ held' = [i \in Stages |-> FALSE]
  /\ UNCHANGED <<n, expired, stages, out, err, capture, written>>

StartFailed ==
  /\ phase = "failed" /\ Goto("wait", n)
  /\ held' = [i \in Stages |-> FALSE]
  /\ UNCHANGED <<n, expired, stages, out, err, capture, written>>

(* processLine: the result has the lines that fit, and says when it is full. *)
Line ==
  LET room == MaxCapture - result.kept IN
  result' = [kept      |-> IF room > 0 THEN result.kept + 1 ELSE result.kept,
             truncated |-> result.truncated \/ room <= 1]

ReadOut ==
  /\ phase = "capture" /\ outReader = "reading"
  /\ \/ /\ out[n] > 0 /\ out' = [out EXCEPT ![n] = @ - 1]
        /\ \/ Line /\ UNCHANGED outReader
           \/ outReader' = "stopped" /\ UNCHANGED result
     \/ OutEnded(n) /\ outReader' = "done" /\ UNCHANGED <<out, result>>
  /\ UNCHANGED <<control, stages, err, held, errReader, written>>

ReadErr(i) ==
  /\ phase = "capture" /\ errReader[i] = "reading"
  /\ \/ /\ err[i] > 0 /\ err' = [err EXCEPT ![i] = @ - 1]
        /\ \/ Line /\ UNCHANGED errReader
           \/ errReader' = [errReader EXCEPT ![i] = "stopped"] /\ UNCHANGED result
     \/ /\ ErrEnded(i)
        /\ errReader' = [errReader EXCEPT ![i] = "done"] /\ UNCHANGED <<err, result>>
  /\ UNCHANGED <<control, stages, out, held, outReader, written>>

(* Mutant: the readers of the errors are not waited for.                   *)
Captured_OutOnly ==
  /\ phase = "capture" /\ outReader # "reading"
  /\ Goto("wait", n)
  /\ UNCHANGED <<n, expired, stages, pipes, capture, written>>

Captured ==
  /\ phase = "capture" /\ outReader # "reading"
  /\ \A i \in 1..n : errReader[i] # "reading"
  /\ Goto("wait", n)
  /\ UNCHANGED <<n, expired, stages, pipes, capture, written>>

(* wait: from the last stage to the first, and the pipes of each are then  *)
(* closed.                                                                 *)
Wait ==
  /\ phase = "wait"
  /\ \/ next = 0 /\ Goto("returned", 0) /\ UNCHANGED <<proc, held>>
     \/ /\ next > 0 /\ proc[next] = "none"
        /\ Goto("wait", next - 1) /\ UNCHANGED <<proc, held>>
     \/ /\ next > 0 /\ proc[next] = "exited"
        /\ Goto("wait", next - 1)
        /\ proc' = [proc EXCEPT ![next] = "reaped"]
        /\ held' = [held EXCEPT ![next] = FALSE]
  /\ UNCHANGED <<n, expired, child, left, odd, out, err, capture, written>>

Executor == Start \/ StartFailed \/ ReadOut \/ Captured \/ Wait
Stage(i) == WriteOut(i) \/ WriteErr(i) \/ ReadIn(i) \/ Finish(i)
Odd(i)   == ExitEarly(i) \/ Fork(i) \/ ChildEnds(i)

Next ==
  \/ Executor \/ Expire \/ Hang
  \/ \E i \in 1..n : ReadErr(i) \/ Stage(i) \/ Odd(i) \/ Kill(i)

(* The threads of the executor run, the limit's timer kills what is there  *)
(* to kill, and stages that are not odd do their work.  The limit itself   *)
(* need not pass.                                                          *)
Fairness ==
  /\ WF_vars(Executor)
  /\ \A i \in Stages : WF_vars(i <= n /\ ReadErr(i)) /\ WF_vars(i <= n /\ Kill(i))
  /\ \A i \in Stages : WF_vars(~odd /\ i <= n /\ Stage(i))

Spec == Init /\ [][Next]_vars /\ Fairness

-----------------------------------------------------------------------------
(* What must hold.                                                         *)

Stopped == outReader = "stopped" \/ \E i \in 1..n : errReader[i] = "stopped"
Failed  == \E i \in 1..n : proc[i] = "none"

(* When a pipeline that was started has ended within its limit, with no    *)
(* line too long, its result has every line that the last stage, and every *)
(* stage as its errors, wrote, or says that it is truncated: no pipe is    *)
(* closed before it was read to its end.                                   *)
OutputComplete ==
  phase = "returned" /\ ~expired /\ ~Stopped /\ ~Failed =>
    result.kept = written \/ result.truncated

(* When it has returned, for whatever reason, every stage that was started *)
(* has been reaped and every pipe closed.                                  *)
Reaped ==
  phase = "returned" =>
    \A i \in 1..n : proc[i] \in {"none", "reaped"} /\ ~held[i]

(* The limit is enforced: once it has passed the call returns, whatever    *)
(* the stages do.  It needs the children to stay in their groups.          *)
LimitEnforced == expired ~> phase = "returned"

(* Stages that read to the end and then exit do not need the limit: no     *)
(* pipe is left that somebody waits for and nobody serves, even if a stage *)
(* could not be started.                                                   *)
EndsByItself == <>(phase = "returned" \/ expired \/ odd \/ Stopped)

(* The call of the tool ends, with the help of the limit only if a stage   *)
(* needs it.                                                               *)
CallEnds == LimitEnforced /\ EndsByItself
-----------------------------------------------------------------------------
(* Why it holds: types, and what each phase knows of the stages and of the *)
(* readers.                                                                *)

ControlType ==
  /\ n \in Stages /\ next \in 0..MaxStages /\ expired \in BOOLEAN
  /\ phase \in {"start", "failed", "capture", "wait", "returned"}

StageType ==
  /\ proc \in [Stages -> {"none", "running", "exited", "reaped"}]
  /\ child \in [Stages -> {"none", "inGroup", "escaped"}]
  /\ left \in [Stages -> [out : Nat, err : Nat]] /\ odd \in BOOLEAN

PipeType ==
  /\ out \in [Stages -> 0..Capacity] /\ err \in [Stages -> 0..Capacity]
  /\ held \in [Stages -> BOOLEAN] /\ written \in Nat

CaptureType ==
  /\ outReader \in {"reading", "stopped", "done"}
  /\ errReader \in [Stages -> {"reading", "stopped", "done"}]
  /\ result \in [kept : Nat, truncated : BOOLEAN]

TypeOK == ControlType /\ StageType /\ PipeType /\ CaptureType

Gone(i) == proc[i] \in {"none", "reaped"} /\ ~held[i]

(* The executor holds no pipe of a stage that it did not start, and has    *)
(* none of those that it has yet to start, or has waited for.              *)
StagesInv ==
  /\ \A i \in Stages : proc[i] = "none" => ~held[i] /\ child[i] = "none"
  /\ phase \in {"start", "failed"} =>
       next \in 1..n /\ \A i \in next..n : proc[i] = "none"
  /\ phase = "wait" => next \in 0..n /\ \A i \in (next + 1)..n : Gone(i)
  /\ phase = "returned" => \A i \in 1..n : Gone(i)

(* Nothing is read before all are started; a reader that is done leaves an *)
(* empty pipe that nobody can write to any more.                           *)
ReadersInv ==
  /\ phase \in {"start", "failed"} =>
       outReader = "reading" /\ \A i \in 1..n : errReader[i] = "reading"
  /\ outReader = "done" => OutEnded(n)
  /\ \A i \in 1..n : errReader[i] = "done" => ErrEnded(i)

(* Unless a stage could not be started, nobody is waited for before the    *)
(* readers have ended.                                                     *)
WaitInv ==
  phase \in {"wait", "returned"} /\ ~Failed =>
    outReader # "reading" /\ \A i \in 1..n : errReader[i] # "reading"

(* When a pipeline that was started has returned, also because its limit   *)
(* passed, every pipe that is captured was read to its end, which no       *)
(* writer survives, or up to a line too long.                              *)
Drained ==
  phase = "returned" /\ ~Failed =>
    /\ outReader = "stopped" \/ OutEnded(n)
    /\ \A i \in 1..n : errReader[i] = "stopped" \/ ErrEnded(i)

(* A line of the errors is counted by its place: its stage, its number in  *)
(* the pipe.  Until something is cut, the lines written are those kept and *)
(* those that are still in a pipe.                                         *)
InErr == {p \in (1..n) \X (1..Capacity) : p[2] <= err[p[1]]}

CountInv ==
  ~Stopped /\ ~result.truncated => written = result.kept + out[n] + Cardinality(InErr)

IInv == StagesInv /\ ReadersInv /\ WaitInv /\ CountInv
=============================================================================
