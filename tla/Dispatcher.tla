----------------------------- MODULE Dispatcher -----------------------------
(***************************************************************************)
(* One call of Dispatcher.Execute (internal/agent/executor): the function  *)
(* calls of a model response are split into batches, each batch is run by  *)
(* worker goroutines or inline, every call runs under safetyDecorator (a   *)
(* deadline, a liveness monitor, a detached tool goroutine), the results   *)
(* are collected from a channel and the remaining slots are filled when    *)
(* the plan halts or the caller's context is cancelled.                    *)
(*                                                                         *)
(* A tool's result is abstracted to the class the code tells apart:        *)
(*   ok       a text and no error (also a refusal by the user: its Error   *)
(*            is removed by handleClassifiedError)                         *)
(*   blank    no text and no error                                         *)
(*   failed   an error, returned or in the ToolResult, or a panic          *)
(*   aborted  the call's context was done first: its deadline, a missed    *)
(*            heartbeat or the caller (formatContextError)                 *)
(***************************************************************************)
EXTENDS Integers, FiniteSets

CONSTANTS NumCalls,     \* function calls in the model's response
          MaxWorkers    \* MaxConcurrentTools

ASSUME DispatcherAssumption == /\ NumCalls \in Nat \ {0}
                               /\ MaxWorkers \in Nat \ {0}

Calls   == 1..NumCalls
Workers == 1..MaxWorkers

Outputs  == {"ok", "blank", "failed"}                 \* of a tool
Answers  == Outputs \cup {"aborted"}                  \* of ExecuteTool
Filler   == {"declined", "skipped", "interrupted"}    \* written by the plan
HasError == {"failed", "aborted", "declined", "interrupted"}

VARIABLES
  cancelled,   \* the caller's ctx is done
  pc,          \* "begin", "check", "collect", "done"
  serial,      \* calls whose tool is registered Serial
  todo,        \* calls of the batches not started yet
  batch,       \* calls of the batch in execution
  results,     \* the results slice
  planErr,     \* planErrors is not empty
  jobs,        \* jobsCh (buffered with every task, closed)
  wpc, wcall,  \* worker goroutines: control point, and call in hand or 0
  outbox,      \* resultsCh: results sent and not received yet
  signals,     \* resultsCh: index -1 sentinels sent and not received yet
  tool,        \* executeToolSafe's goroutine; an Output is one in outCh
  expired,     \* calls whose own context is done
  monitor      \* ZombieTool.Monitor

plan  == <<cancelled, pc, serial, todo, batch, results, planErr>>
crew  == <<jobs, wpc, wcall, outbox, signals>>
tools == <<tool, expired, monitor>>
vars  == <<plan, crew, tools>>

(* Types: slots, channels and goroutines hold what their code can put     *)
(* there, and a busy worker has a call.                                    *)
TypeOK ==
  /\ cancelled \in BOOLEAN /\ planErr \in BOOLEAN
  /\ pc \in {"begin", "check", "collect", "done"}
  /\ serial \subseteq Calls /\ todo \subseteq Calls
  /\ batch \subseteq Calls /\ jobs \subseteq Calls
  /\ results \in [Calls -> Answers \cup Filler \cup {"empty"}]
  /\ wpc \in [Workers -> {"off", "select", "await", "unresolved"}]
  /\ wcall \in [Workers -> Calls \cup {0}]
  /\ \A w \in Workers : wpc[w] \in {"await", "unresolved"} => wcall[w] # 0
  /\ outbox \in [Calls -> Answers \cup {"none"}]
  /\ signals \in Nat
  /\ tool \in [Calls -> Outputs \cup {"idle", "running", "gone"}]
  /\ expired \subseteq Calls
  /\ monitor \in [Calls -> {"off", "watching", "reported"}]

Init ==
  /\ cancelled = FALSE /\ pc = "begin" /\ planErr = FALSE
  /\ serial = {} /\ todo = {} /\ batch = {} /\ jobs = {}
  /\ results = [i \in Calls |-> "empty"]
  /\ wpc = [w \in Workers |-> "off"]
  /\ wcall = [w \in Workers |-> 0]
  /\ outbox = [i \in Calls |-> "none"]
  /\ signals = 0
  /\ tool = [i \in Calls |-> "idle"]
  /\ expired = {}
  /\ monitor = [i \in Calls |-> "off"]

-----------------------------------------------------------------------------
(* The plan: runExecutionPlan in the goroutine that called Execute.        *)

First(S) == CHOOSE i \in S : \A j \in S : i <= j

(* Mutant: the parallel calls on both sides of a serial one share a batch. *)
FirstBatch_NoBarrier(S) ==
  IF First(S) \in serial THEN {First(S)} ELSE S \ serial

(* buildExecutionBatches: a serial call is a batch of its own, consecutive *)
(* parallel calls share one; S holds the calls not batched yet.            *)
FirstBatch(S) ==
  IF First(S) \in serial
  THEN {First(S)}
  ELSE {i \in S : \A k \in S \cap serial : i < k}

(* Mutant: failRemainingTasks without shouldSkipTask.                      *)
Fill_Overwrite(S, filler) ==
  [i \in Calls |-> IF i \in S THEN filler ELSE results[i]]

(* failRemainingTasks over the calls S: a slot is overwritten unless it    *)
(* holds a text or an error already (shouldSkipTask).                      *)
Fill(S, filler) ==
  [i \in Calls |-> IF i \in S /\ results[i] \in {"empty", "blank"}
                   THEN filler ELSE results[i]]

(* RequestBatchConsent decides which calls are declined; their slots are   *)
(* filled while the batches are built, and no batch contains them.         *)
Begin ==
  /\ pc = "begin"
  /\ \E declined, S \in SUBSET Calls :
       /\ serial' = S
       /\ results' = [i \in Calls |-> IF i \in declined THEN "declined"
                                                        ELSE "empty"]
       /\ todo' = Calls \ declined
  /\ pc' = "check"
  /\ UNCHANGED <<cancelled, batch, planErr, crew, tools>>

(* The loop is over: the context's error, if any, joins planErrors.        *)
Finish ==
  /\ pc = "check" /\ todo = {}
  /\ planErr' = (planErr \/ cancelled)
  /\ pc' = "done"
  /\ UNCHANGED <<cancelled, serial, todo, batch, results, crew, tools>>

(* checkPreconditions found the context done before a batch.               *)
Interrupt ==
  /\ pc = "check" /\ todo # {} /\ cancelled
  /\ results' = Fill(todo, "interrupted")
  /\ planErr' = TRUE
  /\ pc' = "done"
  /\ UNCHANGED <<cancelled, serial, todo, batch, crew, tools>>

(* ExecuteTool up to its first wait: the name does not resolve, or the     *)
(* tool's goroutine is started under a context derived from the caller's.  *)
Launch(w, i) ==
  /\ wcall' = [wcall EXCEPT ![w] = i]
  /\ \/ /\ wpc' = [wpc EXCEPT ![w] = "unresolved"]
        /\ UNCHANGED tool
     \/ /\ wpc' = [wpc EXCEPT ![w] = "await"]
        /\ tool' = [tool EXCEPT ![i] = "running"]

(* executeSerialBatch runs the call inline, without looking at ctx first.  *)
StartSerial ==
  /\ pc = "check" /\ todo # {} /\ ~cancelled
  /\ First(todo) \in serial
  /\ batch' = FirstBatch(todo)
  /\ todo' = todo \ batch'
  /\ Launch(1, First(todo))
  /\ pc' = "collect"
  /\ UNCHANGED <<cancelled, serial, results, planErr,
                 jobs, outbox, signals, expired, monitor>>

(* executeParallelBatchWithFanIn: min(MaxWorkers, tasks) workers share     *)
(* jobsCh.                                                                 *)
StartParallel ==
  /\ pc = "check" /\ todo # {} /\ ~cancelled
  /\ First(todo) \notin serial
  /\ batch' = FirstBatch(todo)
  /\ todo' = todo \ batch'
  /\ jobs' = batch'
  /\ wpc' = [w \in Workers |-> IF w <= Cardinality(batch') THEN "select"
                                                            ELSE "off"]
  /\ pc' = "collect"
  /\ UNCHANGED <<cancelled, serial, results, planErr,
                 wcall, outbox, signals, tools>>

(* handleBatchResults: one message is received from resultsCh.             *)
CollectResult(i) ==
  /\ pc = "collect" /\ outbox[i] # "none"
  /\ results' = [results EXCEPT ![i] = outbox[i]]
  /\ outbox' = [outbox EXCEPT ![i] = "none"]
  /\ UNCHANGED <<cancelled, pc, serial, todo, batch, planErr,
                 jobs, wpc, wcall, signals, tools>>

CollectSignal ==
  /\ pc = "collect" /\ signals > 0
  /\ signals' = signals - 1
  /\ planErr' = TRUE
  /\ UNCHANGED <<cancelled, pc, serial, todo, batch, results,
                 jobs, wpc, wcall, outbox, tools>>

(* Mutant: the receive loop ends when resultsCh is empty, not when closed. *)
Drained_Empty == /\ \A i \in Calls : outbox[i] = "none"
                 /\ signals = 0

(* The fan-in goroutine closes resultsCh when every worker has returned,   *)
(* the inline run when its result is sent; the receive loop then ends.     *)
Drained == /\ \A w \in Workers : wpc[w] = "off"
           /\ \A i \in Calls : outbox[i] = "none"
           /\ signals = 0

(* Mutant: a timeout or cancellation of the call is not seen as a failure. *)
SerialFailed_ErrorsOnly == \E i \in batch \cap serial : results[i] = "failed"

SerialFailed == \E i \in batch \cap serial : results[i] \in HasError

(* Mutant: the context's error is not joined to planErrors.                *)
HaltSerial_ErrLost ==
  /\ pc = "collect" /\ Drained /\ batch \subseteq serial
  /\ SerialFailed \/ cancelled
  /\ results' = Fill(todo, "skipped")
  /\ pc' = "done"
  /\ UNCHANGED <<cancelled, serial, todo, batch, planErr, crew, tools>>

(* evaluateBatchOutcome.  The trigger of a serial halt keeps its result    *)
(* (isTriggerTask); after a parallel batch only ctx halts the plan.        *)
HaltSerial ==
  /\ pc = "collect" /\ Drained /\ batch \subseteq serial
  /\ SerialFailed \/ cancelled
  /\ results' = Fill(todo, "skipped")
  /\ planErr' = (planErr \/ cancelled)
  /\ pc' = "done"
  /\ UNCHANGED <<cancelled, serial, todo, batch, crew, tools>>

(* Mutant: failRemainingTasks from the batch after the interrupted one.    *)
HaltParallel_NextBatchOnly ==
  /\ pc = "collect" /\ Drained /\ ~(batch \subseteq serial) /\ cancelled
  /\ results' = Fill(todo, "interrupted")
  /\ planErr' = TRUE
  /\ pc' = "done"
  /\ UNCHANGED <<cancelled, serial, todo, batch, crew, tools>>

HaltParallel ==
  /\ pc = "collect" /\ Drained /\ ~(batch \subseteq serial) /\ cancelled
  /\ results' = Fill(batch \cup todo, "interrupted")
  /\ planErr' = TRUE
  /\ pc' = "done"
  /\ UNCHANGED <<cancelled, serial, todo, batch, crew, tools>>

NextBatch ==
  /\ pc = "collect" /\ Drained /\ ~SerialFailed /\ ~cancelled
  /\ pc' = "check"
  /\ UNCHANGED <<cancelled, serial, todo, batch, results, planErr,
                 crew, tools>>

Plan == \/ Begin \/ Finish \/ Interrupt
        \/ StartSerial \/ StartParallel
        \/ \E i \in Calls : CollectResult(i)
        \/ CollectSignal
        \/ HaltSerial \/ HaltParallel \/ NextBatch

-----------------------------------------------------------------------------
(* The workers: parallelWorker, and ExecuteTool under safetyDecorator.     *)
(* Receiving an answer and sending it on are one step: what the goroutine  *)
(* does in between is its own.  The send waits for room in resultsCh.      *)

HasRoom == Cardinality({i \in Calls : outbox[i] # "none"}) + signals
             < Cardinality(batch)

(* Both select cases may be ready; Go then takes either.                   *)
TakeJob(w) ==
  /\ wpc[w] = "select" /\ jobs # {}
  /\ jobs' = jobs \ {First(jobs)}
  /\ Launch(w, First(jobs))
  /\ UNCHANGED <<plan, outbox, signals, expired, monitor>>

NoMoreJobs(w) ==
  /\ wpc[w] = "select" /\ jobs = {}
  /\ wpc' = [wpc EXCEPT ![w] = "off"]
  /\ UNCHANGED <<plan, jobs, wcall, outbox, signals, tools>>

SeeCancel(w) ==
  /\ wpc[w] = "select" /\ cancelled /\ HasRoom
  /\ signals' = signals + 1
  /\ wpc' = [wpc EXCEPT ![w] = "off"]
  /\ UNCHANGED <<plan, jobs, wcall, outbox, tools>>

(* A worker goes back to its select, the inline serial run is over.        *)
Send(w, answer) ==
  /\ HasRoom
  /\ outbox' = [outbox EXCEPT ![wcall[w]] = answer]
  /\ wpc' = [wpc EXCEPT ![w] = IF batch \subseteq serial THEN "off"
                                                         ELSE "select"]
  /\ wcall' = [wcall EXCEPT ![w] = 0]
  /\ UNCHANGED <<plan, jobs, signals>>

AnswerUnresolved(w) ==
  /\ wpc[w] = "unresolved"
  /\ Send(w, "failed")
  /\ UNCHANGED tools

(* Mutant: the call runs under the caller's context, without a deadline.   *)
CtxDone_CallerOnly(i) == cancelled

CtxDone(i) == cancelled \/ i \in expired

(* safetyDecorator.Execute received outCh; its deferred cancel ends the    *)
(* call's context.                                                         *)
ReceiveOutput(w) ==
  LET i == wcall[w] IN
  /\ wpc[w] = "await" /\ tool[i] \in Outputs
  /\ Send(w, tool[i])
  /\ tool' = [tool EXCEPT ![i] = "gone"]
  /\ expired' = expired \cup {i}
  /\ UNCHANGED monitor

(* Mutant: handleTimeout starts no monitor.                                *)
GiveUp_Unwatched(w) ==
  LET i == wcall[w] IN
  /\ wpc[w] = "await" /\ CtxDone(i)
  /\ Send(w, "aborted")
  /\ expired' = expired \cup {i}
  /\ UNCHANGED <<tool, monitor>>

(* It received ctx.Done(): the tool goroutine is left to ZombieTool.       *)
GiveUp(w) ==
  LET i == wcall[w] IN
  /\ wpc[w] = "await" /\ CtxDone(i)
  /\ Send(w, "aborted")
  /\ monitor' = [monitor EXCEPT ![i] = "watching"]
  /\ expired' = expired \cup {i}
  /\ UNCHANGED tool

Worker(w) == \/ TakeJob(w) \/ NoMoreJobs(w) \/ SeeCancel(w)
             \/ AnswerUnresolved(w) \/ ReceiveOutput(w) \/ GiveUp(w)

-----------------------------------------------------------------------------
(* Tool goroutines, timers, zombie monitors and the caller.                *)

(* executeToolSafe puts one output into outCh (capacity 1); nobody looks   *)
(* at the output of an abandoned tool, so its class is not chosen.         *)
ToolReturn(i) ==
  /\ tool[i] = "running"
  /\ \E o \in IF monitor[i] = "off" THEN Outputs ELSE {"ok"} :
       tool' = [tool EXCEPT ![i] = o]
  /\ UNCHANGED <<plan, crew, expired, monitor>>

Awaited(i) == \E w \in Workers : wcall[w] = i /\ wpc[w] = "await"

(* The call's deadline passes (resolveTimeout), or monitorLiveness cancels *)
(* it after a missed heartbeat.                                            *)
Expire(i) ==
  /\ Awaited(i) /\ ~CtxDone(i)
  /\ expired' = expired \cup {i}
  /\ UNCHANGED <<plan, crew, tool, monitor>>

(* ZombieTool.Monitor: the late output is discarded and reported ...       *)
ReportLate(i) ==
  /\ monitor[i] = "watching" /\ tool[i] \in Outputs
  /\ tool' = [tool EXCEPT ![i] = "gone"]
  /\ monitor' = [monitor EXCEPT ![i] = "reported"]
  /\ UNCHANGED <<plan, crew, expired>>

(* ... or the zombie timeout passes first; the goroutine stays.            *)
ReportZombie(i) ==
  /\ monitor[i] = "watching"
  /\ monitor' = [monitor EXCEPT ![i] = "reported"]
  /\ UNCHANGED <<plan, crew, tool, expired>>

(* The user interrupts the turn.                                           *)
Cancel ==
  /\ ~cancelled /\ pc # "done"
  /\ cancelled' = TRUE
  /\ UNCHANGED <<pc, serial, todo, batch, results, planErr, crew, tools>>

Done == pc = "done" /\ UNCHANGED vars

Next == \/ Plan
        \/ \E w \in Workers : Worker(w)
        \/ \E i \in Calls : \/ ToolReturn(i) \/ Expire(i)
                            \/ ReportLate(i) \/ ReportZombie(i)
        \/ Cancel
        \/ Done

(* Goroutines run and timers fire; nothing makes a tool return or the user *)
(* cancel.  Each of these steps happens finitely often, so that one of     *)
(* them is taken as long as one is possible is all the fairness there is.  *)
System == \/ Plan
          \/ \E w \in Workers : Worker(w)
          \/ \E i \in Calls : Expire(i) \/ ReportZombie(i)

Fairness == WF_vars(System)

Spec     == Init /\ [][Next]_vars
FairSpec == Spec /\ Fairness

-----------------------------------------------------------------------------
(* Properties                                                              *)

Live(i)   == results[i] # "declined"
Failed(i) == results[i] \in HasError \ {"declined"}

(* Every function call of the response is answered when Execute returns,   *)
(* whatever was cancelled, timed out or left in jobsCh: the provider       *)
(* rejects a history with an unanswered call (AssembleResponse).           *)
EveryCallAnswered == pc = "done" => \A i \in Calls : results[i] # "empty"

(* A slot is written once, by the answer of its call or by a filler, and a *)
(* filler ("skipped", "interrupted") never stands for a call whose tool    *)
(* ran: the model would repeat a side effect.  The one exception is a tool *)
(* that answered blank: failRemainingTasks takes its slot for empty.       *)
AnswersKept ==
  [][\A i \in Calls : results'[i] # results[i] =>
       \/ results[i] = "empty" /\ (results'[i] \in Filler => tool[i] = "idle")
       \/ results[i] = "blank" /\ results'[i] = "interrupted"]_vars

(* Batches are a barrier: once a call runs, each earlier call from which a *)
(* serial call separates it (or that is one of the two) was collected.     *)
Barrier ==
  \A i, j \in Calls :
    /\ i < j /\ tool[j] # "idle"
    /\ \E k \in i..j : k \in serial /\ Live(k)
    => results[i] # "empty"

(* A failed serial call halts the plan: nothing after it ever runs.        *)
SerialFailureHalts ==
  \A i, j \in Calls : i \in serial /\ i < j /\ Failed(i) => tool[j] = "idle"

(* Execute returns no error only if the plan was not cut short by the      *)
(* context: then nothing is interrupted and every skip is explained by an  *)
(* earlier serial call that failed.                                        *)
SkipsExplained ==
  pc = "done" /\ ~planErr =>
    \A i \in Calls :
      /\ results[i] # "interrupted"
      /\ results[i] = "skipped" => \E s \in serial : s < i /\ Failed(s)

(* While the plan waits for a serial call it waits for no other: the       *)
(* workers of a batch are gone when the next batch starts.                 *)
SerialAwaitedAlone ==
  \A i, j \in Calls : Awaited(i) /\ Awaited(j) /\ i \in serial => i = j

Busy(w, i) == wcall[w] = i /\ wpc[w] \in {"await", "unresolved"}

(* Which parts are at rest in which phase of runExecutionPlan.             *)
PhaseInv ==
  /\ pc # "collect" => \A w \in Workers : wpc[w] = "off"
  /\ \A i \in Calls : outbox[i] # "none" => pc = "collect" /\ i \in batch
  /\ pc \in {"begin", "check"} => jobs = {}
  /\ pc = "begin" => \A i \in Calls : tool[i] = "idle"

(* Where an unanswered call of the current batch is: in jobsCh, with a     *)
(* worker or in resultsCh; jobs without workers only after a cancellation. *)
BatchInv ==
  pc = "collect" =>
    /\ batch # {} /\ batch \cap todo = {} /\ jobs \subseteq batch
    /\ \/ batch \cap serial = {}
       \/ jobs = {} /\ \E s \in serial : batch = {s}
    /\ jobs # {} => cancelled \/ \E w \in Workers : wpc[w] # "off"
    /\ \A w \in Workers, i \in Calls : Busy(w, i) => i \in batch
    /\ \A i \in batch :
         /\ Live(i)
         /\ results[i] = "empty" =>
              \/ i \in jobs \/ outbox[i] # "none"
              \/ \E w \in Workers : Busy(w, i)

(* Batches leave the plan in order, and a slot is empty only while its     *)
(* call is still to be collected.                                          *)
OrderInv ==
  pc # "begin" =>
    /\ \A i \in Calls : results[i] = "empty" =>
         pc # "done" /\ (i \in todo \/ (pc = "collect" /\ i \in batch))
    /\ \A i \in todo : pc # "done" => results[i] = "empty"
    /\ \A i \in Calls : tool[i] # "idle" => i \notin todo /\ Live(i)
    /\ \A i \in Calls, k \in todo : i \notin todo /\ Live(i) => i < k
    /\ pc = "collect" =>
         \A i \in Calls, b \in batch :
           i \notin todo \cup batch /\ Live(i) => i < b

(* The plan goes on only while no serial call has failed.                  *)
FailureInv ==
  /\ pc = "begin" => \A i \in Calls : ~Failed(i)
  /\ pc = "check" => \A i \in serial : ~Failed(i)
  /\ pc = "collect" => \A i \in serial \ batch : ~Failed(i)

(* The inductive invariant behind EveryCallAnswered, Barrier and           *)
(* SerialFailureHalts: what every step of Execute and its pool preserves.  *)
IInv == /\ PhaseInv /\ BatchInv /\ OrderInv /\ FailureInv
        /\ Barrier /\ SerialFailureHalts

(* A call without a result is in one place: not started yet, in jobsCh,    *)
(* with a single worker, or in resultsCh.                                  *)
SlotInv ==
  /\ pc = "begin" => \A i \in Calls : results[i] = "empty"
  /\ pc = "collect" =>
       \A i \in jobs : tool[i] = "idle" /\ results[i] = "empty"
                                        /\ outbox[i] = "none"
  /\ \A i \in Calls : outbox[i] # "none" => results[i] = "empty"
  /\ \A w \in Workers, i \in Calls :
       Busy(w, i) => /\ i \notin jobs /\ results[i] = "empty"
                     /\ outbox[i] = "none"
                     /\ \A v \in Workers : Busy(v, i) => v = w

(* The plan alone writes "skipped" and "interrupted", as its last step.    *)
SkipInv ==
  /\ pc # "done" =>
       \A i \in Calls : results[i] \notin {"skipped", "interrupted"}
  /\ SkipsExplained

(* Execute returns even when tools never do.                               *)
Termination == <>(pc = "done")

(* No tool goroutine is forgotten: each one that was started is collected  *)
(* by the worker that waits for it or, abandoned at a deadline, a missed   *)
(* heartbeat or a cancellation, reported to the ExecutionObserver, though  *)
(* the tool never returns and Execute returned long ago.                   *)
Accounted(i) == tool[i] \in {"idle", "gone"} \/ monitor[i] = "reported"
ToolsAccounted == <>[](\A i \in Calls : Accounted(i))
=============================================================================
