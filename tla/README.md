# Verification of tell-me-go

tell-me-go is a command-line agent: it sends a conversation to a language model,
runs the tools the model calls, sends the results back, and keeps the
conversation on disk. This directory holds TLA+ models of the parts of it where
the order of things matters, configurations for TLC, and proofs for TLAPS.

Paths are relative to `src/internal/` unless they start with `docs/`.

## 1. The system

| component | code | state | operations | interacts with |
|---|---|---|---|---|
| tool dispatcher | `agent/executor`, `domain/tools/zombie.go` | plan of batches, jobs and results channels, one slot per call, a context per call, abandoned tool goroutines | `Execute`, pool workers, fan-in, `failRemainingTasks`, deadline and heartbeat, `ZombieTool.Monitor` | called by the engine's execution phase; runs tools |
| turn engine | `agent/orchestrator`, `agent/agent.go` | `TurnState` (phase, response, results, last error, retry count), loop detector | `Chat`, `Run`, the six phases, `RecoveryStep`, `handleLoopBreak`, `emergencySave` | session context, gateway, dispatcher, event bus |
| session context | `agent/session/context` | version of the history, pipeline of transformers | `AddContent`, `Prepare`, `SummarizeRange`, gatekeeper, pruner | history store; summary and pin tools call it while a turn runs |
| history store | `infrastructure/history`, `infrastructure/persistence/atomic.go` | contents in memory, `history.jsonl`, archive | `Load`, `Save`, `AddContent`, `AppendParts`, `SetPinned`, `SetContents`, `RollbackTurns`, `UpdateTurnContent`, `Archive` | session context, retry and edit commands |
| UI bridge | `agent/session/ui`, `agent/session/session_manager.go` | bounded event queue, closed flag, listener goroutine, spinner state | `HandleEvent`, `Listen`, `CloseInput`, `Cleanup`, `AbortStart` | subscribes to the bus; ends with the session |
| event bus | `domain/events` | subscribers, closed flag, pending count | `Publish`, `Subscribe`, `Flush`, `Shutdown` | engine, dispatcher, bridge, logger, hooks |
| turns logger | `infrastructure/logging` | bounded channel, closed flag, wait group, file | `HandleEvent`, `Listen`, `Close` | subscribes to the bus; a chat runs its listener, shutdown and the container's cleanup close it |
| agent memory | `agent/memory` | one buffer of episodes per session | `AfterTurn`, `FlushSession` | hook of the engine; calls the memory server through the MCP client |
| MCP client | `infrastructure/mcp` | child process, reaper, sticky exit error, closed flag | `NewStdioClient`, `CallTool`, `ListTools`, `Close` | tools of external servers, agent memory |
| shell commands and pipelines | `tools/workspace`, `infrastructure/process` | processes, pipes, the captured output | `RunCommand`, `RunPipeline`, kill at the limit | called by the dispatcher like any tool |
| prompt suggestions | `app/suggestions`, `infrastructure/history/global_prompt_tracker.go` | pending appends, a file shared by all sessions | `RecordPrompt`, `Append`, compaction, `Close` | the terminal's prompt |
| LLM gateway | `infrastructure/llm`, `infrastructure/auth`, `infrastructure/di/lazy_client.go` | client made on first use, position in the chain of providers, token in memory, SDK client and file, uploaded files of a turn | `Generate`, `SendChat`, `RefreshAuth`, `getToken`, `Invalidate`, upload and release | called by the inference phase and by the summariser |
| configuration | `infrastructure/config` | cached limits, modification times | `Refresh`, getters | limits of the engine and of the context |
| task service, stores | `domain/services`, `infrastructure/persistence` | SQLite tables | create, update, delete | task tools |
| security, telemetry, other tools, terminal interface, command line | the rest | - | - | one call each, or drawing |

What is hard, and what makes each part correct:

* **Dispatcher.** Pool workers, tools, timers and the user race. A context that
  is done and a job that is waiting are chosen between at random; a tool that
  misses its deadline keeps running. Correct means: every call of the response is
  answered exactly once, an answer that says "not run" is true, a serial call is
  a barrier, nothing follows a failed serial call, `Execute` returns even when
  tools do not.
* **Engine.** A turn stores up to two messages in two appends; it can fail, be
  cancelled or crash before, between and after them. Retries, loop breaks and the
  emergency save all touch the same two fields. Correct means: results stand
  next to their calls, nothing is stored twice or lost, a run that claims success
  answered its calls, every run ends.
* **History store.** Messages and patches are appended and fsynced; a patch names
  a message by its position; rewrites go through a rename. Correct means: the
  file replays to the memory, acknowledged updates survive a crash, an update in
  flight is all or nothing.
* **Session context.** Summaries replace part of the history while tools pin or
  summarise it, and the summariser is slow and called without the lock. Correct
  means: nobody replaces what he has not seen, pinned turns stay, what a tool takes
  out of the history is in the archive, a summary is not undone.
* **UI bridge, bus, logger.** Bounded queues, a renderer that may hang or panic,
  closing while somebody sends. Correct means: what was accepted is shown or
  written, a producer never waits for ever, teardown always ends.
* **Shell commands.** Stages of a pipeline write to pipes of a limited size; one may
  not start, exit early, hang, or leave children that keep the pipes open. Correct
  means: the output is whole or said to be cut, every stage is reaped, the call ends.
* **Memory and MCP client.** A flush takes the buffer, calls a process that may die,
  answer late or not at all, and puts the buffer back; turns go on meanwhile. The
  end of the child is noticed by calls and by `Close`, and can be received once.
  Correct means: no episode is lost, or written twice by the program's own doing, no
  zombie process, and every call returns.
* **Gateway.** Three layers answer a failure: the resilient client refreshes credentials,
  the failover goes to the next provider, the engine tries again; callers and processes
  share one token. Correct means: an expired token is not the user's problem, the layers
  do not multiply their attempts, files uploaded for a request are given back.
* **Prompt file.** It is compacted without a lock around the read. Correct means:
  nothing that could be loaded before is gone after.

The list of hazards, each at its line and with the properties that cover it, is
`hazards` in `PROJECT.json`. Those without a property say why.

## 2. The modules

| module | what it is | runs |
|---|---|---|
| `Dispatcher` | the tool dispatcher | through `MCDispatcher` |
| `DispatcherProofs` | theorems about `Dispatcher` | proved with TLAPS |
| `TurnEngine` | `Agent.Chat`, `Engine.Run`, `AddContent` and the repairing transformers | through `MCTurnEngine` |
| `TurnEngineProofs` | theorems about `TurnEngine` | proved with TLAPS |
| `HistoryLog` | abstract: what a durable history promises | property of `HistoryStore` |
| `HistoryStore` | `history.Manager` and its JSON Lines file | through `MCHistoryStore` |
| `HistoryProofs` | theorems about `HistoryStore`, the refinement of `HistoryLog` included, and about `PromptLog` | proved with TLAPS |
| `EventChannel` | abstract: what the bridge promises the session | property of `UIBridge` |
| `UIBridge` | publishing on the bus, the event queue, `Listen`, teardown | through `MCUIBridge` |
| `SessionContext` | `Manager`: `AddContent`, `Prepare`, `SummarizeRange`, pins | through `MCSessionContext` |
| `SessionProofs` | theorems about `SessionContext` and about `UIBridge`, the refinement of `EventChannel` included | proved with TLAPS |
| `CommandPipeline` | one command or pipeline of the shell tool | through `MCCommandPipeline` |
| `CommandPipelineProofs` | theorems about `CommandPipeline` | proved with TLAPS |
| `TurnsLogger` | the log of turns | through `MCTurnsLogger` |
| `TurnsLoggerProofs` | theorems about `TurnsLogger` | proved with TLAPS |
| `McpStdio` | the client of a server that is a child process | extended by `MemoryHook` |
| `MemoryHook` | the memory of a session over that client | through `MCMemoryHook` |
| `MemoryHookProofs` | theorems about `MemoryHook` and `McpStdio` | proved with TLAPS |
| `Gateway` | lazy client, failover, resilient client, token, uploads | through `MCGateway` |
| `GatewayProofs` | theorems about `Gateway` | proved with TLAPS |
| `PromptLog` | the suggestions' file of prompts | through `MCPromptLog` |

`TurnEngine` and `Dispatcher` meet at `Execute`: the engine takes the results of a
batch of calls as one step, which `EveryCallAnswered` and `Termination` of the
dispatcher justify. `TurnEngine` and `HistoryStore` meet at `AddContent`: in the
engine an append either happens or is refused, which is what `HistoryLog`
promises as long as no failed append leaves a line behind (its variable `exact`).
`UIBridge` meets the engine at `SafePublish`: the bridge's subscriber swallows every
error, so a publication costs the engine at most two seconds (`PublishReturns`, a part of `NobodyHeldUp`) and
never changes what a turn does; this is why `TurnEngine` has no events.
`MemoryHook` extends `McpStdio`: a flush is a caller of the client, and every step
of the client is a step of the composition. `CommandPipeline` is one of the tools
that the dispatcher starts: `CallEnds` is what lets such a tool
return, and the dispatcher does not rely on it. `SessionContext` and `TurnEngine` both
have `AddContent`; the first has what happens to the history between two calls of it,
the second what one turn writes.

Definitions under "Why it holds" or "Invariants the proofs use" at the end of a module
describe its reachable states; they model no code. What they are for is section 6.

Operators named `X_Y`, commented "Mutant", are versions of `X` with a plausible
bug; they are used only to confirm that a property can tell them apart.

### Dispatcher

`pc`, `todo`, `batch`, `serial`, `planErr` are the goroutine of `Execute`: `Begin`
resolves consent and declines, then for each batch `Launch`, `CollectResult`,
`Drained`, and one of `HaltSerial`, `HaltParallel` or the next batch
(`runExecutionPlan`, `evaluateBatchOutcome`). `Interrupt` and `Finish` are the
ways out. `jobs`, `wpc`, `wcall`, `outbox`, `signals` are the pool: `TakeJob`,
`SeeCancel` and `NoMoreJobs` are the arms of the worker's `select`; `Send` puts a
result in the channel. A result is a class: `ok`, `blank` (no text and no error),
`failed`, `aborted` and so on; the fillers are `declined`, `skipped`,
`interrupted`. `tool`, `expired` and `monitor` are the tool's own goroutine, its
context and the zombie monitor: a tool that is not answered in time becomes
`watching` and is `reported` either late or by the monitor's timer.

Bounds: `NumCalls`, `MaxWorkers`. Which calls are serial and which are declined is
chosen at `Begin`, so one run covers every plan of that length.

### TurnEngine

`phase`, `turn`, `retry`, `lastErr`, `resp`, `results`, `hasCalls` are `TurnState`;
`recent` and `count` the loop detector; `history` what is stored. Each phase is a
set of actions, one for each way out of its `Process`. `Ask` is `Agent.Chat` up to
`Run`. `Saving` and `SavingResults` are `emergencySave`, which runs with a context
of its own. `Crash` may happen between any two steps and keeps only the history.
`Cancel` is the user. `limit` follows the reloaded configuration.

Message texts are gone; a part is named by kind, chat and turn, so a part stored
twice or in the wrong place is visible. `Added` is the merge of `AddContent`, the
transformers that insert or drop messages are `Repaired` and `Pruned`.

Bounds: `MaxChats`, `MaxTurns`, `Limits`, `Keys`, `Forms`, `MaxFaults`; the other
constants are the program's own limits, made small.

### HistoryStore and HistoryLog

`mem` is `Manager.Contents`; `file` the lines, of which the first `synced` are
durable. An operation chooses what it writes (`lines`) and what the memory will be
(`next`); the steps are `WriteLine`, `SyncLine`, `Rename`, `Commit`, each of the first
three with a failing twin. The manager's lock is held throughout, so at most one
operation is under way, and a crash can fall between any two steps. A crash keeps
the durable lines and any prefix of the rest, and may tear the first that is lost.
`Load` replays the lines, or refuses when one does not decode.

`HistoryLog` says the same with no file: `contents`, the values the update in
progress may leave behind, whether a failed update left something in the file, and
whether the history can be read. `ImplementsLog` is the refinement.

Bounds: `MaxOps`, `MaxMsgs`, `MaxFaults`, `MaxCrashes`.

### UIBridge

`main` is `sessionManager.Run`: set up, start `Listen` (or `AbortStart` when the
configuration fails), `Chat`, then the steps of `teardownSession` one by one. `producer`
is where a publisher is in `SafePublish`, `Publish`, `HandleEvent` and `enqueueEvent`: each
check that is not atomic with the next is a step of its own, so the queue can be
closed and the listener die between any two. `listener` is the goroutine of `Listen`,
with the order of its deferred calls. `outcome` remembers how each event ended;
`lost` is the panic of a send on a closed channel, recovered by `HandleEvent`, which
then returns nil.

Two publishers stand for all: the engine's side publishes only while `Chat` runs, a
tool that was abandoned may go on after it. Bounds: `Capacity`, `MaxEvents`.

`EventChannel` says the same with no goroutines: what was accepted, what of it is still to
be shown, what was shown, whether the channel is closed, and how the showing ended.
`ImplementsChannel` is the refinement: `Pending` is the event that is being rendered
and then the queue, `Fate` is "over" when `Listen` has ended or teardown found
that it had.

### SessionContext

`history` and `archive` are the stored state, `version` the manager's counter. The engine
is one actor: `Prompt`, `CallTools`, `AddResults` and `Answer` are `AddContent` (with its
merge), `LoadHistory`, `Transform`, `Summarized` and `Persist` are `Prepare`: what it read, the
transformers up to the call of the summariser, the answer of that call, and the
replacement, which is refused when the version has moved. A tool call of `Tools` is
`SummarizeRange`: `Scan` loads a growing window, `Summarize` is the slow call, `Finalize`
takes the lock (`holder`) and compares the messages with those it summarised, then
`Archive` and `SetContents`. `Resolve` and `SetPinned` are `manage_history`, which goes past
both the lock and the version. `Reconfigure` moves the version.

A message is its role, whether it holds calls or results, the contents it holds and
those a summary in it stands for. How many tokens something has is a choice wherever a
limit is tested. Bounds: the `Max` constants but `MaxHistoryTurns`, which is the
pruner's window; `MinHistory` is 10 in the program and 6 in the run, so that a history of
six messages may be summarised by itself.

### CommandPipeline

A line counts as one, so a pipe is a number. `Start`, `StartFailed`, `ReadOut`, `ReadErr`, `Captured`
and `Wait` are the executor; `RunCommand` is the pipeline of one stage. `WriteOut`, `WriteErr`,
`ReadIn`, `Finish`, `ExitEarly`, `Fork`, `Hang` are the stages, which are programs of the user
and external. The program keeps the read end of every stage's output until it
has waited for it (`held`), which is why closing the handles matters when a later stage
fails to start. `Kill` is the limit, which reaches the process group of a stage.
Bounds: `MaxStages`, `Lines`; `Capacity` and `MaxCapture` are limits made small.

### TurnsLogger

Messages are counted. `sender` and `listener` hold the read lock while `sending` and
`entering`; `Close` needs it free. `Write` is `processMessage`, with the length of the channel
read between the write and the sync. `due` is a history variable: what the channel
had accepted when a listener was told to stop. What is accepted while nobody
listens stays in the channel: a report at the very end of the last chat
is never written, as the comment at `agent/agent.go:386` allows.
Bounds: `MaxMessages`, `MaxFaults`, and the sets of goroutines.

### McpStdio and MemoryHook

`child`, `heir`, `waitDone`, `exitErr` are the process, a descendant that has inherited its
standard error, the reaper's channel and the sticky error; `closing` the steps of `Close`
under its lock; `stage`, `answer` and `reply` a call, with what the caller was told kept apart
from what the server did. The hook's `Claim`, `LearnBatch` and `Settle` are `FlushSession`.
`AfterTurn` evicts what does not fit. In the program a chat flushes once, at its end, under
a session of its own; the run lets two flushes and the turns of one session overlap, as
the hook's own lock is written for and its concurrency test does. The count of evicted
episodes is only logged; the model keeps them as a set to tell them from lost ones.
Bounds: `MaxEpisodes`, `MaxReconfigures`, `Callers`.

### Gateway

`chain` and `failover` are the configuration; `client` the lazy client, which is made once,
or fails once and for all. `k`, `attempt`, `retry` and `err` are where a call is in the three
loops around a request: `Provider` and `Error` are `failoverGateway.Generate`, `Settle` is
`resilientClient.Generate`, `Recover` and `Retries` are the engine's recovery phase with its
policy. An error is the set of the sentinels `errors.Is` finds in it, for the
layers disagree on what to ask first; `Classify` maps what happens on the wire to them.
`Invalidate`, `Apply`, `Gcloud`, `Store` and `InitSDK` are the refresh of a Vertex AI token: between
any two of them another caller, or another process at the `cache` file (`Others`), may step
in; `lock` is the mutex that is held while gcloud runs. A token is the number of the period it
is good for. `Upload` and `Release` are the files of a request to an OpenAI-compatible
provider; `file` is what the client knows of. An answer without content is a success
here; the engine's retry of it is in `TurnEngine`. `sent`, `failed` and `fresh` are history
variables. Bounds: `MaxEpoch`; `MaxRetries` is 6 in the program.

### PromptLog

`pending` are the goroutines `RecordPrompt` has started, `writing` the prompt for which `Append`
has opened the file, `step` the compaction of a process. `OpenFile` to `WritePrompt`, and
`CheckSize` to `AtomicWrite`, hold the tracker's lock (`Locked`), which is one of its own
process: other sessions do not see it. `entries` are the lines of the file that have their end,
`tail` the one that a failed write or a dead process left without. If all that it lacks is the
newline it is read like any other (`PutPart`, `File`), until the next append continues it
and neither can be read (`Spoiled`). `AtomicWrite` renames a new file over the old one; whoever
has it open (`replaced`) writes to a file that nobody can open any more, and is not told.
`logged` is what the file would be had no line been dropped, `overtaken` and `raced` record
that sessions have met: another session wrote while this one was between its check and its
rename, or renamed while this one was anywhere between taking the size and renaming, or
a session wrote to a replaced file. Reading the file is one step: the code
reads it in pieces, but what comes meanwhile is at its end, and a rename meanwhile counts as
overtaking. The size of a file is its number of lines. Bounds: `MaxRecords`, `MaxFailures`; `MaxPrompts`,
`Threshold` and `MaxAttempts` are the program's limits, made small.

## 3. What the passing runs show

| run | bounds | shows |
|---|---|---|
| `dispatcher` | 3 calls, 2 workers | `EveryCallAnswered`, `AnswersKept` (a slot is written once and "not run" is true), `Barrier`, `SerialFailureHalts`, `SkipsExplained`, `SerialAwaitedAlone`, `Termination`, `ToolsAccounted` |
| `turn_engine` | 2 chats, limits 0 to 2, 2 retries, 2 failed appends | `RunAnswersItsCalls`, `SuccessIsAnswered`, `ResultsFollowCalls`, `NothingLost`, `SavedOnce`, `RepetitionsBounded`, `ChatReturns` |
| `ui_bridge` | 3 events, channel of 1 | `ImplementsChannel` (which includes `AcceptedShown`, and order), `EngineDelivers`, `NobodyHeldUp` (publishers and teardown) |
| `history_store` | 5 operations, 4 messages, 1 fault, 1 crash | `Reconciled` (with `PatchesApply`), `RetryRewinds`, `ImplementsLog` |
| `session_context` | 2 histories to begin with; 2 appends, 1 request, 1 summary tool, 1 pin, 1 reload, 1 fault | `NothingUnseen`, `PinnedStays`, `PinsReachModel`, `ArchivedFirst`, `SummariesStay` |
| `command_pipeline` | 1 or 2 stages, pipes of 1 line, 2 lines each | `OutputComplete`, `Reaped`, `CallEnds` (by the limit, and without it) |
| `turns_logger` | 2 producers, 2 chats, 2 closers, channel of 2, 4 messages, 1 fault | `SafeUse`, `Heard`, `CloseReturns` |
| `memory_hook` | 2 flushes, buffer of 2, 3 turns, 1 reload | `NothingLost`, `WrittenOnce`, `ChildReaped`, `AllReturn` |
| `gateway` | 2 callers, 1 or 2 providers, 2 files, 3 periods, 1 retry | `AuthRecovers`, `FilesReleased`, `ChainTriedOnce` |
| `prompt_log` | 2 sessions, 5 prompts of 3 texts, 2 faults, 2 attempts | `KeptUnlessRaced` |

Why the bounds are enough: three calls give a batch larger than the pool, two
parallel batches around a serial call, and an abandoned tool that outlives its
batch. Two chats are needed for one to meet what the other left; a third would
meet the same kinds of history. Two failed appends let a persist and the save
after it both fail. A limit of zero tool turns is legal (the validation asks for
at least zero) and may be reloaded between any two steps. Five operations fill four messages and still pin, edit or
roll back, or go on after the crash; one fault and one crash meet in either order.
With a channel of one the first event fills it, the second waits or is shed, and the
third meets a listener that drains, has panicked or has left. In `session_context`
one history has two short turns, so that a summary by itself and one by the tool can
overlap, and one is a loop of calls, so that no boundary of a turn falls inside it; one
of everything is enough for each actor to look before and write after each other.
A pipeline of two has a first and a last stage, and two lines overfill a pipe of one.
Two producers and one closer beside a listener are all that the logger's lock and
wait group keep apart; four messages fill the channel twice. A second caller is needed for a token to be stored or invalidated in the middle of a
refresh, a second expiry for a refresh whose token expires in turn, two files for an upload
that fails after another one succeeded. A buffer of two with three
turns overflows when a failed flush comes back. Two lines and a limit of two prompts let
a compaction drop both a repetition and an old prompt, and be overtaken by an append
in each of its attempts; two sessions are all that a race needs.

The type invariant of a module describes its state and is proved, not run. It is `TypeOK` in the module
itself, but for `SessionContext` and `PromptLog` (`ContextTypeOK`, `PromptTypeOK`), where
it stands with the proofs.

Exceptions are written into the properties, because the code has them:

* `AnswersKept`: a tool that answered blank counts as not having answered when the
  rest of the plan is filled (`shouldSkipTask` looks at text and error), so its
  blank slot can be overwritten with "interrupted" after a cancellation.
* `SavedOnce` excludes a loop break whose feedback was refused (next section).
* `PinnedStays` excludes a pin that was set after the replacing actor had looked:
  pinning moves no version and takes no lock.
* `ArchivedFirst` speaks of the tool's summaries: the automatic one archives nothing.
* `WrittenOnce` excludes a flush that failed although the server had carried it out:
  the batch is sent again.
* `AllReturn` assumes that no descendant of the child keeps its standard error open:
  `cmd.Wait` copies it to the log until it ends, and `Close` waits for `cmd.Wait`.
* `CallEnds` needs the children of a stage to stay in its process group
  (`Escapes = FALSE`): a child that leaves it survives the limit and the capture goes on
  reading its pipe; `WaitDelay` begins to count in `Wait`, which comes later.
* `AuthRecovers` says when a call may end with refused credentials (`Excused`): the refresh
  failed, the fixed key is bad, or the token of the refresh has expired as well before
  the second attempt. That none expires while somebody is refreshing is an assumption of
  the model (`Expire`): the file gives a token up after 55 of its 60 minutes.
* `FilesReleased` speaks of the files whose ids the client has seen, and of asking: one
  deletion is tried per file.
* `NothingLost` is about the step that lets go of a response or of results, whichever it is:
  a persist, a loop break, the save, the end of the turn, the start of the next attempt. It
  excludes a save that the store refused, a crash, and an empty answer that is asked for again.
* `KeptUnlessRaced` ends at the first race between sessions, and names what a race is
  (`raced`). Before it the sessions append, compact, fail and restart as they like. What
  happens after one is in section 4: `Kept` alone is false.

`Reconciled` and `ImplementsLog` hold for as long as no failed append left its line in
the file. When the write succeeds and the fsync fails, the caller is told that
the message was not stored and the memory does not have it, but the file does;
from the next restart on the history has one message more, and patches made in
between meet a different message. The next rewrite of the file ends this. The
history variable `clean` records it.

## 4. Where the code differs from its documents

Two runs check what a comment and a document of the repository say; TLC finds a behaviour of
the code that breaks it.

* `turn_engine_request` - the history repairer is said to make the history valid
  after a crash. It looks at the last message only, and `Chat` appends the prompt
  before it looks. Within one run it is never needed: `RunAnswersItsCalls`.
* `prompt_log_sessions` - the file of prompts is said to be "an append-only `.jsonl`
  structure via `os.O_APPEND` to ensure atomic state mutation across simultaneous terminal
  sessions" (`docs/adr/2026-02-tui-prompt-mode.md:90`, and `:81`). It is also compacted, by
  renaming a new file over it, under a lock that other sessions do not share. One session
  opens the file to append; another, whose check has passed, renames; the first writes to the file
  that is gone. `Append` reports success and the prompt is lost: `Kept` fails.

Others were met while modelling. No run states them; they follow from the modules:

* The persistence ADR says that "even if the last line is partial, previous history
  remains valid" (`docs/adr/2026-04-jsonl-history-persistence.md:25`). The decoder's error
  fails the whole load and the program does not start: `status` of `HistoryStore` becomes
  `refused` (`infrastructure/history/store.go:164`).
* The engine is said to handle "transient/terminal retries" of what the gateway returns
  (`infrastructure/llm/resilient_client.go:85`). With a failover order it never retries a
  transient failure: the exhausted chain adds `ErrTerminal` to the error, and the
  policy asks `IsFatal` first. `ChainTriedOnce` states it as it is.
* `release` is said to delete "all files uploaded during this turn"
  (`infrastructure/llm/openai/client.go:332`). An upload that is answered with an unexpected
  status has made a file whose id is not kept.
* A refused key is answered by a refresh, but not when an upload meets it: the status is in the
  text of the error only (`infrastructure/llm/openai/files.go:106`), where it is not looked for.
* The concurrency ADR says serial tools "run in complete isolation"
  (`docs/adr/2026-01-tool-execution-concurrency-and-timeouts.md:19`). A tool that misses its
  deadline is abandoned, not stopped, and the next batch starts beside it. What does
  hold is `SerialAwaitedAlone`.
* An empty answer is stored "to keep user/model alternation intact"
  (`agent/orchestrator/engine_phases.go:148`) and then pruned from the request.
* The emergency save is said to be a no-op for what was stored already
  (`engine_phases.go:102`). After a loop break whose second append failed the response is
  stored twice; `SavedOnce` says that this is the only case.
* The cancellation ADR gives a cancelled caller the context's error "regardless of
  actor state" (`docs/adr/2026-05-caller-cancellation-priority.md:60`). That holds for the
  checks before the `select`; a caller cancelled while it waits can be told that the
  actor is dead.
* `SummarizeRange` counts turns in a window of four messages per turn asked for; a
  longer loop of calls is cut by the window and counts as a whole turn, so that calls
  can be summarised while their results stay (`agent/session/context/manager.go:324`).
* The automatic summary wants "about 50% of the history, but at least minViable turns"
  (`gatekeeper.go:349`); with two turns it takes both, the newest prompt included.

## 5. Fairness

* `Dispatcher`: weak fairness of the program as a whole (`System`): as long as the goroutine of
  `Execute`, a pool worker, a deadline or a monitor's timer can take a step, some of
  them does. This is less than fairness of each one, which the scheduler would
  justify, and it is enough, because none of them can go on for ever. Nothing is assumed of
  tools: they may run for ever. Nothing is assumed of the user.
* `TurnEngine`: weak fairness of the engine's goroutine. That a phase's call returns
  is part of this: for tools it is `Termination` of the dispatcher, for the gateway
  it is the deadline of its HTTP client. Crashes, cancellations and failures are
  never required.
* `UIBridge`: weak fairness of teardown, of the listener's own steps, of the publishers
  and of the timers (two seconds, five seconds, a hundred milliseconds). Nothing is
  assumed of the renderer: it may hang for ever or panic.
* `CommandPipeline`: weak fairness of the executor and of each reader of errors; of the
  kill once the limit has passed; of the stages only as long as none of them is odd
  (exited early, hung, left a child). The limit itself need not pass.
* `TurnsLogger`: weak fairness of a send under the read lock, of the listener's own
  steps and of the wait in `Close`. Nothing has to be logged, cancelled or closed.
* `McpStdio`: weak fairness of the reaper, of the handshake and of the calls, which
  have timeouts, and of the steps of `Close`. Nothing is assumed of the server.
* `HistoryStore`, `SessionContext`, `Gateway`, `PromptLog`: safety only.

## 6. What is proved

Eight modules hold the proofs. Those of the session context stand beside the bridge's
(`SessionProofs`), those of the prompt file beside the history store's (`HistoryProofs`), because they
use the same lemmas on sequences. `theorems` in `PROJECT.json` lists the results. They hold for
every value of the constants that the assumption of the module admits; a run shows the same
property on a small instance. Every inductive invariant below was checked by TLC on the
instance of its run before it was proved.

### Dispatcher

`DispatcherProofs` proves, for every number of calls and workers:

* `TypeCorrect`: `Spec => []TypeOK`
* `InvCorrect`: `Spec => []IInv`
* `AnswersComplete`: `Spec => []EveryCallAnswered`
* `BatchesAreBarriers`: `Spec => []Barrier`
* `FailureHaltsPlan`: `Spec => []SerialFailureHalts`
* `SerialCallsAlone`: `Spec => []SerialAwaitedAlone`
* `SlotsCorrect`: `Spec => [](SlotInv /\ SkipInv)`
* `NoErrorExplained`: `Spec => []SkipsExplained`
* `AnswersStay`: `Spec => AnswersKept`

from `DispatcherAssumption` alone (both constants are naturals, the pool is not
empty).

None of the properties is inductive. That every call is answered at the end
needs to know where an unanswered call is at each moment: still in `todo`, or in
the current batch, and then in the channel of jobs, with a worker, or in the
channel of results (`BatchInv`, `OrderInv`). The interesting case is the cancelled
pool, where all workers may leave with jobs still in the channel: the batch is then
over with empty slots, and they are filled by `HaltParallel` because `cancelled` is set
(`jobs # {}` implies `cancelled` or a worker that has not left). The barrier needs
that batches leave `todo` in order (`OrderInv`), the halt that no serial call outside
the current batch has failed while the plan goes on (`FailureInv`). `PhaseInv` says
which parts are idle in which phase.

The proof has one lemma for the initial state and, for the step, one step per
action (`StartStep` for the launch of a batch, `InvStep` for the rest) with one
sub-step per conjunct. `FirstIsLeast` and `BatchShape` are the facts about the
least call and the shape of a batch that the others rest on.

`AnswersKept` is about steps, and says that a slot is written once and that "not run" is
true. It needs to know that a call has one token: it is in the channel of jobs, or with
exactly one worker, or in the channel of results, and while it is in any of these its slot
is empty (`SlotInv`). `SkipsExplained` needs that the fillers "skipped" and "interrupted" are
the last thing the plan writes (`SkipInv`), so that while it goes on an answer is a tool's
or the user's.

### UIBridge

`SessionProofs` proves, for a channel of any capacity and any number of events:

* `TypeCorrect`: `Spec => []TypeOK`
* `InvCorrect`: `Spec => []BridgeInv`
* `AcceptedIsShown`: `Spec => []AcceptedShown`
* `EngineIsHeard`: `Spec => []EngineDelivers`
* `BridgeImplementsChannel`: `Spec => ImplementsChannel`

from `BridgeAssumption` alone (a positive capacity). `AcceptedShown` speaks of the end of
a session only. The invariant says where an accepted event is before that: rendered,
being rendered, or in the channel (`ListenInv`). That `Listen` leaves nothing behind
needs that it leaves only an empty channel that is closed, so that no send can follow;
it leaves through the drain only when it was cancelled, and teardown cancels it after
closing the channel (`SessionInv`). That the engine's critical events meet neither a closed
bus nor a closed queue needs that the engine is silent from the end of `Chat` on
(`ProducerInv`). `RangeAppend` and `RangeTail` are the facts about sequences, `ReturnInv`
the common part of the seven ways in which a publication ends.

The refinement maps a step that puts an event into the queue to `Accept`, the end of a rendering to
`Show`, a panic to `Break`, `closeInput` to `Close`, and the end of `Listen`, or a
teardown that never started it, to `End`; everything else is a stutter, taking an
event from the queue included, since what is being rendered is still pending. It needs two
facts the invariant does not have (`OnceInv`): an event that is being published has no outcome yet,
so nothing is accepted twice, and a panic has cancelled the loop, so nothing is
shown after it. `ChannelNext` puts the lemmas for publishers, listener and session together.

### SessionContext

`SessionProofs` proves, for any histories to begin with, any tools that summarize at the same
time, and any number of appends, requests, pins, reloads and failures:

* `ContextIsKept`: `ContextSpec => []ContextInv`
* `NothingIsLost`: `ContextSpec => []NothingUnseen`
* `PinsArrive`: `ContextSpec => []PinsReachModel`
* `PinsAreKept`: `ContextSpec => PinnedStays`
* `RemovedIsArchived`: `ContextSpec => ArchivedFirst`
* `NoOldCopyReturns`: `ContextSpec => SummariesStay`

from `ContextAssumption` alone. Two actors replace a history they have read a while ago, and the
invariant says what each may rely on. `PrepareInv`: as long as the version is the one that `Prepare`
read, nothing was added that its copy lacks and nothing was removed that its copy
has. `JobInv`: the tool that holds the lock is about to store a history that lacks only
what it sends to the archive, and the block it summarizes has no pin. The three
properties of steps need which change a step makes to the contents (`HistoryChange`): none,
one more, what `Prepare` made, or what the tool made; `ContextStep` sorts the actions into these.

Most of the proof is about the pure functions between reading and writing. `Turns` groups a
history into turns: `TurnsGrouped` proves, by induction over the messages, that the turns are
consecutive blocks which together are the whole history. From it follow `CandidateFree` and
`AutoBlockFree` (the block that either actor picks has no pin in it) and `PrunedKeeps` (the pruner
keeps the pins). `SummaryIs` says what is in a history where a block was replaced by its
summary, the merges with its neighbours included.

### TurnsLogger

`TurnsLoggerProofs` proves, for any sets of goroutines, a channel of any capacity and any
number of messages and failures:

* `InvCorrect`: `Spec => [](TypeOK /\ LoggerInv)`
* `UseIsSafe`: `Spec => []SafeUse`
* `EndedHasHeard`: `Spec => []Heard`

from `LoggerAssumption` alone. `SafeUse` follows from `Locked`: whoever holds the read lock
saw the flag down and keeps it down, and `Counted`: the wait group is one exactly while a
listener is at work, so the file is closed only when none is. `Heard` speaks of a listener
that has ended; `Owed` says what makes it true before: a listener leaves only when the
channel is empty, either cancelled or closed, and in the second case nothing can be
accepted any more. `OnDisk` is why the length of the channel may be read while
producers still send: a message that comes meanwhile is one that the listener
will receive, and the one it finds empty it has synced.

### TurnEngine

`TurnEngineProofs` proves, for any number of chats, turns, retries and failures, any calls
and texts, and any limits that a reload may set:

* `InvCorrect`: `Spec => [](TypeOK /\ IInv)`
* `RequestsAreAnswered`: `Spec => []RunAnswersItsCalls`
* `ResultsStayBehind`: `Spec => []ResultsFollowCalls`
* `LoopsAreBroken`: `Spec => []RepetitionsBounded`
* `SuccessMeansAnswered`: `Spec => SuccessIsAnswered`
* `ProducedIsKept`: `Spec => NothingLost`
* `SaveIsNotRepeated`: `Spec => SavedOnce`

from `EngineAssumption` alone. The last three are about steps. `ProducedIsKept` says that whichever
step clears a response that has parts, or results, leaves them in the history under their
chat and turn. It needs `ResponseInv`: when
the provider is asked, a first time or again, the engine holds no answer that could be overwritten, and
before the feedback of a loop break its response is stored. What is left are the steps that
add a message, and those that clear what is empty (`ResponseStep`, `AddRecords`). The invariant has two halves.
`PhaseInv`, `PendingInv` and `TurnInv` say what each phase knows of the turn: which of response and
results are set, and that results which are pending are those of the response's calls and belong
to a phase that will write them. The others relate this to the history. `WrittenInv`:
nothing of a turn is in the history before the engine says so; this is why a save after
a failed persist repeats nothing. `LastInv`: when results or feedback are added, the last message
has the calls they answer, so the merge of `AddContent` cannot put them elsewhere; and when the
provider is asked, the last message is not the model's, so within a run the repairing
transformer has nothing to do. `AnsweredInv`: while the run can still reach the provider,
every call of the chat has its answer in the next message, except the calls of this turn
whose answer comes next. `FollowInv` is the converse. `RepeatsInv`: the detector has counted
a turn before its calls run, in each of the ways that leads from the count to the results.

A step of the engine either adds no message (`QuietStep`), adds one to the chat (`AddStep`), or
begins a chat (`Ask`). `QuietSteps` and `AddSteps` sort the 27 actions and need the control
state only; `QuietHistory`, `AddHistory` and `AskHistory` then carry the invariants of
the history over, once for each kind. The pruner (`Pruned`) is a recursive function over the history:
`PrunedIs` proves by induction, for a history of any length, that it returns the messages
that have parts, in their order.

### HistoryStore

`HistoryProofs` proves, for files of any length and any number of operations, failures
and crashes:

* `InvCorrect`: `Spec => [](TypeOK /\ IInv)`
* `ReadsBack`: `Spec => []Reconciled`
* `RetryForgetsPrompt`: `Spec => []RetryRewinds`
* `StoreImplementsLog`: `Spec => ImplementsLog`

from `StoreAssumption` alone. Replaying a file is a recursive function over its lines. What the
proofs need of it are `ReplayAppend` (a line more is applied to what was read), `FileCut` (a file that a
crash has cut), `ReplaySnapshot` (a rewritten file reads as what was written) and `ReplayType`
(the length of what is read is the number of message lines, which is what a patch's index
refers to); each is proved by induction over the lines. The invariant says what an operation will leave in
memory when it is done: what its lines make of it (`OperationInv`); that the file, as far as it was
written, stands for the same (`FileInv`, with `OnFile` for the contents at each stage); that no
patch, in the file or under way, names a message that is not there (`LengthInv`, `PatchesApply`); and that a
history begins with the user (`FirstInv`), from which the positions of the user's messages are
odd and `RetryRewinds` is arithmetic.

The refinement maps the contents of `HistoryLog` to the memory, or to what a restart would
read (`Visible`), and what is pending to what the operation will leave and, for a pin of two
messages, to what its first line leaves (`Pending`). Beginning an operation, a failure, the rename, the
end, a crash and a load are steps of `HistoryLog` of the same kind; writing and
syncing a line are stutters (`LinesStutter`). The crash is the interesting one: what a prefix of the
file replays to is the old memory or one of the pending values (`CrashesLog`).

### PromptLog

`HistoryProofs` proves, for any prompts, limits, attempts and number of records and failures:

* `PromptTypesHold`: `PromptSpec => []PromptTypeOK`
* `CompactionKeeps`: `PromptSpec => []KeptUnlessRaced`
* `AloneItKeeps`: `ASSUME \A t, u \in Trackers : t = u PROVE PromptSpec => []Kept`

from `PromptAssumption`, the first two for any number of sessions; the last says what is left when
only one has the file open, where `raced` stays false. The invariant has three parts.
`LinesInv`: until a race, the lines that have their end read like all lines there ever
were (the line without end is the same in both, `TopTail`). `LockInv`: `Append` and the end of a
pass of one session exclude each other. `CompactionInv`: what a compaction is
about to write is what a reader would find, unless the file is longer than when its size was
taken, and then the check sends it back, or another session has overtaken it, and then the
rename is a race. An append of the same session cannot come behind the check (`LockInv`), one
of another makes the pass overtaken (`GrownCompaction`). `TopUnique`, the newest prompts without repetition, is a recursive
function from the end of the file. `TopReads` unfolds it line by line; `TopDigest` says that what it
returns has no prompt twice and no more than the limit, `TopOfDigest` that a file which is such a digest
reads as itself, `TopTorn` that a line which cannot be read changes nothing, and `TopAppend` that
two files which read the same still do after the same append (by `TopPushed`, which follows
two readings side by side). Each is proved by induction over the lines.

### CommandPipeline

`CommandPipelineProofs` proves, for any number of stages and lines, pipes and captures of any
size, and whether or not a child can leave its process group:

* `InvCorrect`: `Spec => [](TypeOK /\ IInv)`
* `NothingLeftBehind`: `Spec => []Reaped`
* `PipesDrained`: `Spec => []Drained`
* `ResultComplete`: `Spec => []OutputComplete`

from `PipelineAssumption` alone. `StagesInv` says who holds which pipe at each point of the start, of a failed start
and of the wait; `ReadersInv` and `WaitInv` that a reader which is done leaves a pipe that is
empty and has no writer, and that nobody is waited for before; `CountInv` that until something is cut,
each line written is kept or still in a pipe. To count the lines in all pipes of errors at
once, each is named by its stage and its number there (`InErr`); a write adds one element
to that set and a read takes one away (`ErrAdded`, `ErrRemoved`).

### McpStdio and MemoryHook

`MemoryHookProofs` proves, for any set of callers, any buffer and any number of episodes and reloads:

* `InvCorrect`: `Spec => [](TypeOK /\ IInv)`
* `NoZombie`: `Spec => []ChildReaped`
* `EpisodesAccounted`: `Spec => []NothingLost`
* `StoredOnce`: `Spec => []WrittenOnce`

from `HookAssumption` alone. `ReaperInv`: the end of the child can be received once, and
whoever received it leaves a trace the others look at. `CallInv` and `FlushInv`: an answer that says ok is the
server's, and a call belongs to a flush under way. `PlacesInv`: no two batches that are being sent share
an episode, nor one with the buffer, although a failed flush puts its batch back while
turns go on. `StoredInv`: the server has what it accepted and nothing else. Sequences are
treated as the sets of their members (`ContentsAppend`, `ContentsConcat`, `ContentsSplit`).

### Gateway

`GatewayProofs` proves, for any callers, number of retries and of expiries:

* `TypeCorrect`: `Spec => []TypeOK`
* `InvCorrect`: `Spec => []IInv`
* `RefusalsExcused`: `Spec => []AuthRecovers`
* `FilesGivenBack`: `Spec => []FilesReleased`
* `TriesBounded`: `Spec => []ChainTriedOnce`

from `GatewayAssumption` alone (the engine is a caller, "none" is not, the retries are a natural).
`ClientInv` is about the client that is made on first use. `FilesInv` follows the files of a request. `BudgetInv` bounds
what each provider was sent by the position of the caller in the three loops, `VisitsInv` says that what
a chain leaves when it is given up is fatal to the engine, so the loops do not multiply.
`TokensInv` is the part about concurrency: a refused token leaves memory and file before
another is looked for, so whatever a refresh finds, its own or what another caller
or process has put there meanwhile, is of the current period, and the SDK client never goes
back behind a refresh that succeeded. `RefusalInv` then follows a refusal from the request to
the caller.

## 7. What is only model-checked

* Liveness: `Termination`, `ToolsAccounted`, `ChatReturns`, `NobodyHeldUp`, `CallEnds`, `CloseReturns`,
  `AllReturn`. The prover has no rule for fairness, which is about `ENABLED`.
* `RequestAnswered` of the engine, and `Kept` with two sessions, are refuted (section 4), not proved.

Induction over data has a limited form in the proofs: `SetInduction` (a set that holds 0 and each successor
holds every number) is derived from the well-foundedness of the naturals and is
applied to the set of the lengths for which a fact holds. The general theorems take an operator as
a parameter and cannot be instantiated.

## 8. What could come next

1. The logger as a second implementation of `EventChannel`.
2. The end of a session as one composition: bridge, logger, memory and MCP client are
   closed in an order that only `session_manager.go` and the container know.
3. An abstract conversation (calls and answers alternate) that the engine implements.

## 9. What is not modelled

The formats of messages on the wire and on disk; texts, tokens and costs;
rendering; what a tool does; consent rules and path checks (pure predicates);
startup wiring; telemetry. Of the history store: the archive,
migration from the older format, and the fallback of the atomic writer that copies
over the target when a rename is not possible. `components` in `PROJECT.json` gives
the status of every part. Of the session context: what a summary says, the estimation of
tokens, the transformers that only change text. Of the memory: the tiers that learn at
once or capture, the injection of memories, the file lock, which is best effort. Of the
MCP client: the variant over HTTP. Of the gateway: the
formats of the providers, images and documents, service accounts, the reset of idle
connections. Of the shell tool: consent, the copy of the output to a
file, Windows. The asynchronous mode of the bus and `UpdateTask` (section 1, hazards) have no
module: the first is not used in production, the second has no order to check: two
overlapping updates lose one, by reading and writing in two statements.

## 10. Running it

    tlc -workers 2 -config MCDispatcher.cfg MCDispatcher
    tlapm DispatcherProofs.tla

and likewise for the other configurations in the table of runs and the other modules
of proofs. The longest are `HistoryProofs` and `TurnEngineProofs`, up to three minutes each.
