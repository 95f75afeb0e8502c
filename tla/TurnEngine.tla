----------------------------- MODULE TurnEngine -----------------------------
(***************************************************************************)
(* Agent.Chat and Engine.Run (internal/agent, internal/agent/orchestrator):*)
(* a chat appends the user's prompt to the history and runs turns; a turn  *)
(* walks the phases Guard, Refining, Inference, Executing and Persisting,  *)
(* errors lead to Recovering, and a turn that fails is saved by            *)
(* emergencySave before Run returns.  Together with Manager.AddContent and *)
(* the transformers of Manager.Prepare that add or drop whole messages.    *)
(*                                                                         *)
(* A turn that does not fail persists one model message and, if it had     *)
(* function calls, one message of results: a part of a message is named by *)
(* its kind, its chat and its turn.  The history is what survives a crash. *)
(***************************************************************************)
EXTENDS Integers, Sequences, FiniteSets

CONSTANTS MaxChats,         \* bound: chats of the session
          MaxTurns,         \* bound: the largest MaxToolTurns
          Limits,           \* values MaxToolTurns is configured to
          MaxRetries,       \* DefaultRetryPolicy.MaxRetries
          MaxEmptyRetries,  \* maxEmptyResponseRetries
          MaxRepetitions,   \* DefaultMaxLoopRepetitions
          Keys,             \* function calls: name and arguments
          Forms,            \* texts that may come with them
          MaxFaults         \* bound: failed appends to the store in a chat

ASSUME EngineAssumption ==
  /\ MaxChats \in Nat /\ MaxTurns \in Nat
  /\ Limits \subseteq 0..MaxTurns /\ Limits # {}
  /\ MaxRetries \in Nat \ {0} /\ MaxEmptyRetries \in 0..MaxRetries
  /\ MaxRepetitions \in Nat \ {0} /\ MaxFaults \in Nat
  /\ Keys \subseteq Nat \ {0} /\ Forms \subseteq Nat

(* hollow: no parts at all; blank: parts, all of them empty                *)
Response(kind, key, form) == [kind |-> kind, key |-> key, form |-> form]
NoResponse == Response("none", 0, 0)
Empties    == {Response("hollow", 0, 0), Response("blank", 0, 0)}
Answers    == {Response("text", 0, f) : f \in Forms}
                \cup {Response("calls", k, f) : k \in Keys, f \in Forms}

Errors == {"transient",  \* ErrTransient, ErrRateLimit: may be retried
           "overflow",   \* ErrContextLimitExceeded
           "empty",      \* errEmptyResponse
           "raw",        \* unclassified, from handleLoopBreak
           "terminal"}   \* anything else: ctx done, auth, limits, the store

Phases == {"idle", "Guard", "Refining", "Inference", "LoopBreak", "Feedback",
           "Executing", "Persisting", "PersistingResults", "Recovering",
           "Complete", "Saving", "SavingResults"}

VARIABLES
  history,    \* messages: [role, parts]
  chat,       \* chats so far
  phase,      \* control point of Run; "idle": no Run
  turn,       \* Turn.Index
  limit,      \* Limits.MaxToolTurns in force
  retry,      \* TurnState.RetryCount
  lastErr,    \* TurnState.LastError, or "none"
  resp,       \* TurnState.Response
  results,    \* TurnState.ToolResponse: the calls it answers, or 0
  hasCalls,   \* TurnState.HasToolCalls
  recent,     \* loopDetector.recentResponseHashes
  count,      \* loopDetector.toolCallCount
  cancelled,  \* the chat's ctx is done
  faults,     \* failed appends in this chat
  outcome     \* of the last chat: "none", "ok", "error", "crashed"

turnState == <<turn, retry, lastErr, resp, results, hasCalls>>
detector  == <<recent, count>>
vars == <<history, chat, phase, turn, limit, retry, lastErr, resp, results,
          hasCalls, recent, count, cancelled, faults, outcome>>

Part(kind, key) == [kind |-> kind, key |-> key, chat |-> chat, turn |-> turn]
Kinds == {"prompt", "text", "blank", "calls", "results", "feedback",
          "warning", "lost"}
Roles == {"user", "model", "tool"}
Parts == [kind : Kinds, key : Keys \cup {0},
          chat : 1..MaxChats, turn : 0..MaxTurns]
Messages == [role : Roles, parts : Seq(Parts)]

(* Types: the counters of TurnState and the loop detector keep to their    *)
(* limits, whatever is retried.                                            *)
TypeOK ==
  /\ history \in Seq(Messages)
  /\ chat \in 0..MaxChats
  /\ phase \in Phases
  /\ turn \in 0..(MaxTurns + 1)
  /\ limit \in Limits
  /\ retry \in 0..MaxRetries
  /\ lastErr \in Errors \cup {"none"}
  /\ resp \in Answers \cup Empties \cup {NoResponse}
  /\ results \in Keys \cup {0} /\ hasCalls \in BOOLEAN
  /\ recent \in Seq(Answers) /\ Len(recent) <= MaxRepetitions
  /\ count \in [Keys -> Nat]
  /\ cancelled \in BOOLEAN
  /\ faults \in 0..MaxFaults
  /\ outcome \in {"none", "ok", "error", "crashed"}

NoCounts == [k \in Keys |-> 0]

Init ==
  /\ history = <<>> /\ chat = 0 /\ phase = "idle" /\ turn = 0
  /\ limit \in Limits
  /\ retry = 0 /\ lastErr = "none" /\ resp = NoResponse
  /\ results = 0 /\ hasCalls = FALSE
  /\ recent = <<>> /\ count = NoCounts
  /\ cancelled = FALSE /\ faults = 0 /\ outcome = "none"

-----------------------------------------------------------------------------
(* The history: Manager.AddContent and the transformers of Manager.Prepare *)
(* that repair or drop messages.                                           *)

Role(kind) == IF kind \in {"text", "blank", "hollow", "calls"} THEN "model"
              ELSE IF kind = "feedback" THEN "tool" ELSE "user"

Message(kind, key) ==
  [role  |-> Role(kind),
   parts |-> IF kind = "hollow" THEN <<>> ELSE <<Part(kind, key)>>]

(* A message of the last one's role is merged into it (AppendParts).       *)
Added(h, m) ==
  IF h # <<>> /\ h[Len(h)].role = m.role
  THEN [h EXCEPT ![Len(h)].parts = @ \o m.parts]
  ELSE Append(h, m)

(* AddContent succeeds only if ctx is not done; a failed append leaves the *)
(* history alone.                                                          *)
Add(kind, key) == /\ history' = Added(history, Message(kind, key))
                  /\ UNCHANGED faults
StoreFails     == /\ faults < MaxFaults
                  /\ faults' = faults + 1
                  /\ UNCHANGED history
AddRefused     == \/ cancelled /\ UNCHANGED <<history, faults>>
                  \/ StoreFails

HasCalls(m) == \E j \in 1..Len(m.parts) : m.parts[j].kind = "calls"

(* HistoryRepairer: a trailing message with calls is answered "lost".      *)
Repaired(h) ==
  IF h # <<>> /\ h[Len(h)].role = "model" /\ HasCalls(h[Len(h)])
  THEN Append(h, [role  |-> "user",
                  parts |-> LET calls(p) == p.kind = "calls"
                                lost == SelectSeq(h[Len(h)].parts, calls)
                            IN  [j \in 1..Len(lost) |->
                                   [lost[j] EXCEPT !.kind = "lost"]]])
  ELSE h

(* emptyMessagePruner; contentCleaner only rewrites the text of a blank.   *)
Pruned(h) == LET kept[k \in 0..Len(h)] ==
                   IF k = 0 THEN <<>>
                   ELSE IF h[k].parts = <<>> THEN kept[k - 1]
                   ELSE Append(kept[k - 1], h[k])
             IN  kept[Len(h)]

-----------------------------------------------------------------------------
(* Starting and ending a chat.                                             *)

FreshTurn(n) ==
  /\ turn' = n /\ retry' = 0 /\ lastErr' = "none"
  /\ resp' = NoResponse /\ results' = 0 /\ hasCalls' = FALSE

Prompt(c) == [role  |-> "user",
              parts |-> <<[kind |-> "prompt", key |-> 0,
                           chat |-> c, turn |-> 0]>>]

(* Agent.Chat: the prompt is appended, the limits are refreshed, and Run   *)
(* gets a detector of its own.  A refused prompt changes nothing.          *)
Ask ==
  /\ phase = "idle" /\ chat < MaxChats
  /\ chat' = chat + 1
  /\ history' = Added(history, Prompt(chat'))
  /\ limit' \in Limits
  /\ phase' = "Guard"
  /\ FreshTurn(0)
  /\ recent' = <<>> /\ count' = NoCounts
  /\ cancelled' = FALSE /\ faults' = 0 /\ outcome' = "none"

(* Run returns, or the process dies: the Turn is gone.                     *)
Leave(o) ==
  /\ phase' = "idle" /\ outcome' = o
  /\ FreshTurn(0)
  /\ cancelled' = FALSE
  /\ UNCHANGED <<chat, limit, detector>>

Crash == /\ phase # "idle"
         /\ Leave("crashed")
         /\ UNCHANGED <<history, faults>>

Cancel ==
  /\ phase # "idle" /\ ~cancelled
  /\ cancelled' = TRUE
  /\ UNCHANGED <<history, chat, phase, turnState, limit, detector, faults,
                 outcome>>

-----------------------------------------------------------------------------
(* The phases.                                                             *)

Goto(p) == phase' = p /\ UNCHANGED <<detector, chat, cancelled, outcome>>

(* determineNextPhase: an error leads to Recovering.                       *)
Fail(e) == /\ lastErr' = e
           /\ Goto("Recovering")
           /\ UNCHANGED <<turn, retry, limit>>

GuardPass ==
  /\ phase = "Guard" /\ ~cancelled /\ turn <= limit
  /\ Goto("Refining")
  /\ UNCHANGED <<history, turnState, limit, faults>>

GuardFail ==
  /\ phase = "Guard" /\ (cancelled \/ turn > limit)
  /\ Fail("terminal")
  /\ UNCHANGED <<history, resp, results, hasCalls, faults>>

(* Manager.Prepare persists what its transformers changed.                 *)
Refine ==
  /\ phase = "Refining" /\ ~cancelled
  /\ history' = Pruned(Repaired(history))
  /\ Goto("Inference")
  /\ UNCHANGED <<turnState, limit, faults>>

(* ... or fails: the context is done or the store fails, the window cannot *)
(* be made to fit, or the history changed meanwhile (ErrTransient).        *)
RefineFail ==
  /\ phase = "Refining"
  /\ \E e \in IF cancelled THEN {"terminal"}
              ELSE {"terminal", "overflow", "transient"} : Fail(e)
  /\ history' \in {history, Pruned(Repaired(history))}
  /\ UNCHANGED <<resp, results, hasCalls, faults>>

(* detectLoop: the response is one of the last MaxRepetitions, or its call *)
(* came up more often than that in this Run.                               *)
Window(r) == LET all == Append(recent, r) IN
             IF Len(all) > MaxRepetitions THEN Tail(all) ELSE all

Counted(r) == [k \in Keys |-> count[k] + IF k = r.key THEN 1 ELSE 0]

(* Mutant: one repetition more.                                            *)
TooOften_OffByOne(r) == r.key \in Keys /\ Counted(r)[r.key] > MaxRepetitions + 1

TooOften(r) == r.key \in Keys /\ Counted(r)[r.key] > MaxRepetitions

Seen(r) == \E i \in 1..Len(recent) : recent[i] = r

(* InferenceStep under withLoopDetector.  configRefreshHook reloads the    *)
(* limits on the way to Executing.                                         *)
Infer ==
  /\ phase = "Inference"
  /\ \E r \in Answers :
       /\ resp' = r /\ hasCalls' = (r.kind = "calls")
       /\ IF Seen(r) THEN UNCHANGED detector
                     ELSE recent' = Window(r) /\ count' = Counted(r)
       /\ IF Seen(r) \/ TooOften(r)
          THEN phase' = "LoopBreak" /\ UNCHANGED limit
          ELSE IF r.kind = "calls"
               THEN phase' = "Executing" /\ limit' \in Limits
               ELSE phase' = "Persisting" /\ UNCHANGED limit
  /\ UNCHANGED <<history, turn, retry, lastErr, results, chat, cancelled,
                 outcome, faults>>

InferEmpty ==
  /\ phase = "Inference"
  /\ resp' \in Empties /\ hasCalls' = FALSE
  /\ Fail("empty")
  /\ UNCHANGED <<history, results, faults>>

(* The gateway's error comes without a content.                            *)
InferFail ==
  /\ phase = "Inference"
  /\ \E e \in {"transient", "overflow", "terminal"} : Fail(e)
  /\ UNCHANGED <<history, resp, results, hasCalls, faults>>

(* handleLoopBreak: the response is persisted ...                          *)
BreakLoop ==
  /\ phase = "LoopBreak" /\ ~cancelled
  /\ Add(resp.kind, resp.key)
  /\ Goto("Feedback")
  /\ UNCHANGED <<turnState, limit>>

(* Mutant: the turn ends without synthetic results.                        *)
GiveFeedback_None ==
  /\ phase = "Feedback" /\ ~cancelled
  /\ resp' = NoResponse /\ results' = 0 /\ hasCalls' = TRUE
  /\ Goto("Complete")
  /\ UNCHANGED <<history, turn, retry, lastErr, limit, faults>>

(* ... then feedback in place of the results, and the Run goes on.         *)
GiveFeedback ==
  /\ phase = "Feedback" /\ ~cancelled
  /\ Add(IF hasCalls THEN "feedback" ELSE "warning", resp.key)
  /\ resp' = NoResponse /\ results' = 0 /\ hasCalls' = TRUE
  /\ Goto("Complete")
  /\ UNCHANGED <<turn, retry, lastErr, limit>>

BreakFail ==
  /\ phase \in {"LoopBreak", "Feedback"}
  /\ AddRefused
  /\ Fail("raw")
  /\ UNCHANGED <<resp, results, hasCalls>>

(* Dispatcher.Execute answers every call, even when ctx is done.           *)
Execute ==
  /\ phase = "Executing" /\ turn < limit
  /\ results' = resp.key
  /\ Goto("Persisting")
  /\ UNCHANGED <<history, turn, retry, lastErr, resp, hasCalls, limit, faults>>

ExecuteInterrupted ==
  /\ phase = "Executing" /\ turn < limit /\ cancelled
  /\ results' = resp.key
  /\ Fail("terminal")
  /\ UNCHANGED <<history, resp, hasCalls, faults>>

(* ErrMaxTurnsReached: no tool runs and there are no results.              *)
ExecuteMaxTurns ==
  /\ phase = "Executing" /\ turn >= limit
  /\ Fail("terminal")
  /\ UNCHANGED <<history, resp, results, hasCalls, faults>>

(* Mutant: the response is not cleared once it is persisted.               *)
PersistResponse_NotCleared ==
  /\ phase = "Persisting"
  /\ \/ resp = NoResponse /\ UNCHANGED <<history, faults>>
     \/ resp # NoResponse /\ ~cancelled /\ Add(resp.kind, resp.key)
  /\ Goto("PersistingResults")
  /\ UNCHANGED <<turnState, limit>>

(* PersistenceStep: a content is cleared once it is persisted.             *)
PersistResponse ==
  /\ phase = "Persisting"
  /\ \/ resp = NoResponse /\ UNCHANGED <<history, faults>>
     \/ resp # NoResponse /\ ~cancelled /\ Add(resp.kind, resp.key)
  /\ resp' = NoResponse
  /\ Goto("PersistingResults")
  /\ UNCHANGED <<turn, retry, lastErr, results, hasCalls, limit>>

PersistResults ==
  /\ phase = "PersistingResults"
  /\ \/ results = 0 /\ UNCHANGED <<history, faults>>
     \/ results # 0 /\ ~cancelled /\ Add("results", results)
  /\ results' = 0
  /\ Goto("Complete")
  /\ UNCHANGED <<turn, retry, lastErr, resp, hasCalls, limit>>

(* Mutant: the error of a failed append is dropped.                        *)
PersistFail_Ignored ==
  /\ \/ phase = "Persisting" /\ resp # NoResponse
     \/ phase = "PersistingResults" /\ results # 0
  /\ AddRefused
  /\ Goto("Complete")
  /\ UNCHANGED <<turnState, limit>>

PersistFail ==
  /\ \/ phase = "Persisting" /\ resp # NoResponse
     \/ phase = "PersistingResults" /\ results # 0
  /\ AddRefused
  /\ Fail("terminal")
  /\ UNCHANGED <<resp, results, hasCalls>>

Retryable == \/ lastErr = "empty" /\ retry < MaxEmptyRetries
             \/ lastErr = "transient" /\ retry < MaxRetries

Overflowed == lastErr = "overflow" /\ retry = 0

(* Mutant: the attempt is not counted.                                     *)
Retry_NotCounted ==
  /\ phase = "Recovering" /\ Retryable /\ ~cancelled
  /\ Goto("Refining")
  /\ UNCHANGED <<history, turnState, limit, faults>>

(* RecoveryStep, the backoff included.                                     *)
Retry ==
  /\ phase = "Recovering" /\ Retryable /\ ~cancelled
  /\ retry' = retry + 1
  /\ Goto("Refining")
  /\ UNCHANGED <<history, turn, lastErr, resp, results, hasCalls, limit,
                 faults>>

RetryInterrupted ==
  /\ phase = "Recovering" /\ Retryable /\ cancelled
  /\ retry' = retry + 1 /\ lastErr' = "terminal"
  /\ Goto("Saving")
  /\ UNCHANGED <<history, turn, resp, results, hasCalls, limit, faults>>

(* One refinement under the recovery budget.                               *)
ReduceContext ==
  /\ phase = "Recovering" /\ Overflowed
  /\ retry' = retry + 1
  /\ Goto("Refining")
  /\ UNCHANGED <<history, turn, lastErr, resp, results, hasCalls, limit,
                 faults>>

AcceptEmpty ==
  /\ phase = "Recovering" /\ lastErr = "empty" /\ ~Retryable
  /\ Goto("Persisting")
  /\ UNCHANGED <<history, turnState, limit, faults>>

GiveUp ==
  /\ phase = "Recovering" /\ lastErr # "empty" /\ ~Retryable /\ ~Overflowed
  /\ Goto("Saving")
  /\ UNCHANGED <<history, turnState, limit, faults>>

-----------------------------------------------------------------------------
(* emergencySave, under a context of its own, and the end of the turn.     *)

HasParts(r) == r.kind \notin {"none", "hollow"}

NeedsSave == HasParts(resp) \/ results # 0

SaveNothing ==
  /\ phase = "Saving" /\ ~NeedsSave
  /\ Leave("error")
  /\ UNCHANGED <<history, faults>>

(* Mutant: the response is taken to be persisted already.                  *)
SaveResponse_ResultsOnly ==
  /\ phase = "Saving" /\ NeedsSave
  /\ resp' = NoResponse
  /\ Goto("SavingResults")
  /\ UNCHANGED <<history, turn, retry, lastErr, results, hasCalls, limit,
                 faults>>

SaveResponse ==
  /\ phase = "Saving" /\ NeedsSave
  /\ IF resp = NoResponse THEN UNCHANGED <<history, faults>>
                          ELSE Add(resp.kind, resp.key)
  /\ resp' = NoResponse
  /\ Goto("SavingResults")
  /\ UNCHANGED <<turn, retry, lastErr, results, hasCalls, limit>>

SaveResults ==
  /\ phase = "SavingResults"
  /\ IF results = 0 THEN UNCHANGED <<history, faults>>
                    ELSE Add("results", results)
  /\ Leave("error")

SaveFail ==
  /\ \/ phase = "Saving" /\ NeedsSave /\ resp # NoResponse
     \/ phase = "SavingResults" /\ results # 0
  /\ StoreFails
  /\ Leave("error")

(* Run: the stop condition is read from the completed turn.                *)
NextTurn ==
  /\ phase = "Complete" /\ hasCalls
  /\ FreshTurn(turn + 1)
  /\ Goto("Guard")
  /\ UNCHANGED <<history, limit, faults>>

Return ==
  /\ phase = "Complete" /\ ~hasCalls
  /\ Leave("ok")
  /\ UNCHANGED <<history, faults>>

Engine == \/ GuardPass \/ GuardFail \/ Refine \/ RefineFail
          \/ Infer \/ InferEmpty \/ InferFail
          \/ BreakLoop \/ GiveFeedback \/ BreakFail
          \/ Execute \/ ExecuteInterrupted \/ ExecuteMaxTurns
          \/ PersistResponse \/ PersistResults \/ PersistFail
          \/ Retry \/ RetryInterrupted \/ ReduceContext \/ AcceptEmpty
          \/ GiveUp \/ SaveNothing \/ SaveResponse \/ SaveResults
          \/ SaveFail \/ NextTurn \/ Return

Done == phase = "idle" /\ chat = MaxChats /\ UNCHANGED vars

Next == Ask \/ Cancel \/ Crash \/ Engine \/ Done

Spec == Init /\ [][Next]_vars

(* The goroutine of Run is scheduled; the gateway and the tools return     *)
(* (Dispatcher, Termination).                                              *)
FairSpec == Spec /\ WF_vars(Engine)

-----------------------------------------------------------------------------
(* Properties                                                              *)

Positions == {p \in (1..Len(history)) \X (1..Len(history)) :
                p[2] <= Len(history[p[1]].parts)}
At(p)     == history[p[1]].parts[p[2]]

SameTurn(a, b) == a.chat = b.chat /\ a.turn = b.turn

(* The call at position p is answered, by a part of one of the kinds, in   *)
(* the next message, as providers require.                                 *)
Answered(p, kinds) ==
  /\ p[1] < Len(history)
  /\ \E j \in 1..Len(history[p[1] + 1].parts) :
       LET q == history[p[1] + 1].parts[j] IN
       q.kind \in kinds /\ SameTurn(q, At(p))

Calls(c) == {p \in Positions : At(p).kind = "calls" /\ At(p).chat \in c}

(* What the transformers promise the provider: "HistoryRepairer ensures    *)
(* the history is valid for the API after a crash or interruption".        *)
RequestAnswered ==
  phase = "Inference" =>
    \A p \in Calls(1..chat) : Answered(p, {"results", "feedback", "lost"})

(* Within a Run the provider never sees an unanswered call of that Run,    *)
(* nor one the repairer had to answer: tools, loop feedback and retries    *)
(* all close what they open.                                               *)
RunAnswersItsCalls ==
  phase = "Inference" =>
    \A p \in Calls({chat}) : Answered(p, {"results", "feedback"})

Returns == phase # "idle" /\ phase' = "idle" /\ outcome' # "crashed"

(* Run returns nil only if every call of the chat was answered.            *)
SuccessIsAnswered ==
  [][Returns /\ outcome' = "ok" =>
       \A p \in Calls({chat}) : Answered(p, {"results", "feedback"})]_vars

(* Results and feedback never stand without the call they answer: not      *)
(* after a failed append, a retry or an emergency save.                    *)
ResultsFollowCalls ==
  \A p \in Positions :
    At(p).kind \in {"results", "feedback"} =>
      /\ p[1] > 1
      /\ \E j \in 1..Len(history[p[1] - 1].parts) :
           LET q == history[p[1] - 1].parts[j] IN
           q.kind = "calls" /\ SameTurn(q, At(p))

Records(h, part) == \E i \in 1..Len(h) :
                      \E j \in 1..Len(h[i].parts) : h[i].parts[j] = part

(* What a turn produced is in the history once the turn lets go of it: the *)
(* step that clears or replaces TurnState.Response or ToolResponse         *)
(* (a persist, a loop break, the emergency save, the end of the turn, the  *)
(* start of the next) leaves it persisted, whatever failed before.  Only an*)
(* emergency save that cannot write, a crash, and an empty answer that is  *)
(* asked for again lose something.                                         *)
AskedAgain == resp \in Empties /\ phase = "Inference"

NothingLost ==
  [][outcome' # "crashed" /\ faults' = faults =>
       /\ HasParts(resp) /\ resp' # resp /\ ~AskedAgain
            => Records(history', Part(resp.kind, resp.key))
       /\ results # 0 /\ results' # results
            => Records(history', Part("results", results))]_vars

(* The emergency save is a no-op for what was persisted already, except    *)
(* for the response of a loop break whose feedback was refused.            *)
SavedOnce ==
  [][/\ phase = "Saving" /\ phase' = "SavingResults" /\ resp # NoResponse
     /\ lastErr # "raw"
     => ~Records(history, Part(resp.kind, resp.key))]_vars

(* The same call runs at most MaxRepetitions times in a Run.               *)
RepetitionsBounded ==
  \A c \in 1..chat, k \in Keys :
    Cardinality({t \in 0..MaxTurns :
                   \E p \in Positions :
                     /\ At(p).kind = "results" /\ At(p).key = k
                     /\ At(p).chat = c /\ At(p).turn = t}) <= MaxRepetitions

(* Every chat returns, whatever fails and whenever the user cancels.       *)
ChatReturns == phase # "idle" ~> phase = "idle"

-----------------------------------------------------------------------------
(* Why it holds.                                                           *)

PartsOf(m) == {m.parts[j] : j \in 1..Len(m.parts)}
Last       == history[Len(history)]

(* The Run can still reach the provider: no error has ended it.            *)
Live == /\ phase \notin {"idle", "Saving", "SavingResults"}
        /\ phase = "Recovering" => lastErr \notin {"terminal", "raw"}

(* What the phases know of the turn: which fields of TurnState are set.    *)
PhaseInv ==
  /\ phase # "idle" => chat > 0
  /\ phase = "idle" => resp = NoResponse
  /\ phase = "Guard" => resp = NoResponse
  /\ phase = "Executing" => resp.kind = "calls" /\ hasCalls
  /\ phase \in {"LoopBreak", "Feedback"} =>
       resp \in Answers /\ hasCalls = (resp.kind = "calls")
  /\ phase = "Persisting" =>
       /\ resp.kind = "calls" => results = resp.key
       /\ hasCalls => results # 0
  /\ phase = "PersistingResults" => resp = NoResponse /\ (hasCalls => results # 0)
  /\ phase \in {"Complete", "SavingResults"} => resp = NoResponse
  /\ phase = "Recovering" => lastErr # "none"
  /\ phase = "Recovering" /\ lastErr = "empty" => ~hasCalls /\ resp \in Empties

(* Results are those of the calls of the response, and no error that is    *)
(* retried leaves any.                                                     *)
PendingInv ==
  results # 0 =>
    /\ resp = NoResponse \/ (resp.kind = "calls" /\ resp.key = results)
    /\ \/ phase \in {"Persisting", "PersistingResults", "Saving", "SavingResults"}
       \/ phase = "Recovering" /\ lastErr = "terminal"

(* The turn that is refused for its number has produced nothing.           *)
TurnInv ==
  phase \notin {"idle", "Guard"} =>
    \/ turn <= MaxTurns
    \/ /\ phase \in {"Recovering", "Saving"} /\ lastErr = "terminal"
       /\ resp = NoResponse /\ results = 0

(* Nothing of this turn has been persisted.                                *)
Unwritten ==
  \/ phase \in {"Guard", "Refining", "Inference", "LoopBreak", "Executing",
               "Persisting"}
  \/ /\ phase \in {"Recovering", "Saving"} /\ lastErr # "raw"
     /\ lastErr # "terminal" \/ resp # NoResponse

(* The history holds nothing of turns to come, nothing but the prompt of   *)
(* the turn that has persisted nothing, and only the model's empty answers *)
(* have no parts.                                                          *)
WrittenInv ==
  \A i \in 1..Len(history) :
    /\ history[i].parts = <<>> => history[i].role = "model"
    /\ \A q \in PartsOf(history[i]) :
         /\ q.chat <= chat
         /\ phase # "idle" /\ q.chat = chat => q.turn <= turn
         /\ Unwritten /\ q.chat = chat /\ q.turn = turn => q.kind = "prompt"

(* The last message: the provider is asked with one that is not its own,   *)
(* and results and feedback find the calls there that they answer.         *)
EndsWithCalls(key) ==
  /\ history # <<>> /\ Last.role = "model"
  /\ Part("calls", key) \in PartsOf(Last)

Asking == \/ phase \in {"Guard", "Refining", "Inference"}
          \/ phase = "Recovering" /\ lastErr \in {"transient", "overflow", "empty"}
          \/ phase = "Complete" /\ hasCalls

LastInv ==
  /\ Asking => history # <<>> /\ Last.role # "model"
  /\ results # 0 /\ resp = NoResponse => EndsWithCalls(results)
  /\ phase = "Feedback" =>
       /\ history # <<>> /\ Last.role = "model"
       /\ hasCalls => EndsWithCalls(resp.key)

Closing == {"results", "feedback"}

Awaiting == \/ phase = "Feedback" /\ hasCalls
            \/ phase = "PersistingResults" /\ results # 0

(* The calls of the Run are answered, but for those in the last message    *)
(* whose answer comes next.                                                *)
AnsweredInv ==
  Live =>
    \A i \in 1..Len(history) : \A q \in PartsOf(history[i]) :
      q.kind = "calls" /\ q.chat = chat =>
        \/ /\ i < Len(history)
           /\ \E r \in PartsOf(history[i + 1]) : r.kind \in Closing /\ SameTurn(r, q)
        \/ i = Len(history) /\ q.turn = turn /\ Awaiting

(* ResultsFollowCalls, said of messages.                                   *)
FollowInv ==
  \A i \in 1..Len(history) : \A q \in PartsOf(history[i]) :
    q.kind \in Closing =>
      i > 1 /\ \E r \in PartsOf(history[i - 1]) : r.kind = "calls" /\ SameTurn(r, q)

(* The turns of a chat that have results of a call.                        *)
TurnsWith(h, c, key) ==
  {t \in 0..MaxTurns : \E i \in 1..Len(h) :
     [kind |-> "results", key |-> key, chat |-> c, turn |-> t] \in PartsOf(h[i])}

(* The detector has counted the turn that executes a call, or has results  *)
(* that are not in the history yet.                                        *)
Uncounted(key) ==
  IF (phase = "Executing" /\ resp.key = key) \/ results = key THEN 1 ELSE 0

RepeatsInv ==
  /\ \A c \in 1..chat, key \in Keys :
       Cardinality(TurnsWith(history, c, key)) <= MaxRepetitions
  /\ \A key \in Keys :
       LET turns == Cardinality(TurnsWith(history, chat, key)) + Uncounted(key)
       IN  turns <= count[key] /\ turns <= MaxRepetitions

IInv == /\ PhaseInv /\ PendingInv /\ TurnInv /\ WrittenInv /\ LastInv
        /\ AnsweredInv /\ FollowInv /\ RepeatsInv

(* The provider is asked with no answer in hand, and a response that broke *)
(* the loop is in the history before its feedback.                         *)
ResponseInv ==
  /\ \/ phase \in {"Guard", "Refining", "Inference"}
     \/ phase = "Recovering" /\ lastErr \in {"transient", "overflow", "empty"}
     => resp \notin Answers
  /\ phase = "Feedback" => Records(history, Part(resp.kind, resp.key))
=============================================================================
