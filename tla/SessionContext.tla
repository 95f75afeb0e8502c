--------------------------- MODULE SessionContext ---------------------------
(***************************************************************************)
(* The session's context manager (internal/agent/session/context): the     *)
(* engine appends contents and prepares requests, tools summarise and pin, *)
(* and limits are changed, all on one stored history.                      *)
(*                                                                         *)
(* Prepare and SummarizeRange read the history, call the summariser, which *)
(* is slow, outside the lock, and then replace the history: Prepare checks *)
(* a version, SummarizeRange compares the messages.  Pinning goes to the   *)
(* history itself, past the lock and the version.                          *)
(*                                                                         *)
(* A message is what matters about it: who it is, its role, whether it     *)
(* holds calls or results, the contents it holds and those its summaries   *)
(* stand for.  The size of a text is a choice wherever a limit is tested.  *)
(***************************************************************************)
EXTENDS Integers, Sequences, SequencesExt, FiniteSets, FiniteSetsExt

CONSTANTS
  Starts,            \* the histories a session may begin with: kinds
  Tools,             \* concurrent calls of summarize_history
  Requested,         \* numbers of turns they ask for
  Estimate,          \* messages per turn first loaded: 4
  Growth,            \* messages per turn added to a window: 2
  MinHistory,        \* shortest history that is summarised by itself: 10
  MaxHistoryTurns,   \* the pruner's sliding window
  MaxAdds,           \* bound: contents appended
  MaxPrepares,       \* bound: requests prepared
  MaxCalls,          \* bound: calls of summarize_history
  MaxPins,           \* bound: pins and unpins
  MaxReconfigures,   \* bound: changes of the limits
  MaxFaults          \* bound: failures of the store

Kinds == {"user", "text", "calls", "results"}

ASSUME ContextAssumption ==
  /\ Starts \subseteq Seq(Kinds)
  /\ Requested \subseteq Nat \ {0} /\ "none" \notin Tools
  /\ Estimate \in Nat \ {0} /\ Growth \in Nat \ {0}
  /\ MinHistory \in Nat /\ MaxHistoryTurns \in Nat
  /\ {MaxAdds, MaxPrepares, MaxCalls, MaxPins, MaxReconfigures, MaxFaults}
       \subseteq Nat

VARIABLES
  history,   \* the stored history
  version,   \* Manager.version
  archive,   \* contents in the archive
  lastId,    \* the last identity given to a message
  added,     \* contents that were accepted, or loaded with the session
  engine,    \* "prompt", "prepare", "loaded", "summarizing", "persist",
             \* "infer", "results"
  request,   \* ContextRequest.History
  snapshot,  \* the version Prepare read
  span,      \* the messages Prepare summarises
  dirty,     \* ContextRequest.PersistHistory
  pins,      \* contents that were pinned in what Prepare read
  tool,      \* tool[t]: "idle", "scan", "summarize", "finalize",
             \* "archive", "store"
  job,       \* job[t]: what its call of SummarizeRange has worked out
  holder,    \* who holds Manager.mu across several steps, or "none"
  pinning,   \* the message manage_history resolved, or 0
  used       \* how often each bounded thing has happened

store    == <<history, archive>>
preparing == <<request, snapshot, span, dirty, pins>>
tools    == <<tool, job, holder>>
contextVars == <<store, version, lastId, added, engine, preparing, tools, pinning, used>>

-----------------------------------------------------------------------------
(* Messages and turns.                                                     *)

Message(id, kind) ==
  [id |-> id, role |-> IF kind \in {"text", "calls"} THEN "model" ELSE "user",
   calls |-> kind = "calls", results |-> kind = "results",
   has |-> {id}, sums |-> {}, acks |-> 0, pinned |-> FALSE]

(* A message of the manager's own: a summary, its acknowledgement, or the  *)
(* results that HistoryRepairer says are lost.                             *)
Synthetic(id, role, sums, results) ==
  [id |-> id, role |-> role, calls |-> FALSE, results |-> results,
   has |-> {}, sums |-> sums, acks |-> 0, pinned |-> FALSE]

Covers(m)  == m.has \cup m.sums
Contents(h) == UNION {Covers(h[i]) : i \in DOMAIN h}
Verbatim(h) == UNION {h[i].has : i \in DOMAIN h}
Pinned(h)   == UNION {h[i].has : i \in {j \in DOMAIN h : h[j].pinned}}

(* isTurnBoundary: the results of calls do not begin a turn.               *)
BeginsTurn(h, i) ==
  \/ i = 1
  \/ h[i].role = "user" /\ ~(h[i - 1].role = "model" /\ h[i - 1].calls)

(* groupTurns goes through the messages and adds each to the last turn, or *)
(* begins another one.  A turn is the pair of its first and its last       *)
(* message.                                                                *)
WithMessage(turns, begins, i) ==
  IF begins THEN Append(turns, <<i, i>>)
  ELSE [turns EXCEPT ![Len(turns)] = <<@[1], i>>]

Turns(h) ==
  LET grouped[i \in 0..Len(h)] ==
        IF i = 0 THEN <<>>
        ELSE WithMessage(grouped[i - 1], BeginsTurn(h, i), i)
  IN  grouped[Len(h)]

IsTurnPinned(h, turn) == \E i \in turn[1]..turn[2] : h[i].pinned

(* The runs of turns without a pin, as pairs of turns: those that may be   *)
(* summarised.                                                             *)
Runs(h) ==
  LET turns == Turns(h)
      free  == [k \in DOMAIN turns |-> ~IsTurnPinned(h, turns[k])]
  IN  {r \in (DOMAIN free) \X (DOMAIN free) :
         /\ r[1] <= r[2] /\ \A k \in r[1]..r[2] : free[k]
         /\ r[1] > 1 => ~free[r[1] - 1]
         /\ r[2] < Len(turns) => ~free[r[2] + 1]}
First(runs) == CHOOSE r \in runs : \A s \in runs : r[1] <= s[1]
Length(r)   == r[2] - r[1] + 1

MinViableBlock == 2
Nothing == <<0, 0>>
Span(h, a, b) == <<Turns(h)[a][1], Turns(h)[b][2]>>   \* turns a to b of h

-----------------------------------------------------------------------------
(* Replacing a block by its summary.                                       *)

NoJob == [turns |-> 0, total |-> 0, window |-> 0, from |-> 0, subset |-> <<>>,
          held |-> {}, next |-> <<>>]

ContextInit ==
  \E kinds \in Starts :
    LET h == [i \in DOMAIN kinds |-> Message(i, kinds[i])] IN
    /\ history = h /\ archive = {} /\ version = 0
    /\ lastId = Len(h) /\ added = DOMAIN h
    /\ engine = "prompt" /\ request = <<>> /\ snapshot = 0 /\ span = Nothing
    /\ dirty = FALSE /\ pins = {}
    /\ tool = [t \in Tools |-> "idle"] /\ job = [t \in Tools |-> NoJob]
    /\ holder = "none" /\ pinning = 0
    /\ used = [adds |-> 0, prepares |-> 0, calls |-> 0, pins |-> 0,
               reconfigures |-> 0, faults |-> 0]

(* applySummaryToHistory: the summary, which stands for the contents sums, *)
(* goes into a message of the user before the block, or is one; a message  *)
(* of the model after the block takes the acknowledgement in, or the       *)
(* acknowledgement is one.                                                 *)
WithSummary(h, block, sums, id) ==
  LET before == SubSeq(h, 1, block[1] - 1)
      after  == SubSeq(h, block[2] + 1, Len(h))
      head   == IF before # <<>> /\ Last(before).role = "user"
                THEN [before EXCEPT ![Len(before)].sums = @ \cup sums]
                ELSE Append(before, Synthetic(id, "user", sums, FALSE))
      tail   == IF after # <<>> /\ after[1].role = "model"
                THEN [after EXCEPT ![1].acks = @ + 1]
                ELSE <<Synthetic(id + 1, "model", {}, FALSE)>> \o after
  IN  head \o tail

Use(what, bound) == /\ used[what] < bound
                    /\ used' = [used EXCEPT ![what] = @ + 1]
Fault == Use("faults", MaxFaults)

-----------------------------------------------------------------------------
(* The engine appends contents.                                            *)

(* AddContent: a message of the last one's role becomes part of it.        *)
Appended(h, m) ==
  IF h # <<>> /\ Last(h).role = m.role
  THEN [h EXCEPT ![Len(h)] = [Last(h) EXCEPT !.has     = @ \cup m.has,
                                             !.calls   = @ \/ m.calls,
                                             !.results = @ \/ m.results]]
  ELSE Append(h, m)

AddContent(kind, next) ==
  /\ holder = "none"
  /\ version' = version + 1
  /\ \/ /\ Use("adds", MaxAdds)
        /\ history' = Appended(history, Message(lastId + 1, kind))
        /\ lastId' = lastId + 1 /\ added' = added \cup {lastId + 1}
        /\ engine' = next
     \/ /\ Fault
        /\ engine' = "prompt"
        /\ UNCHANGED <<history, lastId, added>>
  /\ UNCHANGED <<archive, preparing, tools, pinning>>

Prompt     == engine = "prompt"  /\ AddContent("user", "prepare")
Answer     == engine = "infer"   /\ AddContent("text", "prompt")
CallTools  == engine = "infer"   /\ AddContent("calls", "results")
AddResults == engine = "results" /\ AddContent("results", "prepare")

(* A chat may end at any of these points: cancelled, failed, or crashed.   *)
EndChat ==
  /\ engine \in {"prepare", "infer", "results"}
  /\ engine' = "prompt" /\ request' = <<>>
  /\ UNCHANGED <<store, version, lastId, added, snapshot, span, dirty, pins,
                 tools, pinning, used>>

-----------------------------------------------------------------------------
(* Manager.Prepare.                                                        *)

LoadHistory ==
  /\ engine = "prepare" /\ holder = "none" /\ Use("prepares", MaxPrepares)
  /\ snapshot' = version /\ request' = history /\ pins' = Pinned(history)
  /\ span' = Nothing /\ dirty' = FALSE
  /\ engine' = "loaded"
  /\ UNCHANGED <<store, version, lastId, added, tools, pinning>>

(* HistoryRepairer: calls that were never answered are answered "lost".    *)
Unanswered(h) == h # <<>> /\ Last(h).role = "model" /\ Last(h).calls
Repaired(h) == IF Unanswered(h)
               THEN Append(h, Synthetic(lastId + 1, "user", {}, TRUE))
               ELSE h

(* findSummarizableRange: about half of the turns, of the first run of     *)
(* free turns that is long enough.                                         *)
Larger(a, b) == IF a < b THEN b ELSE a
AutoTarget(h) == Larger(Len(Turns(h)) \div 2, MinViableBlock)
AutoBlock(h) ==
  LET viable == {r \in Runs(h) : Length(r) >= MinViableBlock}
      r      == First(viable)
  IN  IF viable = {} THEN Nothing
      ELSE Span(h, r[1], Min({r[2], r[1] + AutoTarget(h) - 1}))

(* The engine prepares again, or the chat ends.                            *)
PrepareFails == /\ engine' \in {"prepare", "prompt"}
                /\ request' = <<>> /\ span' = Nothing /\ dirty' = FALSE

(* The transformers up to the gatekeeper's call of the summariser.  Under  *)
(* pressure it summarises if it can; if not, the history may be too long.  *)
Transform ==
  /\ engine = "loaded"
  /\ LET h     == Repaired(request)
         block == IF Len(h) < MinHistory THEN Nothing ELSE AutoBlock(h) IN
     /\ lastId' = IF h = request THEN lastId ELSE lastId + 1
     /\ \/ /\ engine' = "persist" /\ request' = h /\ span' = Nothing
           /\ \E cleaned \in BOOLEAN : dirty' = (cleaned \/ h # request)
        \/ /\ block # Nothing
           /\ engine' = "summarizing" /\ request' = h /\ span' = block
           /\ dirty' = TRUE
        \/ block = Nothing /\ PrepareFails
  /\ UNCHANGED <<store, version, added, snapshot, pins, tools, pinning, used>>

(* The summary arrives, or not, or the history is still too long.          *)
Summarized ==
  /\ engine = "summarizing"
  /\ \/ /\ request' = WithSummary(request, span,
                                  Contents(SubSeq(request, span[1], span[2])),
                                  lastId + 1)
        /\ lastId' = lastId + 2
        /\ engine' = "persist"
        /\ UNCHANGED <<span, dirty>>
     \/ PrepareFails /\ UNCHANGED lastId
  /\ UNCHANGED <<store, version, added, snapshot, pins, tools, pinning, used>>

(* HistoryPruner: the last turns stay, and any that is pinned or has calls *)
(* or results.  Mutant: without the policy of the pins.                    *)
Important(h, turn) == \E i \in turn[1]..turn[2] : h[i].calls \/ h[i].results
PrunedTurns_PinsToo(h) ==
  LET n == Len(Turns(h)) IN
  {k \in 1..n : MaxHistoryTurns > 0 /\ k <= n - MaxHistoryTurns
                /\ ~Important(h, Turns(h)[k])}

PrunedTurns(h) ==
  LET n == Len(Turns(h)) IN
  {k \in 1..n : MaxHistoryTurns > 0 /\ k <= n - MaxHistoryTurns
                /\ ~IsTurnPinned(h, Turns(h)[k]) /\ ~Important(h, Turns(h)[k])}

(* reconstructHistory: what stays is put together turn by turn.            *)
WithTurn(kept, gone, part) == IF gone THEN kept ELSE kept \o part

Pruned(h) ==
  LET turns == Turns(h)
      gone  == PrunedTurns(h)
      kept[k \in 0..Len(turns)] ==
        IF k = 0 THEN <<>>
        ELSE WithTurn(kept[k - 1], k \in gone, SubSeq(h, turns[k][1], turns[k][2]))
  IN  kept[Len(turns)]

(* The transient transformers; the last one may find too many tokens.      *)
Send == \/ /\ engine' = "infer" /\ request' = Pruned(request)
           /\ span' = Nothing /\ dirty' = FALSE
        \/ PrepareFails

(* Mutant: the version is not checked.                                     *)
VersionHolds_Any == TRUE

(* persistChanges: only what was changed is stored, and only if the        *)
(* version is still the one that was read.                                 *)
VersionHolds == version = snapshot
Persist ==
  /\ engine = "persist"
  /\ \/ ~dirty /\ Send /\ UNCHANGED <<version, history, used>>
     \/ /\ dirty /\ holder = "none" /\ VersionHolds
        /\ version' = version + 1
        /\ \/ history' = request /\ Send /\ UNCHANGED used
           \/ Fault /\ PrepareFails /\ UNCHANGED history
     \/ /\ dirty /\ holder = "none" /\ ~VersionHolds
        /\ PrepareFails /\ UNCHANGED <<version, history, used>>
  /\ UNCHANGED <<archive, lastId, added, snapshot, pins, tools, pinning>>

-----------------------------------------------------------------------------
(* Manager.SummarizeRange, called by the tool summarize_history.           *)

Goes(t, pc, j) == tool' = [tool EXCEPT ![t] = pc] /\ job' = [job EXCEPT ![t] = j]
Ends(t) == Goes(t, "idle", NoJob)

Call(t) ==
  /\ tool[t] = "idle" /\ holder = "none" /\ history # <<>>
  /\ Use("calls", MaxCalls)
  /\ \E n \in Requested :
       Goes(t, "scan", [NoJob EXCEPT !.turns = n, !.total = Len(history),
                        !.window = Min({n * Estimate, Len(history)})])
  /\ UNCHANGED <<store, version, lastId, added, engine, preparing, holder, pinning>>

(* scanCandidateBlocks and, at the end of the history, capBestBlock, which *)
(* leaves the last turn of the longest run alone.                          *)
Ready(h, n) == {r \in Runs(h) : Length(r) >= n}
Longest(h)  == {r \in Runs(h) : \A s \in Runs(h) : Length(s) <= Length(r)}
Candidate(h, n, atEnd) ==
  IF Ready(h, n) # {}
  THEN LET r == First(Ready(h, n)) IN Span(h, r[1], r[1] + n - 1)
  ELSE IF atEnd /\ Runs(h) # {} /\ Length(First(Longest(h))) >= MinViableBlock
       THEN LET r == First(Longest(h)) IN Span(h, r[1], r[2] - 1)
       ELSE Nothing

(* checkWindowSize: the window is loaded anew each time; the total is the  *)
(* one read at first.  A block of too many tokens is refused.              *)
Grown(j) == Min({j.window + j.turns * Growth, j.total})
Scan(t) ==
  /\ tool[t] = "scan"
  /\ LET j     == job[t]
         h     == SubSeq(history, 1, Min({j.window, Len(history)}))
         block == Candidate(h, j.turns, j.window >= j.total) IN
     \/ /\ block # Nothing
        /\ Goes(t, "summarize",
                [j EXCEPT !.from = block[1],
                          !.subset = SubSeq(h, block[1], block[2])])
     \/ (block # Nothing \/ j.window >= j.total) /\ Ends(t)
     \/ /\ block = Nothing /\ j.window < j.total
        /\ Goes(t, "scan", [j EXCEPT !.window = Grown(j)])
  /\ UNCHANGED <<store, version, lastId, added, engine, preparing, holder, pinning,
                 used>>

(* The slow call, outside the lock; it may fail.                           *)
Summarize(t) ==
  /\ tool[t] = "summarize"
  /\ Goes(t, "finalize", job[t]) \/ Ends(t)
  /\ UNCHANGED <<store, version, lastId, added, engine, preparing, holder, pinning,
                 used>>

(* finalizeSummarization, which holds the lock to its end.                 *)
JobEnd(j) == j.from + Len(j.subset) - 1

(* Mutants: only the length is checked; the pins are not compared.         *)
SubsetHolds_LengthOnly(j) == Len(history) >= JobEnd(j)
SubsetHolds_NoPins(j) ==
  LET bare(h) == [i \in DOMAIN h |-> [h[i] EXCEPT !.pinned = FALSE]]
  IN  /\ Len(history) >= JobEnd(j)
      /\ bare(SubSeq(history, j.from, JobEnd(j))) = bare(j.subset)

(* validateSummarizationSubset: the messages are those that were           *)
(* summarised, with the same contents and the same pins.                   *)
SubsetHolds(j) == /\ Len(history) >= JobEnd(j)
                  /\ SubSeq(history, j.from, JobEnd(j)) = j.subset

Finalize(t) ==
  /\ tool[t] = "finalize" /\ holder = "none"
  /\ LET j == job[t] IN
     \/ /\ SubsetHolds(j)
        /\ holder' = t /\ version' = version + 1 /\ lastId' = lastId + 2
        /\ Goes(t, "archive",
                [j EXCEPT !.held = Pinned(history),
                          !.next = WithSummary(history, <<j.from, JobEnd(j)>>,
                                               Contents(j.subset), lastId + 1)])
     \/ ~SubsetHolds(j) /\ Ends(t) /\ UNCHANGED <<holder, version, lastId>>
  /\ UNCHANGED <<store, added, engine, preparing, pinning, used>>

(* Mutant: a failure of the archive is only logged.                        *)
Archive_BestEffort(t) ==
  /\ tool[t] = "archive"
  /\ \/ archive' = archive \cup Verbatim(job[t].subset) /\ UNCHANGED used
     \/ Fault /\ UNCHANGED archive
  /\ Goes(t, "store", job[t])
  /\ UNCHANGED <<history, holder, version, lastId, added, engine, preparing,
                 pinning>>

Archive(t) ==
  /\ tool[t] = "archive"
  /\ \/ /\ archive' = archive \cup Verbatim(job[t].subset)
        /\ Goes(t, "store", job[t])
        /\ UNCHANGED <<holder, used>>
     \/ Fault /\ Ends(t) /\ holder' = "none" /\ UNCHANGED archive
  /\ UNCHANGED <<history, version, lastId, added, engine, preparing, pinning>>

SetContents(t) ==
  /\ tool[t] = "store"
  /\ Ends(t) /\ holder' = "none"
  /\ \/ history' = job[t].next /\ UNCHANGED used
     \/ Fault /\ UNCHANGED history
  /\ UNCHANGED <<archive, version, lastId, added, engine, preparing, pinning>>

-----------------------------------------------------------------------------
(* manage_history, and changes of the configuration.                       *)

(* resolveTurnID: the identity of a message of the user.                   *)
Resolve ==
  /\ pinning = 0 /\ Use("pins", MaxPins)
  /\ \E i \in DOMAIN history :
       history[i].role = "user" /\ pinning' = history[i].id
  /\ UNCHANGED <<store, version, lastId, added, engine, preparing, tools>>

(* findTurnPair: results and their calls, or a message and its answer.     *)
Partner(h, i) == IF h[i].results THEN i - 1 ELSE i + 1
Paired(h, i)  == LET k == Partner(h, i) IN
                 /\ k \in DOMAIN h /\ h[k].role = "model"
                 /\ h[i].results => h[k].calls

(* History.SetPinned, which knows neither the lock nor the version.        *)
SetPinned ==
  /\ pinning # 0
  /\ LET at == {i \in DOMAIN history : history[i].id = pinning} IN
     \/ \E i \in at, flag \in BOOLEAN :
          /\ Paired(history, i)
          /\ history' = [history EXCEPT ![i].pinned = flag,
                                       ![Partner(history, i)].pinned = flag]
     \/ (\A i \in at : ~Paired(history, i)) /\ UNCHANGED history
  /\ pinning' = 0
  /\ UNCHANGED <<archive, version, lastId, added, engine, preparing, tools, used>>

(* The pipeline of the new limits is for the requests prepared from now on.*)
Reconfigure ==
  /\ holder = "none" /\ Use("reconfigures", MaxReconfigures)
  /\ version' = version + 1
  /\ UNCHANGED <<store, lastId, added, engine, preparing, tools, pinning>>

Prepare == LoadHistory \/ Transform \/ Summarized \/ Persist
SummarizeRange(t) == \/ Call(t) \/ Scan(t) \/ Summarize(t) \/ Finalize(t)
                     \/ Archive(t) \/ SetContents(t)

ContextNext ==
  \/ Prompt \/ Answer \/ CallTools \/ AddResults \/ EndChat \/ Prepare
  \/ \E t \in Tools : SummarizeRange(t)
  \/ Resolve \/ SetPinned \/ Reconfigure

ContextSpec == ContextInit /\ [][ContextNext]_contextVars

-----------------------------------------------------------------------------
(* What must hold.                                                         *)

(* A content that AddContent accepted, or that the session was loaded      *)
(* with, is in the history, or is among what a summary in the history was  *)
(* made from: no replacement of the history takes away what its author     *)
(* did not see.                                                            *)
NothingUnseen == added \subseteq Contents(history)

(* A message that is pinned in the history is not taken away by whoever    *)
(* replaces the history, unless it was pinned after that one looked.       *)
PinnedStays ==
  [][\A c \in Pinned(history) \ Verbatim(history') :
       IF engine' # engine THEN c \notin pins ELSE c \notin job[holder].held]_contextVars

(* What a tool's summary removes from the history is in the archive first, *)
(* even when the store fails half way.                                     *)
ArchivedFirst ==
  [][engine' = engine =>
       (Verbatim(history) \ Verbatim(history')) \subseteq archive]_contextVars

(* What a summary has replaced does not come back: a Prepare that began    *)
(* before does not store its older copy over a summary that was reported.  *)
SummariesStay ==
  [][(Verbatim(history') \cap added) \subseteq Verbatim(history)]_contextVars

(* What was pinned when the request was prepared reaches the model as it   *)
(* is: neither the gatekeeper nor the pruner drops it.                     *)
PinsReachModel == engine = "infer" => pins \subseteq Verbatim(request)
=============================================================================
