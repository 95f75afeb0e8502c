------------------------------ MODULE PromptLog ------------------------------
(***************************************************************************)
(* The prompts of the user that suggestions come from: the service         *)
(* (internal/app/suggestions) keeps them in memory and hands each one to a *)
(* goroutine that appends it to a file shared by all sessions              *)
(* (internal/infrastructure/history, globalPromptTracker).  A file that    *)
(* has grown is compacted in the background: it is read without a lock,    *)
(* and rewritten if its size is still the one it had before.               *)
(*                                                                         *)
(* A prompt is a member of Prompts, a line counts as one in the size of    *)
(* the file, and reading the file is one step.  Lines are lost to readers  *)
(* where a write fails or a process dies in it; what else is lost, a       *)
(* compaction has dropped, and logged is there to tell.                    *)
(***************************************************************************)
EXTENDS Integers, Sequences, FiniteSets

CONSTANTS
  Prompts,      \* texts a user enters
  Trackers,     \* processes that have the file open: sessions
  MaxPrompts,   \* maxGlobalPrompts: what a compaction keeps
  Threshold,    \* compactionThresholdBytes
  MaxAttempts,  \* maxRetries of a compaction
  MaxRecords,   \* bound: prompts entered
  MaxFailures   \* bound: operations on the file that fail, and crashes

ASSUME PromptAssumption ==
  /\ MaxPrompts \in Nat \ {0} /\ Threshold \in Nat /\ MaxAttempts \in Nat \ {0}
  /\ MaxRecords \in Nat /\ MaxFailures \in Nat
  /\ Prompts \cap {"torn", "none"} = {}

VARIABLES
  entries,   \* the lines of the file: prompts, and "torn" ones that nobody
             \* can read
  tail,      \* its last line, if that has no end yet, or "none"
  pending,   \* pending[t]: prompts whose goroutine has not appended them yet
  closing,   \* closing[t]: the service takes no more
  writing,   \* writing[t]: the prompt Append has opened the file for, or "none"
  replaced,  \* trackers whose open file is not the file any more
  step,      \* step[t] of the compaction: "idle", "stat", "read", "check",
             \* "rename", "retry"
  attempt,   \* attempt[t]: passes before this one
  size,      \* size[t]: of the file when the pass began
  data,      \* data[t]: what it will be rewritten with
  records, failures,  \* counters of the bounds
  logged,    \* history: what entries would be, had no line been dropped
  overtaken, \* history: trackers in whose pass another session came between
  raced      \* history: some session acted on a file that another changed

service    == <<pending, closing, writing>>
compaction == <<step, attempt, size, data>>
lineVars   == <<entries, tail, logged>>
races      == <<replaced, overtaken, raced>>
promptVars == <<lineVars, races, service, compaction, records, failures>>

Lines == Prompts \cup {"torn"}

(* A last line that only lacks its end is read like any other.             *)
WithTail(s) == IF tail = "none" THEN s ELSE Append(s, tail)
File        == WithTail(entries)

(* doLoadTopUniqueEntries: the file is read backwards, a prompt counts     *)
(* where it comes first, a line that cannot be read does not, and the      *)
(* search stops at the limit.  The result is given from the oldest to the  *)
(* newest.                                                                 *)
Holds(s, line) == \E j \in 1..Len(s) : s[j] = line
WithOlder(newer, line, limit) ==
  IF line = "torn" \/ Holds(newer, line) \/ Len(newer) = limit
  THEN newer ELSE <<line>> \o newer

TopUnique(lines, limit) ==
  LET read[k \in 0..Len(lines)] ==
        IF k = 0 THEN <<>>
        ELSE WithOlder(read[k - 1], lines[Len(lines) - k + 1], limit)
  IN  read[Len(lines)]

PromptInit ==
  /\ entries = <<>> /\ tail = "none" /\ logged = <<>>
  /\ pending = [t \in Trackers |-> [p \in Prompts |-> 0]]
  /\ closing = [t \in Trackers |-> FALSE]
  /\ writing = [t \in Trackers |-> "none"]
  /\ step = [t \in Trackers |-> "idle"] /\ attempt = [t \in Trackers |-> 0]
  /\ size = [t \in Trackers |-> 0] /\ data = [t \in Trackers |-> <<>>]
  /\ records = 0 /\ failures = 0
  /\ replaced = {} /\ overtaken = {} /\ raced = FALSE

(* The tracker's lock, of one process: Append holds it from the opening of *)
(* the file to its close, optimisticWrite from its check to its rename.    *)
Locked(t) == writing[t] # "none" \/ step[t] = "rename"
Failure   == failures < MaxFailures /\ failures' = failures + 1

(* Another session has come between, if its pass is at one of the steps.   *)
Overtake(t, steps) ==
  overtaken' = overtaken \cup {u \in Trackers \ {t} : step[u] \in steps}

-----------------------------------------------------------------------------
(* The service.                                                            *)

RecordPrompt(t, p) ==
  /\ ~closing[t] /\ records < MaxRecords /\ records' = records + 1
  /\ pending' = [pending EXCEPT ![t][p] = @ + 1]
  /\ UNCHANGED <<lineVars, races, closing, writing, compaction, failures>>

Close(t) ==
  /\ ~closing[t] /\ closing' = [closing EXCEPT ![t] = TRUE]
  /\ UNCHANGED <<lineVars, races, pending, writing, compaction, records, failures>>

-----------------------------------------------------------------------------
(* Append: the file is opened, and then written, both under the lock.      *)

OpenFile(t, p) ==
  /\ pending[t][p] > 0 /\ ~Locked(t)
  /\ pending' = [pending EXCEPT ![t][p] = @ - 1]
  /\ \/ writing' = [writing EXCEPT ![t] = p] /\ UNCHANGED failures
     \/ Failure /\ UNCHANGED writing
  /\ UNCHANGED <<lineVars, races, closing, compaction, records>>

(* What is written behind a line without an end continues it, and then     *)
(* neither can be read.                                                    *)
Spoiled(s) == IF tail = "none" THEN s ELSE Append(s, "torn")

PutLine(p) ==
  LET line == IF tail = "none" THEN p ELSE "torn" IN
  /\ entries' = Append(Spoiled(entries), line)
  /\ logged' = Append(Spoiled(logged), line)
  /\ tail' = "none"

(* A part of the line: all of it but its end can be read.                  *)
PutPart(p) ==
  /\ entries' = Spoiled(entries) /\ logged' = Spoiled(logged)
  /\ tail' \in IF tail = "none" THEN {"torn", p} ELSE {"torn"}

(* A compaction is started unless one runs or the size cannot be read.     *)
StartCompaction(t) ==
  \/ /\ Len(File') > Threshold /\ step[t] = "idle"
     /\ step' = [step EXCEPT ![t] = "stat"]
     /\ attempt' = [attempt EXCEPT ![t] = 0] /\ UNCHANGED failures
  \/ /\ Len(File') <= Threshold \/ step[t] # "idle"
     /\ UNCHANGED <<step, attempt, failures>>
  \/ Failure /\ UNCHANGED <<step, attempt>>

Closed(t) == /\ writing' = [writing EXCEPT ![t] = "none"]
             /\ replaced' = replaced \ {t}

(* A line written to a file that has been replaced is in no file, and the  *)
(* session is not told.                                                    *)
WritePrompt(t) ==
  /\ writing[t] # "none" /\ Closed(t)
  /\ \/ t \notin replaced /\ PutLine(writing[t]) /\ UNCHANGED raced
     \/ /\ t \in replaced /\ raced' = TRUE
        /\ logged' = Append(logged, writing[t]) /\ UNCHANGED <<entries, tail>>
  /\ Overtake(t, {"rename"})
  /\ StartCompaction(t)
  /\ UNCHANGED <<pending, closing, size, data, records>>

(* The write fails altogether, or after a part of the line.                *)
WriteFails(t) ==
  /\ writing[t] # "none" /\ Closed(t) /\ Failure
  /\ \/ UNCHANGED <<lineVars, overtaken>>
     \/ t \notin replaced /\ PutPart(writing[t]) /\ Overtake(t, {"rename"})
  /\ UNCHANGED <<raced, pending, closing, compaction, records>>

-----------------------------------------------------------------------------
(* The compaction.                                                         *)

Goto(t, s) == step' = [step EXCEPT ![t] = s]
Failed(t)  == Failure /\ Goto(t, "retry")

Stat(t) ==
  /\ step[t] = "stat"
  /\ \/ /\ Goto(t, "read") /\ size' = [size EXCEPT ![t] = Len(File)]
        /\ overtaken' = overtaken \ {t} /\ UNCHANGED failures
     \/ Failed(t) /\ UNCHANGED <<size, overtaken>>
  /\ UNCHANGED <<lineVars, replaced, raced, service, attempt, data, records>>

PrepareEntries(t) ==
  /\ step[t] = "read"
  /\ \/ /\ data' = [data EXCEPT ![t] = TopUnique(File, MaxPrompts)]
        /\ Goto(t, IF data'[t] = <<>> THEN "retry" ELSE "check") /\ UNCHANGED failures
     \/ Failed(t) /\ UNCHANGED data
  /\ UNCHANGED <<lineVars, races, service, attempt, size, records>>

(* optimisticWrite: the size is read again, now under the lock.            *)
(* Mutant: it is not.                                                      *)
CheckSize_Skipped(t) ==
  /\ step[t] = "check" /\ writing[t] = "none" /\ Goto(t, "rename")
  /\ UNCHANGED <<lineVars, races, service, attempt, size, data, records, failures>>

CheckSize(t) ==
  /\ step[t] = "check" /\ writing[t] = "none"
  /\ \/ Goto(t, IF Len(File) = size[t] THEN "rename" ELSE "retry") /\ UNCHANGED failures
     \/ Failed(t)
  /\ UNCHANGED <<lineVars, races, service, attempt, size, data, records>>

(* The file is replaced, under those who have it open.                     *)
AtomicWrite(t) ==
  /\ step[t] = "rename"
  /\ \/ /\ Goto(t, "idle") /\ entries' = data[t] /\ tail' = "none"
        /\ logged' = WithTail(logged)
        /\ replaced' = {u \in Trackers : writing[u] # "none"}
        /\ Overtake(t, {"read", "check", "rename"})
        /\ raced' = (raced \/ t \in overtaken) /\ UNCHANGED failures
     \/ Failed(t) /\ UNCHANGED <<lineVars, races>>
  /\ UNCHANGED <<service, attempt, size, data, records>>

ShouldStillCompact(t) ==
  /\ step[t] = "retry"
  /\ \/ /\ attempt[t] + 1 < MaxAttempts /\ Len(File) > Threshold
        /\ Goto(t, "stat") /\ attempt' = [attempt EXCEPT ![t] = @ + 1] /\ UNCHANGED failures
     \/ /\ attempt[t] + 1 = MaxAttempts \/ Len(File) <= Threshold
        /\ Goto(t, "idle") /\ UNCHANGED <<attempt, failures>>
     \/ Failure /\ Goto(t, "idle") /\ UNCHANGED attempt
  /\ UNCHANGED <<lineVars, races, service, size, data, records>>

(* The process ends, in the middle of a compaction or of a write, and is   *)
(* started again.                                                          *)
Restart(t) ==
  /\ Failure /\ Closed(t)
  /\ step' = [step EXCEPT ![t] = "idle"]
  /\ pending' = [pending EXCEPT ![t] = [p \in Prompts |-> 0]]
  /\ closing' = [closing EXCEPT ![t] = FALSE]
  /\ \/ UNCHANGED <<lineVars, overtaken>>
     \/ /\ writing[t] # "none" /\ t \notin replaced
        /\ PutPart(writing[t]) /\ Overtake(t, {"rename"})
  /\ UNCHANGED <<raced, attempt, size, data, records>>

PromptNext ==
  \E t \in Trackers :
    \/ \E p \in Prompts : RecordPrompt(t, p) \/ OpenFile(t, p)
    \/ WritePrompt(t) \/ WriteFails(t) \/ Close(t) \/ Restart(t)
    \/ Stat(t) \/ PrepareEntries(t) \/ CheckSize(t) \/ AtomicWrite(t)
    \/ ShouldStillCompact(t)

PromptSpec == PromptInit /\ [][PromptNext]_promptVars

-----------------------------------------------------------------------------
(* What must hold.                                                         *)

(* Compaction changes nothing that anybody could load: the file gives the  *)
(* latest prompts that were appended, each where it was entered last, as   *)
(* if no line had ever been dropped, whatever was appended while the file  *)
(* was read, and whatever failed.  A prompt lost behind a line that was    *)
(* cut short is lost in both.                                              *)
Kept == TopUnique(File, MaxPrompts) = TopUnique(WithTail(logged), MaxPrompts)

(* The same with any number of sessions, as long as none of them wrote to  *)
(* a file that another had replaced since it was opened, or replaced one   *)
(* that another had replaced since the pass took its size, or had written  *)
(* to since the check.  Nothing in the code keeps two sessions from that.  *)
KeptUnlessRaced == raced \/ Kept
=============================================================================
