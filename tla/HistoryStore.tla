---------------------------- MODULE HistoryStore ----------------------------
(***************************************************************************)
(* history.Manager and its jsonlStore (internal/infrastructure/history):   *)
(* the contents in memory and the JSON Lines file, to which messages and   *)
(* patches are appended (write, fsync) and which Save rewrites through a   *)
(* temporary file and a rename.  Every operation holds Manager.mu, writes  *)
(* first and changes the memory only when the store succeeded.             *)
(*                                                                         *)
(* A crash takes the memory and any suffix of what was not fsynced, the    *)
(* first lost line possibly torn; a rename is taken to be durable once it  *)
(* returned.                                                               *)
(***************************************************************************)
EXTENDS Integers, Sequences, FiniteSets, SequencesExt

CONSTANTS MaxOps,      \* bound: operations begun
          MaxMsgs,     \* bound: messages in the history
          MaxFaults,   \* bound: writes, syncs and renames that fail
          MaxCrashes   \* bound

ASSUME StoreAssumption == /\ MaxOps \in Nat /\ MaxMsgs \in Nat \ {0}
                          /\ MaxFaults \in Nat /\ MaxCrashes \in Nat

Roles == {"user", "model"}
Kinds == [user |-> {"text", "result"}, model |-> {"text", "call"}]

Part(kind, id)        == [kind |-> kind, id |-> id]
Message(role, part)   == [role |-> role, parts |-> <<part>>, pinned |-> FALSE]
Has(m, kind)          == \E j \in 1..Len(m.parts) : m.parts[j].kind = kind

(* Lines of the file.                                                      *)
MsgLine(m)       == [type |-> "msg", msg |-> m]
PartsLine(i, p)  == [type |-> "parts", index |-> i, part |-> p]
PinLine(i, b)    == [type |-> "pin", index |-> i, pinned |-> b]
Torn             == [type |-> "torn"]

VARIABLES
  mem,      \* Manager.Contents; <<>> while the process is down
  file,     \* lines of history.jsonl
  synced,   \* how many of them are durable
  status,   \* "up", "down", "refused": Load failed at startup
  stage,    \* "idle", "write", "sync", "rename", "commit": of the operation
  lines,    \* what it appends, or rewrites the file to
  written,  \* lines appended so far
  next,     \* Manager.Contents when it succeeds
  clean,    \* history variable: no failed append left a line in the file
  ops, faults, crashes

operation == <<stage, lines, written, next>>
vars == <<mem, file, synced, status, operation, clean, ops, faults, crashes>>

PartType    == [kind : {"text", "call", "result"}, id : 1..MaxOps]
MessageType == [role : Roles, parts : Seq(PartType), pinned : BOOLEAN]
Contents    == Seq(MessageType)
Line == [type : {"msg"}, msg : MessageType]
          \cup [type : {"parts"}, index : Nat \ {0}, part : PartType]
          \cup [type : {"pin"}, index : Nat \ {0}, pinned : BOOLEAN]

(* Types: memory and file hold messages and patches, and no more of the    *)
(* file is durable than there is.                                          *)
TypeOK ==
  /\ mem \in Contents /\ next \in Contents
  /\ file \in Seq(Line \cup {Torn}) /\ lines \in Seq(Line)
  /\ synced \in 0..Len(file) /\ written \in 0..Len(lines)
  /\ status \in {"up", "down", "refused"}
  /\ stage \in {"idle", "write", "sync", "rename", "commit"}
  /\ clean \in BOOLEAN
  /\ ops \in 0..MaxOps /\ faults \in 0..MaxFaults /\ crashes \in 0..MaxCrashes

Init ==
  /\ mem = <<>> /\ file = <<>> /\ synced = 0 /\ status = "up"
  /\ stage = "idle" /\ lines = <<>> /\ written = 0 /\ next = <<>>
  /\ clean = TRUE /\ ops = 0 /\ faults = 0 /\ crashes = 0

-----------------------------------------------------------------------------
(* The file format: jsonlStore.Load and Save.                              *)

(* Mutant: a pin patch toggles instead of setting.                         *)
ApplyLine_Toggle(contents, l) ==
  CASE l.type = "msg"   -> Append(contents, l.msg)
    [] l.type = "parts" /\ l.index \in DOMAIN contents ->
         [contents EXCEPT ![l.index].parts = Append(@, l.part)]
    [] l.type = "pin" /\ l.index \in DOMAIN contents ->
         [contents EXCEPT ![l.index].pinned = ~@]
    [] OTHER -> contents

(* A patch whose index is out of range is dropped.                         *)
ApplyLine(contents, l) ==
  CASE l.type = "msg"   -> Append(contents, l.msg)
    [] l.type = "parts" /\ l.index \in DOMAIN contents ->
         [contents EXCEPT ![l.index].parts = Append(@, l.part)]
    [] l.type = "pin" /\ l.index \in DOMAIN contents ->
         [contents EXCEPT ![l.index].pinned = l.pinned]
    [] OTHER -> contents

(* A line that does not decode fails the whole Load.                       *)
Readable(f)  == \A k \in 1..Len(f) : f[k] # Torn
Replay(f) ==
  LET read[k \in 0..Len(f)] ==
        IF k = 0 THEN <<>> ELSE ApplyLine(read[k - 1], f[k])
  IN  read[Len(f)]
Snapshot(c)  == [i \in 1..Len(c) |-> MsgLine(c[i])]

-----------------------------------------------------------------------------
(* Operations: what each of them writes, and what it leaves in memory.     *)

Begin(firstStage, ls, c) ==
  /\ status = "up" /\ stage = "idle" /\ ops < MaxOps
  /\ stage' = firstStage /\ lines' = ls /\ written' = 0 /\ next' = c
  /\ ops' = ops + 1
  /\ UNCHANGED <<mem, file, synced, status, clean, faults, crashes>>

BeginAppend(ls, c) == Begin("write", ls, c)
BeginSave(c)       == Begin("rename", Snapshot(c), c)

Fresh == ops + 1

(* The session's manager adds a message only after one of the other role,  *)
(* a user's first.                                                         *)
AddContent(role, kind) ==
  LET m == Message(role, Part(kind, Fresh)) IN
  /\ Len(mem) < MaxMsgs
  /\ IF mem = <<>> THEN role = "user" ELSE role # Last(mem).role
  /\ BeginAppend(<<MsgLine(m)>>, Append(mem, m))

(* ... and appends to the last message when the role is the same.          *)
AppendParts(kind) ==
  LET i == Len(mem) IN
  /\ i > 0 /\ kind \in Kinds[mem[i].role]
  /\ BeginAppend(<<PartsLine(i, Part(kind, Fresh))>>,
                 [mem EXCEPT ![i].parts = Append(@, Part(kind, Fresh))])

(* findTurnPair: a message with calls or results pairs with the one that   *)
(* answers or asks, any other as user and model; <<>> if there is no pair. *)
Forward(m) == \/ m.role = "model" /\ Has(m, "call")
              \/ m.role = "user" /\ ~Has(m, "result")

Pair(c, i) ==
  LET j == IF Forward(c[i]) THEN i + 1 ELSE i - 1 IN
  IF /\ j \in DOMAIN c /\ c[j].role # c[i].role
     /\ Has(c[i], "call") => Has(c[j], "result")
     /\ Has(c[i], "result") => Has(c[j], "call")
  THEN IF i < j THEN <<i, j>> ELSE <<j, i>>
  ELSE <<>>

SetPinned(i, on) ==
  LET p == Pair(mem, i) IN
  /\ p # <<>>
  /\ BeginAppend(<<PinLine(p[1], on), PinLine(p[2], on)>>,
                 [mem EXCEPT ![p[1]].pinned = on, ![p[2]].pinned = on])

(* What the pipeline persists: repaired history, or one whose oldest       *)
(* messages were summarised.                                               *)
SetContents ==
  \/ /\ mem # <<>> /\ Len(mem) < MaxMsgs /\ Has(Last(mem), "call")
     /\ BeginSave(Append(mem, Message("user", Part("result", Fresh))))
  \/ /\ Len(mem) > 2
     /\ BeginSave(<<Message("user", Part("text", Fresh)), mem[2]>>
                    \o SubSeq(mem, 5, Len(mem)))

(* Mutant: an odd history loses a message too many.                        *)
RollbackBounds_OffByOne(len, turns) ==
  IF turns >= (len + 1) \div 2 THEN 0 ELSE len - 2 * turns

(* calculateRollbackBounds for turns > 0: a trailing partial turn counts   *)
(* as one.                                                                 *)
RollbackBounds(len, turns) ==
  IF turns >= (len + 1) \div 2 THEN 0 ELSE len - 2 * turns + (len % 2)

RollbackTurns(turns) ==
  /\ mem # <<>>
  /\ BeginSave(SubSeq(mem, 1, RollbackBounds(Len(mem), turns)))

(* UpdateTurnContent: one text, or none, in place of the texts of a model  *)
(* message, where the first of them was.                                   *)
Edited(parts, text) ==
  LET isText(k) == parts[k].kind = "text"
      edit[k \in 0..Len(parts)] ==
        IF k = 0 THEN <<>>
        ELSE IF ~isText(k) THEN Append(edit[k - 1], parts[k])
        ELSE IF \E j \in 1..(k - 1) : isText(j) THEN edit[k - 1]
        ELSE edit[k - 1] \o text
  IN  IF \E j \in DOMAIN parts : isText(j) THEN edit[Len(parts)]
      ELSE edit[Len(parts)] \o text

UpdateTurnContent(i) ==
  /\ mem[i].role = "model"
  /\ \E text \in {<<>>, <<Part("text", Fresh)>>} :
       BeginSave([mem EXCEPT ![i].parts = Edited(@, text)])

-----------------------------------------------------------------------------
(* Their steps: withAppendFile, AtomicWrite and the update of the memory.  *)

EndOperation == stage' = "idle" /\ lines' = <<>> /\ written' = 0 /\ next' = <<>>
Fault        == faults < MaxFaults /\ faults' = faults + 1

WriteLine ==
  /\ stage = "write"
  /\ file' = Append(file, lines[written + 1])
  /\ written' = written + 1
  /\ stage' = "sync"
  /\ UNCHANGED <<mem, synced, status, lines, next, clean, ops, faults, crashes>>

(* Nothing was written (the context is done, the file does not open) or    *)
(* only a part of the line; what the file holds is fsynced all the same.   *)
WriteFail ==
  /\ stage = "write" /\ Fault
  /\ file' \in {file, Append(file, Torn)}
  /\ synced' \in {synced, Len(file')}
  /\ clean' = (clean /\ file' = file /\ written = 0)
  /\ EndOperation
  /\ UNCHANGED <<mem, status, ops, crashes>>

SyncLine ==
  /\ stage = "sync"
  /\ synced' = Len(file)
  /\ stage' = IF written = Len(lines) THEN "commit" ELSE "write"
  /\ UNCHANGED <<mem, file, status, lines, written, next, clean, ops, faults,
                 crashes>>

(* Mutant: the error of the deferred Sync is dropped.                      *)
SyncFail_Ignored ==
  /\ stage = "sync" /\ Fault
  /\ stage' = IF written = Len(lines) THEN "commit" ELSE "write"
  /\ UNCHANGED <<mem, file, synced, status, lines, written, next, clean, ops,
                 crashes>>

SyncFail ==
  /\ stage = "sync" /\ Fault
  /\ clean' = FALSE
  /\ EndOperation
  /\ UNCHANGED <<mem, file, synced, status, ops, crashes>>

(* AtomicWrite: write and fsync a temporary file, rename it over the file. *)
Rename ==
  /\ stage = "rename"
  /\ file' = lines /\ synced' = Len(lines) /\ clean' = TRUE
  /\ stage' = "commit"
  /\ UNCHANGED <<mem, status, lines, written, next, ops, faults, crashes>>

RenameFail ==
  /\ stage = "rename" /\ Fault
  /\ EndOperation
  /\ UNCHANGED <<mem, file, synced, status, clean, ops, crashes>>

Commit ==
  /\ stage = "commit"
  /\ mem' = next
  /\ EndOperation
  /\ UNCHANGED <<file, synced, status, clean, ops, faults, crashes>>

Crash ==
  /\ status = "up" /\ crashes < MaxCrashes
  /\ crashes' = crashes + 1
  /\ \E k \in synced..Len(file) :
       file' \in {SubSeq(file, 1, k)}
                   \cup (IF k < Len(file) THEN {Append(SubSeq(file, 1, k), Torn)}
                                          ELSE {})
  /\ synced' = Len(file')
  /\ mem' = <<>> /\ status' = "down"
  /\ EndOperation
  /\ UNCHANGED <<clean, ops, faults>>

(* BuildHistoryManager at startup.                                         *)
Load ==
  /\ status = "down"
  /\ IF Readable(file)
     THEN status' = "up" /\ mem' = Replay(file) /\ clean' = TRUE
     ELSE status' = "refused" /\ UNCHANGED <<mem, clean>>
  /\ UNCHANGED <<file, synced, operation, ops, faults, crashes>>

Operation ==
  \/ \E role \in Roles : \E kind \in Kinds[role] : AddContent(role, kind)
  \/ \E kind \in {"text", "call", "result"} : AppendParts(kind)
  \/ \E i \in DOMAIN mem, on \in BOOLEAN : SetPinned(i, on)
  \/ SetContents
  \/ \E turns \in 1..MaxMsgs : RollbackTurns(turns)
  \/ \E i \in DOMAIN mem : UpdateTurnContent(i)

Step == \/ WriteLine \/ WriteFail \/ SyncLine \/ SyncFail
        \/ Rename \/ RenameFail \/ Commit

Done == /\ status = "refused" \/ (stage = "idle" /\ ops = MaxOps)
        /\ UNCHANGED vars

Next == Operation \/ Step \/ Crash \/ Load \/ Done

Spec == Init /\ [][Next]_vars

-----------------------------------------------------------------------------
(* Properties                                                              *)

(* No patch is ever dropped by a later Load: the message it refers to is   *)
(* in the file before it, also after failures and crashes.                 *)
PatchesApply ==
  \A k \in 1..Len(file) :
    file[k].type \in {"parts", "pin"} =>
      file[k].index <= Cardinality({j \in 1..k : file[j].type = "msg"})

(* The file read back is the memory, after any interleaving of messages,   *)
(* patches and rewrites, and before and after restarts: a patch is applied *)
(* to the message it was made for.  Only an append that failed after its   *)
(* line was written ends this, and the next rewrite restores it; a patch   *)
(* meets no missing message even then.                                     *)
Reconciled ==
  /\ status = "up" /\ stage = "idle" /\ clean =>
       Readable(file) /\ Replay(file) = mem
  /\ PatchesApply

Alternates(c) == \A i \in 1..(Len(c) - 1) : c[i].role # c[i + 1].role

UserTexts(c) == {i \in DOMAIN c : c[i].role = "user" /\ Has(c[i], "text")}

(* GetLastUserMessage and RollbackTurns agree: rolling back the turns the  *)
(* first returns forgets the last prompt and everything after it, nothing  *)
(* more, also when the turn was cut short.  The two count in pairs, so the *)
(* roles must alternate; a message that a failed append left in the file   *)
(* ends that with the next restart.                                        *)
RetryRewinds ==
  status = "up" /\ Alternates(mem) /\ UserTexts(mem) # {} =>
    LET i == Max(UserTexts(mem))
        turns == (Len(mem) - (i - 1) + 1) \div 2
    IN  RollbackBounds(Len(mem), turns) = i - 1

(* What HistoryLog sees of the store: what a reader sees or will see after *)
(* a restart, what the operation in progress may leave behind, and whether *)
(* there is anything to read.                                              *)
Visible   == IF status = "up" THEN mem
             ELSE IF Readable(file) THEN Replay(file) ELSE <<>>
Pending   == IF stage = "idle" THEN {}
             ELSE IF Snapshot(next) = lines THEN {next}
             ELSE {next, ApplyLine(mem, lines[1])}
LogStatus == IF status = "down" /\ ~Readable(file) THEN "refused" ELSE status

Log == INSTANCE HistoryLog WITH contents <- Visible, pending <- Pending,
                                exact <- clean, status <- LogStatus

(* A refinement of HistoryLog: acknowledged updates survive crashes, an    *)
(* update cut short by a crash is all or nothing (a pin may reach one of   *)
(* its two messages), and only a line in flight or a failed append can     *)
(* make the file unreadable.                                               *)
ImplementsLog == Log!Spec

-----------------------------------------------------------------------------
(* Invariants the proofs use.                                              *)

(* What the steps of an append leave in memory once w lines are read back. *)
Applied(w) == CASE w = 0 -> mem
                [] w = 1 -> ApplyLine(mem, lines[1])
                [] OTHER -> ApplyLine(ApplyLine(mem, lines[1]), lines[2])

(* An operation appends one line or two, or rewrites the file to what it   *)
(* will leave in memory.                                                   *)
OperationInv ==
  /\ status # "up" => mem = <<>> /\ stage = "idle"
  /\ stage = "idle" => lines = <<>> /\ written = 0 /\ next = <<>>
  /\ stage \in {"write", "sync"} =>
       /\ Len(lines) \in {1, 2} /\ next = Applied(Len(lines))
       /\ Len(lines) = 2 => lines[1].type = "pin"
  /\ stage = "write" => written < Len(lines)
  /\ stage = "sync" => written > 0
  /\ stage = "rename" => lines = Snapshot(next)

(* The contents the file stands for at this stage.                         *)
OnFile == CASE stage \in {"write", "sync"} -> Applied(written)
            [] stage = "commit"            -> next
            [] OTHER                       -> mem

(* Without a failed append the file reads back as what was written, and so *)
(* does what is left of it when the line in flight is lost.                *)
FileInv ==
  /\ status # "up" => synced = Len(file)
  /\ status = "up" /\ clean =>
       /\ Readable(file) /\ Replay(file) = OnFile
       /\ stage # "sync" => synced = Len(file)
       /\ stage = "sync" =>
            /\ 0 < Len(file) /\ synced >= Len(file) - 1
            /\ Replay(SubSeq(file, 1, Len(file) - 1)) = Applied(written - 1)

(* The file holds at least the messages in memory, so that every patch     *)
(* meets its message, in the file and in what is being appended to it.     *)
LengthInv ==
  /\ Len(OnFile) <= Len(Replay(file))
  /\ \A k \in 1..Len(lines) :
       lines[k].type \in {"parts", "pin"} => lines[k].index <= Len(mem)

(* The first message is the user's, in memory and at every point of the    *)
(* file.                                                                   *)
UserFirst(c) == c # <<>> => c[1].role = "user"
FirstInv == /\ UserFirst(mem) /\ UserFirst(next)
            /\ \A k \in 0..Len(file) : UserFirst(Replay(SubSeq(file, 1, k)))
            /\ \A k \in 1..Len(lines) :
                 mem = <<>> /\ lines[k].type = "msg" => lines[k].msg.role = "user"

IInv == OperationInv /\ FileInv /\ PatchesApply /\ LengthInv /\ FirstInv
=============================================================================
