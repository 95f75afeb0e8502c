----------------------------- MODULE TurnsLogger -----------------------------
(***************************************************************************)
(* The log of turns (internal/infrastructure/logging): events become       *)
(* messages in a bounded channel, a listener writes them to a file.  A     *)
(* chat runs one listener and cancels it when the engine is done; the      *)
(* agent's shutdown and the container's cleanup both close the logger.     *)
(* The engine, tools that run in parallel or were abandoned, and the end   *)
(* of the chat log at any time, also when nobody listens.                  *)
(*                                                                         *)
(* What a message says is left out: messages are counted, in the order in  *)
(* which the channel accepted them.                                        *)
(***************************************************************************)
EXTENDS Naturals

CONSTANTS
  Producers,    \* goroutines that publish events
  Listeners,    \* chats, each with its own call of Listen
  Closers,      \* callers of Close
  Capacity,     \* room in the channel
  MaxMessages,  \* bound: messages that are logged
  MaxFaults     \* bound: writes and syncs that fail

ASSUME LoggerAssumption ==
  Capacity \in Nat \ {0} /\ MaxMessages \in Nat /\ MaxFaults \in Nat

VARIABLES
  closed,    \* the flag
  open,      \* whether the channel is open
  sender,    \* sender[p]: "idle", "sending" (holds the read lock)
  listener,  \* listener[l]: "idle", "entering" (holds the read lock), "loop",
             \* "drain", "ended", or "refused" by a closed logger
  holds,     \* holds[l]: l has received a message and not yet written it
  synced,    \* every written message is on the disk
  stopped,   \* stopped[l]: the context of l is done
  workers,   \* the wait group
  closer,    \* closer[c]: "idle", "waiting", "returned"
  file,      \* whether the file is open
  accepted,  \* messages the channel has accepted
  received,  \* messages a listener has received
  logged,    \* calls of log
  faults,    \* operations on the file that failed
  due        \* due[l]: what the channel had accepted when l was told to stop,
             \* by its context or by Close

lock    == <<closed, open>>
disk    == <<file, synced, faults>>
counts  == <<accepted, received, logged>>
vars    == <<lock, sender, listener, holds, stopped, workers, closer, disk,
             counts, due>>

Queued   == accepted - received
ReadHeld == \/ \E p \in Producers : sender[p] = "sending"
            \/ \E l \in Listeners : listener[l] = "entering"

Init ==
  /\ closed = FALSE /\ open = TRUE
  /\ sender = [p \in Producers |-> "idle"]
  /\ listener = [l \in Listeners |-> "idle"] /\ holds = [l \in Listeners |-> FALSE]
  /\ stopped = [l \in Listeners |-> FALSE] /\ workers = 0
  /\ closer = [c \in Closers |-> "idle"]
  /\ file = TRUE /\ synced = TRUE /\ faults = 0
  /\ accepted = 0 /\ received = 0 /\ logged = 0
  /\ due = [l \in Listeners |-> 0]

-----------------------------------------------------------------------------
(* log: under the read lock, the flag is read and the message is sent if   *)
(* there is room.                                                          *)

LogBegin(p) ==
  /\ sender[p] = "idle" /\ logged < MaxMessages /\ logged' = logged + 1
  /\ sender' = [sender EXCEPT ![p] = IF closed THEN "idle" ELSE "sending"]
  /\ UNCHANGED <<lock, listener, holds, stopped, workers, closer, disk, accepted,
                 received, due>>

(* A send on a closed channel panics: SafeUse says that it does not happen. *)
LogSend(p) ==
  /\ sender[p] = "sending"
  /\ sender' = [sender EXCEPT ![p] = "idle"]
  /\ accepted' = IF Queued < Capacity THEN accepted + 1 ELSE accepted
  /\ UNCHANGED <<lock, listener, holds, stopped, workers, closer, disk, received,
                 logged, due>>

-----------------------------------------------------------------------------
(* Listen.                                                                 *)

Goto(l, p) == listener' = [listener EXCEPT ![l] = p]

(* A chat starts its listener once the one before it has ended.            *)
Enter(l) ==
  /\ listener[l] = "idle"
  /\ \A k \in Listeners : listener[k] \in {"idle", "ended", "refused"}
  /\ Goto(l, IF closed THEN "refused" ELSE "entering")
  /\ UNCHANGED <<lock, sender, holds, stopped, workers, closer, disk, counts, due>>

Join(l) ==
  /\ listener[l] = "entering" /\ Goto(l, "loop") /\ workers' = workers + 1
  /\ UNCHANGED <<lock, sender, holds, stopped, closer, disk, counts, due>>

(* The engine has returned: the context of the listener is cancelled.      *)
Stop(l) ==
  /\ ~stopped[l] /\ stopped' = [stopped EXCEPT ![l] = TRUE]
  /\ due' = [due EXCEPT ![l] = accepted]
  /\ UNCHANGED <<lock, sender, listener, holds, workers, closer, disk, counts>>

(* With a message and the cancellation both ready either is taken.         *)
Receive(l) ==
  /\ listener[l] \in {"loop", "drain"} /\ ~holds[l] /\ Queued > 0
  /\ received' = received + 1
  /\ holds' = [holds EXCEPT ![l] = TRUE]
  /\ UNCHANGED <<lock, sender, listener, stopped, workers, closer, disk, accepted,
                 logged, due>>

Fails == faults < MaxFaults /\ faults' = faults + 1

(* processMessage syncs when it finds the channel empty; drainAndSync       *)
(* leaves that to its end.                                                 *)
Write(l) ==
  /\ holds[l] /\ holds' = [holds EXCEPT ![l] = FALSE]
  /\ \/ Fails /\ UNCHANGED synced
     \/ /\ listener[l] = "drain" \/ Queued > 0
        /\ synced' = FALSE /\ UNCHANGED faults
     \/ /\ listener[l] = "loop" /\ Queued = 0
        /\ \/ synced' = TRUE /\ UNCHANGED faults
           \/ synced' = FALSE /\ Fails
  /\ UNCHANGED <<lock, sender, listener, stopped, workers, closer, file, counts, due>>

Return(l) == Goto(l, "ended") /\ workers' = workers - 1

(* Mutant: a cancelled listener returns at once.                           *)
Cancelled_NoDrain(l) ==
  /\ listener[l] = "loop" /\ ~holds[l] /\ stopped[l] /\ Return(l)
  /\ UNCHANGED <<lock, sender, holds, stopped, closer, disk, counts, due>>

Cancelled(l) ==
  /\ listener[l] = "loop" /\ ~holds[l] /\ stopped[l] /\ Goto(l, "drain")
  /\ UNCHANGED <<lock, sender, holds, stopped, workers, closer, disk, counts, due>>

(* syncAfterDrain, once the channel is empty.                              *)
Drained(l) ==
  /\ listener[l] = "drain" /\ ~holds[l] /\ Queued = 0 /\ Return(l)
  /\ \/ synced' = TRUE /\ UNCHANGED faults
     \/ Fails /\ UNCHANGED synced
  /\ UNCHANGED <<lock, sender, holds, stopped, closer, file, counts, due>>

(* The channel is closed and empty: the loop returns without a sync.       *)
ChannelEnded(l) ==
  /\ listener[l] = "loop" /\ ~holds[l] /\ Queued = 0 /\ ~open /\ Return(l)
  /\ UNCHANGED <<lock, sender, holds, stopped, closer, disk, counts, due>>

-----------------------------------------------------------------------------
(* Close.                                                                  *)

(* Under the write lock; only the first caller closes.                     *)
(* Mutants: the lock is not taken; the channel is left open.               *)
Close_Unlocked(c) ==
  /\ closer[c] = "idle"
  /\ closer' = [closer EXCEPT ![c] = IF closed THEN "returned" ELSE "waiting"]
  /\ closed' = TRUE /\ open' = FALSE
  /\ due' = [l \in Listeners |->
              IF ~closed /\ listener[l] = "loop" THEN accepted ELSE due[l]]
  /\ UNCHANGED <<sender, listener, holds, stopped, workers, disk, counts>>
Close_LeftOpen(c) ==
  /\ closer[c] = "idle" /\ ~ReadHeld
  /\ closer' = [closer EXCEPT ![c] = IF closed THEN "returned" ELSE "waiting"]
  /\ closed' = TRUE /\ UNCHANGED open
  /\ UNCHANGED <<sender, listener, holds, stopped, workers, disk, counts, due>>

Close(c) ==
  /\ closer[c] = "idle" /\ ~ReadHeld
  /\ closer' = [closer EXCEPT ![c] = IF closed THEN "returned" ELSE "waiting"]
  /\ closed' = TRUE /\ open' = FALSE
  /\ due' = [l \in Listeners |->
              IF ~closed /\ listener[l] = "loop" THEN accepted ELSE due[l]]
  /\ UNCHANGED <<sender, listener, holds, stopped, workers, disk, counts>>

CloseFile(c) ==
  /\ closer[c] = "waiting" /\ workers = 0
  /\ closer' = [closer EXCEPT ![c] = "returned"]
  /\ file' = FALSE
  /\ UNCHANGED <<lock, sender, listener, holds, stopped, workers, synced, faults,
                 counts, due>>

Listen(l) ==
  Join(l) \/ Receive(l) \/ Write(l) \/ Cancelled(l) \/ Drained(l) \/ ChannelEnded(l)

Next ==
  \/ \E p \in Producers : LogBegin(p) \/ LogSend(p)
  \/ \E l \in Listeners : Enter(l) \/ Stop(l) \/ Listen(l)
  \/ \E c \in Closers : Close(c) \/ CloseFile(c)

(* The goroutines run; nothing has to be logged, cancelled or closed, and  *)
(* a listener need not be started.                                         *)
Fairness ==
  /\ \A p \in Producers : WF_vars(LogSend(p))
  /\ \A l \in Listeners : WF_vars(Listen(l))
  /\ \A c \in Closers : WF_vars(CloseFile(c))

Spec == Init /\ [][Next]_vars /\ Fairness

-----------------------------------------------------------------------------
(* What must hold.                                                         *)

TypeOK ==
  /\ closed \in BOOLEAN /\ open \in BOOLEAN /\ file \in BOOLEAN /\ synced \in BOOLEAN
  /\ sender \in [Producers -> {"idle", "sending"}]
  /\ listener \in [Listeners -> {"idle", "entering", "loop", "drain", "ended", "refused"}]
  /\ holds \in [Listeners -> BOOLEAN] /\ stopped \in [Listeners -> BOOLEAN]
  /\ workers \in Nat
  /\ closer \in [Closers -> {"idle", "waiting", "returned"}]
  /\ accepted \in Nat /\ received \in Nat /\ logged \in Nat /\ faults \in Nat
  /\ due \in [Listeners -> Nat]
  /\ received <= accepted /\ accepted - received <= Capacity

(* Nobody sends to the closed channel, which would panic, and nobody       *)
(* writes to the closed file, which would lose the message: the flag, the  *)
(* lock around it and the wait group keep Close and everybody else apart.  *)
SafeUse ==
  /\ \A p \in Producers : sender[p] = "sending" => open
  /\ \A l \in Listeners : listener[l] \in {"loop", "drain"} => file

(* A listener that has ended, after it was cancelled or the logger was     *)
(* closed, has received all that the channel had accepted by then, and     *)
(* what it wrote is on the disk unless the file failed: neither the random *)
(* choice between a message and the cancellation, nor the length of the    *)
(* channel that decides on the sync, leaves anything behind.               *)
Heard ==
  \A l \in Listeners : listener[l] = "ended" =>
    /\ received >= due[l]
    /\ synced \/ faults > 0 \/ \E k \in Listeners : listener[k] \in {"loop", "drain"}

(* Close returns, whoever still logs or listens.                           *)
CloseReturns == \A c \in Closers : closer[c] = "waiting" ~> closer[c] = "returned"
-----------------------------------------------------------------------------
(* The inductive invariant behind SafeUse and Heard.                       *)

Working == {"loop", "drain"}  \* between the Add and the Done of the wait group

(* The flag, the channel and whoever holds the read lock: a holder of the  *)
(* lock has seen the flag down, and Close cannot raise it meanwhile.       *)
Locked ==
  /\ open = ~closed
  /\ \A p \in Producers : sender[p] = "sending" => ~closed
  /\ \A l \in Listeners : listener[l] = "entering" => ~closed
  /\ \A c \in Closers : closer[c] = "waiting" => closed

(* The wait group counts the one listener at work, who has the file.       *)
Counted ==
  /\ \A k, l \in Listeners :
       {listener[k], listener[l]} \subseteq Working \cup {"entering"} => k = l
  /\ workers = IF \E l \in Listeners : listener[l] \in Working THEN 1 ELSE 0
  /\ \A l \in Listeners : holds[l] => listener[l] \in Working
  /\ ~file => closed /\ \A l \in Listeners : listener[l] \notin Working

(* What a listener owes.                                                   *)
Owed ==
  \A l \in Listeners :
    /\ due[l] <= accepted
    /\ listener[l] = "drain" => stopped[l]
    /\ listener[l] = "ended" => received >= due[l]
    /\ listener[l] = "ended" /\ ~stopped[l] => closed /\ Queued = 0

(* Only a listener that holds or still expects a message leaves the file   *)
(* unsynced.                                                               *)
OnDisk ==
  \/ synced \/ faults > 0
  \/ \E l \in Listeners : \/ listener[l] = "drain"
                          \/ listener[l] = "loop" /\ (holds[l] \/ Queued > 0)

LoggerInv == Locked /\ Counted /\ Owed /\ OnDisk
=============================================================================
