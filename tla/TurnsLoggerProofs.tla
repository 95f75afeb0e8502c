--------------------------- MODULE TurnsLoggerProofs ---------------------------
(***************************************************************************)
(* Proofs about TurnsLogger, for any number of goroutines, messages and    *)
(* failures and a channel of any capacity: the channel and the file are    *)
(* never used once closed, and a listener that ends has heard and stored   *)
(* what it owes, from one inductive invariant.                             *)
(***************************************************************************)
EXTENDS TurnsLogger, TLAPS

USE LoggerAssumption DEF lock, disk, counts, Working

IInv == TypeOK /\ LoggerInv

(* NewAsyncTurnsLogger: nothing is logged, nobody listens.                 *)
LEMMA IInvInit == Init => IInv
<1> SUFFICES ASSUME Init PROVE IInv
  OBVIOUS
<1>1. TypeOK
  <2>1. /\ sender \in [Producers -> {"idle", "sending"}]
        /\ listener \in [Listeners -> {"idle", "entering", "loop", "drain",
                                      "ended", "refused"}]
        /\ closer \in [Closers -> {"idle", "waiting", "returned"}]
    BY DEF Init
  <2>2. holds \in [Listeners -> BOOLEAN] /\ stopped \in [Listeners -> BOOLEAN]
    BY DEF Init
  <2>3. /\ due \in [Listeners -> Nat] /\ accepted \in Nat /\ received \in Nat
        /\ logged \in Nat /\ faults \in Nat /\ workers \in Nat
        /\ received <= accepted /\ accepted - received <= Capacity
    BY DEF Init
  <2>4. closed \in BOOLEAN /\ open \in BOOLEAN /\ file \in BOOLEAN /\ synced \in BOOLEAN
    BY DEF Init
  <2> QED BY <2>1, <2>2, <2>3, <2>4 DEF TypeOK
<1>2. Locked /\ Counted
  BY DEF Init, Locked, Counted
<1>3. Owed /\ OnDisk
  BY DEF Init, Owed, OnDisk, Queued
<1> QED BY <1>1, <1>2, <1>3 DEF IInv, LoggerInv

(* log takes the read lock and reads the flag.                             *)
LEMMA LogBeginStep ==
  ASSUME IInv, NEW p \in Producers, LogBegin(p) PROVE IInv'
<1> USE DEF IInv, LoggerInv
<1>1. TypeOK'
  BY DEF LogBegin, TypeOK
<1>2. Locked'
  BY DEF LogBegin, TypeOK, Locked
<1>3. Counted'
  BY DEF LogBegin, TypeOK, Counted
<1>4. Owed'
  BY DEF LogBegin, Queued, TypeOK, Owed
<1>5. OnDisk'
  BY DEF LogBegin, Queued, TypeOK, OnDisk
<1> QED BY <1>1, <1>2, <1>3, <1>4, <1>5

(* Under the read lock the channel cannot have been closed since.          *)
LEMMA LogSendStep ==
  ASSUME IInv, NEW p \in Producers, LogSend(p) PROVE IInv'
<1> USE DEF IInv, LoggerInv
<1>1. TypeOK'
  BY DEF LogSend, Queued, TypeOK
<1>2. Locked'
  BY DEF LogSend, Queued, TypeOK, Locked
<1>3. Counted'
  BY DEF LogSend, Queued, TypeOK, Counted
<1>4. Owed'
  BY DEF LogSend, Queued, TypeOK, Locked, Owed
<1>5. OnDisk'
  BY DEF LogSend, Queued, TypeOK, OnDisk
<1> QED BY <1>1, <1>2, <1>3, <1>4, <1>5

(* Listen reads the flag; it is the only listener.                         *)
LEMMA EnterStep ==
  ASSUME IInv, NEW l \in Listeners, Enter(l) PROVE IInv'
<1> USE DEF IInv, LoggerInv
<1>1. TypeOK'
  BY DEF Enter, Goto, TypeOK
<1>2. Locked'
  BY DEF Enter, Goto, TypeOK, Locked
<1>3. Counted'
  BY DEF Enter, Goto, TypeOK, Counted
<1>4. Owed'
  BY DEF Enter, Goto, Queued, TypeOK, Owed
<1>5. OnDisk'
  BY DEF Enter, Goto, Queued, TypeOK, OnDisk
<1> QED BY <1>1, <1>2, <1>3, <1>4, <1>5

(* From here a listener owes what the channel has accepted.                *)
LEMMA StopStep ==
  ASSUME IInv, NEW l \in Listeners, Stop(l) PROVE IInv'
<1> USE DEF IInv, LoggerInv
<1>1. TypeOK'
  BY DEF Stop, TypeOK
<1>2. Locked'
  BY DEF Stop, TypeOK, Locked
<1>3. Counted'
  BY DEF Stop, TypeOK, Counted
<1>4. Owed'
  BY DEF Stop, Queued, TypeOK, Owed
<1>5. OnDisk'
  BY DEF Stop, Queued, TypeOK, OnDisk
<1> QED BY <1>1, <1>2, <1>3, <1>4, <1>5

(* The wait group, at zero, counts the listener.                           *)
LEMMA JoinStep ==
  ASSUME IInv, NEW l \in Listeners, Join(l) PROVE IInv'
<1> USE DEF IInv, LoggerInv
<1>1. TypeOK'
  BY DEF Join, Goto, TypeOK
<1>2. Locked'
  BY DEF Join, Goto, TypeOK, Locked
<1>3. Counted'
  <2>1. \A k \in Listeners : listener[k] \notin Working
    BY DEF Join, TypeOK, Counted
  <2>2. workers = 0 /\ file
    BY <2>1 DEF Join, TypeOK, Locked, Counted
  <2>3. /\ workers' = 1 /\ listener' = [listener EXCEPT ![l] = "loop"]
        /\ UNCHANGED <<holds, file, closed>>
    BY <2>2 DEF Join, Goto
  <2> QED BY <2>1, <2>2, <2>3 DEF Join, TypeOK, Counted
<1>4. Owed'
  BY DEF Join, Goto, Queued, TypeOK, Owed
<1>5. OnDisk'
  BY DEF Join, Goto, Queued, TypeOK, OnDisk
<1> QED BY <1>1, <1>2, <1>3, <1>4, <1>5

(* A message is received: it is held until it is written.                  *)
LEMMA ReceiveStep ==
  ASSUME IInv, NEW l \in Listeners, Receive(l) PROVE IInv'
<1> USE DEF IInv, LoggerInv
<1>1. TypeOK'
  BY DEF Receive, Queued, TypeOK
<1>2. Locked'
  BY DEF Receive, Queued, TypeOK, Locked
<1>3. Counted'
  BY DEF Receive, Queued, TypeOK, Counted
<1>4. Owed'
  BY DEF Receive, Queued, TypeOK, Owed
<1>5. OnDisk'
  BY DEF Receive, Queued, TypeOK, OnDisk
<1> QED BY <1>1, <1>2, <1>3, <1>4, <1>5

(* What is not synced leaves a message to come, or a failure.              *)
LEMMA WriteStep ==
  ASSUME IInv, NEW l \in Listeners, Write(l) PROVE IInv'
<1> USE DEF IInv, LoggerInv
<1>1. TypeOK'
  <2>1. holds' \in [Listeners -> BOOLEAN]
    BY DEF Write, TypeOK
  <2>2. faults' \in Nat
    BY DEF Write, Fails, TypeOK
  <2>4. synced' \in BOOLEAN
    BY Zenon DEF Write, TypeOK
  <2>3. UNCHANGED <<lock, sender, listener, stopped, workers, closer, file, counts, due>>
    BY DEF Write
  <2> QED BY <2>1, <2>2, <2>3, <2>4 DEF TypeOK
<1>2. Locked'
  BY DEF Write, Queued, Fails, TypeOK, Locked
<1>3. Counted'
  BY DEF Write, Queued, Fails, TypeOK, Counted
<1>4. Owed'
  BY DEF Write, Queued, Fails, TypeOK, Owed
<1>5. OnDisk'
  <2>1. /\ UNCHANGED <<listener, accepted, received>>
        /\ listener[l] \in Working /\ holds' = [holds EXCEPT ![l] = FALSE]
    BY DEF Write, Counted
  <2>2. CASE faults' = faults + 1
    BY <2>2 DEF TypeOK, OnDisk
  <2>3. CASE synced' = TRUE
    BY <2>3 DEF OnDisk
  <2>4. CASE listener[l] = "drain" \/ Queued > 0
    BY <2>1, <2>4 DEF OnDisk, Queued
  <2> QED BY <2>2, <2>3, <2>4 DEF Write, Fails
<1> QED BY <1>1, <1>2, <1>3, <1>4, <1>5

(* Only a cancelled listener drains.                                       *)
LEMMA CancelledStep ==
  ASSUME IInv, NEW l \in Listeners, Cancelled(l) PROVE IInv'
<1> USE DEF IInv, LoggerInv
<1>1. TypeOK'
  BY DEF Cancelled, Goto, TypeOK
<1>2. Locked'
  BY DEF Cancelled, Goto, TypeOK, Locked
<1>3. Counted'
  BY DEF Cancelled, Goto, TypeOK, Counted
<1>4. Owed'
  BY DEF Cancelled, Goto, Queued, TypeOK, Owed
<1>5. OnDisk'
  BY DEF Cancelled, Goto, Queued, TypeOK, OnDisk
<1> QED BY <1>1, <1>2, <1>3, <1>4, <1>5

(* The channel is empty: everything accepted is received.                  *)
LEMMA DrainedStep ==
  ASSUME IInv, NEW l \in Listeners, Drained(l) PROVE IInv'
<1> USE DEF IInv, LoggerInv
<1>1. TypeOK'
  <2>1. workers = 1
    BY DEF Drained, TypeOK, Counted
  <2>2. faults' \in Nat
    BY DEF Drained, Fails, TypeOK
  <2>3. synced' \in BOOLEAN
    BY Zenon DEF Drained, TypeOK
  <2>4. /\ listener' = [listener EXCEPT ![l] = "ended"] /\ workers' = 0
        /\ UNCHANGED <<lock, sender, holds, stopped, closer, file, counts, due>>
    BY <2>1 DEF Drained, Return, Goto
  <2> QED BY <2>2, <2>3, <2>4 DEF TypeOK
<1>2. Locked'
  BY DEF Drained, Queued, Fails, Return, Goto, TypeOK, Locked
<1>3. Counted'
  BY DEF Drained, Queued, Fails, Return, Goto, TypeOK, Counted
<1>4. Owed'
  BY DEF Drained, Queued, Fails, Return, Goto, TypeOK, Owed
<1>5. OnDisk'
  BY DEF Drained, Queued, Fails, Return, Goto, TypeOK, OnDisk
<1> QED BY <1>1, <1>2, <1>3, <1>4, <1>5

(* As the loop has nothing to come, what it wrote is synced.               *)
LEMMA ChannelEndedStep ==
  ASSUME IInv, NEW l \in Listeners, ChannelEnded(l) PROVE IInv'
<1> USE DEF IInv, LoggerInv
<1>1. TypeOK'
  <2>1. workers = 1
    BY DEF ChannelEnded, TypeOK, Counted
  <2> QED BY <2>1 DEF ChannelEnded, Queued, Return, Goto, TypeOK
<1>2. Locked'
  BY DEF ChannelEnded, Queued, Return, Goto, TypeOK, Locked
<1>3. Counted'
  BY DEF ChannelEnded, Queued, Return, Goto, TypeOK, Counted
<1>4. Owed'
  <2>a. accepted = received
    BY DEF ChannelEnded, Queued, TypeOK
  <2>b. closed
    BY Zenon DEF ChannelEnded, TypeOK, Locked
  <2>1. closed /\ accepted = received
    BY <2>a, <2>b
  <2>2. /\ listener' = [listener EXCEPT ![l] = "ended"]
        /\ UNCHANGED <<closed, stopped, accepted, received, due>>
    BY DEF ChannelEnded, Return, Goto
  <2> QED BY <2>1, <2>2 DEF TypeOK, Owed, Queued
<1>5. OnDisk'
  BY DEF ChannelEnded, Queued, Return, Goto, TypeOK, OnDisk
<1> QED BY <1>1, <1>2, <1>3, <1>4, <1>5

(* No holder of the read lock is left when the channel is closed.          *)
LEMMA CloseStep ==
  ASSUME IInv, NEW c \in Closers, Close(c) PROVE IInv'
<1> USE DEF IInv, LoggerInv
<1>1. TypeOK'
  BY DEF Close, ReadHeld, TypeOK
<1>2. Locked'
  BY DEF Close, ReadHeld, TypeOK, Locked
<1>3. Counted'
  BY DEF Close, ReadHeld, TypeOK, Counted
<1>4. Owed'
  BY DEF Close, ReadHeld, Queued, TypeOK, Owed
<1>5. OnDisk'
  BY DEF Close, ReadHeld, Queued, TypeOK, OnDisk
<1> QED BY <1>1, <1>2, <1>3, <1>4, <1>5

(* The wait group is at zero: nobody has the file.                         *)
LEMMA CloseFileStep ==
  ASSUME IInv, NEW c \in Closers, CloseFile(c) PROVE IInv'
<1> USE DEF IInv, LoggerInv
<1>1. TypeOK'
  BY DEF CloseFile, TypeOK
<1>2. Locked'
  BY DEF CloseFile, TypeOK, Locked
<1>3. Counted'
  BY DEF CloseFile, TypeOK, Locked, Counted
<1>4. Owed'
  BY DEF CloseFile, Queued, TypeOK, Owed
<1>5. OnDisk'
  BY DEF CloseFile, Queued, TypeOK, OnDisk
<1> QED BY <1>1, <1>2, <1>3, <1>4, <1>5

(* Each action, and a step that changes nothing, keeps the invariant.      *)
LEMMA IInvStep == IInv /\ [Next]_vars => IInv'
<1> SUFFICES ASSUME IInv, [Next]_vars PROVE IInv'
  OBVIOUS
<1>1. ASSUME NEW p \in Producers, LogBegin(p) \/ LogSend(p) PROVE IInv'
  BY <1>1, LogBeginStep, LogSendStep
<1>2. ASSUME NEW l \in Listeners, Enter(l) \/ Stop(l) PROVE IInv'
  BY <1>2, EnterStep, StopStep
<1>3. ASSUME NEW l \in Listeners, Listen(l) PROVE IInv'
  BY <1>3, JoinStep, ReceiveStep, WriteStep, CancelledStep, DrainedStep,
     ChannelEndedStep DEF Listen
<1>4. ASSUME NEW c \in Closers, Close(c) \/ CloseFile(c) PROVE IInv'
  BY <1>4, CloseStep, CloseFileStep
<1>5. ASSUME UNCHANGED vars PROVE IInv'
  BY <1>5 DEF IInv, TypeOK, LoggerInv, Locked, Counted, Owed, OnDisk, Queued, vars
<1> QED BY <1>1, <1>2, <1>3, <1>4, <1>5 DEF Next

-----------------------------------------------------------------------------
(* The values the logger's state takes, and the invariant about the lock,  *)
(* the wait group, what a listener owes and what is on the disk, hold in   *)
(* every reachable state.                                                  *)
THEOREM InvCorrect == Spec => [](TypeOK /\ LoggerInv)
<1>1. IInv /\ [Next]_vars => IInv'
  BY IInvStep
<1> QED BY IInvInit, <1>1, PTL DEF Spec, IInv

(* Nobody sends to the closed channel or writes to the closed file.        *)
THEOREM UseIsSafe == Spec => []SafeUse
<1>1. TypeOK /\ LoggerInv => SafeUse
  BY DEF TypeOK, LoggerInv, Locked, Counted, SafeUse
<1> QED BY InvCorrect, <1>1, PTL

(* A listener that has ended has received all it had to, and what was      *)
(* written is on the disk unless a write or a sync failed.                 *)
THEOREM EndedHasHeard == Spec => []Heard
<1>1. TypeOK /\ LoggerInv => Heard
  BY DEF LoggerInv, Owed, OnDisk, Heard
<1> QED BY InvCorrect, <1>1, PTL
=============================================================================
