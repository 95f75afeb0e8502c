------------------------------ MODULE UIBridge ------------------------------
(***************************************************************************)
(* The bridge between the engine and the terminal                          *)
(* (internal/agent/session/ui), from the session's setup to the end of     *)
(* teardownSession: events are published with a deadline of their own      *)
(* (SafePublish) on a synchronous bus whose subscriber is HandleEvent; a   *)
(* bounded channel leads to the goroutine of Listen, which renders.        *)
(*                                                                         *)
(* Two goroutines publish: the engine, while Chat runs, and a tool, which  *)
(* may have been abandoned and outlive it.                                 *)
(***************************************************************************)
EXTENDS Integers, Sequences, Functions

CONSTANTS Capacity,   \* queueCapacity
          MaxEvents   \* bound: events published

ASSUME BridgeAssumption == Capacity \in Nat \ {0} /\ MaxEvents \in Nat

Events    == 1..MaxEvents   \* in the order in which they are published
Producers == {"engine", "tool"}

VARIABLES
  main,       \* sessionManager.Run: "setup", "chat", "shutdown", "close",
              \* "closing", "wait", "grace", "done"
  busClosed,  \* SimpleEventBus.closed
  flagged,    \* eventQueue.isClosed
  closed,     \* eventQueue.ch is closed
  killed,     \* Cleanup cancelled the context of Listen
  timedOut,   \* the timer of Cleanup fired
  queue,      \* eventQueue.ch
  listener,   \* Listen: "unborn", "spawned", "select", "render", "drain",
              \* "drainRender", "leaving", "ended"; "never": AbortStart
  current,    \* the event it renders, or 0
  dead,       \* loopCtx is done
  panicked,   \* the renderer panicked
  rendered,   \* events rendered
  producer,   \* "idle", "bus", "guards", "send"
  expired,    \* the context of SafePublish is done
  published,  \* events published so far
  event,      \* event[p]: what p is publishing, or 0
  critical,   \* isCriticalEvent
  from,       \* who published it
  outcome     \* of HandleEvent: "none", "accepted", "shed", "lost", "expired",
              \* "dead"; of Publish: "refused"

session  == <<main, busClosed, flagged, closed, killed, timedOut>>
listen   == <<listener, current, dead, panicked, rendered>>
catalog  == <<published, critical, from>>
publish  == <<producer, event, expired, outcome>>
vars     == <<session, queue, listen, catalog, publish>>

SessionType ==
  /\ main \in {"setup", "chat", "shutdown", "close", "closing", "wait",
               "grace", "done"}
  /\ busClosed \in BOOLEAN /\ flagged \in BOOLEAN /\ closed \in BOOLEAN
  /\ killed \in BOOLEAN /\ timedOut \in BOOLEAN

ListenType ==
  /\ queue \in Seq(Events) /\ Len(queue) <= Capacity
  /\ listener \in {"unborn", "spawned", "select", "render", "drain",
                   "drainRender", "leaving", "ended", "never"}
  /\ current \in Events \cup {0}
  /\ listener \in {"render", "drainRender"} => current # 0
  /\ dead \in BOOLEAN /\ panicked \in BOOLEAN
  /\ rendered \in Seq(Events)

PublishType ==
  /\ producer \in [Producers -> {"idle", "bus", "guards", "send"}]
  /\ event \in [Producers -> Events \cup {0}]
  /\ \A p \in Producers : producer[p] # "idle" => event[p] # 0
  /\ expired \in [Producers -> BOOLEAN]

CatalogType ==
  /\ published \in 0..MaxEvents
  /\ critical \in [Events -> BOOLEAN]
  /\ from \in [Events -> Producers]
  /\ outcome \in [Events -> {"none", "accepted", "shed", "lost", "expired",
                             "dead", "refused"}]

(* Types: in particular the channel never holds more than its capacity.    *)
TypeOK == SessionType /\ ListenType /\ PublishType /\ CatalogType

Init ==
  /\ main = "setup" /\ busClosed = FALSE /\ flagged = FALSE /\ closed = FALSE
  /\ killed = FALSE /\ timedOut = FALSE
  /\ queue = <<>>
  /\ listener = "unborn" /\ current = 0 /\ dead = FALSE /\ panicked = FALSE
  /\ rendered = <<>>
  /\ producer = [p \in Producers |-> "idle"]
  /\ expired = [p \in Producers |-> FALSE]
  /\ published = 0 /\ event = [p \in Producers |-> 0]
  /\ critical = [e \in Events |-> FALSE]
  /\ from = [e \in Events |-> "engine"]
  /\ outcome = [e \in Events |-> "none"]

-----------------------------------------------------------------------------
(* Publishing.                                                             *)

(* SafePublish, up to the check of the bus.  The engine publishes only     *)
(* while Chat runs; tools run once it has begun, and may outlive it.       *)
Publish(p) ==
  /\ producer[p] = "idle" /\ published < MaxEvents
  /\ main = "chat" \/ (p = "tool" /\ main # "setup" /\ listener # "never")
  /\ LET e == published + 1 IN
     /\ published' = e
     /\ \E c \in BOOLEAN : critical' = [critical EXCEPT ![e] = c]
     /\ from' = [from EXCEPT ![e] = p]
     /\ IF busClosed
        THEN /\ outcome' = [outcome EXCEPT ![e] = "refused"]
             /\ UNCHANGED <<producer, event>>
        ELSE /\ producer' = [producer EXCEPT ![p] = "bus"]
             /\ event' = [event EXCEPT ![p] = e]
             /\ UNCHANGED outcome
  /\ UNCHANGED <<session, queue, listen, expired>>

Return(p, o) == /\ outcome' = [outcome EXCEPT ![event[p]] = o]
                /\ producer' = [producer EXCEPT ![p] = "idle"]
                /\ expired' = [expired EXCEPT ![p] = FALSE]
                /\ event' = [event EXCEPT ![p] = 0]
Proceed(p, pc) == /\ producer' = [producer EXCEPT ![p] = pc]
                  /\ UNCHANGED <<expired, event, outcome>>

(* HandleEvent looks at isClosed ...                                       *)
HandleEvent(p) ==
  /\ producer[p] = "bus"
  /\ IF flagged THEN Return(p, "shed") ELSE Proceed(p, "guards")
  /\ UNCHANGED <<session, queue, listen, catalog>>

(* ... then at the caller's context, then at the actor's.                  *)
Guards(p) ==
  /\ producer[p] = "guards"
  /\ CASE expired[p]          -> Return(p, "expired")
       [] ~expired[p] /\ dead -> Return(p, "dead")
       [] OTHER               -> Proceed(p, "send")
  /\ UNCHANGED <<session, queue, listen, catalog>>

HasRoom == Len(queue) < Capacity

Accept(p) ==
  /\ producer[p] = "send" /\ ~closed /\ HasRoom
  /\ queue' = Append(queue, event[p])
  /\ Return(p, "accepted")
  /\ UNCHANGED <<session, listen, catalog>>

(* A send on the closed channel panics; HandleEvent recovers, returns nil. *)
SendPanic(p) ==
  /\ producer[p] = "send" /\ closed
  /\ Return(p, "lost")
  /\ UNCHANGED <<session, queue, listen, catalog>>

(* Mutant: a full queue sheds every event.                                 *)
Shed_Any(p) ==
  /\ producer[p] = "send" /\ ~closed /\ ~HasRoom
  /\ Return(p, "shed")
  /\ UNCHANGED <<session, queue, listen, catalog>>

(* A full queue sheds an event that is not critical ...                    *)
Shed(p) ==
  /\ producer[p] = "send" /\ ~critical[event[p]] /\ ~closed /\ ~HasRoom
  /\ Return(p, "shed")
  /\ UNCHANGED <<session, queue, listen, catalog>>

(* Mutant: a blocked send does not watch the caller's context.             *)
SeeExpired_Never(p) == FALSE /\ UNCHANGED vars

(* ... while a critical one waits, also for the two contexts.  With more   *)
(* than one case of the select ready, any may be taken.                    *)
SeeExpired(p) ==
  /\ producer[p] = "send" /\ critical[event[p]] /\ expired[p]
  /\ Return(p, "expired")
  /\ UNCHANGED <<session, queue, listen, catalog>>

SeeDead(p) ==
  /\ producer[p] = "send" /\ critical[event[p]] /\ dead
  /\ Return(p, "dead")
  /\ UNCHANGED <<session, queue, listen, catalog>>

Producer(p) == \/ HandleEvent(p) \/ Guards(p) \/ Accept(p) \/ SendPanic(p)
               \/ Shed(p) \/ SeeExpired(p) \/ SeeDead(p)

(* The two seconds of SafePublish pass.                                    *)
Expire(p) ==
  /\ producer[p] # "idle" /\ ~expired[p]
  /\ expired' = [expired EXCEPT ![p] = TRUE]
  /\ UNCHANGED <<session, queue, listen, catalog, producer, event, outcome>>

-----------------------------------------------------------------------------
(* Listen.                                                                 *)

Start ==
  /\ listener = "spawned"
  /\ listener' = "select"
  /\ UNCHANGED <<session, queue, current, dead, panicked, rendered, catalog,
                 publish>>

(* An event is taken by the loop, or by drainRemainingEvents.              *)
Receive ==
  /\ listener \in {"select", "drain"} /\ queue # <<>>
  /\ current' = Head(queue) /\ queue' = Tail(queue)
  /\ listener' = IF listener = "select" THEN "render" ELSE "drainRender"
  /\ UNCHANGED <<session, dead, panicked, rendered, catalog, publish>>

Rendered ==
  /\ listener \in {"render", "drainRender"}
  /\ rendered' = Append(rendered, current) /\ current' = 0
  /\ listener' = IF listener = "render" THEN "select" ELSE "drain"
  /\ UNCHANGED <<session, queue, dead, panicked, catalog, publish>>

(* The deferred loopCancel; wg.Done follows.                               *)
LeaveLoop == /\ listener' = "leaving" /\ dead' = TRUE /\ current' = 0
             /\ UNCHANGED <<session, queue, rendered, catalog, publish>>

RenderPanic ==
  /\ listener \in {"render", "drainRender"}
  /\ panicked' = TRUE
  /\ LeaveLoop

(* Mutant: a cancelled loop leaves at once.                                *)
SeeKilled_NoDrain ==
  /\ listener = "select" /\ killed
  /\ UNCHANGED panicked
  /\ LeaveLoop

SeeKilled ==
  /\ listener = "select" /\ killed
  /\ listener' = "drain"
  /\ UNCHANGED <<session, queue, current, dead, panicked, rendered, catalog,
                 publish>>

SeeClosed ==
  /\ listener = "select" /\ closed /\ queue = <<>>
  /\ UNCHANGED panicked
  /\ LeaveLoop

Drained ==
  /\ listener = "drain" /\ queue = <<>>
  /\ UNCHANGED panicked
  /\ LeaveLoop

WorkerDone ==
  /\ listener = "leaving"
  /\ listener' = "ended"
  /\ UNCHANGED <<session, queue, current, dead, panicked, rendered, catalog,
                 publish>>

Listener == Start \/ Receive \/ SeeKilled \/ SeeClosed \/ Drained \/ WorkerDone
Renderer == Rendered \/ RenderPanic

-----------------------------------------------------------------------------
(* The session: Run and teardownSession.                                   *)

Move(to) == /\ main' = to
            /\ UNCHANGED <<queue, current, dead, panicked, rendered, catalog,
                           publish>>

Listen ==
  /\ main = "setup" /\ listener' = "spawned"
  /\ Move("chat")
  /\ UNCHANGED <<busClosed, flagged, closed, killed, timedOut>>

(* applyConfiguration failed: Listen is not called.                        *)
AbortStart ==
  /\ main = "setup" /\ listener' = "never"
  /\ Move("shutdown")
  /\ UNCHANGED <<busClosed, flagged, closed, killed, timedOut>>

(* Chat returns when Run has, hence between two events of the engine.      *)
ChatReturns ==
  /\ main = "chat" /\ producer["engine"] = "idle"
  /\ Move("shutdown")
  /\ UNCHANGED <<busClosed, flagged, closed, killed, timedOut, listener>>

(* agent.Shutdown.                                                         *)
Shutdown ==
  /\ main = "shutdown" /\ busClosed' = TRUE
  /\ Move("close")
  /\ UNCHANGED <<flagged, closed, killed, timedOut, listener>>

(* closeInput, in two steps.                                               *)
Flag ==
  /\ main = "close" /\ flagged' = TRUE
  /\ Move("closing")
  /\ UNCHANGED <<busClosed, closed, killed, timedOut, listener>>

Close ==
  /\ main = "closing" /\ closed' = TRUE
  /\ Move("wait")
  /\ UNCHANGED <<busClosed, flagged, killed, timedOut, listener>>

(* Mutant: Cleanup does not wait for the worker.                           *)
WorkersDone_Unasked == TRUE

WorkersDone == listener \in {"ended", "never"}

Cleaned ==
  /\ main \in {"wait", "grace"} /\ WorkersDone
  /\ Move("done")
  /\ UNCHANGED <<busClosed, flagged, closed, killed, timedOut, listener>>

(* The timer of Cleanup; Bridge.cancel is set by Listen itself.            *)
CleanupTimeout ==
  /\ main = "wait"
  /\ timedOut' = TRUE
  /\ killed' = (listener \notin {"spawned", "never"})
  /\ Move("grace")
  /\ UNCHANGED <<busClosed, flagged, closed, listener>>

GraceOver ==
  /\ main = "grace"
  /\ Move("done")
  /\ UNCHANGED <<busClosed, flagged, closed, killed, timedOut, listener>>

Teardown == \/ Shutdown \/ Flag \/ Close \/ Cleaned \/ CleanupTimeout
            \/ GraceOver

Done == main = "done" /\ UNCHANGED vars

Next == \/ Listen \/ AbortStart \/ ChatReturns \/ Teardown
        \/ Listener \/ Renderer
        \/ \E p \in Producers : Publish(p) \/ Producer(p) \/ Expire(p)
        \/ Done

(* Goroutines run and timers fire; nothing makes the renderer return.      *)
Fairness == /\ WF_vars(Teardown) /\ WF_vars(Listener)
            /\ \A p \in Producers : WF_vars(Producer(p)) /\ WF_vars(Expire(p))

Spec     == Init /\ [][Next]_vars
FairSpec == Spec /\ Fairness

-----------------------------------------------------------------------------
(* Properties                                                              *)

Accepted == {e \in Events : outcome[e] = "accepted"}

(* Once Listen has ended, and when teardown returns in time, everything    *)
(* that was accepted is on the screen, from whichever goroutine and        *)
(* however late it came, unless the renderer panicked.                     *)
AcceptedShown ==
  /\ ~panicked
  /\ listener = "ended" \/ (main = "done" /\ ~timedOut /\ listener # "never")
  => Accepted \subseteq Range(rendered)

(* What EventChannel sees of the bridge.  Its end is that of Listen, or    *)
(* that of a teardown which did not have to give up on Listen.             *)
Pending == IF current = 0 THEN queue ELSE <<current>> \o queue
Over    == listener = "ended" \/ (main = "done" /\ ~timedOut)
Fate    == IF panicked THEN "broken" ELSE IF Over THEN "over" ELSE "showing"

Channel == INSTANCE EventChannel WITH accepted <- Accepted, pending <- Pending,
                         shown <- rendered, fate <- Fate, Limit <- Capacity

(* The bridge is such a channel: what its publishers, the listener and the *)
(* teardown do, in whatever order, shows what was accepted in the order in *)
(* which it was, each event once, and ends with nothing left in it.        *)
ImplementsChannel == Channel!Spec

(* A critical event of the engine is never lost in silence: it is queued,  *)
(* or the engine waited two seconds for room, or the renderer panicked.    *)
EngineDelivers ==
  \A e \in Events :
    from[e] = "engine" /\ critical[e] =>
      \/ outcome[e] \in {"none", "accepted", "expired"}
      \/ outcome[e] = "dead" /\ panicked

(* Teardown closes the bus, then the channel, then cancels Listen or gives *)
(* up on it.                                                               *)
SessionInv ==
  /\ busClosed => main \notin {"setup", "chat", "shutdown"}
  /\ flagged <=> main \in {"closing", "wait", "grace", "done"}
  /\ closed <=> main \in {"wait", "grace", "done"}
  /\ killed => closed
  /\ main = "grace" => timedOut
  /\ main = "setup" <=> listener = "unborn"
  /\ main = "chat" => listener # "never"
  /\ main = "done" /\ ~timedOut => WorkersDone

(* What was accepted is rendered, being rendered or in the channel, and    *)
(* Listen leaves an empty and closed channel unless the renderer panicked. *)
ListenInv ==
  /\ listener \notin {"render", "drainRender"} => current = 0
  /\ listener \in {"drain", "drainRender"} => killed
  /\ dead <=> listener \in {"leaving", "ended"}
  /\ dead /\ ~panicked => closed /\ queue = <<>>
  /\ ~panicked =>
       Accepted \subseteq Range(rendered) \cup Range(queue) \cup {current}

(* The engine publishes only before teardown; what is being published has  *)
(* no outcome yet and is published once.                                   *)
ProducerInv ==
  /\ main # "chat" => producer["engine"] = "idle"
  /\ \A p \in Producers :
       producer[p] # "idle" => event[p] \in 1..published /\ from[event[p]] = p
  /\ \A e \in Events : e > published => outcome[e] = "none"

(* The inductive invariant behind AcceptedShown and EngineDelivers.        *)
BridgeInv == SessionInv /\ ListenInv /\ ProducerInv /\ EngineDelivers

(* A publisher is never held for good, whatever the terminal does.         *)
PublishReturns ==
  \A p \in Producers : producer[p] # "idle" ~> producer[p] = "idle"

(* Teardown ends, whatever the terminal does.                              *)
TeardownEnds == main = "shutdown" ~> main = "done"

(* The terminal cannot hold up the program: a renderer that hangs or has   *)
(* panicked stops neither a publisher nor the end of the session.          *)
NobodyHeldUp == PublishReturns /\ TeardownEnds
=============================================================================
