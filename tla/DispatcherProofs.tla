-------------------------- MODULE DispatcherProofs --------------------------
(***************************************************************************)
(* Proofs about Dispatcher, for any number of calls and of workers: type   *)
(* correctness, the safety invariants the runs check, from an inductive    *)
(* invariant, and the action property, from that and a second one.         *)
(***************************************************************************)
EXTENDS Dispatcher, TLAPS, FiniteSetTheorems, WellFoundedInduction

(* First is the least call of a set: strict inclusion of the intervals     *)
(* 1..j is well-founded.                                                   *)
LEMMA FirstIsLeast ==
  ASSUME NEW S \in SUBSET Calls, S # {}
  PROVE  First(S) \in S /\ \A j \in S : First(S) <= j
<1> DEFINE R == StrictSubsetOrdering(Calls)
           T == {1..j : j \in S}
<1>1. IsWellFoundedOn(R, FiniteSubsetsOf(Calls))
  BY FS_StrictSubsetOrderingWellFounded
<1>2. T \subseteq FiniteSubsetsOf(Calls) /\ T # {}
  <2>1. ASSUME NEW j \in S PROVE 1..j \subseteq Calls /\ IsFiniteSet(1..j)
    <3>1. j \in Int /\ 1..j \subseteq Calls
      BY DispatcherAssumption DEF Calls
    <3>2. IsFiniteSet(1..j)
      BY <3>1, FS_Interval
    <3> QED BY <3>1, <3>2
  <2> QED BY <2>1 DEF FiniteSubsetsOf
<1>3. \E t \in T : \A u \in T : <<u, t>> \notin R
  <2> HIDE DEF R, T
  <2> QED BY <1>1, <1>2, WFMin
<1>4. PICK i \in S : \A j \in S : <<1..j, 1..i>> \notin R
  BY <1>3
<1>5. ASSUME NEW j \in S PROVE i <= j
  <2> SUFFICES ASSUME j < i PROVE FALSE
    BY DEF Calls
  <2>1. 1..j \subseteq Calls /\ 1..i \subseteq Calls
    BY DispatcherAssumption DEF Calls
  <2>2. 1..j \subseteq 1..i /\ i \in 1..i /\ i \notin 1..j
    BY DEF Calls
  <2> QED BY <1>4, <2>1, <2>2 DEF StrictSubsetOrdering
<1> QED BY <1>5 DEF First

(* The batch is a non-empty part of the calls left, all of it before the   *)
(* others; it is one serial call, or parallel calls only.                  *)
LEMMA BatchShape ==
  ASSUME NEW S \in SUBSET Calls, S # {}
  PROVE  /\ FirstBatch(S) \subseteq S /\ First(S) \in FirstBatch(S)
         /\ \A i \in FirstBatch(S), k \in S \ FirstBatch(S) : i < k
         /\ First(S) \in serial => FirstBatch(S) = {First(S)}
         /\ First(S) \notin serial => FirstBatch(S) \cap serial = {}
<1>1. First(S) \in S /\ \A j \in S : First(S) <= j
  BY FirstIsLeast
<1>2. \A i \in S : i \in Int
  BY DEF Calls
<1>3. CASE First(S) \in serial
  <2>1. FirstBatch(S) = {First(S)}
    BY <1>3 DEF FirstBatch
  <2>2. ASSUME NEW k \in S, k # First(S) PROVE First(S) < k
    <3>1. First(S) \in Int /\ k \in Int /\ First(S) <= k
      BY <1>1, <1>2
    <3> QED BY <2>2, <3>1
  <2> QED BY <1>1, <1>3, <2>1, <2>2
<1>4. CASE First(S) \notin serial
  <2> DEFINE B == {i \in S : \A k \in S \cap serial : i < k}
  <2>1. FirstBatch(S) = B
    BY <1>4 DEF FirstBatch
  <2>2. First(S) \in B
    <3>1. ASSUME NEW k \in S \cap serial PROVE First(S) < k
      <4>1. First(S) \in Int /\ k \in Int /\ First(S) <= k /\ First(S) # k
        BY <1>1, <1>2, <1>4
      <4> QED BY <4>1
    <3> QED BY <1>1, <3>1
  <2>3. ASSUME NEW i \in B, i \in serial PROVE FALSE
    <3>1. i \in Int /\ i < i
      BY <1>2, <2>3
    <3> QED BY <3>1
  <2>4. ASSUME NEW i \in B, NEW k \in S \ B PROVE i < k
    <3>1. PICK s \in S \cap serial : ~(k < s)
      BY <2>4
    <3>2. i < s /\ i \in Int /\ k \in Int /\ s \in Int
      BY <1>2, <2>4, <3>1
    <3> QED BY <3>1, <3>2
  <2> QED BY <1>4, <2>1, <2>2, <2>3, <2>4
<1> QED BY <1>3, <1>4

-----------------------------------------------------------------------------
(* Type correctness.                                                       *)

(* Every variable has its type initially: no call was batched or run.      *)
LEMMA TypeInit == Init => TypeOK
<1> SUFFICES ASSUME Init PROVE TypeOK
  OBVIOUS
<1> USE DEF Init, Outputs, Answers, Filler
<1>1. wpc \in [Workers -> {"off", "select", "await", "unresolved"}]
  OBVIOUS
<1>2. \A w \in Workers : wpc[w] = "off"
  OBVIOUS
<1>3. wcall \in [Workers -> Calls \cup {0}]
  OBVIOUS
<1> QED BY <1>1, <1>2, <1>3 DEF TypeOK

(* ExecuteTool's start leaves a worker with a call in hand.                *)
LEMMA LaunchType ==
  ASSUME TypeOK, NEW w \in Workers, NEW i \in Calls, Launch(w, i)
  PROVE  /\ wcall' \in [Workers -> Calls \cup {0}]
         /\ wpc' \in [Workers -> {"off", "select", "await", "unresolved"}]
         /\ tool' \in [Calls -> Outputs \cup {"idle", "running", "gone"}]
         /\ \A v \in Workers : wpc'[v] \in {"await", "unresolved"}
                                 => wcall'[v] # 0
<1>1. i # 0
  BY DEF Calls
<1>2. wcall' = [wcall EXCEPT ![w] = i]
  BY DEF Launch
<1>3. CASE /\ wpc' = [wpc EXCEPT ![w] = "unresolved"]
           /\ UNCHANGED tool
  BY <1>1, <1>2, <1>3 DEF TypeOK
<1>4. CASE /\ wpc' = [wpc EXCEPT ![w] = "await"]
           /\ tool' = [tool EXCEPT ![i] = "running"]
  BY <1>1, <1>2, <1>4 DEF TypeOK
<1> QED BY <1>3, <1>4 DEF Launch

(* Every step of the plan, the workers, the tools and the timers keeps it. *)
LEMMA TypeStep == TypeOK /\ [Next]_vars => TypeOK'
<1> SUFFICES ASSUME TypeOK, [Next]_vars PROVE TypeOK'
  OBVIOUS
<1> USE DEF TypeOK, plan, crew, tools, Outputs, Answers, Filler
<1>1. CASE Begin
  BY <1>1 DEF Begin
<1>2. CASE Finish
  BY <1>2 DEF Finish
<1>3. CASE Interrupt
  BY <1>3 DEF Interrupt, Fill
<1>4. CASE StartSerial
  <2>1. First(todo) \in todo /\ FirstBatch(todo) \subseteq Calls
    BY <1>4, BatchShape DEF StartSerial
  <2>2. 1 \in Workers /\ First(todo) \in Calls
    <3>1. 1 \in Workers
      BY DispatcherAssumption DEF Workers
    <3> QED BY <2>1, <3>1
  <2>3. Launch(1, First(todo)) /\ UNCHANGED <<serial, results, outbox>>
    BY <1>4 DEF StartSerial
  <2>4. /\ wcall' \in [Workers -> Calls \cup {0}]
        /\ wpc' \in [Workers -> {"off", "select", "await", "unresolved"}]
        /\ tool' \in [Calls -> Outputs \cup {"idle", "running", "gone"}]
        /\ \A w \in Workers : wpc'[w] \in {"await", "unresolved"}
                                => wcall'[w] # 0
    BY <2>2, <2>3, LaunchType
  <2> QED BY <1>4, <2>1, <2>4 DEF StartSerial
<1>5. CASE StartParallel
  <2>1. FirstBatch(todo) \subseteq Calls
    BY <1>5, BatchShape DEF StartParallel
  <2> QED BY <1>5, <2>1 DEF StartParallel
<1>6. CASE \E i \in Calls : CollectResult(i)
  BY <1>6 DEF CollectResult
<1>7. CASE CollectSignal
  BY <1>7 DEF CollectSignal
<1>8. CASE HaltSerial
  BY <1>8 DEF HaltSerial, Fill
<1>9. CASE HaltParallel
  BY <1>9 DEF HaltParallel, Fill
<1>10. CASE NextBatch
  BY <1>10 DEF NextBatch
<1>11. ASSUME NEW w \in Workers, Worker(w) PROVE TypeOK'
  <2>1. CASE TakeJob(w)
    <3>1. First(jobs) \in Calls
      BY <2>1, FirstIsLeast DEF TakeJob
    <3>2. First(jobs) # 0
      BY <3>1 DEF Calls
    <3>3. /\ wcall' \in [Workers -> Calls \cup {0}]
          /\ wpc' \in [Workers -> {"off", "select", "await", "unresolved"}]
          /\ tool' \in [Calls -> Outputs \cup {"idle", "running", "gone"}]
          /\ \A v \in Workers : wpc'[v] \in {"await", "unresolved"}
                                  => wcall'[v] # 0
      BY <2>1, <3>1, LaunchType DEF TakeJob
    <3> QED BY <2>1, <3>3 DEF TakeJob
  <2>2. CASE NoMoreJobs(w)
    BY <2>2 DEF NoMoreJobs
  <2>3. CASE SeeCancel(w)
    BY <2>3 DEF SeeCancel
  <2>4. CASE AnswerUnresolved(w)
    BY <2>4 DEF AnswerUnresolved, Send
  <2>5. CASE ReceiveOutput(w)
    <3>1. wcall[w] \in Calls
      BY <2>5 DEF ReceiveOutput
    <3> QED BY <2>5, <3>1 DEF ReceiveOutput, Send
  <2>6. CASE GiveUp(w)
    <3>1. wcall[w] \in Calls
      BY <2>6 DEF GiveUp
    <3> QED BY <2>6, <3>1 DEF GiveUp, Send
  <2> QED BY <1>11, <2>1, <2>2, <2>3, <2>4, <2>5, <2>6 DEF Worker
<1>12. CASE \E i \in Calls : ToolReturn(i)
  BY <1>12 DEF ToolReturn
<1>13. CASE \E i \in Calls : Expire(i)
  BY <1>13 DEF Expire
<1>14. CASE \E i \in Calls : ReportLate(i)
  BY <1>14 DEF ReportLate
<1>15. CASE \E i \in Calls : ReportZombie(i)
  BY <1>15 DEF ReportZombie
<1>16. CASE Cancel
  BY <1>16 DEF Cancel
<1>17. CASE Done \/ UNCHANGED vars
  BY <1>17 DEF Done, vars
<1> QED
  BY <1>1, <1>2, <1>3, <1>4, <1>5, <1>6, <1>7, <1>8, <1>9, <1>10, <1>11,
     <1>12, <1>13, <1>14, <1>15, <1>16, <1>17 DEF Next, Plan

(* Every variable of the model keeps its type, for any number of calls and *)
(* workers.                                                                *)
THEOREM TypeCorrect == Spec => []TypeOK
<1>1. QED BY TypeInit, TypeStep, PTL DEF Spec

-----------------------------------------------------------------------------
(* The inductive invariant.                                                *)

(* Before the batches are built nothing is batched, run or collected.      *)
LEMMA InvInit == Init => IInv
BY DEF Init, IInv, PhaseInv, BatchInv, OrderInv, FailureInv, Barrier,
       SerialFailureHalts, Failed, HasError

(* Batches are formed and left by the plan.                                *)
LEMMA StartStep ==
  ASSUME TypeOK, IInv, StartSerial \/ StartParallel
  PROVE  IInv'
<1> USE DEF TypeOK, plan, crew, tools, Busy, Live, Failed
<1> DEFINE B == FirstBatch(todo)
<1>1. /\ pc = "check" /\ pc' = "collect" /\ todo # {} /\ ~cancelled
      /\ batch' = B /\ todo' = todo \ B
      /\ UNCHANGED <<cancelled, serial, results, outbox>>
  BY DEF StartSerial, StartParallel
<1>2. /\ B \subseteq todo /\ First(todo) \in B
      /\ \A i \in B, k \in todo \ B : i < k
      /\ First(todo) \in serial => B = {First(todo)}
      /\ First(todo) \notin serial => B \cap serial = {}
  BY <1>1, BatchShape
<1>3. /\ todo' \subseteq todo /\ B \subseteq Calls /\ B # {}
      /\ \A i \in todo : results[i] = "empty" /\ tool[i] = "idle"
      /\ \A i \in Calls : Live(i)' = Live(i) /\ Failed(i)' = Failed(i)
      /\ \A i \in Calls, k \in todo : i \notin todo /\ Live(i) => i < k
      /\ \A i \in Calls : outbox[i] = "none"
      /\ \A i \in serial : ~Failed(i)
      /\ jobs = {}
      /\ \A w \in Workers : wpc[w] = "off"
  BY <1>1, <1>2 DEF IInv, PhaseInv, OrderInv, FailureInv
<1>4. PhaseInv' /\ FailureInv'
  BY <1>1, <1>3 DEF PhaseInv, FailureInv
<1>5. SerialFailureHalts'
  BY <1>1, <1>3 DEF SerialFailureHalts
<1>6. \A i \in Calls : tool'[i] # "idle" =>
         tool[i] # "idle" \/ (StartSerial /\ i = First(todo))
  BY <1>1, <1>2, <1>3 DEF StartSerial, StartParallel, Launch
<1>7. OrderInv'
  <2>1. \A i \in Calls : results'[i] = "empty" => i \in todo' \cup batch'
    BY <1>1, <1>2 DEF IInv, OrderInv
  <2>2. \A i \in Calls : tool'[i] # "idle" => i \notin todo' /\ Live(i)'
    <3> TAKE i \in Calls
    <3>1. CASE tool[i] # "idle"
      BY <1>1, <1>3, <3>1 DEF IInv, OrderInv
    <3>2. CASE i = First(todo)
      BY <1>1, <1>2, <1>3, <3>2
    <3> QED BY <1>6, <3>1, <3>2
  <2>3. \A i \in Calls, k \in todo' : i \notin todo' /\ Live(i)' => i < k
    <3> TAKE i \in Calls, k \in todo'
    <3>1. CASE i \in todo
      BY <1>1, <1>2, <3>1
    <3>2. CASE i \notin todo
      BY <1>1, <1>3, <3>2
    <3> QED BY <3>1, <3>2
  <2>4. \A i \in Calls, b \in batch' :
          i \notin todo' \cup batch' /\ Live(i)' => i < b
    BY <1>1, <1>2, <1>3
  <2> QED BY <1>1, <1>3, <2>1, <2>2, <2>3, <2>4 DEF OrderInv
<1>8. Barrier'
  <2> SUFFICES ASSUME NEW i \in Calls, NEW j \in Calls,
                      i < j, tool'[j] # "idle",
                      NEW k \in i..j, k \in serial, Live(k)'
               PROVE  results[i] # "empty"
    BY <1>1 DEF Barrier
  <2>1. k \in Calls /\ Live(k) /\ i \in Int /\ j \in Int /\ k \in Int
    BY <1>3 DEF Calls
  <2>2. CASE tool[j] # "idle"
    BY <2>1, <2>2 DEF IInv, Barrier
  <2>3. CASE j = First(todo)
    <3> SUFFICES ASSUME results[i] = "empty" PROVE FALSE
      OBVIOUS
    <3>1. i \in todo
      BY <1>1 DEF IInv, OrderInv
    <3>2. i \notin B /\ j \in B => j < i
      BY <1>2, <3>1
    <3>3. First(todo) <= i
      BY <3>1, FirstIsLeast
    <3> QED BY <2>1, <2>3, <3>3
  <2> QED BY <1>6, <2>2, <2>3
<1>9. BatchInv'
  <2>1. \A i \in batch' : Live(i)' /\ results'[i] = "empty"
    BY <1>1, <1>2, <1>3
  <2>2. CASE StartSerial
    <3>1. /\ batch' = {First(todo)} /\ First(todo) \in serial
          /\ UNCHANGED <<jobs, serial>>
      BY <1>1, <1>2, <2>2 DEF StartSerial
    <3>2. 1 \in Workers
      BY DispatcherAssumption DEF Workers
    <3>3. wcall'[1] = First(todo) /\ wpc'[1] \in {"await", "unresolved"}
      BY <2>2, <3>2 DEF StartSerial, Launch
    <3>4. \A w \in Workers, i \in Calls : Busy(w, i)' => i = First(todo)
      BY <1>3, <2>2 DEF StartSerial, Launch
    <3> QED BY <1>1, <1>3, <2>1, <3>1, <3>2, <3>3, <3>4 DEF BatchInv
  <2>3. CASE StartParallel
    <3>1. /\ batch' \cap serial' = {} /\ jobs' = batch'
      BY <1>1, <1>2, <2>3 DEF StartParallel
    <3>2. 1 \in Workers
      BY DispatcherAssumption DEF Workers
    <3>3. IsFiniteSet(B)
      <4>1. IsFiniteSet(Calls)
        BY DispatcherAssumption, FS_Interval DEF Calls
      <4> QED BY <1>3, <4>1, FS_Subset
    <3>4. Cardinality(batch') \in Nat /\ Cardinality(batch') # 0
      BY <1>1, <1>3, <3>3, FS_EmptySet, FS_CardinalityType
    <3>5. 1 <= Cardinality(batch')
      BY <3>4
    <3>6. wpc'[1] = "select"
      BY <2>3, <3>2, <3>5 DEF StartParallel
    <3>7. \A w \in Workers, i \in Calls : ~Busy(w, i)'
      BY <2>3 DEF StartParallel
    <3> QED BY <1>1, <1>3, <2>1, <3>1, <3>2, <3>6, <3>7 DEF BatchInv
  <2> QED BY <2>2, <2>3
<1> QED BY <1>4, <1>5, <1>7, <1>8, <1>9 DEF IInv

(* Every step keeps the inductive invariant.                               *)
LEMMA InvStep == TypeOK /\ TypeOK' /\ IInv /\ [Next]_vars => IInv'
<1> SUFFICES ASSUME TypeOK, TypeOK', IInv, [Next]_vars PROVE IInv'
  OBVIOUS
<1> USE DEF TypeOK, plan, crew, tools, Busy, Live, Failed, HasError, IInv,
            PhaseInv, BatchInv, OrderInv, FailureInv, Barrier,
            SerialFailureHalts
<1>1. CASE Begin
  BY <1>1 DEF Begin
<1>2. CASE Finish
  BY <1>2 DEF Finish
<1>3. CASE Interrupt
  <2>1. PhaseInv'
    BY <1>3 DEF Interrupt, Fill
  <2>2. BatchInv'
    BY <1>3 DEF Interrupt, Fill
  <2>3. OrderInv'
    BY <1>3 DEF Interrupt, Fill
  <2>4. FailureInv'
    BY <1>3 DEF Interrupt, Fill
  <2>5. Barrier'
    BY <1>3 DEF Interrupt, Fill
  <2>6. SerialFailureHalts'
    <3> SUFFICES ASSUME NEW i \in Calls, NEW j \in Calls,
                        i \in serial, i < j, Failed(i)', tool[j] # "idle"
                 PROVE  FALSE
      BY <1>3 DEF Interrupt
    <3>1. i \in todo
      BY <1>3 DEF Interrupt, Fill
    <3>2. j \notin todo /\ Live(j)
      BY <1>3 DEF Interrupt
    <3>3. j < i /\ i \in Int /\ j \in Int
      BY <1>3, <3>1, <3>2 DEF Interrupt, Calls
    <3> QED BY <3>3
  <2> QED BY <2>1, <2>2, <2>3, <2>4, <2>5, <2>6 DEF IInv
<1>4. CASE StartSerial \/ StartParallel
  BY <1>4, StartStep
<1>5. CASE \E i \in Calls : CollectResult(i)
  <2>1. PhaseInv'
    BY <1>5 DEF CollectResult, Answers, Outputs
  <2>2. BatchInv'
    BY <1>5 DEF CollectResult, Answers, Outputs
  <2>3. OrderInv'
    BY <1>5 DEF CollectResult, Answers, Outputs
  <2>4. FailureInv'
    BY <1>5 DEF CollectResult, Answers, Outputs
  <2> PICK c \in Calls : CollectResult(c)
    BY <1>5
  <2>a. /\ pc = "collect" /\ c \in batch /\ Live(c) /\ Live(c)'
        /\ results'[c] # "empty"
        /\ \A k \in Calls : k # c => results'[k] = results[k]
        /\ UNCHANGED <<serial, tool, todo, batch>>
    BY DEF CollectResult, Answers, Outputs
  <2>b. \A k \in Calls : /\ Live(k)' = Live(k)
                         /\ results[k] # "empty" => results'[k] # "empty"
    BY <2>a
  <2>5. Barrier'
    <3> SUFFICES ASSUME NEW i \in Calls, NEW j \in Calls,
                        i < j, tool[j] # "idle",
                        NEW k \in i..j, k \in serial, Live(k)'
                 PROVE  results'[i] # "empty"
      BY <2>a DEF Barrier
    <3>1. k \in Calls
      BY DEF Calls
    <3>2. results[i] # "empty"
      BY <2>b, <3>1
    <3> QED BY <2>b, <3>2
  <2>6. SerialFailureHalts'
    <3> SUFFICES ASSUME NEW i \in Calls, NEW j \in Calls,
                        i \in serial, i < j, Failed(i)', tool[j] # "idle"
                 PROVE  FALSE
      BY <2>a
    <3>1. i = c
      BY <2>a
    <3>2. batch = {c} /\ j \notin todo /\ Live(j)
      BY <2>a, <3>1
    <3>3. j \notin batch /\ i \in Int /\ j \in Int
      BY <3>1, <3>2 DEF Calls
    <3>4. j < c
      BY <2>a, <3>2, <3>3
    <3> QED BY <3>1, <3>3, <3>4
  <2> QED BY <2>1, <2>2, <2>3, <2>4, <2>5, <2>6 DEF IInv
<1>6. CASE CollectSignal
  BY <1>6 DEF CollectSignal
<1>7. CASE HaltSerial
  BY <1>7 DEF HaltSerial, Fill, Drained
<1>8. CASE HaltParallel
  <2>1. PhaseInv'
    BY <1>8 DEF HaltParallel, Fill, Drained
  <2>2. BatchInv'
    BY <1>8 DEF HaltParallel, Fill, Drained
  <2>3. OrderInv'
    BY <1>8 DEF HaltParallel, Fill, Drained
  <2>4. FailureInv'
    BY <1>8 DEF HaltParallel, Fill, Drained
  <2>5. Barrier'
    BY <1>8 DEF HaltParallel, Fill, Drained
  <2>6. SerialFailureHalts'
    <3> SUFFICES ASSUME NEW i \in Calls, NEW j \in Calls,
                        i \in serial, i < j, Failed(i)', tool[j] # "idle"
                 PROVE  FALSE
      BY <1>8 DEF HaltParallel
    <3>1. batch \cap serial = {}
      BY <1>8 DEF HaltParallel
    <3>2. i \in todo
      BY <1>8, <3>1 DEF HaltParallel, Fill
    <3>3. j \notin todo /\ Live(j)
      BY <1>8 DEF HaltParallel
    <3>4. j < i /\ i \in Int /\ j \in Int
      BY <1>8, <3>2, <3>3 DEF HaltParallel, Calls
    <3> QED BY <3>4
  <2> QED BY <2>1, <2>2, <2>3, <2>4, <2>5, <2>6 DEF IInv
<1>9. CASE NextBatch
  BY <1>9 DEF NextBatch, Drained, SerialFailed
<1>10. ASSUME NEW w \in Workers, Worker(w) PROVE IInv'
  <2>1. CASE TakeJob(w)
    <3>0. First(jobs) \in jobs
      BY <2>1, FirstIsLeast DEF TakeJob
    <3>1. PhaseInv'
      BY <2>1, <3>0 DEF TakeJob, Launch
    <3>2. BatchInv'
      BY <2>1, <3>0 DEF TakeJob, Launch
    <3>3. OrderInv'
      BY <2>1, <3>0 DEF TakeJob, Launch
    <3>4. FailureInv'
      BY <2>1, <3>0 DEF TakeJob, Launch
    <3>5. Barrier'
      BY <2>1, <3>0 DEF TakeJob, Launch
    <3>6. SerialFailureHalts'
      BY <2>1, <3>0 DEF TakeJob, Launch
    <3> QED BY <3>1, <3>2, <3>3, <3>4, <3>5, <3>6 DEF IInv
  <2>2. CASE NoMoreJobs(w)
    BY <2>2 DEF NoMoreJobs
  <2>3. CASE SeeCancel(w)
    BY <2>3 DEF SeeCancel
  <2>4. CASE AnswerUnresolved(w)
    BY <2>4 DEF AnswerUnresolved, Send
  <2>5. CASE ReceiveOutput(w)
    BY <2>5 DEF ReceiveOutput, Send, Outputs
  <2>6. CASE GiveUp(w)
    BY <2>6 DEF GiveUp, Send
  <2> QED BY <1>10, <2>1, <2>2, <2>3, <2>4, <2>5, <2>6 DEF Worker
<1>11. CASE \E i \in Calls : ToolReturn(i)
  BY <1>11 DEF ToolReturn
<1>12. CASE \E i \in Calls : Expire(i)
  BY <1>12 DEF Expire
<1>13. CASE \E i \in Calls : ReportLate(i)
  BY <1>13 DEF ReportLate, Outputs
<1>14. CASE \E i \in Calls : ReportZombie(i)
  BY <1>14 DEF ReportZombie
<1>15. CASE Cancel
  BY <1>15 DEF Cancel
<1>16. CASE Done \/ UNCHANGED vars
  BY <1>16 DEF Done, vars
<1> QED
  BY <1>1, <1>2, <1>3, <1>4, <1>5, <1>6, <1>7, <1>8, <1>9, <1>10, <1>11,
     <1>12, <1>13, <1>14, <1>15, <1>16 DEF Next, Plan

(* The phases, the batch, the order of the calls and the failed serial     *)
(* calls stay related as IInv says: it is inductive, the properties alone  *)
(* are not.                                                                *)
THEOREM InvCorrect == Spec => []IInv
<1>1. Init => TypeOK /\ IInv
  BY TypeInit, InvInit
<1>2. TypeOK /\ IInv /\ [Next]_vars => TypeOK' /\ IInv'
  BY TypeStep, InvStep
<1> QED BY <1>1, <1>2, PTL DEF Spec

(* Execute never returns with a function call of the response unanswered:  *)
(* every result is collected or filled by failRemainingTasks.              *)
THEOREM AnswersComplete == Spec => []EveryCallAnswered
<1>1. IInv => EveryCallAnswered
  BY DEF IInv, OrderInv, EveryCallAnswered
<1> QED BY <1>1, InvCorrect, PTL

(* buildExecutionBatches and the batch loop make every serial call a       *)
(* barrier for the calls on both sides of it.                              *)
THEOREM BatchesAreBarriers == Spec => []Barrier
<1>1. IInv => Barrier
  BY DEF IInv
<1> QED BY <1>1, InvCorrect, PTL

(* evaluateBatchOutcome halts the plan: no call behind a failed serial     *)
(* call is ever handed to its tool.                                        *)
THEOREM FailureHaltsPlan == Spec => []SerialFailureHalts
<1>1. IInv => SerialFailureHalts
  BY DEF IInv
<1> QED BY <1>1, InvCorrect, PTL

(* A parallel batch waits for none of its serial neighbours: the workers   *)
(* hold calls of the current batch only, and a serial call is one alone.   *)
THEOREM SerialCallsAlone == Spec => []SerialAwaitedAlone
<1>1. TypeOK /\ IInv => SerialAwaitedAlone
  <2> SUFFICES ASSUME TypeOK, IInv, NEW i \in Calls, NEW j \in Calls,
                      Awaited(i), Awaited(j), i \in serial
               PROVE  i = j
    BY DEF SerialAwaitedAlone
  <2>1. PICK v, w \in Workers : Busy(v, i) /\ Busy(w, j) /\ wpc[v] # "off"
    BY DEF Awaited, Busy
  <2>2. pc = "collect"
    BY <2>1 DEF IInv, PhaseInv
  <2>3. i \in batch /\ j \in batch
    BY <2>1, <2>2 DEF IInv, BatchInv
  <2>4. PICK s \in serial : batch = {s}
    BY <2>2, <2>3 DEF IInv, BatchInv
  <2> QED BY <2>3, <2>4
<1> QED BY <1>1, TypeCorrect, InvCorrect, PTL

-----------------------------------------------------------------------------
(* Where a result comes from: the slots and the fillers of the plan.       *)

(* Before the batches are built no slot is filled.                         *)
LEMMA SlotInit == Init => SlotInv /\ SkipInv
BY DEF Init, SlotInv, SkipInv, SkipsExplained, Busy

(* A call that is batched, taken, answered, received or given up stays in  *)
(* one place.                                                              *)
LEMMA SlotStep == TypeOK /\ IInv /\ SlotInv /\ [Next]_vars => SlotInv'
<1> SUFFICES ASSUME TypeOK, IInv, SlotInv, [Next]_vars PROVE SlotInv'
  OBVIOUS
<1> USE DEF TypeOK, plan, crew, tools, Busy, SlotInv
<1>1. CASE Begin
  BY <1>1 DEF Begin, IInv, PhaseInv
<1>2. CASE Finish \/ Interrupt \/ HaltSerial \/ HaltParallel
  BY <1>2 DEF Finish, Interrupt, HaltSerial, HaltParallel, Drained, Fill,
              IInv, PhaseInv
<1>3. CASE StartSerial \/ StartParallel
  <2>1. /\ FirstBatch(todo) \subseteq todo /\ First(todo) \in todo
        /\ pc = "check" /\ batch' = FirstBatch(todo)
        /\ UNCHANGED <<results, outbox, expired, monitor>>
    BY <1>3, BatchShape DEF StartSerial, StartParallel
  <2>2. /\ \A i \in todo : results[i] = "empty" /\ tool[i] = "idle"
        /\ \A i \in Calls : outbox[i] = "none"
        /\ jobs = {} /\ \A w \in Workers : wpc[w] = "off"
    BY <2>1 DEF IInv, PhaseInv, OrderInv
  <2>3. CASE StartSerial
    BY <2>1, <2>2, <2>3 DEF StartSerial, Launch
  <2>4. CASE StartParallel
    BY <2>1, <2>2, <2>4 DEF StartParallel
  <2> QED BY <1>3, <2>3, <2>4
<1>4. CASE \E i \in Calls : CollectResult(i)
  BY <1>4 DEF CollectResult
<1>5. CASE CollectSignal
  BY <1>5 DEF CollectSignal
<1>6. CASE NextBatch
  BY <1>6 DEF NextBatch
<1>7. ASSUME NEW w \in Workers, Worker(w) PROVE SlotInv'
  <2>1. CASE TakeJob(w)
    <3>1. First(jobs) \in jobs
      BY <2>1, FirstIsLeast DEF TakeJob
    <3>2. First(jobs) \in Calls /\ pc = "collect"
      BY <2>1, <3>1 DEF TakeJob, IInv, PhaseInv
    <3>3. /\ jobs' = jobs \ {First(jobs)}
          /\ \A j \in jobs' : tool'[j] = tool[j]
          /\ UNCHANGED <<pc, results, outbox>>
      BY <2>1, <3>1, <3>2 DEF TakeJob, Launch
    <3>4. \A v \in Workers, j \in Calls : Busy(v, j)' =>
             \/ v = w /\ j = First(jobs)
             \/ v # w /\ Busy(v, j) /\ j # First(jobs)
      BY <2>1, <3>1, <3>2 DEF TakeJob, Launch
    <3> HIDE DEF Busy
    <3> QED BY <3>1, <3>2, <3>3, <3>4
  <2>2. CASE NoMoreJobs(w)
    BY <2>2 DEF NoMoreJobs
  <2>3. CASE SeeCancel(w)
    BY <2>3 DEF SeeCancel
  <2>4. ASSUME NEW a \in Answers, Busy(w, wcall[w]), Send(w, a)
        PROVE  /\ \A i \in Calls : outbox'[i] # "none" => results[i] = "empty"
               /\ \A v \in Workers, i \in Calls : Busy(v, i)' =>
                    Busy(v, i) /\ i # wcall[w]
               /\ \A i \in Calls : outbox'[i] # outbox[i] => i = wcall[w]
               /\ UNCHANGED <<jobs, results, pc>>
               /\ wcall[w] \in Calls
    <3>1. wcall[w] \in Calls
      BY <2>4
    <3> QED BY <2>4, <3>1 DEF Send
  <2>5. CASE AnswerUnresolved(w)
    <3>1. Busy(w, wcall[w]) /\ Send(w, "failed") /\ UNCHANGED tool
      BY <2>5 DEF AnswerUnresolved
    <3> QED BY <2>4, <3>1 DEF Answers, Outputs
  <2>6. CASE ReceiveOutput(w)
    <3>1. Busy(w, wcall[w]) /\ Send(w, tool[wcall[w]])
      BY <2>6 DEF ReceiveOutput
    <3>2. tool[wcall[w]] \in Answers
      BY <2>6 DEF ReceiveOutput, Answers
    <3>3. \A i \in jobs : tool'[i] = tool[i]
      BY <2>6, <3>1 DEF ReceiveOutput
    <3> QED BY <2>4, <3>1, <3>2, <3>3
  <2>7. CASE GiveUp(w)
    <3>1. Busy(w, wcall[w]) /\ Send(w, "aborted") /\ UNCHANGED tool
      BY <2>7 DEF GiveUp
    <3> QED BY <2>4, <3>1 DEF Answers
  <2> QED BY <1>7, <2>1, <2>2, <2>3, <2>5, <2>6, <2>7 DEF Worker
<1>8. CASE \E i \in Calls : ToolReturn(i)
  BY <1>8 DEF ToolReturn
<1>9. CASE \E i \in Calls : Expire(i)
  BY <1>9 DEF Expire
<1>10. CASE \E i \in Calls : ReportLate(i)
  BY <1>10 DEF ReportLate, Outputs
<1>11. CASE \E i \in Calls : ReportZombie(i)
  BY <1>11 DEF ReportZombie
<1>12. CASE Cancel
  BY <1>12 DEF Cancel
<1>13. CASE Done \/ UNCHANGED vars
  BY <1>13 DEF Done, vars
<1> QED
  BY <1>1, <1>2, <1>3, <1>4, <1>5, <1>6, <1>7, <1>8, <1>9, <1>10, <1>11,
     <1>12, <1>13 DEF Next, Plan

(* A plan that ends without an error either ran to its end or was halted   *)
(* by a serial call, which is still there to explain what was skipped.     *)
LEMMA SkipStep == TypeOK /\ IInv /\ SkipInv /\ [Next]_vars => SkipInv'
<1> SUFFICES ASSUME TypeOK, IInv, SkipInv, [Next]_vars PROVE SkipInv'
  OBVIOUS
<1> USE DEF TypeOK, plan, crew, tools, Failed, SkipInv, SkipsExplained
<1>1. CASE Begin
  BY <1>1 DEF Begin
<1>2. CASE Finish
  BY <1>2 DEF Finish
<1>3. CASE Interrupt
  BY <1>3 DEF Interrupt
<1>4. CASE StartSerial \/ StartParallel
  BY <1>4 DEF StartSerial, StartParallel
<1>5. CASE \E i \in Calls : CollectResult(i)
  BY <1>5 DEF CollectResult, Answers, Outputs
<1>6. CASE CollectSignal
  BY <1>6 DEF CollectSignal
<1>7. CASE HaltSerial
  <2> SUFFICES ASSUME ~planErr'
               PROVE  \A i \in Calls :
                        /\ results'[i] # "interrupted"
                        /\ results'[i] = "skipped" =>
                             \E s \in serial' : s < i /\ Failed(s)'
    BY <1>7 DEF HaltSerial
  <2>1. /\ SerialFailed /\ pc = "collect"
        /\ results' = Fill(todo, "skipped")
        /\ UNCHANGED serial
    BY <1>7 DEF HaltSerial
  <2>2. PICK s \in batch \cap serial : results[s] \in HasError
    BY <2>1 DEF SerialFailed
  <2>3. s \in Calls /\ Live(s) /\ s \notin todo
    BY <2>1, <2>2 DEF IInv, BatchInv
  <2>4. Failed(s)'
    BY <2>1, <2>2, <2>3 DEF Fill, Live
  <2> TAKE i \in Calls
  <2>5. results'[i] # "interrupted"
    BY <2>1 DEF Fill
  <2>6. ASSUME results'[i] = "skipped" PROVE s < i
    <3>1. i \in todo
      BY <2>1, <2>6 DEF Fill
    <3> QED BY <2>1, <2>3, <3>1 DEF IInv, OrderInv
  <2> QED BY <2>1, <2>2, <2>4, <2>5, <2>6
<1>8. CASE HaltParallel
  BY <1>8 DEF HaltParallel
<1>9. CASE NextBatch
  BY <1>9 DEF NextBatch
<1>10. CASE \E w \in Workers : Worker(w)
  BY <1>10 DEF Worker, TakeJob, NoMoreJobs, SeeCancel, AnswerUnresolved,
               ReceiveOutput, GiveUp, Send
<1>11. CASE \E i \in Calls : \/ ToolReturn(i) \/ Expire(i)
                             \/ ReportLate(i) \/ ReportZombie(i)
  BY <1>11 DEF ToolReturn, Expire, ReportLate, ReportZombie
<1>12. CASE Cancel
  BY <1>12 DEF Cancel
<1>13. CASE Done \/ UNCHANGED vars
  BY <1>13 DEF Done, vars
<1> QED
  BY <1>1, <1>2, <1>3, <1>4, <1>5, <1>6, <1>7, <1>8, <1>9, <1>10, <1>11,
     <1>12, <1>13 DEF Next, Plan

(* A call without a result is in one place, and only the plan's last step  *)
(* fills a slot with "skipped" or "interrupted".                           *)
THEOREM SlotsCorrect == Spec => [](SlotInv /\ SkipInv)
<1>1. Init => TypeOK /\ IInv /\ SlotInv /\ SkipInv
  BY TypeInit, InvInit, SlotInit
<1>2. /\ TypeOK /\ IInv /\ SlotInv /\ SkipInv /\ [Next]_vars
      => TypeOK' /\ IInv' /\ SlotInv' /\ SkipInv'
  BY TypeStep, InvStep, SlotStep, SkipStep
<1> QED BY <1>1, <1>2, PTL DEF Spec

(* evaluateBatchOutcome and Execute's errors agree: when the plan reports  *)
(* no error, nothing was interrupted and each skipped call has an earlier  *)
(* serial call that failed.                                                *)
THEOREM NoErrorExplained == Spec => []SkipsExplained
<1>1. SkipInv => SkipsExplained
  BY DEF SkipInv
<1> QED BY <1>1, SlotsCorrect, PTL

(* failRemainingTasks writes over no answer (but a blank one), a late      *)
(* answer overwrites no slot, and no filler stands for a call whose tool   *)
(* was started.                                                            *)
THEOREM AnswersStay == Spec => AnswersKept
<1> DEFINE Kept(i) ==
      \/ results[i] = "empty" /\ (results'[i] \in Filler => tool[i] = "idle")
      \/ results[i] = "blank" /\ results'[i] = "interrupted"
<1>1. ASSUME TypeOK, IInv, SlotInv, Next, NEW i \in Calls,
             results'[i] # results[i]
      PROVE  Kept(i)
  <2> USE DEF TypeOK, plan, crew, tools
  <2>1. CASE Begin
    BY <1>1, <2>1 DEF Begin, SlotInv, IInv, PhaseInv
  <2>2. CASE Interrupt
    BY <1>1, <2>2 DEF Interrupt, Fill, IInv, OrderInv
  <2>3. CASE \E c \in Calls : CollectResult(c)
    BY <1>1, <2>3 DEF CollectResult, SlotInv, Answers, Outputs, Filler
  <2>4. CASE HaltSerial
    BY <1>1, <2>4 DEF HaltSerial, Fill, IInv, OrderInv
  <2>5. CASE HaltParallel
    <3>1. /\ i \in batch \cup todo /\ results[i] \in {"empty", "blank"}
          /\ results'[i] = "interrupted" /\ pc = "collect" /\ Drained
      BY <1>1, <2>5 DEF HaltParallel, Fill
    <3>2. CASE results[i] = "empty" /\ i \in batch
      <4>1. i \in jobs
        BY <1>1, <3>1, <3>2 DEF IInv, BatchInv, Drained, Busy
      <4> QED BY <1>1, <3>1, <3>2, <4>1 DEF SlotInv
    <3>3. CASE results[i] = "empty" /\ i \in todo
      BY <1>1, <3>1, <3>3 DEF IInv, OrderInv
    <3>4. CASE results[i] = "blank"
      BY <3>1, <3>4
    <3> QED BY <3>1, <3>2, <3>3, <3>4
  <2>6. CASE \/ Finish \/ StartSerial \/ StartParallel \/ CollectSignal
             \/ NextBatch \/ Cancel \/ Done
    BY <1>1, <2>6 DEF Finish, StartSerial, StartParallel, CollectSignal,
                      NextBatch, Cancel, Done, vars
  <2>7. CASE \E w \in Workers : Worker(w)
    <3>1. UNCHANGED results
      BY <2>7 DEF Worker, TakeJob, NoMoreJobs, SeeCancel, AnswerUnresolved,
                  ReceiveOutput, GiveUp, Send
    <3> QED BY <1>1, <3>1
  <2>8. CASE \E c \in Calls : \/ ToolReturn(c) \/ Expire(c)
                              \/ ReportLate(c) \/ ReportZombie(c)
    BY <1>1, <2>8 DEF ToolReturn, Expire, ReportLate, ReportZombie
  <2> QED
    BY <1>1, <2>1, <2>2, <2>3, <2>4, <2>5, <2>6, <2>7, <2>8 DEF Next, Plan
<1>2. TypeOK /\ IInv /\ SlotInv /\ [Next]_vars
        => [\A i \in Calls : results'[i] # results[i] => Kept(i)]_vars
  BY <1>1
<1>3. Spec => [](TypeOK /\ IInv /\ SlotInv)
  BY TypeCorrect, InvCorrect, SlotsCorrect, PTL
<1> QED BY <1>2, <1>3, PTL DEF Spec, AnswersKept
=============================================================================
