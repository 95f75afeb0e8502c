------------------------ MODULE CommandPipelineProofs ------------------------
(***************************************************************************)
(* What is proved of CommandPipeline, for every number of stages and every *)
(* size of their pipes.  IInv says what each phase of the executor knows:  *)
(* which stages it has not started or has already waited for, which        *)
(* readers have ended, and how many lines are still in a pipe.  The lines  *)
(* in the pipes of the errors are counted as a set, so that what a step    *)
(* adds or takes is a fact about one element of it.                        *)
(***************************************************************************)
EXTENDS CommandPipeline, FiniteSetTheorems, TLAPS

(* The stages of this pipeline are stages. *)
LEMMA StageFacts ==
  ASSUME ControlType
  PROVE  /\ n \in Nat /\ n >= 1 /\ n \in Stages /\ n \in 1..n
         /\ \A i \in 1..n : i \in Stages /\ i \in Int
         /\ \A i \in 1..n : i > 1 => i - 1 \in 1..n /\ i - 1 # n
BY PipelineAssumption DEF ControlType, Stages

(* No step changes the number of stages; its name splits Next once. *)
LEMMA Steps ==
  ASSUME ControlType, Next
  PROVE  /\ n' = n
         /\ \/ Start \/ StartFailed \/ ReadOut \/ Captured \/ Wait \/ Expire \/ Hang
            \/ \E i \in 1..n :
                 \/ ReadErr(i) \/ WriteOut(i) \/ WriteErr(i) \/ ReadIn(i)
                 \/ Finish(i) \/ ExitEarly(i) \/ Fork(i) \/ ChildEnds(i) \/ Kill(i)
<1>1. \/ Start \/ StartFailed \/ ReadOut \/ Captured \/ Wait \/ Expire \/ Hang
      \/ \E i \in 1..n :
           \/ ReadErr(i) \/ WriteOut(i) \/ WriteErr(i) \/ ReadIn(i)
           \/ Finish(i) \/ ExitEarly(i) \/ Fork(i) \/ ChildEnds(i) \/ Kill(i)
  BY DEF Next, Executor, Stage, Odd
<1>2. CASE Start \/ StartFailed \/ ReadOut \/ Captured \/ Wait \/ Expire \/ Hang
  BY <1>2 DEF Start, StartFailed, ReadOut, Captured, Wait, Expire, Hang, control
<1>3. ASSUME NEW i \in 1..n,
             ReadErr(i) \/ WriteOut(i) \/ WriteErr(i) \/ ReadIn(i) \/ Finish(i)
      PROVE  n' = n
  BY <1>3 DEF ReadErr, WriteOut, WriteErr, ReadIn, Finish, control
<1>4. ASSUME NEW i \in 1..n, ExitEarly(i) \/ Fork(i) \/ ChildEnds(i) \/ Kill(i)
      PROVE  n' = n
  BY <1>4 DEF ExitEarly, Fork, ChildEnds, Kill, control
<1> QED BY <1>1, <1>2, <1>3, <1>4

(* Nothing has been started.                                               *)
LEMMA TypeInit ==
  ASSUME Init
  PROVE  TypeOK
<1>1. ControlType
  <2>1. n \in Stages /\ 1 \in 0..MaxStages
    BY PipelineAssumption DEF Init
  <2> QED BY <2>1 DEF Init, ControlType
<1>2. StageType
  <2>1. left \in [Stages -> [out : Nat, err : Nat]]
    BY DEF Init
  <2>2. proc \in [Stages -> {"none", "running", "exited", "reaped"}]
    BY DEF Init
  <2>3. child \in [Stages -> {"none", "inGroup", "escaped"}]
    BY DEF Init
  <2>4. odd \in BOOLEAN
    BY DEF Init
  <2> QED BY <2>1, <2>2, <2>3, <2>4 DEF StageType
<1>3. PipeType /\ CaptureType
  BY PipelineAssumption DEF Init, PipeType, CaptureType
<1> QED BY <1>1, <1>2, <1>3 DEF TypeOK

(* The executor, its phase and the limit keep their types.                 *)
LEMMA ControlStep ==
  ASSUME ControlType, StagesInv, [Next]_vars
  PROVE  ControlType'
<1>1. CASE Next
  <2> n \in 1..MaxStages /\ MaxStages \in Nat \ {0}
    BY PipelineAssumption DEF ControlType, Stages
  <2>1. CASE Start \/ StartFailed \/ Captured \/ Wait
    <3>1. next' \in 0..MaxStages
      <4>1. \/ next' \in {0, n, next}
            \/ next' = next + 1 /\ next \in 1..n /\ next # n
            \/ next' = next - 1 /\ next > 0
        BY <2>1 DEF Start, StartFailed, Captured, Wait, Goto, StagesInv
      <4> QED BY ONLY <4>1, n \in 1..MaxStages, MaxStages \in Nat \ {0},
                      next \in 0..MaxStages DEF ControlType
    <3>2. /\ UNCHANGED <<n, expired>>
          /\ phase' \in {"start", "failed", "capture", "wait", "returned"}
      BY <2>1 DEF Start, StartFailed, Captured, Wait, Goto
    <3> QED BY <3>1, <3>2 DEF ControlType
  <2>5. CASE Expire
    BY <2>5 DEF Expire, ControlType
  <2>2. CASE UNCHANGED control
    BY <2>2 DEF control, ControlType
  <2> QED
    BY <1>1, <2>1, <2>2, <2>5, Steps
       DEF Hang, ReadOut, ReadErr, WriteOut, WriteErr, ReadIn, Finish, ExitEarly,
           Fork, ChildEnds, Kill
<1>2. CASE UNCHANGED vars
  BY <1>2 DEF vars, control, ControlType
<1> QED BY <1>1, <1>2

(* So do the states of the stages and of what they left behind.            *)
LEMMA StageStep ==
  ASSUME TypeOK, StagesInv, [Next]_vars
  PROVE  StageType'
<1> USE DEF TypeOK
<1>1. CASE Next
  <2>1. CASE Start
    <3>1. next \in Stages
      BY <2>1, StageFacts DEF Start, StagesInv
    <3>2. /\ UNCHANGED <<child, odd>>
          /\ \/ /\ proc' = [proc EXCEPT ![next] = "running"]
                /\ \E o, e \in {0, Lines} :
                     left' = [left EXCEPT ![next] = [out |-> o, err |-> e]]
             \/ UNCHANGED <<proc, left>>
      BY <2>1 DEF Start
    <3>3. proc' \in [Stages -> {"none", "running", "exited", "reaped"}]
      BY <3>1, <3>2 DEF StageType
    <3>4. left' \in [Stages -> [out : Nat, err : Nat]]
      <4>1. \A o, e \in {0, Lines} : [out |-> o, err |-> e] \in [out : Nat, err : Nat]
        BY PipelineAssumption
      <4>2. \/ UNCHANGED left
            \/ \E r \in [out : Nat, err : Nat] : left' = [left EXCEPT ![next] = r]
        BY <3>2, <4>1
      <4>3. left \in [Stages -> [out : Nat, err : Nat]]
        BY DEF StageType
      <4> QED BY ONLY <3>1, <4>2, <4>3
    <3> QED BY <3>2, <3>3, <3>4 DEF StageType
  <2>2. CASE Wait
    BY <2>2, PipelineAssumption DEF Wait, StageType, ControlType, Stages
  <2>3. CASE Hang
    BY <2>3 DEF Hang, StageType
  <2>4. CASE UNCHANGED stages
    BY <2>4 DEF stages, StageType
  <2>5. ASSUME NEW i \in 1..n,
               WriteOut(i) \/ WriteErr(i) \/ ReadIn(i)
        PROVE  StageType'
    <3>1. i \in Stages /\ left[i].out \in Nat /\ left[i].err \in Nat
      BY StageFacts DEF StageType
    <3>2. \/ UNCHANGED left
          \/ left' = [left EXCEPT ![i].out = @ - 1] /\ left[i].out > 0
          \/ left' = [left EXCEPT ![i].err = @ - 1] /\ left[i].err > 0
          \/ \E k \in {0, 1} : left' = [left EXCEPT ![i].out = k]
      BY <2>5 DEF WriteOut, WriteErr, ReadIn
    <3>3. left' \in [Stages -> [out : Nat, err : Nat]]
      BY <3>1, <3>2 DEF StageType
    <3>4. UNCHANGED <<child, odd>> /\ (UNCHANGED proc \/ Dies(i))
      BY <2>5 DEF WriteOut, WriteErr, ReadIn
    <3> QED BY <3>1, <3>3, <3>4 DEF StageType, Dies
  <2>6. ASSUME NEW i \in 1..n,
               Finish(i) \/ ExitEarly(i) \/ Fork(i) \/ ChildEnds(i) \/ Kill(i)
        PROVE  StageType'
    <3>1. i \in Stages BY StageFacts
    <3> QED
      BY <2>6, <3>1
         DEF Finish, ExitEarly, Fork, ChildEnds, Kill, Dies, StageType
  <2> QED
    BY <1>1, <2>1, <2>2, <2>3, <2>4, <2>5, <2>6, Steps
       DEF StartFailed, ReadOut, Captured, Expire, ReadErr, stages
<1>2. CASE UNCHANGED vars
  BY <1>2 DEF vars, stages, StageType
<1> QED BY <1>1, <1>2

(* A pipe never holds more than its capacity, nor less than nothing.       *)
LEMMA PipeStep ==
  ASSUME TypeOK, StagesInv, [Next]_vars
  PROVE  PipeType'
<1> USE DEF TypeOK
<1>1. CASE Next
  <2>1. CASE Start
    <3>1. next \in Stages
      BY <2>1, StageFacts DEF Start, StagesInv
    <3> QED BY <2>1, <3>1 DEF Start, PipeType
  <2>2. CASE Wait \/ StartFailed
    BY <2>2 DEF Wait, StartFailed, PipeType
  <2>3. CASE ReadOut
    BY <2>3, StageFacts, PipelineAssumption DEF ReadOut, PipeType
  <2>4. CASE UNCHANGED <<pipes, written>>
    BY <2>4 DEF pipes, PipeType
  <2>5. ASSUME NEW i \in 1..n,
               WriteOut(i) \/ WriteErr(i) \/ ReadErr(i)
        PROVE  PipeType'
    <3>1. i \in Stages BY StageFacts
    <3> QED
      BY <2>5, <3>1, PipelineAssumption DEF WriteOut, WriteErr, ReadErr, PipeType
  <2>6. ASSUME NEW i \in 1..n, ReadIn(i)
        PROVE  PipeType'
    <3>1. i - 1 \in Stages BY <2>6, StageFacts DEF ReadIn
    <3> QED BY <2>6, <3>1, PipelineAssumption DEF ReadIn, PipeType
  <2> QED
    BY <1>1, <2>1, <2>2, <2>3, <2>4, <2>5, <2>6, Steps
       DEF Captured, Expire, Hang, Finish, ExitEarly, Fork, ChildEnds, Kill
<1>2. CASE UNCHANGED vars
  BY <1>2 DEF vars, pipes, PipeType
<1> QED BY <1>1, <1>2

(* What was captured keeps its type.                                       *)
LEMMA CaptureStep ==
  ASSUME TypeOK, [Next]_vars
  PROVE  CaptureType'
<1> USE DEF TypeOK
<1>1. CASE Next
  <2>1. ASSUME Line
        PROVE  result' \in [kept : Nat, truncated : BOOLEAN]
    BY <2>1, PipelineAssumption DEF Line, CaptureType
  <2>2. CASE ReadOut
    BY <2>1, <2>2 DEF ReadOut, CaptureType
  <2>3. ASSUME NEW i \in 1..n, ReadErr(i)
        PROVE  CaptureType'
    BY <2>1, <2>3 DEF ReadErr, CaptureType
  <2>4. CASE UNCHANGED capture
    BY <2>4 DEF capture, CaptureType
  <2> QED
    BY <1>1, <2>2, <2>3, <2>4, Steps
       DEF Start, StartFailed, Captured, Wait, Expire, Hang, WriteOut, WriteErr,
           ReadIn, Finish, ExitEarly, Fork, ChildEnds, Kill
<1>2. CASE UNCHANGED vars
  BY <1>2 DEF vars, capture, CaptureType
<1> QED BY <1>1, <1>2

-----------------------------------------------------------------------------
(* What a step of the stages, of the system or of a reader leaves alone: it *)
(* moves no stage but one that runs, or that has exited, to "exited".       *)
Others ==
  /\ UNCHANGED <<phase, next, held>>
  /\ \A i \in Stages :
       /\ proc'[i] = proc[i] \/ (proc[i] \in {"running", "exited"} /\ proc'[i] = "exited")
       /\ proc'[i] = "running" => proc[i] = "running"
       /\ child'[i] = child[i] \/ child'[i] = "none" \/ proc[i] = "running"

(* The steps that neither start nor wait for a stage, by one name.         *)
LEMMA OthersStep ==
  ASSUME TypeOK, Next
  PROVE  Start \/ StartFailed \/ Captured \/ Wait \/ Others
<1> USE DEF TypeOK
<1>1. CASE ReadOut \/ Expire \/ Hang
  BY <1>1 DEF ReadOut, Expire, Hang, Others, pipes, control, stages
<1>2. ASSUME NEW j \in 1..n,
             \/ ReadErr(j) \/ WriteOut(j) \/ WriteErr(j) \/ ReadIn(j)
             \/ Finish(j) \/ ExitEarly(j) \/ Fork(j) \/ ChildEnds(j) \/ Kill(j)
      PROVE  Others
  <2>1. UNCHANGED <<phase, next, held>>
    BY <1>2
       DEF ReadErr, WriteOut, WriteErr, ReadIn, Finish, ExitEarly, Fork, ChildEnds,
           Kill, control, pipes
  <2>2. UNCHANGED proc \/ (proc[j] \in {"running", "exited"} /\ Dies(j))
    BY <1>2
       DEF ReadErr, WriteOut, WriteErr, ReadIn, Finish, ExitEarly, Fork, ChildEnds,
           Kill, stages, Dies, Running
  <2>3. \/ UNCHANGED child
        \/ proc[j] = "running" /\ \E k : child' = [child EXCEPT ![j] = k]
        \/ child' = [child EXCEPT ![j] = "none"]
        \/ child' = [child EXCEPT ![j] = IF @ = "inGroup" THEN "none" ELSE @]
    BY <1>2
       DEF ReadErr, WriteOut, WriteErr, ReadIn, Finish, ExitEarly, Fork, ChildEnds,
           Kill, stages, Running
  <2> QED
    BY <2>1, <2>2, <2>3, StageFacts DEF Others, Dies, StageType
<1> QED BY <1>1, <1>2, Steps

(* Stages are started in order, and waited for in order.                   *)
LEMMA StagesStep ==
  ASSUME TypeOK, StagesInv, [Next]_vars
  PROVE  StagesInv'
<1> USE DEF TypeOK
<1>0. /\ n \in Nat /\ n \in Stages /\ next \in Nat
      /\ \A i \in 1..n : i \in Stages /\ i \in Int
  BY StageFacts DEF ControlType
<1>1. CASE Next
  <2>0. n' = n BY <1>1, Steps
  <2>1. CASE Start
    <3>1. next \in 1..n /\ \A i \in next..n : proc[i] = "none"
      BY <2>1 DEF Start, StagesInv
    <3>2. \/ /\ proc' = [proc EXCEPT ![next] = "running"]
             /\ held' = [held EXCEPT ![next] = TRUE]
             /\ \/ next = n /\ phase' = "capture"
                \/ next # n /\ phase' = "start" /\ next' = next + 1
          \/ phase' = "failed" /\ next' = next /\ UNCHANGED <<proc, held>>
      BY <2>1 DEF Start, Goto
    <3>3. UNCHANGED child BY <2>1 DEF Start
    <3>4. \A i \in Stages : proc'[i] = "none" => ~held'[i] /\ child'[i] = "none"
      BY <1>0, <3>1, <3>2, <3>3 DEF StageType, PipeType, StagesInv
    <3>5. phase' \in {"start", "failed"} =>
            next' \in 1..n /\ \A i \in next'..n : proc'[i] = "none"
      BY <1>0, <3>1, <3>2 DEF StageType
    <3>6. phase' \notin {"wait", "returned"}
      BY <3>2
    <3> QED BY <2>0, <3>4, <3>5, <3>6 DEF StagesInv
  <2>2. CASE StartFailed
    BY <1>0, <2>0, <2>2 DEF StartFailed, Goto, StagesInv, stages
  <2>3. CASE Captured
    BY <1>0, <2>0, <2>3 DEF Captured, Goto, StagesInv, stages, pipes
  <2>4. CASE Wait
    <3>1. next \in 0..n /\ \A i \in (next + 1)..n : Gone(i)
      BY <2>4 DEF Wait, StagesInv
    <3>2. \/ next = 0 /\ phase' = "returned" /\ UNCHANGED <<proc, held>>
          \/ /\ next > 0 /\ phase' = "wait" /\ next' = next - 1
             /\ \/ proc[next] = "none" /\ UNCHANGED <<proc, held>>
                \/ /\ proc' = [proc EXCEPT ![next] = "reaped"]
                   /\ held' = [held EXCEPT ![next] = FALSE]
                   /\ proc[next] = "exited"
      BY <2>4 DEF Wait, Goto
    <3>3. UNCHANGED child BY <2>4 DEF Wait
    <3>4. next > 0 => next \in Stages
      BY <1>0, <3>1
    <3>5. \A i \in Stages : proc'[i] = "none" => ~held'[i] /\ child'[i] = "none"
      BY <3>2, <3>3, <3>4 DEF StageType, PipeType, StagesInv
    <3>6. \A i \in (next + 1)..n : Gone(i)'
      BY <1>0, <3>1, <3>2, <3>4 DEF StageType, PipeType, Gone
    <3>7. next > 0 => proc'[next] \in {"none", "reaped"} /\ ~held'[next]
      BY <3>2, <3>4 DEF StageType, PipeType, StagesInv
    <3>8. CASE next = 0
      <4>1. \A i \in 1..n : Gone(i)'
        BY <3>6, <3>8
      <4> QED BY <2>0, <3>2, <3>5, <3>8, <4>1 DEF StagesInv
    <3>9. CASE next > 0
      <4>1. phase' = "wait" /\ next' = next - 1 BY <3>2, <3>9
      <4>2. next' \in 0..n /\ \A i \in (next' + 1)..n : i = next \/ i \in (next + 1)..n
        BY <1>0, <3>1, <3>9, <4>1
      <4>3. \A i \in (next' + 1)..n : Gone(i)'
        BY <3>6, <3>7, <3>9, <4>2 DEF Gone
      <4> QED BY <2>0, <3>5, <4>1, <4>2, <4>3 DEF StagesInv
    <3> QED BY <1>0, <3>8, <3>9
  <2>5. CASE Others
    <3>1. \A i \in Stages : Gone(i) => Gone(i)'
      BY <2>5 DEF Others, Gone
    <3>2. \A i \in Stages : /\ proc[i] = "none" <=> proc'[i] = "none"
                            /\ proc[i] = "none" /\ child[i] = "none" => child'[i] = "none"
      BY <2>5 DEF Others
    <3>3. UNCHANGED <<phase, next, held>>
      BY <2>5 DEF Others
    <3>4. \A i : (i \in next..n /\ next \in 1..n) \/ i \in (next + 1)..n => i \in Stages
      BY <1>0
    <3> QED BY <1>0, <2>0, <3>1, <3>2, <3>3, <3>4 DEF StagesInv
  <2> QED BY <1>1, <2>1, <2>2, <2>3, <2>4, <2>5, OthersStep
<1>2. CASE UNCHANGED vars
  BY <1>2 DEF vars, control, stages, pipes, StagesInv, Gone
<1> QED BY <1>1, <1>2

-----------------------------------------------------------------------------
(* Once a stage and its children are gone, an empty pipe of theirs stays    *)
(* empty.                                                                   *)
LEMMA EndedStays ==
  ASSUME TypeOK, Next, phase # "start", NEW i \in 1..n
  PROVE  /\ ~Alive(i) => ~Alive(i)'
         /\ OutEnded(i) => OutEnded(i)'
         /\ ErrEnded(i) => ErrEnded(i)'
<1> USE DEF TypeOK
<1>0. i \in Stages /\ n' = n
  BY StageFacts, Steps
<1>1. ~Alive(i) => ~Alive(i)'
  <2>1. CASE StartFailed \/ Captured
    BY <2>1 DEF StartFailed, Captured, stages, Alive, Running
  <2>2. CASE Wait
    <3>1. proc' = proc \/ proc' = [proc EXCEPT ![next] = "reaped"]
      BY <2>2 DEF Wait
    <3> QED BY <1>0, <2>2, <3>1 DEF Wait, Alive, Running, StageType
  <2>3. CASE Others
    BY <1>0, <2>3 DEF Others, Alive, Running, StageType
  <2> QED BY <2>1, <2>2, <2>3, OthersStep DEF Start
<1>2. ~Alive(i) /\ out[i] = 0 => out'[i] = 0
  <2> SUFFICES ASSUME ~Alive(i), out[i] = 0 PROVE out'[i] = 0
    OBVIOUS
  <2>1. CASE ReadOut
    BY <1>0, <2>1, StageFacts DEF ReadOut, PipeType
  <2>2. ASSUME NEW j \in 1..n, WriteOut(j)
        PROVE  out'[i] = 0
    <3>1. j # i BY <2>2 DEF WriteOut, Alive
    <3> QED BY <1>0, <2>2, <3>1 DEF WriteOut, PipeType
  <2>3. ASSUME NEW j \in 1..n, ReadIn(j)
        PROVE  out'[i] = 0
    <3>1. j - 1 # i BY <2>3 DEF ReadIn
    <3> QED BY <1>0, <2>3, <3>1 DEF ReadIn, PipeType
  <2>4. CASE UNCHANGED out BY <2>4
  <2> QED
    BY <2>1, <2>2, <2>3, <2>4, Steps
       DEF Start, StartFailed, Captured, Wait, Expire, Hang, ReadErr, WriteErr,
           Finish, ExitEarly, Fork, ChildEnds, Kill, pipes
<1>3. ~Alive(i) /\ err[i] = 0 => err'[i] = 0
  <2> SUFFICES ASSUME ~Alive(i), err[i] = 0 PROVE err'[i] = 0
    OBVIOUS
  <2>1. ASSUME NEW j \in 1..n, WriteErr(j)
        PROVE  err'[i] = 0
    <3>1. j # i BY <2>1 DEF WriteErr, Alive
    <3> QED BY <1>0, <2>1, <3>1 DEF WriteErr, PipeType
  <2>2. ASSUME NEW j \in 1..n, ReadErr(j)
        PROVE  err'[i] = 0
    BY <1>0, <2>2 DEF ReadErr, PipeType
  <2>3. CASE UNCHANGED err BY <2>3
  <2> QED
    BY <2>1, <2>2, <2>3, Steps
       DEF Start, StartFailed, Captured, Wait, Expire, Hang, ReadOut, WriteOut,
           ReadIn, Finish, ExitEarly, Fork, ChildEnds, Kill, pipes
<1> QED BY <1>1, <1>2, <1>3 DEF OutEnded, ErrEnded

(* What a step does to the readers. *)
LEMMA ReaderMoves ==
  ASSUME TypeOK, Next
  PROVE  \/ UNCHANGED <<outReader, errReader>>
         \/ /\ phase = "capture" /\ UNCHANGED phase
            /\ \/ /\ UNCHANGED errReader /\ outReader = "reading"
                  /\ outReader' = "stopped" \/ (outReader' = "done" /\ OutEnded(n))
               \/ /\ UNCHANGED outReader
                  /\ \E i \in 1..n :
                       /\ errReader[i] = "reading"
                       /\ \/ errReader' = [errReader EXCEPT ![i] = "stopped"]
                          \/ /\ errReader' = [errReader EXCEPT ![i] = "done"]
                             /\ ErrEnded(i)
<1> USE DEF TypeOK
<1>1. CASE ReadOut
  BY <1>1 DEF ReadOut, control
<1>2. ASSUME NEW i \in 1..n, ReadErr(i)
      PROVE  \/ UNCHANGED <<outReader, errReader>>
             \/ /\ phase = "capture" /\ UNCHANGED <<phase, outReader>>
                /\ errReader[i] = "reading"
                /\ \/ errReader' = [errReader EXCEPT ![i] = "stopped"]
                   \/ /\ errReader' = [errReader EXCEPT ![i] = "done"]
                      /\ ErrEnded(i)
  BY <1>2 DEF ReadErr, control
<1>3. CASE UNCHANGED capture
  BY <1>3 DEF capture
<1> QED
  BY <1>1, <1>2, <1>3, Steps
     DEF Start, StartFailed, Captured, Wait, Expire, Hang, WriteOut, WriteErr,
         ReadIn, Finish, ExitEarly, Fork, ChildEnds, Kill

(* A reader is done only when its pipe is empty and has no writer left.    *)
LEMMA ReadersStep ==
  ASSUME TypeOK, ReadersInv, [Next]_vars
  PROVE  ReadersInv'
<1> USE DEF TypeOK
<1>1. CASE Next
  <2>0. n' = n /\ n \in 1..n /\ \A i \in 1..n : i \in Stages
    BY <1>1, Steps, StageFacts
  <2>1. phase' \in {"start", "failed"} => phase \in {"start", "failed"}
    BY <1>1, OthersStep DEF Start, StartFailed, Captured, Wait, Others, Goto
  <2>2. phase' \in {"start", "failed"} =>
          outReader' = "reading" /\ \A i \in 1..n : errReader'[i] = "reading"
    BY <1>1, <2>1, ReaderMoves DEF ReadersInv
  <2>3. outReader' = "done" => OutEnded(n)'
    <3>1. outReader' = "done" => OutEnded(n) /\ phase # "start"
      BY <1>1, ReaderMoves DEF ReadersInv
    <3> QED BY <1>1, <2>0, <3>1, EndedStays DEF OutEnded, Alive, Running
  <2>4. ASSUME NEW i \in 1..n, errReader'[i] = "done"
        PROVE  ErrEnded(i)'
    <3>1. ErrEnded(i) /\ phase # "start"
      <4>1. CASE errReader[i] = "done"
        BY <2>4, <4>1 DEF ReadersInv
      <4>2. CASE errReader[i] # "done"
        BY <1>1, <2>0, <2>4, <4>2, ReaderMoves DEF CaptureType
      <4> QED BY <4>1, <4>2
    <3> QED BY <1>1, <3>1, EndedStays
  <2> QED BY <2>0, <2>2, <2>3, <2>4 DEF ReadersInv
<1>2. CASE UNCHANGED vars
  BY <1>2
     DEF vars, control, stages, pipes, capture, ReadersInv, OutEnded, ErrEnded,
         Alive, Running
<1> QED BY <1>1, <1>2

(* The executor waits only once the captures are over.                     *)
LEMMA WaitStep ==
  ASSUME TypeOK, StagesInv, WaitInv, [Next]_vars
  PROVE  WaitInv'
<1> USE DEF TypeOK
<1>1. CASE Next
  <2>0. n' = n /\ n \in 1..n /\ \A i \in 1..n : i \in Stages
    BY <1>1, Steps, StageFacts
  <2>1. CASE phase \in {"wait", "returned"}
    <3>1. UNCHANGED <<outReader, errReader>>
      BY <1>1, <2>1, ReaderMoves
    <3>2. Failed => Failed'
      <4>1. ASSUME NEW i \in 1..n, proc[i] = "none"
            PROVE  proc'[i] = "none"
        <5>1. CASE Wait
          <6>1. UNCHANGED proc \/ (proc[next] = "exited" /\ proc' = [proc EXCEPT ![next] = "reaped"])
            BY <5>1 DEF Wait
          <6> QED BY <2>0, <4>1, <6>1 DEF StageType
        <5>2. CASE Others
          BY <2>0, <4>1, <5>2 DEF Others
        <5> QED
          BY <1>1, <2>1, <5>1, <5>2, OthersStep DEF Start, StartFailed, Captured
      <4> QED BY <2>0, <4>1 DEF Failed
    <3> QED BY <2>0, <2>1, <3>1, <3>2 DEF WaitInv
  <2>2. CASE Captured
    BY <2>0, <2>2 DEF Captured, WaitInv, capture
  <2>3. CASE StartFailed
    <3>1. next \in 1..n /\ proc[next] = "none"
      BY <2>0, <2>3, StageFacts DEF StartFailed, StagesInv
    <3> QED BY <2>0, <2>3, <3>1 DEF StartFailed, WaitInv, Failed, stages
  <2>4. CASE phase \notin {"wait", "returned"} /\ ~Captured /\ ~StartFailed
    BY <1>1, <2>4, OthersStep DEF Start, Wait, Others, Goto, WaitInv
  <2> QED BY <2>1, <2>2, <2>3, <2>4
<1>2. CASE UNCHANGED vars
  BY <1>2 DEF vars, control, stages, capture, WaitInv, Failed
<1> QED BY <1>1, <1>2

-----------------------------------------------------------------------------
(* Counting the lines in the pipes of the errors. *)
LEMMA ErrFinite ==
  ASSUME TypeOK
  PROVE  IsFiniteSet(InErr) /\ Cardinality(InErr) \in Nat
<1>1. IsFiniteSet(1..n) /\ IsFiniteSet(1..Capacity)
  BY FS_Interval, StageFacts, PipelineAssumption DEF TypeOK
<1>2. IsFiniteSet((1..n) \X (1..Capacity))
  BY <1>1, FS_Product
<1>3. InErr \subseteq (1..n) \X (1..Capacity)
  BY DEF InErr
<1> QED BY <1>2, <1>3, FS_Subset, FS_CardinalityType

(* A line written to a pipe of errors is one line more on its way.         *)
LEMMA ErrAdded ==
  ASSUME TypeOK, NEW i \in 1..n, err[i] < Capacity, n' = n,
         err' = [err EXCEPT ![i] = @ + 1]
  PROVE  Cardinality(InErr') = Cardinality(InErr) + 1
<1>1. err \in [Stages -> 0..Capacity] /\ i \in Stages /\ Capacity \in Nat
  BY StageFacts, PipelineAssumption DEF TypeOK, PipeType
<1>2. \A j \in 1..n : j \in Stages
  BY StageFacts DEF TypeOK
<1>3. InErr' = InErr \cup {<<i, err[i] + 1>>}
  <2>1. \A p \in (1..n) \X (1..Capacity) :
          p[2] <= err'[p[1]] <=> p[2] <= err[p[1]] \/ (p[1] = i /\ p[2] = err[i] + 1)
    BY <1>1, <1>2
  <2>2. <<i, err[i] + 1>> \in (1..n) \X (1..Capacity)
    BY <1>1
  <2>3. InErr' = {p \in (1..n) \X (1..Capacity) : p[2] <= err'[p[1]]}
    BY DEF InErr
  <2> QED BY <2>1, <2>2, <2>3 DEF InErr
<1>4. <<i, err[i] + 1>> \notin InErr
  BY <1>1 DEF InErr
<1> QED BY <1>3, <1>4, ErrFinite, FS_AddElement

(* A line read from it is one line less.                                   *)
LEMMA ErrRemoved ==
  ASSUME TypeOK, NEW i \in 1..n, err[i] > 0, n' = n,
         err' = [err EXCEPT ![i] = @ - 1]
  PROVE  Cardinality(InErr') = Cardinality(InErr) - 1
<1>1. err \in [Stages -> 0..Capacity] /\ i \in Stages /\ Capacity \in Nat
  BY StageFacts, PipelineAssumption DEF TypeOK, PipeType
<1>2. \A j \in 1..n : j \in Stages
  BY StageFacts DEF TypeOK
<1>3. InErr' = InErr \ {<<i, err[i]>>}
  <2>1. \A p \in (1..n) \X (1..Capacity) :
          p[2] <= err'[p[1]] <=> p[2] <= err[p[1]] /\ ~(p[1] = i /\ p[2] = err[i])
    BY <1>1, <1>2
  <2>2. \A p \in (1..n) \X (1..Capacity) :
          p = <<i, err[i]>> <=> p[1] = i /\ p[2] = err[i]
    OBVIOUS
  <2>3. InErr' = {p \in (1..n) \X (1..Capacity) : p[2] <= err'[p[1]]}
    BY DEF InErr
  <2> QED BY <2>1, <2>2, <2>3 DEF InErr
<1>4. <<i, err[i]>> \in InErr
  BY <1>1 DEF InErr
<1> QED BY <1>3, <1>4, ErrFinite, FS_RemoveElement

(* A line that leaves the result untruncated was kept.                     *)
LEMMA LineKept ==
  ASSUME CaptureType, Line, ~result'.truncated
  PROVE  /\ ~result.truncated /\ result.kept \in Nat
         /\ result'.kept = result.kept + 1
<1> DEFINE room == MaxCapture - result.kept
<1>1. result.kept \in Nat /\ room \in Int
  BY PipelineAssumption DEF CaptureType
<1>2. result' = [kept      |-> IF room > 0 THEN result.kept + 1 ELSE result.kept,
                 truncated |-> result.truncated \/ room <= 1]
  BY DEF Line
<1> HIDE DEF room
<1>3. result'.truncated <=> result.truncated \/ room <= 1
  BY ONLY <1>2
<1>4. ~result.truncated /\ room > 0
  BY <1>1, <1>3
<1> QED BY <1>1, <1>2, <1>4

(* No line is lost on its way: each is in a pipe, captured or cut.         *)
LEMMA CountStep ==
  ASSUME TypeOK, CountInv, [Next]_vars
  PROVE  CountInv'
<1> USE DEF TypeOK
<1>1. CASE Next
  <2>0. n' = n /\ n \in 1..n /\ n \in Stages /\ \A i \in 1..n : i \in Stages
    BY <1>1, Steps, StageFacts
  <2> SUFFICES ASSUME ~Stopped', ~result'.truncated
               PROVE  written' = result'.kept + out'[n] + Cardinality(InErr')
    BY <2>0 DEF CountInv
  <2>1. ~Stopped
    BY <1>1, <2>0, ReaderMoves DEF Stopped, CaptureType
  <2>2. ASSUME result' # result
        PROVE  /\ result.kept \in Nat /\ ~result.truncated
               /\ result'.kept = result.kept + 1
    <3>1. Line
      BY <1>1, <2>2, Steps
         DEF Start, StartFailed, Captured, Wait, Expire, Hang, ReadOut, ReadErr,
             WriteOut, WriteErr, ReadIn, Finish, ExitEarly, Fork, ChildEnds, Kill, capture
    <3> QED BY <3>1, LineKept
  <2>3. ~result.truncated
    BY <2>2
  <2>4. /\ written = result.kept + out[n] + Cardinality(InErr)
        /\ out[n] \in Nat /\ result.kept \in Nat /\ written \in Nat
        /\ Cardinality(InErr) \in Nat
    BY <2>0, <2>1, <2>3, ErrFinite DEF CountInv, PipeType, CaptureType
  <2>5. UNCHANGED err => Cardinality(InErr') = Cardinality(InErr)
    BY <2>0 DEF InErr
  <2>6. CASE UNCHANGED <<out, err, result, written>>
    BY <2>0, <2>4, <2>5, <2>6
  <2>7. CASE ReadOut
    <3>1. /\ UNCHANGED <<err, written>>
          /\ \/ Line /\ out[n] > 0 /\ out' = [out EXCEPT ![n] = @ - 1]
             \/ outReader' = "stopped"
             \/ UNCHANGED <<out, result>>
      BY <2>7 DEF ReadOut
    <3>2. Line => result'.kept = result.kept + 1
      BY LineKept
    <3>3. out' = [out EXCEPT ![n] = @ - 1] => out'[n] = out[n] - 1
      BY <2>0 DEF PipeType
    <3> QED BY <2>0, <2>4, <2>5, <3>1, <3>2, <3>3 DEF Stopped
  <2>8. ASSUME NEW i \in 1..n, ReadErr(i)
        PROVE  written' = result'.kept + out'[n] + Cardinality(InErr')
    <3>1. /\ UNCHANGED <<out, written>>
          /\ \/ Line /\ err[i] > 0 /\ err' = [err EXCEPT ![i] = @ - 1]
             \/ errReader' = [errReader EXCEPT ![i] = "stopped"]
             \/ UNCHANGED <<err, result>>
      BY <2>8 DEF ReadErr
    <3>2. Line => result'.kept = result.kept + 1
      BY LineKept
    <3>3. errReader' # [errReader EXCEPT ![i] = "stopped"]
      BY <2>0 DEF Stopped, CaptureType
    <3>4. CASE UNCHANGED <<err, result>>
      BY <2>4, <2>5, <3>1, <3>4
    <3>5. CASE Line /\ err[i] > 0 /\ err' = [err EXCEPT ![i] = @ - 1]
      <4>1. Cardinality(InErr') = Cardinality(InErr) - 1
        BY <2>0, <3>5, ErrRemoved
      <4> QED BY <2>4, <3>1, <3>2, <3>5, <4>1
    <3> QED BY <3>1, <3>3, <3>4, <3>5
  <2>9. ASSUME NEW i \in 1..n, WriteOut(i)
        PROVE  written' = result'.kept + out'[n] + Cardinality(InErr')
    <3>1. /\ UNCHANGED <<err, result>>
          /\ \/ /\ out' = [out EXCEPT ![i] = @ + 1]
                /\ written' = IF i = n THEN written + 1 ELSE written
             \/ UNCHANGED <<out, written>>
      BY <2>9 DEF WriteOut, capture
    <3>2. CASE out' = [out EXCEPT ![i] = @ + 1]
      <4>1. out'[n] = IF i = n THEN out[n] + 1 ELSE out[n]
        BY <2>0, <3>2 DEF PipeType
      <4>2. out' # out
        BY <2>0, <3>2 DEF PipeType
      <4> QED BY <2>4, <2>5, <3>1, <4>1, <4>2
    <3> QED BY <2>4, <2>5, <3>1, <3>2
  <2>10. ASSUME NEW i \in 1..n, WriteErr(i)
         PROVE  written' = result'.kept + out'[n] + Cardinality(InErr')
    <3>1. /\ UNCHANGED <<out, result>>
          /\ \/ /\ err[i] < Capacity /\ err' = [err EXCEPT ![i] = @ + 1]
                /\ written' = written + 1
             \/ UNCHANGED <<err, written>>
      BY <2>10 DEF WriteErr, capture
    <3>2. CASE /\ err[i] < Capacity /\ err' = [err EXCEPT ![i] = @ + 1]
               /\ written' = written + 1
      <4>1. Cardinality(InErr') = Cardinality(InErr) + 1
        BY <2>0, <3>2, ErrAdded
      <4> QED BY <2>4, <3>1, <3>2, <4>1
    <3> QED BY <2>4, <2>5, <3>1, <3>2
  <2>11. ASSUME NEW i \in 1..n, ReadIn(i)
         PROVE  written' = result'.kept + out'[n] + Cardinality(InErr')
    <3>1. out' = [out EXCEPT ![i - 1] = @ - 1] /\ UNCHANGED <<err, result, written>> /\ i > 1
      BY <2>11 DEF ReadIn, capture
    <3>2. out'[n] = out[n]
      BY <2>0, <3>1, StageFacts DEF PipeType
    <3> QED BY <2>4, <2>5, <3>1, <3>2
  <2> QED
    BY <1>1, <2>6, <2>7, <2>8, <2>9, <2>10, <2>11, Steps
       DEF Start, StartFailed, Captured, Wait, Expire, Hang, Finish, ExitEarly,
           Fork, ChildEnds, Kill, pipes, capture
<1>2. CASE UNCHANGED vars
  BY <1>2 DEF vars, control, pipes, capture, CountInv, Stopped, InErr
<1> QED BY <1>1, <1>2

-----------------------------------------------------------------------------
(* Nothing was written, so nothing is on its way.                          *)
LEMMA InvInit ==
  ASSUME Init
  PROVE  IInv
<1> USE DEF Init
<1>0. n \in Stages /\ n \in Nat /\ n >= 1 /\ \A i \in 1..n : i \in Stages
  BY PipelineAssumption DEF Stages
<1>1. StagesInv /\ ReadersInv /\ WaitInv
  BY <1>0 DEF StagesInv, ReadersInv, WaitInv
<1>2. InErr = {}
  <2>1. \A p \in (1..n) \X (1..Capacity) : err[p[1]] = 0 /\ p[2] \in 1..Capacity
    BY <1>0
  <2>2. \A p \in (1..n) \X (1..Capacity) : ~(p[2] <= err[p[1]])
    BY <2>1, PipelineAssumption
  <2> QED BY <2>2 DEF InErr
<1>3. CountInv
  BY <1>0, <1>2, FS_EmptySet DEF CountInv
<1> QED BY <1>1, <1>3 DEF IInv

(* The invariant that the theorems rest on: its types, and what each phase *)
(* of RunCommand and RunPipeline knows of the stages, of the readers and of *)
(* the lines in the pipes.                                                 *)
THEOREM InvCorrect == Spec => [](TypeOK /\ IInv)
<1>1. Init => TypeOK /\ IInv
  BY TypeInit, InvInit
<1>2. TypeOK /\ IInv /\ [Next]_vars => (TypeOK /\ IInv)'
  <2> SUFFICES ASSUME TypeOK, IInv, [Next]_vars
               PROVE  (TypeOK /\ IInv)'
    OBVIOUS
  <2>1. ControlType /\ StagesInv /\ ReadersInv /\ WaitInv /\ CountInv
    BY DEF TypeOK, IInv
  <2>2. TypeOK'
    BY <2>1, ControlStep, StageStep, PipeStep, CaptureStep DEF TypeOK
  <2>3. StagesInv' /\ ReadersInv' /\ WaitInv' /\ CountInv'
    BY <2>1, StagesStep, ReadersStep, WaitStep, CountStep
  <2> QED BY <2>2, <2>3 DEF IInv
<1> QED BY <1>1, <1>2, PTL DEF Spec

(* However a call of the shell tool comes back, every stage that it had    *)
(* started has been waited for and every pipe closed.                      *)
THEOREM NothingLeftBehind == Spec => []Reaped
<1>1. IInv => Reaped
  BY DEF IInv, StagesInv, Reaped, Gone
<1> QED BY <1>1, InvCorrect, PTL

(* Also when its limit passed, a pipeline that was started returns only    *)
(* when every pipe was read to its end and can have no writer any more, or *)
(* up to a line too long.                                                  *)
THEOREM PipesDrained == Spec => []Drained
<1>1. TypeOK /\ IInv => Drained
  <2> SUFFICES ASSUME TypeOK, IInv, phase = "returned", ~Failed
               PROVE  /\ outReader = "stopped" \/ OutEnded(n)
                      /\ \A i \in 1..n : errReader[i] = "stopped" \/ ErrEnded(i)
    BY DEF Drained
  <2>1. \A i \in 1..n : errReader[i] \in {"reading", "stopped", "done"}
    BY StageFacts DEF TypeOK, CaptureType
  <2> QED BY <2>1 DEF IInv, WaitInv, ReadersInv, TypeOK, CaptureType
<1> QED BY <1>1, InvCorrect, PTL

(* The result of a pipeline that ended within its limit, with no line too  *)
(* long, has every line that was written to the pipes captured, or says    *)
(* that it is truncated.                                                   *)
THEOREM ResultComplete == Spec => []OutputComplete
<1>1. TypeOK /\ IInv => OutputComplete
  <2> SUFFICES ASSUME TypeOK, IInv, phase = "returned", ~Stopped, ~Failed,
                      ~result.truncated
               PROVE  result.kept = written
    BY DEF OutputComplete
  <2>0. n \in 1..n /\ \A i \in 1..n : i \in Stages
    BY StageFacts DEF TypeOK
  <2>1. out[n] = 0 /\ \A i \in 1..n : err[i] = 0
    BY <2>0
       DEF IInv, WaitInv, ReadersInv, TypeOK, CaptureType, Stopped, OutEnded, ErrEnded
  <2>2. InErr = {}
    <3>1. \A p \in (1..n) \X (1..Capacity) : err[p[1]] = 0 /\ p[2] \in 1..Capacity
      BY <2>1
    <3>2. \A p \in (1..n) \X (1..Capacity) : ~(p[2] <= err[p[1]])
      BY <3>1, PipelineAssumption
    <3> QED BY <3>2 DEF InErr
  <2>3. written = result.kept + 0 + Cardinality({}) /\ result.kept \in Nat
    BY <2>1, <2>2 DEF IInv, CountInv, TypeOK, CaptureType
  <2> QED BY <2>3, FS_EmptySet
<1> QED BY <1>1, InvCorrect, PTL
=============================================================================
