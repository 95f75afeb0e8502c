--------------------------- MODULE MemoryHookProofs ---------------------------
(***************************************************************************)
(* What is proved of MemoryHook and of the client it uses, McpStdio, for   *)
(* any number of flushes and episodes and any size of the buffer.  The     *)
(* steps of the client are treated first: they leave the hook alone.  The  *)
(* hook's own argument is about sets: an operation on the buffer matters   *)
(* by what it does to the set of the episodes in it.                       *)
(***************************************************************************)
EXTENDS MemoryHook, TLAPS

-----------------------------------------------------------------------------
(* The contents of sequences.                                              *)

(* A sequence that was appended to holds one more. *)
LEMMA ContentsAppend ==
  ASSUME NEW S, NEW s \in Seq(S), NEW x \in S
  PROVE  Contents(Append(s, x)) = Contents(s) \cup {x}
<1> DEFINE t == Append(s, x)
<1>1. DOMAIN t = 1..(Len(s) + 1) /\ DOMAIN s = 1..Len(s) /\ Len(s) \in Nat
  OBVIOUS
<1>2. t[Len(s) + 1] = x /\ \A i \in DOMAIN s : t[i] = s[i]
  OBVIOUS
<1>3. \A i \in DOMAIN t : i \in DOMAIN s \/ i = Len(s) + 1
  BY <1>1
<1>4. DOMAIN s \subseteq DOMAIN t /\ Len(s) + 1 \in DOMAIN t
  BY <1>1
<1> HIDE DEF t
<1> QED BY <1>2, <1>3, <1>4 DEF Contents, t

(* A sequence cut in two holds what its parts hold. *)
LEMMA ContentsSplit ==
  ASSUME NEW S, NEW s \in Seq(S), NEW k \in 0..Len(s)
  PROVE  /\ SubSeq(s, 1, k) \in Seq(S) /\ SubSeq(s, k + 1, Len(s)) \in Seq(S)
         /\ Contents(s) = Contents(SubSeq(s, 1, k)) \cup Contents(SubSeq(s, k + 1, Len(s)))
<1> DEFINE a == SubSeq(s, 1, k)
           b == SubSeq(s, k + 1, Len(s))
<1>1. Len(s) \in Nat /\ k \in Nat /\ k <= Len(s) /\ DOMAIN s = 1..Len(s)
  OBVIOUS
<1>2. a \in Seq(S) /\ DOMAIN a = 1..k /\ \A i \in 1..k : a[i] = s[i]
  BY <1>1
<1>3. /\ b \in Seq(S) /\ DOMAIN b = 1..(Len(s) - k)
      /\ \A i \in 1..(Len(s) - k) : b[i] = s[k + i]
  BY <1>1
<1> HIDE DEF a, b
<1>4. ASSUME NEW i \in DOMAIN s
      PROVE  s[i] \in Contents(a) \cup Contents(b)
  <2>1. CASE i <= k
    BY <1>1, <1>2, <2>1 DEF Contents
  <2>2. CASE ~(i <= k)
    <3>1. i - k \in DOMAIN b /\ b[i - k] = s[i]
      BY <1>1, <1>3, <2>2
    <3> QED BY <3>1 DEF Contents
  <2> QED BY <2>1, <2>2
<1>5. Contents(a) \subseteq Contents(s)
  BY <1>1, <1>2 DEF Contents
<1>6. Contents(b) \subseteq Contents(s)
  <2>1. ASSUME NEW i \in DOMAIN b
        PROVE  k + i \in DOMAIN s /\ b[i] = s[k + i]
    BY <1>1, <1>3
  <2> QED BY <2>1 DEF Contents
<1>7. Contents(s) \subseteq Contents(a) \cup Contents(b)
  BY <1>4 DEF Contents
<1> QED BY <1>2, <1>3, <1>5, <1>6, <1>7 DEF a, b

(* One put in front of another holds what both hold. *)
LEMMA ContentsConcat ==
  ASSUME NEW S, NEW s \in Seq(S), NEW t \in Seq(S)
  PROVE  /\ s \o t \in Seq(S)
         /\ Contents(s \o t) = Contents(s) \cup Contents(t)
<1> DEFINE u == s \o t
<1>1. /\ Len(s) \in Nat /\ Len(t) \in Nat
      /\ DOMAIN s = 1..Len(s) /\ DOMAIN t = 1..Len(t)
      /\ u \in Seq(S) /\ DOMAIN u = 1..(Len(s) + Len(t))
  OBVIOUS
<1>2. /\ \A i \in 1..Len(s) : u[i] = s[i]
      /\ \A i \in 1..Len(t) : u[Len(s) + i] = t[i]
  BY <1>1
<1> HIDE DEF u
<1>3. ASSUME NEW i \in DOMAIN u
      PROVE  u[i] \in Contents(s) \cup Contents(t)
  <2>1. CASE i <= Len(s)
    BY <1>1, <1>2, <2>1 DEF Contents
  <2>2. CASE ~(i <= Len(s))
    <3>1. i - Len(s) \in DOMAIN t /\ t[i - Len(s)] = u[i]
      BY <1>1, <1>2, <2>2
    <3> QED BY <3>1 DEF Contents
  <2> QED BY <2>1, <2>2
<1>4. Contents(s) \subseteq Contents(u)
  BY <1>1, <1>2 DEF Contents
<1>5. Contents(t) \subseteq Contents(u)
  <2>1. ASSUME NEW i \in DOMAIN t
        PROVE  Len(s) + i \in DOMAIN u /\ u[Len(s) + i] = t[i]
    BY <1>1, <1>2
  <2> QED BY <2>1 DEF Contents
<1>6. Contents(u) \subseteq Contents(s) \cup Contents(t)
  BY <1>3 DEF Contents
<1> QED BY <1>1, <1>4, <1>5, <1>6 DEF u

(* What a sequence of episodes holds are episodes. *)
LEMMA ContentsType ==
  /\ Contents(<<>>) = {}
  /\ \A S : \A s \in Seq(S) : Contents(s) \subseteq S
<1>1. Contents(<<>>) = {} BY DEF Contents
<1>2. ASSUME NEW S, NEW s \in Seq(S), NEW i \in DOMAIN s
      PROVE  s[i] \in S
  OBVIOUS
<1> QED BY <1>1, <1>2 DEF Contents
-----------------------------------------------------------------------------
(* The client.                                                             *)

(* A step of the hook, or of the client alone. *)
LEMMA Steps ==
  ASSUME Next
  PROVE  \/ AfterTurn \/ Reconfigure
         \/ \E c \in Callers : Claim(c) \/ Drop(c) \/ LearnBatch(c) \/ Store(c) \/ Settle(c)
         \/ /\ UNCHANGED hookVars
            /\ \/ Die \/ Fork \/ Reap \/ Connect \/ Abandon
               \/ Close \/ CloseSession \/ Kill \/ Join
               \/ \E c \in Callers :
                    Receive(c) \/ Timeout(c) \/ ConnectionEnds(c) \/ Annotate(c)
BY DEF Next, Client, McpSystem

(* What the hook does to the client: nothing, or a call, or a request that *)
(* is handled.                                                             *)
LEMMA ClientSteps ==
  ASSUME [Next]_vars
  PROVE  \/ UNCHANGED mcpVars
         \/ Die \/ Fork \/ Reap \/ Connect \/ Abandon
         \/ Close \/ CloseSession \/ Kill \/ Join
         \/ \E c \in Callers :
              \/ Receive(c) \/ Timeout(c) \/ ConnectionEnds(c) \/ Annotate(c)
              \/ Call(c) \/ Handle(c)
<1>1. CASE Next
  BY <1>1, Steps DEF AfterTurn, Reconfigure, Claim, Drop, LearnBatch, Store, Settle
<1>2. CASE UNCHANGED vars
  BY <1>2 DEF vars
<1> QED BY <1>1, <1>2

(* Every variable of the client keeps its type.                            *)
LEMMA McpTypeStep ==
  ASSUME McpType, [Next]_vars
  PROVE  McpType'
<1>1. CASE UNCHANGED mcpVars
  BY <1>1 DEF mcpVars, process, calls, McpType
<1>2. CASE Die \/ Reap
  BY <1>2 DEF Die, Reap, calls, McpType
<1>9. CASE Fork
  <2>1. heir' \in BOOLEAN
    BY <1>9 DEF Fork, McpType
  <2> QED BY <1>9, <2>1 DEF Fork, calls, McpType
<1>8. CASE Connect \/ Abandon
  BY <1>8 DEF Connect, Abandon, calls, McpType
<1>3. CASE Close \/ CloseSession
  BY <1>3 DEF Close, CloseSession, process, calls, McpType
<1>7. CASE Kill \/ Join
  BY <1>7 DEF Kill, Join, calls, McpType
<1>4. ASSUME NEW c \in Callers, Receive(c) \/ Timeout(c) \/ ConnectionEnds(c)
      PROVE  McpType'
  <2>1. reply[c] \in {"none", "ok", "rejected"} BY DEF McpType
  <2> QED BY <1>4, <2>1 DEF Receive, Timeout, ConnectionEnds, Returns, process, calls, McpType
<1>5. ASSUME NEW c \in Callers, Annotate(c) \/ Call(c)
      PROVE  McpType'
  <2>1. /\ UNCHANGED <<client, child, heir, closed, closing, reply>>
        /\ UNCHANGED <<exitErr, waitDone>> \/ CheckChild
    BY <1>5 DEF Annotate, Call
  <2>2. /\ \E t \in {"sent", "returned"} : stage' = [stage EXCEPT ![c] = t]
        /\ \/ UNCHANGED answer
           \/ \E a \in {"closed", "exited", answer[c]} : answer' = [answer EXCEPT ![c] = a]
    BY <1>5 DEF Annotate, Call, Returns
  <2>3. exitErr' \in BOOLEAN /\ waitDone' \in {"empty", "full", "taken"}
    BY <2>1 DEF CheckChild, Dead, McpType
  <2>4. /\ stage' \in [Callers -> {"idle", "sent", "failing", "returned"}]
        /\ answer' \in [Callers -> {"none", "ok", "rejected", "timeout", "lost",
                                   "exited", "closed"}]
    BY <2>2 DEF McpType
  <2> QED BY <2>1, <2>3, <2>4 DEF McpType
<1>6. ASSUME NEW c \in Callers, Handle(c)
      PROVE  McpType'
  BY <1>6 DEF Handle, process, calls, McpType
<1> QED BY <1>1, <1>2, <1>3, <1>4, <1>5, <1>6, <1>7, <1>8, <1>9, ClientSteps

(* The end of the child is received once, and not forgotten.               *)
LEMMA ReaperStep ==
  ASSUME McpType, ReaperInv, [Next]_vars
  PROVE  ReaperInv'
<1>1. CASE UNCHANGED mcpVars
  BY <1>1 DEF mcpVars, process, calls, ReaperInv
<1>2. CASE Die \/ Fork \/ Reap \/ Connect \/ Abandon
  BY <1>2 DEF Die, Fork, Reap, Connect, Abandon, process, calls, McpType, ReaperInv
<1>3. CASE Close \/ CloseSession \/ Kill \/ Join
  BY <1>3 DEF Close, CloseSession, Kill, Join, process, calls, McpType, ReaperInv
<1>4. ASSUME NEW c \in Callers,
             Receive(c) \/ Timeout(c) \/ ConnectionEnds(c) \/ Handle(c)
      PROVE  ReaperInv'
  BY <1>4 DEF Receive, Timeout, ConnectionEnds, Handle, process, ReaperInv
<1>5. ASSUME NEW c \in Callers, Annotate(c) \/ Call(c)
      PROVE  ReaperInv'
  BY <1>5 DEF Annotate, Call, CheckChild, Dead, McpType, ReaperInv
<1> QED BY <1>1, <1>2, <1>3, <1>4, <1>5, ClientSteps

(* What a step does to a call: once it has returned its answer stays, a    *)
(* reply stays, and a success is a reply of the server.  Only Call starts  *)
(* one and only Handle replies.                                            *)
CallKept(c) ==
  /\ stage[c] # "idle" => stage'[c] # "idle"
  /\ stage[c] = "returned" => stage'[c] = "returned" /\ answer'[c] = answer[c]
  /\ reply[c] # "none" => reply'[c] = reply[c]
  /\ answer'[c] # answer[c] /\ answer'[c] = "ok" =>
       reply[c] = "ok" /\ stage'[c] = "returned" /\ stage[c] # "idle"
  /\ stage'[c] = "idle" => answer'[c] = answer[c]
  /\ stage[c] = "idle" /\ stage'[c] # "idle" => Call(c)
  /\ reply'[c] # reply[c] => Handle(c)

(* How a call moves from stage to stage.                                   *)
LEMMA CallMoves ==
  ASSUME McpType, CallInv, [Next]_vars, NEW d \in Callers
  PROVE  CallKept(d)
<1>0. CASE UNCHANGED <<stage[d], answer[d], reply[d]>>
  BY <1>0 DEF CallKept
<1>1. CASE UNCHANGED calls
  BY <1>1 DEF calls, CallKept
<1>2. ASSUME NEW c \in Callers,
             Receive(c) \/ Timeout(c) \/ ConnectionEnds(c) \/ Annotate(c)
      PROVE  CallKept(d)
  <2>1. \/ UNCHANGED <<stage[d], answer[d], reply[d]>>
        \/ /\ stage[d] \in {"sent", "failing"} /\ stage'[d] \in {"failing", "returned"}
           /\ reply'[d] = reply[d]
           /\ answer'[d] = "ok" => reply[d] = "ok" /\ stage'[d] = "returned"
    <3>1. CASE c # d
      BY <1>2, <3>1 DEF Receive, Timeout, ConnectionEnds, Annotate, Returns, McpType
    <3>2. CASE c = d /\ Receive(c)
      BY <3>2 DEF Receive, Returns, McpType
    <3>3. CASE c = d /\ (Timeout(c) \/ ConnectionEnds(c))
      BY <3>3 DEF Timeout, ConnectionEnds, McpType
    <3>4. CASE c = d /\ Annotate(c)
      BY <3>4 DEF Annotate, Returns, McpType, CallInv
    <3> QED BY <1>2, <3>1, <3>2, <3>3, <3>4
  <2> QED BY <2>1 DEF CallKept
<1>3. ASSUME NEW c \in Callers, Call(c)
      PROVE  CallKept(d)
  <2>1. CASE c # d
    BY <1>0, <1>3, <2>1 DEF Call, Returns, McpType
  <2>2. CASE c = d
    <3>1. /\ stage[d] = "idle" /\ stage'[d] \in {"sent", "returned"}
          /\ reply'[d] = reply[d] /\ answer'[d] # "ok"
      BY <1>3, <2>2 DEF Call, Returns, McpType, CallInv
    <3> QED BY <1>3, <2>2, <3>1 DEF CallKept
  <2> QED BY <2>1, <2>2
<1>4. ASSUME NEW c \in Callers, Handle(c)
      PROVE  CallKept(d)
  <2>1. CASE c # d
    BY <1>0, <1>4, <2>1 DEF Handle, McpType
  <2>2. CASE c = d
    BY <1>4, <2>2 DEF Handle, CallKept
  <2> QED BY <2>1, <2>2
<1> QED
  BY <1>1, <1>2, <1>3, <1>4, ClientSteps
     DEF Die, Fork, Reap, Connect, Abandon, Close, CloseSession, Kill, Join, mcpVars

(* A call is answered only while it is under way.                          *)
LEMMA CallStep ==
  ASSUME McpType, CallInv, [Next]_vars
  PROVE  CallInv'
<1> SUFFICES ASSUME NEW c \in Callers
             PROVE  /\ stage'[c] = "idle" => reply'[c] = "none" /\ answer'[c] = "none"
                    /\ answer'[c] = "ok" => reply'[c] = "ok" /\ stage'[c] = "returned"
  BY DEF CallInv
<1>1. /\ stage[c] = "idle" => reply[c] = "none" /\ answer[c] = "none"
      /\ answer[c] = "ok" => reply[c] = "ok" /\ stage[c] = "returned"
  BY DEF CallInv
<1>2. CallKept(c)
  BY CallMoves
<1>3. reply'[c] # reply[c] => stage[c] # "idle"
  BY <1>2 DEF CallKept, Handle, WasSent
<1> QED BY ONLY <1>1, <1>2, <1>3 DEF CallKept

-----------------------------------------------------------------------------
(* The hook.                                                               *)

(* What AfterTurn does to the places of the episodes: the new one comes    *)
(* into the buffer, and what leaves it is evicted.                         *)
LEMMA TurnMoves ==
  ASSUME HookType, AfterTurn
  PROVE  /\ turns' = turns + 1 /\ turns' \in Episodes
         /\ buffer' \in Seq(Episodes) /\ evicted' \subseteq Episodes
         /\ Contents(buffer') \subseteq Contents(buffer) \cup {turns'}
         /\ Contents(buffer) \cup {turns'} \cup evicted = Contents(buffer') \cup evicted'
<1> DEFINE all  == Append(buffer, turns + 1)
           over == IF Len(all) > MaxBuffer THEN Len(all) - MaxBuffer ELSE 0
<1>1. /\ turns' = turns + 1 /\ turns < MaxEpisodes
      /\ buffer' = SubSeq(all, over + 1, Len(all))
      /\ evicted' = evicted \cup Contents(SubSeq(all, 1, over))
  BY DEF AfterTurn
<1>2. turns + 1 \in Episodes
  BY <1>1, HookAssumption DEF HookType, Episodes
<1>3. all \in Seq(Episodes) /\ Len(all) \in Nat
  BY <1>2 DEF HookType
<1>4. Contents(all) = Contents(buffer) \cup {turns + 1}
  BY <1>2, ContentsAppend DEF HookType
<1> HIDE DEF all
<1>5. over \in 0..Len(all)
  BY <1>3, HookAssumption
<1> HIDE DEF over
<1>6. /\ SubSeq(all, 1, over) \in Seq(Episodes)
      /\ SubSeq(all, over + 1, Len(all)) \in Seq(Episodes)
      /\ Contents(all) = Contents(SubSeq(all, 1, over))
                           \cup Contents(SubSeq(all, over + 1, Len(all)))
  BY <1>3, <1>5, ContentsSplit
<1>7. Contents(SubSeq(all, 1, over)) \subseteq Episodes
  BY <1>6, ContentsType
<1> QED BY <1>1, <1>2, <1>4, <1>6, <1>7 DEF HookType

(* A flush ends in success, or with its batch back in the buffer.          *)
LEMMA SettleMoves ==
  ASSUME HookType, NEW c \in Callers, Settle(c)
  PROVE  /\ flush[c] = "calling" /\ stage[c] = "returned"
         /\ flush' = [flush EXCEPT ![c] = "done"]
         /\ buffer' \in Seq(Episodes)
         /\ Contents(buffer') = IF answer[c] = "ok" THEN Contents(buffer)
                                ELSE Contents(batch[c]) \cup Contents(buffer)
<1>1. buffer \in Seq(Episodes) /\ batch[c] \in Seq(Episodes)
  BY DEF HookType
<1>2. /\ batch[c] \o buffer \in Seq(Episodes)
      /\ Contents(batch[c] \o buffer) = Contents(batch[c]) \cup Contents(buffer)
  BY <1>1, ContentsConcat
<1> QED BY <1>1, <1>2 DEF Settle

(* Every variable of the hook keeps its type.                              *)
LEMMA HookTypeStep ==
  ASSUME HookType, [Next]_vars
  PROVE  HookType'
<1>1. CASE UNCHANGED hookVars
  BY <1>1 DEF hookVars, HookType
<1>2. CASE AfterTurn
  <2>1. turns' \in 0..MaxEpisodes
    BY <1>2, TurnMoves, HookAssumption DEF Episodes
  <2> QED BY <1>2, <2>1, TurnMoves DEF AfterTurn, HookType
<1>3. CASE Reconfigure
  BY <1>3 DEF Reconfigure, HookType
<1>4. ASSUME NEW c \in Callers, Claim(c)
      PROVE  HookType'
  <2>1. <<>> \in Seq(Episodes) OBVIOUS
  <2> QED BY <1>4, <2>1 DEF Claim, HookType
<1>5. ASSUME NEW c \in Callers, Drop(c)
      PROVE  HookType'
  <2>1. <<>> \in Seq(Episodes) OBVIOUS
  <2>2. Contents(buffer) \subseteq Episodes
    BY ContentsType DEF HookType
  <2> QED BY <1>5, <2>1, <2>2 DEF Drop, HookType
<1>6. ASSUME NEW c \in Callers, LearnBatch(c)
      PROVE  HookType'
  BY <1>6 DEF LearnBatch, HookType
<1>7. ASSUME NEW c \in Callers, Store(c)
      PROVE  HookType'
  BY <1>7 DEF Store, HookType
<1>8. ASSUME NEW c \in Callers, Settle(c)
      PROVE  HookType'
  BY <1>8, SettleMoves DEF Settle, HookType
<1> QED
  BY <1>1, <1>2, <1>3, <1>4, <1>5, <1>6, <1>7, <1>8, Steps DEF vars, hookVars

(* A flush holds a batch from its claim until it is settled.               *)
LEMMA FlushStep ==
  ASSUME TypeOK, CallInv, FlushInv, [Next]_vars
  PROVE  FlushInv'
<1> SUFFICES ASSUME NEW c \in Callers, stage'[c] # "idle"
             PROVE  flush'[c] = "calling" \/ (flush'[c] = "done" /\ stage'[c] = "returned")
  BY DEF FlushInv
<1>0. /\ flush \in [Callers -> {"idle", "dropping", "claimed", "calling", "done"}]
      /\ batch \in [Callers -> Seq(Episodes)]
  BY DEF TypeOK, HookType
<1>1. CallKept(c)
  BY CallMoves DEF TypeOK
<1>2. stage[c] # "idle" => flush[c] = "calling" \/ (flush[c] = "done" /\ stage[c] = "returned")
  BY DEF FlushInv
<1>3. CASE UNCHANGED <<stage, flush>>
  BY <1>2, <1>3
<1>4. ASSUME NEW d \in Callers, Claim(d) \/ Drop(d)
      PROVE  flush'[c] = "calling" \/ (flush'[c] = "done" /\ stage'[c] = "returned")
  <2>1. /\ UNCHANGED stage /\ flush[d] \in {"idle", "dropping"}
        /\ \E f : flush' = [flush EXCEPT ![d] = f]
    BY <1>4 DEF Claim, Drop, mcpVars, calls
  <2> QED BY <1>0, <1>2, <2>1
<1>5. ASSUME NEW d \in Callers, LearnBatch(d)
      PROVE  flush'[c] = "calling" \/ (flush'[c] = "done" /\ stage'[c] = "returned")
  <2>1. /\ flush' = [flush EXCEPT ![d] = "calling"]
        /\ \E t : stage' = [stage EXCEPT ![d] = t]
    BY <1>5 DEF LearnBatch, Call, Returns
  <2> QED BY <1>0, <1>2, <2>1 DEF TypeOK, McpType
<1>6. ASSUME NEW d \in Callers, Settle(d)
      PROVE  flush'[c] = "calling" \/ (flush'[c] = "done" /\ stage'[c] = "returned")
  BY <1>0, <1>2, <1>6 DEF Settle, mcpVars, calls
<1>7. ASSUME NEW d \in Callers,
             Receive(d) \/ Timeout(d) \/ ConnectionEnds(d) \/ Annotate(d),
             UNCHANGED hookVars
      PROVE  flush'[c] = "calling" \/ (flush'[c] = "done" /\ stage'[c] = "returned")
  <2>1. /\ stage[d] \in {"sent", "failing"}
        /\ \E t : stage' = [stage EXCEPT ![d] = t]
    BY <1>7 DEF Receive, Timeout, ConnectionEnds, Annotate, Returns
  <2>2. stage[c] # "idle"
    BY <2>1 DEF TypeOK, McpType
  <2> QED BY <1>1, <1>2, <1>7, <2>2 DEF CallKept, hookVars
<1> QED
  BY <1>3, <1>4, <1>5, <1>6, <1>7, Steps
     DEF AfterTurn, Reconfigure, Store, Handle, Die, Fork, Reap, Connect, Abandon,
         Close, CloseSession, Kill, Join, calls, mcpVars, hookVars, vars

(* A step that makes nothing live and moves nothing keeps the places apart. *)
LEMMA PlacesFrame ==
  ASSUME PlacesInv, turns' \in Nat, turns \in Nat, turns <= turns', batch' = batch,
         Contents(buffer') \subseteq Contents(buffer),
         \A c \in Callers : Live(c)' => Live(c),
         \A c \in Callers : Finished(c)' => Live(c) \/ Finished(c)
  PROVE  PlacesInv'
<1>1. 1..turns \subseteq 1..turns'
  OBVIOUS
<1>2. Contents(buffer') \subseteq 1..turns'
  BY <1>1 DEF PlacesInv
<1>3. \A c \in Callers : Contents(batch'[c]) \subseteq 1..turns'
  BY <1>1 DEF PlacesInv
<1>4. \A c \in Callers : Live(c)' \/ Finished(c)' =>
        Contents(batch'[c]) \cap Contents(buffer') = {}
  BY DEF PlacesInv
<1>5. \A c, d \in Callers : Live(c)' /\ (Live(d)' \/ Finished(d)') /\ c # d =>
        Contents(batch'[c]) \cap Contents(batch'[d]) = {}
  BY DEF PlacesInv
<1> QED BY <1>2, <1>3, <1>4, <1>5 DEF PlacesInv, Contents

(* A flush that has not called the server, or has ended, gets no success.  *)
LEMMA AnswerFinal ==
  ASSUME McpType, CallInv, FlushInv, [Next]_vars, NEW c \in Callers,
         flush[c] # "calling", answer'[c] = "ok"
  PROVE  flush[c] = "done" /\ answer[c] = "ok"
BY CallMoves DEF CallKept, FlushInv, CallInv

(* An episode moves from one place to another, and is in one at a time.    *)
LEMMA PlacesStep ==
  ASSUME TypeOK, CallInv, FlushInv, PlacesInv, [Next]_vars
  PROVE  PlacesInv'
<1>0. /\ flush \in [Callers -> {"idle", "dropping", "claimed", "calling", "done"}]
      /\ batch \in [Callers -> Seq(Episodes)]
      /\ turns \in Nat /\ turns' \in Nat
  BY HookTypeStep, HookAssumption DEF TypeOK, HookType
<1>1. \A c \in Callers : flush[c] # "calling" /\ answer'[c] = "ok" => Finished(c)
  BY AnswerFinal DEF TypeOK, Finished
<1>2. CASE UNCHANGED <<flush, batch, buffer, turns>>
  <2>1. \A c \in Callers : (Live(c)' => Live(c)) /\ (Finished(c)' => Finished(c))
    BY <1>1, <1>2 DEF Live, Finished
  <2> QED BY <1>0, <1>2, <2>1, PlacesFrame
<1>3. CASE AfterTurn
  <2>1. UNCHANGED <<flush, batch, answer>>
    BY <1>3 DEF AfterTurn, mcpVars, calls
  <2>2. turns' = turns + 1 /\ Contents(buffer') \subseteq Contents(buffer) \cup {turns'}
    BY <1>3, TurnMoves DEF TypeOK
  <2>3. \A c \in Callers : turns' \notin Contents(batch[c])
    BY <1>0, <2>2 DEF PlacesInv
  <2>4. 1..turns \subseteq 1..turns' /\ turns' \in 1..turns'
    BY <1>0, <2>2
  <2>5. \A c \in Callers : (Live(c)' <=> Live(c)) /\ (Finished(c)' <=> Finished(c))
    BY <2>1 DEF Live, Finished
  <2>6. Contents(buffer') \subseteq 1..turns'
    BY <2>2, <2>4 DEF PlacesInv
  <2>7. \A c \in Callers : Contents(batch'[c]) \subseteq 1..turns'
    BY <2>1, <2>4 DEF PlacesInv
  <2>8. \A c \in Callers : Live(c)' \/ Finished(c)' =>
          Contents(batch'[c]) \cap Contents(buffer') = {}
    BY <2>1, <2>2, <2>3, <2>5 DEF PlacesInv
  <2>9. \A c, d \in Callers : Live(c)' /\ (Live(d)' \/ Finished(d)') /\ c # d =>
          Contents(batch'[c]) \cap Contents(batch'[d]) = {}
    BY <2>1, <2>5 DEF PlacesInv
  <2> QED BY <2>6, <2>7, <2>8, <2>9 DEF PlacesInv, Contents
<1>4. ASSUME NEW d \in Callers, Claim(d), flush' # [flush EXCEPT ![d] = "claimed"]
      PROVE  PlacesInv'
  <2>1. /\ flush[d] = "idle" /\ UNCHANGED <<batch, buffer, turns>>
        /\ \E f \in {"dropping", "done"} : flush' = [flush EXCEPT ![d] = f]
    BY <1>4 DEF Claim
  <2>2. \A c \in Callers : (Live(c)' => Live(c)) /\ (Finished(c)' => Finished(c))
    BY <1>0, <1>1, <2>1 DEF Live, Finished
  <2> QED BY <1>0, <2>1, <2>2, PlacesFrame
<1>5. ASSUME NEW d \in Callers, Claim(d), flush' = [flush EXCEPT ![d] = "claimed"]
      PROVE  PlacesInv'
  <2>1. flush[d] = "idle" /\ UNCHANGED <<turns, answer>>
    BY <1>5 DEF Claim, mcpVars, calls
  <2>2. batch' = [batch EXCEPT ![d] = buffer] /\ buffer' = <<>>
    BY <1>0, <1>5 DEF Claim
  <2>3. Contents(buffer') = {}
    BY <2>2, ContentsType
  <2>4. /\ Contents(batch'[d]) = Contents(buffer)
        /\ \A c \in Callers \ {d} : batch'[c] = batch[c]
    BY <1>0, <2>2
  <2>5. \A c \in Callers : /\ c # d /\ Live(c)' => Live(c)
                           /\ Finished(c)' => Finished(c) /\ c # d
    BY <1>0, <1>5, <2>1 DEF Live, Finished
  <2>6. \A c \in Callers : Contents(batch'[c]) \subseteq 1..turns'
    BY <2>1, <2>4 DEF PlacesInv
  <2>7. \A c, e \in Callers : Live(c)' /\ (Live(e)' \/ Finished(e)') /\ c # e =>
          Contents(batch'[c]) \cap Contents(batch'[e]) = {}
    BY <2>4, <2>5 DEF PlacesInv
  <2> QED BY <2>3, <2>6, <2>7 DEF PlacesInv, Contents
<1>6. ASSUME NEW d \in Callers, Drop(d)
      PROVE  PlacesInv'
  <2>1. /\ flush[d] = "dropping" /\ flush' = [flush EXCEPT ![d] = "done"]
        /\ UNCHANGED <<batch, turns>> /\ Contents(buffer') = {}
    BY <1>6, ContentsType DEF Drop
  <2>2. \A c \in Callers : (Live(c)' => Live(c)) /\ (Finished(c)' => Finished(c))
    BY <1>0, <1>1, <2>1 DEF Live, Finished
  <2> QED BY <1>0, <2>1, <2>2, PlacesFrame
<1>7. ASSUME NEW d \in Callers, LearnBatch(d)
      PROVE  PlacesInv'
  <2>1. /\ flush[d] = "claimed" /\ flush' = [flush EXCEPT ![d] = "calling"]
        /\ UNCHANGED <<batch, buffer, turns>>
    BY <1>7 DEF LearnBatch
  <2>2. \A c \in Callers : (Live(c)' => Live(c)) /\ (Finished(c)' => Finished(c))
    BY <1>0, <1>1, <2>1 DEF Live, Finished
  <2> QED BY <1>0, <2>1, <2>2, PlacesFrame
<1>8. ASSUME NEW d \in Callers, Settle(d)
      PROVE  PlacesInv'
  <2>1. /\ flush[d] = "calling" /\ flush' = [flush EXCEPT ![d] = "done"]
        /\ Contents(buffer') = IF answer[d] = "ok" THEN Contents(buffer)
                               ELSE Contents(batch[d]) \cup Contents(buffer)
    BY <1>8, SettleMoves DEF TypeOK
  <2>2. UNCHANGED <<batch, turns, answer>>
    BY <1>8 DEF Settle, mcpVars, calls
  <2>3. Live(d) /\ ~Live(d)' /\ \A c \in Callers : Live(c)' => Live(c)
    BY <1>0, <2>1 DEF Live
  <2>4. CASE answer[d] = "ok"
    <3>1. \A c \in Callers : Finished(c)' => Live(c) \/ Finished(c)
      BY <1>0, <2>1, <2>2, <2>3 DEF Finished
    <3> QED BY <1>0, <2>1, <2>2, <2>3, <2>4, <3>1, PlacesFrame
  <2>5. CASE answer[d] # "ok"
    <3>1. \A c \in Callers : Finished(c)' => Finished(c) /\ c # d
      BY <1>0, <2>1, <2>2, <2>5 DEF Finished
    <3>2. Contents(buffer') = Contents(batch[d]) \cup Contents(buffer)
      BY <2>1, <2>5
    <3>3. Contents(buffer') \subseteq 1..turns'
      BY <2>2, <3>2 DEF PlacesInv
    <3>4. \A c \in Callers : Contents(batch'[c]) \subseteq 1..turns'
      BY <2>2 DEF PlacesInv
    <3>5. ASSUME NEW c \in Callers, Live(c)' \/ Finished(c)'
          PROVE  Contents(batch'[c]) \cap Contents(buffer') = {}
      <4>1. c # d /\ (Live(c) \/ Finished(c))
        BY <2>3, <3>1, <3>5
      <4>2. /\ Contents(batch[c]) \cap Contents(buffer) = {}
            /\ Contents(batch[d]) \cap Contents(batch[c]) = {}
        BY <2>3, <4>1 DEF PlacesInv
      <4> QED BY <2>2, <3>2, <4>2
    <3>6. \A c, e \in Callers : Live(c)' /\ (Live(e)' \/ Finished(e)') /\ c # e =>
            Contents(batch'[c]) \cap Contents(batch'[e]) = {}
      BY <2>2, <2>3, <3>1 DEF PlacesInv
    <3> QED BY <3>3, <3>4, <3>5, <3>6 DEF PlacesInv, Contents
  <2> QED BY <2>4, <2>5
<1> QED
  BY <1>2, <1>3, <1>4, <1>5, <1>6, <1>7, <1>8, Steps
     DEF Reconfigure, Store, hookVars, vars

(* Only Store changes what the server has or has replied. *)
LEMMA StoreMoves ==
  ASSUME TypeOK, [Next]_vars
  PROVE  \/ UNCHANGED <<stored, reply>>
         \/ \E d \in Callers, r \in {"ok", "rejected"} :
              /\ UNCHANGED <<turns, buffer, flush, batch, stage, answer>>
              /\ stage[d] # "idle" /\ reply[d] = "none"
              /\ reply' = [reply EXCEPT ![d] = r]
              /\ \A e \in Episodes :
                   stored'[e] = IF r = "ok" /\ e \in Contents(batch[d])
                                THEN stored[e] + 1 ELSE stored[e]
<1>1. ASSUME NEW d \in Callers, Store(d)
      PROVE  \E r \in {"ok", "rejected"} :
               /\ UNCHANGED <<turns, buffer, flush, batch, stage, answer>>
               /\ stage[d] # "idle" /\ reply[d] = "none"
               /\ reply' = [reply EXCEPT ![d] = r]
               /\ \A e \in Episodes :
                    stored'[e] = IF r = "ok" /\ e \in Contents(batch[d])
                                 THEN stored[e] + 1 ELSE stored[e]
  <2>1. PICK r \in {"ok", "rejected"} : reply' = [reply EXCEPT ![d] = r]
    BY <1>1 DEF Store, Handle
  <2>2. reply'[d] = r
    BY <2>1 DEF TypeOK, McpType
  <2>3. stored' = [e \in Episodes |->
          IF reply'[d] = "ok" /\ e \in Contents(batch[d]) THEN stored[e] + 1 ELSE stored[e]]
    BY <1>1 DEF Store
  <2>4. /\ UNCHANGED <<turns, buffer, flush, batch, stage, answer>>
        /\ stage[d] # "idle" /\ reply[d] = "none"
    BY <1>1 DEF Store, Handle, WasSent
  <2> QED BY <2>1, <2>2, <2>3, <2>4
<1>2. ASSUME NEW d \in Callers,
             \/ Claim(d) \/ Drop(d) \/ LearnBatch(d) \/ Settle(d)
             \/ UNCHANGED hookVars /\ (Receive(d) \/ Timeout(d) \/ ConnectionEnds(d) \/ Annotate(d))
      PROVE  UNCHANGED <<stored, reply>>
  BY <1>2
     DEF Claim, Drop, LearnBatch, Settle, Receive, Timeout, ConnectionEnds, Annotate,
         Call, hookVars, mcpVars, calls
<1> QED
  BY <1>1, <1>2, Steps
     DEF AfterTurn, Reconfigure, Die, Fork, Reap, Connect, Abandon, Close,
         CloseSession, Kill, Join, calls, mcpVars, hookVars, vars

(* A batch that the server has replied to stays as it was sent. *)
LEMMA BatchKept ==
  ASSUME TypeOK, CallInv, FlushInv, [Next]_vars, NEW c \in Callers, reply[c] # "none"
  PROVE  batch'[c] = batch[c]
<1>1. flush[c] \in {"calling", "done"}
  BY DEF CallInv, FlushInv, TypeOK, McpType
<1>2. ASSUME NEW d \in Callers, Claim(d)
      PROVE  batch'[c] = batch[c]
  <2>1. d # c /\ (UNCHANGED batch \/ batch' = [batch EXCEPT ![d] = buffer])
    BY <1>1, <1>2 DEF Claim
  <2> QED BY <2>1 DEF TypeOK, HookType
<1> QED
  BY <1>2, Steps
     DEF AfterTurn, Reconfigure, Drop, LearnBatch, Store, Settle, hookVars, vars

(* The server has an episode a second time only after an unclear failure.  *)
LEMMA StoredStep ==
  ASSUME TypeOK, CallInv, FlushInv, StoredInv, [Next]_vars
  PROVE  StoredInv'
<1>0. /\ reply \in [Callers -> {"none", "ok", "rejected"}] /\ stored \in [Episodes -> Nat]
      /\ \A c \in Callers : Contents(batch[c]) \subseteq Episodes
  BY ContentsType DEF TypeOK, McpType, HookType
<1>1. CASE UNCHANGED <<stored, reply>>
  <2>1. \A c \in Callers : reply[c] = "ok" => batch'[c] = batch[c]
    BY BatchKept
  <2>2. \A c \in Callers : reply'[c] = "ok" => \A e \in Contents(batch'[c]) : stored'[e] > 0
    BY <1>1, <2>1 DEF StoredInv
  <2>3. \A e \in Episodes : stored'[e] > 0 =>
          \E c \in Callers : reply'[c] = "ok" /\ e \in Contents(batch'[c])
    BY <1>1, <2>1 DEF StoredInv
  <2> QED BY <2>2, <2>3 DEF StoredInv, Contents
<1>2. ASSUME NEW d \in Callers, NEW r \in {"ok", "rejected"},
             UNCHANGED batch, reply[d] = "none", reply' = [reply EXCEPT ![d] = r],
             \A e \in Episodes :
               stored'[e] = IF r = "ok" /\ e \in Contents(batch[d])
                            THEN stored[e] + 1 ELSE stored[e]
      PROVE  StoredInv'
  <2>1. /\ reply'[d] = r
        /\ \A c \in Callers : c # d => reply'[c] = reply[c]
    BY <1>0, <1>2
  <2>2. \A e \in Episodes : stored[e] > 0 => stored'[e] > 0
    BY <1>0, <1>2
  <2>3. \A e \in Episodes : r = "ok" /\ e \in Contents(batch[d]) => stored'[e] > 0
    BY <1>0, <1>2
  <2>4. ASSUME NEW c \in Callers, reply'[c] = "ok", NEW e \in Contents(batch[c])
        PROVE  stored'[e] > 0
    BY <1>0, <2>1, <2>2, <2>3, <2>4 DEF StoredInv
  <2>5. ASSUME NEW e \in Episodes, stored'[e] > 0
        PROVE  \E c \in Callers : reply'[c] = "ok" /\ e \in Contents(batch[c])
    <3>1. CASE r = "ok" /\ e \in Contents(batch[d])
      BY <2>1, <3>1
    <3>2. CASE ~(r = "ok" /\ e \in Contents(batch[d]))
      <4>1. stored[e] > 0
        BY <1>2, <2>5, <3>2
      <4>2. PICK c \in Callers : reply[c] = "ok" /\ e \in Contents(batch[c])
        BY <4>1 DEF StoredInv
      <4> QED BY <1>2, <2>1, <4>2
    <3> QED BY <3>1, <3>2
  <2> QED BY <1>2, <2>4, <2>5 DEF StoredInv, Contents
<1> QED BY <1>1, <1>2, StoreMoves

-----------------------------------------------------------------------------
(* The theorems.                                                           *)

LEMMA InvInit ==
  ASSUME Init
  PROVE  TypeOK /\ IInv
<1>1. McpType
  BY DEF Init, McpInit, McpType
<1>2. HookType
  BY HookAssumption DEF Init, HookType
<1>3. Contents(<<>>) = {}
  BY ContentsType
<1>4. ReaperInv /\ CallInv /\ FlushInv
  BY DEF Init, McpInit, ReaperInv, CallInv, FlushInv
<1>5. PlacesInv
  BY <1>3 DEF Init, PlacesInv, Live, Finished
<1>6. StoredInv
  BY DEF Init, McpInit, StoredInv
<1> QED BY <1>1, <1>2, <1>4, <1>5, <1>6 DEF TypeOK, IInv

(* The invariant that the theorems rest on: types, the client's reaper and *)
(* calls, and where an episode is and was stored.                          *)
THEOREM InvCorrect == Spec => [](TypeOK /\ IInv)
<1>1. TypeOK /\ IInv /\ [Next]_vars => (TypeOK /\ IInv)'
  <2> SUFFICES ASSUME TypeOK, IInv, [Next]_vars
               PROVE  (TypeOK /\ IInv)'
    OBVIOUS
  <2>1. McpType /\ HookType /\ ReaperInv /\ CallInv /\ FlushInv /\ PlacesInv /\ StoredInv
    BY DEF TypeOK, IInv
  <2>2. TypeOK'
    BY <2>1, McpTypeStep, HookTypeStep DEF TypeOK
  <2>3. ReaperInv' /\ CallInv' /\ FlushInv' /\ PlacesInv' /\ StoredInv'
    BY <2>1, ReaperStep, CallStep, FlushStep, PlacesStep, StoredStep
  <2> QED BY <2>2, <2>3 DEF IInv
<1> QED BY <1>1, InvInit, PTL DEF Spec

(* A client that NewStdioClient gave up, or that was closed, leaves no     *)
(* zombie, whoever saw the child die first.                                *)
THEOREM NoZombie == Spec => []ChildReaped
<1>1. IInv => ChildReaped
  BY DEF IInv, ReaperInv, ChildReaped
<1> QED BY <1>1, InvCorrect, PTL

(* From the turn it was made in, every episode is in a place where it is   *)
(* accounted for: in the buffer, in a batch that is being sent, stored by  *)
(* the server, counted as evicted, or dropped by a disabled session.       *)
THEOREM EpisodesAccounted == Spec => []NothingLost
<1>1. Init => NothingLost
  BY DEF Init, NothingLost
<1>2. TypeOK /\ IInv /\ NothingLost /\ [Next]_vars => NothingLost'
  <2> SUFFICES ASSUME TypeOK, IInv, NothingLost, [Next]_vars, NEW e \in 1..turns'
               PROVE  \/ e \in Contents(buffer') \cup evicted' \cup discarded'
                      \/ \E c \in Callers : Live(c)' /\ e \in Contents(batch'[c])
                      \/ stored'[e] > 0
    BY DEF NothingLost, Contents, Live
  <2>0. /\ turns \in Nat /\ turns' \in Nat /\ 1..turns \subseteq Episodes
        /\ flush \in [Callers -> {"idle", "dropping", "claimed", "calling", "done"}]
        /\ batch \in [Callers -> Seq(Episodes)] /\ stored \in [Episodes -> Nat]
    <3>1. HookType /\ HookType'
      BY HookTypeStep DEF TypeOK
    <3>2. turns \in 0..MaxEpisodes /\ turns' \in 0..MaxEpisodes
      BY <3>1 DEF HookType
    <3>3. turns \in Nat /\ turns' \in Nat /\ 1..turns \subseteq Episodes
      BY ONLY <3>2, HookAssumption DEF Episodes
    <3>4. /\ flush \in [Callers -> {"idle", "dropping", "claimed", "calling", "done"}]
          /\ batch \in [Callers -> Seq(Episodes)] /\ stored \in [Episodes -> Nat]
      BY <3>1 DEF HookType
    <3> QED BY ONLY <3>3, <3>4
  <2>1. e \in 1..turns =>
          \/ e \in Contents(buffer) \cup evicted \cup discarded
          \/ \E c \in Callers : Live(c) /\ e \in Contents(batch[c])
          \/ stored[e] > 0
    BY DEF NothingLost, Live
  <2>2. e \in Episodes /\ stored[e] > 0 => stored'[e] > 0
    <3> SUFFICES ASSUME e \in Episodes, stored[e] > 0 PROVE stored'[e] > 0
      OBVIOUS
    <3>1. stored'[e] = stored[e] \/ stored'[e] = stored[e] + 1
      BY StoreMoves
    <3>2. stored[e] \in Nat
      BY <2>0
    <3> QED BY ONLY <3>1, <3>2, stored[e] > 0
  <2>3. CASE UNCHANGED <<turns, buffer, flush, batch, evicted, discarded>>
    BY <2>0, <2>1, <2>2, <2>3 DEF Live
  <2>4. CASE AfterTurn
    <3>1. UNCHANGED <<flush, batch, stored, discarded>>
      BY <2>4 DEF AfterTurn
    <3>2. /\ turns' = turns + 1
          /\ Contents(buffer) \cup {turns'} \cup evicted = Contents(buffer') \cup evicted'
      BY <2>4, TurnMoves DEF TypeOK
    <3>3. e = turns' \/ e \in 1..turns
      BY <2>0, <3>2
    <3> QED BY <2>1, <3>1, <3>2, <3>3 DEF Live
  <2>5. ASSUME NEW d \in Callers, Claim(d)
        PROVE  \/ e \in Contents(buffer') \cup evicted' \cup discarded'
               \/ \E c \in Callers : Live(c)' /\ e \in Contents(batch'[c])
               \/ stored'[e] > 0
    <3>1. /\ flush[d] = "idle" /\ UNCHANGED <<turns, stored, evicted, discarded>>
          /\ \/ \E f : flush' = [flush EXCEPT ![d] = f] /\ UNCHANGED <<batch, buffer>>
             \/ /\ flush' = [flush EXCEPT ![d] = "claimed"]
                /\ batch' = [batch EXCEPT ![d] = buffer]
      BY <2>5 DEF Claim
    <3>2. \A c \in Callers : Live(c) => Live(c)' /\ batch'[c] = batch[c]
      BY <2>0, <3>1 DEF Live
    <3>3. Contents(buffer) \subseteq Contents(buffer') \/ (Live(d)' /\ batch'[d] = buffer)
      BY <2>0, <3>1 DEF Live
    <3> QED BY <2>1, <3>1, <3>2, <3>3
  <2>6. ASSUME NEW d \in Callers, Drop(d)
        PROVE  \/ e \in Contents(buffer') \cup evicted' \cup discarded'
               \/ \E c \in Callers : Live(c)' /\ e \in Contents(batch'[c])
               \/ stored'[e] > 0
    <3>1. /\ flush[d] = "dropping" /\ flush' = [flush EXCEPT ![d] = "done"]
          /\ discarded' = discarded \cup Contents(buffer)
          /\ UNCHANGED <<turns, batch, stored, evicted>>
      BY <2>6 DEF Drop
    <3>2. \A c \in Callers : Live(c) => Live(c)'
      BY <2>0, <3>1 DEF Live
    <3> QED BY <2>1, <3>1, <3>2
  <2>7. ASSUME NEW d \in Callers, LearnBatch(d)
        PROVE  \/ e \in Contents(buffer') \cup evicted' \cup discarded'
               \/ \E c \in Callers : Live(c)' /\ e \in Contents(batch'[c])
               \/ stored'[e] > 0
    <3>1. /\ flush' = [flush EXCEPT ![d] = "calling"]
          /\ UNCHANGED <<turns, buffer, batch, stored, evicted, discarded>>
      BY <2>7 DEF LearnBatch
    <3>2. \A c \in Callers : Live(c) => Live(c)'
      BY <2>0, <3>1 DEF Live
    <3> QED BY <2>1, <3>1, <3>2
  <2>8. ASSUME NEW d \in Callers, Settle(d)
        PROVE  \/ e \in Contents(buffer') \cup evicted' \cup discarded'
               \/ \E c \in Callers : Live(c)' /\ e \in Contents(batch'[c])
               \/ stored'[e] > 0
    <3>1. UNCHANGED <<turns, batch, stored, evicted, discarded>>
      BY <2>8 DEF Settle
    <3>2. /\ flush' = [flush EXCEPT ![d] = "done"]
          /\ Contents(buffer) \subseteq Contents(buffer')
          /\ answer[d] # "ok" => Contents(batch[d]) \subseteq Contents(buffer')
      BY <2>8, SettleMoves DEF TypeOK
    <3>3. answer[d] = "ok" => \A x \in Contents(batch[d]) : stored[x] > 0
      BY DEF IInv, CallInv, StoredInv
    <3>4. \A c \in Callers : Live(c) => Live(c)' \/ c = d
      BY <2>0, <3>2 DEF Live
    <3> QED BY <2>1, <3>1, <3>2, <3>3, <3>4
  <2> QED
    BY <2>3, <2>4, <2>5, <2>6, <2>7, <2>8, Steps
       DEF Reconfigure, Store, hookVars, vars
<1> QED BY <1>1, <1>2, InvCorrect, PTL DEF Spec

(* An episode is stored a second time only if a flush that had it and was  *)
(* told of a failure had been carried out by the server.                   *)
THEOREM StoredOnce == Spec => []WrittenOnce
<1>1. Init => WrittenOnce
  BY DEF Init, WrittenOnce
<1>2. TypeOK /\ IInv /\ WrittenOnce /\ [Next]_vars => WrittenOnce'
  <2> DEFINE Excuse(c, e) == /\ e \in Contents(batch[c]) /\ reply[c] = "ok"
                             /\ answer[c] # "ok" /\ stage[c] = "returned"
  <2> SUFFICES ASSUME TypeOK, IInv, WrittenOnce, [Next]_vars,
                      NEW e \in Episodes, stored'[e] > 1
               PROVE  \E c \in Callers : Excuse(c, e)'
    BY DEF WrittenOnce, Contents
  <2>0. /\ McpType /\ CallInv /\ FlushInv /\ PlacesInv /\ StoredInv
        /\ reply \in [Callers -> {"none", "ok", "rejected"}] /\ stored \in [Episodes -> Nat]
        /\ flush \in [Callers -> {"idle", "dropping", "claimed", "calling", "done"}]
    BY DEF IInv, TypeOK, McpType, HookType
  <2>1. ASSUME NEW c \in Callers, Excuse(c, e)
        PROVE  Excuse(c, e)'
    BY <2>0, <2>1, CallMoves, BatchKept DEF CallKept, Contents
  <2>2. CASE stored[e] > 1
    BY <2>1, <2>2 DEF WrittenOnce
  <2>3. CASE ~(stored[e] > 1)
    <3>1. PICK d \in Callers :
            /\ UNCHANGED <<flush, batch, stage, answer>>
            /\ stage[d] # "idle" /\ reply[d] = "none"
            /\ reply' = [reply EXCEPT ![d] = "ok"]
            /\ e \in Contents(batch[d]) /\ stored[e] > 0
      <4>1. PICK d \in Callers, r \in {"ok", "rejected"} :
              /\ UNCHANGED <<flush, batch, stage, answer>>
              /\ stage[d] # "idle" /\ reply[d] = "none"
              /\ reply' = [reply EXCEPT ![d] = r]
              /\ stored'[e] = IF r = "ok" /\ e \in Contents(batch[d])
                              THEN stored[e] + 1 ELSE stored[e]
        BY <2>3, StoreMoves
      <4>2. r = "ok" /\ e \in Contents(batch[d]) /\ stored[e] > 0
        BY <2>0, <2>3, <4>1
      <4> QED BY <4>1, <4>2
    <3>2. PICK c \in Callers : reply[c] = "ok" /\ e \in Contents(batch[c])
      BY <2>0, <3>1 DEF StoredInv
    <3>3. c # d /\ reply'[c] = "ok" /\ reply'[d] = "ok"
      BY <2>0, <3>1, <3>2
    <3>4. /\ Live(d) \/ (flush[d] = "done" /\ stage[d] = "returned")
          /\ Live(c) \/ (flush[c] = "done" /\ stage[c] = "returned")
      BY <2>0, <3>1, <3>2 DEF FlushInv, CallInv, Live
    <3>5. answer[d] # "ok"
      BY <2>0, <3>1 DEF CallInv
    <3>6. CASE stage[d] = "returned"
      BY <3>1, <3>3, <3>5, <3>6 DEF Contents
    <3>7. CASE stage[d] # "returned"
      <4>1. Live(d) BY <3>4, <3>7
      <4>2. ~Live(c) /\ ~Finished(c)
        BY <2>0, <3>1, <3>2, <3>3, <4>1 DEF PlacesInv
      <4>3. stage[c] = "returned" /\ answer[c] # "ok"
        BY <3>4, <4>2 DEF Finished
      <4> QED BY <3>1, <3>2, <3>3, <4>3 DEF Contents
    <3> QED BY <3>6, <3>7
  <2> QED BY <2>2, <2>3
<1> QED BY <1>1, <1>2, InvCorrect, PTL DEF Spec
=============================================================================
