---------------------------- MODULE GatewayProofs ----------------------------
(***************************************************************************)
(* Proofs about Gateway, for any callers, media, retries and token         *)
(* periods: type correctness and the three safety invariants of its run,   *)
(* each from the part of the inductive invariant that explains it.         *)
(***************************************************************************)
EXTENDS Gateway, TLAPS

(* A chain has one provider or two, and each is of a known kind.           *)
LEMMA ChainFacts ==
  ASSUME chain \in Chains
  PROVE  /\ N \in Nat /\ N >= 1
         /\ \A i \in 1..N : chain[i] \in {"vertex", "files"}
<1>1. CASE chain = <<"vertex">>
  BY <1>1 DEF N
<1>2. CASE chain = <<"files">>
  BY <1>2 DEF N
<1>3. CASE chain = <<"vertex", "files">>
  BY <1>3 DEF N
<1>4. CASE chain = <<"files", "vertex">>
  BY <1>4 DEF N
<1> QED BY <1>1, <1>2, <1>3, <1>4 DEF Chains

(* Only a refused key is classified as a refusal.                          *)
LEMMA RefusalsOnly ==
  \A raw \in DOMAIN Classify :
    IF raw = "unauthorized" THEN Classify[raw] = {"auth"} ELSE "auth" \notin Classify[raw]
BY DEF Classify

(* The configuration of a process does not change while it runs.           *)
LEMMA ConfigFixed ==
  ASSUME [Next]_vars
  PROVE  UNCHANGED <<chain, failover, keyBad>> /\ N' = N
<1>1. UNCHANGED <<chain, failover, keyBad>>
  BY ZenonT(60) DEF Next, vars, config, Caller, Construct, Generate, Provider, SendChat,
         Upload, Request, Release, Settle, Invalidate, Apply, Gcloud, Store,
         InitSDK, Error, Recover, Cancel, Expire, Others
<1> QED BY <1>1 DEF N

-----------------------------------------------------------------------------
(* Type correctness.                                                       *)

(* Nobody has called, no token is known but perhaps that of the file.      *)
LEMMA TypeInit == Init => TypeOK
<1> SUFFICES ASSUME Init PROVE TypeOK
  OBVIOUS
<1>1. N \in Nat /\ N >= 1
  BY ChainFacts DEF Init
<1> QED BY <1>1, GatewayAssumption DEF Init, TypeOK, ConfigType, CallType, CountType, TokenType

(* Every variable keeps its type in every step.                            *)
LEMMA TypeStep == TypeOK /\ [Next]_vars => TypeOK'
<1> SUFFICES ASSUME TypeOK, [Next]_vars PROVE TypeOK'
  OBVIOUS
<1> USE GatewayAssumption DEF TypeOK, config, turn, marks, auth, world, Goto, Set
<1>a. N \in Nat /\ N >= 1 /\ \A i \in 1..N : chain[i] \in {"vertex", "files"}
  BY ChainFacts DEF ConfigType
<1>b. UNCHANGED <<chain, failover, keyBad>>
  BY ConfigFixed
<1>c. N' = N /\ Chains' = Chains
  BY ConfigFixed DEF Chains
<1>1. ASSUME NEW c \in Callers, Construct(c) PROVE TypeOK'
  <2>1. ConfigType'
    BY <1>a, <1>b, <1>c, <1>1 DEF Construct, ConfigType
  <2>2. CallType'
    BY <1>a, <1>b, <1>c, <1>1 DEF Construct, CallType
  <2>3. CountType'
    BY <1>a, <1>b, <1>c, <1>1 DEF Construct, CountType
  <2>4. TokenType'
    BY <1>a, <1>b, <1>c, <1>1 DEF Construct, TokenType
  <2> QED BY <2>1, <2>2, <2>3, <2>4
<1>2. ASSUME NEW c \in Callers, Generate(c) PROVE TypeOK'
  <2>1. ConfigType'
    BY <1>a, <1>b, <1>c, <1>2 DEF Generate, ConfigType
  <2>2. CallType'
    BY <1>a, <1>b, <1>c, <1>2 DEF Generate, CallType
  <2>3. CountType'
    BY <1>a, <1>b, <1>c, <1>2 DEF Generate, CountType
  <2>4. TokenType'
    BY <1>a, <1>b, <1>c, <1>2 DEF Generate, TokenType
  <2> QED BY <2>1, <2>2, <2>3, <2>4
<1>3. ASSUME NEW c \in Callers, Provider(c) PROVE TypeOK'
  <2>1. ConfigType'
    BY <1>a, <1>b, <1>c, <1>3 DEF Provider, ConfigType
  <2>2. CallType'
    BY <1>a, <1>b, <1>c, <1>3 DEF Provider, CallType
  <2>3. CountType'
    BY <1>a, <1>b, <1>c, <1>3 DEF Provider, CountType
  <2>4. TokenType'
    BY <1>a, <1>b, <1>c, <1>3 DEF Provider, TokenType
  <2> QED BY <2>1, <2>2, <2>3, <2>4
<1>4. ASSUME NEW c \in Callers, SendChat(c) PROVE TypeOK'
  <2>1. ConfigType'
    BY <1>a, <1>b, <1>c, <1>4 DEF SendChat, ConfigType
  <2>2. CallType'
    BY <1>a, <1>b, <1>c, <1>4 DEF SendChat, CallType
  <2>3. CountType'
    <3>1. k[c] \in 1..N /\ sent[c] \in [1..N -> Nat]
      BY DEF CountType
    <3>2. sent' = [sent EXCEPT ![c] = [sent[c] EXCEPT ![k[c]] = sent[c][k[c]] + 1]]
      BY <1>4 DEF SendChat
    <3>3. [sent[c] EXCEPT ![k[c]] = sent[c][k[c]] + 1] \in [1..N -> Nat]
      <4>1. sent[c][k[c]] + 1 \in Nat
        BY <1>a, <3>1
      <4> QED BY <1>a, <3>1, <4>1
    <3>4. sent' \in [Callers -> [1..N -> Nat]]
      BY <3>2, <3>3 DEF CountType
    <3> QED BY <1>c, <1>4, <3>4 DEF SendChat, CountType
  <2>4. TokenType'
    BY <1>a, <1>b, <1>c, <1>4 DEF SendChat, TokenType
  <2> QED BY <2>1, <2>2, <2>3, <2>4
<1>5. ASSUME NEW c \in Callers, Upload(c) PROVE TypeOK'
  <2>1. ConfigType'
    BY <1>a, <1>b, <1>c, <1>5 DEF Upload, ConfigType
  <2>2. CallType'
    BY <1>a, <1>b, <1>c, <1>5 DEF Upload, CallType, Classify
  <2>3. CountType'
    <3>1. file' \in [Callers -> SUBSET Media]
      <4>1. Parts(c) \subseteq Media
        BY DEF Parts
      <4>2. file' = file \/ \E q \in Parts(c) : file' = [file EXCEPT ![c] = file[c] \cup {q}]
        BY <1>5 DEF Upload
      <4>3. \A q \in Parts(c) : file[c] \cup {q} \in SUBSET Media
        BY <4>1 DEF CountType
      <4>4. file \in [Callers -> SUBSET Media]
        BY DEF CountType
      <4>5. CASE file' = file
        BY ONLY <4>4, <4>5
      <4>6. ASSUME NEW q \in Parts(c), file' = [file EXCEPT ![c] = file[c] \cup {q}]
            PROVE  file' \in [Callers -> SUBSET Media]
        <5>1. file[c] \cup {q} \in SUBSET Media
          BY <4>3
        <5> HIDE DEF CountType, TypeOK
        <5> QED BY <4>4, <4>6, <5>1
      <4> QED BY ONLY <4>2, <4>5, <4>6
    <3> QED BY <1>c, <1>5, <3>1 DEF Upload, CountType
  <2>4. TokenType'
    BY <1>a, <1>b, <1>c, <1>5 DEF Upload, TokenType
  <2> QED BY <2>1, <2>2, <2>3, <2>4
<1>6. ASSUME NEW c \in Callers, Request(c) PROVE TypeOK'
  <2>1. ConfigType'
    BY <1>a, <1>b, <1>c, <1>6 DEF Request, ConfigType
  <2>2. CallType'
    <3>1. \A raw \in DOMAIN Classify : Classify[raw] \subseteq
            {"auth", "quota", "rateLimit", "transient", "terminal", "filter", "canceled"}
      BY DEF Classify
    <3>2. err' = err \/ \E raw \in DOMAIN Classify : err' = Set(err, c, Classify[raw])
      BY <1>6 DEF Request, Outcomes, Classify
    <3> QED BY <1>6, <3>1, <3>2 DEF Request, CallType
  <2>3. CountType'
    BY <1>a, <1>b, <1>c, <1>6 DEF Request, CountType
  <2>4. TokenType'
    BY <1>a, <1>b, <1>c, <1>6 DEF Request, TokenType
  <2> QED BY <2>1, <2>2, <2>3, <2>4
<1>7. ASSUME NEW c \in Callers, Release(c) PROVE TypeOK'
  <2>1. ConfigType'
    BY <1>a, <1>b, <1>c, <1>7 DEF Release, ConfigType
  <2>2. CallType'
    BY <1>a, <1>b, <1>c, <1>7 DEF Release, CallType
  <2>3. CountType'
    BY <1>a, <1>b, <1>c, <1>7 DEF Release, CountType
  <2>4. TokenType'
    BY <1>a, <1>b, <1>c, <1>7 DEF Release, TokenType
  <2> QED BY <2>1, <2>2, <2>3, <2>4
<1>8. ASSUME NEW c \in Callers, Settle(c) PROVE TypeOK'
  <2>1. ConfigType'
    BY <1>a, <1>b, <1>c, <1>8 DEF Settle, ConfigType
  <2>2. CallType'
    BY <1>a, <1>b, <1>c, <1>8 DEF Settle, CallType
  <2>3. CountType'
    BY <1>a, <1>b, <1>c, <1>8 DEF Settle, CountType
  <2>4. TokenType'
    BY <1>a, <1>b, <1>c, <1>8 DEF Settle, TokenType
  <2> QED BY <2>1, <2>2, <2>3, <2>4
<1>9. ASSUME NEW c \in Callers, Invalidate(c) PROVE TypeOK'
  <2>1. ConfigType'
    BY <1>a, <1>b, <1>c, <1>9 DEF Invalidate, ConfigType
  <2>2. CallType'
    BY <1>a, <1>b, <1>c, <1>9 DEF Invalidate, CallType
  <2>3. CountType'
    BY <1>a, <1>b, <1>c, <1>9 DEF Invalidate, CountType
  <2>4. TokenType'
    BY <1>a, <1>b, <1>c, <1>9 DEF Invalidate, TokenType
  <2> QED BY <2>1, <2>2, <2>3, <2>4
<1>10. ASSUME NEW c \in Callers, Apply(c) PROVE TypeOK'
  <2>1. ConfigType'
    BY <1>a, <1>b, <1>c, <1>10 DEF Apply, ConfigType
  <2>2. CallType'
    BY <1>a, <1>b, <1>c, <1>10 DEF Apply, CallType
  <2>3. CountType'
    BY <1>a, <1>b, <1>c, <1>10 DEF Apply, CountType
  <2>4. TokenType'
    BY <1>a, <1>b, <1>c, <1>10 DEF Apply, TokenType
  <2> QED BY <2>1, <2>2, <2>3, <2>4
<1>11. ASSUME NEW c \in Callers, Gcloud(c) PROVE TypeOK'
  <2>1. ConfigType'
    BY <1>a, <1>b, <1>c, <1>11 DEF Gcloud, ConfigType
  <2>2. CallType'
    BY <1>a, <1>b, <1>c, <1>11 DEF Gcloud, CallType
  <2>3. CountType'
    BY <1>a, <1>b, <1>c, <1>11 DEF Gcloud, CountType
  <2>4. TokenType'
    BY <1>a, <1>b, <1>c, <1>11 DEF Gcloud, TokenType
  <2> QED BY <2>1, <2>2, <2>3, <2>4
<1>12. ASSUME NEW c \in Callers, Store(c) PROVE TypeOK'
  <2>1. ConfigType'
    BY <1>a, <1>b, <1>c, <1>12 DEF Store, ConfigType
  <2>2. CallType'
    BY <1>a, <1>b, <1>c, <1>12 DEF Store, CallType
  <2>3. CountType'
    BY <1>a, <1>b, <1>c, <1>12 DEF Store, CountType
  <2>4. TokenType'
    BY <1>a, <1>b, <1>c, <1>12 DEF Store, TokenType
  <2> QED BY <2>1, <2>2, <2>3, <2>4
<1>13. ASSUME NEW c \in Callers, InitSDK(c) PROVE TypeOK'
  <2>1. ConfigType'
    BY <1>a, <1>b, <1>c, <1>13 DEF InitSDK, ConfigType
  <2>2. CallType'
    BY <1>a, <1>b, <1>c, <1>13 DEF InitSDK, CallType
  <2>3. CountType'
    BY <1>a, <1>b, <1>c, <1>13 DEF InitSDK, CountType
  <2>4. TokenType'
    BY <1>a, <1>b, <1>c, <1>13 DEF InitSDK, TokenType
  <2> QED BY <2>1, <2>2, <2>3, <2>4
<1>14. ASSUME NEW c \in Callers, Error(c) PROVE TypeOK'
  <2>1. ConfigType'
    BY <1>a, <1>b, <1>c, <1>14 DEF Error, ConfigType
  <2>2. CallType'
    BY <1>a, <1>b, <1>c, <1>14 DEF Error, CallType
  <2>3. CountType'
    <3>1. k' \in [Callers -> 1..N]
      <4>1. k' = k \/ (k[c] < N /\ k' = [k EXCEPT ![c] = k[c] + 1])
        BY <1>14 DEF Error
      <4>2. k[c] \in 1..N
        BY DEF CountType
      <4>3. k \in [Callers -> 1..N]
        BY DEF CountType
      <4>4. CASE k' = k
        BY ONLY <4>3, <4>4
      <4>5. CASE k[c] < N /\ k' = [k EXCEPT ![c] = k[c] + 1]
        <5>1. k[c] + 1 \in 1..N
          BY ONLY <1>a, <4>2, <4>5
        <5> QED BY ONLY <4>3, <4>5, <5>1
      <4> QED BY ONLY <4>1, <4>4, <4>5
    <3> QED BY <1>c, <1>14, <3>1 DEF Error, CountType
  <2>4. TokenType'
    BY <1>a, <1>b, <1>c, <1>14 DEF Error, TokenType
  <2> QED BY <2>1, <2>2, <2>3, <2>4
<1>15. ASSUME NEW c \in Callers, Recover(c) PROVE TypeOK'
  <2>1. ConfigType'
    BY <1>a, <1>b, <1>c, <1>15 DEF Recover, ConfigType
  <2>2. CallType'
    BY <1>a, <1>b, <1>c, <1>15 DEF Recover, CallType
  <2>3. CountType'
    <3>1. retry' \in [Callers -> 0..MaxRetries] /\ k' \in [Callers -> 1..N]
      <4>1. \/ UNCHANGED <<retry, k>>
            \/ /\ retry[c] < MaxRetries /\ retry' = [retry EXCEPT ![c] = retry[c] + 1]
               /\ k' = [k EXCEPT ![c] = 1]
        BY <1>15 DEF Recover, Retries
      <4>2. retry[c] < MaxRetries => retry[c] + 1 \in 0..MaxRetries
        BY DEF CountType
      <4>3. 1 \in 1..N
        BY <1>a
      <4>4. CASE UNCHANGED <<retry, k>>
        BY <4>4 DEF CountType
      <4>5. CASE /\ retry[c] < MaxRetries
                 /\ retry' = [retry EXCEPT ![c] = retry[c] + 1]
                 /\ k' = [k EXCEPT ![c] = 1]
        <5>1. retry[c] + 1 \in 0..MaxRetries
          BY <4>2, <4>5
        <5>2. retry' \in [Callers -> 0..MaxRetries]
          BY <4>5, <5>1 DEF CountType
        <5> QED BY <1>a, <4>3, <4>5, <5>2 DEF CountType
      <4> QED BY <4>1, <4>4, <4>5
    <3> QED BY <1>c, <1>15, <3>1 DEF Recover, CountType
  <2>4. TokenType'
    BY <1>a, <1>b, <1>c, <1>15 DEF Recover, TokenType
  <2> QED BY <2>1, <2>2, <2>3, <2>4
<1>16. CASE \E c \in Callers : Cancel(c)
  <2>1. ConfigType'
    BY <1>b, <1>c, <1>16 DEF Cancel, ConfigType
  <2>2. CallType'
    BY <1>b, <1>c, <1>16 DEF Cancel, CallType
  <2>3. CountType'
    BY <1>b, <1>c, <1>16 DEF Cancel, CountType
  <2>4. TokenType'
    BY <1>b, <1>c, <1>16 DEF Cancel, TokenType
  <2> QED BY <2>1, <2>2, <2>3, <2>4
<1>17. CASE Expire
  <2>1. ConfigType'
    BY <1>b, <1>c, <1>17 DEF Expire, ConfigType
  <2>2. CallType'
    BY <1>b, <1>c, <1>17 DEF Expire, CallType
  <2>3. CountType'
    BY <1>b, <1>c, <1>17 DEF Expire, CountType
  <2>4. TokenType'
    BY <1>b, <1>c, <1>17 DEF Expire, TokenType
  <2> QED BY <2>1, <2>2, <2>3, <2>4
<1>18. CASE Others
  <2>1. ConfigType'
    BY <1>b, <1>c, <1>18 DEF Others, ConfigType
  <2>2. CallType'
    BY <1>b, <1>c, <1>18 DEF Others, CallType
  <2>3. CountType'
    BY <1>b, <1>c, <1>18 DEF Others, CountType
  <2>4. TokenType'
    BY <1>b, <1>c, <1>18 DEF Others, TokenType
  <2> QED BY <2>1, <2>2, <2>3, <2>4
<1>19. CASE UNCHANGED vars
  <2>1. ConfigType'
    BY <1>b, <1>c, <1>19 DEF vars, ConfigType
  <2>2. CallType'
    BY <1>b, <1>c, <1>19 DEF vars, CallType
  <2>3. CountType'
    BY <1>b, <1>c, <1>19 DEF vars, CountType
  <2>4. TokenType'
    BY <1>b, <1>c, <1>19 DEF vars, TokenType
  <2> QED BY <2>1, <2>2, <2>3, <2>4
<1> QED
  BY <1>1, <1>2, <1>3, <1>4, <1>5, <1>6, <1>7, <1>8, <1>9, <1>10,
     <1>11, <1>12, <1>13, <1>14, <1>15, <1>16, <1>17, <1>18, <1>19 DEF Next, Caller

(* Every variable of the gateway keeps its type.                           *)
THEOREM TypeCorrect == Spec => []TypeOK
<1>1. QED BY TypeInit, TypeStep, PTL DEF Spec

-----------------------------------------------------------------------------
(* The inductive invariant.                                                *)

(* What is a caller's own.                                                 *)
Mine(c) == <<pc[c], k[c], attempt[c], retry[c], err[c], sent[c], cancelled[c],
             file[c], failed[c], fresh[c], held[c], got[c]>>

(* A caller's step leaves the other callers' turns alone.                  *)
LEMMA Frame ==
  ASSUME TypeOK, NEW c \in Callers, Caller(c) \/ Cancel(c),
         NEW d \in Callers, c # d
  PROVE  UNCHANGED Mine(d) /\ UNCHANGED epoch
<1> USE DEF TypeOK, ConfigType, CallType, CountType, TokenType, config, turn,
            marks, auth, world, Goto, Set, Mine
<1>1. CASE Construct(c)
  BY <1>1 DEF Construct
<1>2. CASE Generate(c)
  BY <1>2 DEF Generate
<1>3. CASE Provider(c)
  BY <1>3 DEF Provider
<1>4. CASE SendChat(c)
  BY <1>4 DEF SendChat
<1>5. CASE Upload(c)
  BY <1>5 DEF Upload
<1>6. CASE Request(c)
  BY <1>6 DEF Request
<1>7. CASE Release(c)
  BY <1>7 DEF Release
<1>8. CASE Settle(c)
  BY <1>8 DEF Settle
<1>9. CASE Invalidate(c)
  BY <1>9 DEF Invalidate
<1>10. CASE Apply(c)
  BY <1>10 DEF Apply
<1>11. CASE Gcloud(c)
  BY <1>11 DEF Gcloud
<1>12. CASE Store(c)
  BY <1>12 DEF Store
<1>13. CASE InitSDK(c)
  BY <1>13 DEF InitSDK
<1>14. CASE Error(c)
  <2>1. /\ \E p \in {"provider", "recover"} : Goto(c, p)
        /\ k' = k \/ k' = Set(k, c, k[c] + 1)
        /\ err' = err \/ err' = Set(err, c, err[c] \cup {"terminal"})
        /\ UNCHANGED <<config, client, attempt, retry, sent, file, held, marks, auth, world>>
    BY <1>14 DEF Error
  <2> QED BY <2>1
<1>15. CASE Recover(c)
  BY SMTT(20), <1>15 DEF Recover
<1>16. CASE Cancel(c)
  BY <1>16 DEF Cancel
<1> QED
  BY <1>1, <1>2, <1>3, <1>4, <1>5, <1>6, <1>7, <1>8, <1>9, <1>10,
     <1>11, <1>12, <1>13, <1>14, <1>15, <1>16 DEF Caller

(* Nobody uploads but to a files provider; files go back before SendChat  *)
(* returns, on every path.                                                 *)
LEMMA FilesStep == TypeOK /\ IInv /\ [Next]_vars => FilesInv'
<1> SUFFICES ASSUME TypeOK, IInv, [Next]_vars, NEW d \in Callers PROVE FilesOf(d)'
  BY DEF FilesInv
<1> USE DEF IInv, FilesInv, BudgetInv, VisitsInv, TokensInv, RefusalInv,
            Goto, Set, Kind, Sending, Refreshing,
            TypeOK, ConfigType, CallType, CountType, TokenType,
            config, turn, marks, auth, world, Parts
<1>c. UNCHANGED <<chain, failover, keyBad>> /\ N' = N
  BY ConfigFixed
<1>1. FilesOf(d)
  OBVIOUS
<1>2. ASSUME NEW c \in Callers, c # d, Caller(c) \/ Cancel(c) PROVE FilesOf(d)'
  <2>1. UNCHANGED Mine(d) /\ UNCHANGED epoch
    BY ONLY TypeOK, <1>2, Frame
  <2> QED BY <1>c, <1>1, <2>1 DEF FilesOf, Mine
<1>3. CASE Construct(d)
  BY <1>c, <1>1, <1>3 DEF Construct, FilesOf
<1>4. CASE Generate(d)
  BY <1>c, <1>1, <1>4 DEF Generate, FilesOf
<1>5. CASE Provider(d)
  BY SMTT(20), <1>c, <1>1, <1>5 DEF Provider, FilesOf
<1>6. CASE SendChat(d)
  BY <1>c, <1>1, <1>6 DEF SendChat, FilesOf
<1>7. CASE Upload(d)
  BY <1>c, <1>1, <1>7 DEF Upload, FilesOf
<1>8. CASE Request(d)
  BY <1>c, <1>1, <1>8 DEF Request, FilesOf
<1>9. CASE Release(d)
  BY <1>c, <1>1, <1>9 DEF Release, FilesOf
<1>10. CASE Settle(d)
  <2>1. /\ pc[d] = "settle" /\ UNCHANGED <<k[d], file[d]>>
        /\ pc'[d] \in {"ok", "invalidate", "send", "error"}
    BY <1>10 DEF Settle
  <2> QED BY ONLY <1>c, <1>1, <2>1 DEF FilesOf
<1>11. CASE Invalidate(d)
  BY <1>c, <1>1, <1>11 DEF Invalidate, FilesOf
<1>12. CASE Apply(d)
  BY <1>c, <1>1, <1>12 DEF Apply, FilesOf
<1>13. CASE Gcloud(d)
  BY <1>c, <1>1, <1>13 DEF Gcloud, FilesOf
<1>14. CASE Store(d)
  BY <1>c, <1>1, <1>14 DEF Store, FilesOf
<1>15. CASE InitSDK(d)
  BY <1>c, <1>1, <1>15 DEF InitSDK, FilesOf
<1>16. CASE Error(d)
  BY <1>c, <1>1, <1>16 DEF Error, FilesOf
<1>17. CASE Recover(d)
  BY <1>c, <1>1, <1>17 DEF Recover, FilesOf
<1>18. CASE Cancel(d)
  BY <1>c, <1>1, <1>18 DEF Cancel, FilesOf
<1>19. CASE Expire
  BY <1>c, <1>1, <1>19 DEF Expire, FilesOf
<1>20. CASE Others
  BY <1>c, <1>1, <1>20 DEF Others, FilesOf
<1>21. CASE UNCHANGED vars
  BY <1>c, <1>1, <1>21 DEF vars, FilesOf
<1> QED
  BY <1>2, <1>3, <1>4, <1>5, <1>6, <1>7, <1>8, <1>9, <1>10, <1>11,
     <1>12, <1>13, <1>14, <1>15, <1>16, <1>17, <1>18, <1>19, <1>20, <1>21 DEF Next, Caller

(* The steps of a caller, by what they do to its place in the chain.       *)
Counts(d) == <<k[d], retry[d], attempt[d], sent[d]>>

Stays(d)  == UNCHANGED Counts(d) /\ UNCHANGED <<pc[d], err[d]>>
Starts(d) == /\ pc[d] = "idle" /\ UNCHANGED Counts(d)
             /\ pc'[d] = "provider" \/ (pc'[d] = "recover" /\ err'[d] = {"terminal"})
Stops(d)  == /\ pc[d] = "provider" /\ UNCHANGED Counts(d)
             /\ pc'[d] = "recover" /\ err'[d] = {"canceled"}
Begins(d) == /\ pc[d] = "provider" /\ UNCHANGED <<k[d], retry[d], sent[d]>>
             /\ pc'[d] = "send" /\ attempt'[d] = 0
Asks(d)   == /\ pc[d] = "send" /\ UNCHANGED <<k[d], retry[d], attempt[d]>>
             /\ pc'[d] \in {"upload", "request"}
             /\ sent'[d] = [sent[d] EXCEPT ![k[d]] = sent[d][k[d]] + 1]
Works(d)  == /\ pc[d] \in Sending /\ UNCHANGED Counts(d)
             /\ pc'[d] \in (Sending \ {"upload"}) \cup {"error", "ok"}
             /\ pc'[d] \in Refreshing => pc[d] \in Refreshing \/ attempt[d] = 0
Repeats(d) == /\ pc[d] = "init" \/ (pc[d] = "settle" /\ attempt[d] = 0)
              /\ UNCHANGED <<k[d], retry[d], sent[d]>>
              /\ pc'[d] = "send" /\ attempt'[d] = 1
FailsOver(d) == /\ pc[d] = "error" /\ UNCHANGED <<retry[d], attempt[d], sent[d]>>
                /\ failover /\ k[d] < N /\ k'[d] = k[d] + 1 /\ pc'[d] = "provider"
GivesUp(d) == /\ pc[d] = "error" /\ UNCHANGED Counts(d) /\ pc'[d] = "recover"
              /\ failover => \/ k[d] = N /\ "terminal" \in err'[d]
                             \/ ~IsTransient(err'[d]) /\ "quota" \notin err'[d]
Retried(d) == /\ pc[d] = "recover" /\ UNCHANGED <<attempt[d], sent[d]>>
              /\ d = Engine /\ "terminal" \notin err[d] /\ IsTransient(err[d])
              /\ k'[d] = 1 /\ retry'[d] = retry[d] + 1 /\ pc'[d] = "provider"
Fails(d)  == /\ pc[d] = "recover" /\ UNCHANGED Counts(d) /\ UNCHANGED err[d]
             /\ pc'[d] = "failed"

Move(d) == \/ Stays(d) \/ Starts(d) \/ Stops(d) \/ Begins(d) \/ Asks(d) \/ Works(d)
           \/ Repeats(d) \/ FailsOver(d) \/ GivesUp(d) \/ Retried(d) \/ Fails(d)

(* Each action is one of these steps.                                      *)
LEMMA Moves ==
  ASSUME TypeOK, NEW d \in Callers, Caller(d)
  PROVE  Move(d)
<1> USE DEF TypeOK, CallType, CountType, config, turn, marks, auth, world, Goto,
            Set, Move, Counts, Sending, Refreshing,
            Stays, Starts, Stops, Begins, Asks, Works,
            Repeats, FailsOver, GivesUp, Retried, Fails
<1>1. CASE Construct(d)
  BY <1>1 DEF Construct
<1>2. CASE Generate(d)
  BY <1>2 DEF Generate
<1>3. CASE Provider(d)
  BY <1>3 DEF Provider
<1>4. CASE SendChat(d)
  BY <1>4 DEF SendChat
<1>5. CASE Upload(d)
  BY <1>5 DEF Upload
<1>6. CASE Request(d)
  BY <1>6 DEF Request
<1>7. CASE Release(d)
  BY <1>7 DEF Release
<1>8. CASE Settle(d)
  BY <1>8 DEF Settle
<1>9. CASE Invalidate(d)
  BY <1>9 DEF Invalidate
<1>10. CASE Apply(d)
  BY <1>10 DEF Apply
<1>11. CASE Gcloud(d)
  BY <1>11 DEF Gcloud
<1>12. CASE Store(d)
  BY <1>12 DEF Store
<1>13. CASE InitSDK(d)
  BY <1>13 DEF InitSDK
<1>14. CASE Error(d)
  BY <1>14 DEF Error, IsTransient
<1>15. CASE Recover(d)
  BY <1>15 DEF Recover, Retries, IsFatal, IsTransient
<1> QED
  BY <1>1, <1>2, <1>3, <1>4, <1>5, <1>6, <1>7, <1>8, <1>9, <1>10,
     <1>11, <1>12, <1>13, <1>14, <1>15 DEF Caller

(* A step asks at most the provider in turn, twice in a try.               *)
LEMMA BudgetStep == TypeOK /\ IInv /\ [Next]_vars => BudgetInv'
<1> SUFFICES ASSUME TypeOK, IInv, [Next]_vars, NEW d \in Callers PROVE BudgetOf(d)'
  BY DEF BudgetInv
<1>1. BudgetOf(d) /\ VisitsOf(d)
  BY DEF IInv, BudgetInv, VisitsInv
<1>2. UNCHANGED <<chain, failover, keyBad>> /\ N' = N
  BY ConfigFixed
<1>3. /\ N \in Nat /\ N >= 1 /\ k[d] \in 1..N /\ retry[d] \in Nat
      /\ attempt[d] \in {0, 1} /\ sent[d] \in [1..N -> Nat]
      /\ \A i \in 1..N : sent[d][i] \in Nat
  BY ChainFacts, GatewayAssumption DEF TypeOK, ConfigType, CountType
<1>4. CASE Caller(d)
  <2>1. Move(d)
    BY ONLY TypeOK, <1>4, Moves
  <2> USE ONLY <1>1, <1>2, <1>3 DEF Counts, Sending, Refreshing, BudgetOf, VisitsOf
  <2>2. CASE Stays(d)
    BY <2>2 DEF Stays
  <2>3. CASE Starts(d)
    BY <2>3 DEF Starts
  <2>4. CASE Stops(d)
    BY <2>4 DEF Stops
  <2>5. CASE Begins(d)
    <3>1. sent'[d][k'[d]] <= 2 * retry'[d] + attempt'[d]
      BY <2>5 DEF Begins
    <3> QED BY <2>5, <3>1 DEF Begins
  <2>6. CASE Asks(d)
    <3>1. sent'[d][k[d]] = sent[d][k[d]] + 1
      BY <2>6 DEF Asks
    <3>2. \A i \in 1..N : i # k[d] => sent'[d][i] = sent[d][i]
      BY <2>6 DEF Asks
    <3>3. /\ sent[d][k[d]] <= 2 * retry[d] + attempt[d]
          /\ \A i \in 1..N : sent[d][i] <= 2 * retry[d] + 2
          /\ \A i \in 1..N : i > k[d] => sent[d][i] <= 2 * retry[d]
      BY <2>6 DEF Asks
    <3>4. sent'[d][k[d]] <= 2 * retry[d] + 2
      <4>1. sent[d][k[d]] \in Nat /\ retry[d] \in Nat /\ attempt[d] \in Nat
        BY ONLY <1>3
      <4>2. attempt[d] <= 1
        BY ONLY <1>3
      <4> QED BY ONLY <3>1, <3>3, <4>1, <4>2
    <3>5. ASSUME NEW i \in 1..N
          PROVE  /\ sent'[d][i] <= 2 * retry[d] + 2
                 /\ i > k[d] => sent'[d][i] <= 2 * retry[d]
      <4>1. i \in Nat /\ k[d] \in Nat
        BY ONLY <1>3
      <4>2. CASE i = k[d]
        BY ONLY <3>4, <4>1, <4>2
      <4>3. CASE i # k[d]
        BY <3>2, <3>3, <4>3
      <4> QED BY <4>2, <4>3
    <3>6. /\ pc'[d] \in {"upload", "request"} /\ k'[d] = k[d]
          /\ retry'[d] = retry[d] /\ attempt'[d] = attempt[d] /\ N' = N
      BY <2>6 DEF Asks
    <3>7. sent'[d][k'[d]] <= 2 * retry'[d] + attempt'[d] + 1
      <4>1. sent[d][k[d]] \in Nat /\ retry[d] \in Nat /\ attempt[d] \in Nat
        BY ONLY <1>3
      <4> QED BY ONLY <3>1, <3>3, <3>6, <4>1
    <3> QED BY ONLY <1>1, <1>2, <3>5, <3>6, <3>7 DEF BudgetOf, Refreshing
  <2>7. CASE Works(d)
    BY <2>7 DEF Works
  <2>8. CASE Repeats(d)
    BY <2>8 DEF Repeats
  <2>9. CASE FailsOver(d)
    <3>1. k'[d] \in 1..N /\ k'[d] = k[d] + 1
      BY ONLY <1>3, <2>9 DEF FailsOver
    <3>2. sent'[d][k'[d]] <= 2 * retry'[d]
      <4>1. \A i \in 1..N : i > k[d] => sent[d][i] <= 2 * retry[d]
        BY ONLY <1>1 DEF BudgetOf
      <4>2. k'[d] > k[d]
        BY ONLY <1>3, <3>1
      <4>3. sent[d][k'[d]] <= 2 * retry[d]
        BY ONLY <3>1, <4>1, <4>2
      <4> QED BY ONLY <2>9, <4>3 DEF FailsOver
    <3>3. \A i \in 1..N : i > k'[d] => i > k[d]
      BY ONLY <1>3, <3>1
    <3> QED BY <2>9, <3>2, <3>3 DEF FailsOver
  <2>10. CASE GivesUp(d)
    BY <2>10 DEF GivesUp
  <2>11. CASE Retried(d)
    <3>1. retry'[d] = retry[d] + 1 /\ sent'[d] = sent[d] /\ k'[d] = 1
          /\ pc'[d] = "provider" /\ ~(failover \/ d # Engine)
      BY <2>11 DEF Retried
    <3>2. \A i \in 1..N : sent'[d][i] <= 2 * retry[d] + 2
      BY <3>1
    <3>3. \A i \in 1..N : sent'[d][i] <= 2 * retry'[d]
      BY ONLY <1>3, <3>1, <3>2
    <3>4. /\ \A i \in 1..N : sent'[d][i] <= 2 * retry'[d] + 2
          /\ sent'[d][k'[d]] <= 2 * retry'[d]
      BY ONLY SMTT(20), <1>3, <3>1, <3>3
    <3> QED BY ONLY <1>2, <3>1, <3>3, <3>4 DEF BudgetOf, Sending, Refreshing
  <2>12. CASE Fails(d)
    BY <2>12 DEF Fails
  <2> QED BY <2>1, <2>2, <2>3, <2>4, <2>5, <2>6, <2>7,
             <2>8, <2>9, <2>10, <2>11, <2>12 DEF Move
<1>5. CASE \/ \E c \in Callers \ {d} : Caller(c) \/ Cancel(c)
          \/ Cancel(d) \/ Expire \/ Others \/ UNCHANGED vars
  <2>1. UNCHANGED <<pc[d], k[d], retry[d], attempt[d], sent[d], err[d]>>
    <3>1. CASE \E c \in Callers \ {d} : Caller(c) \/ Cancel(c)
      <4>1. UNCHANGED Mine(d)
        BY ONLY TypeOK, <3>1, Frame
      <4> QED BY <4>1 DEF Mine
    <3>2. CASE Cancel(d) \/ Expire \/ Others \/ UNCHANGED vars
      BY <3>2 DEF Cancel, Expire, Others, vars, config, turn, marks, auth
    <3> QED BY <1>5, <3>1, <3>2
  <2> QED BY <1>1, <1>2, <2>1 DEF BudgetOf
<1> QED BY <1>4, <1>5 DEF Next

(* A try ends with the chain, in success or in an error that is fatal.     *)
LEMMA VisitsStep == TypeOK /\ IInv /\ [Next]_vars => VisitsInv'
<1> SUFFICES ASSUME TypeOK, IInv, [Next]_vars, NEW d \in Callers PROVE VisitsOf(d)'
  BY DEF VisitsInv
<1>1. BudgetOf(d) /\ VisitsOf(d)
  BY DEF IInv, BudgetInv, VisitsInv
<1>2. UNCHANGED <<chain, failover, keyBad>> /\ N' = N
  BY ConfigFixed
<1>3. /\ N \in Nat /\ N >= 1 /\ k[d] \in 1..N /\ retry[d] \in Nat
      /\ attempt[d] \in {0, 1} /\ sent[d] \in [1..N -> Nat]
      /\ \A i \in 1..N : sent[d][i] \in Nat
  BY ChainFacts, GatewayAssumption DEF TypeOK, ConfigType, CountType
<1>4. CASE Caller(d)
  <2>1. Move(d)
    BY ONLY TypeOK, <1>4, Moves
  <2> USE ONLY <1>1, <1>2, <1>3 DEF Counts, Sending, Refreshing, VisitsOf, IsTransient
  <2>2. CASE Stays(d)
    BY <2>2 DEF Stays
  <2>3. CASE Starts(d)
    BY <2>3 DEF Starts
  <2>4. CASE Stops(d)
    BY <2>4 DEF Stops
  <2>5. CASE Begins(d)
    BY <2>5 DEF Begins
  <2>6. CASE Asks(d)
    BY <2>6 DEF Asks
  <2>7. CASE Works(d)
    BY <2>7 DEF Works
  <2>8. CASE Repeats(d)
    BY <2>8 DEF Repeats
  <2>9. CASE FailsOver(d)
    BY <2>9 DEF FailsOver
  <2>10. CASE GivesUp(d)
    BY <2>10 DEF GivesUp
  <2>11. CASE Retried(d)
    BY <2>11 DEF Retried
  <2>12. CASE Fails(d)
    BY <2>12 DEF Fails
  <2> QED BY <2>1, <2>2, <2>3, <2>4, <2>5, <2>6, <2>7,
             <2>8, <2>9, <2>10, <2>11, <2>12 DEF Move
<1>5. CASE \/ \E c \in Callers \ {d} : Caller(c) \/ Cancel(c)
          \/ Cancel(d) \/ Expire \/ Others \/ UNCHANGED vars
  <2>1. UNCHANGED <<pc[d], k[d], retry[d], attempt[d], sent[d], err[d]>>
    <3>1. CASE \E c \in Callers \ {d} : Caller(c) \/ Cancel(c)
      <4>1. UNCHANGED Mine(d)
        BY ONLY TypeOK, <3>1, Frame
      <4> QED BY <4>1 DEF Mine
    <3>2. CASE Cancel(d) \/ Expire \/ Others \/ UNCHANGED vars
      BY <3>2 DEF Cancel, Expire, Others, vars, config, turn, marks, auth
    <3> QED BY <1>5, <3>1, <3>2
  <2> QED BY <1>1, <1>2, <2>1 DEF VisitsOf
<1> QED BY <1>4, <1>5 DEF Next

(* The client is made once, before anybody is past its first step.         *)
LEMMA ClientStep == TypeOK /\ IInv /\ [Next]_vars => ClientInv'
<1> SUFFICES ASSUME TypeOK, IInv, [Next]_vars PROVE ClientInv'
  OBVIOUS
<1>c. UNCHANGED <<chain, failover, keyBad>> /\ N' = N
  BY ConfigFixed
<1>1. ClientInv
  BY DEF IInv
<1>2. ASSUME NEW c \in Callers, Caller(c) \/ Cancel(c) PROVE ClientInv'
  <2>1. ASSUME NEW d \in Callers, d # c PROVE UNCHANGED Mine(d)
    BY ONLY TypeOK, <1>2, <2>1, Frame
  <2>2. CASE Construct(c) \/ Cancel(c)
    <3>1. /\ UNCHANGED <<pc, k, err, sent, fresh>>
          /\ client' = client \/ client' # "none"
      BY <2>2 DEF Construct, Cancel, turn, marks
    <3> QED BY ONLY <1>c, <1>1, <3>1 DEF ClientInv
  <2>3. CASE ~(Construct(c) \/ Cancel(c))
    <3>1. /\ pc'[c] # "idle" /\ client' = client
          /\ client = "none" => pc[c] # "idle"
      BY <1>2, <2>3 DEF TypeOK, CallType, Goto, Caller, Generate, Provider,
           SendChat, Upload, Request, Release, Settle, Invalidate, Apply,
           Gcloud, Store, InitSDK, Error, Recover
    <3>2. client' # "none"
      BY <1>1, <3>1 DEF ClientInv
    <3>3. ASSUME NEW d \in Callers, pc'[d] = "idle"
          PROVE  /\ k'[d] = 1 /\ err'[d] = {}
                 /\ \A i \in 1..N : sent'[d][i] = 0
      <4>1. d # c /\ UNCHANGED Mine(d)
        BY <2>1, <3>1, <3>3
      <4> QED BY ONLY <1>1, <3>3, <4>1 DEF ClientInv, Mine
    <3> QED BY ONLY <1>c, <3>2, <3>3 DEF ClientInv
  <2> QED BY <2>2, <2>3
<1>3. CASE Expire
  BY <1>c, <1>1, <1>3 DEF Expire, ClientInv, config, turn, marks
<1>4. CASE Others
  BY <1>c, <1>1, <1>4 DEF Others, ClientInv, config, turn, marks
<1>5. CASE UNCHANGED vars
  BY <1>c, <1>1, <1>5 DEF vars, ClientInv, config, turn, marks
<1> QED BY <1>2, <1>3, <1>4, <1>5 DEF Next

(* What a refresh takes is of the current period, whoever else refreshes.  *)
LEMMA TokensStep == TypeOK /\ IInv /\ [Next]_vars => TokensInv'
<1> SUFFICES ASSUME TypeOK, IInv, [Next]_vars, NEW d \in Callers PROVE TokensOf(d)'
  BY DEF TokensInv
<1> USE DEF IInv, FilesInv, BudgetInv, VisitsInv, TokensInv, RefusalInv,
            Goto, Set, Kind, Sending, Refreshing,
            TypeOK, ConfigType, CallType, CountType, TokenType,
            config, turn, marks, auth, world
<1>c. UNCHANGED <<chain, failover, keyBad>> /\ N' = N
  BY ConfigFixed
<1>1. TokensOf(d)
  OBVIOUS
<1>2. ASSUME NEW c \in Callers, c # d, Caller(c) \/ Cancel(c) PROVE TokensOf(d)'
  <2>1. UNCHANGED Mine(d) /\ UNCHANGED epoch
    BY ONLY TypeOK, <1>2, Frame
  <2>2. /\ pc[d] = "apply" => token' \in {0, epoch} /\ cache' \in {0, epoch}
        /\ fresh[d] <= sdk'
    <3>1. TokensOf(c)
      OBVIOUS
    <3>2. CASE Construct(c)
      BY <1>1, <3>1, <3>2 DEF Construct, TokensOf, ClientInv
    <3>3. CASE Generate(c)
      BY <1>1, <3>1, <3>3 DEF Generate, TokensOf
    <3>4. CASE Provider(c)
      BY <1>1, <3>1, <3>4 DEF Provider, TokensOf
    <3>5. CASE SendChat(c)
      BY <1>1, <3>1, <3>5 DEF SendChat, TokensOf
    <3>6. CASE Upload(c)
      BY <1>1, <3>1, <3>6 DEF Upload, TokensOf
    <3>7. CASE Request(c)
      BY <1>1, <3>1, <3>7 DEF Request, TokensOf
    <3>8. CASE Release(c)
      BY <1>1, <3>1, <3>8 DEF Release, TokensOf
    <3>9. CASE Settle(c)
      BY <1>1, <3>1, <3>9 DEF Settle, TokensOf
    <3>10. CASE Invalidate(c)
      BY <1>1, <3>1, <3>10 DEF Invalidate, TokensOf
    <3>11. CASE Apply(c)
      BY <1>1, <3>1, <3>11 DEF Apply, TokensOf
    <3>12. CASE Gcloud(c)
      BY <1>1, <3>1, <3>12 DEF Gcloud, TokensOf
    <3>13. CASE Store(c)
      BY <1>1, <3>1, <3>13 DEF Store, TokensOf
    <3>14. CASE InitSDK(c)
      BY SMTT(20), <1>1, <3>1, <3>14 DEF InitSDK, TokensOf
    <3>15. CASE Error(c)
      <4>1. UNCHANGED <<marks, auth, world>>
        BY <3>15 DEF Error
      <4> QED BY <1>1, <4>1 DEF TokensOf
    <3>16. CASE Recover(c)
      BY <1>1, <3>1, <3>16 DEF Recover, TokensOf
    <3>17. CASE Cancel(c)
      BY <1>1, <3>1, <3>17 DEF Cancel, TokensOf
    <3> QED
      BY <1>2, <3>2, <3>3, <3>4, <3>5, <3>6, <3>7, <3>8, <3>9,
         <3>10, <3>11, <3>12, <3>13, <3>14, <3>15, <3>16, <3>17 DEF Caller
  <2> QED BY <1>c, <1>1, <2>1, <2>2 DEF TokensOf, Mine
<1>3. CASE Construct(d)
  BY <1>c, <1>1, <1>3 DEF Construct, TokensOf, ClientInv
<1>4. CASE Generate(d)
  BY <1>c, <1>1, <1>4 DEF Generate, TokensOf
<1>5. CASE Provider(d)
  BY <1>c, <1>1, <1>5 DEF Provider, TokensOf
<1>6. CASE SendChat(d)
  BY <1>c, <1>1, <1>6 DEF SendChat, TokensOf
<1>7. CASE Upload(d)
  <2>1. /\ pc[d] = "upload" /\ pc'[d] \in {"upload", "request", "release"}
        /\ UNCHANGED <<k[d], fresh[d], held[d], sdk>>
    BY <1>7 DEF Upload
  <2>2. Kind(d) = "files"
    BY <1>7, <2>1 DEF FilesOf
  <2> QED BY ONLY <1>c, <1>1, <2>1, <2>2 DEF TokensOf, Kind
<1>8. CASE Request(d)
  BY <1>c, <1>1, <1>8 DEF Request, TokensOf
<1>9. CASE Release(d)
  BY <1>c, <1>1, <1>9 DEF Release, TokensOf
<1>10. CASE Settle(d)
  BY <1>c, <1>1, <1>10 DEF Settle, TokensOf
<1>11. CASE Invalidate(d)
  BY <1>c, <1>1, <1>11 DEF Invalidate, TokensOf
<1>12. CASE Apply(d)
  BY <1>c, <1>1, <1>12 DEF Apply, TokensOf
<1>13. CASE Gcloud(d)
  BY <1>c, <1>1, <1>13 DEF Gcloud, TokensOf
<1>14. CASE Store(d)
  BY <1>c, <1>1, <1>14 DEF Store, TokensOf
<1>15. CASE InitSDK(d)
  BY <1>c, <1>1, <1>15 DEF InitSDK, TokensOf
<1>16. CASE Error(d)
  BY <1>c, <1>1, <1>16 DEF Error, TokensOf
<1>17. CASE Recover(d)
  BY <1>c, <1>1, <1>17 DEF Recover, TokensOf
<1>18. CASE Cancel(d)
  BY <1>c, <1>1, <1>18 DEF Cancel, TokensOf
<1>19. CASE Expire
  BY <1>c, <1>1, <1>19 DEF Expire, TokensOf
<1>20. CASE Others
  BY <1>c, <1>1, <1>20 DEF Others, TokensOf
<1>21. CASE UNCHANGED vars
  BY <1>c, <1>1, <1>21 DEF vars, TokensOf
<1> QED
  BY <1>2, <1>3, <1>4, <1>5, <1>6, <1>7, <1>8, <1>9, <1>10, <1>11,
     <1>12, <1>13, <1>14, <1>15, <1>16, <1>17, <1>18, <1>19, <1>20, <1>21 DEF Next, Caller

(* A refusal is passed on only with its excuse.                            *)
LEMMA RefusalStep == TypeOK /\ IInv /\ [Next]_vars => RefusalInv'
<1> SUFFICES ASSUME TypeOK, IInv, [Next]_vars, NEW d \in Callers PROVE RefusalOf(d)'
  BY DEF RefusalInv
<1> USE DEF IInv, FilesInv, BudgetInv, VisitsInv, TokensInv, RefusalInv,
            Goto, Set, Kind, Sending, Refreshing,
            TypeOK, ConfigType, CallType, CountType, TokenType,
            config, turn, marks, auth, world, Excused
<1>c. UNCHANGED <<chain, failover, keyBad>> /\ N' = N
  BY ConfigFixed
<1>1. RefusalOf(d)
  OBVIOUS
<1>2. ASSUME NEW c \in Callers, c # d, Caller(c) \/ Cancel(c) PROVE RefusalOf(d)'
  <2>1. UNCHANGED Mine(d) /\ UNCHANGED epoch
    BY ONLY TypeOK, <1>2, Frame
  <2> QED BY <1>c, <1>1, <2>1 DEF RefusalOf, Mine
<1>3. CASE Construct(d)
  BY <1>c, <1>1, <1>3 DEF Construct, RefusalOf
<1>4. CASE Generate(d)
  <2>1. "auth" \notin err'[d] /\ pc'[d] \in {"provider", "recover"}
    BY <1>4 DEF Generate, ClientInv
  <2> QED BY ONLY <1>c, <1>1, <2>1 DEF RefusalOf, Excused, Kind, Sending, Refreshing
<1>5. CASE Provider(d)
  <2>1. /\ "auth" \notin err'[d] /\ pc'[d] \in {"recover", "send"}
        /\ pc'[d] = "send" => attempt'[d] = 0
    BY <1>5 DEF Provider, RefusalOf
  <2> QED BY ONLY <1>c, <1>1, <2>1 DEF RefusalOf, Excused, Kind, Sending, Refreshing
<1>6. CASE SendChat(d)
  BY <1>c, <1>1, <1>6 DEF SendChat, RefusalOf
<1>7. CASE Upload(d)
  <2>1. /\ pc[d] = "upload" /\ pc'[d] \in {"upload", "request", "release"}
        /\ err'[d] = err[d] \/ ("auth" \notin err'[d] /\ pc'[d] = "release")
        /\ UNCHANGED <<k[d], attempt[d], fresh[d], failed[d]>>
    BY <1>7 DEF Upload, Classify
  <2> QED BY ONLY <1>c, <1>1, <2>1 DEF RefusalOf, Excused, Kind, Sending, Refreshing
<1>8. CASE Request(d)
  <2>1. /\ pc[d] = "request" /\ pc'[d] = IF Kind(d) = "files" THEN "release" ELSE "settle"
        /\ UNCHANGED <<k[d], attempt[d], fresh[d], failed[d], epoch>>
    BY <1>8 DEF Request
  <2>2. \/ err'[d] = {"auth"} /\ Refused(d)
        \/ "auth" \notin err'[d]
    <3>1. \/ err' = err
          \/ \E raw \in Outcomes(d) : err' = [err EXCEPT ![d] = Classify[raw]]
      BY <1>8 DEF Request
    <3>2. \A raw \in Outcomes(d) : \/ (Classify[raw] = {"auth"} /\ Refused(d))
                                  \/ "auth" \notin Classify[raw]
      <4>1. (Outcomes(d) = {"unauthorized"} /\ Refused(d)) \/ "unauthorized" \notin Outcomes(d)
        BY ONLY DEF Outcomes
      <4>2. Outcomes(d) \subseteq DOMAIN Classify
        BY ONLY DEF Outcomes, Classify
      <4> QED BY ONLY <4>1, <4>2, RefusalsOnly
    <3>3. "auth" \notin err[d]
      BY <1>1, <2>1 DEF RefusalOf
    <3> QED BY <3>1, <3>2, <3>3
  <2>3. Refused(d) => /\ Kind(d) = "vertex" => epoch > fresh[d]
                      /\ Kind(d) = "files" => keyBad
    <3>1. Kind(d) = "vertex" => fresh[d] <= held[d]
      BY <2>1 DEF TokensOf
    <3>2. epoch \in Nat /\ fresh[d] \in Nat /\ held[d] \in Nat
      OBVIOUS
    <3> QED BY ONLY <3>1, <3>2 DEF Refused
  <2> QED BY ONLY <1>c, <1>1, <2>1, <2>2, <2>3
          DEF RefusalOf, Excused, Kind, Sending, Refreshing
<1>9. CASE Release(d)
  <2>1. /\ pc[d] = "release" /\ pc'[d] \in {"release", "settle"} /\ Kind(d) = "files"
        /\ UNCHANGED <<err[d], k[d], attempt[d], fresh[d], failed[d]>>
    BY <1>9 DEF Release, FilesOf
  <2> QED BY ONLY <1>c, <1>1, <2>1 DEF RefusalOf, Excused, Kind, Sending, Refreshing
<1>10. CASE Settle(d)
  <2>1. /\ pc[d] = "settle" /\ UNCHANGED <<err[d], k[d], fresh[d], failed[d], epoch>>
        /\ \/ pc'[d] = "ok" /\ err[d] = {}
           \/ pc'[d] = "invalidate" /\ attempt'[d] = attempt[d]
           \/ pc'[d] = "send" /\ Kind(d) # "vertex"
           \/ pc'[d] = "error" /\ ("auth" \in err[d] => attempt[d] = 1)
    BY <1>10 DEF Settle
  <2>2. Kind(d) \in {"vertex", "files"}
    BY ChainFacts
  <2> QED BY ONLY <1>c, <1>1, <2>1, <2>2 DEF RefusalOf, Excused, Kind, Sending, Refreshing
<1>11. CASE Invalidate(d)
  BY <1>c, <1>1, <1>11 DEF Invalidate, RefusalOf
<1>12. CASE Apply(d)
  BY <1>c, <1>1, <1>12 DEF Apply, RefusalOf
<1>13. CASE Gcloud(d)
  <2>1. /\ pc[d] = "gcloud" /\ UNCHANGED <<err[d], k[d], attempt[d], fresh[d]>>
        /\ \/ pc'[d] = "store" /\ UNCHANGED failed[d]
           \/ pc'[d] = "error" /\ failed'[d]
    BY <1>13 DEF Gcloud
  <2>2. "auth" \in err[d] /\ Kind(d) = "files" => keyBad
    BY <1>1 DEF RefusalOf
  <2> QED BY ONLY <1>c, <1>1, <2>1, <2>2 DEF RefusalOf, Excused, Kind, Sending, Refreshing
<1>14. CASE Store(d)
  BY <1>c, <1>1, <1>14 DEF Store, RefusalOf
<1>15. CASE InitSDK(d)
  BY <1>c, <1>1, <1>15 DEF InitSDK, RefusalOf
<1>16. CASE Error(d)
  <2>1. /\ pc[d] = "error" /\ UNCHANGED <<attempt[d], fresh[d], failed[d], epoch>>
        /\ pc'[d] \in {"provider", "recover"}
        /\ \/ err[d] = {"auth"} /\ UNCHANGED <<err[d], k[d]>> /\ pc'[d] = "recover"
           \/ "auth" \notin err'[d]
    BY <1>16 DEF Error, IsTransient, RefusalOf
  <2> QED BY ONLY <1>c, <1>1, <2>1 DEF RefusalOf, Excused, Kind, Sending, Refreshing
<1>17. CASE Recover(d)
  <2>1. /\ pc[d] = "recover" /\ UNCHANGED <<err[d], attempt[d], fresh[d], failed[d], epoch>>
        /\ pc'[d] \in {"provider", "failed"}
        /\ "auth" \in err[d] => UNCHANGED k[d] /\ pc'[d] = "failed"
    BY SMTT(20), <1>17 DEF Recover, Retries, IsTransient, RefusalOf
  <2> QED BY ONLY <1>c, <1>1, <2>1 DEF RefusalOf, Excused, Kind, Sending, Refreshing
<1>18. CASE Cancel(d)
  BY <1>c, <1>1, <1>18 DEF Cancel, RefusalOf
<1>19. CASE Expire
  <2>1. UNCHANGED <<pc[d], k[d], attempt[d], err[d], failed[d], fresh[d]>>
    BY <1>19 DEF Expire
  <2>2. epoch' > epoch /\ epoch \in Nat /\ epoch' \in Nat /\ fresh[d] \in Nat
    BY <1>19 DEF Expire
  <2> QED BY ONLY <1>c, <1>1, <2>1, <2>2
          DEF RefusalOf, Excused, Kind, Sending, Refreshing
<1>20. CASE Others
  BY <1>c, <1>1, <1>20 DEF Others, RefusalOf
<1>21. CASE UNCHANGED vars
  BY <1>c, <1>1, <1>21 DEF vars, RefusalOf
<1> QED
  BY <1>2, <1>3, <1>4, <1>5, <1>6, <1>7, <1>8, <1>9, <1>10, <1>11,
     <1>12, <1>13, <1>14, <1>15, <1>16, <1>17, <1>18, <1>19, <1>20, <1>21 DEF Next, Caller

-----------------------------------------------------------------------------
(* The theorems.                                                           *)

(* Nobody has called: every part of the invariant holds.                   *)
LEMMA InvInit == Init => IInv
<1> SUFFICES ASSUME Init PROVE IInv
  OBVIOUS
<1> USE DEF Init, Sending, Refreshing
<1>1. N \in Nat /\ N >= 1
  BY ChainFacts
<1>a. \A c \in Callers :
        /\ pc[c] = "idle" /\ k[c] = 1 /\ retry[c] = 0 /\ fresh[c] = 0 /\ sdk = 0
        /\ \A i \in 1..N : sent[c][i] = 0
  BY <1>1
<1>2. ClientInv
  BY <1>1 DEF ClientInv
<1>3. FilesInv
  BY DEF FilesInv, FilesOf
<1>b. ASSUME NEW c \in Callers PROVE BudgetOf(c) /\ VisitsOf(c) /\ TokensOf(c)
  <2>1. /\ pc[c] = "idle" /\ k[c] = 1 /\ retry[c] = 0 /\ fresh[c] = 0 /\ sdk = 0
        /\ \A i \in 1..N : sent[c][i] = 0
    BY <1>a
  <2>2. BudgetOf(c)
    BY ONLY <1>1, <2>1 DEF BudgetOf, Sending, Refreshing
  <2>3. VisitsOf(c)
    BY ONLY <1>1, <2>1 DEF VisitsOf, Sending, Refreshing
  <2>4. TokensOf(c)
    BY ONLY <2>1 DEF TokensOf
  <2> QED BY <2>2, <2>3, <2>4
<1>4. BudgetInv /\ VisitsInv /\ TokensInv
  BY ONLY <1>b DEF BudgetInv, VisitsInv, TokensInv
<1>7. RefusalInv
  BY DEF RefusalInv, RefusalOf
<1> QED BY <1>2, <1>3, <1>4, <1>7 DEF IInv

(* Before the client is made nobody calls; files, requests, tokens and     *)
(* refusals are accounted for as the parts of IInv say.                    *)
THEOREM InvCorrect == Spec => []IInv
<1>1. Init => TypeOK /\ IInv
  BY TypeInit, InvInit
<1>2. TypeOK /\ IInv /\ [Next]_vars => TypeOK' /\ IInv'
  BY TypeStep, ClientStep, FilesStep, BudgetStep, VisitsStep, TokensStep,
     RefusalStep DEF IInv
<1> QED BY <1>1, <1>2, PTL DEF Spec

(* A refusal of the credentials reaches the caller only when the refresh   *)
(* failed, the fixed key is bad or the refreshed token expired in turn:    *)
(* refreshes of other callers and processes never hand an old token on.    *)
THEOREM RefusalsExcused == Spec => []AuthRecovers
<1>1. IInv => AuthRecovers
  BY DEF IInv, RefusalInv, RefusalOf, AuthRecovers
<1> QED BY <1>1, InvCorrect, PTL

(* A request carries all its files, and no path out of SendChat forgets to *)
(* give one back.                                                          *)
THEOREM FilesGivenBack == Spec => []FilesReleased
<1>1. IInv => FilesReleased
  BY DEF IInv, FilesInv, FilesOf, FilesReleased
<1> QED BY <1>1, InvCorrect, PTL

(* Failover, refresh and retry together stay within two requests to a      *)
(* provider per try, and one try of a chain.                               *)
THEOREM TriesBounded == Spec => []ChainTriedOnce
<1>1. TypeOK /\ IInv => ChainTriedOnce
  <2> SUFFICES ASSUME TypeOK, IInv, NEW c \in Callers
               PROVE  /\ \A i \in 1..N : sent[c][i] <=
                           2 * (IF failover \/ c # Engine THEN 1 ELSE MaxRetries + 1)
                      /\ failover /\ pc[c] = "failed"
                           /\ (IsTransient(err[c]) \/ "quota" \in err[c])
                           => \A i \in 1..N : sent[c][i] > 0
    BY DEF ChainTriedOnce
  <2>1. BudgetOf(c) /\ VisitsOf(c)
    BY DEF IInv, BudgetInv, VisitsInv
  <2>2. /\ MaxRetries \in Nat /\ retry[c] \in 0..MaxRetries
        /\ \A i \in 1..N : sent[c][i] \in Nat
    <3>1. sent[c] \in [1..N -> Nat]
      BY DEF TypeOK, CountType
    <3> QED BY <3>1, GatewayAssumption DEF TypeOK, CountType
  <2>3. ASSUME NEW i \in 1..N
        PROVE  sent[c][i] <= 2 * (IF failover \/ c # Engine THEN 1 ELSE MaxRetries + 1)
    <3>1. sent[c][i] <= 2 * retry[c] + 2 /\ sent[c][i] \in Nat
      BY <2>1, <2>2 DEF BudgetOf
    <3>2. CASE failover \/ c # Engine
      BY <2>1, <3>1, <3>2 DEF BudgetOf
    <3>3. CASE ~(failover \/ c # Engine)
      BY ONLY <2>2, <3>1, <3>3
    <3> QED BY <3>2, <3>3
  <2> QED BY <2>1, <2>3 DEF VisitsOf
<1> QED BY <1>1, TypeCorrect, InvCorrect, PTL
=============================================================================
