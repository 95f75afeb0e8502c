-------------------------- MODULE TurnEngineProofs --------------------------
(***************************************************************************)
(* Proofs about the turn engine: calls of a run are answered before the    *)
(* provider is asked again, results stand behind their calls, a call runs  *)
(* no more often than the loop detector allows, and what a turn produced   *)
(* is persisted, and persisted once.                                       *)
(***************************************************************************)
EXTENDS TurnEngine, WellFoundedInduction, NaturalsInduction,
        FiniteSetTheorems, TLAPS

-----------------------------------------------------------------------------
(* A set that holds 0 and the successor of each number it holds, holds     *)
(* every number.                                                           *)
LEMMA SetInduction ==
  ASSUME NEW S, 0 \in S, \A k \in Nat : k \in S => k + 1 \in S
  PROVE  Nat \subseteq S
<1> DEFINE T == Nat \ S
           R == OpToRel(<, Nat)
<1> SUFFICES ASSUME T # {} PROVE FALSE
  OBVIOUS
<1>1. IsWellFoundedOn(R, Nat)
  BY NatLessThanWellFounded
<1>2. T \subseteq Nat
  OBVIOUS
<1>3. \E x \in T : \A y \in T : ~ (<<y, x>> \in R)
  <2> HIDE DEF T, R
  <2> QED BY <1>1, <1>2, WFMin
<1>4. PICK x \in T : \A y \in T : ~ (<<y, x>> \in R)
  BY <1>3
<1>5. x - 1 \in T
  OBVIOUS
<1>6. <<x - 1, x>> \in R
  BY <1>5 DEF OpToRel
<1> QED BY <1>4, <1>5, <1>6

-----------------------------------------------------------------------------
(* The history: what Added and Pruned return.                              *)

(* A message is appended, or its parts are added to the last message, if   *)
(* that has its role; what comes before stays.                             *)
AddedTo(a, h, m) ==
  /\ a \in Seq(Messages) /\ a # <<>>
  /\ \/ /\ Len(a) = Len(h) + 1 /\ a[Len(a)] = m
        /\ \A i \in 1..Len(h) : a[i] = h[i]
     \/ /\ Len(a) = Len(h) /\ h # <<>> /\ h[Len(h)].role = m.role
        /\ \A i \in 1..Len(h) : i # Len(h) => a[i] = h[i]
        /\ a[Len(a)].parts = <<>> => m.parts = <<>>
  /\ a[Len(a)].role = m.role
  /\ PartsOf(a[Len(a)]) =
       PartsOf(m) \cup IF Len(a) = Len(h) THEN PartsOf(h[Len(h)]) ELSE {}

(* What AddContent returns: the message is merged into the last or follows *)
(* it.                                                                     *)
LEMMA AddedIs ==
  ASSUME NEW h \in Seq(Messages), NEW m \in Messages
  PROVE  AddedTo(Added(h, m), h, m)
<1> DEFINE a == Added(h, m)
<1> SUFFICES AddedTo(a, h, m)
  OBVIOUS
<1>0. a = Added(h, m)
  OBVIOUS
<1> HIDE DEF a
<1>1. CASE h # <<>> /\ h[Len(h)].role = m.role
  <2> DEFINE l == h[Len(h)]
             n == [l EXCEPT !.parts = @ \o m.parts]
  <2>1. l \in Messages /\ Len(h) \in 1..Len(h)
    BY <1>1
  <2>2. a = [h EXCEPT ![Len(h)] = n]
    BY <1>0, <1>1 DEF Added
  <2>3. l.parts \in Seq(Parts) /\ m.parts \in Seq(Parts)
    BY <2>1 DEF Messages
  <2>4. n \in Messages /\ n.role = m.role /\ n.parts = l.parts \o m.parts
    <3>1. l.parts \o m.parts \in Seq(Parts)
      BY <2>3
    <3> QED BY <1>1, <2>1, <3>1 DEF Messages
  <2>5. PartsOf(n) = PartsOf(l) \cup PartsOf(m)
    <3> DEFINE s == l.parts
               t == m.parts
    <3>0. s \in Seq(Parts) /\ t \in Seq(Parts) /\ n.parts = s \o t
      BY <2>3, <2>4
    <3> HIDE DEF s, t, n
    <3>1. Len(s \o t) = Len(s) + Len(t) /\ Len(s) \in Nat /\ Len(t) \in Nat
      BY <3>0
    <3>2. \A j \in 1..Len(s) : (s \o t)[j] = s[j]
      BY <3>0
    <3>3. \A j \in 1..Len(t) : (s \o t)[Len(s) + j] = t[j]
      BY <3>0
    <3>4. ASSUME NEW q \in PartsOf(n) PROVE q \in {s[j] : j \in 1..Len(s)} \cup {t[j] : j \in 1..Len(t)}
      <4>1. PICK j \in 1..(Len(s) + Len(t)) : q = (s \o t)[j]
        BY <3>0, <3>1 DEF PartsOf
      <4>2. CASE j <= Len(s)
        BY <4>1, <4>2, <3>1, <3>2
      <4>3. CASE j > Len(s)
        <5>1. j - Len(s) \in 1..Len(t) /\ Len(s) + (j - Len(s)) = j
          BY <4>3, <3>1
        <5>2. q = t[j - Len(s)]
          BY <4>1, <5>1, <3>3
        <5> QED BY <5>1, <5>2
      <4> QED BY <4>2, <4>3, <3>1
    <3>5. ASSUME NEW j \in 1..Len(s) PROVE s[j] \in PartsOf(n)
      BY <3>0, <3>1, <3>2 DEF PartsOf
    <3>6. ASSUME NEW j \in 1..Len(t) PROVE t[j] \in PartsOf(n)
      <4>1. Len(s) + j \in 1..(Len(s) + Len(t))
        BY <3>1
      <4> QED BY <4>1, <3>0, <3>1, <3>3 DEF PartsOf
    <3> QED BY <3>4, <3>5, <3>6 DEF PartsOf, s, t
  <2>6. n.parts = <<>> => m.parts = <<>>
    BY <2>3, <2>4
  <2> HIDE DEF n, l
  <2>7. a \in Seq(Messages) /\ Len(a) = Len(h) /\ a[Len(h)] = n
        /\ \A i \in 1..Len(h) : i # Len(h) => a[i] = h[i]
    BY <2>1, <2>2, <2>4
  <2>8. a[Len(a)] = n /\ a # <<>>
    BY <2>1, <2>7
  <2>9. PartsOf(a[Len(a)]) = PartsOf(m) \cup IF Len(a) = Len(h) THEN PartsOf(h[Len(h)]) ELSE {}
    BY <2>5, <2>7, <2>8 DEF l
  <2> QED BY <1>1, <2>4, <2>6, <2>7, <2>8, <2>9 DEF AddedTo
<1>2. CASE ~(h # <<>> /\ h[Len(h)].role = m.role)
  <2>1. a = Append(h, m)
    BY <1>0, <1>2 DEF Added
  <2>2. a \in Seq(Messages) /\ Len(a) = Len(h) + 1 /\ a[Len(h) + 1] = m
        /\ \A i \in 1..Len(h) : a[i] = h[i]
    BY <2>1
  <2>3. a # <<>> /\ Len(a) # Len(h) /\ a[Len(a)] = m
    BY <2>2
  <2> QED BY <2>2, <2>3 DEF AddedTo
<1> QED BY <1>1, <1>2

(* The recursion of Pruned.                                                *)
PruneBody(h, r) ==
  [k \in 0..Len(h) |->
     IF k = 0 THEN <<>>
     ELSE IF h[k].parts = <<>> THEN r[k - 1] ELSE Append(r[k - 1], h[k])]

(* The function that Pruned defines by recursion exists.                   *)
LEMMA PruneExists ==
  ASSUME NEW h \in Seq(Messages)
  PROVE  \E r : r = PruneBody(h, r)
<1> DEFINE H(k, x) == IF h[k].parts = <<>> THEN x ELSE Append(x, h[k])
           G(n, r) == [k \in 0..n |-> IF k = 0 THEN <<>> ELSE H(k, r[k - 1])]
           S == {n \in Nat : \E r : r = G(n, r)}
<1>1. 0 \in S
  <2> DEFINE r == [k \in 0..0 |-> <<>>]
  <2>1. r = G(0, r)
    OBVIOUS
  <2> QED BY <2>1
<1>2. ASSUME NEW n \in Nat, n \in S PROVE n + 1 \in S
  <2>1. PICK r : r = G(n, r)
    BY <1>2
  <2> DEFINE s == [k \in 0..(n + 1) |-> IF k = n + 1 THEN H(n + 1, r[n]) ELSE r[k]]
  <2> HIDE DEF H
  <2>2. ASSUME NEW k \in 0..(n + 1) PROVE s[k] = G(n + 1, s)[k]
    <3>1. CASE k = n + 1
      <4>1. s[n] = r[n]
        OBVIOUS
      <4> QED BY <3>1, <4>1
    <3>2. CASE k = 0
      BY <3>2, <2>1
    <3>3. CASE k \in 1..n
      <4>1. s[k - 1] = r[k - 1] /\ s[k] = r[k]
        BY <3>3
      <4>2. r[k] = H(k, r[k - 1])
        BY <3>3, <2>1
      <4> HIDE DEF s
      <4> QED BY <3>3, <4>1, <4>2
    <3> QED BY <3>1, <3>2, <3>3
  <2>3. s = G(n + 1, s)
    BY <2>2
  <2> HIDE DEF s
  <2> QED BY <2>3
<1>3. Len(h) \in S
  <2> HIDE DEF S
  <2> QED BY <1>1, <1>2, SetInduction
<1> QED BY <1>3 DEF PruneBody

(* What is kept of the first k messages: those with parts, in their order; *)
(* g says where each was.                                                  *)
KeptAs(h, k, p, g) ==
  /\ p \in Seq(Messages) /\ g \in [1..Len(p) -> 1..k]
  /\ \A i \in 1..Len(p) : p[i] = h[g[i]] /\ p[i].parts # <<>>
  /\ \A i, j \in 1..Len(p) : i < j => g[i] < g[j]
  /\ \A j \in 1..k : h[j].parts # <<>> => \E i \in 1..Len(p) : g[i] = j

(* What Pruned returns: the history without the empty messages.            *)
LEMMA PrunedIs ==
  ASSUME NEW h \in Seq(Messages)
  PROVE  \E g : KeptAs(h, Len(h), Pruned(h), g)
<1>1. PICK r : r = PruneBody(h, r) /\ Pruned(h) = r[Len(h)]
  BY PruneExists DEF Pruned, PruneBody
<1> DEFINE S == {k \in Nat : k <= Len(h) => \E g : KeptAs(h, k, r[k], g)}
<1>2. 0 \in S
  <2>1. r[0] = <<>>
    BY <1>1 DEF PruneBody
  <2>2. KeptAs(h, 0, <<>>, <<>>)
    BY DEF KeptAs
  <2> QED BY <2>1, <2>2
<1>3. ASSUME NEW k \in Nat, k \in S PROVE k + 1 \in S
  <2> SUFFICES ASSUME k + 1 <= Len(h) PROVE \E g : KeptAs(h, k + 1, r[k + 1], g)
    OBVIOUS
  <2> DEFINE p == r[k]
             m == h[k + 1]
  <2>1. PICK g : KeptAs(h, k, p, g)
    BY <1>3
  <2>2. m \in Messages
    OBVIOUS
  <2>3. r[k + 1] = IF m.parts = <<>> THEN p ELSE Append(p, m)
    <3>1. k + 1 \in 0..Len(h) /\ k + 1 # 0 /\ (k + 1) - 1 = k
      OBVIOUS
    <3>2. PruneBody(h, r)[k + 1] = IF h[k + 1].parts = <<>> THEN r[(k + 1) - 1]
                                   ELSE Append(r[(k + 1) - 1], h[k + 1])
      BY <3>1 DEF PruneBody
    <3>3. r[k + 1] = PruneBody(h, r)[k + 1]
      BY <1>1
    <3> QED BY <3>1, <3>2, <3>3
  <2> HIDE DEF p
  <2>4. CASE m.parts = <<>>
    <3>1. KeptAs(h, k + 1, p, g)
      BY <2>1, <2>4 DEF KeptAs
    <3> QED BY <2>3, <2>4, <3>1
  <2>5. CASE m.parts # <<>>
    <3> DEFINE n == Len(p) + 1
               q == Append(p, m)
               f == [i \in 1..n |-> IF i = n THEN k + 1 ELSE g[i]]
    <3>1. p \in Seq(Messages) /\ Len(p) \in Nat
      BY <2>1 DEF KeptAs
    <3>2. q \in Seq(Messages) /\ Len(q) = n /\ q[n] = m /\ \A i \in 1..Len(p) : q[i] = p[i]
      BY <2>2, <3>1
    <3>3. \A i \in 1..Len(p) : f[i] = g[i] /\ g[i] \in 1..k
      BY <2>1, <3>1 DEF KeptAs
    <3>5. n \in 1..n /\ \A i \in 1..n : i = n \/ i \in 1..Len(p)
      BY <3>1
    <3>4. f[n] = k + 1 /\ f \in [1..n -> 1..(k + 1)]
      <4>1. ASSUME NEW i \in 1..n PROVE (IF i = n THEN k + 1 ELSE g[i]) \in 1..(k + 1)
        <5>1. CASE i = n
          BY <5>1
        <5>2. CASE i # n
          <6>1. g[i] \in 1..k
            BY <5>2, <3>3, <3>5
          <6> QED BY <5>2, <6>1
        <5> QED BY <5>1, <5>2
      <4> QED BY <4>1, <3>5
    <3> HIDE DEF q, f
    <3>6. \A i \in 1..n : q[i] = h[f[i]] /\ q[i].parts # <<>>
      BY <2>1, <2>5, <3>2, <3>3, <3>4, <3>5 DEF KeptAs
    <3>7. \A i, j \in 1..n : i < j => f[i] < f[j]
      BY <2>1, <3>1, <3>3, <3>4, <3>5 DEF KeptAs
    <3>8. ASSUME NEW j \in 1..(k + 1), h[j].parts # <<>> PROVE \E i \in 1..n : f[i] = j
      <4>1. CASE j = k + 1
        BY <4>1, <3>4, <3>5
      <4>2. CASE j \in 1..k
        <5>1. PICK i \in 1..Len(p) : g[i] = j
          BY <2>1, <4>2, <3>8 DEF KeptAs
        <5>2. i \in 1..n
          BY <3>1
        <5> QED BY <5>1, <5>2, <3>3
      <4> QED BY <4>1, <4>2
    <3>9. KeptAs(h, k + 1, q, f)
      BY <3>2, <3>4, <3>6, <3>7, <3>8 DEF KeptAs
    <3> QED BY <2>3, <2>5, <3>9 DEF q
  <2> QED BY <2>4, <2>5
<1>4. Len(h) \in S
  <2> HIDE DEF S
  <2> QED BY <1>2, <1>3, SetInduction
<1> QED BY <1>1, <1>4

(* A step that adds nothing: the history stays, or loses the messages      *)
(* without parts; its last message stays.                                  *)
StaysIn(p, h) ==
  /\ p \in Seq(Messages)
  /\ \A i \in 1..Len(p) : \E j \in 1..Len(h) :
       /\ p[i] = h[j] /\ (j = Len(h) => i = Len(p))
       /\ j > 1 /\ h[j - 1].parts # <<>> => i > 1 /\ p[i - 1] = h[j - 1]
       /\ j < Len(h) /\ h[j + 1].parts # <<>> => i < Len(p) /\ p[i + 1] = h[j + 1]
  /\ h # <<>> => p # <<>> /\ p[Len(p)] = h[Len(h)]

(* Neighbours stay neighbours, and a last message with parts stays last.   *)
LEMMA PrunedKeeps ==
  ASSUME NEW h \in Seq(Messages), h # <<>> => h[Len(h)].parts # <<>>
  PROVE  StaysIn(Pruned(h), h)
<1> DEFINE p == Pruned(h)
<1> SUFFICES StaysIn(p, h)
  OBVIOUS
<1>0. p = Pruned(h)
  OBVIOUS
<1> HIDE DEF p
<1>1. PICK g : KeptAs(h, Len(h), p, g)
  BY <1>0, PrunedIs
<1>2. p \in Seq(Messages) /\ Len(p) \in Nat /\ Len(h) \in Nat
      /\ \A i \in 1..Len(p) : p[i] = h[g[i]] /\ p[i].parts # <<>> /\ g[i] \in 1..Len(h)
  <2>1. p \in Seq(Messages) /\ g \in [1..Len(p) -> 1..Len(h)]
    BY <1>1 DEF KeptAs
  <2>2. \A i \in 1..Len(p) : p[i] = h[g[i]] /\ p[i].parts # <<>>
    BY <1>1 DEF KeptAs
  <2> QED BY <2>1, <2>2
<1>3. \A i, j \in 1..Len(p) : i < j => g[i] < g[j]
  BY <1>1 DEF KeptAs
<1>4. \A j \in 1..Len(h) : h[j].parts # <<>> => \E i \in 1..Len(p) : g[i] = j
  BY <1>1 DEF KeptAs
<1>5. ASSUME NEW i \in 1..Len(p) PROVE g[i] = Len(h) => i = Len(p)
  BY <1>2, <1>3
<1>6. ASSUME NEW i \in 1..Len(p), g[i] > 1, h[g[i] - 1].parts # <<>>
      PROVE  i > 1 /\ p[i - 1] = h[g[i] - 1]
  <2>0. g[i] \in Int /\ g[i] - 1 \in 1..Len(h)
    BY <1>2, <1>6
  <2>1. PICK m \in 1..Len(p) : g[m] = g[i] - 1
    BY <2>0, <1>4, <1>6
  <2>2. m < i
    BY <1>2, <1>3, <2>1
  <2>3. m = i - 1
    <3> SUFFICES ASSUME m < i - 1 PROVE FALSE
      BY <2>2
    <3>1. i - 1 \in 1..Len(p) /\ g[m] < g[i - 1] /\ g[i - 1] < g[i]
      BY <1>2, <1>3
    <3>2. g[i - 1] \in Int
      BY <1>2, <3>1
    <3> QED BY <2>0, <2>1, <3>1, <3>2
  <2> QED BY <1>2, <2>1, <2>3
<1>7. ASSUME NEW i \in 1..Len(p), g[i] < Len(h), h[g[i] + 1].parts # <<>>
      PROVE  i < Len(p) /\ p[i + 1] = h[g[i] + 1]
  <2>0. g[i] \in Int /\ g[i] + 1 \in 1..Len(h)
    BY <1>2, <1>7
  <2>1. PICK m \in 1..Len(p) : g[m] = g[i] + 1
    BY <2>0, <1>4, <1>7
  <2>2. i < m
    BY <1>2, <1>3, <2>1
  <2>3. m = i + 1
    <3> SUFFICES ASSUME i + 1 < m PROVE FALSE
      BY <2>2
    <3>1. i + 1 \in 1..Len(p) /\ g[i] < g[i + 1] /\ g[i + 1] < g[m]
      BY <1>2, <1>3
    <3>2. g[i + 1] \in Int
      BY <1>2, <3>1
    <3> QED BY <2>0, <2>1, <3>1, <3>2
  <2> QED BY <1>2, <2>1, <2>3
<1>8. ASSUME h # <<>> PROVE p # <<>> /\ p[Len(p)] = h[Len(h)]
  <2>1. Len(h) \in 1..Len(h)
    BY <1>8
  <2>2. PICK i \in 1..Len(p) : g[i] = Len(h)
    BY <2>1, <1>4, <1>8
  <2> QED BY <2>2, <1>2, <1>5
<1>9. ASSUME NEW i \in 1..Len(p)
      PROVE  \E j \in 1..Len(h) :
              /\ p[i] = h[j] /\ (j = Len(h) => i = Len(p))
              /\ j > 1 /\ h[j - 1].parts # <<>> => i > 1 /\ p[i - 1] = h[j - 1]
              /\ j < Len(h) /\ h[j + 1].parts # <<>> => i < Len(p) /\ p[i + 1] = h[j + 1]
  <2> DEFINE j == g[i]
  <2>1. j \in 1..Len(h) /\ p[i] = h[j] /\ (j = Len(h) => i = Len(p))
    BY <1>2, <1>5
  <2>2. j > 1 /\ h[j - 1].parts # <<>> => i > 1 /\ p[i - 1] = h[j - 1]
    BY <1>6
  <2>3. j < Len(h) /\ h[j + 1].parts # <<>> => i < Len(p) /\ p[i + 1] = h[j + 1]
    BY <1>7
  <2> HIDE DEF j
  <2> QED BY <2>1, <2>2, <2>3
<1> QED BY <1>2, <1>8, <1>9 DEF StaysIn

-----------------------------------------------------------------------------
(* The steps of a Run, without what they do to the history.                *)

ControlType ==
  /\ chat \in 0..MaxChats /\ phase \in Phases
  /\ turn \in 0..(MaxTurns + 1) /\ limit \in Limits
  /\ retry \in 0..MaxRetries /\ lastErr \in Errors \cup {"none"}
  /\ resp \in Answers \cup Empties \cup {NoResponse}
  /\ results \in Keys \cup {0} /\ hasCalls \in BOOLEAN
  /\ recent \in Seq(Answers) /\ Len(recent) <= MaxRepetitions
  /\ count \in [Keys -> Nat]
  /\ cancelled \in BOOLEAN /\ faults \in 0..MaxFaults
  /\ outcome \in {"none", "ok", "error", "crashed"}

ControlInv == PhaseInv /\ PendingInv /\ TurnInv

(* The kinds of responses.                                                 *)
LEMMA Responses ==
  /\ \A r \in Answers :
       /\ r.kind \in {"text", "calls"} /\ r.key \in Keys \cup {0}
       /\ r.kind = "calls" => r.key \in Keys
  /\ \A r \in Empties : r.kind \in {"hollow", "blank"} /\ r.key = 0
  /\ NoResponse.kind = "none"
  /\ Empties \cap Answers = {} /\ NoResponse \notin Answers \cup Empties
<1>1. ASSUME NEW r \in Answers
      PROVE  /\ r.kind \in {"text", "calls"} /\ r.key \in Keys \cup {0}
             /\ r.kind = "calls" => r.key \in Keys
  <2>1. CASE \E fm \in Forms : r = Response("text", 0, fm)
    BY <2>1 DEF Response
  <2>2. CASE \E k \in Keys, fm \in Forms : r = Response("calls", k, fm)
    BY <2>2 DEF Response
  <2> QED BY <2>1, <2>2 DEF Answers
<1>2. /\ \A r \in Empties : r.kind \in {"hollow", "blank"} /\ r.key = 0
      /\ NoResponse.kind = "none"
  BY DEF Empties, NoResponse, Response
<1> QED BY <1>1, <1>2

(* A response with calls has the key the loop detector knows it by.        *)
LEMMA CallsHaveKey ==
  ASSUME NEW r \in Answers \cup Empties \cup {NoResponse}, r.kind = "calls"
  PROVE  r \in Answers /\ r.key \in Keys
<1>1. r \notin Empties /\ r # NoResponse
  BY Responses
<1>2. r \in Answers
  BY <1>1
<1>3. \A x \in Answers : x.kind = "calls" => x.key \in Keys
  BY Responses
<1> QED BY <1>2, <1>3

(* The window of the loop detector keeps its size.                         *)
LEMMA WindowType ==
  ASSUME recent \in Seq(Answers), Len(recent) <= MaxRepetitions, NEW r \in Answers
  PROVE  Window(r) \in Seq(Answers) /\ Len(Window(r)) <= MaxRepetitions
<1>1. Append(recent, r) \in Seq(Answers) /\ Len(Append(recent, r)) = Len(recent) + 1
  OBVIOUS
<1>2. MaxRepetitions \in Nat \ {0}
  BY EngineAssumption
<1> DEFINE a == Append(recent, r)
<1> HIDE DEF a
<1>3. CASE Len(a) > MaxRepetitions
  <2>1. Tail(a) \in Seq(Answers) /\ Len(Tail(a)) = Len(a) - 1
    BY <1>1, <1>2, <1>3 DEF a
  <2> QED BY <2>1, <1>1, <1>2, <1>3 DEF Window, a
<1>4. CASE ~(Len(a) > MaxRepetitions)
  BY <1>1, <1>2, <1>4 DEF Window, a
<1> QED BY <1>3, <1>4

(* The end of a Run.                                                       *)
LEMMA LeaveControl ==
  ASSUME ControlType, ControlInv, NEW o \in {"ok", "error", "crashed"}, Leave(o),
         faults' \in 0..MaxFaults
  PROVE  ControlType' /\ ControlInv'
<1>1. phase' = "idle" /\ turn' = 0 /\ retry' = 0 /\ lastErr' = "none" /\ resp' = NoResponse
      /\ results' = 0 /\ hasCalls' = FALSE /\ cancelled' = FALSE /\ outcome' = o
      /\ UNCHANGED <<chat, limit, recent, count>>
  BY DEF Leave, FreshTurn, detector
<1>2. ControlType'
  <2>1. hasCalls' \in BOOLEAN /\ cancelled' \in BOOLEAN
    BY <1>1
  <2>2. retry' \in 0..MaxRetries /\ turn' \in 0..(MaxTurns + 1)
    BY <1>1, EngineAssumption
  <2> QED BY <1>1, <2>1, <2>2 DEF ControlType, Phases
<1>3. PhaseInv' /\ PendingInv' /\ TurnInv'
  BY <1>1 DEF PhaseInv, PendingInv, TurnInv
<1> QED BY <1>2, <1>3 DEF ControlInv

(* The control state keeps its type and its invariant in every step.       *)
LEMMA ControlStep ==
  ASSUME ControlType, ControlInv, Next
  PROVE  ControlType' /\ ControlInv'
<1> USE EngineAssumption, Responses
<1> USE DEF Phases, Errors, turnState, detector, vars, Goto, Fail, FreshTurn,
            Add, StoreFails, AddRefused
<1>1. CASE Ask
  <2>1. ControlType'
    <3>1. hasCalls' \in BOOLEAN /\ cancelled' \in BOOLEAN
      BY <1>1 DEF Ask
    <3>2. recent' \in Seq(Answers) /\ Len(recent') <= MaxRepetitions /\ count' \in [Keys -> Nat]
      BY <1>1 DEF Ask, NoCounts
    <3>3. chat' \in 0..MaxChats /\ turn' \in 0..(MaxTurns + 1) /\ retry' \in 0..MaxRetries
          /\ faults' \in 0..MaxFaults
      BY <1>1 DEF Ask, ControlType
    <3> QED BY <1>1, <3>1, <3>2, <3>3 DEF Ask, ControlType
  <2>2. PhaseInv'
    BY <1>1 DEF Ask, ControlType, ControlInv, PhaseInv, PendingInv
  <2>3. PendingInv'
    BY <1>1 DEF Ask, ControlType, ControlInv, PhaseInv, PendingInv
  <2>4. TurnInv'
    BY <1>1 DEF Ask, ControlType, ControlInv, PhaseInv, PendingInv, TurnInv
  <2> QED BY <2>1, <2>2, <2>3, <2>4 DEF ControlInv
<1>2. CASE Crash
  BY <1>2, LeaveControl DEF Crash, ControlType
<1>3. CASE Cancel
  BY <1>3 DEF Cancel, ControlType, ControlInv, PhaseInv, PendingInv, TurnInv
<1>4. CASE GuardPass
  BY <1>4 DEF GuardPass, ControlType, ControlInv, PhaseInv, PendingInv, TurnInv
<1>5. CASE GuardFail
  BY <1>5 DEF GuardFail, ControlType, ControlInv, PhaseInv, PendingInv, TurnInv
<1>6. CASE Refine
  BY <1>6 DEF Refine, ControlType, ControlInv, PhaseInv, PendingInv, TurnInv
<1>7. CASE RefineFail
  BY <1>7 DEF RefineFail, ControlType, ControlInv, PhaseInv, PendingInv, TurnInv
<1>8. CASE Infer
  <2>1. PICK r \in Answers :
          /\ resp' = r /\ hasCalls' = (r.kind = "calls")
          /\ (UNCHANGED detector \/ (recent' = Window(r) /\ count' = Counted(r)))
          /\ \/ phase' = "LoopBreak" /\ UNCHANGED limit
             \/ phase' = "Executing" /\ r.kind = "calls" /\ limit' \in Limits
             \/ phase' = "Persisting" /\ r.kind # "calls" /\ UNCHANGED limit
    BY <1>8 DEF Infer
  <2>2. Counted(r) \in [Keys -> Nat]
    BY DEF Counted, ControlType
  <2>3. /\ phase = "Inference"
        /\ UNCHANGED <<history, turn, retry, lastErr, results, chat, cancelled, outcome, faults>>
    BY <1>8 DEF Infer
  <2>4. recent' \in Seq(Answers) /\ Len(recent') <= MaxRepetitions /\ count' \in [Keys -> Nat]
    BY <2>1, <2>2, WindowType DEF ControlType
  <2>5. ControlType'
    BY <2>1, <2>3, <2>4 DEF ControlType
  <2>6. PhaseInv'
    BY <2>1, <2>3 DEF ControlType, ControlInv, PhaseInv, PendingInv
  <2>7. PendingInv' /\ TurnInv'
    BY <2>1, <2>3 DEF ControlInv, PendingInv, TurnInv
  <2> QED BY <2>5, <2>6, <2>7 DEF ControlInv
<1>9. CASE InferEmpty
  BY <1>9 DEF InferEmpty, ControlType, ControlInv, PhaseInv, PendingInv, TurnInv
<1>10. CASE InferFail
  BY <1>10 DEF InferFail, ControlType, ControlInv, PhaseInv, PendingInv, TurnInv
<1>11. CASE BreakLoop
  BY <1>11 DEF BreakLoop, ControlType, ControlInv, PhaseInv, PendingInv, TurnInv
<1>12. CASE GiveFeedback
  BY <1>12 DEF GiveFeedback, ControlType, ControlInv, PhaseInv, PendingInv, TurnInv
<1>13. CASE BreakFail
  BY <1>13 DEF BreakFail, ControlType, ControlInv, PhaseInv, PendingInv, TurnInv
<1>14. CASE Execute
  <2>1. ControlType'
    <3>1. resp.kind = "calls" /\ resp \in Answers \cup Empties \cup {NoResponse}
      BY <1>14 DEF Execute, ControlType, ControlInv, PhaseInv
    <3>2. resp.key \in Keys
      BY <3>1, CallsHaveKey
    <3> QED BY <1>14, <3>2 DEF Execute, ControlType
  <2>2. PhaseInv'
    BY <1>14 DEF Execute, ControlType, ControlInv, PhaseInv, PendingInv
  <2>3. PendingInv'
    BY <1>14 DEF Execute, ControlType, ControlInv, PhaseInv, PendingInv
  <2>4. TurnInv'
    BY <1>14 DEF Execute, ControlType, ControlInv, PhaseInv, PendingInv, TurnInv
  <2> QED BY <2>1, <2>2, <2>3, <2>4 DEF ControlInv
<1>15. CASE ExecuteInterrupted
  <2>1. ControlType'
    <3>1. resp.kind = "calls" /\ resp \in Answers \cup Empties \cup {NoResponse}
      BY <1>15 DEF ExecuteInterrupted, ControlType, ControlInv, PhaseInv
    <3>2. resp.key \in Keys
      BY <3>1, CallsHaveKey
    <3> QED BY <1>15, <3>2 DEF ExecuteInterrupted, ControlType
  <2>2. PhaseInv'
    BY <1>15 DEF ExecuteInterrupted, ControlType, ControlInv, PhaseInv, PendingInv
  <2>3. PendingInv'
    BY <1>15 DEF ExecuteInterrupted, ControlType, ControlInv, PhaseInv, PendingInv
  <2>4. TurnInv'
    BY <1>15 DEF ExecuteInterrupted, ControlType, ControlInv, PhaseInv, PendingInv, TurnInv
  <2> QED BY <2>1, <2>2, <2>3, <2>4 DEF ControlInv
<1>16. CASE ExecuteMaxTurns
  BY <1>16 DEF ExecuteMaxTurns, ControlType, ControlInv, PhaseInv, PendingInv, TurnInv
<1>17. CASE PersistResponse
  BY <1>17 DEF PersistResponse, ControlType, ControlInv, PhaseInv, PendingInv, TurnInv
<1>18. CASE PersistResults
  BY <1>18 DEF PersistResults, ControlType, ControlInv, PhaseInv, PendingInv, TurnInv
<1>19. CASE PersistFail
  BY <1>19 DEF PersistFail, ControlType, ControlInv, PhaseInv, PendingInv, TurnInv
<1>20. CASE Retry
  <2>1. ControlType'
    BY <1>20 DEF Retry, Retryable, ControlType, ControlInv, PhaseInv, TurnInv
  <2>2. PhaseInv'
    BY <1>20 DEF Retry, Retryable, ControlType, ControlInv, PhaseInv, PendingInv
  <2>3. PendingInv'
    BY <1>20 DEF Retry, Retryable, ControlType, ControlInv, PhaseInv, PendingInv
  <2>4. TurnInv'
    BY <1>20 DEF Retry, Retryable, ControlType, ControlInv, PhaseInv, PendingInv, TurnInv
  <2> QED BY <2>1, <2>2, <2>3, <2>4 DEF ControlInv
<1>21. CASE RetryInterrupted
  <2>1. ControlType'
    BY <1>21 DEF RetryInterrupted, Retryable, ControlType, ControlInv, PhaseInv, TurnInv
  <2>2. PhaseInv'
    BY <1>21 DEF RetryInterrupted, Retryable, ControlType, ControlInv, PhaseInv, PendingInv
  <2>3. PendingInv'
    BY <1>21 DEF RetryInterrupted, Retryable, ControlType, ControlInv, PhaseInv, PendingInv
  <2>4. TurnInv'
    BY <1>21
       DEF RetryInterrupted, Retryable, ControlType, ControlInv, PhaseInv,
           PendingInv, TurnInv
  <2> QED BY <2>1, <2>2, <2>3, <2>4 DEF ControlInv
<1>22. CASE ReduceContext
  <2>1. ControlType'
    BY <1>22 DEF ReduceContext, Overflowed, ControlType, ControlInv, PhaseInv, TurnInv
  <2>2. PhaseInv'
    BY <1>22 DEF ReduceContext, Overflowed, ControlType, ControlInv, PhaseInv, PendingInv
  <2>3. PendingInv'
    BY <1>22 DEF ReduceContext, Overflowed, ControlType, ControlInv, PhaseInv, PendingInv
  <2>4. TurnInv'
    BY <1>22
       DEF ReduceContext, Overflowed, ControlType, ControlInv, PhaseInv, PendingInv,
           TurnInv
  <2> QED BY <2>1, <2>2, <2>3, <2>4 DEF ControlInv
<1>23. CASE AcceptEmpty
  BY <1>23 DEF AcceptEmpty, ControlType, ControlInv, PhaseInv, PendingInv, TurnInv
<1>24. CASE GiveUp
  BY <1>24 DEF GiveUp, ControlType, ControlInv, PhaseInv, PendingInv, TurnInv
<1>25. CASE SaveNothing
  BY <1>25, LeaveControl DEF SaveNothing, ControlType
<1>26. CASE SaveResponse
  <2>1. ControlType'
    BY <1>26
       DEF SaveResponse, NeedsSave, HasParts, ControlType, ControlInv, PhaseInv,
           TurnInv
  <2>2. PhaseInv'
    BY <1>26
       DEF SaveResponse, NeedsSave, HasParts, ControlType, ControlInv, PhaseInv,
           PendingInv
  <2>3. PendingInv'
    BY <1>26
       DEF SaveResponse, NeedsSave, HasParts, ControlType, ControlInv, PhaseInv,
           PendingInv
  <2>4. TurnInv'
    BY <1>26
       DEF SaveResponse, NeedsSave, HasParts, ControlType, ControlInv, PhaseInv,
           PendingInv, TurnInv
  <2> QED BY <2>1, <2>2, <2>3, <2>4 DEF ControlInv
<1>27. CASE SaveResults
  BY <1>27, LeaveControl DEF SaveResults, ControlType
<1>28. CASE SaveFail
  BY <1>28, LeaveControl DEF SaveFail, ControlType
<1>29. CASE NextTurn
  <2>1. ControlType'
    <3>1. turn <= MaxTurns
      BY <1>29 DEF NextTurn, ControlInv, TurnInv
    <3>2. hasCalls' \in BOOLEAN
      BY <1>29 DEF NextTurn
    <3>3. turn' \in 0..(MaxTurns + 1) /\ retry' \in 0..MaxRetries
      BY <1>29, <3>1 DEF NextTurn, ControlType
    <3> QED BY <1>29, <3>2, <3>3 DEF NextTurn, ControlType
  <2>2. PhaseInv'
    BY <1>29 DEF NextTurn, ControlType, ControlInv, PhaseInv, PendingInv
  <2>3. PendingInv'
    BY <1>29 DEF NextTurn, ControlType, ControlInv, PhaseInv, PendingInv
  <2>4. TurnInv'
    BY <1>29 DEF NextTurn, ControlType, ControlInv, PhaseInv, PendingInv, TurnInv
  <2> QED BY <2>1, <2>2, <2>3, <2>4 DEF ControlInv
<1>30. CASE Return
  BY <1>30, LeaveControl DEF Return, ControlType
<1>31. CASE Done
  BY <1>31 DEF Done, ControlType, ControlInv, PhaseInv, PendingInv, TurnInv
<1> QED BY <1>1, <1>2, <1>3, <1>4, <1>5, <1>6, <1>7, <1>8, <1>9, <1>10, <1>11, <1>12,
           <1>13, <1>14, <1>15, <1>16, <1>17, <1>18, <1>19, <1>20, <1>21, <1>22,
           <1>23, <1>24, <1>25, <1>26, <1>27, <1>28, <1>29, <1>30, <1>31 DEF Next,
           Engine

-----------------------------------------------------------------------------
(* What a step does to the history, and what the phases know of it.        *)

(* A step that adds nothing: it may ask once more only what it could ask   *)
(* before, owes no answer it did not owe before, and counts the calls that *)
(* it lets run.                                                            *)
QuietStep ==
  /\ chat' = chat
  /\ phase' # "idle" => phase # "idle" /\ (turn' = turn \/ turn' = turn + 1)
  /\ Unwritten' => turn' = turn + 1 \/ (turn' = turn /\ Unwritten)
  /\ Asking' => Asking
  /\ results' # 0 /\ resp' = NoResponse =>
       results' = results /\ resp = NoResponse /\ turn' = turn
  /\ phase' = "Feedback" =>
       phase = "Feedback" /\ resp' = resp /\ hasCalls' = hasCalls /\ turn' = turn
  /\ Live' => Live /\ (Awaiting => Awaiting' /\ turn' = turn)

CountStep ==
  \A k \in Keys :
    \/ Uncounted(k)' <= Uncounted(k) /\ count'[k] = count[k]
    \/ Uncounted(k)' <= Uncounted(k) /\ count'[k] = count[k] + 1
    \/ /\ Uncounted(k)' = 1 /\ Uncounted(k) = 0
       /\ count'[k] = count[k] + 1 /\ count'[k] <= MaxRepetitions

(* A step that adds a message of one part: the part is of this turn, and   *)
(* answers what the turn owes or is what it will owe an answer for.        *)
AddStep(kind, key) ==
  /\ history' = Added(history, Message(kind, key))
  /\ kind \in {"text", "blank", "hollow", "calls", "results", "feedback", "warning"}
  /\ key \in Keys \cup {0} /\ chat' = chat /\ phase # "idle" /\ turn <= MaxTurns
  /\ phase' # "idle" => turn' = turn
  /\ kind = "results" =>
       key = results /\ results # 0 /\ resp = NoResponse /\ results' = 0
  /\ kind = "feedback" => phase = "Feedback" /\ hasCalls
  /\ ~Unwritten'
  /\ Asking' => Role(kind) # "model"
  /\ results' # 0 /\ resp' = NoResponse => kind = "calls" /\ key = results'
  /\ phase' = "Feedback" => Role(kind) = "model" /\ (hasCalls' => kind = "calls" /\ key = resp'.key)
  /\ Live' => Live /\ (Awaiting => kind \in Closing) /\ (kind = "calls" => Awaiting')
  /\ \A k \in Keys : Uncounted(k)' <= Uncounted(k)
  /\ UNCHANGED count

(* The end of a Run is quiet.                                              *)
LEMMA LeaveQuiet ==
  ASSUME ControlType, ControlInv, NEW o, Leave(o)
  PROVE  QuietStep /\ CountStep
<1>1. phase' = "idle" /\ turn' = 0 /\ resp' = NoResponse /\ results' = 0 /\ hasCalls' = FALSE
      /\ UNCHANGED <<chat, count>>
  BY DEF Leave, FreshTurn, detector
<1>2. QuietStep
  BY <1>1 DEF QuietStep, Unwritten, Asking, Live
<1>3. CountStep
  BY <1>1, EngineAssumption DEF CountStep, Uncounted
<1> QED BY <1>2, <1>3

(* The other steps that add no message are quiet.                          *)
LEMMA QuietSteps ==
  ASSUME ControlType, ControlInv,
         Crash \/ Cancel \/ GuardPass \/ GuardFail \/ Refine \/ RefineFail
         \/ InferEmpty \/ InferFail \/ BreakFail \/ Execute \/ ExecuteInterrupted
         \/ ExecuteMaxTurns \/ PersistFail \/ Retry \/ RetryInterrupted
         \/ ReduceContext \/ AcceptEmpty \/ GiveUp
         \/ SaveNothing \/ SaveFail \/ NextTurn \/ Return
  PROVE  QuietStep /\ CountStep
<1> USE EngineAssumption, Responses
<1> USE DEF Errors, turnState, detector, Goto, Fail, FreshTurn, StoreFails, AddRefused
<1> USE DEF QuietStep, CountStep, Unwritten, Asking, Live, Awaiting, Uncounted,
           ControlType, ControlInv, PhaseInv, PendingInv
<1>1. CASE Crash
  BY <1>1, LeaveQuiet DEF Crash
<1>2. CASE Cancel
  BY <1>2 DEF Cancel
<1>3. CASE GuardPass
  BY <1>3 DEF GuardPass
<1>4. CASE GuardFail
  BY <1>4 DEF GuardFail
<1>5. CASE Refine
  BY <1>5 DEF Refine
<1>6. CASE RefineFail
  BY <1>6 DEF RefineFail
<1>7. CASE InferEmpty
  BY <1>7 DEF InferEmpty
<1>8. CASE InferFail
  BY <1>8 DEF InferFail
<1>9. CASE BreakFail
  BY <1>9 DEF BreakFail
<1>10. CASE Execute
  BY <1>10 DEF Execute
<1>11. CASE ExecuteInterrupted
  BY <1>11 DEF ExecuteInterrupted
<1>12. CASE ExecuteMaxTurns
  BY <1>12 DEF ExecuteMaxTurns
<1>13. CASE PersistFail
  BY <1>13 DEF PersistFail
<1>14. CASE Retry
  BY <1>14 DEF Retry, Retryable
<1>15. CASE RetryInterrupted
  BY <1>15 DEF RetryInterrupted, Retryable
<1>16. CASE ReduceContext
  BY <1>16 DEF ReduceContext, Overflowed
<1>17. CASE AcceptEmpty
  BY <1>17 DEF AcceptEmpty, Retryable
<1>18. CASE GiveUp
  BY <1>18 DEF GiveUp, Retryable, Overflowed
<1>19. CASE SaveNothing
  BY <1>19, LeaveQuiet DEF SaveNothing
<1>20. CASE SaveFail
  BY <1>20, LeaveQuiet DEF SaveFail
<1>21. CASE NextTurn
  BY <1>21 DEF NextTurn
<1>22. CASE Return
  BY <1>22, LeaveQuiet DEF Return
<1> QED BY <1>1, <1>2, <1>3, <1>4, <1>5, <1>6, <1>7, <1>8, <1>9, <1>10, <1>11, <1>12,
           <1>13, <1>14, <1>15, <1>16, <1>17, <1>18, <1>19, <1>20, <1>21, <1>22

(* The detector counts a response before its calls run.                    *)
LEMMA InferQuiet ==
  ASSUME ControlType, ControlInv, Infer
  PROVE  QuietStep /\ CountStep
<1>1. PICK r \in Answers :
        /\ resp' = r /\ hasCalls' = (r.kind = "calls")
        /\ IF Seen(r) THEN UNCHANGED detector
                      ELSE recent' = Window(r) /\ count' = Counted(r)
        /\ IF Seen(r) \/ TooOften(r)
           THEN phase' = "LoopBreak" /\ UNCHANGED limit
           ELSE IF r.kind = "calls"
                THEN phase' = "Executing" /\ limit' \in Limits
                ELSE phase' = "Persisting" /\ UNCHANGED limit
  BY DEF Infer
<1>2. /\ phase = "Inference" /\ results = 0 /\ results' = 0
      /\ UNCHANGED <<turn, chat, lastErr>>
  BY DEF Infer, ControlInv, PendingInv
<1>3. phase' \in {"LoopBreak", "Executing", "Persisting"} /\ resp' # NoResponse
  BY <1>1, Responses
<1>4. QuietStep
  BY <1>2, <1>3 DEF QuietStep, Unwritten, Asking, Live, Awaiting
<1>5. ASSUME NEW k \in Keys
      PROVE  \/ Uncounted(k)' <= Uncounted(k) /\ count'[k] = count[k]
             \/ Uncounted(k)' <= Uncounted(k) /\ count'[k] = count[k] + 1
             \/ /\ Uncounted(k)' = 1 /\ Uncounted(k) = 0
                /\ count'[k] = count[k] + 1 /\ count'[k] <= MaxRepetitions
  <2>0. k # 0 /\ count[k] \in Nat
    BY EngineAssumption DEF ControlType
  <2>1. Uncounted(k) = 0
    BY <1>2, <2>0 DEF Uncounted
  <2>2. Uncounted(k)' = IF phase' = "Executing" /\ r.key = k THEN 1 ELSE 0
    BY <1>1, <1>2, <2>0 DEF Uncounted
  <2>3. CASE Seen(r)
    <3>1. phase' = "LoopBreak" /\ count' = count
      BY <1>1, <2>3 DEF detector
    <3> QED BY <2>1, <2>2, <3>1
  <2>4. CASE ~Seen(r)
    <3>1. count' = Counted(r)
      BY <1>1, <2>4
    <3>2. count'[k] = count[k] + IF k = r.key THEN 1 ELSE 0
      BY <3>1 DEF Counted
    <3>3. CASE k = r.key /\ phase' = "Executing"
      <4>1. ~TooOften(r)
        BY <1>1, <3>3
      <4>2. Counted(r)[k] <= MaxRepetitions
        BY <3>1, <3>2, <3>3, <4>1, <2>0, EngineAssumption DEF TooOften
      <4> QED BY <2>0, <2>1, <2>2, <3>1, <3>2, <3>3, <4>2
    <3>4. CASE ~(k = r.key /\ phase' = "Executing")
      BY <2>0, <2>1, <2>2, <3>2, <3>4
    <3> QED BY <3>3, <3>4
  <2> QED BY <2>3, <2>4
<1> QED BY <1>4, <1>5 DEF CountStep

(* The steps that may add a message: one leaf for each that does, and one  *)
(* for the case that there is nothing to add.                              *)
LEMMA AddSteps ==
  ASSUME ControlType, ControlInv,
         \/ BreakLoop \/ GiveFeedback \/ PersistResponse \/ PersistResults
         \/ SaveResponse \/ SaveResults
  PROVE  \/ QuietStep /\ CountStep /\ UNCHANGED history
         \/ \E kind, key : AddStep(kind, key)
<1> USE EngineAssumption, Responses
<1> USE DEF turnState, detector, Goto, FreshTurn, Leave, Add
<1>0. turn <= MaxTurns \/ (resp = NoResponse /\ results = 0)
  BY DEF ControlInv, TurnInv, PhaseInv, PendingInv
<1>1. CASE BreakLoop
  <2>1. /\ phase = "LoopBreak" /\ phase' = "Feedback"
        /\ history' = Added(history, Message(resp.kind, resp.key))
        /\ UNCHANGED <<turn, lastErr, resp, results, hasCalls, chat, count>>
    BY <1>1 DEF BreakLoop
  <2>2. /\ resp.kind \in {"text", "calls"} /\ resp.key \in Keys \cup {0} /\ resp # NoResponse
        /\ (hasCalls => resp.kind = "calls") /\ (resp.kind = "calls" => hasCalls)
    BY <2>1 DEF ControlInv, PhaseInv
  <2>3. results = 0 /\ turn <= MaxTurns
    BY <1>0, <2>1, <2>2 DEF ControlInv, PendingInv
  <2>4. \A k \in Keys : Uncounted(k)' <= Uncounted(k)
    BY <2>1, <2>3 DEF Uncounted
  <2>5. AddStep(resp.kind, resp.key)
    BY <2>1, <2>2, <2>3, <2>4 DEF AddStep, Role, Closing, Unwritten, Asking, Live, Awaiting
  <2> QED BY <2>5
<1>2. CASE GiveFeedback
  <2>1. AddStep(IF hasCalls THEN "feedback" ELSE "warning", resp.key)
    BY <1>0, <1>2
       DEF GiveFeedback, AddStep, Role, Closing, Unwritten, Asking, Live, Awaiting,
           Uncounted, ControlType, ControlInv, PhaseInv, PendingInv, TurnInv
  <2> QED BY <2>1
<1>3. CASE PersistResponse
  <2>1. CASE resp = NoResponse
    BY <1>3, <2>1
       DEF PersistResponse, QuietStep, CountStep, Unwritten, Asking, Live, Awaiting,
           Uncounted, ControlType, ControlInv, PhaseInv, PendingInv
  <2>2. CASE ~(resp = NoResponse)
    <3>1. AddStep(resp.kind, resp.key)
      BY <1>0, <1>3, <2>2
         DEF PersistResponse, AddStep, Role, Closing, Unwritten, Asking, Live,
             Awaiting, Uncounted, ControlType, ControlInv, PhaseInv, PendingInv,
             TurnInv
    <3> QED BY <3>1
  <2> QED BY <2>1, <2>2
<1>4. CASE PersistResults
  <2>1. CASE results = 0
    BY <1>4, <2>1
       DEF PersistResults, QuietStep, CountStep, Unwritten, Asking, Live, Awaiting,
           Uncounted, ControlType, ControlInv, PhaseInv, PendingInv
  <2>2. CASE ~(results = 0)
    <3>1. AddStep("results", results)
      BY <1>0, <1>4, <2>2
         DEF PersistResults, AddStep, Role, Closing, Unwritten, Asking, Live,
             Awaiting, Uncounted, ControlType, ControlInv, PhaseInv, PendingInv,
             TurnInv
    <3> QED BY <3>1
  <2> QED BY <2>1, <2>2
<1>5. CASE SaveResponse
  <2>1. CASE resp = NoResponse
    BY <1>5, <2>1
       DEF SaveResponse, NeedsSave, HasParts, QuietStep, CountStep, Unwritten,
           Asking, Live, Awaiting, Uncounted, ControlType, ControlInv, PhaseInv,
           PendingInv
  <2>2. CASE ~(resp = NoResponse)
    <3>1. AddStep(resp.kind, resp.key)
      BY <1>0, <1>5, <2>2
         DEF SaveResponse, NeedsSave, HasParts, AddStep, Role, Closing, Unwritten,
             Asking, Live, Awaiting, Uncounted, ControlType, ControlInv, PhaseInv,
             PendingInv, TurnInv
    <3> QED BY <3>1
  <2> QED BY <2>1, <2>2
<1>6. CASE SaveResults
  <2>1. CASE results = 0
    BY <1>6, <2>1, LeaveQuiet DEF SaveResults
  <2>2. CASE ~(results = 0)
    <3>1. AddStep("results", results)
      BY <1>0, <1>6, <2>2
         DEF SaveResults, AddStep, Role, Closing, Unwritten, Asking, Live, Awaiting,
             Uncounted, ControlType, ControlInv, PhaseInv, PendingInv, TurnInv
    <3> QED BY <3>1
  <2> QED BY <2>1, <2>2
<1> QED BY <1>1, <1>2, <1>3, <1>4, <1>5, <1>6

-----------------------------------------------------------------------------
(* The invariants of the history.                                          *)

HistoryInv == WrittenInv /\ LastInv /\ AnsweredInv /\ FollowInv /\ RepeatsInv

(* A part in a history is a part.                                          *)
LEMMA PartsTyped ==
  ASSUME NEW h \in Seq(Messages), NEW i \in 1..Len(h), NEW q \in PartsOf(h[i])
  PROVE  q \in Parts /\ h[i].parts # <<>> /\ q.chat \in Nat /\ q.turn \in 0..MaxTurns
<1>1. h[i] \in Messages
  OBVIOUS
<1>2. h[i].parts \in Seq(Parts)
  BY <1>1 DEF Messages
<1>3. PICK j \in 1..Len(h[i].parts) : q = h[i].parts[j]
  BY DEF PartsOf
<1>4. q \in Parts /\ h[i].parts # <<>>
  BY <1>2, <1>3
<1> QED BY <1>4, EngineAssumption DEF Parts

(* The parts of what a step adds.                                          *)
LEMMA MessageIs ==
  ASSUME ControlType, chat > 0, turn <= MaxTurns, NEW key \in Keys \cup {0},
         NEW kind \in {"text", "blank", "hollow", "calls", "results", "feedback", "warning"}
  PROVE  /\ Message(kind, key) \in Messages /\ Message(kind, key).role = Role(kind)
         /\ PartsOf(Message(kind, key)) = IF kind = "hollow" THEN {} ELSE {Part(kind, key)}
         /\ Message(kind, key).parts = <<>> => Role(kind) = "model"
<1>1. Role(kind) \in Roles
  BY DEF Role, Roles
<1>2. CASE kind = "hollow"
  <2>1. Message(kind, key) = [role |-> Role(kind), parts |-> <<>>]
    BY <1>2 DEF Message
  <2>2. <<>> \in Seq(Parts)
    OBVIOUS
  <2> DEFINE m == [role |-> Role(kind), parts |-> <<>>]
  <2>3. m \in Messages /\ m.role = Role(kind) /\ m.parts = <<>>
    BY <1>1, <2>2 DEF Messages
  <2> HIDE DEF m
  <2>4. PartsOf(m) = {} /\ Role(kind) = "model"
    BY <1>2, <2>3 DEF PartsOf, Role
  <2> QED BY <1>2, <2>1, <2>3, <2>4 DEF m
<1>3. CASE kind # "hollow"
  <2> DEFINE p == Part(kind, key)
             m == [role |-> Role(kind), parts |-> <<p>>]
  <2>1. Message(kind, key) = m
    BY <1>3 DEF Message
  <2>2. p \in Parts
    <3>1. chat \in 1..MaxChats /\ turn \in 0..MaxTurns /\ kind \in Kinds
      BY <1>3, EngineAssumption DEF ControlType, Kinds
    <3> QED BY <3>1 DEF Part, Parts
  <2> HIDE DEF p
  <2>3. <<p>> \in Seq(Parts) /\ <<p>> # <<>> /\ Len(<<p>>) = 1 /\ <<p>>[1] = p
    BY <2>2
  <2>4. m \in Messages /\ m.role = Role(kind) /\ m.parts = <<p>>
    BY <1>1, <2>3 DEF Messages
  <2>5. PartsOf(m) = {p}
    BY <2>3, <2>4 DEF PartsOf
  <2> HIDE DEF m
  <2> QED BY <1>3, <2>1, <2>3, <2>4, <2>5 DEF p
<1> QED BY <1>2, <1>3

(* A prompt is a message of one part, of its own chat.                     *)
LEMMA PromptIs ==
  ASSUME NEW c \in 1..MaxChats
  PROVE  /\ Prompt(c) \in Messages /\ Prompt(c).role = "user" /\ Prompt(c).parts # <<>>
         /\ PartsOf(Prompt(c)) = {[kind |-> "prompt", key |-> 0, chat |-> c, turn |-> 0]}
<1> DEFINE p == [kind |-> "prompt", key |-> 0, chat |-> c, turn |-> 0]
<1>1. p \in Parts
  BY EngineAssumption DEF Parts, Kinds
<1>2. Prompt(c) = [role |-> "user", parts |-> <<p>>]
  BY DEF Prompt
<1> HIDE DEF p
<1>3. <<p>> \in Seq(Parts) /\ <<p>> # <<>> /\ Len(<<p>>) = 1 /\ <<p>>[1] = p
  BY <1>1
<1>4. Prompt(c) \in Messages /\ Prompt(c).role = "user" /\ Prompt(c).parts = <<p>>
  BY <1>2, <1>3 DEF Messages, Roles
<1>5. PartsOf(Prompt(c)) = {p}
  BY <1>3, <1>4 DEF PartsOf
<1> QED BY <1>3, <1>4, <1>5 DEF p

(* The turns of a chat that have results of a call are finitely many.      *)
LEMMA TurnsFinite ==
  ASSUME NEW h, NEW c, NEW key
  PROVE  /\ IsFiniteSet(TurnsWith(h, c, key)) /\ Cardinality(TurnsWith(h, c, key)) \in Nat
         /\ TurnsWith(h, c, key) \subseteq 0..MaxTurns
<1>1. IsFiniteSet(0..MaxTurns)
  BY EngineAssumption, FS_Interval
<1>2. TurnsWith(h, c, key) \subseteq 0..MaxTurns
  BY DEF TurnsWith
<1>3. IsFiniteSet(TurnsWith(h, c, key))
  BY <1>1, <1>2, FS_Subset
<1> QED BY <1>2, <1>3, FS_CardinalityType

(* A smaller set of turns has no more members.                             *)
LEMMA TurnsMonotone ==
  ASSUME NEW h, NEW g, NEW c, NEW key, TurnsWith(g, c, key) \subseteq TurnsWith(h, c, key)
  PROVE  Cardinality(TurnsWith(g, c, key)) <= Cardinality(TurnsWith(h, c, key))
BY TurnsFinite, FS_Subset

(* A quiet step keeps the invariants of the history.                       *)
LEMMA QuietHistory ==
  ASSUME history \in Seq(Messages), ControlType, ControlInv, HistoryInv,
         QuietStep, CountStep, StaysIn(history', history)
  PROVE  HistoryInv'
<1> DEFINE h == history
           p == history'
<1> USE DEF HistoryInv
<1>0. h \in Seq(Messages) /\ p \in Seq(Messages) /\ Len(h) \in Nat /\ Len(p) \in Nat
  BY DEF StaysIn
<1>1. chat' = chat /\ chat \in Nat /\ turn \in Nat
  BY EngineAssumption DEF QuietStep, ControlType
<1>2. WrittenInv'
  <2> SUFFICES ASSUME NEW i \in 1..Len(p)
      PROVE  /\ p[i].parts = <<>> => p[i].role = "model"
             /\ \A q \in PartsOf(p[i]) :
                  /\ q.chat <= chat
                  /\ phase' # "idle" /\ q.chat = chat => q.turn <= turn'
                  /\ Unwritten' /\ q.chat = chat /\ q.turn = turn' => q.kind = "prompt"
    BY <1>1 DEF WrittenInv
  <2>1. PICK j \in 1..Len(h) : p[i] = h[j]
    BY DEF StaysIn
  <2>2. h[j].parts = <<>> => h[j].role = "model"
    BY DEF WrittenInv
  <2>3. ASSUME NEW q \in PartsOf(h[j])
        PROVE  /\ q.chat <= chat
               /\ phase' # "idle" /\ q.chat = chat => q.turn <= turn'
               /\ Unwritten' /\ q.chat = chat /\ q.turn = turn' => q.kind = "prompt"
    <3>1. q.chat \in Nat /\ q.turn \in Nat
      BY <1>0, PartsTyped, EngineAssumption
    <3>2. /\ q.chat <= chat
          /\ phase # "idle" /\ q.chat = chat => q.turn <= turn
          /\ Unwritten /\ q.chat = chat /\ q.turn = turn => q.kind = "prompt"
      BY DEF WrittenInv
    <3>3. phase' # "idle" => phase # "idle" /\ (turn' = turn \/ turn' = turn + 1)
      BY DEF QuietStep
    <3>4. Unwritten' => phase' # "idle" /\ (turn' = turn + 1 \/ (turn' = turn /\ Unwritten))
      BY DEF QuietStep, Unwritten
    <3> QED BY <1>1, <3>1, <3>2, <3>3, <3>4
  <2> QED BY <2>1, <2>2, <2>3
<1>3. LastInv'
  <2>1. h # <<>> => p # <<>> /\ p[Len(p)] = h[Len(h)]
    BY DEF StaysIn
  <2>2. Asking' => p # <<>> /\ Last'.role # "model"
    BY <2>1 DEF QuietStep, LastInv, Last
  <2>3. results' # 0 /\ resp' = NoResponse => EndsWithCalls(results)'
    BY <1>1, <2>1 DEF QuietStep, LastInv, EndsWithCalls, Last, Part
  <2>4. phase' = "Feedback" => /\ p # <<>> /\ Last'.role = "model"
                               /\ hasCalls' => EndsWithCalls(resp.key)'
    BY <1>1, <2>1 DEF QuietStep, LastInv, EndsWithCalls, Last, Part
  <2> QED BY <2>2, <2>3, <2>4 DEF LastInv
<1>4. AnsweredInv'
  <2> SUFFICES ASSUME Live', NEW i \in 1..Len(p), NEW q \in PartsOf(p[i]),
                      q.kind = "calls", q.chat = chat
               PROVE  \/ /\ i < Len(p)
                         /\ \E r \in PartsOf(p[i + 1]) : r.kind \in Closing /\ SameTurn(r, q)
                      \/ i = Len(p) /\ q.turn = turn' /\ Awaiting'
    BY <1>1 DEF AnsweredInv
  <2>1. PICK j \in 1..Len(h) :
          /\ p[i] = h[j] /\ (j = Len(h) => i = Len(p))
          /\ j < Len(h) /\ h[j + 1].parts # <<>> => i < Len(p) /\ p[i + 1] = h[j + 1]
    BY DEF StaysIn
  <2>2. Live /\ (Awaiting => Awaiting' /\ turn' = turn)
    BY DEF QuietStep
  <2>3. \/ /\ j < Len(h)
           /\ \E r \in PartsOf(h[j + 1]) : r.kind \in Closing /\ SameTurn(r, q)
        \/ j = Len(h) /\ q.turn = turn /\ Awaiting
    BY <2>1, <2>2 DEF AnsweredInv
  <2>4. CASE j = Len(h)
    BY <2>1, <2>2, <2>3, <2>4
  <2>5. CASE j < Len(h)
    <3>1. PICK r \in PartsOf(h[j + 1]) : r.kind \in Closing /\ SameTurn(r, q)
      BY <2>3, <2>5
    <3>2. j + 1 \in 1..Len(h)
      BY <2>5
    <3>3. h[j + 1].parts # <<>>
      BY <1>0, <3>1, <3>2, PartsTyped
    <3> QED BY <2>1, <2>5, <3>1, <3>3
  <2> QED BY <2>4, <2>5
<1>5. FollowInv'
  <2> SUFFICES ASSUME NEW i \in 1..Len(p), NEW q \in PartsOf(p[i]), q.kind \in Closing
               PROVE  i > 1 /\ \E r \in PartsOf(p[i - 1]) : r.kind = "calls" /\ SameTurn(r, q)
    BY DEF FollowInv
  <2>1. PICK j \in 1..Len(h) :
          /\ p[i] = h[j]
          /\ j > 1 /\ h[j - 1].parts # <<>> => i > 1 /\ p[i - 1] = h[j - 1]
    BY DEF StaysIn
  <2>2. j > 1 /\ \E r \in PartsOf(h[j - 1]) : r.kind = "calls" /\ SameTurn(r, q)
    BY <2>1 DEF FollowInv
  <2>3. j - 1 \in 1..Len(h)
    BY <2>2
  <2>4. h[j - 1].parts # <<>>
    BY <1>0, <2>2, <2>3, PartsTyped
  <2> QED BY <2>1, <2>2, <2>4
<1>6. RepeatsInv'
  <2>1. ASSUME NEW c, NEW key
        PROVE  Cardinality(TurnsWith(p, c, key)) <= Cardinality(TurnsWith(h, c, key))
    <3>1. \A i \in 1..Len(p) : \E j \in 1..Len(h) : p[i] = h[j]
      BY DEF StaysIn
    <3>2. TurnsWith(p, c, key) \subseteq TurnsWith(h, c, key)
      BY <3>1 DEF TurnsWith
    <3> QED BY <3>2, TurnsMonotone
  <2>2. ASSUME NEW c \in 1..chat, NEW key \in Keys
        PROVE  Cardinality(TurnsWith(p, c, key)) <= MaxRepetitions
    BY <2>1, TurnsFinite, EngineAssumption DEF RepeatsInv
  <2>3. ASSUME NEW key \in Keys
        PROVE  /\ Cardinality(TurnsWith(p, chat, key)) + Uncounted(key)' <= count'[key]
               /\ Cardinality(TurnsWith(p, chat, key)) + Uncounted(key)' <= MaxRepetitions
    <3>1. /\ Cardinality(TurnsWith(h, chat, key)) + Uncounted(key) <= count[key]
          /\ Cardinality(TurnsWith(h, chat, key)) + Uncounted(key) <= MaxRepetitions
      BY DEF RepeatsInv
    <3>2. /\ Cardinality(TurnsWith(h, chat, key)) \in Nat
          /\ Cardinality(TurnsWith(p, chat, key)) \in Nat
          /\ Cardinality(TurnsWith(p, chat, key)) <= Cardinality(TurnsWith(h, chat, key))
      BY <2>1, TurnsFinite
    <3>3. Uncounted(key) \in {0, 1} /\ Uncounted(key)' \in {0, 1} /\ count[key] \in Nat
      BY DEF Uncounted, ControlType
    <3>4. \/ Uncounted(key)' <= Uncounted(key) /\ count'[key] = count[key]
          \/ Uncounted(key)' <= Uncounted(key) /\ count'[key] = count[key] + 1
          \/ /\ Uncounted(key)' = 1 /\ Uncounted(key) = 0
             /\ count'[key] = count[key] + 1 /\ count'[key] <= MaxRepetitions
      BY DEF CountStep
    <3>5. MaxRepetitions \in Nat
      BY EngineAssumption
    <3> HIDE DEF p, h
    <3> QED BY <3>1, <3>2, <3>3, <3>4, <3>5
  <2> QED BY <1>1, <2>2, <2>3 DEF RepeatsInv
<1> QED BY <1>2, <1>3, <1>4, <1>5, <1>6

(* A step that adds a message of one part.  It is put behind the calls it  *)
(* answers because these are in the last message, which is the model's.    *)
LEMMA AddHistory ==
  ASSUME history \in Seq(Messages), ControlType, ControlInv, HistoryInv,
         NEW kind, NEW key, AddStep(kind, key), ControlInv'
  PROVE  history' \in Seq(Messages) /\ HistoryInv'
<1> DEFINE h == history
           p == history'
           m == Message(kind, key)
           n == Len(history')
           new == Part(kind, key)
<1> USE DEF HistoryInv
<1>1. /\ chat' = chat /\ chat \in Nat /\ turn \in Nat /\ chat > 0 /\ turn <= MaxTurns
      /\ kind \in {"text", "blank", "hollow", "calls", "results", "feedback", "warning"}
      /\ key \in Keys \cup {0}
  BY EngineAssumption DEF AddStep, ControlType, ControlInv, PhaseInv
<1>2. /\ m \in Messages /\ m.role = Role(kind) /\ (m.parts = <<>> => Role(kind) = "model")
      /\ \A q \in PartsOf(m) : q = new
      /\ kind # "hollow" => new \in PartsOf(m)
  BY <1>1, MessageIs
<1>3. /\ new.kind = kind /\ new.key = key /\ new.chat = chat /\ new.turn = turn
  BY DEF Part
<1> HIDE DEF new, m
<1>4. /\ p \in Seq(Messages) /\ p # <<>>
      /\ \/ /\ n = Len(h) + 1 /\ p[n] = m
            /\ \A i \in 1..Len(h) : p[i] = h[i]
         \/ /\ n = Len(h) /\ h # <<>> /\ h[Len(h)].role = m.role
            /\ \A i \in 1..Len(h) : i # Len(h) => p[i] = h[i]
            /\ p[n].parts = <<>> => m.parts = <<>>
      /\ p[n].role = m.role
      /\ PartsOf(p[n]) = PartsOf(m) \cup IF n = Len(h) THEN PartsOf(h[Len(h)]) ELSE {}
  <2>1. p = Added(h, m)
    BY DEF AddStep, m
  <2> DEFINE a == p
  <2> HIDE DEF a
  <2>2. a = Added(h, m) /\ m \in Messages
    BY <1>2, <2>1 DEF a
  <2>3. AddedTo(a, h, m)
    BY <2>2, AddedIs
  <2> QED BY <2>3 DEF a, AddedTo
<1>5. /\ n \in Nat /\ n > 0 /\ Len(h) \in Nat /\ n \in {Len(h), Len(h) + 1}
      /\ \A i \in 1..n : i = n \/ (i < n /\ i \in 1..Len(h) /\ p[i] = h[i])
  BY <1>4
(* Each part is the new one or was there before, at the same place.        *)
<1>6. \A i \in 1..n : \A q \in PartsOf(p[i]) :
        \/ i = n /\ q = new
        \/ i \in 1..Len(h) /\ q \in PartsOf(h[i])
  BY <1>2, <1>4, <1>5
<1>7. \A i \in 1..Len(h) : i \in 1..n /\ PartsOf(h[i]) \subseteq PartsOf(p[i])
  BY <1>4, <1>5
(* An answer is a message of its own.                                      *)
<1>8. ASSUME kind \in Closing
      PROVE  /\ n = Len(h) + 1 /\ h # <<>>
             /\ \E r \in PartsOf(h[Len(h)]) : r.kind = "calls" /\ SameTurn(r, new)
  <2>1. \E k : EndsWithCalls(k)
    BY <1>8 DEF AddStep, LastInv, Closing
  <2>2. PICK k : h # <<>> /\ h[Len(h)].role = "model" /\ Part("calls", k) \in PartsOf(h[Len(h)])
    BY <2>1 DEF EndsWithCalls, Last
  <2>3. m.role # "model"
    BY <1>2, <1>8 DEF Role, Closing
  <2>4. n = Len(h) + 1
    BY <1>4, <2>2, <2>3
  <2>5. Part("calls", k).kind = "calls" /\ SameTurn(Part("calls", k), new)
    BY <1>3 DEF SameTurn, Part
  <2> QED BY <2>2, <2>4, <2>5 DEF Part
<1>9. WrittenInv'
  <2>1. ASSUME NEW i \in 1..n PROVE p[i].parts = <<>> => p[i].role = "model"
    BY <1>2, <1>4, <1>5 DEF WrittenInv
  <2>2. ASSUME NEW i \in 1..n, NEW q \in PartsOf(p[i])
        PROVE  q.chat <= chat /\ (phase' # "idle" /\ q.chat = chat => q.turn <= turn')
    <3>1. phase' # "idle" => phase # "idle" /\ turn' = turn
      BY DEF AddStep
    <3>2. CASE q = new
      BY <1>1, <1>3, <3>1, <3>2
    <3>3. CASE i \in 1..Len(h) /\ q \in PartsOf(h[i])
      <4>1. q.chat <= chat /\ (phase # "idle" /\ q.chat = chat => q.turn <= turn)
        BY <3>3 DEF WrittenInv
      <4> QED BY <3>1, <4>1
    <3> QED BY <1>6, <3>2, <3>3
  <2>3. ~Unwritten'
    BY DEF AddStep
  <2> QED BY <1>1, <2>1, <2>2, <2>3 DEF WrittenInv
<1>10. LastInv'
  <2>1. p # <<>> /\ Last' = p[n] /\ p[n].role = Role(kind)
    BY <1>2, <1>4 DEF Last
  <2>2. Asking' => Last'.role # "model"
    BY <2>1 DEF AddStep
  <2>3. ASSUME NEW k, kind = "calls", key = k, phase' # "idle" PROVE EndsWithCalls(k)'
    <3>1. new \in PartsOf(p[n])
      BY <1>2, <1>4, <2>3
    <3>2. new = Part("calls", k)'
      BY <1>1, <2>3 DEF new, Part, AddStep
    <3>3. Role(kind) = "model"
      BY <2>3 DEF Role
    <3> QED BY <2>1, <3>1, <3>2, <3>3 DEF EndsWithCalls
  <2>4. results' # 0 => phase' # "idle"
    BY DEF ControlInv, PendingInv
  <2> QED BY <2>1, <2>2, <2>3, <2>4 DEF LastInv, AddStep
<1>11. AnsweredInv'
  <2> SUFFICES ASSUME Live', NEW i \in 1..n, NEW q \in PartsOf(p[i]),
                      q.kind = "calls", q.chat = chat
               PROVE  \/ /\ i < n
                         /\ \E r \in PartsOf(p[i + 1]) : r.kind \in Closing /\ SameTurn(r, q)
                      \/ i = n /\ q.turn = turn' /\ Awaiting'
    BY <1>1 DEF AnsweredInv
  <2>1. Live /\ (Awaiting => kind \in Closing) /\ (kind = "calls" => Awaiting')
    BY DEF AddStep
  <2>2. turn' = turn
    BY DEF AddStep, Live
  <2>3. CASE i = n /\ q = new
    BY <1>3, <2>1, <2>2, <2>3
  <2>4. CASE i \in 1..Len(h) /\ q \in PartsOf(h[i])
    <3>1. \/ /\ i < Len(h)
             /\ \E r \in PartsOf(h[i + 1]) : r.kind \in Closing /\ SameTurn(r, q)
          \/ i = Len(h) /\ q.turn = turn /\ Awaiting
      BY <2>1, <2>4 DEF AnsweredInv
    <3>2. CASE i < Len(h)
      <4>1. i + 1 \in 1..Len(h)
        BY <2>4, <3>2
      <4>2. PartsOf(h[i + 1]) \subseteq PartsOf(p[i + 1])
        BY <4>1, <1>7
      <4>3. i < n
        BY <1>5, <3>2
      <4> QED BY <3>1, <3>2, <4>2, <4>3
    <3>3. CASE i = Len(h)
      <4>1. q.turn = turn /\ kind \in Closing
        BY <2>1, <3>1, <3>3
      <4>2. n = i + 1
        BY <1>8, <3>3, <4>1
      <4>3. new \in PartsOf(p[n]) /\ new.kind \in Closing
        BY <1>2, <1>3, <1>4, <4>1 DEF Closing
      <4>4. SameTurn(new, q)
        BY <1>3, <4>1 DEF SameTurn
      <4> QED BY <4>2, <4>3, <4>4, <1>5
    <3> QED BY <2>4, <3>2, <3>3
  <2> QED BY <1>6, <2>3, <2>4
<1>12. FollowInv'
  <2> SUFFICES ASSUME NEW i \in 1..n, NEW q \in PartsOf(p[i]), q.kind \in Closing
               PROVE  i > 1 /\ \E r \in PartsOf(p[i - 1]) : r.kind = "calls" /\ SameTurn(r, q)
    BY DEF FollowInv
  <2>1. CASE i = n /\ q = new
    <3>1. kind \in Closing
      BY <1>3, <2>1
    <3>2. n = Len(h) + 1 /\ h # <<>>
          /\ \E r \in PartsOf(h[Len(h)]) : r.kind = "calls" /\ SameTurn(r, new)
      BY <1>8, <3>1
    <3>3. n - 1 = Len(h) /\ Len(h) \in 1..Len(h)
      BY <1>5, <3>2
    <3>4. PartsOf(h[Len(h)]) \subseteq PartsOf(p[n - 1])
      BY <1>7, <3>3
    <3> QED BY <2>1, <3>2, <3>3, <3>4
  <2>2. CASE i \in 1..Len(h) /\ q \in PartsOf(h[i])
    <3>1. i > 1 /\ \E r \in PartsOf(h[i - 1]) : r.kind = "calls" /\ SameTurn(r, q)
      BY <2>2 DEF FollowInv
    <3>2. i - 1 \in 1..Len(h)
      BY <2>2, <3>1
    <3>3. PartsOf(h[i - 1]) \subseteq PartsOf(p[i - 1])
      BY <1>7, <3>2
    <3> QED BY <3>1, <3>3
  <2> QED BY <1>6, <2>1, <2>2
<1>13. RepeatsInv'
  <2>1. ASSUME NEW c \in 1..chat, NEW k \in Keys
        PROVE  TurnsWith(p, c, k) \subseteq
                 TurnsWith(h, c, k) \cup IF c = chat /\ k = key /\ kind = "results" THEN {turn} ELSE {}
    <3> SUFFICES ASSUME NEW t \in TurnsWith(p, c, k)
                 PROVE  t \in TurnsWith(h, c, k) \/ (c = chat /\ k = key /\ kind = "results" /\ t = turn)
      OBVIOUS
    <3> DEFINE q == [kind |-> "results", key |-> k, chat |-> c, turn |-> t]
    <3>1. q.kind = "results" /\ q.key = k /\ q.chat = c /\ q.turn = t
      OBVIOUS
    <3>2. t \in 0..MaxTurns /\ \E i \in 1..n : q \in PartsOf(p[i])
      BY DEF TurnsWith
    <3>3. CASE \E i \in 1..Len(h) : q \in PartsOf(h[i])
      BY <3>2, <3>3 DEF TurnsWith
    <3>4. CASE q = new
      <4> HIDE DEF q
      <4> QED BY <1>3, <3>1, <3>4
    <3> HIDE DEF q
    <3> QED BY <1>6, <3>2, <3>3, <3>4
  <2>2. ASSUME NEW c \in 1..chat, NEW k \in Keys, ~(c = chat /\ k = key /\ kind = "results")
        PROVE  Cardinality(TurnsWith(p, c, k)) <= Cardinality(TurnsWith(h, c, k))
    <3>1. TurnsWith(p, c, k) \subseteq TurnsWith(h, c, k)
      BY <2>1, <2>2
    <3> QED BY <3>1, TurnsMonotone
  <2>3. ASSUME kind = "results"
        PROVE  Cardinality(TurnsWith(p, chat, key)) <= Cardinality(TurnsWith(h, chat, key)) + 1
    <3>1. chat \in 1..chat /\ key \in Keys
      BY <1>1, <2>3 DEF AddStep
    <3>2. TurnsWith(p, chat, key) \subseteq TurnsWith(h, chat, key) \cup {turn}
      BY <2>1, <2>3, <3>1
    <3>3. IsFiniteSet(TurnsWith(h, chat, key) \cup {turn})
          /\ Cardinality(TurnsWith(h, chat, key) \cup {turn}) \in Nat
          /\ Cardinality(TurnsWith(h, chat, key) \cup {turn}) <= Cardinality(TurnsWith(h, chat, key)) + 1
      <4>1. IsFiniteSet(TurnsWith(h, chat, key)) /\ Cardinality(TurnsWith(h, chat, key)) \in Nat
        BY TurnsFinite
      <4>2. /\ IsFiniteSet(TurnsWith(h, chat, key) \cup {turn})
            /\ Cardinality(TurnsWith(h, chat, key) \cup {turn}) =
                 IF turn \in TurnsWith(h, chat, key) THEN Cardinality(TurnsWith(h, chat, key))
                 ELSE Cardinality(TurnsWith(h, chat, key)) + 1
        BY <4>1, FS_AddElement
      <4> QED BY <4>1, <4>2
    <3>4. Cardinality(TurnsWith(p, chat, key)) <= Cardinality(TurnsWith(h, chat, key) \cup {turn})
      BY <3>2, <3>3, FS_Subset
    <3> QED BY <3>3, <3>4, TurnsFinite
  <2>4. ASSUME NEW k \in Keys
        PROVE  Cardinality(TurnsWith(p, chat, k)) + Uncounted(k)' <=
                 Cardinality(TurnsWith(h, chat, k)) + Uncounted(k)
    <3>1. /\ Cardinality(TurnsWith(h, chat, k)) \in Nat /\ Cardinality(TurnsWith(p, chat, k)) \in Nat
          /\ Uncounted(k) \in {0, 1} /\ Uncounted(k)' \in {0, 1} /\ Uncounted(k)' <= Uncounted(k)
      BY TurnsFinite DEF Uncounted, AddStep
    <3>2. CASE k = key /\ kind = "results"
      <4>1. Uncounted(k) = 1
        BY <3>2 DEF Uncounted, AddStep
      <4>2. Uncounted(k)' = 0
        <5>1. results' = 0 /\ k # 0
          BY <3>2, EngineAssumption DEF AddStep
        <5>2. phase' # "Executing"
          BY DEF AddStep, Unwritten
        <5> QED BY <5>1, <5>2 DEF Uncounted
      <4>3. Cardinality(TurnsWith(p, chat, k)) <= Cardinality(TurnsWith(h, chat, k)) + 1
        BY <2>3, <3>2
      <4> QED BY <3>1, <4>1, <4>2, <4>3
    <3>3. CASE ~(k = key /\ kind = "results")
      <4>1. chat \in 1..chat
        BY <1>1
      <4>2. Cardinality(TurnsWith(p, chat, k)) <= Cardinality(TurnsWith(h, chat, k))
        BY <2>2, <3>3, <4>1
      <4> QED BY <3>1, <4>2
    <3> QED BY <3>2, <3>3
  <2>5. ASSUME NEW k \in Keys
        PROVE  /\ Cardinality(TurnsWith(p, chat, k)) + Uncounted(k)' <= count'[k]
               /\ Cardinality(TurnsWith(p, chat, k)) + Uncounted(k)' <= MaxRepetitions
               /\ Cardinality(TurnsWith(p, chat, k)) <= MaxRepetitions
    <3>1. /\ Cardinality(TurnsWith(h, chat, k)) + Uncounted(k) <= count[k]
          /\ Cardinality(TurnsWith(h, chat, k)) + Uncounted(k) <= MaxRepetitions
      BY DEF RepeatsInv
    <3>2. /\ Cardinality(TurnsWith(h, chat, k)) \in Nat /\ Cardinality(TurnsWith(p, chat, k)) \in Nat
          /\ Uncounted(k) \in {0, 1} /\ Uncounted(k)' \in {0, 1}
          /\ count[k] \in Nat /\ count'[k] = count[k] /\ MaxRepetitions \in Nat
      BY TurnsFinite, EngineAssumption DEF Uncounted, ControlType, AddStep
    <3> HIDE DEF p, h
    <3> QED BY <2>4, <3>1, <3>2
  <2>6. ASSUME NEW c \in 1..chat, NEW k \in Keys
        PROVE  Cardinality(TurnsWith(p, c, k)) <= MaxRepetitions
    <3>1. CASE c = chat
      BY <2>5, <3>1
    <3>2. CASE c # chat
      <4>1. Cardinality(TurnsWith(p, c, k)) <= Cardinality(TurnsWith(h, c, k))
        BY <2>2, <3>2
      <4>2. Cardinality(TurnsWith(h, c, k)) <= MaxRepetitions
        BY DEF RepeatsInv
      <4> QED BY <4>1, <4>2, TurnsFinite, EngineAssumption
    <3> QED BY <3>1, <3>2
  <2> QED BY <1>1, <2>5, <2>6 DEF RepeatsInv
<1> QED BY <1>4, <1>9, <1>10, <1>11, <1>12, <1>13

(* A prompt begins a chat: nothing in the history is of that chat yet.     *)
LEMMA AskHistory ==
  ASSUME history \in Seq(Messages), ControlType, HistoryInv, Ask
  PROVE  history' \in Seq(Messages) /\ HistoryInv'
<1> DEFINE h == history
           p == history'
           c == chat + 1
           m == Prompt(c)
           n == Len(history')
           new == [kind |-> "prompt", key |-> 0, chat |-> c, turn |-> 0]
<1> USE DEF HistoryInv
<1>1. /\ chat' = c /\ c \in 1..MaxChats /\ chat \in Nat /\ turn' = 0 /\ phase' = "Guard"
      /\ resp' = NoResponse /\ results' = 0 /\ hasCalls' = FALSE /\ count' = NoCounts
      /\ p = Added(h, m)
  BY EngineAssumption DEF Ask, FreshTurn, ControlType
<1>2. /\ m \in Messages /\ m.role = "user" /\ m.parts # <<>> /\ PartsOf(m) = {new}
  BY <1>1, PromptIs
<1>3. new.kind = "prompt" /\ new.chat = c /\ new.turn = 0
  OBVIOUS
<1> HIDE DEF new, m
<1>4. /\ p \in Seq(Messages) /\ p # <<>>
      /\ \/ /\ n = Len(h) + 1 /\ p[n] = m
            /\ \A i \in 1..Len(h) : p[i] = h[i]
         \/ /\ n = Len(h) /\ h # <<>> /\ h[Len(h)].role = m.role
            /\ \A i \in 1..Len(h) : i # Len(h) => p[i] = h[i]
            /\ p[n].parts = <<>> => m.parts = <<>>
      /\ p[n].role = m.role
      /\ PartsOf(p[n]) = PartsOf(m) \cup IF n = Len(h) THEN PartsOf(h[Len(h)]) ELSE {}
  <2> DEFINE a == p
  <2> HIDE DEF a
  <2>2. a = Added(h, m) /\ m \in Messages
    BY <1>1, <1>2 DEF a
  <2>3. AddedTo(a, h, m)
    BY <2>2, AddedIs
  <2> QED BY <2>3 DEF a, AddedTo
<1>5. /\ n \in Nat /\ n > 0 /\ Len(h) \in Nat /\ n \in {Len(h), Len(h) + 1}
      /\ \A i \in 1..n : i = n \/ (i < n /\ i \in 1..Len(h) /\ p[i] = h[i])
  BY <1>4
<1>6. \A i \in 1..n : \A q \in PartsOf(p[i]) :
        \/ i = n /\ q = new
        \/ i \in 1..Len(h) /\ q \in PartsOf(h[i])
  BY <1>2, <1>4, <1>5
<1>7. \A i \in 1..Len(h) : i \in 1..n /\ PartsOf(h[i]) \subseteq PartsOf(p[i])
  BY <1>4, <1>5
<1>8. \A i \in 1..Len(h) : \A q \in PartsOf(h[i]) : q.chat \in Nat /\ q.chat < c
  <2> SUFFICES ASSUME NEW i \in 1..Len(h), NEW q \in PartsOf(h[i])
               PROVE  q.chat \in Nat /\ q.chat < c
    OBVIOUS
  <2>1. q.chat <= chat
    BY DEF WrittenInv
  <2>2. q.chat \in Nat
    BY PartsTyped
  <2> QED BY <1>1, <2>1, <2>2
<1> HIDE DEF c
<1>9. WrittenInv'
  <2>1. ASSUME NEW i \in 1..n PROVE p[i].parts = <<>> => p[i].role = "model"
    BY <1>2, <1>4, <1>5 DEF WrittenInv
  <2>2. ASSUME NEW i \in 1..n, NEW q \in PartsOf(p[i])
        PROVE  /\ q.chat <= c /\ (q.chat = c => q.turn <= 0)
               /\ q.chat = c => q.kind = "prompt"
    <3>1. CASE q = new
      BY <1>1, <1>3, <3>1
    <3>2. CASE i \in 1..Len(h) /\ q \in PartsOf(h[i])
      BY <1>1, <1>8, <3>2
    <3> QED BY <1>6, <3>1, <3>2
  <2> QED BY <1>1, <2>1, <2>2 DEF WrittenInv
<1>10. LastInv'
  BY <1>1, <1>2, <1>4 DEF LastInv, Last
<1>11. AnsweredInv'
  <2>1. ASSUME NEW i \in 1..n, NEW q \in PartsOf(p[i]) PROVE ~(q.kind = "calls" /\ q.chat = c)
    <3>1. CASE q = new
      BY <1>3, <3>1
    <3>2. CASE i \in 1..Len(h) /\ q \in PartsOf(h[i])
      BY <1>1, <1>8, <3>2
    <3> QED BY <1>6, <3>1, <3>2
  <2> QED BY <1>1, <2>1 DEF AnsweredInv
<1>12. FollowInv'
  <2> SUFFICES ASSUME NEW i \in 1..n, NEW q \in PartsOf(p[i]), q.kind \in Closing
               PROVE  i > 1 /\ \E r \in PartsOf(p[i - 1]) : r.kind = "calls" /\ SameTurn(r, q)
    BY DEF FollowInv
  <2>1. i \in 1..Len(h) /\ q \in PartsOf(h[i])
    BY <1>3, <1>6 DEF Closing
  <2>2. i > 1 /\ \E r \in PartsOf(h[i - 1]) : r.kind = "calls" /\ SameTurn(r, q)
    BY <2>1 DEF FollowInv
  <2>3. i - 1 \in 1..Len(h)
    BY <2>1, <2>2
  <2>4. PartsOf(h[i - 1]) \subseteq PartsOf(p[i - 1])
    BY <1>7, <2>3
  <2> QED BY <2>2, <2>4
<1>13. RepeatsInv'
  <2>1. ASSUME NEW d, NEW k, NEW t \in TurnsWith(p, d, k)
        PROVE  t \in TurnsWith(h, d, k) /\ d # c
    <3> DEFINE q == [kind |-> "results", key |-> k, chat |-> d, turn |-> t]
    <3>1. q.kind = "results" /\ q.chat = d
      OBVIOUS
    <3>2. t \in 0..MaxTurns /\ \E i \in 1..n : q \in PartsOf(p[i])
      BY <2>1 DEF TurnsWith
    <3>3. \E i \in 1..Len(h) : q \in PartsOf(h[i])
      <4> HIDE DEF q
      <4> QED BY <1>3, <1>6, <3>1, <3>2
    <3>4. t \in TurnsWith(h, d, k)
      BY <3>2, <3>3 DEF TurnsWith
    <3>5. d # c
      <4> HIDE DEF q
      <4> QED BY <1>1, <1>8, <3>1, <3>3
    <3> QED BY <3>4, <3>5
  <2>2. ASSUME NEW d \in 1..c, NEW k \in Keys PROVE Cardinality(TurnsWith(p, d, k)) <= MaxRepetitions
    <3>1. CASE d = c
      <4>1. TurnsWith(p, d, k) = {}
        BY <2>1, <3>1
      <4> QED BY <4>1, FS_EmptySet, EngineAssumption
    <3>2. CASE d # c
      <4>1. d \in 1..chat
        BY <1>1, <3>2 DEF c
      <4>2. Cardinality(TurnsWith(h, d, k)) <= MaxRepetitions
        BY <4>1 DEF RepeatsInv
      <4>3. TurnsWith(p, d, k) \subseteq TurnsWith(h, d, k)
        BY <2>1
      <4>4. Cardinality(TurnsWith(p, d, k)) <= Cardinality(TurnsWith(h, d, k))
        BY <4>3, TurnsMonotone
      <4> QED BY <4>2, <4>4, TurnsFinite, EngineAssumption
    <3> QED BY <3>1, <3>2
  <2>3. ASSUME NEW k \in Keys
        PROVE  Cardinality(TurnsWith(p, c, k)) = 0 /\ Uncounted(k)' = 0 /\ count'[k] = 0
    <3>1. TurnsWith(p, c, k) = {}
      BY <2>1
    <3>2. k # 0
      BY EngineAssumption
    <3> QED BY <1>1, <3>1, <3>2, FS_EmptySet DEF Uncounted, NoCounts
  <2> QED BY <1>1, <2>2, <2>3, EngineAssumption DEF RepeatsInv
<1> QED BY <1>4, <1>9, <1>10, <1>11, <1>12, <1>13

-----------------------------------------------------------------------------
(* Every step.                                                             *)

(* What the transformers return is the history without the messages that   *)
(* have no parts: at that point there is nothing to repair.                *)
LEMMA RefinedStays ==
  ASSUME history \in Seq(Messages), WrittenInv, history # <<>>, Last.role # "model",
         NEW p, p = Pruned(Repaired(history))
  PROVE  StaysIn(p, history)
<1>1. p = Pruned(history)
  BY DEF Repaired, Last
<1>2. history[Len(history)].parts # <<>>
  <2>1. Len(history) \in 1..Len(history)
    OBVIOUS
  <2> QED BY <2>1 DEF WrittenInv, Last
<1> QED BY <1>1, <1>2, PrunedKeeps

(* A history that does not change keeps its neighbours.                    *)
LEMMA SameStays == ASSUME history \in Seq(Messages) PROVE StaysIn(history, history)
<1>1. ASSUME NEW i \in 1..Len(history)
      PROVE  \E j \in 1..Len(history) :
               /\ history[i] = history[j] /\ (j = Len(history) => i = Len(history))
               /\ j > 1 /\ history[j - 1].parts # <<>> => i > 1 /\ history[i - 1] = history[j - 1]
               /\ j < Len(history) /\ history[j + 1].parts # <<>> =>
                    i < Len(history) /\ history[i + 1] = history[j + 1]
  OBVIOUS
<1> QED BY <1>1 DEF StaysIn

Inv == history \in Seq(Messages) /\ ControlType /\ ControlInv /\ HistoryInv

(* No chat yet: the history is empty.                                      *)
LEMMA InvInit == Init => Inv
<1> SUFFICES ASSUME Init PROVE Inv
  OBVIOUS
<1>1. /\ history = <<>> /\ chat = 0 /\ phase = "idle" /\ turn = 0 /\ limit \in Limits
      /\ retry = 0 /\ lastErr = "none" /\ resp = NoResponse /\ results = 0 /\ hasCalls = FALSE
      /\ recent = <<>> /\ count = NoCounts /\ cancelled = FALSE /\ faults = 0
      /\ outcome = "none"
  BY DEF Init
<1>2. ControlType
  <2>1. hasCalls \in BOOLEAN /\ cancelled \in BOOLEAN
    BY <1>1
  <2>2. recent \in Seq(Answers) /\ Len(recent) <= MaxRepetitions /\ count \in [Keys -> Nat]
    BY <1>1, EngineAssumption DEF NoCounts
  <2> QED BY <1>1, <2>1, <2>2, EngineAssumption DEF ControlType, Phases
<1>3. ControlInv
  BY <1>1 DEF ControlInv, PhaseInv, PendingInv, TurnInv
<1>4. history \in Seq(Messages) /\ Len(history) = 0
  BY <1>1
<1>5. WrittenInv /\ LastInv /\ AnsweredInv /\ FollowInv
  BY <1>1, <1>4 DEF WrittenInv, LastInv, AnsweredInv, FollowInv, Asking
<1>6. RepeatsInv
  <2>1. ASSUME NEW c, NEW k PROVE Cardinality(TurnsWith(history, c, k)) = 0
    <3>1. TurnsWith(history, c, k) = {}
      BY <1>4 DEF TurnsWith
    <3> QED BY <3>1, FS_EmptySet
  <2>2. \A k \in Keys : Uncounted(k) = 0 /\ count[k] = 0
    BY <1>1, EngineAssumption DEF Uncounted, NoCounts
  <2> QED BY <2>1, <2>2, EngineAssumption DEF RepeatsInv
<1> QED BY <1>2, <1>3, <1>4, <1>5, <1>6 DEF Inv, HistoryInv

(* Every step keeps every part of the inductive invariant.                 *)
LEMMA InvNext == Inv /\ [Next]_vars => Inv'
<1> SUFFICES ASSUME Inv, [Next]_vars PROVE Inv'
  OBVIOUS
<1> USE DEF Inv
<1>1. CASE UNCHANGED vars
  BY <1>1
     DEF vars, ControlType, ControlInv, PhaseInv, PendingInv, TurnInv, HistoryInv,
         WrittenInv,
     Unwritten, LastInv, Asking, EndsWithCalls, Last, Part, AnsweredInv, Live, Awaiting, FollowInv,
     RepeatsInv, Uncounted
<1>2. CASE Next
  <2>1. ControlType' /\ ControlInv'
    BY <1>2, ControlStep
  <2>2. CASE Ask
    BY <2>1, <2>2, AskHistory
  <2>3. CASE \/ BreakLoop \/ GiveFeedback \/ PersistResponse \/ PersistResults
             \/ SaveResponse \/ SaveResults
    <3>1. CASE \E kind, key : AddStep(kind, key)
      BY <2>1, <3>1, AddHistory
    <3>2. CASE QuietStep /\ CountStep /\ UNCHANGED history
      BY <2>1, <3>2, SameStays, QuietHistory
    <3> QED BY <2>3, <3>1, <3>2, AddSteps
  <2>4. CASE Infer
    <3>1. history' = history
      BY <2>4 DEF Infer
    <3> QED BY <2>1, <2>4, <3>1, InferQuiet, SameStays, QuietHistory
  <2>5. CASE Refine \/ RefineFail
    <3>1. history' \in {history, Pruned(Repaired(history))} /\ phase = "Refining"
      BY <2>5 DEF Refine, RefineFail
    <3>2. history # <<>> /\ Last.role # "model"
      BY <3>1 DEF HistoryInv, LastInv, Asking
    <3>3. StaysIn(history', history)
      BY <3>1, <3>2, RefinedStays, SameStays DEF HistoryInv
    <3>4. QuietStep /\ CountStep
      BY <2>5, QuietSteps
    <3>5. history' \in Seq(Messages)
      BY <3>3 DEF StaysIn
    <3> QED BY <2>1, <3>3, <3>4, <3>5, QuietHistory
  <2>6. CASE \/ Crash \/ Cancel \/ GuardPass \/ GuardFail \/ InferEmpty \/ InferFail
             \/ BreakFail \/ Execute \/ ExecuteInterrupted \/ ExecuteMaxTurns
             \/ PersistFail \/ Retry \/ RetryInterrupted \/ ReduceContext
             \/ AcceptEmpty \/ GiveUp \/ SaveNothing \/ SaveFail \/ NextTurn \/ Return
    <3>1. history' = history
      BY <2>6
         DEF Crash, Cancel, GuardPass, GuardFail, InferEmpty, InferFail, BreakFail,
             AddRefused,
         StoreFails, Execute, ExecuteInterrupted, ExecuteMaxTurns, PersistFail, Retry,
         RetryInterrupted, ReduceContext, AcceptEmpty, GiveUp, SaveNothing, SaveFail, NextTurn, Return
    <3>2. QuietStep /\ CountStep
      BY <2>6, QuietSteps
    <3> QED BY <2>1, <3>1, <3>2, SameStays, QuietHistory
  <2>7. CASE Done
    BY <1>1, <2>7 DEF Done
  <2> QED BY <1>2, <2>2, <2>3, <2>4, <2>5, <2>6, <2>7 DEF Next, Engine
<1> QED BY <1>1, <1>2

-----------------------------------------------------------------------------
(* The theorems.                                                           *)

(* Type correctness, and the inductive invariant: what each phase knows of *)
(* the turn (the fields of TurnState), and what the history holds of it.   *)
THEOREM InvCorrect == Spec => [](TypeOK /\ IInv)
<1>1. Inv => TypeOK /\ IInv
  BY DEF Inv, ControlType, ControlInv, HistoryInv, TypeOK, IInv
<1> QED BY <1>1, InvInit, InvNext, PTL DEF Spec

(* A position and the part that is there.                                  *)
LEMMA PartAt ==
  ASSUME history \in Seq(Messages), NEW p \in Positions
  PROVE  /\ p[1] \in 1..Len(history) /\ At(p) \in PartsOf(history[p[1]])
<1>1. p[1] \in 1..Len(history) /\ p[2] \in 1..Len(history[p[1]].parts)
  <2>1. p[1] \in 1..Len(history) /\ p[2] \in 1..Len(history)
        /\ p[2] <= Len(history[p[1]].parts)
    BY DEF Positions
  <2>2. history[p[1]] \in Messages
    BY <2>1
  <2>3. Len(history[p[1]].parts) \in Nat
    BY <2>2 DEF Messages
  <2> QED BY <2>1, <2>3
<1> QED BY <1>1 DEF At, PartsOf

(* The answer a call has in the next message.                              *)
LEMMA AnsweredAt ==
  ASSUME NEW p \in Positions, p[1] < Len(history),
         NEW r \in PartsOf(history[p[1] + 1]), r.kind \in Closing, SameTurn(r, At(p))
  PROVE  Answered(p, {"results", "feedback"})
<1>1. PICK j \in 1..Len(history[p[1] + 1].parts) : r = history[p[1] + 1].parts[j]
  BY DEF PartsOf
<1> QED BY <1>1 DEF Answered, Closing

(* While nothing is owed, every call of the Run is answered.               *)
LEMMA AllAnswered ==
  ASSUME TypeOK, AnsweredInv, Live, ~Awaiting
  PROVE  \A p \in Calls({chat}) : Answered(p, {"results", "feedback"})
<1> SUFFICES ASSUME NEW p \in Calls({chat}) PROVE Answered(p, {"results", "feedback"})
  OBVIOUS
<1>1. p \in Positions /\ At(p).kind = "calls" /\ At(p).chat = chat
  BY DEF Calls
<1>2. p[1] \in 1..Len(history) /\ At(p) \in PartsOf(history[p[1]])
  BY <1>1, PartAt DEF TypeOK
<1>3. /\ p[1] < Len(history)
      /\ \E r \in PartsOf(history[p[1] + 1]) : r.kind \in Closing /\ SameTurn(r, At(p))
  BY <1>1, <1>2 DEF AnsweredInv
<1> QED BY <1>1, <1>3, AnsweredAt

(* The provider never sees an unanswered call of the Run under way.        *)
THEOREM RequestsAreAnswered == Spec => []RunAnswersItsCalls
<1>1. TypeOK /\ IInv => RunAnswersItsCalls
  <2> SUFFICES ASSUME TypeOK, IInv, phase = "Inference" PROVE RunAnswersItsCalls
    BY DEF RunAnswersItsCalls
  <2>1. Live /\ ~Awaiting
    BY DEF Live, Awaiting
  <2> QED BY <2>1, AllAnswered DEF IInv, RunAnswersItsCalls
<1> QED BY <1>1, InvCorrect, PTL

(* Results and feedback stand behind the calls they answer, whatever       *)
(* appends failed and wherever a Run ended.                                *)
THEOREM ResultsStayBehind == Spec => []ResultsFollowCalls
<1>1. TypeOK /\ IInv => ResultsFollowCalls
  <2> SUFFICES ASSUME TypeOK, IInv, NEW p \in Positions, At(p).kind \in {"results", "feedback"}
      PROVE  /\ p[1] > 1
             /\ \E j \in 1..Len(history[p[1] - 1].parts) :
                  LET q == history[p[1] - 1].parts[j] IN
                  q.kind = "calls" /\ SameTurn(q, At(p))
    BY DEF ResultsFollowCalls
  <2>1. p[1] \in 1..Len(history) /\ At(p) \in PartsOf(history[p[1]])
    BY PartAt DEF TypeOK
  <2>2. p[1] > 1 /\ \E r \in PartsOf(history[p[1] - 1]) : r.kind = "calls" /\ SameTurn(r, At(p))
    BY <2>1 DEF IInv, FollowInv, Closing
  <2> QED BY <2>2 DEF PartsOf
<1> QED BY <1>1, InvCorrect, PTL

(* A call runs at most MaxRepetitions times in a Run, in each chat there   *)
(* has been.                                                               *)
THEOREM LoopsAreBroken == Spec => []RepetitionsBounded
<1>1. TypeOK /\ IInv => RepetitionsBounded
  <2> SUFFICES ASSUME TypeOK, IInv, NEW c \in 1..chat, NEW k \in Keys
      PROVE  Cardinality({t \in 0..MaxTurns :
               \E p \in Positions :
                 /\ At(p).kind = "results" /\ At(p).key = k
                 /\ At(p).chat = c /\ At(p).turn = t}) <= MaxRepetitions
    BY DEF RepetitionsBounded
  <2> DEFINE S == {t \in 0..MaxTurns :
               \E p \in Positions :
                 /\ At(p).kind = "results" /\ At(p).key = k
                 /\ At(p).chat = c /\ At(p).turn = t}
  <2>1. ASSUME NEW t \in S PROVE t \in TurnsWith(history, c, k)
    <3>1. PICK p \in Positions : /\ At(p).kind = "results" /\ At(p).key = k
                                 /\ At(p).chat = c /\ At(p).turn = t
      OBVIOUS
    <3>2. p[1] \in 1..Len(history) /\ At(p) \in PartsOf(history[p[1]])
      BY PartAt DEF TypeOK
    <3>3. At(p) \in Parts
      BY <3>2, PartsTyped DEF TypeOK
    <3>4. At(p) = [kind |-> "results", key |-> k, chat |-> c, turn |-> t]
      BY <3>1, <3>3 DEF Parts
    <3>5. t \in 0..MaxTurns
      OBVIOUS
    <3> HIDE DEF S
    <3> QED BY <3>2, <3>4, <3>5 DEF TurnsWith
  <2> HIDE DEF S
  <2>2. IsFiniteSet(TurnsWith(history, c, k)) /\ S \subseteq TurnsWith(history, c, k)
    BY <2>1, TurnsFinite
  <2>3. Cardinality(S) <= Cardinality(TurnsWith(history, c, k)) /\ Cardinality(S) \in Nat
    BY <2>2, FS_Subset, FS_CardinalityType
  <2>4. Cardinality(TurnsWith(history, c, k)) <= MaxRepetitions
    BY DEF IInv, RepeatsInv
  <2>5. Cardinality(S) <= MaxRepetitions
    BY <2>3, <2>4, TurnsFinite, EngineAssumption
  <2> QED BY <2>5 DEF S
<1> QED BY <1>1, InvCorrect, PTL

(* How a Run comes to return.                                              *)
LEMMA ReturnsHow ==
  ASSUME TypeOK, [Next]_vars, Returns
  PROVE  \/ SaveNothing /\ outcome' = "error"
         \/ SaveResults /\ outcome' = "error"
         \/ SaveFail /\ outcome' = "error"
         \/ Return
BY DEF Next, Engine, vars, Returns, Ask, Cancel, Crash, Done, GuardPass, GuardFail, Refine,
   RefineFail, Infer, InferEmpty, InferFail, BreakLoop, GiveFeedback, BreakFail, Execute,
   ExecuteInterrupted, ExecuteMaxTurns, PersistResponse, PersistResults, PersistFail, Retry,
   RetryInterrupted, ReduceContext, AcceptEmpty, GiveUp, SaveNothing, SaveResponse, SaveResults,
   SaveFail, NextTurn, Return, Goto, Fail, Leave

(* A Run that reports success has answered every call of its chat.         *)
THEOREM SuccessMeansAnswered == Spec => SuccessIsAnswered
<1>1. TypeOK /\ IInv /\ [Next]_vars =>
        [Returns /\ outcome' = "ok" =>
           \A p \in Calls({chat}) : Answered(p, {"results", "feedback"})]_vars
  <2> SUFFICES ASSUME TypeOK, IInv, [Next]_vars, Returns, outcome' = "ok"
      PROVE  \A p \in Calls({chat}) : Answered(p, {"results", "feedback"})
    OBVIOUS
  <2>1. Return
    BY ReturnsHow
  <2>2. Live /\ ~Awaiting
    BY <2>1 DEF Return, Live, Awaiting
  <2> QED BY <2>2, AllAnswered DEF IInv
<1> QED BY <1>1, InvCorrect, PTL DEF Spec, SuccessIsAnswered

(* What is added is recorded, and what was recorded stays.                 *)
LEMMA AddRecords ==
  ASSUME TypeOK, chat > 0, turn <= MaxTurns, NEW key \in Keys \cup {0},
         NEW kind \in {"text", "blank", "calls", "results", "feedback", "warning"}
  PROVE  /\ Records(Added(history, Message(kind, key)), Part(kind, key))
         /\ \A q : Records(history, q) => Records(Added(history, Message(kind, key)), q)
<1> DEFINE m == Message(kind, key)
           r == Part(kind, key)
<1>1. m \in Messages /\ r \in PartsOf(m)
  <2>1. ControlType
    BY DEF TypeOK, ControlType
  <2> QED BY <2>1, MessageIs
<1> HIDE DEF m, r
<1> DEFINE b == Added(history, m)
<1>2. AddedTo(b, history, m)
  BY <1>1, AddedIs DEF TypeOK
<1> HIDE DEF b
<1>3. Len(b) \in 1..Len(b) /\ r \in PartsOf(b[Len(b)])
  BY <1>1, <1>2 DEF AddedTo
<1>4. Records(b, r)
  BY <1>3 DEF Records, PartsOf
<1>5. ASSUME NEW q, Records(history, q) PROVE Records(b, q)
  <2>1. PICK i \in 1..Len(history) : q \in PartsOf(history[i])
    BY <1>5 DEF Records, PartsOf
  <2>2. i \in 1..Len(b) /\ q \in PartsOf(b[i])
    BY <1>2, <2>1 DEF AddedTo, TypeOK
  <2> QED BY <2>2 DEF Records, PartsOf
<1> QED BY <1>4, <1>5 DEF b, m, r

(* What a turn holds of its response.                                      *)
LEMMA ResponseStep ==
  TypeOK /\ IInv /\ ResponseInv /\ [Next]_vars => ResponseInv'
<1> SUFFICES ASSUME TypeOK, IInv, ResponseInv, [Next]_vars PROVE ResponseInv'
  OBVIOUS
<1> DEFINE Hopeful(p, e) == \/ p \in {"Guard", "Refining", "Inference"}
                            \/ p = "Recovering" /\ e \in {"transient", "overflow", "empty"}
<1>1. ASSUME Hopeful(phase', lastErr') PROVE resp' \notin Answers
  BY <1>1, Responses
     DEF ResponseInv, Next, Engine, vars, turnState, detector, Ask, Cancel, Crash, Done, GuardPass,
         GuardFail, Refine, RefineFail, Infer, InferEmpty, InferFail, BreakLoop, GiveFeedback,
         BreakFail, Execute, ExecuteInterrupted, ExecuteMaxTurns, PersistResponse, PersistResults,
         PersistFail, Retry, RetryInterrupted, ReduceContext, AcceptEmpty, GiveUp, SaveNothing,
         SaveResponse, SaveResults, SaveFail, NextTurn, Return, Goto, Fail, Leave, FreshTurn,
         Retryable, Overflowed
<1>2. ASSUME phase' = "Feedback" PROVE Records(history', Part(resp.kind, resp.key)')
  <2>1. \/ BreakLoop
        \/ phase = "Feedback" /\ UNCHANGED <<history, chat, turn, resp>>
    BY <1>2
       DEF Next, Engine, vars, turnState, detector, Ask, Cancel, Crash, Done, GuardPass,
           GuardFail, Refine, RefineFail, Infer, InferEmpty, InferFail, GiveFeedback,
           BreakFail, Execute, ExecuteInterrupted, ExecuteMaxTurns, PersistResponse,
           PersistResults, PersistFail, Retry, RetryInterrupted, ReduceContext, AcceptEmpty, GiveUp,
           SaveNothing, SaveResponse, SaveResults, SaveFail, NextTurn, Return, Goto, Fail, Leave
  <2>2. CASE BreakLoop
    <3>1. /\ phase = "LoopBreak" /\ UNCHANGED <<resp, chat, turn>>
          /\ history' = Added(history, Message(resp.kind, resp.key))
      BY <2>2 DEF BreakLoop, Add, Goto, turnState
    <3>2. resp.kind \in {"text", "calls"} /\ resp.key \in Keys \cup {0}
      BY <3>1, Responses DEF IInv, PhaseInv
    <3>3. chat > 0 /\ turn <= MaxTurns
      BY <3>1 DEF IInv, PhaseInv, TurnInv
    <3>4. Records(history', Part(resp.kind, resp.key))
      BY <3>1, <3>2, <3>3, AddRecords
    <3> QED BY <3>1, <3>4 DEF Part
  <2>3. CASE phase = "Feedback" /\ UNCHANGED <<history, chat, turn, resp>>
    BY <2>3 DEF ResponseInv, Part
  <2> QED BY <2>1, <2>2, <2>3
<1> QED BY <1>1, <1>2 DEF ResponseInv

(* What a turn produced is in the history once the turn lets go of it,     *)
(* unless the save itself fails, the process dies, or an empty answer is   *)
(* asked for again: whatever clears or replaces TurnState.Response or its  *)
(* ToolResponse leaves them persisted.                                     *)
THEOREM ProducedIsKept == Spec => NothingLost
<1>1. Init => ResponseInv
  BY Responses DEF Init, ResponseInv
<1>2. TypeOK /\ IInv /\ ResponseInv /\ [Next]_vars =>
        [outcome' # "crashed" /\ faults' = faults =>
           /\ HasParts(resp) /\ resp' # resp /\ ~AskedAgain
                => Records(history', Part(resp.kind, resp.key))
           /\ results # 0 /\ results' # results
                => Records(history', Part("results", results))]_vars
  <2> SUFFICES ASSUME TypeOK, IInv, ResponseInv, [Next]_vars,
                      outcome' # "crashed", faults' = faults
      PROVE  /\ HasParts(resp) /\ resp' # resp /\ ~AskedAgain
                  => Records(history', Part(resp.kind, resp.key))
             /\ results # 0 /\ results' # results
                  => Records(history', Part("results", results))
    OBVIOUS
  <2>1. ASSUME HasParts(resp), resp' # resp, ~AskedAgain
        PROVE  Records(history', Part(resp.kind, resp.key))
    <3>1. resp # NoResponse /\ resp \in Answers \cup Empties
      BY <2>1, Responses DEF HasParts, TypeOK
    <3>2. resp.kind \in {"text", "blank", "calls"} /\ resp.key \in Keys \cup {0}
      BY <2>1, <3>1, Responses DEF HasParts
    <3>3. \/ phase = "Inference" /\ resp \in Answers
          \/ GiveFeedback
          \/ PersistResponse \/ SaveResponse
          \/ phase \in {"idle", "Complete", "SavingResults"}
          \/ SaveNothing \/ SaveFail
      BY <2>1, <3>1
         DEF Next, Engine, vars, turnState, detector, Ask, Cancel, Crash, Done, GuardPass,
             GuardFail, Refine, RefineFail, Infer, InferEmpty, InferFail, BreakLoop, BreakFail,
             Execute, ExecuteInterrupted, ExecuteMaxTurns, PersistResults, PersistFail, Retry,
             RetryInterrupted, ReduceContext, AcceptEmpty, GiveUp, SaveResults, NextTurn, Return,
             Goto, Fail, Leave, AskedAgain
    <3>4. ~(phase = "Inference" /\ resp \in Answers) /\ ~SaveNothing /\ ~SaveFail
          /\ phase \notin {"idle", "Complete", "SavingResults"}
      BY <2>1, <3>1
         DEF ResponseInv, SaveNothing, NeedsSave, SaveFail, StoreFails, TypeOK, IInv, PhaseInv
    <3>5. chat > 0 /\ turn <= MaxTurns
      BY <3>1, <3>3, <3>4
         DEF IInv, PhaseInv, TurnInv, GiveFeedback, PersistResponse, SaveResponse
    <3>6. CASE GiveFeedback
      <4>1. /\ phase = "Feedback"
            /\ history' = Added(history, Message(IF hasCalls THEN "feedback" ELSE "warning",
                                                 resp.key))
        BY <3>6 DEF GiveFeedback, Add
      <4>2. Records(history, Part(resp.kind, resp.key))
        BY <4>1 DEF ResponseInv
      <4> QED BY <3>2, <3>5, <4>1, <4>2, AddRecords
    <3>7. CASE PersistResponse \/ SaveResponse
      <4>1. history' = Added(history, Message(resp.kind, resp.key))
        BY <3>1, <3>7 DEF PersistResponse, SaveResponse, Add
      <4> QED BY <3>2, <3>5, <4>1, AddRecords
    <3> QED BY <3>3, <3>4, <3>6, <3>7
  <2>2. ASSUME results # 0, results' # results
        PROVE  Records(history', Part("results", results))
    <3>1. \/ phase \in {"Persisting", "PersistingResults", "Saving", "SavingResults"}
          \/ phase = "Recovering"
      BY <2>2 DEF IInv, PendingInv
    <3>2. PersistResults \/ SaveResults \/ SaveNothing \/ SaveFail
      BY <2>2, <3>1
         DEF Next, Engine, vars, turnState, detector, Ask, Cancel, Crash, Done, GuardPass,
             GuardFail, Refine, RefineFail, Infer, InferEmpty, InferFail, BreakLoop, GiveFeedback,
             BreakFail, Execute, ExecuteInterrupted, ExecuteMaxTurns, PersistResponse, PersistFail,
             Retry, RetryInterrupted, ReduceContext, AcceptEmpty, GiveUp, SaveResponse, NextTurn,
             Return, Goto, Fail, Leave
    <3>3. ~SaveNothing /\ ~SaveFail
      BY <2>2 DEF SaveNothing, NeedsSave, SaveFail, StoreFails, TypeOK
    <3>4. history' = Added(history, Message("results", results))
      BY <2>2, <3>2, <3>3 DEF PersistResults, SaveResults, Add
    <3>5. chat > 0 /\ turn <= MaxTurns
      BY <2>2, <3>1 DEF IInv, PhaseInv, TurnInv
    <3> QED BY <3>4, <3>5, AddRecords DEF TypeOK
  <2> QED BY <2>1, <2>2
<1> QED BY <1>1, <1>2, ResponseStep, InvCorrect, PTL DEF Spec, NothingLost

(* The emergency save writes no response that was persisted already, the   *)
(* one of a loop break apart.                                              *)
THEOREM SaveIsNotRepeated == Spec => SavedOnce
<1>1. TypeOK /\ IInv /\ [Next]_vars =>
        [/\ phase = "Saving" /\ phase' = "SavingResults" /\ resp # NoResponse
         /\ lastErr # "raw"
         => ~Records(history, Part(resp.kind, resp.key))]_vars
  <2> SUFFICES ASSUME TypeOK, IInv, phase = "Saving", resp # NoResponse, lastErr # "raw"
      PROVE  ~Records(history, Part(resp.kind, resp.key))
    OBVIOUS
  <2> DEFINE r == Part(resp.kind, resp.key)
  <2>1. Unwritten
    BY DEF Unwritten
  <2>2. r.kind # "prompt" /\ r.chat = chat /\ r.turn = turn
    BY Responses DEF Part, TypeOK
  <2> HIDE DEF r
  <2>3. \A i \in 1..Len(history) : r \notin PartsOf(history[i])
    BY <2>1, <2>2 DEF IInv, WrittenInv
  <2>4. ~Records(history, r)
    BY <2>3 DEF Records, PartsOf
  <2> QED BY <2>4 DEF r
<1> QED BY <1>1, InvCorrect, PTL DEF Spec, SavedOnce

=============================================================================
