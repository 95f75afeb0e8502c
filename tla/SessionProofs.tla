--------------------------- MODULE SessionProofs ---------------------------
(***************************************************************************)
(* Proofs about the two parts of a session that its goroutines share.      *)
(*                                                                         *)
(* SessionContext, for any histories, limits and number of concurrent      *)
(* tools: type correctness, that nothing unseen is taken away, that pins   *)
(* reach the model and stay, that what is removed is archived first, and   *)
(* that no older copy comes back, from one inductive invariant.            *)
(*                                                                         *)
(* UIBridge, for channels of any capacity and any number of events: type   *)
(* correctness, and that nothing accepted is lost and the engine's         *)
(* critical events are delivered, from another.                            *)
(***************************************************************************)
EXTENDS UIBridge, SessionContext, WellFoundedInduction, NaturalsInduction,
        FiniteSetTheorems, SequenceTheorems, TLAPS

-----------------------------------------------------------------------------
(* Induction.                                                              *)

(* A set that holds 0 and the successor of each number it holds, holds     *)
(* every number.                                                           *)
LEMMA SetInduction ==
  ASSUME NEW S, 0 \in S, \A k \in Nat : k \in S => k + 1 \in S
  PROVE  Nat \subseteq S
<1> DEFINE T == Nat \ S
           R == OpToRel(<, Nat)
<1> SUFFICES ASSUME T # {} PROVE FALSE
  OBVIOUS
<1>1. IsWellFoundedOn(R, Nat)
  BY NatLessThanWellFounded
<1>2. T \subseteq Nat
  OBVIOUS
<1>3. \E x \in T : \A y \in T : ~ (<<y, x>> \in R)
  <2> HIDE DEF T, R
  <2> QED BY <1>1, <1>2, WFMin
<1>4. PICK x \in T : \A y \in T : ~ (<<y, x>> \in R)
  BY <1>3
<1>5. x - 1 \in T
  OBVIOUS
<1>6. <<x - 1, x>> \in R
  BY <1>5 DEF OpToRel
<1> QED BY <1>4, <1>5, <1>6

-----------------------------------------------------------------------------
(* The context manager: types and the invariant.                           *)

Messages == [id : Nat, role : {"user", "model"}, calls : BOOLEAN, results : BOOLEAN,
             has : SUBSET Nat, sums : SUBSET Nat, acks : Nat, pinned : BOOLEAN]
Jobs == [turns : Nat, total : Nat, window : Nat, from : Nat, subset : Seq(Messages),
         held : SUBSET Nat, next : Seq(Messages)]

ContextTypeOK ==
  /\ history \in Seq(Messages) /\ request \in Seq(Messages)
  /\ version \in Nat /\ snapshot \in Nat /\ lastId \in Nat
  /\ added \in SUBSET (1..lastId) /\ archive \in SUBSET Nat /\ pins \in SUBSET Nat
  /\ engine \in {"prompt", "prepare", "loaded", "summarizing", "persist", "infer",
                 "results"}
  /\ span \in Nat \X Nat /\ dirty \in BOOLEAN
  /\ tool \in [Tools -> {"idle", "scan", "summarize", "finalize", "archive", "store"}]
  /\ job \in [Tools -> Jobs] /\ holder \in Tools \cup {"none"}
  /\ pinning \in Nat

(* A block of messages of h, of which none is pinned.                      *)
Block(h, block) == /\ block[1] \in Nat \ {0} /\ block[2] \in Nat
                   /\ block[1] <= block[2] + 1 /\ block[2] <= Len(h)
FreeBlock(h, block) == /\ Block(h, block)
                       /\ \A i \in block[1]..block[2] : ~h[i].pinned

(* What Prepare works with: the pins it found, and, if nobody has come in  *)
(* between, all that was added and nothing that was removed.               *)
Preparing == engine \in {"loaded", "summarizing", "persist"}
PrepareInv ==
  /\ Preparing => /\ snapshot <= version /\ pins \subseteq Pinned(request)
                  /\ holder # "none" => snapshot < version
                  /\ snapshot = version => /\ added \subseteq Contents(request)
                                           /\ Verbatim(request) \subseteq Verbatim(history)
  /\ engine = "summarizing" => FreeBlock(request, span)

(* What a call of SummarizeRange works with: messages without a pin; and,  *)
(* while it holds the lock, a history that lacks only what goes to the     *)
(* archive.                                                                *)
Holding(t) == tool[t] \in {"archive", "store"}
JobInv(t) ==
  /\ Holding(t) <=> holder = t
  /\ tool[t] = "scan" => job[t].turns \in Requested
  /\ tool[t] \in {"summarize", "finalize"} =>
       job[t].from \in Nat \ {0} /\ \A i \in 1..Len(job[t].subset) : ~job[t].subset[i].pinned
  /\ Holding(t) =>
       /\ added \subseteq Contents(job[t].next)
       /\ job[t].held \subseteq Verbatim(job[t].next)
       /\ Verbatim(job[t].next) \subseteq Verbatim(history)
       /\ Verbatim(history) \subseteq Verbatim(job[t].next) \cup Verbatim(job[t].subset)
  /\ tool[t] = "store" => Verbatim(job[t].subset) \subseteq archive

ContextInv ==
  /\ ContextTypeOK /\ NothingUnseen /\ PinsReachModel
  /\ PrepareInv /\ \A t \in Tools : JobInv(t)

-----------------------------------------------------------------------------
(* What a history holds.                                                   *)

(* What it is to be in one of the three sets of contents.                  *)
LEMMA InContents ==
  ASSUME NEW h \in Seq(Messages), NEW c
  PROVE  c \in Contents(h) <=> \E i \in 1..Len(h) : c \in h[i].has \/ c \in h[i].sums
BY DEF Contents, Covers

LEMMA InVerbatim ==
  ASSUME NEW h \in Seq(Messages), NEW c
  PROVE  c \in Verbatim(h) <=> \E i \in 1..Len(h) : c \in h[i].has
BY DEF Verbatim

LEMMA InPinned ==
  ASSUME NEW h \in Seq(Messages), NEW c
  PROVE  c \in Pinned(h) <=> \E i \in 1..Len(h) : h[i].pinned /\ c \in h[i].has
BY DEF Pinned

(* All of it are contents, and what is there verbatim is covered.          *)
LEMMA HeldTypes ==
  ASSUME NEW h \in Seq(Messages)
  PROVE  /\ Contents(h) \in SUBSET Nat /\ Verbatim(h) \in SUBSET Nat
         /\ Pinned(h) \in SUBSET Nat
         /\ Verbatim(h) \subseteq Contents(h) /\ Pinned(h) \subseteq Verbatim(h)
<1>1. \A i \in 1..Len(h) : h[i] \in Messages
  OBVIOUS
<1>2. \A i \in 1..Len(h) : h[i].has \in SUBSET Nat /\ h[i].sums \in SUBSET Nat
  BY <1>1 DEF Messages
<1> QED BY <1>2, InContents, InVerbatim, InPinned

(* The messages of the manager.                                            *)
LEMMA MessageTypes ==
  ASSUME NEW id \in Nat, NEW kind \in Kinds, NEW role \in {"user", "model"},
         NEW sums \in SUBSET Nat, NEW results \in BOOLEAN
  PROVE  /\ Message(id, kind) \in Messages /\ Message(id, kind).has = {id}
         /\ Message(id, kind).sums = {} /\ ~Message(id, kind).pinned
         /\ Synthetic(id, role, sums, results) \in Messages
         /\ Synthetic(id, role, sums, results).has = {}
         /\ Synthetic(id, role, sums, results).sums = sums
         /\ ~Synthetic(id, role, sums, results).pinned
<1>1. (kind = "calls") \in BOOLEAN /\ (kind = "results") \in BOOLEAN
  OBVIOUS
<1>2. {id} \in SUBSET Nat /\ {} \in SUBSET Nat
  OBVIOUS
<1> QED BY <1>1, <1>2 DEF Message, Synthetic, Messages

(* Message y holds what message x holds, and is pinned if x is.            *)
Carries(x, y) == y.has = x.has /\ x.sums \subseteq y.sums /\ y.pinned = x.pinned

(* A part of a history, and two histories put together.                    *)
LEMMA PartIs ==
  ASSUME NEW h \in Seq(Messages), NEW a \in Nat \ {0}, NEW b \in Nat,
         a <= b + 1, b <= Len(h)
  PROVE  /\ SubSeq(h, a, b) \in Seq(Messages) /\ Len(SubSeq(h, a, b)) = b - a + 1
         /\ \A i \in 1..(b - a + 1) : SubSeq(h, a, b)[i] = h[a + i - 1]
         /\ \A i \in a..b : i - a + 1 \in 1..(b - a + 1) /\ SubSeq(h, a, b)[i - a + 1] = h[i]
<1>1. \A i \in a..b : h[i] \in Messages
  OBVIOUS
<1>2. /\ SubSeq(h, a, b) \in Seq(Messages) /\ Len(SubSeq(h, a, b)) = b - a + 1
      /\ \A i \in 1..(b - a + 1) : SubSeq(h, a, b)[i] = h[a + i - 1]
  BY <1>1, SubSeqProperties
<1>3. ASSUME NEW i \in a..b
      PROVE  i - a + 1 \in 1..(b - a + 1) /\ SubSeq(h, a, b)[i - a + 1] = h[i]
  <2>1. i - a + 1 \in 1..(b - a + 1) /\ a + (i - a + 1) - 1 = i
    OBVIOUS
  <2> QED BY <2>1, <1>2
<1> QED BY <1>2, <1>3

(* Two sequences, one behind the other.                                    *)
LEMMA BothAre ==
  ASSUME NEW s \in Seq(Messages), NEW u \in Seq(Messages)
  PROVE  /\ s \o u \in Seq(Messages) /\ Len(s \o u) = Len(s) + Len(u)
         /\ \A i \in 1..Len(s) : i \in 1..Len(s \o u) /\ (s \o u)[i] = s[i]
         /\ \A i \in 1..Len(u) : Len(s) + i \in 1..Len(s \o u)
                                 /\ (s \o u)[Len(s) + i] = u[i]
         /\ \A i \in 1..Len(s \o u) : \/ i \in 1..Len(s) /\ (s \o u)[i] = s[i]
                                      \/ i - Len(s) \in 1..Len(u)
                                         /\ (s \o u)[i] = u[i - Len(s)]
OBVIOUS

(* The summary goes into the message before the block, or behind it.       *)
SummaryHead(before, sums, id) ==
  IF before # <<>> /\ Last(before).role = "user"
  THEN [before EXCEPT ![Len(before)].sums = @ \cup sums]
  ELSE Append(before, Synthetic(id, "user", sums, FALSE))
SummaryTail(after, id) ==
  IF after # <<>> /\ after[1].role = "model"
  THEN [after EXCEPT ![1].acks = @ + 1]
  ELSE <<Synthetic(id + 1, "model", {}, FALSE)>> \o after

(* Before the block nothing is lost, and the summary is there.             *)
LEMMA HeadIs ==
  ASSUME NEW s \in Seq(Messages), NEW sums \in SUBSET Nat, NEW id \in Nat
  PROVE  LET u == SummaryHead(s, sums, id) IN
         /\ u \in Seq(Messages) /\ \E j \in 1..Len(u) : sums \subseteq u[j].sums
         /\ \A i \in 1..Len(s) : i \in 1..Len(u) /\ Carries(s[i], u[i])
         /\ \A j \in 1..Len(u) : u[j].has = {} \/ \E i \in 1..Len(s) : u[j].has = s[i].has
<1> DEFINE u == SummaryHead(s, sums, id)
           n == Len(s)
<1>1. n \in Nat /\ \A i \in 1..n : s[i] \in Messages
  OBVIOUS
<1>2. CASE s # <<>> /\ Last(s).role = "user"
  <2>1. n \in 1..n
    BY <1>1, <1>2
  <2> DEFINE m == [s[n] EXCEPT !.sums = @ \cup sums]
  <2>2. u = [s EXCEPT ![n] = m]
    BY <1>2 DEF SummaryHead
  <2>3. m \in Messages /\ Carries(s[n], m) /\ sums \subseteq m.sums /\ m.has = s[n].has
    <3>1. s[n] \in Messages
      BY <1>1, <2>1
    <3> QED BY <3>1 DEF Messages, Carries
  <2> HIDE DEF m, u
  <2>4. u \in Seq(Messages) /\ Len(u) = n /\ u[n] = m /\ \A i \in 1..n : i # n => u[i] = s[i]
    BY <2>1, <2>2, <2>3
  <2>5. \A i \in 1..n : Carries(s[i], u[i]) /\ u[i].has = s[i].has
    BY <2>3, <2>4 DEF Carries
  <2>6. sums \subseteq u[n].sums
    BY <2>3, <2>4
  <2> QED BY <2>1, <2>4, <2>5, <2>6 DEF u
<1>3. CASE ~(s # <<>> /\ Last(s).role = "user")
  <2> DEFINE m == Synthetic(id, "user", sums, FALSE)
  <2>1. u = Append(s, m)
    BY <1>3 DEF SummaryHead
  <2>2. m \in Messages /\ m.has = {} /\ m.sums = sums
    BY MessageTypes DEF Kinds
  <2> HIDE DEF m, u
  <2>3. /\ u \in Seq(Messages) /\ Len(u) = n + 1 /\ u[n + 1] = m /\ n + 1 \in 1..Len(u)
        /\ \A i \in 1..n : i \in 1..Len(u) /\ u[i] = s[i]
        /\ \A i \in 1..Len(u) : i = n + 1 \/ i \in 1..n
    BY <1>1, <2>1, <2>2
  <2>4. \A i \in 1..n : i \in 1..Len(u) /\ Carries(s[i], u[i])
    BY <2>3 DEF Carries
  <2>5. \A j \in 1..Len(u) : u[j].has = {} \/ \E i \in 1..n : u[j].has = s[i].has
    BY <2>2, <2>3
  <2>6. \E j \in 1..Len(u) : sums \subseteq u[j].sums
    BY <2>2, <2>3
  <2> QED BY <2>3, <2>4, <2>5, <2>6 DEF u
<1> QED BY <1>2, <1>3

(* Behind the block nothing is lost.                                       *)
LEMMA TailIs ==
  ASSUME NEW s \in Seq(Messages), NEW id \in Nat
  PROVE  LET u == SummaryTail(s, id) IN
         /\ u \in Seq(Messages)
         /\ \A i \in 1..Len(s) : \E j \in 1..Len(u) : Carries(s[i], u[j])
         /\ \A j \in 1..Len(u) : u[j].has = {} \/ \E i \in 1..Len(s) : u[j].has = s[i].has
<1> DEFINE u == SummaryTail(s, id)
           n == Len(s)
<1>1. n \in Nat /\ \A i \in 1..n : s[i] \in Messages
  OBVIOUS
<1>2. CASE s # <<>> /\ s[1].role = "model"
  <2>1. 1 \in 1..n
    BY <1>1, <1>2
  <2> DEFINE m == [s[1] EXCEPT !.acks = @ + 1]
  <2>2. u = [s EXCEPT ![1] = m]
    BY <1>2 DEF SummaryTail
  <2>3. m \in Messages /\ Carries(s[1], m) /\ m.has = s[1].has
    <3>1. s[1] \in Messages
      BY <1>1, <2>1
    <3> QED BY <3>1 DEF Messages, Carries
  <2> HIDE DEF m, u
  <2>4. u \in Seq(Messages) /\ Len(u) = n /\ u[1] = m /\ \A i \in 1..n : i # 1 => u[i] = s[i]
    BY <2>1, <2>2, <2>3
  <2>5. \A i \in 1..n : Carries(s[i], u[i]) /\ u[i].has = s[i].has
    BY <2>3, <2>4 DEF Carries
  <2> QED BY <2>4, <2>5 DEF u
<1>3. CASE ~(s # <<>> /\ s[1].role = "model")
  <2> DEFINE m == Synthetic(id + 1, "model", {}, FALSE)
  <2>1. u = <<m>> \o s
    BY <1>3 DEF SummaryTail
  <2>2. m \in Messages /\ m.has = {}
    <3>1. id + 1 \in Nat
      OBVIOUS
    <3> QED BY <3>1, MessageTypes DEF Kinds
  <2> HIDE DEF m, u
  <2>3. <<m>> \in Seq(Messages) /\ Len(<<m>>) = 1 /\ <<m>>[1] = m
    BY <2>2
  <2>4. /\ u \in Seq(Messages) /\ Len(u) = 1 + n
        /\ \A i \in 1..n : 1 + i \in 1..Len(u) /\ u[1 + i] = s[i]
        /\ \A i \in 1..Len(u) : \/ i \in 1..1 /\ u[i] = <<m>>[i]
                                \/ i - 1 \in 1..n /\ u[i] = s[i - 1]
    BY <2>1, <2>3, BothAre
  <2>5. \A i \in 1..n : \E j \in 1..Len(u) : Carries(s[i], u[j])
    BY <2>4 DEF Carries
  <2>6. ASSUME NEW j \in 1..Len(u)
        PROVE  u[j].has = {} \/ \E i \in 1..n : u[j].has = s[i].has
    <3>1. CASE j \in 1..1 /\ u[j] = <<m>>[j]
      <4>1. j = 1
        BY <3>1
      <4> QED BY <3>1, <4>1, <2>2, <2>3
    <3>2. CASE j - 1 \in 1..n /\ u[j] = s[j - 1]
      BY <3>2
    <3> QED BY <3>1, <3>2, <2>4
  <2> QED BY <2>4, <2>5, <2>6 DEF u
<1> QED BY <1>2, <1>3

(* A block that is replaced by its summary takes only its own messages out *)
(* of the history, and the summary stands for them.                        *)
LEMMA SummaryIs ==
  ASSUME NEW h \in Seq(Messages), NEW block, Block(h, block),
         NEW sums \in SUBSET Nat, NEW id \in Nat
  PROVE  LET u    == WithSummary(h, block, sums, id)
             part == SubSeq(h, block[1], block[2])
         IN
         /\ u \in Seq(Messages) /\ part \in Seq(Messages)
         /\ Verbatim(u) \subseteq Verbatim(h)
         /\ Verbatim(h) \subseteq Verbatim(u) \cup Verbatim(part)
         /\ Contents(part) \subseteq sums => Contents(h) \subseteq Contents(u)
         /\ FreeBlock(h, block) => Pinned(h) \subseteq Pinned(u)
<1> DEFINE u      == WithSummary(h, block, sums, id)
           part   == SubSeq(h, block[1], block[2])
           before == SubSeq(h, 1, block[1] - 1)
           after  == SubSeq(h, block[2] + 1, Len(h))
           head   == SummaryHead(before, sums, id)
           tail   == SummaryTail(after, id)
           a      == block[1]
           b      == block[2]
           n      == Len(h)
<1>1. a \in Nat \ {0} /\ b \in Nat /\ n \in Nat /\ a <= b + 1 /\ b <= n
  BY DEF Block
<1>2. u = head \o tail
  BY DEF WithSummary, SummaryHead, SummaryTail
<1>3. /\ before \in Seq(Messages) /\ Len(before) = a - 1
      /\ \A i \in 1..(a - 1) : before[i] = h[i]
  <2>1. 1 \in Nat \ {0} /\ a - 1 \in Nat /\ 1 <= (a - 1) + 1 /\ a - 1 <= n
    BY <1>1
  <2>2. /\ before \in Seq(Messages) /\ Len(before) = (a - 1) - 1 + 1
        /\ \A i \in 1..((a - 1) - 1 + 1) : before[i] = h[1 + i - 1]
    BY <2>1, PartIs
  <2> QED BY <1>1, <2>2
<1>4. /\ after \in Seq(Messages) /\ Len(after) = n - b
      /\ \A i \in 1..(n - b) : after[i] = h[b + i]
  <2>1. b + 1 \in Nat \ {0} /\ n \in Nat /\ b + 1 <= n + 1 /\ n <= n
    BY <1>1
  <2>2. /\ after \in Seq(Messages) /\ Len(after) = n - (b + 1) + 1
        /\ \A i \in 1..(n - (b + 1) + 1) : after[i] = h[(b + 1) + i - 1]
    BY SMTT(20), <2>1, PartIs
  <2>3. n - (b + 1) + 1 = n - b /\ \A i \in 1..(n - b) : (b + 1) + i - 1 = b + i
    BY SMTT(20), <1>1
  <2> QED BY <2>2, <2>3
<1>5. /\ part \in Seq(Messages) /\ Len(part) = b - a + 1
      /\ \A i \in a..b : i - a + 1 \in 1..Len(part) /\ part[i - a + 1] = h[i]
  <2>1. /\ part \in Seq(Messages) /\ Len(part) = b - a + 1
        /\ \A i \in a..b : i - a + 1 \in 1..(b - a + 1) /\ part[i - a + 1] = h[i]
    <3> HIDE DEF a, b
    <3>1. part = SubSeq(h, a, b)
      BY DEF part, a, b
    <3> HIDE DEF part
    <3> QED BY <3>1, <1>1, PartIs DEF n
  <2> HIDE DEF part, a, b
  <2> QED BY <2>1
<1> HIDE DEF before, after, part, u, a, b, n
<1>6. /\ head \in Seq(Messages) /\ \E j \in 1..Len(head) : sums \subseteq head[j].sums
      /\ \A i \in 1..Len(before) : i \in 1..Len(head) /\ Carries(before[i], head[i])
      /\ \A j \in 1..Len(head) :
           head[j].has = {} \/ \E i \in 1..Len(before) : head[j].has = before[i].has
  BY <1>3, HeadIs
<1>7. /\ tail \in Seq(Messages)
      /\ \A i \in 1..Len(after) : \E j \in 1..Len(tail) : Carries(after[i], tail[j])
      /\ \A j \in 1..Len(tail) :
           tail[j].has = {} \/ \E i \in 1..Len(after) : tail[j].has = after[i].has
  BY <1>4, TailIs
<1> HIDE DEF head, tail
<1>8. /\ u \in Seq(Messages) /\ Len(u) = Len(head) + Len(tail)
      /\ \A i \in 1..Len(head) : i \in 1..Len(u) /\ u[i] = head[i]
      /\ \A i \in 1..Len(tail) : Len(head) + i \in 1..Len(u) /\ u[Len(head) + i] = tail[i]
      /\ \A i \in 1..Len(u) : \/ i \in 1..Len(head) /\ u[i] = head[i]
                              \/ i - Len(head) \in 1..Len(tail) /\ u[i] = tail[i - Len(head)]
  BY <1>2, <1>6, <1>7, BothAre
<1>9. \E j \in 1..Len(u) : sums \subseteq u[j].sums
  BY <1>6, <1>8
<1>10. ASSUME NEW i \in 1..n, i \notin a..b PROVE \E j \in 1..Len(u) : Carries(h[i], u[j])
  <2>1. CASE i \in 1..(a - 1)
    BY <2>1, <1>3, <1>6, <1>8
  <2>2. CASE i > b
    <3>1. i - b \in 1..(n - b) /\ b + (i - b) = i
      BY <2>2, <1>1
    <3>2. after[i - b] = h[i] /\ i - b \in 1..Len(after)
      BY <3>1, <1>4
    <3>3. PICK j \in 1..Len(tail) : Carries(h[i], tail[j])
      BY <3>2, <1>7
    <3> QED BY <3>3, <1>8
  <2> QED BY <2>1, <2>2, <1>1, <1>10
<1>11. \A j \in 1..Len(u) : u[j].has = {} \/ \E i \in 1..n : u[j].has = h[i].has
  <2>1. ASSUME NEW j \in 1..Len(head)
        PROVE  head[j].has = {} \/ \E i \in 1..n : head[j].has = h[i].has
    <3>1. \A i \in 1..(a - 1) : i \in 1..n
      BY <1>1
    <3> QED BY <3>1, <1>3, <1>6
  <2>2. ASSUME NEW j \in 1..Len(tail)
        PROVE  tail[j].has = {} \/ \E i \in 1..n : tail[j].has = h[i].has
    <3>1. CASE tail[j].has = {}
      BY <3>1
    <3>2. ASSUME NEW i \in 1..Len(after), tail[j].has = after[i].has
          PROVE  \E k \in 1..n : tail[j].has = h[k].has
      <4>1. i \in 1..(n - b) /\ b + i \in 1..n
        BY <1>1, <1>4
      <4>2. after[i] = h[b + i]
        BY <4>1, <1>4
      <4> QED BY <3>2, <4>1, <4>2
    <3> QED BY <3>1, <3>2, <1>7
  <2>3. ASSUME NEW j \in 1..Len(u) PROVE u[j].has = {} \/ \E i \in 1..n : u[j].has = h[i].has
    <3>1. CASE j \in 1..Len(head) /\ u[j] = head[j]
      BY <3>1, <2>1
    <3>2. CASE j - Len(head) \in 1..Len(tail) /\ u[j] = tail[j - Len(head)]
      BY <3>2, <2>2
    <3> QED BY <3>1, <3>2, <1>8
  <2> QED BY <2>3
<1>12. Verbatim(u) \subseteq Verbatim(h)
  <2> SUFFICES ASSUME NEW c \in Verbatim(u) PROVE c \in Verbatim(h)
    OBVIOUS
  <2>1. PICK j \in 1..Len(u) : c \in u[j].has
    BY <1>8, InVerbatim
  <2>2. PICK i \in 1..n : u[j].has = h[i].has
    BY <2>1, <1>11
  <2> QED BY <2>1, <2>2, InVerbatim DEF n
<1>13. Verbatim(h) \subseteq Verbatim(u) \cup Verbatim(part)
  <2> SUFFICES ASSUME NEW c \in Verbatim(h) PROVE c \in Verbatim(u) \/ c \in Verbatim(part)
    OBVIOUS
  <2>1. PICK i \in 1..n : c \in h[i].has
    BY InVerbatim DEF n
  <2>2. CASE i \in a..b
    BY <2>1, <2>2, <1>5, InVerbatim
  <2>3. CASE i \notin a..b
    BY <2>1, <2>3, <1>8, <1>10, InVerbatim DEF Carries
  <2> QED BY <2>2, <2>3
<1>14. ASSUME Contents(part) \subseteq sums, NEW c \in Contents(h) PROVE c \in Contents(u)
  <2>1. PICK i \in 1..n : c \in h[i].has \/ c \in h[i].sums
    BY InContents DEF n
  <2>2. CASE i \in a..b
    <3>1. c \in Contents(part)
      BY <2>1, <2>2, <1>5, InContents
    <3> QED BY <3>1, <1>8, <1>9, <1>14, InContents
  <2>3. CASE i \notin a..b
    <3>1. PICK j \in 1..Len(u) : Carries(h[i], u[j])
      BY <2>3, <1>10
    <3> QED BY <2>1, <3>1, <1>8, InContents DEF Carries
  <2> QED BY <2>2, <2>3
<1>15. ASSUME FreeBlock(h, block), NEW c \in Pinned(h) PROVE c \in Pinned(u)
  <2>1. PICK i \in 1..n : h[i].pinned /\ c \in h[i].has
    BY InPinned DEF n
  <2>2. i \notin a..b
    BY <2>1, <1>15 DEF FreeBlock, a, b
  <2>3. PICK j \in 1..Len(u) : Carries(h[i], u[j])
    BY <2>2, <1>10
  <2> QED BY <2>1, <2>3, <1>8, InPinned DEF Carries
<1> QED BY <1>5, <1>8, <1>12, <1>13, <1>14, <1>15 DEF u, part

-----------------------------------------------------------------------------
(* Turns.                                                                  *)

GroupBody(h, r) ==
  [i \in 0..Len(h) |-> IF i = 0 THEN <<>>
                       ELSE WithMessage(r[i - 1], BeginsTurn(h, i), i)]

(* The messages can be grouped one by one.                                 *)
LEMMA GroupExists ==
  ASSUME NEW h \in Seq(Messages)
  PROVE  \E r : r = GroupBody(h, r)
<1> DEFINE H(i, x) == WithMessage(x, BeginsTurn(h, i), i)
           G(n, r) == [i \in 0..n |-> IF i = 0 THEN <<>> ELSE H(i, r[i - 1])]
           S == {n \in Nat : \E r : r = G(n, r)}
<1>1. 0 \in S
  <2> DEFINE r == [i \in 0..0 |-> <<>>]
  <2>1. r = G(0, r)
    OBVIOUS
  <2> QED BY <2>1
<1>2. ASSUME NEW n \in Nat, n \in S PROVE n + 1 \in S
  <2>1. PICK r : r = G(n, r)
    BY <1>2
  <2> DEFINE s == [i \in 0..(n + 1) |-> IF i = n + 1 THEN H(n + 1, r[n]) ELSE r[i]]
  <2> HIDE DEF H
  <2>2. ASSUME NEW i \in 0..(n + 1) PROVE s[i] = G(n + 1, s)[i]
    <3>1. CASE i = n + 1
      <4>1. s[n] = r[n]
        OBVIOUS
      <4> QED BY <3>1, <4>1
    <3>2. CASE i = 0
      BY <3>2, <2>1
    <3>3. CASE i \in 1..n
      <4>1. s[i - 1] = r[i - 1] /\ s[i] = r[i]
        BY <3>3
      <4>2. r[i] = H(i, r[i - 1])
        BY <3>3, <2>1
      <4> HIDE DEF s
      <4> QED BY <3>3, <4>1, <4>2
    <3> QED BY <3>1, <3>2, <3>3
  <2>3. s = G(n + 1, s)
    BY <2>2
  <2> HIDE DEF s
  <2> QED BY <2>3
<1>3. Len(h) \in S
  <2> HIDE DEF S
  <2> QED BY <1>1, <1>2, SetInduction
<1> QED BY <1>3 DEF GroupBody

(* Turns of the first n messages: one after the other, and no message is   *)
(* left out.                                                               *)
Grouped(ts, n) ==
  /\ ts \in Seq(Nat \X Nat)
  /\ \A k \in 1..Len(ts) : 1 <= ts[k][1] /\ ts[k][1] <= ts[k][2] /\ ts[k][2] <= n
  /\ \A k, l \in 1..Len(ts) : k < l => ts[k][2] < ts[l][1]
  /\ \A i \in 1..n : \E k \in 1..Len(ts) : ts[k][1] <= i /\ i <= ts[k][2]

(* One message more begins a turn or belongs to the last one.              *)
LEMMA GroupedMore ==
  ASSUME NEW n \in Nat, NEW ts, Grouped(ts, n), NEW begins, n = 0 => begins = TRUE
  PROVE  Grouped(WithMessage(ts, begins, n + 1), n + 1)
<1> DEFINE m == Len(ts)
           u == WithMessage(ts, begins, n + 1)
<1>1. ts \in Seq(Nat \X Nat) /\ m \in Nat
  BY DEF Grouped
<1>2. \A k \in 1..m : ts[k] \in Nat \X Nat /\ ts[k][1] \in Nat /\ ts[k][2] \in Nat
  BY <1>1
<1>3. CASE begins
  <2> DEFINE t == <<n + 1, n + 1>>
  <2>1. u = Append(ts, t)
    BY <1>3 DEF WithMessage
  <2>2. t \in Nat \X Nat /\ t[1] = n + 1 /\ t[2] = n + 1
    OBVIOUS
  <2> HIDE DEF u, t
  <2>3. u \in Seq(Nat \X Nat) /\ Len(u) = m + 1 /\ u[m + 1] = t /\ \A k \in 1..m : u[k] = ts[k]
    BY <1>1, <2>1, <2>2
  <2>4. \A k \in 1..(m + 1) : k = m + 1 \/ k \in 1..m
    BY <1>1
  <2>5. ASSUME NEW k \in 1..(m + 1) PROVE 1 <= u[k][1] /\ u[k][1] <= u[k][2] /\ u[k][2] <= n + 1
    <3>1. CASE k = m + 1
      BY <3>1, <2>2, <2>3
    <3>2. CASE k \in 1..m
      <4>1. 1 <= ts[k][1] /\ ts[k][1] <= ts[k][2] /\ ts[k][2] <= n
        BY <3>2 DEF Grouped
      <4>2. u[k] = ts[k] /\ ts[k][1] \in Nat /\ ts[k][2] \in Nat
        BY <3>2, <1>2, <2>3
      <4> QED BY <4>1, <4>2
    <3> QED BY <3>1, <3>2, <2>4
  <2>6. ASSUME NEW k \in 1..(m + 1), NEW l \in 1..(m + 1), k < l PROVE u[k][2] < u[l][1]
    <3>1. k \in 1..m
      BY <2>6, <1>1
    <3>2. ts[k][2] <= n /\ ts[k][2] \in Nat /\ u[k] = ts[k]
      BY <3>1, <1>2, <2>3 DEF Grouped
    <3>3. CASE l = m + 1
      BY <3>2, <3>3, <2>2, <2>3
    <3>4. CASE l \in 1..m
      BY <2>6, <3>1, <3>4, <2>3 DEF Grouped
    <3> QED BY <3>3, <3>4, <2>4
  <2>7. ASSUME NEW i \in 1..(n + 1)
        PROVE  \E k \in 1..(m + 1) : u[k][1] <= i /\ i <= u[k][2]
    <3>1. CASE i = n + 1
      <4>1. m + 1 \in 1..(m + 1) /\ u[m + 1][1] <= i /\ i <= u[m + 1][2]
        BY <3>1, <1>1, <2>2, <2>3
      <4> QED BY <4>1
    <3>2. CASE i # n + 1
      <4>0. i \in 1..n
        BY <3>2
      <4>1. PICK k \in 1..m : ts[k][1] <= i /\ i <= ts[k][2]
        BY <4>0 DEF Grouped
      <4>2. k \in 1..(m + 1)
        BY <1>1
      <4>3. u[k] = ts[k]
        BY <2>3
      <4> QED BY <4>1, <4>2, <4>3
    <3> QED BY <3>1, <3>2
  <2> QED BY <2>3, <2>5, <2>6, <2>7 DEF Grouped, u
<1>4. CASE ~begins
  <2>1. n \in 1..n /\ m \in 1..m
    <3>1. n # 0
      BY <1>4
    <3>2. PICK k \in 1..m : ts[k][1] <= n
      BY <3>1 DEF Grouped
    <3> QED BY <1>1, <3>1, <3>2
  <2> DEFINE t == <<ts[m][1], n + 1>>
  <2>2. u = [ts EXCEPT ![m] = t]
    BY <1>4 DEF WithMessage
  <2>3. t \in Nat \X Nat /\ t[1] = ts[m][1] /\ t[2] = n + 1
    BY <1>2, <2>1
  <2> HIDE DEF u, t
  <2>4. u \in Seq(Nat \X Nat) /\ Len(u) = m /\ u[m] = t /\ \A k \in 1..m : k # m => u[k] = ts[k]
    BY <1>1, <2>1, <2>2, <2>3
  <2>5. \A k \in 1..m : u[k][1] = ts[k][1]
    BY <2>3, <2>4
  <2>6. ASSUME NEW k \in 1..m PROVE 1 <= u[k][1] /\ u[k][1] <= u[k][2] /\ u[k][2] <= n + 1
    <3>1. 1 <= ts[k][1] /\ ts[k][1] <= ts[k][2] /\ ts[k][2] <= n
      BY DEF Grouped
    <3>2. CASE k = m
      BY <3>1, <3>2, <1>2, <2>3, <2>4
    <3>3. CASE k # m
      BY SMTT(20), <3>1, <3>3, <1>2, <2>4
    <3> QED BY <3>2, <3>3
  <2>7. ASSUME NEW k \in 1..m, NEW l \in 1..m, k < l PROVE u[k][2] < u[l][1]
    <3>1. k # m /\ u[k] = ts[k]
      BY <2>4, <2>7, <1>1
    <3> QED BY <3>1, <2>5, <2>7 DEF Grouped
  <2>8. ASSUME NEW i \in 1..(n + 1) PROVE \E k \in 1..m : u[k][1] <= i /\ i <= u[k][2]
    <3>1. CASE i = n + 1
      <4>1. ts[m][1] <= ts[m][2] /\ ts[m][2] <= n
        BY <2>1 DEF Grouped
      <4>2. ts[m][1] \in Nat /\ ts[m][2] \in Nat
        BY <1>2, <2>1
      <4>3. u[m][1] = ts[m][1] /\ u[m][2] = n + 1
        BY <2>3, <2>4
      <4>4. u[m][1] <= i /\ i <= u[m][2]
        BY <3>1, <4>1, <4>2, <4>3
      <4> QED BY <4>4, <2>1
    <3>2. CASE i # n + 1
      <4>0. i \in 1..n
        BY <3>2
      <4>1. PICK k \in 1..m : ts[k][1] <= i /\ i <= ts[k][2]
        BY <4>0 DEF Grouped
      <4>2. CASE k = m
        <5>1. u[m][1] <= i /\ i <= u[m][2]
          BY <4>1, <4>2, <2>3, <2>4
        <5> QED BY <5>1, <2>1
      <4>3. CASE k # m
        BY <4>1, <4>3, <2>4
      <4> QED BY <4>2, <4>3
    <3> QED BY <3>1, <3>2
  <2> QED BY <2>4, <2>6, <2>7, <2>8 DEF Grouped, u
<1> QED BY <1>3, <1>4

(* groupTurns: the turns part the messages, in order.                      *)
LEMMA TurnsGrouped ==
  ASSUME NEW h \in Seq(Messages)
  PROVE  Grouped(Turns(h), Len(h))
<1>1. PICK r : r = GroupBody(h, r) /\ Turns(h) = r[Len(h)]
  BY GroupExists DEF Turns, GroupBody
<1>2. r[0] = <<>>
  <2>1. r[0] = GroupBody(h, r)[0]
    BY <1>1
  <2> QED BY <2>1 DEF GroupBody
<1>3. ASSUME NEW i \in 0..(Len(h) - 1)
      PROVE  r[i + 1] = WithMessage(r[i], BeginsTurn(h, i + 1), i + 1)
  <2>1. i + 1 \in 0..Len(h) /\ i + 1 # 0 /\ (i + 1) - 1 = i
    OBVIOUS
  <2>2. GroupBody(h, r)[i + 1] = WithMessage(r[(i + 1) - 1], BeginsTurn(h, i + 1), i + 1)
    BY <2>1 DEF GroupBody
  <2>3. r[i + 1] = GroupBody(h, r)[i + 1]
    BY <1>1
  <2> QED BY <2>1, <2>2, <2>3
<1> DEFINE S == {i \in Nat : i <= Len(h) => Grouped(r[i], i)}
<1>4. 0 \in S
  <2>1. Grouped(<<>>, 0)
    BY DEF Grouped
  <2> QED BY <2>1, <1>2
<1>5. ASSUME NEW i \in Nat, i \in S PROVE i + 1 \in S
  <2> SUFFICES ASSUME i + 1 <= Len(h) PROVE Grouped(r[i + 1], i + 1)
    OBVIOUS
  <2>1. Grouped(r[i], i) /\ r[i + 1] = WithMessage(r[i], BeginsTurn(h, i + 1), i + 1)
    BY <1>3, <1>5
  <2>2. i = 0 => BeginsTurn(h, i + 1) = TRUE
    BY DEF BeginsTurn
  <2> DEFINE b == BeginsTurn(h, i + 1)
  <2>3. i = 0 => b = TRUE
    BY <2>2
  <2>4. Grouped(r[i], i) /\ r[i + 1] = WithMessage(r[i], b, i + 1)
    BY <2>1
  <2> HIDE DEF b
  <2> QED BY <2>3, <2>4, GroupedMore
<1>6. Nat \subseteq S
  <2> HIDE DEF S
  <2> QED BY <1>4, <1>5, SetInduction
<1> QED BY <1>1, <1>6

(* What is known of a run: its turns are there, and none of them is pinned.*)
LEMMA RunIs ==
  ASSUME NEW h \in Seq(Messages), NEW r \in Runs(h)
  PROVE  /\ r[1] \in 1..Len(Turns(h)) /\ r[2] \in 1..Len(Turns(h)) /\ r[1] <= r[2]
         /\ \A k \in r[1]..r[2] : ~IsTurnPinned(h, Turns(h)[k])
         /\ Length(r) \in Nat /\ Length(r) <= Len(Turns(h))
<1> DEFINE ts == Turns(h)
<1>1. ts \in Seq(Nat \X Nat) /\ Len(ts) \in Nat
  BY TurnsGrouped DEF Grouped
<1> HIDE DEF ts
<1>2. /\ r \in (DOMAIN ts) \X (DOMAIN ts) /\ r[1] <= r[2]
      /\ \A k \in r[1]..r[2] : [l \in DOMAIN ts |-> ~IsTurnPinned(h, ts[l])][k]
  BY DEF Runs, ts
<1>3. r[1] \in 1..Len(ts) /\ r[2] \in 1..Len(ts)
  BY <1>1, <1>2
<1>4. \A k \in r[1]..r[2] : k \in DOMAIN ts
  BY <1>1, <1>3
<1>5. \A k \in r[1]..r[2] : ~IsTurnPinned(h, ts[k])
  BY <1>2, <1>4
<1>6. Length(r) \in Nat /\ Length(r) <= Len(ts)
  BY SMTT(20), <1>1, <1>2, <1>3 DEF Length
<1> QED BY <1>2, <1>3, <1>5, <1>6 DEF ts

(* Turns a to b of a run are a block without a pin.                        *)
LEMMA SpanIsFree ==
  ASSUME NEW h \in Seq(Messages), NEW r \in Runs(h), NEW a \in Int, NEW b \in Int,
         r[1] <= a, a <= b, b <= r[2]
  PROVE  Span(h, a, b) \in Nat \X Nat /\ FreeBlock(h, Span(h, a, b))
<1> DEFINE ts == Turns(h)
           n  == Len(h)
<1>1. Grouped(ts, n) /\ ts \in Seq(Nat \X Nat) /\ n \in Nat
  BY TurnsGrouped DEF Grouped
<1>2. a \in 1..Len(ts) /\ b \in 1..Len(ts) /\ r[1] \in Int /\ r[2] \in Int
  BY RunIs
<1>3. \A k \in a..b : k \in 1..Len(ts) /\ ~IsTurnPinned(h, ts[k])
  <2>1. \A k \in a..b : k \in r[1]..r[2] /\ k \in 1..Len(ts)
    BY <1>2
  <2> QED BY <2>1, RunIs
<1>4. Span(h, a, b) = <<ts[a][1], ts[b][2]>>
  BY DEF Span
<1> HIDE DEF ts
<1>5. \A k \in 1..Len(ts) : ts[k][1] \in Nat /\ ts[k][2] \in Nat
  BY <1>1
<1>6. ts[a][1] <= ts[b][2]
  <2>1. CASE a = b
    BY <2>1, <1>1, <1>2 DEF Grouped
  <2>2. CASE a < b
    <3>1. ts[a][1] <= ts[a][2] /\ ts[a][2] < ts[b][1] /\ ts[b][1] <= ts[b][2]
      BY <2>2, <1>1, <1>2 DEF Grouped
    <3> QED BY SMTT(20), <3>1, <1>2, <1>5
  <2> QED BY <2>1, <2>2
<1>7. 1 <= ts[a][1] /\ ts[b][2] <= n
  BY <1>1, <1>2 DEF Grouped
<1>8. ASSUME NEW i \in ts[a][1]..ts[b][2], h[i].pinned PROVE FALSE
  <2>1. i \in 1..n
    BY SMTT(20), <1>1, <1>2, <1>5, <1>7
  <2>2. PICK k \in 1..Len(ts) : ts[k][1] <= i /\ i <= ts[k][2]
    BY <1>1, <2>1 DEF Grouped
  <2>3. ~(k < a)
    <3> SUFFICES ASSUME k < a PROVE FALSE
      OBVIOUS
    <3>1. ts[k][2] < ts[a][1]
      BY <1>1, <1>2 DEF Grouped
    <3> QED BY <3>1, <2>2, <1>2, <1>5
  <2>4. ~(b < k)
    <3> SUFFICES ASSUME b < k PROVE FALSE
      OBVIOUS
    <3>1. ts[b][2] < ts[k][1]
      BY <1>1, <1>2 DEF Grouped
    <3> QED BY <3>1, <2>2, <1>2, <1>5
  <2>5. k \in a..b
    BY <2>3, <2>4, <1>2
  <2>6. i \in ts[k][1]..ts[k][2]
    BY <2>1, <2>2, <1>5
  <2> QED BY <2>5, <2>6, <1>3, <1>8 DEF IsTurnPinned
<1>9. FreeBlock(h, <<ts[a][1], ts[b][2]>>)
  <2>1. \A i \in ts[a][1]..ts[b][2] : ~h[i].pinned
    BY <1>8
  <2>2. /\ ts[a][1] \in Nat \ {0} /\ ts[b][2] \in Nat /\ ts[a][1] <= ts[b][2] + 1
        /\ ts[b][2] <= n
    BY <1>2, <1>5, <1>6, <1>7
  <2> QED BY <2>1, <2>2 DEF FreeBlock, Block
<1> QED BY <1>2, <1>4, <1>5, <1>9

(* The first of some runs is one of them.                                  *)
LEMMA FirstIsOne ==
  ASSUME NEW h \in Seq(Messages), NEW rs \in SUBSET Runs(h), rs # {}
  PROVE  First(rs) \in rs
<1>1. \E r \in rs : \A s \in rs : r[1] <= s[1]
  <2> SUFFICES ASSUME \A r \in rs : \E s \in rs : ~(r[1] <= s[1]) PROVE FALSE
    OBVIOUS
  <2> DEFINE S == {b \in Nat : \A s \in rs : s[1] > b}
  <2>1. ASSUME NEW s \in rs PROVE s[1] \in Nat /\ s[1] >= 1
    <3>1. s \in Runs(h)
      OBVIOUS
    <3>2. s[1] \in 1..Len(Turns(h))
      BY <3>1, RunIs
    <3>3. Len(Turns(h)) \in Nat
      BY TurnsGrouped DEF Grouped
    <3> QED BY <3>2, <3>3
  <2>2. 0 \in S
    BY <2>1
  <2>3. ASSUME NEW b \in Nat, b \in S PROVE b + 1 \in S
    <3>1. ASSUME NEW s \in rs, s[1] = b + 1 PROVE FALSE
      <4>1. PICK q \in rs : ~(s[1] <= q[1])
        OBVIOUS
      <4>2. q[1] > b
        BY <2>3
      <4> QED BY <4>1, <4>2, <3>1, <2>1
    <3>2. \A s \in rs : s[1] > b /\ s[1] # b + 1
      BY <2>3, <3>1
    <3> QED BY <3>2, <2>1
  <2>4. Nat \subseteq S
    <3> HIDE DEF S
    <3> QED BY <2>2, <2>3, SetInduction
  <2>5. PICK r \in rs : TRUE
    OBVIOUS
  <2>6. r[1] \in S
    BY <2>1, <2>4
  <2> QED BY <2>1, <2>6
<1> QED BY <1>1 DEF First

(* One of them is the longest.                                             *)
LEMMA SomeIsLongest ==
  ASSUME NEW h \in Seq(Messages), Runs(h) # {}
  PROVE  Longest(h) # {}
<1> SUFFICES ASSUME \A r \in Runs(h) : \E s \in Runs(h) : ~(Length(s) <= Length(r))
             PROVE  FALSE
  BY DEF Longest
<1> DEFINE S == {b \in Nat : \E r \in Runs(h) : Length(r) >= b}
<1>1. \A r \in Runs(h) : Length(r) \in Nat /\ Length(r) <= Len(Turns(h))
  BY RunIs
<1>2. 0 \in S
  BY <1>1
<1>3. ASSUME NEW b \in Nat, b \in S PROVE b + 1 \in S
  <2>1. PICK r \in Runs(h) : Length(r) >= b
    BY <1>3
  <2>2. PICK s \in Runs(h) : ~(Length(s) <= Length(r))
    OBVIOUS
  <2>3. Length(s) >= b + 1
    BY <2>1, <2>2, <1>1
  <2> QED BY <2>3
<1>4. Nat \subseteq S
  <2> HIDE DEF S
  <2> QED BY <1>2, <1>3, SetInduction
<1>5. Len(Turns(h)) \in Nat
  BY TurnsGrouped DEF Grouped
<1>6. Len(Turns(h)) + 1 \in S
  BY <1>4, <1>5
<1>7. PICK r \in Runs(h) : Length(r) >= Len(Turns(h)) + 1
  BY <1>6
<1> QED BY <1>1, <1>5, <1>7

(* The gatekeeper's block, and a tool's, hold no pin.                      *)
LEMMA AutoBlockFree ==
  ASSUME NEW h \in Seq(Messages), AutoBlock(h) # Nothing
  PROVE  AutoBlock(h) \in Nat \X Nat /\ FreeBlock(h, AutoBlock(h))
<1> DEFINE viable == {r \in Runs(h) : Length(r) >= MinViableBlock}
           r == First(viable)
           t == AutoTarget(h)
           b == Min({r[2], r[1] + t - 1})
<1>1. viable # {} /\ AutoBlock(h) = Span(h, r[1], b)
  BY DEF AutoBlock
<1>2. r \in viable /\ viable \subseteq Runs(h)
  <2>1. viable \in SUBSET Runs(h)
    OBVIOUS
  <2> QED BY <1>1, <2>1, FirstIsOne
<1>3. t \in Nat /\ t >= 2
  <2>1. Len(Turns(h)) \in Nat
    BY TurnsGrouped DEF Grouped
  <2>2. Len(Turns(h)) \div 2 \in Nat
    BY <2>1
  <2> QED BY <2>2 DEF AutoTarget, Larger, MinViableBlock
<1> HIDE DEF r, t, viable
<1>4. r[1] \in Nat /\ r[2] \in Nat /\ r[1] <= r[2]
  BY <1>2, RunIs
<1>5. b \in Int /\ r[1] <= b /\ b <= r[2]
  <2> DEFINE c == r[1] + t - 1
  <2>1. c \in Int /\ r[1] <= c
    BY <1>3, <1>4
  <2> HIDE DEF c
  <2>2. Min({r[2], c}) \in {r[2], c} /\ \A y \in {r[2], c} : Min({r[2], c}) <= y
    <3>1. \E x \in {r[2], c} : \A y \in {r[2], c} : x <= y
      BY <2>1, <1>4
    <3> QED BY <3>1 DEF Min
  <2> QED BY <2>1, <2>2, <1>4 DEF c
<1> HIDE DEF b
<1> QED BY <1>1, <1>2, <1>4, <1>5, SpanIsFree

(* scanCandidateBlocks: no message of a block it picks is pinned.          *)
LEMMA CandidateFree ==
  ASSUME NEW h \in Seq(Messages), NEW n \in Nat \ {0}, NEW atEnd,
         Candidate(h, n, atEnd) # Nothing
  PROVE  Candidate(h, n, atEnd) \in Nat \X Nat /\ FreeBlock(h, Candidate(h, n, atEnd))
<1>1. CASE Ready(h, n) # {}
  <2> DEFINE r == First(Ready(h, n))
  <2>1. Candidate(h, n, atEnd) = Span(h, r[1], r[1] + n - 1)
    BY <1>1 DEF Candidate
  <2>2. r \in Ready(h, n)
    <3>1. Ready(h, n) \in SUBSET Runs(h)
      BY DEF Ready
    <3> QED BY <1>1, <3>1, FirstIsOne
  <2>3. r \in Runs(h) /\ Length(r) >= n
    BY <2>2 DEF Ready
  <2> HIDE DEF r
  <2>4. r[1] \in Nat /\ r[2] \in Nat /\ r[1] <= r[2]
    BY <2>3, RunIs
  <2>5. r[1] + n - 1 \in Int /\ r[1] <= r[1] + n - 1 /\ r[1] + n - 1 <= r[2]
    BY <2>3, <2>4 DEF Length
  <2> QED BY <2>1, <2>3, <2>4, <2>5, SpanIsFree
<1>2. CASE Ready(h, n) = {}
  <2> DEFINE r == First(Longest(h))
  <2>1. /\ Runs(h) # {} /\ Length(r) >= MinViableBlock
        /\ Candidate(h, n, atEnd) = Span(h, r[1], r[2] - 1)
    BY <1>2 DEF Candidate
  <2>2. r \in Runs(h)
    <3>1. Longest(h) \in SUBSET Runs(h)
      BY DEF Longest
    <3>2. r \in Longest(h)
      BY <2>1, <3>1, FirstIsOne, SomeIsLongest
    <3> QED BY <3>1, <3>2
  <2> HIDE DEF r
  <2>3. r[1] \in Nat /\ r[2] \in Nat /\ r[1] <= r[2]
    BY <2>2, RunIs
  <2>4. r[2] - 1 \in Int /\ r[1] <= r[2] - 1 /\ r[2] - 1 <= r[2]
    BY <2>1, <2>3 DEF Length, MinViableBlock
  <2> QED BY <2>1, <2>2, <2>3, <2>4, SpanIsFree
<1> QED BY <1>1, <1>2

-----------------------------------------------------------------------------
(* What is pruned.                                                         *)

KeptBody(h, ts, gone, r) ==
  [k \in 0..Len(ts) |->
     IF k = 0 THEN <<>>
     ELSE WithTurn(r[k - 1], k \in gone, SubSeq(h, ts[k][1], ts[k][2]))]

(* The turns can be put together one by one.                               *)
LEMMA KeptExists ==
  ASSUME NEW h \in Seq(Messages), NEW ts \in Seq(Nat \X Nat), NEW gone
  PROVE  \E r : r = KeptBody(h, ts, gone, r)
<1> DEFINE H(k, x) == WithTurn(x, k \in gone, SubSeq(h, ts[k][1], ts[k][2]))
           G(n, r) == [k \in 0..n |-> IF k = 0 THEN <<>> ELSE H(k, r[k - 1])]
           S == {n \in Nat : \E r : r = G(n, r)}
<1>1. 0 \in S
  <2> DEFINE r == [k \in 0..0 |-> <<>>]
  <2>1. r = G(0, r)
    OBVIOUS
  <2> QED BY <2>1
<1>2. ASSUME NEW n \in Nat, n \in S PROVE n + 1 \in S
  <2>1. PICK r : r = G(n, r)
    BY <1>2
  <2> DEFINE s == [k \in 0..(n + 1) |-> IF k = n + 1 THEN H(n + 1, r[n]) ELSE r[k]]
  <2> HIDE DEF H
  <2>2. ASSUME NEW k \in 0..(n + 1) PROVE s[k] = G(n + 1, s)[k]
    <3>1. CASE k = n + 1
      <4>1. s[n] = r[n]
        OBVIOUS
      <4> QED BY <3>1, <4>1
    <3>2. CASE k = 0
      BY <3>2, <2>1
    <3>3. CASE k \in 1..n
      <4>1. s[k - 1] = r[k - 1] /\ s[k] = r[k]
        BY <3>3
      <4>2. r[k] = H(k, r[k - 1])
        BY <3>3, <2>1
      <4> HIDE DEF s
      <4> QED BY <3>3, <4>1, <4>2
    <3> QED BY <3>1, <3>2, <3>3
  <2>3. s = G(n + 1, s)
    BY <2>2
  <2> HIDE DEF s
  <2>4. \E q : q = G(n + 1, q)
    BY <2>3
  <2> HIDE DEF G
  <2> QED BY <2>4
<1>3. Len(ts) \in S
  <2>1. Len(ts) \in Nat
    OBVIOUS
  <2> HIDE DEF S
  <2> QED BY <2>1, <1>1, <1>2, SetInduction
<1> QED BY <1>3 DEF KeptBody

(* Pruning leaves every message that is pinned.                            *)
LEMMA PrunedKeeps ==
  ASSUME NEW h \in Seq(Messages)
  PROVE  Pruned(h) \in Seq(Messages) /\ Pinned(h) \subseteq Verbatim(Pruned(h))
<1> DEFINE ts   == Turns(h)
           gone == PrunedTurns(h)
           n    == Len(ts)
<1>1. Grouped(ts, Len(h)) /\ ts \in Seq(Nat \X Nat) /\ n \in Nat
  BY TurnsGrouped DEF Grouped
<1>2. PICK r : r = KeptBody(h, ts, gone, r) /\ Pruned(h) = r[n]
  <2> DEFINE K == CHOOSE r : r = KeptBody(h, ts, gone, r)
  <2>1. Pruned(h) = K[n]
    BY DEF Pruned, KeptBody
  <2>2. \E r : r = KeptBody(h, ts, gone, r)
    <3> HIDE DEF ts, gone
    <3> QED BY <1>1, KeptExists
  <2>3. K = KeptBody(h, ts, gone, K)
    <3> HIDE DEF ts, gone
    <3> QED BY <2>2
  <2> HIDE DEF K, ts, gone
  <2> QED BY <2>1, <2>3
<1> DEFINE part(k) == SubSeq(h, ts[k][1], ts[k][2])
<1>3. \A k \in gone : ~IsTurnPinned(h, ts[k])
  BY DEF PrunedTurns
<1> HIDE DEF ts, gone
<1>4. r[0] = <<>>
  <2>1. r[0] = KeptBody(h, ts, gone, r)[0]
    BY <1>2
  <2> QED BY <2>1, <1>1 DEF KeptBody
<1>5. ASSUME NEW k \in 0..(n - 1) PROVE r[k + 1] = WithTurn(r[k], k + 1 \in gone, part(k + 1))
  <2>1. k + 1 \in 0..n /\ k + 1 # 0 /\ (k + 1) - 1 = k
    BY <1>1
  <2>2. KeptBody(h, ts, gone, r)[k + 1] = WithTurn(r[(k + 1) - 1], k + 1 \in gone, part(k + 1))
    BY <2>1 DEF KeptBody
  <2>3. r[k + 1] = KeptBody(h, ts, gone, r)[k + 1]
    BY <1>2
  <2> QED BY <2>1, <2>2, <2>3
<1>6. ASSUME NEW k \in 1..n
      PROVE  /\ part(k) \in Seq(Messages)
             /\ \A i \in ts[k][1]..ts[k][2] : \E j \in 1..Len(part(k)) : part(k)[j] = h[i]
  <2>1. /\ ts[k][1] \in Nat /\ ts[k][2] \in Nat
        /\ 1 <= ts[k][1] /\ ts[k][1] <= ts[k][2] /\ ts[k][2] <= Len(h)
    BY <1>1 DEF Grouped
  <2> DEFINE a == ts[k][1]
             b == ts[k][2]
             p == SubSeq(h, a, b)
  <2>2. a \in Nat \ {0} /\ b \in Nat /\ a <= b + 1 /\ b <= Len(h)
    BY <2>1
  <2> HIDE DEF a, b
  <2>3. /\ p \in Seq(Messages) /\ Len(p) = b - a + 1
        /\ \A i \in a..b : i - a + 1 \in 1..(b - a + 1) /\ p[i - a + 1] = h[i]
    BY <2>2, PartIs
  <2> HIDE DEF p
  <2>4. \A i \in a..b : \E j \in 1..Len(p) : p[j] = h[i]
    BY <2>3
  <2> QED BY <2>3, <2>4 DEF a, b, p
<1> HIDE DEF part
<1> DEFINE Has(k) == \A i \in 1..Len(h) :
                       (\E l \in 1..k : l \notin gone /\ i \in ts[l][1]..ts[l][2])
                       => \E j \in 1..Len(r[k]) : r[k][j] = h[i]
           S == {k \in Nat : k <= n => r[k] \in Seq(Messages) /\ Has(k)}
<1>7. 0 \in S
  <2>1. <<>> \in Seq(Messages)
    OBVIOUS
  <2>2. Has(0)
    OBVIOUS
  <2> HIDE DEF Has
  <2> QED BY <2>1, <2>2, <1>4
<1>8. ASSUME NEW k \in Nat, k \in S PROVE k + 1 \in S
  <2> SUFFICES ASSUME k + 1 <= n PROVE r[k + 1] \in Seq(Messages) /\ Has(k + 1)
    OBVIOUS
  <2>1. r[k] \in Seq(Messages) /\ Has(k)
    BY <1>1, <1>8
  <2>2. r[k + 1] = WithTurn(r[k], k + 1 \in gone, part(k + 1))
    BY <1>1, <1>5
  <2>3. CASE k + 1 \in gone
    <3>1. r[k + 1] = r[k]
      BY <2>2, <2>3 DEF WithTurn
    <3>2. \A l \in 1..(k + 1) : l \notin gone => l \in 1..k
      BY <2>3
    <3> QED BY <2>1, <3>1, <3>2
  <2>4. CASE k + 1 \notin gone
    <3>1. r[k + 1] = r[k] \o part(k + 1)
      BY <2>2, <2>4 DEF WithTurn
    <3>2. /\ part(k + 1) \in Seq(Messages)
          /\ \A i \in ts[k + 1][1]..ts[k + 1][2] :
               \E j \in 1..Len(part(k + 1)) : part(k + 1)[j] = h[i]
      <4>1. k + 1 \in 1..n
        BY <1>1
      <4> QED BY <4>1, <1>6
    <3> DEFINE u == r[k] \o part(k + 1)
    <3>3. /\ u \in Seq(Messages)
          /\ \A i \in 1..Len(r[k]) : i \in 1..Len(u) /\ u[i] = r[k][i]
          /\ \A i \in 1..Len(part(k + 1)) : /\ Len(r[k]) + i \in 1..Len(u)
                                            /\ u[Len(r[k]) + i] = part(k + 1)[i]
      BY <2>1, <3>2, BothAre
    <3> HIDE DEF u
    <3>4. ASSUME NEW i \in 1..Len(h), NEW l \in 1..(k + 1), l \notin gone,
                 i \in ts[l][1]..ts[l][2]
          PROVE  \E j \in 1..Len(u) : u[j] = h[i]
      <4>1. CASE l = k + 1
        <5>1. PICK j \in 1..Len(part(k + 1)) : part(k + 1)[j] = h[i]
          BY <3>2, <3>4, <4>1
        <5> QED BY <5>1, <3>3
      <4>2. CASE l \in 1..k
        <5>1. PICK j \in 1..Len(r[k]) : r[k][j] = h[i]
          BY <2>1, <3>4, <4>2
        <5> QED BY <5>1, <3>3
      <4> QED BY <4>1, <4>2
    <3>5. r[k + 1] = u
      BY <3>1 DEF u
    <3> QED BY <3>3, <3>4, <3>5
  <2> QED BY <2>3, <2>4
<1>9. Nat \subseteq S
  <2> HIDE DEF S
  <2> QED BY <1>7, <1>8, SetInduction
<1>10. r[n] \in Seq(Messages) /\ Has(n)
  <2> HIDE DEF Has
  <2>1. n \in S
    <3> HIDE DEF S
    <3> QED BY <1>1, <1>9
  <2> QED BY <1>1, <2>1
<1>11. ASSUME NEW c \in Pinned(h) PROVE c \in Verbatim(r[n])
  <2>1. PICK i \in 1..Len(h) : h[i].pinned /\ c \in h[i].has
    BY InPinned
  <2>2. PICK l \in 1..n : ts[l][1] <= i /\ i <= ts[l][2]
    BY <1>1 DEF Grouped
  <2>3. i \in ts[l][1]..ts[l][2]
    BY <2>2, <1>1
  <2>4. l \notin gone
    BY <2>1, <2>3, <1>3 DEF IsTurnPinned
  <2>5. PICK j \in 1..Len(r[n]) : r[n][j] = h[i]
    BY <2>3, <2>4, <1>10
  <2> QED BY <2>1, <2>5, <1>10, InVerbatim
<1> QED BY <1>2, <1>10, <1>11

-----------------------------------------------------------------------------
(* The other changes of a history.                                         *)

(* A content that is added comes to those that are there.                  *)
LEMMA AppendedIs ==
  ASSUME NEW h \in Seq(Messages), NEW id \in Nat, NEW kind \in Kinds
  PROVE  LET u == Appended(h, Message(id, kind)) IN
         /\ u \in Seq(Messages)
         /\ Verbatim(u) = Verbatim(h) \cup {id}
         /\ Contents(h) \cup {id} \subseteq Contents(u)
<1> DEFINE m == Message(id, kind)
           u == Appended(h, m)
           n == Len(h)
<1>1. m \in Messages /\ m.has = {id} /\ m.sums = {}
  BY MessageTypes
<1> HIDE DEF m
<1>2. CASE h # <<>> /\ Last(h).role = m.role
  <2> DEFINE x == [h[n] EXCEPT !.has     = @ \cup m.has,
                               !.calls   = @ \/ m.calls,
                               !.results = @ \/ m.results]
  <2>1. u = [h EXCEPT ![n] = x]
    BY <1>2 DEF Appended, Last
  <2>2. n \in 1..n /\ h[n] \in Messages
    BY <1>2
  <2>3. x \in Messages /\ x.has = h[n].has \cup {id} /\ x.sums = h[n].sums
    <3>1. /\ (h[n].calls \/ m.calls) \in BOOLEAN /\ (h[n].results \/ m.results) \in BOOLEAN
      OBVIOUS
    <3>2. h[n].has \cup m.has \in SUBSET Nat
      BY <1>1, <2>2 DEF Messages
    <3> QED BY <2>2, <3>1, <3>2, <1>1 DEF Messages
  <2> HIDE DEF x, u
  <2>4. /\ u \in Seq(Messages) /\ Len(u) = n /\ u[n] = x
        /\ \A i \in 1..n : i # n => u[i] = h[i]
    BY <2>1, <2>2, <2>3
  <2>5. Verbatim(u) = Verbatim(h) \cup {id}
    <3>1. \A c : c \in Verbatim(u) <=> c \in Verbatim(h) \/ c = id
      BY <2>2, <2>3, <2>4, InVerbatim
    <3> QED BY <3>1
  <2>6. \A c : c \in Contents(h) \/ c = id => c \in Contents(u)
    BY <2>2, <2>3, <2>4, InContents
  <2> QED BY <2>4, <2>5, <2>6 DEF u, m
<1>3. CASE ~(h # <<>> /\ Last(h).role = m.role)
  <2>1. u = Append(h, m)
    BY <1>3 DEF Appended
  <2> HIDE DEF u
  <2>2. /\ u \in Seq(Messages) /\ Len(u) = n + 1 /\ u[n + 1] = m /\ n + 1 \in 1..(n + 1)
        /\ \A i \in 1..n : i \in 1..(n + 1) /\ u[i] = h[i]
        /\ \A i \in 1..(n + 1) : i = n + 1 \/ i \in 1..n
    BY <2>1, <1>1
  <2>3. Verbatim(u) = Verbatim(h) \cup {id}
    <3>1. \A c : c \in Verbatim(u) <=> c \in Verbatim(h) \/ c = id
      BY <1>1, <2>2, InVerbatim
    <3> QED BY <3>1
  <2>4. \A c : c \in Contents(h) \/ c = id => c \in Contents(u)
    BY <1>1, <2>2, InContents
  <2> QED BY <2>2, <2>3, <2>4 DEF u, m
<1> QED BY <1>2, <1>3

(* The answer that calls were lost adds nothing.                           *)
LEMMA RepairedIs ==
  ASSUME NEW h \in Seq(Messages), lastId \in Nat
  PROVE  /\ Repaired(h) \in Seq(Messages)
         /\ Verbatim(Repaired(h)) = Verbatim(h) /\ Contents(h) \subseteq Contents(Repaired(h))
         /\ Pinned(h) \subseteq Pinned(Repaired(h))
<1> DEFINE m == Synthetic(lastId + 1, "user", {}, TRUE)
           u == Append(h, m)
           n == Len(h)
<1>1. m \in Messages /\ m.has = {}
  <2>1. lastId + 1 \in Nat
    OBVIOUS
  <2> QED BY <2>1, MessageTypes DEF Kinds
<1>2. Repaired(h) = h \/ Repaired(h) = u
  BY DEF Repaired
<1> HIDE DEF m
<1>3. /\ u \in Seq(Messages) /\ Len(u) = n + 1 /\ u[n + 1] = m
      /\ \A i \in 1..n : i \in 1..(n + 1) /\ u[i] = h[i]
      /\ \A i \in 1..(n + 1) : i = n + 1 \/ i \in 1..n
  BY <1>1
<1> HIDE DEF u
<1>4. Verbatim(u) = Verbatim(h)
  <2>1. \A c : c \in Verbatim(u) <=> c \in Verbatim(h)
    BY <1>1, <1>3, InVerbatim
  <2> QED BY <2>1
<1>5. Contents(h) \subseteq Contents(u) /\ Pinned(h) \subseteq Pinned(u)
  BY <1>3, InContents, InPinned
<1> QED BY <1>2, <1>3, <1>4, <1>5

(* A pin, and its removal, change nothing else.                            *)
LEMMA PinIs ==
  ASSUME NEW h \in Seq(Messages), NEW i \in 1..Len(h), NEW flag \in BOOLEAN
  PROVE  LET u == [h EXCEPT ![i].pinned = flag] IN
         /\ u \in Seq(Messages) /\ Len(u) = Len(h)
         /\ Verbatim(u) = Verbatim(h) /\ Contents(u) = Contents(h)
<1> DEFINE m == [h[i] EXCEPT !.pinned = flag]
           u == [h EXCEPT ![i] = m]
<1>1. m \in Messages /\ m.has = h[i].has /\ m.sums = h[i].sums
  <2>1. h[i] \in Messages
    OBVIOUS
  <2> QED BY <2>1 DEF Messages
<1>2. u = [h EXCEPT ![i].pinned = flag]
  OBVIOUS
<1> HIDE DEF m
<1>3. u \in Seq(Messages) /\ Len(u) = Len(h) /\ u[i] = m
      /\ \A l \in 1..Len(h) : l # i => u[l] = h[l]
  BY <1>1
<1> HIDE DEF u
<1>4. \A l \in 1..Len(h) : u[l].has = h[l].has /\ u[l].sums = h[l].sums
  BY <1>1, <1>3
<1>5. \A c : /\ c \in Verbatim(u) <=> c \in Verbatim(h)
             /\ c \in Contents(u) <=> c \in Contents(h)
  <2> TAKE c
  <2>1. c \in Verbatim(u) <=> c \in Verbatim(h)
    BY <1>3, <1>4, InVerbatim
  <2>2. c \in Contents(u) <=> c \in Contents(h)
    BY <1>3, <1>4, InContents
  <2> QED BY <2>1, <2>2
<1> QED BY <1>2, <1>3, <1>5

-----------------------------------------------------------------------------
(* The context manager: each operation keeps the invariant.                *)

Phases == {"idle", "scan", "summarize", "finalize", "archive", "store"}
Engines == {"prompt", "prepare", "loaded", "summarizing", "persist", "infer", "results"}

(* What the invariant says of the types, for citing.                       *)
LEMMA ContextTypes ==
  ASSUME ContextInv
  PROVE  /\ history \in Seq(Messages) /\ request \in Seq(Messages)
         /\ version \in Nat /\ snapshot \in Nat /\ lastId \in Nat
         /\ added \in SUBSET (1..lastId) /\ archive \in SUBSET Nat /\ pins \in SUBSET Nat
         /\ engine \in Engines
         /\ span \in Nat \X Nat /\ dirty \in BOOLEAN
         /\ tool \in [Tools -> Phases]
         /\ job \in [Tools -> Jobs] /\ holder \in Tools \cup {"none"}
         /\ pinning \in Nat
         /\ "none" \notin Tools
BY ContextAssumption DEF ContextInv, ContextTypeOK, Engines, Phases

(* The empty block and the empty request.                                  *)
LEMMA NothingIs == Nothing \in Nat \X Nat /\ <<>> \in Seq(Messages)
BY DEF Nothing

(* What the calls work with stays right while they and the histories rest. *)
LEMMA JobsKept ==
  ASSUME ContextInv, UNCHANGED <<tool, job, holder, history, archive, added>>
  PROVE  \A t \in Tools : JobInv(t)'
BY DEF ContextInv, JobInv, Holding

(* The same when nobody holds the lock.                                    *)
LEMMA JobsFree ==
  ASSUME ContextInv, UNCHANGED <<tool, job, holder>>, holder = "none"
  PROVE  \A t \in Tools : JobInv(t)'
<1> SUFFICES ASSUME NEW t \in Tools PROVE JobInv(t)'
  OBVIOUS
<1>1. JobInv(t) /\ holder # t
  BY ContextTypes DEF ContextInv
<1>2. ~Holding(t) /\ ~Holding(t)'
  BY <1>1 DEF JobInv, Holding
<1> QED BY <1>1, <1>2 DEF JobInv, Holding

(* Histories that may replace each other without harm to those who wait.   *)
LEMMA JobsSame ==
  ASSUME ContextInv, UNCHANGED <<tool, job, holder, archive, added>>,
         Verbatim(history') = Verbatim(history)
  PROVE  \A t \in Tools : JobInv(t)'
BY DEF ContextInv, JobInv, Holding

(* One lemma for each action: the engine appends a content, or fails to.   *)
LEMMA AddContentStep ==
  ASSUME ContextInv, NEW kind \in Kinds, NEW next \in {"prepare", "prompt", "results"},
         AddContent(kind, next)
  PROVE  ContextInv'
<1> USE DEF store, preparing, tools
<1>1. /\ holder = "none" /\ version' = version + 1
      /\ UNCHANGED <<archive, request, snapshot, span, dirty, pins, tool, job, holder, pinning>>
      /\ engine' \in {next, "prompt"}
      /\ \/ /\ history' = Appended(history, Message(lastId + 1, kind))
            /\ lastId' = lastId + 1 /\ added' = added \cup {lastId + 1}
         \/ UNCHANGED <<history, lastId, added>>
  BY DEF AddContent, Fault, Use
<1>2. lastId + 1 \in Nat /\ lastId' \in Nat /\ version' \in Nat
  BY <1>1, ContextTypes
<1>3. /\ history' \in Seq(Messages) /\ added' \in SUBSET (1..lastId')
      /\ added' \subseteq Contents(history')
  <2>1. CASE /\ history' = Appended(history, Message(lastId + 1, kind))
             /\ lastId' = lastId + 1 /\ added' = added \cup {lastId + 1}
    <3>1. /\ history' \in Seq(Messages)
          /\ Contents(history) \cup {lastId + 1} \subseteq Contents(history')
      BY <2>1, <1>2, ContextTypes, AppendedIs
    <3>2. added' \in SUBSET (1..lastId')
      BY <2>1, ContextTypes
    <3> QED BY <2>1, <3>1, <3>2 DEF ContextInv, NothingUnseen
  <2>2. CASE UNCHANGED <<history, lastId, added>>
    BY <2>2, ContextTypes DEF ContextInv, NothingUnseen
  <2> QED BY <1>1, <2>1, <2>2
<1>4. ContextTypeOK'
  BY <1>1, <1>2, <1>3 DEF ContextInv, ContextTypeOK
<1>5. \A t \in Tools : JobInv(t)'
  BY <1>1, JobsFree
<1>6. PinsReachModel' /\ PrepareInv'
  BY <1>1 DEF PinsReachModel, PrepareInv, Preparing
<1> QED BY <1>3, <1>4, <1>5, <1>6 DEF ContextInv, NothingUnseen

(* The chat ends.                                                          *)
LEMMA EndChatStep == ASSUME ContextInv, EndChat PROVE ContextInv'
<1> USE DEF store, preparing, tools
<1>1. /\ engine' = "prompt" /\ request' = <<>>
      /\ UNCHANGED <<history, archive, version, lastId, added, snapshot, span, dirty, pins,
                     tool, job, holder, pinning>>
  BY DEF EndChat
<1>2. ContextTypeOK'
  BY <1>1 DEF ContextInv, ContextTypeOK
<1>3. \A t \in Tools : JobInv(t)'
  BY <1>1, JobsKept
<1> QED BY <1>1, <1>2, <1>3 DEF ContextInv, NothingUnseen, PinsReachModel, PrepareInv, Preparing

(* Prepare reads the history and its version.                              *)
LEMMA LoadHistoryStep == ASSUME ContextInv, LoadHistory PROVE ContextInv'
<1> USE DEF store, preparing, tools
<1>1. /\ engine' = "loaded" /\ holder = "none" /\ snapshot' = version /\ request' = history
      /\ pins' = Pinned(history) /\ span' = Nothing /\ dirty' = FALSE
      /\ UNCHANGED <<history, archive, version, lastId, added, tool, job, holder, pinning>>
  BY DEF LoadHistory
<1>2. pins' \in SUBSET Nat /\ span' \in Nat \X Nat
  BY <1>1, ContextTypes, HeldTypes DEF Nothing
<1>3. ContextTypeOK'
  BY <1>1, <1>2 DEF ContextInv, ContextTypeOK
<1>4. \A t \in Tools : JobInv(t)'
  BY <1>1, JobsKept
<1>5. PrepareInv'
  BY <1>1, ContextTypes DEF PrepareInv, Preparing, ContextInv, NothingUnseen
<1> QED BY <1>1, <1>3, <1>4, <1>5 DEF ContextInv, NothingUnseen, PinsReachModel

(* The transformers only add to what Prepare read.                         *)
LEMMA TransformStep == ASSUME ContextInv, Transform PROVE ContextInv'
<1> USE DEF store, preparing, tools
<1> DEFINE h == Repaired(request)
           block == IF Len(h) < MinHistory THEN Nothing ELSE AutoBlock(h)
<1>1. /\ engine = "loaded"
      /\ UNCHANGED <<history, archive, version, added, snapshot, pins, tool, job, holder, pinning>>
      /\ lastId' = IF h = request THEN lastId ELSE lastId + 1
      /\ \/ engine' = "persist" /\ request' = h /\ span' = Nothing /\ dirty' \in BOOLEAN
         \/ /\ block # Nothing /\ engine' = "summarizing" /\ request' = h /\ span' = block
            /\ dirty' = TRUE
         \/ /\ engine' \in {"prepare", "prompt"} /\ request' = <<>>
            /\ span' = Nothing /\ dirty' = FALSE
  BY DEF Transform, PrepareFails
<1>2. /\ h \in Seq(Messages) /\ Verbatim(h) = Verbatim(request)
      /\ Contents(request) \subseteq Contents(h) /\ Pinned(request) \subseteq Pinned(h)
  BY ContextTypes, RepairedIs
<1>3. block # Nothing => block \in Nat \X Nat /\ FreeBlock(h, block)
  BY <1>2, AutoBlockFree
<1> HIDE DEF h, block
<1>4. lastId' \in Nat /\ added' \in SUBSET (1..lastId')
  BY <1>1, ContextTypes
<1>5. request' \in Seq(Messages) /\ span' \in Nat \X Nat /\ dirty' \in BOOLEAN
      /\ engine' \in Engines /\ engine' # "infer"
  <2>1. request' \in Seq(Messages)
    BY <1>1, <1>2, NothingIs
  <2>2. span' \in Nat \X Nat
    BY <1>1, <1>3, NothingIs
  <2>3. dirty' \in BOOLEAN
    BY <1>1
  <2>4. engine' \in Engines /\ engine' # "infer"
    BY <1>1 DEF Engines
  <2> QED BY <2>1, <2>2, <2>3, <2>4
<1>6. ContextTypeOK'
  BY <1>1, <1>4, <1>5 DEF ContextInv, ContextTypeOK, Engines
<1>7. \A t \in Tools : JobInv(t)'
  BY <1>1, JobsKept
<1>8. PrepareInv'
  <2>1. /\ snapshot <= version /\ pins \subseteq Pinned(request)
        /\ holder # "none" => snapshot < version
        /\ snapshot = version => /\ added \subseteq Contents(request)
                                 /\ Verbatim(request) \subseteq Verbatim(history)
    BY <1>1 DEF ContextInv, PrepareInv, Preparing
  <2>2. CASE request' = h
    BY <1>1, <1>2, <1>3, <2>1, <2>2 DEF PrepareInv, Preparing
  <2>3. CASE engine' \in {"prepare", "prompt"}
    BY <2>3 DEF PrepareInv, Preparing
  <2> QED BY <1>1, <2>2, <2>3
<1> QED BY <1>1, <1>5, <1>6, <1>7, <1>8 DEF ContextInv, NothingUnseen, PinsReachModel

(* A summary stands for all that it replaces in the request.               *)
LEMMA SummarizedStep == ASSUME ContextInv, Summarized PROVE ContextInv'
<1> USE DEF store, preparing, tools
<1> DEFINE sums == Contents(SubSeq(request, span[1], span[2]))
           h == WithSummary(request, span, sums, lastId + 1)
<1>1. /\ engine = "summarizing"
      /\ UNCHANGED <<history, archive, version, added, snapshot, pins, tool, job, holder, pinning>>
      /\ \/ /\ request' = h /\ lastId' = lastId + 2 /\ engine' = "persist"
            /\ UNCHANGED <<span, dirty>>
         \/ /\ engine' \in {"prepare", "prompt"} /\ request' = <<>> /\ span' = Nothing
            /\ dirty' = FALSE /\ UNCHANGED lastId
  BY DEF Summarized, PrepareFails
<1>2. FreeBlock(request, span) /\ Block(request, span)
  BY <1>1 DEF ContextInv, PrepareInv, FreeBlock
<1>3. SubSeq(request, span[1], span[2]) \in Seq(Messages)
  <2> DEFINE a == span[1]
             b == span[2]
  <2>1. a \in Nat \ {0} /\ b \in Nat /\ a <= b + 1 /\ b <= Len(request)
    BY <1>2 DEF Block
  <2> HIDE DEF a, b
  <2>2. SubSeq(request, a, b) \in Seq(Messages)
    BY <2>1, ContextTypes, PartIs
  <2> QED BY <2>2 DEF a, b
<1>4. sums \in SUBSET Nat /\ lastId + 1 \in Nat
  <2>1. sums \in SUBSET Nat
    BY <1>3, HeldTypes
  <2>2. lastId + 1 \in Nat
    BY ContextTypes
  <2> QED BY <2>1, <2>2
<1>5. /\ h \in Seq(Messages) /\ Verbatim(h) \subseteq Verbatim(request)
      /\ Contents(request) \subseteq Contents(h) /\ Pinned(request) \subseteq Pinned(h)
  <2> HIDE DEF sums
  <2>1. LET u    == WithSummary(request, span, sums, lastId + 1)
            part == SubSeq(request, span[1], span[2])
        IN
        /\ u \in Seq(Messages) /\ part \in Seq(Messages)
        /\ Verbatim(u) \subseteq Verbatim(request)
        /\ Verbatim(request) \subseteq Verbatim(u) \cup Verbatim(part)
        /\ Contents(part) \subseteq sums => Contents(request) \subseteq Contents(u)
        /\ FreeBlock(request, span) => Pinned(request) \subseteq Pinned(u)
    BY <1>2, <1>4, ContextTypes, SummaryIs
  <2>2. Contents(SubSeq(request, span[1], span[2])) \subseteq sums
    BY DEF sums
  <2> QED BY <1>2, <2>1, <2>2
<1> HIDE DEF h, sums
<1>6. /\ lastId' \in Nat /\ added' \in SUBSET (1..lastId') /\ engine' \in Engines
      /\ engine' # "infer" /\ engine' # "summarizing"
  BY <1>1, ContextTypes DEF Engines
<1>7. request' \in Seq(Messages) /\ span' \in Nat \X Nat /\ dirty' \in BOOLEAN
  <2>1. request' \in Seq(Messages)
    BY <1>1, <1>5, NothingIs
  <2>2. span' \in Nat \X Nat
    BY <1>1, ContextTypes, NothingIs
  <2>3. dirty' \in BOOLEAN
    BY <1>1, ContextTypes
  <2> QED BY <2>1, <2>2, <2>3
<1>8. ContextTypeOK'
  BY <1>1, <1>6, <1>7 DEF ContextInv, ContextTypeOK, Engines
<1>9. \A t \in Tools : JobInv(t)'
  BY <1>1, JobsKept
<1>10. PrepareInv'
  <2>1. /\ snapshot <= version /\ pins \subseteq Pinned(request)
        /\ holder # "none" => snapshot < version
        /\ snapshot = version => /\ added \subseteq Contents(request)
                                 /\ Verbatim(request) \subseteq Verbatim(history)
    BY <1>1 DEF ContextInv, PrepareInv, Preparing
  <2>2. CASE request' = h
    BY <1>1, <1>5, <1>6, <2>1, <2>2 DEF PrepareInv, Preparing
  <2>3. CASE engine' \in {"prepare", "prompt"}
    BY <2>3 DEF PrepareInv, Preparing
  <2> QED BY <1>1, <2>2, <2>3
<1> QED BY <1>1, <1>6, <1>8, <1>9, <1>10 DEF ContextInv, NothingUnseen, PinsReachModel

(* The request replaces the history if the version still holds.            *)
LEMMA PersistStep == ASSUME ContextInv, Persist PROVE ContextInv'
<1> USE DEF store, preparing, tools
<1>1. /\ engine = "persist" /\ version' \in {version, version + 1}
      /\ UNCHANGED <<archive, lastId, added, snapshot, pins, tool, job, holder, pinning>>
      /\ \/ history' = history
         \/ history' = request /\ holder = "none" /\ version = snapshot
      /\ \/ engine' = "infer" /\ request' = Pruned(request)
         \/ engine' \in {"prepare", "prompt"} /\ request' = <<>>
      /\ span' = Nothing /\ dirty' = FALSE
  BY DEF Persist, Send, PrepareFails, VersionHolds
<1>2. /\ pins \subseteq Pinned(request)
      /\ snapshot = version => /\ added \subseteq Contents(request)
                               /\ Verbatim(request) \subseteq Verbatim(history)
  BY <1>1 DEF ContextInv, PrepareInv, Preparing
<1>3. Pruned(request) \in Seq(Messages) /\ Pinned(request) \subseteq Verbatim(Pruned(request))
  BY ContextTypes, PrunedKeeps
<1>4. /\ request' \in Seq(Messages) /\ engine' \in Engines
      /\ span' \in Nat \X Nat /\ dirty' \in BOOLEAN /\ version' \in Nat
      /\ history' \in Seq(Messages)
  <2>1. request' \in Seq(Messages)
    BY <1>1, <1>3, NothingIs
  <2>2. span' \in Nat \X Nat /\ dirty' \in BOOLEAN
    BY <1>1, NothingIs
  <2>3. engine' \in Engines
    BY <1>1 DEF Engines
  <2>4. version' \in Nat /\ history' \in Seq(Messages)
    BY <1>1, ContextTypes
  <2> QED BY <2>1, <2>2, <2>3, <2>4
<1>5. ContextTypeOK'
  BY <1>1, <1>4 DEF ContextInv, ContextTypeOK, Engines
<1>6. \A t \in Tools : JobInv(t)'
  <2>1. CASE history' = history
    BY <1>1, <2>1, JobsKept
  <2>2. CASE holder = "none"
    BY <1>1, <2>2, JobsFree
  <2> QED BY <1>1, <2>1, <2>2
<1>7. NothingUnseen'
  BY <1>1, <1>2 DEF ContextInv, NothingUnseen
<1>8. PinsReachModel'
  BY <1>1, <1>2, <1>3 DEF PinsReachModel
<1>9. PrepareInv'
  BY <1>1 DEF PrepareInv, Preparing
<1> QED BY <1>5, <1>6, <1>7, <1>8, <1>9 DEF ContextInv

(* What Prepare works with is not touched by the tools.                    *)
LEMMA PrepareKept ==
  ASSUME ContextInv, UNCHANGED <<engine, request, snapshot, span, dirty, pins, added>>,
         version' \in {version, version + 1}, Verbatim(history') = Verbatim(history),
         holder' = "none" \/ holder' = holder \/ version' = version + 1
  PROVE  PrepareInv' /\ PinsReachModel'
<1>1. version \in Nat /\ snapshot \in Nat
  BY ContextTypes
<1>2. PinsReachModel'
  BY DEF ContextInv, PinsReachModel
<1>3. PrepareInv'
  <2>1. CASE Preparing
    <3>1. /\ snapshot <= version /\ pins \subseteq Pinned(request)
          /\ holder # "none" => snapshot < version
          /\ snapshot = version => /\ added \subseteq Contents(request)
                                   /\ Verbatim(request) \subseteq Verbatim(history)
      BY <2>1 DEF ContextInv, PrepareInv
    <3>2. engine = "summarizing" => FreeBlock(request, span)
      BY DEF ContextInv, PrepareInv
    <3> QED BY <1>1, <3>1, <3>2 DEF PrepareInv, Preparing
  <2>2. CASE ~Preparing
    BY <2>2 DEF PrepareInv, Preparing
  <2> QED BY <2>1, <2>2
<1> QED BY <1>2, <1>3

(* A call goes on: the others stay as they are.                            *)
LEMMA GoesIs ==
  ASSUME ContextInv, NEW t \in Tools, NEW pc \in Phases, NEW j \in Jobs, Goes(t, pc, j)
  PROVE  /\ tool' \in [Tools -> Phases] /\ job' \in [Tools -> Jobs]
         /\ tool'[t] = pc /\ job'[t] = j
         /\ \A u \in Tools : u # t => tool'[u] = tool[u] /\ job'[u] = job[u]
<1>1. tool \in [Tools -> Phases] /\ job \in [Tools -> Jobs]
  BY ContextTypes
<1> QED BY <1>1 DEF Goes

(* A tool that is not at work.                                             *)
LEMMA NoJobIs == NoJob \in Jobs
<1>1. <<>> \in Seq(Messages) /\ {} \in SUBSET Nat /\ 0 \in Nat
  OBVIOUS
<1> QED BY <1>1 DEF NoJob, Jobs

(* Steps of a call outside the lock.                                       *)
LEMMA OutsideStep ==
  ASSUME ContextInv, NEW t \in Tools, NEW pc \in Phases, NEW j \in Jobs, Goes(t, pc, j),
         UNCHANGED <<history, archive, version, lastId, added, engine, request, snapshot,
                     span, dirty, pins, holder, pinning>>,
         holder # t, pc \notin {"archive", "store"},
         pc = "scan" => j.turns \in Requested,
         pc \in {"summarize", "finalize"} =>
           j.from \in Nat \ {0} /\ \A i \in 1..Len(j.subset) : ~j.subset[i].pinned
  PROVE  ContextInv'
<1>1. /\ tool' \in [Tools -> Phases] /\ job' \in [Tools -> Jobs]
      /\ tool'[t] = pc /\ job'[t] = j
      /\ \A u \in Tools : u # t => tool'[u] = tool[u] /\ job'[u] = job[u]
  BY GoesIs
<1>2. ContextTypeOK'
  BY <1>1 DEF ContextInv, ContextTypeOK, Phases
<1>3. PrepareInv' /\ PinsReachModel'
  BY PrepareKept
<1>4. ASSUME NEW u \in Tools PROVE JobInv(u)'
  <2>1. CASE u = t
    BY <1>1, <2>1 DEF JobInv, Holding
  <2>2. CASE u # t
    BY <1>1, <2>2 DEF ContextInv, JobInv, Holding
  <2> QED BY <2>1, <2>2
<1> QED BY <1>2, <1>3, <1>4 DEF ContextInv, NothingUnseen

(* The smaller of two.                                                     *)
LEMMA MinIs ==
  ASSUME NEW a \in Nat, NEW b \in Nat
  PROVE  Min({a, b}) \in Nat /\ Min({a, b}) <= a /\ Min({a, b}) <= b
<1>1. \E x \in {a, b} : \A y \in {a, b} : x <= y
  OBVIOUS
<1>2. Min({a, b}) \in {a, b} /\ \A y \in {a, b} : Min({a, b}) <= y
  BY <1>1 DEF Min
<1> QED BY <1>2

(* Numbers of turns and of messages are multiplied.                        *)
LEMMA ProductIs == ASSUME NEW a \in Nat, NEW b \in Nat PROVE a * b \in Nat
OBVIOUS

(* SummarizeRange sets its window.                                         *)
LEMMA CallStep == ASSUME ContextInv, NEW t \in Tools, Call(t) PROVE ContextInv'
<1> USE DEF store, preparing
<1>1. PICK n \in Requested :
        Goes(t, "scan", [NoJob EXCEPT !.turns = n, !.total = Len(history),
                                      !.window = Min({n * Estimate, Len(history)})])
  BY DEF Call
<1> DEFINE j == [NoJob EXCEPT !.turns = n, !.total = Len(history),
                              !.window = Min({n * Estimate, Len(history)})]
<1>2. n \in Nat /\ n * Estimate \in Nat /\ Len(history) \in Nat
  <2>1. n \in Nat /\ Estimate \in Nat
    BY ContextAssumption
  <2>2. Len(history) \in Nat
    BY ContextTypes
  <2> QED BY <2>1, <2>2, ProductIs
<1>3. Min({n * Estimate, Len(history)}) \in Nat
  BY <1>2, MinIs
<1>4. j \in Jobs /\ j.turns = n
  BY <1>2, <1>3, NoJobIs DEF Jobs
<1>5. /\ holder = "none"
      /\ UNCHANGED <<history, archive, version, lastId, added, engine, request, snapshot,
                     span, dirty, pins, holder, pinning>>
  BY DEF Call
<1>6. "none" \notin Tools
  BY ContextTypes
<1> HIDE DEF j
<1>7. Goes(t, "scan", j)
  BY <1>1 DEF j
<1> QED BY <1>4, <1>5, <1>6, <1>7, OutsideStep DEF Phases

(* It takes a block that has no pin, widens the window, or gives up.       *)
LEMMA ScanStep == ASSUME ContextInv, NEW t \in Tools, Scan(t) PROVE ContextInv'
<1> USE DEF store, preparing
<1> DEFINE j == job[t]
           w == Min({j.window, Len(history)})
           h == SubSeq(history, 1, w)
           block == Candidate(h, j.turns, j.window >= j.total)
           s == SubSeq(h, block[1], block[2])
           k == [j EXCEPT !.from = block[1], !.subset = s]
           g == [j EXCEPT !.window = Grown(j)]
<1>1. /\ tool[t] = "scan"
      /\ UNCHANGED <<history, archive, version, lastId, added, engine, request, snapshot,
                     span, dirty, pins, holder, pinning>>
  BY DEF Scan
<1>2. \/ block # Nothing /\ Goes(t, "summarize", k)
      \/ Goes(t, "idle", NoJob)
      \/ Goes(t, "scan", g)
  BY DEF Scan, Ends
<1>3. j \in Jobs /\ j.turns \in Requested /\ holder # t
  BY <1>1, ContextTypes DEF ContextInv, JobInv, Holding
<1>4. /\ j.turns \in Nat \ {0} /\ j.window \in Nat /\ j.total \in Nat
      /\ Len(history) \in Nat /\ history \in Seq(Messages)
  <2>1. j.turns \in Nat \ {0}
    BY <1>3, ContextAssumption
  <2>2. j.window \in Nat /\ j.total \in Nat
    BY <1>3 DEF Jobs
  <2>3. Len(history) \in Nat /\ history \in Seq(Messages)
    BY ContextTypes
  <2> QED BY <2>1, <2>2, <2>3
<1> HIDE DEF j
<1>5. w \in Nat /\ w <= Len(history)
  BY <1>4, MinIs
<1> HIDE DEF w
<1>6. h \in Seq(Messages) /\ Len(h) \in Nat
  <2>1. 1 \in Nat \ {0} /\ 1 <= w + 1
    BY <1>5
  <2>2. SubSeq(history, 1, w) \in Seq(Messages)
    BY <1>4, <1>5, <2>1, PartIs
  <2> QED BY <2>2
<1> HIDE DEF h
<1>7. block # Nothing => block \in Nat \X Nat /\ FreeBlock(h, block)
  <2> DEFINE e == j.window >= j.total
             n == j.turns
  <2>1. n \in Nat \ {0}
    BY <1>4
  <2> HIDE DEF e, n
  <2>2. Candidate(h, n, e) # Nothing => Candidate(h, n, e) \in Nat \X Nat
                                        /\ FreeBlock(h, Candidate(h, n, e))
    BY <1>6, <2>1, CandidateFree
  <2> QED BY <2>2 DEF e, n
<1> HIDE DEF block
<1>8. CASE block # Nothing /\ Goes(t, "summarize", k)
  <2> DEFINE a == block[1]
             b == block[2]
  <2>1. /\ a \in Nat \ {0} /\ b \in Nat /\ a <= b + 1 /\ b <= Len(h)
        /\ \A i \in a..b : ~h[i].pinned
    BY <1>7, <1>8 DEF FreeBlock, Block
  <2> HIDE DEF a, b
  <2> DEFINE p == SubSeq(h, a, b)
  <2>2. /\ p \in Seq(Messages) /\ Len(p) = b - a + 1
        /\ \A i \in 1..(b - a + 1) : p[i] = h[a + i - 1]
    BY <1>6, <2>1, PartIs
  <2> HIDE DEF p
  <2>3. ASSUME NEW i \in 1..Len(p) PROVE ~p[i].pinned
    <3>1. a + i - 1 \in a..b /\ i \in 1..(b - a + 1)
      BY <2>1, <2>2
    <3> QED BY <3>1, <2>1, <2>2
  <2>4. k \in Jobs /\ k.from = a /\ k.subset = p
    <3>1. k = [j EXCEPT !.from = a, !.subset = p]
      BY DEF a, b, p
    <3> QED BY <1>3, <2>1, <2>2, <3>1 DEF Jobs
  <2> HIDE DEF k
  <2> QED BY <1>1, <1>3, <1>8, <2>1, <2>3, <2>4, OutsideStep DEF Phases
<1>9. CASE Goes(t, "idle", NoJob)
  BY <1>1, <1>3, <1>9, NoJobIs, OutsideStep DEF Phases
<1>10. CASE Goes(t, "scan", g)
  <2>1. Grown(j) \in Nat
    <3>1. j.window + j.turns * Growth \in Nat
      <4> DEFINE a == j.turns
                 b == j.window
      <4>1. a \in Nat /\ b \in Nat /\ Growth \in Nat
        BY <1>4, ContextAssumption
      <4> HIDE DEF a, b
      <4>2. a * Growth \in Nat
        BY <4>1, ProductIs
      <4>3. b + a * Growth \in Nat
        BY <4>1, <4>2
      <4> QED BY <4>3 DEF a, b
    <3> QED BY <3>1, <1>4, MinIs DEF Grown
  <2>2. g \in Jobs /\ g.turns = j.turns
    BY <1>3, <2>1 DEF Jobs
  <2> HIDE DEF g
  <2> QED BY <1>1, <1>3, <1>10, <2>2, OutsideStep DEF Phases
<1> QED BY <1>2, <1>8, <1>9, <1>10

(* The slow call returns.                                                  *)
LEMMA SummarizeStep == ASSUME ContextInv, NEW t \in Tools, Summarize(t) PROVE ContextInv'
<1> USE DEF store, preparing
<1>1. /\ tool[t] = "summarize"
      /\ UNCHANGED <<history, archive, version, lastId, added, engine, request, snapshot,
                     span, dirty, pins, holder, pinning>>
      /\ Goes(t, "finalize", job[t]) \/ Goes(t, "idle", NoJob)
  BY DEF Summarize, Ends
<1>2. job[t] \in Jobs /\ holder # t
  BY <1>1, ContextTypes DEF ContextInv, JobInv, Holding
<1>3. job[t].from \in Nat \ {0} /\ \A i \in 1..Len(job[t].subset) : ~job[t].subset[i].pinned
  BY <1>1 DEF ContextInv, JobInv
<1>4. CASE Goes(t, "finalize", job[t])
  BY <1>1, <1>2, <1>3, <1>4, OutsideStep DEF Phases
<1>5. CASE Goes(t, "idle", NoJob)
  BY <1>1, <1>2, <1>5, NoJobIs, OutsideStep DEF Phases
<1> QED BY <1>1, <1>4, <1>5

(* The lock is taken: what will be stored lacks only what was summarised.  *)
LEMMA FinalizeStep == ASSUME ContextInv, NEW t \in Tools, Finalize(t) PROVE ContextInv'
<1> USE DEF store, preparing
<1> DEFINE j    == job[t]
           end  == JobEnd(j)
           sums == Contents(j.subset)
           u    == WithSummary(history, <<j.from, end>>, sums, lastId + 1)
           k    == [j EXCEPT !.held = Pinned(history), !.next = u]
<1>1. /\ tool[t] = "finalize" /\ holder = "none"
      /\ UNCHANGED <<history, archive, added, engine, request, snapshot, span, dirty, pins,
                     pinning>>
      /\ \/ /\ SubsetHolds(j) /\ holder' = t /\ version' = version + 1
            /\ lastId' = lastId + 2 /\ Goes(t, "archive", k)
         \/ Goes(t, "idle", NoJob) /\ UNCHANGED <<holder, version, lastId>>
  BY DEF Finalize, Ends
<1>2. j \in Jobs /\ holder # t /\ t # "none" /\ history \in Seq(Messages)
  BY <1>1, ContextTypes
<1>3. j.from \in Nat \ {0} /\ \A i \in 1..Len(j.subset) : ~j.subset[i].pinned
  BY <1>1 DEF ContextInv, JobInv
<1>4. CASE Goes(t, "idle", NoJob) /\ UNCHANGED <<holder, version, lastId>>
  BY <1>1, <1>2, <1>4, NoJobIs, OutsideStep DEF Phases
<1>5. CASE /\ SubsetHolds(j) /\ holder' = t /\ version' = version + 1
           /\ lastId' = lastId + 2 /\ Goes(t, "archive", k)
  <2>1. /\ j.subset \in Seq(Messages) /\ j.from \in Nat \ {0}
        /\ Len(history) >= end /\ SubSeq(history, j.from, end) = j.subset
    BY <1>2, <1>3, <1>5 DEF Jobs, SubsetHolds
  <2>2. end \in Nat /\ j.from <= end + 1 /\ end <= Len(history)
    <3> DEFINE a == j.from
               l == Len(j.subset)
    <3>1. a \in Nat \ {0} /\ l \in Nat /\ Len(history) \in Nat /\ Len(history) >= end
      BY <1>2, <2>1
    <3>2. end = a + l - 1
      BY DEF JobEnd
    <3> HIDE DEF a, l, end
    <3>3. end \in Nat /\ a <= end + 1 /\ end <= Len(history)
      BY <3>1, <3>2
    <3> QED BY <3>3 DEF a
  <2> HIDE DEF end
  <2>3. ASSUME NEW i \in j.from..end PROVE ~history[i].pinned
    <3> DEFINE a == j.from
    <3>1. a \in Nat \ {0} /\ a <= end + 1
      BY <2>1, <2>2
    <3> HIDE DEF a
    <3>2. /\ Len(SubSeq(history, a, end)) = end - a + 1
          /\ \A l \in a..end : l - a + 1 \in 1..(end - a + 1)
                               /\ SubSeq(history, a, end)[l - a + 1] = history[l]
      BY <1>2, <2>2, <3>1, PartIs
    <3>3. i - a + 1 \in 1..Len(j.subset) /\ j.subset[i - a + 1] = history[i]
      BY <2>1, <3>2 DEF a
    <3> QED BY <1>3, <3>3
  <2> DEFINE block == <<j.from, end>>
  <2>4. block[1] = j.from /\ block[2] = end
    OBVIOUS
  <2> HIDE DEF block
  <2>5. FreeBlock(history, block) /\ Block(history, block)
    BY <2>1, <2>2, <2>3, <2>4 DEF FreeBlock, Block
  <2>6. sums \in SUBSET Nat /\ lastId + 1 \in Nat
    <3>1. sums \in SUBSET Nat
      BY <2>1, HeldTypes
    <3>2. lastId + 1 \in Nat
      BY ContextTypes
    <3> QED BY <3>1, <3>2
  <2>7. /\ u \in Seq(Messages) /\ Verbatim(u) \subseteq Verbatim(history)
        /\ Verbatim(history) \subseteq Verbatim(u) \cup Verbatim(j.subset)
        /\ Contents(history) \subseteq Contents(u) /\ Pinned(history) \subseteq Pinned(u)
    <3> HIDE DEF sums
    <3>1. LET v    == WithSummary(history, block, sums, lastId + 1)
              part == SubSeq(history, block[1], block[2])
          IN
          /\ v \in Seq(Messages) /\ part \in Seq(Messages)
          /\ Verbatim(v) \subseteq Verbatim(history)
          /\ Verbatim(history) \subseteq Verbatim(v) \cup Verbatim(part)
          /\ Contents(part) \subseteq sums => Contents(history) \subseteq Contents(v)
          /\ FreeBlock(history, block) => Pinned(history) \subseteq Pinned(v)
      BY <1>2, <2>5, <2>6, SummaryIs
    <3>2. SubSeq(history, block[1], block[2]) = j.subset
      BY <2>1, <2>4
    <3>3. Contents(j.subset) \subseteq sums
      BY DEF sums
    <3>4. u = WithSummary(history, block, sums, lastId + 1)
      BY DEF block
    <3> HIDE DEF u
    <3> QED BY <2>5, <3>1, <3>2, <3>3, <3>4
  <2> HIDE DEF u, sums
  <2>8. Pinned(history) \in SUBSET Nat /\ Pinned(u) \subseteq Verbatim(u)
    BY <1>2, <2>7, HeldTypes
  <2>9. k \in Jobs /\ k.held = Pinned(history) /\ k.next = u /\ k.subset = j.subset
    BY <1>2, <2>7, <2>8 DEF Jobs
  <2> HIDE DEF k
  <2>10. /\ tool' \in [Tools -> Phases] /\ job' \in [Tools -> Jobs]
         /\ tool'[t] = "archive" /\ job'[t] = k
         /\ \A v \in Tools : v # t => tool'[v] = tool[v] /\ job'[v] = job[v]
    BY <1>5, <2>9, GoesIs DEF Phases
  <2>11. version' \in Nat /\ lastId' \in Nat /\ added' \in SUBSET (1..lastId')
    BY <1>1, <1>5, ContextTypes
  <2>12. ContextTypeOK'
    BY <1>1, <1>5, <2>10, <2>11 DEF ContextInv, ContextTypeOK, Phases
  <2>13. PrepareInv' /\ PinsReachModel'
    BY <1>1, <1>5, PrepareKept
  <2>14. JobInv(t)'
    <3>1. added \subseteq Contents(history)
      BY DEF ContextInv, NothingUnseen
    <3> QED BY <1>1, <1>5, <2>7, <2>8, <2>9, <2>10, <3>1 DEF JobInv, Holding
  <2>15. ASSUME NEW v \in Tools, v # t PROVE JobInv(v)'
    <3>1. JobInv(v) /\ holder # v
      BY <1>1, ContextTypes DEF ContextInv
    <3> QED BY <1>1, <1>5, <2>10, <2>15, <3>1 DEF JobInv, Holding
  <2> QED BY <1>1, <2>12, <2>13, <2>14, <2>15 DEF ContextInv, NothingUnseen
<1> QED BY <1>1, <1>4, <1>5

(* The block goes into the archive before anything is stored.              *)
LEMMA ArchiveStep == ASSUME ContextInv, NEW t \in Tools, Archive(t) PROVE ContextInv'
<1> USE DEF store, preparing
<1>1. /\ tool[t] = "archive"
      /\ UNCHANGED <<history, version, lastId, added, engine, request, snapshot, span, dirty,
                     pins, pinning>>
      /\ \/ /\ archive' = archive \cup Verbatim(job[t].subset)
            /\ Goes(t, "store", job[t]) /\ UNCHANGED holder
         \/ Goes(t, "idle", NoJob) /\ holder' = "none" /\ UNCHANGED archive
  BY DEF Archive, Ends
<1>2. /\ job[t] \in Jobs /\ holder = t /\ JobInv(t) /\ t # "none"
      /\ \A u \in Tools : u # t => JobInv(u)
  BY <1>1, ContextTypes DEF ContextInv, JobInv, Holding
<1>3. job[t].subset \in Seq(Messages)
  BY <1>2 DEF Jobs
<1>4. archive' \in SUBSET Nat /\ archive \subseteq archive'
  BY <1>1, <1>3, ContextTypes, HeldTypes
<1>5. PrepareInv' /\ PinsReachModel'
  BY <1>1, PrepareKept
<1>6. CASE /\ archive' = archive \cup Verbatim(job[t].subset)
           /\ Goes(t, "store", job[t]) /\ UNCHANGED holder
  <2>1. /\ tool' \in [Tools -> Phases] /\ job' \in [Tools -> Jobs]
        /\ tool'[t] = "store" /\ job'[t] = job[t]
        /\ \A u \in Tools : u # t => tool'[u] = tool[u] /\ job'[u] = job[u]
    BY <1>2, <1>6, GoesIs DEF Phases
  <2>2. ContextTypeOK'
    BY <1>1, <1>4, <1>6, <2>1 DEF ContextInv, ContextTypeOK, Phases
  <2>3. JobInv(t)'
    BY <1>1, <1>2, <1>6, <2>1 DEF JobInv, Holding
  <2>4. ASSUME NEW u \in Tools, u # t PROVE JobInv(u)'
    <3>1. ~Holding(u)
      BY <1>2, <2>4 DEF JobInv
    <3> QED BY <1>1, <1>2, <1>6, <2>1, <2>4, <3>1 DEF JobInv, Holding
  <2> QED BY <1>1, <1>5, <2>2, <2>3, <2>4 DEF ContextInv, NothingUnseen
<1>7. CASE Goes(t, "idle", NoJob) /\ holder' = "none" /\ UNCHANGED archive
  <2>1. /\ tool' \in [Tools -> Phases] /\ job' \in [Tools -> Jobs]
        /\ tool'[t] = "idle" /\ job'[t] = NoJob
        /\ \A u \in Tools : u # t => tool'[u] = tool[u] /\ job'[u] = job[u]
    BY <1>7, NoJobIs, GoesIs DEF Phases
  <2>2. ContextTypeOK'
    BY <1>1, <1>7, <2>1 DEF ContextInv, ContextTypeOK, Phases
  <2>3. JobInv(t)'
    BY <1>2, <1>7, <2>1 DEF JobInv, Holding
  <2>4. ASSUME NEW u \in Tools, u # t PROVE JobInv(u)'
    <3>1. ~Holding(u) /\ u # "none"
      BY <1>2, <2>4, ContextTypes DEF JobInv
    <3> QED BY <1>1, <1>2, <1>7, <2>1, <2>4, <3>1 DEF JobInv, Holding
  <2> QED BY <1>1, <1>5, <2>2, <2>3, <2>4 DEF ContextInv, NothingUnseen
<1> QED BY <1>1, <1>6, <1>7

(* The history is replaced by what was worked out under the lock.          *)
LEMMA SetContentsStep == ASSUME ContextInv, NEW t \in Tools, SetContents(t) PROVE ContextInv'
<1> USE DEF store, preparing
<1>1. /\ tool[t] = "store" /\ Goes(t, "idle", NoJob) /\ holder' = "none"
      /\ UNCHANGED <<archive, version, lastId, added, engine, request, snapshot, span, dirty,
                     pins, pinning>>
      /\ history' = job[t].next \/ history' = history
  BY DEF SetContents, Ends
<1>2. /\ job[t] \in Jobs /\ holder = t /\ JobInv(t) /\ Holding(t) /\ t # "none"
      /\ \A u \in Tools : u # t => JobInv(u)
  BY <1>1, ContextTypes DEF ContextInv, JobInv, Holding
<1>3. history' \in Seq(Messages) /\ added \subseteq Contents(history')
  BY <1>1, <1>2, ContextTypes DEF Jobs, JobInv, ContextInv, NothingUnseen
<1>4. /\ tool' \in [Tools -> Phases] /\ job' \in [Tools -> Jobs]
      /\ tool'[t] = "idle" /\ job'[t] = NoJob
      /\ \A u \in Tools : u # t => tool'[u] = tool[u] /\ job'[u] = job[u]
  BY <1>1, NoJobIs, GoesIs DEF Phases
<1>5. ContextTypeOK'
  BY <1>1, <1>3, <1>4 DEF ContextInv, ContextTypeOK, Phases
<1>6. PinsReachModel'
  BY <1>1 DEF ContextInv, PinsReachModel
<1>7. PrepareInv'
  <2>1. CASE Preparing
    <3>1. snapshot < version /\ pins \subseteq Pinned(request) /\ version \in Nat
          /\ snapshot \in Nat
      BY <2>1, <1>2, ContextTypes DEF ContextInv, PrepareInv
    <3>2. engine = "summarizing" => FreeBlock(request, span)
      BY DEF ContextInv, PrepareInv
    <3> QED BY <1>1, <3>1, <3>2 DEF PrepareInv, Preparing
  <2>2. CASE ~Preparing
    BY <1>1, <2>2 DEF PrepareInv, Preparing
  <2> QED BY <2>1, <2>2
<1>8. JobInv(t)'
  BY <1>1, <1>2, <1>4 DEF JobInv, Holding
<1>9. ASSUME NEW u \in Tools, u # t PROVE JobInv(u)'
  <2>1. ~Holding(u) /\ u # "none"
    BY <1>2, <1>9, ContextTypes DEF JobInv
  <2> QED BY <1>1, <1>2, <1>4, <1>9, <2>1 DEF JobInv, Holding
<1> QED BY <1>1, <1>3, <1>5, <1>6, <1>7, <1>8, <1>9 DEF ContextInv, NothingUnseen

(* manage_history finds its message ...                                    *)
LEMMA ResolveStep == ASSUME ContextInv, Resolve PROVE ContextInv'
<1> USE DEF store, preparing, tools
<1>1. /\ UNCHANGED <<history, archive, version, lastId, added, engine, request, snapshot,
                     span, dirty, pins, tool, job, holder>>
      /\ \E i \in DOMAIN history : pinning' = history[i].id
  BY DEF Resolve
<1>2. pinning' \in Nat
  <2>1. PICK i \in 1..Len(history) : pinning' = history[i].id
    BY <1>1, ContextTypes
  <2>2. history[i] \in Messages
    BY ContextTypes
  <2> QED BY <2>1, <2>2 DEF Messages
<1>3. ContextTypeOK'
  BY <1>1, <1>2 DEF ContextInv, ContextTypeOK
<1>4. PrepareInv' /\ PinsReachModel'
  BY <1>1, PrepareKept
<1>5. \A t \in Tools : JobInv(t)'
  BY <1>1, JobsKept
<1> QED BY <1>1, <1>3, <1>4, <1>5 DEF ContextInv, NothingUnseen

(* ... and pins or unpins two of them, which takes nothing away.           *)
LEMMA SetPinnedKeeps ==
  ASSUME ContextInv, SetPinned
  PROVE  /\ history' \in Seq(Messages)
         /\ Verbatim(history') = Verbatim(history) /\ Contents(history') = Contents(history)
<1>1. CASE history' = history
  BY <1>1, ContextTypes
<1>2. ASSUME NEW i \in DOMAIN history, NEW flag \in BOOLEAN, Paired(history, i),
             history' = [history EXCEPT ![i].pinned = flag,
                                        ![Partner(history, i)].pinned = flag]
      PROVE  /\ history' \in Seq(Messages)
             /\ Verbatim(history') = Verbatim(history)
             /\ Contents(history') = Contents(history)
  <2> DEFINE k == Partner(history, i)
             v == [history EXCEPT ![i].pinned = flag]
             u == [v EXCEPT ![k].pinned = flag]
  <2>1. i \in 1..Len(history) /\ k \in 1..Len(history) /\ history \in Seq(Messages)
    BY <1>2, ContextTypes DEF Paired
  <2>2. history' = u
    BY <1>2
  <2> HIDE DEF k
  <2>3. /\ v \in Seq(Messages) /\ Len(v) = Len(history)
        /\ Verbatim(v) = Verbatim(history) /\ Contents(v) = Contents(history)
    BY <2>1, PinIs
  <2> HIDE DEF v
  <2>4. u \in Seq(Messages) /\ Verbatim(u) = Verbatim(v) /\ Contents(u) = Contents(v)
    BY <2>1, <2>3, PinIs
  <2> HIDE DEF u
  <2> QED BY <2>2, <2>3, <2>4
<1>3. CASE \E i \in DOMAIN history, flag \in BOOLEAN :
             /\ Paired(history, i)
             /\ history' = [history EXCEPT ![i].pinned = flag,
                                          ![Partner(history, i)].pinned = flag]
  <2>1. PICK i \in DOMAIN history, flag \in BOOLEAN :
          /\ Paired(history, i)
          /\ history' = [history EXCEPT ![i].pinned = flag,
                                       ![Partner(history, i)].pinned = flag]
    BY <1>3
  <2> QED BY <1>2, <2>1
<1>4. \/ \E i \in DOMAIN history, flag \in BOOLEAN :
           /\ Paired(history, i)
           /\ history' = [history EXCEPT ![i].pinned = flag,
                                        ![Partner(history, i)].pinned = flag]
      \/ history' = history
  BY DEF SetPinned
<1> QED BY <1>1, <1>3, <1>4

(* That disturbs neither Prepare nor a tool, version or not.               *)
LEMMA SetPinnedStep == ASSUME ContextInv, SetPinned PROVE ContextInv'
<1> USE DEF store, preparing, tools
<1>1. /\ UNCHANGED <<archive, version, lastId, added, engine, request, snapshot,
                     span, dirty, pins, tool, job, holder>>
      /\ pinning' = 0
  BY DEF SetPinned
<1>2. /\ history' \in Seq(Messages)
      /\ Verbatim(history') = Verbatim(history) /\ Contents(history') = Contents(history)
  BY SetPinnedKeeps
<1>3. ContextTypeOK'
  BY <1>1, <1>2 DEF ContextInv, ContextTypeOK
<1>4. PrepareInv' /\ PinsReachModel'
  BY <1>1, <1>2, PrepareKept
<1>5. \A t \in Tools : JobInv(t)'
  BY <1>1, <1>2, JobsSame
<1> QED BY <1>1, <1>2, <1>3, <1>4, <1>5 DEF ContextInv, NothingUnseen

(* New limits only move the version on.                                    *)
LEMMA ReconfigureStep == ASSUME ContextInv, Reconfigure PROVE ContextInv'
<1> USE DEF store, preparing, tools
<1>1. /\ version' = version + 1
      /\ UNCHANGED <<history, archive, lastId, added, engine, request, snapshot,
                     span, dirty, pins, tool, job, holder, pinning>>
  BY DEF Reconfigure
<1>2. version' \in Nat
  BY <1>1, ContextTypes
<1>3. ContextTypeOK'
  BY <1>1, <1>2 DEF ContextInv, ContextTypeOK
<1>4. PrepareInv' /\ PinsReachModel'
  BY <1>1, PrepareKept
<1>5. \A t \in Tools : JobInv(t)'
  BY <1>1, JobsKept
<1> QED BY <1>1, <1>3, <1>4, <1>5 DEF ContextInv, NothingUnseen

(* A session begins with its messages, none of them summarised.            *)
LEMMA ContextInitInv == ContextInit => ContextInv
<1> SUFFICES ASSUME ContextInit PROVE ContextInv
  OBVIOUS
<1>1. PICK kinds \in Starts :
        LET h == [i \in DOMAIN kinds |-> Message(i, kinds[i])] IN
        /\ history = h /\ archive = {} /\ version = 0
        /\ lastId = Len(h) /\ added = DOMAIN h
        /\ engine = "prompt" /\ request = <<>> /\ snapshot = 0 /\ span = Nothing
        /\ dirty = FALSE /\ pins = {}
        /\ tool = [t \in Tools |-> "idle"] /\ job = [t \in Tools |-> NoJob]
        /\ holder = "none" /\ pinning = 0
  BY DEF ContextInit
<1> DEFINE n == Len(kinds)
<1>2. kinds \in Seq(Kinds) /\ n \in Nat /\ DOMAIN kinds = 1..n
  BY ContextAssumption
<1>3. ASSUME NEW i \in 1..n
      PROVE  Message(i, kinds[i]) \in Messages /\ Message(i, kinds[i]).has = {i}
  <2>1. i \in Nat /\ kinds[i] \in Kinds
    BY <1>2
  <2> QED BY <2>1, MessageTypes
<1>4. history = [i \in 1..n |-> Message(i, kinds[i])] /\ lastId = Len(history)
      /\ added = DOMAIN history
  BY <1>1, <1>2
<1> HIDE DEF n
<1>5. history \in Seq(Messages) /\ Len(history) = n /\ DOMAIN history = 1..n
  <2>1. n \in Nat
    BY <1>2
  <2> QED BY <1>3, <1>4, <2>1
<1>6. ContextTypeOK
  <2>1. request \in Seq(Messages) /\ span \in Nat \X Nat
    BY <1>1, NothingIs
  <2>2. tool \in [Tools -> Phases] /\ job \in [Tools -> Jobs]
    BY <1>1, NoJobIs DEF Phases
  <2>3. lastId \in Nat /\ added \in SUBSET (1..lastId)
    BY <1>2, <1>4, <1>5 DEF n
  <2> QED BY <1>1, <1>5, <2>1, <2>2, <2>3 DEF ContextTypeOK, Phases
<1>7. NothingUnseen
  <2> SUFFICES ASSUME NEW c \in added PROVE c \in Contents(history)
    BY DEF NothingUnseen
  <2>1. c \in 1..n /\ history[c].has = {c}
    BY <1>3, <1>4, <1>5
  <2> QED BY <1>5, <2>1, InContents
<1>8. PinsReachModel /\ PrepareInv
  BY <1>1 DEF PinsReachModel, PrepareInv, Preparing
<1>9. ASSUME NEW t \in Tools PROVE JobInv(t)
  <2>1. tool[t] = "idle" /\ holder # t
    BY <1>1, ContextAssumption
  <2> QED BY <2>1 DEF JobInv, Holding
<1> QED BY <1>6, <1>7, <1>8, <1>9 DEF ContextInv

(* What each step does to the contents that are in the history as they     *)
(* are: nothing, or a new one comes, or one of the two replaces it.        *)
Restored == engine = "persist" /\ engine' # engine /\ history' = request /\ version = snapshot
Stored(t) == /\ Holding(t) /\ tool[t] = "store" /\ history' = job[t].next
             /\ UNCHANGED <<engine, archive, added>>
HistoryChange ==
  \/ Verbatim(history') = Verbatim(history)
  \/ Verbatim(history') = Verbatim(history) \cup {lastId + 1}
  \/ Restored
  \/ \E t \in Tools : Stored(t)

(* A new content comes, or nothing does.                                   *)
LEMMA AddContentChange ==
  ASSUME ContextInv, NEW kind \in Kinds, NEW next, AddContent(kind, next)
  PROVE  HistoryChange
<1>1. \/ history' = Appended(history, Message(lastId + 1, kind))
      \/ history' = history
  BY DEF AddContent
<1>2. lastId + 1 \in Nat /\ history \in Seq(Messages)
  BY ContextTypes
<1>3. CASE history' = Appended(history, Message(lastId + 1, kind))
  <2>1. Verbatim(history') = Verbatim(history) \cup {lastId + 1}
    BY <1>2, <1>3, AppendedIs
  <2> QED BY <2>1 DEF HistoryChange
<1> QED BY <1>1, <1>3 DEF HistoryChange

(* Every step keeps the invariant, and changes the history in such a way.  *)
LEMMA ContextStep ==
  ASSUME ContextInv, ContextNext
  PROVE  ContextInv' /\ HistoryChange
<1> USE DEF store
<1>1. CASE Prompt
  <2>1. AddContent("user", "prepare")
    BY <1>1 DEF Prompt
  <2> QED BY <2>1, AddContentStep, AddContentChange DEF Kinds
<1>2. CASE Answer
  <2>1. AddContent("text", "prompt")
    BY <1>2 DEF Answer
  <2> QED BY <2>1, AddContentStep, AddContentChange DEF Kinds
<1>3. CASE CallTools
  <2>1. AddContent("calls", "results")
    BY <1>3 DEF CallTools
  <2> QED BY <2>1, AddContentStep, AddContentChange DEF Kinds
<1>4. CASE AddResults
  <2>1. AddContent("results", "prepare")
    BY <1>4 DEF AddResults
  <2> QED BY <2>1, AddContentStep, AddContentChange DEF Kinds
<1>5. CASE EndChat
  <2>1. history' = history
    BY <1>5 DEF EndChat
  <2> QED BY <1>5, <2>1, EndChatStep DEF HistoryChange
<1>6. CASE LoadHistory
  <2>1. history' = history
    BY <1>6 DEF LoadHistory
  <2> QED BY <1>6, <2>1, LoadHistoryStep DEF HistoryChange
<1>7. CASE Transform
  <2>1. history' = history
    BY <1>7 DEF Transform
  <2> QED BY <1>7, <2>1, TransformStep DEF HistoryChange
<1>8. CASE Summarized
  <2>1. history' = history
    BY <1>8 DEF Summarized
  <2> QED BY <1>8, <2>1, SummarizedStep DEF HistoryChange
<1>9. CASE Persist
  <2>1. history' = history \/ Restored
    BY <1>9 DEF Persist, Send, PrepareFails, VersionHolds, Restored
  <2> QED BY <1>9, <2>1, PersistStep DEF HistoryChange
<1>10. ASSUME NEW t \in Tools, SummarizeRange(t) PROVE ContextInv' /\ HistoryChange
  <2>1. CASE Call(t)
    <3>1. history' = history
      BY <2>1 DEF Call
    <3> QED BY <2>1, <3>1, CallStep DEF HistoryChange
  <2>2. CASE Scan(t)
    <3>1. history' = history
      BY <2>2 DEF Scan
    <3> QED BY <2>2, <3>1, ScanStep DEF HistoryChange
  <2>3. CASE Summarize(t)
    <3>1. history' = history
      BY <2>3 DEF Summarize
    <3> QED BY <2>3, <3>1, SummarizeStep DEF HistoryChange
  <2>4. CASE Finalize(t)
    <3>1. history' = history
      BY <2>4 DEF Finalize
    <3> QED BY <2>4, <3>1, FinalizeStep DEF HistoryChange
  <2>5. CASE Archive(t)
    <3>1. history' = history
      BY <2>5 DEF Archive
    <3> QED BY <2>5, <3>1, ArchiveStep DEF HistoryChange
  <2>6. CASE SetContents(t)
    <3>1. history' = history \/ Stored(t)
      BY <2>6 DEF SetContents, Stored, Holding
    <3> QED BY <2>6, <3>1, SetContentsStep DEF HistoryChange
  <2> QED BY <1>10, <2>1, <2>2, <2>3, <2>4, <2>5, <2>6 DEF SummarizeRange
<1>11. CASE Resolve
  <2>1. history' = history
    BY <1>11 DEF Resolve
  <2> QED BY <1>11, <2>1, ResolveStep DEF HistoryChange
<1>12. CASE SetPinned
  BY <1>12, SetPinnedStep, SetPinnedKeeps DEF HistoryChange
<1>13. CASE Reconfigure
  <2>1. history' = history
    BY <1>13 DEF Reconfigure
  <2> QED BY <1>13, <2>1, ReconfigureStep DEF HistoryChange
<1> QED BY <1>1, <1>2, <1>3, <1>4, <1>5, <1>6, <1>7, <1>8, <1>9, <1>10, <1>11, <1>12, <1>13
        DEF ContextNext, Prepare

(* So does a step in which nothing happens.                                *)
LEMMA ContextRest ==
  ASSUME ContextInv, UNCHANGED contextVars
  PROVE  ContextInv' /\ HistoryChange
<1> USE DEF contextVars, store, preparing, tools
<1>1. ContextTypeOK' /\ NothingUnseen' /\ PinsReachModel'
  BY DEF ContextInv, ContextTypeOK, NothingUnseen, PinsReachModel
<1>2. PrepareInv'
  BY DEF ContextInv, PrepareInv, Preparing
<1>3. \A t \in Tools : JobInv(t)'
  BY JobsKept
<1> QED BY <1>1, <1>2, <1>3 DEF ContextInv, HistoryChange

(* The context manager keeps its invariant.                                *)
THEOREM ContextIsKept == ContextSpec => []ContextInv
<1>1. ContextInv /\ [ContextNext]_contextVars => ContextInv'
  BY ContextStep, ContextRest
<1> QED BY ContextInitInv, <1>1, PTL DEF ContextSpec

(* No replacement of the history takes away a content that the one who     *)
(* replaces it has not seen.                                               *)
THEOREM NothingIsLost == ContextSpec => []NothingUnseen
<1>1. ContextInv => NothingUnseen
  BY DEF ContextInv
<1> QED BY ContextIsKept, <1>1, PTL

(* What is pinned when a request is prepared reaches the model as it is,   *)
(* whatever the gatekeeper summarises and the pruner drops.                *)
THEOREM PinsArrive == ContextSpec => []PinsReachModel
<1>1. ContextInv => PinsReachModel
  BY DEF ContextInv
<1> QED BY ContextIsKept, <1>1, PTL

(* What is in the way of the three: the two replacements of the history.   *)
LEMMA RestoredIs ==
  ASSUME ContextInv, Restored
  PROVE  /\ pins \subseteq Verbatim(history')
         /\ Verbatim(history') \subseteq Verbatim(history)
<1>1. /\ pins \subseteq Pinned(request)
      /\ Verbatim(request) \subseteq Verbatim(history) /\ request \in Seq(Messages)
  BY ContextTypes DEF ContextInv, PrepareInv, Preparing, Restored
<1>2. Pinned(request) \subseteq Verbatim(request)
  BY <1>1, HeldTypes
<1> QED BY <1>1, <1>2 DEF Restored

(* ... and the one that a tool of the session works out.                   *)
LEMMA StoredIs ==
  ASSUME ContextInv, NEW t \in Tools, Stored(t)
  PROVE  /\ holder = t /\ job[t].held \subseteq Verbatim(history')
         /\ Verbatim(history') \subseteq Verbatim(history)
         /\ Verbatim(history) \subseteq Verbatim(history') \cup archive
<1>1. JobInv(t)
  BY DEF ContextInv
<1> QED BY <1>1 DEF Stored, JobInv

(* What was pinned when one of them looked is there after it has replaced  *)
(* the history.                                                            *)
THEOREM PinsAreKept == ContextSpec => PinnedStays
<1>1. ASSUME ContextInv, ContextInv' /\ HistoryChange,
             NEW c \in Pinned(history) \ Verbatim(history')
      PROVE  IF engine' # engine THEN c \notin pins ELSE c \notin job[holder].held
  <2>1. c \in Verbatim(history)
    BY <1>1, ContextTypes, HeldTypes
  <2>2. Restored \/ \E t \in Tools : Stored(t)
    BY <1>1, <2>1 DEF HistoryChange
  <2>3. CASE Restored
    BY <2>3, <1>1, RestoredIs DEF Restored
  <2>4. ASSUME NEW t \in Tools, Stored(t) PROVE c \notin job[holder].held /\ engine' = engine
    BY <2>4, <1>1, StoredIs DEF Stored
  <2> QED BY <2>2, <2>3, <2>4
<1>2. ContextInv /\ [ContextNext]_contextVars =>
        [\A c \in Pinned(history) \ Verbatim(history') :
           IF engine' # engine THEN c \notin pins ELSE c \notin job[holder].held]_contextVars
  BY <1>1, ContextStep, ContextRest
<1> QED BY ContextIsKept, <1>2, PTL DEF ContextSpec, PinnedStays

(* What a tool's summary takes out of the history is in the archive.       *)
THEOREM RemovedIsArchived == ContextSpec => ArchivedFirst
<1>1. ASSUME ContextInv, HistoryChange, engine' = engine
      PROVE  (Verbatim(history) \ Verbatim(history')) \subseteq archive
  <2>1. ASSUME NEW t \in Tools, Stored(t)
        PROVE  (Verbatim(history) \ Verbatim(history')) \subseteq archive
    BY <2>1, <1>1, StoredIs
  <2> QED BY <1>1, <2>1 DEF HistoryChange, Restored
<1>2. ContextInv /\ [ContextNext]_contextVars =>
        [engine' = engine =>
           (Verbatim(history) \ Verbatim(history')) \subseteq archive]_contextVars
  BY <1>1, ContextStep, ContextRest
<1> QED BY ContextIsKept, <1>2, PTL DEF ContextSpec, ArchivedFirst

(* What a summary has replaced never comes back with an older copy.        *)
THEOREM NoOldCopyReturns == ContextSpec => SummariesStay
<1>1. ASSUME ContextInv, HistoryChange
      PROVE  (Verbatim(history') \cap added) \subseteq Verbatim(history)
  <2>1. lastId + 1 \notin added
    BY <1>1, ContextTypes
  <2>2. CASE Restored
    BY <1>1, <2>2, RestoredIs
  <2>3. ASSUME NEW t \in Tools, Stored(t) PROVE Verbatim(history') \subseteq Verbatim(history)
    BY <1>1, <2>3, StoredIs
  <2> QED BY <1>1, <2>1, <2>2, <2>3 DEF HistoryChange
<1>2. ContextInv /\ [ContextNext]_contextVars =>
        [(Verbatim(history') \cap added) \subseteq Verbatim(history)]_contextVars
  BY <1>1, ContextStep, ContextRest
<1> QED BY ContextIsKept, <1>2, PTL DEF ContextSpec, SummariesStay

-----------------------------------------------------------------------------
(* UIBridge.                                                               *)

USE BridgeAssumption DEF Events, Producers

(* What a channel holds after a send ...                                   *)
LEMMA RangeAppend ==
  ASSUME NEW S, NEW s \in Seq(S), NEW x \in S
  PROVE  Range(Append(s, x)) = Range(s) \cup {x}
<1> DEFINE t == Append(s, x)
<1>1. /\ DOMAIN t = 1..(Len(s) + 1) /\ DOMAIN s = 1..Len(s)
      /\ Len(s) \in Nat
  OBVIOUS
<1>2. t[Len(s) + 1] = x /\ \A i \in DOMAIN s : t[i] = s[i]
  OBVIOUS
<1>3. \A i \in DOMAIN t : i \in DOMAIN s \/ i = Len(s) + 1
  BY <1>1
<1>4. DOMAIN s \subseteq DOMAIN t /\ Len(s) + 1 \in DOMAIN t
  BY <1>1
<1> HIDE DEF t
<1> QED BY <1>2, <1>3, <1>4 DEF Range, t

(* ... and after a receive.                                                *)
LEMMA RangeTail ==
  ASSUME NEW S, NEW s \in Seq(S), s # <<>>
  PROVE  Range(s) \subseteq {Head(s)} \cup Range(Tail(s))
<1> SUFFICES ASSUME NEW i \in DOMAIN s
             PROVE  s[i] \in {Head(s)} \cup Range(Tail(s))
  BY DEF Range
<1>1. i \in 1..Len(s) /\ Len(s) \in Nat
  OBVIOUS
<1>2. CASE i = 1
  BY <1>2
<1>3. CASE i # 1
  <2>1. i - 1 \in 1..(Len(s) - 1)
    BY <1>1, <1>3
  <2>2. i - 1 \in DOMAIN Tail(s) /\ Tail(s)[i - 1] = s[i]
    BY <2>1
  <2> QED BY <2>2 DEF Range
<1> QED BY <1>2, <1>3

-----------------------------------------------------------------------------
(* Type correctness.                                                       *)

(* NewBridge: nothing is published, nothing listens.                       *)
LEMMA TypeInit == Init => TypeOK
<1> SUFFICES ASSUME Init PROVE TypeOK
  OBVIOUS
<1>1. SessionType
  BY DEF Init, SessionType
<1>2. ListenType
  <2>1. queue \in Seq(Events) /\ rendered \in Seq(Events) /\ Len(queue) = 0
    BY DEF Init
  <2>2. listener = "unborn" /\ current = 0 /\ dead = FALSE /\ panicked = FALSE
    BY DEF Init
  <2>3. Len(queue) <= Capacity /\ current \in Events \cup {0}
    BY <2>1, <2>2
  <2>4. /\ listener \in {"unborn", "spawned", "select", "render", "drain",
                         "drainRender", "leaving", "ended", "never"}
        /\ listener \notin {"render", "drainRender"}
    BY <2>2
  <2> HIDE BridgeAssumption DEF Events
  <2> QED BY <2>1, <2>2, <2>3, <2>4, Zenon DEF ListenType
<1>3. PublishType
  BY DEF Init, PublishType
<1>4. CatalogType
  BY DEF Init, CatalogType
<1> QED BY <1>1, <1>2, <1>3, <1>4 DEF TypeOK

(* A step of the publishers changes neither the session nor the listener.  *)
LEMMA PublisherType ==
  ASSUME TypeOK, NEW p \in Producers, Producer(p)
  PROVE  TypeOK'
<1> USE DEF Return, Proceed
<1>e. event[p] \in Events /\ producer[p] # "idle"
  BY DEF TypeOK, PublishType, Producer, HandleEvent, Guards, Accept,
         SendPanic, Shed, SeeExpired, SeeDead
<1>1. SessionType'
  BY DEF Producer, HandleEvent, Guards, Accept, SendPanic, Shed, SeeExpired,
         SeeDead, session, TypeOK, SessionType
<1>2. ListenType'
  <2>1. CASE Accept(p)
    BY <2>1, <1>e DEF Accept, HasRoom, listen, TypeOK, ListenType
  <2>2. CASE ~Accept(p)
    <3>1. UNCHANGED <<queue, listen>>
      BY <2>2 DEF Producer, HandleEvent, Guards, SendPanic, Shed, SeeExpired,
                  SeeDead
    <3> QED BY <3>1 DEF listen, TypeOK, ListenType
  <2> QED BY <2>1, <2>2
<1>3. \/ \E o \in {"accepted", "shed", "lost", "expired", "dead"} : Return(p, o)
      \/ \E pc \in {"guards", "send"} : Proceed(p, pc)
  BY DEF Producer, HandleEvent, Guards, Accept, SendPanic, Shed, SeeExpired,
         SeeDead
<1>4. PublishType'
  <2> USE DEF TypeOK, PublishType
  <2>1. CASE \E o \in {"accepted", "shed", "lost", "expired", "dead"} : Return(p, o)
    BY <2>1
  <2>2. CASE \E pc \in {"guards", "send"} : Proceed(p, pc)
    BY <2>2, <1>e
  <2> QED BY <1>3, <2>1, <2>2
<1>5. CatalogType'
  <2>1. UNCHANGED catalog
    BY DEF Producer, HandleEvent, Guards, Accept, SendPanic, Shed, SeeExpired,
           SeeDead
  <2> QED BY <1>e, <1>3, <2>1 DEF catalog, TypeOK, CatalogType
<1> QED BY <1>1, <1>2, <1>4, <1>5 DEF TypeOK

(* Every step of the publishers, of Listen and of the session keeps it.    *)
LEMMA TypeStep == TypeOK /\ [Next]_vars => TypeOK'
<1> SUFFICES ASSUME TypeOK, [Next]_vars PROVE TypeOK'
  OBVIOUS
<1>1. ASSUME NEW p \in Producers, Publish(p) PROVE TypeOK'
  <2>1. SessionType' /\ ListenType'
    BY <1>1 DEF Publish, session, listen, TypeOK, SessionType, ListenType
  <2>2. PublishType'
    BY <1>1 DEF Publish, TypeOK, PublishType, CatalogType
  <2>3. CatalogType'
    BY <1>1 DEF Publish, TypeOK, CatalogType
  <2> QED BY <2>1, <2>2, <2>3 DEF TypeOK
<1>2. ASSUME NEW p \in Producers, Producer(p) PROVE TypeOK'
  BY <1>2, PublisherType
<1>3. ASSUME NEW p \in Producers, Expire(p) PROVE TypeOK'
  <2>1. SessionType' /\ ListenType' /\ CatalogType'
    BY <1>3 DEF Expire, session, listen, catalog, TypeOK, SessionType,
                ListenType, CatalogType
  <2>2. PublishType'
    BY <1>3 DEF Expire, TypeOK, PublishType
  <2> QED BY <2>1, <2>2 DEF TypeOK
<1>4. CASE Listener \/ Renderer
  <2>1. UNCHANGED <<session, catalog, publish>>
    BY <1>4 DEF Listener, Renderer, Start, Receive, SeeKilled, SeeClosed,
                Drained, WorkerDone, LeaveLoop, Rendered, RenderPanic
  <2>2. SessionType' /\ PublishType' /\ CatalogType'
    BY <2>1 DEF session, catalog, publish, TypeOK, SessionType, PublishType,
                CatalogType
  <2>3. ListenType'
    <3> USE DEF TypeOK, ListenType
    <3>1. CASE Receive
      <4>1. Head(queue) \in Events /\ Tail(queue) \in Seq(Events)
            /\ Len(Tail(queue)) <= Capacity
        BY <3>1 DEF Receive
      <4> QED BY <3>1, <4>1 DEF Receive
    <3>2. CASE Rendered
      BY <3>2 DEF Rendered
    <3>3. CASE RenderPanic \/ SeeClosed \/ Drained
      BY <3>3 DEF RenderPanic, SeeClosed, Drained, LeaveLoop
    <3>4. CASE Start \/ SeeKilled \/ WorkerDone
      BY <3>4 DEF Start, SeeKilled, WorkerDone
    <3> QED BY <1>4, <3>1, <3>2, <3>3, <3>4 DEF Listener, Renderer
  <2> QED BY <2>2, <2>3 DEF TypeOK
<1>5. CASE Listen \/ AbortStart \/ ChatReturns \/ Teardown
  <2> USE <1>5 DEF Listen, AbortStart, ChatReturns, Teardown, Shutdown, Flag,
                   Close, Cleaned, CleanupTimeout, GraceOver, Move
  <2>1. SessionType'
    BY DEF TypeOK, SessionType
  <2>2. ListenType'
    BY DEF TypeOK, ListenType
  <2>3. PublishType' /\ CatalogType'
    BY DEF catalog, publish, TypeOK, PublishType, CatalogType
  <2> QED BY <2>1, <2>2, <2>3 DEF TypeOK
<1>6. CASE UNCHANGED vars
  BY <1>6 DEF vars, session, listen, catalog, publish, TypeOK, SessionType,
              ListenType, PublishType, CatalogType
<1> QED BY <1>1, <1>2, <1>3, <1>4, <1>5, <1>6 DEF Next, Done

(* Every variable keeps its type, and the channel its capacity.            *)
THEOREM TypeCorrect == Spec => []TypeOK
<1> QED BY TypeInit, TypeStep, PTL DEF Spec

-----------------------------------------------------------------------------
(* The inductive invariant.                                                *)

(* Nothing is accepted, nothing closed.                                    *)
LEMMA InvInit == Init => BridgeInv
<1> SUFFICES ASSUME Init PROVE BridgeInv
  OBVIOUS
<1>1. SessionInv
  BY DEF Init, SessionInv
<1>2. ListenInv
  <2>1. Accepted = {}
    BY DEF Init, Accepted
  <2> QED BY <2>1 DEF Init, ListenInv
<1>3. ProducerInv /\ EngineDelivers
  BY DEF Init, ProducerInv, EngineDelivers
<1> QED BY <1>1, <1>2, <1>3 DEF BridgeInv

(* The outcome of one event changes; nothing is accepted by it unless o    *)
(* says so, and it is the publisher's own event.                           *)
LEMMA ReturnInv ==
  ASSUME TypeOK, BridgeInv, NEW p \in Producers, producer[p] # "idle",
         NEW o \in {"accepted", "shed", "lost", "expired", "dead"},
         Return(p, o), UNCHANGED <<main, catalog>>
  PROVE  /\ ProducerInv'
         /\ Accepted' \subseteq Accepted \cup {event[p]}
         /\ o # "accepted" => Accepted' \subseteq Accepted
         /\ \A e \in Events : e # event[p] => outcome'[e] = outcome[e]
         /\ outcome'[event[p]] = o /\ from[event[p]] = p
<1> USE DEF Return
<1>1. /\ event[p] \in Events /\ event[p] \in 1..published
      /\ from[event[p]] = p /\ DOMAIN outcome = Events /\ published \in Nat
  <2>1. event[p] \in 1..published /\ from[event[p]] = p
    BY DEF BridgeInv, ProducerInv
  <2>2. event[p] \in Events
    BY <2>1 DEF TypeOK, PublishType
  <2>3. DOMAIN outcome = Events /\ published \in Nat
    BY DEF TypeOK, CatalogType
  <2> QED BY <2>1, <2>2, <2>3
<1>2. /\ \A e \in Events : e # event[p] => outcome'[e] = outcome[e]
      /\ outcome'[event[p]] = o
  BY <1>1 DEF Return
<1>3. Accepted' \subseteq Accepted \cup {event[p]}
  BY <1>2 DEF Accepted
<1>4. o # "accepted" => Accepted' \subseteq Accepted
  BY <1>2 DEF Accepted
<1>5. ProducerInv'
  <2>1. producer' = [producer EXCEPT ![p] = "idle"]
        /\ event' = [event EXCEPT ![p] = 0]
    OBVIOUS
  <2>2. main' # "chat" => producer'["engine"] = "idle"
    BY <2>1 DEF TypeOK, PublishType, BridgeInv, ProducerInv
  <2>3. ASSUME NEW q \in Producers, producer'[q] # "idle"
        PROVE  event'[q] \in 1..published' /\ from'[event'[q]] = q
    <3>1. q # p /\ producer'[q] = producer[q] /\ event'[q] = event[q]
      BY <2>1, <2>3 DEF TypeOK, PublishType
    <3> QED BY <2>3, <3>1 DEF catalog, BridgeInv, ProducerInv
  <2>4. \A e \in Events : e > published' => outcome'[e] = "none"
    <3> SUFFICES ASSUME NEW e \in Events, e > published
                 PROVE  outcome'[e] = "none"
      BY DEF catalog
    <3>1. e # event[p]
      BY <1>1
    <3> QED BY <1>2, <3>1 DEF BridgeInv, ProducerInv
  <2> QED BY <2>2, <2>3, <2>4 DEF ProducerInv
<1> QED BY <1>1, <1>2, <1>3, <1>4, <1>5

(* The end of a publication: only Accept adds to what was accepted, and    *)
(* with it to the channel, which is open.                                  *)
LEMMA PublisherInv ==
  ASSUME TypeOK, BridgeInv, NEW p \in Producers, Producer(p)
  PROVE  BridgeInv'
<1>1. /\ UNCHANGED <<session, listen, catalog>>
      /\ producer[p] # "idle" /\ event[p] \in Events
  BY DEF Producer, HandleEvent, Guards, Accept, SendPanic, Shed, SeeExpired,
         SeeDead, TypeOK, PublishType
<1>2. SessionInv'
  BY <1>1 DEF session, listen, BridgeInv, SessionInv, WorkersDone
<1>3. CASE \E pc \in {"guards", "send"} : Proceed(p, pc) /\ UNCHANGED queue
  <2>1. UNCHANGED <<outcome, event>> /\ Accepted' = Accepted
    BY <1>3 DEF Proceed, Accepted
  <2>2. ListenInv' /\ EngineDelivers'
    BY <1>1, <1>3, <2>1 DEF session, listen, catalog, BridgeInv, ListenInv,
                            EngineDelivers
  <2>3. ProducerInv'
    <3>1. \A q \in Producers : producer'[q] # "idle" => producer[q] # "idle"
      BY <1>1, <1>3 DEF Proceed, TypeOK, PublishType
    <3>2. producer' \in [Producers -> {"idle", "bus", "guards", "send"}]
      BY <1>3 DEF Proceed, TypeOK, PublishType
    <3> QED BY <1>1, <2>1, <3>1, <3>2 DEF session, catalog, BridgeInv, ProducerInv
  <2> QED BY <1>2, <2>2, <2>3 DEF BridgeInv
<1>4. CASE \E o \in {"shed", "lost", "expired", "dead"} :
             /\ Return(p, o) /\ UNCHANGED queue
             /\ o = "shed" => flagged \/ ~critical[event[p]]
             /\ o = "lost" => closed
             /\ o = "dead" => dead
  <2>1. PICK o \in {"shed", "lost", "expired", "dead"} :
             /\ Return(p, o) /\ UNCHANGED queue
             /\ o = "shed" => flagged \/ ~critical[event[p]]
             /\ o = "lost" => closed
             /\ o = "dead" => dead
    BY <1>4
  <2>2. /\ ProducerInv' /\ Accepted' \subseteq Accepted
        /\ \A e \in Events : e # event[p] => outcome'[e] = outcome[e]
        /\ outcome'[event[p]] = o /\ from[event[p]] = p
    BY <1>1, <2>1, ReturnInv DEF session
  <2>3. ListenInv'
    BY <1>1, <2>1, <2>2 DEF session, listen, BridgeInv, ListenInv
  <2>4. EngineDelivers'
    <3>1. p = "engine" => ~flagged /\ ~closed /\ (dead => panicked)
      BY <1>1 DEF BridgeInv, SessionInv, ListenInv, ProducerInv
    <3> SUFFICES ASSUME NEW e \in Events, from[e] = "engine", critical[e]
                 PROVE  \/ outcome'[e] \in {"none", "accepted", "expired"}
                        \/ outcome'[e] = "dead" /\ panicked
      BY <1>1 DEF EngineDelivers, catalog, listen
    <3>2. CASE e # event[p]
      BY <2>2, <3>2 DEF BridgeInv, EngineDelivers
    <3>3. CASE e = event[p]
      BY <2>1, <2>2, <3>1, <3>3
    <3> QED BY <3>2, <3>3
  <2> QED BY <1>2, <2>2, <2>3, <2>4 DEF BridgeInv
<1>5. CASE Accept(p)
  <2>1. /\ ~closed /\ queue' = Append(queue, event[p]) /\ Return(p, "accepted")
    BY <1>5 DEF Accept
  <2>2. /\ ProducerInv' /\ Accepted' \subseteq Accepted \cup {event[p]}
        /\ \A e \in Events : e # event[p] => outcome'[e] = outcome[e]
        /\ outcome'[event[p]] = "accepted"
    BY <1>1, <2>1, ReturnInv DEF session
  <2>3. Range(queue') = Range(queue) \cup {event[p]}
    <3>1. queue \in Seq(Events) /\ event[p] \in Events
      BY <1>1 DEF TypeOK, ListenType
    <3>2. Range(Append(queue, event[p])) = Range(queue) \cup {event[p]}
      BY <3>1, RangeAppend
    <3> QED BY <2>1, <3>2
  <2>4. ListenInv'
    BY <1>1, <2>1, <2>2, <2>3 DEF session, listen, BridgeInv, ListenInv
  <2>5. EngineDelivers'
    BY <1>1, <2>2 DEF catalog, listen, BridgeInv, EngineDelivers
  <2> QED BY <1>2, <2>2, <2>4, <2>5 DEF BridgeInv
<1>6. CASE HandleEvent(p)
  BY <1>3, <1>4, <1>6 DEF HandleEvent
<1>7. CASE Guards(p)
  BY <1>3, <1>4, <1>7 DEF Guards
<1>8. CASE SendPanic(p) \/ Shed(p) \/ SeeExpired(p) \/ SeeDead(p)
  BY <1>4, <1>8 DEF SendPanic, Shed, SeeExpired, SeeDead
<1> QED BY <1>5, <1>6, <1>7, <1>8 DEF Producer

(* Listen hands each event from the channel to the screen, and leaves      *)
(* nothing behind unless the renderer panicked.                            *)
LEMMA ListenerInv ==
  ASSUME TypeOK, BridgeInv, Listener \/ Renderer
  PROVE  BridgeInv'
<1>1. UNCHANGED <<session, catalog, publish>> /\ Accepted' = Accepted
  BY DEF Listener, Renderer, Start, Receive, SeeKilled, SeeClosed, Drained,
         WorkerDone, LeaveLoop, Rendered, RenderPanic, publish, Accepted
<1>2. ProducerInv'
  BY <1>1 DEF session, catalog, publish, BridgeInv, ProducerInv
<1>3. CASE Receive
  <2>1. Range(queue) \subseteq {current'} \cup Range(queue')
    <3>1. queue \in Seq(Events) /\ queue # <<>>
      BY <1>3 DEF Receive, TypeOK, ListenType
    <3>2. Range(queue) \subseteq {Head(queue)} \cup Range(Tail(queue))
      BY <3>1, RangeTail
    <3> QED BY <1>3, <3>2 DEF Receive
  <2>2. ListenInv'
    <3>1. /\ listener \in {"select", "drain"} /\ current = 0 /\ ~dead
          /\ listener = "drain" => killed
      BY <1>3 DEF Receive, BridgeInv, ListenInv
    <3>2. /\ listener' \in {"render", "drainRender"}
          /\ listener' = "drainRender" => killed
          /\ UNCHANGED <<rendered, dead, panicked, killed>>
      BY <1>1, <1>3, <3>1 DEF Receive, session
    <3>3. ~panicked =>
            Accepted \subseteq Range(rendered) \cup Range(queue')
                                 \cup {current'}
      BY <2>1, <3>1 DEF BridgeInv, ListenInv, Accepted
    <3> QED BY <1>1, <3>1, <3>2, <3>3 DEF ListenInv
  <2>3. SessionInv' /\ EngineDelivers'
    BY <1>1, <1>3 DEF Receive, session, catalog, publish, BridgeInv,
                      SessionInv, EngineDelivers, WorkersDone
  <2> QED BY <1>2, <2>2, <2>3 DEF BridgeInv
<1>4. CASE Rendered
  <2>1. Range(rendered') = Range(rendered) \cup {current}
    <3>1. rendered \in Seq(Events) /\ current \in Events
      BY <1>4 DEF Rendered, TypeOK, ListenType
    <3>2. rendered' = Append(rendered, current)
      BY <1>4 DEF Rendered
    <3>3. Range(Append(rendered, current)) = Range(rendered) \cup {current}
      BY <3>1, RangeAppend
    <3> QED BY <3>2, <3>3
  <2>2. ListenInv'
    BY <1>1, <1>4, <2>1 DEF Rendered, session, BridgeInv, ListenInv
  <2>3. SessionInv' /\ EngineDelivers'
    BY <1>1, <1>4 DEF Rendered, session, catalog, publish, BridgeInv,
                      SessionInv, EngineDelivers, WorkersDone
  <2> QED BY <1>2, <2>2, <2>3 DEF BridgeInv
<1>5. CASE RenderPanic \/ SeeClosed \/ Drained
  <2>1. /\ listener' = "leaving" /\ dead' /\ current' = 0
        /\ UNCHANGED <<queue, rendered>>
        /\ listener \notin {"ended", "never", "unborn"}
        /\ \/ panicked'
           \/ panicked' = panicked /\ current = 0 /\ queue = <<>> /\ closed
    BY <1>5 DEF RenderPanic, SeeClosed, Drained, LeaveLoop, BridgeInv,
                ListenInv, SessionInv
  <2>2. ListenInv'
    BY <1>1, <2>1 DEF session, BridgeInv, ListenInv
  <2>3. SessionInv'
    BY <1>1, <2>1 DEF session, BridgeInv, SessionInv, WorkersDone
  <2>4. panicked => panicked'
    BY <1>5 DEF RenderPanic, SeeClosed, Drained
  <2>5. EngineDelivers'
    BY <1>1, <2>4 DEF catalog, publish, BridgeInv, EngineDelivers
  <2> QED BY <1>2, <2>2, <2>3, <2>5 DEF BridgeInv
<1>6. CASE Start \/ SeeKilled \/ WorkerDone
  <2> USE DEF Start, SeeKilled, WorkerDone
  <2>1. ListenInv'
    BY <1>1, <1>6 DEF session, BridgeInv, ListenInv
  <2>2. SessionInv' /\ EngineDelivers'
    BY <1>1, <1>6 DEF session, catalog, publish, BridgeInv, SessionInv,
                      EngineDelivers, WorkersDone
  <2> QED BY <1>2, <2>1, <2>2 DEF BridgeInv
<1> QED BY <1>3, <1>4, <1>5, <1>6 DEF Listener, Renderer

(* The session starts Listen before Chat, and closes the channel only when *)
(* the engine is silent.                                                   *)
LEMMA SessionStep ==
  ASSUME TypeOK, BridgeInv, Listen \/ AbortStart \/ ChatReturns \/ Teardown
  PROVE  BridgeInv'
<1> USE DEF Listen, AbortStart, ChatReturns, Teardown, Shutdown, Flag, Close,
            Cleaned, CleanupTimeout, GraceOver, Move
<1>1. UNCHANGED <<queue, current, dead, panicked, rendered, catalog, publish>>
      /\ Accepted' = Accepted
  BY DEF publish, Accepted
<1>2. SessionInv'
  <2> USE DEF BridgeInv, SessionInv, WorkersDone
  <2>1. CASE Listen \/ AbortStart \/ ChatReturns
    BY <2>1
  <2>2. CASE Shutdown \/ Flag \/ Close
    BY <2>2
  <2>3. CASE Cleaned \/ GraceOver
    <3>1. main = "grace" => timedOut
      BY <2>3
    <3> QED BY <2>3, <3>1
  <2>4. CASE CleanupTimeout
    BY <2>4
  <2> QED BY <2>1, <2>2, <2>3, <2>4
<1>3. ListenInv'
  <2>1. closed => closed'
    OBVIOUS
  <2>2. CASE listener' = listener
    <3>1. listener \in {"drain", "drainRender"} /\ killed => killed'
      BY <2>2
    <3> QED BY <1>1, <2>1, <2>2, <3>1 DEF BridgeInv, ListenInv
  <2>3. CASE listener = "unborn" /\ listener' \in {"spawned", "never"}
    BY <1>1, <2>1, <2>3 DEF BridgeInv, ListenInv
  <2> QED BY <2>2, <2>3 DEF BridgeInv, SessionInv
<1>4. ProducerInv'
  <2>1. main' # "chat" => producer["engine"] = "idle"
    BY DEF BridgeInv, ProducerInv
  <2> QED BY <1>1, <2>1 DEF catalog, publish, BridgeInv, ProducerInv
<1>5. EngineDelivers'
  BY <1>1 DEF catalog, publish, BridgeInv, EngineDelivers
<1> QED BY <1>2, <1>3, <1>4, <1>5 DEF BridgeInv

(* SafePublish begins: the event is new, and refused only when the bus is  *)
(* closed, which the engine never meets.                                   *)
LEMMA PublishInv ==
  ASSUME TypeOK, BridgeInv, NEW p \in Producers, Publish(p)
  PROVE  BridgeInv'
<1> DEFINE e == published + 1
<1>1. /\ UNCHANGED <<session, queue, listen, expired>>
      /\ producer[p] = "idle" /\ published' = e /\ e \in Events
      /\ main # "chat" => p = "tool"
      /\ published \in Nat
  BY DEF Publish, TypeOK, CatalogType
<1>2. /\ from' = [from EXCEPT ![e] = p]
      /\ \E c \in BOOLEAN : critical' = [critical EXCEPT ![e] = c]
  BY DEF Publish
<1>3. outcome[e] = "none"
  BY <1>1 DEF BridgeInv, ProducerInv
<1>4. \/ /\ busClosed /\ outcome' = [outcome EXCEPT ![e] = "refused"]
         /\ UNCHANGED <<producer, event>>
      \/ /\ ~busClosed /\ UNCHANGED outcome
         /\ producer' = [producer EXCEPT ![p] = "bus"]
         /\ event' = [event EXCEPT ![p] = e]
  BY DEF Publish
<1>5. \A f \in Events : f # e => /\ outcome'[f] = outcome[f]
                                 /\ from'[f] = from[f]
                                 /\ critical'[f] = critical[f]
  BY <1>1, <1>2, <1>4 DEF TypeOK, CatalogType
<1>6. /\ from'[e] = p /\ outcome'[e] \in {"none", "refused"}
      /\ outcome'[e] = "refused" => busClosed
  BY <1>1, <1>2, <1>3, <1>4 DEF TypeOK, CatalogType
<1>7. Accepted' = Accepted
  <2>1. \A f \in Events : outcome'[f] = "accepted" <=> outcome[f] = "accepted"
    BY <1>3, <1>5, <1>6
  <2> QED BY <2>1 DEF Accepted
<1> HIDE DEF e
<1>8. SessionInv' /\ ListenInv'
  BY <1>1, <1>7 DEF session, listen, BridgeInv, SessionInv, ListenInv,
                    WorkersDone
<1>9. ProducerInv'
  <2>1. main' # "chat" => producer'["engine"] = "idle"
    BY <1>1, <1>4 DEF session, TypeOK, PublishType, BridgeInv, ProducerInv
  <2>2. ASSUME NEW q \in Producers, producer'[q] # "idle"
        PROVE  event'[q] \in 1..published' /\ from'[event'[q]] = q
    <3>1. CASE q = p
      <4>1. event'[q] = e
        BY <1>1, <1>4, <2>2, <3>1 DEF TypeOK, PublishType
      <4> QED BY <1>1, <1>6, <3>1, <4>1
    <3>2. CASE q # p
      <4>1. producer'[q] = producer[q] /\ event'[q] = event[q]
        BY <1>4, <3>2 DEF TypeOK, PublishType
      <4>2. event[q] \in 1..published /\ from[event[q]] = q
        BY <2>2, <4>1 DEF BridgeInv, ProducerInv
      <4>3. event[q] \in Events /\ event[q] # e /\ event[q] \in 1..published'
        BY <1>1, <4>2 DEF e
      <4> QED BY <1>5, <4>1, <4>2, <4>3
    <3> QED BY <3>1, <3>2
  <2>3. \A f \in Events : f > published' => outcome'[f] = "none"
    <3> SUFFICES ASSUME NEW f \in Events, f > e PROVE outcome'[f] = "none"
      BY <1>1
    <3>1. f > published /\ f # e
      BY <1>1 DEF e
    <3> QED BY <1>5, <3>1 DEF BridgeInv, ProducerInv
  <2> QED BY <2>1, <2>2, <2>3 DEF ProducerInv
<1>10. EngineDelivers'
  <2> SUFFICES ASSUME NEW f \in Events, from'[f] = "engine", critical'[f]
               PROVE  \/ outcome'[f] \in {"none", "accepted", "expired"}
                      \/ outcome'[f] = "dead" /\ panicked'
    BY DEF EngineDelivers
  <2>1. CASE f = e
    <3>1. main = "chat" /\ ~busClosed
      BY <1>1, <1>6, <2>1 DEF BridgeInv, SessionInv
    <3> QED BY <1>6, <2>1, <3>1 DEF session
  <2>2. CASE f # e
    BY <1>1, <1>5, <2>2 DEF listen, BridgeInv, EngineDelivers
  <2> QED BY <2>1, <2>2
<1> QED BY <1>8, <1>9, <1>10 DEF BridgeInv

(* Each action keeps the invariant.                                        *)
LEMMA InvStep == TypeOK /\ BridgeInv /\ [Next]_vars => BridgeInv'
<1> SUFFICES ASSUME TypeOK, BridgeInv, [Next]_vars PROVE BridgeInv'
  OBVIOUS
<1>1. ASSUME NEW p \in Producers, Publish(p) PROVE BridgeInv'
  BY <1>1, PublishInv
<1>2. ASSUME NEW p \in Producers, Producer(p) PROVE BridgeInv'
  BY <1>2, PublisherInv
<1>3. ASSUME NEW p \in Producers, Expire(p) PROVE BridgeInv'
  <2>1. UNCHANGED <<session, queue, listen, catalog, producer, event, outcome>>
    BY <1>3 DEF Expire
  <2> QED BY <2>1 DEF session, listen, catalog, BridgeInv, SessionInv,
                      ListenInv, ProducerInv, EngineDelivers, Accepted,
                      WorkersDone
<1>4. CASE Listener \/ Renderer
  BY <1>4, ListenerInv
<1>5. CASE Listen \/ AbortStart \/ ChatReturns \/ Teardown
  BY <1>5, SessionStep
<1>6. CASE UNCHANGED vars
  BY <1>6 DEF vars, session, listen, catalog, publish, BridgeInv, SessionInv,
              ListenInv, ProducerInv, EngineDelivers, Accepted, WorkersDone
<1> QED BY <1>1, <1>2, <1>3, <1>4, <1>5, <1>6 DEF Next, Done

(* The inductive invariant holds throughout a session.                     *)
THEOREM InvCorrect == Spec => []BridgeInv
<1> QED BY InvInit, InvStep, TypeCorrect, PTL DEF Spec

-----------------------------------------------------------------------------
(* The promises of the bridge.                                             *)

(* Once Listen has ended, and when teardown returns in time, every event   *)
(* that the queue accepted has been rendered, unless the renderer panicked.*)
THEOREM AcceptedIsShown == Spec => []AcceptedShown
<1>1. TypeOK /\ BridgeInv => AcceptedShown
  <2> SUFFICES ASSUME TypeOK, BridgeInv, ~panicked,
                      \/ listener = "ended"
                      \/ main = "done" /\ ~timedOut /\ listener # "never"
               PROVE  Accepted \subseteq Range(rendered)
    BY DEF AcceptedShown
  <2>1. listener = "ended"
    BY DEF BridgeInv, SessionInv, WorkersDone
  <2>2. queue = <<>> /\ current = 0
    BY <2>1 DEF BridgeInv, ListenInv
  <2>3. Range(queue) = {} /\ 0 \notin Accepted
    BY <2>2 DEF Range, Accepted
  <2> QED BY <2>2, <2>3 DEF BridgeInv, ListenInv
<1> QED BY <1>1, TypeCorrect, InvCorrect, PTL

(* A critical event of the engine is accepted, or the engine waited for    *)
(* room until its deadline, or the renderer had panicked.                  *)
THEOREM EngineIsHeard == Spec => []EngineDelivers
<1>1. BridgeInv => EngineDelivers
  BY DEF BridgeInv
<1> QED BY <1>1, InvCorrect, PTL

-----------------------------------------------------------------------------
(* The refinement of EventChannel.                                         *)

(* What is being published has no outcome yet, so that nothing comes into  *)
(* the channel twice; nothing is published to a listener that is not there,*)
(* and a panic has ended it.                                               *)
OnceInv ==
  /\ panicked => dead
  /\ listener \in {"unborn", "never"} =>
       queue = <<>> /\ \A p \in Producers : producer[p] = "idle"
  /\ \A p \in Producers : producer[p] # "idle" => outcome[event[p]] = "none"

(* An event in front of others.                                            *)
LEMMA InFront ==
  ASSUME NEW S, NEW s \in Seq(S), NEW c \in S
  PROVE  LET t == <<c>> \o s IN
         /\ t \in Seq(S) /\ t # <<>> /\ Len(t) = Len(s) + 1
         /\ Head(t) = c /\ Tail(t) = s
         /\ \A x \in S : Append(t, x) = <<c>> \o Append(s, x)
<1> DEFINE t == <<c>> \o s
<1>1. t \in Seq(S) /\ t # <<>> /\ Len(t) = Len(s) + 1 /\ Head(t) = c
  OBVIOUS
<1>2. t[1] = c /\ \A i \in 1..Len(s) : t[i + 1] = s[i]
  OBVIOUS
<1>3. Tail(t) = s
  <2>1. Tail(t) \in Seq(S) /\ Len(Tail(t)) = Len(s)
    BY <1>1
  <2>2. \A i \in 1..Len(s) : Tail(t)[i] = s[i]
    BY <1>1, <1>2
  <2> HIDE DEF t
  <2> QED BY <2>1, <2>2, SeqEqual
<1>4. ASSUME NEW x \in S PROVE Append(t, x) = <<c>> \o Append(s, x)
  <2> DEFINE u == Append(t, x)
             v == <<c>> \o Append(s, x)
  <2>1. u \in Seq(S) /\ v \in Seq(S) /\ Len(u) = Len(s) + 2 /\ Len(v) = Len(s) + 2
    OBVIOUS
  <2>2. ASSUME NEW i \in 1..(Len(s) + 2) PROVE u[i] = v[i]
    <3>1. CASE i = 1
      BY <3>1
    <3>2. CASE i \in 2..(Len(s) + 1)
      BY <3>2
    <3>3. CASE i = Len(s) + 2
      BY <3>3
    <3> QED BY <3>1, <3>2, <3>3
  <2> HIDE DEF u, v
  <2> QED BY <2>1, <2>2, SeqEqual
<1> QED BY <1>1, <1>3, <1>4

(* What waits: the event in the listener's hands, and the channel.         *)
LEMMA PendingIs ==
  ASSUME TypeOK
  PROVE  /\ Pending \in Seq(Events) /\ rendered \in Seq(Events) /\ queue \in Seq(Events)
         /\ Len(Pending) <= Len(queue) + 1 /\ Len(queue) \in Nat /\ Capacity \in Nat
         /\ current = 0 => Pending = queue
         /\ current # 0 => /\ current \in Events /\ Pending # <<>>
                           /\ Head(Pending) = current /\ Tail(Pending) = queue
<1>1. queue \in Seq(Events) /\ rendered \in Seq(Events) /\ current \in Events \cup {0}
  BY DEF TypeOK, ListenType
<1>2. CASE current = 0
  BY <1>1, <1>2 DEF Pending
<1>3. CASE current # 0
  <2> DEFINE t == <<current>> \o queue
  <2>1. /\ t \in Seq(Events) /\ t # <<>> /\ Len(t) = Len(queue) + 1
        /\ Head(t) = current /\ Tail(t) = queue
    BY <1>1, <1>3, InFront
  <2>2. Pending = t
    BY <1>3 DEF Pending
  <2> HIDE DEF t
  <2> QED BY <1>1, <1>3, <2>1, <2>2
<1> QED BY <1>2, <1>3

(* A publication begins on an idle bus, of an event with no outcome.       *)
LEMMA OnceInit == Init => OnceInv
<1> SUFFICES ASSUME Init PROVE OnceInv
  OBVIOUS
<1> QED BY DEF Init, OnceInv

(* What the channel shows of a step that leaves it alone.                  *)
ChannelRests == UNCHANGED <<Accepted, queue, current, rendered, closed, Fate>>
ChannelStep  == OnceInv' /\ (Channel!Next \/ UNCHANGED Channel!channel)

LEMMA Rests == ChannelRests => UNCHANGED Channel!channel
BY DEF ChannelRests, Channel!channel, Pending

(* A publication ends: its event has an outcome now and no other's has.    *)
LEMMA ReturnOnce ==
  ASSUME TypeOK, BridgeInv, OnceInv, NEW p \in Producers, producer[p] # "idle",
         NEW o \in {"accepted", "shed", "lost", "expired", "dead"},
         Return(p, o), UNCHANGED <<main, catalog>>
  PROVE  /\ event[p] \in Events \ Accepted
         /\ Accepted' = IF o = "accepted" THEN Accepted \cup {event[p]} ELSE Accepted
         /\ \A q \in Producers : producer'[q] # "idle" =>
              producer[q] # "idle" /\ outcome'[event'[q]] = "none"
<1>1. /\ \A e \in Events : e # event[p] => outcome'[e] = outcome[e]
      /\ outcome'[event[p]] = o /\ from[event[p]] = p
  BY ReturnInv
<1>2. event[p] \in Events /\ outcome[event[p]] = "none"
  BY DEF TypeOK, PublishType, OnceInv
<1>3. ASSUME NEW q \in Producers, producer'[q] # "idle"
      PROVE  producer[q] # "idle" /\ outcome'[event'[q]] = "none"
  <2>1. q # p /\ producer[q] # "idle" /\ event'[q] = event[q]
    BY <1>3 DEF Return, TypeOK, PublishType
  <2>2. event[q] \in Events /\ outcome[event[q]] = "none" /\ from[event[q]] = q
    BY <2>1 DEF TypeOK, PublishType, OnceInv, BridgeInv, ProducerInv
  <2> QED BY <1>1, <2>1, <2>2
<1> QED BY <1>1, <1>2, <1>3 DEF Accepted

(* A publisher adds an event that was never in the channel, while it is    *)
(* open and has room, or leaves it alone.                                  *)
LEMMA PublisherChannel ==
  ASSUME TypeOK, BridgeInv, OnceInv, NEW p \in Producers, Producer(p)
  PROVE  ChannelStep
<1>1. /\ UNCHANGED <<session, listen, catalog>> /\ producer[p] # "idle"
      /\ event[p] \in Events
  BY DEF Producer, HandleEvent, Guards, Accept, SendPanic, Shed, SeeExpired, SeeDead,
         TypeOK, PublishType
<1>2. UNCHANGED <<main, timedOut, closed, listener, current, dead, panicked, rendered, Fate>>
  BY <1>1 DEF session, listen, Fate, Over
<1>3. listener \notin {"unborn", "never"}
  BY <1>1 DEF OnceInv
<1>4. CASE \E pc \in {"guards", "send"} : Proceed(p, pc) /\ UNCHANGED queue
  <2>1. UNCHANGED <<outcome, event, Accepted, Pending>>
    BY <1>2, <1>4 DEF Proceed, Accepted, Pending
  <2>2. \A q \in Producers : producer'[q] # "idle" => producer[q] # "idle"
    BY <1>1, <1>4 DEF Proceed, TypeOK, PublishType
  <2>3. OnceInv'
    BY <1>2, <1>3, <2>1, <2>2 DEF OnceInv
  <2>4. ChannelRests
    BY <1>2, <1>4, <2>1 DEF ChannelRests
  <2> QED BY <2>3, <2>4, Rests DEF ChannelStep
<1>5. CASE \E o \in {"shed", "lost", "expired", "dead"} : Return(p, o) /\ UNCHANGED queue
  <2>1. PICK o \in {"shed", "lost", "expired", "dead"} : Return(p, o) /\ UNCHANGED queue
    BY <1>5
  <2>2. /\ UNCHANGED Accepted
        /\ \A q \in Producers : producer'[q] # "idle" => outcome'[event'[q]] = "none"
    BY <1>1, <1>2, <2>1, ReturnOnce
  <2>3. OnceInv'
    BY <1>2, <1>3, <2>2 DEF OnceInv
  <2>4. ChannelRests
    BY <1>2, <2>1, <2>2 DEF ChannelRests
  <2> QED BY <2>3, <2>4, Rests DEF ChannelStep
<1>6. CASE Accept(p)
  <2> DEFINE e == event[p]
  <2>1. /\ ~closed /\ queue' = Append(queue, e) /\ Return(p, "accepted")
        /\ Len(queue) < Capacity
    BY <1>6 DEF Accept, HasRoom
  <2>2. /\ e \in Events \ Accepted /\ Accepted' = Accepted \cup {e}
        /\ \A q \in Producers : producer'[q] # "idle" => outcome'[event'[q]] = "none"
    BY <1>1, <1>2, <2>1, ReturnOnce
  <2> HIDE DEF e
  <2>3. Pending' = Append(Pending, e)
    <3>1. queue \in Seq(Events) /\ current \in Events \cup {0}
      BY DEF TypeOK, ListenType
    <3>2. CASE current = 0
      BY <1>2, <2>1, <3>2 DEF Pending
    <3>3. CASE current # 0
      <4>1. Append(<<current>> \o queue, e) = <<current>> \o Append(queue, e)
        BY <2>2, <3>1, <3>3, InFront
      <4> QED BY <1>2, <2>1, <3>3, <4>1 DEF Pending
    <3> QED BY <3>2, <3>3
  <2>4. OnceInv'
    BY <1>2, <1>3, <2>2 DEF OnceInv
  <2>5. Len(Pending) <= Capacity
    BY <2>1, PendingIs
  <2>6. ~closed /\ UNCHANGED <<rendered, closed, Fate>>
    BY <1>2, <2>1
  <2>7. Channel!Accept(e)
    BY <2>2, <2>3, <2>5, <2>6 DEF Channel!Accept
  <2> QED BY <2>2, <2>4, <2>7 DEF ChannelStep, Channel!Next
<1>7. CASE HandleEvent(p)
  BY <1>4, <1>5, <1>7 DEF HandleEvent
<1>8. CASE Guards(p)
  BY <1>4, <1>5, <1>8 DEF Guards
<1>9. CASE SendPanic(p) \/ Shed(p) \/ SeeExpired(p) \/ SeeDead(p)
  BY <1>5, <1>9 DEF SendPanic, Shed, SeeExpired, SeeDead
<1> QED BY <1>6, <1>7, <1>8, <1>9 DEF Producer

(* A publication begins: nothing comes into the channel yet.               *)
LEMMA PublishChannel ==
  ASSUME TypeOK, BridgeInv, OnceInv, NEW p \in Producers, Publish(p)
  PROVE  ChannelStep
<1> DEFINE e == published + 1
<1>1. /\ UNCHANGED <<session, queue, listen>> /\ e \in Events
      /\ listener \notin {"unborn", "never"}
  BY DEF Publish, TypeOK, CatalogType, Events, BridgeInv, SessionInv, Producers, BridgeAssumption
<1>2. UNCHANGED <<closed, current, rendered, listener, dead, panicked, Pending, Fate>>
  BY <1>1 DEF session, listen, Fate, Over, Pending
<1>3. outcome[e] = "none" /\ \A q \in Producers : producer[q] # "idle" => event[q] # e
  BY <1>1 DEF BridgeInv, ProducerInv, TypeOK, CatalogType
<1>4. /\ \A x \in Events : x # e => outcome'[x] = outcome[x]
      /\ outcome'[e] \in {"none", "refused"}
      /\ \A q \in Producers : producer'[q] # "idle" =>
           /\ event'[q] \in Events
           /\ outcome'[event'[q]] = "none"
  <2>1. CASE busClosed
    <3>1. outcome' = [outcome EXCEPT ![e] = "refused"] /\ UNCHANGED <<producer, event>>
      BY <2>1 DEF Publish
    <3>2. \A q \in Producers : producer[q] # "idle" =>
            event[q] \in Events /\ outcome[event[q]] = "none"
      BY DEF OnceInv, TypeOK, PublishType
    <3> HIDE DEF e
    <3> QED BY <1>1, <1>3, <3>1, <3>2 DEF TypeOK, CatalogType
  <2>2. CASE ~busClosed
    <3>1. /\ producer' = [producer EXCEPT ![p] = "bus"]
          /\ event' = [event EXCEPT ![p] = e] /\ UNCHANGED outcome
      BY <2>2 DEF Publish
    <3>2. \A q \in Producers : producer[q] # "idle" =>
            event[q] \in Events /\ outcome[event[q]] = "none"
      BY DEF OnceInv, TypeOK, PublishType
    <3> HIDE DEF e
    <3> QED BY <1>1, <1>3, <3>1, <3>2 DEF TypeOK, PublishType
  <2> QED BY <2>1, <2>2
<1>5. UNCHANGED Accepted
  <2>1. \A x \in Events : outcome'[x] = "accepted" <=> outcome[x] = "accepted"
    BY <1>3, <1>4
  <2> QED BY <2>1 DEF Accepted
<1>6. OnceInv'
  BY <1>1, <1>2, <1>4 DEF OnceInv
<1>7. ChannelRests
  BY <1>1, <1>2, <1>5 DEF ChannelRests
<1> QED BY <1>6, <1>7, Rests DEF ChannelStep

(* What publishers are at does not change.                                 *)
LEMMA OnceKept ==
  ASSUME OnceInv, UNCHANGED <<catalog, publish>>,
         panicked' => dead',
         listener' \in {"unborn", "never"} => listener' = listener /\ queue' = queue
  PROVE  OnceInv' /\ UNCHANGED Accepted
<1>1. UNCHANGED <<producer, event, outcome, Accepted>>
  BY DEF publish, Accepted
<1>2. listener' \in {"unborn", "never"} =>
        queue' = <<>> /\ \A p \in Producers : producer'[p] = "idle"
  BY <1>1 DEF OnceInv
<1>3. \A p \in Producers : producer'[p] # "idle" => outcome'[event'[p]] = "none"
  BY <1>1 DEF OnceInv
<1> QED BY <1>1, <1>2, <1>3 DEF OnceInv

(* The deadline of a publication passes.                                   *)
LEMMA ExpireChannel ==
  ASSUME OnceInv, NEW p \in Producers, Expire(p)
  PROVE  ChannelStep
<1>1. UNCHANGED <<session, queue, listen, producer, event, outcome>>
  BY DEF Expire
<1>2. /\ UNCHANGED <<queue, current, rendered, closed, Fate, Pending, Accepted>>
      /\ UNCHANGED <<listener, dead, panicked>>
  BY <1>1 DEF session, listen, Fate, Over, Pending, Accepted
<1>3. OnceInv'
  BY <1>1, <1>2 DEF OnceInv
<1>4. ChannelRests
  BY <1>2 DEF ChannelRests
<1> QED BY <1>3, <1>4, Rests DEF ChannelStep

(* The listener takes an event, shows it or breaks over it, and ends with  *)
(* an empty and closed channel.                                            *)
LEMMA ListenerChannel ==
  ASSUME TypeOK, BridgeInv, OnceInv, Listener \/ Renderer
  PROVE  ChannelStep
<1>1. UNCHANGED <<session, catalog, publish>>
  BY DEF Listener, Renderer, Start, Receive, SeeKilled, SeeClosed, Drained, WorkerDone,
         Rendered, RenderPanic, LeaveLoop
<1>2. UNCHANGED <<main, closed, timedOut>>
  BY <1>1 DEF session
<1>3. main = "done" /\ ~timedOut => listener \in {"ended", "never"}
  BY DEF BridgeInv, SessionInv, WorkersDone
<1>4. CASE Start \/ SeeKilled \/ SeeClosed \/ Drained
  <2>1. /\ UNCHANGED <<queue, rendered, panicked>>
        /\ current' = current /\ (dead => dead')
        /\ listener # "ended" /\ listener' \in {"select", "drain", "leaving"}
        /\ listener \notin {"ended", "never"}
    BY <1>4 DEF Start, SeeKilled, SeeClosed, Drained, LeaveLoop, BridgeInv, ListenInv
  <2>2. UNCHANGED <<Fate, Pending>>
    BY <1>2, <1>3, <2>1 DEF Fate, Over, Pending
  <2>3. OnceInv' /\ UNCHANGED Accepted
    <3>1. panicked' => dead'
      BY <2>1 DEF OnceInv
    <3> QED BY <1>1, <2>1, <3>1, OnceKept
  <2>4. ChannelRests
    BY <1>2, <2>1, <2>2, <2>3 DEF ChannelRests
  <2> QED BY <2>3, <2>4, Rests DEF ChannelStep
<1>5. CASE Receive
  <2>1. /\ queue # <<>> /\ current = 0 /\ current' = Head(queue) /\ queue' = Tail(queue)
        /\ UNCHANGED <<dead, panicked, rendered>>
        /\ listener \in {"select", "drain"} /\ listener' \in {"render", "drainRender"}
    BY <1>5 DEF Receive, BridgeInv, ListenInv
  <2>2. UNCHANGED Fate
    BY <1>2, <1>3, <2>1 DEF Fate, Over
  <2>3. Pending' = Pending
    <3>1. queue \in Seq(Events)
      BY DEF TypeOK, ListenType
    <3>2. Head(queue) \in Events /\ Head(queue) # 0
      BY <2>1, <3>1 DEF Events
    <3>3. <<Head(queue)>> \o Tail(queue) = queue
      <4> DEFINE t == <<Head(queue)>> \o Tail(queue)
      <4>1. t \in Seq(Events) /\ Len(t) = Len(queue)
        BY <2>1, <3>1
      <4>2. ASSUME NEW i \in 1..Len(queue) PROVE t[i] = queue[i]
        <5>1. CASE i = 1
          BY <2>1, <3>1, <5>1
        <5>2. CASE i # 1
          BY <2>1, <3>1, <5>2
        <5> QED BY <5>1, <5>2
      <4>3. t = queue
        <5> HIDE DEF t
        <5> QED BY <3>1, <4>1, <4>2, SeqEqual
      <4> QED BY <4>3
    <3> QED BY <2>1, <3>2, <3>3 DEF Pending
  <2>4. OnceInv' /\ UNCHANGED Accepted
    BY <1>1, <2>1, OnceKept DEF OnceInv
  <2>5. UNCHANGED Channel!channel
    BY <1>2, <2>1, <2>2, <2>3, <2>4 DEF Channel!channel
  <2> QED BY <2>4, <2>5 DEF ChannelStep
<1>6. CASE Rendered
  <2>1. /\ rendered' = Append(rendered, current) /\ current' = 0 /\ current # 0
        /\ UNCHANGED <<queue, dead, panicked>>
        /\ listener \in {"render", "drainRender"} /\ listener' \in {"select", "drain"}
    BY <1>6 DEF Rendered, TypeOK, ListenType
  <2>2. ~panicked
    BY <2>1 DEF OnceInv, BridgeInv, ListenInv
  <2>3. Fate = "showing" /\ UNCHANGED Fate
    BY <1>2, <1>3, <2>1, <2>2 DEF Fate, Over
  <2>4. /\ Pending # <<>> /\ Head(Pending) = current /\ Tail(Pending) = queue
    BY <2>1, PendingIs
  <2>5. Pending' = queue
    BY <2>1 DEF Pending
  <2>6. OnceInv' /\ UNCHANGED Accepted
    BY <1>1, <2>1, <2>2, OnceKept
  <2>7. Channel!Show
    BY <1>2, <2>1, <2>3, <2>4, <2>5, <2>6 DEF Channel!Show
  <2> QED BY <2>6, <2>7 DEF ChannelStep, Channel!Next
<1>7. CASE RenderPanic
  <2>1. /\ current' = 0 /\ current # 0 /\ panicked' = TRUE /\ dead' = TRUE
        /\ UNCHANGED <<queue, rendered>>
        /\ listener \in {"render", "drainRender"} /\ listener' = "leaving"
    BY <1>7 DEF RenderPanic, LeaveLoop, TypeOK, ListenType
  <2>2. ~panicked
    BY <2>1 DEF OnceInv, BridgeInv, ListenInv
  <2>3. Fate = "showing" /\ Fate' = "broken"
    BY <1>2, <1>3, <2>1, <2>2 DEF Fate, Over
  <2>4. /\ Pending # <<>> /\ Tail(Pending) = queue
    BY <2>1, PendingIs
  <2>5. Pending' = queue
    BY <2>1 DEF Pending
  <2>6. OnceInv' /\ UNCHANGED Accepted
    BY <1>1, <2>1, OnceKept
  <2>7. Channel!Break
    BY <1>2, <2>1, <2>3, <2>4, <2>5, <2>6 DEF Channel!Break
  <2> QED BY <2>6, <2>7 DEF ChannelStep, Channel!Next
<1>8. CASE WorkerDone
  <2>1. /\ UNCHANGED <<queue, current, dead, panicked, rendered>>
        /\ listener = "leaving" /\ listener' = "ended"
    BY <1>8 DEF WorkerDone
  <2>2. UNCHANGED Pending
    BY <2>1 DEF Pending
  <2>3. OnceInv' /\ UNCHANGED Accepted
    <3>1. panicked' => dead'
      BY <2>1 DEF OnceInv
    <3> QED BY <1>1, <2>1, <3>1, OnceKept
  <2>4. CASE panicked
    <3>1. UNCHANGED Fate
      BY <2>1, <2>4 DEF Fate
    <3>2. ChannelRests
      BY <1>2, <2>1, <2>3, <3>1 DEF ChannelRests
    <3> QED BY <2>3, <3>2, Rests DEF ChannelStep
  <2>5. CASE ~panicked
    <3>1. closed /\ queue = <<>> /\ current = 0
      BY <2>1, <2>5 DEF BridgeInv, ListenInv
    <3>2. Pending = <<>>
      BY <3>1 DEF Pending
    <3>3. Fate = "showing" /\ Fate' = "over"
      BY <1>3, <2>1, <2>5 DEF Fate, Over
    <3>4. Channel!End
      BY <1>2, <2>1, <2>2, <2>3, <3>1, <3>2, <3>3 DEF Channel!End
    <3> QED BY <2>3, <3>4 DEF ChannelStep, Channel!Next
  <2> QED BY <2>4, <2>5
<1> QED BY <1>4, <1>5, <1>6, <1>7, <1>8 DEF Listener, Renderer

(* The session closes the channel, and counts it as ended when it has seen *)
(* the worker done or has never started it.                                *)
LEMMA SessionChannel ==
  ASSUME TypeOK, BridgeInv, OnceInv, Listen \/ AbortStart \/ ChatReturns \/ Teardown
  PROVE  ChannelStep
<1>1. UNCHANGED <<queue, current, dead, panicked, rendered, catalog, publish>>
  BY DEF Listen, AbortStart, ChatReturns, Teardown, Shutdown, Flag, Close, Cleaned,
         CleanupTimeout, GraceOver, Move
<1>2. UNCHANGED <<Accepted, Pending>>
  BY <1>1 DEF publish, Accepted, Pending
<1>3. OnceInv'
  <2>1. /\ \A p \in Producers : producer'[p] = producer[p]
        /\ listener' \in {"unborn", "never"} => listener \in {"unborn", "never"}
    BY <1>1 DEF publish, Listen, AbortStart, ChatReturns, Teardown, Shutdown, Flag, Close,
                Cleaned, CleanupTimeout, GraceOver, BridgeInv, SessionInv
  <2>2. UNCHANGED <<producer, event, outcome>>
    BY <1>1 DEF publish
  <2> QED BY <1>1, <2>1, <2>2 DEF OnceInv
<1>4. CASE Close
  <2>1. closed' = TRUE /\ main = "closing" /\ main' = "wait" /\ UNCHANGED <<timedOut, listener>>
    BY <1>4 DEF Close, Move
  <2>2. ~closed
    BY <2>1 DEF BridgeInv, SessionInv
  <2>3. UNCHANGED <<Fate>>
    BY <1>1, <2>1 DEF Fate, Over
  <2>4. Channel!Close
    BY <1>1, <1>2, <2>1, <2>2, <2>3 DEF Channel!Close
  <2> QED BY <1>3, <2>4 DEF ChannelStep, Channel!Next
<1>5. CASE Cleaned
  <2>1. /\ main \in {"wait", "grace"} /\ main' = "done" /\ WorkersDone
        /\ UNCHANGED <<closed, timedOut, listener>>
    BY <1>5 DEF Cleaned, Move
  <2>2. CASE Fate' = Fate
    BY <1>1, <1>2, <1>3, <2>1, <2>2 DEF ChannelStep, Channel!channel
  <2>3. CASE Fate' # Fate
    <3>1. ~panicked /\ listener = "never"
      BY <1>1, <2>1, <2>3 DEF Fate, Over, WorkersDone
    <3>2. Fate = "showing" /\ Fate' = "over"
      BY <1>1, <2>1, <2>3, <3>1 DEF Fate, Over
    <3>3. closed /\ queue = <<>> /\ current = 0
      BY <2>1, <3>1 DEF OnceInv, BridgeInv, SessionInv, ListenInv
    <3>4. Pending = <<>>
      BY <3>3 DEF Pending
    <3>5. Channel!End
      BY <1>1, <1>2, <2>1, <3>2, <3>3, <3>4 DEF Channel!End
    <3> QED BY <1>3, <3>5 DEF ChannelStep, Channel!Next
  <2> QED BY <2>2, <2>3
<1>6. CASE Listen \/ AbortStart \/ ChatReturns \/ Shutdown \/ Flag \/ CleanupTimeout \/ GraceOver
  <2>1. /\ UNCHANGED closed
        /\ main # "done" /\ main' = "done" => timedOut'
        /\ listener' = "ended" <=> listener = "ended"
    BY <1>6 DEF Listen, AbortStart, ChatReturns, Shutdown, Flag, CleanupTimeout, GraceOver, Move,
                BridgeInv, SessionInv
  <2>2. main # "done"
    BY <1>6 DEF Listen, AbortStart, ChatReturns, Shutdown, Flag, CleanupTimeout, GraceOver
  <2>3. UNCHANGED Fate
    BY <1>1, <2>1, <2>2 DEF Fate, Over
  <2>4. ChannelRests
    BY <1>1, <1>2, <2>1, <2>3 DEF ChannelRests
  <2> QED BY <1>3, <2>4, Rests DEF ChannelStep
<1> QED BY <1>4, <1>5, <1>6 DEF Teardown

LEMMA ChannelNext ==
  TypeOK /\ BridgeInv /\ OnceInv /\ [Next]_vars => ChannelStep
<1> SUFFICES ASSUME TypeOK, BridgeInv, OnceInv, [Next]_vars PROVE ChannelStep
  OBVIOUS
<1>1. CASE UNCHANGED vars
  <2>1. UNCHANGED <<session, queue, listen, catalog, publish>>
    BY <1>1 DEF vars
  <2>2. /\ UNCHANGED <<queue, current, rendered, closed, Fate, Pending, Accepted>>
        /\ UNCHANGED <<listener, dead, panicked, producer, event, outcome>>
    BY <2>1 DEF session, listen, publish, Fate, Over, Pending, Accepted
  <2>3. OnceInv'
    BY <2>2 DEF OnceInv
  <2>4. ChannelRests
    BY <2>2 DEF ChannelRests
  <2> QED BY <2>3, <2>4, Rests DEF ChannelStep
<1>2. CASE Listen \/ AbortStart \/ ChatReturns \/ Teardown
  BY <1>2, SessionChannel
<1>3. CASE Listener \/ Renderer
  BY <1>3, ListenerChannel
<1>4. ASSUME NEW p \in Producers, Publish(p) \/ Producer(p) \/ Expire(p)
      PROVE  ChannelStep
  BY <1>4, PublishChannel, PublisherChannel, ExpireChannel
<1> QED BY <1>1, <1>2, <1>3, <1>4 DEF Next, Done

(* The bridge is the channel it promises: whatever the order in which two  *)
(* publishers, the listener and the teardown come, events are shown in the *)
(* order in which they were accepted, each once, and it ends with nothing  *)
(* left in it unless the renderer has panicked.                            *)
THEOREM BridgeImplementsChannel == Spec => ImplementsChannel
<1>1. Init => Channel!Init
  <2> SUFFICES ASSUME Init PROVE Channel!Init
    OBVIOUS
  <2>1. /\ Accepted = {} /\ Pending = <<>> /\ rendered = <<>>
        /\ closed = FALSE /\ Fate = "showing"
    BY DEF Init, Accepted, Pending, Fate, Over
  <2> QED BY <2>1 DEF Channel!Init
<1>2. TypeOK /\ BridgeInv /\ OnceInv /\ [Next]_vars => OnceInv'
  BY ChannelNext DEF ChannelStep
<1>3. TypeOK /\ BridgeInv /\ OnceInv /\ [Next]_vars => [Channel!Next]_(Channel!channel)
  BY ChannelNext DEF ChannelStep
<1> QED BY <1>1, <1>2, <1>3, OnceInit, TypeCorrect, InvCorrect, PTL
        DEF Spec, ImplementsChannel, Channel!Spec
=============================================================================
