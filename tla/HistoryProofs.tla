--------------------------- MODULE HistoryProofs ---------------------------
(***************************************************************************)
(* Proofs about the package internal/infrastructure/history.  The history  *)
(* store: the file read back is the memory, the store implements           *)
(* HistoryLog, and a rollback forgets what a retry counts.  The log of     *)
(* prompts: a compaction changes nothing that anybody could load.          *)
(*                                                                         *)
(* Replay, Edited and TopUnique are recursive functions.  Induction over   *)
(* their length is done on sets of numbers (SetInduction), which is        *)
(* first-order.                                                            *)
(***************************************************************************)
EXTENDS HistoryStore, PromptLog, WellFoundedInduction, NaturalsInduction,
        FiniteSetTheorems, TLAPS

-----------------------------------------------------------------------------
(* Induction.                                                              *)

(* A set that holds 0 and the successor of each number it holds, holds     *)
(* every number.                                                           *)
LEMMA SetInduction ==
  ASSUME NEW S, 0 \in S, \A k \in Nat : k \in S => k + 1 \in S
  PROVE  Nat \subseteq S
<1> DEFINE T == Nat \ S
           R == OpToRel(<, Nat)
<1> SUFFICES ASSUME T # {} PROVE FALSE
  OBVIOUS
<1>1. IsWellFoundedOn(R, Nat)
  BY NatLessThanWellFounded
<1>2. T \subseteq Nat
  OBVIOUS
<1>3. \E x \in T : \A y \in T : ~ (<<y, x>> \in R)
  <2> HIDE DEF T, R
  <2> QED BY <1>1, <1>2, WFMin
<1>4. PICK x \in T : \A y \in T : ~ (<<y, x>> \in R)
  BY <1>3
<1>5. x - 1 \in T
  OBVIOUS
<1>6. <<x - 1, x>> \in R
  BY <1>5 DEF OpToRel
<1> QED BY <1>4, <1>5, <1>6

(* A non-empty set of numbers with an upper bound has a maximum.           *)
LEMMA MaxExists ==
  ASSUME NEW n \in Nat, NEW S \in SUBSET (1..n), S # {}
  PROVE  Max(S) \in S /\ \A y \in S : y <= Max(S)
<1> DEFINE B == {b \in Nat : S \cap (1..b) = {} \/ \E x \in S : \A y \in S : y <= b => y <= x}
<1>1. 0 \in B
  OBVIOUS
<1>2. ASSUME NEW b \in Nat, b \in B PROVE b + 1 \in B
  <2>1. CASE b + 1 \in S
    BY <2>1
  <2>2. CASE b + 1 \notin S
    BY <2>2, <1>2
  <2> QED BY <2>1, <2>2
<1>3. n \in B
  <2> HIDE DEF B
  <2> QED BY <1>1, <1>2, SetInduction
<1>4. \E x \in S : \A y \in S : y <= x
  <2>1. \A y \in S : y \in 1..n /\ y <= n
    OBVIOUS
  <2>2. S \cap (1..n) # {}
    BY <2>1
  <2> QED BY <1>3, <2>1, <2>2
<1>5. \E x \in S : \A y \in S : x >= y
  BY <1>4
<1> QED BY <1>5 DEF Max

-----------------------------------------------------------------------------
(* The lines of the file.                                                  *)

FileLine == Line \cup {Torn}

(* A line adds a message, or changes one and keeps its role.               *)
LEMMA ApplyType ==
  ASSUME NEW c \in Contents, NEW l \in FileLine
  PROVE  /\ ApplyLine(c, l) \in Contents
         /\ Len(ApplyLine(c, l)) = IF l.type = "msg" THEN Len(c) + 1 ELSE Len(c)
         /\ \A i \in 1..Len(c) : ApplyLine(c, l)[i].role = c[i].role
<1>1. CASE l.type = "msg"
  <2>1. l.msg \in MessageType
    BY <1>1 DEF FileLine, Line, Torn
  <2>2. ApplyLine(c, l) = Append(c, l.msg)
    BY <1>1 DEF ApplyLine
  <2> QED BY <1>1, <2>1, <2>2 DEF Contents
<1>2. CASE l.type = "parts" /\ l.index \in DOMAIN c
  <2>1. l.part \in PartType
    BY <1>2 DEF FileLine, Line, Torn
  <2>2. ApplyLine(c, l) = [c EXCEPT ![l.index].parts = Append(@, l.part)]
    BY <1>2 DEF ApplyLine
  <2>3. c[l.index] \in MessageType /\ l.index \in 1..Len(c)
    BY <1>2 DEF Contents
  <2> DEFINE m == [c[l.index] EXCEPT !.parts = Append(@, l.part)]
  <2>4. m \in MessageType /\ m.role = c[l.index].role
    <3>1. Append(c[l.index].parts, l.part) \in Seq(PartType)
      BY <2>1, <2>3 DEF MessageType
    <3> QED BY <2>3, <3>1 DEF MessageType
  <2>5. ApplyLine(c, l) = [c EXCEPT ![l.index] = m]
    BY <2>2
  <2> HIDE DEF m
  <2> QED BY <1>2, <2>3, <2>4, <2>5 DEF Contents
<1>3. CASE l.type = "pin" /\ l.index \in DOMAIN c
  <2>1. l.pinned \in BOOLEAN
    BY <1>3 DEF FileLine, Line, Torn
  <2>2. ApplyLine(c, l) = [c EXCEPT ![l.index].pinned = l.pinned]
    BY <1>3 DEF ApplyLine
  <2>3. c[l.index] \in MessageType /\ l.index \in 1..Len(c)
    BY <1>3 DEF Contents
  <2> DEFINE m == [c[l.index] EXCEPT !.pinned = l.pinned]
  <2>4. m \in MessageType /\ m.role = c[l.index].role
    BY <2>1, <2>3 DEF MessageType
  <2>5. ApplyLine(c, l) = [c EXCEPT ![l.index] = m]
    BY <2>2
  <2> HIDE DEF m
  <2> QED BY <1>3, <2>3, <2>4, <2>5 DEF Contents
<1>4. CASE /\ l.type # "msg"
           /\ ~(l.type = "parts" /\ l.index \in DOMAIN c)
           /\ ~(l.type = "pin" /\ l.index \in DOMAIN c)
  BY <1>4 DEF ApplyLine
<1> QED BY <1>1, <1>2, <1>3, <1>4

(* A torn line changes nothing.                                            *)
LEMMA ApplyTorn == ASSUME NEW c PROVE ApplyLine(c, Torn) = c
BY DEF ApplyLine, Torn

-----------------------------------------------------------------------------
(* Reading the file: what Replay returns.                                  *)

Body(f, r) ==
  [k \in 0..Len(f) |-> IF k = 0 THEN <<>> ELSE ApplyLine(r[k - 1], f[k])]

(* The recursion has a solution.                                           *)
LEMMA BodyExists ==
  ASSUME NEW f \in Seq(FileLine)
  PROVE  \E r : r = Body(f, r)
<1> DEFINE G(n, r) == [k \in 0..n |-> IF k = 0 THEN <<>> ELSE ApplyLine(r[k - 1], f[k])]
           S == {n \in Nat : \E r : r = G(n, r)}
<1>1. 0 \in S
  <2> DEFINE r == [k \in 0..0 |-> <<>>]
  <2>1. r = G(0, r)
    OBVIOUS
  <2> QED BY <2>1
<1>2. ASSUME NEW n \in Nat, n \in S PROVE n + 1 \in S
  <2>1. PICK r : r = G(n, r)
    BY <1>2
  <2> DEFINE s == [k \in 0..(n + 1) |-> IF k = n + 1 THEN ApplyLine(r[n], f[n + 1]) ELSE r[k]]
  <2>2. ASSUME NEW k \in 0..(n + 1) PROVE s[k] = G(n + 1, s)[k]
    <3>1. CASE k = n + 1
      <4>1. s[n] = r[n]
        OBVIOUS
      <4> QED BY <3>1, <4>1
    <3>2. CASE k = 0
      BY <3>2, <2>1
    <3>3. CASE k \in 1..n
      <4>1. s[k - 1] = r[k - 1] /\ s[k] = r[k]
        BY <3>3
      <4>2. r[k] = ApplyLine(r[k - 1], f[k])
        BY <3>3, <2>1
      <4> HIDE DEF s
      <4> QED BY <3>3, <4>1, <4>2
    <3> QED BY <3>1, <3>2, <3>3
  <2>3. s = G(n + 1, s)
    BY <2>2
  <2> HIDE DEF s
  <2> QED BY <2>3
<1>3. Len(f) \in S
  <2> HIDE DEF S
  <2> QED BY <1>1, <1>2, SetInduction
<1> QED BY <1>3 DEF Body

(* Two files that begin with the same lines are read alike up to there.    *)
LEMMA SameReading ==
  ASSUME NEW f \in Seq(FileLine), NEW g \in Seq(FileLine), NEW r, NEW s,
         r = Body(f, r), s = Body(g, s), NEW n \in Nat,
         n <= Len(f), n <= Len(g), \A k \in 1..n : f[k] = g[k]
  PROVE  r[n] = s[n]
<1> DEFINE S == {k \in Nat : k <= n => r[k] = s[k]}
<1>1. 0 \in S
  BY DEF Body
<1>2. ASSUME NEW k \in Nat, k \in S PROVE k + 1 \in S
  <2> SUFFICES ASSUME k + 1 <= n PROVE r[k + 1] = s[k + 1]
    OBVIOUS
  <2>1. r[k] = s[k] /\ f[k + 1] = g[k + 1]
    BY <1>2
  <2>2. r[k + 1] = ApplyLine(r[k], f[k + 1]) /\ s[k + 1] = ApplyLine(s[k], g[k + 1])
    BY DEF Body
  <2> QED BY <2>1, <2>2
<1>3. n \in S
  <2> HIDE DEF S
  <2> QED BY <1>1, <1>2, SetInduction
<1> QED BY <1>3

(* The reading of a file: what its lines stand for, one after the other.   *)
LEMMA Reading ==
  ASSUME NEW f \in Seq(FileLine)
  PROVE  \E r : r = Body(f, r) /\ \A k \in 0..Len(f) : r[k] = Replay(SubSeq(f, 1, k))
<1> DEFINE c(h) == CHOOSE r : r = Body(h, r)
<1>1. ASSUME NEW h \in Seq(FileLine) PROVE c(h) = Body(h, c(h))
  BY <1>1, BodyExists
<1>2. ASSUME NEW h PROVE Replay(h) = c(h)[Len(h)]
  BY DEF Replay, Body
<1>3. ASSUME NEW k \in 0..Len(f) PROVE c(f)[k] = Replay(SubSeq(f, 1, k))
  <2> DEFINE h == SubSeq(f, 1, k)
  <2>1. h \in Seq(FileLine) /\ Len(h) = k /\ \A j \in 1..k : f[j] = h[j]
    OBVIOUS
  <2> HIDE DEF h
  <2>2. c(h) = Body(h, c(h)) /\ c(f) = Body(f, c(f))
    BY <1>1, <2>1
  <2>3. k \in Nat /\ k <= Len(f) /\ k <= Len(h)
    BY <2>1
  <2> HIDE DEF c
  <2>4. c(f)[k] = c(h)[k]
    BY <2>1, <2>2, <2>3, SameReading
  <2>5. Replay(h) = c(h)[k]
    BY <1>2, <2>1
  <2> QED BY <2>4, <2>5 DEF h
<1> HIDE DEF c
<1> QED BY <1>1, <1>3

(* The empty file reads as nothing, and each line is applied to what those *)
(* before it stand for.                                                    *)
LEMMA ReplaySteps ==
  ASSUME NEW f \in Seq(FileLine)
  PROVE  /\ SubSeq(f, 1, Len(f)) = f
         /\ Replay(SubSeq(f, 1, 0)) = <<>>
         /\ \A k \in 1..Len(f) :
              Replay(SubSeq(f, 1, k)) = ApplyLine(Replay(SubSeq(f, 1, k - 1)), f[k])
<1>1. PICK r : r = Body(f, r) /\ \A k \in 0..Len(f) : r[k] = Replay(SubSeq(f, 1, k))
  BY Reading
<1>2. r[0] = <<>>
  BY <1>1 DEF Body
<1>3. ASSUME NEW k \in 1..Len(f) PROVE r[k] = ApplyLine(r[k - 1], f[k])
  BY <1>1 DEF Body
<1>4. SubSeq(f, 1, Len(f)) = f
  OBVIOUS
<1>5. 0 \in 0..Len(f) /\ \A k \in 1..Len(f) : k \in 0..Len(f) /\ k - 1 \in 0..Len(f)
  OBVIOUS
<1> QED BY <1>1, <1>2, <1>3, <1>4, <1>5

(* An empty file is an empty history.                                      *)
LEMMA ReplayEmpty == Replay(<<>>) = <<>>
<1>1. <<>> \in Seq(FileLine) /\ SubSeq(<<>>, 1, 0) = <<>>
  OBVIOUS
<1> QED BY <1>1, ReplaySteps

(* A line appended to a file is applied to what the file was read as.      *)
LEMMA ReplayAppend ==
  ASSUME NEW f \in Seq(FileLine), NEW l \in FileLine
  PROVE  /\ Append(f, l) \in Seq(FileLine)
         /\ Replay(Append(f, l)) = ApplyLine(Replay(f), l)
         /\ \A k \in 0..Len(f) : SubSeq(Append(f, l), 1, k) = SubSeq(f, 1, k)
         /\ SubSeq(Append(f, l), 1, Len(f) + 1) = Append(f, l)
<1> DEFINE g == Append(f, l)
<1>1. /\ g \in Seq(FileLine) /\ Len(g) = Len(f) + 1 /\ g[Len(f) + 1] = l
      /\ \A k \in 0..Len(f) : SubSeq(g, 1, k) = SubSeq(f, 1, k)
      /\ SubSeq(g, 1, Len(g)) = g /\ SubSeq(f, 1, Len(f)) = f
  OBVIOUS
<1> HIDE DEF g
<1>2. Replay(SubSeq(g, 1, Len(f) + 1)) = ApplyLine(Replay(SubSeq(g, 1, Len(f))), g[Len(f) + 1])
  <2>1. Len(f) + 1 \in 1..Len(g) /\ (Len(f) + 1) - 1 = Len(f)
    BY <1>1
  <2> QED BY <1>1, <2>1, ReplaySteps
<1>3. SubSeq(g, 1, Len(f)) = f
  BY <1>1
<1> QED BY <1>1, <1>2, <1>3 DEF g

(* The file holds as many messages as there are lines of messages in it.   *)
LEMMA ReplayType ==
  ASSUME NEW f \in Seq(FileLine)
  PROVE  \A k \in 0..Len(f) :
           /\ Replay(SubSeq(f, 1, k)) \in Contents
           /\ Len(Replay(SubSeq(f, 1, k))) = Cardinality({j \in 1..k : f[j].type = "msg"})
           /\ Len(Replay(SubSeq(f, 1, k))) <= Len(Replay(f))
<1> DEFINE M(k) == {j \in 1..k : f[j].type = "msg"}
           R(k) == Replay(SubSeq(f, 1, k))
           S == {k \in Nat : k <= Len(f) => R(k) \in Contents /\ Len(R(k)) = Cardinality(M(k))}
<1>1. 0 \in S
  <2>1. R(0) = <<>>
    BY ReplaySteps
  <2>2. M(0) = {}
    OBVIOUS
  <2>3. R(0) \in Contents /\ Len(R(0)) = Cardinality(M(0))
    <3>1. Cardinality(M(0)) = 0
      BY <2>2, FS_EmptySet
    <3>2. <<>> \in Contents /\ Len(<<>>) = 0
      BY DEF Contents
    <3> HIDE DEF M, R
    <3> QED BY <2>1, <3>1, <3>2
  <2> HIDE DEF M, R
  <2> QED BY <2>3
<1>2. ASSUME NEW k \in Nat, k \in S PROVE k + 1 \in S
  <2> SUFFICES ASSUME k + 1 <= Len(f)
               PROVE  R(k + 1) \in Contents /\ Len(R(k + 1)) = Cardinality(M(k + 1))
    OBVIOUS
  <2>1. R(k) \in Contents /\ Len(R(k)) = Cardinality(M(k))
    BY <1>2
  <2>2. R(k + 1) = ApplyLine(R(k), f[k + 1])
    <3>1. k + 1 \in 1..Len(f) /\ (k + 1) - 1 = k
      OBVIOUS
    <3> QED BY <3>1, ReplaySteps
  <2>3. f[k + 1] \in FileLine
    OBVIOUS
  <2>4. IsFiniteSet(M(k)) /\ k + 1 \notin M(k)
    <3>1. IsFiniteSet(1..k)
      BY FS_Interval
    <3> QED BY <3>1, FS_Subset
  <2> HIDE DEF R
  <2>7. /\ R(k + 1) \in Contents
        /\ Len(R(k + 1)) = IF f[k + 1].type = "msg" THEN Len(R(k)) + 1 ELSE Len(R(k))
    <3> DEFINE c == R(k)
               l == f[k + 1]
    <3>1. c \in Contents /\ l \in FileLine /\ R(k + 1) = ApplyLine(c, l)
      BY <2>1, <2>2, <2>3
    <3> HIDE DEF c, l
    <3>2. /\ ApplyLine(c, l) \in Contents
          /\ Len(ApplyLine(c, l)) = IF l.type = "msg" THEN Len(c) + 1 ELSE Len(c)
      BY <3>1, ApplyType
    <3> QED BY <3>1, <3>2 DEF c, l
  <2>5. CASE f[k + 1].type = "msg"
    <3>1. M(k + 1) = M(k) \cup {k + 1}
      BY <2>5
    <3>2. Cardinality(M(k + 1)) = Cardinality(M(k)) + 1
      <4> HIDE DEF M
      <4> QED BY <2>4, <3>1, FS_AddElement
    <3> HIDE DEF M
    <3> QED BY <2>1, <2>5, <2>7, <3>2
  <2>6. CASE f[k + 1].type # "msg"
    <3>1. M(k + 1) = M(k)
      BY <2>6
    <3> HIDE DEF M
    <3> QED BY <2>1, <2>6, <2>7, <3>1
  <2> QED BY <2>5, <2>6
<1>3. ASSUME NEW k \in 0..Len(f) PROVE R(k) \in Contents /\ Len(R(k)) = Cardinality(M(k))
  <2>1. k \in S
    <3> HIDE DEF S
    <3> QED BY <1>1, <1>2, SetInduction
  <2> QED BY <2>1
<1>4. R(Len(f)) = Replay(f)
  BY ReplaySteps
<1>5. ASSUME NEW k \in 0..Len(f) PROVE Cardinality(M(k)) <= Cardinality(M(Len(f)))
  <2>1. IsFiniteSet(M(Len(f)))
    <3>1. IsFiniteSet(1..Len(f))
      BY FS_Interval
    <3> QED BY <3>1, FS_Subset
  <2>2. M(k) \subseteq M(Len(f))
    OBVIOUS
  <2> HIDE DEF M
  <2> QED BY <2>1, <2>2, FS_Subset
<1>6. Len(f) \in 0..Len(f)
  OBVIOUS
<1> HIDE DEF M
<1>7. ASSUME NEW k \in 0..Len(f) PROVE Len(R(k)) <= Len(Replay(f))
  <2> HIDE DEF R
  <2> QED BY <1>3, <1>4, <1>5, <1>6
<1> QED BY <1>3, <1>7 DEF M

(* A rewritten file reads as the history it was rewritten to.              *)
LEMMA ReplaySnapshot ==
  ASSUME NEW c \in Contents
  PROVE  /\ Snapshot(c) \in Seq(Line) /\ Len(Snapshot(c)) = Len(c)
         /\ \A k \in 1..Len(c) : Snapshot(c)[k] = MsgLine(c[k])
         /\ \A k \in 0..Len(c) : Replay(SubSeq(Snapshot(c), 1, k)) = SubSeq(c, 1, k)
         /\ Replay(Snapshot(c)) = c
<1> DEFINE f == Snapshot(c)
           R(k) == Replay(SubSeq(f, 1, k))
           S == {k \in Nat : k <= Len(c) => R(k) = SubSeq(c, 1, k)}
<1>1. /\ f \in Seq(Line) /\ f \in Seq(FileLine) /\ Len(f) = Len(c)
      /\ \A k \in 1..Len(c) : f[k] = MsgLine(c[k])
  <2>1. c \in Seq(MessageType)
    BY DEF Contents
  <2>2. \A k \in 1..Len(c) : MsgLine(c[k]) \in Line
    BY <2>1 DEF MsgLine, Line
  <2> QED BY <2>1, <2>2 DEF Snapshot, FileLine
<1> HIDE DEF f
<1>2. 0 \in S
  <2>1. R(0) = <<>>
    BY <1>1, ReplaySteps
  <2>2. R(0) = SubSeq(c, 1, 0)
    <3>1. SubSeq(c, 1, 0) = <<>>
      BY DEF Contents
    <3> HIDE DEF R
    <3> QED BY <2>1, <3>1
  <2> HIDE DEF R
  <2> QED BY <2>2
<1>3. ASSUME NEW k \in Nat, k \in S PROVE k + 1 \in S
  <2> SUFFICES ASSUME k + 1 <= Len(c) PROVE R(k + 1) = SubSeq(c, 1, k + 1)
    OBVIOUS
  <2>1. R(k) = SubSeq(c, 1, k)
    BY <1>3
  <2>2. R(k + 1) = ApplyLine(R(k), f[k + 1])
    <3>1. k + 1 \in 1..Len(f) /\ (k + 1) - 1 = k
      BY <1>1
    <3> QED BY <1>1, <3>1, ReplaySteps
  <2>3. f[k + 1] = MsgLine(c[k + 1])
    BY <1>1
  <2>4. ApplyLine(R(k), f[k + 1]) = Append(R(k), c[k + 1])
    BY <2>3 DEF ApplyLine, MsgLine
  <2>5. Append(SubSeq(c, 1, k), c[k + 1]) = SubSeq(c, 1, k + 1)
    BY DEF Contents
  <2> HIDE DEF R
  <2> QED BY <2>1, <2>2, <2>4, <2>5
<1>4. \A k \in 0..Len(c) : R(k) = SubSeq(c, 1, k)
  <2>1. Nat \subseteq S
    <3> HIDE DEF S
    <3> QED BY <1>2, <1>3, SetInduction
  <2> QED BY <2>1
<1>5. SubSeq(f, 1, Len(c)) = f /\ SubSeq(c, 1, Len(c)) = c /\ Len(c) \in 0..Len(c)
  BY <1>1 DEF Contents
<1> QED BY <1>1, <1>4, <1>5 DEF f

-----------------------------------------------------------------------------
(* What holds of every file: its patches meet their messages, and its      *)
(* first message is the user's.                                            *)

Meets(f) ==
  \A k \in 1..Len(f) : f[k].type \in {"parts", "pin"} =>
                         f[k].index <= Len(Replay(SubSeq(f, 1, k)))

FileOK(f) == Meets(f) /\ \A k \in 0..Len(f) : UserFirst(Replay(SubSeq(f, 1, k)))

(* Meets is what PatchesApply says of the file.                            *)
LEMMA PatchesMeet ==
  ASSUME NEW f \in Seq(FileLine)
  PROVE  Meets(f) <=>
           \A k \in 1..Len(f) :
             f[k].type \in {"parts", "pin"} =>
               f[k].index <= Cardinality({j \in 1..k : f[j].type = "msg"})
<1>1. ASSUME NEW k \in 1..Len(f)
      PROVE  Len(Replay(SubSeq(f, 1, k))) = Cardinality({j \in 1..k : f[j].type = "msg"})
  <2>1. k \in 0..Len(f)
    OBVIOUS
  <2> QED BY <2>1, ReplayType
<1> QED BY <1>1 DEF Meets

(* The whole file is the last of its beginnings.                           *)
LEMMA ReplayWhole ==
  ASSUME NEW f \in Seq(FileLine)
  PROVE  /\ Replay(f) \in Contents
         /\ FileOK(f) => UserFirst(Replay(f))
<1>1. Len(f) \in 0..Len(f) /\ SubSeq(f, 1, Len(f)) = f
  OBVIOUS
<1> QED BY <1>1, ReplayType DEF FileOK

(* A line that fits what is there leaves the file well formed.             *)
LEMMA FileAppend ==
  ASSUME NEW f \in Seq(FileLine), NEW l \in FileLine, FileOK(f),
         l.type \in {"parts", "pin"} => l.index <= Len(Replay(f)),
         Replay(f) = <<>> /\ l.type = "msg" => l.msg.role = "user"
  PROVE  FileOK(Append(f, l))
<1> DEFINE g == Append(f, l)
<1>1. /\ g \in Seq(FileLine) /\ Replay(g) = ApplyLine(Replay(f), l)
      /\ \A k \in 0..Len(f) : SubSeq(g, 1, k) = SubSeq(f, 1, k)
      /\ SubSeq(g, 1, Len(f) + 1) = g
  BY ReplayAppend
<1>2. Len(g) = Len(f) + 1 /\ g[Len(f) + 1] = l /\ \A k \in 1..Len(f) : g[k] = f[k]
  OBVIOUS
<1> HIDE DEF g
<1>3. Replay(f) \in Contents /\ UserFirst(Replay(f))
  BY ReplayWhole
<1>4. /\ Len(Replay(g)) = IF l.type = "msg" THEN Len(Replay(f)) + 1 ELSE Len(Replay(f))
      /\ Replay(g) \in Contents
      /\ \A i \in 1..Len(Replay(f)) : Replay(g)[i].role = Replay(f)[i].role
  <2> DEFINE c == Replay(f)
  <2>1. c \in Contents /\ Replay(g) = ApplyLine(c, l)
    BY <1>1, <1>3
  <2> HIDE DEF c
  <2>2. /\ ApplyLine(c, l) \in Contents
        /\ Len(ApplyLine(c, l)) = IF l.type = "msg" THEN Len(c) + 1 ELSE Len(c)
        /\ \A i \in 1..Len(c) : ApplyLine(c, l)[i].role = c[i].role
    BY <2>1, ApplyType
  <2> QED BY <2>1, <2>2 DEF c
<1>5. UserFirst(Replay(g))
  <2>1. CASE Replay(f) = <<>> /\ l.type = "msg"
    <3>1. Replay(g) = Append(<<>>, l.msg)
      BY <1>1, <2>1 DEF ApplyLine
    <3> QED BY <2>1, <3>1 DEF UserFirst
  <2>2. CASE Replay(f) = <<>> /\ l.type # "msg"
    BY <1>4, <2>2 DEF UserFirst, Contents
  <2>3. CASE Replay(f) # <<>>
    <3>1. 1 \in 1..Len(Replay(f))
      BY <1>3, <2>3 DEF Contents
    <3> QED BY <1>3, <1>4, <2>3, <3>1 DEF UserFirst
  <2> QED BY <2>1, <2>2, <2>3
<1>6. ASSUME NEW k \in 0..Len(g) PROVE UserFirst(Replay(SubSeq(g, 1, k)))
  <2>1. CASE k = Len(f) + 1
    BY <1>1, <1>5, <2>1
  <2>2. CASE k # Len(f) + 1
    <3>1. k \in 0..Len(f)
      BY <1>2, <2>2
    <3> QED BY <1>1, <3>1 DEF FileOK
  <2> QED BY <2>1, <2>2
<1>7. ASSUME NEW k \in 1..Len(g), g[k].type \in {"parts", "pin"}
      PROVE  g[k].index <= Len(Replay(SubSeq(g, 1, k)))
  <2>1. CASE k = Len(f) + 1
    <3>1. g[k] = l /\ SubSeq(g, 1, k) = g /\ l.type # "msg"
      BY <1>1, <1>2, <1>7, <2>1
    <3>2. Len(Replay(g)) = Len(Replay(f)) /\ l.index <= Len(Replay(f))
      BY <1>4, <1>7, <3>1
    <3> QED BY <3>1, <3>2
  <2>2. CASE k # Len(f) + 1
    <3>1. k \in 0..Len(f) /\ k \in 1..Len(f)
      BY <1>2, <2>2
    <3> QED BY <1>1, <1>2, <1>7, <3>1 DEF FileOK, Meets
  <2> QED BY <2>1, <2>2
<1> QED BY <1>6, <1>7 DEF FileOK, Meets, g

(* A file cut at the end of a line, as by a crash, is well formed.         *)
LEMMA FileCut ==
  ASSUME NEW f \in Seq(FileLine), FileOK(f), NEW k \in 0..Len(f)
  PROVE  SubSeq(f, 1, k) \in Seq(FileLine) /\ FileOK(SubSeq(f, 1, k))
<1> DEFINE g == SubSeq(f, 1, k)
<1>1. /\ g \in Seq(FileLine) /\ Len(g) = k
      /\ \A i \in 1..k : g[i] = f[i]
      /\ \A i \in 0..k : SubSeq(g, 1, i) = SubSeq(f, 1, i)
  OBVIOUS
<1> HIDE DEF g
<1>2. \A i \in 1..k : i \in 1..Len(f) /\ i \in 0..k
  OBVIOUS
<1>3. \A i \in 0..k : i \in 0..Len(f)
  OBVIOUS
<1> QED BY <1>1, <1>2, <1>3 DEF FileOK, Meets, g

(* A file that was rewritten is well formed.                               *)
LEMMA FileSnapshot ==
  ASSUME NEW c \in Contents, UserFirst(c)
  PROVE  FileOK(Snapshot(c))
<1>1. /\ Snapshot(c) \in Seq(Line) /\ Len(Snapshot(c)) = Len(c)
      /\ \A k \in 1..Len(c) : Snapshot(c)[k] = MsgLine(c[k])
      /\ \A k \in 0..Len(c) : Replay(SubSeq(Snapshot(c), 1, k)) = SubSeq(c, 1, k)
  BY ReplaySnapshot
<1>2. \A k \in 1..Len(c) : MsgLine(c[k]).type = "msg"
  BY DEF MsgLine
<1>3. ASSUME NEW k \in 0..Len(c) PROVE UserFirst(SubSeq(c, 1, k))
  BY DEF UserFirst, Contents
<1> QED BY <1>1, <1>2, <1>3 DEF FileOK, Meets

-----------------------------------------------------------------------------
(* The operations: what they append or rewrite.                            *)

After(ls) == IF Len(ls) = 1 THEN ApplyLine(mem, ls[1])
             ELSE ApplyLine(ApplyLine(mem, ls[1]), ls[2])

(* What each operation may begin with: lines, and the contents they lead   *)
(* to.                                                                     *)
Starts(first, ls, c) ==
  /\ first \in {"write", "rename"} /\ ls \in Seq(Line) /\ c \in Contents
  /\ first = "write" => /\ Len(ls) \in {1, 2} /\ c = After(ls)
                        /\ Len(ls) = 2 => ls[1].type = "pin"
  /\ first = "rename" => ls = Snapshot(c)
  /\ \A k \in 1..Len(ls) :
       ls[k].type \in {"parts", "pin"} => ls[k].index <= Len(mem)
  /\ UserFirst(c)
  /\ \A k \in 1..Len(ls) :
       mem = <<>> /\ ls[k].type = "msg" => ls[k].msg.role = "user"

Begun == /\ status = "up" /\ stage = "idle" /\ ops < MaxOps
         /\ written' = 0 /\ ops' = ops + 1
         /\ UNCHANGED <<mem, file, synced, status, clean, faults, crashes>>
         /\ Starts(stage', lines', next')

(* A rewrite to contents that are well-formed.                             *)
LEMMA SaveStarts ==
  ASSUME NEW c \in Contents, UserFirst(c), mem # <<>>, BeginSave(c)
  PROVE  Begun
<1>1. /\ stage' = "rename" /\ lines' = Snapshot(c) /\ next' = c
      /\ status = "up" /\ stage = "idle" /\ ops < MaxOps
      /\ written' = 0 /\ ops' = ops + 1
      /\ UNCHANGED <<mem, file, synced, status, clean, faults, crashes>>
  BY DEF BeginSave, Begin
<1>2. /\ Snapshot(c) \in Seq(Line) /\ Len(Snapshot(c)) = Len(c)
      /\ \A k \in 1..Len(c) : Snapshot(c)[k] = MsgLine(c[k])
  BY ReplaySnapshot
<1>3. ASSUME NEW k \in 1..Len(Snapshot(c)) PROVE Snapshot(c)[k].type = "msg"
  <2>1. Snapshot(c)[k] = MsgLine(c[k])
    BY <1>2
  <2> QED BY <2>1 DEF MsgLine
<1>4. Starts("rename", Snapshot(c), c)
  BY <1>2, <1>3 DEF Starts
<1> QED BY <1>1, <1>4 DEF Begun

(* An append of lines that leads to contents that are well-formed.         *)
LEMMA AppendStarts ==
  ASSUME NEW ls, NEW c, BeginAppend(ls, c), Starts("write", ls, c)
  PROVE  Begun
BY DEF BeginAppend, Begin, Begun

(* A new message is one.                                                   *)
LEMMA NewMessage ==
  ASSUME TypeOK, ops < MaxOps, NEW role \in Roles,
         NEW kind \in {"text", "call", "result"}
  PROVE  /\ Part(kind, Fresh) \in PartType
         /\ Message(role, Part(kind, Fresh)) \in MessageType
         /\ Message(role, Part(kind, Fresh)).role = role
<1>1. Fresh \in 1..MaxOps
  BY StoreAssumption DEF Fresh, TypeOK
<1>2. Part(kind, Fresh) \in PartType
  BY <1>1 DEF Part, PartType
<1>3. <<Part(kind, Fresh)>> \in Seq(PartType)
  BY <1>2
<1> QED BY <1>2, <1>3 DEF Message, MessageType

(* One lemma per operation of the manager: it begins something Begun allows. *)
LEMMA AddContentStarts ==
  ASSUME TypeOK, IInv, NEW role \in Roles, NEW kind \in Kinds[role],
         AddContent(role, kind)
  PROVE  Begun
<1> DEFINE m == Message(role, Part(kind, Fresh))
<1>1. /\ IF mem = <<>> THEN role = "user" ELSE role # Last(mem).role
      /\ BeginAppend(<<MsgLine(m)>>, Append(mem, m))
  BY DEF AddContent
<1>2. m \in MessageType /\ m.role = role
  <2>1. kind \in {"text", "call", "result"}
    BY DEF Kinds, Roles
  <2>2. ops < MaxOps
    BY <1>1 DEF BeginAppend, Begin
  <2> QED BY <2>1, <2>2, NewMessage
<1> HIDE DEF m
<1>3. mem \in Seq(MessageType) /\ Append(mem, m) \in Seq(MessageType)
  BY <1>2 DEF TypeOK, Contents
<1>4. MsgLine(m) \in Line /\ MsgLine(m).type = "msg" /\ MsgLine(m).msg = m
  BY <1>2 DEF MsgLine, Line
<1> DEFINE ls == <<MsgLine(m)>>
<1>5. ls \in Seq(Line) /\ Len(ls) = 1 /\ ls[1] = MsgLine(m)
  BY <1>4
<1>6. After(ls) = Append(mem, m)
  <2>1. ApplyLine(mem, MsgLine(m)) = Append(mem, m)
    BY <1>4 DEF ApplyLine
  <2> HIDE DEF ls
  <2> QED BY <1>5, <2>1 DEF After
<1>7. UserFirst(Append(mem, m))
  <2>1. CASE mem = <<>>
    <3>1. Append(mem, m)[1] = m /\ m.role = "user"
      BY <1>1, <1>2, <2>1
    <3> QED BY <3>1 DEF UserFirst
  <2>2. CASE mem # <<>>
    <3>1. Append(mem, m)[1] = mem[1]
      BY <1>3, <2>2
    <3> QED BY <2>2, <3>1 DEF UserFirst, IInv, FirstInv
  <2> QED BY <2>1, <2>2
<1>8. BeginAppend(ls, Append(mem, m))
  BY <1>1
<1>9. mem = <<>> => MsgLine(m).msg.role = "user"
  BY <1>1, <1>2, <1>4
<1> HIDE DEF ls
<1>10. Starts("write", ls, Append(mem, m))
  <2>1. \A k \in 1..Len(ls) : ls[k] = MsgLine(m)
    BY <1>5
  <2> QED BY <1>3, <1>4, <1>5, <1>6, <1>7, <1>9, <2>1 DEF Starts, Contents
<1> QED BY <1>8, <1>10, AppendStarts

(* A patch keeps the first message's role, whatever it patches.            *)
LEMMA PatchFirst ==
  ASSUME NEW c \in Contents, UserFirst(c), NEW l \in Line, l.type # "msg"
  PROVE  /\ ApplyLine(c, l) \in Contents /\ UserFirst(ApplyLine(c, l))
         /\ Len(ApplyLine(c, l)) = Len(c)
<1>1. l \in FileLine
  BY DEF FileLine
<1>2. /\ ApplyLine(c, l) \in Contents
      /\ Len(ApplyLine(c, l)) = Len(c)
      /\ \A i \in 1..Len(c) : ApplyLine(c, l)[i].role = c[i].role
  BY <1>1, ApplyType
<1>3. ApplyLine(c, l) # <<>> => c # <<>> /\ 1 \in 1..Len(c)
  BY <1>2 DEF Contents
<1> QED BY <1>2, <1>3 DEF UserFirst

(* A patch names the last message.                                         *)
LEMMA AppendPartsStarts ==
  ASSUME TypeOK, IInv, NEW kind \in {"text", "call", "result"}, AppendParts(kind)
  PROVE  Begun
<1> DEFINE i == Len(mem)
           l == PartsLine(i, Part(kind, Fresh))
           ls == <<l>>
           c == [mem EXCEPT ![i].parts = Append(@, Part(kind, Fresh))]
<1>1. i > 0 /\ BeginAppend(ls, c)
  BY DEF AppendParts
<1>2. mem \in Contents /\ mem \in Seq(MessageType) /\ i \in Nat /\ i \in DOMAIN mem
      /\ UserFirst(mem)
  BY <1>1 DEF TypeOK, Contents, IInv, FirstInv
<1>3. Part(kind, Fresh) \in PartType
  <2>1. ops < MaxOps /\ "user" \in Roles
    BY <1>1 DEF BeginAppend, Begin, Roles
  <2> QED BY <2>1, NewMessage
<1>4. l \in Line /\ l.type = "parts" /\ l.index = i
  BY <1>1, <1>2, <1>3 DEF PartsLine, Line
<1>5. ApplyLine(mem, l) = c
  BY <1>2 DEF ApplyLine, PartsLine
<1>6. ls \in Seq(Line) /\ Len(ls) = 1 /\ \A k \in 1..Len(ls) : ls[k] = l
  BY <1>4
<1> HIDE DEF c, ls, l
<1>7. c \in Contents /\ UserFirst(c)
  BY <1>2, <1>4, <1>5, PatchFirst
<1>8. After(ls) = c
  BY <1>5, <1>6 DEF After
<1>9. Starts("write", ls, c)
  BY <1>2, <1>4, <1>6, <1>7, <1>8 DEF Starts
<1> QED BY <1>1, <1>9, AppendStarts

(* A pin patches a message or the two of its turn.                         *)
LEMMA SetPinnedStarts ==
  ASSUME TypeOK, IInv, NEW i \in DOMAIN mem, NEW on \in BOOLEAN, SetPinned(i, on)
  PROVE  Begun
<1> DEFINE p == Pair(mem, i)
<1>1. p # <<>> /\ BeginAppend(<<PinLine(p[1], on), PinLine(p[2], on)>>,
                             [mem EXCEPT ![p[1]].pinned = on, ![p[2]].pinned = on])
  BY DEF SetPinned
<1>2. \E a, b \in DOMAIN mem : p = <<a, b>>
  BY <1>1 DEF Pair
<1> HIDE DEF p
<1>3. PICK a \in DOMAIN mem, b \in DOMAIN mem : p = <<a, b>>
  BY <1>2
<1>4. p[1] = a /\ p[2] = b
  BY <1>3
<1> DEFINE l == PinLine(a, on)
           n == PinLine(b, on)
           c1 == [mem EXCEPT ![a].pinned = on]
           c2 == [c1 EXCEPT ![b].pinned = on]
           ls == <<l, n>>
<1>5. BeginAppend(ls, c2)
  BY <1>1, <1>4
<1>6. /\ mem \in Contents /\ UserFirst(mem)
      /\ a \in 1..Len(mem) /\ b \in 1..Len(mem) /\ Len(mem) \in Nat
      /\ DOMAIN mem = 1..Len(mem)
  BY DEF TypeOK, Contents, IInv, FirstInv
<1>7. /\ l \in Line /\ l.type = "pin" /\ l.index = a /\ l.pinned = on
      /\ n \in Line /\ n.type = "pin" /\ n.index = b /\ n.pinned = on
  BY <1>6 DEF PinLine, Line
<1>8. ls \in Seq(Line) /\ Len(ls) = 2 /\ ls[1] = l /\ ls[2] = n
  BY <1>7
<1>9. ApplyLine(mem, l) = c1
  BY <1>6, <1>7 DEF ApplyLine
<1>10. DOMAIN c1 = DOMAIN mem
  OBVIOUS
<1> HIDE DEF c1, ls, l, n
<1>11. ApplyLine(c1, n) = c2
  BY <1>6, <1>7, <1>10 DEF ApplyLine
<1> HIDE DEF c2
<1>12. c1 \in Contents /\ UserFirst(c1)
  BY <1>6, <1>7, <1>9, PatchFirst
<1>13. c2 \in Contents /\ UserFirst(c2)
  BY <1>7, <1>11, <1>12, PatchFirst
<1>14. After(ls) = c2
  BY <1>8, <1>9, <1>11 DEF After
<1>15. \A k \in 1..Len(ls) : ls[k].type = "pin" /\ ls[k].index <= Len(mem)
  BY <1>6, <1>7, <1>8
<1>16. Starts("write", ls, c2)
  BY <1>6, <1>7, <1>8, <1>13, <1>14, <1>15 DEF Starts
<1> QED BY <1>5, <1>16, AppendStarts

(* Histories cut or grown at their end begin as before.                    *)
LEMMA SetContentsStarts ==
  ASSUME TypeOK, IInv, SetContents
  PROVE  Begun
<1>1. mem \in Seq(MessageType) /\ UserFirst(mem)
  BY DEF TypeOK, Contents, IInv, FirstInv
<1>2. ops < MaxOps
  BY DEF SetContents, BeginSave, Begin
<1>3. CASE /\ mem # <<>>
           /\ BeginSave(Append(mem, Message("user", Part("result", Fresh))))
  <2> DEFINE m == Message("user", Part("result", Fresh))
  <2>1. m \in MessageType
    BY <1>2, NewMessage DEF Roles
  <2>2. BeginSave(Append(mem, m)) /\ mem # <<>>
    BY <1>3
  <2> HIDE DEF m
  <2>3. Append(mem, m) \in Contents /\ Append(mem, m)[1] = mem[1]
    BY <1>1, <2>1, <2>2 DEF Contents
  <2>4. UserFirst(Append(mem, m))
    BY <1>1, <2>2, <2>3 DEF UserFirst
  <2> QED BY <2>2, <2>3, <2>4, SaveStarts
<1>4. CASE /\ Len(mem) > 2
           /\ BeginSave(<<Message("user", Part("text", Fresh)), mem[2]>>
                          \o SubSeq(mem, 5, Len(mem)))
  <2> DEFINE m == Message("user", Part("text", Fresh))
             c == <<m, mem[2]>> \o SubSeq(mem, 5, Len(mem))
  <2>1. m \in MessageType /\ m.role = "user"
    BY <1>2, NewMessage DEF Roles
  <2>2. BeginSave(c) /\ mem # <<>> /\ mem[2] \in MessageType
    BY <1>1, <1>4
  <2> HIDE DEF m
  <2>3. <<m, mem[2]>> \in Seq(MessageType) /\ SubSeq(mem, 5, Len(mem)) \in Seq(MessageType)
    BY <1>1, <2>1, <2>2
  <2>4. c \in Seq(MessageType) /\ c[1] = m
    BY <2>3
  <2> HIDE DEF c
  <2>5. c \in Contents /\ UserFirst(c)
    BY <2>1, <2>4 DEF UserFirst, Contents
  <2> QED BY <2>2, <2>5, SaveStarts
<1> QED BY <1>3, <1>4 DEF SetContents

(* A rollback rewrites the file with a prefix of the memory.               *)
LEMMA RollbackTurnsStarts ==
  ASSUME TypeOK, IInv, NEW turns \in Nat \ {0}, RollbackTurns(turns)
  PROVE  Begun
<1> DEFINE b == RollbackBounds(Len(mem), turns)
<1>1. mem \in Seq(MessageType) /\ UserFirst(mem) /\ mem # <<>> /\ Len(mem) \in Nat
  BY DEF RollbackTurns, TypeOK, Contents, IInv, FirstInv
<1>2. b \in 0..Len(mem)
  BY <1>1 DEF RollbackBounds
<1>3. BeginSave(SubSeq(mem, 1, b))
  BY DEF RollbackTurns
<1> HIDE DEF b
<1>4. SubSeq(mem, 1, b) \in Contents
  BY <1>1, <1>2 DEF Contents
<1>5. UserFirst(SubSeq(mem, 1, b))
  BY <1>1, <1>2 DEF UserFirst
<1> QED BY <1>1, <1>3, <1>4, <1>5, SaveStarts

(* Edited parts are parts.                                                 *)
LEMMA EditedType ==
  ASSUME NEW parts \in Seq(PartType), NEW text \in Seq(PartType)
  PROVE  Edited(parts, text) \in Seq(PartType)
<1> DEFINE isText(k) == parts[k].kind = "text"
           H(k, x) == IF ~isText(k) THEN Append(x, parts[k])
                      ELSE IF \E j \in 1..(k - 1) : isText(j) THEN x
                      ELSE x \o text
           G(n, r) == [k \in 0..n |-> IF k = 0 THEN <<>> ELSE H(k, r[k - 1])]
           S == {n \in Nat : \E r : r = G(n, r)}
<1>1. 0 \in S
  <2> DEFINE r == [k \in 0..0 |-> <<>>]
  <2>1. r = G(0, r)
    OBVIOUS
  <2> QED BY <2>1
<1>2. ASSUME NEW n \in Nat, n \in S PROVE n + 1 \in S
  <2>1. PICK r : r = G(n, r)
    BY <1>2
  <2> DEFINE x == H(n + 1, r[n])
             s == [k \in 0..(n + 1) |-> IF k = n + 1 THEN x ELSE r[k]]
  <2> HIDE DEF H
  <2>2. ASSUME NEW k \in 0..(n + 1) PROVE s[k] = G(n + 1, s)[k]
    <3>1. CASE k = n + 1
      <4>1. s[n] = r[n] /\ k - 1 = n /\ k # 0
        BY <3>1
      <4> QED BY <3>1, <4>1
    <3>2. CASE k = 0
      BY <3>2, <2>1
    <3>3. CASE k \in 1..n
      <4>1. s[k - 1] = r[k - 1] /\ s[k] = r[k]
        BY <3>3
      <4>2. r[k] = G(n, r)[k]
        BY <2>1
      <4> HIDE DEF s
      <4> QED BY <3>3, <4>1, <4>2
    <3> QED BY <3>1, <3>2, <3>3
  <2>3. s = G(n + 1, s)
    BY <2>2
  <2>4. \E q : q = G(n + 1, q)
    <3> HIDE DEF s, G
    <3> QED BY <2>3
  <2> HIDE DEF G
  <2> QED BY <2>4
<1>3. Len(parts) \in S
  <2> HIDE DEF S
  <2> QED BY <1>1, <1>2, SetInduction
<1> DEFINE edit == CHOOSE r : r = G(Len(parts), r)
<1>4. edit = G(Len(parts), edit)
  BY <1>3
<1>5. Edited(parts, text) = IF \E j \in DOMAIN parts : isText(j) THEN edit[Len(parts)]
                            ELSE edit[Len(parts)] \o text
  BY DEF Edited
<1> HIDE DEF edit
<1> DEFINE T == {k \in Nat : k <= Len(parts) => edit[k] \in Seq(PartType)}
<1>6. 0 \in T
  <2>1. edit[0] = <<>>
    BY <1>4
  <2>2. edit[0] \in Seq(PartType)
    BY <2>1
  <2> QED BY <2>2
<1>7. ASSUME NEW k \in Nat, k \in T PROVE k + 1 \in T
  <2> SUFFICES ASSUME k + 1 <= Len(parts) PROVE edit[k + 1] \in Seq(PartType)
    OBVIOUS
  <2>1. edit[k] \in Seq(PartType)
    BY <1>7
  <2>2. \/ edit[k + 1] = Append(edit[k], parts[k + 1])
        \/ edit[k + 1] = edit[k]
        \/ edit[k + 1] = edit[k] \o text
    <3>1. k + 1 \in 0..Len(parts) /\ k + 1 # 0 /\ (k + 1) - 1 = k
      OBVIOUS
    <3>2. edit[k + 1] = G(Len(parts), edit)[k + 1]
      BY <1>4
    <3> QED BY <3>1, <3>2
  <2>3. parts[k + 1] \in PartType
    OBVIOUS
  <2>4. /\ Append(edit[k], parts[k + 1]) \in Seq(PartType)
        /\ edit[k] \o text \in Seq(PartType)
    BY <2>1, <2>3
  <2> QED BY ONLY <2>1, <2>2, <2>4
<1>8. edit[Len(parts)] \in Seq(PartType)
  <2>1. Len(parts) \in T
    <3> HIDE DEF T
    <3> QED BY <1>6, <1>7, SetInduction
  <2> QED BY <2>1
<1> QED BY <1>5, <1>8

(* An edit rewrites the file with one message changed.                     *)
LEMMA UpdateTurnContentStarts ==
  ASSUME TypeOK, IInv, NEW i \in DOMAIN mem, UpdateTurnContent(i)
  PROVE  Begun
<1>1. PICK text \in {<<>>, <<Part("text", Fresh)>>} :
        BeginSave([mem EXCEPT ![i].parts = Edited(@, text)])
  BY DEF UpdateTurnContent
<1>2. mem \in Seq(MessageType) /\ UserFirst(mem) /\ i \in 1..Len(mem) /\ mem # <<>>
  BY DEF TypeOK, Contents, IInv, FirstInv
<1>3. text \in Seq(PartType)
  <2>1. ops < MaxOps /\ "user" \in Roles
    BY <1>1 DEF BeginSave, Begin, Roles
  <2>2. Part("text", Fresh) \in PartType
    BY <2>1, NewMessage
  <2>3. <<>> \in Seq(PartType) /\ <<Part("text", Fresh)>> \in Seq(PartType)
    BY <2>2
  <2> QED BY ONLY <2>3, text \in {<<>>, <<Part("text", Fresh)>>}
<1> DEFINE m == [mem[i] EXCEPT !.parts = Edited(@, text)]
           c == [mem EXCEPT ![i] = m]
<1>4. m \in MessageType /\ m.role = mem[i].role
  <2>1. mem[i] \in MessageType
    BY <1>2
  <2>3. mem[i].parts \in Seq(PartType)
    BY <2>1 DEF MessageType
  <2>2. Edited(mem[i].parts, text) \in Seq(PartType)
    BY <1>3, <2>3, EditedType
  <2> QED BY <2>1, <2>2 DEF MessageType
<1>5. BeginSave(c)
  BY <1>1
<1> HIDE DEF m
<1>6. c \in Contents /\ c # <<>> /\ c[1].role = mem[1].role
  BY <1>2, <1>4 DEF Contents
<1> HIDE DEF c
<1>7. UserFirst(c)
  BY <1>2, <1>6 DEF UserFirst
<1> QED BY <1>2, <1>5, <1>6, <1>7, SaveStarts

(* Every operation begins with lines and contents that fit together.       *)
LEMMA OperationStarts ==
  ASSUME TypeOK, IInv, Operation
  PROVE  Begun
<1>1. ASSUME NEW role \in Roles, NEW kind \in Kinds[role], AddContent(role, kind)
      PROVE  Begun
  BY <1>1, AddContentStarts
<1>2. ASSUME NEW kind \in {"text", "call", "result"}, AppendParts(kind) PROVE Begun
  BY <1>2, AppendPartsStarts
<1>3. ASSUME NEW i \in DOMAIN mem, NEW on \in BOOLEAN, SetPinned(i, on) PROVE Begun
  BY <1>3, SetPinnedStarts
<1>4. CASE SetContents
  BY <1>4, SetContentsStarts
<1>5. ASSUME NEW turns \in 1..MaxMsgs, RollbackTurns(turns) PROVE Begun
  BY <1>5, RollbackTurnsStarts
<1>6. ASSUME NEW i \in DOMAIN mem, UpdateTurnContent(i) PROVE Begun
  BY <1>6, UpdateTurnContentStarts
<1> QED BY <1>1, <1>2, <1>3, <1>4, <1>5, <1>6 DEF Operation

-----------------------------------------------------------------------------
(* The invariant is inductive.                                             *)

(* FirstInv without the file, which FileOK is about.                       *)
MemoryFirst == /\ UserFirst(mem) /\ UserFirst(next)
               /\ \A k \in 1..Len(lines) :
                    mem = <<>> /\ lines[k].type = "msg" => lines[k].msg.role = "user"

Core == OperationInv /\ FileInv /\ LengthInv /\ FileOK(file) /\ MemoryFirst

(* Core is IInv, said of files.                                            *)
LEMMA IInvCore == TypeOK => (IInv <=> Core)
<1> SUFFICES ASSUME TypeOK PROVE IInv <=> Core
  OBVIOUS
<1>1. file \in Seq(FileLine)
  BY DEF TypeOK, FileLine
<1>2. Meets(file) <=> PatchesApply
  BY <1>1, PatchesMeet DEF PatchesApply
<1>3. FirstInv <=> MemoryFirst /\ \A k \in 0..Len(file) : UserFirst(Replay(SubSeq(file, 1, k)))
  BY DEF FirstInv, MemoryFirst
<1> QED BY <1>2, <1>3 DEF IInv, Core, FileOK

(* An empty file, an empty memory.                                         *)
LEMMA InitCore == Init => TypeOK /\ Core
<1> SUFFICES ASSUME Init PROVE TypeOK /\ Core
  OBVIOUS
<1>1. TypeOK
  BY StoreAssumption DEF Init, TypeOK, Contents
<1>2. Replay(file) = <<>>
  BY ReplayEmpty DEF Init
<1>3. OnFile = <<>>
  BY DEF Init, OnFile
<1>4. OperationInv
  BY DEF Init, OperationInv
<1>5. FileInv
  BY <1>2, <1>3 DEF Init, FileInv, Readable
<1>6. LengthInv
  BY <1>2, <1>3 DEF Init, LengthInv
<1>7. FileOK(file)
  <2>1. file \in Seq(FileLine) /\ Len(file) = 0
    BY DEF Init
  <2>2. Replay(SubSeq(file, 1, 0)) = <<>>
    BY <2>1, ReplaySteps
  <2> QED BY <2>1, <2>2 DEF FileOK, Meets, UserFirst
<1>8. MemoryFirst
  BY DEF Init, MemoryFirst, UserFirst
<1> QED BY <1>1, <1>4, <1>5, <1>6, <1>7, <1>8 DEF Core

(* What the appended lines leave in memory, one after the other.           *)
LEMMA AppliedFacts ==
  ASSUME TypeOK, OperationInv, stage \in {"write", "sync"}, NEW w \in 0..Len(lines)
  PROVE  /\ Applied(w) \in Contents /\ Len(mem) <= Len(Applied(w))
         /\ w < Len(lines) => /\ lines[w + 1] \in Line
                              /\ Applied(w + 1) = ApplyLine(Applied(w), lines[w + 1])
<1>1. mem \in Contents /\ lines \in Seq(Line) /\ Len(lines) \in {1, 2} /\ Len(mem) \in Nat
  BY DEF TypeOK, OperationInv, Contents
<1>2. \A k \in 1..Len(lines) : lines[k] \in FileLine /\ lines[k] \in Line
  BY <1>1 DEF FileLine
<1>3. \A c \in Contents, l \in FileLine :
        ApplyLine(c, l) \in Contents /\ Len(c) <= Len(ApplyLine(c, l))
  <2> SUFFICES ASSUME NEW c \in Contents, NEW l \in FileLine
               PROVE  ApplyLine(c, l) \in Contents /\ Len(c) <= Len(ApplyLine(c, l))
    OBVIOUS
  <2>1. Len(c) \in Nat
    BY DEF Contents
  <2> QED BY <2>1, ApplyType
<1>4. Applied(0) = mem
  BY DEF Applied
<1>5. Applied(1) = ApplyLine(mem, lines[1]) /\ lines[1] \in FileLine
  BY <1>1, <1>2 DEF Applied
<1>6. Applied(1) \in Contents /\ Len(mem) <= Len(Applied(1)) /\ Len(Applied(1)) \in Nat
  BY <1>1, <1>3, <1>5 DEF Contents
<1>7. Applied(2) = ApplyLine(Applied(1), lines[2])
  BY <1>5 DEF Applied
<1>8. Len(lines) = 2 => Applied(2) \in Contents /\ Len(mem) <= Len(Applied(2))
  <2> SUFFICES ASSUME Len(lines) = 2
               PROVE  Applied(2) \in Contents /\ Len(mem) <= Len(Applied(2))
    OBVIOUS
  <2>1. Applied(2) \in Contents /\ Len(Applied(1)) <= Len(Applied(2))
    BY <1>2, <1>3, <1>6, <1>7
  <2>2. Len(Applied(2)) \in Nat
    BY <2>1 DEF Contents
  <2> QED BY <1>1, <1>6, <2>1, <2>2
<1>12. /\ 0 + 1 = 1 /\ 1 + 1 = 2
       /\ lines[1] \in Line /\ (Len(lines) = 2 => lines[2] \in Line)
  BY <1>1, <1>2
<1>9. CASE w = 0
  BY ONLY <1>1, <1>4, <1>5, <1>9, <1>12
<1>10. CASE w = 1
  BY ONLY <1>1, <1>6, <1>7, <1>10, <1>12
<1>11. CASE w = 2 /\ Len(lines) = 2
  BY ONLY <1>8, <1>11
<1>13. PICK n \in {1, 2} : n = Len(lines)
  BY <1>1
<1>14. w \in 0..n
  BY <1>13
<1>15. w = 0 \/ w = 1 \/ (w = 2 /\ n = 2)
  BY ONLY <1>14, n \in {1, 2}
<1> QED BY ONLY <1>9, <1>10, <1>11, <1>13, <1>15

(* What the file holds is well-formed.                                     *)
LEMMA FileFacts ==
  ASSUME TypeOK, Core
  PROVE  /\ file \in Seq(FileLine) /\ Len(file) \in Nat
         /\ Replay(file) \in Contents /\ Len(Replay(file)) \in Nat
         /\ UserFirst(Replay(file))
         /\ Len(mem) \in Nat /\ Len(lines) \in Nat
         /\ stage # "commit" => Len(mem) <= Len(Replay(file))
<1>1. file \in Seq(FileLine) /\ Len(file) \in Nat /\ Len(mem) \in Nat /\ Len(lines) \in Nat
  BY DEF TypeOK, FileLine, Contents
<1>2. Replay(file) \in Contents /\ UserFirst(Replay(file)) /\ Len(Replay(file)) \in Nat
  BY <1>1, ReplayWhole DEF Core, Contents
<1>3. CASE stage \in {"write", "sync"}
  <2>1. written \in 0..Len(lines) /\ OnFile = Applied(written) /\ OperationInv
    BY <1>3 DEF TypeOK, OnFile, Core
  <2>2. Applied(written) \in Contents /\ Len(mem) <= Len(Applied(written))
    BY <1>3, <2>1, AppliedFacts
  <2>3. Len(Applied(written)) \in Nat /\ Len(Applied(written)) <= Len(Replay(file))
    BY <2>1, <2>2 DEF Contents, Core, LengthInv
  <2> QED BY <1>1, <1>2, <2>2, <2>3
<1>4. CASE stage \notin {"write", "sync", "commit"}
  <2>1. OnFile = mem
    BY <1>4 DEF OnFile
  <2> QED BY <1>1, <1>2, <2>1 DEF Core, LengthInv
<1> QED BY <1>1, <1>2, <1>3, <1>4

(* One lemma per step of an operation: it keeps the types and Core.        *)
LEMMA BegunCore ==
  ASSUME TypeOK, Core, Begun
  PROVE  TypeOK' /\ Core'
<1>1. /\ status = "up" /\ stage = "idle" /\ ops < MaxOps
      /\ written' = 0 /\ ops' = ops + 1
      /\ UNCHANGED <<mem, file, synced, status, clean, faults, crashes>>
      /\ Starts(stage', lines', next')
  BY DEF Begun
<1>2. TypeOK'
  <2>1. /\ stage' \in {"write", "rename"} /\ lines' \in Seq(Line) /\ next' \in Contents
    BY <1>1 DEF Starts
  <2>2. written' \in 0..Len(lines')
    BY <1>1, <2>1
  <2>3. ops' \in 0..MaxOps
    BY <1>1, StoreAssumption DEF TypeOK
  <2> QED BY <1>1, <2>1, <2>2, <2>3 DEF TypeOK
<1>3. stage' \in {"write", "rename"} /\ OnFile = mem /\ OnFile' = mem
  BY <1>1 DEF Starts, OnFile, Applied
<1>4. OperationInv'
  <2>1. CASE stage' = "write"
    <3>1. Len(lines') \in {1, 2} /\ next' = After(lines') /\ (Len(lines') = 2 => lines'[1].type = "pin")
      BY <1>1, <2>1 DEF Starts
    <3>2. next' = Applied(Len(lines))'
      <4>1. CASE Len(lines') = 1
        BY <1>1, <3>1, <4>1 DEF After, Applied
      <4>2. CASE Len(lines') = 2
        BY <1>1, <3>1, <4>2 DEF After, Applied
      <4> QED BY <3>1, <4>1, <4>2
    <3>3. written' < Len(lines')
      BY <1>1, <3>1
    <3> QED BY <1>1, <2>1, <3>1, <3>2, <3>3 DEF OperationInv
  <2>2. CASE stage' = "rename"
    BY <1>1, <2>2 DEF Starts, OperationInv, Snapshot
  <2> QED BY <1>3, <2>1, <2>2
<1>5. FileInv'
  BY <1>1, <1>3 DEF Core, FileInv, Readable
<1>6. LengthInv'
  BY <1>1, <1>3 DEF Core, LengthInv, Starts
<1>7. MemoryFirst'
  BY <1>1 DEF Core, MemoryFirst, Starts
<1> QED BY <1>1, <1>2, <1>4, <1>5, <1>6, <1>7 DEF Core

(* A line written applies to the file what it will apply to the memory.    *)
LEMMA WriteLineCore ==
  ASSUME TypeOK, Core, WriteLine
  PROVE  TypeOK' /\ Core'
<1> DEFINE l == lines[written + 1]
<1>1. /\ stage = "write" /\ stage' = "sync" /\ file' = Append(file, l)
      /\ written' = written + 1
      /\ UNCHANGED <<mem, synced, status, lines, next, clean, ops, faults, crashes>>
  BY DEF WriteLine
<1>2. /\ OperationInv /\ written \in 0..Len(lines) /\ written < Len(lines)
      /\ written \in Nat /\ status = "up" /\ stage \in {"write", "sync"}
  BY <1>1 DEF Core, OperationInv, TypeOK
<1>3. /\ Applied(written) \in Contents /\ Len(mem) <= Len(Applied(written))
      /\ l \in Line /\ Applied(written + 1) = ApplyLine(Applied(written), l)
  BY <1>2, AppliedFacts
<1>4. /\ file \in Seq(FileLine) /\ Len(file) \in Nat
      /\ Replay(file) \in Contents /\ Len(Replay(file)) \in Nat
      /\ Len(mem) \in Nat /\ Len(lines) \in Nat
      /\ Len(mem) <= Len(Replay(file))
  BY <1>1, FileFacts
<1>5. l \in FileLine
  BY <1>3 DEF FileLine
<1>6. /\ file' \in Seq(FileLine) /\ Len(file') = Len(file) + 1
      /\ Replay(file') = ApplyLine(Replay(file), l)
      /\ SubSeq(file', 1, Len(file)) = file
  BY <1>1, <1>4, <1>5, ReplayAppend
<1>7. TypeOK'
  <2>1. synced' \in 0..Len(file')
    BY <1>1, <1>4, <1>6 DEF TypeOK
  <2>2. written' \in 0..Len(lines')
    BY <1>1, <1>2, <1>4
  <2> QED BY <1>1, <1>6, <2>1, <2>2 DEF TypeOK, FileLine
<1>8. OnFile = Applied(written) /\ OnFile' = Applied(written + 1)
  BY <1>1 DEF OnFile, Applied
<1>9. OperationInv'
  <2>1. Applied(Len(lines))' = Applied(Len(lines))
    BY <1>1 DEF Applied
  <2>2. written' > 0
    BY <1>1, <1>2
  <2> QED BY <1>1, <1>2, <2>1, <2>2 DEF OperationInv
<1>10. l \in {lines[k] : k \in 1..Len(lines)}
  <2>1. written + 1 \in 1..Len(lines)
    BY <1>2, <1>4
  <2> QED BY <2>1
<1>11. FileOK(file')
  <2>1. l.type \in {"parts", "pin"} => l.index <= Len(mem) /\ l.index \in Nat
    BY <1>3, <1>10 DEF Core, LengthInv, Line
  <2>2. l.type \in {"parts", "pin"} => l.index <= Len(Replay(file))
    BY <1>4, <2>1
  <2>3. Replay(file) = <<>> => mem = <<>>
    BY <1>4 DEF Contents, TypeOK
  <2>4. Replay(file) = <<>> /\ l.type = "msg" => l.msg.role = "user"
    BY <1>10, <2>3 DEF Core, MemoryFirst
  <2> QED BY <1>1, <1>4, <1>5, <2>2, <2>4, FileAppend DEF Core
<1>12. FileInv'
  <2> SUFFICES ASSUME clean'
               PROVE  /\ Readable(file') /\ Replay(file') = OnFile'
                      /\ 0 < Len(file') /\ synced' >= Len(file') - 1
                      /\ Replay(SubSeq(file', 1, Len(file') - 1)) = Applied(written - 1)'
    BY <1>1, <1>2 DEF FileInv
  <2>1. Readable(file) /\ Replay(file) = Applied(written) /\ synced = Len(file)
    BY <1>1, <1>2, <1>8 DEF Core, FileInv
  <2>2. Readable(file')
    <3>1. l # Torn
      BY <1>3 DEF Line, Torn
    <3> QED BY <1>1, <1>4, <1>5, <2>1, <3>1 DEF Readable
  <2>3. Len(file') - 1 = Len(file) /\ (written + 1) - 1 = written
    BY <1>2, <1>4, <1>6
  <2>4. Applied(written - 1)' = Applied(written)
    BY <1>1, <2>3 DEF Applied
  <2>5. Replay(file') = OnFile'
    BY <1>3, <1>6, <1>8, <2>1
  <2>6. synced' >= Len(file') - 1 /\ 0 < Len(file')
    BY <1>1, <1>4, <1>6, <2>1, <2>3
  <2> QED BY <1>6, <2>1, <2>2, <2>3, <2>4, <2>5, <2>6
<1>13. LengthInv'
  <2>1. Len(Applied(written)) <= Len(Replay(file))
    BY <1>8 DEF Core, LengthInv
  <2>2. Len(ApplyLine(Applied(written), l)) =
          IF l.type = "msg" THEN Len(Applied(written)) + 1 ELSE Len(Applied(written))
    BY <1>3, <1>5, ApplyType
  <2>3. Len(ApplyLine(Replay(file), l)) =
          IF l.type = "msg" THEN Len(Replay(file)) + 1 ELSE Len(Replay(file))
    BY <1>4, <1>5, ApplyType
  <2>4. Len(Applied(written)) \in Nat
    BY <1>3 DEF Contents
  <2>5. Len(OnFile') = Len(ApplyLine(Applied(written), l))
    BY <1>3, <1>8
  <2>6. Len(Replay(file')) = Len(ApplyLine(Replay(file), l))
    BY <1>6
  <2>7. Len(OnFile') <= Len(Replay(file'))
    BY ONLY <1>4, <2>1, <2>2, <2>3, <2>4, <2>5, <2>6
  <2> QED BY <1>1, <2>7 DEF Core, LengthInv
<1>14. MemoryFirst'
  BY <1>1 DEF Core, MemoryFirst
<1> QED BY <1>7, <1>9, <1>11, <1>12, <1>13, <1>14 DEF Core

(* An operation that ends leaves nothing of itself but what is in memory   *)
(* and in the file.                                                        *)
LEMMA EndCore ==
  ASSUME TypeOK, EndOperation, mem' \in Contents, UserFirst(mem'),
         file' \in Seq(FileLine), synced' \in 0..Len(file'),
         status' \in {"up", "down", "refused"}, clean' \in BOOLEAN,
         faults' \in 0..MaxFaults, crashes' \in 0..MaxCrashes, ops' = ops,
         FileOK(file'), Len(mem') <= Len(Replay(file')),
         status' # "up" => mem' = <<>> /\ synced' = Len(file'),
         status' = "up" /\ clean' => /\ Readable(file') /\ Replay(file') = mem'
                                     /\ synced' = Len(file')
  PROVE  TypeOK' /\ Core'
<1>1. stage' = "idle" /\ lines' = <<>> /\ written' = 0 /\ next' = <<>>
  BY DEF EndOperation
<1>2. TypeOK'
  BY <1>1 DEF TypeOK, FileLine, Contents
<1>3. OnFile' = mem'
  BY <1>1 DEF OnFile
<1>4. OperationInv'
  BY <1>1 DEF OperationInv
<1>5. FileInv'
  BY <1>1, <1>3 DEF FileInv
<1>6. LengthInv'
  BY <1>1, <1>3 DEF LengthInv
<1>7. MemoryFirst'
  BY <1>1 DEF MemoryFirst, UserFirst
<1> QED BY <1>2, <1>4, <1>5, <1>6, <1>7 DEF Core

(* Only a rewrite or an append that is not over keeps the memory, and      *)
(* nothing but the operation changes.                                      *)
LEMMA WriteFailCore ==
  ASSUME TypeOK, Core, WriteFail
  PROVE  TypeOK' /\ Core'
<1>1. /\ stage = "write" /\ faults < MaxFaults /\ faults' = faults + 1
      /\ file' \in {file, Append(file, Torn)}
      /\ synced' \in {synced, Len(file')}
      /\ clean' = (clean /\ file' = file /\ written = 0)
      /\ EndOperation /\ UNCHANGED <<mem, status, ops, crashes>>
  BY DEF WriteFail, Fault
<1>2. /\ file \in Seq(FileLine) /\ Len(file) \in Nat
      /\ Replay(file) \in Contents /\ Len(Replay(file)) \in Nat
      /\ Len(mem) <= Len(Replay(file))
  BY <1>1, FileFacts
<1>3. status = "up"
  BY <1>1 DEF Core, OperationInv
<1>4. Torn \in FileLine /\ Torn.type = "torn"
  BY DEF FileLine, Torn
<1>5. FileOK(Append(file, Torn)) /\ Replay(Append(file, Torn)) = Replay(file)
      /\ Append(file, Torn) \in Seq(FileLine) /\ Len(Append(file, Torn)) = Len(file) + 1
  BY <1>2, <1>4, FileAppend, ReplayAppend, ApplyTorn DEF Core
<1>6. FileOK(file') /\ Replay(file') = Replay(file) /\ file' \in Seq(FileLine)
      /\ Len(file') \in Nat /\ Len(file) <= Len(file')
  <2>1. CASE file' = file
    BY <1>2, <2>1 DEF Core
  <2>2. CASE file' = Append(file, Torn)
    <3>1. Len(file) + 1 \in Nat /\ Len(file) <= Len(file) + 1
      BY <1>2
    <3> QED BY <1>5, <2>2, <3>1
  <2> QED BY <1>1, <2>1, <2>2
<1>7. synced \in 0..Len(file) /\ synced' \in 0..Len(file')
  BY <1>1, <1>2, <1>6 DEF TypeOK
<1>8. clean' \in BOOLEAN
  BY <1>1
<1>9. ASSUME clean'
      PROVE  Readable(file') /\ Replay(file') = mem' /\ synced' = Len(file')
  <2>1. clean /\ file' = file /\ written = 0
    BY <1>1, <1>9
  <2>2. OnFile = mem
    BY <1>1, <2>1 DEF OnFile, Applied
  <2>3. Readable(file) /\ Replay(file) = OnFile /\ synced = Len(file)
    BY <1>1, <1>3, <2>1 DEF Core, FileInv
  <2> QED BY <1>1, <2>1, <2>2, <2>3
<1>10. /\ mem' \in Contents /\ UserFirst(mem') /\ status' = "up"
       /\ faults' \in 0..MaxFaults /\ crashes' \in 0..MaxCrashes
       /\ Len(mem') <= Len(Replay(file'))
  BY <1>1, <1>2, <1>3, <1>6, StoreAssumption DEF TypeOK, Core, MemoryFirst
<1> QED BY <1>1, <1>6, <1>7, <1>8, <1>9, <1>10, EndCore

(* A sync makes durable what the file has.                                 *)
LEMMA SyncLineCore ==
  ASSUME TypeOK, Core, SyncLine
  PROVE  TypeOK' /\ Core'
<1>1. /\ stage = "sync" /\ synced' = Len(file)
      /\ stage' = IF written = Len(lines) THEN "commit" ELSE "write"
      /\ UNCHANGED <<mem, file, status, lines, written, next, clean, ops, faults, crashes>>
  BY DEF SyncLine
<1>2. /\ status = "up" /\ Len(lines) \in {1, 2} /\ next = Applied(Len(lines))
      /\ written \in 0..Len(lines)
      /\ Len(lines) = 2 => lines[1].type = "pin"
  BY <1>1 DEF Core, OperationInv, TypeOK
<1>3. TypeOK'
  BY <1>1, FileFacts DEF TypeOK
<1>4. OnFile' = OnFile
  BY <1>1, <1>2 DEF OnFile, Applied
<1>5. OperationInv'
  <2>1. Applied(Len(lines))' = Applied(Len(lines))
    BY <1>1 DEF Applied
  <2>2. written # Len(lines) => written < Len(lines)
    BY <1>2, FileFacts
  <2>3. written # Len(lines) => stage' = "write" /\ written' < Len(lines')
    BY <1>1, <2>2
  <2>4. written = Len(lines) => stage' = "commit"
    BY <1>1
  <2>5. CASE stage' = "write"
    BY <1>1, <1>2, <2>1, <2>3, <2>5 DEF OperationInv
  <2>6. CASE stage' = "commit"
    BY <1>1, <1>2, <2>6 DEF OperationInv
  <2> QED BY <2>3, <2>4, <2>5, <2>6
<1>6. FileInv'
  BY <1>1, <1>2, <1>4 DEF Core, FileInv, Readable
<1>7. LengthInv' /\ MemoryFirst'
  BY <1>1, <1>4 DEF Core, LengthInv, MemoryFirst
<1> QED BY <1>1, <1>3, <1>5, <1>6, <1>7 DEF Core

(* After a failed sync the file is not clean: its line stays.              *)
LEMMA SyncFailCore ==
  ASSUME TypeOK, Core, SyncFail
  PROVE  TypeOK' /\ Core'
<1>1. /\ stage = "sync" /\ faults < MaxFaults /\ faults' = faults + 1
      /\ clean' = FALSE /\ EndOperation
      /\ UNCHANGED <<mem, file, synced, status, ops, crashes>>
  BY DEF SyncFail, Fault
<1>2. status = "up" /\ Len(mem) <= Len(Replay(file)) /\ file \in Seq(FileLine)
  BY <1>1, FileFacts DEF Core, OperationInv
<1>3. /\ mem' \in Contents /\ UserFirst(mem') /\ FileOK(file')
      /\ synced' \in 0..Len(file')
      /\ faults' \in 0..MaxFaults /\ crashes' \in 0..MaxCrashes
  BY <1>1, StoreAssumption DEF TypeOK, Core, MemoryFirst
<1>4. clean' \in BOOLEAN /\ ~clean'
  BY <1>1
<1> QED BY <1>1, <1>2, <1>3, <1>4, EndCore

(* A rename puts the whole snapshot in the place of the file.              *)
LEMMA RenameCore ==
  ASSUME TypeOK, Core, Rename
  PROVE  TypeOK' /\ Core'
<1>1. /\ stage = "rename" /\ file' = lines /\ synced' = Len(lines) /\ clean' = TRUE
      /\ stage' = "commit"
      /\ UNCHANGED <<mem, status, lines, written, next, ops, faults, crashes>>
  BY DEF Rename
<1>2. /\ status = "up" /\ lines = Snapshot(next) /\ next \in Contents /\ UserFirst(next)
  BY <1>1 DEF Core, OperationInv, MemoryFirst, TypeOK
<1>3. /\ lines \in Seq(Line) /\ Len(lines) \in Nat /\ Replay(lines) = next /\ FileOK(lines)
  BY <1>2, ReplaySnapshot, FileSnapshot
<1>4. TypeOK'
  <2>1. file' \in Seq(Line \cup {Torn})
    BY <1>1, <1>3
  <2>2. synced' \in 0..Len(file')
    BY <1>1, <1>3
  <2> QED BY <1>1, <2>1, <2>2 DEF TypeOK
<1>5. OnFile' = next
  BY <1>1 DEF OnFile
<1>6. OperationInv'
  BY <1>1, <1>2 DEF OperationInv
<1>7. Readable(lines)
  <2>1. \A k \in 1..Len(lines) : lines[k] \in Line
    BY <1>3
  <2>2. Torn \notin Line
    BY DEF Torn, Line
  <2> QED BY <2>1, <2>2 DEF Readable
<1>8. FileInv'
  BY <1>1, <1>2, <1>3, <1>5, <1>7 DEF FileInv, Readable
<1>9. LengthInv' /\ MemoryFirst'
  <2>1. Len(next) \in Nat
    BY <1>2 DEF Contents
  <2> QED BY <1>1, <1>3, <1>5, <2>1 DEF Core, LengthInv, MemoryFirst
<1> QED BY <1>1, <1>3, <1>4, <1>6, <1>8, <1>9 DEF Core

(* A failed rename leaves the file as it was.                              *)
LEMMA RenameFailCore ==
  ASSUME TypeOK, Core, RenameFail
  PROVE  TypeOK' /\ Core'
<1>1. /\ stage = "rename" /\ faults < MaxFaults /\ faults' = faults + 1
      /\ EndOperation /\ UNCHANGED <<mem, file, synced, status, clean, ops, crashes>>
  BY DEF RenameFail, Fault
<1>2. status = "up" /\ Len(mem) <= Len(Replay(file)) /\ file \in Seq(FileLine)
  BY <1>1, FileFacts DEF Core, OperationInv
<1>3. OnFile = mem
  BY <1>1 DEF OnFile
<1>4. clean => Readable(file) /\ Replay(file) = mem /\ synced = Len(file)
  BY <1>1, <1>2, <1>3 DEF Core, FileInv
<1>5. /\ mem' \in Contents /\ UserFirst(mem') /\ FileOK(file')
      /\ synced' \in 0..Len(file') /\ clean' \in BOOLEAN
      /\ faults' \in 0..MaxFaults /\ crashes' \in 0..MaxCrashes
  BY <1>1, StoreAssumption DEF TypeOK, Core, MemoryFirst
<1> QED BY <1>1, <1>2, <1>4, <1>5, EndCore

(* The memory becomes what the lines of the operation have made of it.     *)
LEMMA CommitCore ==
  ASSUME TypeOK, Core, Commit
  PROVE  TypeOK' /\ Core'
<1>1. /\ stage = "commit" /\ mem' = next /\ EndOperation
      /\ UNCHANGED <<file, synced, status, clean, ops, faults, crashes>>
  BY DEF Commit
<1>2. status = "up" /\ file \in Seq(FileLine)
  BY <1>1, FileFacts DEF Core, OperationInv
<1>3. OnFile = next
  BY <1>1 DEF OnFile
<1>4. clean => Readable(file) /\ Replay(file) = next /\ synced = Len(file)
  BY <1>1, <1>2, <1>3 DEF Core, FileInv
<1>5. /\ mem' \in Contents /\ UserFirst(mem') /\ FileOK(file')
      /\ Len(mem') <= Len(Replay(file'))
      /\ synced' \in 0..Len(file') /\ clean' \in BOOLEAN
      /\ faults' \in 0..MaxFaults /\ crashes' \in 0..MaxCrashes
  BY <1>1, <1>3 DEF TypeOK, Core, MemoryFirst, LengthInv
<1> QED BY <1>1, <1>2, <1>4, <1>5, EndCore

(* A crash keeps a prefix of the file and forgets the memory.              *)
LEMMA CrashCore ==
  ASSUME TypeOK, Core, Crash
  PROVE  TypeOK' /\ Core'
<1>1. /\ crashes < MaxCrashes /\ crashes' = crashes + 1
      /\ synced' = Len(file') /\ mem' = <<>> /\ status' = "down" /\ EndOperation
      /\ UNCHANGED <<clean, ops, faults>>
  BY DEF Crash
<1>2. PICK k \in synced..Len(file) :
        file' = SubSeq(file, 1, k) \/ file' = Append(SubSeq(file, 1, k), Torn)
  BY DEF Crash
<1>3. file \in Seq(FileLine) /\ Len(file) \in Nat /\ k \in 0..Len(file)
  BY <1>2, FileFacts DEF TypeOK
<1> DEFINE g == SubSeq(file, 1, k)
<1>4. g \in Seq(FileLine) /\ FileOK(g)
  BY <1>3, FileCut DEF Core
<1>5. file' = g \/ file' = Append(g, Torn)
  BY <1>2
<1> HIDE DEF g
<1>6. Torn \in FileLine /\ Torn.type = "torn"
  BY DEF FileLine, Torn
<1>7. FileOK(Append(g, Torn)) /\ Append(g, Torn) \in Seq(FileLine)
  BY <1>4, <1>6, FileAppend
<1>8. FileOK(file') /\ file' \in Seq(FileLine)
  BY <1>4, <1>5, <1>7
<1>9. synced' \in 0..Len(file') /\ Len(mem') <= Len(Replay(file'))
  <2>1. Replay(file') \in Contents
    BY <1>8, ReplayWhole
  <2> QED BY <1>1, <1>8, <2>1 DEF Contents
<1>10. /\ mem' \in Contents /\ UserFirst(mem') /\ clean' \in BOOLEAN
       /\ faults' \in 0..MaxFaults /\ crashes' \in 0..MaxCrashes
  BY <1>1, StoreAssumption DEF TypeOK, Contents, UserFirst
<1> QED BY <1>1, <1>8, <1>9, <1>10, EndCore

(* A load takes what the file replays to, or refuses.                      *)
LEMMA LoadCore ==
  ASSUME TypeOK, Core, Load
  PROVE  TypeOK' /\ Core'
<1>1. /\ status = "down"
      /\ UNCHANGED <<file, synced, operation, ops, faults, crashes>>
      /\ \/ /\ Readable(file) /\ status' = "up" /\ mem' = Replay(file) /\ clean' = TRUE
         \/ status' = "refused" /\ UNCHANGED <<mem, clean>>
  BY DEF Load
<1>2. /\ mem = <<>> /\ stage = "idle" /\ lines = <<>> /\ written = 0 /\ next = <<>>
      /\ synced = Len(file)
  BY <1>1 DEF Core, OperationInv, FileInv
<1>3. EndOperation
  BY <1>1, <1>2 DEF EndOperation, operation
<1>4. /\ file \in Seq(FileLine) /\ Replay(file) \in Contents /\ UserFirst(Replay(file))
      /\ Len(mem) <= Len(Replay(file)) /\ Len(Replay(file)) \in Nat
  BY <1>2, FileFacts
<1>5. mem' \in Contents /\ UserFirst(mem') /\ Len(mem') <= Len(Replay(file'))
  BY <1>1, <1>2, <1>4 DEF UserFirst, TypeOK
<1>6. /\ synced' \in 0..Len(file') /\ clean' \in BOOLEAN /\ FileOK(file')
      /\ faults' \in 0..MaxFaults /\ crashes' \in 0..MaxCrashes
  BY <1>1 DEF TypeOK, Core
<1> QED BY <1>1, <1>2, <1>3, <1>4, <1>5, <1>6, EndCore

(* A step of the store is one of these.                                    *)
LEMMA Steps ==
  ASSUME TypeOK, IInv, [Next]_vars
  PROVE  \/ Begun \/ WriteLine \/ WriteFail \/ SyncLine \/ SyncFail \/ Rename
         \/ RenameFail \/ Commit \/ Crash \/ Load \/ UNCHANGED vars
BY OperationStarts DEF Next, Step, Done

(* Every step keeps the types and Core.                                    *)
LEMMA StepCore == TypeOK /\ Core /\ [Next]_vars => TypeOK' /\ Core'
<1> SUFFICES ASSUME TypeOK, Core, [Next]_vars PROVE TypeOK' /\ Core'
  OBVIOUS
<1>1. IInv
  BY IInvCore
<1>2. CASE UNCHANGED vars
  <2>1. TypeOK'
    BY <1>2 DEF vars, operation, TypeOK
  <2>2. OperationInv' /\ LengthInv' /\ FileInv'
    BY <1>2 DEF vars, operation, Core, OperationInv, LengthInv, FileInv, OnFile, Applied, Readable
  <2>3. FileOK(file') /\ MemoryFirst'
    BY <1>2 DEF vars, operation, Core, MemoryFirst
  <2> QED BY <2>1, <2>2, <2>3 DEF Core
<1> QED BY <1>1, <1>2, Steps, BegunCore, WriteLineCore, WriteFailCore, SyncLineCore,
           SyncFailCore, RenameCore, RenameFailCore, CommitCore, CrashCore, LoadCore

(* The invariant of the store: file and memory agree at every stage of an  *)
(* operation, and the file holds the messages its patches are for.         *)
THEOREM InvCorrect == Spec => [](TypeOK /\ IInv)
<1>1. Init => TypeOK /\ Core
  BY InitCore
<1>2. TypeOK /\ Core /\ [Next]_vars => TypeOK' /\ Core'
  BY StepCore
<1>3. TypeOK /\ Core => TypeOK /\ IInv
  BY IInvCore
<1> QED BY <1>1, <1>2, <1>3, PTL DEF Spec

(* The file read back is the memory whenever no append failed, and no      *)
(* patch is ever without its message.                                      *)
THEOREM ReadsBack == Spec => []Reconciled
<1>1. TypeOK /\ IInv => Reconciled
  BY DEF IInv, FileInv, OnFile, Reconciled
<1> QED BY <1>1, InvCorrect, PTL

-----------------------------------------------------------------------------
(* Retry and rollback.                                                     *)

(* Where the roles alternate after the user's first message, the user's    *)
(* messages are the odd ones.                                              *)
LEMMA UserIsOdd ==
  ASSUME NEW c \in Contents, UserFirst(c), Alternates(c), NEW i \in 1..Len(c)
  PROVE  c[i].role = "user" <=> i % 2 = 1
<1> DEFINE S == {k \in Nat : k + 1 <= Len(c) => (c[k + 1].role = "user" <=> k % 2 = 0)}
<1>1. c \in Seq(MessageType) /\ Len(c) \in Nat
  BY DEF Contents
<1>2. 0 \in S
  BY <1>1 DEF UserFirst
<1>3. ASSUME NEW k \in Nat, k \in S PROVE k + 1 \in S
  <2> SUFFICES ASSUME (k + 1) + 1 <= Len(c)
               PROVE  c[(k + 1) + 1].role = "user" <=> (k + 1) % 2 = 0
    OBVIOUS
  <2>1. c[k + 1].role = "user" <=> k % 2 = 0
    BY <1>1, <1>3
  <2>2. c[k + 1].role # c[(k + 1) + 1].role
    <3>1. k + 1 \in 1..(Len(c) - 1)
      BY <1>1
    <3> QED BY <3>1 DEF Alternates
  <2>3. c[k + 1].role \in {"user", "model"} /\ c[(k + 1) + 1].role \in {"user", "model"}
    <3>1. c[k + 1] \in MessageType /\ c[(k + 1) + 1] \in MessageType
      BY <1>1
    <3> QED BY <3>1 DEF MessageType, Roles
  <2>4. k % 2 = 0 <=> (k + 1) % 2 # 0
    OBVIOUS
  <2> QED BY ONLY <2>1, <2>2, <2>3, <2>4
<1>4. i - 1 \in S
  <2>1. i - 1 \in Nat
    BY <1>1
  <2> HIDE DEF S
  <2> QED BY <1>2, <1>3, <2>1, SetInduction
<1>5. (i - 1) + 1 = i /\ ((i - 1) % 2 = 0 <=> i % 2 = 1) /\ i <= Len(c)
  BY <1>1
<1> QED BY <1>4, <1>5

(* The arithmetic of calculateRollbackBounds and GetLastUserMessage.       *)
LEMMA BoundsMeet ==
  ASSUME NEW n \in Nat, NEW i \in 1..n, i % 2 = 1
  PROVE  RollbackBounds(n, (n - (i - 1) + 1) \div 2) = i - 1
<1>1. PICK a \in Nat : i = 2 * a + 1
  <2>1. (i \div 2) \in Nat /\ i = 2 * (i \div 2) + 1
    OBVIOUS
  <2> QED BY <2>1
<1>2. PICK b \in Nat : n + 1 = 2 * b \/ n + 1 = 2 * b + 1
  <2>1. ((n + 1) \div 2) \in Nat
    OBVIOUS
  <2>2. n + 1 = 2 * ((n + 1) \div 2) \/ n + 1 = 2 * ((n + 1) \div 2) + 1
    OBVIOUS
  <2> QED BY <2>1, <2>2
<1>3. (n + 1) \div 2 = b
  BY <1>2
<1>4. (n - (i - 1) + 1) \div 2 = b - a
  BY <1>1, <1>2
<1>5. n % 2 = (n + 1) - 2 * b + 1 - 2 * ((n + 1) - 2 * b)
  BY <1>2
<1>6. b - a >= b <=> a = 0
  OBVIOUS
<1> QED BY <1>1, <1>2, <1>3, <1>4, <1>5, <1>6 DEF RollbackBounds

(* Rolling back the turns that a retry counts forgets the last prompt and  *)
(* what follows it, and nothing before it.                                 *)
THEOREM RetryForgetsPrompt == Spec => []RetryRewinds
<1>1. TypeOK /\ IInv => RetryRewinds
  <2> SUFFICES ASSUME TypeOK, IInv, Alternates(mem), UserTexts(mem) # {}
               PROVE  LET i == Max(UserTexts(mem))
                          turns == (Len(mem) - (i - 1) + 1) \div 2
                      IN  RollbackBounds(Len(mem), turns) = i - 1
    BY DEF RetryRewinds
  <2>1. mem \in Contents /\ Len(mem) \in Nat /\ UserFirst(mem)
    BY DEF TypeOK, Contents, IInv, FirstInv
  <2>2. UserTexts(mem) \in SUBSET (1..Len(mem))
    BY <2>1 DEF UserTexts, Contents
  <2> DEFINE i == Max(UserTexts(mem))
  <2>3. i \in UserTexts(mem)
    BY <2>1, <2>2, MaxExists
  <2>4. i \in 1..Len(mem) /\ mem[i].role = "user"
    BY <2>2, <2>3 DEF UserTexts
  <2> HIDE DEF i
  <2>5. i % 2 = 1
    BY <2>1, <2>4, UserIsOdd
  <2>6. RollbackBounds(Len(mem), (Len(mem) - (i - 1) + 1) \div 2) = i - 1
    BY <2>1, <2>4, <2>5, BoundsMeet
  <2> QED BY <2>6 DEF i
<1> QED BY <1>1, InvCorrect, PTL

-----------------------------------------------------------------------------
(* The refinement of HistoryLog.                                           *)

(* An operation in progress may leave the memory as it was, or what one of *)
(* its lines makes of it.                                                  *)
LEMMA PendingHolds ==
  ASSUME TypeOK, Core, stage # "idle"
  PROVE  /\ Pending # {} /\ next \in Pending
         /\ stage \in {"write", "sync"} =>
              \A w \in 0..Len(lines) : Applied(w) \in {mem} \cup Pending
<1>1. Pending # {} /\ next \in Pending
  BY DEF Pending
<1>2. ASSUME stage \in {"write", "sync"}, NEW w \in 0..Len(lines)
      PROVE  Applied(w) \in {mem} \cup Pending
  <2>1. Len(lines) \in {1, 2} /\ next = Applied(Len(lines))
    BY <1>2 DEF Core, OperationInv
  <2>2. PICK n \in {1, 2} : n = Len(lines)
    BY <2>1
  <2>3. w \in 0..n
    BY <2>2
  <2>4. w = 0 \/ w = n \/ (w = 1 /\ n = 2)
    BY ONLY <2>3, n \in {1, 2}
  <2>5. CASE w = 0
    BY <2>5 DEF Applied
  <2>6. CASE w = n
    BY <1>1, <2>1, <2>2, <2>6
  <2>7. CASE w = 1 /\ n = 2
    <3>1. Applied(w) = ApplyLine(mem, lines[1])
      BY <2>7 DEF Applied
    <3>2. lines[1].type = "pin" /\ Len(lines) = 2
      BY <1>2, <2>2, <2>7 DEF Core, OperationInv
    <3>3. Snapshot(next) # lines
      <4> SUFFICES ASSUME Snapshot(next) = lines PROVE FALSE
        OBVIOUS
      <4>1. next \in Contents
        BY DEF TypeOK
      <4>2. Len(Snapshot(next)) = Len(next)
        BY <4>1, ReplaySnapshot
      <4>3. Len(next) = 2
        BY <3>2, <4>2
      <4>4. Snapshot(next)[1] = MsgLine(next[1])
        BY <4>3 DEF Snapshot
      <4> QED BY <3>2, <4>4 DEF MsgLine
    <3> QED BY <3>1, <3>3 DEF Pending
  <2> QED BY <2>4, <2>5, <2>6, <2>7
<1> QED BY <1>1, <1>2

(* The store begins as the log does.                                       *)
LEMMA LogInit == Init => Log!Init
BY DEF Init, Log!Init, Visible, Pending, LogStatus

(* What is begun is a new value for the log, or several.                   *)
LEMMA BeginsLog ==
  ASSUME TypeOK, Core, Begun
  PROVE  Log!Begin
BY DEF Begun, Starts, Log!Begin, Visible, Pending, LogStatus

(* A failed operation leaves the memory, and nothing pending.              *)
LEMMA FailsLog ==
  ASSUME TypeOK, Core, WriteFail \/ SyncFail \/ RenameFail
  PROVE  Log!Fail
<1>1. stage # "idle" /\ status = "up" /\ status' = status /\ mem' = mem /\ EndOperation
  BY DEF WriteFail, SyncFail, RenameFail, Core, OperationInv
<1>2. clean' \in {clean, FALSE}
  <2>1. CASE WriteFail
    <3>1. clean' = (clean /\ file' = file /\ written = 0) /\ clean \in BOOLEAN
      BY <2>1 DEF WriteFail, TypeOK
    <3> QED BY <3>1
  <2>2. CASE SyncFail
    BY <2>2 DEF SyncFail
  <2>3. CASE RenameFail
    BY <2>3 DEF RenameFail
  <2> QED BY <2>1, <2>2, <2>3
<1>3. Pending # {}
  BY <1>1, PendingHolds
<1> QED BY <1>1, <1>2, <1>3 DEF EndOperation, Log!Fail, Visible, Pending, LogStatus

(* From the rename on only the new value can be found.                     *)
LEMMA RenamesLog ==
  ASSUME TypeOK, Core, Rename
  PROVE  Log!Rewrite
<1>1. /\ stage = "rename" /\ stage' = "commit" /\ clean' = TRUE
      /\ UNCHANGED <<mem, status, lines, next>>
      /\ status = "up"
  BY DEF Rename, Core, OperationInv
<1>2. Pending # {} /\ Pending' = Pending
  BY <1>1, PendingHolds DEF Pending, Snapshot
<1> QED BY <1>1, <1>2 DEF Log!Rewrite, Visible, LogStatus

(* The end of an operation is the end of the update of the log.            *)
LEMMA CommitsLog ==
  ASSUME TypeOK, Core, Commit
  PROVE  Log!Commit
<1>1. /\ stage = "commit" /\ mem' = next /\ EndOperation /\ UNCHANGED <<status, clean>>
      /\ status = "up"
  BY DEF Commit, Core, OperationInv
<1>2. next \in Pending
  BY <1>1, PendingHolds
<1> QED BY <1>1, <1>2 DEF EndOperation, Log!Commit, Visible, Pending, LogStatus

(* A crash keeps the memory, or what the line in flight made of it; the    *)
(* file is unreadable only when a line was in flight or an append failed.  *)
LEMMA CrashesLog ==
  ASSUME TypeOK, Core, Crash
  PROVE  Log!Crash
<1>1. /\ status = "up" /\ status' = "down" /\ mem' = <<>> /\ EndOperation
      /\ clean' = clean
  BY DEF Crash
<1>2. PICK k \in synced..Len(file) :
        \/ file' = SubSeq(file, 1, k)
        \/ k < Len(file) /\ file' = Append(SubSeq(file, 1, k), Torn)
  BY DEF Crash
<1>3. /\ file \in Seq(FileLine) /\ Len(file) \in Nat /\ Len(lines) \in Nat
      /\ k \in Nat /\ k <= Len(file) /\ synced \in Nat /\ synced <= k
  BY <1>2, FileFacts DEF TypeOK
<1>4. clean => Readable(file) /\ Replay(file) = OnFile
  BY <1>1 DEF Core, FileInv
<1>5. OnFile \in {mem} \cup Pending
  <2>1. CASE stage \in {"write", "sync"}
    <3>1. written \in 0..Len(lines) /\ OnFile = Applied(written)
      BY <2>1 DEF TypeOK, OnFile
    <3> QED BY <2>1, <3>1, PendingHolds
  <2>2. CASE stage = "commit"
    <3>1. OnFile = next
      BY <2>2 DEF OnFile
    <3> QED BY <2>2, <3>1, PendingHolds
  <2>3. CASE stage \notin {"write", "sync", "commit"}
    BY <2>3 DEF OnFile
  <2> QED BY <2>1, <2>2, <2>3
<1>6. ASSUME clean, k < Len(file)
      PROVE  /\ Pending # {}
             /\ Replay(SubSeq(file, 1, k)) \in {mem} \cup Pending
  <2>1. stage = "sync"
    BY <1>1, <1>3, <1>6 DEF Core, FileInv
  <2>2. synced >= Len(file) - 1 /\ Replay(SubSeq(file, 1, Len(file) - 1)) = Applied(written - 1)
    BY <1>1, <1>6, <2>1 DEF Core, FileInv
  <2>3. k = Len(file) - 1
    BY <1>3, <1>6, <2>2
  <2>4. written - 1 \in 0..Len(lines)
    <3>1. written \in 0..Len(lines) /\ written > 0
      BY <2>1 DEF TypeOK, Core, OperationInv
    <3> QED BY <1>3, <3>1
  <2> QED BY <2>1, <2>2, <2>3, <2>4, PendingHolds
<1>7. k = Len(file) => SubSeq(file, 1, k) = file
  BY <1>3
<1>8. Readable(file') => file' = SubSeq(file, 1, k)
  <2> SUFFICES ASSUME file' = Append(SubSeq(file, 1, k), Torn) PROVE ~Readable(file')
    BY <1>2
  <2>1. Len(file') = k + 1 /\ file'[k + 1] = Torn
    BY <1>3
  <2> QED BY <1>3, <2>1 DEF Readable
<1>9. Pending' = {} /\ Visible = mem
      /\ Visible' = (IF Readable(file') THEN Replay(file') ELSE <<>>)
      /\ LogStatus' = (IF Readable(file') THEN "down" ELSE "refused")
      /\ LogStatus = "up"
  BY <1>1 DEF EndOperation, Pending, Visible, LogStatus, Readable
<1>10. CASE Readable(file')
  <2>1. ASSUME clean PROVE Replay(file') \in {mem} \cup Pending
    <3>1. CASE k = Len(file)
      BY <1>4, <1>5, <1>7, <1>8, <1>10, <2>1, <3>1
    <3>2. CASE k < Len(file)
      BY <1>6, <1>8, <1>10, <2>1, <3>2
    <3> QED BY <1>3, <3>1, <3>2
  <2> QED BY <1>1, <1>9, <1>10, <2>1 DEF Log!Crash
<1>11. CASE ~Readable(file')
  <2>1. ASSUME clean PROVE Pending # {}
    <3>1. CASE k = Len(file) /\ file' = SubSeq(file, 1, k)
      BY <1>4, <1>7, <1>11, <2>1, <3>1
    <3>2. CASE k < Len(file)
      BY <1>6, <2>1, <3>2
    <3> QED BY <1>2, <1>3, <3>1, <3>2
  <2> QED BY <1>1, <1>9, <1>11, <2>1 DEF Log!Crash
<1> QED BY <1>10, <1>11

(* A load that succeeds restarts the log; one that is refused is a stutter. *)
LEMMA LoadsLog ==
  ASSUME TypeOK, Core, Load
  PROVE  Log!Restart \/ UNCHANGED Log!vars
<1>1. /\ status = "down" /\ UNCHANGED <<file, synced, operation>>
      /\ \/ /\ Readable(file) /\ status' = "up" /\ mem' = Replay(file) /\ clean' = TRUE
         \/ ~Readable(file) /\ status' = "refused" /\ UNCHANGED <<mem, clean>>
  BY DEF Load
<1>2. stage = "idle" /\ stage' = "idle" /\ file' = file
  BY <1>1 DEF Core, OperationInv, operation
<1>3. Pending = {} /\ Pending' = {}
  BY <1>2 DEF Pending
<1>4. CASE Readable(file)
  BY <1>1, <1>2, <1>3, <1>4 DEF Log!Restart, Visible, LogStatus
<1>5. CASE ~Readable(file)
  <2>1. Visible = <<>> /\ Visible' = <<>>
    BY <1>1, <1>2, <1>5 DEF Visible, Readable
  <2>2. LogStatus = "refused" /\ LogStatus' = "refused"
    BY <1>1, <1>2, <1>5 DEF LogStatus, Readable
  <2> QED BY <1>1, <1>3, <1>5, <2>1, <2>2 DEF Log!vars
<1> QED BY <1>4, <1>5

(* The steps of an append before its last are not seen.                    *)
LEMMA LinesStutter ==
  ASSUME TypeOK, Core, WriteLine \/ SyncLine
  PROVE  UNCHANGED Log!vars
<1>1. /\ stage # "idle" /\ stage' # "idle" /\ status = "up"
      /\ UNCHANGED <<mem, status, lines, next, clean>>
  BY DEF WriteLine, SyncLine, Core, OperationInv
<1>2. Pending' = Pending
  BY <1>1 DEF Pending, Snapshot
<1> QED BY <1>1, <1>2 DEF Log!vars, Visible, LogStatus

(* The store implements HistoryLog: an acknowledged update survives a      *)
(* crash, one in progress is all or nothing, and only a line in flight or  *)
(* a failed append can cost the history.                                   *)
THEOREM StoreImplementsLog == Spec => ImplementsLog
<1>1. Init => Log!Init
  BY LogInit
<1>2. TypeOK /\ IInv /\ [Next]_vars => [Log!Next]_(Log!vars)
  <2> SUFFICES ASSUME TypeOK, IInv, [Next]_vars PROVE Log!Next \/ UNCHANGED Log!vars
    OBVIOUS
  <2>1. Core
    BY IInvCore
  <2>2. CASE UNCHANGED vars
    BY <2>2 DEF vars, operation, Log!vars, Visible, Pending, LogStatus, Snapshot, Readable
  <2> QED BY <2>1, <2>2, Steps, BeginsLog, FailsLog, RenamesLog, CommitsLog, CrashesLog,
             LoadsLog, LinesStutter DEF Log!Next
<1> QED BY <1>1, <1>2, InvCorrect, PTL DEF Spec, ImplementsLog, Log!Spec

-----------------------------------------------------------------------------
(* The prompts: what a compaction keeps.                                   *)

TopBody(log, limit, r) ==
  [k \in 0..Len(log) |->
     IF k = 0 THEN <<>>
     ELSE WithOlder(r[k - 1], log[Len(log) - k + 1], limit)]

(* The file can be read backwards, line by line.                           *)
LEMMA TopExists ==
  ASSUME NEW log \in Seq(Lines), NEW limit \in Nat
  PROVE  \E r : r = TopBody(log, limit, r)
<1> DEFINE H(k, x) == WithOlder(x, log[Len(log) - k + 1], limit)
           G(n, r) == [k \in 0..n |-> IF k = 0 THEN <<>> ELSE H(k, r[k - 1])]
           S == {n \in Nat : \E r : r = G(n, r)}
<1>1. 0 \in S
  <2> DEFINE r == [k \in 0..0 |-> <<>>]
  <2>1. r = G(0, r)
    OBVIOUS
  <2> QED BY <2>1
<1>2. ASSUME NEW n \in Nat, n \in S PROVE n + 1 \in S
  <2>1. PICK r : r = G(n, r)
    BY <1>2
  <2> DEFINE s == [k \in 0..(n + 1) |-> IF k = n + 1 THEN H(n + 1, r[n]) ELSE r[k]]
  <2> HIDE DEF H
  <2>2. ASSUME NEW k \in 0..(n + 1) PROVE s[k] = G(n + 1, s)[k]
    <3>1. CASE k = n + 1
      <4>1. s[n] = r[n]
        OBVIOUS
      <4> QED BY <3>1, <4>1
    <3>2. CASE k = 0
      BY <3>2, <2>1
    <3>3. CASE k \in 1..n
      <4>1. s[k - 1] = r[k - 1] /\ s[k] = r[k]
        BY <3>3
      <4>2. r[k] = H(k, r[k - 1])
        BY <3>3, <2>1
      <4> HIDE DEF s
      <4> QED BY <3>3, <4>1, <4>2
    <3> QED BY <3>1, <3>2, <3>3
  <2>3. s = G(n + 1, s)
    BY <2>2
  <2> HIDE DEF s
  <2> QED BY <2>3
<1>3. Len(log) \in S
  <2> HIDE DEF S
  <2> QED BY <1>1, <1>2, SetInduction
<1> QED BY <1>3 DEF TopBody

(* r[k] is what the last k lines of the file leave.                        *)
TopReading(log, limit, r) ==
  /\ TopUnique(log, limit) = r[Len(log)]
  /\ r[0] = <<>>
  /\ \A k \in 0..(Len(log) - 1) :
       r[k + 1] = WithOlder(r[k], log[Len(log) - k], limit)

(* The file is read from its end, a line at a time.                        *)
LEMMA TopReads ==
  ASSUME NEW log \in Seq(Lines), NEW limit \in Nat
  PROVE  \E r : TopReading(log, limit, r)
<1>1. PICK r : r = TopBody(log, limit, r) /\ TopUnique(log, limit) = r[Len(log)]
  BY TopExists DEF TopUnique, TopBody
<1>2. r[0] = TopBody(log, limit, r)[0]
  BY <1>1
<1>3. r[0] = <<>>
  BY <1>2 DEF TopBody
<1>4. ASSUME NEW k \in 0..(Len(log) - 1)
      PROVE  r[k + 1] = WithOlder(r[k], log[Len(log) - k], limit)
  <2>1. /\ k + 1 \in 0..Len(log) /\ k + 1 # 0 /\ (k + 1) - 1 = k
        /\ Len(log) - (k + 1) + 1 = Len(log) - k
    OBVIOUS
  <2>2. TopBody(log, limit, r)[k + 1]
          = WithOlder(r[(k + 1) - 1], log[Len(log) - (k + 1) + 1], limit)
    BY <2>1 DEF TopBody
  <2>3. r[k + 1] = TopBody(log, limit, r)[k + 1]
    BY <1>1
  <2> QED BY <2>1, <2>2, <2>3
<1> QED BY <1>1, <1>3, <1>4 DEF TopReading

(* Prompts without a torn line and without repetition, at most limit.      *)
Digest(s, limit) ==
  /\ s \in Seq(Prompts) /\ Len(s) <= limit
  /\ \A i, j \in 1..Len(s) : s[i] = s[j] => i = j

(* A line put before a sequence.                                           *)
LEMMA Prefixed ==
  ASSUME NEW s \in Seq(Prompts), NEW p \in Prompts
  PROVE  /\ <<p>> \o s \in Seq(Prompts) /\ Len(<<p>> \o s) = Len(s) + 1
         /\ (<<p>> \o s)[1] = p
         /\ \A i \in 1..Len(s) : (<<p>> \o s)[i + 1] = s[i]
         /\ \A i \in 2..(Len(s) + 1) : (<<p>> \o s)[i] = s[i - 1]
OBVIOUS

(* Sequences of one length with the same members at the same places.       *)
LEMMA SameSequence ==
  ASSUME NEW s \in Seq(Prompts), NEW u \in Seq(Prompts), Len(s) = Len(u),
         \A i \in 1..Len(s) : s[i] = u[i]
  PROVE  s = u
<1>1. s = [i \in 1..Len(s) |-> s[i]] /\ u = [i \in 1..Len(u) |-> u[i]]
  OBVIOUS
<1> QED BY <1>1

(* One line more keeps a digest one.                                       *)
LEMMA OlderDigest ==
  ASSUME NEW limit \in Nat, NEW s, Digest(s, limit), NEW l \in Lines
  PROVE  Digest(WithOlder(s, l, limit), limit)
<1>1. CASE l = "torn" \/ Holds(s, l) \/ Len(s) = limit
  BY <1>1 DEF WithOlder
<1>2. CASE ~(l = "torn" \/ Holds(s, l) \/ Len(s) = limit)
  <2> DEFINE u == <<l>> \o s
  <2>1. s \in Seq(Prompts) /\ l \in Prompts /\ Len(s) < limit
    BY <1>2 DEF Digest, Lines
  <2>2. /\ u \in Seq(Prompts) /\ Len(u) = Len(s) + 1 /\ u[1] = l
        /\ \A i \in 2..(Len(s) + 1) : u[i] = s[i - 1]
    BY <2>1, Prefixed
  <2>3. WithOlder(s, l, limit) = u
    BY <1>2 DEF WithOlder
  <2> HIDE DEF u
  <2>4. ASSUME NEW i \in 1..Len(u), NEW j \in 1..Len(u), u[i] = u[j], i < j PROVE FALSE
    <3>1. j \in 2..(Len(s) + 1) /\ j - 1 \in 1..Len(s) /\ u[j] = s[j - 1]
      BY <2>1, <2>2, <2>4
    <3>2. CASE i = 1
      BY <3>1, <3>2, <2>2, <2>4, <1>2 DEF Holds
    <3>3. CASE i # 1
      <4>1. i \in 2..(Len(s) + 1) /\ i - 1 \in 1..Len(s) /\ u[i] = s[i - 1]
        BY <2>1, <2>2, <3>3
      <4>2. i - 1 = j - 1
        BY <3>1, <4>1, <2>4 DEF Digest
      <4> QED BY <2>4, <4>2
    <3> QED BY <3>2, <3>3
  <2>5. \A i, j \in 1..Len(u) : u[i] = u[j] => i = j
    <3> SUFFICES ASSUME NEW i \in 1..Len(u), NEW j \in 1..Len(u), u[i] = u[j], i # j
                 PROVE  FALSE
      OBVIOUS
    <3>1. i < j \/ j < i
      BY <2>1, <2>2
    <3> QED BY <3>1, <2>4
  <2> QED BY <2>1, <2>2, <2>3, <2>5 DEF Digest
<1> QED BY <1>1, <1>2

(* What the last lines of a file leave is a digest.                        *)
LEMMA ReadingDigest ==
  ASSUME NEW log \in Seq(Lines), NEW limit \in Nat, NEW r, TopReading(log, limit, r)
  PROVE  \A k \in 0..Len(log) : Digest(r[k], limit)
<1> DEFINE S == {k \in Nat : k <= Len(log) => Digest(r[k], limit)}
<1>1. 0 \in S
  <2>1. Digest(<<>>, limit)
    BY DEF Digest
  <2> QED BY <2>1 DEF TopReading
<1>2. ASSUME NEW k \in Nat, k \in S PROVE k + 1 \in S
  <2> SUFFICES ASSUME k + 1 <= Len(log) PROVE Digest(r[k + 1], limit)
    OBVIOUS
  <2>1. r[k + 1] = WithOlder(r[k], log[Len(log) - k], limit)
    BY DEF TopReading
  <2>2. log[Len(log) - k] \in Lines /\ Digest(r[k], limit)
    BY <1>2
  <2> QED BY <2>1, <2>2, OlderDigest
<1>3. Nat \subseteq S
  <2> HIDE DEF S
  <2> QED BY <1>1, <1>2, SetInduction
<1> QED BY <1>3

(* What GetTopUnique returns: whole prompts, each once, within its limit.  *)
LEMMA TopDigest ==
  ASSUME NEW log \in Seq(Lines), NEW limit \in Nat
  PROVE  Digest(TopUnique(log, limit), limit)
<1>1. PICK r : TopReading(log, limit, r)
  BY TopReads
<1>2. Digest(r[Len(log)], limit)
  BY <1>1, ReadingDigest
<1> QED BY <1>1, <1>2 DEF TopReading

(* A line that cannot be read, at the end, changes nothing.                *)
LEMMA TopTorn ==
  ASSUME NEW log \in Seq(Lines), NEW limit \in Nat
  PROVE  TopUnique(Append(log, "torn"), limit) = TopUnique(log, limit)
<1> DEFINE longer == Append(log, "torn")
           n == Len(log)
<1>1. /\ longer \in Seq(Lines) /\ Len(longer) = n + 1 /\ longer[n + 1] = "torn"
      /\ \A i \in 1..n : longer[i] = log[i]
  BY DEF Lines
<1> HIDE DEF longer
<1>2. PICK r : TopReading(log, limit, r)
  BY TopReads
<1>3. PICK q : TopReading(longer, limit, q)
  BY <1>1, TopReads
<1> DEFINE S == {k \in Nat : k <= n => q[k + 1] = r[k]}
<1>4. 0 \in S
  <2>1. q[0 + 1] = WithOlder(q[0], longer[n + 1 - 0], limit)
    BY <1>1, <1>3 DEF TopReading
  <2>2. longer[n + 1 - 0] = "torn"
    BY <1>1
  <2>3. WithOlder(q[0], "torn", limit) = q[0]
    BY DEF WithOlder
  <2>4. q[0 + 1] = r[0]
    BY <2>1, <2>2, <2>3, <1>2, <1>3 DEF TopReading
  <2> QED BY <2>4
<1>5. ASSUME NEW k \in Nat, k \in S PROVE k + 1 \in S
  <2> SUFFICES ASSUME k + 1 <= n PROVE q[k + 1 + 1] = r[k + 1]
    OBVIOUS
  <2>1. q[k + 1 + 1] = WithOlder(q[k + 1], longer[n + 1 - (k + 1)], limit)
    BY <1>1, <1>3 DEF TopReading
  <2>2. r[k + 1] = WithOlder(r[k], log[n - k], limit)
    BY <1>2 DEF TopReading
  <2>3. longer[n + 1 - (k + 1)] = log[n - k]
    BY <1>1
  <2> QED BY <2>1, <2>2, <2>3, <1>5
<1>6. Nat \subseteq S
  <2> HIDE DEF S
  <2> QED BY <1>4, <1>5, SetInduction
<1>7. q[n + 1] = r[n]
  BY <1>6
<1> QED BY <1>1, <1>2, <1>3, <1>7 DEF TopReading, longer

(* A file that is a digest is what its reading gives.                      *)
LEMMA TopOfDigest ==
  ASSUME NEW limit \in Nat, NEW s, Digest(s, limit), "torn" \notin Prompts
  PROVE  TopUnique(s, limit) = s
<1> DEFINE n == Len(s)
<1>1. s \in Seq(Lines) /\ s \in Seq(Prompts) /\ n \in Nat
  BY DEF Digest, Lines
<1>2. PICK r : TopReading(s, limit, r)
  BY <1>1, TopReads
<1>3. \A k \in 0..n : r[k] \in Seq(Prompts)
  BY <1>1, <1>2, ReadingDigest DEF Digest
<1> DEFINE Suffix(k) == /\ Len(r[k]) = k
                        /\ \A i \in 1..k : r[k][i] = s[n - k + i]
           S == {k \in Nat : k <= n => Suffix(k)}
<1>4. 0 \in S
  BY <1>2 DEF TopReading
<1>5. ASSUME NEW k \in Nat, k \in S PROVE k + 1 \in S
  <2> SUFFICES ASSUME k + 1 <= n PROVE Suffix(k + 1)
    OBVIOUS
  <2> DEFINE l == s[n - k]
  <2>1. r[k + 1] = WithOlder(r[k], l, limit)
    BY <1>2 DEF TopReading
  <2>2. l \in Prompts /\ l # "torn" /\ n - k \in 1..n
    BY <1>1
  <2>3. Suffix(k) /\ r[k] \in Seq(Prompts)
    BY <1>1, <1>3, <1>5
  <2>4. ~Holds(r[k], l)
    <3> SUFFICES ASSUME NEW j \in 1..Len(r[k]), r[k][j] = l PROVE FALSE
      BY DEF Holds
    <3>1. j \in 1..k /\ n - k + j \in 1..n /\ s[n - k + j] = s[n - k]
      BY <1>1, <2>3
    <3>2. n - k + j = n - k
      BY <3>1, <2>2 DEF Digest
    <3> QED BY <3>1, <3>2, <1>1
  <2>5. Len(r[k]) # limit
    BY <1>1, <2>3 DEF Digest
  <2>6. r[k + 1] = <<l>> \o r[k]
    BY <2>1, <2>2, <2>4, <2>5 DEF WithOlder
  <2> HIDE DEF l
  <2>7. /\ Len(r[k + 1]) = k + 1 /\ r[k + 1][1] = l
        /\ \A i \in 2..(k + 1) : r[k + 1][i] = r[k][i - 1]
    BY <2>2, <2>3, <2>6, Prefixed
  <2>8. ASSUME NEW i \in 1..(k + 1) PROVE r[k + 1][i] = s[n - (k + 1) + i]
    <3>1. CASE i = 1
      <4>1. n - (k + 1) + 1 = n - k
        BY <1>1
      <4> QED BY <3>1, <4>1, <2>7 DEF l
    <3>2. CASE i # 1
      <4>1. i \in 2..(k + 1) /\ i - 1 \in 1..k /\ n - k + (i - 1) = n - (k + 1) + i
        BY <3>2, <1>1
      <4> QED BY <4>1, <2>3, <2>7
    <3> QED BY <3>1, <3>2
  <2> QED BY <2>7, <2>8
<1>6. Nat \subseteq S
  <2> HIDE DEF S
  <2> QED BY <1>4, <1>5, SetInduction
<1>7. Suffix(n) /\ r[n] \in Seq(Prompts)
  BY <1>1, <1>3, <1>6
<1>8. \A i \in 1..n : n - n + i = i
  BY <1>1
<1>9. r[n] = s
  BY <1>1, <1>7, <1>8, SameSequence
<1> QED BY <1>2, <1>9 DEF TopReading

(* What a reading that gives s gives when p has been appended: p goes to   *)
(* the end, from the place it had, or for the oldest if there are too many.*)
Moved(s, d, p) ==
  [i \in 1..Len(s) |-> IF i < d THEN s[i] ELSE IF i = Len(s) THEN p ELSE s[i + 1]]
Pushed(s, p, limit, x) ==
  \/ \E d \in 1..Len(s) : s[d] = p /\ x = Moved(s, d, p)
  \/ ~Holds(s, p) /\ Len(s) = limit /\ x = Moved(s, 1, p)
  \/ ~Holds(s, p) /\ Len(s) # limit /\ x = Append(s, p)

(* Moving a prompt to the end.                                             *)
LEMMA MovedIs ==
  ASSUME NEW s \in Seq(Prompts), NEW d \in 1..Len(s), NEW p \in Prompts
  PROVE  /\ Moved(s, d, p) \in Seq(Prompts) /\ Len(Moved(s, d, p)) = Len(s)
         /\ \A i \in 1..Len(s) :
              Moved(s, d, p)[i] = IF i < d THEN s[i] ELSE IF i = Len(s) THEN p ELSE s[i + 1]
BY DEF Moved

(* A push has one result: a prompt is in a digest at one place at most.    *)
LEMMA PushedOnce ==
  ASSUME NEW limit \in Nat, NEW s, Digest(s, limit), NEW p, NEW x, NEW y,
         Pushed(s, p, limit, x), Pushed(s, p, limit, y)
  PROVE  x = y
<1>1. CASE Holds(s, p)
  <2>1. PICK d \in 1..Len(s) : s[d] = p /\ x = Moved(s, d, p)
    BY <1>1 DEF Pushed
  <2>2. PICK e \in 1..Len(s) : s[e] = p /\ y = Moved(s, e, p)
    BY <1>1 DEF Pushed
  <2>3. d = e
    BY <2>1, <2>2 DEF Digest
  <2> QED BY <2>1, <2>2, <2>3
<1>2. CASE ~Holds(s, p)
  BY <1>2 DEF Pushed, Holds
<1> QED BY <1>1, <1>2

(* One line more, before what was read and before the same with p behind.  *)
LEMMA PushedOlder ==
  ASSUME NEW limit \in Nat \ {0}, NEW s, Digest(s, limit), NEW p \in Prompts, NEW x,
         Pushed(s, p, limit, x), NEW l \in Lines
  PROVE  Pushed(WithOlder(s, l, limit), p, limit, WithOlder(x, l, limit))
<1> DEFINE n == Len(s)
<1>1. s \in Seq(Prompts) /\ n \in Nat /\ n <= limit
  BY DEF Digest
<1>2. ASSUME NEW d \in 1..n
      PROVE  /\ Moved(s, d, p) \in Seq(Prompts) /\ Len(Moved(s, d, p)) = n
             /\ \A i \in 1..n : Moved(s, d, p)[i] = IF i < d THEN s[i]
                                                   ELSE IF i = n THEN p ELSE s[i + 1]
  <2>1. d \in 1..Len(s) /\ s \in Seq(Prompts)
    BY <1>1
  <2>2. /\ Moved(s, d, p) \in Seq(Prompts) /\ Len(Moved(s, d, p)) = Len(s)
        /\ \A i \in 1..Len(s) : Moved(s, d, p)[i] = IF i < d THEN s[i]
                                                   ELSE IF i = Len(s) THEN p ELSE s[i + 1]
    BY <2>1, MovedIs, ZenonT(40)
  <2> QED BY <2>2
<1>3. CASE l = "torn"
  BY <1>3 DEF WithOlder
<1>4. CASE l # "torn" /\ \E d \in 1..n : s[d] = p /\ x = Moved(s, d, p)
  <2>1. PICK d \in 1..n : s[d] = p /\ x = Moved(s, d, p)
    BY <1>4
  <2>2. /\ x \in Seq(Prompts) /\ Len(x) = n
        /\ \A i \in 1..n : x[i] = IF i < d THEN s[i] ELSE IF i = n THEN p ELSE s[i + 1]
    BY <1>2, <2>1
  <2>3. Holds(x, l) <=> Holds(s, l)
    <3>1. ASSUME Holds(x, l) PROVE Holds(s, l)
      BY <3>1, <2>1, <2>2, <1>1 DEF Holds
    <3>2. ASSUME Holds(s, l) PROVE Holds(x, l)
      <4>1. PICK i \in 1..n : s[i] = l
        BY <3>2 DEF Holds
      <4>2. CASE i < d
        BY <4>1, <4>2, <2>2 DEF Holds
      <4>3. CASE i = d
        <5>1. x[n] = l
          BY <4>1, <4>3, <2>1, <2>2
        <5> QED BY <5>1, <2>1, <2>2 DEF Holds
      <4>4. CASE i > d
        <5>1. i - 1 \in 1..n /\ x[i - 1] = l
          BY <4>1, <4>4, <2>1, <2>2
        <5> QED BY <5>1, <2>2 DEF Holds
      <4> QED BY <4>1, <4>2, <4>3, <4>4
    <3> QED BY <3>1, <3>2
  <2>4. CASE Holds(s, l) \/ n = limit
    <3>1. WithOlder(s, l, limit) = s /\ WithOlder(x, l, limit) = x
      BY <2>2, <2>3, <2>4 DEF WithOlder
    <3> QED BY <3>1
  <2>5. CASE ~(Holds(s, l) \/ n = limit)
    <3> DEFINE u == <<l>> \o s
               y == <<l>> \o x
    <3>1. WithOlder(s, l, limit) = u /\ WithOlder(x, l, limit) = y
      BY <2>2, <2>3, <2>5, <1>4 DEF WithOlder
    <3>2. l \in Prompts
      BY <1>4 DEF Lines
    <3>3. /\ u \in Seq(Prompts) /\ Len(u) = n + 1 /\ u[1] = l
          /\ \A i \in 1..n : u[i + 1] = s[i]
          /\ \A i \in 2..(n + 1) : u[i] = s[i - 1]
      BY <3>2, <1>1, Prefixed
    <3>4. /\ y \in Seq(Prompts) /\ Len(y) = n + 1 /\ y[1] = l
          /\ \A i \in 2..(n + 1) : y[i] = x[i - 1]
      BY <3>2, <2>2, Prefixed
    <3> HIDE DEF u, y
    <3>5. d + 1 \in 1..Len(u) /\ u[d + 1] = p
      BY <2>1, <3>3
    <3> DEFINE v == Moved(u, d + 1, p)
    <3>6. /\ v \in Seq(Prompts) /\ Len(v) = n + 1
          /\ \A i \in 1..(n + 1) : v[i] = IF i < d + 1 THEN u[i]
                                          ELSE IF i = n + 1 THEN p ELSE u[i + 1]
      <4>1. u \in Seq(Prompts) /\ d + 1 \in 1..Len(u) /\ Len(u) = n + 1
        BY <3>3, <3>5
      <4>2. /\ v \in Seq(Prompts) /\ Len(v) = Len(u)
            /\ \A i \in 1..Len(u) : v[i] = IF i < d + 1 THEN u[i]
                                           ELSE IF i = Len(u) THEN p ELSE u[i + 1]
        <5> DEFINE e == d + 1
        <5> HIDE DEF e
        <5>1. /\ Moved(u, e, p) \in Seq(Prompts) /\ Len(Moved(u, e, p)) = Len(u)
              /\ \A i \in 1..Len(u) :
                   Moved(u, e, p)[i] = IF i < e THEN u[i] ELSE IF i = Len(u) THEN p ELSE u[i + 1]
          BY <4>1, MovedIs DEF e
        <5> QED BY <5>1 DEF e
      <4> QED BY <4>1, <4>2
    <3> HIDE DEF v
    <3>7. ASSUME NEW i \in 1..(n + 1) PROVE y[i] = v[i]
      <4>1. CASE i = 1
        BY <4>1, <2>1, <3>3, <3>4, <3>6
      <4>2. CASE i # 1 /\ i < d + 1
        <5>1. i \in 2..(n + 1) /\ i - 1 \in 1..n /\ i - 1 < d
          BY <4>2, <1>1
        <5> QED BY <5>1, <4>2, <2>2, <3>3, <3>4, <3>6
      <4>3. CASE i >= d + 1 /\ i = n + 1
        <5>1. i \in 2..(n + 1) /\ i - 1 = n /\ n \in 1..n /\ ~(n < d) /\ ~(i < d + 1)
          BY <4>3, <1>1, <2>1
        <5> QED BY <5>1, <4>3, <2>2, <3>4, <3>6
      <4>4. CASE i >= d + 1 /\ i # n + 1
        <5>1. i \in 2..(n + 1) /\ i - 1 \in 1..n /\ i - 1 # n /\ ~(i - 1 < d) /\ ~(i < d + 1)
              /\ i \in 1..n /\ (i - 1) + 1 = i
          BY <4>4, <1>1, <2>1
        <5>2. y[i] = s[i]
          BY <5>1, <2>2, <3>4
        <5>3. v[i] = u[i + 1]
          BY <5>1, <4>4, <3>6
        <5> QED BY <5>1, <5>2, <5>3, <3>3
      <4> QED BY <4>1, <4>2, <4>3, <4>4
    <3>8. y = v
      BY <3>4, <3>6, <3>7, SameSequence
    <3> QED BY <3>1, <3>5, <3>8 DEF Pushed, v
  <2> QED BY <2>4, <2>5
<1>5. CASE l # "torn" /\ ~Holds(s, p) /\ n = limit /\ x = Moved(s, 1, p)
  <2>1. 1 \in 1..n /\ x \in Seq(Prompts) /\ Len(x) = n
    BY <1>1, <1>2, <1>5
  <2>2. WithOlder(s, l, limit) = s /\ WithOlder(x, l, limit) = x
    BY <2>1, <1>5 DEF WithOlder
  <2> QED BY <2>2
<1>6. CASE l # "torn" /\ ~Holds(s, p) /\ n # limit /\ x = Append(s, p)
  <2>1. /\ x \in Seq(Prompts) /\ Len(x) = n + 1 /\ x[n + 1] = p
        /\ \A i \in 1..n : x[i] = s[i]
    BY <1>1, <1>6
  <2>2. l \in Prompts
    BY <1>6 DEF Lines
  <2>3. CASE Holds(s, l)
    <3>1. Holds(x, l)
      BY <2>1, <2>3, <1>1 DEF Holds
    <3>2. WithOlder(s, l, limit) = s /\ WithOlder(x, l, limit) = x
      BY <2>3, <3>1 DEF WithOlder
    <3> QED BY <3>2
  <2> DEFINE u == <<l>> \o s
             y == <<l>> \o x
  <2>4. /\ u \in Seq(Prompts) /\ Len(u) = n + 1 /\ u[1] = l
        /\ \A i \in 2..(n + 1) : u[i] = s[i - 1]
    BY <2>2, <1>1, Prefixed
  <2>5. /\ y \in Seq(Prompts) /\ Len(y) = n + 2 /\ y[1] = l
        /\ \A i \in 2..(n + 2) : y[i] = x[i - 1]
    BY <2>2, <2>1, <1>1, Prefixed
  <2>6. ~Holds(s, l) => WithOlder(s, l, limit) = u
    BY <1>6 DEF WithOlder
  <2>7. CASE ~Holds(s, l) /\ l = p
    <3>1. WithOlder(x, l, limit) = x
      <4>1. Holds(x, l)
        BY <2>1, <2>7, <1>1 DEF Holds
      <4> QED BY <4>1 DEF WithOlder
    <3> HIDE DEF u, y
    <3> DEFINE v == Moved(u, 1, p)
    <3>2. /\ v \in Seq(Prompts) /\ Len(v) = n + 1
          /\ \A i \in 1..(n + 1) : v[i] = IF i < 1 THEN u[i]
                                          ELSE IF i = n + 1 THEN p ELSE u[i + 1]
      BY <2>4, <1>1 DEF Moved
    <3> HIDE DEF v
    <3>3. ASSUME NEW i \in 1..(n + 1) PROVE x[i] = v[i]
      <4>1. CASE i = n + 1
        BY <4>1, <2>1, <3>2, <1>1
      <4>2. CASE i # n + 1
        <5>1. i \in 1..n /\ i + 1 \in 2..(n + 1) /\ (i + 1) - 1 = i
          BY <4>2, <1>1
        <5> QED BY <5>1, <4>2, <2>1, <2>4, <3>2
      <4> QED BY <4>1, <4>2
    <3>4. x = v
      BY <2>1, <3>2, <3>3, SameSequence
    <3>5. 1 \in 1..Len(u) /\ u[1] = p
      BY <2>4, <2>7, <1>1
    <3> QED BY <2>6, <2>7, <3>1, <3>4, <3>5 DEF Pushed, v
  <2>8. CASE ~Holds(s, l) /\ l # p
    <3>1. ~Holds(x, l)
      BY <2>1, <2>8, <1>1 DEF Holds
    <3>2. ~Holds(u, p)
      <4> SUFFICES ASSUME NEW i \in 1..Len(u), u[i] = p PROVE FALSE
        BY DEF Holds
      <4> HIDE DEF u
      <4>1. CASE i = 1
        BY <4>1, <2>4, <2>8
      <4>2. CASE i # 1
        <5>1. i \in 2..(n + 1) /\ i - 1 \in 1..n
          BY <4>2, <2>4, <1>1
        <5> QED BY <5>1, <2>4, <1>6 DEF Holds
      <4> QED BY <4>1, <4>2
    <3>3. CASE n + 1 = limit
      <4>1. WithOlder(x, l, limit) = x
        BY <3>3, <2>1 DEF WithOlder
      <4> HIDE DEF u, y
      <4> DEFINE v == Moved(u, 1, p)
      <4>2. /\ v \in Seq(Prompts) /\ Len(v) = n + 1
            /\ \A i \in 1..(n + 1) : v[i] = IF i < 1 THEN u[i]
                                            ELSE IF i = n + 1 THEN p ELSE u[i + 1]
        BY <2>4, <1>1 DEF Moved
      <4> HIDE DEF v
      <4>3. ASSUME NEW i \in 1..(n + 1) PROVE x[i] = v[i]
        <5>1. CASE i = n + 1
          BY <5>1, <2>1, <4>2, <1>1
        <5>2. CASE i # n + 1
          <6>1. i \in 1..n /\ i + 1 \in 2..(n + 1) /\ (i + 1) - 1 = i
            BY <5>2, <1>1
          <6> QED BY <6>1, <5>2, <2>1, <2>4, <4>2
        <5> QED BY <5>1, <5>2
      <4>4. x = v
        BY <2>1, <4>2, <4>3, SameSequence
      <4> QED BY <2>4, <2>6, <2>8, <3>2, <3>3, <4>1, <4>4 DEF Pushed, v
    <3>4. CASE n + 1 # limit
      <4>1. WithOlder(x, l, limit) = y
        BY <3>1, <3>4, <2>1, <1>6 DEF WithOlder
      <4> HIDE DEF u, y
      <4> DEFINE v == Append(u, p)
      <4>2. /\ v \in Seq(Prompts) /\ Len(v) = n + 2 /\ v[n + 2] = p
            /\ \A i \in 1..(n + 1) : v[i] = u[i]
        BY <2>4, <1>1
      <4> HIDE DEF v
      <4>3. ASSUME NEW i \in 1..(n + 2) PROVE y[i] = v[i]
        <5>1. CASE i = 1
          BY <5>1, <2>4, <2>5, <4>2, <1>1
        <5>2. CASE i = n + 2
          <6>1. i \in 2..(n + 2) /\ i - 1 = n + 1
            BY <5>2, <1>1
          <6> QED BY <6>1, <5>2, <2>1, <2>5, <4>2
        <5>3. CASE i # 1 /\ i # n + 2
          <6>1. i \in 2..(n + 1) /\ i \in 2..(n + 2) /\ i \in 1..(n + 1) /\ i - 1 \in 1..n
            BY <5>3, <1>1
          <6> QED BY <6>1, <2>1, <2>4, <2>5, <4>2
        <5> QED BY <5>1, <5>2, <5>3
      <4>4. y = v
        BY <2>5, <4>2, <4>3, SameSequence
      <4> QED BY <2>4, <2>6, <2>8, <3>2, <3>4, <4>1, <4>4 DEF Pushed, v
    <3> QED BY <3>3, <3>4
  <2> QED BY <2>3, <2>7, <2>8
<1> QED BY <1>3, <1>4, <1>5, <1>6 DEF Pushed

(* What a file holds for a reader once a prompt has been appended depends  *)
(* on what it held for a reader before.                                    *)
LEMMA TopPushed ==
  ASSUME NEW log \in Seq(Lines), NEW limit \in Nat \ {0}, NEW p \in Prompts,
         "torn" \notin Prompts
  PROVE  Pushed(TopUnique(log, limit), p, limit, TopUnique(Append(log, p), limit))
<1> DEFINE longer == Append(log, p)
           n == Len(log)
<1>1. /\ longer \in Seq(Lines) /\ Len(longer) = n + 1 /\ longer[n + 1] = p
      /\ \A i \in 1..n : longer[i] = log[i]
  BY DEF Lines
<1> HIDE DEF longer
<1>2. PICK r : TopReading(log, limit, r)
  BY TopReads
<1>3. PICK q : TopReading(longer, limit, q)
  BY <1>1, TopReads
<1>4. \A k \in 0..n : Digest(r[k], limit)
  BY <1>2, ReadingDigest
<1> DEFINE S == {k \in Nat : k <= n => Pushed(r[k], p, limit, q[k + 1])}
<1>5. 0 \in S
  <2>1. q[0 + 1] = WithOlder(q[0], longer[n + 1 - 0], limit)
    BY <1>1, <1>3 DEF TopReading
  <2>2. longer[n + 1 - 0] = p /\ q[0] = <<>> /\ r[0] = <<>>
    BY <1>1, <1>2, <1>3 DEF TopReading
  <2>3. WithOlder(<<>>, p, limit) = <<p>>
    BY DEF WithOlder, Holds
  <2>4. Pushed(<<>>, p, limit, <<p>>)
    <3>1. Append(<<>>, p) = <<p>>
      OBVIOUS
    <3> QED BY <3>1 DEF Pushed, Holds
  <2> QED BY <2>1, <2>2, <2>3, <2>4
<1>6. ASSUME NEW k \in Nat, k \in S PROVE k + 1 \in S
  <2> SUFFICES ASSUME k + 1 <= n PROVE Pushed(r[k + 1], p, limit, q[k + 1 + 1])
    OBVIOUS
  <2>1. q[k + 1 + 1] = WithOlder(q[k + 1], longer[n + 1 - (k + 1)], limit)
    BY <1>1, <1>3 DEF TopReading
  <2>2. r[k + 1] = WithOlder(r[k], log[n - k], limit)
    BY <1>2 DEF TopReading
  <2>3. longer[n + 1 - (k + 1)] = log[n - k] /\ log[n - k] \in Lines
    BY <1>1
  <2>4. Digest(r[k], limit) /\ Pushed(r[k], p, limit, q[k + 1])
    BY <1>4, <1>6
  <2>5. Pushed(WithOlder(r[k], log[n - k], limit), p, limit,
               WithOlder(q[k + 1], log[n - k], limit))
    BY <2>3, <2>4, PushedOlder
  <2> QED BY <2>1, <2>2, <2>3, <2>5
<1>7. Nat \subseteq S
  <2> HIDE DEF S
  <2> QED BY <1>5, <1>6, SetInduction
<1>8. Pushed(r[n], p, limit, q[n + 1])
  BY <1>7
<1> QED BY <1>1, <1>2, <1>3, <1>8 DEF TopReading, longer

(* Two files that read the same do so when the same prompt is appended.    *)
LEMMA TopAppend ==
  ASSUME NEW f \in Seq(Lines), NEW g \in Seq(Lines), NEW limit \in Nat \ {0},
         NEW p \in Prompts, "torn" \notin Prompts,
         TopUnique(f, limit) = TopUnique(g, limit)
  PROVE  TopUnique(Append(f, p), limit) = TopUnique(Append(g, p), limit)
<1>1. /\ Pushed(TopUnique(f, limit), p, limit, TopUnique(Append(f, p), limit))
      /\ Pushed(TopUnique(f, limit), p, limit, TopUnique(Append(g, p), limit))
  BY TopPushed
<1>2. Digest(TopUnique(f, limit), limit)
  BY TopDigest
<1> QED BY <1>1, <1>2, PushedOnce

-----------------------------------------------------------------------------
(* The prompts: the invariant.                                             *)

CompactionSteps == {"idle", "stat", "read", "check", "rename", "retry"}

LineTypes == /\ entries \in Seq(Lines) /\ logged \in Seq(Lines)
             /\ tail \in Lines \cup {"none"}

WorkTypes ==
  /\ pending \in [Trackers -> [Prompts -> Nat]]
  /\ closing \in [Trackers -> BOOLEAN]
  /\ writing \in [Trackers -> Prompts \cup {"none"}]
  /\ step \in [Trackers -> CompactionSteps]
  /\ attempt \in [Trackers -> 0..(MaxAttempts - 1)]
  /\ size \in [Trackers -> Nat] /\ data \in [Trackers -> Seq(Prompts)]
  /\ records \in Nat /\ failures \in Nat

PromptTypeOK ==
  /\ LineTypes /\ WorkTypes
  /\ replaced \subseteq Trackers /\ overtaken \subseteq Trackers /\ raced \in BOOLEAN

(* The lines that have their end read like all the lines there ever were.  *)
LinesInv == raced \/ TopUnique(entries, MaxPrompts) = TopUnique(logged, MaxPrompts)

(* Append and optimisticWrite of one tracker exclude each other.           *)
LockInv(t) == writing[t] = "none" \/ step[t] # "rename"

(* What a compaction is about to write is what a reader of the file finds, *)
(* unless the file has grown since its size was taken, or another session  *)
(* came between.                                                           *)
CompactionInv(t) ==
  \/ t \in overtaken
  \/ /\ step[t] \in {"read", "check", "rename"} => size[t] <= Len(File)
     /\ step[t] = "check" /\ size[t] = Len(File)
          => data[t] = TopUnique(File, MaxPrompts)
     /\ step[t] = "rename" => data[t] = TopUnique(File, MaxPrompts)

PromptInv == /\ PromptTypeOK /\ LinesInv
             /\ \A t \in Trackers : LockInv(t) /\ CompactionInv(t)

(* What the steps have in common: who acts, and which kinds they are.      *)
LEMMA PromptSteps ==
  ASSUME [PromptNext]_promptVars
  PROVE  \/ UNCHANGED promptVars
         \/ \E t \in Trackers :
              \/ \E p \in Prompts : RecordPrompt(t, p) \/ OpenFile(t, p)
              \/ WritePrompt(t) \/ WriteFails(t) \/ Close(t) \/ Restart(t)
              \/ Stat(t) \/ PrepareEntries(t) \/ CheckSize(t) \/ AtomicWrite(t)
              \/ ShouldStillCompact(t)
BY DEF PromptNext

(* Lines that may be appended.                                             *)
LEMMA LinesAppend ==
  ASSUME NEW s \in Seq(Lines), NEW l \in Lines
  PROVE  Append(s, l) \in Seq(Lines) /\ Len(Append(s, l)) = Len(s) + 1
OBVIOUS

(* A prompt is a line of the file.                                         *)
LEMMA PromptsAreLines == ASSUME NEW s \in Seq(Prompts) PROVE s \in Seq(Lines)
BY DEF Lines

(* Neither "torn" nor "none" is a prompt.                                  *)
LEMMA Marks == /\ "torn" \notin Prompts /\ "none" \notin Prompts
               /\ "torn" \in Lines /\ "none" \notin Lines /\ Prompts \subseteq Lines
BY PromptAssumption DEF Lines

(* The file with its unfinished line.                                      *)
LEMMA FileIs ==
  ASSUME LineTypes
  PROVE  /\ File \in Seq(Lines) /\ WithTail(logged) \in Seq(Lines)
         /\ Len(File) = Len(entries) + (IF tail = "none" THEN 0 ELSE 1)
<1>1. CASE tail = "none"
  BY <1>1 DEF File, WithTail, LineTypes
<1>2. CASE tail # "none"
  <2>1. tail \in Lines
    BY <1>2 DEF LineTypes
  <2> QED BY <1>2, <2>1, LinesAppend DEF File, WithTail, LineTypes
<1> QED BY <1>1, <1>2

(* Files that read the same do so with the same unfinished line.           *)
LEMMA TopTail ==
  ASSUME LineTypes, TopUnique(entries, MaxPrompts) = TopUnique(logged, MaxPrompts)
  PROVE  TopUnique(File, MaxPrompts) = TopUnique(WithTail(logged), MaxPrompts)
<1> USE DEF LineTypes, File, WithTail
<1>0. MaxPrompts \in Nat \ {0} /\ MaxPrompts \in Nat
  BY PromptAssumption
<1>1. CASE tail = "none"
  BY <1>1
<1>2. CASE tail = "torn"
  <2>1. /\ TopUnique(Append(entries, "torn"), MaxPrompts) = TopUnique(entries, MaxPrompts)
        /\ TopUnique(Append(logged, "torn"), MaxPrompts) = TopUnique(logged, MaxPrompts)
    BY <1>0, TopTorn
  <2> QED BY <1>2, <2>1
<1>3. CASE tail \in Prompts
  <2>1. TopUnique(Append(entries, tail), MaxPrompts) = TopUnique(Append(logged, tail), MaxPrompts)
    BY <1>0, <1>3, TopAppend, Marks
  <2> QED BY <1>3, <2>1, Marks
<1> QED BY <1>1, <1>2, <1>3 DEF Lines

(* An unfinished line that is spoiled counts for no reader.                *)
LEMMA SpoiledIs ==
  ASSUME NEW s \in Seq(Lines)
  PROVE  /\ Spoiled(s) \in Seq(Lines)
         /\ Len(Spoiled(s)) = Len(s) + (IF tail = "none" THEN 0 ELSE 1)
         /\ TopUnique(Spoiled(s), MaxPrompts) = TopUnique(s, MaxPrompts)
<1>0. MaxPrompts \in Nat
  BY PromptAssumption
<1>1. CASE tail = "none"
  BY <1>1 DEF Spoiled
<1>2. CASE tail # "none"
  <2>1. Append(s, "torn") \in Seq(Lines) /\ Len(Append(s, "torn")) = Len(s) + 1
    BY Marks, LinesAppend
  <2>2. TopUnique(Append(s, "torn"), MaxPrompts) = TopUnique(s, MaxPrompts)
    BY <1>0, TopTorn
  <2> QED BY <1>2, <2>1, <2>2 DEF Spoiled
<1> QED BY <1>1, <1>2

(* A write, whole or in part, makes the file one line longer, and a reader *)
(* finds the same in it as if no line had ever been dropped.               *)
LEMMA FileGrows ==
  ASSUME LineTypes, NEW p \in Prompts, PutLine(p) \/ PutPart(p)
  PROVE  /\ LineTypes' /\ Len(File') = Len(File) + 1
         /\ TopUnique(entries, MaxPrompts) = TopUnique(logged, MaxPrompts)
              => TopUnique(entries', MaxPrompts) = TopUnique(logged', MaxPrompts)
<1>0. MaxPrompts \in Nat \ {0} /\ MaxPrompts \in Nat
  BY PromptAssumption
<1> DEFINE e == Spoiled(entries)
           g == Spoiled(logged)
<1>1. /\ e \in Seq(Lines) /\ g \in Seq(Lines) /\ entries \in Seq(Lines)
      /\ Len(e) = Len(entries) + (IF tail = "none" THEN 0 ELSE 1)
      /\ TopUnique(e, MaxPrompts) = TopUnique(entries, MaxPrompts)
      /\ TopUnique(g, MaxPrompts) = TopUnique(logged, MaxPrompts)
  BY SpoiledIs DEF LineTypes
<1>2. Len(File) = Len(e)
  BY <1>1, FileIs
<1>3. CASE PutPart(p)
  <2>1. entries' = e /\ logged' = g /\ tail' \in Lines
    BY <1>3, Marks DEF PutPart
  <2> HIDE DEF e, g
  <2>2. LineTypes'
    BY <1>1, <2>1 DEF LineTypes
  <2>3. File' = Append(e, tail')
    BY <2>1, Marks DEF File, WithTail
  <2>4. Len(File') = Len(e) + 1
    BY <1>1, <2>1, <2>3, LinesAppend
  <2> QED BY <1>1, <1>2, <2>1, <2>2, <2>4
<1>4. CASE PutLine(p)
  <2> DEFINE l == IF tail = "none" THEN p ELSE "torn"
  <2>1. entries' = Append(e, l) /\ logged' = Append(g, l) /\ tail' = "none" /\ l \in Lines
    BY <1>4, Marks DEF PutLine
  <2>2. l \in Prompts \/ l = "torn"
    OBVIOUS
  <2> HIDE DEF e, g, l
  <2>3. LineTypes'
    BY <1>1, <2>1, LinesAppend DEF LineTypes
  <2>4. File' = entries'
    BY <2>1 DEF File, WithTail
  <2>5. Len(File') = Len(e) + 1
    BY <1>1, <2>1, <2>4, LinesAppend
  <2>6. ASSUME TopUnique(entries, MaxPrompts) = TopUnique(logged, MaxPrompts)
        PROVE  TopUnique(entries', MaxPrompts) = TopUnique(logged', MaxPrompts)
    <3>1. TopUnique(e, MaxPrompts) = TopUnique(g, MaxPrompts)
      BY <1>1, <2>6
    <3>2. CASE l \in Prompts
      BY <1>0, <1>1, <2>1, <3>1, <3>2, TopAppend, Marks
    <3>3. CASE l = "torn"
      <4>1. /\ TopUnique(Append(e, "torn"), MaxPrompts) = TopUnique(e, MaxPrompts)
            /\ TopUnique(Append(g, "torn"), MaxPrompts) = TopUnique(g, MaxPrompts)
        BY <1>0, <1>1, TopTorn
      <4> QED BY <2>1, <3>1, <3>3, <4>1
    <3> QED BY <2>2, <3>2, <3>3
  <2> QED BY <1>2, <2>3, <2>5, <2>6
<1> QED BY <1>3, <1>4

(* A rename puts a digest in the place of the file.                        *)
LEMMA FileReplaced ==
  ASSUME LineTypes, NEW d \in Seq(Prompts),
         entries' = d, tail' = "none", logged' = WithTail(logged)
  PROVE  /\ LineTypes'
         /\ d = TopUnique(File, MaxPrompts)
            /\ TopUnique(entries, MaxPrompts) = TopUnique(logged, MaxPrompts)
              => TopUnique(entries', MaxPrompts) = TopUnique(logged', MaxPrompts)
<1>0. MaxPrompts \in Nat
  BY PromptAssumption
<1>1. LineTypes'
  BY FileIs, PromptsAreLines DEF LineTypes
<1>2. ASSUME d = TopUnique(File, MaxPrompts),
             TopUnique(entries, MaxPrompts) = TopUnique(logged, MaxPrompts)
      PROVE  TopUnique(entries', MaxPrompts) = TopUnique(logged', MaxPrompts)
  <2>1. Digest(d, MaxPrompts)
    BY <1>0, <1>2, FileIs, TopDigest
  <2>2. TopUnique(d, MaxPrompts) = d
    BY <1>0, <2>1, TopOfDigest, Marks
  <2>3. TopUnique(File, MaxPrompts) = TopUnique(WithTail(logged), MaxPrompts)
    BY <1>2, TopTail
  <2> QED BY <1>2, <2>2, <2>3
<1> QED BY <1>1, <1>2

(* Nothing is recorded, and nobody compacts.                               *)
LEMMA PromptInitInv == PromptInit => PromptInv
<1> SUFFICES ASSUME PromptInit PROVE PromptInv
  OBVIOUS
<1>1. PromptTypeOK
  <2>1. <<>> \in Seq(Lines) /\ <<>> \in Seq(Prompts)
    OBVIOUS
  <2>2. 0 \in 0..(MaxAttempts - 1)
    BY PromptAssumption
  <2> QED BY <2>1, <2>2 DEF PromptInit, PromptTypeOK, WorkTypes, LineTypes, CompactionSteps
<1>2. LinesInv
  BY DEF PromptInit, LinesInv
<1>3. \A t \in Trackers : LockInv(t) /\ CompactionInv(t)
  BY DEF PromptInit, LockInv, CompactionInv
<1> QED BY <1>1, <1>2, <1>3 DEF PromptInv

(* The lines, whoever acts.                                                *)
LEMMA LineSteps ==
  ASSUME PromptTypeOK, [PromptNext]_promptVars
  PROVE  \/ UNCHANGED lineVars /\ (raced => raced')
         \/ /\ UNCHANGED raced
            /\ \E t \in Trackers : writing[t] \in Prompts /\ (PutLine(writing[t]) \/ PutPart(writing[t]))
         \/ /\ raced' = TRUE /\ UNCHANGED <<entries, tail>>
            /\ \E p \in Prompts : logged' = Append(logged, p)
         \/ \E t \in Trackers :
              /\ step[t] = "rename" /\ raced' = (raced \/ t \in overtaken)
              /\ entries' = data[t] /\ tail' = "none" /\ logged' = WithTail(logged)
<1> USE DEF service, compaction, races, lineVars, promptVars
<1>1. CASE UNCHANGED promptVars
  BY <1>1
<1>2. ASSUME NEW t \in Trackers, NEW p \in Prompts, RecordPrompt(t, p) \/ OpenFile(t, p)
      PROVE  UNCHANGED lineVars /\ raced' = raced
  BY <1>2 DEF RecordPrompt, OpenFile
<1>3. ASSUME NEW t \in Trackers,
             Close(t) \/ Stat(t) \/ PrepareEntries(t) \/ CheckSize(t) \/ ShouldStillCompact(t)
      PROVE  UNCHANGED lineVars /\ raced' = raced
  BY <1>3 DEF Close, Stat, PrepareEntries, CheckSize, ShouldStillCompact
<1>4. ASSUME NEW t \in Trackers, writing[t] # "none" PROVE writing[t] \in Prompts
  BY <1>4 DEF PromptTypeOK, WorkTypes
<1>5. ASSUME NEW t \in Trackers, WritePrompt(t)
      PROVE  \/ UNCHANGED raced /\ writing[t] \in Prompts /\ PutLine(writing[t])
             \/ /\ raced' = TRUE /\ UNCHANGED <<entries, tail>>
                /\ \E p \in Prompts : logged' = Append(logged, p)
  <2>1. writing[t] \in Prompts
    BY <1>4, <1>5 DEF WritePrompt
  <2> QED BY <1>5, <2>1 DEF WritePrompt
<1>6. ASSUME NEW t \in Trackers, WriteFails(t) \/ Restart(t)
      PROVE  /\ UNCHANGED raced
             /\ \/ UNCHANGED lineVars
                \/ writing[t] \in Prompts /\ PutPart(writing[t])
  BY <1>4, <1>6 DEF WriteFails, Restart
<1>7. ASSUME NEW t \in Trackers, AtomicWrite(t)
      PROVE  \/ UNCHANGED lineVars /\ raced' = raced
             \/ /\ step[t] = "rename" /\ raced' = (raced \/ t \in overtaken)
                /\ entries' = data[t] /\ tail' = "none" /\ logged' = WithTail(logged)
  BY <1>7 DEF AtomicWrite
<1> QED BY <1>1, <1>2, <1>3, <1>5, <1>6, <1>7, PromptSteps

(* The types of the compaction and of the service, whoever acts.           *)
LEMMA WorkSteps == PromptTypeOK /\ [PromptNext]_promptVars => WorkTypes'
<1> SUFFICES ASSUME PromptTypeOK, [PromptNext]_promptVars PROVE WorkTypes'
  OBVIOUS
<1> USE DEF service, compaction, races, lineVars, promptVars, CompactionSteps
<1>0. /\ 0 \in 0..(MaxAttempts - 1) /\ Len(File) \in Nat /\ failures + 1 \in Nat
      /\ Digest(TopUnique(File, MaxPrompts), MaxPrompts)
  BY PromptAssumption, FileIs, TopDigest DEF PromptTypeOK, WorkTypes
<1>1. CASE UNCHANGED promptVars
  BY <1>1 DEF PromptTypeOK, WorkTypes
<1>2. ASSUME NEW t \in Trackers, NEW p \in Prompts, RecordPrompt(t, p) PROVE WorkTypes'
  <2>1. pending' \in [Trackers -> [Prompts -> Nat]]
    BY <1>2 DEF PromptTypeOK, WorkTypes, RecordPrompt
  <2> QED BY <1>2, <2>1 DEF PromptTypeOK, WorkTypes, RecordPrompt
<1>3. ASSUME NEW t \in Trackers, NEW p \in Prompts, OpenFile(t, p) PROVE WorkTypes'
  <2>1. pending' \in [Trackers -> [Prompts -> Nat]]
    <3>1. pending[t][p] - 1 \in Nat
      BY <1>3 DEF PromptTypeOK, WorkTypes, OpenFile
    <3> QED BY <1>3, <3>1 DEF PromptTypeOK, WorkTypes, OpenFile
  <2>2. /\ writing' = writing \/ writing' = [writing EXCEPT ![t] = p]
        /\ failures' = failures \/ failures' = failures + 1
        /\ UNCHANGED <<closing, compaction, records>>
    BY <1>3 DEF OpenFile, Failure
  <2> QED BY <1>0, <2>1, <2>2 DEF PromptTypeOK, WorkTypes
<1>4. ASSUME NEW t \in Trackers, WritePrompt(t) PROVE WorkTypes'
  <2>1. /\ step' = step \/ step' = [step EXCEPT ![t] = "stat"]
        /\ attempt' = attempt \/ attempt' = [attempt EXCEPT ![t] = 0]
        /\ failures' = failures \/ failures' = failures + 1
        /\ writing' = [writing EXCEPT ![t] = "none"]
        /\ UNCHANGED <<pending, closing, size, data, records>>
    BY <1>4 DEF WritePrompt, StartCompaction, Failure, Closed
  <2>2. /\ step' \in [Trackers -> CompactionSteps]
        /\ writing' \in [Trackers -> Prompts \cup {"none"}]
    BY <2>1 DEF PromptTypeOK, WorkTypes
  <2>3. attempt' \in [Trackers -> 0..(MaxAttempts - 1)]
    BY <1>0, <2>1 DEF PromptTypeOK, WorkTypes
  <2>4. failures' \in Nat
    BY <1>0, <2>1 DEF PromptTypeOK, WorkTypes
  <2> QED BY <2>1, <2>2, <2>3, <2>4 DEF PromptTypeOK, WorkTypes
<1>5. ASSUME NEW t \in Trackers, WriteFails(t) \/ Close(t) PROVE WorkTypes'
  BY <1>0, <1>5 DEF PromptTypeOK, WorkTypes, WriteFails, Close, Failure, Closed
<1>6. ASSUME NEW t \in Trackers, Restart(t) PROVE WorkTypes'
  <2>1. pending' \in [Trackers -> [Prompts -> Nat]]
    BY <1>6 DEF PromptTypeOK, WorkTypes, Restart
  <2> QED BY <1>0, <1>6, <2>1 DEF PromptTypeOK, WorkTypes, Restart, Failure, Closed
<1>7. ASSUME NEW t \in Trackers, Stat(t) PROVE WorkTypes'
  <2>1. /\ \E c \in {"read", "retry"} : step' = [step EXCEPT ![t] = c]
        /\ size' = size \/ size' = [size EXCEPT ![t] = Len(File)]
        /\ failures' = failures \/ failures' = failures + 1
        /\ UNCHANGED <<pending, closing, writing, attempt, data, records>>
    BY <1>7 DEF Stat, Failed, Failure, Goto
  <2>2. step' \in [Trackers -> CompactionSteps]
    BY <2>1 DEF PromptTypeOK, WorkTypes
  <2>3. size' \in [Trackers -> Nat]
    BY <1>0, <2>1 DEF PromptTypeOK, WorkTypes
  <2>4. failures' \in Nat
    BY <1>0, <2>1 DEF PromptTypeOK, WorkTypes
  <2> QED BY <2>1, <2>2, <2>3, <2>4 DEF PromptTypeOK, WorkTypes
<1>8. ASSUME NEW t \in Trackers, PrepareEntries(t) PROVE WorkTypes'
  <2>1. \/ data' = data
        \/ data' = [data EXCEPT ![t] = TopUnique(File, MaxPrompts)]
    BY <1>8 DEF PrepareEntries
  <2>2. data' \in [Trackers -> Seq(Prompts)]
    BY <1>0, <2>1 DEF PromptTypeOK, WorkTypes, Digest
  <2>3. \E s \in {"check", "retry"} : Goto(t, s)
    BY <1>8 DEF PrepareEntries, Failed
  <2> QED BY <1>0, <1>8, <2>2, <2>3 DEF PromptTypeOK, WorkTypes, PrepareEntries, Failed, Failure, Goto
<1>9. ASSUME NEW t \in Trackers, CheckSize(t) \/ AtomicWrite(t) PROVE WorkTypes'
  <2>1. \E s \in {"rename", "retry", "idle"} : Goto(t, s)
    BY <1>9 DEF CheckSize, AtomicWrite, Failed
  <2> QED BY <1>0, <1>9, <2>1
          DEF PromptTypeOK, WorkTypes, CheckSize, AtomicWrite, Failed, Failure, Goto
<1>10. ASSUME NEW t \in Trackers, ShouldStillCompact(t) PROVE WorkTypes'
  <2>1. \E s \in {"stat", "idle"} : Goto(t, s)
    BY <1>10 DEF ShouldStillCompact
  <2>2. attempt' \in [Trackers -> 0..(MaxAttempts - 1)]
    <3>1. CASE attempt' = attempt
      BY <3>1 DEF PromptTypeOK, WorkTypes
    <3>2. CASE attempt[t] + 1 < MaxAttempts /\ attempt' = [attempt EXCEPT ![t] = @ + 1]
      <4>1. attempt[t] + 1 \in 0..(MaxAttempts - 1)
        BY <3>2, PromptAssumption DEF PromptTypeOK, WorkTypes
      <4> QED BY <3>2, <4>1 DEF PromptTypeOK, WorkTypes
    <3> QED BY <1>10, <3>1, <3>2 DEF ShouldStillCompact
  <2> QED BY <1>0, <1>10, <2>1, <2>2 DEF PromptTypeOK, WorkTypes, ShouldStillCompact, Failure, Goto
<1> QED BY <1>1, <1>2, <1>3, <1>4, <1>5, <1>6, <1>7, <1>8, <1>9, <1>10, PromptSteps

(* The types, whoever acts.                                                *)
LEMMA PromptTypes == PromptTypeOK /\ [PromptNext]_promptVars => PromptTypeOK'
<1> SUFFICES ASSUME PromptTypeOK, [PromptNext]_promptVars PROVE PromptTypeOK'
  OBVIOUS
<1>0. LineTypes
  BY DEF PromptTypeOK, WorkTypes
<1>1. LineTypes'
  <2>1. CASE UNCHANGED lineVars
    BY <1>0, <2>1 DEF LineTypes, lineVars
  <2>2. ASSUME NEW p \in Prompts, PutLine(p) \/ PutPart(p) PROVE LineTypes'
    BY <1>0, <2>2, FileGrows
  <2>3. ASSUME NEW p \in Prompts, UNCHANGED <<entries, tail>>, logged' = Append(logged, p)
        PROVE  LineTypes'
    BY <1>0, <2>3, LinesAppend, Marks DEF LineTypes
  <2>4. ASSUME NEW t \in Trackers, entries' = data[t], tail' = "none", logged' = WithTail(logged)
        PROVE  LineTypes'
    <3>1. data[t] \in Seq(Prompts)
      BY DEF PromptTypeOK, WorkTypes
    <3> QED BY <1>0, <2>4, <3>1, FileReplaced
  <2> QED BY <2>1, <2>2, <2>3, <2>4, LineSteps
<1>2. replaced' \subseteq Trackers /\ overtaken' \subseteq Trackers /\ raced' \in BOOLEAN
  <2>0. replaced \subseteq Trackers /\ overtaken \subseteq Trackers /\ raced \in BOOLEAN
    BY DEF PromptTypeOK
  <2>1. CASE UNCHANGED races
    BY <2>0, <2>1 DEF races
  <2>2. ASSUME NEW t \in Trackers, WritePrompt(t) \/ WriteFails(t) \/ Restart(t)
        PROVE  /\ replaced' \subseteq Trackers /\ overtaken' \subseteq Trackers
               /\ raced' \in BOOLEAN
    BY <2>0, <2>2 DEF WritePrompt, WriteFails, Restart, Closed, Overtake, lineVars
  <2>3. ASSUME NEW t \in Trackers, Stat(t) \/ AtomicWrite(t)
        PROVE  /\ replaced' \subseteq Trackers /\ overtaken' \subseteq Trackers
               /\ raced' \in BOOLEAN
    BY <2>0, <2>3 DEF Stat, AtomicWrite, Overtake, races
  <2>4. \/ UNCHANGED races
        \/ \E t \in Trackers : \/ WritePrompt(t) \/ WriteFails(t) \/ Restart(t)
                               \/ Stat(t) \/ AtomicWrite(t)
    BY PromptSteps DEF promptVars, RecordPrompt, OpenFile, Close, PrepareEntries, CheckSize,
                       ShouldStillCompact
  <2> QED BY <2>1, <2>2, <2>3, <2>4
<1> QED BY <1>1, <1>2, WorkSteps DEF PromptTypeOK, WorkTypes

(* What was dropped, nobody could load: but for a race, the lines read     *)
(* like all lines there were.                                              *)
LEMMA LinesStay == PromptInv /\ [PromptNext]_promptVars => LinesInv'
<1> SUFFICES ASSUME PromptInv, [PromptNext]_promptVars PROVE LinesInv'
  OBVIOUS
<1>0. LineTypes /\ LinesInv /\ PromptTypeOK
  BY DEF PromptInv, PromptTypeOK, WorkTypes
<1>1. CASE UNCHANGED lineVars /\ (raced => raced')
  BY <1>0, <1>1 DEF LinesInv, lineVars
<1>2. ASSUME UNCHANGED raced, NEW p \in Prompts, PutLine(p) \/ PutPart(p) PROVE LinesInv'
  BY <1>0, <1>2, FileGrows DEF LinesInv
<1>3. CASE raced' = TRUE
  BY <1>3 DEF LinesInv
<1>4. ASSUME NEW t \in Trackers, step[t] = "rename", raced' = (raced \/ t \in overtaken),
             entries' = data[t], tail' = "none", logged' = WithTail(logged)
      PROVE  LinesInv'
  <2>1. CASE raced \/ t \in overtaken
    BY <1>4, <2>1 DEF LinesInv
  <2>2. CASE ~raced /\ t \notin overtaken
    <3>1. data[t] = TopUnique(File, MaxPrompts) /\ data[t] \in Seq(Prompts)
      BY <1>4, <2>2 DEF PromptInv, CompactionInv, PromptTypeOK, WorkTypes
    <3>2. TopUnique(entries, MaxPrompts) = TopUnique(logged, MaxPrompts)
      BY <1>0, <2>2 DEF LinesInv
    <3> QED BY <1>0, <1>4, <3>1, <3>2, FileReplaced DEF LinesInv
  <2> QED BY <2>1, <2>2
<1> QED BY <1>0, <1>1, <1>2, <1>3, <1>4, LineSteps

(* A step of t that leaves the file alone keeps what the others, and t if  *)
(* it is not in its own pass, know of it.                                  *)
LEMMA QuietCompaction ==
  ASSUME PromptTypeOK, PromptTypeOK', NEW t \in Trackers,
         NEW u \in Trackers, CompactionInv(u), UNCHANGED <<entries, tail>>,
         size'[u] = size[u], data'[u] = data[u],
         step'[u] \in {step[u], "idle", "stat", "retry"},
         u \in overtaken => u \in overtaken'
  PROVE  CompactionInv(u)'
<1>1. File' = File
  BY DEF File, WithTail
<1> QED BY <1>1 DEF CompactionInv

(* A write by t: a pass whose size was taken before will not find it again *)
(* and one behind its check is overtaken.                                  *)
LEMMA GrownCompaction ==
  ASSUME PromptInv, PromptTypeOK', NEW t \in Trackers, NEW p \in Prompts,
         PutLine(p) \/ PutPart(p), writing[t] # "none", Overtake(t, {"rename"}),
         UNCHANGED <<size, data>>,
         step' = step \/ \E s \in {"stat", "idle"} : step' = [step EXCEPT ![t] = s],
         NEW u \in Trackers
  PROVE  CompactionInv(u)'
<1>0. LineTypes /\ CompactionInv(u)
  BY DEF PromptInv, PromptTypeOK, WorkTypes
<1>1. Len(File') = Len(File) + 1
  BY <1>0, FileGrows
<1>2. step'[u] = step[u] \/ (u = t /\ step'[u] \in {"stat", "idle"})
  BY DEF PromptInv, PromptTypeOK, WorkTypes
<1>3. u \in overtaken' \/ (u \notin overtaken /\ step[u] # "rename")
  BY DEF Overtake, PromptInv, LockInv
<1>4. Len(File) \in Nat /\ size[u] \in Nat /\ size' = size
  BY <1>0, FileIs DEF PromptInv, PromptTypeOK, WorkTypes
<1> QED BY <1>0, <1>1, <1>2, <1>3, <1>4 DEF CompactionInv

(* Every step keeps what the compactions know.                             *)
LEMMA CompactionsStay ==
  ASSUME PromptInv, [PromptNext]_promptVars, NEW u \in Trackers
  PROVE  CompactionInv(u)'
<1> USE DEF service, compaction, races, lineVars, promptVars
<1>0. PromptTypeOK /\ PromptTypeOK' /\ CompactionInv(u) /\ LineTypes
  BY PromptTypes DEF PromptInv, PromptTypeOK, WorkTypes
<1>1. CASE UNCHANGED promptVars
  BY <1>0, <1>1, QuietCompaction
<1>2. ASSUME NEW t \in Trackers, NEW p \in Prompts, RecordPrompt(t, p) \/ OpenFile(t, p)
      PROVE  CompactionInv(u)'
  BY <1>0, <1>2, QuietCompaction DEF RecordPrompt, OpenFile
<1>3. ASSUME NEW t \in Trackers, Close(t) PROVE CompactionInv(u)'
  BY <1>0, <1>3, QuietCompaction DEF Close
<1>4. ASSUME NEW t \in Trackers, WritePrompt(t) PROVE CompactionInv(u)'
  <2>1. /\ writing[t] \in Prompts /\ writing[t] # "none" /\ Overtake(t, {"rename"})
        /\ UNCHANGED <<size, data>>
        /\ step' = step \/ step' = [step EXCEPT ![t] = "stat"]
    BY <1>0, <1>4 DEF WritePrompt, StartCompaction, PromptTypeOK, WorkTypes
  <2>2. CASE PutLine(writing[t])
    BY <1>0, <2>1, <2>2, GrownCompaction
  <2>3. CASE UNCHANGED <<entries, tail>>
    <3>1. step'[u] \in {step[u], "idle", "stat", "retry"}
      BY <1>0, <2>1 DEF PromptTypeOK, WorkTypes
    <3> QED BY <1>0, <2>1, <2>3, <3>1, QuietCompaction DEF Overtake
  <2> QED BY <1>4, <2>2, <2>3 DEF WritePrompt
<1>5. ASSUME NEW t \in Trackers, WriteFails(t) \/ Restart(t) PROVE CompactionInv(u)'
  <2>1. /\ UNCHANGED <<size, data>>
        /\ step' = step \/ step' = [step EXCEPT ![t] = "idle"]
    BY <1>5 DEF WriteFails, Restart
  <2>2. CASE writing[t] # "none" /\ PutPart(writing[t]) /\ Overtake(t, {"rename"})
    <3>1. writing[t] \in Prompts
      BY <1>0, <2>2 DEF PromptTypeOK, WorkTypes
    <3> QED BY <1>0, <2>1, <2>2, <3>1, GrownCompaction
  <2>3. CASE UNCHANGED <<lineVars, overtaken>>
    <3>1. step'[u] \in {step[u], "idle", "stat", "retry"}
      BY <1>0, <2>1 DEF PromptTypeOK, WorkTypes
    <3> QED BY <1>0, <2>1, <2>3, <3>1, QuietCompaction
  <2> QED BY <1>5, <2>2, <2>3 DEF WriteFails, Restart
<1>6. ASSUME NEW t \in Trackers, Stat(t) PROVE CompactionInv(u)'
  <2>1. UNCHANGED <<entries, tail, data>>
    BY <1>6 DEF Stat
  <2>2. CASE u = t
    <3>1. File' = File
      BY <2>1 DEF File, WithTail
    <3>2. step'[u] = "retry" \/ (step'[u] = "read" /\ size'[u] = Len(File))
      BY <1>0, <1>6, <2>2 DEF Stat, Failed, Goto, PromptTypeOK, WorkTypes
    <3>3. Len(File) \in Nat
      BY <1>0, FileIs
    <3> QED BY <3>1, <3>2, <3>3 DEF CompactionInv
  <2>3. CASE u # t
    <3>1. size'[u] = size[u] /\ step'[u] = step[u] /\ (u \in overtaken => u \in overtaken')
      BY <1>0, <1>6, <2>3 DEF Stat, Failed, Goto, PromptTypeOK, WorkTypes
    <3> QED BY <1>0, <2>1, <3>1, QuietCompaction
  <2> QED BY <2>2, <2>3
<1>7. ASSUME NEW t \in Trackers, PrepareEntries(t) PROVE CompactionInv(u)'
  <2>1. UNCHANGED <<entries, tail, size, overtaken>> /\ step[t] = "read"
    BY <1>7 DEF PrepareEntries
  <2>2. CASE u = t
    <3>1. File' = File
      BY <2>1 DEF File, WithTail
    <3>2. step'[u] = "retry" \/ (step'[u] = "check" /\ data'[u] = TopUnique(File, MaxPrompts))
      BY <1>0, <1>7, <2>2 DEF PrepareEntries, Failed, Goto, PromptTypeOK, WorkTypes
    <3> QED BY <1>0, <2>1, <2>2, <3>1, <3>2 DEF CompactionInv
  <2>3. CASE u # t
    <3>1. data'[u] = data[u] /\ step'[u] = step[u]
      BY <1>0, <1>7, <2>3 DEF PrepareEntries, Failed, Goto, PromptTypeOK, WorkTypes
    <3> QED BY <1>0, <2>1, <3>1, QuietCompaction
  <2> QED BY <2>2, <2>3
<1>8. ASSUME NEW t \in Trackers, CheckSize(t) PROVE CompactionInv(u)'
  <2>1. UNCHANGED <<entries, tail, size, data, overtaken>> /\ step[t] = "check"
    BY <1>8 DEF CheckSize
  <2>2. CASE u = t
    <3>1. File' = File
      BY <2>1 DEF File, WithTail
    <3>2. step'[u] = "retry" \/ (step'[u] = "rename" /\ Len(File) = size[u])
      BY <1>0, <1>8, <2>2 DEF CheckSize, Failed, Goto, PromptTypeOK, WorkTypes
    <3> QED BY <1>0, <2>1, <2>2, <3>1, <3>2 DEF CompactionInv
  <2>3. CASE u # t
    <3>1. step'[u] = step[u]
      BY <1>0, <1>8, <2>3 DEF CheckSize, Failed, Goto, PromptTypeOK, WorkTypes
    <3> QED BY <1>0, <2>1, <3>1, QuietCompaction
  <2> QED BY <2>2, <2>3
<1>9. ASSUME NEW t \in Trackers, AtomicWrite(t) PROVE CompactionInv(u)'
  <2>1. UNCHANGED <<size, data>> /\ step[t] = "rename"
    BY <1>9 DEF AtomicWrite
  <2>2. CASE u = t
    <3>1. step'[u] \in {"idle", "retry"}
      BY <1>0, <1>9, <2>2 DEF AtomicWrite, Failed, Goto, PromptTypeOK, WorkTypes
    <3> QED BY <3>1 DEF CompactionInv
  <2>3. CASE u # t /\ UNCHANGED <<lineVars, overtaken>>
    <3>1. step'[u] = step[u]
      BY <1>0, <1>9, <2>3 DEF AtomicWrite, Failed, Goto, PromptTypeOK, WorkTypes
    <3> QED BY <1>0, <2>1, <2>3, <3>1, QuietCompaction
  <2>4. CASE u # t /\ Overtake(t, {"read", "check", "rename"})
    <3>1. step'[u] = step[u]
      BY <1>0, <1>9, <2>4 DEF AtomicWrite, Failed, Goto, PromptTypeOK, WorkTypes
    <3>2. u \in overtaken' \/ step'[u] \notin {"read", "check", "rename"}
      BY <2>4, <3>1 DEF Overtake
    <3> QED BY <3>2 DEF CompactionInv
  <2> QED BY <1>9, <2>2, <2>3, <2>4 DEF AtomicWrite
<1>10. ASSUME NEW t \in Trackers, ShouldStillCompact(t) PROVE CompactionInv(u)'
  <2>1. step'[u] \in {step[u], "idle", "stat", "retry"}
    BY <1>0, <1>10 DEF ShouldStillCompact, Goto, PromptTypeOK, WorkTypes
  <2> QED BY <1>0, <1>10, <2>1, QuietCompaction DEF ShouldStillCompact
<1> QED BY <1>1, <1>2, <1>3, <1>4, <1>5, <1>6, <1>7, <1>8, <1>9, <1>10, PromptSteps

(* Every step respects the locks.                                          *)
LEMMA LocksStay ==
  ASSUME PromptInv, [PromptNext]_promptVars, NEW u \in Trackers
  PROVE  LockInv(u)'
<1> USE DEF service, compaction, races, lineVars, promptVars
<1>0. PromptTypeOK /\ PromptTypeOK' /\ LockInv(u)
  BY PromptTypes DEF PromptInv
<1>1. CASE UNCHANGED promptVars
  BY <1>0, <1>1 DEF LockInv
<1>2. ASSUME NEW t \in Trackers, NEW p \in Prompts, RecordPrompt(t, p) PROVE LockInv(u)'
  BY <1>0, <1>2 DEF LockInv, RecordPrompt
<1>3. ASSUME NEW t \in Trackers, NEW p \in Prompts, OpenFile(t, p) PROVE LockInv(u)'
  BY <1>0, <1>3 DEF LockInv, OpenFile, Locked, PromptTypeOK, WorkTypes
<1>4. ASSUME NEW t \in Trackers, WritePrompt(t) \/ WriteFails(t) \/ Restart(t) \/ Close(t)
      PROVE  LockInv(u)'
  <2>1. /\ writing' = writing \/ writing' = [writing EXCEPT ![t] = "none"]
        /\ step' = step \/ \E s \in {"stat", "idle"} : step' = [step EXCEPT ![t] = s]
    BY <1>4 DEF WritePrompt, StartCompaction, WriteFails, Restart, Close, Closed
  <2> QED BY <1>0, <2>1 DEF LockInv, PromptTypeOK, WorkTypes
<1>5. ASSUME NEW t \in Trackers,
             \/ Stat(t) \/ PrepareEntries(t) \/ CheckSize(t) \/ AtomicWrite(t)
             \/ ShouldStillCompact(t)
      PROVE  LockInv(u)'
  <2>1. /\ writing' = writing
        /\ \E s \in CompactionSteps : Goto(t, s) /\ (s = "rename" => writing[t] = "none")
    BY <1>5 DEF Stat, PrepareEntries, CheckSize, AtomicWrite, ShouldStillCompact, Failed,
                CompactionSteps
  <2> QED BY <1>0, <2>1 DEF LockInv, PromptTypeOK, WorkTypes, Goto
<1> QED BY <1>1, <1>2, <1>3, <1>4, <1>5, PromptSteps

(* Every step keeps the invariant, with any number of sessions.            *)
LEMMA PromptInvNext == PromptInv /\ [PromptNext]_promptVars => PromptInv'
BY PromptTypes, LinesStay, LocksStay, CompactionsStay DEF PromptInv

(* The variables of the prompts have their types, with any number of       *)
(* sessions.                                                               *)
THEOREM PromptTypesHold == PromptSpec => []PromptTypeOK
<1>1. PromptInit => PromptTypeOK
  BY PromptInitInv DEF PromptInv
<1>2. PromptTypeOK /\ [PromptNext]_promptVars => PromptTypeOK'
  BY PromptTypes
<1> QED BY <1>1, <1>2, PTL DEF PromptSpec

(* Compaction changes nothing that anybody could load, with any number of  *)
(* sessions that append, compact, fail and restart as they like, until one *)
(* of them writes to a file that is not the file any more, or replaces one *)
(* that another session changed under its pass.                            *)
THEOREM CompactionKeeps == PromptSpec => []KeptUnlessRaced
<1>1. PromptInv => KeptUnlessRaced
  <2> SUFFICES ASSUME PromptInv, ~raced PROVE Kept
    BY DEF KeptUnlessRaced
  <2> QED BY TopTail DEF PromptInv, PromptTypeOK, WorkTypes, LinesInv, Kept
<1> QED BY <1>1, PromptInitInv, PromptInvNext, PTL DEF PromptSpec

(* One session alone meets no such race: nobody else replaces the file it  *)
(* has open, or comes between in its pass.                                 *)
THEOREM AloneItKeeps ==
  ASSUME \A t, u \in Trackers : t = u
  PROVE  PromptSpec => []Kept
<1> DEFINE Alone == overtaken = {} /\ replaced = {} /\ ~raced
<1>1. PromptInit => Alone
  BY DEF PromptInit
<1>2. PromptInv /\ Alone /\ [PromptNext]_promptVars => Alone'
  <2> SUFFICES ASSUME PromptInv, Alone, [PromptNext]_promptVars PROVE Alone'
    OBVIOUS
  <2>1. ASSUME NEW t \in Trackers, step[t] = "rename" PROVE {u \in Trackers : writing[u] # "none"} = {}
    <3>1. \A u \in Trackers : u = t /\ writing[u] = "none"
      BY <2>1 DEF PromptInv, LockInv
    <3> QED BY <3>1
  <2> USE DEF service, compaction, races, lineVars, promptVars
  <2>2. CASE UNCHANGED promptVars
    BY <2>2
  <2>3. ASSUME NEW t \in Trackers, NEW p \in Prompts, RecordPrompt(t, p) \/ OpenFile(t, p)
        PROVE  Alone'
    BY <2>3 DEF RecordPrompt, OpenFile
  <2>4. ASSUME NEW t \in Trackers,
               \/ WritePrompt(t) \/ WriteFails(t) \/ Close(t) \/ Restart(t)
        PROVE  Alone'
    BY <2>4 DEF WritePrompt, WriteFails, Close, Restart, Closed, Overtake
  <2>5. ASSUME NEW t \in Trackers,
               Stat(t) \/ PrepareEntries(t) \/ CheckSize(t) \/ ShouldStillCompact(t)
        PROVE  Alone'
    BY <2>5 DEF Stat, PrepareEntries, CheckSize, ShouldStillCompact
  <2>6. ASSUME NEW t \in Trackers, AtomicWrite(t) PROVE Alone'
    <3>1. {u \in Trackers : writing[u] # "none"} = {}
      BY <2>1, <2>6 DEF AtomicWrite
    <3>2. Overtake(t, {"read", "check", "rename"}) => overtaken' = {}
      BY DEF Overtake
    <3>3. CASE UNCHANGED races
      BY <3>3
    <3>4. CASE /\ replaced' = {u \in Trackers : writing[u] # "none"}
               /\ Overtake(t, {"read", "check", "rename"})
               /\ raced' = (raced \/ t \in overtaken)
      <4>1. replaced' = {} /\ overtaken' = {}
        BY <3>1, <3>2, <3>4
      <4>2. ~raced'
        BY <3>4
      <4> QED BY <4>1, <4>2
    <3> QED BY <2>6, <3>3, <3>4 DEF AtomicWrite
  <2> QED BY <2>2, <2>3, <2>4, <2>5, <2>6, PromptSteps
<1>3. PromptInv /\ Alone => Kept
  BY TopTail DEF PromptInv, PromptTypeOK, WorkTypes, LinesInv, Kept
<1> QED BY <1>1, <1>2, <1>3, PromptInitInv, PromptInvNext, PTL DEF PromptSpec
=============================================================================
