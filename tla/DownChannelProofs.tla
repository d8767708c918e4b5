------------------------- MODULE DownChannelProofs -------------------------
(***************************************************************************)
(* Proofs about DownChannel, for every number of bytes, chunk size, window, *)
(* number of tries, of polls and of carrier failures.                       *)
(***************************************************************************)
EXTENDS DownChannel, SequenceTheorems, FiniteSetTheorems, WellFoundedInduction, TLAPS

-----------------------------------------------------------------------------
(* Bytes and chunks *)

\* The bytes after the first a, up to the b-th.
Bytes(a, b) == [i \in 1..(b - a) |-> a + i]

\* Any set of numbers that has a member has a least one.
LEMMA LeastOf ==
    ASSUME NEW S \in SUBSET Nat, S # {}
    PROVE  \E x \in S : \A y \in S : x <= y
<1>1. \E x \in S : \A y \in S : ~ (<<y, x>> \in OpToRel(<, Nat))
  BY WFMin, NatLessThanWellFounded, Zenon
<1>2. PICK x \in S : \A y \in S : ~ (<<y, x>> \in OpToRel(<, Nat))
  BY <1>1
<1>3. \A y \in S : <<y, x>> \in Nat \X Nat
  OBVIOUS
<1>4. \A y \in S : ~(y < x)
  BY <1>2, <1>3 DEF OpToRel
<1> QED BY <1>4

LEMMA MinOf ==
    ASSUME NEW S \in SUBSET Nat, S # {}
    PROVE  Min(S) \in S /\ \A y \in S : Min(S) <= y
BY LeastOf DEF Min

LEMMA BytesSeq ==
    ASSUME NEW a \in Nat, NEW b \in Nat, a <= b
    PROVE  /\ Bytes(a, b) \in Seq(Nat) /\ Len(Bytes(a, b)) = b - a
           /\ \A i \in 1..(b - a) : Bytes(a, b)[i] = a + i
BY DEF Bytes

LEMMA BytesNone ==
    ASSUME NEW a \in Nat
    PROVE  Bytes(a, a) = << >>
<1>1. Bytes(a, a) \in Seq(Nat) /\ Len(Bytes(a, a)) = 0
  BY BytesSeq
<1> QED BY <1>1, EmptySeq

LEMMA BytesSome ==
    ASSUME NEW a \in Nat, NEW b \in Nat, a < b
    PROVE  Bytes(a, b) # << >>
<1>1. Len(Bytes(a, b)) = b - a
  BY BytesSeq
<1>2. Len(<< >>) = 0
  OBVIOUS
<1> QED BY <1>1, <1>2

\* A chunk and the one after it.
LEMMA BytesJoin ==
    ASSUME NEW a \in Nat, NEW b \in Nat, NEW c \in Nat, a <= b, b <= c
    PROVE  Bytes(a, b) \o Bytes(b, c) = Bytes(a, c)
<1> DEFINE l == Bytes(a, b)
           r == Bytes(b, c)
           w == Bytes(a, c)
<1>l. l \in Seq(Nat) /\ Len(l) = b - a /\ \A i \in 1..(b - a) : l[i] = a + i
  BY BytesSeq, Zenon
<1>r. r \in Seq(Nat) /\ Len(r) = c - b /\ \A i \in 1..(c - b) : r[i] = b + i
  BY BytesSeq, Zenon
<1>w. w \in Seq(Nat) /\ Len(w) = c - a /\ \A i \in 1..(c - a) : w[i] = a + i
  <2>1. a <= c
    OBVIOUS
  <2> QED BY <2>1, BytesSeq, Zenon
<1> HIDE DEF l, r, w
<1>3. l \o r \in Seq(Nat) /\ Len(l \o r) = c - a
  <2>1. l \o r \in Seq(Nat) /\ Len(l \o r) = Len(l) + Len(r)
    BY <1>l, <1>r, ConcatProperties, Zenon
  <2> QED BY <2>1, <1>l, <1>r
<1>4. ASSUME NEW i \in 1..(c - a) PROVE (l \o r)[i] = w[i]
  <2>1. (l \o r)[i] = IF i <= b - a THEN l[i] ELSE r[i - (b - a)]
    <3>1. \A j \in 1..(Len(l) + Len(r)) : (l \o r)[j] = IF j <= Len(l) THEN l[j] ELSE r[j - Len(l)]
      BY <1>l, <1>r, ConcatProperties, Zenon
    <3>2. i \in 1..(Len(l) + Len(r))
      BY <1>l, <1>r
    <3> QED BY <3>1, <3>2, <1>l
  <2>2. CASE i <= b - a
    BY <2>1, <2>2, <1>l, <1>w
  <2>3. CASE ~(i <= b - a)
    <3>1. i - (b - a) \in 1..(c - b)
      BY <2>3
    <3> QED BY <2>1, <2>3, <3>1, <1>r, <1>w
  <2> QED BY <2>2, <2>3
<1>5. l \o r = w
  BY <1>w, <1>3, <1>4, SeqEqual
<1> QED BY <1>5 DEF l, r, w

\* What a split keeps and what it leaves.
LEMMA BytesSplit ==
    ASSUME NEW a \in Nat, NEW b \in Nat, NEW m \in Nat \ {0}, a < b
    PROVE  \E h \in Nat :
             /\ a < h /\ h <= b
             /\ SubSeq(Bytes(a, b), 1, Min({m, Len(Bytes(a, b))})) = Bytes(a, h)
             /\ SubSeq(Bytes(a, b), m + 1, Len(Bytes(a, b))) = Bytes(h, b)
<1> DEFINE w == Bytes(a, b)
           x == Min({m, b - a})
<1>1. w \in Seq(Nat) /\ Len(w) = b - a /\ \A i \in 1..(b - a) : w[i] = a + i
  BY BytesSeq
<1>2. x \in {m, b - a} /\ x <= m /\ x <= b - a
  <2>1. b - a \in Nat /\ b - a # 0
    OBVIOUS
  <2>2. {m, b - a} \in SUBSET Nat /\ {m, b - a} # {}
    BY <2>1
  <2> QED BY <2>2, MinOf
<1>3. x \in Nat \ {0}
  BY <1>2
<1> HIDE DEF w, x
<1>4. SubSeq(w, 1, x) = Bytes(a, a + x)
  <2>1. /\ SubSeq(w, 1, x) \in Seq(Nat) /\ Len(SubSeq(w, 1, x)) = x
        /\ \A i \in 1..x : SubSeq(w, 1, x)[i] = w[i]
    <3>1. \A i \in 1..x : w[i] \in Nat
      BY <1>1, <1>2, <1>3
    <3> QED BY <3>1, <1>3, SubSeqProperties
  <2>2. /\ Bytes(a, a + x) \in Seq(Nat) /\ Len(Bytes(a, a + x)) = x
        /\ \A i \in 1..x : Bytes(a, a + x)[i] = a + i
    BY <1>3, BytesSeq
  <2>3. \A i \in 1..x : w[i] = a + i
    BY <1>1, <1>2, <1>3
  <2>4. \A i \in 1..x : SubSeq(w, 1, x)[i] = Bytes(a, a + x)[i]
    BY <2>1, <2>2, <2>3
  <2> QED BY <2>1, <2>2, <2>4, SeqEqual
<1>5. SubSeq(w, m + 1, b - a) = Bytes(a + x, b)
  <2>1. CASE x = b - a
    <3>1. a + x = b /\ b - a < m + 1
      BY <2>1, <1>2, <1>3
    <3>2. SubSeq(w, m + 1, b - a) = << >>
      BY <3>1, SubSeqEmpty
    <3> QED BY <3>1, <3>2, BytesNone
  <2>2. CASE x = m
    <3>1. /\ SubSeq(w, m + 1, b - a) \in Seq(Nat)
          /\ Len(SubSeq(w, m + 1, b - a)) = IF m + 1 <= b - a THEN (b - a) - (m + 1) + 1 ELSE 0
          /\ \A i \in 1..((b - a) - (m + 1) + 1) : SubSeq(w, m + 1, b - a)[i] = w[m + 1 + i - 1]
      <4>1. \A i \in (m + 1)..(b - a) : w[i] \in Nat
        BY <1>1
      <4> QED BY <4>1, SubSeqProperties
    <3>2. /\ Bytes(a + x, b) \in Seq(Nat) /\ Len(Bytes(a + x, b)) = b - (a + x)
          /\ \A i \in 1..(b - (a + x)) : Bytes(a + x, b)[i] = a + x + i
      <4>1. a + x \in Nat /\ a + x <= b
        BY <1>2, <1>3
      <4> QED BY <4>1, BytesSeq, Zenon
    <3>3. Len(SubSeq(w, m + 1, b - a)) = b - (a + x)
      BY <3>1, <2>2, <1>2
    <3>4. ASSUME NEW i \in 1..(b - (a + x)) PROVE SubSeq(w, m + 1, b - a)[i] = Bytes(a + x, b)[i]
      <4>1. SubSeq(w, m + 1, b - a)[i] = w[m + i]
        BY <3>1, <2>2
      <4>2. m + i \in 1..(b - a)
        BY <2>2
      <4> QED BY <4>1, <4>2, <3>2, <1>1, <2>2
    <3> QED BY <3>1, <3>2, <3>3, <3>4, SeqEqual
  <2> QED BY <2>1, <2>2, <1>2
<1>6. Len(Bytes(a, b)) = b - a
  BY BytesSeq
<1>7. a + x \in Nat /\ a < a + x /\ a + x <= b
  BY <1>2, <1>3
<1> QED BY <1>4, <1>5, <1>6, <1>7 DEF w, x

-----------------------------------------------------------------------------
(* Chunks that follow one another *)

\* Chunk i of Q holds the bytes after c[i - 1] up to c[i].
Cut(Q, c) ==
    /\ Q \in Seq(Seq(Nat)) /\ c \in [Nat -> Nat]
    /\ \A i \in 1..Len(Q) : c[i - 1] < c[i] /\ Q[i] = Bytes(c[i - 1], c[i])

LEMMA CutFacts ==
    ASSUME NEW Q, NEW c, Cut(Q, c)
    PROVE  /\ Len(Q) \in Nat /\ c \in [Nat -> Nat] /\ Q \in Seq(Seq(Nat))
           /\ \A i \in 1..Len(Q) : c[i - 1] < c[i] /\ Q[i] = Bytes(c[i - 1], c[i])
BY DEF Cut

LEMMA CutGrows ==
    ASSUME NEW Q, NEW c, Cut(Q, c), NEW n \in 1..Len(Q)
    PROVE  c[0] < c[n]
<1> DEFINE S == {i \in 1..Len(Q) : ~(c[0] < c[i])}
<1>0. Len(Q) \in Nat /\ c \in [Nat -> Nat] /\ Q \in Seq(Seq(Nat))
      /\ \A i \in 1..Len(Q) : c[i - 1] < c[i] /\ Q[i] = Bytes(c[i - 1], c[i])
  BY CutFacts, Zenon
<1>1. SUFFICES ASSUME S # {} PROVE FALSE
  OBVIOUS
<1>2. S \in SUBSET Nat
  BY <1>0
<1>3. PICK x \in S : \A y \in S : x <= y
  BY <1>1, <1>2, LeastOf, Zenon
<1>4. c[x - 1] < c[x] /\ x \in 1..Len(Q) /\ ~(c[0] < c[x])
  BY <1>3, <1>0
<1>5. x # 1
  BY <1>4
<1>6. x - 1 \in 1..Len(Q) /\ ~(x <= x - 1)
  BY <1>4, <1>5, <1>0
<1>7. x - 1 \notin S
  BY <1>3, <1>6, Zenon
<1>8. c[0] < c[x - 1]
  BY <1>6, <1>7
<1>9. c[0] \in Nat /\ c[x - 1] \in Nat /\ c[x] \in Nat
  BY <1>0, <1>4, <1>6
<1> QED BY <1>4, <1>8, <1>9

\* Chunks that follow one another, put together.
LEMMA FlattenCut ==
    ASSUME NEW Q, NEW c, Cut(Q, c)
    PROVE  FlattenSeq(Q) = Bytes(c[0], c[Len(Q)])
<1> DEFINE n == Len(Q)
<1>0. n \in Nat /\ c \in [Nat -> Nat] /\ Q \in Seq(Seq(Nat))
      /\ \A i \in 1..n : c[i - 1] < c[i] /\ Q[i] = Bytes(c[i - 1], c[i])
  BY DEF Cut
<1>1. CASE n = 0
  <2>1. Q = << >>
    BY <1>0, <1>1, EmptySeq
  <2>2. FlattenSeq(Q) = Q
    BY <1>1 DEF FlattenSeq
  <2>3. c[0] \in Nat
    BY <1>0
  <2> QED BY <2>1, <2>2, <2>3, <1>1, BytesNone
<1>2. CASE n # 0
  <2> DEFINE E(f) == f = [i \in 1..n |-> IF i = 1 THEN Q[i] ELSE f[i - 1] \o Q[i]]
             g == [i \in 1..n |-> Bytes(c[0], c[i])]
             F == CHOOSE f : E(f)
  <2>1. ASSUME NEW i \in 1..n PROVE /\ i = 1 => Bytes(c[0], c[i]) = Q[i]
                                    /\ i # 1 => Bytes(c[0], c[i - 1]) \o Q[i] = Bytes(c[0], c[i])
    <3>0. c[i - 1] < c[i] /\ Q[i] = Bytes(c[i - 1], c[i])
      BY <1>0, Zenon
    <3>1. CASE i = 1
      <4>1. i - 1 = 0
        BY <3>1
      <4> QED BY <3>0, <3>1, <4>1, Zenon
    <3>2. CASE i # 1
      <4>1. i - 1 \in 1..n
        BY <3>2, <1>0
      <4>2. c[0] \in Nat /\ c[i - 1] \in Nat /\ c[i] \in Nat
        BY <1>0, <4>1
      <4>3. c[0] < c[i - 1]
        BY <4>1, CutGrows, Zenon
      <4>4. c[0] <= c[i - 1] /\ c[i - 1] <= c[i] /\ Q[i] = Bytes(c[i - 1], c[i])
        BY <4>2, <4>3, <3>0
      <4> QED BY <4>2, <4>4, <3>2, BytesJoin, Zenon
    <3> QED BY <3>1, <3>2
  <2>2. E(g)
    <3>1. ASSUME NEW i \in 1..n
          PROVE Bytes(c[0], c[i]) = IF i = 1 THEN Q[i] ELSE g[i - 1] \o Q[i]
      <4>1. CASE i = 1
        BY <4>1, <2>1
      <4>2. CASE i # 1
        <5>1. i - 1 \in 1..n
          BY <4>2, <1>0
        <5>2. g[i - 1] = Bytes(c[0], c[i - 1])
          BY <5>1
        <5> QED BY <5>2, <4>2, <2>1, Zenon
      <4> QED BY <4>1, <4>2
    <3> QED BY <3>1, Zenon
  <2>3. E(F)
    BY <2>2, Zenon
  <2>4. \A i \in 1..n : F[i] = IF i = 1 THEN Q[i] ELSE F[i - 1] \o Q[i]
    BY <2>3, Zenon
  <2>5. FlattenSeq(Q) = F[n]
    BY <1>2, Zenon DEF FlattenSeq
  <2> HIDE DEF F, E
  <2> DEFINE S == {i \in 1..n : F[i] # Bytes(c[0], c[i])}
  <2>6. S = {}
    <3>1. SUFFICES ASSUME S # {} PROVE FALSE
      OBVIOUS
    <3>2. S \in SUBSET Nat
      BY <1>0
    <3>3. PICK x \in S : \A y \in S : x <= y
      BY <3>1, <3>2, LeastOf, Zenon
    <3>4. x \in 1..n /\ F[x] # Bytes(c[0], c[x])
      BY <3>3
    <3>5. x # 1
      BY <3>4, <2>4, <2>1, Zenon
    <3>6. x - 1 \in 1..n /\ ~(x <= x - 1)
      BY <3>4, <3>5, <1>0
    <3>7. F[x - 1] = Bytes(c[0], c[x - 1])
      BY <3>3, <3>6, Zenon
    <3> QED BY <3>4, <3>5, <3>7, <2>1, <2>4, Zenon
  <2>7. n \in 1..n
    BY <1>0, <1>2
  <2> QED BY <2>5, <2>6, <2>7
<1> QED BY <1>1, <1>2

\* The first k chunks.
LEMMA CutPrefix ==
    ASSUME NEW Q, NEW c, Cut(Q, c), NEW k \in 0..Len(Q)
    PROVE  Cut(SubSeq(Q, 1, k), c) /\ FlattenSeq(SubSeq(Q, 1, k)) = Bytes(c[0], c[k])
<1>0. Len(Q) \in Nat /\ c \in [Nat -> Nat] /\ Q \in Seq(Seq(Nat))
      /\ \A i \in 1..Len(Q) : c[i - 1] < c[i] /\ Q[i] = Bytes(c[i - 1], c[i])
  BY CutFacts, Zenon
<1>1. \A i \in 1..k : i \in 1..Len(Q)
  BY <1>0
<1>2. \A i \in 1..k : Q[i] \in Seq(Nat)
  BY <1>0, <1>1, ElementOfSeq
<1>3. /\ SubSeq(Q, 1, k) \in Seq(Seq(Nat)) /\ Len(SubSeq(Q, 1, k)) = k
      /\ \A i \in 1..k : SubSeq(Q, 1, k)[i] = Q[i]
  <2>1. SubSeq(Q, 1, k) \in Seq(Seq(Nat)) /\ Len(SubSeq(Q, 1, k)) = (IF 1 <= k THEN k-1+1 ELSE 0)
        /\ \A i \in 1..(k-1+1) : SubSeq(Q, 1, k)[i] = Q[1+i-1]
    <3>1. 1 \in Int /\ k \in Int
      BY <1>0
    <3> QED BY <3>1, <1>2, SubSeqProperties
  <2> QED BY <2>1, <1>0
<1>4. Cut(SubSeq(Q, 1, k), c)
  BY <1>0, <1>1, <1>3 DEF Cut
<1> QED BY <1>3, <1>4, FlattenCut

\* The chunks after the first k.
LEMMA CutSuffix ==
    ASSUME NEW Q, NEW c, Cut(Q, c), NEW k \in 0..Len(Q)
    PROVE  \E d : /\ Cut(SubSeq(Q, k + 1, Len(Q)), d) /\ d[0] = c[k]
                  /\ d[Len(SubSeq(Q, k + 1, Len(Q)))] = c[Len(Q)]
<1>0. Len(Q) \in Nat /\ c \in [Nat -> Nat] /\ Q \in Seq(Seq(Nat))
      /\ \A i \in 1..Len(Q) : c[i - 1] < c[i] /\ Q[i] = Bytes(c[i - 1], c[i])
  BY CutFacts, Zenon
<1> DEFINE d == [i \in Nat |-> c[k + i]]
           R == SubSeq(Q, k + 1, Len(Q))
<1>1. k \in Nat /\ k <= Len(Q)
  BY <1>0
<1>2. R \in Seq(Seq(Nat)) /\ Len(R) = Len(Q) - k
      /\ \A i \in 1..(Len(Q) - k) : R[i] = Q[k + i]
  <2>1. \A i \in (k + 1)..Len(Q) : Q[i] \in Seq(Nat)
    BY <1>0, <1>1, ElementOfSeq
  <2>2. /\ R \in Seq(Seq(Nat)) /\ Len(R) = (IF k + 1 <= Len(Q) THEN Len(Q) - (k + 1) + 1 ELSE 0)
        /\ \A i \in 1..(Len(Q) - (k + 1) + 1) : R[i] = Q[k + 1 + i - 1]
    <3>1. k + 1 \in Int /\ Len(Q) \in Int
      BY <1>0, <1>1
    <3> QED BY <2>1, <3>1, SubSeqProperties
  <2> HIDE DEF R
  <2> QED BY <2>2, <1>0, <1>1
<1>3. d \in [Nat -> Nat] /\ \A i \in Nat : d[i] = c[k + i]
  BY <1>0, <1>1
<1> HIDE DEF d, R
<1>4. ASSUME NEW i \in 1..Len(R) PROVE d[i - 1] < d[i] /\ R[i] = Bytes(d[i - 1], d[i])
  <2>0. i \in 1..(Len(Q) - k)
    BY <1>2, Zenon
  <2>1. i \in Nat /\ i - 1 \in Nat /\ k + i \in 1..Len(Q) /\ k + (i - 1) = k + i - 1
    BY <1>0, <1>1, <2>0
  <2>2. d[i] = c[k + i] /\ d[i - 1] = c[k + i - 1]
    BY <2>1, <1>3
  <2>3. R[i] = Q[k + i]
    BY <2>0, <1>2, Zenon
  <2> QED BY <2>1, <2>2, <2>3, <1>0
<1>5. Cut(R, d)
  BY <1>2, <1>3, <1>4 DEF Cut
<1>6. d[0] = c[k] /\ d[Len(R)] = c[Len(Q)]
  BY <1>0, <1>1, <1>2, <1>3
<1> QED BY <1>5, <1>6, Zenon DEF R

\* A chunk put before the others.
LEMMA CutPrepend ==
    ASSUME NEW R, NEW d, Cut(R, d), NEW h \in Nat, h < d[0]
    PROVE  \E e : /\ Cut(<<Bytes(h, d[0])>> \o R, e) /\ e[0] = h
                  /\ e[Len(<<Bytes(h, d[0])>> \o R)] = d[Len(R)]
<1>0. Len(R) \in Nat /\ d \in [Nat -> Nat] /\ R \in Seq(Seq(Nat))
      /\ \A i \in 1..Len(R) : d[i - 1] < d[i] /\ R[i] = Bytes(d[i - 1], d[i])
  BY CutFacts, Zenon
<1> DEFINE e == [i \in Nat |-> IF i = 0 THEN h ELSE d[i - 1]]
           b == Bytes(h, d[0])
           Q == <<b>> \o R
<1>1. d[0] \in Nat /\ b \in Seq(Nat)
  <2>1. d[0] \in Nat /\ h <= d[0]
    BY <1>0
  <2> QED BY <2>1, BytesSeq, Zenon
<1>2. e \in [Nat -> Nat] /\ e[0] = h /\ \A i \in Nat : e[i + 1] = d[i]
  <2>1. \A i \in Nat : (IF i = 0 THEN h ELSE d[i - 1]) \in Nat
    BY <1>0
  <2>2. e[0] = h
    OBVIOUS
  <2>3. ASSUME NEW i \in Nat PROVE e[i + 1] = d[i]
    <3>1. i + 1 \in Nat /\ i + 1 # 0 /\ (i + 1) - 1 = i
      OBVIOUS
    <3> QED BY <3>1, Zenon
  <2> QED BY <2>1, <2>2, <2>3
<1> HIDE DEF e, b
<1>3. Q \in Seq(Seq(Nat)) /\ Len(Q) = Len(R) + 1 /\ Q[1] = b /\ \A i \in 1..Len(R) : Q[i + 1] = R[i]
  <2>1. <<b>> \in Seq(Seq(Nat)) /\ Len(<<b>>) = 1 /\ <<b>>[1] = b
    BY <1>1
  <2>2. /\ Q \in Seq(Seq(Nat)) /\ Len(Q) = Len(<<b>>) + Len(R)
        /\ \A i \in 1..(Len(<<b>>) + Len(R)) : Q[i] = IF i <= Len(<<b>>) THEN <<b>>[i] ELSE R[i - Len(<<b>>)]
    BY <2>1, <1>0, ConcatProperties, Zenon
  <2> HIDE DEF Q
  <2>3. \A i \in 1..Len(R) : i + 1 \in 1..(1 + Len(R)) /\ ~(i + 1 <= 1) /\ (i + 1) - 1 = i
    BY <1>0
  <2>4. 1 \in 1..(1 + Len(R))
    BY <1>0
  <2>5. Q[1] = b
    BY <2>1, <2>2, <2>4
  <2>6. ASSUME NEW i \in 1..Len(R) PROVE Q[i + 1] = R[i]
    <3>1. Q[i + 1] = IF i + 1 <= 1 THEN <<b>>[i + 1] ELSE R[(i + 1) - 1]
      BY <2>1, <2>2, <2>3, Zenon
    <3> QED BY <3>1, <2>3, Zenon
  <2>7. Len(Q) = Len(R) + 1
    BY <2>1, <2>2, <1>0
  <2> QED BY <2>2, <2>5, <2>6, <2>7
<1> HIDE DEF Q
<1>4. ASSUME NEW i \in 1..Len(Q) PROVE e[i - 1] < e[i] /\ Q[i] = Bytes(e[i - 1], e[i])
  <2>1. CASE i = 1
    <3>0. i - 1 = 0 /\ 0 + 1 = i
      BY <2>1
    <3>1. i - 1 = 0 /\ e[0] = h /\ e[1] = d[0]
      BY <3>0, <2>1, <1>2, Zenon
    <3>2. Q[i] = Bytes(h, d[0])
      BY <2>1, <1>3 DEF b
    <3> QED BY <2>1, <3>1, <3>2
  <2>2. CASE i # 1
    <3>1. i - 1 \in 1..Len(R) /\ (i - 1) + 1 = i /\ i - 1 \in Nat /\ (i - 1) - 1 \in Nat /\ ((i - 1) - 1) + 1 = i - 1
      BY <2>2, <1>3, <1>0
    <3>2. Q[i] = R[i - 1] /\ e[i] = d[i - 1] /\ e[i - 1] = d[(i - 1) - 1]
      BY <3>1, <1>2, <1>3, Zenon
    <3>3. d[(i - 1) - 1] < d[i - 1] /\ R[i - 1] = Bytes(d[(i - 1) - 1], d[i - 1])
      BY <3>1, <1>0, Zenon
    <3> QED BY <3>2, <3>3, Zenon
  <2> QED BY <2>1, <2>2
<1>5. Cut(Q, e)
  BY <1>2, <1>3, <1>4 DEF Cut
<1>6. e[Len(Q)] = d[Len(R)]
  BY <1>0, <1>2, <1>3
<1> QED BY <1>2, <1>5, <1>6, Zenon DEF Q, b

\* A chunk put after the others.
LEMMA CutAppend ==
    ASSUME NEW R, NEW d, Cut(R, d), NEW n \in Nat, d[Len(R)] < n
    PROVE  \E e : /\ Cut(Append(R, Bytes(d[Len(R)], n)), e) /\ e[0] = d[0]
                  /\ e[Len(Append(R, Bytes(d[Len(R)], n)))] = n
<1>0. Len(R) \in Nat /\ d \in [Nat -> Nat] /\ R \in Seq(Seq(Nat))
      /\ \A i \in 1..Len(R) : d[i - 1] < d[i] /\ R[i] = Bytes(d[i - 1], d[i])
  BY CutFacts, Zenon
<1> DEFINE e == [i \in Nat |-> IF i = Len(R) + 1 THEN n ELSE d[i]]
           b == Bytes(d[Len(R)], n)
           Q == Append(R, b)
<1>1. d[Len(R)] \in Nat /\ b \in Seq(Nat)
  <2>1. d[Len(R)] \in Nat /\ d[Len(R)] <= n
    BY <1>0
  <2> QED BY <2>1, BytesSeq, Zenon
<1>2. e \in [Nat -> Nat] /\ e[Len(R) + 1] = n /\ \A i \in 0..Len(R) : e[i] = d[i]
  <2>1. \A i \in Nat : (IF i = Len(R) + 1 THEN n ELSE d[i]) \in Nat
    BY <1>0
  <2>2. Len(R) + 1 \in Nat /\ \A i \in 0..Len(R) : i \in Nat /\ i # Len(R) + 1
    BY <1>0
  <2> QED BY <2>1, <2>2, Zenon
<1> HIDE DEF e, b
<1>3. Q \in Seq(Seq(Nat)) /\ Len(Q) = Len(R) + 1 /\ Q[Len(R) + 1] = b /\ \A i \in 1..Len(R) : Q[i] = R[i]
  BY <1>0, <1>1, AppendProperties
<1> HIDE DEF Q
<1>4. ASSUME NEW i \in 1..Len(Q) PROVE e[i - 1] < e[i] /\ Q[i] = Bytes(e[i - 1], e[i])
  <2>1. CASE i = Len(R) + 1
    <3>1. i - 1 = Len(R) /\ e[i - 1] = d[Len(R)] /\ e[i] = n
      BY <2>1, <1>0, <1>2
    <3>2. Q[i] = Bytes(d[Len(R)], n)
      BY <2>1, <1>3 DEF b
    <3> QED BY <3>1, <3>2
  <2>2. CASE i # Len(R) + 1
    <3>1. i \in 1..Len(R) /\ i \in 0..Len(R) /\ i - 1 \in 0..Len(R)
      BY <2>2, <1>3, <1>0
    <3>2. Q[i] = R[i] /\ e[i] = d[i] /\ e[i - 1] = d[i - 1]
      BY <3>1, <1>2, <1>3, Zenon
    <3>3. d[i - 1] < d[i] /\ R[i] = Bytes(d[i - 1], d[i])
      BY <3>1, <1>0, Zenon
    <3> QED BY <3>2, <3>3, Zenon
  <2> QED BY <2>1, <2>2
<1>5. Cut(Q, e)
  BY <1>2, <1>3, <1>4 DEF Cut
<1>6. e[Len(Q)] = n /\ e[0] = d[0]
  BY <1>0, <1>2, <1>3
<1> QED BY <1>5, <1>6, Zenon DEF Q, b

-----------------------------------------------------------------------------
(* The inductive invariant *)

Phases == {"net", "in", "wait", "turn", "parked", "hand", "answer", "failed"}

PollRecords == [live : BOOLEAN, want : Nat, ack : Nat, max : Nat \ {0}, try : Nat, ph : Phases,
                st : Nat, seq : Nat, data : Seq(Nat)]

HasTurn(p) == p.ph \in {"parked", "hand"}
NoHand == \A p \in polls : p.ph # "hand"

\* The number of the last chunk handed out, as the poll that has the turn or
\* was told of the end knows it.
Before(p) == IF p.want = 0 THEN ackSeq ELSE p.want - 1

\* What is true of any poll.  Its acknowledgement may be old; one with the turn
\* takes the chunk that comes next, whatever happened since it asked.
PollOk(p) ==
    /\ p \in PollRecords
    /\ p.ack <= ackSeq
    /\ p.want # 0 => p.want > p.ack /\ p.want - p.ack <= Window
    /\ HasTurn(p) => seq = Before(p)
    /\ p.ph = "parked" => head = << >>

\* What an answer to a poll that the reader waits for says.
Served(p) ==
    /\ p.seq = (IF p.want = 0 THEN p.ack + 1 ELSE p.want) /\ p.seq <= seq
    /\ p.data = assigned[p.seq]
ToldEnd(p) == qdone /\ ch = << >> /\ head = << >> /\ NoHand /\ seq = Before(p)

\* What is true of a poll that the reader waits for.
LiveOk(p) ==
    /\ IF Windowed THEN p.want \in batch.next..batch.end ELSE p.want = 0 /\ p.ack = ackSeq
    /\ p.ph = "answer" => p.st \in {200, 204, 410}
    /\ p.ph = "answer" /\ p.st = 200 => Served(p)
    /\ p.ph = "answer" /\ p.st = 410 => ToldEnd(p)

DnTyped ==
    /\ pushed \in Nat /\ ch \in Seq(Seq(Nat)) /\ head \in Seq(Nat)
    /\ seq \in Nat /\ ackSeq \in Nat /\ ackSeq <= seq
    /\ DOMAIN assigned \subseteq 1..seq
    /\ downMax \in Nat \ {0}
    /\ gone = FALSE
    /\ ended = "eof" => qdone

DnPolls == \A p \in polls : PollOk(p) /\ (p.live => LiveOk(p))

\* The reader waits for one poll of each number, and one poll has the turn.
DnOne ==
    \A p, q \in polls : \/ p.live /\ q.live /\ p.want = q.want
                        \/ HasTurn(p) /\ HasTurn(q)
                        => p = q

DnBatch ==
    /\ batch \in [next : Nat, end : Nat]
    /\ Windowed => batch.next = ackSeq + 1 /\ batch.end <= ackSeq + Window

\* Where the bytes are: chunk k ends with byte at[k]; the last one handed out is
\* followed by what a poll has in hand, up to byte c[0], and by the queue.
Placed(at, c) ==
    /\ at \in [Nat -> Nat] /\ Cut(Queued, c) /\ c[Len(Queued)] = pushed
    /\ received = Bytes(0, at[ackSeq])
    /\ \A k \in (ackSeq + 1)..seq : /\ k \in DOMAIN assigned /\ at[k - 1] < at[k]
                                    /\ assigned[k] = Bytes(at[k - 1], at[k])
    /\ \A p \in polls : p.ph = "hand" => at[seq] < c[0] /\ p.data = Bytes(at[seq], c[0])
    /\ NoHand => c[0] = at[seq]

DnInv == DnTyped /\ DnPolls /\ DnOne /\ DnBatch /\ \E at, c : Placed(at, c)

\* A chunk that the reader is being sent is one it has not had, and it is kept.
LEMMA ServedFact ==
    ASSUME DnInv, NEW x \in polls, x.live, x.ph = "answer", x.st = 200
    PROVE  /\ Served(x) /\ x.seq \in (ackSeq + 1)..seq /\ x.seq > ackSeq /\ x.seq \in DOMAIN assigned
           /\ x.seq = ackSeq + 1 \/ Windowed
<1>1. PollOk(x) /\ LiveOk(x) /\ x.want \in Nat
  BY DEF DnInv, DnPolls, PollOk, PollRecords
<1>2. Served(x)
  BY <1>1 DEF LiveOk
<1>3. x.seq \in Nat /\ x.seq > ackSeq /\ (x.seq = ackSeq + 1 \/ Windowed)
  <2>1. CASE Windowed
    <3>1. x.want >= batch.next /\ batch.next = ackSeq + 1 /\ ackSeq \in Nat
      BY <1>1, <2>1 DEF LiveOk, DnInv, DnBatch, DnTyped
    <3>2. x.seq = x.want
      BY <1>1, <1>2, <3>1 DEF Served
    <3> QED BY <1>1, <2>1, <3>1, <3>2
  <2>2. CASE ~Windowed
    <3>1. x.want = 0 /\ x.ack = ackSeq
      BY <1>1, <2>2 DEF LiveOk
    <3> QED BY <3>1, <1>2 DEF Served, DnInv, DnTyped
  <2> QED BY <2>1, <2>2
<1>4. x.seq \in (ackSeq + 1)..seq
  BY <1>2, <1>3 DEF Served, DnInv, DnTyped
<1>5. PICK at, c : Placed(at, c)
  BY DEF DnInv
<1>6. x.seq \in DOMAIN assigned
  BY <1>4, <1>5 DEF Placed
<1> QED BY <1>2, <1>3, <1>4, <1>6

-----------------------------------------------------------------------------
(* A poll takes the place of another *)

Became(q, p, live, phase, st, n, data) ==
    /\ q \in PollRecords /\ q.live = live /\ q.want = p.want /\ q.ack = p.ack /\ q.max = p.max
    /\ q.ph = phase /\ q.st = st /\ q.seq = n /\ q.data = data

\* A poll as it is sent, and as it is sent again.
LEMMA NewPollFact ==
    ASSUME NEW want \in Nat, NEW ack \in Nat, NEW max \in Nat \ {0}, NEW q, q = NewPoll(want, ack, max)
    PROVE  q \in PollRecords /\ q.live /\ q.want = want /\ q.ack = ack /\ q.ph = "net"
<1>1. << >> \in Seq(Nat)
  OBVIOUS
<1> QED BY <1>1 DEF NewPoll, PollRecords, Phases

LEMMA NewPollTried ==
    ASSUME NEW p \in PollRecords, NEW q, q = [NewPoll(p.want, p.ack, p.max) EXCEPT !.try = p.try + 1]
    PROVE  q \in PollRecords /\ q.live /\ q.want = p.want /\ q.ack = p.ack /\ q.ph \in {"net", "failed"}
<1>1. PICK n : n = NewPoll(p.want, p.ack, p.max)
  OBVIOUS
<1>2. p.want \in Nat /\ p.ack \in Nat /\ p.max \in Nat \ {0} /\ p.try + 1 \in Nat
  BY DEF PollRecords
<1>3. n \in PollRecords /\ n.live /\ n.want = p.want /\ n.ack = p.ack /\ n.ph = "net"
  BY <1>1, <1>2, NewPollFact
<1>4. q = [n EXCEPT !.try = p.try + 1]
  BY <1>1, Zenon
<1> QED BY <1>2, <1>3, <1>4 DEF PollRecords

LEMMA PollMoves ==
    ASSUME NEW p \in PollRecords, NEW phase \in Phases, NEW q, q = [p EXCEPT !.ph = phase]
    PROVE  Became(q, p, p.live, phase, p.st, p.seq, p.data)
BY DEF PollRecords, Became

LEMMA PollTakes ==
    ASSUME NEW p \in PollRecords, NEW phase \in Phases, NEW data \in Seq(Nat),
           NEW q, q = [p EXCEPT !.ph = phase, !.data = data]
    PROVE  Became(q, p, p.live, phase, p.st, p.seq, data)
BY DEF PollRecords, Became

LEMMA PollAnswered ==
    ASSUME NEW p \in PollRecords, NEW st \in Nat, NEW n \in Nat, NEW data \in Seq(Nat),
           NEW q, q = [p EXCEPT !.ph = "answer", !.st = st, !.seq = n, !.data = data]
    PROVE  Became(q, p, p.live, "answer", st, n, data)
BY DEF PollRecords, Became, Phases

LEMMA PollLeft ==
    ASSUME NEW p \in PollRecords, NEW q, q = [p EXCEPT !.live = FALSE]
    PROVE  Became(q, p, FALSE, p.ph, p.st, p.seq, p.data)
BY DEF PollRecords, Became

\* What the polls that replace p may be, while the relay's queue and the reader
\* stay as they are.
Replaces(N, p) ==
    /\ polls' = (polls \ {p}) \cup N
    /\ \A n \in N : PollOk(n)' /\ (n.live => LiveOk(n)')
    /\ \A n \in N : n.live => p.live /\ n.want = p.want
    /\ \A m, n \in N : (m.live /\ n.live) \/ (HasTurn(m) /\ HasTurn(n)) => m = n
    /\ \A n \in N : HasTurn(n) => TurnFree \/ HasTurn(p)
    /\ \A n \in N : n.ph = "hand" => p.ph = "hand" /\ n.data = p.data
    /\ p.ph = "hand" => \E n \in N : n.ph = "hand"

Still == /\ UNCHANGED <<pushed, ch, head, qdone, gone, seq, reader, batch>>
         /\ DOMAIN assigned' \subseteq DOMAIN assigned
         /\ \A k \in DOMAIN assigned : k > ackSeq => k \in DOMAIN assigned' /\ assigned'[k] = assigned[k]

LEMMA Replaced ==
    ASSUME DnInv, Still, NEW p \in polls, NEW N, Replaces(N, p)
    PROVE  DnInv'
<1>u. /\ pushed' = pushed /\ ch' = ch /\ head' = head /\ qdone' = qdone /\ gone' = gone /\ seq' = seq
      /\ ackSeq' = ackSeq /\ downMax' = downMax /\ batch' = batch /\ received' = received /\ ended' = ended
  BY DEF Still, reader
<1>n. NoHand' => NoHand
  BY DEF Replaces, NoHand
<1>m. NoHand => NoHand'
  BY DEF Replaces, NoHand
<1>1. DnTyped'
  BY <1>u DEF DnInv, DnTyped, Still
<1>2. DnPolls'
  <2>1. ASSUME NEW x \in polls', x \in polls PROVE PollOk(x)' /\ (x.live => LiveOk(x)')
    <3>1. PollOk(x)
      BY <2>1 DEF DnInv, DnPolls
    <3>2. PollOk(x)'
      BY <3>1, <1>u DEF PollOk, Before
    <3>3. ASSUME x.live PROVE LiveOk(x)'
      <4>1. LiveOk(x)
        BY <2>1, <3>3 DEF DnInv, DnPolls
      <4>2. Served(x) /\ x.ph = "answer" /\ x.st = 200 => Served(x)'
        <5>1. SUFFICES ASSUME Served(x), x.ph = "answer", x.st = 200 PROVE Served(x)'
          OBVIOUS
        <5>2. x.seq > ackSeq /\ x.seq \in DOMAIN assigned
          BY <2>1, <3>3, <5>1, ServedFact
        <5>4. assigned'[x.seq] = assigned[x.seq]
          BY <5>2 DEF Still
        <5> QED BY <5>1, <5>4, <1>u DEF Served
      <4>3. ToldEnd(x) => ToldEnd(x)'
        BY <1>u, <1>m DEF ToldEnd, Before
      <4> QED BY <4>1, <4>2, <4>3, <1>u DEF LiveOk, Windowed, NoBatch
    <3> QED BY <3>2, <3>3
  <2>2. ASSUME NEW x \in polls', x \notin polls PROVE PollOk(x)' /\ (x.live => LiveOk(x)')
    BY <2>2 DEF Replaces
  <2> QED BY <2>1, <2>2, Zenon DEF DnPolls
<1>3. DnOne'
  <2>1. SUFFICES ASSUME NEW x \in polls', NEW y \in polls',
                        (x.live /\ y.live /\ x.want = y.want) \/ (HasTurn(x) /\ HasTurn(y))
                 PROVE  x = y
    BY Zenon DEF DnOne, HasTurn
  <2>2. CASE x \in polls \ {p} /\ y \in polls \ {p}
    BY <2>1, <2>2 DEF DnInv, DnOne
  <2>3. CASE x \in N /\ y \in N
    BY <2>1, <2>3 DEF Replaces
  <2>4. ASSUME NEW a \in polls \ {p}, NEW b \in N,
               (a.live /\ b.live /\ a.want = b.want) \/ (HasTurn(a) /\ HasTurn(b))
        PROVE  FALSE
    BY <2>4 DEF Replaces, DnInv, DnOne, TurnFree, HasTurn
  <2> QED BY <2>1, <2>2, <2>3, <2>4 DEF Replaces
<1>4. DnBatch'
  BY <1>u DEF DnInv, DnBatch, Windowed, NoBatch
<1>5. \E at, c : Placed(at, c)'
  <2>1. PICK at, c : Placed(at, c)
    BY DEF DnInv
  <2>2. Queued' = Queued
    BY <1>u DEF Queued
  <2>3. \A k \in (ackSeq + 1)..seq : k \in DOMAIN assigned' /\ assigned'[k] = assigned[k]
    <3>1. ASSUME NEW k \in (ackSeq + 1)..seq PROVE k > ackSeq
      BY DEF DnInv, DnTyped
    <3> QED BY <2>1, <3>1 DEF Placed, Still
  <2>4. \A x \in polls' : x.ph = "hand" => at[seq] < c[0] /\ x.data = Bytes(at[seq], c[0])
    BY <2>1 DEF Placed, Replaces
  <2>5. Placed(at, c)'
    BY <2>1, <2>2, <2>3, <2>4, <1>u, <1>n DEF Placed
  <2> QED BY <2>5
<1> QED BY <1>1, <1>2, <1>3, <1>4, <1>5 DEF DnInv


-----------------------------------------------------------------------------
(* The steps of a poll that takes no bytes *)

\* An acknowledgement drops no chunk the reader has yet to receive.
LEMMA AckKeeps ==
    ASSUME DnInv, NEW p \in polls, assigned' = Unacked(p.ack)
    PROVE  /\ DOMAIN assigned' \subseteq DOMAIN assigned
           /\ \A k \in DOMAIN assigned : k > ackSeq => k \in DOMAIN assigned' /\ assigned'[k] = assigned[k]
<1>1. p.ack \in Nat /\ p.ack <= ackSeq /\ ackSeq \in Nat /\ DOMAIN assigned \subseteq 1..seq /\ seq \in Nat
  BY DEF DnInv, DnPolls, PollOk, PollRecords, DnTyped
<1>2. DOMAIN assigned' = {j \in DOMAIN assigned : j > p.ack}
  BY DEF Unacked
<1>3. ASSUME NEW k \in DOMAIN assigned, k > ackSeq PROVE k > p.ack
  BY <1>1, <1>3
<1> QED BY <1>2, <1>3 DEF Unacked

\* The poll goes on without the turn.
LEMMA Becomes ==
    ASSUME DnInv, Still, NEW p \in polls, NEW phase \in {"in", "wait", "turn"}, Become(p, phase), p.ph # "hand"
    PROVE  DnInv'
<1>1. PollOk(p) /\ (p.live => LiveOk(p)) /\ p \in PollRecords
  BY DEF DnInv, DnPolls, PollOk
<1>q. PICK q : q = [p EXCEPT !.ph = phase]
  OBVIOUS
<1>2. Became(q, p, p.live, phase, p.st, p.seq, p.data)
  BY <1>1, <1>q, PollMoves, Zenon DEF Phases
<1>3. polls' = (polls \ {p}) \cup {q}
  BY <1>q, Zenon DEF Become
<1>4. PollOk(q)' /\ (q.live => LiveOk(q)')
  <2>1. PollOk(q)'
    BY <1>1, <1>2 DEF Became, PollOk, HasTurn, Still, reader
  <2>2. q.live => LiveOk(q)'
    BY <1>1, <1>2 DEF Became, LiveOk, Windowed, NoBatch, Still, reader
  <2> QED BY <2>1, <2>2
<1>5. Replaces({q}, p)
  BY <1>2, <1>3, <1>4 DEF Replaces, Became, HasTurn
<1> QED BY <1>5, Replaced

\* The poll is answered: nothing this time.
LEMMA AnswersNothing ==
    ASSUME DnInv, Still, NEW p \in polls, p.ph # "hand", Answer(p, 204, 0, << >>)
    PROVE  DnInv'
<1>1. PollOk(p) /\ (p.live => LiveOk(p)) /\ p \in PollRecords
  BY DEF DnInv, DnPolls, PollOk
<1>q. PICK q : q = [p EXCEPT !.ph = "answer", !.st = 204, !.seq = 0, !.data = << >>]
  OBVIOUS
<1>0. << >> \in Seq(Nat) /\ 204 \in Nat /\ 0 \in Nat
  OBVIOUS
<1>2. Became(q, p, p.live, "answer", 204, 0, << >>)
  BY <1>1, <1>q, <1>0, PollAnswered, Zenon
<1>3. CASE p.live
  <2>3. polls' = (polls \ {p}) \cup {q}
    BY <1>q, <1>3, Zenon DEF Answer
  <2>4. PollOk(q)'
    BY <1>1, <1>2 DEF Became, PollOk, HasTurn, Still, reader
  <2>5. LiveOk(q)'
    BY <1>1, <1>2, <1>3 DEF Became, LiveOk, Windowed, NoBatch, Still, reader
  <2>6. Replaces({q}, p)
    BY <1>2, <2>3, <2>4, <2>5, <1>3 DEF Replaces, Became, HasTurn
  <2> QED BY <2>6, Replaced
<1>4. CASE ~p.live
  <2>1. polls' = (polls \ {p}) \cup {}
    BY <1>4, Zenon DEF Answer
  <2>2. Replaces({}, p)
    BY <2>1 DEF Replaces
  <2> QED BY <2>2, Replaced
<1> QED BY <1>3, <1>4

\* The poll is answered with a chunk that is kept for the reader.
LEMMA AnswersKept ==
    ASSUME DnInv, Still, NEW p \in polls, p.ph # "hand", NEW k \in DOMAIN assigned,
           p.live => k > ackSeq /\ k = (IF p.want = 0 THEN p.ack + 1 ELSE p.want),
           Answer(p, 200, k, assigned[k])
    PROVE  DnInv'
<1>1. PollOk(p) /\ (p.live => LiveOk(p)) /\ p \in PollRecords
  BY DEF DnInv, DnPolls, PollOk
<1>2. k \in Nat /\ k <= seq
  BY DEF DnInv, DnTyped
<1>3. CASE p.live
  <2>0. assigned[k] \in Seq(Nat) /\ 200 \in Nat
    <3>1. PICK at, c : Placed(at, c)
      BY DEF DnInv
    <3>2. k \in (ackSeq + 1)..seq
      BY <1>2, <1>3 DEF DnInv, DnTyped
    <3>3. assigned[k] = Bytes(at[k - 1], at[k]) /\ at[k - 1] < at[k] /\ at \in [Nat -> Nat]
      BY <3>1, <3>2 DEF Placed
    <3>4. at[k - 1] \in Nat /\ at[k] \in Nat /\ at[k - 1] <= at[k]
      <4>1. k \in Nat /\ k - 1 \in Nat
        BY <3>2, <1>2 DEF DnInv, DnTyped
      <4>2. at[k - 1] \in Nat /\ at[k] \in Nat
        BY <4>1, <3>3
      <4> QED BY <4>2, <3>3
    <3> QED BY <3>3, <3>4, BytesSeq
  <2>q. PICK q : q = [p EXCEPT !.ph = "answer", !.st = 200, !.seq = k, !.data = assigned[k]]
    OBVIOUS
  <2>2. Became(q, p, p.live, "answer", 200, k, assigned[k])
    BY <1>1, <1>2, <2>q, <2>0, PollAnswered, Zenon
  <2>3. polls' = (polls \ {p}) \cup {q}
    BY <2>q, <1>3, Zenon DEF Answer
  <2>4. PollOk(q)'
    BY <1>1, <2>2 DEF Became, PollOk, HasTurn, Still, reader
  <2>5. LiveOk(q)'
    <3>1. Served(q)'
      BY <1>2, <1>3, <2>2 DEF Became, Served, Still
    <3> QED BY <1>1, <2>2, <1>3, <3>1 DEF Became, LiveOk, Windowed, NoBatch, Still, reader
  <2>6. Replaces({q}, p)
    BY <2>2, <2>3, <2>4, <2>5, <1>3 DEF Replaces, Became, HasTurn
  <2> QED BY <2>6, Replaced
<1>4. CASE ~p.live
  <2>1. polls' = (polls \ {p}) \cup {}
    BY <1>4, Zenon DEF Answer
  <2>2. Replaces({}, p)
    BY <2>1 DEF Replaces
  <2> QED BY <2>2, Replaced
<1> QED BY <1>3, <1>4

\* The poll has the turn and finds the queue empty.
LEMMA Parks ==
    ASSUME DnInv, Still, NEW p \in polls, p.ph # "hand", TurnFree \/ HasTurn(p), seq = Before(p),
           Queued = << >>, Become(p, "parked")
    PROVE  DnInv'
<1>1. PollOk(p) /\ (p.live => LiveOk(p)) /\ p \in PollRecords
  BY DEF DnInv, DnPolls, PollOk
<1>q. PICK q : q = [p EXCEPT !.ph = "parked"]
  OBVIOUS
<1>2. Became(q, p, p.live, "parked", p.st, p.seq, p.data)
  BY <1>1, <1>q, PollMoves, Zenon DEF Phases
<1>3. polls' = (polls \ {p}) \cup {q}
  BY <1>q, Zenon DEF Become
<1>h. head = << >>
  <2>1. CASE head # << >>
    <3>1. <<head>> \o ch # << >>
      BY DEF DnInv, DnTyped
    <3> QED BY <3>1, <2>1 DEF Queued
  <2> QED BY <2>1
<1>4. PollOk(q)' /\ (q.live => LiveOk(q)')
  <2>1. PollOk(q)'
    BY <1>1, <1>2, <1>h DEF Became, PollOk, HasTurn, Still, reader, Before
  <2>2. q.live => LiveOk(q)'
    BY <1>1, <1>2 DEF Became, LiveOk, Windowed, NoBatch, Still, reader
  <2> QED BY <2>1, <2>2
<1>5. Replaces({q}, p)
  BY <1>2, <1>3, <1>4 DEF Replaces, Became, HasTurn
<1> QED BY <1>5, Replaced


-----------------------------------------------------------------------------
(* Bytes leave the queue *)

\* drainUpTo on the queue Q with room for m bytes: how many chunks it looks at,
\* their bytes, those it takes, and what it leaves as head and as queue.
DrainCount(Q, m) ==
    CHOOSE k \in 1..Len(Q) :
        /\ \/ k = Len(Q)
           \/ Len(FlattenSeq(SubSeq(Q, 1, k))) >= m
        /\ \A j \in 1..(k - 1) : Len(FlattenSeq(SubSeq(Q, 1, j))) < m
DrainBytes(Q, m) == FlattenSeq(SubSeq(Q, 1, DrainCount(Q, m)))
DrainData(Q, m) == SubSeq(DrainBytes(Q, m), 1, Min({m, Len(DrainBytes(Q, m))}))
DrainHead(Q, m) == SubSeq(DrainBytes(Q, m), m + 1, Len(DrainBytes(Q, m)))
DrainRest(Q, m) == SubSeq(Q, DrainCount(Q, m) + 1, Len(Q))
DrainQueue(Q, m) == IF DrainHead(Q, m) = << >> THEN DrainRest(Q, m)
                    ELSE <<DrainHead(Q, m)>> \o DrainRest(Q, m)

\* Some bytes from the front are taken, and what is left follows them.
LEMMA DrainCut ==
    ASSUME NEW Q, NEW c, Cut(Q, c), Q # << >>, NEW m \in Nat \ {0}
    PROVE  /\ DrainHead(Q, m) \in Seq(Nat) /\ DrainRest(Q, m) \in Seq(Seq(Nat))
           /\ \E h, d :
                /\ h \in Nat /\ c[0] < h /\ DrainData(Q, m) = Bytes(c[0], h)
                /\ Cut(DrainQueue(Q, m), d) /\ d[0] = h /\ d[Len(DrainQueue(Q, m))] = c[Len(Q)]
<1> DEFINE k == DrainCount(Q, m)
           bytes == DrainBytes(Q, m)
           hd == DrainHead(Q, m)
           rest == DrainRest(Q, m)
<1>0. Len(Q) \in Nat /\ c \in [Nat -> Nat] /\ Q \in Seq(Seq(Nat))
      /\ \A i \in 1..Len(Q) : c[i - 1] < c[i] /\ Q[i] = Bytes(c[i - 1], c[i])
  BY CutFacts, Zenon
<1>1. Len(Q) # 0
  BY <1>0, EmptySeq
<1>2. k \in 1..Len(Q)
  <2> DEFINE L(i) == Len(FlattenSeq(SubSeq(Q, 1, i)))
             S == {i \in 1..Len(Q) : i = Len(Q) \/ L(i) >= m}
  <2>0. \A i \in 1..Len(Q) : L(i) \in Nat
    <3>1. SUFFICES ASSUME NEW i \in 1..Len(Q) PROVE L(i) \in Nat
      OBVIOUS
    <3>2. i \in 0..Len(Q) /\ i \in Nat /\ c[i] \in Nat /\ c[0] \in Nat
      BY <1>0
    <3>3. FlattenSeq(SubSeq(Q, 1, i)) = Bytes(c[0], c[i])
      BY <3>2, CutPrefix, Zenon
    <3>4. c[0] < c[i]
      BY CutGrows, Zenon
    <3>5. c[0] <= c[i]
      BY <3>2, <3>4
    <3>6. Len(Bytes(c[0], c[i])) = c[i] - c[0]
      BY <3>2, <3>5, BytesSeq, Zenon
    <3> QED BY <3>2, <3>3, <3>4, <3>6
  <2>1. S \in SUBSET Nat /\ S # {}
    <3>1. Len(Q) \in 1..Len(Q)
      BY <1>0, <1>1
    <3>2. Len(Q) \in S
      BY <3>1, Zenon
    <3>3. \A i \in 1..Len(Q) : i \in Nat
      BY <1>0
    <3> QED BY <3>2, <3>3, Zenon
  <2>2. PICK x \in S : \A y \in S : x <= y
    BY <2>1, LeastOf, Zenon
  <2> HIDE DEF L
  <2>3. x \in 1..Len(Q) /\ (x = Len(Q) \/ L(x) >= m)
    BY <2>2
  <2>4. ASSUME NEW j \in 1..(x - 1) PROVE L(j) < m
    <3>1. j \in 1..Len(Q) /\ ~(x <= j)
      BY <2>3, <1>0
    <3>2. j \notin S
      BY <2>2, <3>1, Zenon
    <3>3. ~(L(j) >= m) /\ L(j) \in Nat
      BY <3>1, <3>2, <2>0
    <3> QED BY <3>3
  <2>5. \E i \in 1..Len(Q) : (i = Len(Q) \/ L(i) >= m) /\ \A j \in 1..(i - 1) : L(j) < m
    BY <2>3, <2>4, Zenon
  <2> QED BY <2>5, Zenon DEF L, DrainCount
<1> HIDE DEF k, bytes, hd, rest
<1>3. k \in 0..Len(Q) /\ k \in Nat /\ c[k] \in Nat /\ c[0] \in Nat
  BY <1>0, <1>2
<1>4. bytes = Bytes(c[0], c[k])
  <2>1. FlattenSeq(SubSeq(Q, 1, k)) = Bytes(c[0], c[k])
    BY <1>3, CutPrefix, Zenon
  <2> QED BY <2>1, Zenon DEF bytes, DrainBytes, k
<1>5. c[0] < c[k]
  BY <1>2, CutGrows, Zenon
<1>6. PICK h \in Nat : c[0] < h /\ h <= c[k] /\ DrainData(Q, m) = Bytes(c[0], h) /\ hd = Bytes(h, c[k])
  <2>1. \E h \in Nat :
           /\ c[0] < h /\ h <= c[k]
           /\ SubSeq(Bytes(c[0], c[k]), 1, Min({m, Len(Bytes(c[0], c[k]))})) = Bytes(c[0], h)
           /\ SubSeq(Bytes(c[0], c[k]), m + 1, Len(Bytes(c[0], c[k]))) = Bytes(h, c[k])
    BY <1>3, <1>5, BytesSplit, Zenon
  <2> QED BY <2>1, <1>4, Zenon DEF DrainData, DrainHead, hd, bytes
<1>7. PICK d : Cut(rest, d) /\ d[0] = c[k] /\ d[Len(rest)] = c[Len(Q)]
  <2>1. \E d : /\ Cut(SubSeq(Q, k + 1, Len(Q)), d) /\ d[0] = c[k]
               /\ d[Len(SubSeq(Q, k + 1, Len(Q)))] = c[Len(Q)]
    BY <1>3, CutSuffix, Zenon
  <2> QED BY <2>1, Zenon DEF rest, DrainRest, k
<1>8. hd \in Seq(Nat) /\ rest \in Seq(Seq(Nat))
  <2>1. Bytes(h, c[k]) \in Seq(Nat)
    BY <1>3, <1>6, BytesSeq, Zenon
  <2> QED BY <2>1, <1>6, <1>7, Zenon DEF Cut
<1>9. CASE h = c[k]
  <2>1. hd = << >>
    BY <1>3, <1>6, <1>9, BytesNone, Zenon
  <2>2. DrainQueue(Q, m) = rest
    BY <2>1, Zenon DEF DrainQueue, hd, rest
  <2> QED BY <2>2, <1>6, <1>7, <1>8, <1>9, Zenon DEF hd, rest
<1>10. CASE h # c[k]
  <2>1. h < c[k]
    BY <1>3, <1>6, <1>10
  <2>2. hd # << >>
    BY <2>1, <1>3, <1>6, BytesSome, Zenon
  <2>3. PICK e : Cut(<<hd>> \o rest, e) /\ e[0] = h /\ e[Len(<<hd>> \o rest)] = d[Len(rest)]
    <3>1. \E e : /\ Cut(<<Bytes(h, d[0])>> \o rest, e) /\ e[0] = h
                 /\ e[Len(<<Bytes(h, d[0])>> \o rest)] = d[Len(rest)]
      <4>1. h < d[0] /\ Cut(rest, d)
        BY <2>1, <1>7, Zenon
      <4> QED BY <4>1, CutPrepend, Zenon
    <3>2. hd = Bytes(h, d[0])
      BY <1>6, <1>7, Zenon
    <3> QED BY <3>1, <3>2, Zenon
  <2>4. DrainQueue(Q, m) = <<hd>> \o rest
    BY <2>2, Zenon DEF DrainQueue, hd, rest
  <2> QED BY <2>3, <2>4, <1>6, <1>7, <1>8, Zenon DEF hd, rest
<1> QED BY <1>9, <1>10

\* A poll with the turn takes bytes from the front of the queue.
LEMMA Drains ==
    ASSUME DnInv, NEW p \in polls, p.ph # "hand", TurnFree \/ HasTurn(p), seq = Before(p),
           Queued # << >>, DrainUpTo(p), UNCHANGED <<pushed, qdone, gone, seq, reader>>,
           DOMAIN assigned' \subseteq DOMAIN assigned,
           \A k \in DOMAIN assigned : k > ackSeq => k \in DOMAIN assigned' /\ assigned'[k] = assigned[k]
    PROVE  DnInv'
<1>u. /\ pushed' = pushed /\ qdone' = qdone /\ gone' = gone /\ seq' = seq
      /\ ackSeq' = ackSeq /\ downMax' = downMax /\ batch' = batch /\ received' = received /\ ended' = ended
  BY DEF reader
<1>0. PollOk(p) /\ (p.live => LiveOk(p)) /\ p \in PollRecords /\ p.max \in Nat \ {0}
  BY DEF DnInv, DnPolls, PollOk, PollRecords
<1>1. PICK at, c : Placed(at, c)
  BY DEF DnInv
<1>2. Cut(Queued, c)
  BY <1>1 DEF Placed
<1>3. PICK h, d, q :
        /\ head' \in Seq(Nat) /\ ch' \in Seq(Seq(Nat)) /\ h \in Nat
        /\ c[0] < h /\ Cut(Queued', d) /\ d[0] = h /\ d[Len(Queued')] = c[Len(Queued)]
        /\ polls' = (polls \ {p}) \cup {q}
        /\ Became(q, p, p.live, "hand", p.st, p.seq, Bytes(c[0], h))
  <2> DEFINE m == p.max
             data == DrainData(Queued, m)
  <2>1. /\ polls' = (polls \ {p}) \cup {[p EXCEPT !.ph = "hand", !.data = data]}
        /\ head' = DrainHead(Queued, m) /\ ch' = DrainRest(Queued, m)
    BY Zenon DEF DrainUpTo, DrainData, DrainHead, DrainRest, DrainBytes, DrainCount
  <2>2. PICK h, d : /\ h \in Nat /\ c[0] < h /\ data = Bytes(c[0], h)
                    /\ Cut(DrainQueue(Queued, m), d) /\ d[0] = h
                    /\ d[Len(DrainQueue(Queued, m))] = c[Len(Queued)]
    BY <1>0, <1>2, DrainCut, Zenon
  <2>3. head' \in Seq(Nat) /\ ch' \in Seq(Seq(Nat))
    BY <1>0, <1>2, <2>1, DrainCut, Zenon
  <2> HIDE DEF data
  <2>4. Queued' = DrainQueue(Queued, m)
    BY <2>1, Zenon DEF Queued, DrainQueue
  <2>5. data \in Seq(Nat)
    <3>1. c[0] \in Nat /\ c[0] <= h
      BY <1>2, <2>2 DEF Cut
    <3> QED BY <2>2, <3>1, BytesSeq, Zenon
  <2>q. PICK q : q = [p EXCEPT !.ph = "hand", !.data = data]
    OBVIOUS
  <2>6. Became(q, p, p.live, "hand", p.st, p.seq, data)
    BY <2>5, <2>q, <1>0, PollTakes, Zenon DEF Phases
  <2>7. polls' = (polls \ {p}) \cup {q}
    BY <2>1, <2>q, Zenon
  <2> QED BY <2>2, <2>3, <2>4, <2>6, <2>7, Zenon
<1>4. \A x \in polls \ {p} : ~HasTurn(x)
  BY DEF TurnFree, HasTurn, DnInv, DnOne
<1>5. NoHand
  BY <1>4 DEF NoHand, HasTurn
<1>6. ~(ch = << >> /\ head = << >>)
  BY DEF Queued
<1>7. DnTyped'
  BY <1>3, <1>u DEF DnInv, DnTyped
<1>8. DnPolls'
  <2>1. ASSUME NEW x \in polls \ {p} PROVE PollOk(x)' /\ (x.live => LiveOk(x)')
    <3>1. PollOk(x) /\ (x.live => LiveOk(x)) /\ ~HasTurn(x)
      BY <1>4 DEF DnInv, DnPolls
    <3>2. PollOk(x)'
      BY <3>1, <1>u DEF PollOk, Before, HasTurn
    <3>3. ASSUME x.live PROVE LiveOk(x)'
      <4>1. LiveOk(x)
        BY <3>1, <3>3
      <4>2. Served(x) /\ x.ph = "answer" /\ x.st = 200 => Served(x)'
        <5>1. SUFFICES ASSUME Served(x), x.ph = "answer", x.st = 200 PROVE Served(x)'
          OBVIOUS
        <5>2. x.seq > ackSeq /\ x.seq \in DOMAIN assigned
          BY <3>3, <5>1, ServedFact
        <5>4. assigned'[x.seq] = assigned[x.seq]
          BY <5>2
        <5> QED BY <5>1, <5>4, <1>u DEF Served
      <4>3. ~ToldEnd(x)
        BY <1>6 DEF ToldEnd
      <4> QED BY <4>1, <4>2, <4>3, <1>u DEF LiveOk, Windowed, NoBatch
    <3> QED BY <3>2, <3>3
  <2>2. PollOk(q)' /\ (q.live => LiveOk(q)')
    <3>1. PollOk(q)'
      BY <1>0, <1>3, <1>u DEF Became, PollOk, HasTurn, Before
    <3>2. q.live => LiveOk(q)'
      BY <1>0, <1>3, <1>u DEF Became, LiveOk, Windowed, NoBatch
    <3> QED BY <3>1, <3>2
  <2>3. \A x \in polls' : x \in polls \ {p} \/ x = q
    BY <1>3
  <2> QED BY <2>1, <2>2, <2>3, Zenon DEF DnPolls
<1>9. DnOne'
  <2>1. q.live = p.live /\ q.want = p.want
    BY <1>3 DEF Became
  <2>2. \A x \in polls' : x \in polls \ {p} \/ x = q
    BY <1>3
  <2> QED BY <2>1, <2>2, <1>4 DEF DnOne, DnInv, HasTurn
<1>10. DnBatch'
  BY <1>u DEF DnInv, DnBatch, Windowed, NoBatch
<1>11. Placed(at, d)'
  <2>1. \A k \in (ackSeq + 1)..seq : k \in DOMAIN assigned' /\ assigned'[k] = assigned[k]
    <3>1. ASSUME NEW k \in (ackSeq + 1)..seq PROVE k > ackSeq
      BY DEF DnInv, DnTyped
    <3> QED BY <1>1, <3>1 DEF Placed
  <2>2. c[0] = at[seq] /\ d[0] = h /\ d[Len(Queued')] = pushed
    BY <1>1, <1>3, <1>5 DEF Placed
  <2>3. q.ph = "hand" /\ q.data = Bytes(at[seq], d[0]) /\ at[seq] < d[0] /\ q \in polls'
    BY <1>3, <2>2 DEF Became
  <2>4. \A x \in polls' : x.ph = "hand" => x = q
    BY <1>3, <1>4 DEF HasTurn
  <2>5. ~NoHand'
    BY <2>3 DEF NoHand
  <2>6. \A x \in polls' : x.ph = "hand" => at[seq] < d[0] /\ x.data = Bytes(at[seq], d[0])
    BY <2>3, <2>4, Zenon
  <2> QED BY <1>1, <1>3, <1>u, <2>1, <2>2, <2>5, <2>6 DEF Placed
<1> QED BY <1>7, <1>8, <1>9, <1>10, <1>11 DEF DnInv


-----------------------------------------------------------------------------
(* The relay's steps *)

LEMMA StillWhole == ASSUME DnInv, UNCHANGED <<relay, reader>> PROVE Still
BY DEF Still, relay, reader

LEMMA ArriveStep == ASSUME DnInv, NEW p \in polls, Arrive(p) PROVE DnInv'
<1>1. Still
  BY StillWhole, Zenon DEF Arrive
<1>2. p.ph # "hand" /\ Become(p, "in")
  BY DEF Arrive, DnInv, DnTyped
<1> QED BY <1>1, <1>2, Becomes

LEMMA VanishStep == ASSUME DnInv, NEW p \in polls, Vanish(p) PROVE DnInv'
<1>1. Still
  BY StillWhole, Zenon DEF Vanish
<1>2. Replaces({}, p)
  BY DEF Vanish, Replaces
<1> QED BY <1>1, <1>2, Replaced

\* Of the chunks a poll has not acknowledged the oldest is served again; a poll
\* the reader waits for acknowledges all it has.
LEMMA TakeUpToStep == ASSUME DnInv, NEW p \in polls, TakeUpTo(p) PROVE DnInv'
<1> DEFINE again == {k \in DOMAIN assigned : k > p.ack /\ k <= seq}
<1>1. /\ PollOk(p) /\ (p.live => LiveOk(p)) /\ p.want = 0 /\ p.ph = "in" /\ TurnFree
      /\ assigned' = Unacked(p.ack) /\ UNCHANGED <<pushed, qdone, gone, seq, reader>>
  BY DEF DnInv, DnPolls, TakeUpTo
<1>2. /\ DOMAIN assigned' \subseteq DOMAIN assigned
      /\ \A k \in DOMAIN assigned : k > ackSeq => k \in DOMAIN assigned' /\ assigned'[k] = assigned[k]
  BY <1>1, AckKeeps, Zenon
<1>b. batch' = batch
  BY <1>1 DEF reader
<1>3. CASE again # {} /\ Answer(p, 200, Min(again), assigned[Min(again)]) /\ UNCHANGED <<ch, head>>
  <2>1. Still
    BY <1>1, <1>2, <1>3, <1>b DEF Still
  <2>2. again \in SUBSET Nat
    BY DEF DnInv, DnTyped
  <2>3. Min(again) \in again /\ \A y \in again : Min(again) <= y
    BY <1>3, <2>2, MinOf, Zenon
  <2> DEFINE k == Min(again)
  <2> HIDE DEF again
  <2>4. k \in again /\ \A y \in again : k <= y
    BY <2>3
  <2> HIDE DEF k
  <2>5. k \in DOMAIN assigned /\ k > p.ack /\ k <= seq
    BY <2>4 DEF again
  <2>6. ASSUME p.live PROVE k > ackSeq /\ k = (IF p.want = 0 THEN p.ack + 1 ELSE p.want)
    <3>1. p.ack = ackSeq /\ ackSeq \in Nat /\ seq \in Nat /\ k \in Nat
      <4>1. p.ack = ackSeq
        BY <1>1, <2>6 DEF LiveOk, DnInv, DnBatch, DnTyped
      <4> QED BY <4>1, <2>4, <2>2 DEF DnInv, DnTyped
    <3>2. PICK at, c : Placed(at, c)
      BY DEF DnInv
    <3>3. ackSeq + 1 \in (ackSeq + 1)..seq
      BY <3>1, <2>5
    <3>4. ackSeq + 1 \in DOMAIN assigned
      BY <3>2, <3>3 DEF Placed
    <3>5. ackSeq + 1 \in again
      BY <3>1, <3>3, <3>4 DEF again
    <3>6. k <= ackSeq + 1
      BY <2>4, <3>5
    <3> QED BY <1>1, <2>5, <3>1, <3>6
  <2>7. Answer(p, 200, k, assigned[k])
    BY <1>3 DEF k
  <2> QED BY <1>1, <2>1, <2>5, <2>6, <2>7, AnswersKept, Zenon
<1>4. CASE again = {} /\ DrainUpTo(p)
  <2>1. seq = Before(p)
    <3>1. seq \in Nat /\ ackSeq \in Nat /\ ackSeq <= seq /\ p.ack \in Nat /\ p.ack <= ackSeq
      BY <1>1 DEF DnInv, DnTyped, PollOk, PollRecords
    <3>2. PICK at, c : Placed(at, c)
      BY DEF DnInv
    <3>3. CASE ackSeq < seq
      <4>1. seq \in (ackSeq + 1)..seq
        BY <3>1, <3>3
      <4>2. seq \in DOMAIN assigned
        BY <3>2, <4>1 DEF Placed
      <4>3. seq \in again
        BY <3>1, <3>3, <4>2
      <4> QED BY <4>3, <1>4
    <3>4. CASE ~(ackSeq < seq)
      BY <3>1, <3>4, <1>1 DEF Before
    <3> QED BY <3>3, <3>4
  <2>2. CASE Queued = << >>
    <3>1. Become(p, "parked") /\ UNCHANGED <<ch, head>>
      BY <1>4, <2>2, Zenon DEF DrainUpTo
    <3>2. Still
      BY <1>1, <1>2, <1>b, <3>1 DEF Still
    <3> QED BY <1>1, <2>1, <2>2, <3>1, <3>2, Parks
  <2>3. CASE Queued # << >>
    <3>1. p.ph # "hand"
      BY <1>1
    <3>2. TurnFree \/ HasTurn(p)
      BY <1>1
    <3> QED BY <1>1, <1>2, <1>4, <2>1, <2>3, <3>1, <3>2, Drains, Zenon
  <2> QED BY <2>2, <2>3
<1>5. \/ again # {} /\ Answer(p, 200, Min(again), assigned[Min(again)]) /\ UNCHANGED <<ch, head>>
      \/ again = {} /\ DrainUpTo(p)
  BY Zenon DEF TakeUpTo
<1> QED BY <1>3, <1>4, <1>5

LEMMA TakeWindowStep == ASSUME DnInv, NEW p \in polls, TakeWindow(p) PROVE DnInv'
<1>1. /\ PollOk(p) /\ (p.live => LiveOk(p)) /\ p.want # 0 /\ p.ph # "hand"
      /\ assigned' = Unacked(p.ack) /\ UNCHANGED <<pushed, ch, head, qdone, gone, seq, reader>>
  BY DEF DnInv, DnPolls, TakeWindow
<1>2. /\ DOMAIN assigned' \subseteq DOMAIN assigned
      /\ \A k \in DOMAIN assigned : k > ackSeq => k \in DOMAIN assigned' /\ assigned'[k] = assigned[k]
  BY <1>1, AckKeeps, Zenon
<1>3. Still
  BY <1>1, <1>2 DEF Still, reader
<1>4. CASE p.want \in DOMAIN assigned /\ Answer(p, 200, p.want, assigned[p.want])
  <2>1. ASSUME p.live PROVE p.want > ackSeq
    <3>1. p.want \in Nat
      BY <1>1 DEF PollOk, PollRecords
    <3>2. Windowed /\ p.want >= batch.next
      BY <1>1, <2>1 DEF LiveOk
    <3>3. batch.next = ackSeq + 1 /\ ackSeq \in Nat
      BY <3>2 DEF DnInv, DnBatch, DnTyped
    <3> QED BY <3>1, <3>2, <3>3
  <2>2. p.live => p.want > ackSeq /\ p.want = (IF p.want = 0 THEN p.ack + 1 ELSE p.want)
    BY <2>1, <1>1
  <2> QED BY <1>1, <1>3, <1>4, <2>2, AnswersKept, Zenon
<1>5. CASE Answer(p, 204, 0, << >>)
  BY <1>1, <1>3, <1>5, AnswersNothing
<1>6. CASE Become(p, "wait") \/ Become(p, "turn")
  BY <1>1, <1>3, <1>6, Becomes
<1> QED BY <1>4, <1>5, <1>6 DEF TakeWindow

LEMMA ChangedStep == ASSUME DnInv, NEW p \in polls, Changed(p) PROVE DnInv'
<1>1. Still
  BY StillWhole, Zenon DEF Changed
<1>2. p.ph # "hand" /\ Become(p, "in")
  BY DEF Changed
<1> QED BY <1>1, <1>2, Becomes

\* With the turn a poll looks again at the number: the chunk is still its own.
LEMMA AcquireStep == ASSUME DnInv, NEW p \in polls, Acquire(p) PROVE DnInv'
<1>1. /\ PollOk(p) /\ p.ph = "turn" /\ p.ph # "hand" /\ TurnFree
      /\ UNCHANGED <<pushed, qdone, gone, seq, assigned, reader>>
  BY DEF DnInv, DnPolls, Acquire
<1>2. /\ DOMAIN assigned' \subseteq DOMAIN assigned
      /\ \A k \in DOMAIN assigned : k > ackSeq => k \in DOMAIN assigned' /\ assigned'[k] = assigned[k]
  BY <1>1
<1>3. UNCHANGED <<ch, head>> => Still
  BY <1>1 DEF Still, reader
<1>4. CASE p.want # seq + 1
  <2>1. Become(p, "in") /\ UNCHANGED <<ch, head>>
    BY <1>4, Zenon DEF Acquire
  <2> QED BY <1>1, <1>3, <2>1, Becomes
<1>5. CASE p.want = seq + 1
  <2>0. DrainUpTo(p)
    BY <1>5, Zenon DEF Acquire
  <2>1. seq = Before(p)
    BY <1>5 DEF Before, DnInv, DnTyped
  <2>2. CASE Queued = << >>
    <3>1. Become(p, "parked") /\ UNCHANGED <<ch, head>>
      BY <2>0, <2>2, Zenon DEF DrainUpTo
    <3> QED BY <1>1, <1>3, <2>1, <2>2, <3>1, Parks
  <2>3. CASE Queued # << >>
    BY <1>1, <1>2, <2>0, <2>1, <2>3, Drains, Zenon
  <2> QED BY <2>2, <2>3
<1> QED BY <1>4, <1>5

LEMMA ParkedTakesStep == ASSUME DnInv, NEW p \in polls, ParkedTakes(p) PROVE DnInv'
<1>1. /\ PollOk(p) /\ p.ph = "parked" /\ p.ph # "hand" /\ ch # << >> /\ DrainUpTo(p)
      /\ UNCHANGED <<pushed, qdone, gone, seq, assigned, reader>>
  BY DEF DnInv, DnPolls, ParkedTakes
<1>2. /\ DOMAIN assigned' \subseteq DOMAIN assigned
      /\ \A k \in DOMAIN assigned : k > ackSeq => k \in DOMAIN assigned' /\ assigned'[k] = assigned[k]
  BY <1>1
<1>3. HasTurn(p) /\ seq = Before(p) /\ head = << >>
  BY <1>1 DEF PollOk, HasTurn
<1>4. Queued # << >>
  BY <1>1, <1>3 DEF Queued
<1> QED BY <1>1, <1>2, <1>3, <1>4, Drains, Zenon

LEMMA GiveUpStep == ASSUME DnInv, NEW p \in polls, GiveUp(p) PROVE DnInv'
<1>1. Still
  BY StillWhole, Zenon DEF GiveUp
<1>2. p.ph # "hand" /\ Answer(p, 204, 0, << >>)
  BY DEF GiveUp
<1> QED BY <1>1, <1>2, AnswersNothing


\* A poll is told of the end when nothing is queued and, with the turn its own,
\* nothing is in hand.
LEMMA ParkedClosesStep == ASSUME DnInv, NEW p \in polls, ParkedCloses(p) PROVE DnInv'
<1>1. /\ PollOk(p) /\ (p.live => LiveOk(p)) /\ p \in PollRecords
      /\ p.ph = "parked" /\ ch = << >> /\ qdone /\ Answer(p, 410, 0, << >>)
  BY DEF DnInv, DnPolls, PollOk, ParkedCloses
<1>2. Still /\ UNCHANGED <<relay, reader>>
  BY StillWhole, Zenon DEF ParkedCloses
<1>3. head = << >> /\ seq = Before(p) /\ p.ph # "hand"
  BY <1>1 DEF PollOk, HasTurn
<1>4. \A x \in polls : x.ph # "hand"
  BY <1>1 DEF DnInv, DnOne, HasTurn
<1>q. PICK q : q = [p EXCEPT !.ph = "answer", !.st = 410, !.seq = 0, !.data = << >>]
  OBVIOUS
<1>0. << >> \in Seq(Nat) /\ 410 \in Nat /\ 0 \in Nat
  OBVIOUS
<1>5. Became(q, p, p.live, "answer", 410, 0, << >>)
  BY <1>1, <1>q, <1>0, PollAnswered, Zenon
<1>6. CASE p.live
  <2>3. polls' = (polls \ {p}) \cup {q}
    BY <1>q, <1>1, <1>6, Zenon DEF Answer
  <2>4. PollOk(q)'
    BY <1>1, <1>2, <1>5 DEF Became, PollOk, HasTurn, Still, reader
  <2>5. LiveOk(q)'
    <3>1. NoHand'
      BY <1>4, <1>5, <2>3 DEF NoHand, Became
    <3>2. q.want = p.want
      BY <1>5 DEF Became
    <3>3. ToldEnd(q)'
      BY <1>1, <1>2, <1>3, <3>1, <3>2 DEF ToldEnd, Before, Still, reader
    <3> QED BY <1>1, <1>2, <1>5, <1>6, <3>3 DEF Became, LiveOk, Windowed, NoBatch, Still, reader
  <2>6. Replaces({q}, p)
    BY <1>3, <1>5, <2>3, <2>4, <2>5, <1>6 DEF Replaces, Became, HasTurn
  <2> QED BY <1>2, <2>6, Replaced
<1>7. CASE ~p.live
  <2>1. polls' = (polls \ {p}) \cup {}
    BY <1>1, <1>7, Zenon DEF Answer
  <2>2. Replaces({}, p)
    BY <2>1, <1>3 DEF Replaces
  <2> QED BY <1>2, <2>2, Replaced
<1> QED BY <1>6, <1>7

\* Bytes in hand are numbered: they are the chunk after the last one.
LEMMA AssignStep == ASSUME DnInv, NEW p \in polls, Assign(p) PROVE DnInv'
<1>k. PICK k : k = IF p.want = 0 THEN seq + 1 ELSE p.want
  OBVIOUS
<1>1. /\ PollOk(p) /\ (p.live => LiveOk(p)) /\ p \in PollRecords /\ p.ph = "hand"
      /\ seq \in Nat /\ ackSeq \in Nat /\ ackSeq <= seq /\ DOMAIN assigned \subseteq 1..seq
  BY DEF DnInv, DnPolls, DnTyped, PollOk, Assign
<1>2. seq = Before(p) /\ p.want \in Nat /\ p.ack \in Nat /\ p.ack <= ackSeq
  BY <1>1 DEF PollOk, HasTurn, PollRecords
<1>3. k = seq + 1
  BY <1>1, <1>2, <1>k DEF Before
<1>4. /\ seq' = k /\ Answer(p, 200, k, p.data)
      /\ assigned' = [j \in DOMAIN assigned \cup {k} |-> IF j = k THEN p.data ELSE assigned[j]]
  BY <1>k, Zenon DEF Assign
<1>u. /\ pushed' = pushed /\ ch' = ch /\ head' = head /\ qdone' = qdone /\ gone' = gone
      /\ ackSeq' = ackSeq /\ downMax' = downMax /\ batch' = batch /\ received' = received /\ ended' = ended
  BY DEF Assign, reader
<1>5. /\ DOMAIN assigned' = DOMAIN assigned \cup {k} /\ assigned'[k] = p.data
      /\ \A j \in DOMAIN assigned : assigned'[j] = assigned[j]
  <2>1. k \notin DOMAIN assigned
    BY <1>1, <1>3
  <2> QED BY <2>1, <1>4
<1>6. \A x \in polls \ {p} : ~HasTurn(x)
  BY <1>1 DEF DnInv, DnOne, HasTurn
<1>7. PICK at, c : Placed(at, c)
  BY DEF DnInv
<1>8. at[seq] < c[0] /\ p.data = Bytes(at[seq], c[0]) /\ c[0] \in Nat /\ at[seq] \in Nat
  BY <1>1, <1>7 DEF Placed, Cut
<1>9. ~NoHand
  BY <1>1 DEF NoHand
<1>q. PICK q : q = [p EXCEPT !.ph = "answer", !.st = 200, !.seq = k, !.data = p.data]
  OBVIOUS
<1>10. Became(q, p, p.live, "answer", 200, k, p.data)
  <2>1. k \in Nat /\ p.data \in Seq(Nat) /\ 200 \in Nat
    BY <1>1, <1>3 DEF PollRecords
  <2> QED BY <2>1, <1>1, <1>q, PollAnswered, Zenon
<1>11. polls' = (polls \ {p}) \cup (IF p.live THEN {q} ELSE {})
  BY <1>4, <1>q, Zenon DEF Answer
<1>12. NoHand'
  BY <1>6, <1>10, <1>11 DEF NoHand, HasTurn, Became
<1>13. DnTyped'
  BY <1>1, <1>3, <1>4, <1>5, <1>u DEF DnInv, DnTyped
<1>14. DnPolls'
  <2>1. ASSUME NEW x \in polls \ {p} PROVE PollOk(x)' /\ (x.live => LiveOk(x)')
    <3>1. PollOk(x) /\ (x.live => LiveOk(x)) /\ ~HasTurn(x)
      BY <1>6 DEF DnInv, DnPolls
    <3>2. PollOk(x)'
      BY <3>1, <1>u DEF PollOk, Before, HasTurn
    <3>3. ASSUME x.live PROVE LiveOk(x)'
      <4>1. x.ph = "answer" /\ x.st = 200 => Served(x)'
        <5>1. SUFFICES ASSUME x.ph = "answer", x.st = 200 PROVE Served(x)'
          OBVIOUS
        <5>2. Served(x) /\ x.seq \in DOMAIN assigned
          BY <3>3, <5>1, ServedFact
        <5>3. x.seq <= k
          BY <5>2, <1>1, <1>3
        <5> QED BY <5>2, <5>3, <1>4, <1>5 DEF Served
      <4>2. ~ToldEnd(x)
        BY <1>9 DEF ToldEnd
      <4> QED BY <3>1, <3>3, <4>1, <4>2, <1>u DEF LiveOk, Windowed, NoBatch
    <3> QED BY <3>2, <3>3
  <2>2. ASSUME p.live PROVE PollOk(q)' /\ LiveOk(q)'
    <3>1. PollOk(q)'
      BY <1>1, <1>10, <1>u DEF Became, PollOk, HasTurn, Before
    <3>2. Served(q)'
      <4>1. k = IF p.want = 0 THEN p.ack + 1 ELSE p.want
        <5>1. CASE p.want = 0
          <6>1. ~Windowed \/ FALSE
            BY <1>1, <2>2, <5>1 DEF LiveOk, DnInv, DnBatch
          <6>2. p.ack = ackSeq
            BY <1>1, <2>2, <6>1 DEF LiveOk
          <6> QED BY <5>1, <6>2, <1>2, <1>3 DEF Before
        <5>2. CASE p.want # 0
          BY <5>2, <1>k
        <5> QED BY <5>1, <5>2
      <4> QED BY <4>1, <1>3, <1>1, <1>4, <1>5, <1>10 DEF Served, Became
    <3>3. LiveOk(q)'
      BY <1>1, <2>2, <1>10, <1>u, <3>2 DEF Became, LiveOk, Windowed, NoBatch
    <3> QED BY <3>1, <3>3
  <2>3. \A x \in polls' : x \in polls \ {p} \/ (p.live /\ x = q)
    BY <1>11
  <2> QED BY <2>1, <2>2, <2>3, Zenon DEF DnPolls
<1>15. DnOne'
  <2>1. q.live = p.live /\ q.want = p.want /\ ~HasTurn(q)
    BY <1>10 DEF Became, HasTurn
  <2>2. \A x \in polls' : x \in polls \ {p} \/ x = q
    BY <1>11
  <2> QED BY <2>1, <2>2, <1>6 DEF DnOne, DnInv, HasTurn
<1>16. DnBatch'
  BY <1>u DEF DnInv, DnBatch, Windowed, NoBatch
<1>17. \E at2 : Placed(at2, c)'
  <2>0. PICK a2 : a2 = [j \in Nat |-> IF j = k THEN c[0] ELSE at[j]]
    OBVIOUS
  <2>1. a2 \in [Nat -> Nat] /\ a2[k] = c[0] /\ \A j \in 0..seq : a2[j] = at[j]
    <3>1. \A j \in Nat : (IF j = k THEN c[0] ELSE at[j]) \in Nat
      BY <1>7, <1>8 DEF Placed
    <3>2. k \in Nat /\ \A j \in 0..seq : j \in Nat /\ j # k
      BY <1>1, <1>3
    <3> QED BY <2>0, <3>1, <3>2, Zenon
  <2>2. Queued' = Queued
    BY <1>u DEF Queued
  <2>3. received' = Bytes(0, a2[ackSeq])
    <3>1. ackSeq \in 0..seq
      BY <1>1
    <3> QED BY <3>1, <2>1, <1>7, <1>u, Zenon DEF Placed
  <2>4. ASSUME NEW j \in (ackSeq + 1)..k
        PROVE /\ j \in DOMAIN assigned' /\ a2[j - 1] < a2[j] /\ assigned'[j] = Bytes(a2[j - 1], a2[j])
    <3>1. CASE j = k
      <4>1. j - 1 = seq /\ seq \in 0..seq
        BY <3>1, <1>1, <1>3
      <4>2. a2[j - 1] = at[seq] /\ a2[j] = c[0]
        BY <4>1, <3>1, <2>1, Zenon
      <4> QED BY <3>1, <4>2, <1>5, <1>8
    <3>2. CASE j # k
      <4>1. j \in (ackSeq + 1)..seq /\ j \in 0..seq /\ j - 1 \in 0..seq
        BY <3>2, <1>1, <1>3
      <4>2. a2[j - 1] = at[j - 1] /\ a2[j] = at[j]
        BY <4>1, <2>1, Zenon
      <4>3. j \in DOMAIN assigned /\ at[j - 1] < at[j] /\ assigned[j] = Bytes(at[j - 1], at[j])
        BY <4>1, <1>7 DEF Placed
      <4> QED BY <4>2, <4>3, <1>5
    <3> QED BY <3>1, <3>2
  <2>5. a2[seq'] = c[0]
    BY <2>1, <1>4
  <2>6. \A x \in polls' : x.ph # "hand"
    BY <1>12 DEF NoHand
  <2>7. Placed(a2, c)'
    <3>1. \A j \in (ackSeq' + 1)..seq' : /\ j \in DOMAIN assigned' /\ a2[j - 1] < a2[j]
                                         /\ assigned'[j] = Bytes(a2[j - 1], a2[j])
      BY <2>4, <1>4, <1>u, Zenon
    <3>2. Cut(Queued', c) /\ c[Len(Queued')] = pushed'
      BY <2>2, <1>7, <1>u, Zenon DEF Placed
    <3>3. received' = Bytes(0, a2[ackSeq'])
      BY <2>3, <1>u, Zenon
    <3>4. NoHand' => c[0] = a2[seq']
      BY <2>5, Zenon
    <3>5. \A x \in polls' : x.ph = "hand" => a2[seq'] < c[0] /\ x.data = Bytes(a2[seq'], c[0])
      BY <2>6
    <3>6. a2 \in [Nat -> Nat]
      BY <2>1
    <3> QED BY <3>1, <3>2, <3>3, <3>4, <3>5, <3>6, Zenon DEF Placed
  <2> QED BY <2>7
<1> QED BY <1>13, <1>14, <1>15, <1>16, <1>17 DEF DnInv


-----------------------------------------------------------------------------
(* The writer *)

LEMMA PushStep == ASSUME DnInv, NEW n \in 1..MaxChunk, Push(n) PROVE DnInv'
<1> DEFINE new == [i \in 1..n |-> pushed + i]
<1>1. /\ ~qdone /\ ch' = Append(ch, new) /\ pushed' = pushed + n /\ head' = head /\ qdone' = qdone
      /\ gone' = gone /\ seq' = seq /\ assigned' = assigned /\ polls' = polls
      /\ ackSeq' = ackSeq /\ downMax' = downMax /\ batch' = batch /\ received' = received /\ ended' = ended
  BY DEF Push, reader
<1>2. n \in Nat \ {0} /\ pushed \in Nat /\ ch \in Seq(Seq(Nat)) /\ head \in Seq(Nat)
  BY DownConstants DEF DnInv, DnTyped
<1>3. new = Bytes(pushed, pushed + n) /\ new \in Seq(Nat)
  <2>1. (pushed + n) - pushed = n
    BY <1>2
  <2>2. new = Bytes(pushed, pushed + n)
    <3>1. Bytes(pushed, pushed + n) = [i \in 1..((pushed + n) - pushed) |-> pushed + i]
      BY DEF Bytes
    <3> QED BY <2>1, <3>1
  <2>3. pushed + n \in Nat /\ pushed <= pushed + n
    BY <1>2
  <2> QED BY <1>2, <2>2, <2>3, BytesSeq, Zenon
<1> HIDE DEF new
<1>4. PICK at, c : Placed(at, c)
  BY DEF DnInv
<1>5. Queued' = Append(Queued, new)
  <2>1. CASE head = << >>
    BY <2>1, <1>1 DEF Queued
  <2>2. CASE head # << >>
    <3>1. <<head>> \o Append(ch, new) = Append(<<head>> \o ch, new)
      <4>1. <<head>> \in Seq(Seq(Nat))
        BY <1>2
      <4>2. /\ Append(ch, new) = ch \o <<new>>
            /\ Append(<<head>> \o ch, new) = (<<head>> \o ch) \o <<new>>
        BY <4>1, <1>2, <1>3, AppendIsConcat, ConcatProperties
      <4>3. <<new>> \in Seq(Seq(Nat))
        BY <1>3
      <4>4. (<<head>> \o ch) \o <<new>> = <<head>> \o (ch \o <<new>>)
        BY <4>1, <4>3, <1>2, ConcatAssociative
      <4> QED BY <4>2, <4>4, Zenon
    <3> QED BY <2>2, <3>1, <1>1 DEF Queued
  <2> QED BY <2>1, <2>2
<1>6. Cut(Queued, c) /\ c[Len(Queued)] = pushed
  BY <1>4 DEF Placed
<1>7. PICK e : Cut(Queued', e) /\ e[0] = c[0] /\ e[Len(Queued')] = pushed'
  <2>1. pushed + n \in Nat /\ c[Len(Queued)] < pushed + n
    BY <1>2, <1>6
  <2>2. \E e : /\ Cut(Append(Queued, Bytes(c[Len(Queued)], pushed + n)), e) /\ e[0] = c[0]
               /\ e[Len(Append(Queued, Bytes(c[Len(Queued)], pushed + n)))] = pushed + n
    BY <2>1, <1>6, CutAppend, Zenon
  <2> QED BY <2>2, <1>1, <1>3, <1>5, <1>6, Zenon
<1>8. DnTyped'
  <2>1. ch' \in Seq(Seq(Nat)) /\ pushed' \in Nat
    BY <1>1, <1>2, <1>3, AppendProperties
  <2> QED BY <2>1, <1>1 DEF DnInv, DnTyped
<1>9. DnPolls'
  <2>1. ASSUME NEW x \in polls PROVE PollOk(x)' /\ (x.live => LiveOk(x)')
    <3>1. PollOk(x) /\ (x.live => LiveOk(x))
      BY DEF DnInv, DnPolls
    <3>2. ~ToldEnd(x)
      BY <1>1 DEF ToldEnd
    <3>3. PollOk(x)'
      BY <3>1, <1>1 DEF PollOk, Before
    <3>4. x.live => LiveOk(x)'
      BY <3>1, <3>2, <1>1 DEF LiveOk, Windowed, NoBatch, Served
    <3> QED BY <3>3, <3>4
  <2> QED BY <2>1, <1>1, Zenon DEF DnPolls
<1>10. DnOne'
  BY <1>1 DEF DnInv, DnOne
<1>11. DnBatch'
  BY <1>1 DEF DnInv, DnBatch, Windowed, NoBatch
<1>12. Placed(at, e)'
  BY <1>1, <1>4, <1>7, Zenon DEF Placed, NoHand
<1> QED BY <1>8, <1>9, <1>10, <1>11, <1>12 DEF DnInv

LEMMA CloseQueueStep == ASSUME DnInv, CloseQueue PROVE DnInv'
<1>1. /\ qdone' = TRUE /\ ch' = ch /\ pushed' = pushed /\ head' = head
      /\ gone' = gone /\ seq' = seq /\ assigned' = assigned /\ polls' = polls
      /\ ackSeq' = ackSeq /\ downMax' = downMax /\ batch' = batch /\ received' = received /\ ended' = ended
  BY DEF CloseQueue, reader
<1>2. DnTyped'
  BY <1>1 DEF DnInv, DnTyped
<1>3. DnPolls'
  <2>1. ASSUME NEW x \in polls PROVE PollOk(x)' /\ (x.live => LiveOk(x)')
    <3>1. PollOk(x) /\ (x.live => LiveOk(x))
      BY DEF DnInv, DnPolls
    <3>2. ToldEnd(x) => ToldEnd(x)'
      BY <1>1 DEF ToldEnd, NoHand, Before
    <3>3. PollOk(x)'
      BY <3>1, <1>1 DEF PollOk, Before
    <3>4. x.live => LiveOk(x)'
      BY <3>1, <3>2, <1>1 DEF LiveOk, Windowed, NoBatch, Served
    <3> QED BY <3>3, <3>4
  <2> QED BY <2>1, <1>1, Zenon DEF DnPolls
<1>4. DnOne' /\ DnBatch'
  BY <1>1 DEF DnInv, DnOne, DnBatch, Windowed, NoBatch
<1>5. \E at, c : Placed(at, c)'
  <2>1. PICK at, c : Placed(at, c)
    BY DEF DnInv
  <2>2. Queued' = Queued
    BY <1>1 DEF Queued
  <2> QED BY <1>1, <2>1, <2>2, Zenon DEF Placed, NoHand
<1> QED BY <1>2, <1>3, <1>4, <1>5 DEF DnInv

-----------------------------------------------------------------------------
(* The reader's steps *)

\* A failed try leaves what the relay still has of the poll, and the next try,
\* which asks for the same chunk.
LEMMA CarrierFailsStep == ASSUME DnInv, NEW p \in polls, NEW heard \in BOOLEAN, CarrierFails(p, heard) PROVE DnInv'
<1>1. /\ PollOk(p) /\ LiveOk(p) /\ p \in PollRecords /\ p.live /\ p.ph # "failed"
  BY DEF DnInv, DnPolls, PollOk, CarrierFails
<1>2. UNCHANGED <<relay, reader>> /\ Still
  BY StillWhole, Zenon DEF CarrierFails
<1>g. PICK g : g = [p EXCEPT !.live = FALSE]
  OBVIOUS
<1>3. Became(g, p, FALSE, p.ph, p.st, p.seq, p.data)
  BY <1>1, <1>g, PollLeft, Zenon
<1>4. PollOk(g)' /\ ~g.live
  BY <1>1, <1>2, <1>3 DEF Became, PollOk, HasTurn, Before, Still, reader
<1>5. Ghost(p) = (IF p.ph \in {"answer", "failed"} THEN {} ELSE {g})
  BY <1>g, Zenon DEF Ghost
<1>6. ASSUME NEW q, q \in PollRecords, q.live, q.want = p.want, q.ack = p.ack, q.ph \in {"net", "failed"},
             polls' = (polls \ {p}) \cup (Ghost(p) \cup {q})
      PROVE  DnInv'
  <2>1. PollOk(q)'
    BY <1>1, <1>2, <1>6 DEF PollOk, HasTurn, Still, reader
  <2>2. LiveOk(q)'
    BY <1>1, <1>2, <1>6 DEF LiveOk, Windowed, NoBatch, Still, reader
  <2>3. ~HasTurn(q) /\ q.ph # "hand"
    BY <1>6 DEF HasTurn
  <2>4. g.ph = p.ph /\ g.data = p.data
    BY <1>3 DEF Became
  <2>5. HasTurn(g) => HasTurn(p)
    BY <2>4 DEF HasTurn
  <2>6. \A n \in Ghost(p) \cup {q} : n = g \/ n = q
    BY <1>5
  <2>7. p.ph = "hand" => g \in Ghost(p)
    BY <1>5
  <2>8. Replaces(Ghost(p) \cup {q}, p)
    <3>1. \A n \in Ghost(p) \cup {q} : PollOk(n)' /\ (n.live => LiveOk(n)')
      BY <2>1, <2>2, <2>6, <1>4, Zenon
    <3>2. \A n \in Ghost(p) \cup {q} : n.live => p.live /\ n.want = p.want
      BY <2>6, <1>1, <1>4, <1>6, Zenon
    <3>3. \A m, n \in Ghost(p) \cup {q} : (m.live /\ n.live) \/ (HasTurn(m) /\ HasTurn(n)) => m = n
      BY <2>3, <2>6, <1>4, Zenon
    <3>4. \A n \in Ghost(p) \cup {q} : HasTurn(n) => TurnFree \/ HasTurn(p)
      BY <2>3, <2>5, <2>6, Zenon
    <3>5. \A n \in Ghost(p) \cup {q} : n.ph = "hand" => p.ph = "hand" /\ n.data = p.data
      BY <2>3, <2>4, <2>6, Zenon
    <3>6. p.ph = "hand" => \E n \in Ghost(p) \cup {q} : n.ph = "hand"
      BY <2>4, <2>7
    <3> QED BY <1>6, <3>1, <3>2, <3>3, <3>4, <3>5, <3>6, Zenon DEF Replaces
  <2> QED BY <1>2, <2>8, Replaced
<1>7. CASE polls' = (polls \ {p}) \cup Ghost(p) \cup {[NewPoll(p.want, p.ack, p.max) EXCEPT !.try = p.try + 1]}
  <2>q. PICK q : q = [NewPoll(p.want, p.ack, p.max) EXCEPT !.try = p.try + 1]
    OBVIOUS
  <2>1. q \in PollRecords /\ q.live /\ q.want = p.want /\ q.ack = p.ack /\ q.ph \in {"net", "failed"}
    BY <2>q, <1>1, NewPollTried, Zenon
  <2>2. polls' = (polls \ {p}) \cup (Ghost(p) \cup {q})
    <3>1. polls' = (polls \ {p}) \cup Ghost(p) \cup {q}
      BY <1>7, <2>q, Zenon
    <3> QED BY <3>1
  <2> QED BY <1>6, <2>1, <2>2, Zenon
<1>8. CASE polls' = (polls \ {p}) \cup Ghost(p) \cup {[p EXCEPT !.ph = "failed"]}
  <2>q. PICK q : q = [p EXCEPT !.ph = "failed"]
    OBVIOUS
  <2>1. Became(q, p, p.live, "failed", p.st, p.seq, p.data)
    BY <1>1, <2>q, PollMoves, Zenon DEF Phases
  <2>2. polls' = (polls \ {p}) \cup (Ghost(p) \cup {q})
    <3>1. polls' = (polls \ {p}) \cup Ghost(p) \cup {q}
      BY <1>8, <2>q, Zenon
    <3> QED BY <3>1
  <2>3. q \in PollRecords /\ q.live /\ q.want = p.want /\ q.ack = p.ack /\ q.ph \in {"net", "failed"}
    BY <2>1, <1>1 DEF Became
  <2> QED BY <1>6, <2>2, <2>3, Zenon
<1> QED BY <1>7, <1>8, Zenon DEF CarrierFails


\* What is left of a poll when the reader has given up on it.
LEMMA CancelledFact ==
    ASSUME DnInv, NEW P, P \subseteq polls
    PROVE  /\ \A x \in Cancelled(P) : \E y \in P :
                /\ x \in PollRecords /\ ~x.live
                /\ x.want = y.want /\ x.ack = y.ack /\ x.ph = y.ph /\ x.data = y.data
                /\ x = (IF y.live THEN [y EXCEPT !.live = FALSE] ELSE y)
           /\ \A y \in P : y.ph = "hand" => \E x \in Cancelled(P) : x.ph = "hand"
<1>1. ASSUME NEW y \in P, NEW x, x = (IF y.live THEN [y EXCEPT !.live = FALSE] ELSE y)
      PROVE  /\ x \in PollRecords /\ ~x.live
             /\ x.want = y.want /\ x.ack = y.ack /\ x.ph = y.ph /\ x.data = y.data
  <2>1. y \in PollRecords
    BY <1>1 DEF DnInv, DnPolls, PollOk
  <2>2. CASE y.live
    <3>1. Became(x, y, FALSE, y.ph, y.st, y.seq, y.data)
      BY <1>1, <2>1, <2>2, PollLeft, Zenon
    <3> QED BY <3>1 DEF Became
  <2>3. CASE ~y.live
    BY <1>1, <2>1, <2>3
  <2> QED BY <2>2, <2>3
<1>2. ASSUME NEW x \in Cancelled(P)
      PROVE  \E y \in P : x = (IF y.live THEN [y EXCEPT !.live = FALSE] ELSE y)
  <2>1. PICK y \in P : x \in (IF y.live THEN Ghost(y) ELSE {y})
    BY DEF Cancelled
  <2>2. x = (IF y.live THEN [y EXCEPT !.live = FALSE] ELSE y)
    BY <2>1 DEF Ghost
  <2> QED BY <2>2
<1>3. ASSUME NEW y \in P, y.ph = "hand" PROVE \E x \in Cancelled(P) : x.ph = "hand"
  <2>x. PICK x : x = (IF y.live THEN [y EXCEPT !.live = FALSE] ELSE y)
    OBVIOUS
  <2>1. x.ph = "hand"
    BY <1>1, <1>3, <2>x, Zenon
  <2>2. x \in (IF y.live THEN Ghost(y) ELSE {y})
    BY <1>3, <2>x DEF Ghost
  <2>3. x \in Cancelled(P)
    BY <2>2 DEF Cancelled
  <2> QED BY <2>1, <2>3
<1> QED BY <1>1, <1>2, <1>3, Zenon

\* Nothing the reader gives up on is lost: what one of its polls has in hand the
\* relay goes on to keep.
LEMMA Cancels ==
    ASSUME DnInv, UNCHANGED <<relay, ackSeq, received>>, NEW P, P \subseteq polls,
           \A y \in polls : y \notin P => y.ph # "hand",
           polls' = Cancelled(P), batch' = NoBatch, downMax' \in Nat \ {0},
           ended' = "eof" => qdone
    PROVE  DnInv'
<1>u. /\ pushed' = pushed /\ ch' = ch /\ head' = head /\ qdone' = qdone /\ gone' = gone /\ seq' = seq
      /\ assigned' = assigned /\ ackSeq' = ackSeq /\ received' = received
  BY DEF relay
<1>1. /\ \A x \in polls' : \E y \in P :
            /\ x \in PollRecords /\ ~x.live
            /\ x.want = y.want /\ x.ack = y.ack /\ x.ph = y.ph /\ x.data = y.data
            /\ x = (IF y.live THEN [y EXCEPT !.live = FALSE] ELSE y)
      /\ \A y \in P : y.ph = "hand" => \E x \in polls' : x.ph = "hand"
  BY CancelledFact, Zenon
<1>2. DnTyped'
  BY <1>u DEF DnInv, DnTyped
<1>3. DnPolls'
  <2>1. SUFFICES ASSUME NEW x \in polls' PROVE PollOk(x)' /\ ~x.live
    BY Zenon DEF DnPolls
  <2>2. PICK y \in P : x \in PollRecords /\ ~x.live /\ x.want = y.want /\ x.ack = y.ack /\ x.ph = y.ph
    BY <1>1, Zenon
  <2>3. PollOk(y)
    BY <2>2 DEF DnInv, DnPolls
  <2> QED BY <2>2, <2>3, <1>u DEF PollOk, HasTurn, Before
<1>4. DnOne'
  <2>1. SUFFICES ASSUME NEW x \in polls', NEW z \in polls',
                        (x.live /\ z.live /\ x.want = z.want) \/ (HasTurn(x) /\ HasTurn(z))
                 PROVE  x = z
    BY Zenon DEF DnOne, HasTurn
  <2>2. PICK y \in P : ~x.live /\ x.ph = y.ph /\ x = (IF y.live THEN [y EXCEPT !.live = FALSE] ELSE y)
    BY <1>1, Zenon
  <2>3. PICK w \in P : ~z.live /\ z.ph = w.ph /\ z = (IF w.live THEN [w EXCEPT !.live = FALSE] ELSE w)
    BY <1>1, Zenon
  <2>4. HasTurn(y) /\ HasTurn(w)
    BY <2>1, <2>2, <2>3 DEF HasTurn
  <2>5. y = w
    BY <2>4 DEF DnInv, DnOne
  <2> QED BY <2>2, <2>3, <2>5, Zenon
<1>5. DnBatch'
  BY DEF DnBatch, Windowed, NoBatch
<1>6. \E at, c : Placed(at, c)'
  <2>1. PICK at, c : Placed(at, c)
    BY DEF DnInv
  <2>2. Queued' = Queued
    BY <1>u DEF Queued
  <2>3. NoHand' => NoHand
    BY <1>1 DEF NoHand
  <2>4. \A x \in polls' : x.ph = "hand" => at[seq] < c[0] /\ x.data = Bytes(at[seq], c[0])
    <3>1. SUFFICES ASSUME NEW x \in polls', x.ph = "hand"
                   PROVE  at[seq] < c[0] /\ x.data = Bytes(at[seq], c[0])
      OBVIOUS
    <3>2. PICK y \in P : x.ph = y.ph /\ x.data = y.data
      BY <1>1, Zenon
    <3> QED BY <2>1, <3>1, <3>2 DEF Placed
  <2>5. Placed(at, c)'
    BY <2>1, <2>2, <2>3, <2>4, <1>u, Zenon DEF Placed
  <2> QED BY <2>5
<1> QED BY <1>2, <1>3, <1>4, <1>5, <1>6 DEF DnInv

LEMMA ReadEmptyStep == ASSUME DnInv, NEW p \in polls, ReadEmpty(p) PROVE DnInv'
<1>1. /\ UNCHANGED <<relay, ackSeq, received>> /\ polls' = Cancelled(polls \ {p}) /\ batch' = NoBatch
      /\ downMax' \in Nat \ {0} /\ (ended' = "eof" => qdone) /\ p.ph # "hand"
  BY DEF ReadEmpty, DnInv, DnTyped
<1>2. \A y \in polls : y \notin polls \ {p} => y.ph # "hand"
  BY <1>1
<1>3. polls \ {p} \subseteq polls
  OBVIOUS
<1> QED BY <1>1, <1>2, <1>3, Cancels, Zenon

LEMMA ReadEndsStep == ASSUME DnInv, NEW p \in polls, ReadEnds(p) PROVE DnInv'
<1>1. /\ UNCHANGED <<relay, ackSeq, received>> /\ polls' = Cancelled(polls \ {p}) /\ batch' = NoBatch
      /\ downMax' \in Nat \ {0} /\ p.ph # "hand" /\ p.live
  BY DEF ReadEnds, Expected, DnInv, DnTyped
<1>2. ended' = "eof" => qdone
  <2>1. ended' = "eof" => p.ph = "answer" /\ p.st \in {404, 410}
    BY DEF ReadEnds
  <2> QED BY <1>1, <2>1 DEF DnInv, DnPolls, LiveOk, ToldEnd
<1>3. \A y \in polls : y \notin polls \ {p} => y.ph # "hand"
  BY <1>1
<1>4. polls \ {p} \subseteq polls
  OBVIOUS
<1> QED BY <1>1, <1>2, <1>3, <1>4, Cancels, Zenon

LEMMA ReaderStopsStep == ASSUME DnInv, ReaderStops PROVE DnInv'
<1>1. /\ UNCHANGED <<relay, ackSeq, received>> /\ polls' = Cancelled(polls) /\ batch' = NoBatch
      /\ downMax' \in Nat \ {0} /\ (ended' = "eof" => qdone)
  BY DEF ReaderStops, DnInv, DnTyped
<1>2. polls \subseteq polls /\ \A y \in polls : y \notin polls => y.ph # "hand"
  OBVIOUS
<1> QED BY <1>1, <1>2, Cancels, Zenon

\* An unnumbered poll is sent when the reader waits for none.
LEMMA PollSerialStep == ASSUME DnInv, PollSerial PROVE DnInv'
<1> DEFINE max == IF Agent /\ downWindow THEN Min({downMax, LaneZeroMax}) ELSE downMax
<1>1. /\ ~Windowed /\ Lives = {} /\ polls' = polls \cup {NewPoll(0, ackSeq, max)}
      /\ UNCHANGED <<relay, reader>>
  BY Zenon DEF PollSerial
<1>2. max \in Nat \ {0}
  <2>1. downMax \in Nat \ {0} /\ LaneZeroMax \in Nat \ {0}
    BY DownConstants DEF DnInv, DnTyped
  <2>2. Min({downMax, LaneZeroMax}) \in {downMax, LaneZeroMax}
    <3>1. {downMax, LaneZeroMax} \in SUBSET Nat /\ {downMax, LaneZeroMax} # {}
      BY <2>1
    <3> QED BY <3>1, MinOf, Zenon
  <2> QED BY <2>1, <2>2
<1> HIDE DEF max
<1>q. PICK q : q = NewPoll(0, ackSeq, max)
  OBVIOUS
<1>3. q \in PollRecords /\ q.live /\ q.want = 0 /\ q.ack = ackSeq /\ q.ph = "net"
  <2>1. 0 \in Nat /\ ackSeq \in Nat
    BY DEF DnInv, DnTyped
  <2> QED BY <2>1, <1>2, <1>q, NewPollFact
<1>4. polls' = polls \cup {q}
  BY <1>1, <1>q, Zenon
<1>5. \A x \in polls : ~x.live
  BY <1>1 DEF Lives
<1>u. /\ pushed' = pushed /\ ch' = ch /\ head' = head /\ qdone' = qdone /\ gone' = gone /\ seq' = seq
      /\ assigned' = assigned
      /\ ackSeq' = ackSeq /\ downMax' = downMax /\ batch' = batch /\ received' = received /\ ended' = ended
  BY <1>1 DEF relay, reader
<1>6. DnTyped'
  BY <1>u DEF DnInv, DnTyped
<1>7. DnPolls'
  <2>1. ASSUME NEW x \in polls PROVE PollOk(x)' /\ ~x.live
    BY <1>5, <1>u DEF DnInv, DnPolls, PollOk, Before
  <2>2. PollOk(q)'
    BY <1>3, <1>u DEF PollOk, HasTurn, DnInv, DnTyped
  <2>3. LiveOk(q)'
    BY <1>1, <1>3, <1>u DEF LiveOk, Windowed, NoBatch
  <2> QED BY <2>1, <2>2, <2>3, <1>4 DEF DnPolls
<1>8. DnOne'
  BY <1>3, <1>4, <1>5 DEF DnInv, DnOne, HasTurn
<1>9. DnBatch'
  BY <1>u DEF DnInv, DnBatch, Windowed, NoBatch
<1>10. \E at, c : Placed(at, c)'
  <2>1. PICK at, c : Placed(at, c)
    BY DEF DnInv
  <2>2. Queued' = Queued
    BY <1>u DEF Queued
  <2>3. NoHand' => NoHand
    BY <1>4 DEF NoHand
  <2>4. \A x \in polls' : x.ph = "hand" => at[seq] < c[0] /\ x.data = Bytes(at[seq], c[0])
    BY <2>1, <1>3, <1>4 DEF Placed
  <2>5. Placed(at, c)'
    BY <2>1, <2>2, <2>3, <2>4, <1>u, Zenon DEF Placed
  <2> QED BY <2>5
<1> QED BY <1>6, <1>7, <1>8, <1>9, <1>10 DEF DnInv


\* Read takes the answer to p.
Takes(p) ==
    /\ Expected(p) /\ p.ph = "answer" /\ p.st = 200
    /\ ackSeq' = p.seq /\ received' = received \o p.data /\ downMax' \in Nat \ {0}
    /\ UNCHANGED <<relay, ended>>

\* What the reader takes is the chunk after the last one it has.
LEMMA ReadNext ==
    ASSUME DnInv, NEW p \in polls, Expected(p), p.ph = "answer", p.st = 200
    PROVE  /\ p.seq = ackSeq + 1 /\ p.seq \in Nat /\ p.seq <= seq /\ p.seq > ackSeq
           /\ p.data = assigned[p.seq] /\ p.live
           /\ IF Windowed THEN p.want = ackSeq + 1 ELSE p.want = 0
<1>1. p.live /\ p.want = batch.next
  BY DEF Expected
<1>2. /\ Served(p) /\ p.seq \in (ackSeq + 1)..seq /\ p.seq > ackSeq
      /\ (p.seq = ackSeq + 1 \/ Windowed)
  BY <1>1, ServedFact, Zenon
<1>3. ackSeq \in Nat /\ seq \in Nat
  BY DEF DnInv, DnTyped
<1>4. CASE Windowed
  <2>1. p.want = ackSeq + 1
    BY <1>1, <1>4 DEF DnInv, DnBatch
  <2> QED BY <1>1, <1>2, <1>3, <1>4, <2>1 DEF Served
<1>5. CASE ~Windowed
  <2>1. p.want = 0
    BY <1>1, <1>5 DEF DnInv, DnPolls, LiveOk
  <2> QED BY <1>1, <1>2, <1>3, <1>5, <2>1 DEF Served
<1> QED BY <1>4, <1>5

\* The chunk moves from the relay's table to the bytes received; the other polls
\* only have older acknowledgements than before.
LEMMA ReadMoves ==
    ASSUME DnInv, NEW p \in polls, Takes(p),
           \A x \in polls' : x.ph = "hand" => \E y \in polls : y.ph = "hand" /\ x.data = y.data,
           NoHand' => NoHand
    PROVE  /\ DnTyped'
           /\ \A x \in polls : PollOk(x)' /\ (HasTurn(x) => x.want # 0)
           /\ \E at, c : Placed(at, c)'
<1>u. /\ pushed' = pushed /\ ch' = ch /\ head' = head /\ qdone' = qdone /\ gone' = gone /\ seq' = seq
      /\ assigned' = assigned /\ ended' = ended
  BY DEF relay, Takes
<1>1. /\ p.seq = ackSeq + 1 /\ p.seq \in Nat /\ p.seq <= seq /\ p.seq > ackSeq
      /\ p.data = assigned[p.seq] /\ ackSeq' = ackSeq + 1 /\ received' = received \o p.data
      /\ downMax' \in Nat \ {0}
  BY ReadNext, Zenon DEF Takes
<1>2. ackSeq \in Nat /\ seq \in Nat
  BY DEF DnInv, DnTyped
<1>3. DnTyped'
  BY <1>1, <1>2, <1>u DEF DnInv, DnTyped
<1>4. ASSUME NEW x \in polls PROVE PollOk(x)' /\ (HasTurn(x) => x.want # 0)
  <2>1. PollOk(x) /\ x.ack \in Nat
    BY DEF DnInv, DnPolls, PollOk, PollRecords
  <2>2. HasTurn(x) => x.want # 0
    BY <1>1, <1>2, <2>1 DEF PollOk, Before
  <2>3. x.ack <= ackSeq'
    BY <1>1, <1>2, <2>1 DEF PollOk
  <2>4. HasTurn(x) => seq' = Before(x)'
    BY <2>1, <2>2, <1>u DEF PollOk, Before
  <2> QED BY <2>1, <2>2, <2>3, <2>4, <1>u DEF PollOk
<1>5. PICK at, c : Placed(at, c)
  BY DEF DnInv
<1>6. received' = Bytes(0, at[ackSeq'])
  <2>1. ackSeq + 1 \in (ackSeq + 1)..seq /\ (ackSeq + 1) - 1 = ackSeq
    BY <1>1, <1>2
  <2>2. /\ at[(ackSeq + 1) - 1] < at[ackSeq + 1]
        /\ assigned[ackSeq + 1] = Bytes(at[(ackSeq + 1) - 1], at[ackSeq + 1])
        /\ received = Bytes(0, at[ackSeq]) /\ at \in [Nat -> Nat]
    BY <1>5, <2>1 DEF Placed
  <2>3. at[ackSeq] \in Nat /\ at[ackSeq + 1] \in Nat /\ at[ackSeq] < at[ackSeq + 1]
    BY <2>1, <2>2, <1>2
  <2>4. 0 \in Nat /\ 0 <= at[ackSeq] /\ at[ackSeq] <= at[ackSeq + 1]
    BY <2>3
  <2>5. Bytes(0, at[ackSeq]) \o Bytes(at[ackSeq], at[ackSeq + 1]) = Bytes(0, at[ackSeq + 1])
    BY <2>3, <2>4, BytesJoin
  <2>6. p.data = Bytes(at[ackSeq], at[ackSeq + 1])
    BY <1>1, <2>1, <2>2, Zenon
  <2> QED BY <1>1, <2>2, <2>5, <2>6, Zenon
<1>7. Placed(at, c)'
  <2>1. Queued' = Queued
    BY <1>u DEF Queued
  <2>2. \A k \in (ackSeq' + 1)..seq' : /\ k \in DOMAIN assigned' /\ at[k - 1] < at[k]
                                       /\ assigned'[k] = Bytes(at[k - 1], at[k])
    <3>1. \A k \in (ackSeq' + 1)..seq' : k \in (ackSeq + 1)..seq
      BY <1>1, <1>2, <1>u
    <3> QED BY <3>1, <1>5, <1>u, Zenon DEF Placed
  <2>3. \A x \in polls' : x.ph = "hand" => at[seq'] < c[0] /\ x.data = Bytes(at[seq'], c[0])
    <3>1. SUFFICES ASSUME NEW x \in polls', x.ph = "hand"
                   PROVE  at[seq'] < c[0] /\ x.data = Bytes(at[seq'], c[0])
      OBVIOUS
    <3>2. PICK y \in polls : y.ph = "hand" /\ x.data = y.data
      BY <3>1
    <3> QED BY <1>5, <1>u, <3>2 DEF Placed
  <2>4. NoHand' => c[0] = at[seq']
    BY <1>5, <1>u DEF Placed
  <2>5. Cut(Queued', c) /\ c[Len(Queued')] = pushed' /\ at \in [Nat -> Nat]
    BY <1>5, <1>u, <2>1, Zenon DEF Placed
  <2> QED BY <1>6, <2>2, <2>3, <2>4, <2>5, Zenon DEF Placed
<1> QED BY <1>3, <1>4, <1>7

\* The window closes, or was not open.
LEMMA ReadCancels ==
    ASSUME DnInv, NEW p \in polls, Takes(p),
           batch' = NoBatch, NEW P, P \subseteq polls,
           \A y \in polls : y \notin P => y.ph # "hand", polls' = Cancelled(P)
    PROVE  DnInv'
<1>1. /\ \A x \in polls' : \E y \in P :
            /\ x \in PollRecords /\ ~x.live
            /\ x.want = y.want /\ x.ack = y.ack /\ x.ph = y.ph /\ x.data = y.data
            /\ x = (IF y.live THEN [y EXCEPT !.live = FALSE] ELSE y)
      /\ \A y \in P : y.ph = "hand" => \E x \in polls' : x.ph = "hand"
  BY CancelledFact, Zenon
<1>2. ASSUME NEW x \in polls', x.ph = "hand" PROVE \E y \in polls : y.ph = "hand" /\ x.data = y.data
  <2>1. PICK y \in P : x.ph = y.ph /\ x.data = y.data
    BY <1>1, Zenon
  <2> QED BY <2>1, <1>2
<1>3. NoHand' => NoHand
  BY <1>1 DEF NoHand
<1>4. /\ DnTyped' /\ \E at, c : Placed(at, c)'
      /\ \A x \in polls : PollOk(x)' /\ (HasTurn(x) => x.want # 0)
  BY <1>2, <1>3, ReadMoves, Zenon
<1>u. head' = head /\ seq' = seq
  BY DEF relay, Takes
<1>5. DnPolls'
  <2>1. SUFFICES ASSUME NEW x \in polls' PROVE PollOk(x)' /\ ~x.live
    BY Zenon DEF DnPolls
  <2>2. PICK y \in P : x \in PollRecords /\ ~x.live /\ x.want = y.want /\ x.ack = y.ack /\ x.ph = y.ph
    BY <1>1, Zenon
  <2>3. PollOk(y)'
    BY <1>4
  <2> QED BY <2>2, <2>3 DEF PollOk, HasTurn, Before
<1>6. DnOne'
  <2>1. SUFFICES ASSUME NEW x \in polls', NEW z \in polls',
                        (x.live /\ z.live /\ x.want = z.want) \/ (HasTurn(x) /\ HasTurn(z))
                 PROVE  x = z
    BY Zenon DEF DnOne, HasTurn
  <2>2. PICK y \in P : ~x.live /\ x.ph = y.ph /\ x = (IF y.live THEN [y EXCEPT !.live = FALSE] ELSE y)
    BY <1>1, Zenon
  <2>3. PICK w \in P : ~z.live /\ z.ph = w.ph /\ z = (IF w.live THEN [w EXCEPT !.live = FALSE] ELSE w)
    BY <1>1, Zenon
  <2>4. HasTurn(y) /\ HasTurn(w)
    BY <2>1, <2>2, <2>3 DEF HasTurn
  <2>5. y = w
    BY <2>4 DEF DnInv, DnOne
  <2> QED BY <2>2, <2>3, <2>5, Zenon
<1>7. DnBatch'
  BY DEF DnBatch, Windowed, NoBatch
<1> QED BY <1>4, <1>5, <1>6, <1>7 DEF DnInv

\* The polls that N adds to a window that runs on from the chunk after the next.
Extends(N, p, b) ==
    /\ \A n \in N : /\ n \in PollRecords /\ n.live /\ n.ph = "net" /\ n.ack = p.seq
                    /\ n.want > n.ack /\ n.want - n.ack <= Window /\ n.want \in b.next..b.end
    /\ \A m, n \in N : m.want = n.want => m = n
    /\ \A x \in polls \ {p} : x.live => /\ x.want \in b.next..b.end
                                        /\ \A n \in N : n.want # x.want

LEMMA ReadExtends ==
    ASSUME DnInv, NEW p \in polls, Takes(p),
           NEW b, batch' = b, b \in [next : Nat, end : Nat], b.next = p.seq + 1, b.end <= p.seq + Window,
           NEW N, polls' = (polls \ {p}) \cup N, Extends(N, p, b)
    PROVE  DnInv'
<1>1. /\ p.seq = ackSeq + 1 /\ p.seq \in Nat /\ p.seq <= seq /\ p.live
      /\ IF Windowed THEN p.want = ackSeq + 1 ELSE p.want = 0
      /\ ackSeq' = p.seq
  BY ReadNext, Zenon DEF Takes
<1>2. /\ DnTyped' /\ \E at, c : Placed(at, c)'
      /\ \A x \in polls : PollOk(x)' /\ (HasTurn(x) => x.want # 0)
  <2>1. \A x \in polls' : x.ph = "hand" => \E y \in polls : y.ph = "hand" /\ x.data = y.data
    BY DEF Extends
  <2>2. NoHand' => NoHand
    <3>1. p.ph # "hand"
      BY DEF Takes
    <3> QED BY <3>1 DEF NoHand
  <2> QED BY <2>1, <2>2, ReadMoves, Zenon
<1>u. /\ head' = head /\ seq' = seq /\ qdone' = qdone /\ ch' = ch /\ assigned' = assigned
  BY DEF relay, Takes
<1>3. Windowed'
  BY <1>1 DEF Windowed, NoBatch
<1>4. DnPolls'
  <2>1. ASSUME NEW x \in polls \ {p} PROVE PollOk(x)' /\ (x.live => LiveOk(x)')
    <3>1. ASSUME x.live PROVE LiveOk(x)'
      <4>1. LiveOk(x) /\ x.want \in Nat /\ x.want \in b.next..b.end
        <5>1. LiveOk(x) /\ x.want \in Nat
          BY <3>1 DEF DnInv, DnPolls, PollOk, PollRecords
        <5>2. x.want \in b.next..b.end
          BY <3>1 DEF Extends
        <5> QED BY <5>1, <5>2
      <4>2. x.want # 0
        BY <4>1, <1>1
      <4>3. Served(x) => Served(x)'
        BY <4>2, <1>u DEF Served
      <4>4. ToldEnd(x) => ToldEnd(x)'
        <5>1. NoHand => NoHand'
          BY DEF NoHand, Extends
        <5> QED BY <4>2, <5>1, <1>u DEF ToldEnd, Before
      <4> QED BY <4>1, <4>3, <4>4, <1>3 DEF LiveOk
    <3> QED BY <1>2, <3>1
  <2>2. ASSUME NEW n \in N PROVE PollOk(n)' /\ LiveOk(n)'
    <3>1. /\ n \in PollRecords /\ n.live /\ n.ph = "net" /\ n.ack = p.seq
          /\ n.want > n.ack /\ n.want - n.ack <= Window /\ n.want \in b.next..b.end
      BY DEF Extends
    <3>2. PollOk(n)'
      BY <1>1, <3>1 DEF PollOk, HasTurn
    <3>3. LiveOk(n)'
      BY <1>3, <3>1 DEF LiveOk
    <3> QED BY <3>2, <3>3
  <2> QED BY <2>1, <2>2 DEF DnPolls
<1>5. DnOne'
  <2>1. \A n \in N : ~HasTurn(n)
    BY DEF Extends, HasTurn
  <2>2. SUFFICES ASSUME NEW x \in polls', NEW z \in polls',
                        (x.live /\ z.live /\ x.want = z.want) \/ (HasTurn(x) /\ HasTurn(z))
                 PROVE  x = z
    BY Zenon DEF DnOne, HasTurn
  <2>3. CASE x \in polls \ {p} /\ z \in polls \ {p}
    BY <2>2, <2>3 DEF DnInv, DnOne
  <2>4. CASE x \in N /\ z \in N
    BY <2>1, <2>2, <2>4 DEF Extends
  <2>5. ASSUME NEW a \in polls \ {p}, NEW n \in N,
               (a.live /\ n.live /\ a.want = n.want) \/ (HasTurn(a) /\ HasTurn(n))
        PROVE  FALSE
    BY <2>1, <2>5 DEF Extends
  <2> QED BY <2>2, <2>3, <2>4, <2>5
<1>6. DnBatch'
  BY <1>1 DEF DnBatch
<1> QED BY <1>2, <1>4, <1>5, <1>6 DEF DnInv


\* What the reader asks for next stays positive.
LEMMA AskedMax ==
    ASSUME DnInv, NEW n \in Nat, NEW took
    PROVE  /\ AdjustDownMax(n, took) \in Nat \ {0}
           /\ Min({AdjustDownMax(n, took), BatchMax}) \in Nat \ {0}
<1>1. downMax \in Nat \ {0}
  BY DEF DnInv, DnTyped
<1>2. \A i, j \in Nat \ {0} : Min({i, j}) \in Nat \ {0}
  <2>1. SUFFICES ASSUME NEW i \in Nat \ {0}, NEW j \in Nat \ {0} PROVE Min({i, j}) \in Nat \ {0}
    OBVIOUS
  <2>2. {i, j} \in SUBSET Nat /\ {i, j} # {}
    OBVIOUS
  <2>3. Min({i, j}) \in {i, j}
    BY <2>2, MinOf, Zenon
  <2> QED BY <2>3
<1>3. Max({downMax \div 2, DownMaxFloor}) \in Nat \ {0}
  <2>1. downMax \div 2 \in Nat /\ DownMaxFloor \in Nat \ {0}
    BY <1>1, DownConstants
  <2>2. PICK i \in Nat : i = downMax \div 2
    BY <2>1
  <2>3. \E x \in {i, DownMaxFloor} : \A y \in {i, DownMaxFloor} : x >= y
    BY <2>1, <2>2
  <2>4. /\ Max({i, DownMaxFloor}) \in {i, DownMaxFloor}
        /\ \A y \in {i, DownMaxFloor} : Max({i, DownMaxFloor}) >= y
    BY <2>3, Zenon DEF Max
  <2>5. Max({i, DownMaxFloor}) >= DownMaxFloor
    BY <2>4
  <2>6. Max({i, DownMaxFloor}) \in Nat \ {0}
    BY <2>1, <2>2, <2>4, <2>5
  <2> QED BY <2>2, <2>6
<1>4. Min({downMax * 2, DownMaxCeiling}) \in Nat \ {0}
  <2>1. downMax * 2 \in Nat \ {0} /\ DownMaxCeiling \in Nat \ {0}
    BY <1>1, DownConstants
  <2> QED BY <2>1, <1>2
<1>5. AdjustDownMax(n, took) \in Nat \ {0}
  <2>1. CASE took = "slow"
    BY <2>1, <1>3 DEF AdjustDownMax
  <2>2. CASE took # "slow" /\ took = "fast" /\ n >= downMax
    BY <2>2, <1>4 DEF AdjustDownMax
  <2>3. CASE took # "slow" /\ ~(took = "fast" /\ n >= downMax)
    BY <2>3, <1>1 DEF AdjustDownMax
  <2> QED BY <2>1, <2>2, <2>3
<1>6. BatchMax \in Nat \ {0}
  BY DownConstants
<1> QED BY <1>2, <1>5, <1>6

\* A window moves on by one number.
LEMMA BatchMoves ==
    ASSUME NEW b \in [next : Nat, end : Nat], NEW d, d = [b EXCEPT !.next = @ + 1]
    PROVE  d \in [next : Nat, end : Nat] /\ d.next = b.next + 1 /\ d.end = b.end
OBVIOUS

LEMMA ReadChunkStep == ASSUME DnInv, NEW p \in polls, NEW took, ReadChunk(p, took) PROVE DnInv'
<1> DEFINE max == Min({downMax', BatchMax})
           w == NextWindow(p, max)
           rest == polls \ {p}
<1>1. Expected(p) /\ p.ph = "answer" /\ p.st = 200
  BY DEF ReadChunk
<1>2. /\ p.seq = ackSeq + 1 /\ p.seq \in Nat /\ p.seq <= seq /\ p.seq > ackSeq /\ p.live
      /\ IF Windowed THEN p.want = ackSeq + 1 ELSE p.want = 0
  BY <1>1, ReadNext, Zenon
<1>3. downMax' \in Nat \ {0} /\ max \in Nat \ {0}
  <2>1. p.data \in Seq(Nat)
    BY DEF DnInv, DnPolls, PollOk, PollRecords
  <2>2. Len(p.data) \in Nat
    BY <2>1
  <2>3. downMax' = AdjustDownMax(Len(p.data), took)
    BY DEF ReadChunk
  <2> QED BY <2>2, <2>3, AskedMax, Zenon
<1>4. /\ ackSeq' = p.seq /\ received' = received \o p.data /\ batch' = w.b
      /\ polls' = (IF w.b = NoBatch THEN Cancelled(rest) ELSE rest) \cup w.new
      /\ UNCHANGED <<relay, ended>>
  BY <1>2, Zenon DEF ReadChunk
<1>5. Takes(p)
  BY <1>1, <1>3, <1>4 DEF Takes
<1>6. \A y \in polls : y \notin rest => y.ph # "hand"
  BY <1>1
<1>7. \A x \in rest : x.live => /\ x.want \in Nat /\ x.want # p.want
                                /\ Windowed /\ x.want \in batch.next..batch.end
  <2>1. SUFFICES ASSUME NEW x \in rest, x.live
                 PROVE  x.want \in Nat /\ x.want # p.want /\ Windowed /\ x.want \in batch.next..batch.end
    OBVIOUS
  <2>2. x.want \in Nat /\ LiveOk(x)
    BY <2>1 DEF DnInv, DnPolls, PollOk, PollRecords
  <2>3. x.want # p.want
    BY <1>2, <2>1 DEF DnInv, DnOne
  <2>4. Windowed
    BY <1>2, <2>2, <2>3 DEF LiveOk
  <2> QED BY <2>2, <2>3, <2>4 DEF LiveOk
<1>8. Windowed => /\ batch \in [next : Nat, end : Nat] /\ batch.next = p.seq /\ batch.end <= ackSeq + Window
                  /\ p.want = batch.next /\ p.want <= batch.end
  <2>1. LiveOk(p)
    BY <1>2 DEF DnInv, DnPolls
  <2> QED BY <1>2, <2>1 DEF DnInv, DnBatch, LiveOk
<1>9. ackSeq \in Nat /\ Window \in Nat \ {0}
  BY DownConstants DEF DnInv, DnTyped
<1>10. CASE w = [b |-> NoBatch, new |-> {}]
  <2>0. w.b = NoBatch /\ w.new = {}
    BY <1>10
  <2>1. batch' = NoBatch /\ polls' = Cancelled(rest)
    <3> HIDE DEF w, rest
    <3>1. batch' = NoBatch /\ polls' = Cancelled(rest) \cup {}
      BY <1>4, <2>0, Zenon
    <3> QED BY <3>1
  <2>2. rest \subseteq polls
    OBVIOUS
  <2> HIDE DEF w, rest
  <2> QED BY <1>5, <1>6, <2>1, <2>2, ReadCancels, Zenon
<1>11. CASE /\ ~Windowed
            /\ w = [b |-> [next |-> p.seq + 1, end |-> p.seq + Window],
                    new |-> {NewPoll(k, p.seq, max) : k \in (p.seq + 1)..(p.seq + Window)}]
  <2>b. PICK b : b = [next |-> p.seq + 1, end |-> p.seq + Window]
    OBVIOUS
  <2>n. PICK N : N = {NewPoll(k, p.seq, max) : k \in (p.seq + 1)..(p.seq + Window)}
    OBVIOUS
  <2>1. b \in [next : Nat, end : Nat] /\ b.next = p.seq + 1 /\ b.end <= p.seq + Window /\ b.end = p.seq + Window
    BY <2>b, <1>2, <1>9
  <2>2. w.b = b /\ w.new = N
    BY <1>11, <2>b, <2>n
  <2>3. b # NoBatch
    BY <2>1, <1>2 DEF NoBatch
  <2>4. batch' = b /\ polls' = rest \cup N
    BY <1>4, <2>2, <2>3
  <2>5. Extends(N, p, b)
    <3>1. ASSUME NEW n \in N
          PROVE  /\ n \in PollRecords /\ n.live /\ n.ph = "net" /\ n.ack = p.seq
                 /\ n.want \in (p.seq + 1)..(p.seq + Window) /\ n = NewPoll(n.want, p.seq, max)
      <4>1. PICK k \in (p.seq + 1)..(p.seq + Window) : n = NewPoll(k, p.seq, max)
        BY <2>n
      <4>2. k \in Nat
        BY <1>2, <1>9
      <4> HIDE DEF max
      <4>3. n \in PollRecords /\ n.live /\ n.want = k /\ n.ack = p.seq /\ n.ph = "net"
        BY <4>1, <4>2, <1>2, <1>3, NewPollFact
      <4> QED BY <4>1, <4>3
    <3>2. \A m, n \in N : m.want = n.want => m = n
      BY <3>1, Zenon
    <3>3. \A n \in N : n.want > n.ack /\ n.want - n.ack <= Window /\ n.want \in b.next..b.end
      BY <3>1, <2>1, <1>2, <1>9
    <3>4. \A x \in rest : ~x.live
      BY <1>7, <1>11
    <3> QED BY <3>1, <3>2, <3>3, <3>4 DEF Extends
  <2> HIDE DEF w
  <2> QED BY <1>5, <2>1, <2>4, <2>5, ReadExtends, Zenon
<1>12. CASE /\ Windowed
            /\ w = [b |-> [next |-> batch.next + 1, end |-> batch.end + 1],
                    new |-> {NewPoll(batch.end + 1, p.seq, max)}]
  <2>b. PICK b : b = [next |-> batch.next + 1, end |-> batch.end + 1]
    OBVIOUS
  <2>n. PICK n : n = NewPoll(batch.end + 1, p.seq, max)
    OBVIOUS
  <2>1. /\ b \in [next : Nat, end : Nat] /\ b.next = p.seq + 1 /\ b.end <= p.seq + Window
        /\ b.end = batch.end + 1 /\ batch.end \in Nat
    BY <2>b, <1>2, <1>8, <1>9, <1>12
  <2>2. w.b = b /\ w.new = {n}
    BY <1>12, <2>b, <2>n
  <2>3. b # NoBatch
    BY <2>1, <1>2 DEF NoBatch
  <2>4. batch' = b /\ polls' = rest \cup {n}
    BY <1>4, <2>2, <2>3
  <2>5. Extends({n}, p, b)
    <3>1. n \in PollRecords /\ n.live /\ n.want = batch.end + 1 /\ n.ack = p.seq /\ n.ph = "net"
      <4>1. batch.end + 1 \in Nat
        BY <2>1
      <4> HIDE DEF max
      <4> QED BY <4>1, <2>n, <1>2, <1>3, NewPollFact
    <3>2. n.want > n.ack /\ n.want - n.ack <= Window /\ n.want \in b.next..b.end
      BY <3>1, <2>1, <1>2, <1>8, <1>9, <1>12
    <3>3. ASSUME NEW x \in rest, x.live PROVE x.want \in b.next..b.end /\ n.want # x.want
      <4>1. x.want \in Nat /\ x.want # p.want /\ x.want \in batch.next..batch.end
        BY <1>7, <3>3
      <4> QED BY <4>1, <3>1, <2>1, <1>2, <1>8, <1>12
    <3> QED BY <3>1, <3>2, <3>3 DEF Extends
  <2> HIDE DEF w
  <2> QED BY <1>5, <2>1, <2>4, <2>5, ReadExtends, Zenon
<1>13. CASE /\ Windowed /\ w = [b |-> [batch EXCEPT !.next = @ + 1], new |-> {}]
  <2>b. PICK b : b = [batch EXCEPT !.next = @ + 1]
    OBVIOUS
  <2>0. b \in [next : Nat, end : Nat] /\ b.next = batch.next + 1 /\ b.end = batch.end
    BY <2>b, <1>8, <1>13, BatchMoves, Zenon
  <2>1. /\ b \in [next : Nat, end : Nat] /\ b.next = p.seq + 1 /\ b.end <= p.seq + Window
        /\ b.end = batch.end /\ batch.end \in Nat
    BY <2>0, <1>2, <1>8, <1>9, <1>13
  <2>2. w.b = b /\ w.new = {}
    BY <1>13, <2>b
  <2>3. b # NoBatch
    BY <2>1, <1>2 DEF NoBatch
  <2>4. batch' = b /\ polls' = rest \cup {}
    BY <1>4, <2>2, <2>3
  <2>5. Extends({}, p, b)
    <3>3. ASSUME NEW x \in rest, x.live PROVE x.want \in b.next..b.end
      <4>1. x.want \in Nat /\ x.want # p.want /\ x.want \in batch.next..batch.end
        BY <1>7, <3>3
      <4> QED BY <4>1, <2>1, <1>2, <1>8, <1>13
    <3> QED BY <3>3 DEF Extends
  <2> HIDE DEF w
  <2> QED BY <1>5, <2>1, <2>4, <2>5, ReadExtends, Zenon
<1>14. \/ w = [b |-> NoBatch, new |-> {}]
       \/ /\ ~Windowed
          /\ w = [b |-> [next |-> p.seq + 1, end |-> p.seq + Window],
                  new |-> {NewPoll(k, p.seq, max) : k \in (p.seq + 1)..(p.seq + Window)}]
       \/ /\ Windowed
          /\ w = [b |-> [next |-> batch.next + 1, end |-> batch.end + 1],
                  new |-> {NewPoll(batch.end + 1, p.seq, max)}]
       \/ /\ Windowed /\ w = [b |-> [batch EXCEPT !.next = @ + 1], new |-> {}]
  <2> HIDE DEF max
  <2>1. p.max \in Nat /\ Len(p.data) \in Nat
    BY DEF DnInv, DnPolls, PollOk, PollRecords
  <2>2. CASE Windowed /\ Len(p.data) < p.max
    BY <2>2 DEF NextWindow
  <2>3. CASE ~Windowed /\ Len(p.data) = p.max
    BY <2>3 DEF NextWindow
  <2>4. CASE Windowed /\ Len(p.data) = p.max
    BY <2>4, <2>1 DEF NextWindow
  <2>5. CASE Windowed /\ Len(p.data) > p.max
    BY <2>5, <2>1 DEF NextWindow
  <2>6. CASE ~Windowed /\ Len(p.data) # p.max
    BY <2>6, <2>1 DEF NextWindow
  <2> QED BY <2>1, <2>2, <2>3, <2>4, <2>5, <2>6
<1> QED BY <1>10, <1>11, <1>12, <1>13, <1>14


-----------------------------------------------------------------------------
(* The theorems *)

LEMMA DnInit == Init => DnInv
<1> SUFFICES ASSUME Init PROVE DnInv
  OBVIOUS
<1>1. << >> \in Seq(Seq(Nat)) /\ << >> \in Seq(Nat) /\ Len(<< >>) = 0
  OBVIOUS
<1>2. DnTyped
  BY <1>1, DownConstants DEF Init, DnTyped
<1>3. DnPolls /\ DnOne /\ NoHand
  BY DEF Init, DnPolls, DnOne, NoHand
<1>4. DnBatch
  BY DEF Init, DnBatch, NoBatch, Windowed
<1>5. \E at, c : Placed(at, c)
  <2>1. PICK z : z = [i \in Nat |-> 0]
    OBVIOUS
  <2>2. z \in [Nat -> Nat] /\ \A i \in Nat : z[i] = 0
    BY <2>1
  <2>3. Queued = << >> /\ Len(Queued) = 0
    BY <1>1 DEF Queued, Init
  <2>4. Cut(Queued, z)
    BY <1>1, <2>2, <2>3 DEF Cut
  <2>5. Bytes(0, 0) = << >>
    BY BytesNone
  <2>6. received = << >> /\ ackSeq = 0 /\ seq = 0 /\ pushed = 0 /\ polls = {}
    BY DEF Init
  <2>7. received = Bytes(0, z[ackSeq]) /\ z[Len(Queued)] = pushed /\ z[0] = z[seq]
    BY <2>2, <2>3, <2>5, <2>6
  <2>8. \A k \in (ackSeq + 1)..seq : FALSE
    BY <2>6
  <2> QED BY <2>2, <2>4, <2>6, <2>7, <2>8, Zenon DEF Placed
<1> QED BY <1>2, <1>3, <1>4, <1>5 DEF DnInv

LEMMA DnNext == DnInv /\ [Next]_vars => DnInv'
<1> SUFFICES ASSUME DnInv, [Next]_vars PROVE DnInv'
  OBVIOUS
<1>1. CASE RelayWork
  BY <1>1, ArriveStep, TakeUpToStep, TakeWindowStep, ChangedStep, AcquireStep, ParkedTakesStep,
     ParkedClosesStep, AssignStep, Zenon DEF RelayWork
<1>2. CASE ReaderWork
  BY <1>2, PollSerialStep, ReadChunkStep, ReadEmptyStep, ReadEndsStep, Zenon DEF ReaderWork
<1>3. CASE Environment
  BY <1>3, PushStep, CloseQueueStep, ReaderStopsStep, GiveUpStep, VanishStep, CarrierFailsStep, Zenon
  DEF Environment, TimerWork
<1>4. CASE UNCHANGED vars
  <2>1. /\ pushed' = pushed /\ ch' = ch /\ head' = head /\ qdone' = qdone /\ gone' = gone /\ seq' = seq
        /\ assigned' = assigned /\ polls' = polls
        /\ ackSeq' = ackSeq /\ downMax' = downMax /\ batch' = batch /\ received' = received /\ ended' = ended
    BY <1>4 DEF vars
  <2>2. DnTyped' /\ DnOne' /\ DnBatch'
    BY <2>1 DEF DnInv, DnTyped, DnOne, DnBatch, Windowed, NoBatch
  <2>3. DnPolls'
    <3>1. ASSUME NEW x \in polls PROVE PollOk(x)' /\ (x.live => LiveOk(x)')
      <4>1. PollOk(x) /\ (x.live => LiveOk(x))
        BY DEF DnInv, DnPolls
      <4>2. PollOk(x)'
        BY <4>1, <2>1 DEF PollOk, Before
      <4>3. LiveOk(x) => LiveOk(x)'
        BY <2>1 DEF LiveOk, Windowed, NoBatch, Served, ToldEnd, NoHand, Before
      <4> QED BY <4>1, <4>2, <4>3
    <3> QED BY <3>1, <2>1, Zenon DEF DnPolls
  <2>4. \E at, c : Placed(at, c)'
    <3>1. PICK at, c : Placed(at, c)
      BY DEF DnInv
    <3>2. Queued' = Queued
      BY <2>1 DEF Queued
    <3> QED BY <3>1, <3>2, <2>1, Zenon DEF Placed, NoHand
  <2> QED BY <2>2, <2>3, <2>4 DEF DnInv
<1> QED BY <1>1, <1>2, <1>3, <1>4 DEF Next

\* The relay's numbers, the polls under way and the reader's window agree, and
\* every byte has its place, however polls are lost, repeated and abandoned
\* (sideQueue, downPoll).
THEOREM ChunksInvariant == Spec => []DnInv
BY DnInit, DnNext, PTL DEF Spec

\* WantInWindow: the reader never asks for a chunk that handleHDown would refuse
\* ("bad want"): extendBatch numbers a poll from the window's end, and its
\* acknowledgement is the chunk just read.
THEOREM NeverBadWant == Spec => []WantInWindow
<1>1. DnInv => WantInWindow
  BY DEF DnInv, DnPolls, PollOk, WantInWindow
<1> QED BY <1>1, ChunksInvariant, PTL

LEMMA FunctionLong ==
    ASSUME NEW B, NEW n \in Nat, NEW f \in [1..n -> B]
    PROVE  f \in Seq(B) /\ Len(f) = n
<1>1. f \in Seq(B)
  BY SeqDef
<1>2. DOMAIN f = 1..n
  OBVIOUS
<1>3. DOMAIN f = 1..Len(f) /\ Len(f) \in Nat
  BY <1>1, LenProperties
<1> QED BY <1>1, <1>2, <1>3

\* What the definition of NothingLost puts together.
LEMMA InHandFact ==
    ASSUME DnInv, NEW a \in Nat, NEW h \in Nat, a <= h, NoHand => h = a,
           \A p \in polls : p.ph = "hand" => p.data = Bytes(a, h)
    PROVE  InHand = Bytes(a, h)
<1> DEFINE S == {p.data : p \in {q \in polls : q.ph = "hand"}}
<1>1. CASE NoHand
  <2>1. S = {}
    BY <1>1 DEF NoHand
  <2>2. Cardinality(S) = 0
    BY <2>1, FS_EmptySet, Zenon
  <2>3. SetToSeq(S) \in [1..0 -> S]
    <3>1. \E f \in [1..0 -> S] : IsInjective(f)
      <4>1. [i \in 1..0 |-> i] \in [1..0 -> S]
        OBVIOUS
      <4>2. IsInjective([i \in 1..0 |-> i])
        BY DEF IsInjective
      <4> QED BY <4>1, <4>2
    <3> QED BY <3>1, <2>2, Zenon DEF SetToSeq
  <2>4. Len(SetToSeq(S)) = 0 /\ SetToSeq(S) = << >>
    BY <2>3, <2>1
  <2>5. InHand = << >>
    BY <2>4 DEF InHand, FlattenSeq
  <2>6. Bytes(a, h) = << >>
    BY <1>1, BytesNone
  <2> QED BY <2>5, <2>6
<1>2. CASE ~NoHand
  <2>1. S = {Bytes(a, h)}
    BY <1>2 DEF NoHand
  <2>2. Cardinality(S) = 1
    BY <2>1, FS_Singleton, Zenon
  <2>3. SetToSeq(S) \in [1..1 -> S]
    <3>1. \E f \in [1..1 -> S] : IsInjective(f)
      <4>1. [i \in 1..1 |-> Bytes(a, h)] \in [1..1 -> S]
        BY <2>1
      <4>2. IsInjective([i \in 1..1 |-> Bytes(a, h)])
        BY DEF IsInjective
      <4> QED BY <4>1, <4>2
    <3> QED BY <3>1, <2>2, Zenon DEF SetToSeq
  <2>4. Len(SetToSeq(S)) = 1 /\ SetToSeq(S)[1] = Bytes(a, h)
    <3> HIDE DEF S
    <3>1. Len(SetToSeq(S)) = 1
      BY <2>3, FunctionLong
    <3>2. SetToSeq(S)[1] \in S
      BY <2>3
    <3> QED BY <3>1, <3>2, <2>1
  <2> DEFINE Q == SetToSeq(S)
  <2> HIDE DEF S
  <2>5. FlattenSeq(Q) = Bytes(a, h)
    <3> HIDE DEF Q
    <3>1. Len(Q) = 1 /\ Q[1] = Bytes(a, h)
      BY <2>4 DEF Q
    <3> DEFINE E(f) == f = [i \in 1..Len(Q) |-> IF i = 1 THEN Q[i] ELSE f[i - 1] \o Q[i]]
               F == CHOOSE f : E(f)
    <3>2. E([i \in 1..1 |-> Bytes(a, h)])
      BY <3>1
    <3>3. E(F)
      BY <3>2, Zenon
    <3>4. FlattenSeq(Q) = F[Len(Q)]
      BY <3>1 DEF FlattenSeq
    <3>5. F[1] = Q[1]
      <4> HIDE DEF F
      <4> QED BY <3>1, <3>3
    <3> QED BY <3>1, <3>4, <3>5
  <2> QED BY <2>5 DEF InHand, S, Q
<1> QED BY <1>1, <1>2

LEMMA OutstandingFact ==
    ASSUME DnInv, NEW at, NEW c, Placed(at, c)
    PROVE  at[ackSeq] <= at[seq] /\ Outstanding = Bytes(at[ackSeq], at[seq])
<1>1. ackSeq \in Nat /\ seq \in Nat /\ ackSeq <= seq /\ at \in [Nat -> Nat]
      /\ \A k \in (ackSeq + 1)..seq : /\ k \in DOMAIN assigned /\ at[k - 1] < at[k]
                                       /\ assigned[k] = Bytes(at[k - 1], at[k])
  BY DEF DnInv, DnTyped, Placed
<1>2. PICK n \in Nat : n = seq - ackSeq
  BY <1>1
<1>3. PICK d : d = [i \in Nat |-> at[ackSeq + i]]
  OBVIOUS
<1>4. d \in [Nat -> Nat] /\ d[0] = at[ackSeq] /\ d[n] = at[seq]
  BY <1>1, <1>2, <1>3
<1>5. PICK Q : Q = [i \in 1..n |-> IF ackSeq + i \in DOMAIN assigned THEN assigned[ackSeq + i] ELSE << >>]
  OBVIOUS
<1>6. ASSUME NEW i \in 1..n
      PROVE  d[i - 1] < d[i] /\ Q[i] = Bytes(d[i - 1], d[i]) /\ Q[i] \in Seq(Nat)
  <2>1. PICK k \in (ackSeq + 1)..seq : k = ackSeq + i
    BY <1>1, <1>2
  <2>2. d[i] = at[k] /\ d[i - 1] = at[k - 1] /\ d[i] \in Nat /\ d[i - 1] \in Nat
    <3>1. i \in Nat /\ i - 1 \in Nat /\ ackSeq + (i - 1) = k - 1
      BY <1>1, <2>1
    <3> QED BY <1>1, <1>3, <2>1, <3>1
  <2>3. Q[i] = assigned[k]
    BY <1>1, <1>5, <2>1
  <2>4. d[i - 1] < d[i] /\ Q[i] = Bytes(d[i - 1], d[i])
    BY <1>1, <2>1, <2>2, <2>3
  <2>5. Bytes(d[i - 1], d[i]) \in Seq(Nat)
    <3>1. \A u, v \in Nat : u < v => Bytes(u, v) \in Seq(Nat)
      BY BytesSeq
    <3> QED BY <2>2, <2>4, <3>1, Zenon
  <2> QED BY <2>4, <2>5
<1>7. Q \in Seq(Seq(Nat)) /\ Len(Q) = n
  <2>1. Q \in [1..n -> Seq(Nat)]
    BY <1>5, <1>6
  <2> QED BY <2>1, FunctionLong, Zenon
<1>8. Cut(Q, d)
  BY <1>4, <1>6, <1>7 DEF Cut
<1>9. FlattenSeq(Q) = Bytes(at[ackSeq], at[seq])
  BY <1>4, <1>7, <1>8, FlattenCut, Zenon
<1>10. Outstanding = FlattenSeq(Q)
  BY <1>2, <1>5 DEF Outstanding
<1>11. at[ackSeq] <= at[seq]
  <2>1. CASE n = 0
    BY <2>1, <1>1, <1>2
  <2>2. CASE n # 0
    <3>1. n \in 1..Len(Q)
      BY <2>2, <1>7
    <3>2. d[0] < d[n]
      BY <1>8, <3>1, CutGrows, Zenon
    <3> QED BY <3>2, <1>4, <1>1
  <2> QED BY <2>1, <2>2
<1> QED BY <1>9, <1>10, <1>11


\* NothingLost: whatever was pushed is received, kept under its number, in the
\* hand of the poll with the turn or queued, once and in order: takeUpTo and
\* takeWindow serve a chunk again, drainUpTo splits one, a poll with bytes in
\* hand is abandoned, and the reader acknowledges early or late.
THEOREM AllBytesKept == Spec => []NothingLost
<1>1. ASSUME DnInv PROVE NothingLost
  <2>1. PICK at, c : Placed(at, c)
    BY <1>1 DEF DnInv
  <2>2. at \in [Nat -> Nat] /\ ackSeq \in Nat /\ seq \in Nat /\ pushed \in Nat /\ Cut(Queued, c)
        /\ c[Len(Queued)] = pushed /\ received = Bytes(0, at[ackSeq]) /\ (NoHand => c[0] = at[seq])
        /\ \A p \in polls : p.ph = "hand" => at[seq] < c[0] /\ p.data = Bytes(at[seq], c[0])
    BY <1>1, <2>1 DEF DnInv, DnTyped, Placed
  <2>3. PICK u : u = at[ackSeq]
    OBVIOUS
  <2>4. PICK v : v = at[seq]
    OBVIOUS
  <2>5. PICK h : h = c[0]
    OBVIOUS
  <2>6. Len(Queued) \in Nat /\ c \in [Nat -> Nat]
    BY <2>2, CutFacts, Zenon
  <2>7. u \in Nat /\ v \in Nat /\ h \in Nat
    BY <2>2, <2>3, <2>4, <2>5, <2>6
  <2>8. u <= v /\ Outstanding = Bytes(u, v)
    BY <1>1, <2>1, <2>3, <2>4, OutstandingFact, Zenon
  <2>9. v <= h
    <3>1. CASE NoHand
      <4>1. h = v
        BY <3>1, <2>2, <2>4, <2>5, Zenon
      <4> QED BY <4>1, <2>7
    <3>2. CASE ~NoHand
      <4>1. v < h
        BY <3>2, <2>2, <2>4, <2>5 DEF NoHand
      <4> QED BY <4>1, <2>7
    <3> QED BY <3>1, <3>2
  <2>10. InHand = Bytes(v, h)
    <3>1. NoHand => h = v
      BY <2>2, <2>4, <2>5, Zenon
    <3>2. \A p \in polls : p.ph = "hand" => p.data = Bytes(v, h)
      BY <2>2, <2>4, <2>5, Zenon
    <3> QED BY <1>1, <2>7, <2>9, <3>1, <3>2, InHandFact, Zenon
  <2>11. h <= pushed
    <3>1. CASE Len(Queued) = 0
      BY <3>1, <2>2, <2>5
    <3>2. CASE Len(Queued) # 0
      <4>1. Len(Queued) \in 1..Len(Queued)
        BY <3>2, <2>6
      <4>2. c[0] < c[Len(Queued)]
        BY <4>1, <2>2, CutGrows, Zenon
      <4> QED BY <4>2, <2>2, <2>5, <2>7
    <3> QED BY <3>1, <3>2
  <2>12. FlattenSeq(Queued) = Bytes(h, pushed)
    BY <2>2, <2>5, FlattenCut, Zenon
  <2>0. 0 \in Nat /\ 0 <= u /\ 0 <= v /\ 0 <= h
    BY <2>7
  <2>13. Bytes(0, u) \o Bytes(u, v) = Bytes(0, v)
    BY <2>0, <2>7, <2>8, BytesJoin, Zenon
  <2>14. Bytes(0, v) \o Bytes(v, h) = Bytes(0, h)
    BY <2>0, <2>7, <2>9, BytesJoin, Zenon
  <2>15. Bytes(0, h) \o Bytes(h, pushed) = Bytes(0, pushed)
    BY <2>0, <2>2, <2>7, <2>11, BytesJoin, Zenon
  <2>16. Bytes(0, pushed) = [i \in 1..pushed |-> i]
    BY <2>2 DEF Bytes
  <2>17. received \o Outstanding \o InHand \o FlattenSeq(Queued) = Bytes(0, pushed)
    BY <2>2, <2>3, <2>8, <2>10, <2>12, <2>13, <2>14, <2>15, Zenon
  <2> QED BY <2>16, <2>17, Zenon DEF NothingLost
<1> QED BY <1>1, ChunksInvariant, PTL


-----------------------------------------------------------------------------
(* The read half implements the stream of bytes *)

Stutters == UNCHANGED <<pushed, received, ended>>

LEMMA StutterMaps == Stutters => UNCHANGED Stream!sv
BY DEF Stutters, Stream!sv, StreamEnd

\* Chunks end further and further on, and none after the last byte pushed.
LEMMA NumberedGrow ==
    ASSUME NEW at \in [Nat -> Nat], NEW u \in Nat, NEW v \in Nat, u < v,
           \A k \in (u + 1)..v : at[k - 1] < at[k]
    PROVE  at[u + 1] <= at[v]
<1> DEFINE S == {k \in (u + 1)..v : ~(at[u + 1] <= at[k])}
<1>1. SUFFICES ASSUME S # {} PROVE FALSE
  <2>1. v \in (u + 1)..v
    OBVIOUS
  <2> QED BY <2>1
<1>2. S \in SUBSET Nat
  OBVIOUS
<1>3. PICK k \in S : \A j \in S : k <= j
  BY <1>1, <1>2, LeastOf, Zenon
<1>4. k \in (u + 1)..v /\ k \in Nat /\ ~(at[u + 1] <= at[k]) /\ at[u + 1] \in Nat /\ at[k] \in Nat
  BY <1>3
<1>5. k # u + 1
  BY <1>4
<1>6. k - 1 \in (u + 1)..v /\ k - 1 \in Nat /\ at[k - 1] < at[k] /\ at[k - 1] \in Nat
  BY <1>4, <1>5
<1>7. ~(at[u + 1] <= at[k - 1])
  BY <1>4, <1>6
<1>8. k - 1 \in S
  BY <1>6, <1>7
<1> QED BY <1>3, <1>4, <1>8

LEMMA NumberedPushed ==
    ASSUME DnInv, NEW at, NEW c, Placed(at, c)
    PROVE  at[seq] <= pushed
<1>1. at \in [Nat -> Nat] /\ seq \in Nat /\ pushed \in Nat /\ Cut(Queued, c)
      /\ c[Len(Queued)] = pushed /\ (NoHand => c[0] = at[seq])
      /\ \A p \in polls : p.ph = "hand" => at[seq] < c[0]
  BY DEF DnInv, DnTyped, Placed
<1>2. Len(Queued) \in Nat /\ c \in [Nat -> Nat]
  BY <1>1, CutFacts, Zenon
<1>3. at[seq] <= c[0]
  <2>1. at[seq] \in Nat /\ c[0] \in Nat
    BY <1>1, <1>2
  <2>2. at[seq] < c[0] \/ c[0] = at[seq]
    BY <1>1 DEF NoHand
  <2> QED BY <2>1, <2>2
<1>4. c[0] <= pushed
  <2>1. CASE Len(Queued) = 0
    BY <2>1, <1>1
  <2>2. CASE Len(Queued) # 0
    <3>1. Len(Queued) \in 1..Len(Queued)
      BY <2>2, <1>2
    <3>2. c[0] < c[Len(Queued)]
      BY <3>1, <1>1, CutGrows, Zenon
    <3> QED BY <3>2, <1>1, <1>2
  <2> QED BY <2>1, <2>2
<1> QED BY <1>1, <1>2, <1>3, <1>4

\* The chunk that Read takes is the next bytes of the stream.
LEMMA ReadArrives ==
    ASSUME DnInv, NEW p \in polls, NEW took, ReadChunk(p, took)
    PROVE  Stream!Arrive
<1>1. Expected(p) /\ p.ph = "answer" /\ p.st = 200 /\ ended = "open"
      /\ UNCHANGED <<pushed, ended>>
  BY DEF ReadChunk, relay
<1>2. p.seq = ackSeq + 1 /\ p.seq <= seq /\ p.seq > ackSeq /\ p.data = assigned[p.seq]
  BY <1>1, ReadNext, Zenon
<1>3. received' = received \o p.data
  BY <1>2, Zenon DEF ReadChunk
<1>4. PICK at, c : Placed(at, c)
  BY DEF DnInv
<1>5. /\ at \in [Nat -> Nat] /\ ackSeq \in Nat /\ seq \in Nat /\ received = Bytes(0, at[ackSeq])
      /\ pushed \in Nat
      /\ \A k \in (ackSeq + 1)..seq : at[k - 1] < at[k] /\ assigned[k] = Bytes(at[k - 1], at[k])
  BY <1>4 DEF Placed, DnInv, DnTyped
<1>6. PICK a : a = at[ackSeq]
  OBVIOUS
<1>7. PICK b : b = at[ackSeq + 1]
  OBVIOUS
<1>8. p.data = Bytes(a, b) /\ a \in Nat /\ b \in Nat /\ a < b
  <2>1. ackSeq + 1 \in (ackSeq + 1)..seq /\ (ackSeq + 1) - 1 = ackSeq
    BY <1>2, <1>5
  <2>2. /\ at[(ackSeq + 1) - 1] < at[ackSeq + 1]
        /\ assigned[ackSeq + 1] = Bytes(at[(ackSeq + 1) - 1], at[ackSeq + 1])
    BY <1>5, <2>1, Zenon
  <2>3. a < b /\ p.data = Bytes(a, b)
    BY <1>2, <1>6, <1>7, <2>1, <2>2, Zenon
  <2>4. a \in Nat /\ b \in Nat
    BY <1>5, <1>6, <1>7
  <2> QED BY <2>3, <2>4
<1>9. received = Bytes(0, a) /\ Len(received) = a
  <2>1. 0 \in Nat /\ 0 <= a
    BY <1>8
  <2>2. received = Bytes(0, a)
    BY <1>5, <1>6, Zenon
  <2>3. Len(Bytes(0, a)) = a - 0
    BY <1>8, <2>1, BytesSeq, Zenon
  <2> QED BY <1>8, <2>2, <2>3
<1>10. b <= pushed
  <2>1. at[seq] <= pushed
    BY <1>4, NumberedPushed, Zenon
  <2>2. b <= at[seq]
    BY <1>2, <1>4, <1>5, <1>7, NumberedGrow
  <2> QED BY <1>5, <1>8, <2>1, <2>2
<1>11. PICK m \in Nat : m = b - a
  BY <1>8
<1>12. m \in 1..(pushed - Len(received))
  BY <1>5, <1>8, <1>9, <1>10, <1>11
<1>13. received' = received \o [i \in 1..m |-> Len(received) + i]
  BY <1>3, <1>8, <1>9, <1>11 DEF Bytes
<1> QED BY <1>1, <1>12, <1>13 DEF Stream!Arrive, StreamEnd

\* Read sees the end of the stream after its last byte.
LEMMA ReadEof ==
    ASSUME DnInv, NEW p \in polls, ReadEnds(p)
    PROVE  Stream!Eof \/ Stream!Cut
<1>1. Expected(p) /\ p.live /\ ended = "open" /\ UNCHANGED <<pushed, received>>
      /\ \/ p.ph = "answer" /\ p.st \in {404, 410} /\ ended' = "eof"
         \/ p.ph = "failed" /\ ended' = "error"
  BY DEF ReadEnds, relay, Expected
<1>2. CASE ended' = "error"
  BY <1>1, <1>2 DEF Stream!Cut, StreamEnd
<1>3. CASE ended' = "eof"
  <2>1. LiveOk(p) /\ p.want = batch.next /\ p.want \in Nat /\ p.ack \in Nat /\ p.ph = "answer"
    BY <1>1, <1>3 DEF DnInv, DnPolls, PollOk, PollRecords, Expected
  <2>2. ToldEnd(p)
    BY <1>1, <1>3, <2>1 DEF LiveOk
  <2>3. seq = ackSeq
    <3>1. CASE Windowed
      BY <2>1, <2>2, <3>1 DEF ToldEnd, Before, DnInv, DnBatch, DnTyped
    <3>2. CASE ~Windowed
      BY <2>1, <2>2, <3>2 DEF ToldEnd, Before, LiveOk
    <3> QED BY <3>1, <3>2
  <2>4. PICK at, c : Placed(at, c)
    BY DEF DnInv
  <2>5. received = Bytes(0, pushed) /\ pushed \in Nat
    <3>1. Queued = << >>
      BY <2>2 DEF ToldEnd, Queued
    <3>2. c[0] = pushed /\ c[0] = at[seq] /\ received = Bytes(0, at[ackSeq])
      BY <2>2, <2>4, <3>1 DEF ToldEnd, Placed
    <3> QED BY <2>3, <3>2, Zenon DEF DnInv, DnTyped
  <2>6. Len(received) = pushed
    <3>1. 0 \in Nat /\ 0 <= pushed
      BY <2>5
    <3>2. Len(Bytes(0, pushed)) = pushed - 0
      BY <2>5, <3>1, BytesSeq, Zenon
    <3> QED BY <2>5, <3>2
  <2> QED BY <1>1, <1>3, <2>6 DEF Stream!Eof, StreamEnd
<1> QED BY <1>1, <1>2, <1>3


LEMMA StepMaps == DnInv /\ [Next]_vars => [Stream!Next]_(Stream!sv)
<1> SUFFICES ASSUME DnInv, [Next]_vars PROVE [Stream!Next]_(Stream!sv)
  OBVIOUS
<1> USE DEF Stream!Next
<1>1. CASE RelayWork
  <2>1. Stutters
    BY <1>1 DEF RelayWork, Arrive, TakeUpTo, TakeWindow, Changed, Acquire, ParkedTakes, ParkedCloses,
                Assign, relay, reader, Stutters
  <2> QED BY <2>1, StutterMaps
<1>2. CASE ReaderWork
  <2>1. CASE PollSerial
    <3>1. Stutters
      BY <2>1 DEF PollSerial, relay, reader, Stutters
    <3> QED BY <3>1, StutterMaps
  <2>2. ASSUME NEW p \in polls, NEW took, ReadChunk(p, took) PROVE Stream!Arrive
    BY <2>2, ReadArrives, Zenon
  <2>3. ASSUME NEW p \in polls, ReadEmpty(p) PROVE Stutters
    BY <2>3 DEF ReadEmpty, relay, Stutters
  <2>4. ASSUME NEW p \in polls, ReadEnds(p) PROVE Stream!Eof \/ Stream!Cut
    BY <2>4, ReadEof, Zenon
  <2> QED BY <1>2, <2>1, <2>2, <2>3, <2>4, StutterMaps, Zenon DEF ReaderWork
<1>3. CASE Environment
  <2>1. ASSUME NEW n \in 1..MaxChunk, Push(n) PROVE Stream!Send
    <3>1. pushed' = pushed + n /\ n \in Nat /\ n > 0 /\ pushed \in Nat /\ UNCHANGED <<received, ended>> /\ ~qdone
      BY <2>1, DownConstants DEF Push, reader, DnInv, DnTyped
    <3>2. ended # "eof"
      BY <3>1 DEF DnInv, DnTyped
    <3> QED BY <3>1, <3>2 DEF Stream!Send, StreamEnd
  <2>2. CASE CloseQueue
    <3>1. Stutters
      BY <2>2 DEF CloseQueue, reader, Stutters
    <3> QED BY <3>1, StutterMaps
  <2>3. CASE ReaderStops
    BY <2>3 DEF ReaderStops, relay, Stream!Cut, StreamEnd
  <2>4. ASSUME NEW p \in polls, GiveUp(p) PROVE Stutters
    BY <2>4 DEF GiveUp, relay, reader, Stutters
  <2>5. ASSUME NEW p \in polls, Vanish(p) PROVE Stutters
    BY <2>5 DEF Vanish, relay, reader, Stutters
  <2>6. ASSUME NEW p \in polls, NEW heard, CarrierFails(p, heard) PROVE Stutters
    BY <2>6 DEF CarrierFails, relay, reader, Stutters
  <2> QED BY <1>3, <2>1, <2>2, <2>3, <2>4, <2>5, <2>6, StutterMaps, Zenon DEF Environment, TimerWork
<1>4. CASE UNCHANGED vars
  <2>1. Stutters
    BY <1>4 DEF vars, Stutters
  <2> QED BY <2>1, StutterMaps
<1> QED BY <1>1, <1>2, <1>3, <1>4 DEF Next

\* ImplementsStream: through every retry, replay and abandoned poll, conn.Read
\* hands out the bytes pushed, in order and once each, and reports an end of
\* file only after the last of them.
THEOREM RefinesStream == Spec => ImplementsStream
<1>1. Init => Stream!Init
  BY DEF Init, Stream!Init, StreamEnd
<1>2. DnInv /\ [Next]_vars => [Stream!Next]_(Stream!sv)
  BY StepMaps
<1> QED BY <1>1, <1>2, ChunksInvariant, PTL DEF Spec, ImplementsStream, Stream!Spec
=============================================================================
