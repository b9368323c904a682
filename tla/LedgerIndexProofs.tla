------------------------- MODULE LedgerIndexProofs --------------------------
(***************************************************************************)
(* The filter and the ledger for all values of the constants: what the two *)
(* loops of process_checkpoint compute of any checkpoint, and that the     *)
(* index then holds what the ledger calls for.                             *)
(***************************************************************************)
EXTENDS LedgerIndex, FiniteSetTheorems, SequenceTheorems,
        WellFoundedInduction, TLAPS

-----------------------------------------------------------------------------
(* Counting up.                                                            *)

\* Every nonempty set of numbers has a least one.
LEMMA LeastNumber ==
    ASSUME NEW T \in SUBSET Nat, T # {}
    PROVE  \E n \in T : \A m \in T : n <= m
<1>1. IsWellFoundedOn(OpToRel(<, Nat), Nat)
  BY NatLessThanWellFounded
<1>2. PICK n \in T : \A m \in T : ~(<<m, n>> \in OpToRel(<, Nat))
  BY <1>1, WFMin
<1>3. \A m \in T : ~(m < n)
  BY <1>2 DEF OpToRel
<1> QED
  BY <1>3

\* So what holds of 0, and of a number if of the one before, holds of all.
LEMMA CountingUp ==
    ASSUME NEW T, 0 \in T, \A n \in Nat : n \in T => n + 1 \in T
    PROVE  Nat \subseteq T
<1> SUFFICES ASSUME Nat \ T # {} PROVE FALSE
  OBVIOUS
<1>1. PICK n \in Nat \ T : \A m \in Nat \ T : n <= m
  BY LeastNumber
<1>2. n # 0 /\ n - 1 \in Nat
  BY <1>1
<1>3. n - 1 \in T
  BY <1>1, <1>2
<1> QED
  BY <1>1, <1>2, <1>3

-----------------------------------------------------------------------------
(* Appending sequences one after another: `extend`.                        *)

\* The function FlattenSeq is the last value of, as far as n.
Unrolled(f, ss, n) ==
    f = [i \in 1 .. n |-> IF i = 1 THEN ss[i] ELSE f[i - 1] \o ss[i]]

LEMMA UnrolledOnce ==
    ASSUME NEW n \in Nat, NEW ss, NEW f, Unrolled(f, ss, n)
    PROVE  \E g : Unrolled(g, ss, n + 1)
<1> DEFINE g == [i \in 1 .. n + 1 |->
                   IF i = n + 1 THEN IF i = 1 THEN ss[i] ELSE f[n] \o ss[i]
                                ELSE f[i]]
           h == [i \in 1 .. n + 1 |-> IF i = 1 THEN ss[i] ELSE g[i - 1] \o ss[i]]
<1>1. ASSUME NEW i \in 1 .. n + 1 PROVE g[i] = h[i]
  <2>1. CASE i = n + 1
    <3>1. CASE n = 0
      BY <2>1, <3>1
    <3>2. CASE n # 0
      <4>1. i # 1 /\ i - 1 \in 1 .. n + 1 /\ i - 1 # n + 1 /\ i - 1 = n
        BY <2>1, <3>2
      <4>2. g[i - 1] = f[n]
        BY <4>1
      <4> QED
        BY <2>1, <4>1, <4>2
    <3> QED
      BY <3>1, <3>2
  <2>2. CASE i # n + 1
    <3>1. i \in 1 .. n /\ g[i] = f[i]
      BY <2>2
    <3>2. f[i] = IF i = 1 THEN ss[i] ELSE f[i - 1] \o ss[i]
      BY <3>1 DEF Unrolled
    <3>3. i # 1 => i - 1 \in 1 .. n + 1 /\ i - 1 # n + 1
      BY <3>1
    <3>4. i # 1 => g[i - 1] = f[i - 1]
      BY <3>3
    <3> QED
      BY <3>1, <3>2, <3>4
  <2> QED
    BY <2>1, <2>2
<1>2. g = h
  <2>1. \A i \in 1 .. n + 1 : g[i] = h[i]
    BY <1>1
  <2> QED
    BY <2>1
<1> QED
  BY <1>2 DEF Unrolled

LEMMA UnrolledExists ==
    ASSUME NEW ss, NEW n \in Nat
    PROVE  \E f : Unrolled(f, ss, n)
<1> DEFINE T == { m \in Nat : \E f : Unrolled(f, ss, m) }
<1>1. 0 \in T
  <2> DEFINE e == [i \in {} |-> 0]
             f == [i \in 1 .. 0 |-> IF i = 1 THEN ss[i] ELSE e[i - 1] \o ss[i]]
  <2>1. 1 .. 0 = {}
    OBVIOUS
  <2>2. f = e
    BY <2>1
  <2> QED
    BY <2>2 DEF Unrolled
<1>2. \A m \in Nat : m \in T => m + 1 \in T
  BY UnrolledOnce
<1>3. Nat \subseteq T
  <2> HIDE DEF T
  <2> QED
    BY <1>1, <1>2, CountingUp
<1> QED
  BY <1>3

\* FlattenSeq appends the sequences one by one.
LEMMA FlattenLoop ==
    ASSUME NEW R, NEW ss \in Seq(Seq(R)), ss # <<>>
    PROVE  \E f \in [1 .. Len(ss) -> Seq(R)] :
              /\ f[1] = ss[1]
              /\ \A i \in 2 .. Len(ss) : f[i] = f[i - 1] \o ss[i]
              /\ FlattenSeq(ss) = f[Len(ss)]
<1> DEFINE L == Len(ss)
           F == CHOOSE f : Unrolled(f, ss, L)
           V == { n \in Nat : n \in 1 .. L => F[n] \in Seq(R) }
<1>1. L \in Nat /\ L >= 1 /\ \A i \in 1 .. L : ss[i] \in Seq(R)
  OBVIOUS
<1>2. Unrolled(F, ss, L)
  BY <1>1, UnrolledExists
<1>3. FlattenSeq(ss) = F[L]
  BY <1>1 DEF FlattenSeq, Unrolled
<1> HIDE DEF F, L
<1>4. \A i \in 1 .. L : F[i] = IF i = 1 THEN ss[i] ELSE F[i - 1] \o ss[i]
  BY <1>2 DEF Unrolled
<1>8. F[1] = ss[1] /\ \A i \in 2 .. L : F[i] = F[i - 1] \o ss[i]
  <2>1. 1 \in 1 .. L /\ \A i \in 2 .. L : i \in 1 .. L /\ i # 1
    BY <1>1
  <2> QED
    BY <1>4, <2>1
<1>5. ASSUME NEW n \in Nat, n \in V PROVE n + 1 \in V
  <2> SUFFICES ASSUME n + 1 \in 1 .. L PROVE F[n + 1] \in Seq(R)
    OBVIOUS
  <2>1. CASE n = 0
    BY <1>1, <1>4, <2>1
  <2>2. CASE n # 0
    <3>1. n \in 1 .. L /\ n + 1 \in 2 .. L /\ (n + 1) - 1 = n
      BY <1>1, <2>2
    <3>2. F[n] \in Seq(R) /\ ss[n + 1] \in Seq(R)
      BY <1>1, <1>5, <3>1
    <3>3. F[n + 1] = F[(n + 1) - 1] \o ss[n + 1]
      BY <1>8, <3>1
    <3> QED
      BY <3>1, <3>2, <3>3, ConcatProperties
  <2> QED
    BY <2>1, <2>2
<1>6. \A n \in 1 .. L : F[n] \in Seq(R)
  <2>1. 0 \in V
    OBVIOUS
  <2>2. Nat \subseteq V
    <3> HIDE DEF V
    <3> QED
      BY <1>5, <2>1, CountingUp
  <2> QED
    BY <1>1, <2>2
<1>7. F \in [1 .. L -> Seq(R)]
  <2>1. \A i \in 1 .. L : (IF i = 1 THEN ss[i] ELSE F[i - 1] \o ss[i]) \in Seq(R)
    BY <1>4, <1>6
  <2> QED
    BY <1>2, <2>1 DEF Unrolled
<1> QED
  BY <1>3, <1>7, <1>8 DEF L

\* It gives a sequence.
LEMMA FlattenType ==
    ASSUME NEW R, NEW ss \in Seq(Seq(R))
    PROVE  FlattenSeq(ss) \in Seq(R)
<1>1. CASE ss = <<>>
  BY <1>1 DEF FlattenSeq
<1>2. CASE ss # <<>>
  <2>1. PICK f \in [1 .. Len(ss) -> Seq(R)] : FlattenSeq(ss) = f[Len(ss)]
    BY <1>2, FlattenLoop
  <2>2. Len(ss) \in 1 .. Len(ss)
    BY <1>2, EmptySeq
  <2> QED
    BY <2>1, <2>2
<1> QED
  BY <1>1, <1>2

\* One more sequence is appended at the end.
LEMMA FlattenAppend ==
    ASSUME NEW R, NEW ss \in Seq(Seq(R)), NEW s \in Seq(R)
    PROVE  FlattenSeq(Append(ss, s)) = FlattenSeq(ss) \o s
<1> DEFINE L == Len(ss)
           tt == Append(ss, s)
<1>1. /\ tt \in Seq(Seq(R)) /\ tt # <<>> /\ L \in Nat /\ Len(tt) = L + 1
      /\ tt[L + 1] = s /\ \A i \in 1 .. L : tt[i] = ss[i]
  BY AppendProperties, LenProperties
<1> HIDE DEF tt
<1>0. PICK g \in [1 .. Len(tt) -> Seq(R)] :
          /\ g[1] = tt[1]
          /\ \A i \in 2 .. Len(tt) : g[i] = g[i - 1] \o tt[i]
          /\ FlattenSeq(tt) = g[Len(tt)]
  BY <1>1, FlattenLoop
<1>2. /\ g[1] = tt[1]
      /\ \A i \in 2 .. L + 1 : g[i] = g[i - 1] \o tt[i]
      /\ FlattenSeq(tt) = g[L + 1]
  BY <1>0, <1>1
<1>3. CASE ss = <<>>
  <2>1. L = 0 /\ FlattenSeq(ss) = <<>>
    BY <1>3 DEF FlattenSeq
  <2>2. FlattenSeq(tt) = s
    BY <1>1, <1>2, <2>1
  <2> QED
    BY <2>1, <2>2, ConcatEmptySeq DEF tt
<1>4. CASE ss # <<>>
  <2>0. PICK f \in [1 .. Len(ss) -> Seq(R)] :
          /\ f[1] = ss[1]
          /\ \A i \in 2 .. Len(ss) : f[i] = f[i - 1] \o ss[i]
          /\ FlattenSeq(ss) = f[Len(ss)]
    BY <1>4, FlattenLoop
  <2>1. /\ f[1] = ss[1]
        /\ \A i \in 2 .. L : f[i] = f[i - 1] \o ss[i]
        /\ FlattenSeq(ss) = f[L]
    BY <2>0
  <2>2. L >= 1
    BY <1>4, EmptySeq
  <2> DEFINE T == { n \in Nat : n \in 1 .. L => g[n] = f[n] }
  <2> HIDE DEF L
  <2>3. ASSUME NEW n \in Nat, n \in T PROVE n + 1 \in T
    <3> SUFFICES ASSUME n + 1 \in 1 .. L PROVE g[n + 1] = f[n + 1]
      OBVIOUS
    <3>1. CASE n = 0
      BY <1>1, <1>2, <2>1, <2>2, <3>1
    <3>2. CASE n # 0
      <4>1. /\ n \in 1 .. L /\ n + 1 \in 2 .. L /\ n + 1 \in 2 .. L + 1
            /\ (n + 1) - 1 = n
        BY <1>1, <3>2
      <4>2. g[n] = f[n] /\ tt[n + 1] = ss[n + 1]
        BY <1>1, <2>3, <4>1
      <4>3. g[n + 1] = g[n] \o tt[n + 1] /\ f[n + 1] = f[n] \o ss[n + 1]
        BY <1>2, <2>1, <4>1
      <4> QED
        BY <4>2, <4>3
    <3> QED
      BY <3>1, <3>2
  <2>4. g[L] = f[L]
    <3>1. 0 \in T
      OBVIOUS
    <3>2. Nat \subseteq T
      <4> HIDE DEF T
      <4> QED
        BY <2>3, <3>1, CountingUp
    <3> QED
      BY <1>1, <2>2, <3>2
  <2>5. L + 1 \in 2 .. L + 1 /\ (L + 1) - 1 = L
    BY <1>1, <2>2
  <2>6. g[L + 1] = g[L] \o tt[L + 1]
    BY <1>2, <2>5
  <2> QED
    BY <1>1, <1>2, <2>1, <2>4, <2>6 DEF tt
<1> QED
  BY <1>3, <1>4

\* It has the elements of all of them and no others.
LEMMA FlattenRange ==
    ASSUME NEW R, NEW ss \in Seq(Seq(R)), NEW r
    PROVE  Contains(FlattenSeq(ss), r)
             <=> \E i \in 1 .. Len(ss) : Contains(ss[i], r)
<1>1. CASE ss = <<>>
  BY <1>1 DEF FlattenSeq, Contains
<1>2. CASE ss # <<>>
  <2> DEFINE L == Len(ss)
             In(q) == Contains(q, r)
  <2>1. PICK f \in [1 .. L -> Seq(R)] :
          /\ f[1] = ss[1]
          /\ \A i \in 2 .. L : f[i] = f[i - 1] \o ss[i]
          /\ FlattenSeq(ss) = f[L]
    BY <1>2, FlattenLoop
  <2>2. L \in Nat /\ L >= 1 /\ \A i \in 1 .. L : ss[i] \in Seq(R)
    BY <1>2
  <2>3. ASSUME NEW p \in Seq(R), NEW q \in Seq(R)
        PROVE  In(p \o q) <=> In(p) \/ In(q)
    <3> USE DEF Contains
    <3>1. /\ Len(p \o q) = Len(p) + Len(q) /\ Len(p) \in Nat /\ Len(q) \in Nat
          /\ \A k \in 1 .. Len(p) + Len(q) :
               (p \o q)[k] = IF k <= Len(p) THEN p[k] ELSE q[k - Len(p)]
      OBVIOUS
    <3>2. ASSUME In(p \o q) PROVE In(p) \/ In(q)
      <4>1. PICK k \in 1 .. Len(p) + Len(q) : (p \o q)[k] = r
        BY <3>1, <3>2
      <4>2. CASE k <= Len(p)
        BY <3>1, <4>1, <4>2
      <4>3. CASE ~(k <= Len(p))
        <5>1. k - Len(p) \in 1 .. Len(q)
          BY <3>1, <4>3
        <5> QED
          BY <3>1, <4>1, <4>3, <5>1
      <4> QED
        BY <4>2, <4>3
    <3>3. ASSUME In(p) PROVE In(p \o q)
      BY <3>1, <3>3
    <3>4. ASSUME In(q) PROVE In(p \o q)
      <4>1. PICK k \in 1 .. Len(q) : q[k] = r
        BY <3>4
      <4>2. k + Len(p) \in 1 .. Len(p) + Len(q) /\ ~(k + Len(p) <= Len(p))
            /\ (k + Len(p)) - Len(p) = k
        BY <3>1
      <4> QED
        BY <3>1, <4>1, <4>2
    <3> QED
      BY <3>2, <3>3, <3>4
  <2> DEFINE T == { n \in Nat :
                      n \in 1 .. L => (In(f[n]) <=> \E i \in 1 .. n : In(ss[i])) }
  <2> HIDE DEF L, In
  <2>4. ASSUME NEW n \in Nat, n \in T PROVE n + 1 \in T
    <3> SUFFICES ASSUME n + 1 \in 1 .. L
                 PROVE  In(f[n + 1]) <=> \E i \in 1 .. n + 1 : In(ss[i])
      OBVIOUS
    <3>1. CASE n = 0
      BY <2>1, <2>2, <3>1
    <3>2. CASE n # 0
      <4>1. /\ n \in 1 .. L /\ n + 1 \in 2 .. L /\ (n + 1) - 1 = n
            /\ 1 .. n + 1 = (1 .. n) \cup {n + 1}
        BY <2>2, <3>2
      <4>2. In(f[n]) <=> \E i \in 1 .. n : In(ss[i])
        BY <2>4, <4>1
      <4>3. f[n + 1] = f[n] \o ss[n + 1]
        BY <2>1, <4>1
      <4>4. In(f[n + 1]) <=> In(f[n]) \/ In(ss[n + 1])
        BY <2>1, <2>2, <2>3, <4>1, <4>3
      <4> QED
        BY <4>1, <4>2, <4>4
    <3> QED
      BY <3>1, <3>2
  <2>5. In(f[L]) <=> \E i \in 1 .. L : In(ss[i])
    <3>1. 0 \in T
      OBVIOUS
    <3>2. Nat \subseteq T
      <4> HIDE DEF T
      <4> QED
        BY <2>4, <3>1, CountingUp
    <3> QED
      BY <2>2, <3>2
  <2> QED
    BY <2>1, <2>5 DEF L, In
<1> QED
  BY <1>1, <1>2

-----------------------------------------------------------------------------
(* Upserting rows one after another.                                       *)

LEMMA MaxOfSet ==
    ASSUME NEW n \in Nat, NEW S \in SUBSET (1 .. n + 1), n + 1 \in S
    PROVE  Max(S) = n + 1
<1> DEFINE m == Max(S)
<1>1. \A y \in S : y \in 1 .. n + 1
  OBVIOUS
<1>2. n + 1 \in S /\ \A y \in S : n + 1 >= y
  BY <1>1
<1>3. m \in S /\ \A y \in S : m >= y
  BY <1>2 DEF Max
<1> HIDE DEF m
<1>4. m \in 1 .. n + 1 /\ m >= n + 1
  BY <1>1, <1>3
<1>5. m = n + 1
  BY <1>4
<1> QED
  BY <1>5 DEF m

\* The function Insert is the last value of, on the rows 1 .. n.
Folded(f, table_, rows, n) ==
    f = [S \in SUBSET (1 .. n) |->
            IF S = {} THEN table_
            ELSE UpsertRow(f[S \ {Max(S)}], rows[Max(S)])]

LEMMA FoldedOnce ==
    ASSUME NEW n \in Nat, NEW t, NEW rows, NEW f, Folded(f, t, rows, n)
    PROVE  \E g : Folded(g, t, rows, n + 1)
<1> DEFINE g == [S \in SUBSET (1 .. n + 1) |->
                   IF n + 1 \in S THEN UpsertRow(f[S \ {n + 1}], rows[n + 1])
                                  ELSE f[S]]
           h == [S \in SUBSET (1 .. n + 1) |->
                   IF S = {} THEN t
                   ELSE UpsertRow(g[S \ {Max(S)}], rows[Max(S)])]
<1>1. ASSUME NEW S \in SUBSET (1 .. n + 1) PROVE g[S] = h[S]
  <2>1. CASE n + 1 \in S
    <3>1. Max(S) = n + 1 /\ S # {}
      BY <2>1, MaxOfSet
    <3>2. S \ {n + 1} \in SUBSET (1 .. n + 1) /\ n + 1 \notin S \ {n + 1}
      OBVIOUS
    <3>3. g[S \ {n + 1}] = f[S \ {n + 1}]
      BY <3>2
    <3>4. g[S] = UpsertRow(f[S \ {n + 1}], rows[n + 1])
      BY <2>1
    <3>5. h[S] = UpsertRow(g[S \ {n + 1}], rows[n + 1])
      BY <3>1
    <3> QED
      BY <3>3, <3>4, <3>5
  <2>2. CASE n + 1 \notin S
    <3>0. \A y \in S : y \in 1 .. n
      <4>1. \A y \in S : y \in 1 .. n + 1 /\ y # n + 1
        BY <2>2
      <4> QED
        BY <4>1
    <3>1. S \in SUBSET (1 .. n) /\ S \ {Max(S)} \in SUBSET (1 .. n + 1)
          /\ n + 1 \notin S \ {Max(S)}
      BY <2>2, <3>0, Zenon
    <3>2. g[S] = f[S] /\ g[S \ {Max(S)}] = f[S \ {Max(S)}]
      BY <2>2, <3>1
    <3>3. f[S] = IF S = {} THEN t
                 ELSE UpsertRow(f[S \ {Max(S)}], rows[Max(S)])
      BY <3>1 DEF Folded
    <3>4. h[S] = IF S = {} THEN t
                 ELSE UpsertRow(g[S \ {Max(S)}], rows[Max(S)])
      OBVIOUS
    <3> HIDE DEF g, h
    <3> QED
      BY <3>2, <3>3, <3>4
  <2> QED
    BY <2>1, <2>2
<1>2. g = h
  <2>1. \A S \in SUBSET (1 .. n + 1) : g[S] = h[S]
    BY <1>1
  <2> QED
    BY <2>1
<1> QED
  BY <1>2 DEF Folded

LEMMA FoldedExists ==
    ASSUME NEW t, NEW rows, NEW n \in Nat
    PROVE  \E f : Folded(f, t, rows, n)
<1> DEFINE T == { m \in Nat : \E f : Folded(f, t, rows, m) }
<1>1. 0 \in T
  <2> DEFINE e == [S \in {{}} |-> t]
             f == [S \in SUBSET (1 .. 0) |->
                     IF S = {} THEN t
                     ELSE UpsertRow(e[S \ {Max(S)}], rows[Max(S)])]
  <2>1. SUBSET (1 .. 0) = {{}}
    OBVIOUS
  <2>2. f = e
    BY <2>1
  <2> QED
    BY <2>2 DEF Folded
<1>2. \A m \in Nat : m \in T => m + 1 \in T
  BY FoldedOnce
<1>3. Nat \subseteq T
  <2> HIDE DEF T
  <2> QED
    BY <1>1, <1>2, CountingUp
<1> QED
  BY <1>3

\* Insert upserts the rows one by one.
LEMMA InsertLoop ==
    ASSUME NEW R, NEW rows \in Seq(R), NEW t
    PROVE  \E f : /\ f[0] = t
                  /\ \A i \in 1 .. Len(rows) : f[i] = UpsertRow(f[i - 1], rows[i])
                  /\ Insert(t, rows) = f[Len(rows)]
<1> DEFINE L == Len(rows)
           F == CHOOSE f : Folded(f, t, rows, L)
           f == [i \in 0 .. L |-> F[1 .. i]]
<1>1. L \in Nat /\ DOMAIN rows = 1 .. L
  BY LenProperties
<1>2. Folded(F, t, rows, L)
  BY <1>1, FoldedExists
<1>3. Insert(t, rows) = F[1 .. L]
  BY <1>1, Zenon DEF Insert, FoldLeft, MapThenFoldSet, Folded
<1> HIDE DEF F, L
<1>4. F[{}] = t
  BY <1>2 DEF Folded
<1>5. ASSUME NEW i \in 1 .. L
      PROVE  F[1 .. i] = UpsertRow(F[1 .. i - 1], rows[i])
  <2>1. i - 1 \in Nat /\ (i - 1) + 1 = i /\ i \in 1 .. i
    BY <1>1
  <2>2. Max(1 .. i) = i
    BY <2>1, MaxOfSet
  <2>3. (1 .. i) \ {i} = 1 .. i - 1 /\ 1 .. i # {}
        /\ 1 .. i \in SUBSET (1 .. L)
    <3>1. \A k : k \in (1 .. i) \ {i} <=> k \in 1 .. i - 1
      BY <2>1
    <3>2. (1 .. i) \ {i} = 1 .. i - 1
      BY <3>1
    <3>3. \A k \in 1 .. i : k \in 1 .. L
      BY <1>1
    <3> QED
      BY <2>1, <3>2, <3>3
  <2> QED
    BY <1>2, <2>2, <2>3 DEF Folded
<1>6. f[0] = t
  <2>1. 0 \in 0 .. L /\ 1 .. 0 = {}
    BY <1>1
  <2> QED
    BY <1>4, <2>1
<1>7. \A i \in 1 .. L : f[i] = UpsertRow(f[i - 1], rows[i])
  <2>1. \A i \in 1 .. L : i \in 0 .. L /\ i - 1 \in 0 .. L
    BY <1>1
  <2> QED
    BY <1>5, <2>1
<1>8. Insert(t, rows) = f[L]
  BY <1>1, <1>3
<1> QED
  BY <1>6, <1>7, <1>8 DEF L

\* What a checkpoint's upserts leave, however many: of each id the last row, and
\* the rows of the ids they do not name (worker.rs:75-110).
THEOREM LastRowWins ==
    ASSUME NEW R, NEW rows \in Seq(R), NEW t, NEW o
    PROVE  o \in Insert(t, rows) <=>
              \/ o \in t /\ \A i \in 1 .. Len(rows) : rows[i].id # o.id
              \/ \E i \in 1 .. Len(rows) :
                    /\ o = rows[i]
                    /\ \A k \in i + 1 .. Len(rows) : rows[k].id # o.id
<1> DEFINE L == Len(rows)
           Left(n) == \/ o \in t /\ \A i \in 1 .. n : rows[i].id # o.id
                      \/ \E i \in 1 .. n :
                            /\ o = rows[i]
                            /\ \A k \in i + 1 .. n : rows[k].id # o.id
<1>1. PICK f : /\ f[0] = t
               /\ \A i \in 1 .. Len(rows) : f[i] = UpsertRow(f[i - 1], rows[i])
               /\ Insert(t, rows) = f[Len(rows)]
  BY InsertLoop
<1>2. L \in Nat
  BY LenProperties
<1> DEFINE T == { n \in Nat : n <= L => (o \in f[n] <=> Left(n)) }
<1>3. 0 \in T
  BY <1>1
<1>4. ASSUME NEW n \in Nat, n \in T PROVE n + 1 \in T
  <2> SUFFICES ASSUME n + 1 <= L PROVE o \in f[n + 1] <=> Left(n + 1)
    OBVIOUS
  <2>1. n + 1 \in 1 .. Len(rows) /\ (n + 1) - 1 = n /\ n <= L
    BY <1>2
  <2>2. o \in f[n + 1] <=>
          (o \in f[n] /\ o.id # rows[n + 1].id) \/ o = rows[n + 1]
    BY <1>1, <2>1 DEF UpsertRow
  <2>3. o \in f[n] <=> Left(n)
    BY <1>4, <2>1
  <2>4. /\ 1 .. n + 1 = (1 .. n) \cup {n + 1}
        /\ \A i \in 1 .. n : i + 1 .. n + 1 = (i + 1 .. n) \cup {n + 1}
        /\ n + 1 + 1 .. n + 1 = {}
    OBVIOUS
  <2>5. (\A i \in 1 .. n + 1 : rows[i].id # o.id) <=>
          (\A i \in 1 .. n : rows[i].id # o.id) /\ rows[n + 1].id # o.id
    BY <2>4
  <2>6. (\E i \in 1 .. n + 1 :
            o = rows[i] /\ \A k \in i + 1 .. n + 1 : rows[k].id # o.id) <=>
          \/ o = rows[n + 1]
          \/ /\ rows[n + 1].id # o.id
             /\ \E i \in 1 .. n :
                   o = rows[i] /\ \A k \in i + 1 .. n : rows[k].id # o.id
    BY <2>4
  <2> QED
    BY <2>2, <2>3, <2>5, <2>6
<1>5. Nat \subseteq T
  <2> HIDE DEF T
  <2> QED
    BY <1>3, <1>4, CountingUp
<1>6. o \in f[L] <=> Left(L)
  BY <1>2, <1>5
<1> QED
  BY <1>1, <1>6

\* Upserting two sequences, one after the other, is upserting both as one.
LEMMA InsertConcat ==
    ASSUME NEW R, NEW a \in Seq(R), NEW b \in Seq(R), NEW t
    PROVE  Insert(t, a \o b) = Insert(Insert(t, a), b)
<1> DEFINE c == a \o b
           m == Len(a)
           n == Len(b)
<1>1. /\ c \in Seq(R) /\ Len(c) = m + n /\ m \in Nat /\ n \in Nat
      /\ \A i \in 1 .. m : c[i] = a[i]
      /\ \A i \in 1 .. n : c[m + i] = b[i]
  <2>1. /\ c \in Seq(R) /\ Len(c) = m + n /\ m \in Nat /\ n \in Nat
        /\ \A i \in 1 .. m + n : c[i] = IF i <= m THEN a[i] ELSE b[i - m]
    BY ConcatProperties, LenProperties
  <2> HIDE DEF m, n, c
  <2>2. \A i \in 1 .. m : i \in 1 .. m + n /\ i <= m
    BY <2>1
  <2>3. \A i \in 1 .. n : m + i \in 1 .. m + n /\ ~(m + i <= m) /\ (m + i) - m = i
    BY <2>1
  <2> QED
    BY <2>1, <2>2, <2>3
<1>2. PICK f : /\ f[0] = t
               /\ \A i \in 1 .. Len(c) : f[i] = UpsertRow(f[i - 1], c[i])
               /\ Insert(t, c) = f[Len(c)]
  <2> HIDE DEF c, m, n
  <2> QED
    BY <1>1, InsertLoop
<1>3. PICK g : /\ g[0] = t
               /\ \A i \in 1 .. Len(a) : g[i] = UpsertRow(g[i - 1], a[i])
               /\ Insert(t, a) = g[Len(a)]
  BY InsertLoop
<1>4. PICK h : /\ h[0] = Insert(t, a)
               /\ \A i \in 1 .. Len(b) : h[i] = UpsertRow(h[i - 1], b[i])
               /\ Insert(Insert(t, a), b) = h[Len(b)]
  BY InsertLoop
<1> DEFINE S == { k \in Nat : k <= m => f[k] = g[k] }
           T == { k \in Nat : k <= n => f[m + k] = h[k] }
<1>5. ASSUME NEW k \in Nat, k \in S PROVE k + 1 \in S
  <2> SUFFICES ASSUME k + 1 <= m PROVE f[k + 1] = g[k + 1]
    OBVIOUS
  <2>1. /\ k + 1 \in 1 .. Len(a) /\ k + 1 \in 1 .. Len(c) /\ (k + 1) - 1 = k
        /\ k <= m
    BY <1>1
  <2>2. f[k] = g[k] /\ c[k + 1] = a[k + 1]
    BY <1>1, <1>5, <2>1
  <2>3. /\ f[k + 1] = UpsertRow(f[k], c[k + 1])
        /\ g[k + 1] = UpsertRow(g[k], a[k + 1])
    BY <1>2, <1>3, <2>1
  <2> QED
    BY <2>2, <2>3
<1>6. f[m] = g[m]
  <2>1. 0 \in S
    BY <1>2, <1>3
  <2>2. Nat \subseteq S
    <3> HIDE DEF S
    <3> QED
      BY <1>5, <2>1, CountingUp
  <2> QED
    BY <1>1, <2>2
<1>7. ASSUME NEW k \in Nat, k \in T PROVE k + 1 \in T
  <2> SUFFICES ASSUME k + 1 <= n PROVE f[m + (k + 1)] = h[k + 1]
    OBVIOUS
  <2>1. /\ k + 1 \in 1 .. Len(b) /\ m + (k + 1) \in 1 .. Len(c)
        /\ (k + 1) - 1 = k /\ (m + (k + 1)) - 1 = m + k /\ k <= n
    BY <1>1
  <2>2. f[m + k] = h[k] /\ c[m + (k + 1)] = b[k + 1]
    BY <1>1, <1>7, <2>1
  <2>3. /\ f[m + (k + 1)] = UpsertRow(f[m + k], c[m + (k + 1)])
        /\ h[k + 1] = UpsertRow(h[k], b[k + 1])
    BY <1>2, <1>4, <2>1
  <2> QED
    BY <2>2, <2>3
<1>8. f[m + n] = h[n]
  <2>1. 0 \in T
    BY <1>1, <1>3, <1>4, <1>6
  <2>2. Nat \subseteq T
    <3> HIDE DEF T
    <3> QED
      BY <1>7, <2>1, CountingUp
  <2> QED
    BY <1>1, <2>2
<1> QED
  BY <1>1, <1>2, <1>4, <1>8

\* Where a sequence has one row only for an id, all its rows are left.
LEMMA InsertAlike ==
    ASSUME NEW R, NEW rows \in Seq(R), NEW t, NEW o,
           \A p, q : Contains(rows, p) /\ Contains(rows, q) /\ p.id = q.id => p = q
    PROVE  o \in Insert(t, rows) <=>
              \/ o \in t /\ \A p : Contains(rows, p) => p.id # o.id
              \/ Contains(rows, o)
<1> DEFINE L == Len(rows)
           Left(n) == \/ o \in t /\ \A i \in 1 .. n : rows[i].id # o.id
                      \/ \E i \in 1 .. n : rows[i] = o
<1>1. PICK f : /\ f[0] = t
               /\ \A i \in 1 .. Len(rows) : f[i] = UpsertRow(f[i - 1], rows[i])
               /\ Insert(t, rows) = f[Len(rows)]
  BY InsertLoop
<1>2. L \in Nat
  BY LenProperties
<1> DEFINE T == { n \in Nat : n <= L => (o \in f[n] <=> Left(n)) }
<1>3. 0 \in T
  BY <1>1
<1>4. ASSUME NEW n \in Nat, n \in T PROVE n + 1 \in T
  <2> SUFFICES ASSUME n + 1 <= L PROVE o \in f[n + 1] <=> Left(n + 1)
    OBVIOUS
  <2>1. /\ n + 1 \in 1 .. Len(rows) /\ (n + 1) - 1 = n /\ n <= L
        /\ 1 .. n + 1 = (1 .. n) \cup {n + 1} /\ 1 .. n \subseteq 1 .. L
    BY <1>2
  <2>2. o \in f[n + 1] <=>
          (o \in f[n] /\ o.id # rows[n + 1].id) \/ o = rows[n + 1]
    BY <1>1, <2>1 DEF UpsertRow
  <2>3. o \in f[n] <=> Left(n)
    BY <1>4, <2>1
  <2>4. \A i \in 1 .. n : rows[i] = o /\ o.id = rows[n + 1].id => o = rows[n + 1]
    BY <2>1 DEF Contains
  <2> QED
    BY <2>1, <2>2, <2>3, <2>4
<1>5. Nat \subseteq T
  <2> HIDE DEF T
  <2> QED
    BY <1>3, <1>4, CountingUp
<1>6. o \in f[L] <=> Left(L)
  BY <1>2, <1>5
<1> QED
  BY <1>1, <1>6 DEF Contains

-----------------------------------------------------------------------------
(* The filter.                                                             *)

Output == [id : Id, contents : Contents]

Tx == [genesis  : BOOLEAN,
       packages : SUBSET Package,
       valid    : BOOLEAN,
       outputs  : Seq(Output),
       removed  : SUBSET Id]

\* The row of an output that counts.
LEMMA StoredRow ==
    ASSUME NEW out \in Output, Indexable(out)
    PROVE  ToStoredObject(out) \in Row
<1>1. Static[out.id].kind \in {"basic_output", "nft_output"}
  BY DEF Indexable, IsOutputType, Kinds
<1>2. Kinds[Static[out.id].kind] \in {"Basic", "Nft"}
  BY <1>1 DEF Kinds
<1> QED
  BY <1>2 DEF ToStoredObject, Row, Output

\* The rows of a transaction: one for each of its outputs that counts.
LEMMA RowsOfTx ==
    ASSUME NEW tx \in Tx
    PROVE  /\ RowsOf(tx) \in Seq(Row)
           /\ \A o : Contains(RowsOf(tx), o) <=>
                        \E i \in 1 .. Len(tx.outputs) :
                           /\ Indexable(tx.outputs[i])
                           /\ o = ToStoredObject(tx.outputs[i])
<1> DEFINE out == tx.outputs
           ss == [i \in DOMAIN out |->
                    IF Indexable(out[i]) THEN << ToStoredObject(out[i]) >> ELSE <<>>]
<1>1. /\ out \in Seq(Output) /\ Len(out) \in Nat /\ DOMAIN out = 1 .. Len(out)
      /\ \A i \in 1 .. Len(out) : out[i] \in Output
  BY LenProperties DEF Tx
<1>2. \A i \in 1 .. Len(out) : ss[i] \in Seq(Row)
  BY <1>1, StoredRow
<1>3. ss \in Seq(Seq(Row)) /\ Len(ss) = Len(out)
  <2> HIDE DEF out
  <2> QED
    BY <1>1, <1>2
<1>4. RowsOf(tx) = FlattenSeq(ss)
  BY DEF RowsOf
<1>5. ASSUME NEW o, NEW i \in 1 .. Len(out)
      PROVE  Contains(ss[i], o) <=>
                Indexable(out[i]) /\ o = ToStoredObject(out[i])
  <2> USE DEF Contains
  <2>1. CASE Indexable(out[i])
    <3>1. ss[i] = << ToStoredObject(out[i]) >>
      BY <1>1, <2>1
    <3>2. Len(ss[i]) = 1 /\ ss[i][1] = ToStoredObject(out[i])
      BY <3>1
    <3> HIDE DEF ss
    <3> QED
      BY <2>1, <3>2
  <2>2. CASE ~Indexable(out[i])
    <3>1. ss[i] = <<>>
      BY <1>1, <2>2
    <3> QED
      BY <2>2, <3>1
  <2> QED
    BY <2>1, <2>2
<1> HIDE DEF ss, out
<1>6. \A o : Contains(FlattenSeq(ss), o) <=>
               \E i \in 1 .. Len(out) : Indexable(out[i]) /\ o = ToStoredObject(out[i])
  BY <1>3, <1>5, FlattenRange
<1> QED
  BY <1>3, <1>4, <1>6, FlattenType DEF out

\* What one more transaction of a checkpoint adds.
LEMMA CreatedAppend ==
    ASSUME NEW txs \in Seq(Tx), NEW tx \in Tx
    PROVE  /\ CreatedObjects(txs) \in Seq(Row)
           /\ CreatedObjects(Append(txs, tx)) =
                CreatedObjects(txs) \o (IF TouchesStardust(tx) THEN RowsOf(tx)
                                                               ELSE <<>>)
<1> DEFINE Part(t) == IF TouchesStardust(t) THEN RowsOf(t) ELSE <<>>
           ss == [i \in DOMAIN txs |-> Part(txs[i])]
           tt == [i \in DOMAIN Append(txs, tx) |-> Part(Append(txs, tx)[i])]
<1>1. \A t \in Tx : Part(t) \in Seq(Row)
  BY RowsOfTx
<1> HIDE DEF Part
<1>2. /\ DOMAIN txs = 1 .. Len(txs) /\ Len(txs) \in Nat
      /\ \A i \in 1 .. Len(txs) : txs[i] \in Tx
  BY LenProperties
<1>3. ss \in Seq(Seq(Row))
  BY <1>1, <1>2
<1>4. tt = Append(ss, Part(tx))
  BY <1>1, <1>2
<1>5. FlattenSeq(tt) = FlattenSeq(ss) \o Part(tx)
  <2> HIDE DEF ss, tt
  <2> QED
    BY <1>1, <1>3, <1>4, FlattenAppend
<1>6. CreatedObjects(txs) = FlattenSeq(ss) /\ CreatedObjects(Append(txs, tx)) = FlattenSeq(tt)
  BY DEF CreatedObjects, Part
<1>7. FlattenSeq(ss) \in Seq(Row)
  <2> HIDE DEF ss
  <2> QED
    BY <1>3, FlattenType
<1> QED
  BY <1>5, <1>6, <1>7 DEF Part

LEMMA DeletedAppend ==
    ASSUME NEW txs \in Seq(Tx), NEW tx \in Tx
    PROVE  DeletedAddresses(Append(txs, tx)) =
              DeletedAddresses(txs) \cup
              (IF TouchesStardust(tx) THEN { id \in tx.removed : Static[id].shared }
                                      ELSE {})
<1> DEFINE all == Append(txs, tx)
           L == Len(txs)
<1>1. /\ DOMAIN txs = 1 .. L /\ L \in Nat /\ DOMAIN all = (1 .. L) \cup {L + 1}
      /\ \A i \in 1 .. L : all[i] = txs[i]
      /\ all[L + 1] = tx
  BY LenProperties, AppendProperties
<1> HIDE DEF all, L
<1>2. ASSUME NEW id
      PROVE  id \in DeletedAddresses(all) <=>
               \/ id \in DeletedAddresses(txs)
               \/ TouchesStardust(tx) /\ id \in tx.removed /\ Static[id].shared
  <2>1. id \in DeletedAddresses(all) <=>
          \E j \in DOMAIN all : /\ TouchesStardust(all[j])
                                /\ id \in all[j].removed /\ Static[id].shared
    BY DEF DeletedAddresses
  <2>2. id \in DeletedAddresses(txs) <=>
          \E j \in DOMAIN txs : /\ TouchesStardust(txs[j])
                                /\ id \in txs[j].removed /\ Static[id].shared
    BY DEF DeletedAddresses
  <2> QED
    BY <1>1, <2>1, <2>2
<1> QED
  BY <1>2 DEF all

-----------------------------------------------------------------------------
(* The ledger.                                                             *)

LEMMA SetToSeqLists ==
    ASSUME NEW S, IsFiniteSet(S)
    PROVE  /\ Cardinality(S) \in Nat
           /\ \A i \in 1 .. Cardinality(S) : SetToSeq(S)[i] \in S
           /\ \A x \in S : \E i \in 1 .. Cardinality(S) : SetToSeq(S)[i] = x
<1> DEFINE n == Cardinality(S)
           f == SetToSeq(S)
<1>1. n \in Nat /\ ExistsBijection(1 .. n, S)
  BY FS_CardinalityType
<1>2. \E g \in [1 .. n -> S] : IsInjective(g)
  BY <1>1 DEF ExistsBijection, Bijection, Injection
<1>3. f \in [1 .. n -> S] /\ IsInjective(f)
  BY <1>2 DEF SetToSeq
<1> HIDE DEF f
<1>4. f \in Injection(1 .. n, S)
  BY <1>3 DEF Injection
<1>5. Cardinality(1 .. n) = n
  BY <1>1, FS_Interval
<1>6. f \in Surjection(1 .. n, S)
  BY <1>4, <1>5, FS_Injection
<1> QED
  BY <1>1, <1>3, <1>6 DEF Surjection, f

\* What a checkpoint does to the table with one more transaction in it.
LEMMA ApplyAppend ==
    ASSUME NEW txs \in Seq(Tx), NEW tx \in Tx, NEW t, NEW o,
           \A i \in 1 .. Len(txs) : txs[i].valid, tx.valid,
           \A p, q : /\ Contains(RowsOf(tx), p) /\ Contains(RowsOf(tx), q)
                     /\ p.id = q.id
                     => p = q
    PROVE  o \in ApplyCheckpoint(t, Append(txs, tx)) <=>
             IF TouchesStardust(tx)
             THEN /\ ~(o.id \in tx.removed /\ Static[o.id].shared)
                  /\ \/ /\ o \in ApplyCheckpoint(t, txs)
                        /\ \A p : Contains(RowsOf(tx), p) => p.id # o.id
                     \/ o.id \notin DeletedAddresses(txs) /\ Contains(RowsOf(tx), o)
             ELSE o \in ApplyCheckpoint(t, txs)
<1>1. ~Refused(txs) /\ ~Refused(Append(txs, tx))
  <2>1. /\ DOMAIN txs = 1 .. Len(txs) /\ Len(txs) \in Nat
        /\ DOMAIN Append(txs, tx) = (1 .. Len(txs)) \cup {Len(txs) + 1}
        /\ \A i \in 1 .. Len(txs) : Append(txs, tx)[i] = txs[i]
        /\ Append(txs, tx)[Len(txs) + 1] = tx
    BY LenProperties, AppendProperties
  <2> QED
    BY <2>1 DEF Refused, InputsRefused
<1>2. /\ o \in ApplyCheckpoint(t, txs) <=>
           /\ o \in Insert(t, CreatedObjects(txs))
           /\ o.id \notin DeletedAddresses(txs)
      /\ o \in ApplyCheckpoint(t, Append(txs, tx)) <=>
           /\ o \in Insert(t, CreatedObjects(Append(txs, tx)))
           /\ o.id \notin DeletedAddresses(Append(txs, tx))
  BY <1>1 DEF ApplyCheckpoint, Delete
<1>3. CASE ~TouchesStardust(tx)
  <2>1. CreatedObjects(Append(txs, tx)) = CreatedObjects(txs)
    BY <1>3, CreatedAppend, ConcatEmptySeq
  <2>2. DeletedAddresses(Append(txs, tx)) = DeletedAddresses(txs)
    BY <1>3, DeletedAppend
  <2> QED
    BY <1>2, <1>3, <2>1, <2>2
<1>4. CASE TouchesStardust(tx)
  <2>1. /\ CreatedObjects(txs) \in Seq(Row) /\ RowsOf(tx) \in Seq(Row)
        /\ CreatedObjects(Append(txs, tx)) = CreatedObjects(txs) \o RowsOf(tx)
    BY <1>4, CreatedAppend, RowsOfTx
  <2>2. Insert(t, CreatedObjects(Append(txs, tx))) =
          Insert(Insert(t, CreatedObjects(txs)), RowsOf(tx))
    BY <2>1, InsertConcat
  <2>3. o \in Insert(t, CreatedObjects(Append(txs, tx))) <=>
          \/ /\ o \in Insert(t, CreatedObjects(txs))
             /\ \A p : Contains(RowsOf(tx), p) => p.id # o.id
          \/ Contains(RowsOf(tx), o)
    BY <2>1, <2>2, InsertAlike
  <2>4. o.id \in DeletedAddresses(Append(txs, tx)) <=>
          \/ o.id \in DeletedAddresses(txs)
          \/ o.id \in tx.removed /\ Static[o.id].shared
    BY <1>4, DeletedAppend
  <2> QED
    BY <1>2, <1>4, <2>3, <2>4
<1> QED
  BY <1>3, <1>4

\* An empty checkpoint does nothing.
LEMMA ApplyNothing ==
    ASSUME NEW t
    PROVE  ApplyCheckpoint(t, <<>>) = t
<1>1. ~Refused(<<>>) /\ DeletedAddresses(<<>>) = {}
  BY DEF Refused, DeletedAddresses
<1>2. CreatedObjects(<<>>) = <<>>
  BY DEF CreatedObjects, FlattenSeq
<1>3. <<>> \in Seq(Row) /\ Len(<<>>) = 0
  OBVIOUS
<1>4. Insert(t, <<>>) = t
  <2>1. PICK rows \in Seq(Row) : rows = <<>>
    BY <1>3
  <2>2. PICK f : f[0] = t /\ Insert(t, rows) = f[Len(rows)]
    BY InsertLoop
  <2> QED
    BY <1>3, <2>1, <2>2
<1> QED
  BY <1>1, <1>2, <1>4 DEF ApplyCheckpoint, Delete

-----------------------------------------------------------------------------
(* The inductive invariant.                                                *)

\* If the checkpoint were sealed now, the index would be exact: each transaction
\* keeps that so, whichever checkpoint it ends in.
PendingExact == OfPackage(ApplyCheckpoint(table, batch)) = Owed

LedgerInv ==
    /\ TypeOK
    /\ batch \in Seq(Tx)
    /\ \A i \in 1 .. Len(batch) : batch[i].valid
    /\ ~height /\ batch = <<>> => \A id \in Id : live[id] = Unborn
    /\ \A id \in DeletedAddresses(batch) : live[id] = Gone
    /\ CallsAreDirect => PendingExact

\* The row the index owes for an object at some version.
RowAt(id, version) ==
    [id |-> id, object_type |-> Kinds[Static[id].kind], contents |-> version]

Wanted(id) == Static[id].shared /\ IsOutputType(id)

LEMMA OwedRows ==
    ASSUME NEW o
    PROVE  o \in Owed <=> \E id \in Id : /\ live[id] \in Contents
                                         /\ Static[id].package = PackageId
                                         /\ Wanted(id)
                                         /\ o = RowAt(id, live[id])
  BY DEF Owed, Exists, Wanted, RowAt

\* The versions a transaction may give the objects it writes.
Versions(written) == [written -> Contents]

\* The rows of a transaction that writes these objects at these versions.
LEMMA RowsWritten ==
    ASSUME NEW written \in SUBSET Id, NEW version \in Versions(written),
           NEW tx \in Tx,
           \A i \in 1 .. Len(tx.outputs) :
              \E id \in written : tx.outputs[i] = [id |-> id, contents |-> version[id]],
           \A id \in written : \E i \in 1 .. Len(tx.outputs) :
              tx.outputs[i] = [id |-> id, contents |-> version[id]]
    PROVE  \A o : Contains(RowsOf(tx), o) <=>
              \E id \in written : Wanted(id) /\ o = RowAt(id, version[id])
<1>1. ASSUME NEW id \in written
      PROVE  LET out == [id |-> id, contents |-> version[id]]
             IN  /\ Indexable(out) <=> Wanted(id)
                 /\ ToStoredObject(out) = RowAt(id, version[id])
  BY DEF Indexable, Wanted, ToStoredObject, RowAt
<1>2. \A o : Contains(RowsOf(tx), o) <=>
               \E i \in 1 .. Len(tx.outputs) :
                  Indexable(tx.outputs[i]) /\ o = ToStoredObject(tx.outputs[i])
  BY RowsOfTx
<1> SUFFICES ASSUME NEW o
             PROVE  (\E i \in 1 .. Len(tx.outputs) :
                        Indexable(tx.outputs[i]) /\ o = ToStoredObject(tx.outputs[i]))
                    <=> \E id \in written : Wanted(id) /\ o = RowAt(id, version[id])
  BY <1>2
<1>3. ASSUME NEW i \in 1 .. Len(tx.outputs),
             Indexable(tx.outputs[i]), o = ToStoredObject(tx.outputs[i])
      PROVE  \E id \in written : Wanted(id) /\ o = RowAt(id, version[id])
  <2>1. PICK id \in written : tx.outputs[i] = [id |-> id, contents |-> version[id]]
    OBVIOUS
  <2> QED
    BY <1>1, <1>3, <2>1
<1>4. ASSUME NEW id \in written, Wanted(id), o = RowAt(id, version[id])
      PROVE  \E i \in 1 .. Len(tx.outputs) :
                Indexable(tx.outputs[i]) /\ o = ToStoredObject(tx.outputs[i])
  <2>1. PICK i \in 1 .. Len(tx.outputs) :
                tx.outputs[i] = [id |-> id, contents |-> version[id]]
    OBVIOUS
  <2> QED
    BY <1>1, <1>4, <2>1
<1> QED
  BY <1>3, <1>4

\* A transaction that says truly what it does to the ledger.
Truthful(tx, written, version) ==
    /\ tx \in Tx /\ tx.valid
    /\ written \in SUBSET Id /\ version \in Versions(written)
    /\ written \cap tx.removed = {}
    /\ \A o : Contains(RowsOf(tx), o) <=>
          \E id \in written : Wanted(id) /\ o = RowAt(id, version[id])
    /\ \A id \in written : live[id] # Gone /\ live'[id] = version[id]
    /\ \A id \in tx.removed : live'[id] = Gone
    /\ \A id \in Id \ (written \cup tx.removed) : live'[id] = live[id]
    /\ CallsAreDirect /\ ~TouchesStardust(tx) =>
          \A id \in written \cup tx.removed : Static[id].package # PackageId

LEMMA TransactionGone ==
    ASSUME LedgerInv, NEW tx, NEW written, NEW version,
           Truthful(tx, written, version)
    PROVE  \A id \in DeletedAddresses(Append(batch, tx)) : live'[id] = Gone
<1>1. DeletedAddresses(Append(batch, tx)) =
        DeletedAddresses(batch) \cup
        (IF TouchesStardust(tx) THEN { id \in tx.removed : Static[id].shared } ELSE {})
  BY DeletedAppend DEF LedgerInv, Truthful
<1>2. DeletedAddresses(batch) \subseteq Id
  <2>1. \A i \in DOMAIN batch : batch[i].removed \subseteq Id
    <3>1. \A i \in DOMAIN batch : batch[i] \in Tx
      BY LenProperties DEF LedgerInv
    <3> QED
      BY <3>1 DEF Tx
  <2> QED
    BY <2>1, Zenon DEF DeletedAddresses
<1>3. \A id \in DeletedAddresses(batch) : live[id] = Gone
  BY DEF LedgerInv
<1> QED
  BY <1>1, <1>2, <1>3 DEF Truthful

LEMMA TransactionExact ==
    ASSUME LedgerInv, CallsAreDirect, UNCHANGED table,
           NEW tx, NEW written, NEW version,
           Truthful(tx, written, version), batch' = Append(batch, tx)
    PROVE  PendingExact'
<1>1. ASSUME NEW p, NEW q, Contains(RowsOf(tx), p), Contains(RowsOf(tx), q),
             p.id = q.id
      PROVE  p = q
  BY <1>1 DEF Truthful, RowAt
<1>2. \A o : o \in ApplyCheckpoint(table, batch) /\ Static[o.id].package = PackageId
               <=> o \in Owed
  <2>1. \A o : o \in OfPackage(ApplyCheckpoint(table, batch)) <=> o \in Owed
    BY DEF LedgerInv, PendingExact
  <2> QED
    BY <2>1 DEF OfPackage
<1>3. \A o : o \in Owed' <=> \E id \in Id : /\ live'[id] \in Contents
                                            /\ Static[id].package = PackageId
                                            /\ Wanted(id)
                                            /\ o = RowAt(id, live'[id])
  BY DEF Owed, Exists, Wanted, RowAt
<1>4. Gone \notin Contents /\ Unborn \notin Contents
  BY LedgerAssumption
<1>5. ASSUME NEW o
      PROVE  o \in ApplyCheckpoint(table, Append(batch, tx))
               /\ Static[o.id].package = PackageId
             <=> o \in Owed'
  <2>1. o \in ApplyCheckpoint(table, Append(batch, tx)) <=>
          IF TouchesStardust(tx)
          THEN /\ ~(o.id \in tx.removed /\ Static[o.id].shared)
               /\ \/ /\ o \in ApplyCheckpoint(table, batch)
                     /\ \A p : Contains(RowsOf(tx), p) => p.id # o.id
                  \/ o.id \notin DeletedAddresses(batch) /\ Contains(RowsOf(tx), o)
          ELSE o \in ApplyCheckpoint(table, batch)
    BY <1>1, ApplyAppend DEF LedgerInv, Truthful
  <2>2. \A id \in written : Wanted(id) => Contains(RowsOf(tx), RowAt(id, version[id]))
    BY DEF Truthful
  <2>3. ASSUME o \in ApplyCheckpoint(table, Append(batch, tx)),
               Static[o.id].package = PackageId
        PROVE  o \in Owed'
    <3>1. CASE TouchesStardust(tx) /\ Contains(RowsOf(tx), o)
      <4>1. PICK id \in written : Wanted(id) /\ o = RowAt(id, version[id])
        BY <3>1 DEF Truthful
      <4>2. id \in Id /\ live'[id] = version[id] /\ version[id] \in Contents /\ o.id = id
        BY <4>1 DEF Truthful, Versions, RowAt
      <4> QED
        BY <1>3, <2>3, <4>1, <4>2
    <3>2. CASE ~(TouchesStardust(tx) /\ Contains(RowsOf(tx), o))
      <4>1. o \in ApplyCheckpoint(table, batch)
        BY <2>1, <2>3, <3>2
      <4>2. PICK id \in Id : /\ live[id] \in Contents
                             /\ Static[id].package = PackageId
                             /\ Wanted(id)
                             /\ o = RowAt(id, live[id])
        BY <1>2, <2>3, <4>1, OwedRows
      <4>3. o.id = id
        BY <4>2 DEF RowAt
      <4>4. id \notin written \cup tx.removed
        <5>1. CASE TouchesStardust(tx)
          <6>1. id \notin tx.removed
            BY <2>1, <2>3, <4>2, <4>3, <5>1 DEF Wanted
          <6>2. \A q : Contains(RowsOf(tx), q) => q.id # id
            BY <2>1, <2>3, <3>2, <4>3, <5>1
          <6>3. RowAt(id, version[id]).id = id
            BY DEF RowAt
          <6>4. id \notin written
            BY <2>2, <4>2, <6>2, <6>3
          <6> QED
            BY <6>1, <6>4
        <5>2. CASE ~TouchesStardust(tx)
          BY <4>2, <5>2 DEF Truthful
        <5> QED
          BY <5>1, <5>2
      <4>5. live'[id] = live[id]
        BY <4>4 DEF Truthful
      <4> QED
        BY <1>3, <4>2, <4>5
    <3> QED
      BY <3>1, <3>2
  <2>4. ASSUME o \in Owed'
        PROVE  o \in ApplyCheckpoint(table, Append(batch, tx))
                 /\ Static[o.id].package = PackageId
    <3>1. PICK id \in Id : /\ live'[id] \in Contents
                           /\ Static[id].package = PackageId
                           /\ Wanted(id)
                           /\ o = RowAt(id, live'[id])
      BY <1>3, <2>4
    <3>2. o.id = id /\ id \notin tx.removed
      BY <1>4, <3>1 DEF RowAt, Truthful
    <3>3. CASE id \in written
      <4>1. TouchesStardust(tx)
        BY <3>1, <3>3 DEF Truthful
      <4>2. live'[id] = version[id] /\ live[id] # Gone
        BY <3>3 DEF Truthful
      <4>3. Contains(RowsOf(tx), o) /\ o.id \notin DeletedAddresses(batch)
        BY <2>2, <3>1, <3>2, <3>3, <4>2 DEF LedgerInv
      <4> QED
        BY <2>1, <3>1, <3>2, <4>1, <4>3
    <3>4. CASE id \notin written
      <4>1. live'[id] = live[id]
        BY <3>2, <3>4 DEF Truthful
      <4>2. o \in ApplyCheckpoint(table, batch)
        BY <1>2, <3>1, <4>1, OwedRows
      <4>3. \A p : Contains(RowsOf(tx), p) => p.id # o.id
        BY <3>2, <3>4 DEF Truthful, RowAt
      <4> QED
        BY <2>1, <3>1, <3>2, <4>2, <4>3
    <3> QED
      BY <3>3, <3>4
  <2> QED
    BY <2>3, <2>4
<1>6. OfPackage(ApplyCheckpoint(table, Append(batch, tx))) = Owed'
  BY <1>5 DEF OfPackage
<1> QED
  BY <1>6 DEF PendingExact, OfPackage

\* Versions do not leave their bound.
LEMMA VersionBounds ==
    ASSUME NEW id \in Id, CanChange(id)
    PROVE  NextVersion(id) \in Contents /\ 1 \in Contents /\ live[id] # Gone
<1> USE LedgerAssumption DEF Contents
<1>1. CASE live[id] = Unborn
  BY <1>1 DEF NextVersion
<1>2. CASE live[id] # Unborn
  <2>1. live[id] \in 1 .. MaxVersion /\ live[id] < MaxVersion
    BY <1>2 DEF CanChange, Exists
  <2> QED
    BY <1>2, <2>1 DEF NextVersion
<1> QED
  BY <1>1, <1>2

\* The outputs of a transaction, listed in some order.
Listed(written, version) ==
    [i \in 1 .. Cardinality(written) |->
        [id |-> SetToSeq(written)[i], contents |-> version[SetToSeq(written)[i]]]]

LEMMA Listing ==
    ASSUME NEW written \in SUBSET Id, NEW version \in Versions(written),
           NEW out, out = Listed(written, version)
    PROVE  /\ out \in Seq(Output)
           /\ \A i \in 1 .. Len(out) :
                \E id \in written : out[i] = [id |-> id, contents |-> version[id]]
           /\ \A id \in written : \E i \in 1 .. Len(out) :
                out[i] = [id |-> id, contents |-> version[id]]
<1> DEFINE n == Cardinality(written)
           f == SetToSeq(written)
<1>1. IsFiniteSet(written)
  BY LedgerAssumption, FS_Subset
<1>2. /\ n \in Nat
      /\ \A i \in 1 .. n : f[i] \in written
      /\ \A x \in written : \E i \in 1 .. n : f[i] = x
  BY <1>1, SetToSeqLists
<1>3. out = [i \in 1 .. n |-> [id |-> f[i], contents |-> version[f[i]]]]
  BY DEF Listed
<1> HIDE DEF n, f
<1>4. \A i \in 1 .. n : [id |-> f[i], contents |-> version[f[i]]] \in Output
  <2>1. \A id \in written : id \in Id /\ version[id] \in Contents
    BY DEF Versions
  <2> QED
    BY <1>2, <2>1 DEF Output
<1>5. /\ out \in Seq(Output) /\ Len(out) = n
      /\ \A i \in 1 .. n : out[i] = [id |-> f[i], contents |-> version[f[i]]]
  BY <1>2, <1>3, <1>4
<1>6. \A i \in 1 .. n :
        \E id \in written : out[i] = [id |-> id, contents |-> version[id]]
  BY <1>2, <1>5
<1>7. \A id \in written :
        \E i \in 1 .. n : out[i] = [id |-> id, contents |-> version[id]]
  BY <1>2, <1>5
<1> QED
  BY <1>5, <1>6, <1>7

LEMMA LedgerInitInv == Init => LedgerInv
<1> SUFFICES ASSUME Init PROVE LedgerInv
  OBVIOUS
<1>1. TypeOK
  <2>1. live \in [Id -> Contents \cup {Unborn, Gone}]
    BY DEF Init
  <2>2. Len(<<>>) \in 0 .. MaxBatch
    BY LedgerAssumption
  <2> QED
    BY <2>1, <2>2 DEF Init, TypeOK
<1>2. batch \in Seq(Tx) /\ DeletedAddresses(batch) = {} /\ Len(batch) = 0
  BY DEF Init, DeletedAddresses
<1>3. OfPackage(ApplyCheckpoint(table, batch)) = {}
  BY ApplyNothing DEF Init, OfPackage
<1>4. Owed = {}
  BY LedgerAssumption DEF Init, Owed, Exists
<1> QED
  BY <1>1, <1>2, <1>3, <1>4 DEF LedgerInv, PendingExact, Init

\* Executing a truthful transaction preserves the invariant, if it keeps the
\* bounds of its own variables.
LEMMA TransactionStep ==
    ASSUME LedgerInv, TypeOK', UNCHANGED table, height' \/ batch' # <<>>,
           NEW tx, NEW written, NEW version,
           Truthful(tx, written, version), batch' = Append(batch, tx)
    PROVE  LedgerInv'
<1>1. batch' \in Seq(Tx) /\ \A i \in 1 .. Len(batch') : batch'[i].valid
  <2>1. tx \in Tx /\ tx.valid /\ batch \in Seq(Tx)
        /\ \A i \in 1 .. Len(batch) : batch[i].valid
    BY DEF LedgerInv, Truthful
  <2>2. /\ Len(batch) \in Nat /\ Len(batch') = Len(batch) + 1
        /\ \A i \in 1 .. Len(batch) : batch'[i] = batch[i]
        /\ batch'[Len(batch) + 1] = tx /\ batch' \in Seq(Tx)
    BY <2>1, LenProperties, AppendProperties
  <2> QED
    BY <2>1, <2>2
<1>2. \A id \in DeletedAddresses(batch') : live'[id] = Gone
  BY TransactionGone
<1>3. CallsAreDirect => PendingExact'
  BY TransactionExact
<1> QED
  BY <1>1, <1>2, <1>3 DEF LedgerInv

LEMMA GenesisStep ==
    ASSUME LedgerInv, NEW created \in SUBSET Id, Genesis(created)
    PROVE  LedgerInv'
<1>1. /\ 1 \in Contents /\ Unborn # Gone
      /\ [id \in created |-> 1] \in [created -> Contents]
  BY LedgerAssumption DEF Contents
<1>2. PICK version \in Versions(created) : \A id \in created : version[id] = 1
  BY <1>1 DEF Versions
<1>3. PICK out : out = Listed(created, version)
  OBVIOUS
<1>4. /\ out \in Seq(Output)
      /\ \A i \in 1 .. Len(out) :
           \E id \in created : out[i] = [id |-> id, contents |-> version[id]]
      /\ \A id \in created : \E i \in 1 .. Len(out) :
           out[i] = [id |-> id, contents |-> version[id]]
  BY <1>3, Listing
<1>5. PICK tx : tx = [genesis |-> TRUE, packages |-> {}, valid |-> TRUE,
                      outputs |-> out, removed |-> {}]
  OBVIOUS
<1>6. batch' = <<tx>>
  <2>1. \A i \in 1 .. Cardinality(created) : SetToSeq(created)[i] \in created
    BY LedgerAssumption, FS_Subset, SetToSeqLists
  <2>2. out = [i \in 1 .. Cardinality(created) |->
                 [id |-> SetToSeq(created)[i], contents |-> 1]]
    BY <1>2, <1>3, <2>1 DEF Listed
  <2> QED
    BY <1>5, <2>2, Zenon DEF Genesis
<1>7. /\ UNCHANGED <<height, table>> /\ ~height /\ batch = <<>>
      /\ live' = [id \in Id |-> IF id \in created THEN 1 ELSE live[id]]
  BY DEF Genesis
<1>8. tx \in Tx /\ tx.valid /\ tx.outputs = out /\ tx.removed = {}
      /\ TouchesStardust(tx)
  BY <1>4, <1>5 DEF Tx, TouchesStardust
<1>9. \A o : Contains(RowsOf(tx), o) <=>
               \E id \in created : Wanted(id) /\ o = RowAt(id, version[id])
  <2>1. /\ \A i \in 1 .. Len(tx.outputs) :
             \E id \in created : tx.outputs[i] = [id |-> id, contents |-> version[id]]
        /\ \A id \in created : \E i \in 1 .. Len(tx.outputs) :
             tx.outputs[i] = [id |-> id, contents |-> version[id]]
    BY <1>4, <1>8
  <2> QED
    BY <1>8, <2>1, RowsWritten
<1>10. \A id \in Id : live[id] = Unborn
  BY <1>7 DEF LedgerInv
<1>11. Truthful(tx, created, version)
  BY <1>1, <1>2, <1>7, <1>8, <1>9, <1>10 DEF Truthful
<1>12. TypeOK'
  <2>1. live' \in [Id -> Contents \cup {Unborn, Gone}]
    BY <1>1, <1>7 DEF LedgerInv, TypeOK
  <2>2. Len(batch') \in 0 .. MaxBatch
    BY <1>6, LedgerAssumption
  <2> QED
    BY <1>7, <2>1, <2>2 DEF LedgerInv, TypeOK
<1>13. batch' = Append(batch, tx) /\ batch' # <<>>
  BY <1>6, <1>7
<1> QED
  BY <1>7, <1>11, <1>12, <1>13, TransactionStep

LEMMA ExecuteStep ==
    ASSUME LedgerInv, NEW packages \in SUBSET Package,
           NEW written \in SUBSET Id, NEW removed \in SUBSET Id,
           Execute(packages, written, removed)
    PROVE  LedgerInv'
<1>1. /\ \A id \in written : NextVersion(id) \in Contents /\ live[id] # Gone
      /\ [id \in written |-> NextVersion(id)] \in [written -> Contents]
  BY VersionBounds DEF Execute
<1>2. PICK version \in Versions(written) :
        \A id \in written : version[id] = NextVersion(id)
  BY <1>1 DEF Versions
<1>3. PICK out : out = Listed(written, version)
  OBVIOUS
<1>4. /\ out \in Seq(Output)
      /\ \A i \in 1 .. Len(out) :
           \E id \in written : out[i] = [id |-> id, contents |-> version[id]]
      /\ \A id \in written : \E i \in 1 .. Len(out) :
           out[i] = [id |-> id, contents |-> version[id]]
  BY <1>3, Listing
<1>5. PICK tx : tx = [genesis |-> FALSE, packages |-> packages, valid |-> TRUE,
                      outputs |-> out, removed |-> removed]
  OBVIOUS
<1>6. batch' = Append(batch, tx)
  <2>1. \A i \in 1 .. Cardinality(written) : SetToSeq(written)[i] \in written
    BY LedgerAssumption, FS_Subset, SetToSeqLists
  <2>2. out = [i \in 1 .. Cardinality(written) |->
                 [id |-> SetToSeq(written)[i],
                  contents |-> NextVersion(SetToSeq(written)[i])]]
    BY <1>2, <1>3, <2>1 DEF Listed
  <2> QED
    BY <1>5, <2>2, Zenon DEF Execute
<1>7. /\ height /\ UNCHANGED <<height, table>>
      /\ Len(batch) < MaxBatch /\ written \cap removed = {}
      /\ CallsAreDirect =>
           \A id \in written \cup removed : Static[id].package \in packages
      /\ live' = [id \in Id |-> CASE id \in written -> NextVersion(id)
                                  [] id \in removed -> Gone
                                  [] OTHER          -> live[id]]
  BY DEF Execute
<1>8. /\ \A id \in written : live'[id] = version[id]
      /\ \A id \in removed : live'[id] = Gone
      /\ \A id \in Id \ (written \cup removed) : live'[id] = live[id]
  BY <1>2, <1>7
<1>9. tx \in Tx /\ tx.valid /\ tx.outputs = out /\ tx.removed = removed
      /\ (TouchesStardust(tx) <=> PackageId \in packages)
  BY <1>4, <1>5 DEF Tx, TouchesStardust
<1>10. \A o : Contains(RowsOf(tx), o) <=>
                \E id \in written : Wanted(id) /\ o = RowAt(id, version[id])
  <2>1. /\ \A i \in 1 .. Len(tx.outputs) :
             \E id \in written : tx.outputs[i] = [id |-> id, contents |-> version[id]]
        /\ \A id \in written : \E i \in 1 .. Len(tx.outputs) :
             tx.outputs[i] = [id |-> id, contents |-> version[id]]
    BY <1>4, <1>9
  <2> QED
    BY <1>9, <2>1, RowsWritten
<1>11. Truthful(tx, written, version)
  BY <1>1, <1>7, <1>8, <1>9, <1>10 DEF Truthful
<1>12. TypeOK'
  <2>1. live' \in [Id -> Contents \cup {Unborn, Gone}]
    BY <1>1, <1>7 DEF LedgerInv, TypeOK
  <2>2. Len(batch') \in 0 .. MaxBatch
    BY <1>6, <1>7, <1>9, LedgerAssumption, AppendProperties DEF LedgerInv, TypeOK
  <2> QED
    BY <1>7, <2>1, <2>2 DEF LedgerInv, TypeOK
<1> QED
  BY <1>6, <1>7, <1>11, <1>12, TransactionStep

LEMMA CheckpointStep ==
    ASSUME LedgerInv, Checkpoint
    PROVE  LedgerInv'
<1> DEFINE created == CreatedObjects(batch)
<1>1. /\ table' = ApplyCheckpoint(table, batch) /\ batch' = <<>> /\ height'
      /\ live' = live /\ batch # <<>>
  BY DEF Checkpoint
<1>2. created \in Seq(Row)
  <2>1. batch[1] \in Tx /\ batch \in Seq(Tx)
    BY <1>1, EmptySeq, LenProperties DEF LedgerInv
  <2> QED
    BY <2>1, CreatedAppend
<1>3. table \subseteq Row /\ \A r, q \in table : r.id = q.id => r = q
  BY DEF LedgerInv, TypeOK
<1>4. ASSUME NEW r, NEW q, r \in Insert(table, created), q \in Insert(table, created)
      PROVE  r \in Row /\ (r.id = q.id => r = q)
  <2> DEFINE Old(o) == o \in table /\ \A i \in 1 .. Len(created) : created[i].id # o.id
             Final(o, i) == /\ o = created[i]
                            /\ \A k \in i + 1 .. Len(created) : created[k].id # o.id
  <2>1. /\ Old(r) \/ \E i \in 1 .. Len(created) : Final(r, i)
        /\ Old(q) \/ \E i \in 1 .. Len(created) : Final(q, i)
    BY <1>2, <1>4, LastRowWins
  <2>2. /\ Len(created) \in Nat
        /\ \A i \in 1 .. Len(created) : created[i] \in Row
    BY <1>2, LenProperties
  <2> HIDE DEF created
  <2>3. r \in Row
    BY <1>3, <2>1, <2>2
  <2>4. ASSUME Old(r), Old(q), r.id = q.id PROVE r = q
    BY <1>3, <2>4
  <2>5. \A i \in 1 .. Len(created) : /\ Old(r) /\ Final(q, i) => r.id # q.id
                                     /\ Old(q) /\ Final(r, i) => r.id # q.id
    OBVIOUS
  <2>6. ASSUME NEW i \in 1 .. Len(created), NEW j \in 1 .. Len(created),
               Final(r, i), Final(q, j), r.id = q.id
        PROVE  r = q
    <3>1. j \notin i + 1 .. Len(created) /\ i \notin j + 1 .. Len(created)
      BY <2>6
    <3>2. i = j
      BY <2>2, <3>1
    <3> QED
      BY <2>6, <3>2
  <2> HIDE DEF Old, Final
  <2> QED
    BY <2>1, <2>3, <2>4, <2>5, <2>6
<1>5. table' \subseteq Insert(table, created) \cup table
  BY <1>1, Zenon DEF ApplyCheckpoint, Delete
<1>6. ~Refused(batch)
  BY LenProperties DEF Refused, InputsRefused, LedgerInv
<1>7. table' \subseteq Insert(table, created)
  BY <1>1, <1>6 DEF ApplyCheckpoint, Delete
<1>8. TypeOK'
  <2>1. table' \subseteq Row /\ \A r, q \in table' : r.id = q.id => r = q
    BY <1>4, <1>7
  <2>2. Len(<<>>) \in 0 .. MaxBatch
    BY LedgerAssumption
  <2> QED
    BY <1>1, <2>1, <2>2 DEF LedgerInv, TypeOK
<1>9. /\ batch' \in Seq(Tx) /\ Len(batch') = 0
      /\ DeletedAddresses(batch') = {}
  BY <1>1 DEF DeletedAddresses
<1>10. CallsAreDirect => PendingExact'
  <2>1. ApplyCheckpoint(table', batch') = ApplyCheckpoint(table, batch)
    BY <1>1, ApplyNothing
  <2>2. Owed' = Owed
    BY <1>1 DEF Owed, Exists
  <2> QED
    BY <2>1, <2>2 DEF LedgerInv, PendingExact, OfPackage
<1> QED
  BY <1>1, <1>8, <1>9, <1>10 DEF LedgerInv

LEMMA LedgerStep == LedgerInv /\ [Next]_vars => LedgerInv'
<1> SUFFICES ASSUME LedgerInv, [Next]_vars PROVE LedgerInv'
  OBVIOUS
<1>1. ASSUME NEW created \in SUBSET Id, Genesis(created) PROVE LedgerInv'
  BY <1>1, GenesisStep
<1>2. ASSUME NEW packages \in SUBSET Package, NEW written \in SUBSET Id,
             NEW removed \in SUBSET Id, Execute(packages, written, removed)
      PROVE  LedgerInv'
  BY <1>2, ExecuteStep
<1>3. CASE Checkpoint
  BY <1>3, CheckpointStep
<1>4. CASE UNCHANGED vars
  BY <1>4 DEF vars, LedgerInv, TypeOK, PendingExact, OfPackage, Owed, Exists
<1> QED
  BY <1>1, <1>2, <1>3, <1>4 DEF Next

-----------------------------------------------------------------------------
(* Theorems.                                                               *)

\* The inductive invariant holds in every reachable state.
THEOREM LedgerInvariance == Spec => []LedgerInv
  BY LedgerInitInv, LedgerStep, PTL DEF Spec

\* The table keeps one row for an id, of its types, whatever the checkpoints hold
\* (the upsert of worker.rs:79-84).
THEOREM LedgerTypeCorrect == Spec => []TypeOK
  BY LedgerInvariance, PTL DEF LedgerInv

\* If objects change only in transactions that call their package, the rows of
\* the configured package are exactly its living shared outputs, whatever the
\* order of creations, changes and removals inside a checkpoint.
THEOREM RowsAreExact ==
    ASSUME CallsAreDirect
    PROVE  Spec => []PackageRowsExact
<1>1. LedgerInv => PackageRowsExact
  BY ApplyNothing DEF LedgerInv, PendingExact, PackageRowsExact, Synced
<1> QED
  BY <1>1, LedgerInvariance, PTL
=============================================================================
