------------------------- MODULE FrontOperatorProofs -------------------------
(***************************************************************************)
(* What the operators under GatewayFront compute, for every input: sorting,*)
(* the bytes of a head and the lines found in them, the fold over header   *)
(* lines and over the lines of a file, the byte buffer.  Induction is over *)
(* sets of numbers, from the least element of such a set.                  *)
(***************************************************************************)
EXTENDS GatewayFront,
        FiniteSetTheorems, SequenceTheorems, WellFoundedInduction, TLAPS

(* Induction *)

\* A set of numbers that is not empty has a least element.
LEMMA LeastNumber ==
  ASSUME NEW T \in SUBSET Nat, T # {}
  PROVE  \E n \in T : \A m \in T : n <= m
<1>1. IsWellFoundedOn(OpToRel(<, Nat), Nat)
  BY NatLessThanWellFounded
<1>2. PICK n \in T : \A m \in T : ~(<<m, n>> \in OpToRel(<, Nat))
  BY <1>1, WFMin
<1>3. \A m \in T : ~(m < n)
  BY <1>2 DEF OpToRel
<1> QED
  BY <1>3

\* A set with zero and the successors of its elements holds every number.
LEMMA Induction ==
  ASSUME NEW T \in SUBSET Nat, 0 \in T, \A n \in T : n + 1 \in T
  PROVE  T = Nat
<1> SUFFICES ASSUME Nat \ T # {} PROVE FALSE
  OBVIOUS
<1>1. PICK n \in Nat \ T : \A m \in Nat \ T : n <= m
  BY LeastNumber
<1>2. n # 0 /\ n - 1 \in Nat /\ n - 1 \in T
  BY <1>1
<1> QED
  BY <1>1, <1>2

----------------------------------------------------------------------------
(* Sorting *)

\* The elements of S that R puts before e.
Below(S, R, e) == {f \in S : <<f, e>> \in R}

Strict(S, R) ==
  /\ \A e \in S : <<e, e>> \notin R
  /\ \A e, f, g \in S : <<e, f>> \in R /\ <<f, g>> \in R => <<e, g>> \in R
  /\ \A e, f \in S : e = f \/ <<e, f>> \in R \/ <<f, e>> \in R

\* In a strict total order, the elements of a set have different numbers of
\* elements before them, and every number below the size occurs.
LEMMA Ranks ==
  ASSUME NEW S, IsFiniteSet(S), NEW R, Strict(S, R)
  PROVE  /\ Cardinality(S) \in Nat
         /\ \A e \in S : Cardinality(Below(S, R, e)) \in 0..(Cardinality(S) - 1)
         /\ \A e, f \in S : <<e, f>> \in R =>
              Cardinality(Below(S, R, e)) < Cardinality(Below(S, R, f))
         /\ \A k \in 0..(Cardinality(S) - 1) :
              \E e \in S : Cardinality(Below(S, R, e)) = k
<1> DEFINE n == Cardinality(S)
           B(e) == Below(S, R, e)
           rank == [e \in S |-> Cardinality(B(e))]
<1>1. n \in Nat
  BY FS_CardinalityType
<1>2. ASSUME NEW e \in S
      PROVE  /\ IsFiniteSet(B(e)) /\ Cardinality(B(e)) \in 0..(n - 1)
             /\ Cardinality(B(e) \cup {e}) = Cardinality(B(e)) + 1
  <2>1. B(e) \subseteq S /\ e \notin B(e) /\ B(e) \cup {e} \subseteq S
    BY DEF Below, Strict
  <2>2. IsFiniteSet(B(e)) /\ Cardinality(B(e)) \in Nat
    BY <2>1, FS_Subset, FS_CardinalityType
  <2>3. Cardinality(B(e) \cup {e}) = Cardinality(B(e)) + 1
    BY <2>1, <2>2, FS_AddElement
  <2>4. Cardinality(B(e) \cup {e}) <= n
    BY <2>1, FS_Subset
  <2> QED
    BY <1>1, <2>2, <2>3, <2>4
<1>a. ASSUME NEW e \in S PROVE Cardinality(B(e)) \in Int
  <2>1. Cardinality(B(e)) \in 0..(n - 1)
    BY <1>2
  <2> QED
    BY <1>1, <2>1
<1>3. ASSUME NEW e \in S, NEW f \in S, <<e, f>> \in R
      PROVE  Cardinality(B(e)) < Cardinality(B(f))
  <2>1. B(e) \cup {e} \subseteq B(f)
    BY <1>3 DEF Below, Strict
  <2>2. Cardinality(B(e) \cup {e}) <= Cardinality(B(f))
    BY <1>2, <2>1, FS_Subset
  <2>3. Cardinality(B(e)) \in Int /\ Cardinality(B(f)) \in Int
    BY <1>a
  <2> QED
    BY <1>2, <2>2, <2>3
<1> HIDE DEF B
<1>4. ASSUME NEW k \in 0..(n - 1), \A e \in S : rank[e] # k PROVE FALSE
  <2> DEFINE T == (0..(n - 1)) \ {k}
  <2>1. IsFiniteSet(0..(n - 1)) /\ Cardinality(0..(n - 1)) = n
    <3>1. n # 0
      BY <1>1
    <3> QED
      BY <1>1, <3>1, FS_Interval
  <2>2. IsFiniteSet(T) /\ Cardinality(T) = n - 1
    BY <2>1, FS_RemoveElement
  <2>3. rank \in [S -> T]
    BY <1>2, <1>4
  <2>4. Cardinality(T) < Cardinality(S)
    BY <1>1, <2>2
  <2> HIDE DEF rank, T
  <2>5. \E e, f \in S : e # f /\ rank[e] = rank[f]
    BY <2>2, <2>3, <2>4, FS_PigeonHole
  <2>6. PICK e \in S, f \in S : e # f /\ rank[e] = rank[f]
    BY <2>5
  <2>7. Cardinality(B(e)) = Cardinality(B(f))
    BY <2>6 DEF rank
  <2>8. <<e, f>> \in R \/ <<f, e>> \in R
    BY <2>6 DEF Strict
  <2>9. Cardinality(B(e)) \in Int /\ Cardinality(B(f)) \in Int
    BY <1>a
  <2> QED
    BY <1>3, <2>7, <2>8, <2>9
<1> QED
  BY <1>1, <1>2, <1>3, <1>4 DEF B

\* A sequence whose k-th element has k - 1 elements before it is the set in order.
LEMMA InOrder ==
  ASSUME NEW S, IsFiniteSet(S), NEW R, Strict(S, R),
         NEW q, \A k \in 1..Cardinality(S) :
                  q[k] \in S /\ Cardinality(Below(S, R, q[k])) = k - 1
  PROVE  /\ \A e \in S : \E k \in 1..Cardinality(S) : q[k] = e
         /\ \A i, j \in 1..Cardinality(S) : i < j <=> <<q[i], q[j]>> \in R
<1> DEFINE n == Cardinality(S)
           Rank(e) == Cardinality(Below(S, R, e))
<1>1. /\ n \in Nat /\ \A e \in S : Rank(e) \in 0..(n - 1)
      /\ \A e, f \in S : <<e, f>> \in R => Rank(e) < Rank(f)
  BY Ranks
<1>2. \A k \in 1..n : q[k] \in S /\ Rank(q[k]) = k - 1
  OBVIOUS
<1>a. \A e, f \in S : e = f \/ <<e, f>> \in R \/ <<f, e>> \in R
  BY DEF Strict
<1> HIDE DEF Rank, n
<1>b. \A e \in S : Rank(e) \in Int
  BY <1>1
<1>3. ASSUME NEW e \in S, NEW f \in S, Rank(e) = Rank(f) PROVE e = f
  <2>1. ~(Rank(e) < Rank(f)) /\ ~(Rank(f) < Rank(e))
    BY <1>3, <1>b
  <2> QED
    BY <1>1, <1>a, <2>1
<1>4. ASSUME NEW e \in S PROVE \E k \in 1..n : q[k] = e
  <2>1. Rank(e) + 1 \in 1..n
    BY <1>1
  <2>2. Rank(q[Rank(e) + 1]) = Rank(e) /\ q[Rank(e) + 1] \in S
    BY <1>1, <1>2, <2>1
  <2> QED
    BY <1>3, <2>1, <2>2
<1>5. ASSUME NEW i \in 1..n, NEW j \in 1..n PROVE i < j <=> <<q[i], q[j]>> \in R
  <2>1. i < j <=> Rank(q[i]) < Rank(q[j])
    BY <1>1, <1>2
  <2> DEFINE e == q[i]  f == q[j]
  <2>2. e \in S /\ f \in S /\ Rank(e) \in Int /\ Rank(f) \in Int
    BY <1>2, <1>b
  <2> HIDE DEF e, f
  <2>3. <<e, f>> \in R => Rank(e) < Rank(f)
    BY <1>1, <2>2
  <2>4. ~(<<e, f>> \in R) => e = f \/ Rank(f) < Rank(e)
    BY <1>1, <1>a, <2>2
  <2>5. Rank(e) < Rank(f) <=> <<e, f>> \in R
    BY <2>2, <2>3, <2>4
  <2> QED
    BY <2>1, <2>5 DEF e, f
<1> QED
  BY <1>4, <1>5 DEF n

\* Sorted lists the numbers of a finite set from the smallest to the largest.
LEMMA SortedNumbers ==
  ASSUME NEW S \in SUBSET Int, IsFiniteSet(S)
  PROVE  /\ Cardinality(S) \in Nat
         /\ Sorted(S, <) \in [1..Cardinality(S) -> S]
         /\ \A e \in S : \E k \in 1..Cardinality(S) : Sorted(S, <)[k] = e
         /\ \A i, j \in 1..Cardinality(S) : i < j <=> Sorted(S, <)[i] < Sorted(S, <)[j]
<1> DEFINE R == {p \in S \X S : p[1] < p[2]}
           q == [k \in 1..Cardinality(S) |->
                   CHOOSE e \in S : Cardinality({f \in S : f < e}) = k - 1]
<1>1. \A e, f \in S : <<e, f>> \in R <=> e < f
  OBVIOUS
<1>2. Strict(S, R)
  BY <1>1 DEF Strict
<1>3. \A e \in S : Below(S, R, e) = {f \in S : f < e}
  BY <1>1 DEF Below
<1> HIDE DEF R
<1>4. /\ Cardinality(S) \in Nat
      /\ \A k \in 0..(Cardinality(S) - 1) : \E e \in S : Cardinality(Below(S, R, e)) = k
  BY <1>2, Ranks
<1>5. ASSUME NEW k \in 1..Cardinality(S)
      PROVE  q[k] \in S /\ Cardinality({f \in S : f < q[k]}) = k - 1
  <2>1. k - 1 \in 0..(Cardinality(S) - 1)
    BY <1>4
  <2>2. \E e \in S : Cardinality({f \in S : f < e}) = k - 1
    BY <1>3, <1>4, <2>1
  <2> QED
    BY <2>2
<1>6. \A k \in 1..Cardinality(S) : q[k] \in S /\ Cardinality(Below(S, R, q[k])) = k - 1
  BY <1>3, <1>5
<1>7. q = Sorted(S, <)
  BY DEF Sorted
<1>8. q \in [1..Cardinality(S) -> S]
  BY <1>5
<1> HIDE DEF q
<1>9. /\ \A e \in S : \E k \in 1..Cardinality(S) : q[k] = e
      /\ \A i, j \in 1..Cardinality(S) : i < j <=> <<q[i], q[j]>> \in R
  BY <1>2, <1>6, InOrder
<1> QED
  BY <1>1, <1>4, <1>6, <1>7, <1>8, <1>9

----------------------------------------------------------------------------
(* Sequences *)

\* The part of a sequence behind a, up to b.
LEMMA Part ==
  ASSUME NEW C, NEW q \in Seq(C), NEW a \in Nat, NEW b \in Nat, a <= b, b <= Len(q)
  PROVE  /\ SubSeq(q, a + 1, b) \in Seq(C)
         /\ Len(SubSeq(q, a + 1, b)) = b - a
         /\ \A i \in 1..(b - a) : SubSeq(q, a + 1, b)[i] = q[a + i]
<1>1. \A i \in (a + 1)..b : q[i] \in C
  BY LenProperties, ElementOfSeq
<1>2. /\ SubSeq(q, a + 1, b) \in Seq(C)
      /\ Len(SubSeq(q, a + 1, b)) = IF a + 1 <= b THEN b - (a + 1) + 1 ELSE 0
      /\ \A i \in 1..(b - (a + 1) + 1) : SubSeq(q, a + 1, b)[i] = q[(a + 1) + i - 1]
  BY <1>1, SubSeqProperties
<1>3. \A i \in Int : (a + 1) + i - 1 = a + i
  OBVIOUS
<1>4. 1..(b - (a + 1) + 1) = 1..(b - a)
  OBVIOUS
<1> QED
  BY <1>2, <1>3, <1>4

\* Two parts side by side.
LEMMA Joined ==
  ASSUME NEW C, NEW q \in Seq(C), NEW a \in Nat, NEW b \in Nat, NEW c \in Nat,
         a <= b, b <= c, c <= Len(q)
  PROVE  SubSeq(q, a + 1, b) \o SubSeq(q, b + 1, c) = SubSeq(q, a + 1, c)
<1>1. Len(q) \in Nat
  BY LenProperties
<1>2. a + 1 \in 1..(Len(q) + 1) /\ b \in (a + 1 - 1)..Len(q) /\ c \in b..Len(q)
  BY <1>1
<1> QED
  BY <1>2, ConcatAdjacentSubSeq

\* A part of a part.
LEMMA PartOfPart ==
  ASSUME NEW C, NEW q \in Seq(C), NEW a \in Nat, NEW b \in Nat, NEW n \in Nat,
         a <= b, b <= Len(q), n <= b - a
  PROVE  /\ SubSeq(SubSeq(q, a + 1, b), n + 1, b - a) = SubSeq(q, a + n + 1, b)
         /\ SubSeq(SubSeq(q, a + 1, b), 1, n) = SubSeq(q, a + 1, a + n)
<1> DEFINE p == SubSeq(q, a + 1, b)
           d == SubSeq(p, n + 1, b - a)
           e == SubSeq(q, a + n + 1, b)
           f == SubSeq(p, 0 + 1, n)
           g == SubSeq(q, a + 1, a + n)
<1>0. Len(q) \in Nat /\ b - a \in Nat /\ a + n \in Nat
  BY LenProperties
<1>1. p \in Seq(C) /\ Len(p) = b - a /\ \A i \in 1..(b - a) : p[i] = q[a + i]
  BY Part
<1> HIDE DEF p
<1>2. d \in Seq(C) /\ Len(d) = b - a - n /\ \A i \in 1..(b - a - n) : d[i] = p[n + i]
  BY <1>0, <1>1, Part
<1>3. e \in Seq(C) /\ Len(e) = b - (a + n) /\ \A i \in 1..(b - (a + n)) : e[i] = q[a + n + i]
  BY <1>0, Part
<1>4. f \in Seq(C) /\ Len(f) = n /\ \A i \in 1..n : f[i] = p[i]
  <2>1. f \in Seq(C) /\ Len(f) = n - 0 /\ \A i \in 1..(n - 0) : f[i] = p[0 + i]
    BY <1>0, <1>1, Part
  <2> QED
    BY <2>1
<1>5. g \in Seq(C) /\ Len(g) = n /\ \A i \in 1..n : g[i] = q[a + i]
  <2>1. g \in Seq(C) /\ Len(g) = (a + n) - a /\ \A i \in 1..((a + n) - a) : g[i] = q[a + i]
    BY <1>0, Part
  <2>2. (a + n) - a = n
    OBVIOUS
  <2> QED
    BY <2>1, <2>2
<1> HIDE DEF d, e, f, g
<1>6. d = e
  <2>1. Len(d) = Len(e)
    BY <1>0, <1>2, <1>3
  <2>2. ASSUME NEW i \in 1..Len(d) PROVE d[i] = e[i]
    <3>1. i \in 1..(b - a - n) /\ i \in 1..(b - (a + n)) /\ n + i \in 1..(b - a) /\ a + (n + i) = a + n + i
      BY <1>0, <1>2
    <3> QED
      BY <1>1, <1>2, <1>3, <3>1
  <2> QED
    BY <1>2, <1>3, <2>1, <2>2, SeqEqual
<1>7. f = g
  <2>1. ASSUME NEW i \in 1..Len(f) PROVE f[i] = g[i]
    <3>1. i \in 1..n /\ i \in 1..(b - a)
      BY <1>0, <1>4
    <3> QED
      BY <1>1, <1>4, <1>5, <3>1
  <2> QED
    BY <1>4, <1>5, <2>1, SeqEqual
<1> QED
  BY <1>6, <1>7 DEF d, e, f, g, p

----------------------------------------------------------------------------
(* Buffer *)

\* A buffer with its indices in order and inside its cells.
BufferOk(b, C) ==
  /\ b = [cells |-> b.cells, read |-> b.read, write |-> b.write]
  /\ b.cells \in Seq(C) /\ b.read \in Nat /\ b.write \in Nat
  /\ HeaderReservedSize <= b.read /\ b.read <= b.write /\ b.write <= Len(b.cells)

\* The unread bytes of a buffer.
LEMMA ReadableIs ==
  ASSUME NEW C, NEW b, BufferOk(b, C)
  PROVE  /\ Readable(b) \in Seq(C) /\ Len(Readable(b)) = b.write - b.read
         /\ \A i \in 1..(b.write - b.read) : Readable(b)[i] = b.cells[b.read + i]
BY Part DEF BufferOk, Readable

\* Over writes what it is given and leaves the other cells alone.
LEMMA OverIs ==
  ASSUME NEW C, NEW cells \in Seq(C), NEW bytes \in Seq(C), NEW at \in Nat,
         at + Len(bytes) <= Len(cells)
  PROVE  /\ Over(cells, at, bytes) \in Seq(C)
         /\ Len(Over(cells, at, bytes)) = Len(cells)
         /\ \A i \in 1..Len(cells) : Over(cells, at, bytes)[i] =
              IF at < i /\ i <= at + Len(bytes) THEN bytes[i - at] ELSE cells[i]
<1> DEFINE n == Len(cells)
           m == Len(bytes)
           p == SubSeq(cells, 0 + 1, at)
           s == SubSeq(cells, at + m + 1, n)
           q == p \o bytes
           r == q \o s
<1>0. n \in Nat /\ m \in Nat /\ at + m \in Nat
  BY LenProperties
<1>1. p \in Seq(C) /\ Len(p) = at /\ \A i \in 1..at : p[i] = cells[i]
  <2>1. p \in Seq(C) /\ Len(p) = at - 0 /\ \A i \in 1..(at - 0) : p[i] = cells[0 + i]
    BY <1>0, Part
  <2> QED
    BY <2>1
<1>2. s \in Seq(C) /\ Len(s) = n - (at + m) /\ \A i \in 1..(n - (at + m)) : s[i] = cells[at + m + i]
  BY <1>0, Part
<1> HIDE DEF p, s
<1>3. q \in Seq(C) /\ Len(q) = at + m
      /\ \A i \in 1..(at + m) : q[i] = IF i <= at THEN p[i] ELSE bytes[i - at]
  BY <1>1, ConcatProperties
<1> HIDE DEF q
<1>4. r \in Seq(C) /\ Len(r) = n
      /\ \A i \in 1..n : r[i] = IF i <= at + m THEN q[i] ELSE s[i - (at + m)]
  <2>1. r \in Seq(C) /\ Len(r) = Len(q) + Len(s)
        /\ \A i \in 1..(Len(q) + Len(s)) : r[i] = IF i <= Len(q) THEN q[i] ELSE s[i - Len(q)]
    <3>1. q \in Seq(C) /\ s \in Seq(C)
      BY <1>2, <1>3
    <3> QED
      BY <3>1, ConcatProperties
  <2>2. Len(q) + Len(s) = n
    BY <1>0, <1>2, <1>3
  <2> QED
    BY <1>3, <2>1, <2>2
<1> HIDE DEF r
<1>5. SubSeq(r, 1, n) = r
  BY <1>4, SubSeqFull
<1>6. Over(cells, at, bytes) = r
  <2>1. p = SubSeq(cells, 1, at)
    BY DEF p
  <2> QED
    BY <1>5, <2>1 DEF Over, r, q, s
<1>7. ASSUME NEW i \in 1..n
      PROVE r[i] = IF at < i /\ i <= at + m THEN bytes[i - at] ELSE cells[i]
  <2>1. CASE i <= at
    <3>1. i \in 1..at /\ i \in 1..(at + m) /\ i <= at + m /\ ~(at < i)
      BY <1>0, <2>1
    <3>2. r[i] = q[i]
      BY ONLY <1>4, <3>1, i \in 1..n
    <3>3. q[i] = p[i]
      BY ONLY <1>3, <3>1
    <3>4. p[i] = cells[i]
      BY ONLY <1>1, <3>1
    <3> QED
      BY ONLY <3>1, <3>2, <3>3, <3>4
  <2>2. CASE at < i /\ i <= at + m
    <3>1. i \in 1..(at + m) /\ ~(i <= at)
      BY <1>0, <2>2
    <3>2. r[i] = q[i]
      BY ONLY <1>4, <2>2, i \in 1..n
    <3>3. q[i] = bytes[i - at]
      BY ONLY <1>3, <3>1
    <3> QED
      BY ONLY <2>2, <3>2, <3>3
  <2>3. CASE at + m < i
    <3>1. i - (at + m) \in 1..(n - (at + m)) /\ at + m + (i - (at + m)) = i
      BY <1>0, <2>3
    <3>2. s[i - (at + m)] = cells[i]
      BY <1>2, <3>1
    <3> QED
      BY <1>0, <1>4, <2>3, <3>2
  <2> QED
    BY <1>0, <2>1, <2>2, <2>3
<1> QED
  BY <1>4, <1>6, <1>7

\* Two sequences that agree on their cells are equal.
LEMMA SameSequence ==
  ASSUME NEW C, NEW p \in Seq(C), NEW q \in Seq(C), NEW n \in Nat,
         Len(p) = n, Len(q) = n, \A i \in 1..n : p[i] = q[i]
  PROVE  p = q
BY SeqEqual

\* Over, seen from its two indices: the bytes written follow what was there.
LEMMA OverHolds ==
  ASSUME NEW C, NEW cells \in Seq(C), NEW bytes \in Seq(C), NEW from \in Nat,
         NEW at \in Nat, from <= at, at + Len(bytes) <= Len(cells)
  PROVE  SubSeq(Over(cells, at, bytes), from + 1, at + Len(bytes))
           = SubSeq(cells, from + 1, at) \o bytes
<1> DEFINE m == Len(bytes)
           r == Over(cells, at, bytes)
           p == SubSeq(cells, from + 1, at)
           left == SubSeq(r, from + 1, at + m)
           right == p \o bytes
           n == at + m - from
<1>0. m \in Nat /\ Len(cells) \in Nat /\ at + m \in Nat /\ n \in Nat
  BY LenProperties
<1>1. /\ r \in Seq(C) /\ Len(r) = Len(cells)
      /\ \A i \in 1..Len(cells) :
           r[i] = IF at < i /\ i <= at + m THEN bytes[i - at] ELSE cells[i]
  BY OverIs
<1> HIDE DEF r
<1>2. left \in Seq(C) /\ Len(left) = n /\ \A i \in 1..n : left[i] = r[from + i]
  BY <1>0, <1>1, Part
<1>3. p \in Seq(C) /\ Len(p) = at - from /\ \A i \in 1..(at - from) : p[i] = cells[from + i]
  BY <1>0, Part
<1> HIDE DEF p
<1>4. right \in Seq(C) /\ Len(right) = n
      /\ \A i \in 1..n : right[i] = IF i <= at - from THEN p[i] ELSE bytes[i - (at - from)]
  <2>1. /\ right \in Seq(C) /\ Len(right) = Len(p) + Len(bytes)
        /\ \A i \in 1..(Len(p) + Len(bytes)) :
             right[i] = IF i <= Len(p) THEN p[i] ELSE bytes[i - Len(p)]
    BY <1>3, ConcatProperties, SMTT(30)
  <2>2. Len(p) + Len(bytes) = n
    BY <1>0, <1>3
  <2> QED
    BY <1>3, <2>1, <2>2
<1> HIDE DEF left, right
<1>5. ASSUME NEW i \in 1..n PROVE left[i] = right[i]
  <2> DEFINE k == from + i
  <2>1. left[i] = r[k] /\ k \in 1..Len(cells) /\ k \in Int
        /\ (i <= at - from <=> ~(at < k)) /\ k <= at + m
    BY <1>0, <1>2
  <2>a. r[k] = IF at < k /\ k <= at + m THEN bytes[k - at] ELSE cells[k]
    BY <1>1, <2>1
  <2>2. CASE i <= at - from
    <3>1. r[k] = cells[k]
      BY <2>1, <2>2, <2>a
    <3>2. i \in 1..(at - from)
      BY <1>0, <2>2
    <3> QED
      BY <1>3, <1>4, <2>1, <2>2, <3>1, <3>2
  <2>3. CASE ~(i <= at - from)
    <3>1. r[k] = bytes[k - at]
      BY <2>1, <2>3, <2>a
    <3>2. k - at = i - (at - from)
      OBVIOUS
    <3> QED
      BY <1>4, <2>1, <2>3, <3>1, <3>2
  <2> QED
    BY <2>2, <2>3
<1>6. left = right
  BY <1>0, <1>2, <1>4, <1>5, SameSequence
<1> QED
  BY <1>6 DEF left, right, p, r, m

\* Blank cells.
LEMMA BlankIs ==
  ASSUME NEW C, Unset \in C, NEW n \in Nat
  PROVE  Blank(n) \in Seq(C) /\ Len(Blank(n)) = n
BY DEF Blank

\* A new buffer holds nothing.
LEMMA NewBufferIs ==
  ASSUME NEW C, Unset \in C
  PROVE  BufferOk(NewBuffer, C) /\ Readable(NewBuffer) = <<>>
<1> DEFINE h == HeaderReservedSize
           c == Blank(h + InitialSize)
<1>1. h \in Nat /\ h + InitialSize \in Nat /\ h <= h + InitialSize
  BY BufferAssumption
<1>2. c \in Seq(C) /\ Len(c) = h + InitialSize
  BY <1>1, BlankIs
<1>3. NewBuffer = [cells |-> c, read |-> h, write |-> h]
  BY DEF NewBuffer
<1> HIDE DEF c
<1>4. BufferOk(NewBuffer, C)
  BY <1>1, <1>2, <1>3 DEF BufferOk
<1>5. Readable(NewBuffer) \in Seq(C) /\ Len(Readable(NewBuffer)) = h - h
  BY <1>3, <1>4, ReadableIs
<1> QED
  BY <1>1, <1>4, <1>5, EmptySeq

\* Taking bytes off the front leaves the rest.
LEMMA RetrieveIs ==
  ASSUME NEW C, NEW b, BufferOk(b, C), NEW len \in Nat
  PROVE  /\ BufferOk(Retrieve(b, len), C)
         /\ len <= Len(Readable(b)) =>
              Readable(Retrieve(b, len)) = SubSeq(Readable(b), len + 1, Len(Readable(b)))
         /\ ~(len <= Len(Readable(b))) => Readable(Retrieve(b, len)) = <<>>
<1> DEFINE n == Len(Readable(b))
           r == IF len <= n THEN b.read + len ELSE b.write
           c == Retrieve(b, len)
<1>1. n = b.write - b.read
  BY ReadableIs
<1>2. c = [cells |-> b.cells, read |-> r, write |-> b.write]
  BY DEF Retrieve, BufferOk
<1>3. b.read \in Nat /\ b.write \in Nat /\ b.read <= b.write /\ b.write <= Len(b.cells)
      /\ b.cells \in Seq(C) /\ HeaderReservedSize <= b.read /\ HeaderReservedSize \in Nat
  BY BufferAssumption DEF BufferOk
<1>4. r \in Nat /\ b.read <= r /\ r <= b.write
  BY <1>1, <1>3
<1> HIDE DEF c, n
<1>5. BufferOk(c, C)
  <2>1. HeaderReservedSize <= r
    BY <1>3, <1>4
  <2> HIDE DEF r
  <2> QED
    BY <1>2, <1>3, <1>4, <2>1 DEF BufferOk
<1>6. Readable(c) = SubSeq(b.cells, r + 1, b.write)
  BY <1>2 DEF Readable
<1>7. ASSUME len <= n PROVE Readable(c) = SubSeq(Readable(b), len + 1, n)
  <2>0. len <= b.write - b.read
    BY <1>1, <1>7
  <2>1. SubSeq(SubSeq(b.cells, b.read + 1, b.write), len + 1, b.write - b.read)
          = SubSeq(b.cells, b.read + len + 1, b.write)
    <3> DEFINE q == b.cells  x == b.read  y == b.write
    <3>1. q \in Seq(C) /\ x \in Nat /\ y \in Nat /\ x <= y /\ y <= Len(q) /\ len <= y - x
      BY <1>3, <2>0
    <3> HIDE DEF q, x, y
    <3>2. SubSeq(SubSeq(q, x + 1, y), len + 1, y - x) = SubSeq(q, x + len + 1, y)
      BY <3>1, PartOfPart
    <3> QED
      BY <3>2 DEF q, x, y
  <2>2. r + 1 = b.read + len + 1
    BY <1>7
  <2> QED
    BY <1>1, <1>6, <2>1, <2>2 DEF Readable
<1>8. ASSUME ~(len <= n) PROVE Readable(c) = <<>>
  <2>1. Readable(c) \in Seq(C) /\ Len(Readable(c)) = c.write - c.read
    BY <1>5, ReadableIs
  <2>2. c.write - c.read = 0
    BY <1>2, <1>3, <1>8
  <2> QED
    BY <2>1, <2>2, EmptySeq
<1> QED
  BY <1>5, <1>7, <1>8 DEF c, n

\* Room is made without touching the unread bytes, whichever way it is made.
LEMMA RoomIs ==
  ASSUME NEW C, Unset \in C, NEW b, BufferOk(b, C), NEW len \in Nat
  PROVE  LET room == EnsureWritableBytes(b, len)
         IN /\ BufferOk(room, C) /\ Readable(room) = Readable(b)
            /\ room.write + len <= Len(room.cells)
<1> DEFINE q == b.cells
           x == b.read
           y == b.write
           h == HeaderReservedSize
           u == Readable(b)
<1>1. b = [cells |-> q, read |-> x, write |-> y]
      /\ q \in Seq(C) /\ x \in Nat /\ y \in Nat /\ x <= y /\ y <= Len(q)
      /\ h <= x /\ h \in Nat /\ Len(q) \in Nat
  BY BufferAssumption, LenProperties DEF BufferOk
<1>2. u \in Seq(C) /\ Len(u) = y - x /\ u = SubSeq(q, x + 1, y)
  BY ReadableIs DEF Readable
<1> HIDE DEF q, x, y, h, u
<1>3. CASE WriteableBytes(b) >= len
  <2>1. EnsureWritableBytes(b, len) = b
    BY <1>3 DEF EnsureWritableBytes
  <2>2. WriteableBytes(b) = Len(q) - y
    BY DEF WriteableBytes, q, y
  <2> QED
    BY <1>1, <1>3, <2>1, <2>2 DEF q, y
<1>4. CASE ~(WriteableBytes(b) >= len) /\ Fits(b, len)
  <2> DEFINE r == Over(q, h, u)
             w == h + Len(u)
  <2>1. EnsureWritableBytes(b, len) = [cells |-> r, read |-> h, write |-> w]
    BY <1>4 DEF EnsureWritableBytes, Moved, q, h, u
  <2>2. w \in Nat /\ h <= w /\ w <= Len(q) /\ h + Len(u) <= Len(q)
    BY <1>1, <1>2
  <2>3. r \in Seq(C) /\ Len(r) = Len(q)
    BY <1>1, <1>2, <2>2, OverIs
  <2>4. SubSeq(r, h + 1, w) = u
    <3>1. SubSeq(r, h + 1, w) = SubSeq(q, h + 1, h) \o u
      <4>1. q \in Seq(C) /\ u \in Seq(C) /\ h \in Nat /\ h <= h /\ h + Len(u) <= Len(q)
        BY <1>1, <1>2, <2>2
      <4> QED
        BY <4>1, OverHolds
    <3>2. SubSeq(q, h + 1, h) \in Seq(C) /\ Len(SubSeq(q, h + 1, h)) = h - h
      BY <1>1, <2>2, Part
    <3>3. SubSeq(q, h + 1, h) = <<>>
      BY <1>1, <3>2, EmptySeq
    <3> QED
      BY <1>2, <3>1, <3>3, ConcatEmptySeq
  <2>5. (Len(q) - y) + x >= len + h
    BY <1>4 DEF Fits, WriteableBytes, q, x, y, h
  <2>6. w + len <= Len(r)
    BY <1>1, <1>2, <2>3, <2>5
  <2> HIDE DEF r, w
  <2> DEFINE room == [cells |-> r, read |-> h, write |-> w]
  <2>7. BufferOk(room, C) /\ Readable(room) = u /\ room.write + len <= Len(room.cells)
    BY <1>1, <2>2, <2>3, <2>4, <2>6 DEF BufferOk, Readable, h
  <2> QED
    BY <2>1, <2>7 DEF u
<1>5. CASE ~(WriteableBytes(b) >= len) /\ ~Fits(b, len)
  <2> DEFINE more == IF y + len > 2 * Len(q) THEN y + len - Len(q) ELSE Len(q)
             e == Blank(more)
             r == q \o e
  <2>1. EnsureWritableBytes(b, len) = [cells |-> r, read |-> x, write |-> y]
    <3>1. EnsureWritableBytes(b, len) = Grown(b, len)
      BY <1>5 DEF EnsureWritableBytes
    <3>2. Grown(b, len) = [b EXCEPT !.cells = q \o Blank(more)]
      BY DEF Grown, q, y
    <3> QED
      BY <1>1, <3>1, <3>2
  <2>2. more \in Nat /\ y + len <= Len(q) + more
    BY <1>1
  <2> HIDE DEF more
  <2>3. e \in Seq(C) /\ Len(e) = more
    BY <2>2, BlankIs
  <2> HIDE DEF e
  <2>4. /\ r \in Seq(C) /\ Len(r) = Len(q) + Len(e)
        /\ \A i \in 1..(Len(q) + Len(e)) : r[i] = IF i <= Len(q) THEN q[i] ELSE e[i - Len(q)]
    BY <1>1, <2>3, ConcatProperties
  <2> HIDE DEF r
  <2>5. SubSeq(r, x + 1, y) = u
    <3> DEFINE s == SubSeq(r, x + 1, y)
               n == y - x
    <3>1. n \in Nat /\ y <= Len(r)
      BY <1>1, <2>2, <2>3, <2>4
    <3>2. s \in Seq(C) /\ Len(s) = n /\ \A i \in 1..n : s[i] = r[x + i]
      <4>1. r \in Seq(C) /\ x \in Nat /\ y \in Nat /\ x <= y /\ y <= Len(r)
        BY <1>1, <2>4, <3>1
      <4> QED
        BY <4>1, Part
    <3>3. u \in Seq(C) /\ Len(u) = n /\ \A i \in 1..n : u[i] = q[x + i]
      <4>1. /\ SubSeq(q, x + 1, y) \in Seq(C) /\ Len(SubSeq(q, x + 1, y)) = y - x
            /\ \A i \in 1..(y - x) : SubSeq(q, x + 1, y)[i] = q[x + i]
        BY <1>1, Part
      <4> QED
        BY <1>2, <4>1
    <3> HIDE DEF s
    <3>4. ASSUME NEW i \in 1..n PROVE s[i] = u[i]
      <4>1. x + i \in 1..(Len(q) + Len(e)) /\ x + i <= Len(q)
        BY <1>1, <2>2, <2>3
      <4> QED
        BY <2>4, <3>2, <3>3, <4>1
    <3>5. s = u
      BY <3>1, <3>2, <3>3, <3>4, SameSequence
    <3> QED
      BY <3>5 DEF s
  <2>6. y <= Len(r) /\ y + len <= Len(r)
    BY <1>1, <2>2, <2>3, <2>4
  <2> DEFINE room == [cells |-> r, read |-> x, write |-> y]
  <2>7. BufferOk(room, C) /\ Readable(room) = u /\ room.write + len <= Len(room.cells)
    BY <1>1, <2>4, <2>5, <2>6 DEF BufferOk, Readable, h
  <2> QED
    BY <2>1, <2>7 DEF u
<1> QED
  BY <1>3, <1>4, <1>5

\* Appended bytes follow the unread ones.
LEMMA AppendIs ==
  ASSUME NEW C, Unset \in C, NEW b, BufferOk(b, C), NEW bytes \in Seq(C)
  PROVE  /\ BufferOk(AppendBytes(b, bytes), C)
         /\ Readable(AppendBytes(b, bytes)) = Readable(b) \o bytes
<1> DEFINE m == Len(bytes)
           room == EnsureWritableBytes(b, m)
           q == room.cells
           x == room.read
           y == room.write
           r == Over(q, y, bytes)
<1>1. m \in Nat
  BY LenProperties
<1>2. BufferOk(room, C) /\ Readable(room) = Readable(b) /\ room.write + m <= Len(room.cells)
  BY <1>1, RoomIs
<1>3. AppendBytes(b, bytes) = [room EXCEPT !.cells = r, !.write = y + m]
  BY DEF AppendBytes
<1> HIDE DEF room
<1>4. room = [cells |-> q, read |-> x, write |-> y]
      /\ q \in Seq(C) /\ x \in Nat /\ y \in Nat /\ x <= y /\ y + m <= Len(q)
      /\ HeaderReservedSize <= x
  BY <1>2 DEF BufferOk
<1>5. Readable(room) = SubSeq(q, x + 1, y)
  BY DEF Readable
<1>6. AppendBytes(b, bytes) = [cells |-> r, read |-> x, write |-> y + m]
  BY <1>3, <1>4
<1> HIDE DEF q, x, y
<1>7. r \in Seq(C) /\ Len(r) = Len(q)
  BY <1>4, OverIs
<1>8. SubSeq(r, x + 1, y + m) = SubSeq(q, x + 1, y) \o bytes
  BY <1>4, OverHolds, ZenonT(30)
<1> HIDE DEF r
<1>9. y + m \in Nat /\ x <= y + m /\ y + m <= Len(r)
  BY <1>1, <1>4, <1>7
<1> HIDE DEF m
<1>10. BufferOk(AppendBytes(b, bytes), C)
  BY <1>4, <1>6, <1>7, <1>9 DEF BufferOk
<1>11. Readable(AppendBytes(b, bytes)) = SubSeq(r, x + 1, y + m)
  <2> DEFINE c == AppendBytes(b, bytes)
  <2>1. c.cells = r /\ c.read = x /\ c.write = y + m
    BY <1>6
  <2> QED
    BY <2>1 DEF Readable
<1> QED
  BY <1>2, <1>5, <1>8, <1>10, <1>11 DEF q, x, y

----------------------------------------------------------------------------
(* Sequences joined into one *)

\* F[i] is the first i sequences of q joined.
Joins(F, q, n, C) ==
  /\ F \in [0..n -> Seq(C)] /\ F[0] = <<>>
  /\ \A i \in 1..n : F[i] = F[i - 1] \o q[i]

\* FlattenSeq joins them one after the other.
LEMMA FlattenSteps ==
  ASSUME NEW C, NEW q \in Seq(Seq(C))
  PROVE  \E F : Joins(F, q, Len(q), C) /\ FlattenSeq(q) = F[Len(q)]
<1> DEFINE n == Len(q)
           Flat(f, m) == f = [i \in 1..m |-> IF i = 1 THEN q[i] ELSE f[i - 1] \o q[i]]
           Is(m) == \E f : Flat(f, m) /\ f \in [1..m -> Seq(C)]
           T == {m \in Nat : m <= n => Is(m)}
<1>1. n \in Nat /\ \A i \in 1..n : q[i] \in Seq(C)
  BY LenProperties, ElementOfSeq
<1> HIDE DEF n
<1>2. 0 \in T
  <2> DEFINE f == [i \in 1..0 |-> <<>>]
  <2>1. 1..0 = {}
    OBVIOUS
  <2>2. Flat(f, 0) /\ f \in [1..0 -> Seq(C)]
    BY <2>1
  <2>3. Is(0)
    BY <2>2
  <2> HIDE DEF Is
  <2> QED
    BY <2>3
<1>3. ASSUME NEW m \in T PROVE m + 1 \in T
  <2> HIDE DEF Is
  <2> SUFFICES ASSUME m + 1 <= n PROVE Is(m + 1)
    OBVIOUS
  <2>1. m \in Nat /\ m <= n /\ Is(m)
    BY <1>1
  <2> USE DEF Is
  <2>2. PICK f : Flat(f, m) /\ f \in [1..m -> Seq(C)]
    BY <2>1
  <2> DEFINE top == IF m + 1 = 1 THEN q[m + 1] ELSE f[m] \o q[m + 1]
             g == [i \in 1..(m + 1) |-> IF i = m + 1 THEN top ELSE f[i]]
  <2>3. q[m + 1] \in Seq(C) /\ (m # 0 => f[m] \in Seq(C))
    BY <1>1, <2>1, <2>2
  <2>4. top \in Seq(C)
    BY <2>1, <2>3, ConcatProperties
  <2>5. \A i \in 1..m : f[i] = (IF i = 1 THEN q[i] ELSE f[i - 1] \o q[i])
    BY <2>2
  <2>6. ASSUME NEW i \in 1..(m + 1)
        PROVE  g[i] = IF i = 1 THEN q[i] ELSE g[i - 1] \o q[i]
    <3>1. CASE i = m + 1
      <4>1. i # 1 => g[i - 1] = f[m]
        BY <2>1, <3>1
      <4> QED
        BY <3>1, <4>1
    <3>2. CASE i # m + 1
      <4>1. i \in 1..m /\ g[i] = f[i] /\ (i # 1 => g[i - 1] = f[i - 1])
        BY <2>1, <3>2
      <4> QED
        BY <2>5, <4>1
    <3> QED
      BY <3>1, <3>2
  <2> HIDE DEF top
  <2>7. g \in [1..(m + 1) -> Seq(C)]
    <3>1. ASSUME NEW i \in 1..(m + 1), i # m + 1 PROVE f[i] \in Seq(C)
      <4>1. i \in 1..m
        BY <2>1, <3>1
      <4> QED
        BY <2>2, <4>1
    <3> QED
      BY <2>4, <3>1
  <2>8. DOMAIN g = 1..(m + 1) /\ g = [i \in 1..(m + 1) |-> g[i]]
    OBVIOUS
  <2> HIDE DEF g
  <2>9. Flat(g, m + 1)
    BY <2>6, <2>8
  <2> QED
    BY <2>7, <2>9
<1>4. n \in T
  <2> HIDE DEF T
  <2>1. T \subseteq Nat
    BY DEF T
  <2> QED
    BY <1>1, <1>2, <1>3, <2>1, Induction
<1>b. Is(n)
  <2> HIDE DEF Is
  <2> QED
    BY <1>1, <1>4
<1>5. PICK e : Flat(e, n) /\ e \in [1..n -> Seq(C)]
  BY <1>b, Zenon
<1> DEFINE f == CHOOSE f : Flat(f, n)
<1>6. Flat(f, n)
  BY <1>5, Zenon
<1>a. DOMAIN f = 1..n /\ \A i \in 1..n : f[i] = IF i = 1 THEN q[i] ELSE f[i - 1] \o q[i]
  BY <1>6, Zenon
<1>7. n # 0 => FlattenSeq(q) = f[n]
  BY DEF FlattenSeq, n
<1>8. n = 0 => FlattenSeq(q) = <<>>
  BY EmptySeq DEF FlattenSeq, n
<1> HIDE DEF f
<1> DEFINE U == {i \in Nat : i + 1 <= n => f[i + 1] \in Seq(C)}
<1>9. 0 \in U
  <2>1. ASSUME 1 <= n PROVE f[1] \in Seq(C)
    <3>1. 1 \in 1..n
      BY <1>1, <2>1
    <3>2. f[1] = q[1] /\ q[1] \in Seq(C)
      BY <1>1, <1>a, <3>1
    <3> QED
      BY <3>2
  <2> QED
    BY <2>1
<1>10. ASSUME NEW i \in U PROVE i + 1 \in U
  <2> DEFINE j == i + 1
             k == (i + 1) + 1
  <2>0. i \in Nat /\ j \in Nat
    OBVIOUS
  <2> SUFFICES ASSUME k <= n PROVE f[k] \in Seq(C)
    BY <2>0
  <2>a. k \in 1..n /\ j \in 1..n /\ k - 1 = j /\ k # 1
    BY <1>1, <2>0
  <2>1. f[k] = f[j] \o q[k]
    <3> HIDE DEF k, j
    <3> QED
      BY <1>a, <2>a
  <2>2. f[j] \in Seq(C) /\ q[k] \in Seq(C)
    BY <1>1, <2>0, <2>a
  <2> HIDE DEF j, k
  <2> QED
    BY <2>1, <2>2, ConcatProperties
<1>11. ASSUME NEW i \in 1..n PROVE f[i] \in Seq(C)
  <2> HIDE DEF U
  <2>1. U \subseteq Nat
    BY DEF U
  <2>2. U = Nat
    BY <1>9, <1>10, <2>1, Induction
  <2>3. i - 1 \in U /\ (i - 1) + 1 = i /\ i <= n
    BY <1>1, <2>2
  <2> QED
    BY <2>3 DEF U
<1> DEFINE F == [i \in 0..n |-> IF i = 0 THEN <<>> ELSE f[i]]
<1>12. F \in [0..n -> Seq(C)] /\ F[0] = <<>>
  BY <1>1, <1>11, EmptySeq
<1>13. ASSUME NEW i \in 1..n PROVE F[i] = F[i - 1] \o q[i]
  <2>1. F[i] = f[i]
    BY <1>1
  <2>2. CASE i = 1
    <3>0. i - 1 = 0 /\ F[0] = <<>>
      BY <1>1, <2>2
    <3>1. F[i - 1] = <<>> /\ f[i] = q[i] /\ q[i] \in Seq(C)
      <4> HIDE DEF F
      <4>1. F[i - 1] = <<>>
        BY <3>0
      <4>2. f[i] = q[i] /\ q[i] \in Seq(C)
        BY <1>1, <1>a, <2>2
      <4> QED
        BY <4>1, <4>2
    <3> QED
      BY <2>1, <3>1, ConcatEmptySeq
  <2>3. CASE i # 1
    <3>1. F[i - 1] = f[i - 1]
      BY <1>1, <2>3
    <3> QED
      BY <1>a, <2>1, <2>3, <3>1
  <2> QED
    BY <2>2, <2>3
<1>14. FlattenSeq(q) = F[n]
  BY <1>1, <1>7, <1>8
<1> HIDE DEF F
<1> QED
  BY <1>12, <1>13, <1>14 DEF Joins, n

\* What is joined depends on nothing else.
LEMMA JoinsAgree ==
  ASSUME NEW C, NEW n \in Nat, NEW k \in Nat, NEW l \in Nat, n <= k, n <= l,
         NEW p, NEW q, \A i \in 1..n : p[i] = q[i],
         NEW F, Joins(F, p, k, C), NEW G, Joins(G, q, l, C)
  PROVE  F[n] = G[n]
<1> DEFINE T == {m \in Nat : m <= n => F[m] = G[m]}
<1>1. 0 \in T
  BY DEF Joins
<1>2. ASSUME NEW m \in T PROVE m + 1 \in T
  <2> SUFFICES ASSUME m + 1 <= n PROVE F[m + 1] = G[m + 1]
    OBVIOUS
  <2>1. m + 1 \in 1..k /\ m + 1 \in 1..l /\ m + 1 \in 1..n /\ (m + 1) - 1 = m
    OBVIOUS
  <2>2. F[m + 1] = F[m] \o p[m + 1] /\ G[m + 1] = G[m] \o q[m + 1]
    BY <2>1 DEF Joins
  <2>3. p[m + 1] = q[m + 1]
    BY <2>1
  <2>4. F[m] = G[m]
    BY DEF T
  <2> QED
    BY <2>2, <2>3, <2>4
<1>3. T \subseteq Nat
  OBVIOUS
<1> HIDE DEF T
<1>4. n \in T
  BY <1>1, <1>2, <1>3, Induction
<1> QED
  BY <1>4 DEF T

\* One more sequence comes behind the others.
LEMMA FlattenAppend ==
  ASSUME NEW C, NEW q \in Seq(Seq(C)), NEW x \in Seq(C)
  PROVE  /\ FlattenSeq(q) \in Seq(C)
         /\ FlattenSeq(Append(q, x)) = FlattenSeq(q) \o x
<1> DEFINE n == Len(q)
           p == Append(q, x)
<1>1. /\ p \in Seq(Seq(C)) /\ Len(p) = n + 1 /\ n \in Nat
      /\ \A i \in 1..n : p[i] = q[i]
      /\ p[n + 1] = x
  BY AppendProperties, LenProperties
<1> HIDE DEF n, p
<1>2. PICK F : Joins(F, q, n, C) /\ FlattenSeq(q) = F[n]
  BY FlattenSteps DEF n
<1>3. PICK G : Joins(G, p, n + 1, C) /\ FlattenSeq(p) = G[n + 1]
  BY <1>1, FlattenSteps
<1>4. n + 1 \in Nat /\ n <= n + 1 /\ n <= n /\ \A i \in 1..n : q[i] = p[i]
  BY <1>1
<1>5. F[n] = G[n]
  BY <1>1, <1>2, <1>3, <1>4, JoinsAgree
<1>6. G[n + 1] = G[n] \o p[n + 1]
  <2>1. n + 1 \in 1..(n + 1) /\ (n + 1) - 1 = n
    BY <1>1
  <2> QED
    BY <1>3, <2>1 DEF Joins
<1>7. F[n] \in Seq(C)
  BY <1>1, <1>2 DEF Joins
<1> QED
  BY <1>1, <1>2, <1>3, <1>5, <1>6, <1>7 DEF p

----------------------------------------------------------------------------
(* Folds *)

\* The greatest number of a finite set.
LEMMA MaxIs ==
  ASSUME NEW n \in Nat, NEW s \in SUBSET (1..n), s # {}
  PROVE  Max(s) \in s /\ \A x \in s : x <= Max(s)
<1> DEFINE T == {m \in Nat : \A x \in s : x <= m}
<1>1. T \subseteq Nat /\ n \in T
  OBVIOUS
<1>2. PICK m \in T : \A k \in T : m <= k
  BY <1>1, LeastNumber
<1>3. m \in s
  <2> SUFFICES ASSUME m \notin s PROVE FALSE
    OBVIOUS
  <2>1. \A x \in s : x \in Nat /\ x # 0 /\ x <= m /\ x # m
    BY <1>2
  <2>2. m \in Nat /\ m # 0
    <3>1. PICK x \in s : TRUE
      OBVIOUS
    <3>2. m \in Nat /\ x \in Nat /\ x # 0 /\ x <= m
      BY <1>2, <2>1
    <3> QED
      BY <3>2
  <2>3. m - 1 \in T
    BY <2>1, <2>2
  <2> QED
    BY <1>2, <2>2, <2>3
<1>4. \E x \in s : \A y \in s : x >= y
  BY <1>2, <1>3
<1>5. Max(s) \in s /\ \A y \in s : Max(s) >= y
  BY <1>4 DEF Max
<1> QED
  BY <1>5

Closed(F, n, D) == \A i \in 1..n : \A d \in D : F[i][d] \in D

Recurs(g, n, base, F) ==
  \A s \in SUBSET (1..n) : g[s] = IF s = {} THEN base ELSE F[Max(s)][g[s \ {Max(s)}]]

\* A fold over 1..n of a function that stays in D is defined, and stays in D.
LEMMA FoldIsDefined ==
  ASSUME NEW n \in Nat, NEW D, NEW base \in D, NEW F, Closed(F, n, D)
  PROVE  \E g \in [SUBSET (1..n) -> D] : Recurs(g, n, base, F)
<1> DEFINE Rec(g, m) == \A s \in SUBSET (1..m) :
                          g[s] = IF s = {} THEN base ELSE F[Max(s)][g[s \ {Max(s)}]]
           Is(m) == \E g \in [SUBSET (1..m) -> D] : Rec(g, m)
           T == {m \in Nat : m <= n => Is(m)}
<1>1. 0 \in T
  <2> DEFINE g == [s \in SUBSET (1..0) |-> base]
  <2>1. \A s \in SUBSET (1..0) : s = {}
    OBVIOUS
  <2>2. g \in [SUBSET (1..0) -> D] /\ Rec(g, 0)
    BY <2>1
  <2>3. Is(0)
    BY <2>2
  <2> HIDE DEF Is
  <2> QED
    BY <2>3
<1>2. ASSUME NEW m \in T PROVE m + 1 \in T
  <2> HIDE DEF Is
  <2> SUFFICES ASSUME m + 1 <= n PROVE Is(m + 1)
    OBVIOUS
  <2>1. m \in Nat /\ m <= n /\ Is(m) /\ m + 1 \in Nat /\ m + 1 \in 1..n
    OBVIOUS
  <2> USE DEF Is
  <2>2. PICK g \in [SUBSET (1..m) -> D] : Rec(g, m)
    BY <2>1
  <2> DEFINE top == m + 1
             h == [s \in SUBSET (1..top) |-> IF top \in s THEN F[top][g[s \ {top}]] ELSE g[s]]
  <2>3. ASSUME NEW s \in SUBSET (1..top)
        PROVE  /\ s \ {top} \in SUBSET (1..m)
               /\ top \notin s => s \in SUBSET (1..m)
               /\ top \in s => Max(s) = top
               /\ s # {} /\ top \notin s => Max(s) \in s
    <3>1. s \ {top} \in SUBSET (1..m) /\ (top \notin s => s \in SUBSET (1..m))
      BY <2>1
    <3>2. s # {} => Max(s) \in s /\ \A x \in s : x <= Max(s)
      BY <2>1, MaxIs
    <3>3. top \in s => Max(s) = top
      <4> SUFFICES ASSUME top \in s PROVE Max(s) = top
        OBVIOUS
      <4>1. Max(s) \in 1..top /\ top <= Max(s)
        BY <3>2
      <4> QED
        BY <2>1, <4>1
    <3> QED
      BY <3>1, <3>2, <3>3
  <2>4. h \in [SUBSET (1..top) -> D]
    <3>1. ASSUME NEW s \in SUBSET (1..top)
          PROVE  (IF top \in s THEN F[top][g[s \ {top}]] ELSE g[s]) \in D
      BY <2>1, <2>2, <2>3 DEF Closed
    <3> QED
      BY <3>1
  <2>5. ASSUME NEW s \in SUBSET (1..top)
        PROVE  h[s] = IF s = {} THEN base ELSE F[Max(s)][h[s \ {Max(s)}]]
    <3> HIDE DEF top
    <3>1. CASE top \in s
      <4>1. Max(s) = top /\ s \ {top} \in SUBSET (1..m) /\ s \ {top} \in SUBSET (1..top)
            /\ top \notin s \ {top}
        BY <2>3, <3>1
      <4>2. h[s \ {top}] = g[s \ {top}]
        BY <4>1
      <4>3. h[s] = F[top][g[s \ {top}]]
        BY <3>1
      <4> QED
        BY <3>1, <4>1, <4>2, <4>3
    <3>2. CASE top \notin s
      <4>1. s \in SUBSET (1..m) /\ h[s] = g[s]
        BY <2>3, <3>2
      <4>2. g[s] = IF s = {} THEN base ELSE F[Max(s)][g[s \ {Max(s)}]]
        BY <2>2, <4>1
      <4>3. s # {} => h[s \ {Max(s)}] = g[s \ {Max(s)}]
        <5>1. s \ {Max(s)} \in SUBSET (1..top) /\ top \notin s \ {Max(s)}
          BY <3>2
        <5> QED
          BY <5>1
      <4> QED
        BY <4>1, <4>2, <4>3
    <3> QED
      BY <3>1, <3>2
  <2> HIDE DEF h
  <2> QED
    BY <2>4, <2>5
<1>3. Is(n)
  <2> HIDE DEF Is
  <2>1. T \subseteq Nat
    OBVIOUS
  <2> HIDE DEF T
  <2>2. n \in T
    BY <1>1, <1>2, <2>1, Induction
  <2> QED
    BY <2>2 DEF T
<1> QED
  BY <1>3 DEF Recurs

\* The prefixes of 1..n, taken one by one.
LEMMA UpToK ==
  ASSUME NEW n \in Nat, NEW k \in 1..n
  PROVE  /\ (1..k) \in SUBSET (1..n) /\ (1..k) # {} /\ Max(1..k) = k
         /\ (1..k) \ {k} = 1..(k - 1) /\ 1..(k - 1) \in SUBSET (1..n)
<1> DEFINE s == 1..k
<1>1. s \in SUBSET (1..n) /\ k \in s /\ s # {}
  OBVIOUS
<1>2. Max(s) \in s /\ k <= Max(s)
  BY <1>1, MaxIs
<1>3. Max(s) = k
  BY <1>2
<1>4. s \ {k} = 1..(k - 1)
  OBVIOUS
<1>5. 1..(k - 1) \in SUBSET (1..n)
  OBVIOUS
<1> QED
  BY <1>1, <1>3, <1>4, <1>5

----------------------------------------------------------------------------
(* The lines of a configuration file *)

Start == [ok |-> TRUE, section |-> <<>>, values |-> <<>>]

\* What the lines of a file make of the values, one line after the other.
LEMMA LoadSteps ==
  ASSUME NEW lines, FileOk(lines)
  PROVE  \E A : /\ A[0] = Start /\ LoadFromString(lines) = A[Len(lines)]
                /\ \A k \in 1..Len(lines) : A[k] = LoadLine(A[k - 1], lines[k])
<1> DEFINE n == Len(lines)
           S == {<<>>} \cup {lines[i].key : i \in 1..n}
           K == {p[1] \o p[2] : p \in S \X S}
           V == {lines[i].value : i \in 1..n}
           M == UNION {[X -> V] : X \in SUBSET K}
           D == [ok : BOOLEAN, section : S, values : M]
           F == [i \in 1..n |-> [d \in D |-> LoadLine(d, lines[i])]]
<1>1. n \in Nat /\ DOMAIN lines = 1..n
      /\ \A i \in 1..n : lines[i].is \in {"section", "entry", "blank", "noEquals", "noKey"}
  BY DEF FileOk, IsSeq
<1>2. Start \in D
  <2>1. <<>> \in [{} -> V] /\ {} \in SUBSET K
    OBVIOUS
  <2>2. <<>> \in M
    BY <2>1
  <2> HIDE DEF M
  <2> QED
    BY <2>2 DEF Start
<1>3. ASSUME NEW i \in 1..n, NEW d \in D PROVE LoadLine(d, lines[i]) \in D
  <2> DEFINE l == lines[i]
             x == d.section \o l.key
             v == Assigned(d.values, x, l.value)
  <2>1. d.section \in S /\ l.key \in S /\ d.values \in M /\ d.ok \in BOOLEAN
        /\ d = [ok |-> d.ok, section |-> d.section, values |-> d.values]
    <3> HIDE DEF M
    <3> QED
      OBVIOUS
  <2>2. l.value \in V /\ x \in K
    <3>1. x = (<<d.section, l.key>>)[1] \o (<<d.section, l.key>>)[2]
      OBVIOUS
    <3>2. <<d.section, l.key>> \in S \X S
      BY <2>1
    <3> HIDE DEF S
    <3> QED
      BY <3>1, <3>2
  <2>3. PICK X \in SUBSET K : d.values \in [X -> V]
    BY <2>1
  <2>4. v \in [X \cup {x} -> V]
    <3> HIDE DEF V, x
    <3> QED
      BY <2>2, <2>3 DEF Assigned
  <2>5. v \in M
    <3>1. X \cup {x} \in SUBSET K
      BY <2>2, <2>3
    <3> HIDE DEF K, V, x, v
    <3> QED
      BY <2>4, <3>1
  <2> HIDE DEF M, S, V, K, x
  <2>6. CASE ~d.ok \/ l.is = "blank"
    <3>1. LoadLine(d, l) = d
      BY <2>6 DEF LoadLine
    <3> QED
      BY <3>1
  <2>7. CASE d.ok /\ l.is = "section"
    <3>1. LoadLine(d, l) = [d EXCEPT !.section = l.key]
      BY <2>7 DEF LoadLine
    <3> QED
      BY <2>1, <3>1
  <2>8. CASE d.ok /\ l.is = "entry"
    <3>1. LoadLine(d, l) = [d EXCEPT !.values = v]
      BY <2>8 DEF LoadLine, x
    <3> HIDE DEF v
    <3> QED
      BY <2>1, <2>5, <3>1
  <2>9. CASE d.ok /\ l.is \in {"noEquals", "noKey"}
    <3>1. LoadLine(d, l) = [d EXCEPT !.ok = FALSE]
      BY <2>9 DEF LoadLine
    <3> QED
      BY <2>1, <3>1
  <2>10. l.is \in {"section", "entry", "blank", "noEquals", "noKey"}
    BY <1>1
  <2> HIDE DEF l
  <2> QED
    BY <2>6, <2>7, <2>8, <2>9, <2>10 DEF l
<1> HIDE DEF D
<1>4. \A i \in 1..n : \A d \in D : F[i][d] = LoadLine(d, lines[i]) /\ F[i][d] \in D
  BY <1>3
<1> HIDE DEF F
<1> DEFINE Is(g) == g = [s \in SUBSET DOMAIN lines |->
                           IF s = {} THEN Start
                           ELSE LoadLine(g[s \ {Max(s)}], lines[Max(s)])]
<1>5. \E g : Is(g)
  <2>0. Closed(F, n, D)
    BY <1>4 DEF Closed
  <2>1. PICK g \in [SUBSET (1..n) -> D] : Recurs(g, n, Start, F)
    BY <1>1, <1>2, <2>0, FoldIsDefined
  <2>2. ASSUME NEW s \in SUBSET (1..n), s # {}
        PROVE  F[Max(s)][g[s \ {Max(s)}]] = LoadLine(g[s \ {Max(s)}], lines[Max(s)])
    <3>1. Max(s) \in 1..n
      BY <1>1, <2>2, MaxIs
    <3>2. g[s \ {Max(s)}] \in D
      BY <2>1
    <3> QED
      BY <1>4, <3>1, <3>2
  <2>3. \A s \in SUBSET (1..n) :
          g[s] = IF s = {} THEN Start ELSE LoadLine(g[s \ {Max(s)}], lines[Max(s)])
    BY <2>1, <2>2 DEF Recurs
  <2>4. g = [s \in SUBSET (1..n) |-> g[s]]
    BY <2>1
  <2>5. Is(g)
    BY <1>1, <2>3, <2>4
  <2> QED
    BY <2>5
<1> DEFINE g == CHOOSE g : Is(g)
<1>6. Is(g)
  BY <1>5
<1>7. LoadFromString(lines) = g[DOMAIN lines]
  BY DEF LoadFromString, FoldLeft, MapThenFoldSet, Start
<1> HIDE DEF g
<1>8. \A s \in SUBSET (1..n) :
        g[s] = IF s = {} THEN Start ELSE LoadLine(g[s \ {Max(s)}], lines[Max(s)])
  BY <1>1, <1>6
<1> DEFINE A == [k \in 0..n |-> g[1..k]]
<1>9. A[0] = Start /\ A[n] = g[1..n]
  <2>1. 1..0 = {} /\ (1..0) \in SUBSET (1..n) /\ 0 \in 0..n /\ n \in 0..n
    BY <1>1
  <2> QED
    BY <1>8, <2>1
<1>10. ASSUME NEW k \in 1..n PROVE A[k] = LoadLine(A[k - 1], lines[k])
  <2>1. k \in 0..n /\ k - 1 \in 0..n
    BY <1>1
  <2>2. /\ (1..k) \in SUBSET (1..n) /\ (1..k) # {} /\ Max(1..k) = k
        /\ (1..k) \ {k} = 1..(k - 1)
    BY <1>1, UpToK
  <2>3. g[1..k] = LoadLine(g[1..(k - 1)], lines[k])
    BY <1>8, <2>2
  <2> QED
    BY <2>1, <2>3
<1> QED
  BY <1>1, <1>7, <1>9, <1>10, ZenonT(30)

\* The entries up to line k, and those of them that set a key.
EntriesTo(lines, k) == {i \in 1..k : lines[i].is = "entry"}
SettersTo(lines, k, key) == {i \in EntriesTo(lines, k) : KeyAt(lines, i) = key}

\* What acc is after k lines.
Loaded(acc, lines, k) ==
  /\ acc = [ok |-> acc.ok, section |-> acc.section, values |-> acc.values]
  /\ acc.ok =>
       /\ acc.section = SectionAt(lines, k)
       /\ acc.values = [x \in {KeyAt(lines, i) : i \in EntriesTo(lines, k)} |->
                          lines[Max(SettersTo(lines, k, x))].value]

\* A set that has its bound has it as its greatest number.
LEMMA MaxIsTop ==
  ASSUME NEW k \in Nat, NEW s \in SUBSET (1..k), k \in s
  PROVE  Max(s) = k
<1>1. Max(s) \in s /\ k <= Max(s)
  BY MaxIs
<1>2. Max(s) \in 1..k
  BY <1>1
<1> QED
  BY <1>1, <1>2

\* A line that opens no section leaves the one there is.
LEMMA SectionStep ==
  ASSUME NEW lines, NEW k \in Nat
  PROVE  /\ lines[k + 1].is = "section" => SectionAt(lines, k + 1) = lines[k + 1].key
         /\ lines[k + 1].is # "section" => SectionAt(lines, k + 1) = SectionAt(lines, k)
<1> DEFINE opened(i) == {j \in 1..i : lines[j].is = "section"}
           top == k + 1
<1>1. ASSUME lines[top].is = "section" PROVE SectionAt(lines, top) = lines[top].key
  <2>1. opened(top) \in SUBSET (1..top) /\ top \in opened(top) /\ top \in Nat
    BY <1>1
  <2>2. Max(opened(top)) = top
    BY <2>1, MaxIsTop
  <2> HIDE DEF top
  <2> QED
    BY <2>1, <2>2 DEF SectionAt
<1>2. ASSUME lines[top].is # "section" PROVE SectionAt(lines, top) = SectionAt(lines, k)
  <2>1. opened(top) = opened(k)
    BY <1>2
  <2> QED
    BY <2>1 DEF SectionAt
<1> QED
  BY <1>1, <1>2

\* The last value of a key counts.
LEMMA EntryStep ==
  ASSUME NEW lines, NEW k \in Nat, NEW acc, acc.ok, Loaded(acc, lines, k),
         lines[k + 1].is = "entry"
  PROVE  LET key == KeyAt(lines, k + 1) IN
         Assigned(acc.values, key, lines[k + 1].value)
           = [x \in {KeyAt(lines, i) : i \in EntriesTo(lines, k + 1)} |->
                lines[Max(SettersTo(lines, k + 1, x))].value]
<1> DEFINE top == k + 1
           key == KeyAt(lines, top)
           X(j) == {KeyAt(lines, i) : i \in EntriesTo(lines, j)}
           v(j) == [x \in X(j) |-> lines[Max(SettersTo(lines, j, x))].value]
<1>0. top \in Nat
  OBVIOUS
<1>1. acc.values = v(k)
  BY DEF Loaded
<1>2. EntriesTo(lines, top) = EntriesTo(lines, k) \cup {top}
  BY DEF EntriesTo
<1>3. X(top) = X(k) \cup {key}
  BY <1>2
<1>4. Max(SettersTo(lines, top, key)) = top
  <2>1. SettersTo(lines, top, key) \in SUBSET (1..top)
    BY DEF SettersTo, EntriesTo
  <2>2. top \in SettersTo(lines, top, key)
    BY <1>2 DEF SettersTo
  <2> QED
    BY <1>0, <2>1, <2>2, MaxIsTop
<1>5. ASSUME NEW x, x # key PROVE SettersTo(lines, top, x) = SettersTo(lines, k, x)
  BY <1>2, <1>5 DEF SettersTo
<1>6. DOMAIN v(k) = X(k)
  OBVIOUS
<1> HIDE DEF X
<1>7. ASSUME NEW x \in X(top)
      PROVE  (IF x = key THEN lines[top].value ELSE v(k)[x])
               = lines[Max(SettersTo(lines, top, x))].value
  <2> HIDE DEF top, key
  <2>1. CASE x = key
    BY <1>4, <2>1
  <2>2. CASE x # key
    BY <1>3, <1>5, <2>2
  <2> QED
    BY <2>1, <2>2
<1>8. Assigned(v(k), key, lines[top].value)
        = [x \in X(top) |-> IF x = key THEN lines[top].value ELSE v(k)[x]]
  BY <1>3, <1>6 DEF Assigned
<1>9. Assigned(v(k), key, lines[top].value) = v(top)
  BY <1>7, <1>8
<1> QED
  BY <1>1, <1>9 DEF X

\* A file that is accepted has the last value of every key that it sets.
LEMMA LoadIs ==
  ASSUME NEW lines, FileOk(lines)
  PROVE  Loaded(LoadFromString(lines), lines, Len(lines))
<1> DEFINE n == Len(lines)
<1>1. PICK A : /\ A[0] = Start /\ LoadFromString(lines) = A[n]
               /\ \A k \in 1..n : A[k] = LoadLine(A[k - 1], lines[k])
  BY LoadSteps
<1>2. n \in Nat
      /\ \A i \in 1..n : lines[i].is \in {"section", "entry", "blank", "noEquals", "noKey"}
  BY DEF FileOk, IsSeq
<1> DEFINE T == {k \in Nat : k <= n => Loaded(A[k], lines, k)}
<1> HIDE DEF n
<1>3. 0 \in T
  <2>1. EntriesTo(lines, 0) = {} /\ {i \in 1..0 : lines[i].is = "section"} = {}
    BY DEF EntriesTo
  <2>2. SectionAt(lines, 0) = <<>>
    BY <2>1 DEF SectionAt
  <2>3. <<>> = [x \in {KeyAt(lines, i) : i \in EntriesTo(lines, 0)} |->
                  lines[Max(SettersTo(lines, 0, x))].value]
    <3>1. {KeyAt(lines, i) : i \in EntriesTo(lines, 0)} = {}
      BY <2>1
    <3> QED
      BY <3>1
  <2>4. Loaded(Start, lines, 0)
    BY <2>2, <2>3 DEF Loaded, Start
  <2> QED
    BY <1>1, <2>4
<1>4. ASSUME NEW k \in T PROVE k + 1 \in T
  <2> DEFINE top == k + 1
             acc == A[k]
             l == lines[top]
  <2> SUFFICES ASSUME top <= n PROVE Loaded(A[top], lines, top)
    OBVIOUS
  <2>1. k \in Nat /\ top \in 1..n /\ top - 1 = k /\ Loaded(acc, lines, k)
    BY <1>2
  <2>2. A[top] = LoadLine(acc, l)
    BY <1>1, <2>1
  <2>3. l.is \in {"section", "entry", "blank", "noEquals", "noKey"}
    BY <1>2, <2>1
  <2>4. ASSUME l.is # "entry" PROVE EntriesTo(lines, top) = EntriesTo(lines, k)
    BY <2>1, <2>4 DEF EntriesTo
  <2>5. ASSUME l.is # "entry"
        PROVE  acc.ok => acc.values = [x \in {KeyAt(lines, i) : i \in EntriesTo(lines, top)} |->
                                         lines[Max(SettersTo(lines, top, x))].value]
    <3>1. \A x : SettersTo(lines, top, x) = SettersTo(lines, k, x)
      BY <2>4, <2>5 DEF SettersTo
    <3> HIDE DEF top, acc
    <3> QED
      BY <2>1, <2>4, <2>5, <3>1 DEF Loaded
  <2>6. /\ l.is = "section" => SectionAt(lines, top) = l.key
        /\ l.is # "section" => SectionAt(lines, top) = SectionAt(lines, k)
    BY <2>1, SectionStep
  <2>7. l.is = "entry" /\ acc.ok =>
          Assigned(acc.values, KeyAt(lines, top), l.value)
            = [x \in {KeyAt(lines, i) : i \in EntriesTo(lines, top)} |->
                 lines[Max(SettersTo(lines, top, x))].value]
    BY <2>1, EntryStep
  <2> DEFINE vals == [x \in {KeyAt(lines, i) : i \in EntriesTo(lines, top)} |->
                        lines[Max(SettersTo(lines, top, x))].value]
  <2> HIDE DEF top, acc, l, vals
  <2>8. CASE ~acc.ok
    <3>1. A[top] = acc
      BY <2>2, <2>8 DEF LoadLine
    <3> QED
      BY <2>1, <2>8, <3>1 DEF Loaded
  <2>9. CASE acc.ok /\ l.is = "blank"
    <3>1. A[top] = acc
      BY <2>2, <2>9 DEF LoadLine
    <3>2. acc.section = SectionAt(lines, top) /\ acc.values = vals
      BY <2>1, <2>5, <2>6, <2>9 DEF Loaded, vals
    <3> QED
      BY <2>1, <3>1, <3>2 DEF Loaded, vals
  <2>10. CASE acc.ok /\ l.is = "section"
    <3>1. A[top] = [acc EXCEPT !.section = l.key]
      BY <2>2, <2>10 DEF LoadLine
    <3>2. acc.values = vals
      BY <2>5, <2>10 DEF vals
    <3>3. acc = [ok |-> acc.ok, section |-> acc.section, values |-> acc.values]
      BY <2>1 DEF Loaded
    <3> QED
      BY <2>6, <2>10, <3>1, <3>2, <3>3 DEF Loaded, vals
  <2>11. CASE acc.ok /\ l.is = "entry"
    <3>1. A[top] = [acc EXCEPT !.values = Assigned(@, acc.section \o l.key, l.value)]
      BY <2>2, <2>11 DEF LoadLine
    <3>2. acc.section = SectionAt(lines, top)
      BY <2>1, <2>6, <2>11 DEF Loaded
    <3>3. acc.section \o l.key = KeyAt(lines, top)
      BY <3>2 DEF KeyAt, l
    <3>4. acc = [ok |-> acc.ok, section |-> acc.section, values |-> acc.values]
      BY <2>1 DEF Loaded
    <3>5. A[top] = [ok |-> acc.ok, section |-> acc.section, values |-> vals]
      BY <2>7, <2>11, <3>1, <3>3, <3>4 DEF vals
    <3> QED
      BY <2>11, <3>2, <3>5 DEF Loaded, vals
  <2>12. CASE acc.ok /\ l.is \in {"noEquals", "noKey"}
    <3>1. A[top] = [acc EXCEPT !.ok = FALSE]
      BY <2>2, <2>12 DEF LoadLine
    <3>2. acc = [ok |-> acc.ok, section |-> acc.section, values |-> acc.values]
      BY <2>1 DEF Loaded
    <3> QED
      BY <2>12, <3>1, <3>2 DEF Loaded
  <2> QED
    BY <2>3, <2>8, <2>9, <2>10, <2>11, <2>12
<1>5. T \subseteq Nat
  OBVIOUS
<1> HIDE DEF T
<1>6. n \in T
  BY <1>2, <1>3, <1>4, <1>5, Induction
<1> QED
  BY <1>1, <1>2, <1>6 DEF T, n

\* The values of a function on a finite set are finitely many.
LEMMA FiniteImage ==
  ASSUME NEW S, IsFiniteSet(S), NEW T, NEW f \in [S -> T], T = {f[x] : x \in S}
  PROVE  IsFiniteSet(T)
<1>1. f \in Surjection(S, T)
  BY DEF Surjection
<1> QED
  BY <1>1, FS_Surjection

\* What the values of an accepted file are.
ValuesOk(values) ==
  /\ IsFiniteSet(DOMAIN values)
  /\ \A x \in DOMAIN values :
       /\ values[x].num \in Nat \cup {Unparsable}
       /\ IsSeq(values[x].text) /\ IsSeq(values[x].list)
       /\ Len(x) = 3 => x = <<x[1], x[2], x[3]>>
       /\ Len(x) = 3 /\ x[1] = "route" => x[2] \in Nat

\* A thing that is a sequence is one over its elements.
LEMMA SeqOver ==
  ASSUME NEW q, IsSeq(q), NEW C, \A i \in 1..Len(q) : q[i] \in C
  PROVE  q \in Seq(C)
<1>1. q \in [1..Len(q) -> C] /\ Len(q) \in Nat
  BY DEF IsSeq
<1> QED
  BY <1>1, SeqDef

\* A joined key is a sequence of words.
LEMMA KeyIs ==
  ASSUME NEW lines, FileOk(lines), NEW i \in DOMAIN lines, lines[i].is = "entry"
  PROVE  Len(KeyAt(lines, i)) = 3 =>
           KeyAt(lines, i) = <<KeyAt(lines, i)[1], KeyAt(lines, i)[2], KeyAt(lines, i)[3]>>
<1> DEFINE p == SectionAt(lines, i)
           q == lines[i].key
           C == {p[k] : k \in 1..Len(p)} \cup {q[k] : k \in 1..Len(q)}
           r == p \o q
<1>1. IsSeq(q)
  BY DEF FileOk
<1>2. IsSeq(p)
  <2> DEFINE opened == {k \in 1..i : lines[k].is = "section"}
  <2>1. CASE opened = {}
    <3>1. p = <<>>
      BY <2>1 DEF SectionAt
    <3> QED
      BY <3>1 DEF IsSeq
  <2>2. CASE opened # {}
    <3>1. i \in Nat /\ DOMAIN lines = 1..Len(lines) /\ Len(lines) \in Nat
      BY DEF FileOk, IsSeq
    <3>2. Max(opened) \in opened
      BY <2>2, <3>1, MaxIs
    <3>3. Max(opened) \in DOMAIN lines /\ lines[Max(opened)].is = "section"
      BY <3>1, <3>2
    <3>4. IsSeq(lines[Max(opened)].key)
      BY <3>3 DEF FileOk
    <3>5. p = lines[Max(opened)].key
      BY <2>2 DEF SectionAt
    <3> QED
      BY <3>4, <3>5
  <2> QED
    BY <2>1, <2>2
<1> HIDE DEF p, q
<1>3. p \in Seq(C) /\ q \in Seq(C)
  BY <1>1, <1>2, SeqOver
<1> HIDE DEF C
<1>4. r \in Seq(C)
  BY <1>3, ConcatProperties
<1>5. KeyAt(lines, i) = r
  BY DEF KeyAt, p, q
<1> HIDE DEF r
<1>6. Len(r) = 3 => r = <<r[1], r[2], r[3]>>
  <2> SUFFICES ASSUME Len(r) = 3 PROVE r = <<r[1], r[2], r[3]>>
    OBVIOUS
  <2>1. r[1] \in C /\ r[2] \in C /\ r[3] \in C
    <3>1. 1 \in 1..Len(r) /\ 2 \in 1..Len(r) /\ 3 \in 1..Len(r)
      OBVIOUS
    <3> QED
      BY <1>4, <3>1, ElementOfSeq
  <2>2. <<r[1], r[2], r[3]>> \in Seq(C)
    BY <2>1
  <2> QED
    BY <1>4, <2>2, SeqEqual
<1> QED
  BY <1>5, <1>6

\* The values of a file that was read to its end.
LEMMA ValuesAre ==
  ASSUME NEW lines, FileOk(lines), LoadFromString(lines).ok
  PROVE  LET values == LoadFromString(lines).values IN
         /\ ValuesOk(values)
         /\ \A x : Setters(lines, x) # {} =>
              x \in DOMAIN values /\ values[x] = lines[Max(Setters(lines, x))].value
<1> DEFINE n == Len(lines)
           values == LoadFromString(lines).values
           E == EntriesTo(lines, n)
           X == {KeyAt(lines, i) : i \in E}
<1>1. n \in Nat /\ DOMAIN lines = 1..n
  BY DEF FileOk, IsSeq
<1>2. values = [x \in X |-> lines[Max(SettersTo(lines, n, x))].value]
  BY LoadIs DEF Loaded
<1>3. \A x : Setters(lines, x) = SettersTo(lines, n, x)
  BY <1>1 DEF Setters, SettersTo, EntriesTo
<1>4. IsFiniteSet(X)
  <2>1. IsFiniteSet(1..n)
    BY <1>1, FS_Interval
  <2>2. IsFiniteSet(E)
    BY <2>1, FS_Subset DEF EntriesTo
  <2> HIDE DEF E
  <2> DEFINE f == [i \in E |-> KeyAt(lines, i)]
  <2>3. f \in [E -> X]
    OBVIOUS
  <2>4. X = {f[i] : i \in E}
    OBVIOUS
  <2> HIDE DEF f, X
  <2> QED
    BY <2>2, <2>3, <2>4, FiniteImage
<1> HIDE DEF values
<1>5. ASSUME NEW x \in X
      PROVE  \E i \in DOMAIN lines :
               lines[i].is = "entry" /\ KeyAt(lines, i) = x /\ values[x] = lines[i].value
  <2> DEFINE s == SettersTo(lines, n, x)
  <2>1. s \in SUBSET (1..n) /\ s # {}
    BY DEF SettersTo, EntriesTo
  <2>2. Max(s) \in s
    BY <1>1, <2>1, MaxIs
  <2>3. Max(s) \in DOMAIN lines /\ lines[Max(s)].is = "entry" /\ KeyAt(lines, Max(s)) = x
    BY <1>1, <2>2 DEF SettersTo, EntriesTo
  <2>4. values[x] = lines[Max(s)].value
    BY <1>2
  <2> QED
    BY <2>3, <2>4
<1>6. ASSUME NEW x \in X
      PROVE  /\ values[x].num \in Nat \cup {Unparsable}
             /\ IsSeq(values[x].text) /\ IsSeq(values[x].list)
             /\ Len(x) = 3 => x = <<x[1], x[2], x[3]>>
             /\ Len(x) = 3 /\ x[1] = "route" => x[2] \in Nat
  <2>1. PICK i \in DOMAIN lines :
          lines[i].is = "entry" /\ KeyAt(lines, i) = x /\ values[x] = lines[i].value
    BY <1>5
  <2>2. /\ lines[i].value.num \in Nat \cup {Unparsable}
        /\ IsSeq(lines[i].value.text) /\ IsSeq(lines[i].value.list)
        /\ Len(x) = 3 /\ x[1] = "route" => x[2] \in Nat
    BY <2>1 DEF FileOk
  <2>3. Len(x) = 3 => x = <<x[1], x[2], x[3]>>
    BY <2>1, KeyIs
  <2> QED
    BY <2>1, <2>2, <2>3
<1>7. DOMAIN values = X
  BY <1>2
<1>8. ValuesOk(values)
  BY <1>4, <1>6, <1>7 DEF ValuesOk
<1>9. ASSUME NEW x, Setters(lines, x) # {}
      PROVE  x \in DOMAIN values /\ values[x] = lines[Max(Setters(lines, x))].value
  <2>1. x \in X
    BY <1>3, <1>9 DEF SettersTo
  <2> QED
    BY <1>2, <1>3, <1>7, <2>1
<1> QED
  BY <1>8, <1>9 DEF values

\* Short tuples put together.
LEMMA ShortTuples ==
  ASSUME NEW a, NEW b, NEW c
  PROVE  Append(<<a>>, b) = <<a, b>> /\ <<a, b>> \o <<c>> = <<a, b, c>>
<1> DEFINE C == {a, b, c}
           p == <<a>>
           q == <<a, b>>
           t == <<c>>
           r == <<a, b, c>>
<1>1. p \in Seq(C) /\ Len(p) = 1 /\ p[1] = a /\ q \in Seq(C) /\ Len(q) = 2 /\ q[1] = a /\ q[2] = b
      /\ r \in Seq(C) /\ Len(r) = 3 /\ r[1] = a /\ r[2] = b /\ r[3] = c
      /\ t \in Seq(C) /\ Len(t) = 1 /\ t[1] = c
  OBVIOUS
<1>2. b \in C
  OBVIOUS
<1> HIDE DEF p, q, r, t, C
<1>3. Append(p, b) = q
  <2> DEFINE d == Append(p, b)
  <2>1. d \in Seq(C) /\ Len(d) = 2 /\ d[1] = a /\ d[2] = b
    <3>1. /\ d \in Seq(C) /\ Len(d) = Len(p) + 1
          /\ \A i \in 1..Len(p) : d[i] = p[i]
          /\ d[Len(p) + 1] = b
      BY <1>1, <1>2, AppendProperties, ZenonT(60)
    <3> HIDE DEF d
    <3>2. Len(p) + 1 = 2 /\ 1 \in 1..Len(p)
      BY <1>1
    <3>3. d[2] = b
      BY <3>1, <3>2
    <3> QED
      BY <1>1, <3>1, <3>2, <3>3
  <2> HIDE DEF d
  <2>2. \A i \in 1..2 : d[i] = q[i]
    BY <1>1, <2>1
  <2>3. d = q
    BY <1>1, <2>1, <2>2, SeqEqual
  <2> QED
    BY <2>3 DEF d
<1>4. q \o t = r
  <2> DEFINE d == q \o t
  <2>1. d \in Seq(C) /\ Len(d) = 3 /\ d[1] = a /\ d[2] = b /\ d[3] = c
    <3>1. /\ d \in Seq(C) /\ Len(d) = Len(q) + Len(t)
          /\ \A i \in 1..(Len(q) + Len(t)) : d[i] = IF i <= Len(q) THEN q[i] ELSE t[i - Len(q)]
      BY <1>1, ConcatProperties
    <3> HIDE DEF d
    <3>2. Len(q) + Len(t) = 3 /\ Len(q) = 2
      BY <1>1
    <3>3. \A i \in 1..3 : d[i] = IF i <= 2 THEN q[i] ELSE t[i - 2]
      BY <3>1, <3>2
    <3>4. d[1] = q[1] /\ d[2] = q[2] /\ d[3] = t[1]
      BY <3>3
    <3> QED
      BY <1>1, <3>1, <3>2, <3>4
  <2> HIDE DEF d
  <2>2. \A i \in 1..3 : d[i] = r[i]
    BY <1>1, <2>1
  <2>3. d = r
    BY <1>1, <2>1, <2>2, SeqEqual
  <2> QED
    BY <2>3 DEF d
<1> QED
  BY <1>3, <1>4 DEF p, q, r, t

\* A setting has a number, or one that says that it cannot be parsed.
LEMMA SettingIs ==
  ASSUME NEW values, ValuesOk(values), NEW base, NEW name, Defaults[name] \in Nat
  PROVE  Setting(values, base, name) \in Nat \cup {Unparsable}
BY DEF Setting, ValuesOk

\* Settings have names of their own, and these nine may not be zero.
LEMMA SettingNames ==
  /\ \A s, t \in Settings : s.name = t.name => s = t
  /\ \A s \in Settings :
       s.name \in {"listen_port", "workers", "header_limit", "body_limit", "ring_entries",
                   "pending_queue_capacity", "pending_submission_capacity",
                   "registered_buffer_size", "graceful_shutdown_ms"} => s.zero = FALSE
  /\ \A n \in {"listen_port", "workers", "header_limit", "body_limit", "ring_entries",
               "pending_queue_capacity", "pending_submission_capacity",
               "registered_buffer_size", "graceful_shutdown_ms"} :
       \E s \in Settings : s.name = n
BY DEF Settings

\* The settings of an accepted configuration are those of their own sections.
LEMMA SettingsAre ==
  ASSUME NEW values, NEW s \in Settings
  PROVE  From(values).settings[s.name] = Setting(values, <<s.section>>, s.name)
<1> DEFINE N == {t.name : t \in Settings}
           t == CHOOSE t \in Settings : t.name = s.name
<1>1. t \in Settings /\ t.name = s.name
  OBVIOUS
<1>2. t = s
  BY <1>1, SettingNames
<1>3. s.name \in N
  OBVIOUS
<1>4. From(values).settings = [n \in N |->
                                 LET u == CHOOSE u \in Settings : u.name = n
                                 IN Setting(values, <<u.section>>, n)]
  BY DEF From
<1> QED
  BY <1>2, <1>3, <1>4

\* Those that may not be zero are positive.
LEMMA SettingsPositive ==
  ASSUME NEW values, ValuesOk(values), Valid(values),
         NEW n \in {"listen_port", "workers", "header_limit", "body_limit", "ring_entries",
                    "pending_queue_capacity", "pending_submission_capacity",
                    "registered_buffer_size", "graceful_shutdown_ms"}
  PROVE  From(values).settings[n] \in Nat /\ From(values).settings[n] > 0
<1>1. PICK s \in Settings : s.name = n
  BY SettingNames
<1>2. s.zero = FALSE
  BY <1>1, SettingNames
<1> DEFINE v == Setting(values, <<s.section>>, s.name)
<1>3. InRange(v, s.max, s.zero)
  BY DEF Valid
<1>4. v \in Nat \cup {Unparsable}
  BY DefaultsAssumption, SettingIs
<1>5. From(values).settings[n] = v
  BY <1>1, SettingsAre
<1> HIDE DEF v
<1>6. v \in Nat /\ v > 0
  BY <1>2, <1>3, <1>4 DEF InRange, Unparsable
<1> QED
  BY <1>5, <1>6

\* Routes of an accepted configuration: different names, upstreams to choose from.
RoutesOk(routes) ==
  /\ Len(routes) \in Nat /\ DOMAIN routes = 1..Len(routes)
  /\ \A i \in DOMAIN routes :
       /\ routes[i].name \in Nat /\ Len(routes[i].prefix) \in Nat
       /\ Len(routes[i].upstreams) \in Nat \ {0}
  /\ \A i, k \in DOMAIN routes : routes[i].name = routes[k].name => i = k

\* The names of the routes.
LEMMA RouteNamesAre ==
  ASSUME NEW values, ValuesOk(values)
  PROVE  /\ RouteNames(values) \subseteq Nat /\ IsFiniteSet(RouteNames(values))
         /\ \A name \in RouteNames(values) : <<"route", name, "prefix">> \in DOMAIN values
<1> DEFINE X == {k \in DOMAIN values : Len(k) = 3 /\ k[1] = "route" /\ k[3] = "prefix"}
           f == [k \in X |-> k[2]]
<1>1. RouteNames(values) = {k[2] : k \in X}
  BY DEF RouteNames
<1>2. IsFiniteSet(X)
  BY FS_Subset DEF ValuesOk
<1>3. RouteNames(values) \subseteq Nat
  BY <1>1 DEF ValuesOk
<1>4. ASSUME NEW name \in RouteNames(values) PROVE <<"route", name, "prefix">> \in DOMAIN values
  <2>1. PICK k \in X : k[2] = name
    BY <1>1
  <2>2. k = <<k[1], k[2], k[3]>>
    BY DEF ValuesOk
  <2> QED
    BY <2>1, <2>2
<1>5. f \in [X -> RouteNames(values)] /\ RouteNames(values) = {f[k] : k \in X}
  BY <1>1
<1> HIDE DEF X, f
<1>6. IsFiniteSet(RouteNames(values))
  BY <1>2, <1>5, FiniteImage
<1> QED
  BY <1>3, <1>4, <1>6

\* A thing that is a sequence and not empty has a length.
LEMMA LenNotZero ==
  ASSUME NEW q, IsSeq(q), q # <<>>
  PROVE  Len(q) \in Nat \ {0}
<1>1. q \in Seq({q[i] : i \in 1..Len(q)})
  BY SeqOver
<1> QED
  BY <1>1, EmptySeq

\* The routes of an accepted configuration.
LEMMA RoutesAre ==
  ASSUME NEW values, ValuesOk(values), Valid(values)
  PROVE  /\ RoutesOk(From(values).routes)
         /\ \A r \in Range(From(values).routes) :
              r.upstreams # <<>> /\ r.maxConnections > 0 /\ r.maxIdle <= r.maxConnections
<1> DEFINE N == RouteNames(values)
           names == Sorted(N, <)
           n == Cardinality(N)
           routes == From(values).routes
<1>1. N \subseteq Nat /\ IsFiniteSet(N) /\ N \in SUBSET Int
      /\ \A name \in N : <<"route", name, "prefix">> \in DOMAIN values
  BY RouteNamesAre
<1>2. /\ n \in Nat /\ names \in [1..n -> N]
      /\ \A i, j \in 1..n : i < j <=> names[i] < names[j]
  BY <1>1, SortedNumbers
<1>3. routes = [i \in DOMAIN names |-> RouteOf(values, names[i])]
  BY DEF From
<1> HIDE DEF N, names, n, routes
<1>4. DOMAIN routes = 1..n /\ Len(routes) = n
      /\ \A i \in 1..n : routes[i] = RouteOf(values, names[i]) /\ names[i] \in N
  <2>1. DOMAIN names = 1..n
    BY <1>2
  <2>2. routes = [i \in 1..n |-> RouteOf(values, names[i])]
    BY <1>3, <2>1
  <2>3. Len(routes) = n
    BY <1>2, <2>2
  <2> QED
    BY <1>2, <2>2, <2>3
<1>5. ASSUME NEW name \in N
      PROVE  LET r == RouteOf(values, name) IN
             /\ r.name = name /\ Len(r.prefix) \in Nat /\ r.upstreams # <<>>
             /\ Len(r.upstreams) \in Nat \ {0}
             /\ r.maxConnections > 0 /\ r.maxIdle <= r.maxConnections
  <2> DEFINE base == <<"route", name>>
             p == <<"route", name, "prefix">>
             u == base \o <<"upstreams">>
             r == RouteOf(values, name)
             mc == Setting(values, base, "max_connections_per_worker")
             mi == Setting(values, base, "max_idle_per_worker")
  <2>1. base \o <<"prefix">> = p
    BY ShortTuples
  <2>2. r = [name |-> name, prefix |-> values[p].text, upstreams |-> values[u].list,
             maxConnections |-> mc, maxIdle |-> mi]
    BY <2>1 DEF RouteOf
  <2>3. ValidRoute(values, name)
    BY DEF Valid, N
  <2>4. u \in DOMAIN values /\ values[u].list # <<>> /\ mi <= mc
        /\ \A s \in RouteSettings : InRange(Setting(values, base, s.name), s.max, s.zero)
    BY <2>3 DEF ValidRoute, ValidUpstreams
  <2>5. IsSeq(values[u].list) /\ IsSeq(values[p].text)
    BY <1>1, <2>4 DEF ValuesOk
  <2>6. Len(values[u].list) \in Nat \ {0} /\ Len(values[p].text) \in Nat
    BY <2>4, <2>5, LenNotZero DEF IsSeq
  <2>7. \E s \in RouteSettings : s.name = "max_connections_per_worker" /\ s.zero = FALSE
    BY DEF RouteSettings
  <2>8. PICK s \in RouteSettings : s.name = "max_connections_per_worker" /\ s.zero = FALSE
    BY <2>7
  <2>9. InRange(mc, s.max, FALSE)
    BY <2>4, <2>8
  <2>10. mc \in Nat \cup {Unparsable}
    BY <2>8, DefaultsAssumption, SettingIs
  <2>11. mc > 0
    BY <2>9, <2>10 DEF InRange, Unparsable
  <2> HIDE DEF p, u, mc, mi, r
  <2> QED
    BY <2>2, <2>4, <2>6, <2>11 DEF r
<1>6. RoutesOk(routes)
  <2>1. ASSUME NEW i \in 1..n
        PROVE  /\ routes[i].name = names[i] /\ routes[i].name \in Nat
               /\ Len(routes[i].prefix) \in Nat /\ Len(routes[i].upstreams) \in Nat \ {0}
    BY <1>1, <1>4, <1>5
  <2>2. ASSUME NEW i \in 1..n, NEW k \in 1..n, names[i] = names[k] PROVE i = k
    <3>1. names[i] \in Int /\ names[k] \in Int
      BY <1>1, <1>2
    <3>2. ~(i < k) /\ ~(k < i)
      BY <1>2, <2>2, <3>1
    <3> QED
      BY <1>2, <3>2
  <2> QED
    BY <1>2, <1>4, <2>1, <2>2 DEF RoutesOk
<1>7. ASSUME NEW r \in Range(routes)
      PROVE  r.upstreams # <<>> /\ r.maxConnections > 0 /\ r.maxIdle <= r.maxConnections
  <2>1. PICK i \in 1..n : r = routes[i]
    BY <1>4 DEF Range
  <2> QED
    BY <1>4, <1>5, <2>1
<1> QED
  BY <1>6, <1>7 DEF routes

\* The last line about a setting counts.
LEMMA LastLineCounts ==
  ASSUME NEW lines, FileOk(lines), LoadFromString(lines).ok, NEW s \in Settings,
         Setters(lines, <<s.section, s.name>>) # {}
  PROVE  From(LoadFromString(lines).values).settings[s.name]
           = lines[Max(Setters(lines, <<s.section, s.name>>))].value.num
<1> DEFINE values == LoadFromString(lines).values
           key == <<s.section, s.name>>
<1>1. key \in DOMAIN values /\ values[key] = lines[Max(Setters(lines, key))].value
  BY ValuesAre
<1>2. Append(<<s.section>>, s.name) = key
  BY ShortTuples
<1>3. Setting(values, <<s.section>>, s.name) = values[key].num
  BY <1>1, <1>2 DEF Setting
<1> QED
  BY <1>1, <1>3, SettingsAre

----------------------------------------------------------------------------
(* Routes *)

\* The routes in the order in which they are tried.
LEMMA OrderedRoutesAre ==
  ASSUME NEW routes, RoutesOk(routes)
  PROVE  LET S == Range(routes)
             q == OrderedRoutes(routes)
         IN \E n \in Nat :
              /\ q \in [1..n -> S] /\ Len(q) = n
              /\ \A r \in S : \E k \in 1..n : q[k] = r
              /\ \A i, j \in 1..n : i < j => Len(q[j].prefix) <= Len(q[i].prefix)
<1> DEFINE S == Range(routes)
           R == {p \in S \X S : Before(p[1], p[2])}
           n == Cardinality(S)
           q == [k \in 1..n |->
                   CHOOSE e \in S : Cardinality({f \in S : Before(f, e)}) = k - 1]
<1>1. \A e, f \in S : <<e, f>> \in R <=> Before(e, f)
  OBVIOUS
<1>2. \A e \in S : e.name \in Nat /\ Len(e.prefix) \in Nat
  BY DEF Range, RoutesOk
<1>3. \A e, f \in S : e.name = f.name => e = f
  BY DEF Range, RoutesOk
<1>4. IsFiniteSet(S)
  <2>1. IsFiniteSet(1..Len(routes)) /\ DOMAIN routes = 1..Len(routes)
    BY FS_Interval DEF RoutesOk
  <2> DEFINE f == [i \in DOMAIN routes |-> routes[i]]
  <2>2. f \in [DOMAIN routes -> S] /\ S = {f[i] : i \in DOMAIN routes}
    BY DEF Range
  <2> HIDE DEF f, S
  <2> QED
    BY <2>1, <2>2, FiniteImage
<1> HIDE DEF S
<1>5. Strict(S, R)
  <2>1. \A e \in S : ~Before(e, e)
    BY <1>2 DEF Before
  <2>2. \A e, f, g \in S : Before(e, f) /\ Before(f, g) => Before(e, g)
    BY <1>2 DEF Before
  <2>3. \A e, f \in S : e = f \/ Before(e, f) \/ Before(f, e)
    BY <1>2, <1>3 DEF Before
  <2> HIDE DEF R
  <2> QED
    BY <1>1, <2>1, <2>2, <2>3 DEF Strict
<1>6. \A e \in S : Below(S, R, e) = {f \in S : Before(f, e)}
  BY <1>1 DEF Below
<1> HIDE DEF R
<1>7. /\ n \in Nat
      /\ \A k \in 0..(n - 1) : \E e \in S : Cardinality(Below(S, R, e)) = k
  BY <1>4, <1>5, Ranks
<1>8. ASSUME NEW k \in 1..n
      PROVE  q[k] \in S /\ Cardinality({f \in S : Before(f, q[k])}) = k - 1
  <2>1. k - 1 \in 0..(n - 1)
    BY <1>7
  <2>2. \E e \in S : Cardinality({f \in S : Before(f, e)}) = k - 1
    BY <1>6, <1>7, <2>1
  <2> QED
    BY <2>2
<1>9. \A k \in 1..n : q[k] \in S /\ Cardinality(Below(S, R, q[k])) = k - 1
  BY <1>6, <1>8
<1>10. q = OrderedRoutes(routes)
  BY DEF OrderedRoutes, Sorted, S
<1>11. q \in [1..n -> S] /\ Len(q) = n
  <2>1. Len(q) = n
    BY <1>7
  <2> QED
    BY <1>8, <2>1
<1> HIDE DEF q
<1>12. /\ \A e \in S : \E k \in 1..n : q[k] = e
       /\ \A i, j \in 1..n : i < j <=> <<q[i], q[j]>> \in R
  BY <1>4, <1>5, <1>9, InOrder
<1>13. ASSUME NEW i \in 1..n, NEW j \in 1..n, i < j
       PROVE  Len(q[j].prefix) <= Len(q[i].prefix)
  <2>1. q[i] \in S /\ q[j] \in S /\ Before(q[i], q[j])
    BY <1>1, <1>9, <1>12, <1>13
  <2>2. Len(q[i].prefix) \in Nat /\ Len(q[j].prefix) \in Nat
    BY <1>2, <2>1
  <2> QED
    BY <2>1, <2>2 DEF Before
<1> HIDE DEF n
<1> QED
  BY <1>7, <1>10, <1>11, <1>12, <1>13 DEF S

\* The smallest number of a set.
LEMMA MinIs ==
  ASSUME NEW T \in SUBSET Nat, T # {}
  PROVE  Min(T) \in T /\ \A x \in T : Min(T) <= x
BY LeastNumber DEF Min

\* The route that is found has the longest prefix of those that match.
LEMMA MatchIs ==
  ASSUME NEW routes, RoutesOk(routes), NEW path
  PROVE  LET fits == {r \in Range(routes) : IsPrefix(r.prefix, path)}
         IN /\ Match(routes, path) = {} => fits = {}
            /\ Match(routes, path) # {} =>
                 \E r \in fits : /\ Match(routes, path) = {r}
                                 /\ \A s \in fits : Len(s.prefix) <= Len(r.prefix)
<1> DEFINE S == Range(routes)
           q == OrderedRoutes(routes)
           fits == {r \in S : IsPrefix(r.prefix, path)}
           I == {i \in 1..Len(q) : IsPrefix(q[i].prefix, path)}
           m == IF I # {} THEN Min(I) ELSE 0
<1>1. PICK n \in Nat :
         /\ q \in [1..n -> S] /\ Len(q) = n
         /\ \A r \in S : \E k \in 1..n : q[k] = r
         /\ \A i, j \in 1..n : i < j => Len(q[j].prefix) <= Len(q[i].prefix)
  BY OrderedRoutesAre
<1>2. Match(routes, path) = IF m = 0 THEN {} ELSE {q[m]}
  BY DEF Match, SelectInSeq
<1>3. \A r \in S : Len(r.prefix) \in Nat
  BY DEF RoutesOk, Range
<1> HIDE DEF S, q
<1>4. CASE I = {}
  <2>1. Match(routes, path) = {}
    BY <1>2, <1>4
  <2>2. fits = {}
    BY <1>1, <1>4
  <2> QED
    BY <2>1, <2>2 DEF S
<1>5. CASE I # {}
  <2>1. I \subseteq Nat /\ I \in SUBSET Nat
    OBVIOUS
  <2>2. m \in I /\ \A i \in I : m <= i
    BY <1>5, <2>1, MinIs
  <2> HIDE DEF m
  <2>3. m \in 1..n /\ q[m] \in fits /\ m # 0
    BY <1>1, <2>2
  <2>4. Match(routes, path) = {q[m]}
    BY <1>2, <2>3
  <2>5. ASSUME NEW s \in fits PROVE Len(s.prefix) <= Len(q[m].prefix)
    <3>1. PICK k \in 1..n : q[k] = s
      BY <1>1
    <3>2. k \in I
      BY <1>1, <3>1
    <3>3. m <= k
      BY <2>2, <3>2
    <3>4. CASE m = k
      BY <1>3, <3>1, <3>4
    <3>5. CASE m < k
      BY <1>1, <2>3, <3>1, <3>5
    <3> QED
      BY <2>3, <3>3, <3>4, <3>5
  <2> QED
    BY <2>3, <2>4, <2>5 DEF S
<1> QED
  BY <1>4, <1>5

----------------------------------------------------------------------------
(* The bytes of a head *)

CR == [is |-> "CR"]
LF == [is |-> "LF"]

\* Two sequences, one after the other, cell by cell.
Concats(r, p, q, C) ==
  /\ r \in Seq(C) /\ Len(r) = Len(p) + Len(q)
  /\ \A i \in 1..Len(p) : r[i] = p[i]
  /\ \A i \in 1..Len(q) : r[Len(p) + i] = q[i]

LEMMA ConcatCells ==
  ASSUME NEW C, NEW p \in Seq(C), NEW q \in Seq(C)
  PROVE  Concats(p \o q, p, q, C)
<1> DEFINE r == p \o q
<1> DEFINE m == Len(p)
           n == Len(q)
<1>0. m \in Nat /\ n \in Nat
  BY LenProperties
<1>1. /\ r \in Seq(C) /\ Len(r) = m + n
      /\ \A i \in 1..(m + n) : r[i] = IF i <= m THEN p[i] ELSE q[i - m]
  BY ConcatProperties
<1> HIDE DEF m, n, r
<1>3. ASSUME NEW i \in 1..m PROVE r[i] = p[i]
  <2>1. i \in 1..(m + n) /\ i <= m
    BY <1>0
  <2> QED
    BY <1>1, <2>1
<1>4. ASSUME NEW i \in 1..n PROVE r[m + i] = q[i]
  <2>1. m + i \in 1..(m + n) /\ ~(m + i <= m) /\ (m + i) - m = i
    BY <1>0
  <2> QED
    BY <1>1, <2>1
<1>5. Concats(r, p, q, C)
  BY <1>1, <1>3, <1>4 DEF m, n, Concats
<1> QED
  BY <1>5 DEF r

\* A line with its end.
LEMMA LineBytes ==
  ASSUME NEW C, CR \in C, LF \in C, NEW h \in C
  PROVE  LET t == <<h>> \o Crlf
         IN t \in Seq(C) /\ Len(t) = 3 /\ t[1] = h /\ t[2] = CR /\ t[3] = LF
<1> DEFINE p == <<h>>
           t == p \o Crlf
<1>1. p \in Seq(C) /\ Len(p) = 1 /\ p[1] = h
  OBVIOUS
<1>2. Crlf \in Seq(C) /\ Len(Crlf) = 2 /\ Crlf[1] = CR /\ Crlf[2] = LF
  BY DEF Crlf, CR, LF
<1> HIDE DEF p
<1>3. /\ t \in Seq(C) /\ Len(t) = 1 + 2
      /\ \A i \in 1..1 : t[i] = p[i]
      /\ \A i \in 1..2 : t[1 + i] = Crlf[i]
  <2> DEFINE e == Crlf
  <2>0. t = p \o e /\ e \in Seq(C)
    BY <1>2
  <2> HIDE DEF t, e
  <2>1. Concats(t, p, e, C)
    BY <1>1, <2>0, ConcatCells
  <2> USE DEF e
  <2> QED
    BY <1>1, <1>2, <2>1 DEF Concats
<1> HIDE DEF t
<1>4. t[1] = p[1] /\ t[1 + 1] = Crlf[1] /\ t[1 + 2] = Crlf[2]
  BY <1>3
<1>5. t[2] = CR /\ t[3] = LF /\ Len(t) = 3
  BY <1>2, <1>3, <1>4
<1> QED
  BY <1>1, <1>3, <1>4, <1>5 DEF t, p

\* The cells of header lines, each with its end.
HeaderCells(q, headers, n) ==
  /\ Len(q) = 3 * n
  /\ \A j \in 1..n : /\ q[3 * j - 2] = headers[j]
                     /\ q[3 * j - 1] = CR
                     /\ q[3 * j] = LF

LEMMA HeaderLineBytes ==
  ASSUME NEW C, CR \in C, LF \in C, NEW headers \in Seq(C)
  PROVE  LET q == FlattenSeq([i \in DOMAIN headers |-> <<headers[i]>> \o Crlf])
         IN q \in Seq(C) /\ HeaderCells(q, headers, Len(headers))
<1> DEFINE n == Len(headers)
           L == [i \in DOMAIN headers |-> <<headers[i]>> \o Crlf]
<1>1. n \in Nat /\ DOMAIN headers = 1..n /\ \A i \in 1..n : headers[i] \in C
  BY LenProperties, ElementOfSeq
<1>2. ASSUME NEW i \in 1..n
      PROVE L[i] \in Seq(C) /\ Len(L[i]) = 3 /\ L[i][1] = headers[i] /\ L[i][2] = CR
            /\ L[i][3] = LF
  <2>1. L[i] = <<headers[i]>> \o Crlf
    BY <1>1
  <2>2. headers[i] \in C
    BY <1>1
  <2> QED
    BY <2>1, <2>2, LineBytes
<1>3. L \in Seq(Seq(C)) /\ Len(L) = n
  <2>1. L = [i \in 1..n |-> L[i]] /\ \A i \in 1..n : L[i] \in Seq(C)
    BY <1>1, <1>2
  <2> HIDE DEF L
  <2> QED
    BY <1>1, <2>1
<1> HIDE DEF L, n
<1>4. PICK F : Joins(F, L, n, C) /\ FlattenSeq(L) = F[n]
  BY <1>3, FlattenSteps
<1> DEFINE T == {k \in Nat : k <= n => HeaderCells(F[k], headers, k)}
<1>5. 0 \in T
  <2>1. F[0] = <<>>
    BY <1>4 DEF Joins
  <2>2. HeaderCells(<<>>, headers, 0)
    BY DEF HeaderCells
  <2> QED
    BY <2>1, <2>2
<1>6. ASSUME NEW k \in T PROVE k + 1 \in T
  <2> DEFINE m == k + 1
             p == F[k]
             t == L[m]
             q == p \o t
  <2>0. k \in Nat
    OBVIOUS
  <2> SUFFICES ASSUME m <= n PROVE HeaderCells(F[m], headers, m)
    BY <2>0
  <2>1. HeaderCells(p, headers, k) /\ m \in 1..n /\ m - 1 = k /\ k \in 0..n
    BY <1>1, <2>0
  <2>2. F[m] = q /\ p \in Seq(C)
    BY <1>4, <2>1 DEF Joins
  <2>3. t \in Seq(C) /\ Len(t) = 3 /\ t[1] = headers[m] /\ t[2] = CR /\ t[3] = LF
    BY <1>2, <2>1
  <2>4. Len(p) = 3 * k /\ 3 * k \in Nat
    BY <2>0, <2>1 DEF HeaderCells
  <2> HIDE DEF p, t
  <2>5. /\ Len(q) = 3 * k + 3
        /\ \A i \in 1..(3 * k) : q[i] = p[i]
        /\ \A i \in 1..3 : q[3 * k + i] = t[i]
    <3>0. q = p \o t
      OBVIOUS
    <3> HIDE DEF q
    <3>1. Concats(q, p, t, C)
      BY <2>2, <2>3, <3>0, ConcatCells
    <3> QED
      BY <2>3, <2>4, <3>1 DEF Concats
  <2> HIDE DEF q
  <2>6. ASSUME NEW j \in 1..k
        PROVE q[3 * j - 2] = headers[j] /\ q[3 * j - 1] = CR /\ q[3 * j] = LF
    <3>1. 3 * j - 2 \in 1..(3 * k) /\ 3 * j - 1 \in 1..(3 * k) /\ 3 * j \in 1..(3 * k)
      BY <2>0
    <3>2. p[3 * j - 2] = headers[j] /\ p[3 * j - 1] = CR /\ p[3 * j] = LF
      BY <2>1 DEF HeaderCells
    <3> QED
      BY <2>5, <3>1, <3>2
  <2>7. q[3 * m - 2] = headers[m] /\ q[3 * m - 1] = CR /\ q[3 * m] = LF
    <3>1. q[3 * k + 1] = t[1] /\ q[3 * k + 2] = t[2] /\ q[3 * k + 3] = t[3]
      BY <2>5
    <3>2. 3 * k + 1 = 3 * m - 2 /\ 3 * k + 2 = 3 * m - 1 /\ 3 * k + 3 = 3 * m
      BY <2>0
    <3> QED
      BY <2>3, <3>1, <3>2
  <2>8. ASSUME NEW j \in 1..m
        PROVE q[3 * j - 2] = headers[j] /\ q[3 * j - 1] = CR /\ q[3 * j] = LF
    <3>1. j \in 1..k \/ j = m
      BY <2>0
    <3> QED
      BY <2>6, <2>7, <3>1
  <2>9. Len(q) = 3 * m
    BY <2>0, <2>5
  <2> QED
    BY <2>2, <2>8, <2>9 DEF HeaderCells
<1>7. T \subseteq Nat
  OBVIOUS
<1> HIDE DEF T
<1>8. n \in T
  BY <1>1, <1>5, <1>6, <1>7, Induction
<1>9. HeaderCells(F[n], headers, n) /\ F[n] \in Seq(C)
  BY <1>1, <1>4, <1>8 DEF T, Joins
<1> QED
  BY <1>4, <1>9 DEF L, n

\* The cells of a head: a first line, header lines, an empty line.
HeadCells(q, start, headers, n) ==
  /\ q[1] = start /\ q[2] = CR /\ q[3] = LF
  /\ \A j \in 1..n : /\ q[3 * j + 1] = headers[j]
                     /\ q[3 * j + 2] = CR
                     /\ q[3 * j + 3] = LF
  /\ q[3 * n + 4] = CR /\ q[3 * n + 5] = LF

LEMMA HeadBytesAre ==
  ASSUME NEW C, CR \in C, LF \in C, NEW start \in C, NEW headers \in Seq(C)
  PROVE  LET q == HeadBytes(start, headers)
             n == Len(headers)
         IN q \in Seq(C) /\ Len(q) = 3 * n + 5 /\ HeadCells(q, start, headers, n)
<1> DEFINE n == Len(headers)
           s == <<start>> \o Crlf
           f == FlattenSeq([i \in DOMAIN headers |-> <<headers[i]>> \o Crlf])
           p == s \o f
           q == p \o Crlf
<1>1. n \in Nat /\ 3 * n \in Nat /\ 3 + 3 * n \in Nat
  BY LenProperties
<1>2. s \in Seq(C) /\ Len(s) = 3 /\ s[1] = start /\ s[2] = CR /\ s[3] = LF
  BY LineBytes
<1>3. f \in Seq(C) /\ HeaderCells(f, headers, n)
  BY HeaderLineBytes
<1>4. Crlf \in Seq(C) /\ Len(Crlf) = 2 /\ Crlf[1] = CR /\ Crlf[2] = LF
  BY DEF Crlf, CR, LF
<1>5. q = HeadBytes(start, headers)
  BY DEF HeadBytes
<1> HIDE DEF s, f, n
<1>6. Len(f) = 3 * n
  BY <1>3 DEF HeaderCells
<1>7. /\ p \in Seq(C) /\ Len(p) = 3 + 3 * n
      /\ \A i \in 1..3 : p[i] = s[i]
      /\ \A i \in 1..(3 * n) : p[3 + i] = f[i]
  <2>0. p = s \o f
    OBVIOUS
  <2> HIDE DEF p
  <2>1. Concats(p, s, f, C)
    BY <1>2, <1>3, <2>0, ConcatCells
  <2> QED
    BY <1>2, <1>6, <2>1 DEF Concats
<1> HIDE DEF p
<1>8. /\ q \in Seq(C) /\ Len(q) = (3 + 3 * n) + 2
      /\ \A i \in 1..(3 + 3 * n) : q[i] = p[i]
      /\ \A i \in 1..2 : q[(3 + 3 * n) + i] = Crlf[i]
  <2> DEFINE e == Crlf
  <2>0. q = p \o e /\ e \in Seq(C)
    BY <1>4
  <2> HIDE DEF q, e
  <2>1. Concats(q, p, e, C)
    BY <1>7, <2>0, ConcatCells
  <2> USE DEF e
  <2> QED
    BY <1>4, <1>7, <2>1 DEF Concats
<1> HIDE DEF q
<1>9. q[1] = start /\ q[2] = CR /\ q[3] = LF
  <2>1. 1 \in 1..(3 + 3 * n) /\ 2 \in 1..(3 + 3 * n) /\ 3 \in 1..(3 + 3 * n)
    BY <1>1
  <2>2. p[1] = s[1] /\ p[2] = s[2] /\ p[3] = s[3]
    BY <1>7
  <2> QED
    BY <1>2, <1>8, <2>1, <2>2
<1>10. ASSUME NEW j \in 1..n
       PROVE  q[3 * j + 1] = headers[j] /\ q[3 * j + 2] = CR /\ q[3 * j + 3] = LF
  <2> DEFINE a == 3 * j - 2
             b == 3 * j - 1
             c == 3 * j
  <2>1. f[a] = headers[j] /\ f[b] = CR /\ f[c] = LF
    BY <1>3 DEF HeaderCells
  <2>2. a \in 1..(3 * n) /\ b \in 1..(3 * n) /\ c \in 1..(3 * n)
        /\ 3 + a \in 1..(3 + 3 * n) /\ 3 + b \in 1..(3 + 3 * n) /\ 3 + c \in 1..(3 + 3 * n)
        /\ 3 + a = 3 * j + 1 /\ 3 + b = 3 * j + 2 /\ 3 + c = 3 * j + 3
    BY <1>1
  <2> HIDE DEF a, b, c
  <2>3. q[3 + a] = f[a] /\ q[3 + b] = f[b] /\ q[3 + c] = f[c]
    BY <1>7, <1>8, <2>2
  <2> QED
    BY <2>1, <2>2, <2>3
<1>11. q[3 * n + 4] = CR /\ q[3 * n + 5] = LF /\ Len(q) = 3 * n + 5
  <2>1. q[(3 + 3 * n) + 1] = Crlf[1] /\ q[(3 + 3 * n) + 2] = Crlf[2]
    BY <1>8
  <2>2. (3 + 3 * n) + 1 = 3 * n + 4 /\ (3 + 3 * n) + 2 = 3 * n + 5
    BY <1>1
  <2> QED
    BY <1>4, <1>8, <2>1, <2>2
<1>12. HeadCells(q, start, headers, n)
  BY <1>9, <1>10, <1>11 DEF HeadCells
<1> QED
  BY <1>5, <1>8, <1>11, <1>12 DEF n

----------------------------------------------------------------------------
(* Finding a head *)

\* The bytes of a part of a sequence.
LEMMA FirstPart ==
  ASSUME NEW U, NEW bytes \in Seq(U), NEW n \in 0..Len(bytes)
  PROVE  LET block == SubSeq(bytes, 1, n)
         IN block \in Seq(U) /\ Len(block) = n /\ \A i \in 1..n : block[i] = bytes[i]
<1> DEFINE a == 0
           block == SubSeq(bytes, a + 1, n)
<1>1. Len(bytes) \in Nat /\ n \in Nat /\ n <= Len(bytes) /\ n - a = n /\ a \in Nat /\ a <= n
  BY LenProperties
<1>2. block \in Seq(U) /\ Len(block) = n - a /\ \A i \in 1..(n - a) : block[i] = bytes[a + i]
  BY <1>1, Part
<1>3. \A i \in 1..n : a + i = i
  OBVIOUS
<1>4. a + 1 = 1
  OBVIOUS
<1> HIDE DEF a
<1> QED
  BY <1>1, <1>2, <1>3, <1>4

\* Where the line ends of a block are.
LineEnds(block) == {i \in DOMAIN block : IsCrlf(block, i)}

LEMMA LineEndsAre ==
  ASSUME NEW U, NEW block \in Seq(U)
  PROVE  /\ LineEnds(block) \in SUBSET Nat /\ IsFiniteSet(LineEnds(block))
         /\ \A i \in LineEnds(block) : i >= 1 /\ i < Len(block)
         /\ DOMAIN block = 1..Len(block) /\ Len(block) \in Nat
<1>1. DOMAIN block = 1..Len(block) /\ Len(block) \in Nat
  BY LenProperties
<1>2. IsFiniteSet(1..Len(block))
  BY <1>1, FS_Interval
<1>3. LineEnds(block) \subseteq 1..Len(block)
  BY <1>1 DEF LineEnds
<1> QED
  BY <1>1, <1>2, <1>3, FS_Subset DEF LineEnds, IsCrlf

\* The end of a head is an empty line behind a line.
LEMMA HeadEnds ==
  ASSUME NEW U, NEW bytes \in Seq(U)
  PROVE  LET e == EndOfHead(bytes)
         IN /\ FindHeaderBytes(bytes) = IF e = 0 THEN 0 ELSE e + 3
            /\ e \in Nat /\ FindHeaderBytes(bytes) \in 0..Len(bytes)
            /\ e # 0 => IsCrlf(bytes, e) /\ IsCrlf(bytes, e + 2)
            /\ \A i \in Nat : IsCrlf(bytes, i) /\ IsCrlf(bytes, i + 2) => e # 0 /\ e <= i
<1> DEFINE ends == {i \in DOMAIN bytes : IsCrlf(bytes, i) /\ IsCrlf(bytes, i + 2)}
           e == EndOfHead(bytes)
<1>1. DOMAIN bytes = 1..Len(bytes) /\ Len(bytes) \in Nat
  BY LenProperties
<1>2. e = IF ends = {} THEN 0 ELSE Min(ends)
  BY DEF EndOfHead
<1>3. ends \in SUBSET Nat
  BY <1>1
<1>4. \A i \in Nat : IsCrlf(bytes, i) => i >= 1 /\ i < Len(bytes)
  BY DEF IsCrlf
<1>5. ends # {} => Min(ends) \in ends /\ \A x \in ends : Min(ends) <= x
  BY <1>3, MinIs
<1>6. \A i \in ends : i \in Nat /\ IsCrlf(bytes, i) /\ IsCrlf(bytes, i + 2) /\ i >= 1
                      /\ i + 3 <= Len(bytes)
  BY <1>1, <1>4
<1>7. \A i \in Nat : IsCrlf(bytes, i) /\ IsCrlf(bytes, i + 2) => i \in ends
  BY <1>1, <1>4
<1>8. FindHeaderBytes(bytes) = IF e = 0 THEN 0 ELSE e + 3
  BY DEF FindHeaderBytes
<1> HIDE DEF ends, e
<1>9. e # 0 => e \in ends
  BY <1>2, <1>5
<1>10. e \in Nat /\ FindHeaderBytes(bytes) \in 0..Len(bytes)
  BY <1>1, <1>6, <1>8, <1>9
<1>11. ASSUME NEW i \in Nat, IsCrlf(bytes, i), IsCrlf(bytes, i + 2) PROVE e # 0 /\ e <= i
  <2>1. i \in ends
    BY <1>7, <1>11
  <2>2. e \in ends /\ e <= i
    BY <1>2, <1>5, <2>1
  <2> QED
    BY <1>6, <2>2
<1> QED
  BY <1>6, <1>8, <1>9, <1>10, <1>11 DEF e

\* The lines of a block are sequences of its bytes.
LEMMA LinesAre ==
  ASSUME NEW U, NEW block \in Seq(U)
  PROVE  LET c == Cardinality(LineEnds(block))
             at == Sorted(LineEnds(block), <)
         IN /\ c \in Nat /\ at \in [1..c -> LineEnds(block)]
            /\ Lines(block) = [k \in 1..c - 1 |->
                 SubSeq(block, IF k = 1 THEN 1 ELSE at[k - 1] + 2, at[k] - 1)]
            /\ Lines(block) \in Seq(Seq(U))
            /\ c >= 1 => Len(Lines(block)) = c - 1
<1> DEFINE S == LineEnds(block)
           c == Cardinality(S)
           at == Sorted(S, <)
           first(k) == IF k = 1 THEN 1 ELSE at[k - 1] + 2
           ls == [k \in 1..c - 1 |-> SubSeq(block, first(k), at[k] - 1)]
<1>1. /\ S \in SUBSET Nat /\ IsFiniteSet(S) /\ \A i \in S : i >= 1 /\ i < Len(block)
      /\ Len(block) \in Nat /\ DOMAIN block = 1..Len(block)
  BY LineEndsAre
<1>2. c \in Nat /\ at \in [1..c -> S]
  <2>1. S \in SUBSET Int
    BY <1>1
  <2> QED
    BY <1>1, <2>1, SortedNumbers
<1>3. Len(at) = c
  <2> HIDE DEF at, c, S
  <2>1. at \in Seq(S)
    BY <1>2, SeqDef
  <2> QED
    BY <1>2, <2>1, LenProperties
<1>4. Lines(block) = ls
  BY <1>3 DEF Lines, LineEnds
<1> HIDE DEF c, at, S
<1>5. ASSUME NEW k \in 1..c - 1 PROVE SubSeq(block, first(k), at[k] - 1) \in Seq(U)
  <2>1. k \in 1..c /\ (k # 1 => k - 1 \in 1..c)
    BY <1>2
  <2>2. at[k] \in S /\ (k # 1 => at[k - 1] \in S)
    BY <1>2, <2>1
  <2>3. first(k) \in Int /\ at[k] - 1 \in Int /\ first(k) >= 1 /\ at[k] - 1 <= Len(block)
    <3>1. at[k] \in Nat /\ at[k] < Len(block)
      BY <1>1, <2>2
    <3>2. CASE k = 1
      BY <1>1, <3>1, <3>2
    <3>3. CASE k # 1
      <4>1. at[k - 1] \in Nat /\ first(k) = at[k - 1] + 2
        BY <1>1, <2>2, <3>3
      <4> QED
        BY <1>1, <3>1, <4>1
    <3> QED
      BY <3>2, <3>3
  <2>4. \A i \in first(k)..(at[k] - 1) : block[i] \in U
    <3> HIDE DEF first
    <3>1. \A i \in first(k)..(at[k] - 1) : i \in 1..Len(block)
      BY <1>1, <2>3
    <3> QED
      BY <3>1, ElementOfSeq
  <2> HIDE DEF first
  <2> QED
    BY <2>3, <2>4, SubSeqProperties
<1>6. CASE c >= 1
  <2>1. c - 1 \in Nat
    BY <1>2, <1>6
  <2>2. ls \in [1..c - 1 -> Seq(U)]
    BY <1>5
  <2> HIDE DEF ls
  <2>3. ls \in Seq(Seq(U))
    BY <2>1, <2>2, SeqDef
  <2>4. Len(ls) = c - 1
    BY <2>1, <2>2, <2>3, LenProperties
  <2> QED
    BY <1>2, <1>4, <1>6, <2>3, <2>4 DEF c, at, S, ls, first
<1>7. CASE ~(c >= 1)
  <2>1. 1..c - 1 = {} /\ 1..0 = {}
    BY <1>2, <1>7
  <2>2. ls = [k \in 1..0 |-> <<>>]
    BY <2>1
  <2> HIDE DEF ls
  <2>3. ls \in Seq(Seq(U))
    <3>1. ls \in [1..0 -> Seq(U)] /\ 0 \in Nat
      BY <2>1, <2>2
    <3> QED
      BY <3>1, SeqDef
  <2> QED
    BY <1>2, <1>4, <1>7, <2>3 DEF c, at, S, ls, first
<1> QED
  BY <1>2, <1>6, <1>7

\* A head that is found has a line, and what is behind it is passed over.
LEMMA ParseHeadIs ==
  ASSUME NEW U, NEW bytes \in Seq(U), NEW limits
  PROVE  LET r == ParseHead(bytes, limits)
             size == FindHeaderBytes(bytes)
         IN /\ r.status \in {"needMore", "error", "lines"}
            /\ r.status = "needMore" => size = 0 /\ Len(bytes) < limits.header
            /\ r.status = "lines" =>
                 /\ size \in 1..Len(bytes) /\ r.size = size
                 /\ r.lines = Lines(SubSeq(bytes, 1, size))
                 /\ r.lines \in Seq(Seq(U)) /\ Len(r.lines) >= 1
<1> DEFINE r == ParseHead(bytes, limits)
           size == FindHeaderBytes(bytes)
           block == SubSeq(bytes, 1, size)
           lines == Lines(block)
           e == EndOfHead(bytes)
<1>1. r = IF size = 0 /\ Len(bytes) < limits.header THEN NeedMore
          ELSE IF size = 0 \/ size > limits.header THEN ParseError("headerTooLarge")
          ELSE IF Len(lines[1]) # 1 \/ lines[1][1].is # "start" THEN ParseError("badSyntax")
          ELSE [status |-> "lines", lines |-> lines, size |-> size]
  BY DEF ParseHead
<1> HIDE DEF r
<1>2. /\ size = (IF e = 0 THEN 0 ELSE e + 3)
      /\ e \in Nat /\ size \in 0..Len(bytes)
      /\ e # 0 => IsCrlf(bytes, e) /\ IsCrlf(bytes, e + 2)
  BY HeadEnds
<1> HIDE DEF size, e
<1>3. block \in Seq(U) /\ Len(block) = size /\ \A i \in 1..size : block[i] = bytes[i]
  BY <1>2, FirstPart
<1> HIDE DEF block
<1>4. Lines(block) \in Seq(Seq(U))
  BY <1>3, LinesAre
<1>5. ASSUME size # 0 PROVE Len(Lines(block)) >= 1 /\ size \in 1..Len(bytes)
  <2> DEFINE S == LineEnds(block)
  <2>0. size = e + 3 /\ e \in Nat /\ e >= 1 /\ Len(bytes) \in Nat
    BY <1>2, <1>5, LenProperties DEF IsCrlf
  <2>1. \A i \in {e, e + 1, e + 2, e + 3} : i \in 1..size
    BY <2>0
  <2>2. IsCrlf(block, e) /\ IsCrlf(block, e + 2)
    <3>1. (e + 2) + 1 = e + 3
      BY <2>0
    <3> QED
      BY <1>2, <1>3, <1>5, <2>0, <2>1, <3>1 DEF IsCrlf
  <2>3. e \in S /\ e + 2 \in S /\ IsFiniteSet(S)
    BY <1>3, <2>1, <2>2, LineEndsAre DEF LineEnds
  <2>4. Cardinality({e, e + 2}) = 2 /\ IsFiniteSet({e, e + 2})
    <3>1. IsFiniteSet({e}) /\ Cardinality({e}) = 1
      BY FS_Singleton
    <3>2. e + 2 \notin {e} /\ {e, e + 2} = {e} \cup {e + 2}
      BY <2>0
    <3>3. IsFiniteSet({e} \cup {e + 2}) /\ Cardinality({e} \cup {e + 2}) = Cardinality({e}) + 1
      BY <3>1, <3>2, FS_AddElement
    <3>4. 1 + 1 = 2
      OBVIOUS
    <3> QED
      BY <3>1, <3>2, <3>3, <3>4, Zenon
  <2> DEFINE P == {e, e + 2}
  <2>5. P \in SUBSET S
    BY <2>3
  <2> HIDE DEF S
  <2>6. Cardinality(P) <= Cardinality(S)
    <3> HIDE DEF P
    <3> QED
      BY <2>3, <2>5, FS_Subset
  <2>7. Cardinality(S) \in Nat /\ (Cardinality(S) >= 1 => Len(Lines(block)) = Cardinality(S) - 1)
    BY <1>3, LinesAre DEF S
  <2> QED
    BY <1>2, <1>5, <2>4, <2>6, <2>7
<1> HIDE DEF lines
<1>6. lines = Lines(block)
  BY DEF lines
<1>7. r.status \in {"needMore", "error", "lines"}
  BY <1>1 DEF NeedMore, ParseError
<1>8. r.status = "needMore" => size = 0 /\ Len(bytes) < limits.header
  BY <1>1 DEF NeedMore, ParseError
<1>9. r.status = "lines" => size # 0 /\ r.size = size /\ r.lines = lines
  BY <1>1 DEF NeedMore, ParseError
<1> QED
  BY <1>4, <1>5, <1>6, <1>7, <1>8, <1>9 DEF r, size, block

----------------------------------------------------------------------------
(* The header lines of a head *)

HeaderErrors == {"none", "badSyntax", "unsupportedFraming", "bodyTooLarge"}

\* What the lines so far stand for.
HeaderStates(U) ==
  [error : HeaderErrors, length : Nat \cup {Absent}, keepAlive : BOOLEAN, lines : Seq(U)]

\* A line adds to it, or ends it with an error.
LEMMA HeaderLineStep ==
  ASSUME NEW U, \A b \in U : HeaderOk(b), NEW acc \in HeaderStates(U),
         NEW line \in Seq(U), NEW limits
  PROVE  ParseHeaderLine(acc, line, limits) \in HeaderStates(U)
<1> DEFINE h == line[1]
           D == HeaderStates(U)
           keep == [acc EXCEPT !.lines = Append(@, h)]
           r == ParseHeaderLine(acc, line, limits)
           refuse(e) == [acc EXCEPT !.error = e]
<1>1. acc = [error |-> acc.error, length |-> acc.length, keepAlive |-> acc.keepAlive,
             lines |-> acc.lines]
      /\ acc.error \in HeaderErrors /\ acc.length \in Nat \cup {Absent}
      /\ acc.keepAlive \in BOOLEAN /\ acc.lines \in Seq(U)
  BY DEF HeaderStates
<1>2. \A e \in HeaderErrors : refuse(e) \in D
  BY <1>1 DEF HeaderStates
<1>3. CASE acc.error # "none"
  BY <1>3 DEF ParseHeaderLine
<1>4. CASE acc.error = "none" /\ (Len(line) # 1 \/ h.is # "header")
  <2>1. r = refuse("badSyntax")
    BY <1>4 DEF ParseHeaderLine
  <2> QED
    BY <1>2, <2>1 DEF HeaderErrors
<1>5. CASE acc.error = "none" /\ Len(line) = 1 /\ h.is = "header"
  <2>1. h \in U /\ h.num \in Nat \cup {NotANumber}
    BY <1>5, ElementOfSeq, SMTT(30) DEF HeaderOk
  <2>2. Append(acc.lines, h) \in Seq(U)
    BY <1>1, <2>1, AppendProperties
  <2>3. /\ keep = [error |-> acc.error, length |-> acc.length, keepAlive |-> acc.keepAlive,
                   lines |-> Append(acc.lines, h)]
    <3> DEFINE a == Append(acc.lines, h)
    <3>1. keep = [acc EXCEPT !.lines = a]
      OBVIOUS
    <3> HIDE DEF a
    <3>2. [acc EXCEPT !.lines = a] = [error |-> acc.error, length |-> acc.length,
                                      keepAlive |-> acc.keepAlive, lines |-> a]
      BY <1>1
    <3> QED
      BY <3>1, <3>2 DEF a
  <2>4. CASE h.name \in {"transfer-encoding", "upgrade"}
    <3>1. r = refuse("unsupportedFraming")
      BY <1>5, <2>4 DEF ParseHeaderLine
    <3> QED
      BY <1>2, <3>1 DEF HeaderErrors
  <2>5. CASE h.name = "content-length"
    <3>1. CASE h.num = NotANumber \/ acc.length \notin {Absent, h.num}
      <4>1. r = refuse("badSyntax")
        BY <1>5, <2>5, <3>1 DEF ParseHeaderLine
      <4> QED
        BY <1>2, <4>1 DEF HeaderErrors
    <3>2. CASE ~(h.num = NotANumber \/ acc.length \notin {Absent, h.num}) /\ h.num > limits.body
      <4>1. r = refuse("bodyTooLarge")
        BY <1>5, <2>5, <3>2 DEF ParseHeaderLine
      <4> QED
        BY <1>2, <4>1 DEF HeaderErrors
    <3>3. CASE ~(h.num = NotANumber \/ acc.length \notin {Absent, h.num}) /\ ~(h.num > limits.body)
      <4>1. r = [keep EXCEPT !.length = h.num]
        BY <1>5, <2>5, <3>3 DEF ParseHeaderLine
      <4>2. r = [error |-> acc.error, length |-> h.num, keepAlive |-> acc.keepAlive,
                 lines |-> Append(acc.lines, h)]
        BY <2>3, <4>1
      <4> QED
        BY <1>1, <2>1, <2>2, <3>3, <4>2 DEF HeaderStates
    <3> QED
      BY <3>1, <3>2, <3>3
  <2>6. CASE h.name \in ConnectionNames
    <3>1. CASE ~ParseConnectionTokens(h.list)
      <4>1. r = refuse("unsupportedFraming")
        BY <1>5, <2>6, <3>1 DEF ParseHeaderLine, ConnectionNames
      <4> QED
        BY <1>2, <4>1 DEF HeaderErrors
    <3>2. CASE ParseConnectionTokens(h.list)
      <4>1. r = [keep EXCEPT !.keepAlive = @ /\ "close" \notin Range(h.list)]
        BY <1>5, <2>6, <3>2 DEF ParseHeaderLine, ConnectionNames
      <4>2. r = [error |-> acc.error, length |-> acc.length,
                 keepAlive |-> acc.keepAlive /\ "close" \notin Range(h.list),
                 lines |-> Append(acc.lines, h)]
        BY <2>3, <4>1
      <4> QED
        BY <1>1, <2>2, <4>2 DEF HeaderStates
    <3> QED
      BY <3>1, <3>2
  <2>7. CASE h.name \notin {"transfer-encoding", "upgrade", "content-length"} \cup ConnectionNames
    <3>1. r = keep
      BY <1>5, <2>7 DEF ParseHeaderLine
    <3> QED
      BY <1>1, <2>2, <2>3, <3>1 DEF HeaderStates
  <2> QED
    BY <2>4, <2>5, <2>6, <2>7
<1> QED
  BY <1>3, <1>4, <1>5

\* What the header lines stand for, one line after the other.
HeaderFold(A, lines, limits, U) ==
  /\ A \in [0..Len(lines) -> HeaderStates(U)] /\ A[0] = NoHeaders
  /\ ParseHeaderLines(lines, limits) = A[Len(lines)]
  /\ \A k \in 1..Len(lines) : A[k] = ParseHeaderLine(A[k - 1], lines[k], limits)

LEMMA HeaderSteps ==
  ASSUME NEW U, \A b \in U : HeaderOk(b), NEW lines \in Seq(Seq(U)), NEW limits
  PROVE  \E A : HeaderFold(A, lines, limits, U)
<1> DEFINE n == Len(lines)
           D == HeaderStates(U)
           F == [i \in 1..n |-> [d \in D |-> ParseHeaderLine(d, lines[i], limits)]]
<1>1. n \in Nat /\ DOMAIN lines = 1..n /\ \A i \in 1..n : lines[i] \in Seq(U)
  BY LenProperties, ElementOfSeq
<1>2. NoHeaders \in D
  BY DEF NoHeaders, HeaderStates, HeaderErrors
<1>3. ASSUME NEW i \in 1..n, NEW d \in D PROVE ParseHeaderLine(d, lines[i], limits) \in D
  BY <1>1, HeaderLineStep
<1> HIDE DEF D
<1>4. \A i \in 1..n : \A d \in D :
        F[i][d] = ParseHeaderLine(d, lines[i], limits) /\ F[i][d] \in D
  BY <1>3
<1> HIDE DEF F
<1> DEFINE Is(g) == g = [s \in SUBSET DOMAIN lines |->
                           IF s = {} THEN NoHeaders
                           ELSE ParseHeaderLine(g[s \ {Max(s)}], lines[Max(s)], limits)]
<1>a. Closed(F, n, D)
  BY <1>4 DEF Closed
<1>b. PICK f \in [SUBSET (1..n) -> D] : Recurs(f, n, NoHeaders, F)
  BY <1>1, <1>2, <1>a, FoldIsDefined
<1>5. Is(f)
  <2>2. ASSUME NEW s \in SUBSET (1..n), s # {}
        PROVE  F[Max(s)][f[s \ {Max(s)}]]
                 = ParseHeaderLine(f[s \ {Max(s)}], lines[Max(s)], limits)
    <3>1. Max(s) \in 1..n
      BY <1>1, <2>2, MaxIs
    <3>2. f[s \ {Max(s)}] \in D
      BY <1>b
    <3> QED
      BY <1>4, <3>1, <3>2
  <2>3. \A s \in SUBSET (1..n) :
          f[s] = IF s = {} THEN NoHeaders
                 ELSE ParseHeaderLine(f[s \ {Max(s)}], lines[Max(s)], limits)
    BY <1>b, <2>2 DEF Recurs
  <2>4. f = [s \in SUBSET (1..n) |-> f[s]]
    BY <1>b
  <2> QED
    BY <1>1, <2>3, <2>4
<1> DEFINE g == CHOOSE x : Is(x)
<1>6. Is(g)
  BY <1>5
<1>7. ParseHeaderLines(lines, limits) = g[DOMAIN lines]
  BY DEF ParseHeaderLines, FoldLeft, MapThenFoldSet
<1> HIDE DEF g
<1>8. \A s \in SUBSET (1..n) :
        g[s] = IF s = {} THEN NoHeaders
               ELSE ParseHeaderLine(g[s \ {Max(s)}], lines[Max(s)], limits)
  BY <1>1, <1>6
<1> DEFINE A == [k \in 0..n |-> g[1..k]]
<1>9. A[0] = NoHeaders /\ A[n] = g[1..n]
  <2>1. 1..0 = {} /\ (1..0) \in SUBSET (1..n) /\ 0 \in 0..n /\ n \in 0..n
    BY <1>1
  <2> QED
    BY <1>8, <2>1
<1>10. ASSUME NEW k \in 1..n PROVE A[k] = ParseHeaderLine(A[k - 1], lines[k], limits)
  <2>1. k \in 0..n /\ k - 1 \in 0..n
    BY <1>1
  <2>2. /\ (1..k) \in SUBSET (1..n) /\ (1..k) # {} /\ Max(1..k) = k
        /\ (1..k) \ {k} = 1..(k - 1)
    BY <1>1, UpToK
  <2>3. g[1..k] = ParseHeaderLine(g[1..(k - 1)], lines[k], limits)
    BY <1>8, <2>2
  <2> QED
    BY <2>1, <2>3
<1> DEFINE T == {k \in Nat : k <= n => A[k] \in D}
<1>11. \A k \in 0..n : A[k] \in D
  <2>1. 0 \in T
    BY <1>2, <1>9
  <2>2. ASSUME NEW k \in T PROVE k + 1 \in T
    <3> HIDE DEF A
    <3> SUFFICES ASSUME k + 1 <= n PROVE A[k + 1] \in D
      OBVIOUS
    <3>1. k + 1 \in 1..n /\ (k + 1) - 1 = k /\ A[k] \in D
      BY <1>1
    <3>2. A[k + 1] = ParseHeaderLine(A[k], lines[k + 1], limits)
      BY <1>10, <3>1
    <3> QED
      BY <1>3, <3>1, <3>2
  <2>3. T \subseteq Nat
    OBVIOUS
  <2> HIDE DEF T
  <2>4. T = Nat
    BY <2>1, <2>2, <2>3, Induction
  <2> HIDE DEF A
  <2>5. ASSUME NEW k \in 0..n PROVE A[k] \in D
    <3>1. k \in T /\ k <= n
      BY <1>1, <2>4
    <3> QED
      BY <3>1 DEF T
  <2> QED
    BY <2>5
<1>12. A \in [0..n -> D]
  BY <1>11
<1> HIDE DEF A
<1>13. HeaderFold(A, lines, limits, U)
  BY <1>1, <1>7, <1>9, <1>10, <1>12 DEF HeaderFold, D
<1> QED
  BY <1>13

LEMMA HeaderLinesAre ==
  ASSUME NEW U, \A b \in U : HeaderOk(b), NEW lines \in Seq(Seq(U)), NEW limits
  PROVE  ParseHeaderLines(lines, limits) \in HeaderStates(U)
<1>1. PICK A : HeaderFold(A, lines, limits, U)
  BY HeaderSteps
<1>2. Len(lines) \in Nat
  BY LenProperties
<1> QED
  BY <1>1, <1>2 DEF HeaderFold

----------------------------------------------------------------------------
(* What decoders return *)

\* A result takes no more than there is, and a head says how long its body is.
ResultOk(r, bytes, framed) ==
  /\ r.status \in {"needMore", "error", "complete"}
  /\ r.status = "complete" =>
       r.used \in Nat /\ r.used <= Len(bytes) /\ (framed => r.head.length \in Nat)

LEMMA TailOfLines ==
  ASSUME NEW U, NEW lines \in Seq(Seq(U)), Len(lines) >= 1
  PROVE  /\ Tail(lines) \in Seq(Seq(U)) /\ Len(Tail(lines)) = Len(lines) - 1
         /\ \A i \in 1..(Len(lines) - 1) : Tail(lines)[i] = lines[i + 1]
<1>1. lines # <<>> /\ Len(lines) \in Nat
  BY LenProperties
<1> QED
  BY <1>1, HeadTailProperties

LEMMA LengthOfIs ==
  ASSUME NEW U, NEW h \in HeaderStates(U)
  PROVE  LengthOf(h) \in Nat
BY DEF HeaderStates, LengthOf, Absent

LEMMA RequestHeadIs ==
  ASSUME NEW U, \A b \in U : HeaderOk(b), NEW bytes \in Seq(U), NEW limits
  PROVE  LET r == ParseRequestHead(bytes, limits)
         IN ResultOk(r, bytes, TRUE) /\ (r.status = "needMore" => Len(bytes) < limits.header)
<1> DEFINE r == ParseRequestHead(bytes, limits)
           head == ParseHead(bytes, limits)
           start == head.lines[1][1]
           words == start.words
           headers == ParseHeaderLines(Tail(head.lines), limits)
           it == [method |-> words[1], path |-> words[2],
                  length |-> LengthOf(headers), keepAlive |-> headers.keepAlive,
                  forward |-> BuildForwardHead(start, headers)]
<1>1. /\ head.status \in {"needMore", "error", "lines"}
      /\ head.status = "needMore" => Len(bytes) < limits.header
      /\ head.status = "lines" =>
           /\ head.size \in 1..Len(bytes)
           /\ head.lines \in Seq(Seq(U)) /\ Len(head.lines) >= 1
  BY ParseHeadIs
<1>2. CASE head.status # "lines"
  <2>1. r = head
    BY <1>2 DEF ParseRequestHead
  <2> HIDE DEF r, head
  <2> QED
    BY <1>1, <1>2, <2>1 DEF ResultOk, r
<1>3. CASE head.status = "lines"
  <2>1. \/ \E e : r = ParseError(e)
        \/ r = Complete(it, head.size)
    BY <1>3 DEF ParseRequestHead
  <2>2. headers \in HeaderStates(U)
    <3>1. Tail(head.lines) \in Seq(Seq(U))
      BY <1>1, <1>3, TailOfLines
    <3> QED
      BY <3>1, HeaderLinesAre
  <2>3. it.length \in Nat
    <3>1. LengthOf(headers) \in Nat
      BY <2>2, LengthOfIs
    <3> HIDE DEF headers
    <3> QED
      BY <3>1
  <2>4. head.size \in Nat /\ head.size <= Len(bytes)
    BY <1>1, <1>3, LenProperties
  <2> HIDE DEF r, it, head
  <2> QED
    BY <2>1, <2>3, <2>4 DEF ResultOk, Complete, ParseError, r
<1> QED
  BY <1>1, <1>2, <1>3

LEMMA ResponseHeadIs ==
  ASSUME NEW U, \A b \in U : HeaderOk(b), NEW bytes \in Seq(U), NEW limits
  PROVE  LET r == ParseResponseHead(bytes, limits)
         IN ResultOk(r, bytes, TRUE) /\ (r.status = "needMore" => Len(bytes) < limits.header)
<1> DEFINE r == ParseResponseHead(bytes, limits)
           head == ParseHead(bytes, limits)
           start == head.lines[1][1]
           digits == start.words[2]
           code == 100 * digits[1] + 10 * digits[2] + digits[3]
           headers == ParseHeaderLines(Tail(head.lines), limits)
           it == [status |-> code,
                  length |-> LengthOf(headers), keepAlive |-> headers.keepAlive,
                  forward |-> BuildForwardHead(start, headers)]
<1>1. /\ head.status \in {"needMore", "error", "lines"}
      /\ head.status = "needMore" => Len(bytes) < limits.header
      /\ head.status = "lines" =>
           /\ head.size \in 1..Len(bytes)
           /\ head.lines \in Seq(Seq(U)) /\ Len(head.lines) >= 1
  BY ParseHeadIs
<1>2. CASE head.status # "lines"
  <2>1. r = head
    BY <1>2 DEF ParseResponseHead
  <2> HIDE DEF r, head
  <2> QED
    BY <1>1, <1>2, <2>1 DEF ResultOk, r
<1>3. CASE head.status = "lines"
  <2>1. \/ \E e : r = ParseError(e)
        \/ r = Complete(it, head.size)
    BY <1>3, Zenon DEF ParseResponseHead
  <2>2. headers \in HeaderStates(U)
    <3>1. Tail(head.lines) \in Seq(Seq(U))
      BY <1>1, <1>3, TailOfLines
    <3> QED
      BY <3>1, HeaderLinesAre
  <2>3. it.length \in Nat
    <3>1. LengthOf(headers) \in Nat
      BY <2>2, LengthOfIs
    <3> HIDE DEF headers, code
    <3> QED
      BY <3>1
  <2>4. head.size \in Nat /\ head.size <= Len(bytes)
    BY <1>1, <1>3, LenProperties
  <2> HIDE DEF r, it, head
  <2> QED
    BY <2>1, <2>3, <2>4 DEF ResultOk, Complete, ParseError, r
<1> QED
  BY <1>1, <1>2, <1>3

\* A header that is found is one.
LEMMA FindHeaderIs ==
  ASSUME NEW U, NEW bytes \in Seq(U), NEW names
  PROVE  LET k == FindHeader(bytes, names)
         IN /\ k \in 0..Len(bytes)
            /\ k # 0 => bytes[k].is = "header" /\ bytes[k].name \in names
            /\ \A i \in 1..Len(bytes) :
                 bytes[i].is = "header" /\ bytes[i].name \in names /\ bytes[i].style = "title"
                   => k # 0 /\ k <= i /\ bytes[k].style = "title"
<1> DEFINE I(style) == {i \in 1..Len(bytes) :
                          bytes[i].is = "header" /\ bytes[i].name \in names
                          /\ bytes[i].style = style}
           at(style) == IF I(style) # {} THEN Min(I(style)) ELSE 0
           k == FindHeader(bytes, names)
<1>1. k = IF at("title") # 0 THEN at("title") ELSE at("lower")
  BY DEF FindHeader, SelectInSeq
<1>2. Len(bytes) \in Nat
  BY LenProperties
<1>3. ASSUME NEW style
      PROVE  /\ at(style) \in Nat
             /\ at(style) # 0 => at(style) \in I(style)
             /\ \A i \in I(style) : at(style) # 0 /\ at(style) <= i
  <2> DEFINE T == I(style)
  <2>1. T \in SUBSET Nat /\ \A i \in T : i # 0
    BY <1>2
  <2> HIDE DEF T
  <2>2. T # {} => Min(T) \in T /\ \A x \in T : Min(T) <= x
    BY <2>1, MinIs
  <2> QED
    BY <2>1, <2>2 DEF T
<1> HIDE DEF k, at
<1>4. CASE at("title") # 0
  <2>1. k = at("title") /\ k \in I("title")
    BY <1>1, <1>3, <1>4
  <2> QED
    BY <1>2, <1>3, <1>4, <2>1 DEF k
<1>5. CASE at("title") = 0
  <2>1. k = at("lower") /\ k \in Nat /\ (k # 0 => k \in I("lower"))
    BY <1>1, <1>3, <1>5
  <2>2. \A i \in 1..Len(bytes) : i \notin I("title")
    BY <1>3, <1>5
  <2> QED
    BY <1>2, <2>1, <2>2 DEF k
<1> QED
  BY <1>4, <1>5

LEMMA DecodeRequestIs ==
  ASSUME NEW U, \A b \in U : HeaderOk(b), NEW bytes \in Seq(U), NEW isRequest, NEW other
  PROVE  LET r == DecodeRequest(bytes, isRequest, other)
         IN /\ r.status \notin {"needMore", "complete"} => r = other
            /\ r # other => ResultOk(r, bytes, FALSE)
            /\ r # other /\ r.status = "complete" => r.head.keepAlive \in BOOLEAN
<1> DEFINE r == DecodeRequest(bytes, isRequest, other)
           size == FindHeaderBytes(bytes)
           words == FirstLine(bytes)[1].words
           cl == FindHeader(bytes, {"content-length"})
           conn == FindHeader(bytes, ConnectionNames)
           length == IF cl \in 1..size /\ bytes[cl].num # NotANumber THEN bytes[cl].num ELSE 0
           total == size + length
           keep == ~(conn \in 1..size /\ "close" \in Range(bytes[conn].list))
           it == [method |-> words[1], path |-> words[2], keepAlive |-> keep,
                  body |-> SubSeq(bytes, size + 1, size + length)]
<1>1. \/ r = Incomplete \/ r = other
      \/ r = Complete(it, total) /\ ~(Len(bytes) < total)
  BY DEF DecodeRequest
<1>2. size \in 0..Len(bytes) /\ Len(bytes) \in Nat
  BY HeadEnds, LenProperties
<1>3. cl \in 0..Len(bytes) /\ (cl # 0 => bytes[cl].is = "header")
  BY FindHeaderIs
<1>4. length \in Nat
  <2> HIDE DEF size, cl
  <2>1. ASSUME cl \in 1..size, bytes[cl].num # NotANumber PROVE bytes[cl].num \in Nat
    <3>1. cl \in 1..Len(bytes) /\ bytes[cl].is = "header"
      BY <1>2, <1>3, <2>1
    <3>2. bytes[cl] \in U
      BY <3>1, ElementOfSeq
    <3> QED
      BY <2>1, <3>1, <3>2 DEF HeaderOk
  <2> QED
    BY <2>1
<1> HIDE DEF size, length
<1>5. total \in Nat
  BY <1>2, <1>4
<1> HIDE DEF total, keep
<1>6. it.keepAlive = keep
  OBVIOUS
<1>7. keep \in BOOLEAN
  BY DEF keep
<1> HIDE DEF r, it
<1> QED
  BY <1>1, <1>2, <1>5, <1>6, <1>7 DEF ResultOk, Complete, Incomplete, r

LEMMA HttpDecodeIs ==
  ASSUME NEW U, \A b \in U : HeaderOk(b), NEW bytes \in Seq(U)
  PROVE  ResultOk(HttpDecode(bytes), bytes, FALSE)
<1> DEFINE r == HttpDecode(bytes)
<1>1. r = DecodeRequest(bytes, ParseRequestLine(FirstLine(bytes)), DecodeError)
  BY DEF HttpDecode
<1> HIDE DEF r
<1>2. r # DecodeError => ResultOk(r, bytes, FALSE)
  BY <1>1, DecodeRequestIs
<1>3. r = DecodeError => ResultOk(r, bytes, FALSE)
  BY DEF DecodeError, ResultOk
<1> QED
  BY <1>2, <1>3 DEF r

LEMMA ServiceParseIs ==
  ASSUME NEW U, \A b \in U : HeaderOk(b), NEW bytes \in Seq(U)
  PROVE  LET r == ServiceParse(bytes)
         IN ResultOk(r, bytes, FALSE) /\ r.status # "error"
            /\ (r.status = "complete" => r.head.keepAlive \in BOOLEAN)
<1> DEFINE r == ServiceParse(bytes)
           line == FirstLine(bytes)
           is == Len(line) = 1 /\ line[1].is = "start" /\ Len(line[1].words) >= 3
<1>1. r = DecodeRequest(bytes, is, Incomplete)
  BY DEF ServiceParse
<1> HIDE DEF r, is
<1>2. /\ r.status \notin {"needMore", "complete"} => r = Incomplete
      /\ r # Incomplete => ResultOk(r, bytes, FALSE)
      /\ r # Incomplete /\ r.status = "complete" => r.head.keepAlive \in BOOLEAN
  BY <1>1, DecodeRequestIs
<1> QED
  BY <1>2 DEF ResultOk, Incomplete, r

\* One more element.
LEMMA AppendAny ==
  ASSUME NEW q, IsSeq(q), NEW x
  PROVE  /\ IsSeq(Append(q, x)) /\ Len(Append(q, x)) = Len(q) + 1
         /\ DOMAIN q = 1..Len(q) /\ Len(q) \in Nat
         /\ DOMAIN Append(q, x) = 1..(Len(q) + 1)
         /\ \A i \in 1..Len(q) : Append(q, x)[i] = q[i]
         /\ Append(q, x)[Len(q) + 1] = x
<1> DEFINE C == {q[i] : i \in 1..Len(q)} \cup {x}
           p == Append(q, x)
<1>1. q \in Seq(C) /\ x \in C
  BY SeqOver
<1>2. Len(q) \in Nat /\ DOMAIN q = 1..Len(q)
  BY DEF IsSeq
<1>3. /\ p \in Seq(C) /\ Len(p) = Len(q) + 1
      /\ \A i \in 1..Len(q) : p[i] = q[i]
      /\ p[Len(q) + 1] = x
  BY <1>1, AppendProperties
<1> HIDE DEF p, C
<1>4. p = [i \in 1..Len(p) |-> p[i]] /\ DOMAIN p = 1..Len(p)
  BY <1>3, LenProperties
<1>5. IsSeq(p)
  BY <1>2, <1>3, <1>4 DEF IsSeq
<1> QED
  BY <1>2, <1>3, <1>4, <1>5 DEF p

----------------------------------------------------------------------------
(* The bytes of messages and of streams *)

\* A message that is no RPC has a first line, header lines and a body; those of one
\* that HttpCodec encodes are its.
FieldHeader(name, m) ==
  [is |-> "header", name |-> name, style |-> "title", list |-> <<>>,
   num |-> IF name = "content-length" THEN Len(m.body) ELSE NotANumber]

StartOf(decoder, m) ==
  IF Encoded(decoder, m) THEN [is |-> "start", words |-> <<"HTTP/1.1", m.digits, "reason">>]
  ELSE m.start

HeadersOf(decoder, m) ==
  IF Encoded(decoder, m)
  THEN <<FieldHeader("content-type", m), FieldHeader("content-length", m),
         ConnectionHeader(m.keepAlive)>>
  ELSE m.headers

Decoders == {"request", "response", "http", "rpc", "service"}

HeadBytesOf(decoder, m) == HeadBytes(StartOf(decoder, m), HeadersOf(decoder, m))

LEMMA MessageShape ==
  ASSUME NEW decoder \in Decoders \ {"rpc"}, NEW m, MessageOk(decoder, m)
  PROVE  /\ Bytes(decoder, m) = HeadBytesOf(decoder, m) \o m.body
         /\ StartOf(decoder, m).is = "start" /\ IsSeq(HeadersOf(decoder, m)) /\ IsSeq(m.body)
         /\ \A i \in 1..Len(HeadersOf(decoder, m)) :
              LET h == HeadersOf(decoder, m)[i]
              IN h.is \in {"header", "malformed"} /\ HeaderOk(h)
         /\ \A i \in 1..Len(m.body) : HeaderOk(m.body[i])
<1>0. decoder # "rpc"
  OBVIOUS
<1>1. CASE Encoded(decoder, m)
  <2> DEFINE names == <<"content-type", "content-length">>
             a == FieldHeader("content-type", m)
             b == FieldHeader("content-length", m)
             c == ConnectionHeader(m.keepAlive)
             s == StartOf(decoder, m)
             hs == [i \in DOMAIN names |-> FieldHeader(names[i], m)]
  <2>1. /\ IsSeq(m.body) /\ \A i \in DOMAIN m.body : HeaderOk(m.body[i])
    BY <1>0, <1>1 DEF MessageOk, Encoded
  <2>2. Len(m.body) \in Nat /\ DOMAIN m.body = 1..Len(m.body)
    BY <2>1 DEF IsSeq
  <2>3. Bytes(decoder, m) = HeadBytes(s, Append(hs, c)) \o m.body
    BY <1>0, <1>1 DEF Bytes, HttpEncode, ResponseBytes, Encoded, StartOf, FieldHeader
  <2>4. hs = <<a, b>>
    OBVIOUS
  <2> HIDE DEF a, b, c, hs
  <2>5. Append(hs, c) = <<a, b, c>>
    <3> DEFINE W == {a, b, c}
               u == <<a, b>>
               v == <<a, b, c>>
               w == Append(u, c)
    <3>1. u \in Seq(W) /\ Len(u) = 2 /\ u[1] = a /\ u[2] = b /\ c \in W
      OBVIOUS
    <3>2. v \in Seq(W) /\ Len(v) = 3 /\ v[1] = a /\ v[2] = b /\ v[3] = c
      OBVIOUS
    <3> HIDE DEF u, v, W
    <3>3. IsSeq(w) /\ Len(w) = Len(u) + 1 /\ (\A i \in 1..Len(u) : w[i] = u[i])
          /\ w[Len(u) + 1] = c
      <4>1. IsSeq(u)
        BY DEF IsSeq, u
      <4> QED
        BY <4>1, AppendAny
    <3> HIDE DEF w
    <3>4. \A i \in 1..Len(w) : w[i] = v[i]
      <4>1. \A i \in 1..Len(w) : i = 1 \/ i = 2 \/ i = 3
        BY <3>1, <3>3
      <4>2. w[1] = a /\ w[2] = b /\ w[3] = c
        BY <3>1, <3>3
      <4> QED
        BY <3>2, <4>1, <4>2
    <3>5. w = v
      <4>1. Len(w) = 3
        BY <3>1, <3>3
      <4>2. w \in Seq(W)
        <5>1. \A i \in 1..Len(w) : w[i] \in W
          BY <3>2, <3>4, <4>1, ElementOfSeq
        <5> QED
          BY <3>3, <5>1, SeqOver
      <4> QED
        BY <3>2, <3>4, <4>1, <4>2, SeqEqual
    <3> QED
      BY <2>4, <3>5 DEF u, v, w
  <2>6. HeadersOf(decoder, m) = <<a, b, c>>
    BY <1>1 DEF HeadersOf, a, b, c
  <2>7. /\ a.is = "header" /\ a.num = NotANumber /\ b.is = "header" /\ b.num = Len(m.body)
        /\ c.is = "header" /\ c.num = NotANumber
    BY DEF a, b, c, FieldHeader, ConnectionHeader
  <2>8. HeaderOk(a) /\ HeaderOk(b) /\ HeaderOk(c)
    BY <2>2, <2>7 DEF HeaderOk
  <2>9. IsSeq(<<a, b, c>>) /\ Len(<<a, b, c>>) = 3
    BY DEF IsSeq
  <2>10. \A i \in 1..3 : LET h == (<<a, b, c>>)[i]
                         IN h.is \in {"header", "malformed"} /\ HeaderOk(h)
    <3>1. \A i \in 1..3 : i = 1 \/ i = 2 \/ i = 3
      OBVIOUS
    <3>2. (<<a, b, c>>)[1] = a /\ (<<a, b, c>>)[2] = b /\ (<<a, b, c>>)[3] = c
      OBVIOUS
    <3> QED
      BY <2>7, <2>8, <3>1, <3>2
  <2>11. s.is = "start"
    BY <1>1 DEF StartOf
  <2>12. Bytes(decoder, m) = HeadBytesOf(decoder, m) \o m.body
    BY <2>3, <2>5, <2>6 DEF HeadBytesOf
  <2> HIDE DEF s
  <2> QED
    BY <2>1, <2>2, <2>6, <2>9, <2>10, <2>11, <2>12 DEF s
<1>2. CASE ~Encoded(decoder, m)
  <2>1. /\ m.start.is = "start" /\ IsSeq(m.headers) /\ IsSeq(m.body)
        /\ \A i \in DOMAIN m.headers :
             m.headers[i].is \in {"header", "malformed"} /\ HeaderOk(m.headers[i])
        /\ \A i \in DOMAIN m.body : HeaderOk(m.body[i])
    BY <1>0, <1>2 DEF MessageOk, Encoded
  <2>2. DOMAIN m.headers = 1..Len(m.headers) /\ DOMAIN m.body = 1..Len(m.body)
    BY <2>1 DEF IsSeq
  <2>3. Bytes(decoder, m) = HeadBytes(m.start, m.headers) \o m.body
    BY <1>0, <1>2 DEF Bytes, Encoded
  <2>4. StartOf(decoder, m) = m.start /\ HeadersOf(decoder, m) = m.headers
    BY <1>2 DEF StartOf, HeadersOf
  <2> QED
    BY <2>1, <2>2, <2>3, <2>4 DEF HeadBytesOf
<1> QED
  BY <1>1, <1>2

\* The cells of a message: those of its head, and those of its body.
MessageCells(q, start, headers, n, content) ==
  /\ HeadCells(q, start, headers, n)
  /\ \A i \in 1..Len(content) : q[3 * n + 5 + i] = content[i]

LEMMA MessageBytes ==
  ASSUME NEW decoder \in Decoders \ {"rpc"}, NEW m, MessageOk(decoder, m)
  PROVE  LET q == Bytes(decoder, m)
             headers == HeadersOf(decoder, m)
             n == Len(headers)
         IN /\ n \in Nat /\ Len(m.body) \in Nat
            /\ IsSeq(q) /\ Len(q) = 3 * n + 5 + Len(m.body)
            /\ MessageCells(q, StartOf(decoder, m), headers, n, m.body)
            /\ \A i \in 1..Len(q) : HeaderOk(q[i])
<1> DEFINE q == Bytes(decoder, m)
           start == StartOf(decoder, m)
           headers == HeadersOf(decoder, m)
           n == Len(headers)
           p == HeadBytes(start, headers)
           c == {CR, LF, start} \cup {headers[i] : i \in 1..n}
                  \cup {m.body[i] : i \in 1..Len(m.body)}
<1>1. /\ q = p \o m.body
      /\ start.is = "start" /\ IsSeq(headers) /\ IsSeq(m.body)
      /\ \A i \in 1..n : HeaderOk(headers[i])
      /\ \A i \in 1..Len(m.body) : HeaderOk(m.body[i])
  BY MessageShape DEF HeadBytesOf
<1>2. HeaderOk(CR) /\ HeaderOk(LF)
  BY DEF HeaderOk, CR, LF
<1> HIDE DEF start, headers, q
<1>3. HeaderOk(start)
  BY <1>1 DEF HeaderOk
<1>4. \A b \in c : HeaderOk(b)
  BY <1>1, <1>2, <1>3
<1>5. CR \in c /\ LF \in c /\ start \in c /\ (\A i \in 1..n : headers[i] \in c)
      /\ \A i \in 1..Len(m.body) : m.body[i] \in c
  OBVIOUS
<1> HIDE DEF c
<1>6. headers \in Seq(c) /\ m.body \in Seq(c)
  BY <1>1, <1>5, SeqOver
<1>7. p \in Seq(c) /\ Len(p) = 3 * n + 5 /\ HeadCells(p, start, headers, n)
  BY <1>5, <1>6, HeadBytesAre
<1> HIDE DEF p
<1>8. Concats(q, p, m.body, c)
  BY <1>1, <1>6, <1>7, ConcatCells
<1>9. n \in Nat /\ Len(m.body) \in Nat
  BY <1>1 DEF IsSeq
<1> HIDE DEF n
<1>10. q \in Seq(c) /\ Len(q) = 3 * n + 5 + Len(m.body)
  BY <1>7, <1>8 DEF Concats
<1>11. /\ \A i \in 1..(3 * n + 5) : q[i] = p[i]
       /\ \A i \in 1..Len(m.body) : q[3 * n + 5 + i] = m.body[i]
  BY <1>7, <1>8 DEF Concats
<1>12. HeadCells(q, start, headers, n)
  <2>1. \A i \in {1, 2, 3, 3 * n + 4, 3 * n + 5} : i \in 1..(3 * n + 5)
    BY <1>9
  <2>2. ASSUME NEW j \in 1..n
        PROVE q[3 * j + 1] = headers[j] /\ q[3 * j + 2] = CR /\ q[3 * j + 3] = LF
    <3>1. \A i \in {3 * j + 1, 3 * j + 2, 3 * j + 3} : i \in 1..(3 * n + 5)
      BY <1>9
    <3>2. p[3 * j + 1] = headers[j] /\ p[3 * j + 2] = CR /\ p[3 * j + 3] = LF
      BY <1>7 DEF HeadCells
    <3> QED
      BY <1>11, <3>1, <3>2
  <2>3. /\ p[1] = start /\ p[2] = CR /\ p[3] = LF
        /\ p[3 * n + 4] = CR /\ p[3 * n + 5] = LF
    BY <1>7 DEF HeadCells
  <2> QED
    BY <1>11, <2>1, <2>2, <2>3 DEF HeadCells
<1>13. MessageCells(q, start, headers, n, m.body)
  BY <1>11, <1>12 DEF MessageCells
<1>14. IsSeq(q) /\ \A i \in 1..Len(q) : HeaderOk(q[i])
  <2>1. q = [i \in 1..Len(q) |-> q[i]] /\ Len(q) \in Nat
    BY <1>10, LenProperties
  <2>2. \A i \in 1..Len(q) : q[i] \in c
    BY <1>10, ElementOfSeq
  <2> QED
    BY <1>4, <2>1, <2>2 DEF IsSeq
<1> QED
  BY <1>9, <1>10, <1>13, <1>14 DEF q, start, headers, n

\* An RPC message: its fields, of which the first is its length, and its payload.
LEMMA RpcBytes ==
  ASSUME NEW m, MessageOk("rpc", m)
  PROVE  LET q == Bytes("rpc", m)
             l == Len(m.payload)
         IN /\ l \in Nat /\ IsSeq(q) /\ Len(q) = 3 + l
            /\ q[1].num = l /\ q[2].num = m.type /\ q[3].num = m.id
            /\ \A i \in 1..l : q[3 + i] = m.payload[i]
            /\ IsSeq(m.payload) /\ m = [type |-> m.type, id |-> m.id, payload |-> m.payload]
<1> DEFINE q == Bytes("rpc", m)
           l == Len(m.payload)
           a == [is |-> "field", num |-> l]
           b == [is |-> "field", num |-> m.type]
           d == [is |-> "field", num |-> m.id]
           p == <<a, b, d>>
           c == {a, b, d} \cup {m.payload[i] : i \in 1..l}
<1>1. IsSeq(m.payload) /\ m = [type |-> m.type, id |-> m.id, payload |-> m.payload]
  BY DEF MessageOk, Encoded
<1>2. q = p \o m.payload
  BY DEF Bytes, RpcEncode, Encoded
<1>3. a.num = l /\ b.num = m.type /\ d.num = m.id
  OBVIOUS
<1>4. l \in Nat
  BY <1>1 DEF IsSeq
<1> HIDE DEF q, l, a, b, d
<1>5. p \in Seq(c) /\ Len(p) = 3 /\ p[1] = a /\ p[2] = b /\ p[3] = d
  OBVIOUS
<1>6. \A i \in 1..Len(m.payload) : m.payload[i] \in c
  BY DEF l
<1> HIDE DEF c, p
<1>7. m.payload \in Seq(c)
  BY <1>1, <1>6, SeqOver
<1>8. Concats(q, p, m.payload, c)
  BY <1>2, <1>5, <1>7, ConcatCells
<1>9. q \in Seq(c) /\ Len(q) = 3 + l
  BY <1>5, <1>8 DEF Concats, l
<1>10. (\A i \in 1..3 : q[i] = p[i]) /\ \A i \in 1..l : q[3 + i] = m.payload[i]
  BY <1>5, <1>8 DEF Concats, l
<1>11. q = [i \in 1..Len(q) |-> q[i]] /\ Len(q) \in Nat
  BY <1>9, LenProperties
<1>12. q[1] = a /\ q[2] = b /\ q[3] = d
  BY <1>5, <1>10
<1> QED
  BY <1>1, <1>3, <1>4, <1>9, <1>10, <1>11, <1>12 DEF q, l, IsSeq


\* The messages of a job as bytes, the first k of them joined, and where the
\* k-th ends in the stream.
MessageOf(j, i) == Bytes(j.decoder, j.messages[i])
UpTo(j, k) == FlattenSeq([i \in 1..k |-> MessageOf(j, i)])
Off(j, k) == Len(UpTo(j, k))
Count(j) == Len(j.messages)
ByteSet(j) == UNION {{MessageOf(j, i)[c] : c \in 1..Len(MessageOf(j, i))} : i \in 1..Count(j)}

JobOk(j) == j.decoder \in Decoders /\ StreamOk(j.decoder, j.messages)

\* What a stream is: its messages, each at its place.
StreamIs(j, s) ==
  /\ Count(j) \in Nat /\ s \in Seq(ByteSet(j)) /\ Len(s) \in Nat
  /\ Off(j, 0) = 0 /\ Off(j, Count(j)) = Len(s)
  /\ \A k \in 0..Count(j) : Off(j, k) \in Nat /\ Off(j, k) <= Len(s)
  /\ \A k \in 1..Count(j) :
       /\ Len(MessageOf(j, k)) \in Nat
       /\ Off(j, k) = Off(j, k - 1) + Len(MessageOf(j, k))
       /\ \A i \in 1..Len(MessageOf(j, k)) : s[Off(j, k - 1) + i] = MessageOf(j, k)[i]
  /\ j.decoder # "rpc" => \A b \in ByteSet(j) : HeaderOk(b)

LEMMA MessageOfIs ==
  ASSUME NEW j, JobOk(j), NEW k \in 1..Count(j)
  PROVE  /\ MessageOk(j.decoder, j.messages[k]) /\ IsSeq(MessageOf(j, k))
         /\ Len(MessageOf(j, k)) \in Nat /\ MessageOf(j, k) \in Seq(ByteSet(j))
         /\ j.decoder # "rpc" => \A i \in 1..Len(MessageOf(j, k)) : HeaderOk(MessageOf(j, k)[i])
<1> DEFINE q == MessageOf(j, k)
<1>1. MessageOk(j.decoder, j.messages[k])
  <2>1. DOMAIN j.messages = 1..Count(j)
    BY DEF JobOk, StreamOk, IsSeq, Count
  <2> QED
    BY <2>1 DEF JobOk, StreamOk
<1>2. IsSeq(q) /\ (j.decoder # "rpc" => \A i \in 1..Len(q) : HeaderOk(q[i]))
  <2>1. CASE j.decoder = "rpc"
    BY <1>1, <2>1, RpcBytes DEF MessageOf
  <2>2. CASE j.decoder # "rpc"
    <3>1. j.decoder \in Decoders \ {"rpc"}
      BY <2>2 DEF JobOk
    <3> QED
      BY <1>1, <3>1, MessageBytes DEF MessageOf
  <2> QED
    BY <2>1, <2>2
<1> HIDE DEF q
<1>3. \A i \in 1..Len(q) : q[i] \in ByteSet(j)
  BY DEF ByteSet, q
<1>4. q \in Seq(ByteSet(j))
  BY <1>2, <1>3, SeqOver
<1>5. Len(q) \in Nat
  BY <1>2 DEF IsSeq
<1> QED
  BY <1>1, <1>2, <1>4, <1>5 DEF q

\* Each of joined sequences is found at its place.
JoinsAt(F, q, n, C) ==
  /\ \A k \in 0..n : F[k] \in Seq(C) /\ Len(F[k]) \in Nat /\ Len(F[k]) <= Len(F[n])
  /\ \A k \in 1..n :
       /\ Len(F[k]) = Len(F[k - 1]) + Len(q[k])
       /\ \A i \in 1..Len(q[k]) : F[n][Len(F[k - 1]) + i] = q[k][i]

LEMMA JoinedCells ==
  ASSUME NEW C, NEW n \in Nat, NEW F, NEW q, Joins(F, q, n, C),
         \A k \in 1..n : q[k] \in Seq(C)
  PROVE  JoinsAt(F, q, n, C)
<1>1. \A k \in 0..n : F[k] \in Seq(C) /\ Len(F[k]) \in Nat
  BY LenProperties DEF Joins
<1>2. ASSUME NEW k \in 1..n
      PROVE  /\ Concats(F[k], F[k - 1], q[k], C) /\ Len(q[k]) \in Nat
             /\ k - 1 \in 0..n /\ k \in 0..n
  <2>1. k - 1 \in 0..n /\ k \in 0..n
    OBVIOUS
  <2>2. F[k] = F[k - 1] \o q[k]
    BY DEF Joins
  <2>3. F[k - 1] \in Seq(C) /\ q[k] \in Seq(C)
    BY <1>1, <2>1
  <2>4. Concats(F[k - 1] \o q[k], F[k - 1], q[k], C)
    BY <2>3, ConcatCells
  <2> QED
    BY <2>1, <2>2, <2>3, <2>4, LenProperties
<1>3. \A k \in 1..n : Len(F[k]) = Len(F[k - 1]) + Len(q[k])
  BY <1>2 DEF Concats
<1> DEFINE P(l) == \A k \in 0..l : /\ Len(F[k]) <= Len(F[l])
                                   /\ \A i \in 1..Len(F[k]) : F[l][i] = F[k][i]
           T == {l \in Nat : l <= n => P(l)}
<1>4. 0 \in T
  <2>1. \A k \in 0..0 : k = 0
    OBVIOUS
  <2>2. Len(F[0]) \in Nat
    BY <1>1
  <2>3. P(0)
    BY <2>1, <2>2
  <2> QED
    BY <2>3
<1>5. ASSUME NEW l \in T PROVE l + 1 \in T
  <2> DEFINE m == l + 1
  <2>0. l \in Nat
    OBVIOUS
  <2> HIDE DEF P
  <2> SUFFICES ASSUME m <= n PROVE P(m)
    BY <2>0
  <2>1. P(l) /\ m \in 1..n /\ m - 1 = l /\ m \in 0..n /\ l \in 0..n
    BY <2>0
  <2>2. Concats(F[m], F[l], q[m], C) /\ Len(q[m]) \in Nat
    BY <1>2, <2>1
  <2>3. Len(F[m]) = Len(F[l]) + Len(q[m]) /\ \A i \in 1..Len(F[l]) : F[m][i] = F[l][i]
    BY <2>2 DEF Concats
  <2>4. Len(F[m]) \in Nat /\ Len(F[l]) \in Nat
    BY <1>1, <2>1
  <2>5. ASSUME NEW k \in 0..m
        PROVE  Len(F[k]) <= Len(F[m]) /\ \A i \in 1..Len(F[k]) : F[m][i] = F[k][i]
    <3>1. CASE k = m
      BY <2>4, <3>1
    <3>2. CASE k # m
      <4>1. k \in 0..l /\ k \in 0..n
        BY <2>0, <2>1, <3>2
      <4>2. Len(F[k]) <= Len(F[l]) /\ \A i \in 1..Len(F[k]) : F[l][i] = F[k][i]
        BY <2>1, <4>1 DEF P
      <4>3. Len(F[k]) \in Nat
        BY <1>1, <4>1
      <4>4. \A i \in 1..Len(F[k]) : i \in 1..Len(F[l])
        BY <2>4, <4>2, <4>3
      <4>5. Len(F[k]) <= Len(F[m])
        <5> DEFINE x == Len(F[k])  y == Len(F[l])  z == Len(F[m])  w == Len(q[m])
        <5>1. x \in Nat /\ y \in Nat /\ w \in Nat /\ x <= y /\ z = y + w
          BY <2>2, <2>3, <2>4, <4>2, <4>3
        <5> HIDE DEF x, y, z, w
        <5>2. x <= z
          BY <5>1
        <5> QED
          BY <5>2 DEF x, z
      <4> QED
        BY <2>3, <4>2, <4>4, <4>5
    <3> QED
      BY <3>1, <3>2
  <2> QED
    BY <2>5 DEF P
<1>6. T \subseteq Nat
  OBVIOUS
<1> HIDE DEF T, P
<1>7. n \in T
  BY <1>4, <1>5, <1>6, Induction
<1>8. P(n)
  BY <1>7 DEF T
<1>9. \A k \in 0..n : Len(F[k]) <= Len(F[n]) /\ \A i \in 1..Len(F[k]) : F[n][i] = F[k][i]
  BY <1>8 DEF P
<1>10. ASSUME NEW k \in 1..n, NEW i \in 1..Len(q[k])
       PROVE  F[n][Len(F[k - 1]) + i] = q[k][i]
  <2>1. Concats(F[k], F[k - 1], q[k], C) /\ Len(q[k]) \in Nat /\ k - 1 \in 0..n /\ k \in 0..n
    BY <1>2
  <2>2. F[k][Len(F[k - 1]) + i] = q[k][i] /\ Len(F[k]) = Len(F[k - 1]) + Len(q[k])
    BY <2>1 DEF Concats
  <2>3. Len(F[k - 1]) \in Nat
    BY <1>1, <2>1
  <2>4. Len(F[k - 1]) + i \in 1..Len(F[k])
    <3> DEFINE x == Len(F[k - 1])  y == Len(q[k])  z == Len(F[k])
    <3>1. x \in Nat /\ y \in Nat /\ z = x + y /\ i \in 1..y
      BY <2>1, <2>2, <2>3
    <3> HIDE DEF x, y, z
    <3>2. x + i \in 1..z
      BY <3>1
    <3> QED
      BY <3>2 DEF x, z
  <2> QED
    BY <1>9, <2>1, <2>2, <2>4
<1> QED
  BY <1>1, <1>3, <1>9, <1>10 DEF JoinsAt

LEMMA SentIs ==
  ASSUME NEW j, JobOk(j)
  PROVE  StreamIs(j, Sent(j))
<1> DEFINE n == Count(j)
           C == ByteSet(j)
           q == [i \in 1..n |-> MessageOf(j, i)]
           s == Sent(j)
<1>1. n \in Nat /\ DOMAIN j.messages = 1..n
  BY DEF JobOk, StreamOk, IsSeq, Count
<1>2. s = FlattenSeq(q)
  BY <1>1 DEF Sent, MessageOf
<1>3. \A k \in 1..n : q[k] = MessageOf(j, k) /\ MessageOf(j, k) \in Seq(C)
                      /\ Len(MessageOf(j, k)) \in Nat
  BY MessageOfIs
<1>4. q \in Seq(Seq(C)) /\ Len(q) = n
  <2> HIDE DEF C, n
  <2>1. q \in [1..n -> Seq(C)]
    BY <1>3
  <2> HIDE DEF q
  <2> QED
    BY <1>1, <2>1
<1> HIDE DEF q, n, C, s
<1>5. PICK F : Joins(F, q, n, C) /\ FlattenSeq(q) = F[n]
  BY <1>4, FlattenSteps
<1>6. /\ \A k \in 0..n : F[k] \in Seq(C) /\ Len(F[k]) \in Nat /\ Len(F[k]) <= Len(F[n])
      /\ \A k \in 1..n :
           /\ Len(F[k]) = Len(F[k - 1]) + Len(q[k])
           /\ \A i \in 1..Len(q[k]) : F[n][Len(F[k - 1]) + i] = q[k][i]
  <2>1. \A k \in 1..n : q[k] \in Seq(C)
    BY <1>3
  <2>2. JoinsAt(F, q, n, C)
    BY <1>1, <1>5, <2>1, JoinedCells
  <2> QED
    BY <2>2 DEF JoinsAt
<1>7. ASSUME NEW k \in 0..n PROVE Off(j, k) = Len(F[k])
  <2> DEFINE p == [i \in 1..k |-> MessageOf(j, i)]
  <2>0. k \in Nat /\ \A i \in 1..k : i \in 1..n
    BY <1>1
  <2>1. p \in Seq(Seq(C)) /\ Len(p) = k
    <3>1. p \in [1..k -> Seq(C)]
      BY <1>3, <2>0
    <3> HIDE DEF p
    <3> QED
      BY <2>0, <3>1
  <2>2. \A i \in 1..k : p[i] = q[i]
    BY <1>3, <2>0
  <2>3. UpTo(j, k) = FlattenSeq(p)
    BY DEF UpTo
  <2> HIDE DEF p
  <2>4. PICK G : Joins(G, p, k, C) /\ FlattenSeq(p) = G[k]
    BY <2>1, FlattenSteps
  <2>5. k <= k /\ k <= n
    BY <1>1
  <2>6. G[k] = F[k]
    BY <1>1, <1>5, <2>0, <2>2, <2>4, <2>5, JoinsAgree
  <2> QED
    BY <2>3, <2>4, <2>6 DEF Off
<1>8. 0 \in 0..n /\ n \in 0..n /\ F[0] = <<>> /\ Len(<<>>) = 0
  BY <1>1, <1>5 DEF Joins
<1>9. s \in Seq(C) /\ Len(s) \in Nat /\ s = F[n]
  BY <1>2, <1>5, <1>6, <1>8
<1>10. ASSUME NEW k \in 1..n
       PROVE  /\ Len(MessageOf(j, k)) \in Nat
              /\ Off(j, k) = Off(j, k - 1) + Len(MessageOf(j, k))
              /\ \A i \in 1..Len(MessageOf(j, k)) : s[Off(j, k - 1) + i] = MessageOf(j, k)[i]
  <2>1. k \in 0..n /\ k - 1 \in 0..n
    BY <1>1
  <2>2. Off(j, k) = Len(F[k]) /\ Off(j, k - 1) = Len(F[k - 1])
    BY <1>7, <2>1
  <2> QED
    BY <1>3, <1>6, <1>9, <2>2
<1>11. j.decoder # "rpc" => \A b \in C : HeaderOk(b)
  <2> SUFFICES ASSUME j.decoder # "rpc", NEW b \in C PROVE HeaderOk(b)
    OBVIOUS
  <2>1. PICK k \in 1..n : \E i \in 1..Len(MessageOf(j, k)) : b = MessageOf(j, k)[i]
    BY DEF C, n, ByteSet
  <2> QED
    BY <2>1, MessageOfIs DEF n
<1> QED
  BY <1>1, <1>6, <1>7, <1>8, <1>9, <1>10, <1>11 DEF StreamIs, n, C, s

----------------------------------------------------------------------------
(* Sending *)

OutputFields ==
  {"buffer", "strategy", "state", "closing", "high", "maxSize", "crossings", "discarded",
   "blocked", "total", "inFlight", "fin", "delivered", "failed"}

IsOutput(o) == o = [f \in OutputFields |-> o[f]]

\* A connection with a backlog of bytes in C, no more of them with the kernel
\* than there are.
OutputOk(o, C) ==
  /\ IsOutput(o) /\ BufferOk(o.buffer, C) /\ o.delivered \in Seq(C)
  /\ o.inFlight \in Nat /\ o.inFlight <= Backlog(o)
  /\ o.total \in Nat /\ o.blocked \in BOOLEAN /\ o.failed \in BOOLEAN

\* What a peer has got and what it will get.
Passing(o) == o.delivered \o Readable(o.buffer)

\* Two connections that differ in nothing that is sent.
SameSending(p, o) ==
  /\ p.buffer = o.buffer /\ p.delivered = o.delivered /\ p.inFlight = o.inFlight
  /\ p.total = o.total /\ p.blocked = o.blocked /\ p.failed = o.failed
  /\ p.strategy = o.strategy

LEMMA BacklogIs ==
  ASSUME NEW C, NEW o, BufferOk(o.buffer, C)
  PROVE  /\ Readable(o.buffer) \in Seq(C) /\ Backlog(o) = Len(Readable(o.buffer))
         /\ Backlog(o) \in Nat
<1>1. Readable(o.buffer) \in Seq(C)
  BY ReadableIs
<1> QED
  BY <1>1, LenProperties DEF Backlog

LEMMA SameOutput ==
  ASSUME NEW C, NEW o, OutputOk(o, C), NEW p, IsOutput(p), SameSending(p, o)
  PROVE  OutputOk(p, C) /\ Passing(p) = Passing(o) /\ Backlog(p) = Backlog(o)
BY DEF OutputOk, SameSending, Passing, Backlog

LEMMA NewOutputIs ==
  ASSUME NEW C, Unset \in C, NEW strategy
  PROVE  LET o == NewOutput(strategy)
         IN /\ OutputOk(o, C) /\ Passing(o) = <<>> /\ o.inFlight = 0 /\ Backlog(o) = 0
            /\ o.strategy = strategy /\ o.failed = FALSE /\ o.delivered = <<>>
<1> DEFINE o == NewOutput(strategy)
           b == NewBuffer
<1>1. BufferOk(b, C) /\ Readable(b) = <<>>
  BY NewBufferIs
<1> HIDE DEF b
<1>2. /\ o.buffer = b /\ o.delivered = <<>> /\ o.inFlight = 0 /\ o.total = 0
      /\ o.blocked = FALSE /\ o.failed = FALSE /\ o.strategy = strategy /\ IsOutput(o)
  BY DEF NewOutput, IsOutput, OutputFields, b
<1> HIDE DEF o
<1>3. Backlog(o) = 0
  BY <1>1, <1>2 DEF Backlog
<1>4. <<>> \in Seq(C) /\ <<>> \o <<>> = <<>>
  OBVIOUS
<1>5. OutputOk(o, C)
  <2>1. o.blocked \in BOOLEAN /\ o.failed \in BOOLEAN
    BY <1>2, Zenon
  <2>2. o.inFlight \in Nat /\ o.inFlight <= Backlog(o) /\ o.total \in Nat
    BY <1>2, <1>3
  <2> QED
    BY <1>1, <1>2, <1>4, <2>1, <2>2 DEF OutputOk
<1>6. Passing(o) = <<>>
  BY <1>1, <1>2, <1>4 DEF Passing
<1> QED
  BY <1>2, <1>3, <1>5, <1>6 DEF o

\* Closing a connection touches nothing that is sent.
LEMMA ClosingIs ==
  ASSUME NEW o, IsOutput(o)
  PROVE  /\ IsOutput(ForceClose(o)) /\ SameSending(ForceClose(o), o)
         /\ IsOutput(Destroyed(o)) /\ SameSending(Destroyed(o), o)
         /\ IsOutput(MaybeShutdownWrite(o)) /\ SameSending(MaybeShutdownWrite(o), o)
<1>1. IsOutput(ForceClose(o)) /\ SameSending(ForceClose(o), o)
  BY DEF IsOutput, OutputFields, ForceClose, SameSending
<1>2. IsOutput(Destroyed(o)) /\ SameSending(Destroyed(o), o)
  <2> DEFINE v(y) == [o EXCEPT !.state = "disconnected", !.closing = y]
  <2>1. ASSUME NEW y PROVE IsOutput(v(y)) /\ SameSending(v(y), o)
    BY DEF IsOutput, OutputFields, SameSending
  <2>2. Destroyed(o) = v(FALSE)
    BY DEF Destroyed
  <2> HIDE DEF v
  <2> QED
    BY <2>1, <2>2
<1>3. IsOutput(MaybeShutdownWrite(o)) /\ SameSending(MaybeShutdownWrite(o), o)
  <2> DEFINE x == o.fin \/ (o.state = "disconnecting" /\ Backlog(o) = 0)
             p == [o EXCEPT !.fin = x]
  <2>1. MaybeShutdownWrite(o) = p
    BY DEF MaybeShutdownWrite
  <2>2. \A y : LET q == [o EXCEPT !.fin = y] IN IsOutput(q) /\ SameSending(q, o)
    BY DEF IsOutput, OutputFields, SameSending
  <2> HIDE DEF x
  <2>3. IsOutput(p) /\ SameSending(p, o)
    BY <2>2
  <2> QED
    BY <2>1, <2>3
<1> QED
  BY <1>1, <1>2, <1>3

LEMMA CheckIs ==
  ASSUME NEW o, IsOutput(o), NEW n
  PROVE  LET p == CheckOutputBufferBackpressure(o, n)
         IN IsOutput(p) /\ SameSending(p, o)
<1> DEFINE size == Backlog(o) + n
           seen == [o EXCEPT !.maxSize = IF size > @ THEN size ELSE @]
           crossed == [seen EXCEPT !.high = TRUE, !.crossings = IF o.high THEN @ ELSE @ + 1]
           low == [seen EXCEPT !.high = @ /\ size > LowWaterMark]
           dropped == [crossed EXCEPT !.discarded = @ + n]
           p == CheckOutputBufferBackpressure(o, n)
<1>1. p \in {low, dropped, ForceClose(crossed), crossed}
  BY DEF CheckOutputBufferBackpressure
<1> HIDE DEF p, size
<1>2. IsOutput(seen) /\ SameSending(seen, o)
  BY DEF IsOutput, OutputFields, SameSending
<1> HIDE DEF seen
<1>3. IsOutput(crossed) /\ SameSending(crossed, o)
  <2> DEFINE y == IF o.high THEN seen.crossings ELSE seen.crossings + 1
  <2>1. crossed = [seen EXCEPT !.high = TRUE, !.crossings = y]
    OBVIOUS
  <2> HIDE DEF crossed, y
  <2> QED
    BY <1>2, <2>1 DEF IsOutput, OutputFields, SameSending
<1>4. IsOutput(low) /\ SameSending(low, o)
  BY <1>2 DEF IsOutput, OutputFields, SameSending
<1> HIDE DEF crossed, low
<1>5. IsOutput(dropped) /\ SameSending(dropped, o)
  BY <1>3 DEF IsOutput, OutputFields, SameSending
<1>6. IsOutput(ForceClose(crossed)) /\ SameSending(ForceClose(crossed), o)
  BY <1>3, ClosingIs DEF SameSending
<1> HIDE DEF dropped
<1> QED
  BY <1>1, <1>3, <1>4, <1>5, <1>6 DEF p

LEMMA SubmitIs ==
  ASSUME NEW C, NEW o, OutputOk(o, C), NEW room \in BOOLEAN
  PROVE  LET p == SubmitWriteRequest(o, room)
         IN /\ OutputOk(p, C) /\ Passing(p) = Passing(o) /\ Backlog(p) = Backlog(o)
            /\ p.blocked = o.blocked /\ p.failed = o.failed /\ p.strategy = o.strategy
            /\ p.total = o.total /\ p.buffer = o.buffer /\ p.delivered = o.delivered
<1> DEFINE n == Backlog(o)
           q == [o EXCEPT !.inFlight = n]
<1>1. n \in Nat
  BY BacklogIs DEF OutputOk
<1> HIDE DEF n
<1>2. IsOutput(q) /\ q.inFlight = n /\ q.buffer = o.buffer /\ q.delivered = o.delivered
      /\ q.total = o.total /\ q.blocked = o.blocked /\ q.failed = o.failed
      /\ q.strategy = o.strategy
  BY DEF OutputOk, IsOutput, OutputFields
<1> HIDE DEF q
<1>3. OutputOk(q, C) /\ Passing(q) = Passing(o) /\ Backlog(q) = Backlog(o)
  BY <1>1, <1>2 DEF OutputOk, Passing, Backlog, n
<1>4. SubmitWriteRequest(o, room) = q \/ SubmitWriteRequest(o, room) = o
  BY DEF SubmitWriteRequest, q, n
<1> QED
  BY <1>2, <1>3, <1>4

\* Data to be sent follows what waits, and the sender blocks at the high mark.
LEMMA SendsIs ==
  ASSUME NEW C, Unset \in C, NEW o, OutputOk(o, C), NEW data \in Seq(C), NEW room \in BOOLEAN
  PROVE  LET p == Sends(o, data, room)
         IN /\ OutputOk(p, C) /\ Passing(p) = Passing(o) \o data
            /\ Backlog(p) = Backlog(o) + Len(data)
            /\ p.blocked = (o.strategy = "block" /\ Backlog(p) >= HighWaterMark)
            /\ p.failed = o.failed /\ p.strategy = o.strategy
<1> DEFINE c == CheckOutputBufferBackpressure(o, Len(data))
           b == AppendBytes(c.buffer, data)
           a == [c EXCEPT !.buffer = b]
           blocks == a.strategy = "block" /\ Backlog(a) >= HighWaterMark
           w == [a EXCEPT !.blocked = blocks, !.total = 0]
           p == Sends(o, data, room)
<1>1. IsOutput(c) /\ SameSending(c, o)
  BY CheckIs DEF OutputOk
<1>2. p = SubmitWriteRequest(w, room)
  BY DEF Sends, AwaitSuspend
<1>3. OutputOk(c, C) /\ Passing(c) = Passing(o)
  BY <1>1, SameOutput
<1> HIDE DEF c, p
<1>4. BufferOk(b, C) /\ Readable(b) = Readable(o.buffer) \o data
  BY <1>1, <1>3, AppendIs DEF OutputOk, SameSending
<1> HIDE DEF b
<1>5. /\ IsOutput(a) /\ a.buffer = b /\ a.delivered = o.delivered /\ a.inFlight = o.inFlight
      /\ a.failed = o.failed /\ a.strategy = o.strategy
  BY <1>1 DEF IsOutput, OutputFields, SameSending
<1> HIDE DEF a
<1>6. /\ IsOutput(w) /\ w.buffer = b /\ w.delivered = o.delivered /\ w.inFlight = o.inFlight
      /\ w.failed = o.failed /\ w.strategy = o.strategy /\ w.blocked = blocks /\ w.total = 0
  <2> DEFINE v(x) == [a EXCEPT !.blocked = x, !.total = 0]
  <2>1. ASSUME NEW x
        PROVE  /\ IsOutput(v(x)) /\ v(x).buffer = a.buffer /\ v(x).delivered = a.delivered
               /\ v(x).inFlight = a.inFlight /\ v(x).failed = a.failed
               /\ v(x).strategy = a.strategy /\ v(x).blocked = x /\ v(x).total = 0
    BY <1>5 DEF IsOutput, OutputFields
  <2>2. w = v(blocks)
    OBVIOUS
  <2> HIDE DEF v, w, blocks
  <2>3. /\ IsOutput(w) /\ w.buffer = a.buffer /\ w.delivered = a.delivered
        /\ w.inFlight = a.inFlight /\ w.failed = a.failed
        /\ w.strategy = a.strategy /\ w.blocked = blocks /\ w.total = 0
    BY <2>1, <2>2
  <2> QED
    BY <1>5, <2>3
<1>7. Readable(o.buffer) \in Seq(C) /\ Backlog(o) = Len(Readable(o.buffer)) /\ Backlog(o) \in Nat
  BY BacklogIs DEF OutputOk
<1>8. Len(data) \in Nat /\ Backlog(w) = Backlog(o) + Len(data)
  <2>1. Len(Readable(o.buffer) \o data) = Len(Readable(o.buffer)) + Len(data)
    BY <1>7, ConcatProperties
  <2>2. Backlog(w) = Len(Readable(b))
    BY <1>6 DEF Backlog
  <2> QED
    BY <1>4, <1>7, <2>1, <2>2, LenProperties
<1>9. Backlog(a) = Backlog(w)
  BY <1>5, <1>6 DEF Backlog
<1>10. blocks \in BOOLEAN
  OBVIOUS
<1> HIDE DEF w, blocks
<1>11. OutputOk(w, C)
  BY <1>4, <1>6, <1>7, <1>8, <1>10 DEF OutputOk
<1>12. Passing(w) = Passing(o) \o data
  <2> DEFINE d == o.delivered  r == Readable(o.buffer)
  <2>1. d \in Seq(C) /\ r \in Seq(C)
    BY <1>7 DEF OutputOk
  <2>2. Passing(w) = d \o (r \o data) /\ Passing(o) = d \o r
    BY <1>4, <1>6 DEF Passing
  <2> HIDE DEF d, r
  <2>3. (d \o r) \o data = d \o (r \o data)
    BY <2>1, ConcatAssociative
  <2> QED
    BY <2>2, <2>3
<1>13. /\ OutputOk(p, C) /\ Passing(p) = Passing(w) /\ Backlog(p) = Backlog(w)
       /\ p.blocked = w.blocked /\ p.failed = w.failed /\ p.strategy = w.strategy
  BY <1>2, <1>11, SubmitIs
<1>14. blocks = (o.strategy = "block" /\ Backlog(p) >= HighWaterMark)
  BY <1>5, <1>9, <1>13 DEF blocks
<1> QED
  BY <1>6, <1>8, <1>12, <1>13, <1>14 DEF p


\* A write takes the front of what waits, and passes it on.
LEMMA Passed ==
  ASSUME NEW C, NEW d \in Seq(C), NEW r \in Seq(C), NEW k \in 0..Len(r)
  PROVE  /\ d \o SubSeq(r, 1, k) \in Seq(C)
         /\ (d \o SubSeq(r, 1, k)) \o SubSeq(r, k + 1, Len(r)) = d \o r
<1> DEFINE a == SubSeq(r, 1, k)
           b == SubSeq(r, k + 1, Len(r))
           n == Len(r)
           z == 0
<1>1. n \in Nat /\ k \in Nat /\ k <= n /\ z \in Nat /\ z <= k /\ n <= Len(r)
  BY LenProperties
<1>2. a \in Seq(C)
  BY FirstPart
<1>3. b \in Seq(C)
  BY <1>1, Part
<1>4. a \o b = r
  <2>1. SubSeq(r, z + 1, k) \o SubSeq(r, k + 1, n) = SubSeq(r, z + 1, n)
    <3> HIDE DEF z, n
    <3> QED
      BY <1>1, Joined
  <2>2. z + 1 = 1
    OBVIOUS
  <2>3. SubSeq(r, 1, n) = r
    BY SubSeqFull
  <2> QED
    BY <2>1, <2>2, <2>3, Zenon
<1> HIDE DEF a, b
<1>5. (d \o a) \o b = d \o (a \o b)
  BY <1>2, <1>3, ConcatAssociative, SMTT(30)
<1>6. d \o a \in Seq(C)
  BY <1>2, ConcatProperties
<1> QED
  BY <1>4, <1>5, <1>6, Zenon DEF a, b

\* What a write that ends does to a connection that waits for it.
LEMMA WriteHandled ==
  ASSUME NEW C, NEW o, OutputOk(o, C), NEW res \in {-1} \cup 1..Backlog(o)
  PROVE  LET t == Handled(Taken(o, res), res)
         IN /\ OutputOk(t, C) /\ t.inFlight = 0 /\ t.blocked = o.blocked
            /\ t.strategy = o.strategy /\ t.failed = (o.failed \/ res < 0)
            /\ o.blocked \/ res < 0 => Passing(t) = Passing(o) /\ Backlog(t) <= Backlog(o)
            /\ ~o.blocked => t.buffer = o.buffer
            /\ ~o.blocked /\ res > 0 =>
                 t.delivered = o.delivered \o SubSeq(Readable(o.buffer), 1, res)
<1> DEFINE k == IF res > 0 THEN res ELSE 0
           r == Readable(o.buffer)
           d == o.delivered \o SubSeq(r, 1, k)
           a == Taken(o, res)
           t == Handled(a, res)
           b == Retrieve(o.buffer, res)
           u == [a EXCEPT !.buffer = b, !.total = @ + res]
<1>1. r \in Seq(C) /\ Backlog(o) = Len(r) /\ Backlog(o) \in Nat /\ o.delivered \in Seq(C)
  BY BacklogIs DEF OutputOk
<1>2. k \in 0..Len(r) /\ res \in Int /\ (res > 0 => k = res /\ res \in Nat) /\ (~(res > 0) => res = -1 /\ k = 0)
  BY <1>1
<1> HIDE DEF k
<1>3. d \in Seq(C) /\ d \o SubSeq(r, k + 1, Len(r)) = o.delivered \o r
  BY <1>1, <1>2, Passed
<1>4. /\ IsOutput(a) /\ a.inFlight = 0 /\ a.delivered = d /\ a.buffer = o.buffer
      /\ a.total = o.total /\ a.strategy = o.strategy /\ a.blocked = o.blocked
  <2> DEFINE v(y) == [o EXCEPT !.inFlight = 0, !.delivered = d, !.failed = y]
  <2>1. ASSUME NEW y
        PROVE  /\ IsOutput(v(y)) /\ v(y).inFlight = 0 /\ v(y).delivered = d
               /\ v(y).buffer = o.buffer /\ v(y).total = o.total
               /\ v(y).strategy = o.strategy /\ v(y).blocked = o.blocked
    <3> HIDE DEF d
    <3> QED
      BY DEF OutputOk, IsOutput, OutputFields
  <2>2. a = v(o.failed \/ res < 0)
    BY DEF Taken, k
  <2> HIDE DEF v, a
  <2> QED
    BY <2>1, <2>2
<1>5. a.failed = (o.failed \/ res < 0)
  <2>1. "failed" \in DOMAIN o
    BY DEF OutputOk, IsOutput, OutputFields
  <2> QED
    BY <2>1 DEF Taken
<1>6. a.failed \in BOOLEAN
  BY <1>5
<1> HIDE DEF a, d
<1>7. OutputOk(a, C)
  <2>1. a.inFlight \in Nat /\ a.inFlight <= Backlog(a)
    BY <1>1, <1>4 DEF Backlog
  <2> QED
    BY <1>3, <1>4, <1>6, <2>1 DEF OutputOk
<1>8. CASE ~(o.blocked /\ res > 0)
  <2>1. t = a
    BY <1>4, <1>8 DEF Handled
  <2>2. res < 0 => Passing(a) = Passing(o) /\ Backlog(a) <= Backlog(o)
    <3> SUFFICES ASSUME res < 0 PROVE Passing(a) = Passing(o) /\ Backlog(a) <= Backlog(o)
      OBVIOUS
    <3>1. k = 0
      BY <1>2
    <3>2. SubSeq(r, 1, 0) = <<>> /\ o.delivered \o <<>> = o.delivered
      BY <1>1, SubSeqEmpty, ConcatEmptySeq
    <3>3. a.delivered = o.delivered
      BY <1>4, <3>1, <3>2 DEF d
    <3> QED
      BY <1>1, <1>4, <3>3 DEF Passing, Backlog
  <2>3. ~o.blocked /\ res > 0 => a.delivered = o.delivered \o SubSeq(r, 1, res)
    BY <1>2, <1>4 DEF d
  <2>4. o.blocked \/ res < 0 => res < 0
    BY <1>2, <1>8
  <2> HIDE DEF t
  <2> QED
    BY <1>4, <1>5, <1>7, <1>8, <2>1, <2>2, <2>3, <2>4 DEF t, a, r
<1>9. CASE o.blocked /\ res > 0
  <2>1. t = u
    BY <1>4, <1>9 DEF Handled
  <2>2. res \in Nat /\ res <= Len(r) /\ k = res
    BY <1>1, <1>2, <1>9
  <2>3. BufferOk(b, C) /\ Readable(b) = SubSeq(r, res + 1, Len(r))
    <3>1. BufferOk(o.buffer, C)
      BY DEF OutputOk
    <3> QED
      BY <2>2, <3>1, RetrieveIs
  <2> HIDE DEF b
  <2>4. /\ IsOutput(u) /\ u.buffer = b /\ u.delivered = d /\ u.inFlight = 0
        /\ u.total = o.total + res /\ u.strategy = o.strategy /\ u.blocked = o.blocked
        /\ u.failed = a.failed
    <3> DEFINE x == a.total + res
    <3>1. u = [a EXCEPT !.buffer = b, !.total = x]
      OBVIOUS
    <3>2. x = o.total + res
      BY <1>4
    <3> HIDE DEF u, x
    <3> QED
      BY <1>4, <3>1, <3>2 DEF IsOutput, OutputFields
  <2> HIDE DEF u
  <2>5. Passing(u) = Passing(o)
    BY <1>3, <2>2, <2>3, <2>4 DEF Passing, r
  <2>6. Backlog(u) = Len(r) - res
    <3>1. Len(SubSeq(r, res + 1, Len(r))) = Len(r) - res
      BY <1>1, <2>2, Part
    <3> QED
      BY <2>3, <2>4, <3>1 DEF Backlog
  <2>7. Backlog(u) \in Nat /\ Backlog(u) <= Backlog(o)
    BY <1>1, <2>2, <2>6
  <2>8. u.total \in Nat /\ u.blocked \in BOOLEAN /\ u.failed \in BOOLEAN
    <3>1. o.total \in Nat /\ o.blocked \in BOOLEAN
      BY DEF OutputOk
    <3> QED
      BY <1>6, <2>2, <2>4, <3>1
  <2>9. OutputOk(u, C)
    BY <1>3, <2>3, <2>4, <2>7, <2>8 DEF OutputOk
  <2> HIDE DEF t
  <2>10. u.failed = (o.failed \/ res < 0)
    BY <1>5, <2>4
  <2> QED
    BY <1>9, <2>1, <2>4, <2>5, <2>7, <2>9, <2>10 DEF t, a, r
<1> QED
  BY <1>8, <1>9

\* What the coroutine that goes on leaves: the same bytes on their way, and for a
\* sender that was blocked no more than the low mark.
LEMMA WriteResumed ==
  ASSUME NEW C, NEW o, OutputOk(o, C), NEW res \in {-1} \cup 1..Backlog(o),
         NEW t, t = Handled(Taken(o, res), res), Ready(t, res)
  PROVE  LET p == AwaitResume(t, Written(t, res))
         IN /\ OutputOk(p, C) /\ Passing(p) = Passing(o) /\ Backlog(p) <= Backlog(o)
            /\ p.inFlight = 0 /\ p.strategy = o.strategy /\ p.failed = (o.failed \/ res < 0)
            /\ o.blocked /\ ~(res < 0) => Backlog(p) <= LowWaterMark
<1> DEFINE n == Written(t, res)
           p == AwaitResume(t, n)
           b == Retrieve(t.buffer, n)
           q == [t EXCEPT !.buffer = b]
<1>1. /\ OutputOk(t, C) /\ t.inFlight = 0 /\ t.blocked = o.blocked
      /\ t.strategy = o.strategy /\ t.failed = (o.failed \/ res < 0)
      /\ o.blocked \/ res < 0 => Passing(t) = Passing(o) /\ Backlog(t) <= Backlog(o)
      /\ ~o.blocked => t.buffer = o.buffer
      /\ ~o.blocked /\ res > 0 =>
           t.delivered = o.delivered \o SubSeq(Readable(o.buffer), 1, res)
  BY WriteHandled, ZenonT(30)
<1>2. res \in Int /\ Backlog(o) \in Nat /\ (res > 0 => res \in Nat /\ res <= Backlog(o))
      /\ (~(res > 0) => res = -1)
  BY BacklogIs DEF OutputOk
<1>3. CASE o.blocked \/ res < 0
  <2>1. p = MaybeShutdownWrite(t)
    <3>1. CASE o.blocked
      BY <1>1, <3>1 DEF AwaitResume
    <3>2. CASE ~o.blocked
      <4>1. n = res /\ ~(n > 0)
        BY <1>1, <1>2, <1>3, <3>2 DEF Written
      <4> HIDE DEF n
      <4> QED
        BY <4>1 DEF AwaitResume
    <3> QED
      BY <3>1, <3>2
  <2>2. IsOutput(p) /\ SameSending(p, t)
    BY <1>1, <2>1, ClosingIs DEF OutputOk
  <2> HIDE DEF p
  <2>3. OutputOk(p, C) /\ Passing(p) = Passing(t) /\ Backlog(p) = Backlog(t)
    BY <1>1, <2>2, SameOutput
  <2>4. o.blocked /\ ~(res < 0) => Backlog(t) <= LowWaterMark
    BY <1>1, <1>2 DEF Ready
  <2>5. p.inFlight = 0 /\ p.strategy = o.strategy /\ p.failed = (o.failed \/ res < 0)
    BY <1>1, <2>2 DEF SameSending
  <2> QED
    BY <1>1, <1>3, <2>3, <2>4, <2>5 DEF p
<1>4. CASE ~o.blocked /\ res > 0
  <2> DEFINE r == Readable(o.buffer)
  <2>1. n = res
    BY <1>1, <1>4 DEF Written
  <2>2. p = MaybeShutdownWrite(q)
    BY <1>1, <1>4, <2>1 DEF AwaitResume
  <2> HIDE DEF n, p
  <2>3. BufferOk(o.buffer, C) /\ r \in Seq(C) /\ Backlog(o) = Len(r)
    BY BacklogIs DEF OutputOk
  <2>4. res \in Nat /\ res <= Len(r)
    BY <1>2, <1>4, <2>3
  <2>5. BufferOk(b, C) /\ Readable(b) = SubSeq(r, res + 1, Len(r))
    BY <1>1, <1>4, <2>1, <2>3, <2>4, RetrieveIs
  <2> HIDE DEF b
  <2>6. /\ IsOutput(q) /\ q.buffer = b /\ q.delivered = t.delivered /\ q.inFlight = t.inFlight
        /\ q.total = t.total /\ q.strategy = t.strategy /\ q.blocked = t.blocked
        /\ q.failed = t.failed
    BY <1>1 DEF OutputOk, IsOutput, OutputFields
  <2> HIDE DEF q
  <2>7. Passing(q) = Passing(o)
    <3>1. o.delivered \in Seq(C) /\ res \in 0..Len(r)
      BY <2>4 DEF OutputOk
    <3>2. (o.delivered \o SubSeq(r, 1, res)) \o SubSeq(r, res + 1, Len(r)) = o.delivered \o r
      BY <2>3, <3>1, Passed
    <3> QED
      BY <1>1, <1>4, <2>5, <2>6, <3>2 DEF Passing
  <2>8. Backlog(q) = Len(r) - res
    <3>0. Len(r) \in Nat /\ Len(r) <= Len(r)
      BY <2>3, LenProperties
    <3>1. Len(SubSeq(r, res + 1, Len(r))) = Len(r) - res
      BY <2>3, <2>4, <3>0, Part
    <3> QED
      BY <2>5, <2>6, <3>1 DEF Backlog
  <2>9. Backlog(q) \in Nat /\ Backlog(q) <= Backlog(o)
    BY <1>2, <2>3, <2>4, <2>8
  <2>10. OutputOk(q, C)
    BY <1>1, <2>5, <2>6, <2>9 DEF OutputOk
  <2>11. IsOutput(p) /\ SameSending(p, q)
    BY <2>2, <2>6, ClosingIs
  <2>12. OutputOk(p, C) /\ Passing(p) = Passing(q) /\ Backlog(p) = Backlog(q)
    BY <2>10, <2>11, SameOutput
  <2>13. p.inFlight = 0 /\ p.strategy = o.strategy /\ p.failed = (o.failed \/ res < 0)
    BY <1>1, <2>6, <2>11 DEF SameSending
  <2> QED
    BY <1>4, <2>7, <2>9, <2>12, <2>13 DEF p, n
<1>5. (o.blocked \/ res < 0) \/ (~o.blocked /\ res > 0)
  BY <1>2
<1> QED
  BY <1>3, <1>4, <1>5


\* The bytes of a stream behind message k, as far as they have come.
BehindIs(j, s, k, e, bytes) ==
  /\ bytes \in Seq(ByteSet(j)) /\ Len(bytes) = e - Off(j, k) /\ Len(bytes) \in Nat
  /\ Off(j, k) \in Nat /\ e \in Nat
  /\ \A i \in 1..Len(bytes) : bytes[i] = s[Off(j, k) + i]
  /\ k = Count(j) => Len(bytes) = 0
  /\ k < Count(j) =>
       /\ k + 1 \in 1..Count(j) /\ Len(MessageOf(j, k + 1)) \in Nat
       /\ e = Len(s) => Len(bytes) >= Len(MessageOf(j, k + 1))
       /\ \A i \in 1..Len(bytes) :
            i <= Len(MessageOf(j, k + 1)) => bytes[i] = MessageOf(j, k + 1)[i]

LEMMA Behind ==
  ASSUME NEW j, NEW s, StreamIs(j, s), NEW k \in 0..Count(j), NEW e \in Off(j, k)..Len(s)
  PROVE  BehindIs(j, s, k, e, SubSeq(s, Off(j, k) + 1, e))
<1> DEFINE a == Off(j, k)
           n == Count(j)
           q == MessageOf(j, k + 1)
           bytes == SubSeq(s, a + 1, e)
           l == Len(s)
           C == ByteSet(j)
<1>1. n \in Nat /\ a \in Nat /\ a <= l /\ l \in Nat /\ s \in Seq(C)
  BY DEF StreamIs
<1>2. Off(j, n) = l
  BY DEF StreamIs
<1> HIDE DEF a, n, l, C
<1>3. e \in Nat /\ a <= e /\ e <= l /\ k \in Nat /\ k <= n
  BY <1>1 DEF a, n, l
<1>4. bytes \in Seq(C) /\ Len(bytes) = e - a /\ \A i \in 1..(e - a) : bytes[i] = s[a + i]
  BY <1>1, <1>3, Part DEF l
<1> HIDE DEF bytes
<1>5. Len(bytes) \in Nat
  BY <1>1, <1>3, <1>4
<1>6. k = n => Len(bytes) = 0
  BY <1>1, <1>2, <1>3, <1>4 DEF a
<1>7. ASSUME k < n
      PROVE  /\ k + 1 \in 1..n /\ Len(q) \in Nat
             /\ e = l => Len(bytes) >= Len(q)
             /\ \A i \in 1..Len(bytes) : i <= Len(q) => bytes[i] = q[i]
  <2> DEFINE m == k + 1
  <2>1. m \in 1..n /\ m - 1 = k /\ m \in 0..n
    BY <1>1, <1>3, <1>7
  <2>2. /\ Len(MessageOf(j, m)) \in Nat
        /\ Off(j, m) = Off(j, m - 1) + Len(MessageOf(j, m))
        /\ \A i \in 1..Len(MessageOf(j, m)) : s[Off(j, m - 1) + i] = MessageOf(j, m)[i]
        /\ Off(j, m) <= l
    BY <2>1 DEF StreamIs, n, l
  <2>3. /\ Len(q) \in Nat /\ Off(j, m) = a + Len(q) /\ Off(j, m) <= l
        /\ \A i \in 1..Len(q) : s[a + i] = q[i]
    BY <2>1, <2>2 DEF a
  <2> HIDE DEF q
  <2>4. e = l => Len(bytes) >= Len(q)
    BY <1>1, <1>3, <1>4, <2>3
  <2>5. ASSUME NEW i \in 1..Len(bytes), i <= Len(q) PROVE bytes[i] = q[i]
    <3>1. i \in 1..Len(q) /\ i \in 1..(e - a)
      BY <1>4, <1>5, <2>3, <2>5
    <3> QED
      BY <1>4, <2>3, <3>1
  <2> QED
    BY <2>1, <2>3, <2>4, <2>5
<1> QED
  BY <1>1, <1>3, <1>4, <1>5, <1>6, <1>7 DEF a, n, l, C, bytes, BehindIs

\* An RPC reader at the start of a message finds that message, or waits for more.
LEMMA RpcDecodeIs ==
  ASSUME NEW j, JobOk(j), j.decoder = "rpc", NEW s, s = Sent(j),
         NEW k \in 0..Count(j), NEW e \in Off(j, k)..Len(s)
  PROVE  LET bytes == SubSeq(s, Off(j, k) + 1, e)
             r == RpcDecode(bytes)
             m == j.messages[k + 1]
         IN /\ ResultOk(r, bytes, FALSE)
            /\ r.status = "complete" =>
                 /\ k < Count(j) /\ r.used = Len(MessageOf(j, k + 1))
                 /\ ~(Len(m.payload) > KMaxMessageLength) /\ r.head = m
            /\ r.status = "error" =>
                 k < Count(j) /\ Len(m.payload) > KMaxMessageLength /\ r.error = "decode"
            /\ r.status = "needMore" /\ e = Len(s) => k = Count(j)
<1> DEFINE bytes == SubSeq(s, Off(j, k) + 1, e)
           r == RpcDecode(bytes)
           m == j.messages[k + 1]
           q == MessageOf(j, k + 1)
           n == Count(j)
           l == Len(m.payload)
           C == ByteSet(j)
           num == bytes[1].num
           total == 3 + num
           it == [type |-> bytes[2].num, id |-> bytes[3].num, payload |-> SubSeq(bytes, 3 + 1, total)]
<1>0. StreamIs(j, s)
  BY SentIs
<1>1. /\ bytes \in Seq(C) /\ Len(bytes) \in Nat /\ n \in Nat
      /\ k = n => Len(bytes) = 0
      /\ k < n =>
           /\ k + 1 \in 1..n /\ Len(q) \in Nat
           /\ e = Len(s) => Len(bytes) >= Len(q)
           /\ \A i \in 1..Len(bytes) : i <= Len(q) => bytes[i] = q[i]
  <2>1. BehindIs(j, s, k, e, bytes)
    BY <1>0, Behind
  <2> HIDE DEF bytes
  <2> QED
    BY <1>0, <2>1 DEF StreamIs, BehindIs
<1>2. r = IF Len(bytes) < 3 THEN Incomplete
          ELSE IF num > KMaxMessageLength THEN DecodeError
          ELSE IF Len(bytes) < total THEN Incomplete
          ELSE Complete(it, total)
  BY DEF RpcDecode, KHeaderLength
<1> HIDE DEF bytes, r, q
<1>3. k \in Nat /\ (k = n \/ k < n)
  BY <1>1
<1>4. CASE k = n
  <2>1. r = Incomplete
    BY <1>1, <1>2, <1>4
  <2> QED
    BY <1>4, <2>1 DEF ResultOk, Incomplete, r, bytes
<1>5. CASE k < n
  <2>1. MessageOk("rpc", m)
    BY <1>1, <1>5, MessageOfIs
  <2>2. /\ l \in Nat /\ IsSeq(q) /\ Len(q) = 3 + l
        /\ q[1].num = l /\ q[2].num = m.type /\ q[3].num = m.id
        /\ \A i \in 1..l : q[3 + i] = m.payload[i]
        /\ IsSeq(m.payload) /\ m = [type |-> m.type, id |-> m.id, payload |-> m.payload]
    BY <2>1, RpcBytes DEF q, MessageOf
  <2> HIDE DEF m, l, n
  <2>3. CASE Len(bytes) < 3
    <3>1. r = Incomplete
      BY <1>2, <2>3
    <3>2. ~(e = Len(s))
      BY <1>1, <1>5, <2>2, <2>3
    <3> QED
      BY <3>1, <3>2 DEF ResultOk, Incomplete, r, bytes
  <2>4. CASE ~(Len(bytes) < 3)
    <3>1. \A i \in {1, 2, 3} : i \in 1..Len(bytes) /\ i <= Len(q)
      BY <1>1, <2>2, <2>4
    <3>2. num = l /\ bytes[2].num = m.type /\ bytes[3].num = m.id
      BY <1>1, <1>5, <2>2, <3>1
    <3> HIDE DEF num
    <3>3. CASE num > KMaxMessageLength
      <4>1. r = DecodeError
        BY <1>2, <2>4, <3>3
      <4> QED
        BY <1>5, <3>2, <3>3, <4>1 DEF ResultOk, DecodeError, r, bytes, m, l, n
    <3>4. CASE ~(num > KMaxMessageLength) /\ Len(bytes) < total
      <4>1. r = Incomplete
        BY <1>2, <2>4, <3>4
      <4>2. ~(e = Len(s))
        BY <1>1, <1>5, <2>2, <3>2, <3>4
      <4> QED
        BY <4>1, <4>2 DEF ResultOk, Incomplete, r, bytes
    <3>5. CASE ~(num > KMaxMessageLength) /\ ~(Len(bytes) < total)
      <4> DEFINE p == SubSeq(bytes, 3 + 1, total)
      <4>1. r = Complete(it, total)
        BY <1>2, <2>4, <3>5
      <4>2. total \in Nat /\ total = 3 + l /\ total = Len(q) /\ 3 <= total /\ total <= Len(bytes)
        BY <1>1, <2>2, <3>2, <3>5
      <4>3. p \in Seq(C) /\ Len(p) = total - 3 /\ \A i \in 1..(total - 3) : p[i] = bytes[3 + i]
        <5> HIDE DEF total
        <5> QED
          BY <1>1, <4>2, Part
      <4>4. total - 3 = l
        BY <2>2, <4>2
      <4> HIDE DEF p
      <4>5. p = m.payload
        <5>1. \A i \in 1..l : p[i] = m.payload[i]
          <6> TAKE i \in 1..l
          <6>1. 3 + i \in 1..Len(bytes) /\ 3 + i <= Len(q)
            BY <1>1, <2>2, <4>2
          <6>2. bytes[3 + i] = q[3 + i]
            BY <1>1, <1>5, <6>1
          <6> QED
            BY <2>2, <4>3, <4>4, <6>2
        <5>2. p = [i \in 1..l |-> p[i]]
          BY <4>3, <4>4, LenProperties
        <5>3. m.payload = [i \in 1..l |-> m.payload[i]]
          BY <2>2 DEF IsSeq, l
        <5> QED
          BY <5>1, <5>2, <5>3
      <4>6. it = m
        <5>1. it = [type |-> bytes[2].num, id |-> bytes[3].num, payload |-> p]
          BY DEF p
        <5> QED
          BY <2>2, <3>2, <4>5, <5>1
      <4> HIDE DEF it, total
      <4>7. r.status = "complete" /\ r.used = total /\ r.head = it
        BY <4>1 DEF Complete
      <4>8. ~(Len(m.payload) > KMaxMessageLength)
        BY <3>2, <3>5 DEF l
      <4> QED
        BY <1>5, <4>2, <4>6, <4>7, <4>8 DEF ResultOk, r, bytes, q, m, n
    <3> QED
      BY <3>3, <3>4, <3>5
  <2> QED
    BY <2>3, <2>4
<1> QED
  BY <1>3, <1>4, <1>5

----------------------------------------------------------------------------
(* The answers of the service *)

AnswerTo(keep) == Answer([keepAlive |-> keep])
AnswerSet == UNION {{AnswerTo(keep)[i] : i \in 1..Len(AnswerTo(keep))} : keep \in BOOLEAN}

LEMMA AnswerIs ==
  ASSUME NEW head, head.keepAlive \in BOOLEAN
  PROVE  Answer(head) \in Seq(AnswerSet) /\ Len(Answer(head)) = 18
<1> DEFINE keep == head.keepAlive
           m == [body |-> <<[is |-> "x"]>>]
           names == <<"content-type", "content-length", "access-control-allow-origin">>
           hs == [i \in DOMAIN names |-> FieldHeader(names[i], m)]
           c == ConnectionHeader(keep)
           s == [is |-> "start", words |-> <<"HTTP/1.1", <<2, 0, 0>>, "reason">>]
           p == HeadBytes(s, Append(hs, c))
           q == p \o m.body
<1>1. Answer(head) = q /\ AnswerTo(keep) = q
  BY DEF Answer, AnswerTo, BuildHttpResponse, ResponseBytes, FieldHeader
<1>2. IsSeq(hs) /\ Len(hs) = 3 /\ IsSeq(m.body) /\ Len(m.body) = 1
  BY DEF IsSeq
<1> HIDE DEF hs, c, s, m
<1> DEFINE h == Append(hs, c)
<1>3. IsSeq(h) /\ Len(h) = 4
  <2>1. IsSeq(h) /\ Len(h) = Len(hs) + 1
    BY <1>2, AppendAny
  <2> HIDE DEF h
  <2> QED
    BY <1>2, <2>1
<1> HIDE DEF h
<1> DEFINE C == {CR, LF, s} \cup {h[i] : i \in 1..Len(h)} \cup {m.body[i] : i \in 1..Len(m.body)}
<1>4. CR \in C /\ LF \in C /\ s \in C /\ h \in Seq(C) /\ m.body \in Seq(C)
  <2>1. (\A i \in 1..Len(h) : h[i] \in C) /\ \A i \in 1..Len(m.body) : m.body[i] \in C
    OBVIOUS
  <2>2. CR \in C /\ LF \in C /\ s \in C
    OBVIOUS
  <2> HIDE DEF C
  <2> QED
    BY <1>2, <1>3, <2>1, <2>2, SeqOver
<1> HIDE DEF C
<1>5. p \in Seq(C) /\ Len(p) = 17
  <2>1. HeadBytes(s, h) \in Seq(C) /\ Len(HeadBytes(s, h)) = 3 * Len(h) + 5
    BY <1>4, HeadBytesAre
  <2>2. p = HeadBytes(s, h)
    BY DEF h
  <2> HIDE DEF p
  <2> QED
    BY <1>3, <2>1, <2>2
<1> HIDE DEF p
<1>6. q \in Seq(C) /\ Len(q) = 18
  <2> DEFINE b == m.body
  <2>1. q = p \o b /\ b \in Seq(C) /\ Len(b) = 1
    BY <1>2, <1>4
  <2> HIDE DEF q, b
  <2>2. Concats(q, p, b, C)
    BY <1>5, <2>1, ConcatCells
  <2> QED
    BY <1>5, <2>1, <2>2 DEF Concats
<1>7. IsSeq(q)
  BY <1>6, LenProperties DEF IsSeq
<1>8. \A i \in 1..Len(q) : q[i] \in AnswerSet
  <2> HIDE DEF q
  <2> QED
    BY <1>1 DEF AnswerSet
<1> HIDE DEF q
<1>9. q \in Seq(AnswerSet)
  BY <1>7, <1>8, SeqOver
<1> QED
  BY <1>1, <1>6, <1>9

----------------------------------------------------------------------------
(* Heads that are found in bytes *)

\* A list of a set's numbers from the smallest to the largest is the sorted one.
LEMMA SortedIs ==
  ASSUME NEW S \in SUBSET Int, NEW n \in Nat, NEW q \in [1..n -> S],
         \A e \in S : \E k \in 1..n : q[k] = e,
         \A i, j \in 1..n : i < j => q[i] < q[j]
  PROVE  Sorted(S, <) = q /\ IsFiniteSet(S) /\ Cardinality(S) = n
<1> DEFINE at == Sorted(S, <)
<1>1. IsFiniteSet(1..n) /\ Cardinality(1..n) = n
  <2>1. IsFiniteSet(1..n) /\ Cardinality(1..n) = IF 1 > n THEN 0 ELSE n - 1 + 1
    BY FS_Interval
  <2> QED
    BY <2>1
<1>2. IsFiniteSet(S) /\ Cardinality(S) = n
  <2>1. \A i, j \in 1..n : q[i] = q[j] => i = j
    <3> SUFFICES ASSUME NEW i \in 1..n, NEW j \in 1..n, q[i] = q[j], i # j PROVE FALSE
      OBVIOUS
    <3>0. i < j \/ j < i
      OBVIOUS
    <3>1. q[i] \in Int /\ q[j] \in Int /\ (i < j \/ j < i)
      BY <3>0
    <3>2. q[i] < q[j] \/ q[j] < q[i]
      BY <3>1
    <3> QED
      BY <3>1, <3>2
  <2>2. q \in Injection(1..n, S) /\ q \in Surjection(1..n, S)
    BY <2>1 DEF Injection, Surjection, IsInjective
  <2>3. ExistsBijection(1..n, S)
    BY <2>2 DEF ExistsBijection, Bijection
  <2> QED
    BY <1>1, <2>3, FS_Bijection
<1>3. /\ at \in [1..n -> S]
      /\ \A e \in S : \E k \in 1..n : at[k] = e
      /\ \A i, j \in 1..n : i < j <=> at[i] < at[j]
  BY <1>2, SortedNumbers
<1> HIDE DEF at
<1>4. \A k \in 1..n : at[k] = q[k]
  <2> DEFINE T == {k \in 1..n : at[k] # q[k]}
  <2> SUFFICES ASSUME T # {} PROVE FALSE
    OBVIOUS
  <2>1. PICK k \in T : \A m \in T : k <= m
    <3>1. T \in SUBSET Nat
      OBVIOUS
    <3> QED
      BY <3>1, LeastNumber
  <2>2. at[k] \in S /\ q[k] \in S /\ at[k] \in Int /\ q[k] \in Int /\ k \in 1..n
    BY <1>3
  <2>3. PICK j \in 1..n : q[j] = at[k]
    BY <2>2
  <2>4. PICK l \in 1..n : at[l] = q[k]
    BY <1>3, <2>2
  <2>5. j # k /\ l # k /\ ~(j < k) /\ ~(l < k)
    <3>1. j < k => at[j] = q[j]
      BY <2>1
    <3>2. l < k => at[l] = q[l]
      BY <2>1
    <3>3. j < k => at[j] < at[k]
      BY <1>3, <2>2
    <3>4. l < k => q[l] < q[k]
      BY <2>2
    <3> QED
      BY <2>1, <2>2, <2>3, <2>4, <3>1, <3>2, <3>3, <3>4
  <2>6. k < j /\ k < l
    BY <2>2, <2>5
  <2>7. q[k] < q[j] /\ at[k] < at[l]
    BY <1>3, <2>2, <2>6
  <2> QED
    BY <2>2, <2>3, <2>4, <2>7
<1>5. at = q
  BY <1>3, <1>4
<1> QED
  BY <1>2, <1>5 DEF at

\* Bytes that begin like a head of n header lines, as far as they go.
HeadPart(bytes, start, hs, n) ==
  /\ n \in Nat /\ Len(bytes) \in Nat /\ start.is = "start"
  /\ \A j \in 1..n : hs[j].is \in {"header", "malformed"}
  /\ 1 <= Len(bytes) => bytes[1] = start
  /\ \A j \in 0..n : 3 * j + 2 <= Len(bytes) => bytes[3 * j + 2] = CR
  /\ \A j \in 0..n : 3 * j + 3 <= Len(bytes) => bytes[3 * j + 3] = LF
  /\ \A j \in 1..n : 3 * j + 1 <= Len(bytes) => bytes[3 * j + 1] = hs[j]
  /\ 3 * n + 4 <= Len(bytes) => bytes[3 * n + 4] = CR
  /\ 3 * n + 5 <= Len(bytes) => bytes[3 * n + 5] = LF

\* Lines are three bytes long.
LEMMA Thirds ==
  ASSUME NEW i \in Nat, i >= 1
  PROVE  \E j \in Nat : i = 3 * j + 1 \/ i = 3 * j + 2 \/ i = 3 * j + 3
<1> DEFINE j == (i - 1) \div 3
<1>1. j \in Nat /\ (i - 1 = 3 * j \/ i - 1 = 3 * j + 1 \/ i - 1 = 3 * j + 2)
  OBVIOUS
<1> HIDE DEF j
<1>2. i = 3 * j + 1 \/ i = 3 * j + 2 \/ i = 3 * j + 3
  BY <1>1
<1> QED
  BY <1>1, <1>2

\* Where the lines of a head end.
LEMMA HeadCrlf ==
  ASSUME NEW bytes, NEW start, NEW hs, NEW n, HeadPart(bytes, start, hs, n),
         NEW i \in Nat, i <= 3 * n + 4
  PROVE  IsCrlf(bytes, i) <=> i < Len(bytes) /\ (i = 3 * n + 4 \/ \E j \in 0..n : i = 3 * j + 2)
<1>0. n \in Nat /\ Len(bytes) \in Nat
  BY DEF HeadPart
<1>1. ASSUME NEW j \in 0..n, i = 3 * j + 2, i < Len(bytes) PROVE IsCrlf(bytes, i)
  <2>1. i + 1 = 3 * j + 3 /\ i + 1 <= Len(bytes) /\ i <= Len(bytes) /\ i >= 1
    BY <1>0, <1>1
  <2>2. bytes[i] = CR /\ bytes[i + 1] = LF
    BY <1>1, <2>1 DEF HeadPart
  <2> QED
    BY <1>1, <2>1, <2>2 DEF IsCrlf, CR, LF
<1>2. ASSUME i = 3 * n + 4, i < Len(bytes) PROVE IsCrlf(bytes, i)
  <2>1. i + 1 = 3 * n + 5 /\ i + 1 <= Len(bytes) /\ i <= Len(bytes) /\ i >= 1
    BY <1>0, <1>2
  <2>2. bytes[i] = CR /\ bytes[i + 1] = LF
    BY <1>2, <2>1 DEF HeadPart
  <2> QED
    BY <1>2, <2>1, <2>2 DEF IsCrlf, CR, LF
<1>3. ASSUME IsCrlf(bytes, i), i # 3 * n + 4, ~\E j \in 0..n : i = 3 * j + 2 PROVE FALSE
  <2>1. i >= 1 /\ i < Len(bytes) /\ bytes[i].is = "CR"
    BY <1>3 DEF IsCrlf
  <2>2. PICK j \in Nat : i = 3 * j + 1 \/ i = 3 * j + 2 \/ i = 3 * j + 3
    BY <2>1, Thirds
  <2>3. CASE i = 3 * j + 2
    BY <1>0, <1>3, <2>3
  <2>4. CASE i = 3 * j + 3
    <3>1. j \in 0..n /\ 3 * j + 3 <= Len(bytes)
      BY <1>0, <2>1, <2>4
    <3>2. bytes[i] = LF
      BY <2>4, <3>1 DEF HeadPart
    <3> QED
      BY <2>1, <3>2 DEF LF
  <2>5. CASE i = 3 * j + 1
    <3>1. CASE j = 0
      <4>1. i = 1 /\ 1 <= Len(bytes)
        BY <2>1, <2>5, <3>1, <1>0
      <4>2. bytes[i] = start /\ start.is = "start"
        BY <4>1 DEF HeadPart
      <4> QED
        BY <2>1, <4>2
    <3>2. CASE j # 0
      <4>1. j \in 1..n /\ 3 * j + 1 <= Len(bytes)
        BY <1>0, <1>3, <2>1, <2>5, <3>2
      <4>2. bytes[i] = hs[j] /\ hs[j].is \in {"header", "malformed"}
        BY <2>5, <4>1 DEF HeadPart
      <4> QED
        BY <2>1, <4>2
    <3> QED
      BY <3>1, <3>2
  <2> QED
    BY <2>2, <2>3, <2>4, <2>5
<1>4. IsCrlf(bytes, i) => i < Len(bytes)
  BY DEF IsCrlf
<1> QED
  BY <1>1, <1>2, <1>3, <1>4

\* The end of a head is found when it is there, and not before.
LEMMA HeadSize ==
  ASSUME NEW U, NEW bytes \in Seq(U), NEW start, NEW hs, NEW n, HeadPart(bytes, start, hs, n)
  PROVE  FindHeaderBytes(bytes) = IF Len(bytes) >= 3 * n + 5 THEN 3 * n + 5 ELSE 0
<1> DEFINE e == EndOfHead(bytes)
           size == FindHeaderBytes(bytes)
<1>0. n \in Nat /\ Len(bytes) \in Nat
  BY DEF HeadPart
<1>1. /\ size = (IF e = 0 THEN 0 ELSE e + 3)
      /\ e \in Nat /\ size \in 0..Len(bytes)
      /\ e # 0 => IsCrlf(bytes, e) /\ IsCrlf(bytes, e + 2)
      /\ \A i \in Nat : IsCrlf(bytes, i) /\ IsCrlf(bytes, i + 2) => e # 0 /\ e <= i
  BY HeadEnds
<1> HIDE DEF e, size
<1>2. ASSUME e # 0, e <= 3 * n + 2 PROVE e = 3 * n + 2
  <2>1. e \in Nat /\ e <= 3 * n + 4 /\ e + 2 \in Nat /\ e + 2 <= 3 * n + 4
    BY <1>0, <1>1, <1>2
  <2>2. e = 3 * n + 4 \/ \E j \in 0..n : e = 3 * j + 2
    BY <1>1, <1>2, <2>1, HeadCrlf
  <2>3. PICK j \in 0..n : e = 3 * j + 2
    BY <1>0, <1>2, <2>1, <2>2
  <2>4. e + 2 = 3 * n + 4 \/ \E k \in 0..n : e + 2 = 3 * k + 2
    BY <1>1, <1>2, <2>1, HeadCrlf
  <2>5. ~\E k \in 0..n : e + 2 = 3 * k + 2
    BY <1>0, <2>3
  <2> QED
    BY <1>0, <2>1, <2>4, <2>5
<1>3. CASE Len(bytes) >= 3 * n + 5
  <2> DEFINE i == 3 * n + 2
  <2>1. i \in Nat /\ i <= 3 * n + 4 /\ i < Len(bytes) /\ n \in 0..n
    BY <1>0, <1>3
  <2>2. i + 2 = 3 * n + 4 /\ i + 2 \in Nat /\ i + 2 < Len(bytes) /\ i + 2 <= 3 * n + 4
    BY <1>0, <1>3
  <2> HIDE DEF i
  <2>3. IsCrlf(bytes, i) /\ IsCrlf(bytes, i + 2)
    BY <2>1, <2>2, HeadCrlf DEF i
  <2>4. e # 0 /\ e <= i
    BY <1>1, <2>1, <2>3
  <2>5. e = 3 * n + 2
    BY <1>2, <2>4 DEF i
  <2>6. size = 3 * n + 5
    BY <1>0, <1>1, <2>4, <2>5
  <2> QED
    BY <1>3, <2>6 DEF size
<1>4. CASE ~(Len(bytes) >= 3 * n + 5)
  <2>1. ASSUME e # 0 PROVE FALSE
    <3>1. e + 3 <= Len(bytes) /\ e <= 3 * n + 2
      BY <1>0, <1>1, <1>4, <2>1
    <3>2. e = 3 * n + 2
      BY <1>2, <2>1, <3>1
    <3> QED
      BY <1>0, <1>4, <3>1, <3>2
  <2>2. size = 0
    BY <1>1, <2>1
  <2> QED
    BY <1>4, <2>2 DEF size
<1> QED
  BY <1>3, <1>4

\* The lines of a head, the first and those of its headers.
HeadLines(start, hs, n) == [k \in 1..(n + 1) |-> IF k = 1 THEN <<start>> ELSE <<hs[k - 1]>>]

\* A part of one element.
LEMMA OneByte ==
  ASSUME NEW U, NEW block \in Seq(U), NEW i \in 1..Len(block)
  PROVE  SubSeq(block, i, i) = <<block[i]>>
<1> DEFINE q == SubSeq(block, i, i)
<1>1. Len(block) \in Nat /\ i \in Nat /\ i - 1 \in Nat /\ i - 1 <= i /\ i <= Len(block)
      /\ (i - 1) + 1 = i /\ i - (i - 1) = 1
  BY LenProperties
<1>2. q \in Seq(U) /\ Len(q) = 1 /\ q[1] = block[i]
  <2> DEFINE a == i - 1
  <2>0. a \in Nat /\ a <= i /\ i \in Nat /\ i <= Len(block) /\ a + 1 = i /\ i - a = 1
    BY <1>1
  <2> HIDE DEF a
  <2> DEFINE z == SubSeq(block, a + 1, i)
  <2>1. z \in Seq(U) /\ Len(z) = i - a /\ \A c \in 1..(i - a) : z[c] = block[a + c]
    BY <2>0, Part
  <2>2. z = q
    BY <2>0
  <2> HIDE DEF q, z
  <2>3. 1 \in 1..(i - a)
    BY <2>0
  <2>4. z[1] = block[a + 1]
    BY <2>1, <2>3
  <2> QED
    BY <2>0, <2>1, <2>2, <2>4
<1>3. block[i] \in U
  BY ElementOfSeq
<1> HIDE DEF q
<1>4. q = <<block[i]>>
  <2> DEFINE p == <<block[i]>>
  <2>1. p \in Seq(U) /\ Len(p) = 1 /\ p[1] = block[i]
    BY <1>3
  <2> HIDE DEF p
  <2>2. \A c \in 1..1 : q[c] = p[c]
    BY <1>2, <2>1
  <2> QED
    BY <1>2, <2>1, <2>2, SameSequence DEF p
<1> QED
  BY <1>4 DEF q

\* Where the lines of a whole head end.
LEMMA HeadLineEnds ==
  ASSUME NEW U, NEW block \in Seq(U), NEW start, NEW hs, NEW n,
         HeadPart(block, start, hs, n), Len(block) = 3 * n + 5
  PROVE  LET q == [k \in 1..(n + 2) |-> IF k = n + 2 THEN 3 * n + 4 ELSE 3 * (k - 1) + 2]
         IN Sorted(LineEnds(block), <) = q /\ Cardinality(LineEnds(block)) = n + 2
<1> DEFINE S == LineEnds(block)
           q == [k \in 1..(n + 2) |-> IF k = n + 2 THEN 3 * n + 4 ELSE 3 * (k - 1) + 2]
<1>1. n \in Nat /\ n + 2 \in Nat
  BY DEF HeadPart
<1>2. S \in SUBSET Nat /\ DOMAIN block = 1..Len(block) /\ \A i \in S : i >= 1 /\ i < Len(block)
  BY LineEndsAre
<1>3. \A i \in Nat : i \in S <=> i = 3 * n + 4 \/ \E j \in 0..n : i = 3 * j + 2
  <2> SUFFICES ASSUME NEW i \in Nat
               PROVE  i \in S <=> i = 3 * n + 4 \/ \E j \in 0..n : i = 3 * j + 2
    OBVIOUS
  <2>1. ASSUME i \in S PROVE i = 3 * n + 4 \/ \E j \in 0..n : i = 3 * j + 2
    <3>1. IsCrlf(block, i) /\ i < Len(block)
      BY <1>2, <2>1 DEF LineEnds
    <3>2. i <= 3 * n + 4
      BY <1>1, <3>1
    <3> QED
      BY <3>1, <3>2, HeadCrlf
  <2>2. ASSUME i = 3 * n + 4 \/ \E j \in 0..n : i = 3 * j + 2 PROVE i \in S
    <3>1. i <= 3 * n + 4 /\ i < Len(block) /\ i \in 1..Len(block)
      BY <1>1, <2>2
    <3>2. IsCrlf(block, i)
      BY <2>2, <3>1, HeadCrlf
    <3> QED
      BY <1>2, <3>1, <3>2 DEF LineEnds
  <2> QED
    BY <2>1, <2>2
<1> HIDE DEF S
<1>4. \A k \in 1..(n + 2) : q[k] = (IF k = n + 2 THEN 3 * n + 4 ELSE 3 * (k - 1) + 2)
  OBVIOUS
<1>5. \A k \in 1..(n + 2) : q[k] \in S
  <2> SUFFICES ASSUME NEW k \in 1..(n + 2) PROVE q[k] \in S
    OBVIOUS
  <2> HIDE DEF q
  <2>1. CASE k = n + 2
    BY <1>1, <1>3, <1>4, <2>1
  <2>2. CASE k # n + 2
    <3> DEFINE j == k - 1
    <3>1. j \in 0..n /\ q[k] = 3 * j + 2
      BY <1>1, <1>4, <2>2
    <3>2. 3 * j + 2 \in Nat
      BY <1>1, <3>1
    <3> HIDE DEF j
    <3> QED
      BY <1>3, <3>1, <3>2
  <2> QED
    BY <2>1, <2>2
<1>6. q \in [1..(n + 2) -> S]
  BY <1>5
<1>7. \A e \in S : \E k \in 1..(n + 2) : q[k] = e
  <2> SUFFICES ASSUME NEW e \in S PROVE \E k \in 1..(n + 2) : q[k] = e
    OBVIOUS
  <2> HIDE DEF q
  <2>1. CASE e = 3 * n + 4
    <3>1. n + 2 \in 1..(n + 2)
      BY <1>1
    <3> QED
      BY <1>4, <2>1, <3>1
  <2>2. CASE e # 3 * n + 4
    <3>1. PICK j \in 0..n : e = 3 * j + 2
      BY <1>2, <1>3, <2>2
    <3>2. j + 1 \in 1..(n + 2) /\ j + 1 # n + 2 /\ (j + 1) - 1 = j
      BY <1>1
    <3>3. q[j + 1] = 3 * ((j + 1) - 1) + 2
      BY <1>4, <3>2
    <3> QED
      BY <3>1, <3>2, <3>3
  <2> QED
    BY <2>1, <2>2
<1>8. \A i, j \in 1..(n + 2) : i < j => q[i] < q[j]
  <2> SUFFICES ASSUME NEW i \in 1..(n + 2), NEW j \in 1..(n + 2), i < j PROVE q[i] < q[j]
    OBVIOUS
  <2> HIDE DEF q
  <2>1. q[i] = 3 * (i - 1) + 2
    BY <1>1, <1>4
  <2>2. q[j] = IF j = n + 2 THEN 3 * n + 4 ELSE 3 * (j - 1) + 2
    BY <1>4
  <2> QED
    BY <1>1, <2>1, <2>2
<1> HIDE DEF q
<1>9. S \in SUBSET Int
  BY <1>2
<1>10. Sorted(S, <) = q /\ Cardinality(S) = n + 2
  BY <1>1, <1>6, <1>7, <1>8, <1>9, SortedIs
<1> QED
  BY <1>10 DEF q, S

\* The lines of a whole head are those it was made of.
LEMMA HeadLinesFound ==
  ASSUME NEW U, NEW bytes \in Seq(U), NEW start, NEW hs, NEW n,
         HeadPart(bytes, start, hs, n), Len(bytes) >= 3 * n + 5
  PROVE  Lines(SubSeq(bytes, 1, 3 * n + 5)) = HeadLines(start, hs, n)
<1> DEFINE m == 3 * n + 5
           block == SubSeq(bytes, 1, m)
           q == [k \in 1..(n + 2) |-> IF k = n + 2 THEN 3 * n + 4 ELSE 3 * (k - 1) + 2]
<1>1. n \in Nat /\ m \in 0..Len(bytes) /\ Len(bytes) \in Nat
  BY DEF HeadPart
<1>2. block \in Seq(U) /\ Len(block) = m /\ \A i \in 1..m : block[i] = bytes[i]
  <2> HIDE DEF m
  <2> QED
    BY <1>1, FirstPart
<1> HIDE DEF block
<1>3. HeadPart(block, start, hs, n)
  <2>1. 1 <= m /\ \A j \in 0..n : 3 * j + 2 \in 1..m /\ 3 * j + 3 \in 1..m
    BY <1>1
  <2>2. \A j \in 1..n : 3 * j + 1 \in 1..m
    BY <1>1
  <2>3. 3 * n + 4 \in 1..m /\ 3 * n + 5 \in 1..m /\ m \in Nat /\ 1 \in 1..m
    BY <1>1
  <2>4. \A i \in 1..m : i <= Len(bytes)
    BY <1>1
  <2> HIDE DEF m
  <2>5. block[1] = start
    BY <1>2, <2>3, <2>4 DEF HeadPart
  <2>6. \A j \in 0..n : block[3 * j + 2] = CR /\ block[3 * j + 3] = LF
    BY <1>2, <2>1, <2>4 DEF HeadPart
  <2>7. \A j \in 1..n : block[3 * j + 1] = hs[j]
    BY <1>2, <2>2, <2>4 DEF HeadPart
  <2>8. block[3 * n + 4] = CR /\ block[3 * n + 5] = LF
    BY <1>2, <2>3, <2>4 DEF HeadPart
  <2>9. n \in Nat /\ start.is = "start" /\ \A j \in 1..n : hs[j].is \in {"header", "malformed"}
    BY DEF HeadPart
  <2> QED
    BY <1>2, <2>3, <2>5, <2>6, <2>7, <2>8, <2>9 DEF HeadPart
<1>4. Sorted(LineEnds(block), <) = q /\ Cardinality(LineEnds(block)) = n + 2
  BY <1>2, <1>3, HeadLineEnds
<1> DEFINE first(k) == IF k = 1 THEN 1 ELSE q[k - 1] + 2
           ls == [k \in 1..(n + 1) |-> SubSeq(block, first(k), q[k] - 1)]
<1>5. Lines(block) = ls
  <2> DEFINE c == Cardinality(LineEnds(block))
             at == Sorted(LineEnds(block), <)
  <2>1. Lines(block) = [k \in 1..c - 1 |->
          SubSeq(block, IF k = 1 THEN 1 ELSE at[k - 1] + 2, at[k] - 1)]
    BY <1>2, LinesAre
  <2> HIDE DEF q
  <2>2. at = q /\ c = n + 2
    BY <1>4
  <2> HIDE DEF c, at
  <2>3. c - 1 = n + 1
    BY <1>1, <2>2
  <2> QED
    BY <2>1, <2>2, <2>3
<1>6. ASSUME NEW k \in 1..(n + 1)
      PROVE  SubSeq(block, first(k), q[k] - 1) = IF k = 1 THEN <<start>> ELSE <<hs[k - 1]>>
  <2> DEFINE i == 3 * (k - 1) + 1
  <2>1. q[k] = 3 * (k - 1) + 2
    BY <1>1
  <2>2. k # 1 => q[k - 1] = 3 * (k - 2) + 2
    BY <1>1
  <2>3. first(k) = i /\ q[k] - 1 = i /\ i \in 1..Len(block) /\ i <= Len(block)
    <3> HIDE DEF q
    <3> QED
      BY <1>1, <1>2, <2>1, <2>2
  <2>4. block[i] = IF k = 1 THEN start ELSE hs[k - 1]
    <3>1. CASE k = 1
      BY <1>1, <1>3, <2>3, <3>1 DEF HeadPart
    <3>2. CASE k # 1
      <4> DEFINE j == k - 1
      <4>1. j \in 1..n /\ i = 3 * j + 1
        BY <1>1, <3>2
      <4> HIDE DEF i, j
      <4>2. block[i] = hs[j]
        BY <1>3, <2>3, <4>1 DEF HeadPart
      <4> QED
        BY <3>2, <4>2 DEF j
    <3> QED
      BY <3>1, <3>2
  <2> HIDE DEF i, q, first
  <2>5. SubSeq(block, i, i) = <<block[i]>>
    BY <1>2, <2>3, OneByte
  <2>6. SubSeq(block, first(k), q[k] - 1) = SubSeq(block, i, i)
    BY <2>3
  <2>7. SubSeq(block, first(k), q[k] - 1) = <<block[i]>>
    BY <2>5, <2>6, Zenon
  <2> QED
    BY <2>4, <2>7
<1> HIDE DEF q, first
<1>7. ls = HeadLines(start, hs, n)
  BY <1>6 DEF HeadLines
<1> QED
  BY <1>5, <1>7 DEF block, m

\* A head that is all there passes on its lines, one that is not needs more, and one
\* that is larger than the limit is refused as soon as that much of it is there.
LEMMA ParseHeadFinds ==
  ASSUME NEW U, NEW bytes \in Seq(U), NEW start, NEW hs, NEW n,
         HeadPart(bytes, start, hs, n), NEW limits, limits.header \in Nat
  PROVE  ParseHead(bytes, limits) =
           IF Len(bytes) < 3 * n + 5 /\ Len(bytes) < limits.header THEN NeedMore
           ELSE IF Len(bytes) < 3 * n + 5 \/ 3 * n + 5 > limits.header
           THEN ParseError("headerTooLarge")
           ELSE [status |-> "lines", lines |-> HeadLines(start, hs, n), size |-> 3 * n + 5]
<1> DEFINE size == FindHeaderBytes(bytes)
           lines == Lines(SubSeq(bytes, 1, size))
           r == ParseHead(bytes, limits)
<1>1. n \in Nat /\ Len(bytes) \in Nat /\ start.is = "start"
  BY DEF HeadPart
<1>2. size = IF Len(bytes) >= 3 * n + 5 THEN 3 * n + 5 ELSE 0
  BY HeadSize
<1>3. r = IF size = 0 /\ Len(bytes) < limits.header THEN NeedMore
          ELSE IF size = 0 \/ size > limits.header THEN ParseError("headerTooLarge")
          ELSE IF Len(lines[1]) # 1 \/ lines[1][1].is # "start" THEN ParseError("badSyntax")
          ELSE [status |-> "lines", lines |-> lines, size |-> size]
  BY DEF ParseHead
<1> HIDE DEF r, size
<1>4. CASE Len(bytes) < 3 * n + 5
  <2>1. size = 0
    BY <1>1, <1>2, <1>4
  <2> HIDE DEF lines
  <2> QED
    BY <1>3, <1>4, <2>1 DEF r
<1>5. CASE ~(Len(bytes) < 3 * n + 5)
  <2>1. size = 3 * n + 5 /\ size # 0 /\ Len(bytes) >= 3 * n + 5
    BY <1>1, <1>2, <1>5
  <2>2. lines = HeadLines(start, hs, n)
    BY <2>1, HeadLinesFound
  <2>3. lines[1] = <<start>>
    <3>1. 1 \in 1..(n + 1)
      BY <1>1
    <3> HIDE DEF lines
    <3> QED
      BY <2>2, <3>1 DEF HeadLines
  <2> HIDE DEF lines
  <2>4. Len(lines[1]) = 1 /\ lines[1][1].is = "start"
    BY <1>1, <2>3
  <2>5. r = IF 3 * n + 5 > limits.header THEN ParseError("headerTooLarge")
            ELSE [status |-> "lines", lines |-> HeadLines(start, hs, n), size |-> 3 * n + 5]
    BY <1>3, <2>1, <2>2, <2>4
  <2> QED
    BY <1>5, <2>5 DEF r
<1> QED
  BY <1>4, <1>5

----------------------------------------------------------------------------
(* What header lines stand for *)

\* What is known after k header lines without an offence.
HeaderSum(acc, hs, k) ==
  /\ Len(acc.lines) = k /\ \A i \in 1..k : acc.lines[i] = hs[i] /\ hs[i].is = "header"
  /\ \A i \in 1..k : hs[i].name = "content-length" =>
                       acc.length # Absent /\ hs[i].num = acc.length
  /\ acc.length # Absent => \E i \in 1..k : hs[i].name = "content-length"
  /\ acc.keepAlive <=>
       \A i \in 1..k : hs[i].name \in ConnectionNames => "close" \notin Range(hs[i].list)

\* What is wrong with a line, k being its number.
Reason(line, hs, k, limits) ==
  IF Len(line) # 1 THEN "badSyntax" ELSE LineError(hs, k, limits)

\* A content-length that contradicts an earlier one.
LEMMA Contradicts ==
  ASSUME NEW acc, NEW hs, NEW k \in Nat, HeaderSum(acc, hs, k), NEW h, h = hs[k + 1],
         h.name = "content-length"
  PROVE  (\E j \in 1..(k + 1) - 1 :
            hs[j].is = "header" /\ hs[j].name = h.name /\ hs[j].num # h.num)
           <=> acc.length \notin {Absent, h.num}
<1>1. (k + 1) - 1 = k
  OBVIOUS
<1>2. ASSUME NEW j \in 1..k, hs[j].name = h.name, hs[j].num # h.num
      PROVE  acc.length \notin {Absent, h.num}
  BY <1>2 DEF HeaderSum
<1>3. ASSUME acc.length \notin {Absent, h.num}
      PROVE  \E j \in 1..k : hs[j].is = "header" /\ hs[j].name = h.name /\ hs[j].num # h.num
  BY <1>3 DEF HeaderSum
<1> QED
  BY <1>1, <1>2, <1>3

\* One more line that is kept.
LEMMA SumKeeps ==
  ASSUME NEW U, NEW acc, acc.lines \in Seq(U), NEW hs, NEW k \in Nat, HeaderSum(acc, hs, k),
         NEW h \in U, h = hs[k + 1], h.is = "header",
         NEW r, r.lines = Append(acc.lines, h),
         IF h.name = "content-length" THEN r.length = h.num /\ h.num # Absent
                                           /\ acc.length \in {Absent, h.num}
                                      ELSE r.length = acc.length,
         r.keepAlive <=> acc.keepAlive /\ (h.name \in ConnectionNames => "close" \notin Range(h.list))
  PROVE  HeaderSum(r, hs, k + 1)
<1>1. Len(acc.lines) = k /\ \A i \in 1..k : acc.lines[i] = hs[i] /\ hs[i].is = "header"
  BY DEF HeaderSum
<1>2. \A i \in 1..(k + 1) : i \in 1..k \/ i = k + 1
  OBVIOUS
<1>3. k + 1 \in 1..(k + 1) /\ \A i \in 1..k : i \in 1..(k + 1)
  OBVIOUS
<1>4. Len(r.lines) = k + 1 /\ r.lines[k + 1] = h /\ \A i \in 1..k : r.lines[i] = acc.lines[i]
  <2>1. Len(Append(acc.lines, h)) = Len(acc.lines) + 1
        /\ (\A i \in 1..Len(acc.lines) : Append(acc.lines, h)[i] = acc.lines[i])
        /\ Append(acc.lines, h)[Len(acc.lines) + 1] = h
    BY AppendProperties
  <2> DEFINE z == Append(acc.lines, h)
  <2> HIDE DEF z
  <2> QED
    BY <1>1, <2>1 DEF z
<1>5. \A i \in 1..(k + 1) : r.lines[i] = hs[i] /\ hs[i].is = "header"
  BY <1>1, <1>2, <1>4
<1>6. \A i \in 1..(k + 1) : hs[i].name = "content-length" =>
        r.length # Absent /\ hs[i].num = r.length
  <2> SUFFICES ASSUME NEW i \in 1..(k + 1), hs[i].name = "content-length"
               PROVE  r.length # Absent /\ hs[i].num = r.length
    OBVIOUS
  <2>1. CASE i = k + 1
    BY <2>1
  <2>2. CASE i \in 1..k
    <3>1. acc.length # Absent /\ hs[i].num = acc.length
      BY <2>2 DEF HeaderSum
    <3> QED
      BY <3>1
  <2> QED
    BY <1>2, <2>1, <2>2
<1>7. r.length # Absent => \E i \in 1..(k + 1) : hs[i].name = "content-length"
  <2>1. CASE h.name = "content-length"
    BY <1>3, <2>1
  <2>2. CASE h.name # "content-length"
    <3>1. r.length = acc.length
      BY <2>2
    <3>2. acc.length # Absent => \E i \in 1..k : hs[i].name = "content-length"
      BY DEF HeaderSum
    <3> QED
      BY <1>3, <3>1, <3>2
  <2> QED
    BY <2>1, <2>2
<1>8. r.keepAlive <=>
        \A i \in 1..(k + 1) : hs[i].name \in ConnectionNames => "close" \notin Range(hs[i].list)
  <2>1. acc.keepAlive <=>
          \A i \in 1..k : hs[i].name \in ConnectionNames => "close" \notin Range(hs[i].list)
    BY DEF HeaderSum
  <2> QED
    BY <1>2, <1>3, <2>1
<1> QED
  BY <1>4, <1>5, <1>6, <1>7, <1>8 DEF HeaderSum

\* A line is refused for its own reason, and adds to what is known otherwise.
LEMMA HeaderLineIs ==
  ASSUME NEW U, \A b \in U : HeaderOk(b), NEW acc \in HeaderStates(U), acc.error = "none",
         NEW hs, NEW k \in Nat, HeaderSum(acc, hs, k),
         NEW line \in Seq(U), Len(line) = 1 => hs[k + 1] = line[1], NEW limits
  PROVE  LET r == ParseHeaderLine(acc, line, limits)
             e == Reason(line, hs, k + 1, limits)
         IN r.error = e /\ (e = "none" => HeaderSum(r, hs, k + 1))
<1> DEFINE h == line[1]
           g == hs[k + 1]
           r == ParseHeaderLine(acc, line, limits)
           e == Reason(line, hs, k + 1, limits)
           a == Append(acc.lines, h)
           keep == [acc EXCEPT !.lines = a]
           refuse(x) == [acc EXCEPT !.error = x]
<1>1. /\ acc = [error |-> acc.error, length |-> acc.length, keepAlive |-> acc.keepAlive,
                lines |-> acc.lines]
      /\ acc.length \in Nat \cup {Absent} /\ acc.keepAlive \in BOOLEAN /\ acc.lines \in Seq(U)
  BY DEF HeaderStates
<1>2. \A x : refuse(x).error = x
  BY <1>1
<1> DEFINE clash == \E j \in 1..(k + 1) - 1 :
                      hs[j].is = "header" /\ hs[j].name = g.name /\ hs[j].num # g.num
<1>3. e = IF Len(line) # 1 \/ g.is # "header"
             \/ (g.name = "content-length" /\ (g.num = NotANumber \/ clash))
          THEN "badSyntax"
          ELSE IF \/ g.name \in {"transfer-encoding", "upgrade"}
                  \/ g.name \in ConnectionNames /\ ~ParseConnectionTokens(g.list)
          THEN "unsupportedFraming"
          ELSE IF g.name = "content-length" /\ g.num > limits.body THEN "bodyTooLarge"
          ELSE "none"
  BY DEF Reason, LineError
<1>4. r = IF Len(line) # 1 \/ h.is # "header" THEN refuse("badSyntax")
          ELSE IF h.name \in {"transfer-encoding", "upgrade"} THEN refuse("unsupportedFraming")
          ELSE IF h.name = "content-length" THEN
            IF h.num = NotANumber \/ acc.length \notin {Absent, h.num} THEN refuse("badSyntax")
            ELSE IF h.num > limits.body THEN refuse("bodyTooLarge")
            ELSE [keep EXCEPT !.length = h.num]
          ELSE IF h.name \in ConnectionNames THEN
            IF ~ParseConnectionTokens(h.list) THEN refuse("unsupportedFraming")
            ELSE [keep EXCEPT !.keepAlive = @ /\ "close" \notin Range(h.list)]
          ELSE keep
  BY DEF ParseHeaderLine
<1>5. g.name = "content-length" => (clash <=> acc.length \notin {Absent, g.num})
  BY Contradicts
<1>6. /\ keep = [error |-> acc.error, length |-> acc.length, keepAlive |-> acc.keepAlive,
                 lines |-> a]
  <2> HIDE DEF a
  <2> QED
    BY <1>1
<1> HIDE DEF r, e, keep, refuse, clash, a
<1>7. CASE Len(line) # 1 \/ h.is # "header"
  BY <1>2, <1>3, <1>4, <1>7 DEF r, e
<1>8. CASE Len(line) = 1 /\ h.is = "header"
  <2>0. h = g /\ h \in U /\ h.num \in Nat \cup {NotANumber}
    BY <1>8, ElementOfSeq DEF HeaderOk
  <2>1. ASSUME r.lines = a,
               IF h.name = "content-length" THEN r.length = h.num /\ h.num # Absent
                                                 /\ acc.length \in {Absent, h.num}
                                            ELSE r.length = acc.length,
               r.keepAlive <=> acc.keepAlive
                                /\ (h.name \in ConnectionNames => "close" \notin Range(h.list))
        PROVE  HeaderSum(r, hs, k + 1)
    <3>1. r.lines = Append(acc.lines, h) /\ h = hs[k + 1] /\ h.is = "header"
      BY <1>8, <2>0, <2>1 DEF a
    <3> HIDE DEF h, g
    <3> QED
      BY <1>1, <2>0, <2>1, <3>1, SumKeeps
  <2>2. CASE h.name \in {"transfer-encoding", "upgrade"}
    <3>1. r = refuse("unsupportedFraming") /\ e = "unsupportedFraming"
      BY <1>3, <1>4, <1>8, <2>0, <2>2
    <3> QED
      BY <1>2, <3>1 DEF r, e
  <2>3. CASE h.name = "content-length"
    <3>1. CASE h.num = NotANumber \/ acc.length \notin {Absent, h.num}
      <4>1. r = refuse("badSyntax") /\ e = "badSyntax"
        BY <1>3, <1>4, <1>5, <1>8, <2>0, <2>3, <3>1
      <4> QED
        BY <1>2, <4>1 DEF r, e
    <3>2. CASE ~(h.num = NotANumber \/ acc.length \notin {Absent, h.num}) /\ h.num > limits.body
      <4>1. r = refuse("bodyTooLarge") /\ e = "bodyTooLarge"
        BY <1>3, <1>4, <1>5, <1>8, <2>0, <2>3, <3>2 DEF ConnectionNames
      <4> QED
        BY <1>2, <4>1 DEF r, e
    <3>3. CASE ~(h.num = NotANumber \/ acc.length \notin {Absent, h.num}) /\ ~(h.num > limits.body)
      <4>1. r = [keep EXCEPT !.length = h.num] /\ e = "none"
        BY <1>3, <1>4, <1>5, <1>8, <2>0, <2>3, <3>3 DEF ConnectionNames
      <4>2. r = [error |-> acc.error, length |-> h.num, keepAlive |-> acc.keepAlive, lines |-> a]
        BY <1>6, <4>1
      <4>3. r.lines = a /\ r.length = h.num /\ r.keepAlive = acc.keepAlive /\ r.error = "none"
        BY <4>2
      <4>4. h.num # Absent /\ h.name \notin ConnectionNames /\ acc.length \in {Absent, h.num}
        BY <2>3, <3>3 DEF Absent, NotANumber, ConnectionNames
      <4>5. HeaderSum(r, hs, k + 1)
        BY <2>1, <2>3, <4>3, <4>4, Zenon
      <4> QED
        BY <4>1, <4>3, <4>5 DEF r, e
    <3> QED
      BY <3>1, <3>2, <3>3
  <2>4. CASE h.name \in ConnectionNames
    <3>0. h.name \notin {"transfer-encoding", "upgrade"} /\ h.name # "content-length"
      BY <2>4 DEF ConnectionNames
    <3>1. CASE ~ParseConnectionTokens(h.list)
      <4>1. r = refuse("unsupportedFraming") /\ e = "unsupportedFraming"
        BY <1>3, <1>4, <1>8, <2>0, <2>4, <3>0, <3>1
      <4> QED
        BY <1>2, <4>1 DEF r, e
    <3>2. CASE ParseConnectionTokens(h.list)
      <4> DEFINE y == acc.keepAlive /\ "close" \notin Range(h.list)
      <4>1. r = [keep EXCEPT !.keepAlive = @ /\ "close" \notin Range(h.list)] /\ e = "none"
        BY <1>3, <1>4, <1>8, <2>0, <2>4, <3>0, <3>2
      <4>2. r = [error |-> acc.error, length |-> acc.length, keepAlive |-> y, lines |-> a]
        BY <1>6, <4>1
      <4> HIDE DEF y
      <4>3. r.lines = a /\ r.length = acc.length /\ r.keepAlive = y /\ r.error = "none"
        BY <4>2
      <4>4. HeaderSum(r, hs, k + 1)
        BY <2>1, <2>4, <3>0, <4>3, Zenon DEF y
      <4> QED
        BY <4>1, <4>3, <4>4 DEF r, e
    <3> QED
      BY <3>1, <3>2
  <2>5. CASE h.name \notin {"transfer-encoding", "upgrade", "content-length"} \cup ConnectionNames
    <3>1. r = keep /\ e = "none"
      BY <1>3, <1>4, <1>8, <2>0, <2>5
    <3>2. r.lines = a /\ r.length = acc.length /\ r.keepAlive = acc.keepAlive /\ r.error = "none"
      BY <1>6, <3>1
    <3>3. h.name # "content-length" /\ h.name \notin ConnectionNames
      BY <2>5
    <3>4. HeaderSum(r, hs, k + 1)
      BY <2>1, <3>2, <3>3, Zenon
    <3> QED
      BY <3>1, <3>2, <3>4 DEF r, e
  <2> QED
    BY <2>2, <2>3, <2>4, <2>5
<1> QED
  BY <1>7, <1>8

\* After k lines: what they stand for, or the reason of the first that is refused.
FoldIs(acc, lines, hs, limits, k) ==
  /\ acc.error = "none" =>
       HeaderSum(acc, hs, k) /\ \A j \in 1..k : Reason(lines[j], hs, j, limits) = "none"
  /\ acc.error # "none" =>
       \E j \in 1..k : /\ acc.error = Reason(lines[j], hs, j, limits)
                       /\ \A i \in 1..(j - 1) : Reason(lines[i], hs, i, limits) = "none"

LEMMA HeaderFoldIs ==
  ASSUME NEW U, \A b \in U : HeaderOk(b), NEW lines \in Seq(Seq(U)), NEW limits,
         NEW hs, \A k \in 1..Len(lines) : Len(lines[k]) = 1 => hs[k] = lines[k][1]
  PROVE  FoldIs(ParseHeaderLines(lines, limits), lines, hs, limits, Len(lines))
<1> DEFINE n == Len(lines)
<1>1. PICK A : HeaderFold(A, lines, limits, U)
  BY HeaderSteps
<1>2. n \in Nat /\ \A k \in 1..n : lines[k] \in Seq(U)
  BY LenProperties, ElementOfSeq
<1> HIDE DEF n
<1>3. /\ \A k \in 0..n : A[k] \in HeaderStates(U)
      /\ A[0] = NoHeaders /\ ParseHeaderLines(lines, limits) = A[n]
      /\ \A k \in 1..n : A[k] = ParseHeaderLine(A[k - 1], lines[k], limits)
  BY <1>1, <1>2 DEF HeaderFold, n
<1> DEFINE T == {k \in Nat : k <= n => FoldIs(A[k], lines, hs, limits, k)}
<1>4. 0 \in T
  <2>1. HeaderSum(NoHeaders, hs, 0) /\ NoHeaders.error = "none"
    BY DEF HeaderSum, NoHeaders
  <2> QED
    BY <1>3, <2>1 DEF FoldIs
<1>5. ASSUME NEW k \in T PROVE k + 1 \in T
  <2> SUFFICES ASSUME k + 1 <= n PROVE FoldIs(A[k + 1], lines, hs, limits, k + 1)
    OBVIOUS
  <2> DEFINE acc == A[k]
             r == A[k + 1]
             line == lines[k + 1]
             e == Reason(line, hs, k + 1, limits)
  <2>1. k \in Nat /\ FoldIs(acc, lines, hs, limits, k) /\ k + 1 \in 1..n /\ k \in 0..n
        /\ (k + 1) - 1 = k
    BY <1>2
  <2>2. r = ParseHeaderLine(acc, line, limits) /\ acc \in HeaderStates(U) /\ line \in Seq(U)
        /\ (Len(line) = 1 => hs[k + 1] = line[1])
    BY <1>2, <1>3, <2>1 DEF n
  <2>3. \A j \in 1..(k + 1) : j \in 1..k \/ j = k + 1
    BY <2>1
  <2>4. CASE acc.error # "none"
    <3>1. r = acc
      BY <2>2, <2>4 DEF ParseHeaderLine
    <3>2. PICK j \in 1..k : /\ acc.error = Reason(lines[j], hs, j, limits)
                            /\ \A i \in 1..(j - 1) : Reason(lines[i], hs, i, limits) = "none"
      BY <2>1, <2>4 DEF FoldIs
    <3>3. j \in 1..(k + 1)
      BY <2>1
    <3> HIDE DEF r, acc
    <3> QED
      BY <2>4, <3>1, <3>2, <3>3 DEF FoldIs, r
  <2>5. CASE acc.error = "none"
    <3>1. HeaderSum(acc, hs, k) /\ \A j \in 1..k : Reason(lines[j], hs, j, limits) = "none"
      BY <2>1, <2>5 DEF FoldIs
    <3> HIDE DEF acc, r, line
    <3>2. r.error = e /\ (e = "none" => HeaderSum(r, hs, k + 1))
      <4> HIDE DEF e
      <4>1. ParseHeaderLine(acc, line, limits).error = e
            /\ (e = "none" => HeaderSum(ParseHeaderLine(acc, line, limits), hs, k + 1))
        BY <2>1, <2>2, <2>5, <3>1, HeaderLineIs DEF e
      <4> QED
        BY <2>2, <4>1
    <3>3. CASE e = "none"
      <4>1. \A j \in 1..(k + 1) : Reason(lines[j], hs, j, limits) = "none"
        BY <2>3, <3>1, <3>3 DEF line
      <4> QED
        BY <3>2, <3>3, <4>1 DEF FoldIs, r
    <3>4. CASE e # "none"
      <4>1. r.error = Reason(lines[k + 1], hs, k + 1, limits) /\ k + 1 \in 1..(k + 1)
        BY <2>1, <3>2 DEF line
      <4>2. \A i \in 1..((k + 1) - 1) : Reason(lines[i], hs, i, limits) = "none"
        BY <2>1, <3>1
      <4> HIDE DEF e
      <4> QED
        BY <3>2, <3>4, <4>1, <4>2 DEF FoldIs, r
    <3> QED
      BY <3>3, <3>4
  <2> QED
    BY <2>4, <2>5
<1> HIDE DEF T
<1>6. T = Nat
  <2>1. T \in SUBSET Nat
    BY DEF T
  <2> QED
    BY <1>4, <1>5, <2>1, Induction
<1>7. FoldIs(A[n], lines, hs, limits, n)
  BY <1>2, <1>6 DEF T
<1> QED
  BY <1>3, <1>7 DEF n

\* What all header lines stand for together.
LEMMA SumIs ==
  ASSUME NEW U, NEW acc \in HeaderStates(U), NEW hs, IsSeq(hs),
         HeaderSum(acc, hs, Len(hs))
  PROVE  /\ acc.length = Length(hs) /\ acc.keepAlive = Keeps(hs) /\ acc.lines = hs
<1> DEFINE n == Len(hs)
           cl == {h.num : h \in {g \in Range(hs) : g.is = "header" /\ g.name = "content-length"}}
<1>1. n \in Nat /\ DOMAIN hs = 1..n /\ hs = [i \in 1..n |-> hs[i]]
  BY DEF IsSeq
<1>2. Range(hs) = {hs[i] : i \in 1..n}
  BY <1>1 DEF Range
<1>3. /\ acc.lines \in Seq(U) /\ acc.keepAlive \in BOOLEAN
  BY DEF HeaderStates
<1> HIDE DEF n
<1>4. acc.lines = hs
  <2>1. Len(acc.lines) = n /\ \A i \in 1..n : acc.lines[i] = hs[i]
    BY DEF HeaderSum, n
  <2>2. acc.lines = [i \in 1..n |-> acc.lines[i]]
    BY <1>3, <2>1, LenProperties
  <2> QED
    BY <1>1, <2>1, <2>2
<1>5. \A i \in 1..n : hs[i].is = "header"
  BY DEF HeaderSum, n
<1>6. cl = {hs[i].num : i \in {k \in 1..n : hs[k].name = "content-length"}}
  BY <1>2, <1>5
<1>7. acc.length = Length(hs)
  <2>1. CASE acc.length = Absent
    <3>1. \A i \in 1..n : hs[i].name # "content-length"
      BY <2>1 DEF HeaderSum, n
    <3>2. cl = {}
      BY <1>6, <3>1
    <3> QED
      BY <2>1, <3>2 DEF Length
  <2>2. CASE acc.length # Absent
    <3>1. PICK i \in 1..n : hs[i].name = "content-length"
      BY <2>2 DEF HeaderSum, n
    <3>2. \A k \in 1..n : hs[k].name = "content-length" => hs[k].num = acc.length
      BY DEF HeaderSum, n
    <3>3. cl = {acc.length}
      BY <1>6, <3>1, <3>2
    <3> HIDE DEF cl
    <3>4. (CHOOSE x \in cl : TRUE) = acc.length /\ cl # {}
      BY <3>3
    <3>5. Length(hs) = IF cl = {} THEN Absent ELSE CHOOSE x \in cl : TRUE
      BY DEF Length, cl
    <3> QED
      BY <3>4, <3>5
  <2> QED
    BY <2>1, <2>2
<1>8. acc.keepAlive <=> Keeps(hs)
  <2>1. acc.keepAlive <=>
          \A i \in 1..n : hs[i].name \in ConnectionNames => "close" \notin Range(hs[i].list)
    BY DEF HeaderSum, n
  <2>2. Keeps(hs) <=>
          \A i \in 1..n : hs[i].is = "header" /\ hs[i].name \in ConnectionNames
                             => "close" \notin Range(hs[i].list)
    BY <1>2 DEF Keeps
  <2> QED
    BY <1>5, <2>1, <2>2
<1>9. acc.keepAlive = Keeps(hs)
  <2>1. Keeps(hs) \in BOOLEAN
    BY DEF Keeps
  <2>2. \A x, y \in BOOLEAN : (x <=> y) => x = y
    OBVIOUS
  <2> QED
    BY <1>3, <1>8, <2>1, <2>2, Zenon
<1> QED
  BY <1>4, <1>7, <1>9

\* What is made of header lines, one after the other.
HeadersRead(H, U, hs, limits) ==
  /\ H \in HeaderStates(U)
  /\ H.error = "none" =>
       /\ \A k \in 1..Len(hs) : LineError(hs, k, limits) = "none"
       /\ H.length = Length(hs) /\ H.keepAlive = Keeps(hs) /\ H.lines = hs
  /\ H.error # "none" =>
       \E k \in 1..Len(hs) : /\ H.error = LineError(hs, k, limits)
                             /\ \A i \in 1..(k - 1) : LineError(hs, i, limits) = "none"

\* Lines that are one header each.
LEMMA HeaderLinesOf ==
  ASSUME NEW U, \A b \in U : HeaderOk(b), NEW hs \in Seq(U), NEW limits,
         NEW lines, lines = [k \in 1..Len(hs) |-> <<hs[k]>>]
  PROVE  HeadersRead(ParseHeaderLines(lines, limits), U, hs, limits)
<1> DEFINE n == Len(hs)
           H == ParseHeaderLines(lines, limits)
<1>1. n \in Nat /\ IsSeq(hs) /\ \A k \in 1..n : hs[k] \in U
  BY LenProperties, ElementOfSeq DEF IsSeq
<1> HIDE DEF n
<1>2. \A k \in 1..n : lines[k] = <<hs[k]>> /\ lines[k] \in Seq(U)
  BY <1>1 DEF n
<1>3. lines \in Seq(Seq(U)) /\ Len(lines) = n
  <2>1. lines \in [1..n -> Seq(U)]
    BY <1>2 DEF n
  <2>2. lines \in Seq(Seq(U))
    BY <1>1, <2>1, SeqDef
  <2> QED
    BY <1>1, <2>1, <2>2, LenProperties
<1>4. \A k \in 1..n : Len(lines[k]) = 1 /\ hs[k] = lines[k][1]
  <2>1. \A x : Len(<<x>>) = 1 /\ <<x>>[1] = x
    OBVIOUS
  <2> QED
    BY <1>2, <2>1, Zenon
<1>5. FoldIs(H, lines, hs, limits, n)
  <2>1. \A k \in 1..Len(lines) : Len(lines[k]) = 1 => hs[k] = lines[k][1]
    BY <1>3, <1>4
  <2> QED
    BY <1>3, <2>1, HeaderFoldIs
<1>6. H \in HeaderStates(U)
  BY <1>3, HeaderLinesAre
<1> HIDE DEF H
<1>7. \A k \in 1..n : Reason(lines[k], hs, k, limits) = LineError(hs, k, limits)
  BY <1>4 DEF Reason
<1>8. ASSUME H.error = "none"
      PROVE  /\ \A k \in 1..n : LineError(hs, k, limits) = "none"
             /\ H.length = Length(hs) /\ H.keepAlive = Keeps(hs) /\ H.lines = hs
  <2>1. HeaderSum(H, hs, n) /\ \A j \in 1..n : Reason(lines[j], hs, j, limits) = "none"
    BY <1>5, <1>8 DEF FoldIs
  <2>2. H.length = Length(hs) /\ H.keepAlive = Keeps(hs) /\ H.lines = hs
    BY <1>1, <1>6, <2>1, SumIs DEF n
  <2> QED
    BY <1>7, <2>1, <2>2
<1>9. ASSUME H.error # "none"
      PROVE  \E k \in 1..n : /\ H.error = LineError(hs, k, limits)
                             /\ \A i \in 1..(k - 1) : LineError(hs, i, limits) = "none"
  <2>1. PICK j \in 1..n : /\ H.error = Reason(lines[j], hs, j, limits)
                          /\ \A i \in 1..(j - 1) : Reason(lines[i], hs, i, limits) = "none"
    BY <1>5, <1>9 DEF FoldIs
  <2>2. \A i \in 1..(j - 1) : i \in 1..n
    BY <1>1
  <2> QED
    BY <1>7, <2>1, <2>2
<1> QED
  BY <1>6, <1>8, <1>9 DEF HeadersRead, n, H

----------------------------------------------------------------------------
(* Heads that are forwarded *)

\* The header lines that are passed on, and where they stood.
ForwardedFrom(F, hs, at, c) ==
  /\ c \in Nat /\ Len(F) = c /\ IsSeq(F)
  /\ \A k \in 1..c : /\ at[k] \in 1..Len(hs) /\ F[k] = hs[at[k]]
                     /\ hs[at[k]].name \notin ConnectionNames
  /\ \A i \in 1..Len(hs) : hs[i].name \notin ConnectionNames => \E k \in 1..c : at[k] = i
  /\ \A i, j \in 1..c : i < j => at[i] < at[j]

LEMMA ForwardedIs ==
  ASSUME NEW hs, IsSeq(hs)
  PROVE  \E at, c : ForwardedFrom(Forwarded(hs), hs, at, c)
<1> DEFINE n == Len(hs)
           S == {i \in DOMAIN hs : hs[i].name \notin ConnectionNames}
           c == Cardinality(S)
           at == Sorted(S, <)
           F == Forwarded(hs)
<1>1. n \in Nat /\ DOMAIN hs = 1..n
  BY DEF IsSeq
<1>2. \A i : i \in S <=> i \in 1..n /\ hs[i].name \notin ConnectionNames
  BY <1>1
<1>3. F = [k \in DOMAIN at |-> hs[at[k]]]
  BY DEF Forwarded
<1> HIDE DEF S, n, F
<1>4. IsFiniteSet(S) /\ S \in SUBSET Int
  <2>1. S \subseteq 1..n /\ IsFiniteSet(1..n)
    BY <1>1, <1>2, FS_Interval
  <2>2. IsFiniteSet(S)
    BY <2>1, FS_Subset
  <2>3. S \in SUBSET Int
    BY <1>1, <1>2
  <2> QED
    BY <2>2, <2>3
<1>5. /\ c \in Nat /\ at \in [1..c -> S]
      /\ \A e \in S : \E k \in 1..c : at[k] = e
      /\ \A i, j \in 1..c : i < j <=> at[i] < at[j]
  BY <1>4, SortedNumbers
<1> HIDE DEF c, at
<1>6. F = [k \in 1..c |-> hs[at[k]]]
  BY <1>3, <1>5
<1>7. Len(F) = c /\ IsSeq(F)
  <2> DEFINE D == {hs[at[k]] : k \in 1..c}
  <2>1. F \in [1..c -> D]
    BY <1>6
  <2> HIDE DEF D
  <2>2. F \in Seq(D)
    BY <1>5, <2>1, SeqDef
  <2>3. Len(F) = c
    BY <1>5, <2>1, <2>2, LenProperties
  <2> QED
    BY <1>5, <1>6, <2>3 DEF IsSeq
<1>8. \A k \in 1..c : at[k] \in S /\ F[k] = hs[at[k]]
  BY <1>5, <1>6
<1>9. ForwardedFrom(F, hs, at, c)
  BY <1>2, <1>5, <1>7, <1>8 DEF ForwardedFrom, n
<1> QED
  BY <1>9 DEF F

\* With the header for the connection behind them, they are passed on as they are.
LEMMA ForwardedAgain ==
  ASSUME NEW F, IsSeq(F), \A k \in 1..Len(F) : F[k].name \notin ConnectionNames,
         NEW last, last.name \in ConnectionNames
  PROVE  Forwarded(Append(F, last)) = F
<1> DEFINE c == Len(F)
           G == Append(F, last)
           S == {i \in DOMAIN G : G[i].name \notin ConnectionNames}
           q == [k \in 1..c |-> k]
<1>1. /\ c \in Nat /\ DOMAIN G = 1..(c + 1) /\ G[c + 1] = last
      /\ \A i \in 1..c : G[i] = F[i]
      /\ F = [i \in 1..c |-> F[i]]
  BY AppendAny DEF IsSeq
<1>2. Forwarded(G) = [k \in DOMAIN Sorted(S, <) |-> G[Sorted(S, <)[k]]]
  BY DEF Forwarded
<1> HIDE DEF G
<1>3. S = 1..c
  <2>1. \A i \in 1..(c + 1) : i \in 1..c \/ i = c + 1
    BY <1>1
  <2>2. \A i \in 1..c : i \in 1..(c + 1)
    BY <1>1
  <2>3. \A i : i \in S <=> i \in 1..c
    BY <1>1, <2>1, <2>2
  <2> QED
    BY <2>3
<1> HIDE DEF S
<1>4. Sorted(S, <) = q
  <2>1. S \in SUBSET Int /\ q \in [1..c -> S]
    BY <1>1, <1>3
  <2>2. (\A e \in S : \E k \in 1..c : q[k] = e) /\ \A i, j \in 1..c : i < j => q[i] < q[j]
    BY <1>1, <1>3
  <2> HIDE DEF q, c
  <2>3. c \in Nat
    BY <1>1
  <2> QED
    BY <2>1, <2>2, <2>3, SortedIs
<1>5. DOMAIN q = 1..c /\ \A k \in 1..c : q[k] = k
  OBVIOUS
<1> HIDE DEF q
<1>6. Forwarded(G) = [k \in 1..c |-> G[k]]
  BY <1>2, <1>4, <1>5
<1> QED
  BY <1>1, <1>6 DEF G

\* Header lines that say what others said, and no more.
SaysTheSame(G, hs, limits) ==
  /\ IsSeq(G) /\ \A k \in 1..Len(G) : LineError(G, k, limits) = "none"
  /\ \A k \in 1..Len(G) : G[k].is = "header"
  /\ Length(G) = Length(hs) /\ Keeps(G) = Keeps(hs) /\ Forwarded(G) = Forwarded(hs)
  /\ \A k \in 1..Len(G) : G[k] = ConnectionHeader(Keeps(hs))
                           \/ \E i \in 1..Len(hs) : G[k] = hs[i]

\* They say what those they were taken from said.
LEMMA ForwardedSays ==
  ASSUME NEW hs, IsSeq(hs), NEW limits,
         \A k \in 1..Len(hs) : LineError(hs, k, limits) = "none",
         NEW G, G = Append(Forwarded(hs), ConnectionHeader(Keeps(hs)))
  PROVE  SaysTheSame(G, hs, limits)
<1> DEFINE n == Len(hs)
           F == Forwarded(hs)
           keep == Keeps(hs)
           last == ConnectionHeader(keep)
<1>1. PICK at, c : ForwardedFrom(F, hs, at, c)
  BY ForwardedIs
<1>2. n \in Nat /\ DOMAIN hs = 1..n
  BY DEF IsSeq
<1>3. \A k \in 1..n : hs[k].is = "header"
  BY DEF LineError
<1>4. keep \in BOOLEAN
  BY DEF Keeps
<1>5. /\ last.is = "header" /\ last.name = "connection" /\ last.num = NotANumber
      /\ last.list = IF keep THEN <<"keep-alive">> ELSE <<"close">>
  <2> HIDE DEF keep
  <2> QED
    BY DEF ConnectionHeader
<1>6. last.list # <<>> /\ Range(last.list) = IF keep THEN {"keep-alive"} ELSE {"close"}
  <2>1. \A x : <<x>> # <<>> /\ Range(<<x>>) = {x}
    BY DEF Range
  <2> HIDE DEF keep, last
  <2> QED
    BY <1>5, <2>1
<1> HIDE DEF keep, last, F, n
<1>7. /\ IsSeq(G) /\ Len(G) = c + 1 /\ DOMAIN G = 1..(c + 1) /\ G[c + 1] = last
      /\ c \in Nat /\ \A k \in 1..c : G[k] = F[k]
  <2>1. IsSeq(F) /\ Len(F) = c /\ c \in Nat
    BY <1>1 DEF ForwardedFrom
  <2>2. G = Append(F, last)
    BY DEF F, last, keep
  <2> QED
    BY <2>1, <2>2, AppendAny
<1>8. \A k \in 1..c : /\ at[k] \in 1..n /\ G[k] = hs[at[k]]
                      /\ G[k].name \notin ConnectionNames
  BY <1>1, <1>7 DEF ForwardedFrom, n
<1>9. \A k \in 1..(c + 1) : k \in 1..c \/ k = c + 1
  BY <1>7
<1>10. \A k \in 1..(c + 1) : G[k].is = "header"
  BY <1>3, <1>5, <1>7, <1>8, <1>9
<1>11. ASSUME NEW k \in 1..(c + 1) PROVE LineError(G, k, limits) = "none"
  <2>1. CASE k = c + 1
    <3>1. G[k] = last
      BY <1>7, <2>1
    <3>2. G[k].is = "header" /\ G[k].name = "connection" /\ ParseConnectionTokens(G[k].list)
      <4>1. {"keep-alive"} \subseteq {"close", "keep-alive"} /\ {"close"} \subseteq {"close", "keep-alive"}
        OBVIOUS
      <4>2. Range(last.list) \subseteq {"close", "keep-alive"}
        BY <1>6, <4>1
      <4> QED
        BY <1>5, <1>6, <3>1, <4>2 DEF ParseConnectionTokens
    <3> QED
      BY <3>2 DEF LineError
  <2>2. CASE k \in 1..c
    <3> DEFINE i == at[k]
               h == G[k]
    <3>1. i \in 1..n /\ h = hs[i] /\ LineError(hs, i, limits) = "none"
          /\ h.name \notin ConnectionNames
      BY <1>8, <2>2 DEF n
    <3>2. ASSUME NEW j \in 1..k - 1, G[j].is = "header", G[j].name = h.name,
                 h.name = "content-length", G[j].num # h.num
          PROVE  FALSE
      <4>1. j \in 1..c /\ j < k
        BY <1>7, <2>2
      <4>2. at[j] < at[k] /\ at[j] \in 1..n /\ G[j] = hs[at[j]]
        BY <1>1, <1>8, <2>2, <4>1 DEF ForwardedFrom
      <4>3. at[j] \in 1..i - 1
        BY <1>2, <3>1, <4>2
      <4> HIDE DEF i, h
      <4>4. LineError(hs, i, limits) = "badSyntax"
        BY <3>1, <3>2, <4>2, <4>3 DEF LineError
      <4> QED
        BY <3>1, <4>4
    <3> HIDE DEF i
    <3>3. /\ h.is = "header"
          /\ ~(h.name = "content-length" /\ h.num = NotANumber)
          /\ ~(h.name \in {"transfer-encoding", "upgrade"})
          /\ ~(h.name = "content-length" /\ h.num > limits.body)
      BY <3>1 DEF LineError
    <3> QED
      BY <3>1, <3>2, <3>3 DEF LineError
  <2> QED
    BY <1>9, <2>1, <2>2
<1>12. Range(G) = {G[k] : k \in 1..(c + 1)} /\ Range(hs) = {hs[i] : i \in 1..n}
  BY <1>2, <1>7 DEF Range
<1>13. Length(G) = Length(hs)
  <2> DEFINE cl(q) == {h.num : h \in {g \in Range(q) : g.is = "header" /\ g.name = "content-length"}}
  <2>1. ASSUME NEW x \in cl(G) PROVE x \in cl(hs)
    <3>1. PICK k \in 1..(c + 1) : G[k].name = "content-length" /\ x = G[k].num
      BY <1>12, <2>1
    <3>2. k \in 1..c
      BY <1>5, <1>7, <1>9, <3>1
    <3>3. at[k] \in 1..n /\ hs[at[k]] = G[k] /\ hs[at[k]].is = "header"
      BY <1>3, <1>8, <3>2 DEF n
    <3> QED
      BY <1>12, <3>1, <3>3
  <2>2. ASSUME NEW x \in cl(hs) PROVE x \in cl(G)
    <3>1. PICK i \in 1..n : hs[i].name = "content-length" /\ x = hs[i].num
      BY <1>12, <2>2
    <3>2. hs[i].name \notin ConnectionNames
      BY <3>1 DEF ConnectionNames
    <3>3. PICK k \in 1..c : at[k] = i
      BY <1>1, <3>2 DEF ForwardedFrom, n
    <3>4. G[k] = hs[i] /\ k \in 1..(c + 1) /\ G[k].is = "header"
      BY <1>7, <1>8, <1>10, <3>3
    <3> QED
      BY <1>12, <3>1, <3>4
  <2>3. cl(G) = cl(hs)
    BY <2>1, <2>2
  <2> HIDE DEF cl
  <2> QED
    BY <2>3 DEF Length, cl
<1>14. Keeps(G) <=> keep
  <2>1. Keeps(G) <=>
          \A k \in 1..(c + 1) : G[k].name \in ConnectionNames => "close" \notin Range(G[k].list)
    BY <1>10, <1>12 DEF Keeps
  <2>2. \A k \in 1..c : G[k].name \notin ConnectionNames
    BY <1>8
  <2>3. c + 1 \in 1..(c + 1) /\ G[c + 1].name \in ConnectionNames
    BY <1>5, <1>7 DEF ConnectionNames
  <2>4. Keeps(G) <=> "close" \notin Range(last.list)
    BY <1>7, <1>9, <2>1, <2>2, <2>3
  <2>5. "close" \notin Range(last.list) <=> keep
    BY <1>4, <1>6
  <2> QED
    BY <2>4, <2>5
<1>15. Keeps(G) = keep
  <2>1. Keeps(G) \in BOOLEAN
    BY DEF Keeps
  <2>2. \A x, y \in BOOLEAN : (x <=> y) => x = y
    OBVIOUS
  <2> QED
    BY <1>4, <1>14, <2>1, <2>2, Zenon
<1>16. Forwarded(G) = F
  <2>1. IsSeq(F) /\ Len(F) = c /\ \A k \in 1..c : F[k].name \notin ConnectionNames
    BY <1>1 DEF ForwardedFrom
  <2>2. last.name \in ConnectionNames /\ G = Append(F, last)
    BY <1>5 DEF ConnectionNames, F, last, keep
  <2> QED
    BY <2>1, <2>2, ForwardedAgain
<1>17. \A k \in 1..(c + 1) : G[k] = last \/ \E i \in 1..n : G[k] = hs[i]
  BY <1>7, <1>8, <1>9
<1> QED
  BY <1>7, <1>10, <1>11, <1>13, <1>15, <1>16, <1>17 DEF SaysTheSame, n, keep, last, F

\* The lines of headers behind the first.
HeadersBehind(lines, start, hs, n) ==
  lines[1] = <<start>> /\ Tail(lines) = [k \in 1..n |-> <<hs[k]>>]

LEMMA TailOfHead ==
  ASSUME NEW U, NEW start \in U, NEW n \in Nat, NEW hs, \A k \in 1..n : hs[k] \in U
  PROVE  HeadersBehind(HeadLines(start, hs, n), start, hs, n)
<1> DEFINE ls == HeadLines(start, hs, n)
           t == Tail(ls)
<1>1. ls = [k \in 1..(n + 1) |-> IF k = 1 THEN <<start>> ELSE <<hs[k - 1]>>]
  BY DEF HeadLines
<1>2. \A k \in 1..(n + 1) : ls[k] = IF k = 1 THEN <<start>> ELSE <<hs[k - 1]>>
  BY <1>1
<1>3. 1 \in 1..(n + 1) /\ n + 1 \in Nat
  OBVIOUS
<1>4. ls[1] = <<start>>
  <2> HIDE DEF ls
  <2> QED
    BY <1>2, <1>3
<1>5. ls \in Seq(Seq(U)) /\ Len(ls) = n + 1
  <2>1. \A x \in U : <<x>> \in Seq(U)
    OBVIOUS
  <2>2. \A k \in 1..(n + 1) : k # 1 => k - 1 \in 1..n
    OBVIOUS
  <2>3. \A k \in 1..(n + 1) : (IF k = 1 THEN <<start>> ELSE <<hs[k - 1]>>) \in Seq(U)
    BY <2>1, <2>2
  <2>4. ls \in [1..(n + 1) -> Seq(U)]
    BY <1>1, <2>3
  <2> HIDE DEF ls
  <2>5. ls \in Seq(Seq(U))
    BY <1>3, <2>4, SeqDef
  <2> QED
    BY <1>3, <2>4, <2>5, LenProperties
<1> HIDE DEF ls
<1>6. /\ t \in Seq(Seq(U)) /\ Len(t) = (n + 1) - 1
      /\ \A i \in 1..((n + 1) - 1) : t[i] = ls[i + 1]
  <2>1. Len(ls) >= 1 /\ Len(ls) - 1 = (n + 1) - 1
    BY <1>3, <1>5
  <2>2. /\ Tail(ls) \in Seq(Seq(U)) /\ Len(Tail(ls)) = Len(ls) - 1
        /\ \A i \in 1..(Len(ls) - 1) : Tail(ls)[i] = ls[i + 1]
    BY <1>5, <2>1, TailOfLines, Zenon
  <2> HIDE DEF t
  <2> QED
    BY <1>5, <2>1, <2>2, Zenon DEF t
<1> HIDE DEF t
<1>7. (n + 1) - 1 = n /\ \A i \in 1..n : i + 1 \in 1..(n + 1) /\ i + 1 # 1 /\ (i + 1) - 1 = i
  OBVIOUS
<1>8. \A i \in 1..n : t[i] = <<hs[i]>>
  BY <1>2, <1>6, <1>7
<1>9. t = [i \in 1..n |-> t[i]]
  BY <1>6, <1>7, LenProperties
<1> QED
  BY <1>4, <1>8, <1>9 DEF HeadersBehind, ls, t

\* What the bytes of a head are to a reader that has them all.
LEMMA WholeHead ==
  ASSUME NEW C, CR \in C, LF \in C, NEW start \in C, start.is = "start", NEW hs \in Seq(C),
         \A k \in 1..Len(hs) : hs[k].is \in {"header", "malformed"}
  PROVE  LET q == HeadBytes(start, hs) IN
         /\ q \in Seq(C) /\ Len(q) = 3 * Len(hs) + 5 /\ HeadPart(q, start, hs, Len(hs))
<1> DEFINE q == HeadBytes(start, hs)
           n == Len(hs)
<1>1. q \in Seq(C) /\ Len(q) = 3 * n + 5 /\ HeadCells(q, start, hs, n)
  BY HeadBytesAre
<1>2. n \in Nat
  BY LenProperties
<1> HIDE DEF q
<1>3. 3 * 0 + 2 = 2 /\ 3 * 0 + 3 = 3 /\ Len(q) \in Nat
  BY <1>1, <1>2
<1>4. \A j \in 0..n : q[3 * j + 2] = CR /\ q[3 * j + 3] = LF
  <2> SUFFICES ASSUME NEW j \in 0..n PROVE q[3 * j + 2] = CR /\ q[3 * j + 3] = LF
    OBVIOUS
  <2> HIDE DEF n
  <2>1. CASE j = 0
    BY <1>1, <1>3, <2>1 DEF HeadCells
  <2>2. CASE j # 0
    <3>1. j \in 1..n
      BY <1>2, <2>2
    <3> QED
      BY <1>1, <3>1 DEF HeadCells
  <2> QED
    BY <2>1, <2>2
<1>5. HeadPart(q, start, hs, n)
  <2> HIDE DEF n
  <2>1. \A k \in 1..n : hs[k].is \in {"header", "malformed"}
    BY SMTT(30) DEF n
  <2> QED
    BY <1>1, <1>2, <1>3, <1>4, <2>1 DEF HeadPart, HeadCells
<1> QED
  BY <1>1, <1>5 DEF q

\* The lines p of a head fwd say what H says, and would be written as fwd.
ReadAlike(p, start, H, fwd, limits) ==
  LET G == ParseHeaderLines(Tail(p.lines), limits)
  IN /\ p.status = "lines" /\ p.size = Len(fwd) /\ p.lines[1] = <<start>>
     /\ G.error = "none" /\ G.length = H.length /\ G.keepAlive = H.keepAlive
     /\ BuildForwardHead(start, G) = fwd

\* What a receiver of a forwarded head makes of it.
LEMMA ForwardedHead ==
  ASSUME NEW U, \A b \in U : HeaderOk(b), NEW bytes \in Seq(U), NEW limits,
         NEW head, head = ParseHead(bytes, limits), head.status = "lines",
         NEW H, H = ParseHeaderLines(Tail(head.lines), limits), H.error = "none",
         NEW start, start = head.lines[1][1],
         NEW fwd, fwd = BuildForwardHead(start, H),
         NEW again, again.header = Len(fwd), again.body = limits.body
  PROVE  ReadAlike(ParseHead(fwd, again), start, H, fwd, again)
<1> DEFINE lines == head.lines
           tl == Tail(lines)
           n == Len(tl)
           hs == [k \in 1..n |-> tl[k][1]]
<1>1. lines \in Seq(Seq(U)) /\ Len(lines) >= 1 /\ lines[1] \in Seq(U)
  <2>1. lines \in Seq(Seq(U)) /\ Len(lines) >= 1
    BY ParseHeadIs
  <2>2. 1 \in 1..Len(lines)
    BY <2>1, LenProperties
  <2> QED
    BY <2>1, <2>2, ElementOfSeq
<1>2. start.is = "start" /\ Len(lines[1]) = 1 /\ start \in U
  <2>1. start.is = "start" /\ Len(lines[1]) = 1
    BY DEF ParseHead, NeedMore, ParseError
  <2> HIDE DEF lines
  <2>2. lines[1][1] \in U
    BY <1>1, <2>1, ElementOfSeq
  <2> QED
    BY <2>1, <2>2 DEF lines
<1> HIDE DEF lines
<1>3. tl \in Seq(Seq(U)) /\ n \in Nat /\ \A k \in 1..n : tl[k] \in Seq(U)
  <2>1. tl \in Seq(Seq(U))
    BY <1>1, TailOfLines
  <2> HIDE DEF tl
  <2> QED
    BY <2>1, LenProperties, ElementOfSeq
<1>4. H = ParseHeaderLines(tl, limits)
  BY DEF lines
<1> HIDE DEF tl, n
<1>5. H \in HeaderStates(U) /\ FoldIs(H, tl, hs, limits, n)
  <2>1. \A k \in 1..Len(tl) : Len(tl[k]) = 1 => hs[k] = tl[k][1]
    BY DEF n
  <2> QED
    BY <1>3, <1>4, <2>1, HeaderFoldIs, HeaderLinesAre DEF n
<1>6. HeaderSum(H, hs, n) /\ \A k \in 1..n : Reason(tl[k], hs, k, limits) = "none"
  BY <1>5 DEF FoldIs
<1>7. \A k \in 1..n : Len(tl[k]) = 1 /\ LineError(hs, k, limits) = "none"
  BY <1>6 DEF Reason
<1>8. hs \in Seq(U) /\ Len(hs) = n /\ IsSeq(hs)
  <2>1. \A k \in 1..n : tl[k][1] \in U
    <3> SUFFICES ASSUME NEW k \in 1..n PROVE tl[k][1] \in U
      OBVIOUS
    <3> HIDE DEF hs
    <3>1. tl[k] \in Seq(U) /\ Len(tl[k]) = 1
      BY <1>3, <1>7
    <3>2. 1 \in 1..Len(tl[k])
      BY <3>1
    <3> QED
      BY <3>1, <3>2, ElementOfSeq
  <2>2. hs \in [1..n -> U]
    BY <2>1
  <2> HIDE DEF hs
  <2>3. hs \in Seq(U) /\ Len(hs) = n
    BY <1>3, <2>2, SeqDef, LenProperties
  <2>4. hs = [k \in 1..n |-> hs[k]]
    BY <2>2
  <2> QED
    BY <1>3, <2>3, <2>4 DEF IsSeq
<1> HIDE DEF hs
<1>9. H.length = Length(hs) /\ H.keepAlive = Keeps(hs) /\ H.lines = hs
  <2>1. HeaderSum(H, hs, Len(hs))
    BY <1>6, <1>8
  <2> QED
    BY <1>5, <1>8, <2>1, SumIs
<1> DEFINE last == ConnectionHeader(Keeps(hs))
           F == Append(Forwarded(hs), last)
           m == Len(F)
           C == U \cup {CR, LF, last}
<1>10. fwd = HeadBytes(start, F)
  BY <1>9 DEF BuildForwardHead
<1>11. /\ IsSeq(F) /\ \A k \in 1..m : LineError(F, k, again) = "none" /\ F[k].is = "header"
       /\ Length(F) = Length(hs) /\ Keeps(F) = Keeps(hs) /\ Forwarded(F) = Forwarded(hs)
       /\ \A k \in 1..m : F[k] = last \/ \E i \in 1..Len(hs) : F[k] = hs[i]
  <2>1. \A k \in 1..Len(hs) : LineError(hs, k, again) = "none"
    <3>1. \A k \in 1..n : LineError(hs, k, again) = LineError(hs, k, limits)
      BY DEF LineError
    <3> QED
      BY <1>7, <1>8, <3>1
  <2> HIDE DEF F, last
  <2>2. F = Append(Forwarded(hs), ConnectionHeader(Keeps(hs)))
    BY DEF F, last
  <2>3. SaysTheSame(F, hs, again)
    BY <1>8, <2>1, <2>2, ForwardedSays, Zenon
  <2> QED
    BY <2>3 DEF SaysTheSame, last
<1>12. CR \in C /\ LF \in C /\ start \in C /\ \A b \in C : HeaderOk(b)
  <2>1. HeaderOk(CR) /\ HeaderOk(LF)
    BY DEF HeaderOk, CR, LF
  <2>2. HeaderOk(last)
    BY DEF HeaderOk, ConnectionHeader
  <2> HIDE DEF last
  <2> QED
    BY <1>2, <2>1, <2>2
<1> HIDE DEF F, last
<1>13. F \in Seq(C) /\ m \in Nat /\ \A k \in 1..m : F[k] \in C
  <2>1. \A i \in 1..Len(hs) : hs[i] \in U
    BY <1>8, ElementOfSeq
  <2>2. \A k \in 1..m : F[k] \in C
    BY <1>11, <2>1
  <2> HIDE DEF C
  <2>3. F \in Seq(C)
    BY <1>11, <2>2, SeqOver
  <2> QED
    BY <2>2, <2>3, LenProperties
<1> HIDE DEF C
<1>14. fwd \in Seq(C) /\ Len(fwd) = 3 * m + 5 /\ HeadPart(fwd, start, F, m)
  <2>1. \A k \in 1..Len(F) : F[k].is \in {"header", "malformed"}
    BY <1>11
  <2> QED
    BY <1>2, <1>10, <1>12, <1>13, <2>1, WholeHead
<1> DEFINE p == ParseHead(fwd, again)
<1> HIDE DEF m
<1>15. p = [status |-> "lines", lines |-> HeadLines(start, F, m), size |-> 3 * m + 5]
  <2>1. again.header = 3 * m + 5 /\ again.header \in Nat
    BY <1>13, <1>14
  <2>2. p = IF Len(fwd) < 3 * m + 5 /\ Len(fwd) < again.header THEN NeedMore
            ELSE IF Len(fwd) < 3 * m + 5 \/ 3 * m + 5 > again.header
            THEN ParseError("headerTooLarge")
            ELSE [status |-> "lines", lines |-> HeadLines(start, F, m), size |-> 3 * m + 5]
    BY <1>14, <2>1, ParseHeadFinds
  <2> HIDE DEF p
  <2> QED
    BY <1>13, <1>14, <2>1, <2>2
<1> DEFINE G == ParseHeaderLines(Tail(p.lines), again)
<1>16. p.status = "lines" /\ p.size = Len(fwd) /\ p.lines = HeadLines(start, F, m)
  <2> HIDE DEF p
  <2> QED
    BY <1>14, <1>15
<1>17. p.lines[1] = <<start>> /\ Tail(p.lines) = [k \in 1..m |-> <<F[k]>>]
  <2>1. HeadersBehind(HeadLines(start, F, m), start, F, m)
    BY <1>12, <1>13, TailOfHead, Zenon
  <2> HIDE DEF p
  <2>2. HeadersBehind(p.lines, start, F, m)
    BY <1>16, <2>1, Zenon
  <2> QED
    BY <2>2, Zenon DEF HeadersBehind
<1> HIDE DEF p
<1> DEFINE ls == Tail(p.lines)
<1>18. /\ G.error = "none" =>
            G.length = Length(F) /\ G.keepAlive = Keeps(F) /\ G.lines = F
       /\ G.error # "none" =>
            \E k \in 1..m : G.error = LineError(F, k, again)
  <2>1. ls = [k \in 1..Len(F) |-> <<F[k]>>]
    BY <1>17 DEF m
  <2> HIDE DEF ls
  <2>2. HeadersRead(G, C, F, again)
    BY <1>12, <1>13, <2>1, HeaderLinesOf, Zenon DEF ls
  <2> HIDE DEF G
  <2> QED
    BY <2>2 DEF HeadersRead, m
<1> HIDE DEF G
<1>19. G.error = "none"
  BY <1>11, <1>18 DEF m
<1>20. G.length = H.length /\ G.keepAlive = H.keepAlive /\ G.lines = F
  BY <1>9, <1>11, <1>18, <1>19
<1>21. BuildForwardHead(start, G) = fwd
  <2>1. BuildForwardHead(start, G) = HeadBytes(start, Append(Forwarded(F), last))
    BY <1>9, <1>20 DEF BuildForwardHead, last
  <2>2. Append(Forwarded(F), last) = F
    BY <1>11, Zenon DEF F, last
  <2> QED
    BY <1>10, <2>1, <2>2
<1> QED
  BY <1>16, <1>17, <1>19, <1>20, <1>21 DEF ReadAlike, p, G

\* A reader with just enough room for a forwarded head.
Roomy(forward, limits) == [header |-> Len(forward), body |-> limits.body]

\* A request that was accepted is one to the peer it is forwarded to.
LEMMA RequestForward ==
  ASSUME NEW U, \A b \in U : HeaderOk(b), NEW bytes \in Seq(U), NEW limits,
         NEW r, r = ParseRequestHead(bytes, limits), r.status = "complete",
         NEW again, again = Roomy(r.head.forward, limits)
  PROVE  ParseRequestHead(r.head.forward, again)
           = [status |-> "complete", head |-> r.head, used |-> again.header]
<1> DEFINE head == ParseHead(bytes, limits)
           start == head.lines[1][1]
           words == start.words
           H == ParseHeaderLines(Tail(head.lines), limits)
           fwd == BuildForwardHead(start, H)
           value == [method |-> words[1], path |-> words[2], length |-> LengthOf(H),
                     keepAlive |-> H.keepAlive, forward |-> fwd]
<1>1. /\ head.status = "lines" /\ H.error = "none"
      /\ ~(Len(words) # 3) /\ words[1] \in {"GET", "POST"}
      /\ ~(words[2] = <<>> \/ words[2][1] # "/" \/ words[3] # "HTTP/1.1")
      /\ ~(words[1] = "POST" /\ H.length = Absent)
      /\ r = Complete(value, head.size)
  <2>1. head.status \in {"needMore", "error", "lines"}
    BY DEF ParseHead, NeedMore, ParseError
  <2> HIDE DEF head
  <2>2. /\ head.status = "needMore" => r.status = "needMore"
        /\ head.status = "error" => r.status = "error"
    BY Zenon DEF ParseRequestHead, head
  <2>3. head.status = "lines"
    BY <2>1, <2>2
  <2>4. r = IF Len(words) # 3 THEN ParseError("badSyntax")
            ELSE IF words[1] \notin {"GET", "POST"} THEN ParseError("unsupportedMethod")
            ELSE IF words[2] = <<>> \/ words[2][1] # "/" \/ words[3] # "HTTP/1.1"
            THEN ParseError("badSyntax")
            ELSE IF H.error # "none" THEN ParseError(H.error)
            ELSE IF words[1] = "POST" /\ H.length = Absent
            THEN ParseError("unsupportedFraming")
            ELSE Complete(value, head.size)
    BY <2>3, Zenon DEF ParseRequestHead, head
  <2>5. \A e : ParseError(e).status = "error"
    BY DEF ParseError
  <2> HIDE DEF H, words, value
  <2> QED
    BY <2>3, <2>4, <2>5
<1>2. r.head = value /\ r.head.forward = fwd
  <2>1. value.forward = fwd
    OBVIOUS
  <2> HIDE DEF value, fwd, head, H
  <2> QED
    BY <1>1, <2>1 DEF Complete
<1>3. again.header = Len(fwd) /\ again.body = limits.body
  BY <1>2 DEF Roomy
<1> DEFINE p == ParseHead(fwd, again)
           G == ParseHeaderLines(Tail(p.lines), again)
<1>4. /\ p.status = "lines" /\ p.size = Len(fwd) /\ p.lines[1] = <<start>>
      /\ G.error = "none" /\ G.length = H.length /\ G.keepAlive = H.keepAlive
      /\ BuildForwardHead(start, G) = fwd
  <2>1. head = ParseHead(bytes, limits) /\ start = head.lines[1][1]
        /\ H = ParseHeaderLines(Tail(head.lines), limits) /\ fwd = BuildForwardHead(start, H)
    OBVIOUS
  <2> HIDE DEF head, start, H, fwd, p, G
  <2>2. ReadAlike(ParseHead(fwd, again), start, H, fwd, again)
    BY <1>1, <1>3, <2>1, ForwardedHead, Zenon
  <2> QED
    BY <2>2 DEF ReadAlike, p, G
<1>5. p.lines[1][1] = start
  <2>1. \A x : <<x>>[1] = x
    OBVIOUS
  <2> QED
    BY <1>4, <2>1, Zenon
<1>6. ParseRequestHead(fwd, again) =
        IF p.status # "lines" THEN p
        ELSE IF Len(p.lines[1][1].words) # 3 THEN ParseError("badSyntax")
        ELSE IF p.lines[1][1].words[1] \notin {"GET", "POST"} THEN ParseError("unsupportedMethod")
        ELSE IF p.lines[1][1].words[2] = <<>> \/ p.lines[1][1].words[2][1] # "/"
                \/ p.lines[1][1].words[3] # "HTTP/1.1"
        THEN ParseError("badSyntax")
        ELSE IF G.error # "none" THEN ParseError(G.error)
        ELSE IF p.lines[1][1].words[1] = "POST" /\ G.length = Absent
        THEN ParseError("unsupportedFraming")
        ELSE Complete([method |-> p.lines[1][1].words[1], path |-> p.lines[1][1].words[2],
                       length |-> LengthOf(G), keepAlive |-> G.keepAlive,
                       forward |-> BuildForwardHead(p.lines[1][1], G)], p.size)
  BY Zenon DEF ParseRequestHead
<1> HIDE DEF p, G, fwd, start, H, head
<1>7. LengthOf(G) = LengthOf(H)
  BY <1>4 DEF LengthOf
<1>8. ParseRequestHead(fwd, again) = Complete(value, Len(fwd))
  BY <1>1, <1>4, <1>5, <1>6, <1>7
<1> QED
  BY <1>2, <1>3, <1>8 DEF Complete

\* And so is a response.
LEMMA ResponseForward ==
  ASSUME NEW U, \A b \in U : HeaderOk(b), NEW bytes \in Seq(U), NEW limits,
         NEW r, r = ParseResponseHead(bytes, limits), r.status = "complete",
         NEW again, again = Roomy(r.head.forward, limits)
  PROVE  ParseResponseHead(r.head.forward, again)
           = [status |-> "complete", head |-> r.head, used |-> again.header]
<1> DEFINE head == ParseHead(bytes, limits)
           start == head.lines[1][1]
           words == start.words
           digits == words[2]
           code == 100 * digits[1] + 10 * digits[2] + digits[3]
           H == ParseHeaderLines(Tail(head.lines), limits)
           fwd == BuildForwardHead(start, H)
           wrong == \/ Len(words) < 2 \/ words[1] # "HTTP/1.1" \/ Len(digits) # 3
                    \/ ~(Range(digits) \subseteq 0..9) \/ code \notin 100..599
           unsure(h) == IF StatusHasNoBody(code) THEN h.length \notin {Absent, 0}
                                                 ELSE h.length = Absent
           value == [status |-> code, length |-> LengthOf(H), keepAlive |-> H.keepAlive,
                     forward |-> fwd]
<1>1. /\ head.status = "lines" /\ H.error = "none" /\ ~wrong /\ ~unsure(H)
      /\ r = Complete(value, head.size)
  <2>1. head.status \in {"needMore", "error", "lines"}
    BY DEF ParseHead, NeedMore, ParseError
  <2> HIDE DEF head
  <2>2. /\ head.status = "needMore" => r.status = "needMore"
        /\ head.status = "error" => r.status = "error"
    BY Zenon DEF ParseResponseHead, head
  <2>3. head.status = "lines"
    BY <2>1, <2>2
  <2>4. r = IF wrong THEN ParseError("badSyntax")
            ELSE IF H.error # "none" THEN ParseError(H.error)
            ELSE IF unsure(H) THEN ParseError("unsupportedFraming")
            ELSE Complete(value, head.size)
    BY <2>3, Zenon DEF ParseResponseHead, head
  <2>5. \A e : ParseError(e).status = "error"
    BY DEF ParseError
  <2> HIDE DEF H, wrong, unsure, value
  <2> QED
    BY <2>3, <2>4, <2>5
<1>2. r.head = value /\ r.head.forward = fwd
  <2>1. value.forward = fwd
    OBVIOUS
  <2> HIDE DEF value, fwd, head, wrong, unsure, H
  <2> QED
    BY <1>1, <2>1 DEF Complete
<1>3. again.header = Len(fwd) /\ again.body = limits.body
  BY <1>2 DEF Roomy
<1> DEFINE p == ParseHead(fwd, again)
           G == ParseHeaderLines(Tail(p.lines), again)
<1>4. /\ p.status = "lines" /\ p.size = Len(fwd) /\ p.lines[1] = <<start>>
      /\ G.error = "none" /\ G.length = H.length /\ G.keepAlive = H.keepAlive
      /\ BuildForwardHead(start, G) = fwd
  <2>1. head = ParseHead(bytes, limits) /\ start = head.lines[1][1]
        /\ H = ParseHeaderLines(Tail(head.lines), limits) /\ fwd = BuildForwardHead(start, H)
    OBVIOUS
  <2> HIDE DEF head, start, H, fwd, p, G
  <2>2. ReadAlike(ParseHead(fwd, again), start, H, fwd, again)
    BY <1>1, <1>3, <2>1, ForwardedHead, Zenon
  <2> QED
    BY <2>2 DEF ReadAlike, p, G
<1>5. p.lines[1][1] = start
  <2>1. \A x : <<x>>[1] = x
    OBVIOUS
  <2> QED
    BY <1>4, <2>1, Zenon
<1> DEFINE w(s) == \/ Len(s.words) < 2 \/ s.words[1] # "HTTP/1.1" \/ Len(s.words[2]) # 3
                   \/ ~(Range(s.words[2]) \subseteq 0..9)
                   \/ 100 * s.words[2][1] + 10 * s.words[2][2] + s.words[2][3] \notin 100..599
           c(s) == 100 * s.words[2][1] + 10 * s.words[2][2] + s.words[2][3]
           u(s, h) == IF StatusHasNoBody(c(s)) THEN h.length \notin {Absent, 0}
                                               ELSE h.length = Absent
<1>6. ParseResponseHead(fwd, again) =
        IF p.status # "lines" THEN p
        ELSE IF w(p.lines[1][1]) THEN ParseError("badSyntax")
        ELSE IF G.error # "none" THEN ParseError(G.error)
        ELSE IF u(p.lines[1][1], G) THEN ParseError("unsupportedFraming")
        ELSE Complete([status |-> c(p.lines[1][1]), length |-> LengthOf(G),
                       keepAlive |-> G.keepAlive,
                       forward |-> BuildForwardHead(p.lines[1][1], G)], p.size)
  BY Zenon DEF ParseResponseHead
<1>7. (w(start) <=> wrong) /\ c(start) = code /\ (u(start, G) <=> unsure(G))
  OBVIOUS
<1> HIDE DEF p, G, fwd, start, H, head, w, c, u
<1>8. LengthOf(G) = LengthOf(H) /\ (unsure(G) <=> unsure(H))
  BY <1>4 DEF LengthOf
<1> HIDE DEF wrong, unsure, code
<1>9. ParseResponseHead(fwd, again) = Complete(value, Len(fwd))
  BY <1>1, <1>4, <1>5, <1>6, <1>7, <1>8
<1> QED
  BY <1>2, <1>3, <1>9 DEF Complete

----------------------------------------------------------------------------
(* What a framer says of a head *)

\* What the size, the lines and the headers of a head are to its reader.
HeadIsRead(p, bytes, C, start, hs, limits) ==
  /\ p.status \in {"needMore", "error", "lines"}
  /\ p.status = "needMore" => p = NeedMore /\ Len(bytes) < 5 + 3 * Len(hs)
  /\ p.status = "error" => /\ p = ParseError("headerTooLarge")
                           /\ 5 + 3 * Len(hs) > limits.header
  /\ p.status = "lines" =>
       /\ ~(5 + 3 * Len(hs) > limits.header) /\ 5 + 3 * Len(hs) <= Len(bytes)
       /\ p.size = 5 + 3 * Len(hs) /\ p.lines[1][1] = start
       /\ HeadersRead(ParseHeaderLines(Tail(p.lines), limits), C, hs, limits)

LEMMA HeadRead ==
  ASSUME NEW U, NEW bytes \in Seq(U), NEW C, \A b \in C : HeaderOk(b),
         NEW start \in C, NEW hs \in Seq(C), HeadPart(bytes, start, hs, Len(hs)),
         NEW limits, limits.header \in Nat
  PROVE  HeadIsRead(ParseHead(bytes, limits), bytes, C, start, hs, limits)
<1> DEFINE n == Len(hs)
           p == ParseHead(bytes, limits)
           H == ParseHeaderLines(Tail(p.lines), limits)
<1>1. n \in Nat /\ Len(bytes) \in Nat /\ \A k \in 1..n : hs[k] \in C
  BY LenProperties, ElementOfSeq
<1>2. p = IF Len(bytes) < 3 * n + 5 /\ Len(bytes) < limits.header THEN NeedMore
          ELSE IF Len(bytes) < 3 * n + 5 \/ 3 * n + 5 > limits.header
          THEN ParseError("headerTooLarge")
          ELSE [status |-> "lines", lines |-> HeadLines(start, hs, n), size |-> 3 * n + 5]
  BY ParseHeadFinds
<1>3. HeadersBehind(HeadLines(start, hs, n), start, hs, n)
  <2> HIDE DEF n
  <2> QED
    BY <1>1, TailOfHead
<1> HIDE DEF p
<1>4. NeedMore.status = "needMore" /\ \A e : ParseError(e).status = "error"
  BY DEF NeedMore, ParseError
<1>5. CASE Len(bytes) < 3 * n + 5 /\ Len(bytes) < limits.header
  <2>1. p = NeedMore /\ Len(bytes) < 5 + 3 * n
    BY <1>1, <1>2, <1>5
  <2> QED
    BY <1>4, <2>1 DEF HeadIsRead, n, p
<1>6. CASE ~(Len(bytes) < 3 * n + 5 /\ Len(bytes) < limits.header)
           /\ (Len(bytes) < 3 * n + 5 \/ 3 * n + 5 > limits.header)
  <2>1. p = ParseError("headerTooLarge") /\ 5 + 3 * n > limits.header
    BY <1>1, <1>2, <1>6
  <2>2. p.status = "error"
    BY <1>4, <2>1
  <2> QED
    BY <2>1, <2>2 DEF HeadIsRead, n, p
<1>7. CASE ~(Len(bytes) < 3 * n + 5) /\ ~(3 * n + 5 > limits.header)
  <2>1. p = [status |-> "lines", lines |-> HeadLines(start, hs, n), size |-> 3 * n + 5]
    BY <1>2, <1>7
  <2>2. /\ p.status = "lines" /\ p.lines = HeadLines(start, hs, n) /\ p.size = 5 + 3 * n
        /\ ~(5 + 3 * n > limits.header) /\ 5 + 3 * n <= Len(bytes)
    BY <1>1, <1>7, <2>1
  <2>3. HeadersBehind(p.lines, start, hs, n)
    BY <1>3, <2>2, Zenon
  <2>4. p.lines[1][1] = start
    <3>1. \A x : <<x>>[1] = x
      OBVIOUS
    <3> QED
      BY <2>3, <3>1, Zenon DEF HeadersBehind
  <2> DEFINE ls == Tail(p.lines)
  <2>5. ls = [k \in 1..Len(hs) |-> <<hs[k]>>]
    BY <2>3, Zenon DEF HeadersBehind, n
  <2> HIDE DEF ls
  <2>6. HeadersRead(ParseHeaderLines(ls, limits), C, hs, limits)
    BY <2>5, HeaderLinesOf
  <2> QED
    BY <2>2, <2>4, <2>6 DEF HeadIsRead, n, p, ls
<1> QED
  BY <1>5, <1>6, <1>7

\* An error is that of the first line that is refused, if one is.
FirstIs(error, hs, limits) ==
  LET wrong == {k \in DOMAIN hs : LineError(hs, k, limits) # "none"}
  IN /\ error = "none" <=> wrong = {}
     /\ wrong # {} =>
          LineError(hs, CHOOSE k \in wrong : \A j \in wrong : k <= j, limits) = error

LEMMA FirstWrong ==
  ASSUME NEW H, NEW C, NEW hs \in Seq(C), NEW limits, HeadersRead(H, C, hs, limits)
  PROVE  FirstIs(H.error, hs, limits)
<1> DEFINE n == Len(hs)
           wrong == {k \in DOMAIN hs : LineError(hs, k, limits) # "none"}
           c == CHOOSE k \in wrong : \A j \in wrong : k <= j
<1>1. n \in Nat /\ DOMAIN hs = 1..n
  BY LenProperties
<1>2. CASE H.error = "none"
  <2>1. wrong = {}
    BY <1>1, <1>2 DEF HeadersRead
  <2> QED
    BY <1>2, <2>1 DEF FirstIs
<1>3. CASE H.error # "none"
  <2>1. PICK k \in 1..n : /\ H.error = LineError(hs, k, limits)
                          /\ \A i \in 1..(k - 1) : LineError(hs, i, limits) = "none"
    BY <1>3 DEF HeadersRead
  <2>2. k \in wrong
    BY <1>1, <1>3, <2>1
  <2>3. ASSUME NEW j \in wrong PROVE k <= j
    <3>1. j \in 1..n /\ LineError(hs, j, limits) # "none"
      BY <1>1
    <3> HIDE DEF wrong, n
    <3>2. ~(j \in 1..(k - 1))
      BY <2>1, <3>1
    <3> QED
      BY <1>1, <3>1, <3>2
  <2>4. \A j \in wrong : j \in Int
    BY <1>1
  <2> HIDE DEF wrong
  <2>5. c \in wrong /\ \A j \in wrong : c <= j
    BY <2>2, <2>3
  <2> HIDE DEF c
  <2>6. c = k
    <3>1. c <= k /\ k <= c /\ c \in Int /\ k \in Int
      BY <2>2, <2>3, <2>4, <2>5
    <3> QED
      BY <3>1
  <2> QED
    BY <1>3, <2>1, <2>2, <2>6 DEF c, wrong, FirstIs
<1> QED
  BY <1>2, <1>3

\* What is said of a head: a reason to refuse it, or its length and its wish for the
\* connection.
SaysOf(r, error, bytes, hs) ==
  /\ r.status \in {"needMore", "error", "complete"}
  /\ r.status = "needMore" => Len(bytes) < 5 + 3 * Len(hs)
  /\ r.status = "error" => r.error = error /\ error # "none"
  /\ r.status = "complete" =>
       /\ error = "none" /\ r.used = 5 + 3 * Len(hs) /\ 5 + 3 * Len(hs) <= Len(bytes)
       /\ r.head.length = (IF Length(hs) = Absent THEN 0 ELSE Length(hs))
       /\ r.head.keepAlive = Keeps(hs)

LEMMA RequestRead ==
  ASSUME NEW U, NEW bytes \in Seq(U), NEW C, \A b \in C : HeaderOk(b),
         NEW m, m.start \in C, m.headers \in Seq(C),
         HeadPart(bytes, m.start, m.headers, Len(m.headers)), Limits.header \in Nat,
         Len(m.start.words) >= 2 => IsSeq(m.start.words[2]), Len(m.start.words) \in Nat
  PROVE  LET r == ParseRequestHead(bytes, Limits)
         IN /\ SaysOf(r, RequestError(m), bytes, m.headers)
            /\ r.status = "complete" => r.head.path = m.start.words[2]
<1> DEFINE r == ParseRequestHead(bytes, Limits)
           p == ParseHead(bytes, Limits)
           hs == m.headers
           H == ParseHeaderLines(Tail(p.lines), Limits)
           words == m.start.words
           size == 5 + 3 * Len(hs)
           wrong == {k \in DOMAIN hs : LineError(hs, k, Limits) # "none"}
           first == LineError(hs, CHOOSE k \in wrong : \A j \in wrong : k <= j, Limits)
           error == RequestError(m)
           value == [method |-> words[1], path |-> words[2], length |-> LengthOf(H),
                     keepAlive |-> H.keepAlive, forward |-> BuildForwardHead(m.start, H)]
           slash == words[2] # <<>> /\ words[2][1] = "/"
<1>1. HeadIsRead(p, bytes, C, m.start, hs, Limits)
  BY HeadRead
<1>2. Len(words) >= 2 => (IsPrefix(<<"/">>, words[2]) <=> slash)
  <2> SUFFICES ASSUME Len(words) >= 2 PROVE IsPrefix(<<"/">>, words[2]) <=> slash
    OBVIOUS
  <2> DEFINE t == words[2]
  <2>1. IsSeq(t)
    OBVIOUS
  <2> HIDE DEF t
  <2>2. Len(<<"/">>) = 1 /\ <<"/">>[1] = "/" /\ DOMAIN <<"/">> = {1}
    OBVIOUS
  <2>3. t # <<>> <=> Len(t) >= 1
    BY <2>1, LenNotZero
  <2> QED
    BY <2>1, <2>2, <2>3 DEF IsPrefix, IsSeq, t
<1>3. error = IF size > Limits.header THEN "headerTooLarge"
              ELSE IF Len(words) = 3 /\ words[1] \notin {"GET", "POST"} THEN "unsupportedMethod"
              ELSE IF Len(words) # 3 \/ words[3] # "HTTP/1.1" \/ ~IsPrefix(<<"/">>, words[2])
              THEN "badSyntax"
              ELSE IF wrong # {} THEN first
              ELSE IF words[1] = "POST" /\ Length(hs) = Absent THEN "unsupportedFraming"
              ELSE "none"
  BY DEF RequestError, HeadError
<1>4. r = IF p.status # "lines" THEN p
          ELSE IF Len(p.lines[1][1].words) # 3 THEN ParseError("badSyntax")
          ELSE IF p.lines[1][1].words[1] \notin {"GET", "POST"}
          THEN ParseError("unsupportedMethod")
          ELSE IF p.lines[1][1].words[2] = <<>> \/ p.lines[1][1].words[2][1] # "/"
                  \/ p.lines[1][1].words[3] # "HTTP/1.1"
          THEN ParseError("badSyntax")
          ELSE IF H.error # "none" THEN ParseError(H.error)
          ELSE IF p.lines[1][1].words[1] = "POST" /\ H.length = Absent
          THEN ParseError("unsupportedFraming")
          ELSE Complete([method |-> p.lines[1][1].words[1], path |-> p.lines[1][1].words[2],
                         length |-> LengthOf(H), keepAlive |-> H.keepAlive,
                         forward |-> BuildForwardHead(p.lines[1][1], H)], p.size)
  BY DEF ParseRequestHead
<1> HIDE DEF r, p, H, error, wrong, first
<1>5. CASE p.status = "needMore"
  <2>1. r = NeedMore /\ Len(bytes) < size
    BY <1>1, <1>4, <1>5 DEF HeadIsRead
  <2> QED
    BY <2>1 DEF SaysOf, NeedMore, r
<1>6. CASE p.status = "error"
  <2>1. r = ParseError("headerTooLarge") /\ error = "headerTooLarge"
    BY <1>1, <1>3, <1>4, <1>6 DEF HeadIsRead
  <2> QED
    BY <2>1 DEF SaysOf, ParseError, r, error
<1>7. CASE p.status = "lines"
  <2>1. /\ ~(size > Limits.header) /\ size <= Len(bytes) /\ p.size = size
        /\ p.lines[1][1] = m.start /\ HeadersRead(H, C, hs, Limits)
    BY <1>1, <1>7 DEF HeadIsRead, H
  <2>2. (H.error = "none" <=> wrong = {}) /\ (wrong # {} => first = H.error)
    <3>1. FirstIs(H.error, hs, Limits)
      BY <2>1, FirstWrong
    <3> QED
      BY <3>1 DEF FirstIs, wrong, first
  <2>3. H.error = "none" => H.length = Length(hs) /\ H.keepAlive = Keeps(hs)
    BY <2>1 DEF HeadersRead
  <2> HIDE DEF size, hs, slash, words
  <2>4. r = IF Len(words) # 3 THEN ParseError("badSyntax")
            ELSE IF words[1] \notin {"GET", "POST"} THEN ParseError("unsupportedMethod")
            ELSE IF ~slash \/ words[3] # "HTTP/1.1" THEN ParseError("badSyntax")
            ELSE IF H.error # "none" THEN ParseError(H.error)
            ELSE IF words[1] = "POST" /\ H.length = Absent THEN ParseError("unsupportedFraming")
            ELSE Complete(value, size)
    BY <1>4, <1>7, <2>1 DEF words, slash
  <2>5. error = IF Len(words) = 3 /\ words[1] \notin {"GET", "POST"} THEN "unsupportedMethod"
                ELSE IF Len(words) # 3 \/ words[3] # "HTTP/1.1" \/ ~slash THEN "badSyntax"
                ELSE IF H.error # "none" THEN H.error
                ELSE IF words[1] = "POST" /\ Length(hs) = Absent THEN "unsupportedFraming"
                ELSE "none"
    BY <1>2, <1>3, <2>1, <2>2
  <2>6. value.length = LengthOf(H) /\ value.keepAlive = H.keepAlive /\ value.path = words[2]
    OBVIOUS
  <2> HIDE DEF value
  <2>7. \/ error # "none" /\ r = ParseError(error)
        \/ error = "none" /\ r = Complete(value, size) /\ H.error = "none"
    BY <2>3, <2>4, <2>5
  <2>8. CASE error # "none" /\ r = ParseError(error)
    <3>1. r.status = "error" /\ r.error = error
      BY <2>8 DEF ParseError
    <3> QED
      BY <2>8, <3>1 DEF SaysOf, r, error
  <2>9. CASE error = "none" /\ r = Complete(value, size) /\ H.error = "none"
    <3>1. r.status = "complete" /\ r.head = value /\ r.used = size
      BY <2>9 DEF Complete
    <3>2. LengthOf(H) = (IF Length(hs) = Absent THEN 0 ELSE Length(hs))
      BY <2>3, <2>9 DEF LengthOf
    <3> QED
      BY <2>1, <2>3, <2>6, <2>9, <3>1, <3>2 DEF SaysOf, r, error, size, hs, words
  <2> QED
    BY <2>7, <2>8, <2>9
<1> QED
  BY <1>1, <1>5, <1>6, <1>7 DEF HeadIsRead

\* A status line is one by the rules of the framer or not.
StatusLine(words) ==
  /\ Len(words) >= 2 /\ words[1] = "HTTP/1.1" /\ Len(words[2]) = 3
  /\ Range(words[2]) \subseteq 0..9 /\ words[2][1] \in 1..5

LEMMA StatusLineIs ==
  ASSUME NEW words, Len(words) \in Nat, Len(words) >= 2 => IsSeq(words[2])
  PROVE  StatusLine(words) <=>
           ~(\/ Len(words) < 2 \/ words[1] # "HTTP/1.1" \/ Len(words[2]) # 3
             \/ ~(Range(words[2]) \subseteq 0..9) \/ Code(words[2]) \notin 100..599)
<1> SUFFICES ASSUME Len(words) >= 2, words[1] = "HTTP/1.1", Len(words[2]) = 3,
                    Range(words[2]) \subseteq 0..9
             PROVE  words[2][1] \in 1..5 <=> Code(words[2]) \in 100..599
  BY DEF StatusLine
<1> DEFINE d == words[2]
<1>1. DOMAIN d = 1..3 /\ IsSeq(d)
  BY DEF IsSeq
<1>2. d[1] \in 0..9 /\ d[2] \in 0..9 /\ d[3] \in 0..9
  <2>1. \A i \in DOMAIN d : d[i] \in Range(d)
    BY DEF Range
  <2>2. 1 \in 1..3 /\ 2 \in 1..3 /\ 3 \in 1..3
    OBVIOUS
  <2>3. Range(d) \subseteq 0..9
    OBVIOUS
  <2> HIDE DEF d
  <2> QED
    BY <1>1, <2>1, <2>2, <2>3
<1> HIDE DEF d
<1> DEFINE a == d[1]  b == d[2]  c == d[3]
<1>3. Code(d) = 100 * a + 10 * b + c
  BY DEF Code
<1> HIDE DEF a, b, c
<1>4. a \in 0..9 /\ b \in 0..9 /\ c \in 0..9
  BY <1>2 DEF a, b, c
<1>5. a \in 1..5 <=> Code(d) \in 100..599
  BY <1>3, <1>4
<1> QED
  BY <1>5 DEF a, d

LEMMA ResponseRead ==
  ASSUME NEW U, NEW bytes \in Seq(U), NEW C, \A b \in C : HeaderOk(b),
         NEW m, m.start \in C, m.headers \in Seq(C),
         HeadPart(bytes, m.start, m.headers, Len(m.headers)), Limits.header \in Nat,
         Len(m.start.words) >= 2 => IsSeq(m.start.words[2]), Len(m.start.words) \in Nat
  PROVE  SaysOf(ParseResponseHead(bytes, Limits), ResponseError(m), bytes, m.headers)
<1> DEFINE r == ParseResponseHead(bytes, Limits)
           p == ParseHead(bytes, Limits)
           hs == m.headers
           H == ParseHeaderLines(Tail(p.lines), Limits)
           words == m.start.words
           size == 5 + 3 * Len(hs)
           wrong == {k \in DOMAIN hs : LineError(hs, k, Limits) # "none"}
           first == LineError(hs, CHOOSE k \in wrong : \A j \in wrong : k <= j, Limits)
           error == ResponseError(m)
           code == Code(words[2])
           value == [status |-> code, length |-> LengthOf(H),
                     keepAlive |-> H.keepAlive, forward |-> BuildForwardHead(m.start, H)]
<1>1. HeadIsRead(p, bytes, C, m.start, hs, Limits)
  BY HeadRead
<1>2. StatusLine(words) <=>
        ~(\/ Len(words) < 2 \/ words[1] # "HTTP/1.1" \/ Len(words[2]) # 3
          \/ ~(Range(words[2]) \subseteq 0..9) \/ code \notin 100..599)
  BY StatusLineIs, ZenonT(60)
<1>3. error = IF size > Limits.header THEN "headerTooLarge"
              ELSE IF ~StatusLine(words) THEN "badSyntax"
              ELSE IF wrong # {} THEN first
              ELSE IF IF StatusHasNoBody(code) THEN Length(hs) > 0 ELSE Length(hs) = Absent
              THEN "unsupportedFraming" ELSE "none"
  <2>1. StatusLine(words) <=>
          /\ Len(words) >= 2 /\ words[1] = "HTTP/1.1" /\ Len(words[2]) = 3
          /\ Range(words[2]) \subseteq 0..9 /\ words[2][1] \in 1..5
    BY DEF StatusLine
  <2>2. error = IF size > Limits.header THEN "headerTooLarge"
                ELSE IF (IF /\ Len(words) >= 2 /\ words[1] = "HTTP/1.1" /\ Len(words[2]) = 3
                            /\ Range(words[2]) \subseteq 0..9 /\ words[2][1] \in 1..5
                         THEN "none" ELSE "badSyntax") # "none"
                THEN (IF /\ Len(words) >= 2 /\ words[1] = "HTTP/1.1" /\ Len(words[2]) = 3
                         /\ Range(words[2]) \subseteq 0..9 /\ words[2][1] \in 1..5
                      THEN "none" ELSE "badSyntax")
                ELSE IF wrong # {} THEN first
                ELSE IF IF StatusHasNoBody(code) THEN Length(hs) > 0 ELSE Length(hs) = Absent
                THEN "unsupportedFraming" ELSE "none"
    BY DEF ResponseError, HeadError
  <2> HIDE DEF error, size, wrong, first, words, code, hs
  <2> QED
    BY <2>1, <2>2
<1>4. r = IF p.status # "lines" THEN p
          ELSE IF \/ Len(p.lines[1][1].words) < 2 \/ p.lines[1][1].words[1] # "HTTP/1.1"
                  \/ Len(p.lines[1][1].words[2]) # 3
                  \/ ~(Range(p.lines[1][1].words[2]) \subseteq 0..9)
                  \/ Code(p.lines[1][1].words[2]) \notin 100..599
          THEN ParseError("badSyntax")
          ELSE IF H.error # "none" THEN ParseError(H.error)
          ELSE IF IF StatusHasNoBody(Code(p.lines[1][1].words[2]))
                  THEN H.length \notin {Absent, 0} ELSE H.length = Absent
          THEN ParseError("unsupportedFraming")
          ELSE Complete([status |-> Code(p.lines[1][1].words[2]), length |-> LengthOf(H),
                         keepAlive |-> H.keepAlive,
                         forward |-> BuildForwardHead(p.lines[1][1], H)], p.size)
  BY DEF ParseResponseHead, Code
<1> HIDE DEF r, p, H, error, wrong, first, code
<1>5. CASE p.status = "needMore"
  <2>1. r = NeedMore /\ Len(bytes) < size
    BY <1>1, <1>4, <1>5 DEF HeadIsRead
  <2> QED
    BY <2>1 DEF SaysOf, NeedMore, r
<1>6. CASE p.status = "error"
  <2>1. r = ParseError("headerTooLarge") /\ error = "headerTooLarge"
    BY <1>1, <1>3, <1>4, <1>6 DEF HeadIsRead
  <2> QED
    BY <2>1 DEF SaysOf, ParseError, r, error
<1>7. CASE p.status = "lines"
  <2>1. /\ ~(size > Limits.header) /\ size <= Len(bytes) /\ p.size = size
        /\ p.lines[1][1] = m.start /\ HeadersRead(H, C, hs, Limits)
    BY <1>1, <1>7 DEF HeadIsRead, H
  <2>2. (H.error = "none" <=> wrong = {}) /\ (wrong # {} => first = H.error)
    <3>1. FirstIs(H.error, hs, Limits)
      BY <2>1, FirstWrong
    <3> QED
      BY <3>1 DEF FirstIs, wrong, first
  <2>3. H.error = "none" => H.length = Length(hs) /\ H.keepAlive = Keeps(hs)
    BY <2>1 DEF HeadersRead
  <2>4. H.length \in Nat \cup {Absent}
    BY <2>1 DEF HeadersRead, HeaderStates
  <2> HIDE DEF size, hs, words
  <2>5. r = IF ~StatusLine(words) THEN ParseError("badSyntax")
            ELSE IF H.error # "none" THEN ParseError(H.error)
            ELSE IF IF StatusHasNoBody(code) THEN H.length \notin {Absent, 0} ELSE H.length = Absent
            THEN ParseError("unsupportedFraming")
            ELSE Complete(value, size)
    <3>1. /\ p.lines[1][1].words = words /\ Code(p.lines[1][1].words[2]) = code
          /\ p.status = "lines" /\ p.size = size
      BY <1>7, <2>1 DEF words, code
    <3>2. r = IF \/ Len(words) < 2 \/ words[1] # "HTTP/1.1" \/ Len(words[2]) # 3
                 \/ ~(Range(words[2]) \subseteq 0..9) \/ code \notin 100..599
              THEN ParseError("badSyntax")
              ELSE IF H.error # "none" THEN ParseError(H.error)
              ELSE IF IF StatusHasNoBody(code) THEN H.length \notin {Absent, 0}
                                               ELSE H.length = Absent
              THEN ParseError("unsupportedFraming")
              ELSE Complete([status |-> code, length |-> LengthOf(H),
                             keepAlive |-> H.keepAlive,
                             forward |-> BuildForwardHead(m.start, H)], size)
      BY <1>4, <2>1, <3>1, Zenon
    <3> HIDE DEF code
    <3>3. CASE StatusLine(words)
      BY <1>2, <3>2, <3>3, Zenon
    <3>4. CASE ~StatusLine(words)
      BY <1>2, <3>2, <3>4, Zenon
    <3> QED
      BY <3>3, <3>4
  <2>6. error = IF ~StatusLine(words) THEN "badSyntax"
                ELSE IF H.error # "none" THEN H.error
                ELSE IF IF StatusHasNoBody(code) THEN Length(hs) > 0 ELSE Length(hs) = Absent
                THEN "unsupportedFraming" ELSE "none"
    BY <1>3, <2>1, <2>2
  <2>7. value.length = LengthOf(H) /\ value.keepAlive = H.keepAlive
    OBVIOUS
  <2>8. H.length \notin {Absent, 0} <=> H.length > 0
    BY <2>4 DEF Absent
  <2> HIDE DEF value
  <2>9. \/ error # "none" /\ r = ParseError(error)
        \/ error = "none" /\ r = Complete(value, size) /\ H.error = "none"
    BY <2>3, <2>5, <2>6, <2>8
  <2>10. CASE error # "none" /\ r = ParseError(error)
    <3>1. r.status = "error" /\ r.error = error
      BY <2>10 DEF ParseError
    <3> QED
      BY <2>10, <3>1 DEF SaysOf, r, error
  <2>11. CASE error = "none" /\ r = Complete(value, size) /\ H.error = "none"
    <3>1. r.status = "complete" /\ r.head = value /\ r.used = size
      BY <2>11 DEF Complete
    <3>2. LengthOf(H) = (IF Length(hs) = Absent THEN 0 ELSE Length(hs))
      BY <2>3, <2>11 DEF LengthOf
    <3> QED
      BY <2>1, <2>3, <2>7, <2>11, <3>1, <3>2 DEF SaysOf, r, error, size, hs
  <2> QED
    BY <2>9, <2>10, <2>11
<1> QED
  BY <1>1, <1>5, <1>6, <1>7 DEF HeadIsRead

\* What the head of an encoded response says.
LEMMA EncodedHead ==
  ASSUME NEW m, MessageOk("response", m), Encoded("response", m),
         NEW m0, m0 = [start |-> StartOf("response", m), headers |-> HeadersOf("response", m)]
  PROVE  /\ Length(m0.headers) = Len(m.body) /\ Keeps(m0.headers) = m.keepAlive
         /\ ResponseError(m0) = ReplyError(m)
<1> DEFINE hs == HeadersOf("response", m)
           l == Len(m.body)
           keep == m.keepAlive
           digits == m.digits
           last == ConnectionHeader(keep)
           limits == Limits
<1>1. /\ l \in Nat /\ keep \in BOOLEAN /\ IsSeq(m.body)
      /\ IsSeq(digits) /\ Len(digits) = 3 /\ digits[1] \in 1..5
      /\ \A i \in 1..3 : digits[i] \in 0..9
  BY DEF MessageOk, IsSeq
<1>2. hs = <<FieldHeader("content-type", m), FieldHeader("content-length", m), last>>
  BY DEF HeadersOf
<1>3. /\ hs[1].is = "header" /\ hs[1].name = "content-type"
      /\ hs[2].is = "header" /\ hs[2].name = "content-length" /\ hs[2].num = l
      /\ hs[3] = last
  BY <1>2 DEF FieldHeader
<1>4. Len(hs) = 3 /\ DOMAIN hs = {1, 2, 3}
  BY <1>2
<1>5. last.is = "header" /\ last.name = "connection"
      /\ last.list = IF keep THEN <<"keep-alive">> ELSE <<"close">>
  <2> HIDE DEF keep
  <2> QED
    BY DEF ConnectionHeader
<1>6. last.list # <<>> /\ Range(last.list) = IF keep THEN {"keep-alive"} ELSE {"close"}
  <2>1. \A x : <<x>> # <<>> /\ Range(<<x>>) = {x}
    BY DEF Range
  <2> HIDE DEF keep, last
  <2> QED
    BY <1>5, <2>1
<1> HIDE DEF hs, l, keep, last, limits
<1>7. LineError(hs, 1, limits) = "none"
  BY <1>3 DEF LineError, ConnectionNames
<1>8. LineError(hs, 2, limits) = IF l > limits.body THEN "bodyTooLarge" ELSE "none"
  <2>1. \A j \in 1..2 - 1 : j = 1
    OBVIOUS
  <2>2. l # NotANumber
    BY <1>1 DEF NotANumber
  <2>3. ~\E j \in 1..2 - 1 : hs[j].is = "header" /\ hs[j].name = hs[2].name
                              /\ hs[j].num # hs[2].num
    BY <1>3, <2>1
  <2> QED
    BY <1>3, <2>2, <2>3 DEF LineError, ConnectionNames
<1>9. LineError(hs, 3, limits) = "none"
  <2>1. Range(last.list) \subseteq {"close", "keep-alive"}
    BY <1>6
  <2>2. ParseConnectionTokens(last.list)
    BY <1>6, <2>1 DEF ParseConnectionTokens
  <2> QED
    BY <1>3, <1>5, <2>2 DEF LineError
<1>10. Range(hs) = {hs[1], hs[2], hs[3]}
  BY <1>4 DEF Range
<1>11. Length(hs) = l
  <2>1. {h.num : h \in {g \in Range(hs) : g.is = "header" /\ g.name = "content-length"}} = {l}
    BY <1>3, <1>5, <1>10
  <2> QED
    BY <2>1 DEF Length
<1>12. Keeps(hs) <=> keep
  <2>1. Keeps(hs) <=> "close" \notin Range(last.list)
    BY <1>3, <1>5, <1>10 DEF Keeps, ConnectionNames
  <2> QED
    BY <1>1, <1>6, <2>1
<1>13. Keeps(hs) = keep
  <2>1. Keeps(hs) \in BOOLEAN
    BY DEF Keeps
  <2>2. \A x, y \in BOOLEAN : (x <=> y) => x = y
    OBVIOUS
  <2> QED
    BY <1>1, <1>12, <2>1, <2>2, Zenon
<1> DEFINE wrong == {k \in DOMAIN hs : LineError(hs, k, limits) # "none"}
           first == LineError(hs, CHOOSE k \in wrong : \A j \in wrong : k <= j, limits)
           words == m0.start.words
<1>14. wrong = IF l > limits.body THEN {2} ELSE {}
  BY <1>4, <1>7, <1>8, <1>9
<1>15. wrong # {} => first = "bodyTooLarge"
  <2> HIDE DEF wrong
  <2>1. wrong # {} => wrong = {2} /\ l > limits.body
    BY <1>14
  <2>2. (CHOOSE k \in {2} : \A j \in {2} : k <= j) = 2
    OBVIOUS
  <2> QED
    BY <1>8, <2>1, <2>2
<1>16. words = <<"HTTP/1.1", digits, "reason">> /\ m0.headers = hs
  BY DEF StartOf, hs
<1>17. Len(words) >= 2 /\ words[1] = "HTTP/1.1" /\ words[2] = digits
  BY <1>16
<1>18. Range(digits) \subseteq 0..9
  <2>1. DOMAIN digits = 1..3
    BY <1>1 DEF IsSeq
  <2> QED
    BY <1>1, <2>1 DEF Range
<1>19. ResponseError(m0) =
         IF 5 + 3 * Len(hs) > limits.header THEN "headerTooLarge"
         ELSE IF wrong # {} THEN first
         ELSE IF IF StatusHasNoBody(Code(digits)) THEN Length(hs) > 0 ELSE Length(hs) = Absent
         THEN "unsupportedFraming" ELSE "none"
  <2> DEFINE w == m0.start.words
             line == /\ Len(w) >= 2 /\ w[1] = "HTTP/1.1" /\ Len(w[2]) = 3
                     /\ Range(w[2]) \subseteq 0..9 /\ w[2][1] \in 1..5
             h == m0.headers
  <2>1. line
    BY <1>1, <1>16, <1>17, <1>18
  <2>2. ResponseError(m0) =
          IF 5 + 3 * Len(h) > Limits.header THEN "headerTooLarge"
          ELSE IF (IF line THEN "none" ELSE "badSyntax") # "none"
          THEN (IF line THEN "none" ELSE "badSyntax")
          ELSE IF {k \in DOMAIN h : LineError(h, k, Limits) # "none"} # {}
          THEN LineError(h, CHOOSE k \in {i \in DOMAIN h : LineError(h, i, Limits) # "none"} :
                              \A j \in {i \in DOMAIN h : LineError(h, i, Limits) # "none"} : k <= j,
                         Limits)
          ELSE IF IF StatusHasNoBody(Code(w[2])) THEN Length(h) > 0 ELSE Length(h) = Absent
          THEN "unsupportedFraming" ELSE "none"
    BY DEF ResponseError, HeadError
  <2>3. h = hs /\ w[2] = digits
    BY <1>16, <1>17
  <2> HIDE DEF line, h, w
  <2> QED
    BY <2>1, <2>2, <2>3 DEF wrong, first, limits
<1> HIDE DEF wrong, first
<1>20. l > 0 <=> m.body # <<>>
  <2> DEFINE b == m.body
  <2>1. IsSeq(b) /\ l = Len(b)
    BY <1>1 DEF l
  <2> HIDE DEF b
  <2>2. Len(<<>>) = 0
    OBVIOUS
  <2>3. b # <<>> => Len(b) \in Nat \ {0}
    BY <2>1, LenNotZero
  <2>4. b = <<>> => Len(b) = 0
    BY <2>2
  <2>5. l > 0 <=> b # <<>>
    BY <1>1, <2>1, <2>3, <2>4
  <2> QED
    BY <2>5 DEF b
<1>21. ResponseError(m0) = ReplyError(m)
  <2>1. 5 + 3 * Len(hs) = 14 /\ l # Absent
    BY <1>1, <1>4 DEF Absent
  <2> QED
    BY <1>11, <1>14, <1>15, <1>19, <1>20, <2>1 DEF ReplyError, l, limits
<1> QED
  BY <1>11, <1>13, <1>16, <1>21 DEF l, keep

----------------------------------------------------------------------------
(* What a codec says of a request *)

\* The header lines that have one of the names.
NamedIn(hs, names) == {j \in 1..Len(hs) : hs[j].is = "header" /\ hs[j].name \in names}

\* A header that is found in a head is the one that it has.
FoundIn(k, bytes, hs, names) ==
  /\ k \in 1..(3 * Len(hs) + 5) <=> NamedIn(hs, names) # {}
  /\ \A j \in NamedIn(hs, names) : bytes[k] = hs[j]

LEMMA FoundHeader ==
  ASSUME NEW U, NEW bytes \in Seq(U), NEW start, NEW hs, IsSeq(hs),
         HeadPart(bytes, start, hs, Len(hs)), Len(bytes) >= 3 * Len(hs) + 5,
         NEW names, AtMostOne(hs, names), \A j \in 1..Len(hs) : hs[j].style = "title"
  PROVE  FoundIn(FindHeader(bytes, names), bytes, hs, names)
<1> DEFINE n == Len(hs)
           k == FindHeader(bytes, names)
           N == NamedIn(hs, names)
<1>1. n \in Nat /\ Len(bytes) \in Nat /\ DOMAIN hs = 1..n /\ start.is = "start"
  BY DEF HeadPart, IsSeq
<1>2. /\ k \in 0..Len(bytes)
      /\ k # 0 => bytes[k].is = "header" /\ bytes[k].name \in names
      /\ \A i \in 1..Len(bytes) :
           bytes[i].is = "header" /\ bytes[i].name \in names /\ bytes[i].style = "title"
             => k # 0 /\ k <= i /\ bytes[k].style = "title"
  BY FindHeaderIs
<1> HIDE DEF k
<1>3. HeadPart(bytes, start, hs, n)
  OBVIOUS
<1>4. \A j \in N : j \in 1..n /\ hs[j].is = "header" /\ hs[j].name \in names
  BY DEF NamedIn
<1>5. ASSUME NEW i \in N, NEW j \in N PROVE i = j
  <2> HIDE DEF N
  <2>1. \A l \in {i, j} : hs[l].is = "header" /\ hs[l].name \in names
    BY <1>4
  <2> QED
    BY <1>1, <1>4, <2>1 DEF AtMostOne
<1>6. ASSUME NEW j \in N PROVE k \in 1..(3 * n + 5)
  <2> DEFINE i == 3 * j + 1
  <2>1. j \in 1..n
    BY <1>4
  <2> HIDE DEF n, N
  <2>2. i \in 1..Len(bytes) /\ i <= 3 * n + 5
    BY <1>1, <2>1 DEF n
  <2>3. bytes[i] = hs[j]
    BY <1>3, <2>1, <2>2 DEF HeadPart
  <2>4. hs[j].style = "title"
    BY <2>1 DEF n
  <2> HIDE DEF i
  <2>5. k # 0 /\ k <= i
    BY <1>2, <1>4, <2>2, <2>3, <2>4
  <2> QED
    BY <1>1, <1>2, <2>2, <2>5
<1>7. ASSUME k \in 1..(3 * n + 5) PROVE \E j \in N : bytes[k] = hs[j]
  <2>1. k \in Nat /\ k >= 1 /\ k <= 3 * n + 5 /\ bytes[k].is = "header" /\ bytes[k].name \in names
        /\ k <= Len(bytes)
    BY <1>1, <1>2, <1>7
  <2> HIDE DEF n, N
  <2>2. PICK j \in Nat : k = 3 * j + 1 \/ k = 3 * j + 2 \/ k = 3 * j + 3
    BY <2>1, Thirds
  <2>3. CR.is # "header" /\ LF.is # "header"
    BY DEF CR, LF
  <2>4. CASE k = 3 * j + 3
    <3>1. j \in 0..n
      BY <1>1, <2>1, <2>4
    <3>2. bytes[k] = LF
      BY <1>3, <2>1, <2>4, <3>1 DEF HeadPart
    <3> QED
      BY <2>1, <2>3, <3>2
  <2>5. CASE k = 3 * j + 2
    <3>1. j \in 0..n \/ k = 3 * n + 5
      BY <1>1, <2>1, <2>5
    <3>2. bytes[k] = CR \/ bytes[k] = LF
      BY <1>3, <2>1, <2>5, <3>1 DEF HeadPart
    <3> QED
      BY <2>1, <2>3, <3>2
  <2>6. CASE k = 3 * j + 1
    <3>1. j = 0 \/ j \in 1..n \/ k = 3 * n + 4
      BY <1>1, <2>1, <2>6
    <3>2. CASE j = 0
      <4>1. k = 1
        BY <2>6, <3>2
      <4>2. bytes[1] = start
        BY <1>3, <2>1, <4>1 DEF HeadPart
      <4> QED
        BY <1>1, <2>1, <4>1, <4>2
    <3>3. CASE k = 3 * n + 4
      <4>1. bytes[k] = CR
        BY <1>3, <2>1, <3>3 DEF HeadPart
      <4> QED
        BY <2>1, <2>3, <4>1
    <3>4. CASE j \in 1..n
      <4>1. bytes[k] = hs[j]
        BY <1>3, <2>1, <2>6, <3>4 DEF HeadPart
      <4>2. j \in N
        BY <2>1, <3>4, <4>1 DEF N, n, NamedIn
      <4> QED
        BY <4>1, <4>2
    <3> QED
      BY <3>1, <3>2, <3>3, <3>4
  <2> QED
    BY <2>2, <2>4, <2>5, <2>6
<1>8. k \in 1..(3 * n + 5) <=> N # {}
  BY <1>6, <1>7
<1>9. ASSUME NEW j \in N PROVE bytes[k] = hs[j]
  BY <1>5, <1>6, <1>7, <1>9
<1> QED
  BY <1>8, <1>9 DEF FoundIn, k

\* What is found is what the message says.
FoundValues(cl, conn, bytes, hs, size) ==
  /\ (IF cl \in 1..size /\ bytes[cl].num # NotANumber THEN bytes[cl].num ELSE 0)
       = (IF Length(hs) = Absent THEN 0 ELSE Length(hs))
  /\ (~(conn \in 1..size /\ "close" \in Range(bytes[conn].list))) = Keeps(hs)

LEMMA FoundSays ==
  ASSUME NEW bytes, NEW hs, IsSeq(hs), NEW cl, FoundIn(cl, bytes, hs, {"content-length"}),
         NEW conn, FoundIn(conn, bytes, hs, ConnectionNames), NEW size, size = 3 * Len(hs) + 5,
         AtMostOne(hs, {"content-length"}), AtMostOne(hs, ConnectionNames)
  PROVE  FoundValues(cl, conn, bytes, hs, size)
<1> DEFINE L == NamedIn(hs, {"content-length"})
           N == NamedIn(hs, ConnectionNames)
           n == Len(hs)
<1>1. n \in Nat /\ DOMAIN hs = 1..n /\ Range(hs) = {hs[j] : j \in 1..n}
  BY DEF IsSeq, Range
<1>2. \A j : j \in L <=> j \in 1..n /\ hs[j].is = "header" /\ hs[j].name = "content-length"
  BY DEF NamedIn
<1>3. \A j : j \in N <=> j \in 1..n /\ hs[j].is = "header" /\ hs[j].name \in ConnectionNames
  BY DEF NamedIn
<1> HIDE DEF L, N
<1>4. /\ cl \in 1..size <=> L # {}
      /\ conn \in 1..size <=> N # {}
      /\ \A j \in L : bytes[cl] = hs[j]
      /\ \A j \in N : bytes[conn] = hs[j]
  BY DEF FoundIn, L, N
<1>5. (\A i, j \in L : i = j) /\ \A i, j \in N : i = j
  <2>1. ASSUME NEW i \in L, NEW j \in L PROVE i = j
    <3>1. \A l \in {i, j} : hs[l].is = "header" /\ hs[l].name \in {"content-length"}
      BY <1>2
    <3> QED
      BY <1>1, <1>2, <3>1 DEF AtMostOne
  <2>2. ASSUME NEW i \in N, NEW j \in N PROVE i = j
    <3>1. \A l \in {i, j} : hs[l].is = "header" /\ hs[l].name \in ConnectionNames
      BY <1>3
    <3> QED
      BY <1>1, <1>3, <3>1 DEF AtMostOne
  <2> QED
    BY <2>1, <2>2
<1> DEFINE nums == {h.num : h \in {g \in Range(hs) : g.is = "header" /\ g.name = "content-length"}}
<1>6. nums = {hs[j].num : j \in L}
  <2>1. \A x : x \in nums <=>
          \E j \in 1..n : hs[j].is = "header" /\ hs[j].name = "content-length" /\ x = hs[j].num
    BY <1>1
  <2> HIDE DEF nums
  <2>2. \A x : x \in nums <=> x \in {hs[j].num : j \in L}
    BY <1>2, <2>1
  <2> QED
    BY <2>2
<1>7. Length(hs) = IF nums = {} THEN Absent ELSE CHOOSE x \in nums : TRUE
  BY DEF Length
<1> HIDE DEF nums
<1>8. (IF cl \in 1..size /\ bytes[cl].num # NotANumber THEN bytes[cl].num ELSE 0)
        = (IF Length(hs) = Absent THEN 0 ELSE Length(hs))
  <2>1. CASE L = {}
    BY <1>4, <1>6, <1>7, <2>1
  <2>2. CASE L # {}
    <3>1. PICK j \in L : TRUE
      BY <2>2
    <3>2. nums = {hs[j].num}
      BY <1>5, <1>6, <3>1
    <3>3. Length(hs) = hs[j].num
      BY <1>7, <3>2
    <3>4. bytes[cl].num = hs[j].num /\ cl \in 1..size
      BY <1>4, <2>2, <3>1
    <3> QED
      BY <3>3, <3>4 DEF NotANumber, Absent
  <2> QED
    BY <2>1, <2>2
<1>9. Keeps(hs) <=> \A j \in N : "close" \notin Range(hs[j].list)
  BY <1>1, <1>3 DEF Keeps
<1>10. ~(conn \in 1..size /\ "close" \in Range(bytes[conn].list)) <=> Keeps(hs)
  <2>1. CASE N = {}
    BY <1>4, <1>9, <2>1
  <2>2. CASE N # {}
    <3>1. PICK j \in N : TRUE
      BY <2>2
    <3>2. bytes[conn] = hs[j] /\ conn \in 1..size /\ \A i \in N : i = j
      BY <1>4, <1>5, <2>2, <3>1
    <3>3. Keeps(hs) <=> "close" \notin Range(hs[j].list)
      BY <1>9, <3>1, <3>2
    <3> QED
      BY <3>2, <3>3
  <2> QED
    BY <2>1, <2>2
<1> DEFINE b == ~(conn \in 1..size /\ "close" \in Range(bytes[conn].list))
<1>11. b = Keeps(hs)
  <2>1. Keeps(hs) \in BOOLEAN /\ b \in BOOLEAN
    BY DEF Keeps
  <2>2. \A x, y \in BOOLEAN : (x <=> y) => x = y
    OBVIOUS
  <2>3. b <=> Keeps(hs)
    BY <1>10
  <2> HIDE DEF b
  <2> QED
    BY <2>1, <2>2, <2>3, Zenon
<1> QED
  BY <1>8, <1>11 DEF FoundValues

\* Bytes that begin like a message, as far as they go.
MessagePart(bytes, start, hs, content) ==
  /\ HeadPart(bytes, start, hs, Len(hs)) /\ IsSeq(hs) /\ IsSeq(content)
  /\ \A i \in 1..Len(content) :
       3 * Len(hs) + 5 + i <= Len(bytes) => bytes[3 * Len(hs) + 5 + i] = content[i]

\* The request m, as it is found in bytes that are a part of it or more.
DecodesTo(r, bytes, m, isRequest, other) ==
  r = IF Len(bytes) < 3 * Len(m.headers) + 5 THEN Incomplete
      ELSE IF ~isRequest THEN other
      ELSE IF Len(bytes) < 3 * Len(m.headers) + 5 + Len(m.body) THEN Incomplete
      ELSE Complete([method |-> m.start.words[1], path |-> m.start.words[2],
                     keepAlive |-> Keeps(m.headers), body |-> m.body],
                    3 * Len(m.headers) + 5 + Len(m.body))

LEMMA RequestDecoded ==
  ASSUME NEW U, NEW bytes \in Seq(U), NEW m, MessagePart(bytes, m.start, m.headers, m.body),
         Len(m.body) = OfHead(m).length,
         AtMostOne(m.headers, {"content-length"}), AtMostOne(m.headers, ConnectionNames),
         \A j \in 1..Len(m.headers) : m.headers[j].style = "title",
         NEW isRequest, NEW other
  PROVE  DecodesTo(DecodeRequest(bytes, isRequest, other), bytes, m, isRequest, other)
<1> DEFINE hs == m.headers
           n == Len(hs)
           l == Len(m.body)
           head == 3 * n + 5
           size == FindHeaderBytes(bytes)
           words == FirstLine(bytes)[1].words
           cl == FindHeader(bytes, {"content-length"})
           conn == FindHeader(bytes, ConnectionNames)
           length == IF cl \in 1..size /\ bytes[cl].num # NotANumber THEN bytes[cl].num ELSE 0
           total == size + length
           keep == ~(conn \in 1..size /\ "close" \in Range(bytes[conn].list))
           part == SubSeq(bytes, size + 1, size + length)
           r == DecodeRequest(bytes, isRequest, other)
<1> SUFFICES r = IF Len(bytes) < 3 * Len(m.headers) + 5 THEN Incomplete
                 ELSE IF ~isRequest THEN other
                 ELSE IF Len(bytes) < 3 * Len(m.headers) + 5 + Len(m.body) THEN Incomplete
                 ELSE Complete([method |-> m.start.words[1], path |-> m.start.words[2],
                                keepAlive |-> Keeps(m.headers), body |-> m.body],
                               3 * Len(m.headers) + 5 + Len(m.body))
  BY DEF DecodesTo
<1>1. n \in Nat /\ l \in Nat /\ Len(bytes) \in Nat
  BY DEF MessagePart, IsSeq, HeadPart
<1>2. HeadPart(bytes, m.start, hs, n) /\ IsSeq(hs) /\ IsSeq(m.body)
  BY DEF MessagePart
<1>3. size = IF Len(bytes) >= head THEN head ELSE 0
  BY <1>2, HeadSize
<1>4. r = IF size = 0 THEN Incomplete ELSE IF ~isRequest THEN other
          ELSE IF Len(bytes) < total THEN Incomplete
          ELSE Complete([method |-> words[1], path |-> words[2], keepAlive |-> keep,
                         body |-> part], total)
  BY DEF DecodeRequest
<1>5. CASE Len(bytes) < head
  <2>1. size = 0
    BY <1>1, <1>3, <1>5
  <2> HIDE DEF size, r, total, words, keep, part
  <2> QED
    BY <1>4, <1>5, <2>1 DEF r, head, n, hs
<1>6. CASE ~(Len(bytes) < head)
  <2>1. size = head /\ size # 0 /\ Len(bytes) >= head
    BY <1>1, <1>3, <1>6
  <2>2. words = m.start.words
    <3>1. Lines(SubSeq(bytes, 1, head)) = HeadLines(m.start, hs, n)
      BY <1>2, <2>1, HeadLinesFound
    <3>2. FirstLine(bytes) = HeadLines(m.start, hs, n)[1]
      BY <2>1, <3>1 DEF FirstLine
    <3>3. 1 \in 1..(n + 1)
      BY <1>1
    <3>4. HeadLines(m.start, hs, n)[1] = <<m.start>>
      BY <3>3 DEF HeadLines
    <3> DEFINE f == FirstLine(bytes)
    <3>5. f = <<m.start>>
      BY <3>2, <3>4
    <3> HIDE DEF f
    <3>6. f[1] = m.start
      BY <3>5
    <3> QED
      BY <3>6 DEF f
  <2>3. FoundIn(cl, bytes, hs, {"content-length"}) /\ FoundIn(conn, bytes, hs, ConnectionNames)
    BY <1>2, <2>1, FoundHeader
  <2> HIDE DEF cl, conn, size, words, r
  <2>4. length = (IF Length(hs) = Absent THEN 0 ELSE Length(hs)) /\ keep = Keeps(hs)
    <3>1. size = 3 * Len(hs) + 5
      BY <2>1 DEF head, n
    <3> HIDE DEF hs, head, n, length, keep
    <3>2. IsSeq(hs) /\ AtMostOne(hs, {"content-length"}) /\ AtMostOne(hs, ConnectionNames)
      BY <1>2 DEF hs
    <3>3. FoundValues(cl, conn, bytes, hs, size)
      BY <2>3, <3>1, <3>2, FoundSays
    <3> QED
      BY <3>3, Zenon DEF FoundValues, length, keep
  <2>5. length = l
    <3>1. OfHead(m).length = (IF Length(hs) = Absent THEN 0 ELSE Length(hs))
      BY DEF OfHead
    <3> HIDE DEF length
    <3> QED
      BY <2>4, <3>1
  <2> HIDE DEF length, keep
  <2>6. total = head + l /\ head \in Nat
    BY <1>1, <2>1, <2>5
  <2>7. CASE Len(bytes) < head + l
    <3> HIDE DEF total, head, part
    <3> QED
      BY <1>4, <1>6, <2>1, <2>6, <2>7 DEF r, head, n, hs, l
  <2>8. CASE ~(Len(bytes) < head + l)
    <3> DEFINE e == head + l
               q == SubSeq(bytes, head + 1, e)
               content == m.body
    <3>1. e \in Nat /\ head <= e /\ e <= Len(bytes) /\ e - head = l
      BY <1>1, <2>6, <2>8
    <3>2. part = q
      BY <2>1, <2>5
    <3> HIDE DEF e, part, content
    <3>3. q \in Seq(U) /\ Len(q) = e - head /\ \A i \in 1..(e - head) : q[i] = bytes[head + i]
      <4> HIDE DEF head
      <4> QED
        BY <2>6, <3>1, Part
    <3>4. \A i \in 1..l : q[i] = content[i]
      <4>1. \A i \in 1..l : head + i <= Len(bytes) => bytes[head + i] = m.body[i]
        BY DEF MessagePart
      <4>2. \A i \in 1..l : head + i <= Len(bytes)
        BY <1>1, <2>6, <3>1 DEF e
      <4> HIDE DEF q, head, l
      <4> QED
        BY <3>1, <3>3, <4>1, <4>2 DEF content
    <3> HIDE DEF q
    <3>5. q = content
      <4>1. q = [i \in 1..l |-> q[i]]
        BY <3>1, <3>3, LenProperties
      <4>2. content = [i \in 1..l |-> content[i]]
        BY <1>2 DEF IsSeq, content
      <4> QED
        BY <3>4, <4>1, <4>2
    <3>6. part = m.body
      BY <3>2, <3>5 DEF content
    <3> HIDE DEF total, head
    <3> QED
      BY <1>4, <1>6, <2>1, <2>2, <2>4, <2>6, <2>8, <3>6 DEF r, head, n, hs, l
  <2> QED
    BY <2>7, <2>8
<1> QED
  BY <1>5, <1>6

----------------------------------------------------------------------------
(* The bytes behind the messages that were read *)

\* The bytes after the first k messages of a stream begin like the next one.
LEMMA MessageBehind ==
  ASSUME NEW j, JobOk(j), j.decoder # "rpc", NEW s, StreamIs(j, s),
         NEW k \in 0..Count(j), k < Count(j), NEW e \in Off(j, k)..Len(s),
         NEW bytes, BehindIs(j, s, k, e, bytes), NEW m, m = j.messages[k + 1]
  PROVE  LET hs == HeadersOf(j.decoder, m)
         IN /\ MessageOk(j.decoder, m) /\ Len(hs) \in Nat /\ Len(m.body) \in Nat
            /\ MessagePart(bytes, StartOf(j.decoder, m), hs, m.body)
            /\ e = Len(s) => Len(bytes) >= 3 * Len(hs) + 5 + Len(m.body)
            /\ Off(j, k + 1) = Off(j, k) + 3 * Len(hs) + 5 + Len(m.body)
<1> DEFINE d == j.decoder
           hs == HeadersOf(d, m)
           start == StartOf(d, m)
           n == Len(hs)
           q == MessageOf(j, k + 1)
           l == Len(m.body)
<1>1. /\ k + 1 \in 1..Count(j) /\ Len(q) \in Nat /\ bytes \in Seq(ByteSet(j))
      /\ e = Len(s) => Len(bytes) >= Len(q)
      /\ \A i \in 1..Len(bytes) : i <= Len(q) => bytes[i] = q[i]
      /\ Len(bytes) \in Nat
  BY DEF BehindIs
<1>2. MessageOk(d, m) /\ d \in Decoders \ {"rpc"}
  BY <1>1, MessageOfIs DEF JobOk
<1>3. Off(j, k + 1) = Off(j, k) + Len(q) /\ Off(j, k) \in Nat
  <2>1. Off(j, k + 1) = Off(j, (k + 1) - 1) + Len(q)
    BY <1>1 DEF StreamIs
  <2>2. (k + 1) - 1 = k
    OBVIOUS
  <2> HIDE DEF q
  <2> QED
    BY <2>1, <2>2 DEF StreamIs
<1> HIDE DEF d
<1>4. /\ n \in Nat /\ l \in Nat /\ Len(q) = 3 * n + 5 + l
      /\ MessageCells(q, start, hs, n, m.body)
  BY <1>2, MessageBytes DEF MessageOf, d
<1>5. /\ start.is = "start" /\ IsSeq(hs) /\ IsSeq(m.body)
      /\ \A i \in 1..n : hs[i].is \in {"header", "malformed"}
  BY <1>2, MessageShape
<1> HIDE DEF q, hs, start, n, l
<1>6. HeadCells(q, start, hs, n) /\ \A i \in 1..l : q[3 * n + 5 + i] = m.body[i]
  BY <1>4 DEF MessageCells, l
<1>7. \A i \in Nat : 1 <= i /\ i <= Len(bytes) /\ i <= 3 * n + 5 + l => bytes[i] = q[i]
  BY <1>1, <1>4
<1>8. HeadPart(bytes, start, hs, n)
  <2>1. 1 <= Len(bytes) => bytes[1] = start
    BY <1>4, <1>6, <1>7, SMTT(30) DEF HeadCells
  <2>2. \A i \in 0..n : 3 * i + 2 <= Len(bytes) => bytes[3 * i + 2] = CR
    <3> SUFFICES ASSUME NEW i \in 0..n, 3 * i + 2 <= Len(bytes)
                 PROVE  bytes[3 * i + 2] = CR
      OBVIOUS
    <3>1. bytes[3 * i + 2] = q[3 * i + 2]
      BY <1>4, <1>7
    <3>2. i = 0 \/ i \in 1..n
      BY <1>4
    <3> QED
      BY <1>6, <3>1, <3>2 DEF HeadCells
  <2>3. \A i \in 0..n : 3 * i + 3 <= Len(bytes) => bytes[3 * i + 3] = LF
    <3> SUFFICES ASSUME NEW i \in 0..n, 3 * i + 3 <= Len(bytes)
                 PROVE  bytes[3 * i + 3] = LF
      OBVIOUS
    <3>1. bytes[3 * i + 3] = q[3 * i + 3]
      BY <1>4, <1>7
    <3>2. i = 0 \/ i \in 1..n
      BY <1>4
    <3> QED
      BY <1>6, <3>1, <3>2 DEF HeadCells
  <2>4. \A i \in 1..n : 3 * i + 1 <= Len(bytes) => bytes[3 * i + 1] = hs[i]
    <3> SUFFICES ASSUME NEW i \in 1..n, 3 * i + 1 <= Len(bytes)
                 PROVE  bytes[3 * i + 1] = hs[i]
      OBVIOUS
    <3>1. bytes[3 * i + 1] = q[3 * i + 1]
      BY <1>4, <1>7
    <3> QED
      BY <1>6, <3>1 DEF HeadCells
  <2>5. /\ 3 * n + 4 <= Len(bytes) => bytes[3 * n + 4] = CR
        /\ 3 * n + 5 <= Len(bytes) => bytes[3 * n + 5] = LF
    <3>1. /\ 3 * n + 4 <= Len(bytes) => bytes[3 * n + 4] = q[3 * n + 4]
          /\ 3 * n + 5 <= Len(bytes) => bytes[3 * n + 5] = q[3 * n + 5]
      <4>1. /\ 3 * n + 4 \in Nat /\ 1 <= 3 * n + 4 /\ 3 * n + 4 <= 3 * n + 5 + l
            /\ 3 * n + 5 \in Nat /\ 1 <= 3 * n + 5 /\ 3 * n + 5 <= 3 * n + 5 + l
        BY <1>4
      <4> QED
        BY ONLY <1>7, <4>1
    <3>2. q[3 * n + 4] = CR /\ q[3 * n + 5] = LF
      BY ONLY <1>6 DEF HeadCells
    <3> QED
      BY ONLY <3>1, <3>2
  <2> QED
    BY <1>1, <1>4, <1>5, <2>1, <2>2, <2>3, <2>4, <2>5 DEF HeadPart
<1>9. \A i \in 1..l : 3 * n + 5 + i <= Len(bytes) => bytes[3 * n + 5 + i] = m.body[i]
  BY <1>4, <1>6, <1>7
<1>10. MessagePart(bytes, start, hs, m.body)
  BY <1>5, <1>8, <1>9 DEF MessagePart, n, l
<1>11. /\ e = Len(s) => Len(bytes) >= 3 * n + 5 + l
       /\ Off(j, k + 1) = Off(j, k) + 3 * n + 5 + l
  BY <1>1, <1>3, <1>4
<1>12. /\ MessageOk(d, m) /\ n \in Nat /\ l \in Nat /\ MessagePart(bytes, start, hs, m.body)
       /\ e = Len(s) => Len(bytes) >= 3 * n + 5 + l
       /\ Off(j, k + 1) = Off(j, k) + 3 * n + 5 + l
  BY <1>2, <1>4, <1>10, <1>11
<1> QED
  BY ONLY <1>12 DEF d, hs, start, n, l

=============================================================================
