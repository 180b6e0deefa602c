----------------------------- MODULE SeqLemmas ------------------------------
(* Facts about least elements and about removing an element of a sequence,  *)
(* used by the proofs of several components.                                *)
EXTENDS Naturals, Integers, Sequences, SequencesExt, SequenceTheorems,
        FiniteSetTheorems, WellFoundedInduction, TLAPS

\* A non-empty set of naturals has a least element (the "first" slot or index).
LEMMA LeastExists ==
  ASSUME NEW S \in SUBSET Nat, S # {}
  PROVE  \E x \in S : \A y \in S : x <= y
<1> DEFINE R == {ss \in Nat \X Nat : ss[1] < ss[2]}
<1>1. IsWellFoundedOn(R, Nat)
  BY NatLessThanWellFounded, Zenon DEF OpToRel
<1>2. PICK x \in S : \A y \in S : ~ (<<y, x>> \in R)
  <2> HIDE DEF R
  <2>. QED BY <1>1, WFMin
<1>3. \A y \in S : ~ (y < x)
  BY <1>2
<1>. QED BY <1>3

\* Among sets within a finite one, some is such that none within it is another.
LEMMA SmallestExists ==
  ASSUME NEW S, IsFiniteSet(S), NEW B \in SUBSET (SUBSET S), B # {}
  PROVE  \E T \in B : \A R \in SUBSET T : R \in B => R = T
<1> DEFINE sizes == {Cardinality(T) : T \in B}
<1>1. \A T \in SUBSET S : IsFiniteSet(T) /\ Cardinality(T) \in Nat
  BY FS_Subset, FS_CardinalityType
<1>2. sizes \in SUBSET Nat /\ sizes # {}
  BY <1>1
<1>3. PICK least \in sizes : \A size \in sizes : least <= size
  <2> HIDE DEF sizes
  <2>. QED BY <1>2, LeastExists
<1>4. PICK T \in B : least = Cardinality(T)
  BY <1>3
<1>5. ASSUME NEW R \in SUBSET T, R \in B PROVE R = T
  <2>1. IsFiniteSet(T) /\ Cardinality(R) <= Cardinality(T)
    BY <1>1, FS_Subset
  <2>2. Cardinality(T) <= Cardinality(R)
    BY <1>3, <1>4, <1>5
  <2>. QED BY <2>1, <2>2, <1>1, FS_Subset
<1>. QED BY <1>5

\* list.remove(): what is left is a sequence over the same set.
LEMMA RemoveFirstType ==
  ASSUME NEW S, NEW s \in Seq(S), NEW e
  PROVE  RemoveFirst(s, e) \in Seq(S)
<1>1. CASE \E i \in 1..Len(s) : s[i] = e
  <2> DEFINE I == {i \in 1..Len(s) : s[i] = e}
  <2>1. I # {} /\ I \in SUBSET Nat
    BY <1>1
  <2>2. Min(I) \in I
    BY <2>1, LeastExists DEF Min
  <2>3. RemoveFirst(s, e) = RemoveAt(s, Min(I))
    BY <1>1, <2>1, Zenon DEF RemoveFirst, SelectInSeq
  <2>4. PICK k \in 1..Len(s) : RemoveFirst(s, e) = RemoveAt(s, k)
    BY <2>2, <2>3
  <2>5. SubSeq(s, 1, k-1) \in Seq(S) /\ SubSeq(s, k+1, Len(s)) \in Seq(S)
    BY <2>4, SubSeqProperties
  <2>. QED BY <2>4, <2>5, ConcatProperties DEF RemoveAt
<1>2. CASE ~ \E i \in 1..Len(s) : s[i] = e
  BY <1>2 DEF RemoveFirst
<1>. QED BY <1>1, <1>2

\* list.remove() takes out one place and leaves the order of the others.
LEMMA RemoveFirstAt ==
  ASSUME NEW S, NEW s \in Seq(S), NEW e, \E i \in 1..Len(s) : s[i] = e
  PROVE  \E k \in 1..Len(s) :
            /\ s[k] = e
            /\ \A j \in 1..Len(s) : s[j] = e => k <= j
            /\ Len(RemoveFirst(s, e)) = Len(s) - 1
            /\ \A i \in 1..Len(s) - 1 :
                 RemoveFirst(s, e)[i] = IF i < k THEN s[i] ELSE s[i + 1]
<1> DEFINE I == {i \in 1..Len(s) : s[i] = e}
<1>1. I # {} /\ I \in SUBSET Nat
  OBVIOUS
<1>2. Min(I) \in I /\ \A j \in I : Min(I) <= j
  BY <1>1, LeastExists DEF Min
<1>3. RemoveFirst(s, e) = RemoveAt(s, Min(I))
  BY <1>1, Zenon DEF RemoveFirst, SelectInSeq
<1>4. PICK k \in 1..Len(s) : /\ s[k] = e
                             /\ \A j \in 1..Len(s) : s[j] = e => k <= j
                             /\ RemoveFirst(s, e) = RemoveAt(s, k)
  BY <1>2, <1>3
<1> DEFINE a == SubSeq(s, 1, k - 1)
           b == SubSeq(s, k + 1, Len(s))
<1>5. /\ a \in Seq(S) /\ Len(a) = k - 1
      /\ \A i \in 1..k - 1 : a[i] = s[i]
  BY <1>4, SubSeqProperties
<1>6. /\ b \in Seq(S) /\ Len(b) = Len(s) - k
      /\ \A i \in 1..Len(s) - k : b[i] = s[k + i]
  BY <1>4, SubSeqProperties
<1>7. RemoveFirst(s, e) = a \o b
  BY <1>4 DEF RemoveAt
<1> HIDE DEF a, b
<1>8. /\ Len(a \o b) = Len(s) - 1
      /\ \A i \in 1..Len(s) - 1 : (a \o b)[i] = IF i < k THEN a[i] ELSE b[i - k + 1]
  <2>1. /\ Len(a \o b) = Len(a) + Len(b)
        /\ \A i \in 1..Len(a) + Len(b) :
             (a \o b)[i] = IF i <= Len(a) THEN a[i] ELSE b[i - Len(a)]
    BY <1>5, <1>6, ConcatProperties
  <2>2. /\ Len(s) \in Nat /\ k \in Nat /\ Len(a) + Len(b) = Len(s) - 1
        /\ \A i \in 1..Len(s) - 1 : /\ i <= Len(a) <=> i < k
                                   /\ i - Len(a) = i - k + 1
    BY <1>4, <1>5, <1>6
  <2> HIDE DEF I
  <2>. QED BY <2>1, <2>2
<1>9. \A i \in 1..Len(s) - 1 : (a \o b)[i] = IF i < k THEN s[i] ELSE s[i + 1]
  <2> SUFFICES ASSUME NEW i \in 1..Len(s) - 1
               PROVE  (a \o b)[i] = IF i < k THEN s[i] ELSE s[i + 1]
    OBVIOUS
  <2>1. CASE i < k
    BY <1>5, <1>8, <2>1
  <2>2. CASE ~(i < k)
    <3>1. i - k + 1 \in 1..Len(s) - k /\ k + (i - k + 1) = i + 1
      BY <2>2
    <3>. QED BY <1>6, <1>8, <2>2, <3>1
  <2>. QED BY <2>1, <2>2
<1>10. \A i \in 1..Len(s) - 1 :
         RemoveFirst(s, e)[i] = IF i < k THEN s[i] ELSE s[i + 1]
  BY <1>7, <1>9
<1>. QED BY ONLY <1>4, <1>7, <1>8, <1>10

\* A sequence without repetitions, and the set of its elements.
NoRepeats(s) == \A i, j \in 1..Len(s) : s[i] = s[j] => i = j
Elements(s) == {s[i] : i \in 1..Len(s)}

\* A waiting list without repetitions loses exactly what is removed from it ...
LEMMA RemoveFirstElements ==
  ASSUME NEW S, NEW s \in Seq(S), NEW e, NoRepeats(s)
  PROVE  /\ NoRepeats(RemoveFirst(s, e))
         /\ Elements(RemoveFirst(s, e)) = Elements(s) \ {e}
<1>1. CASE ~ \E i \in 1..Len(s) : s[i] = e
  <2>1. RemoveFirst(s, e) = s
    BY <1>1 DEF RemoveFirst
  <2>. QED BY <1>1, <2>1 DEF Elements
<1>2. CASE \E i \in 1..Len(s) : s[i] = e
  <2> DEFINE r == RemoveFirst(s, e)
  <2>1. PICK k \in 1..Len(s) :
            /\ s[k] = e
            /\ Len(r) = Len(s) - 1
            /\ \A i \in 1..Len(s) - 1 : r[i] = IF i < k THEN s[i] ELSE s[i + 1]
    BY <1>2, RemoveFirstAt
  <2> HIDE DEF r
  <2>2. NoRepeats(r)
    BY <2>1 DEF NoRepeats
  <2>3. ASSUME NEW x \in Elements(r)
        PROVE  x \in Elements(s) \ {e}
    BY <2>1 DEF NoRepeats, Elements
  <2>4. ASSUME NEW x \in Elements(s), x # e
        PROVE  x \in Elements(r)
    <3>1. PICK i \in 1..Len(s) : s[i] = x
      BY DEF Elements
    <3>2. i # k
      BY <2>1, <2>4, <3>1
    <3>3. CASE i < k
      BY <2>1, <3>1, <3>3 DEF Elements
    <3>4. CASE i > k
      <4>1. i - 1 \in 1..Len(s) - 1 /\ r[i - 1] = x
        BY <2>1, <3>1, <3>4
      <4>. QED BY <2>1, <4>1 DEF Elements
    <3>. QED BY <3>2, <3>3, <3>4
  <2>. QED BY <2>2, <2>3, <2>4 DEF r
<1>. QED BY <1>1, <1>2

\* ... and gains exactly what is appended to it.
LEMMA AppendElements ==
  ASSUME NEW S, NEW s \in Seq(S), NEW e \in S
  PROVE  /\ Elements(Append(s, e)) = Elements(s) \cup {e}
         /\ NoRepeats(s) /\ e \notin Elements(s) => NoRepeats(Append(s, e))
<1> DEFINE r == Append(s, e)
<1>1. /\ Len(r) = Len(s) + 1 /\ r[Len(s) + 1] = e
      /\ \A i \in 1..Len(s) : r[i] = s[i]
  BY AppendProperties
<1> HIDE DEF r
<1>2. Elements(r) = Elements(s) \cup {e}
  BY <1>1 DEF Elements
<1>3. NoRepeats(s) /\ e \notin Elements(s) => NoRepeats(r)
  BY <1>1 DEF NoRepeats, Elements
<1>. QED BY <1>2, <1>3 DEF r

\* A set of numbers that holds 1 and the successor of each of its members below n
\* holds 1..n: induction, stated for a set.
LEMMA ReachesAll ==
  ASSUME NEW n \in Nat, NEW X, 1 \in X, \A i \in 1..n - 1 : i \in X => i + 1 \in X
  PROVE  \A i \in 1..n : i \in X
<1> DEFINE Missing == {i \in 1..n : i \notin X}
<1>1. SUFFICES ASSUME Missing # {} PROVE FALSE
  OBVIOUS
<1>2. Missing \in SUBSET Nat
  OBVIOUS
<1>3. PICK least \in Missing : \A i \in Missing : least <= i
  <2> HIDE DEF Missing
  <2>. QED BY <1>1, <1>2, LeastExists
<1>4. least \in 2..n /\ least \notin X
  BY <1>3
<1>5. least - 1 \in 1..n - 1 /\ least - 1 \notin Missing
  BY <1>3, <1>4
<1>6. least - 1 \in X
  BY <1>4, <1>5
<1>. QED BY <1>4, <1>5, <1>6

\* FlattenSeq: the concatenations of the first, the first two, ... sequences.
Joins(f, seqs, n) ==
  f[1] = seqs[1] /\ \A i \in 2..n : f[i] = f[i - 1] \o seqs[i]

\* There is a function of these concatenations ...
LEMMA JoinsExist ==
  ASSUME NEW S, NEW seqs \in Seq(Seq(S)), NEW m \in 1..Len(seqs)
  PROVE  \E f \in [1..m -> Seq(S)] : Joins(f, seqs, m)
<1> DEFINE N == Len(seqs)
           X == {n \in 1..N : \E f \in [1..n -> Seq(S)] : Joins(f, seqs, n)}
<1>0. N \in Nat \ {0} /\ \A i \in 1..N : seqs[i] \in Seq(S)
  BY ElementOfSeq, LenProperties
<1>1. 1 \in X
  <2> DEFINE g == [i \in 1..1 |-> seqs[1]]
  <2>1. g \in [1..1 -> Seq(S)] /\ g[1] = seqs[1]
    BY <1>0
  <2> HIDE DEF g
  <2>2. Joins(g, seqs, 1)
    BY <2>1 DEF Joins
  <2>. QED BY <1>0, <2>1, <2>2
<1>2. ASSUME NEW n \in 1..N - 1, n \in X PROVE n + 1 \in X
  <2>1. PICK f \in [1..n -> Seq(S)] : Joins(f, seqs, n)
    BY <1>2
  <2> DEFINE g == [i \in 1..n + 1 |-> IF i <= n THEN f[i] ELSE f[n] \o seqs[n + 1]]
  <2>0. n \in 1..n /\ n + 1 \in 1..N /\ n \in Nat
    BY <1>0
  <2>2. f[n] \o seqs[n + 1] \in Seq(S)
    BY <1>0, <2>0, ConcatProperties
  <2>3. g \in [1..n + 1 -> Seq(S)]
    BY <2>2, <2>0
  <2>4. /\ \A i \in 1..n : g[i] = f[i]
        /\ g[n + 1] = f[n] \o seqs[n + 1]
    BY <2>0
  <2> HIDE DEF g
  <2>5. ASSUME NEW i \in 2..n PROVE g[i] = g[i - 1] \o seqs[i]
    <3>1. i \in 1..n /\ i - 1 \in 1..n
      BY <2>0
    <3>2. f[i] = f[i - 1] \o seqs[i]
      BY <2>1 DEF Joins
    <3>. QED BY <2>4, <3>1, <3>2
  <2>6. \A i \in 2..n + 1 : g[i] = g[i - 1] \o seqs[i]
    <3> SUFFICES ASSUME NEW i \in 2..n + 1 PROVE g[i] = g[i - 1] \o seqs[i]
      OBVIOUS
    <3>1. CASE i = n + 1
      <4>1. i - 1 = n
        BY <2>0, <3>1
      <4>. QED BY <2>0, <2>4, <3>1, <4>1
    <3>2. CASE i \in 2..n
      BY <2>5, <3>2
    <3>3. i = n + 1 \/ i \in 2..n
      BY <2>0
    <3>. QED BY <3>1, <3>2, <3>3
  <2>7. Joins(g, seqs, n + 1)
    <3>1. 1 \in 1..n
      BY <2>0
    <3>. QED BY <2>1, <2>4, <2>6, <3>1 DEF Joins
  <2>8. \E h \in [1..n + 1 -> Seq(S)] : Joins(h, seqs, n + 1)
    BY <2>3, <2>7
  <2>. QED BY <2>0, <2>8
<1> HIDE DEF X
<1>3. \A i \in 1..N : i \in X
  BY <1>0, <1>1, <1>2, ReachesAll
<1>. QED BY <1>3 DEF X

\* ... and FlattenSeq is the last of them.
LEMMA FlattenIsJoin ==
  ASSUME NEW S, NEW seqs \in Seq(Seq(S)), seqs # <<>>
  PROVE  \E f \in [1..Len(seqs) -> Seq(S)] :
            Joins(f, seqs, Len(seqs)) /\ FlattenSeq(seqs) = f[Len(seqs)]
<1> DEFINE N == Len(seqs)
           Def(f) == f = [i \in 1..N |-> IF i = 1 THEN seqs[i] ELSE f[i - 1] \o seqs[i]]
           flatten == CHOOSE f : Def(f)
<1>1. N \in Nat \ {0}
  BY EmptySeq
<1>2. PICK f \in [1..N -> Seq(S)] : Joins(f, seqs, N)
  BY <1>1, JoinsExist
<1>3. Def(f)
  <2>1. ASSUME NEW i \in 1..N
        PROVE  f[i] = IF i = 1 THEN seqs[i] ELSE f[i - 1] \o seqs[i]
    <3>1. CASE i = 1
      BY <1>2, <3>1 DEF Joins
    <3>2. CASE i # 1
      <4>1. i \in 2..N
        BY <1>1, <3>2
      <4>. QED BY <1>2, <3>2, <4>1 DEF Joins
    <3>. QED BY <3>1, <3>2
  <2>2. f = [i \in 1..N |-> f[i]]
    BY <1>2
  <2>. QED BY <2>1, <2>2
<1>4. Def(flatten)
  BY <1>3
<1>5. FlattenSeq(seqs) = flatten[N]
  BY <1>1, Zenon DEF FlattenSeq
<1> HIDE DEF flatten
<1>6. ASSUME NEW i \in 1..N
      PROVE  flatten[i] = IF i = 1 THEN seqs[i] ELSE flatten[i - 1] \o seqs[i]
  BY <1>4
<1> HIDE DEF Def
<1>7. ASSUME NEW i \in 1..N PROVE flatten[i] = f[i]
  <2> DEFINE X == {k \in 1..N : flatten[k] = f[k]}
  <2>1. 1 \in X
    BY <1>1, <1>2, <1>6 DEF Joins
  <2>2. ASSUME NEW k \in 1..N - 1, k \in X PROVE k + 1 \in X
    <3>1. k + 1 \in 2..N /\ (k + 1) - 1 = k /\ k + 1 # 1 /\ k + 1 \in 1..N
      BY <1>1
    <3>2. flatten[k + 1] = flatten[k] \o seqs[k + 1]
      BY <1>6, <3>1
    <3>3. f[k + 1] = f[k] \o seqs[k + 1]
      BY <1>2, <3>1 DEF Joins
    <3>. QED BY <2>2, <3>1, <3>2, <3>3
  <2> HIDE DEF X
  <2>3. \A k \in 1..N : k \in X
    BY <1>1, <2>1, <2>2, ReachesAll
  <2>. QED BY <2>3 DEF X
<1>8. FlattenSeq(seqs) = f[N]
  BY <1>1, <1>5, <1>7
<1>. QED BY <1>2, <1>8

\* FlattenSeq gives a sequence of the elements; of empty sequences, none.
LEMMA FlattenType ==
  ASSUME NEW S, NEW seqs \in Seq(Seq(S))
  PROVE  FlattenSeq(seqs) \in Seq(S)
<1>1. CASE seqs = <<>>
  BY <1>1 DEF FlattenSeq
<1>2. CASE seqs # <<>>
  <2>1. PICK f \in [1..Len(seqs) -> Seq(S)] : FlattenSeq(seqs) = f[Len(seqs)]
    BY <1>2, FlattenIsJoin
  <2>2. Len(seqs) \in 1..Len(seqs)
    BY <1>2, EmptySeq
  <2>. QED BY <2>1, <2>2
<1>. QED BY <1>1, <1>2

LEMMA FlattenNone ==
  ASSUME NEW S, NEW seqs \in Seq(Seq(S)), \A i \in 1..Len(seqs) : seqs[i] = <<>>
  PROVE  FlattenSeq(seqs) = <<>>
<1>1. CASE seqs = <<>>
  BY <1>1 DEF FlattenSeq
<1>2. CASE seqs # <<>>
  <2> DEFINE N == Len(seqs)
  <2>1. PICK f \in [1..N -> Seq(S)] : Joins(f, seqs, N) /\ FlattenSeq(seqs) = f[N]
    BY <1>2, FlattenIsJoin
  <2>2. N \in Nat \ {0}
    BY <1>2, EmptySeq
  <2> DEFINE X == {i \in 1..N : f[i] = <<>>}
  <2>3. 1 \in X
    BY <2>1, <2>2 DEF Joins
  <2>4. ASSUME NEW i \in 1..N - 1, i \in X PROVE i + 1 \in X
    <3>1. i + 1 \in 2..N /\ (i + 1) - 1 = i /\ i + 1 \in 1..N
      BY <2>2
    <3>2. f[i + 1] = f[i] \o seqs[i + 1]
      BY <2>1, <3>1 DEF Joins
    <3>3. f[i] = <<>> /\ seqs[i + 1] = <<>>
      BY <2>4, <3>1
    <3>. QED BY <3>1, <3>2, <3>3
  <2> HIDE DEF X
  <2>5. \A i \in 1..N : i \in X
    BY <2>2, <2>3, <2>4, ReachesAll
  <2>. QED BY <2>1, <2>2, <2>5 DEF X
<1>. QED BY <1>1, <1>2

LEMMA Regroups ==
  ASSUME NEW S
  PROVE  \A x, y, z \in Seq(S) : (x \o y) \o z = x \o (y \o z)
BY ConcatAssociative

LEMMA RegroupsMore ==
  ASSUME NEW S, NEW more \in Seq(S)
  PROVE  \A u, v \in Seq(S) : (u \o v) \o more = u \o (v \o more)
BY Regroups

\* longer is seqs with more appended to sequence i, the last that is not empty.
Lengthens(longer, seqs, i, more) ==
  /\ i \in 1..Len(seqs) /\ Len(longer) = Len(seqs)
  /\ \A j \in 1..Len(seqs) : j > i => seqs[j] = <<>>
  /\ \A j \in 1..Len(seqs) : longer[j] = IF j = i THEN seqs[j] \o more ELSE seqs[j]

\* What is appended to the last sequence that is not empty is appended to all.
LEMMA FlattenAppends ==
  ASSUME NEW S, NEW seqs \in Seq(Seq(S)), NEW more \in Seq(S),
         NEW longer \in Seq(Seq(S)), NEW i, Lengthens(longer, seqs, i, more)
  PROVE  FlattenSeq(longer) = FlattenSeq(seqs) \o more
<1>0. \A u, v \in Seq(S) : (u \o v) \o more = u \o (v \o more)
  BY RegroupsMore
<1> DEFINE N == Len(seqs)
<1>1. /\ N \in Nat \ {0} /\ seqs # <<>> /\ longer # <<>> /\ Len(longer) = N
      /\ i \in 1..N /\ i \in Int
  BY EmptySeq DEF Lengthens
<1>11. /\ \A j \in 1..N : seqs[j] \in Seq(S) /\ longer[j] \in Seq(S)
       /\ \A j \in 1..N : j > i => seqs[j] = <<>>
       /\ longer[i] = seqs[i] \o more
       /\ \A j \in 1..N : j # i => longer[j] = seqs[j]
  <2>1. \A j \in 1..N : seqs[j] \in Seq(S) /\ longer[j] \in Seq(S)
    BY <1>1
  <2>2. \A j \in 1..N : j > i => seqs[j] = <<>>
    BY Zenon DEF Lengthens
  <2>3. \A j \in 1..N : longer[j] = IF j = i THEN seqs[j] \o more ELSE seqs[j]
    BY Zenon DEF Lengthens
  <2>. QED BY <1>1, <2>1, <2>2, <2>3
<1>2. PICK f \in [1..N -> Seq(S)] : Joins(f, seqs, N) /\ FlattenSeq(seqs) = f[N]
  BY <1>1, FlattenIsJoin
<1>3. PICK g \in [1..N -> Seq(S)] : Joins(g, longer, N) /\ FlattenSeq(longer) = g[N]
  BY <1>1, FlattenIsJoin
<1> HIDE DEF N
<1>4. /\ f[1] = seqs[1] /\ \A k \in 2..N : f[k] = f[k - 1] \o seqs[k]
      /\ g[1] = longer[1] /\ \A k \in 2..N : g[k] = g[k - 1] \o longer[k]
      /\ \A k \in 1..N : f[k] \in Seq(S) /\ g[k] \in Seq(S)
  BY <1>2, <1>3 DEF Joins
<1> DEFINE Right(k) == g[k] = IF k < i THEN f[k] ELSE f[k] \o more
<1>5. Right(1)
  <2>1. CASE i = 1
    <3>1. g[1] = f[1] \o more
      BY <1>4, <1>11, <2>1
    <3>. QED BY <2>1, <3>1
  <2>2. CASE i # 1
    <3>1. longer[1] = seqs[1] /\ 1 < i /\ 1 \in 1..N
      BY <1>1, <1>11, <2>2
    <3>2. g[1] = f[1]
      BY <1>4, <3>1
    <3>. QED BY <3>1, <3>2
  <2>. QED BY <2>1, <2>2
<1>6. ASSUME NEW n \in 2..N, Right(n - 1) PROVE Right(n)
  <2> DEFINE k == n - 1
  <2>1. n \in 1..N /\ k \in 1..N /\ n \in Int /\ k \in Int /\ k < n
    BY <1>1
  <2>2. f[n] = f[k] \o seqs[n] /\ g[n] = g[k] \o longer[n]
    BY <1>4
  <2>3. k < i <=> n <= i
    BY <1>1, <2>1
  <2> HIDE DEF k
  <2>5. f[k] \in Seq(S) /\ seqs[n] \in Seq(S) /\ g[k] \in Seq(S)
    BY <1>4, <1>11, <2>1
  <2>6. CASE n < i
    <3>1. k < i /\ n # i
      BY <1>1, <2>1, <2>6
    <3>2. longer[n] = seqs[n]
      BY <1>11, <2>1, <3>1
    <3>3. g[k] = f[k]
      BY <1>6, <3>1 DEF k
    <3>. QED BY <2>2, <2>6, <3>2, <3>3
  <2>7. CASE n = i
    <3>1. k < i /\ ~ (n < i)
      BY <1>1, <2>1, <2>7
    <3>2. longer[n] = seqs[n] \o more
      BY <1>11, <2>7
    <3>3. g[k] = f[k]
      BY <1>6, <3>1 DEF k
    <3>4. (f[k] \o seqs[n]) \o more = f[k] \o (seqs[n] \o more)
      BY <1>0, <2>5
    <3>5. g[n] = f[n] \o more
      BY <2>2, <3>2, <3>3, <3>4
    <3>. QED BY <3>1, <3>5
  <2>8. CASE n > i
    <3>1. ~ (k < i) /\ ~ (n < i) /\ n # i
      BY <1>1, <2>1, <2>3, <2>8
    <3>2. seqs[n] = <<>> /\ longer[n] = <<>>
      BY <1>11, <2>1, <2>8, <3>1
    <3>4. f[n] = f[k] /\ g[n] = g[k]
      BY <2>2, <2>5, <3>2, ConcatEmptySeq
    <3>5. g[k] = f[k] \o more
      BY <1>6, <3>1 DEF k
    <3>. QED BY <3>1, <3>4, <3>5
  <2>9. n < i \/ n = i \/ n > i
    BY <1>1, <2>1
  <2>. QED BY <2>6, <2>7, <2>8, <2>9
<1> HIDE DEF Right
<1> DEFINE X == {k \in 1..N : Right(k)}
<1>7. 1 \in X /\ \A k \in 1..N - 1 : k \in X => k + 1 \in X
  <2>1. ASSUME NEW k \in 1..N - 1, k \in X PROVE k + 1 \in X
    <3>1. k + 1 \in 2..N /\ (k + 1) - 1 = k /\ k + 1 \in 1..N
      BY <1>1
    <3>2. Right((k + 1) - 1)
      BY <2>1, <3>1
    <3>. QED BY <1>6, <3>1, <3>2
  <2>. QED BY <1>1, <1>5, <2>1
<1> HIDE DEF X
<1>8. \A k \in 1..N : k \in X
  BY <1>1, <1>7, ReachesAll
<1>9. Right(N) /\ N \in 1..N /\ ~ (N < i)
  BY <1>1, <1>8 DEF X
<1>. QED BY <1>2, <1>3, <1>9 DEF Right

\* Of sequences with one element or none, FlattenSeq has as many as have one.
LEMMA FlattenCounts ==
  ASSUME NEW S, NEW seqs \in Seq(Seq(S)), seqs # <<>>,
         \A i \in 1..Len(seqs) : Len(seqs[i]) \in {0, 1}
  PROVE  /\ FlattenSeq(seqs) \in Seq(S)
         /\ Len(FlattenSeq(seqs)) = Cardinality({i \in 1..Len(seqs) : Len(seqs[i]) = 1})
<1> DEFINE N == Len(seqs)
           one(i) == Len(seqs[i]) = 1
           Full(n) == {i \in 1..n : one(i)}
<1>1. N \in Nat \ {0} /\ \A i \in 1..N : seqs[i] \in Seq(S)
  BY EmptySeq
<1>2. PICK f \in [1..N -> Seq(S)] : Joins(f, seqs, N) /\ FlattenSeq(seqs) = f[N]
  BY FlattenIsJoin
<1>3. \A n \in Nat : IsFiniteSet(Full(n)) /\ Cardinality(Full(n)) \in Nat
  <2> TAKE n \in Nat
  <2>1. IsFiniteSet(1..n)
    BY FS_Interval
  <2>2. IsFiniteSet(Full(n))
    BY <2>1, FS_Subset
  <2>. QED BY <2>2, FS_CardinalityType
<1> DEFINE X == {n \in 1..N : Len(f[n]) = Cardinality(Full(n))}
<1>4. 1 \in X
  <2>1. f[1] = seqs[1] /\ 1 \in 1..N
    BY <1>1, <1>2 DEF Joins
  <2>2. CASE Len(seqs[1]) = 0
    <3>0. ~ one(1)
      BY <2>2
    <3> HIDE DEF one
    <3>1. Full(1) = {}
      BY <3>0
    <3> HIDE DEF Full
    <3>. QED BY <2>1, <2>2, <3>1, FS_EmptySet
  <2>3. CASE Len(seqs[1]) = 1
    <3>1. Full(1) = {1}
      BY <2>3
    <3> HIDE DEF Full
    <3>. QED BY <2>1, <2>3, <3>1, FS_Singleton
  <2>. QED BY <1>1, <2>2, <2>3
<1>5. ASSUME NEW n \in 1..N - 1, n \in X PROVE n + 1 \in X
  <2>1. n + 1 \in 2..N /\ (n + 1) - 1 = n /\ n \in 1..N /\ n + 1 \in 1..N /\ n \in Nat
    BY <1>1
  <2>2. f[n + 1] = f[n] \o seqs[n + 1]
    BY <1>2, <2>1 DEF Joins
  <2>3. f[n] \in Seq(S) /\ seqs[n + 1] \in Seq(S)
    BY <1>1, <1>2, <2>1
  <2>4. Len(f[n + 1]) = Len(f[n]) + Len(seqs[n + 1])
    BY <2>2, <2>3, ConcatProperties
  <2>5. Cardinality(Full(n + 1)) = Cardinality(Full(n)) + Len(seqs[n + 1])
    <3>1. CASE Len(seqs[n + 1]) = 0
      <4>0. ~ one(n + 1)
        BY <3>1
      <4> HIDE DEF one
      <4>1. Full(n + 1) = Full(n)
        BY <2>1, <4>0
      <4> HIDE DEF Full
      <4>. QED BY <1>3, <2>1, <3>1, <4>1
    <3>2. CASE Len(seqs[n + 1]) = 1
      <4>0. one(n + 1)
        BY <3>2
      <4> HIDE DEF one
      <4>1. Full(n + 1) = Full(n) \cup {n + 1} /\ n + 1 \notin Full(n)
        BY <2>1, <4>0
      <4> HIDE DEF Full
      <4>2. Cardinality(Full(n) \cup {n + 1}) = Cardinality(Full(n)) + 1
        BY <1>3, <2>1, <4>1, FS_AddElement
      <4>. QED BY <3>2, <4>1, <4>2
    <3>. QED BY <1>1, <2>1, <3>1, <3>2
  <2>6. Len(f[n]) = Cardinality(Full(n))
    BY <1>5
  <2> HIDE DEF Full
  <2>. QED BY <2>1, <2>4, <2>5, <2>6
<1> HIDE DEF X
<1>6. \A n \in 1..N : n \in X
  BY <1>1, <1>4, <1>5, ReachesAll
<1>7. N \in X
  BY <1>1, <1>6
<1>. QED BY <1>1, <1>2, <1>7 DEF X
=============================================================================
