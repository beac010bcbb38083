------------------------------- MODULE MountsProofs -------------------------------
EXTENDS Mounts, SequenceTheorems, NaturalFacts

\* A prefix agrees name by name.
LEMMA PrefixDef ==
  ASSUME NEW p \in Path, NEW q \in Path
  PROVE  IsPrefix(p, q) <=> /\ Len(p) <= Len(q)
                            /\ \A k \in 1..Len(p) : p[k] = q[k]
<1>1. Len(p) \in Nat /\ Len(q) \in Nat
  BY DEF Path
<1>2. SubSeq(p, 1, Len(p)) = p
  BY SubSeqFull DEF Path
<1>3. CASE Len(p) <= Len(q)
  <2> DEFINE r == SubSeq(q, 1, Len(p))
  <2>1. r \in Path /\ Len(r) = Len(p) /\ \A k \in 1..Len(p) : r[k] = q[k]
    <3>1. \A i \in 1..Len(p) : q[i] \in STRING
      BY <1>1, <1>3 DEF Path
    <3> QED BY <1>1, <3>1, SubSeqProperties DEF Path
  <2> HIDE DEF r
  <2>2. p = r <=> \A k \in 1..Len(p) : p[k] = r[k]
    BY <2>1, SeqEqual DEF Path
  <2> QED BY <1>2, <1>3, <2>1, <2>2 DEF IsPrefix, r
<1>4. CASE ~(Len(p) <= Len(q))
  BY <1>4 DEF IsPrefix
<1> QED BY <1>3, <1>4

LEMMA PrefixOrder ==
  ASSUME NEW p \in Path, NEW q \in Path, NEW r \in Path
  PROVE  /\ IsPrefix(p, p) /\ IsPrefix(<< >>, p)
         /\ IsPrefix(p, q) /\ IsPrefix(q, r) => IsPrefix(p, r)
         /\ IsPrefix(p, q) /\ IsPrefix(q, p) => p = q
         /\ IsPrefix(p, r) /\ IsPrefix(q, r) => IsPrefix(p, q) \/ IsPrefix(q, p)
<1>1. Len(p) \in Nat /\ Len(q) \in Nat /\ Len(r) \in Nat
  BY DEF Path
<1>2. << >> \in Path /\ Len(<< >>) = 0
  BY DEF Path
<1>3. IsPrefix(p, p)
  BY <1>1, PrefixDef
<1>4. IsPrefix(<< >>, p)
  BY <1>1, <1>2, PrefixDef
<1>5. IsPrefix(p, q) /\ IsPrefix(q, r) => IsPrefix(p, r)
  BY <1>1, PrefixDef
<1>6. IsPrefix(p, q) /\ IsPrefix(q, p) => p = q
  <2>1. IsPrefix(p, q) /\ IsPrefix(q, p) =>
          Len(p) = Len(q) /\ \A k \in 1..Len(p) : p[k] = q[k]
    BY <1>1, PrefixDef
  <2> QED BY <2>1, SeqEqual DEF Path
<1>7. IsPrefix(p, r) /\ IsPrefix(q, r) => IsPrefix(p, q) \/ IsPrefix(q, p)
  BY <1>1, PrefixDef
<1> QED BY <1>3, <1>4, <1>5, <1>6, <1>7

\* What is below base_dir is ordered there as it is in the container.
LEMMA PrefixBelow ==
  ASSUME NEW b \in Path, NEW p \in Path, NEW q \in Path
  PROVE  /\ b \o p \in Path
         /\ IsPrefix(b, b \o p)
         /\ IsPrefix(b \o p, b \o q) <=> IsPrefix(p, q)
         /\ b \o p = b <=> p = << >>
<1> DEFINE bp == b \o p
           bq == b \o q
<1>1. Len(b) \in Nat /\ Len(p) \in Nat /\ Len(q) \in Nat
  BY DEF Path
<1>2. /\ bp \in Path /\ Len(bp) = Len(b) + Len(p)
      /\ \A i \in 1..Len(b) : (bp)[i] = b[i]
      /\ \A i \in 1..Len(p) : (bp)[Len(b) + i] = p[i]
  BY DEF Path
<1>3. /\ bq \in Path /\ Len(bq) = Len(b) + Len(q)
      /\ \A i \in 1..Len(b) : (bq)[i] = b[i]
      /\ \A i \in 1..Len(q) : (bq)[Len(b) + i] = q[i]
  BY DEF Path
<1> HIDE DEF bp, bq
<1>4. IsPrefix(b, bp)
  <2>1. Len(b) <= Len(bp) /\ \A k \in 1..Len(b) : b[k] = bp[k]
    BY <1>1, <1>2
  <2> QED BY <1>2, <2>1, PrefixDef
<1>5. ASSUME IsPrefix(p, q) PROVE IsPrefix(bp, bq)
  <2>1. Len(p) <= Len(q) /\ \A k \in 1..Len(p) : p[k] = q[k]
    BY <1>5, PrefixDef
  <2>2. ASSUME NEW k \in 1..Len(bp) PROVE (bp)[k] = (bq)[k]
    <3>1. CASE k <= Len(b)
      BY <1>1, <1>2, <1>3, <3>1
    <3>2. CASE ~(k <= Len(b))
      <4>1. /\ k - Len(b) \in 1..Len(p)
            /\ k \in Len(b) + 1..Len(b) + Len(p)
            /\ k \in Len(b) + 1..Len(b) + Len(q)
        BY <1>1, <1>2, <2>1, <3>2
      <4>2. bp[k] = p[k - Len(b)]
        BY <1>2, <4>1
      <4>3. bq[k] = q[k - Len(b)]
        BY <1>3, <4>1
      <4>4. p[k - Len(b)] = q[k - Len(b)]
        BY <2>1, <4>1
      <4> QED BY <4>2, <4>3, <4>4
    <3> QED BY <3>1, <3>2
  <2>3. Len(bp) <= Len(bq)
    BY <1>1, <1>2, <1>3, <2>1
  <2> QED BY <1>2, <1>3, <2>2, <2>3, PrefixDef
<1>6. ASSUME IsPrefix(bp, bq) PROVE IsPrefix(p, q)
  <2>1. /\ Len(bp) <= Len(bq)
        /\ \A k \in 1..Len(bp) : (bp)[k] = (bq)[k]
    BY <1>2, <1>3, <1>6, PrefixDef
  <2>2. ASSUME NEW k \in 1..Len(p) PROVE p[k] = q[k]
    <3>1. /\ Len(b) + k \in 1..Len(bp) /\ (Len(b) + k) - Len(b) = k
          /\ Len(b) + k \in Len(b) + 1..Len(b) + Len(p)
          /\ Len(b) + k \in Len(b) + 1..Len(b) + Len(q)
      BY <1>1, <1>2, <1>3, <2>1
    <3>2. bp[Len(b) + k] = p[k]
      BY <1>2, <3>1
    <3>3. bq[Len(b) + k] = q[k]
      BY <1>3, <3>1
    <3>4. bp[Len(b) + k] = bq[Len(b) + k]
      BY <2>1, <3>1
    <3> QED BY <3>2, <3>3, <3>4
  <2>3. Len(p) <= Len(q)
    BY <1>1, <1>2, <1>3, <2>1
  <2> QED BY <2>2, <2>3, PrefixDef
<1>7. b \o p = b <=> p = << >>
  BY ConcatEqualIffEmpty DEF Path
<1> QED BY <1>2, <1>4, <1>5, <1>6, <1>7 DEF bp, bq
-----------------------------------------------------------------------------
(***************************************************************************)
(* What one sees.                                                          *)
(***************************************************************************)
View(t, p) == t[Seen(t, p)]
Joined(t, u) == t \o u
At(t, p) == \E i \in DOMAIN t : IsPrefix(t[i].at, p)

LEMMA SeenFacts ==
  ASSUME NEW t \in Seq(Mounted), NEW p, At(t, p)
  PROVE  /\ Seen(t, p) \in 1..Len(t)
         /\ IsPrefix(t[Seen(t, p)].at, p)
         /\ \A j \in 1..Len(t) : IsPrefix(t[j].at, p) => j <= Seen(t, p)
<1> DEFINE T == {i \in 1..Len(t) : IsPrefix(t[i].at, p)}
<1>1. Len(t) \in Nat /\ DOMAIN t = 1..Len(t)
  OBVIOUS
<1>2. T \in SUBSET (0..Len(t)) /\ T # {}
  BY <1>1 DEF At
<1>3. PICK x \in T : \A y \in T : y <= x
  BY <1>1, <1>2, GreatestNatural
<1>4. \E i \in DOMAIN t : /\ IsPrefix(t[i].at, p)
                         /\ \A j \in DOMAIN t : IsPrefix(t[j].at, p) => j <= i
  BY <1>1, <1>3
<1> HIDE DEF T
<1> QED BY <1>1, <1>4 DEF Seen

\* It is the only position with these properties.
LEMMA SeenIs ==
  ASSUME NEW t \in Seq(Mounted), NEW p, NEW i \in 1..Len(t),
         IsPrefix(t[i].at, p),
         \A j \in 1..Len(t) : IsPrefix(t[j].at, p) => j <= i
  PROVE  At(t, p) /\ Seen(t, p) = i
<1>1. Len(t) \in Nat /\ DOMAIN t = 1..Len(t)
  OBVIOUS
<1>2. At(t, p)
  BY <1>1 DEF At
<1>3. /\ Seen(t, p) \in 1..Len(t) /\ IsPrefix(t[Seen(t, p)].at, p)
      /\ \A j \in 1..Len(t) : IsPrefix(t[j].at, p) => j <= Seen(t, p)
  BY <1>2, SeenFacts
<1>4. Seen(t, p) <= i /\ i <= Seen(t, p)
  BY <1>3
<1> QED BY <1>2, <1>3, <1>4

LEMMA RootSeen ==
  ASSUME NEW t \in Tables, NEW p \in Path
  PROVE  At(t, p)
<1>1. t \in Seq(Mounted) /\ 1 \in DOMAIN t /\ t[1].at = << >>
  BY DEF Tables
<1> QED BY <1>1, PrefixOrder DEF At

\* Of what was attached later one sees what is at or above the path.
LEMMA SeenConcat ==
  ASSUME NEW t \in Seq(Mounted), NEW u \in Seq(Mounted), NEW p
  PROVE  /\ Joined(t, u) \in Seq(Mounted)
         /\ At(u, p) => /\ At(Joined(t, u), p)
                        /\ Seen(Joined(t, u), p) = Len(t) + Seen(u, p)
                        /\ View(Joined(t, u), p) = View(u, p)
         /\ ~At(u, p) /\ At(t, p) => /\ At(Joined(t, u), p)
                                     /\ Seen(Joined(t, u), p) = Seen(t, p)
                                     /\ View(Joined(t, u), p) = View(t, p)
<1> DEFINE v == t \o u
<1>1. /\ Len(t) \in Nat /\ Len(u) \in Nat /\ v \in Seq(Mounted)
      /\ Len(v) = Len(t) + Len(u)
      /\ DOMAIN t = 1..Len(t) /\ DOMAIN u = 1..Len(u)
  OBVIOUS
<1>2. /\ \A i \in 1..Len(t) : v[i] = t[i]
      /\ \A i \in 1..Len(u) : v[Len(t) + i] = u[i]
  OBVIOUS
<1>3. ASSUME NEW j \in 1..Len(v), ~(j \in 1..Len(t))
      PROVE  j - Len(t) \in 1..Len(u) /\ v[j] = u[j - Len(t)]
  <2>1. j - Len(t) \in 1..Len(u) /\ j = Len(t) + (j - Len(t))
    BY <1>1, <1>3
  <2> QED BY <1>2, <2>1
<1> HIDE DEF v
<1>4. ASSUME At(u, p)
      PROVE  At(v, p) /\ Seen(v, p) = Len(t) + Seen(u, p) /\ v[Seen(v, p)] = u[Seen(u, p)]
  <2> DEFINE s == Seen(u, p)
  <2>1. /\ s \in 1..Len(u) /\ IsPrefix(u[s].at, p)
        /\ \A j \in 1..Len(u) : IsPrefix(u[j].at, p) => j <= s
    BY <1>4, SeenFacts
  <2> HIDE DEF s
  <2>2. Len(t) + s \in 1..Len(v) /\ v[Len(t) + s] = u[s]
    BY <1>1, <1>2, <2>1
  <2>3. ASSUME NEW j \in 1..Len(v), IsPrefix(v[j].at, p) PROVE j <= Len(t) + s
    <3>1. CASE j \in 1..Len(t)
      BY <1>1, <2>1, <3>1
    <3>2. CASE ~(j \in 1..Len(t))
      <4>1. j - Len(t) \in 1..Len(u) /\ v[j] = u[j - Len(t)]
        BY <1>3, <3>2
      <4>2. j - Len(t) <= s
        BY <2>1, <2>3, <4>1
      <4> QED BY <1>1, <2>1, <4>2
    <3> QED BY <3>1, <3>2
  <2>4. IsPrefix(v[Len(t) + s].at, p)
    BY <2>1, <2>2
  <2>5. At(v, p) /\ Seen(v, p) = Len(t) + s
    BY <1>1, <2>2, <2>3, <2>4, SeenIs
  <2> QED BY <2>2, <2>5 DEF s
<1>5. ASSUME ~At(u, p), At(t, p)
      PROVE  At(v, p) /\ Seen(v, p) = Seen(t, p) /\ v[Seen(v, p)] = t[Seen(t, p)]
  <2> DEFINE s == Seen(t, p)
  <2>1. /\ s \in 1..Len(t) /\ IsPrefix(t[s].at, p)
        /\ \A j \in 1..Len(t) : IsPrefix(t[j].at, p) => j <= s
    BY <1>5, SeenFacts
  <2> HIDE DEF s
  <2>2. s \in 1..Len(v) /\ v[s] = t[s]
    BY <1>1, <1>2, <2>1
  <2>3. ASSUME NEW j \in 1..Len(v), IsPrefix(v[j].at, p) PROVE j <= s
    <3>1. CASE j \in 1..Len(t)
      BY <1>2, <2>1, <2>3, <3>1
    <3>2. CASE ~(j \in 1..Len(t))
      <4>1. j - Len(t) \in 1..Len(u) /\ v[j] = u[j - Len(t)]
        BY <1>3, <3>2
      <4> QED BY <1>1, <1>5, <2>3, <4>1 DEF At
    <3> QED BY <3>1, <3>2
  <2>4. IsPrefix(v[s].at, p)
    BY <2>1, <2>2
  <2>5. At(v, p) /\ Seen(v, p) = s
    BY <1>1, <2>2, <2>3, <2>4, SeenIs
  <2> QED BY <2>2, <2>5 DEF s
<1> QED BY <1>1, <1>4, <1>5 DEF v, Joined, View
-----------------------------------------------------------------------------
(***************************************************************************)
(* What open_tree clones.                                                  *)
(***************************************************************************)
\* Nth numbers the elements of a set of positions in their order.
LEMMA NthFacts ==
  ASSUME NEW n \in Nat, NEW I \in SUBSET (1..n)
  PROVE  /\ IsFiniteSet(I) /\ Cardinality(I) \in Nat
         /\ \A k \in 1..Cardinality(I) : Nth(I, k) \in I
         /\ \A k, l \in 1..Cardinality(I) : k < l => Nth(I, k) < Nth(I, l)
         /\ \A i \in I : \E k \in 1..Cardinality(I) : Nth(I, k) = i
<1> DEFINE Rank(i) == Cardinality({j \in I : j <= i})
           c == Cardinality(I)
<1>0. \A i \in I : i \in Nat
  OBVIOUS
<1>1. IsFiniteSet(I) /\ c \in Nat
  <2>1. IsFiniteSet(1..n)
    BY FS_Interval
  <2>2. IsFiniteSet(I)
    BY <2>1, FS_Subset
  <2> QED BY <2>2, FS_CardinalityType
<1>2. ASSUME NEW i \in I
      PROVE  IsFiniteSet({j \in I : j <= i}) /\ Rank(i) \in 1..c
  <2> DEFINE J == {j \in I : j <= i}
  <2>1. J \in SUBSET I /\ i \in J
    BY DEF J
  <2> HIDE DEF J
  <2>2. IsFiniteSet(J) /\ Cardinality(J) <= c /\ Cardinality(J) \in Nat
    BY <1>1, <2>1, FS_Subset, FS_CardinalityType
  <2>3. Cardinality(J) # 0
    BY <2>1, <2>2, FS_EmptySet
  <2>4. Cardinality(J) \in 1..c
    BY <1>1, <2>2, <2>3
  <2> QED BY <2>2, <2>4 DEF J
<1>3. ASSUME NEW i \in I, NEW j \in I, i < j
      PROVE  Rank(i) < Rank(j)
  <2> DEFINE A == {k \in I : k <= i}
             B == {k \in I : k <= j}
  <2>1. A \in SUBSET B /\ j \in B /\ j \notin A
    <3>1. i \in Nat /\ j \in Nat
      BY <1>0
    <3>2. \A k \in I : k <= i => k <= j
      BY <1>0, <1>3, <3>1
    <3>3. j <= j /\ ~(j <= i)
      BY <1>3, <3>1
    <3> QED BY <3>2, <3>3
  <2>2. /\ IsFiniteSet(B)
        /\ Cardinality(A) \in Nat /\ Cardinality(B) \in Nat
    <3>1. Rank(i) \in 1..c /\ Rank(j) \in 1..c
      BY <1>2
    <3> QED BY <1>1, <1>2, <3>1
  <2> HIDE DEF A, B
  <2>3. Cardinality(A) <= Cardinality(B) /\ Cardinality(A) # Cardinality(B)
    BY <2>1, <2>2, FS_Subset
  <2>4. Cardinality(A) < Cardinality(B)
    BY <2>2, <2>3
  <2> QED BY <2>4 DEF A, B
<1> DEFINE r == [i \in I |-> Rank(i)]
<1>4. r \in [I -> 1..c] /\ \A i \in I : r[i] = Rank(i)
  BY <1>2
<1> HIDE DEF r, Rank
<1>5. \A i, j \in I : r[i] = r[j] => i = j
  <2> SUFFICES ASSUME NEW i \in I, NEW j \in I, r[i] = r[j], i # j PROVE FALSE
    OBVIOUS
  <2>1. i < j \/ j < i
    OBVIOUS
  <2>2. r[i] \in 1..c /\ r[j] \in 1..c
    BY <1>4
  <2> QED BY <1>1, <1>3, <1>4, <2>1, <2>2
<1>6. \A k \in 1..c : \E i \in I : r[i] = k
  <2>1. r \in Injection(I, 1..c)
    BY <1>4, <1>5 DEF Injection, IsInjective
  <2>2. IsFiniteSet(1..c) /\ Cardinality(1..c) = c
    <3>1. /\ IsFiniteSet(1..c)
          /\ Cardinality(1..c) = IF 1 > c THEN 0 ELSE c - 1 + 1
      <4>1. 1 \in Int /\ c \in Int
        BY <1>1
      <4> HIDE DEF c
      <4> QED BY <4>1, FS_Interval
    <3> QED BY <1>1, <3>1
  <2>3. r \in Surjection(I, 1..c)
    <3> HIDE DEF c
    <3>1. Cardinality(I) = Cardinality(1..c)
      BY <2>2 DEF c
    <3> QED BY <2>1, <2>2, <3>1, FS_Injection
  <2> QED BY <2>3 DEF Surjection
<1>7. ASSUME NEW k \in 1..c PROVE Nth(I, k) \in I /\ r[Nth(I, k)] = k
  <2>1. \E i \in I : Cardinality({j \in I : j <= i}) = k
    BY <1>4, <1>6 DEF Rank
  <2>2. Nth(I, k) \in I /\ Cardinality({j \in I : j <= Nth(I, k)}) = k
    BY <2>1 DEF Nth
  <2> QED BY <1>4, <2>2 DEF Rank
<1>8. ASSUME NEW k \in 1..c, NEW l \in 1..c, k < l PROVE Nth(I, k) < Nth(I, l)
  <2>1. Nth(I, k) \in I /\ Nth(I, l) \in I /\ r[Nth(I, k)] = k /\ r[Nth(I, l)] = l
    BY <1>7
  <2>2. Nth(I, k) \in Nat /\ Nth(I, l) \in Nat
    BY <1>0, <2>1
  <2>3. CASE Nth(I, k) = Nth(I, l)
    BY <1>8, <2>1, <2>3
  <2>4. CASE Nth(I, l) < Nth(I, k)
    <3>1. Rank(Nth(I, l)) < Rank(Nth(I, k))
      BY <1>3, <2>1, <2>4 DEF Rank
    <3>2. Rank(Nth(I, l)) = l /\ Rank(Nth(I, k)) = k
      BY <1>4, <2>1
    <3>3. k \in Nat /\ l \in Nat
      BY <1>1
    <3> QED BY <1>8, <3>1, <3>2, <3>3
  <2> QED BY <2>2, <2>3, <2>4
<1>9. ASSUME NEW i \in I PROVE \E k \in 1..c : Nth(I, k) = i
  <2>1. r[i] \in 1..c
    BY <1>4
  <2>2. Nth(I, r[i]) \in I /\ r[Nth(I, r[i])] = r[i]
    BY <1>7, <2>1
  <2> QED BY <1>5, <2>1, <2>2
<1> QED BY <1>1, <1>7, <1>8, <1>9

LEMMA UnderFacts ==
  ASSUME NEW t \in Seq(Mounted), NEW p, At(t, p)
  PROVE  /\ Seen(t, p) \in 1..Len(t)
         /\ Under(t, p) \in SUBSET (1..Len(t))
         /\ \A i \in Under(t, p) : i > Seen(t, p)
<1>1. Seen(t, p) \in 1..Len(t) /\ Len(t) \in Nat
  BY SeenFacts
<1> QED BY <1>1 DEF Under

\* A clone is the mount seen at p, moved to p, and what is below p, in the same
\* order.
Tail1(t, p) == Cardinality(Under(t, p))
LEMMA CloneFacts ==
  ASSUME NEW t \in Seq(Mounted), NEW p \in Path, At(t, p)
  PROVE  /\ Tail1(t, p) \in Nat
         /\ Clone(t, p) \in Seq(Mounted)
         /\ Len(Clone(t, p)) = Tail1(t, p) + 1
         /\ Clone(t, p)[1] = [t[Seen(t, p)] EXCEPT !.at = p]
         /\ \A k \in 2..Len(Clone(t, p)) :
              /\ k - 1 \in 1..Tail1(t, p)
              /\ Nth(Under(t, p), k - 1) \in Under(t, p)
              /\ Clone(t, p)[k] = t[Nth(Under(t, p), k - 1)]
<1> DEFINE I == Under(t, p)
           s == Seen(t, p)
           top == [t[s] EXCEPT !.at = p]
           c == Cardinality(I)
<1>1. s \in 1..Len(t) /\ I \in SUBSET (1..Len(t)) /\ Len(t) \in Nat
  BY UnderFacts
<1> HIDE DEF I, s
<1>2. c \in Nat /\ \A k \in 1..c : Nth(I, k) \in I
  BY <1>1, NthFacts
<1>3. t[s] \in Mounted /\ \A k \in 1..c : t[Nth(I, k)] \in Mounted
  <2>1. \A i \in 1..Len(t) : t[i] \in Mounted
    OBVIOUS
  <2>2. \A k \in 1..c : Nth(I, k) \in 1..Len(t)
    BY <1>1, <1>2
  <2> QED BY <1>1, <2>1, <2>2
<1>4. top \in Mounted
  BY <1>3 DEF Mounted
<1> DEFINE tail == Picked(t, I)
<1>5. tail \in Seq(Mounted) /\ Len(tail) = c /\ \A k \in 1..c : tail[k] = t[Nth(I, k)]
  BY <1>2, <1>3 DEF Picked
<1> HIDE DEF c, top, tail
<1>6. Clone(t, p) = <<top>> \o tail
  BY DEF Clone, top, tail, s, I
<1>7. /\ <<top>> \o tail \in Seq(Mounted)
      /\ Len(<<top>> \o tail) = c + 1
      /\ (<<top>> \o tail)[1] = top
      /\ \A k \in 2..c + 1 : (<<top>> \o tail)[k] = tail[k - 1]
  BY <1>2, <1>4, <1>5
<1>8. \A k \in 2..c + 1 : k - 1 \in 1..c
  BY <1>2
<1> QED BY <1>2, <1>5, <1>6, <1>7, <1>8 DEF Tail1, c, top, s, I

\* At and below p one sees the same in a clone of p as in the table it was
\* cloned from.
LEMMA CloneShows ==
  ASSUME NEW t \in Seq(Mounted), NEW p \in Path, NEW q \in Path,
         At(t, p), IsPrefix(p, q)
  PROVE  /\ At(Clone(t, p), q)
         /\ View(Clone(t, p), q).fs = View(t, q).fs
<1> DEFINE c == Clone(t, p)
           s == Seen(t, p)
           I == Under(t, p)
<1>1. /\ s \in 1..Len(t) /\ IsPrefix(t[s].at, p)
      /\ \A j \in 1..Len(t) : IsPrefix(t[j].at, p) => j <= s
  BY SeenFacts
<1>2. /\ c \in Seq(Mounted) /\ Len(c) = Tail1(t, p) + 1 /\ Tail1(t, p) \in Nat
      /\ c[1] = [t[s] EXCEPT !.at = p]
      /\ \A k \in 2..Len(c) : /\ k - 1 \in 1..Tail1(t, p)
                              /\ Nth(I, k - 1) \in I
                              /\ c[k] = t[Nth(I, k - 1)]
  BY CloneFacts
<1>3. /\ I \in SUBSET (1..Len(t)) /\ \A i \in I : i > s
      /\ \A i \in I : IsStrictPrefix(p, t[i].at)
      /\ \A i \in 1..Len(t) : i > s /\ IsStrictPrefix(p, t[i].at) => i \in I
  <2>1. Len(t) \in Nat
    OBVIOUS
  <2> QED BY <1>1, <2>1, UnderFacts DEF Under
<1>4. /\ \A k, l \in 1..Tail1(t, p) : k < l => Nth(I, k) < Nth(I, l)
      /\ \A i \in I : \E k \in 1..Tail1(t, p) : Nth(I, k) = i
  <2>1. Len(t) \in Nat
    OBVIOUS
  <2> HIDE DEF I
  <2> QED BY <1>3, <2>1, NthFacts DEF Tail1, I
<1>5. \A i \in 1..Len(t) : t[i] \in Mounted /\ t[i].at \in Path
  <2>1. \A i \in 1..Len(t) : t[i] \in Mounted
    OBVIOUS
  <2> QED BY <2>1 DEF Mounted
<1>6. c[1].at = p /\ c[1].fs = t[s].fs
  BY <1>1, <1>2, <1>5 DEF Mounted
<1> HIDE DEF c, s, I
<1>7. DOMAIN c = 1..Len(c) /\ 1 \in 1..Len(c)
  BY <1>2
<1>8. At(c, q)
  BY <1>6, <1>7 DEF At
<1> DEFINE m == Seen(t, q)
<1>9. /\ m \in 1..Len(t) /\ IsPrefix(t[m].at, q)
      /\ \A j \in 1..Len(t) : IsPrefix(t[j].at, q) => j <= m
  <2>1. IsPrefix(t[s].at, q)
    BY <1>1, <1>5, PrefixOrder
  <2>2. At(t, q)
    BY <1>1, <2>1 DEF At
  <2> QED BY <2>2, SeenFacts
<1> HIDE DEF m
<1>10. s <= m
  <2>1. IsPrefix(t[s].at, q)
    BY <1>1, <1>5, PrefixOrder
  <2> QED BY <1>1, <1>9, <2>1
<1>11. CASE m = s
  <2>1. ASSUME NEW k \in 1..Len(c), IsPrefix(c[k].at, q) PROVE k <= 1
    <3> SUFFICES ASSUME k \in 2..Len(c) PROVE FALSE
      BY <1>2
    <3>1. Nth(I, k - 1) \in I /\ c[k] = t[Nth(I, k - 1)]
      BY <1>2
    <3>2. Nth(I, k - 1) \in 1..Len(t) /\ Nth(I, k - 1) > s
      BY <1>3, <3>1
    <3>3. Nth(I, k - 1) <= m
      BY <1>9, <2>1, <3>1, <3>2
    <3> QED BY <1>1, <1>9, <1>11, <3>2, <3>3
  <2>2. Seen(c, q) = 1
    <3>1. c \in Seq(Mounted) /\ 1 \in 1..Len(c) /\ IsPrefix(c[1].at, q)
      BY <1>2, <1>6, <1>7
    <3> QED BY <2>1, <3>1, SeenIs
  <2> QED BY <1>6, <1>8, <1>11, <2>2 DEF c, m, View
<1>12. CASE s < m
  <2>1. m \in I
    <3>1. ~IsPrefix(t[m].at, p)
      BY <1>1, <1>9, <1>12
    <3>2. IsPrefix(p, t[m].at) /\ p # t[m].at
      BY <1>5, <1>9, <3>1, PrefixOrder
    <3> QED BY <1>3, <1>9, <1>12, <3>2 DEF IsStrictPrefix
  <2>2. PICK k \in 1..Tail1(t, p) : Nth(I, k) = m
    BY <1>4, <2>1
  <2>3. k + 1 \in 2..Len(c) /\ (k + 1) - 1 = k
    BY <1>2
  <2>4. c[k + 1] = t[m]
    BY <1>2, <2>2, <2>3
  <2>5. ASSUME NEW j \in 1..Len(c), IsPrefix(c[j].at, q) PROVE j <= k + 1
    <3>1. CASE j = 1
      BY <2>3, <3>1
    <3>2. CASE j \in 2..Len(c)
      <4>1. /\ j - 1 \in 1..Tail1(t, p)
            /\ Nth(I, j - 1) \in I /\ c[j] = t[Nth(I, j - 1)]
        BY <1>2, <3>2
      <4>2. Nth(I, j - 1) \in 1..Len(t)
        BY <1>3, <4>1
      <4>3. Nth(I, j - 1) <= m
        BY <1>9, <2>5, <4>1, <4>2
      <4>4. ~(k < j - 1)
        <5>1. k < j - 1 => Nth(I, k) < Nth(I, j - 1)
          BY <1>4, <4>1
        <5> QED BY <1>9, <2>2, <4>2, <4>3, <5>1
      <4> QED BY <1>2, <4>1, <4>4
    <3> QED BY <3>1, <3>2
  <2>6. Seen(c, q) = k + 1
    <3>1. k + 1 \in 1..Len(c) /\ IsPrefix(c[k + 1].at, q)
      BY <1>9, <2>3, <2>4
    <3> QED BY <1>2, <2>5, <3>1, SeenIs
  <2> QED BY <1>8, <2>4, <2>6 DEF c, m, View
<1>13. m = s \/ s < m
  BY <1>1, <1>9, <1>10
<1> QED BY <1>11, <1>12, <1>13

\* Nothing of a clone of p is anywhere but at p, which the first mount is, and
\* below it.
LEMMA CloneAt ==
  ASSUME NEW t \in Seq(Mounted), NEW p \in Path, At(t, p)
  PROVE  /\ \A k \in 1..Len(Clone(t, p)) : /\ Clone(t, p)[k].at \in Path
                                           /\ IsPrefix(p, Clone(t, p)[k].at)
         /\ 1 \in 1..Len(Clone(t, p)) /\ Clone(t, p)[1].at = p
<1> DEFINE c == Clone(t, p)
           I == Under(t, p)
<1>1. /\ c \in Seq(Mounted) /\ Len(c) = Tail1(t, p) + 1 /\ Tail1(t, p) \in Nat
      /\ c[1] = [t[Seen(t, p)] EXCEPT !.at = p]
      /\ \A k \in 2..Len(c) : Nth(I, k - 1) \in I /\ c[k] = t[Nth(I, k - 1)]
  BY CloneFacts
<1>2. \A i \in I : IsPrefix(p, t[i].at)
  BY DEF Under, IsStrictPrefix
<1> HIDE DEF c, I
<1>3. t[Seen(t, p)] \in Mounted
  <2>1. Seen(t, p) \in 1..Len(t)
    BY SeenFacts
  <2> QED BY <2>1
<1>4. c[1].at = p
  BY <1>1, <1>3 DEF Mounted
<1>5. ASSUME NEW k \in 1..Len(c) PROVE c[k].at \in Path /\ IsPrefix(p, c[k].at)
  <2>1. c[k].at \in Path
    <3>1. c[k] \in Mounted
      BY <1>1
    <3> QED BY <3>1 DEF Mounted
  <2>2. CASE k = 1
    BY <1>4, <2>1, <2>2, PrefixOrder
  <2>3. CASE k \in 2..Len(c)
    BY <1>1, <1>2, <2>1, <2>3
  <2> QED BY <2>1, <2>2, <2>3
<1>6. 1 \in 1..Len(c)
  BY <1>1
<1> QED BY <1>4, <1>5, <1>6 DEF c

\* u is a clone of p in table b, put below base.
PutBelow(u, base, b, p) ==
  /\ u \in Seq(Mounted)
  /\ Len(u) = Len(Clone(b, p))
  /\ \A i \in 1..Len(u) : /\ u[i].at = base \o Clone(b, p)[i].at
                          /\ u[i].fs = Clone(b, p)[i].fs

\* There one sees what one saw in b.
LEMMA PutShows ==
  ASSUME NEW t \in Seq(Mounted), NEW b \in Seq(Mounted), NEW base \in Path,
         NEW p \in Path, NEW q \in Path, NEW u,
         At(b, p), IsPrefix(p, q), PutBelow(u, base, b, p)
  PROVE  View(Joined(t, u), Joined(base, q)).fs = View(b, q).fs
<1> DEFINE c == Clone(b, p)
           s == Seen(c, q)
           r == Joined(base, q)
<1>1. c \in Seq(Mounted) /\ \A k \in 1..Len(c) : c[k].at \in Path
  BY CloneFacts, CloneAt
<1>2. At(c, q) /\ c[s].fs = View(b, q).fs
  BY CloneShows DEF View
<1> HIDE DEF c
<1>3. /\ s \in 1..Len(c) /\ IsPrefix(c[s].at, q)
      /\ \A j \in 1..Len(c) : IsPrefix(c[j].at, q) => j <= s
  BY <1>1, <1>2, SeenFacts
<1>4. /\ u \in Seq(Mounted) /\ Len(u) = Len(c)
      /\ \A i \in 1..Len(u) : u[i].at = base \o c[i].at /\ u[i].fs = c[i].fs
  BY DEF PutBelow, c
<1>5. \A i \in 1..Len(u) : IsPrefix(u[i].at, r) <=> IsPrefix(c[i].at, q)
  <2> SUFFICES ASSUME NEW i \in 1..Len(u)
               PROVE  IsPrefix(u[i].at, r) <=> IsPrefix(c[i].at, q)
    OBVIOUS
  <2>1. c[i].at \in Path /\ u[i].at = base \o c[i].at
    BY <1>1, <1>4
  <2>2. IsPrefix(base \o c[i].at, base \o q) <=> IsPrefix(c[i].at, q)
    BY <2>1, PrefixBelow
  <2> QED BY <2>1, <2>2 DEF Joined
<1> HIDE DEF s, r
<1>6. At(u, r) /\ Seen(u, r) = s
  <2>1. s \in 1..Len(u) /\ IsPrefix(u[s].at, r)
    BY <1>3, <1>4, <1>5
  <2>2. \A j \in 1..Len(u) : IsPrefix(u[j].at, r) => j <= s
    BY <1>3, <1>4, <1>5
  <2> QED BY <1>4, <2>1, <2>2, SeenIs
<1>7. View(Joined(t, u), r) = u[s]
  BY <1>4, <1>6, SeenConcat DEF View
<1>8. u[s].fs = c[s].fs
  BY <1>3, <1>4
<1> QED BY <1>2, <1>7, <1>8 DEF r, s

\* Elsewhere one sees what one saw before.
LEMMA PutHides ==
  ASSUME NEW t \in Seq(Mounted), NEW b \in Seq(Mounted), NEW base \in Path,
         NEW p \in Path, NEW r \in Path, NEW u,
         At(b, p), At(t, r), ~IsPrefix(Joined(base, p), r), PutBelow(u, base, b, p)
  PROVE  At(Joined(t, u), r) /\ View(Joined(t, u), r) = View(t, r)
<1> DEFINE c == Clone(b, p)
<1>1. c \in Seq(Mounted) /\ \A k \in 1..Len(c) : c[k].at \in Path /\ IsPrefix(p, c[k].at)
  BY CloneFacts, CloneAt
<1> HIDE DEF c
<1>2. u \in Seq(Mounted) /\ Len(u) = Len(c) /\ \A i \in 1..Len(u) : u[i].at = base \o c[i].at
  BY DEF PutBelow, c
<1>3. ASSUME NEW i \in 1..Len(u) PROVE ~IsPrefix(u[i].at, r)
  <2>1. c[i].at \in Path /\ IsPrefix(p, c[i].at) /\ u[i].at = base \o c[i].at
    BY <1>1, <1>2
  <2>2. /\ base \o p \in Path /\ u[i].at \in Path
        /\ IsPrefix(base \o p, u[i].at)
    BY <2>1, PrefixBelow
  <2> QED BY <2>2, PrefixOrder DEF Joined
<1>4. ~At(u, r)
  BY <1>2, <1>3 DEF At
<1> QED BY <1>2, <1>4, SeenConcat

\* The clone of p, attached at p, changes no file system that one sees.
LEMMA PutBack ==
  ASSUME NEW t \in Tables, NEW p \in Path, NEW q \in Path, NEW u,
         PutBelow(u, << >>, t, p)
  PROVE  View(Joined(t, u), q).fs = View(t, q).fs
<1>1. t \in Seq(Mounted) /\ At(t, p) /\ At(t, q)
  BY RootSeen DEF Tables
<1> DEFINE e == << >>
<1>2. e \in Path /\ Joined(e, p) = p /\ Joined(e, q) = q
  BY ConcatEmptySeq DEF Path, Joined
<1>3. PutBelow(u, e, t, p)
  OBVIOUS
<1> HIDE DEF e
<1>4. CASE IsPrefix(p, q)
  BY <1>1, <1>2, <1>3, <1>4, PutShows
<1>5. CASE ~IsPrefix(p, q)
  <2>1. ~IsPrefix(Joined(e, p), q)
    BY <1>2, <1>5
  <2>2. View(Joined(t, u), q) = View(t, q)
    BY <1>1, <1>2, <1>3, <2>1, PutHides
  <2> QED BY <2>2
<1> QED BY <1>4, <1>5
-----------------------------------------------------------------------------
(***************************************************************************)
(* The inductive invariant.                                                *)
(***************************************************************************)
own == tab["own"]
host == tab["host"]
Early == {"base_dir", "unshare", "private", "open_mounts"}
BeforeTmpfs == {"base_dir", "unshare", "private", "open_mounts", "lines", "tmpfs"}

\* The tables: those of the host and of the container are what they were, and
\* until the loop begins the child's is the host's.
TablesOK ==
  /\ tab \in [Namespaces -> Tables]
  /\ tab["box"] = Box /\ host \in Hosts
  /\ pc \in Early => own = host

\* The namespace the child is in, and that it is private when mounts are made.
Where ==
  /\ pc \in {"private", "open_mounts", "lines", "tmpfs", "localtime", "enter",
             "attach", "done"} => ns = "own"
  /\ pc \in {"readdir", "capture"} => ns = "box"
  /\ pc \in {"base_dir", "unshare"} => ns = "host"
  /\ pc \notin {"base_dir", "unshare", "private", "failed"} => ~shared

\* The child's table begins with the host's; a path in it that is neither below
\* base_dir nor the local time is one of the host's.
Extends ==
  /\ Len(host) <= Len(own)
  /\ \A i \in 1..Len(host) : own[i] = host[i]
  /\ \A i \in 1..Len(own) : \/ own[i].at = Localtime \/ IsPrefix(Base, own[i].at)
                            \/ \E j \in 1..Len(host) : own[i].at = host[j].at

\* One sees the file systems of the host at all paths but those.
SameView ==
  \A p \in Path : \/ IsPrefix(Base, p) \/ IsPrefix(Localtime, p)
                  \/ View(own, p).fs = View(host, p).fs

\* What the loop has attached carries the idmap, and each is the copy of another
\* mount of the host.
Added == (Len(host) + 1)..Len(own)
Copies(f) == /\ f \in [Added -> 1..Len(host)]
             /\ \A i, j \in Added : f[i] = f[j] => i = j
             /\ \A i \in Added : own[i].at = host[f[i]].at
CopiedOnce ==
  pc \in BeforeTmpfs =>
    /\ \A i \in Added : own[i].idmapped
    /\ \E f \in [Added -> 1..Len(host)] : Copies(f)

\* The loop is not beyond the end of the table, and has seen all of it after.
LineOK ==
  /\ line \in Nat /\ line >= 1 /\ line <= 2 * Len(host) + 1
  /\ pc \in Early => line = 1
  /\ pc = "tmpfs" /\ effective_user => line > Len(own)

\* A mount of the host that can be idmapped either is not seen any more, but its
\* idmapped copy, or it waits for its line and nothing was attached below it.
Waiting(i) == /\ line <= i
              /\ \A j \in Added : ~IsPrefix(host[i].at, own[j].at)
IdmapProgress ==
  pc \in BeforeTmpfs /\ effective_user =>
    \A i \in 1..Len(host) :
      Supported(host[i].at) => View(own, host[i].at).idmapped \/ Waiting(i)

\* Until the tmpfs is mounted, base_dir is where it was created, and from then on
\* it is on the tmpfs.
OnHost == <<"base_dir", View(host, Base).fs>>
OnTmpfs ==
  /\ pc \in {"localtime", "enter", "readdir", "capture", "attach", "done"}
       => View(own, Base).fs = "tmpfs"
  /\ pc \in BeforeTmpfs => View(own, Base).fs = View(host, Base).fs
  /\ pc \in BeforeTmpfs \ {"base_dir"} => OnHost \in created
  /\ created \subseteq {OnHost, <<"below", "tmpfs">>}

\* A captured tree is a clone of what the container has at that entry.
TreesOK ==
  /\ captured_trees \in Seq([name : Entries, is_dir : BOOLEAN, tree_is_dir : BOOLEAN,
                             tree : Seq(Mounted)])
  /\ \A i \in 1..Len(captured_trees) :
       captured_trees[i].tree = Clone(Box, <<captured_trees[i].name>>)

\* An entry that leads somewhere and was not touched is listed, captured and
\* shown, with the type that it has.
Good(e) == Target(e) \notin spoiled /\ EntryKind[e] \in {"dir", "file", "symfile"}
Listed(e) == \E i \in 1..Len(entries) : entries[i].name = e
Captured(e) == \E i \in 1..Len(captured_trees) : captured_trees[i].name = e
Visible(e) ==
  \A q \in Path : IsPrefix(<<e>>, q) =>
    View(own, Joined(Base, q)).fs = View(Box, q).fs
Types(k) == {ListedType(k), StatType(k)}
EntryOK(e) ==
  /\ kind[e] = EntryKind[e]
  /\ \A i \in 1..Len(entries) :
       entries[i].name = e => entries[i].type \in Types(EntryKind[e])
  /\ \A i \in 1..Len(captured_trees) :
       captured_trees[i].name = e =>
         captured_trees[i].is_dir = captured_trees[i].tree_is_dir
  /\ pc = "capture" => Listed(e) \/ Captured(e)
  /\ pc = "attach" => Captured(e) \/ Visible(e)
  /\ pc = "done" => Visible(e)
EntriesOK == \A e \in Entries : Good(e) => EntryOK(e)

\* The values of the other variables.
Plain ==
  /\ pc \in {"base_dir", "unshare", "private", "open_mounts", "lines", "tmpfs",
             "localtime", "enter", "readdir", "capture", "attach", "done", "failed"}
  /\ effective_user \in BOOLEAN /\ d_type \in BOOLEAN /\ shared \in BOOLEAN
  /\ ns \in Namespaces
  /\ kind \in [Entries -> EntryKinds \cup {"gone"}]
  /\ entries \in Seq([name : Entries, type : {"dir", "other", "unknown"}])
  /\ spoiled \subseteq Paths \cup {Target(e) : e \in Entries}

IInv == /\ Plain /\ TablesOK /\ Where /\ Extends /\ SameView /\ CopiedOnce
        /\ LineOK /\ IdmapProgress /\ OnTmpfs /\ TreesOK /\ EntriesOK
-----------------------------------------------------------------------------
(***************************************************************************)
(* Facts about tables that the steps need.                                 *)
(***************************************************************************)
LEMMA TableFacts ==
  ASSUME NEW t \in Tables
  PROVE  /\ t \in Seq(Mounted) /\ Len(t) \in Nat /\ 1 \in 1..Len(t)
         /\ DOMAIN t = 1..Len(t) /\ t[1].at = << >>
         /\ \A i \in 1..Len(t) : t[i] \in Mounted /\ t[i].at \in Path
         /\ \A p \in Path : /\ At(t, p)
                            /\ Seen(t, p) \in 1..Len(t)
                            /\ View(t, p) = t[Seen(t, p)]
<1>1. t \in Seq(Mounted) /\ t # << >> /\ t[1].at = << >>
  BY DEF Tables
<1>2. Len(t) \in Nat /\ 1 \in 1..Len(t) /\ DOMAIN t = 1..Len(t)
  BY <1>1
<1>3. \A i \in 1..Len(t) : t[i] \in Mounted
  BY <1>1
<1>4. \A i \in 1..Len(t) : t[i].at \in Path
  BY <1>3 DEF Mounted
<1>5. \A p \in Path : At(t, p) /\ Seen(t, p) \in 1..Len(t)
  BY <1>1, RootSeen, SeenFacts
<1> QED BY <1>1, <1>2, <1>3, <1>4, <1>5 DEF View

LEMMA JoinedFacts ==
  ASSUME NEW t \in Tables, NEW u \in Seq(Mounted)
  PROVE  /\ Joined(t, u) \in Tables
         /\ Len(Joined(t, u)) = Len(t) + Len(u)
         /\ \A i \in 1..Len(t) : Joined(t, u)[i] = t[i]
         /\ \A i \in (Len(t) + 1)..(Len(t) + Len(u)) : /\ i - Len(t) \in 1..Len(u)
                                                  /\ Joined(t, u)[i] = u[i - Len(t)]
<1>1. /\ t \in Seq(Mounted) /\ t # << >> /\ t[1].at = << >>
      /\ Len(t) \in Nat /\ Len(u) \in Nat /\ Len(t) > 0
  BY DEF Tables
<1> DEFINE v == t \o u
<1>2. /\ v \in Seq(Mounted) /\ Len(v) = Len(t) + Len(u)
      /\ \A i \in 1..Len(t) : v[i] = t[i]
      /\ \A i \in (Len(t) + 1)..(Len(t) + Len(u)) : v[i] = u[i - Len(t)]
  BY <1>1
<1> HIDE DEF v
<1>3. v # << >> /\ v[1] = t[1]
  BY <1>1, <1>2
<1>4. v \in Tables
  BY <1>1, <1>2, <1>3 DEF Tables
<1>5. \A i \in (Len(t) + 1)..(Len(t) + Len(u)) : i - Len(t) \in 1..Len(u)
  BY <1>1
<1> QED BY <1>2, <1>4, <1>5 DEF v, Joined

\* What the loop attaches.
LEMMA IdmappedFacts ==
  ASSUME NEW t \in Tables, NEW p \in Path
  PROVE  LET c == Clone(t, p)
             u == Idmapped(c)
         IN /\ PutBelow(u, << >>, t, p)
            /\ u \in Seq(Mounted) /\ Len(u) = Len(c)
            /\ \A i \in 1..Len(u) : u[i].idmapped /\ u[i].at = c[i].at
<1> DEFINE c == Clone(t, p)
           u == Idmapped(c)
<1>1. c \in Seq(Mounted) /\ \A i \in 1..Len(c) : c[i].at \in Path
  BY CloneFacts, CloneAt, RootSeen DEF Tables
<1> HIDE DEF c
<1>2. /\ Len(c) \in Nat /\ DOMAIN c = 1..Len(c)
      /\ \A i \in 1..Len(c) : c[i] \in Mounted
  BY <1>1
<1>3. \A i \in 1..Len(c) : LET m == [c[i] EXCEPT !.idmapped = TRUE]
                           IN m \in Mounted /\ m.idmapped /\ m.at = c[i].at /\ m.fs = c[i].fs
  BY <1>2 DEF Mounted
<1>4. u = [i \in 1..Len(c) |-> [c[i] EXCEPT !.idmapped = TRUE]]
  BY <1>2 DEF Idmapped
<1>5. u \in Seq(Mounted) /\ Len(u) = Len(c)
  BY <1>2, <1>3, <1>4
<1>6. \A i \in 1..Len(u) : u[i].idmapped /\ u[i].at = c[i].at /\ u[i].fs = c[i].fs
  BY <1>3, <1>4, <1>5
<1> HIDE DEF u
<1>7. \A i \in 1..Len(u) : c[i].at = << >> \o c[i].at
  BY <1>1, <1>5, ConcatEmptySeq DEF Path
<1>8. PutBelow(u, << >>, t, p)
  BY <1>5, <1>6, <1>7 DEF PutBelow, c
<1> QED BY <1>5, <1>6, <1>8 DEF u, c

\* What is attached below base_dir.
LEMMA BelowFacts ==
  ASSUME NEW t \in Tables, NEW p \in Path, Base \in Path
  PROVE  LET u == Below(Clone(t, p))
         IN u \in Seq(Mounted) /\ PutBelow(u, Base, t, p)
<1> DEFINE c == Clone(t, p)
           u == Below(c)
<1>1. c \in Seq(Mounted) /\ \A i \in 1..Len(c) : c[i].at \in Path
  BY CloneFacts, CloneAt, RootSeen DEF Tables
<1> HIDE DEF c
<1>2. /\ Len(c) \in Nat /\ DOMAIN c = 1..Len(c)
      /\ \A i \in 1..Len(c) : c[i] \in Mounted
  BY <1>1
<1>3. \A i \in 1..Len(c) : Base \o c[i].at \in Path
  BY <1>1, PrefixBelow
<1>4. \A i \in 1..Len(c) : LET m == [c[i] EXCEPT !.at = Base \o @]
                           IN m \in Mounted /\ m.at = Base \o c[i].at /\ m.fs = c[i].fs
  BY <1>2, <1>3 DEF Mounted
<1>5. u = [i \in 1..Len(c) |-> [c[i] EXCEPT !.at = Base \o @]]
  BY <1>2 DEF Below
<1>6. u \in Seq(Mounted) /\ Len(u) = Len(c)
  BY <1>2, <1>4, <1>5
<1>7. \A i \in 1..Len(u) : u[i].at = Base \o c[i].at /\ u[i].fs = c[i].fs
  BY <1>4, <1>5, <1>6
<1> HIDE DEF u
<1>8. PutBelow(u, Base, t, p)
  BY <1>6, <1>7 DEF PutBelow, c
<1> QED BY <1>6, <1>8 DEF u, c

\* A mount is attached in the child's own namespace only.
LEMMA AttachedOwn ==
  ASSUME TablesOK, ns = "own", ~shared, NEW u \in Seq(Mounted), Attached(u)
  PROVE  /\ tab' \in [Namespaces -> Tables]
         /\ own' = Joined(own, u) /\ host' = host /\ tab'["box"] = tab["box"]
<1>1. tab' = [n \in Namespaces |-> IF n = "own" THEN tab[n] \o u ELSE tab[n]]
  BY DEF Attached
<1>2. \A n \in Namespaces : tab[n] \in Tables /\ tab[n] \o u \in Tables
  <2>1. \A n \in Namespaces : tab[n] \in Tables
    BY DEF TablesOK
  <2>2. \A n \in Namespaces : Joined(tab[n], u) \in Tables
    BY <2>1, JoinedFacts
  <2> QED BY <2>1, <2>2 DEF Joined
<1>3. {"own", "host", "box"} \subseteq Namespaces
  BY DEF Namespaces
<1>4. tab' \in [Namespaces -> Tables]
  BY <1>1, <1>2
<1>5. tab'["own"] = tab["own"] \o u /\ tab'["host"] = tab["host"] /\ tab'["box"] = tab["box"]
  BY <1>1, <1>3
<1> QED BY <1>4, <1>5 DEF own, host, Joined
-----------------------------------------------------------------------------
(***************************************************************************)
(* What a step does to the tables: nothing, or one of four calls attaches  *)
(* mounts in the child's own namespace.                                    *)
(***************************************************************************)
ByLoop(u) ==
  /\ IdmapLine /\ line \in 1..Len(own)
  /\ Accepted(Clone(own, own[line].at)) /\ u = Idmapped(Clone(own, own[line].at))
ByTmpfs(u) == MountTmpfs /\ u = <<Mount(Base, "tmpfs", "ok")>>
ByLocaltime(u) ==
  BindLocaltime /\ u = <<Mount(Localtime, View(own, Base).fs, "ok")>>
EntryName == Head(captured_trees).name
ByEntry(u) ==
  AttachEntry /\ EntryName \in Entries /\ u = Below(Clone(Box, <<EntryName>>))
Attaching(u) ==
  /\ u \in Seq(Mounted) /\ ns = "own" /\ ~shared /\ Attached(u)
  /\ ByLoop(u) \/ ByTmpfs(u) \/ ByLocaltime(u) \/ ByEntry(u)

TreeRecord == [name : Entries, is_dir : BOOLEAN, tree_is_dir : BOOLEAN,
               tree : Seq(Mounted)]
LEMMA TreesShape ==
  ASSUME TreesOK
  PROVE  /\ captured_trees \in Seq(TreeRecord)
         /\ \A i \in 1..Len(captured_trees) :
              LET c == captured_trees[i]
              IN /\ c.name \in Entries /\ c.tree \in Seq(Mounted)
                 /\ c.tree = Clone(Box, <<c.name>>)
<1>1. captured_trees \in Seq(TreeRecord)
  BY DEF TreesOK, TreeRecord
<1>2. \A i \in 1..Len(captured_trees) : captured_trees[i] \in TreeRecord
  BY <1>1
<1>3. \A i \in 1..Len(captured_trees) :
        captured_trees[i].tree = Clone(Box, <<captured_trees[i].name>>)
  BY DEF TreesOK
<1> QED BY <1>1, <1>2, <1>3 DEF TreeRecord

LEMMA Constants ==
  /\ Base \in Path /\ Localtime \in Path /\ Box \in Tables
  /\ Entries \subseteq STRING /\ IsFiniteSet(Entries)
  /\ \A e \in Entries : <<e>> \in Path /\ Len(<<e>>) = 1
BY MountAssumption DEF Path

LEMMA OwnTables ==
  ASSUME TablesOK
  PROVE  own \in Tables /\ host \in Tables /\ tab["box"] \in Tables
BY DEF TablesOK, own, host, Namespaces

LEMMA LoopAttaches ==
  ASSUME IInv, IdmapLine
  PROVE  \E u : Attaching(u) /\ ByLoop(u)
<1>1. own \in Tables
  BY OwnTables DEF IInv
<1>2. ns = "own" /\ ~shared /\ line \in 1..Len(own)
  BY <1>1, TableFacts DEF IInv, Where, LineOK, IdmapLine, NextLine, own
<1> DEFINE c == Clone(own, own[line].at)
<1>3. Accepted(c) /\ Attached(Idmapped(c))
  BY <1>2 DEF IdmapLine, MovedBack, own
<1>4. Idmapped(c) \in Seq(Mounted)
  BY <1>1, <1>2, TableFacts, IdmappedFacts
<1>5. Attaching(Idmapped(c)) /\ ByLoop(Idmapped(c))
  BY <1>2, <1>3, <1>4 DEF Attaching, ByLoop
<1> QED BY <1>5

LEMMA TmpfsAttaches ==
  ASSUME IInv, MountTmpfs
  PROVE  \E u : Attaching(u) /\ ByTmpfs(u)
<1>1. ns = "own" /\ ~shared
  BY DEF IInv, Where, MountTmpfs
<1> DEFINE m == Mount(Base, "tmpfs", "ok")
<1>2. m \in Mounted
  BY Constants DEF Mount, Mounted, FileSystem
<1>3. <<m>> \in Seq(Mounted)
  BY <1>2
<1>4. Attaching(<<m>>) /\ ByTmpfs(<<m>>)
  BY <1>1, <1>3 DEF Attaching, ByTmpfs, MountTmpfs
<1> QED BY <1>4

\* The tree of an entry is attached when both are directories, or neither.
LEMMA EntryAttaches ==
  ASSUME IInv, AttachEntry
  PROVE  /\ 1 \in 1..Len(captured_trees) /\ Head(captured_trees) = captured_trees[1]
         /\ EntryName \in Entries
         /\ Head(captured_trees).is_dir # Head(captured_trees).tree_is_dir => UNCHANGED tab
         /\ Head(captured_trees).is_dir = Head(captured_trees).tree_is_dir =>
              \E u : Attaching(u) /\ ByEntry(u)
<1>1. ns = "own" /\ ~shared
  BY DEF IInv, Where, AttachEntry
<1> DEFINE c == Head(captured_trees)
           u == Below(c.tree)
<1>2. /\ c.is_dir = c.tree_is_dir => Attached(u)
      /\ c.is_dir # c.tree_is_dir => UNCHANGED tab
  BY DEF AttachEntry
<1>3. 1 \in 1..Len(captured_trees) /\ c = captured_trees[1]
  BY DEF IInv, TreesOK, AttachEntry
<1>4. c.name \in Entries /\ c.tree = Clone(Box, <<c.name>>)
  BY <1>3, TreesShape DEF IInv
<1>5. u \in Seq(Mounted)
  BY <1>4, BelowFacts, Constants
<1>6. Attached(u) => Attaching(u) /\ ByEntry(u)
  BY <1>1, <1>4, <1>5 DEF Attaching, ByEntry, EntryName
<1> QED BY <1>2, <1>3, <1>4, <1>6 DEF EntryName

LEMMA Kinds ==
  ASSUME IInv, [Next]_vars
  PROVE  UNCHANGED tab \/ \E u : Attaching(u)
<1>1. own \in Tables
  BY OwnTables DEF IInv
<1>2. View(own, Base).fs \in FileSystem
  <2>1. View(own, Base) \in Mounted
    BY <1>1, TableFacts, Constants
  <2> QED BY <2>1 DEF Mounted
<1>3. ASSUME BindLocaltime PROVE UNCHANGED tab \/ \E u : Attaching(u)
  <2>1. ns = "own" /\ ~shared
    BY <1>3 DEF IInv, Where, BindLocaltime
  <2> DEFINE m == Mount(Localtime, View(own, Base).fs, "ok")
  <2>2. m \in Mounted
    BY <1>2, Constants DEF Mount, Mounted
  <2>3. <<m>> \in Seq(Mounted)
    BY <2>2
  <2>4. UnderBase = View(own, Base).fs
    BY <2>1 DEF UnderBase, SeenAt, View, own
  <2>5. UNCHANGED tab \/ Attached(<<m>>)
    BY <1>3, <2>4 DEF BindLocaltime
  <2>6. Attached(<<m>>) => Attaching(<<m>>)
    BY <1>3, <2>1, <2>3 DEF Attaching, ByLocaltime
  <2> QED BY <2>5, <2>6
<1>4. CASE IdmapLine \/ MountTmpfs \/ BindLocaltime \/ AttachEntry
  BY <1>3, <1>4, LoopAttaches, TmpfsAttaches, EntryAttaches
<1>5. CASE ~(IdmapLine \/ MountTmpfs \/ BindLocaltime \/ AttachEntry)
  BY <1>5 DEF Next, ApplyIdmappedMounts, CaptureAndAttach, vars,
     CreateBaseDir, Unshare, MakePrivate, OpenMounts, SkipLine, RefusedLine, FailedLine,
     EndOfMounts, NoLocaltime, EnterBox, Stat, ReadDir, Capture, NotCaptured, Return,
     ReturnFails, AttachFails, Done, Fails, BoxReplaces, Terminating
<1> QED BY <1>4, <1>5

LEMMA TablesStep ==
  ASSUME IInv, [Next]_vars
  PROVE  /\ TablesOK'
         /\ host' = host /\ tab'["box"] = tab["box"]
         /\ \/ own' = own /\ UNCHANGED tab
            \/ \E u : Attaching(u) /\ own' = Joined(own, u)
<1> USE DEF Early
<1>1. CASE UNCHANGED tab
  <2>1. host' = host /\ own' = own /\ tab'["box"] = tab["box"]
    BY <1>1 DEF own, host
  <2>2. pc' \in Early => pc \in Early
    BY DEF Next, ApplyIdmappedMounts, CaptureAndAttach, vars, NextLine,
     CreateBaseDir, Unshare, MakePrivate, AfterPrivate, OpenMounts, SkipLine, IdmapLine,
     RefusedLine, FailedLine, EndOfMounts, MountTmpfs, BindLocaltime, NoLocaltime,
     EnterBox, Stat, ReadDir, Capture, NotCaptured, Return, ReturnFails, AttachEntry,
     AttachFails, Done, Fails, BoxReplaces, Terminating
  <2> QED BY <1>1, <2>1, <2>2 DEF IInv, TablesOK
<1>2. ASSUME NEW u, Attaching(u)
      PROVE  TablesOK' /\ host' = host /\ tab'["box"] = tab["box"] /\ own' = Joined(own, u)
  <2>1. /\ tab' \in [Namespaces -> Tables]
        /\ own' = Joined(own, u) /\ host' = host /\ tab'["box"] = tab["box"]
    BY <1>2, AttachedOwn DEF IInv, Attaching
  <2>2. pc' \notin Early
    BY <1>2 DEF Attaching, ByLoop, ByTmpfs, ByLocaltime, ByEntry, IdmapLine,
       MountTmpfs, BindLocaltime, AttachEntry, NextLine
  <2> QED BY <2>1, <2>2 DEF IInv, TablesOK
<1> QED BY <1>1, <1>2, Kinds

\* What is added to the child's table, and what one sees then.
LEMMA OwnGrows ==
  ASSUME IInv, [Next]_vars
  PROVE  /\ Len(own) <= Len(own') /\ Len(own) \in Nat /\ Len(own') \in Nat
         /\ \A i \in 1..Len(own) : own'[i] = own[i]
<1>1. own \in Tables
  BY OwnTables DEF IInv
<1>2. CASE own' = own
  BY <1>1, <1>2, TableFacts
<1>3. ASSUME NEW u, Attaching(u), own' = Joined(own, u)
      PROVE  /\ Len(own) <= Len(own') /\ Len(own) \in Nat /\ Len(own') \in Nat
             /\ \A i \in 1..Len(own) : own'[i] = own[i]
  <2>1. u \in Seq(Mounted) /\ Len(u) \in Nat /\ Len(own) \in Nat
    BY <1>1, <1>3, TableFacts DEF Attaching
  <2>2. /\ Len(Joined(own, u)) = Len(own) + Len(u)
        /\ \A i \in 1..Len(own) : Joined(own, u)[i] = own[i]
    BY <1>1, <2>1, JoinedFacts
  <2> QED BY <1>3, <2>1, <2>2
<1> QED BY <1>2, <1>3, TablesStep
-----------------------------------------------------------------------------
(***************************************************************************)
(* The lists of entries.                                                   *)
(***************************************************************************)
LEMMA SetToSeqFacts ==
  ASSUME NEW S, IsFiniteSet(S)
  PROVE  /\ SetToSeq(S) \in Seq(S)
         /\ \A x \in S : \E i \in 1..Len(SetToSeq(S)) : SetToSeq(S)[i] = x
<1> DEFINE n == Cardinality(S)
           q == SetToSeq(S)
<1>1. n \in Nat /\ ExistsBijection(1..n, S)
  BY FS_CardinalityType
<1>2. \E f \in [1..n -> S] : IsInjective(f)
  BY <1>1 DEF ExistsBijection, Bijection, Injection
<1>3. q \in [1..n -> S] /\ IsInjective(q)
  BY <1>2 DEF SetToSeq
<1>4. q \in Surjection(1..n, S)
  <2>1. q \in Injection(1..n, S)
    BY <1>3 DEF Injection
  <2>2. IsFiniteSet(1..n) /\ Cardinality(1..n) = n
    <3>1. /\ IsFiniteSet(1..n)
          /\ Cardinality(1..n) = IF 1 > n THEN 0 ELSE n - 1 + 1
      BY <1>1, FS_Interval
    <3> QED BY <1>1, <3>1
  <2> HIDE DEF q
  <2> QED BY <2>1, <2>2, FS_Injection
<1> HIDE DEF n, q
<1>5. q \in Seq(S) /\ Len(q) = n
  BY <1>1, <1>3
<1> QED BY <1>4, <1>5 DEF Surjection, q

EntryRecord == [name : Entries, type : {"dir", "other", "unknown"}]
Listing == {[name |-> e, type |-> ListedType(kind[e])] :
              e \in {x \in Entries : kind[x] # "gone"}}

LEMMA ReadDirLists ==
  ASSUME ReadDir
  PROVE  /\ entries' \in Seq(EntryRecord)
         /\ \A e \in Entries : kind[e] # "gone" => Listed(e)'
         /\ \A i \in 1..Len(entries') :
              entries'[i].type = ListedType(kind[entries'[i].name])
<1>1. entries' = SetToSeq(Listing)
  BY DEF ReadDir, Listing
<1>2. \A r \in Listing : r \in EntryRecord /\ r.type = ListedType(kind[r.name])
  BY DEF Listing, EntryRecord, ListedType
<1>3. IsFiniteSet(Listing)
  <2> DEFINE f == [r \in Listing |-> r.name]
  <2>1. f \in [Listing -> Entries]
    BY <1>2 DEF EntryRecord
  <2>2. \A r, s \in Listing : r.name = s.name => r = s
    BY DEF Listing
  <2>3. f \in Injection(Listing, Entries)
    BY <2>1, <2>2 DEF Injection, IsInjective
  <2> HIDE DEF f
  <2> QED BY <2>3, Constants, FS_Injection
<1>4. /\ entries' \in Seq(Listing)
      /\ \A r \in Listing : \E i \in 1..Len(entries') : entries'[i] = r
  BY <1>1, <1>3, SetToSeqFacts
<1>5. \A i \in 1..Len(entries') : entries'[i] \in Listing
  BY <1>4
<1>6. entries' \in Seq(EntryRecord)
  <2>1. Listing \subseteq EntryRecord
    BY <1>2
  <2> HIDE DEF Listing, EntryRecord
  <2> QED BY <1>4, <2>1
<1>7. ASSUME NEW e \in Entries, kind[e] # "gone" PROVE Listed(e)'
  <2>1. [name |-> e, type |-> ListedType(kind[e])] \in Listing
    BY <1>7 DEF Listing
  <2>2. PICK i \in 1..Len(entries') :
          entries'[i] = [name |-> e, type |-> ListedType(kind[e])]
    BY <1>4, <2>1
  <2>3. entries'[i].name = e
    BY <2>2
  <2> QED BY <2>3 DEF Listed
<1> QED BY <1>2, <1>5, <1>6, <1>7

\* The entry that is looked at, and those after it.
LEMMA EntriesShape ==
  ASSUME Plain
  PROVE  /\ entries \in Seq(EntryRecord)
         /\ \A i \in 1..Len(entries) : entries[i].name \in Entries
         /\ entries # << >> =>
              /\ Head(entries) = entries[1] /\ 1 \in 1..Len(entries)
              /\ Head(entries).name \in Entries
              /\ Tail(entries) \in Seq(EntryRecord)
              /\ \A i \in 1..Len(Tail(entries)) :
                   i + 1 \in 1..Len(entries) /\ Tail(entries)[i] = entries[i + 1]
              /\ \A i \in 2..Len(entries) :
                   i - 1 \in 1..Len(Tail(entries)) /\ Tail(entries)[i - 1] = entries[i]
<1>1. entries \in Seq(EntryRecord)
  BY DEF Plain, EntryRecord
<1>2. \A i \in 1..Len(entries) : entries[i].name \in Entries
  <2>1. \A i \in 1..Len(entries) : entries[i] \in EntryRecord
    BY <1>1
  <2> QED BY <2>1 DEF EntryRecord
<1>3. ASSUME entries # << >>
      PROVE  /\ Head(entries) = entries[1] /\ 1 \in 1..Len(entries)
             /\ Tail(entries) \in Seq(EntryRecord)
             /\ \A i \in 1..Len(Tail(entries)) :
                  i + 1 \in 1..Len(entries) /\ Tail(entries)[i] = entries[i + 1]
             /\ \A i \in 2..Len(entries) :
                  i - 1 \in 1..Len(Tail(entries)) /\ Tail(entries)[i - 1] = entries[i]
  <2>1. /\ Tail(entries) \in Seq(EntryRecord) /\ Len(Tail(entries)) = Len(entries) - 1
        /\ \A i \in 1..Len(Tail(entries)) : Tail(entries)[i] = entries[i + 1]
    BY <1>1, <1>3, HeadTailProperties
  <2>2. Head(entries) = entries[1] /\ 1 \in 1..Len(entries) /\ Len(entries) \in Nat
    BY <1>1, <1>3
  <2>3. ASSUME NEW i \in 2..Len(entries)
        PROVE  i - 1 \in 1..Len(Tail(entries)) /\ Tail(entries)[i - 1] = entries[i]
    <3>1. i - 1 \in 1..Len(Tail(entries)) /\ (i - 1) + 1 = i
      BY <2>1, <2>2
    <3>2. Tail(entries)[i - 1] = entries[(i - 1) + 1]
      BY <2>1, <3>1
    <3> QED BY <3>1, <3>2
  <2>4. \A i \in 1..Len(Tail(entries)) : i + 1 \in 1..Len(entries)
    BY <2>1, <2>2
  <2> QED BY <2>1, <2>2, <2>3, <2>4
<1> QED BY <1>1, <1>2, <1>3

\* A look at the first entry gives it a type and leaves the rest.
LEMMA StatFacts ==
  ASSUME Plain, Stat
  PROVE  /\ entries' \in Seq(EntryRecord) /\ Len(entries') = Len(entries)
         /\ \A i \in 1..Len(entries) : entries'[i].name = entries[i].name
         /\ \A i \in 2..Len(entries) : entries'[i] = entries[i]
         /\ \/ entries'[1].type = StatType(kind[entries[1].name])
            \/ spoiled' = spoiled \cup {Target(entries[1].name)}
<1>1. /\ entries \in Seq(EntryRecord) /\ 1 \in 1..Len(entries)
      /\ Head(entries) = entries[1]
  BY EntriesShape DEF Stat
<1>2. PICK t \in {"dir", "other"} :
        /\ entries' = [entries EXCEPT ![1].type = t]
        /\ \/ t = StatType(kind[entries[1].name])
           \/ Spoil(Target(entries[1].name))
  BY <1>1 DEF Stat, StatType
<1>3. Spoil(Target(entries[1].name)) => spoiled' = spoiled \cup {Target(entries[1].name)}
  BY DEF Spoil
<1> DEFINE r == [entries[1] EXCEPT !.type = t]
<1>4. entries[1] \in EntryRecord
  BY <1>1
<1>5. r \in EntryRecord /\ r.name = entries[1].name /\ r.type = t
  BY <1>4 DEF EntryRecord
<1>6. entries' = [entries EXCEPT ![1] = r]
  BY <1>2
<1> HIDE DEF r
<1>7. /\ entries' \in Seq(EntryRecord) /\ Len(entries') = Len(entries)
      /\ entries'[1] = r /\ \A i \in 1..Len(entries) : i = 1 \/ entries'[i] = entries[i]
  BY <1>1, <1>5, <1>6, ExceptSeq
<1>8. \A i \in 2..Len(entries) : i \in 1..Len(entries) /\ i # 1
  BY <1>1
<1>9. \A i \in 1..Len(entries) : entries'[i].name = entries[i].name
  BY <1>5, <1>7
<1> QED BY <1>2, <1>3, <1>5, <1>7, <1>8, <1>9
-----------------------------------------------------------------------------
(***************************************************************************)
(* The steps keep each part of the invariant.                              *)
(***************************************************************************)
LEMMA PathsGrow ==
  ASSUME IInv, [Next]_vars
  PROVE  Paths \subseteq Paths'
<1>1. own \in Tables /\ own' \in Tables
  <2>1. TablesOK' /\ TablesOK
    BY TablesStep DEF IInv
  <2> QED BY <2>1 DEF TablesOK, own, Namespaces
<1>2. /\ DOMAIN own = 1..Len(own) /\ DOMAIN own' = 1..Len(own')
      /\ Len(own) \in Nat /\ Len(own') \in Nat
  BY <1>1, TableFacts
<1>3. \A i \in 1..Len(own) : i \in 1..Len(own') /\ own'[i] = own[i]
  BY <1>2, OwnGrows
<1> QED BY <1>2, <1>3 DEF Paths, own

LEMMA SpoiledStep ==
  ASSUME IInv, [Next]_vars
  PROVE  (spoiled \subseteq Paths \cup {Target(e) : e \in Entries})'
<1> DEFINE T == {Target(e) : e \in Entries}
<1>1. spoiled \subseteq Paths' \cup T
  BY PathsGrow DEF IInv, Plain
<1>2. ASSUME NEW p \in Paths \cup T, spoiled' = spoiled \cup {p}
      PROVE  spoiled' \subseteq Paths' \cup T
  BY <1>1, <1>2, PathsGrow
<1> HIDE DEF T
<1>3. CASE UNCHANGED spoiled
  BY <1>1, <1>3 DEF T, Target
<1>4. CASE FailedLine
  <2>1. own \in Tables /\ ns = "own" /\ line \in Nat /\ line >= 1
    BY <1>4, OwnTables DEF IInv, Where, FailedLine, LineOK
  <2>2. line \in DOMAIN own
    BY <1>4, <2>1, TableFacts DEF FailedLine, NextLine, own
  <2>3. own[line].at \in Paths
    BY <2>2 DEF Paths, own
  <2>4. spoiled' = spoiled \cup {own[line].at}
    BY <1>4, <2>1 DEF FailedLine, Spoil, own
  <2> QED BY <1>2, <2>3, <2>4 DEF T, Target
<1>5. CASE NotCaptured
  <2>1. Head(entries).name \in Entries
    BY <1>5, EntriesShape DEF IInv, NotCaptured
  <2>2. \/ UNCHANGED spoiled
        \/ spoiled' = spoiled \cup {Target(Head(entries).name)}
    BY <1>5 DEF NotCaptured, Spoil
  <2>3. Target(Head(entries).name) \in T
    BY <2>1 DEF T
  <2> QED BY <1>2, <1>3, <2>2, <2>3 DEF T, Target
<1>6. CASE AttachFails
  <2>1. 1 \in 1..Len(captured_trees) /\ Head(captured_trees) = captured_trees[1]
    BY <1>6 DEF IInv, TreesOK, AttachFails
  <2>2. Head(captured_trees).name \in Entries
    BY <2>1, TreesShape DEF IInv
  <2>3. spoiled' = spoiled \cup {Target(Head(captured_trees).name)}
    BY <1>6 DEF AttachFails, Spoil
  <2>4. Target(Head(captured_trees).name) \in T
    BY <2>2 DEF T
  <2> QED BY <1>2, <2>3, <2>4 DEF T, Target
<1>7. CASE BoxReplaces
  <2>1. PICK e \in Entries : spoiled' = spoiled \cup {Target(e)}
    BY <1>7 DEF BoxReplaces, Spoil
  <2>2. Target(e) \in T
    BY DEF T
  <2> QED BY <1>2, <2>1, <2>2 DEF T, Target
<1>8. CASE Stat
  <2>1. Head(entries).name \in Entries
    BY <1>8, EntriesShape DEF IInv, Stat
  <2>2. \/ UNCHANGED spoiled
        \/ spoiled' = spoiled \cup {Target(Head(entries).name)}
    BY <1>8 DEF Stat, Spoil
  <2>3. Target(Head(entries).name) \in T
    BY <2>1 DEF T
  <2> QED BY <1>2, <1>3, <2>2, <2>3 DEF T, Target
<1>9. Stat \/ FailedLine \/ NotCaptured \/ AttachFails \/ BoxReplaces \/ UNCHANGED spoiled
  BY DEF Next, ApplyIdmappedMounts, CaptureAndAttach, vars, CreateBaseDir, Unshare,
     MakePrivate, OpenMounts, SkipLine, IdmapLine, RefusedLine, EndOfMounts,
     MountTmpfs, BindLocaltime, NoLocaltime, EnterBox, ReadDir, Capture, Return,
     ReturnFails, AttachEntry, Done, Fails, Terminating
<1> QED BY <1>3, <1>4, <1>5, <1>6, <1>7, <1>8, <1>9

LEMMA EntriesStep ==
  ASSUME IInv, [Next]_vars
  PROVE  /\ entries' \in Seq(EntryRecord)
         /\ kind' \in [Entries -> EntryKinds \cup {"gone"}]
<1>1. entries \in Seq(EntryRecord) /\ kind \in [Entries -> EntryKinds \cup {"gone"}]
  BY EntriesShape DEF IInv, Plain
<1>2. entries' \in Seq(EntryRecord)
  <2>1. CASE ReadDir
    BY <2>1, ReadDirLists
  <2>2. CASE Capture \/ NotCaptured
    BY <2>2, EntriesShape DEF IInv, Capture, NotCaptured
  <2>3. CASE Stat
    BY <2>3, StatFacts DEF IInv
  <2>4. ReadDir \/ Stat \/ Capture \/ NotCaptured \/ UNCHANGED entries
    BY DEF Next, ApplyIdmappedMounts, CaptureAndAttach, vars, treeVars, NextLine,
       CreateBaseDir, Unshare, MakePrivate, OpenMounts, SkipLine, IdmapLine,
       RefusedLine, FailedLine, EndOfMounts, MountTmpfs, BindLocaltime, NoLocaltime,
       EnterBox, Return, ReturnFails, AttachEntry, AttachFails, Done, Fails,
       BoxReplaces, Terminating
  <2> QED BY <1>1, <2>1, <2>2, <2>3, <2>4
<1>3. kind' \in [Entries -> EntryKinds \cup {"gone"}]
  <2>1. CASE BoxReplaces
    <3>1. PICK e \in Entries, k \in {"dir", "file", "gone"} : kind' = [kind EXCEPT ![e] = k]
      BY <2>1 DEF BoxReplaces
    <3>2. k \in EntryKinds \cup {"gone"}
      BY DEF EntryKinds
    <3> QED BY <1>1, <3>1, <3>2
  <2>2. BoxReplaces \/ UNCHANGED kind
    BY DEF Next, ApplyIdmappedMounts, CaptureAndAttach, vars, treeVars, NextLine,
       CreateBaseDir, Unshare, MakePrivate, OpenMounts, SkipLine, IdmapLine,
       RefusedLine, FailedLine, EndOfMounts, MountTmpfs, BindLocaltime, NoLocaltime,
       EnterBox, Stat, ReadDir, Capture, NotCaptured, Return, ReturnFails,
       AttachEntry, AttachFails, Done, Fails, Terminating
  <2> QED BY <1>1, <2>1, <2>2
<1> QED BY <1>2, <1>3

LEMMA PcStep ==
  ASSUME IInv, [Next]_vars
  PROVE  /\ pc' \in {"base_dir", "unshare", "private", "open_mounts", "lines",
                     "tmpfs", "localtime", "enter", "readdir", "capture", "attach", "done", "failed"}
         /\ effective_user' = effective_user /\ d_type' = d_type
         /\ shared' \in BOOLEAN /\ ns' \in Namespaces /\ Where'
<1> USE DEF Where, Namespaces
<1>1. /\ Where /\ shared \in BOOLEAN /\ ns \in {"host", "own", "box"}
      /\ pc \in {"base_dir", "unshare", "private", "open_mounts", "lines",
                 "tmpfs", "localtime", "enter", "readdir", "capture", "attach", "done", "failed"}
  BY DEF IInv, Plain
<1>2. CASE CreateBaseDir \/ Unshare
  BY <1>1, <1>2 DEF CreateBaseDir, Unshare, boxVars
<1>3. CASE MakePrivate
  BY <1>1, <1>3 DEF MakePrivate, AfterPrivate, boxVars
<1>4. CASE ApplyIdmappedMounts
  <2>1. \/ pc = "open_mounts" /\ pc' = "lines"
        \/ pc = "lines" /\ pc' \in {"lines", "tmpfs"}
    BY <1>4 DEF ApplyIdmappedMounts, OpenMounts, SkipLine, IdmapLine, RefusedLine,
       FailedLine, EndOfMounts, NextLine
  <2>2. UNCHANGED <<boxVars, ns, shared>>
    BY <1>4 DEF ApplyIdmappedMounts, OpenMounts, SkipLine, IdmapLine, RefusedLine,
       FailedLine, EndOfMounts, NextLine
  <2> QED BY <1>1, <2>1, <2>2 DEF boxVars
<1>5. CASE MountTmpfs \/ BindLocaltime \/ NoLocaltime
  BY <1>1, <1>5 DEF MountTmpfs, BindLocaltime, NoLocaltime, boxVars
<1>6. CASE EnterBox \/ ReadDir \/ Stat \/ Capture \/ NotCaptured
  BY <1>1, <1>6 DEF EnterBox, ReadDir, Stat, Capture, NotCaptured, boxVars
<1>7. CASE Return \/ ReturnFails \/ AttachEntry \/ AttachFails \/ Done
  BY <1>1, <1>7 DEF Return, ReturnFails, AttachEntry, AttachFails, Done, boxVars
<1>8. CASE Fails \/ BoxReplaces
  BY <1>1, <1>8 DEF Fails, BoxReplaces, boxVars
<1>9. CASE UNCHANGED vars
  BY <1>1, <1>9 DEF vars, boxVars
<1> QED BY <1>2, <1>3, <1>4, <1>5, <1>6, <1>7, <1>8, <1>9
    DEF Next, CaptureAndAttach, Terminating

LEMMA PlainStep ==
  ASSUME IInv, [Next]_vars
  PROVE  Plain'
<1>1. /\ effective_user \in BOOLEAN /\ d_type \in BOOLEAN
  BY DEF IInv, Plain
<1>2. effective_user' \in BOOLEAN /\ d_type' \in BOOLEAN
  BY <1>1, PcStep
<1> QED BY <1>2, PcStep, EntriesStep, SpoiledStep DEF Plain, EntryRecord
\* The paths of a clone of p are p and paths below p of the table.
LEMMA ClonePaths ==
  ASSUME NEW t \in Tables, NEW p \in Path, NEW k \in 1..Len(Clone(t, p))
  PROVE  \/ Clone(t, p)[k].at = p
         \/ \E j \in Under(t, p) : j \in 1..Len(t) /\ Clone(t, p)[k].at = t[j].at
<1>1. t \in Seq(Mounted) /\ At(t, p)
  BY TableFacts
<1>2. CASE k = 1
  BY <1>1, <1>2, CloneAt
<1>3. CASE k \in 2..Len(Clone(t, p))
  <2>1. /\ Nth(Under(t, p), k - 1) \in Under(t, p)
        /\ Clone(t, p)[k] = t[Nth(Under(t, p), k - 1)]
    BY <1>1, <1>3, CloneFacts
  <2> QED BY <1>1, <2>1, UnderFacts
<1>4. Len(Clone(t, p)) \in Nat
  BY <1>1, CloneFacts
<1> QED BY <1>2, <1>3, <1>4

\* A single mount at a path that is not at or above q is not seen at q.
LEMMA SingleHides ==
  ASSUME NEW t \in Tables, NEW m \in Mounted, NEW q \in Path
  PROVE  /\ ~IsPrefix(m.at, q) => View(Joined(t, <<m>>), q) = View(t, q)
         /\ IsPrefix(m.at, q) => View(Joined(t, <<m>>), q) = m
<1> DEFINE u == <<m>>
<1>1. u \in Seq(Mounted) /\ Len(u) = 1 /\ u[1] = m /\ DOMAIN u = {1}
  OBVIOUS
<1> HIDE DEF u
<1>2. t \in Seq(Mounted) /\ At(t, q)
  BY TableFacts
<1>3. ASSUME ~IsPrefix(m.at, q) PROVE View(Joined(t, u), q) = View(t, q)
  <2>1. ~At(u, q)
    BY <1>1, <1>3 DEF At
  <2> QED BY <1>1, <1>2, <2>1, SeenConcat
<1>4. ASSUME IsPrefix(m.at, q) PROVE View(Joined(t, u), q) = m
  <2>1. At(u, q) /\ Seen(u, q) = 1
    <3>1. 1 \in 1..Len(u) /\ IsPrefix(u[1].at, q)
      BY <1>1, <1>4
    <3>2. \A j \in 1..Len(u) : IsPrefix(u[j].at, q) => j <= 1
      BY <1>1
    <3> QED BY <1>1, <3>1, <3>2, SeenIs
  <2> QED BY <1>1, <1>2, <2>1, SeenConcat DEF View
<1> QED BY <1>3, <1>4 DEF u

\* What each of the four calls attaches.
LEMMA Attached1 ==
  ASSUME IInv, NEW u, Attaching(u)
  PROVE  /\ own \in Tables /\ u \in Seq(Mounted) /\ own' = Joined(own, u)
         /\ ByLoop(u) =>
              /\ pc = "lines" /\ pc' = "lines" /\ line \in 1..Len(own)
              /\ own[line].at \in Path /\ ~IsPrefix(Base, own[line].at)
              /\ PutBelow(u, << >>, own, own[line].at)
              /\ Accepted(Clone(own, own[line].at))
              /\ Len(u) = Len(Clone(own, own[line].at))
              /\ \A i \in 1..Len(u) : /\ u[i].idmapped
                                      /\ u[i].at = Clone(own, own[line].at)[i].at
         /\ ByTmpfs(u) =>
              \E m \in Mounted : u = <<m>> /\ m.at = Base /\ m.fs = "tmpfs"
         /\ ByLocaltime(u) => \E m \in Mounted : u = <<m>> /\ m.at = Localtime
                                                 /\ m.fs = View(own, Base).fs
         /\ ByEntry(u) =>
              /\ <<EntryName>> \in Path /\ PutBelow(u, Base, Box, <<EntryName>>)
<1>1. own \in Tables /\ u \in Seq(Mounted) /\ own' = Joined(own, u)
  BY OwnTables, AttachedOwn DEF IInv, Attaching
<1>2. ASSUME ByLoop(u)
      PROVE  /\ pc = "lines" /\ pc' = "lines" /\ line \in 1..Len(own)
             /\ own[line].at \in Path /\ ~IsPrefix(Base, own[line].at)
             /\ PutBelow(u, << >>, own, own[line].at)
             /\ Accepted(Clone(own, own[line].at))
             /\ Len(u) = Len(Clone(own, own[line].at))
             /\ \A i \in 1..Len(u) : /\ u[i].idmapped
                                     /\ u[i].at = Clone(own, own[line].at)[i].at
  <2>1. pc = "lines" /\ pc' = "lines" /\ line \in 1..Len(own)
    BY <1>2 DEF ByLoop, IdmapLine, NextLine
  <2>2. own[line].at \in Path
    BY <1>1, <2>1, TableFacts
  <2>3. ~IsPrefix(Base, own[line].at)
    <3>1. tab[ns][line] = own[line]
      BY DEF Attaching, own
    <3> QED BY <1>2, <3>1 DEF ByLoop, IdmapLine, Skipped
  <2>4. /\ u = Idmapped(Clone(own, own[line].at))
        /\ Accepted(Clone(own, own[line].at))
    BY <1>2 DEF ByLoop
  <2>5. /\ PutBelow(u, << >>, own, own[line].at)
        /\ Len(u) = Len(Clone(own, own[line].at))
        /\ \A i \in 1..Len(u) : /\ u[i].idmapped
                                /\ u[i].at = Clone(own, own[line].at)[i].at
    BY <1>1, <2>2, <2>4, IdmappedFacts
  <2> QED BY <2>1, <2>2, <2>3, <2>4, <2>5
<1>3. ASSUME ByTmpfs(u)
      PROVE  \E m \in Mounted : u = <<m>> /\ m.at = Base /\ m.fs = "tmpfs"
  <2> DEFINE m == Mount(Base, "tmpfs", "ok")
  <2>1. m \in Mounted /\ m.at = Base /\ m.fs = "tmpfs"
    BY Constants DEF Mount, Mounted, FileSystem
  <2> HIDE DEF m
  <2>2. u = <<m>>
    BY <1>3 DEF ByTmpfs, m
  <2> QED BY <2>1, <2>2
<1>4. ASSUME ByLocaltime(u)
      PROVE  \E m \in Mounted : u = <<m>> /\ m.at = Localtime /\ m.fs = View(own, Base).fs
  <2> DEFINE m == Mount(Localtime, View(own, Base).fs, "ok")
  <2>1. View(own, Base).fs \in FileSystem
    <3>1. View(own, Base) \in Mounted
      BY <1>1, TableFacts, Constants
    <3> QED BY <3>1 DEF Mounted
  <2>2. m \in Mounted /\ m.at = Localtime /\ m.fs = View(own, Base).fs
    BY <2>1, Constants DEF Mount, Mounted
  <2> HIDE DEF m
  <2>3. u = <<m>>
    BY <1>4 DEF ByLocaltime, m
  <2> QED BY <2>2, <2>3
<1>5. ASSUME ByEntry(u)
      PROVE  <<EntryName>> \in Path /\ PutBelow(u, Base, Box, <<EntryName>>)
  <2>1. EntryName \in Entries /\ u = Below(Clone(Box, <<EntryName>>))
    BY <1>5 DEF ByEntry
  <2>2. <<EntryName>> \in Path
    BY <2>1, Constants
  <2> QED BY <2>1, <2>2, BelowFacts, Constants
<1> QED BY <1>1, <1>2, <1>3, <1>4, <1>5

LEMMA NewPaths ==
  ASSUME IInv, NEW u, Attaching(u), NEW k \in 1..Len(u)
  PROVE  \/ u[k].at = Localtime \/ IsPrefix(Base, u[k].at)
         \/ \E j \in 1..Len(own) : u[k].at = own[j].at
<1>1. own \in Tables /\ u \in Seq(Mounted)
  BY Attached1
<1>2. CASE ByLoop(u)
  <2> DEFINE p == own[line].at
  <2>1. /\ line \in 1..Len(own) /\ p \in Path /\ k \in 1..Len(Clone(own, p))
        /\ u[k].at = Clone(own, p)[k].at
    BY <1>2, Attached1
  <2> HIDE DEF p
  <2>2. u[k].at = p \/ \E j \in Under(own, p) : j \in 1..Len(own) /\ u[k].at = own[j].at
    BY <1>1, <2>1, ClonePaths
  <2> QED BY <2>1, <2>2 DEF p
<1>3. CASE ByTmpfs(u)
  <2>1. PICK m \in Mounted : u = <<m>> /\ m.at = Base
    BY <1>3, Attached1
  <2>2. u[k] = m
    BY <2>1
  <2> QED BY <2>1, <2>2, Constants, PrefixOrder
<1>4. CASE ByLocaltime(u)
  <2>1. PICK m \in Mounted : u = <<m>> /\ m.at = Localtime
    BY <1>4, Attached1
  <2>2. u[k] = m
    BY <2>1
  <2> QED BY <2>1, <2>2
<1>5. CASE ByEntry(u)
  <2> DEFINE c == Clone(Box, <<EntryName>>)
  <2>1. /\ <<EntryName>> \in Path /\ Len(u) = Len(c) /\ u[k].at = Base \o c[k].at
    BY <1>5, Attached1 DEF PutBelow
  <2>2. c[k].at \in Path
    BY <2>1, CloneAt, TableFacts, Constants
  <2> HIDE DEF c
  <2>3. IsPrefix(Base, Base \o c[k].at)
    BY <2>2, PrefixBelow, Constants
  <2> QED BY <2>1, <2>3
<1> QED BY <1>2, <1>3, <1>4, <1>5 DEF Attaching

LEMMA ExtendsStep ==
  ASSUME IInv, [Next]_vars
  PROVE  Extends'
<1>1. /\ own \in Tables /\ host \in Tables /\ Extends
      /\ Len(own) \in Nat /\ Len(host) \in Nat
  BY OwnTables, TableFacts DEF IInv
<1>2. host' = host
  BY TablesStep
<1>3. CASE own' = own
  BY <1>1, <1>2, <1>3 DEF Extends
<1>4. ASSUME NEW u, Attaching(u), own' = Joined(own, u) PROVE Extends'
  <2>1. u \in Seq(Mounted) /\ Len(u) \in Nat
    BY <1>4 DEF Attaching
  <2>2. /\ Len(own') = Len(own) + Len(u)
        /\ \A i \in 1..Len(own) : own'[i] = own[i]
        /\ \A i \in (Len(own) + 1)..(Len(own) + Len(u)) :
             i - Len(own) \in 1..Len(u) /\ own'[i] = u[i - Len(own)]
    BY <1>1, <1>4, <2>1, JoinedFacts
  <2>3. /\ Len(host) <= Len(own)
        /\ \A i \in 1..Len(host) : own[i] = host[i]
        /\ \A i \in 1..Len(own) : \/ own[i].at = Localtime \/ IsPrefix(Base, own[i].at)
                                  \/ \E j \in 1..Len(host) : own[i].at = host[j].at
    BY <1>1 DEF Extends
  <2>4. Len(host) <= Len(own') /\ \A i \in 1..Len(host) : own'[i] = host[i]
    BY <1>1, <2>1, <2>2, <2>3
  <2>5. ASSUME NEW i \in 1..Len(own')
        PROVE  \/ own'[i].at = Localtime \/ IsPrefix(Base, own'[i].at)
               \/ \E j \in 1..Len(host) : own'[i].at = host[j].at
    <3>1. CASE i \in 1..Len(own)
      BY <2>2, <2>3, <3>1
    <3>2. CASE i \in (Len(own) + 1)..(Len(own) + Len(u))
      <4>1. i - Len(own) \in 1..Len(u) /\ own'[i] = u[i - Len(own)]
        BY <2>2, <3>2
      <4>2. \/ own'[i].at = Localtime \/ IsPrefix(Base, own'[i].at)
            \/ \E j \in 1..Len(own) : own'[i].at = own[j].at
        BY <1>4, <4>1, NewPaths
      <4> QED BY <2>3, <4>2
    <3> QED BY <1>1, <2>1, <2>2, <3>1, <3>2
  <2> QED BY <1>2, <2>4, <2>5 DEF Extends
<1> QED BY <1>3, <1>4, TablesStep

LEMMA SameViewStep ==
  ASSUME IInv, [Next]_vars
  PROVE  SameView'
<1>1. own \in Tables /\ host \in Tables /\ SameView /\ host' = host
  BY OwnTables, TablesStep DEF IInv
<1>2. CASE own' = own
  BY <1>1, <1>2 DEF SameView
<1>3. ASSUME NEW u, Attaching(u), own' = Joined(own, u), NEW q \in Path,
             ~IsPrefix(Base, q), ~IsPrefix(Localtime, q)
      PROVE  View(own', q).fs = View(own, q).fs
  <2>1. CASE ByLoop(u)
    <3>1. own[line].at \in Path /\ PutBelow(u, << >>, own, own[line].at)
      BY <1>3, <2>1, Attached1
    <3> QED BY <1>1, <1>3, <3>1, PutBack
  <2>2. CASE ByTmpfs(u) \/ ByLocaltime(u)
    <3>1. PICK m \in Mounted : u = <<m>> /\ m.at \in {Base, Localtime}
      BY <1>3, <2>2, Attached1
    <3> QED BY <1>1, <1>3, <3>1, SingleHides
  <2>3. CASE ByEntry(u)
    <3> DEFINE p == <<EntryName>>
    <3>1. p \in Path /\ PutBelow(u, Base, Box, p)
      BY <1>3, <2>3, Attached1
    <3> HIDE DEF p
    <3>2. ~IsPrefix(Joined(Base, p), q)
      <4>1. Joined(Base, p) \in Path /\ IsPrefix(Base, Joined(Base, p))
        BY <3>1, PrefixBelow, Constants DEF Joined
      <4> QED BY <1>3, <4>1, PrefixOrder, Constants
    <3>3. /\ own \in Seq(Mounted) /\ At(own, q)
          /\ Box \in Seq(Mounted) /\ At(Box, p)
      BY <1>1, <3>1, TableFacts, Constants
    <3>4. View(Joined(own, u), q) = View(own, q)
      BY <3>1, <3>2, <3>3, PutHides, Constants
    <3> QED BY <1>3, <3>4
  <2> QED BY <1>3, <2>1, <2>2, <2>3 DEF Attaching
<1>4. ASSUME NEW u, Attaching(u), own' = Joined(own, u) PROVE SameView'
  BY <1>1, <1>3, <1>4 DEF SameView
<1> QED BY <1>2, <1>4, TablesStep
\* The captured trees after a capture, and after one was taken off.
LEMMA TreesStep ==
  ASSUME IInv, [Next]_vars
  PROVE  TreesOK'
<1>1. /\ captured_trees \in Seq(TreeRecord)
      /\ \A i \in 1..Len(captured_trees) :
           captured_trees[i].tree = Clone(Box, <<captured_trees[i].name>>)
  BY TreesShape DEF IInv
<1>2. SUFFICES /\ captured_trees' \in Seq(TreeRecord)
               /\ \A i \in 1..Len(captured_trees') :
                    captured_trees'[i].tree = Clone(Box, <<captured_trees'[i].name>>)
  BY DEF TreesOK, TreeRecord
<1>3. CASE Capture
  <2> DEFINE e == Head(entries).name
             r == [name |-> e, is_dir |-> Head(entries).type = "dir",
                   tree_is_dir |-> OpensDir(e), tree |-> Clone(tab[ns], <<e>>)]
  <2>1. e \in Entries
    BY <1>3, EntriesShape DEF IInv, Capture
  <2>2. tab[ns] = Box
    BY <1>3 DEF IInv, TablesOK, Capture, Opens
  <2>3. Clone(Box, <<e>>) \in Seq(Mounted)
    BY <2>1, Constants, TableFacts, CloneFacts
  <2>4. captured_trees' = Append(captured_trees, r)
    BY <1>3 DEF Capture
  <2>5. (Head(entries).type = "dir") \in BOOLEAN /\ OpensDir(e) \in BOOLEAN
    BY DEF OpensDir
  <2>6. r \in TreeRecord /\ r.tree = Clone(Box, <<r.name>>)
    BY <2>1, <2>2, <2>3, <2>5 DEF TreeRecord
  <2> HIDE DEF r
  <2> QED BY <1>1, <2>4, <2>6, AppendProperties
<1>4. CASE AttachEntry \/ AttachFails
  <2>1. captured_trees # << >> /\ captured_trees' = Tail(captured_trees)
    BY <1>4 DEF AttachEntry, AttachFails
  <2>2. /\ captured_trees' \in Seq(TreeRecord)
        /\ Len(captured_trees') = Len(captured_trees) - 1
        /\ \A i \in 1..Len(captured_trees') : captured_trees'[i] = captured_trees[i + 1]
    BY <1>1, <2>1, HeadTailProperties
  <2>3. Len(captured_trees) \in Nat
    BY <1>1
  <2>4. \A i \in 1..Len(captured_trees') : i + 1 \in 1..Len(captured_trees)
    BY <2>2, <2>3
  <2> QED BY <1>1, <2>2, <2>4
<1>5. Capture \/ AttachEntry \/ AttachFails \/ UNCHANGED captured_trees
  BY DEF Next, ApplyIdmappedMounts, CaptureAndAttach, vars, treeVars, NextLine,
     CreateBaseDir, Unshare, MakePrivate, OpenMounts, SkipLine, IdmapLine,
     RefusedLine, FailedLine, EndOfMounts, MountTmpfs, BindLocaltime, NoLocaltime,
     EnterBox, Stat, ReadDir, NotCaptured, Return, ReturnFails, Done, Fails,
     BoxReplaces, Terminating
<1> QED BY <1>1, <1>3, <1>4, <1>5

\* Which steps before the tmpfs attach mounts: the loop's only.
LEMMA BeforeStep ==
  ASSUME IInv, [Next]_vars, pc' \in BeforeTmpfs
  PROVE  /\ pc \in BeforeTmpfs
         /\ (own' = own) \/ (\E u : Attaching(u) /\ ByLoop(u) /\ own' = Joined(own, u))
<1>1. pc \in BeforeTmpfs
  BY DEF BeforeTmpfs, Next, ApplyIdmappedMounts, CaptureAndAttach, vars,
     CreateBaseDir, Unshare, MakePrivate, AfterPrivate, OpenMounts, SkipLine,
     IdmapLine, RefusedLine, FailedLine, EndOfMounts, NextLine, MountTmpfs,
     BindLocaltime, NoLocaltime, EnterBox, Stat, ReadDir, Capture, NotCaptured,
     Return, ReturnFails, AttachEntry, AttachFails, Done, Fails, BoxReplaces,
     Terminating
<1>2. ASSUME NEW u, Attaching(u) PROVE ByLoop(u)
  BY <1>2 DEF Attaching, ByTmpfs, ByLocaltime, ByEntry, MountTmpfs, BindLocaltime,
     AttachEntry, BeforeTmpfs
<1> QED BY <1>1, <1>2, TablesStep

LEMMA OnTmpfsStep ==
  ASSUME IInv, [Next]_vars
  PROVE  OnTmpfs'
<1> DEFINE Later == {"localtime", "enter", "readdir", "capture", "attach", "done"}
<1>1. own \in Tables /\ Base \in Path
  BY OwnTables, Constants DEF IInv
<1>2. pc \in Later => View(own, Base).fs = "tmpfs"
  BY DEF IInv, OnTmpfs
<1>3. ASSUME NEW u, Attaching(u), own' = Joined(own, u), pc' \in Later
      PROVE  View(own', Base).fs = "tmpfs"
  <2>1. CASE ByLoop(u)
    BY <1>3, <2>1, Attached1
  <2>2. CASE ByTmpfs(u)
    <3>1. PICK m \in Mounted : u = <<m>> /\ m.at = Base /\ m.fs = "tmpfs"
      BY <1>3, <2>2, Attached1
    <3> QED BY <1>1, <1>3, <3>1, SingleHides, PrefixOrder
  <2>3. CASE ByLocaltime(u)
    <3>1. PICK m \in Mounted : u = <<m>> /\ m.fs = View(own, Base).fs
      BY <1>3, <2>3, Attached1
    <3>2. View(own, Base).fs = "tmpfs"
      BY <1>2, <2>3 DEF ByLocaltime, BindLocaltime
    <3> QED BY <1>1, <1>3, <3>1, <3>2, SingleHides
  <2>4. CASE ByEntry(u)
    <3> DEFINE p == <<EntryName>>
    <3>1. p \in Path /\ PutBelow(u, Base, Box, p) /\ p # << >>
      BY <1>3, <2>4, Attached1
    <3> HIDE DEF p
    <3>2. ~IsPrefix(Joined(Base, p), Base)
      <4>1. /\ Joined(Base, p) \in Path /\ IsPrefix(Base, Joined(Base, p))
            /\ Joined(Base, p) # Base
        BY <1>1, <3>1, PrefixBelow DEF Joined
      <4> QED BY <1>1, <4>1, PrefixOrder
    <3>3. /\ own \in Seq(Mounted) /\ At(own, Base)
          /\ Box \in Seq(Mounted) /\ At(Box, p)
      BY <1>1, <3>1, TableFacts, Constants
    <3>4. View(Joined(own, u), Base) = View(own, Base)
      BY <1>1, <3>1, <3>2, <3>3, PutHides
    <3>5. pc \in Later
      BY <2>4 DEF ByEntry, AttachEntry
    <3> QED BY <1>2, <1>3, <3>4, <3>5
  <2> QED BY <1>3, <2>1, <2>2, <2>3, <2>4 DEF Attaching
<1>4. ASSUME pc' \in Later PROVE View(own', Base).fs = "tmpfs"
  <2>1. CASE MountTmpfs
    <3>1. \E u : Attaching(u) /\ own' = Joined(own, u)
      BY <2>1, TmpfsAttaches, Attached1
    <3> QED BY <1>3, <1>4, <3>1
  <2>2. CASE ~MountTmpfs
    <3>1. pc \in Later
      BY <1>4, <2>2 DEF Next, ApplyIdmappedMounts, CaptureAndAttach, vars,
         CreateBaseDir, Unshare, MakePrivate, AfterPrivate, OpenMounts, SkipLine,
         IdmapLine, RefusedLine, FailedLine, EndOfMounts, NextLine, BindLocaltime,
         NoLocaltime, EnterBox, Stat, ReadDir, Capture, NotCaptured, Return,
         ReturnFails, AttachEntry, AttachFails, Done, Fails, BoxReplaces, Terminating
    <3>2. CASE own' = own
      BY <1>2, <3>1, <3>2
    <3> QED BY <1>3, <1>4, <3>2, TablesStep
  <2> QED BY <2>1, <2>2
<1>5. ASSUME pc' \in BeforeTmpfs PROVE View(own', Base).fs = View(host', Base).fs
  <2>1. /\ host' = host /\ View(own, Base).fs = View(host, Base).fs
        /\ own' = own \/ (\E u : Attaching(u) /\ ByLoop(u) /\ own' = Joined(own, u))
    BY <1>5, BeforeStep, TablesStep DEF IInv, OnTmpfs
  <2>2. ASSUME NEW u, Attaching(u), ByLoop(u), own' = Joined(own, u)
        PROVE  View(own', Base).fs = View(own, Base).fs
    BY <1>1, <2>2, Attached1, PutBack
  <2> QED BY <2>1, <2>2
<1>6. OnHost' = OnHost
  BY TablesStep DEF OnHost
<1>7. /\ pc \in BeforeTmpfs \ {"base_dir"} => OnHost \in created
      /\ created \subseteq {OnHost, <<"below", "tmpfs">>}
  BY DEF IInv, OnTmpfs
<1>8. CASE CreateBaseDir
  <2>1. UnderBase = View(host, Base).fs
    BY <1>8 DEF IInv, Where, CreateBaseDir, UnderBase, SeenAt, View, host
  <2>2. created' = created \cup {OnHost}
    BY <1>8, <2>1 DEF CreateBaseDir, OnHost
  <2> QED BY <1>4, <1>5, <1>6, <1>7, <2>2 DEF OnTmpfs
<1>9. CASE BindLocaltime \/ AttachEntry \/ AttachFails
  <2>1. ns = "own" /\ pc \in Later /\ pc' \notin BeforeTmpfs
    BY <1>9 DEF IInv, Where, BindLocaltime, AttachEntry, AttachFails, BeforeTmpfs
  <2>2. UnderBase = "tmpfs"
    BY <1>2, <2>1 DEF UnderBase, SeenAt, View, own
  <2>3. created' \in {created, created \cup {<<"below", UnderBase>>}}
    BY <1>9 DEF BindLocaltime, AttachEntry, AttachFails
  <2> QED BY <1>4, <1>6, <1>7, <2>1, <2>2, <2>3 DEF OnTmpfs
<1>10. CASE ~(CreateBaseDir \/ BindLocaltime \/ AttachEntry \/ AttachFails)
  <2>1. UNCHANGED created
    BY <1>10 DEF Next, ApplyIdmappedMounts, CaptureAndAttach, vars, Unshare,
       MakePrivate, OpenMounts, SkipLine, IdmapLine, RefusedLine, FailedLine,
       EndOfMounts, NextLine, MountTmpfs, NoLocaltime, EnterBox, ReadDir, Stat,
       Capture, NotCaptured, Return, ReturnFails, Done, Fails, BoxReplaces,
       Terminating
  <2>2. pc' \in BeforeTmpfs \ {"base_dir"} => pc \in BeforeTmpfs \ {"base_dir"}
    BY <1>10 DEF BeforeTmpfs, Next, ApplyIdmappedMounts, CaptureAndAttach, vars,
       Unshare, MakePrivate, AfterPrivate, OpenMounts, SkipLine, IdmapLine,
       RefusedLine, FailedLine, EndOfMounts, NextLine, MountTmpfs, NoLocaltime,
       EnterBox, ReadDir, Stat, Capture, NotCaptured, Return, ReturnFails, Done,
       Fails, BoxReplaces, Terminating
  <2> QED BY <1>4, <1>5, <1>6, <1>7, <2>1, <2>2 DEF OnTmpfs
<1> QED BY <1>8, <1>9, <1>10

LEMMA GoodBefore ==
  ASSUME IInv, [Next]_vars, NEW e \in Entries, Good(e)'
  PROVE  /\ Good(e) /\ EntryOK(e) /\ kind[e] = EntryKind[e]
         /\ kind[e] \in {"dir", "file", "symfile"} /\ kind'[e] = EntryKind[e]
<1>1. spoiled \subseteq spoiled'
  BY DEF Next, ApplyIdmappedMounts, CaptureAndAttach, vars, Spoil, CreateBaseDir,
     Unshare, MakePrivate, OpenMounts, SkipLine, IdmapLine, RefusedLine, FailedLine,
     EndOfMounts, MountTmpfs, BindLocaltime, NoLocaltime, EnterBox, Stat, ReadDir,
     Capture, NotCaptured, Return, ReturnFails, AttachEntry, AttachFails, Done, Fails,
     BoxReplaces, Terminating
<1>2. Good(e)
  BY <1>1 DEF Good, Target
<1>3. EntryOK(e)
  BY <1>2 DEF IInv, EntriesOK
<1>4. kind[e] = EntryKind[e] /\ kind[e] \in {"dir", "file", "symfile"}
  BY <1>2, <1>3 DEF Good, EntryOK
<1>5. kind'[e] = kind[e]
  <2>1. CASE BoxReplaces
    <3>1. PICK x \in Entries :
            /\ \E k \in {"dir", "file", "gone"} : kind' = [kind EXCEPT ![x] = k]
            /\ spoiled' = spoiled \cup {Target(x)}
      BY <2>1 DEF BoxReplaces, Spoil
    <3>2. x # e
      BY <3>1 DEF Good, Target
    <3>3. DOMAIN kind = Entries
      BY DEF IInv, Plain
    <3> QED BY <3>1, <3>2, <3>3
  <2>2. BoxReplaces \/ UNCHANGED kind
    BY DEF Next, ApplyIdmappedMounts, CaptureAndAttach, vars, treeVars, NextLine,
       CreateBaseDir, Unshare, MakePrivate, OpenMounts, SkipLine, IdmapLine,
       RefusedLine, FailedLine, EndOfMounts, MountTmpfs, BindLocaltime, NoLocaltime,
       EnterBox, Stat, ReadDir, Capture, NotCaptured, Return, ReturnFails,
       AttachEntry, AttachFails, Done, Fails, Terminating
  <2> QED BY <2>1, <2>2
<1> QED BY <1>2, <1>3, <1>4, <1>5

LEMMA TypesStep ==
  ASSUME IInv, [Next]_vars, NEW e \in Entries, Good(e)', NEW i \in 1..Len(entries'),
         entries'[i].name = e
  PROVE  entries'[i].type \in Types(EntryKind[e])'
<1>1. /\ kind[e] = EntryKind[e]
      /\ \A j \in 1..Len(entries) :
           entries[j].name = e => entries[j].type \in Types(EntryKind[e])
  BY GoodBefore DEF EntryOK
<1>2. Types(EntryKind[e])' = Types(EntryKind[e])
  BY PcStep DEF Types, ListedType, StatType
<1>3. CASE ReadDir
  BY <1>1, <1>2, <1>3, ReadDirLists DEF Types
<1>4. CASE Capture \/ NotCaptured
  <2>1. entries # << >> /\ entries' = Tail(entries)
    BY <1>4 DEF Capture, NotCaptured
  <2>2. i + 1 \in 1..Len(entries) /\ entries'[i] = entries[i + 1]
    BY <2>1, EntriesShape DEF IInv
  <2> QED BY <1>1, <1>2, <2>2
<1>5. CASE Stat
  <2>1. /\ Len(entries') = Len(entries) /\ entries[i].name = e
        /\ i = 1 \/ entries'[i] = entries[i]
    BY <1>5, StatFacts DEF IInv
  <2>2. CASE i = 1
    <3>1. Target(e) \notin spoiled'
      BY DEF Good, Target
    <3>2. entries'[1].type = StatType(kind[e])
      BY <1>5, <2>1, <2>2, <3>1, StatFacts DEF IInv
    <3> QED BY <1>1, <1>2, <2>2, <3>2 DEF Types
  <2> QED BY <1>1, <1>2, <2>1, <2>2
<1>6. ReadDir \/ Stat \/ Capture \/ NotCaptured \/ UNCHANGED entries
  BY DEF Next, ApplyIdmappedMounts, CaptureAndAttach, vars, treeVars, NextLine,
     CreateBaseDir, Unshare, MakePrivate, OpenMounts, SkipLine, IdmapLine,
     RefusedLine, FailedLine, EndOfMounts, MountTmpfs, BindLocaltime, NoLocaltime,
     EnterBox, Return, ReturnFails, AttachEntry, AttachFails, Done, Fails,
     BoxReplaces, Terminating
<1> QED BY <1>1, <1>2, <1>3, <1>4, <1>5, <1>6

\* The list of trees after a capture and after an attachment.
LEMMA TreesAfter ==
  ASSUME IInv
  PROVE  /\ Capture =>
              /\ Len(captured_trees') = Len(captured_trees) + 1
              /\ \A i \in 1..Len(captured_trees) : captured_trees'[i] = captured_trees[i]
              /\ Len(captured_trees') \in 1..Len(captured_trees')
              /\ captured_trees'[Len(captured_trees')].name = Head(entries).name
              /\ captured_trees'[Len(captured_trees')].is_dir = (Head(entries).type = "dir")
              /\ captured_trees'[Len(captured_trees')].tree_is_dir
                   = OpensDir(Head(entries).name)
         /\ AttachEntry \/ AttachFails =>
              /\ 1 \in 1..Len(captured_trees) /\ EntryName = captured_trees[1].name
              /\ \A i \in 1..Len(captured_trees') :
                   i + 1 \in 1..Len(captured_trees) /\ captured_trees'[i] = captured_trees[i + 1]
              /\ \A i \in 2..Len(captured_trees) :
                   /\ i - 1 \in 1..Len(captured_trees')
                   /\ captured_trees'[i - 1] = captured_trees[i]
<1>1. captured_trees \in Seq(TreeRecord) /\ Len(captured_trees) \in Nat
  BY TreesShape DEF IInv
<1>2. ASSUME Capture
      PROVE  /\ Len(captured_trees') = Len(captured_trees) + 1
             /\ \A i \in 1..Len(captured_trees) : captured_trees'[i] = captured_trees[i]
             /\ Len(captured_trees') \in 1..Len(captured_trees')
             /\ captured_trees'[Len(captured_trees')].name = Head(entries).name
             /\ captured_trees'[Len(captured_trees')].is_dir = (Head(entries).type = "dir")
             /\ captured_trees'[Len(captured_trees')].tree_is_dir
                  = OpensDir(Head(entries).name)
  <2> DEFINE e == Head(entries).name
             r == [name |-> e, is_dir |-> Head(entries).type = "dir",
                   tree_is_dir |-> OpensDir(e), tree |-> Clone(tab[ns], <<e>>)]
  <2>1. captured_trees' = Append(captured_trees, r)
    BY <1>2 DEF Capture
  <2>2. r.name = e /\ r.is_dir = (Head(entries).type = "dir") /\ r.tree_is_dir = OpensDir(e)
    OBVIOUS
  <2> HIDE DEF r
  <2>3. /\ Len(captured_trees') = Len(captured_trees) + 1
        /\ \A i \in 1..Len(captured_trees) : captured_trees'[i] = captured_trees[i]
        /\ captured_trees'[Len(captured_trees) + 1] = r
    BY <1>1, <2>1
  <2> QED BY <1>1, <2>2, <2>3
<1>3. ASSUME AttachEntry \/ AttachFails
      PROVE  /\ 1 \in 1..Len(captured_trees) /\ EntryName = captured_trees[1].name
             /\ \A i \in 1..Len(captured_trees') :
                  i + 1 \in 1..Len(captured_trees) /\ captured_trees'[i] = captured_trees[i + 1]
             /\ \A i \in 2..Len(captured_trees) :
                  /\ i - 1 \in 1..Len(captured_trees')
                  /\ captured_trees'[i - 1] = captured_trees[i]
  <2>1. captured_trees # << >> /\ captured_trees' = Tail(captured_trees)
    BY <1>3 DEF AttachEntry, AttachFails
  <2>2. /\ captured_trees' \in Seq(TreeRecord)
        /\ Len(captured_trees') = Len(captured_trees) - 1
        /\ \A i \in 1..Len(captured_trees') : captured_trees'[i] = captured_trees[i + 1]
    BY <1>1, <2>1, HeadTailProperties
  <2>3. 1 \in 1..Len(captured_trees) /\ EntryName = captured_trees[1].name
    BY <1>1, <2>1 DEF EntryName
  <2>4. \A i \in 1..Len(captured_trees') : i + 1 \in 1..Len(captured_trees)
    BY <1>1, <2>2
  <2>5. \A i \in 2..Len(captured_trees) :
          i - 1 \in 1..Len(captured_trees') /\ (i - 1) + 1 = i
    BY <1>1, <2>2
  <2> QED BY <2>2, <2>3, <2>4, <2>5
<1> QED BY <1>2, <1>3

LEMMA KindsStep ==
  ASSUME IInv, [Next]_vars, NEW e \in Entries, Good(e)',
         NEW i \in 1..Len(captured_trees'), captured_trees'[i].name = e
  PROVE  captured_trees'[i].is_dir = captured_trees'[i].tree_is_dir
<1>1. /\ EntryOK(e) /\ kind[e] = EntryKind[e] /\ kind[e] \in {"dir", "file", "symfile"}
      /\ \A j \in 1..Len(captured_trees) : captured_trees[j].name = e =>
           captured_trees[j].is_dir = captured_trees[j].tree_is_dir
  BY GoodBefore DEF EntryOK
<1>2. CASE Capture
  <2>1. Len(captured_trees) \in Nat
    BY TreesShape DEF IInv
  <2>2. CASE i \in 1..Len(captured_trees)
    BY <1>1, <1>2, <2>2, TreesAfter
  <2>3. CASE i = Len(captured_trees')
    <3> DEFINE x == Head(entries)
    <3>1. /\ x.name = e /\ captured_trees'[i].is_dir = (x.type = "dir")
          /\ captured_trees'[i].tree_is_dir = OpensDir(e)
      BY <1>2, <2>3, TreesAfter
    <3>2. x.type \in Types(EntryKind[e]) /\ x.type # "unknown"
      <4>1. x = entries[1] /\ 1 \in 1..Len(entries) /\ x.type # "unknown"
        BY <1>2, EntriesShape DEF IInv, Capture
      <4> QED BY <1>1, <3>1, <4>1 DEF EntryOK
    <3> HIDE DEF x
    <3>3. (x.type = "dir") = (kind[e] = "dir")
      BY <1>1, <3>2 DEF Types, ListedType, StatType
    <3>4. OpensDir(e) = (kind[e] = "dir")
      BY <1>1 DEF OpensDir
    <3> QED BY <3>1, <3>3, <3>4
  <2> QED BY <1>2, <2>1, <2>2, <2>3, TreesAfter
<1>3. CASE AttachEntry \/ AttachFails
  BY <1>1, <1>3, TreesAfter
<1>4. Capture \/ AttachEntry \/ AttachFails \/ UNCHANGED captured_trees
  BY DEF Next, ApplyIdmappedMounts, CaptureAndAttach, vars, treeVars, NextLine,
     CreateBaseDir, Unshare, MakePrivate, OpenMounts, SkipLine, IdmapLine,
     RefusedLine, FailedLine, EndOfMounts, MountTmpfs, BindLocaltime, NoLocaltime,
     EnterBox, Stat, ReadDir, NotCaptured, Return, ReturnFails, Done, Fails,
     BoxReplaces, Terminating
<1> QED BY <1>1, <1>2, <1>3, <1>4
\* While the entries are captured, a good one is still listed or captured.
LEMMA CaptureStep ==
  ASSUME IInv, [Next]_vars, NEW e \in Entries, Good(e)', pc' = "capture"
  PROVE  Listed(e)' \/ Captured(e)'
<1>1. /\ EntryOK(e) /\ kind[e] \in {"dir", "file", "symfile"}
      /\ pc = "capture" => Listed(e) \/ Captured(e)
  BY GoodBefore DEF EntryOK
<1>2. CASE ReadDir
  BY <1>1, <1>2, ReadDirLists
<1>3. CASE Capture \/ NotCaptured
  <2>1. entries # << >> /\ entries' = Tail(entries) /\ pc = "capture"
    BY <1>3 DEF Capture, NotCaptured
  <2>2. CASE Captured(e)
    <3>1. PICK i \in 1..Len(captured_trees) : captured_trees[i].name = e
      BY <2>2 DEF Captured
    <3>2. CASE Capture
      <4>1. captured_trees'[i].name = e /\ i \in 1..Len(captured_trees')
        <5>1. Len(captured_trees) \in Nat
          BY TreesShape DEF IInv
        <5> QED BY <3>1, <3>2, <5>1, TreesAfter
      <4> QED BY <4>1 DEF Captured
    <3>3. CASE NotCaptured
      BY <2>2, <3>3 DEF NotCaptured, Captured
    <3> QED BY <1>3, <3>2, <3>3
  <2>3. CASE Listed(e) /\ entries[1].name # e
    <3>1. PICK i \in 1..Len(entries) : entries[i].name = e
      BY <2>3 DEF Listed
    <3>2. i \in 2..Len(entries)
      <4>1. Len(entries) \in Nat
        BY EntriesShape DEF IInv
      <4> QED BY <2>3, <3>1, <4>1
    <3>3. i - 1 \in 1..Len(entries') /\ entries'[i - 1] = entries[i]
      BY <2>1, <3>2, EntriesShape DEF IInv
    <3> QED BY <3>1, <3>3 DEF Listed
  <2>4. CASE entries[1].name = e
    <3>1. Head(entries).name = e
      BY <2>1, <2>4, EntriesShape DEF IInv
    <3>2. CASE Capture
      <4>1. /\ Len(captured_trees') \in 1..Len(captured_trees')
            /\ captured_trees'[Len(captured_trees')].name = e
        BY <3>1, <3>2, TreesAfter
      <4> QED BY <4>1 DEF Captured
    <3>3. CASE NotCaptured
      <4>1. Opens(e)
        BY <1>1, <2>1 DEF Opens, IInv, Where
      <4>2. Target(e) \in spoiled'
        BY <3>1, <3>3, <4>1 DEF NotCaptured, Spoil
      <4> QED BY <4>2 DEF Good, Target
    <3> QED BY <1>3, <3>2, <3>3
  <2> QED BY <1>1, <2>1, <2>2, <2>3, <2>4
<1>4. CASE Stat
  <2>1. pc = "capture" /\ UNCHANGED captured_trees
    BY <1>4 DEF Stat
  <2>2. Listed(e) => Listed(e)'
    BY <1>4, StatFacts DEF IInv, Listed
  <2>3. Captured(e) => Captured(e)'
    BY <2>1 DEF Captured
  <2> QED BY <1>1, <2>1, <2>2, <2>3
<1>5. CASE ~(ReadDir \/ Stat \/ Capture \/ NotCaptured)
  <2>1. pc = "capture" /\ UNCHANGED <<entries, captured_trees>>
    BY <1>5 DEF Next, ApplyIdmappedMounts, CaptureAndAttach, vars, treeVars, NextLine,
       CreateBaseDir, Unshare, MakePrivate, AfterPrivate, OpenMounts, SkipLine,
       IdmapLine, RefusedLine, FailedLine, EndOfMounts, MountTmpfs, BindLocaltime,
       NoLocaltime, EnterBox, Stat, Return, ReturnFails, AttachEntry, AttachFails,
       Done, Fails, BoxReplaces, Terminating
  <2> QED BY <1>1, <2>1 DEF Listed, Captured
<1> QED BY <1>2, <1>3, <1>4, <1>5

\* An attached entry shows what the container has there; an entry attached
\* later does not hide it.
LEMMA EntryShows ==
  ASSUME IInv, NEW u, Attaching(u), ByEntry(u), NEW e \in Entries
  PROVE  /\ EntryName = e => Visible(e)'
         /\ EntryName # e /\ Visible(e) => Visible(e)'
<1> DEFINE p == <<EntryName>>
<1>1. /\ own \in Tables /\ own' = Joined(own, u) /\ u \in Seq(Mounted)
      /\ p \in Path /\ Len(p) = 1 /\ p[1] = EntryName
      /\ PutBelow(u, Base, Box, p)
  BY Attached1
<1>2. /\ own \in Seq(Mounted) /\ Box \in Seq(Mounted) /\ At(Box, p)
      /\ \A r \in Path : At(own, r)
  BY <1>1, TableFacts, Constants
<1>3. ASSUME NEW q \in Path, IsPrefix(p, q)
      PROVE  View(own', Joined(Base, q)).fs = View(Box, q).fs
  <2> HIDE DEF p
  <2> QED BY <1>1, <1>2, <1>3, PutShows, Constants
<1>4. ASSUME NEW q \in Path, IsPrefix(<<e>>, q), EntryName # e, Visible(e)
      PROVE  View(own', Joined(Base, q)).fs = View(Box, q).fs
  <2>1. ~IsPrefix(p, q)
    <3>1. <<e>> \in Path /\ Len(<<e>>) = 1 /\ <<e>>[1] = e
      BY Constants
    <3>2. q[1] = e
      BY <1>4, <3>1, PrefixDef
    <3> HIDE DEF p
    <3>3. IsPrefix(p, q) => q[1] = EntryName
      <4>1. p \in Path /\ Len(p) = 1 /\ p[1] = EntryName
        BY <1>1
      <4>2. IsPrefix(p, q) => \A k \in 1..Len(p) : p[k] = q[k]
        BY <4>1, PrefixDef
      <4> QED BY <4>1, <4>2
    <3> QED BY <1>4, <3>2, <3>3
  <2>2. Joined(Base, q) \in Path
    BY PrefixBelow, Constants DEF Joined
  <2> HIDE DEF p
  <2>3. ~IsPrefix(Joined(Base, p), Joined(Base, q))
    BY <1>1, <2>1, PrefixBelow, Constants DEF Joined
  <2>4. View(Joined(own, u), Joined(Base, q)) = View(own, Joined(Base, q))
    BY <1>1, <1>2, <2>2, <2>3, PutHides, Constants
  <2>5. View(own, Joined(Base, q)).fs = View(Box, q).fs
    BY <1>4 DEF Visible
  <2> QED BY <1>1, <2>4, <2>5
<1> QED BY <1>3, <1>4 DEF Visible

LEMMA VisibleStep ==
  ASSUME IInv, [Next]_vars, NEW e \in Entries, Good(e)'
  PROVE  /\ pc' = "attach" => Captured(e)' \/ Visible(e)'
         /\ pc' = "done" => Visible(e)'
<1>1. /\ pc = "capture" => Listed(e) \/ Captured(e)
      /\ pc = "attach" => Captured(e) \/ Visible(e)
      /\ pc = "done" => Visible(e)
      /\ \A j \in 1..Len(captured_trees) : captured_trees[j].name = e =>
           captured_trees[j].is_dir = captured_trees[j].tree_is_dir
  BY GoodBefore DEF EntryOK
<1>2. own' = own /\ Visible(e) => Visible(e)'
  BY DEF Visible
<1>3. CASE Return
  <2>1. ~Listed(e)
    <3>1. Len(entries) = 0
      BY <1>3 DEF Return
    <3> QED BY <3>1 DEF Listed
  <2>2. Captured(e)' <=> Captured(e)
    BY <1>3 DEF Return, treeVars, Captured
  <2> QED BY <1>1, <1>3, <2>1, <2>2 DEF Return
<1>4. CASE AttachEntry
  <2>1. pc = "attach" /\ pc' = "attach"
    BY <1>4 DEF AttachEntry
  <2>2. 1 \in 1..Len(captured_trees) /\ EntryName = captured_trees[1].name
    BY <1>4, TreesAfter
  <2>3. CASE EntryName = e
    <3>1. captured_trees[1].is_dir = captured_trees[1].tree_is_dir
      BY <1>1, <2>2, <2>3
    <3>2. PICK u : Attaching(u) /\ ByEntry(u)
      BY <1>4, <3>1, EntryAttaches
    <3> QED BY <2>1, <2>3, <3>2, EntryShows
  <2>4. CASE EntryName # e /\ Captured(e)
    <3>1. PICK i \in 1..Len(captured_trees) : captured_trees[i].name = e
      BY <2>4 DEF Captured
    <3>2. i \in 2..Len(captured_trees)
      <4>1. Len(captured_trees) \in Nat
        BY TreesShape DEF IInv
      <4> QED BY <2>2, <2>4, <3>1, <4>1
    <3>3. i - 1 \in 1..Len(captured_trees') /\ captured_trees'[i - 1] = captured_trees[i]
      BY <1>4, <3>2, TreesAfter
    <3>4. Captured(e)'
      BY <3>1, <3>3 DEF Captured
    <3> QED BY <2>1, <3>4
  <2>5. CASE EntryName # e /\ Visible(e)
    <3>1. CASE UNCHANGED tab
      <4>1. own' = own
        BY <3>1 DEF own
      <4> QED BY <1>2, <2>1, <2>5, <4>1
    <3>2. CASE \E u : Attaching(u) /\ ByEntry(u)
      BY <2>1, <2>5, <3>2, EntryShows
    <3> QED BY <1>4, <3>1, <3>2, EntryAttaches
  <2> QED BY <1>1, <2>1, <2>3, <2>4, <2>5
<1>5. CASE AttachFails
  <2>1. pc = "attach" /\ pc' = "attach" /\ UNCHANGED tab
    BY <1>5 DEF AttachFails
  <2>2. /\ 1 \in 1..Len(captured_trees) /\ EntryName = captured_trees[1].name
        /\ EntryName # e
    <3>1. Target(EntryName) \in spoiled'
      BY <1>5 DEF AttachFails, Spoil, EntryName
    <3> QED BY <1>5, <3>1, TreesAfter DEF Good, Target
  <2>3. CASE Captured(e)
    <3>1. PICK i \in 1..Len(captured_trees) : captured_trees[i].name = e
      BY <2>3 DEF Captured
    <3>2. i \in 2..Len(captured_trees)
      <4>1. Len(captured_trees) \in Nat
        BY TreesShape DEF IInv
      <4> QED BY <2>2, <3>1, <4>1
    <3>3. i - 1 \in 1..Len(captured_trees') /\ captured_trees'[i - 1] = captured_trees[i]
      BY <1>5, <3>2, TreesAfter
    <3>4. Captured(e)'
      BY <3>1, <3>3 DEF Captured
    <3> QED BY <2>1, <3>4
  <2>4. CASE Visible(e)
    <3>1. own' = own
      BY <2>1 DEF own
    <3> QED BY <1>2, <2>1, <2>4, <3>1
  <2> QED BY <1>1, <2>1, <2>3, <2>4
<1>6. CASE Done
  <2>1. ~Captured(e)
    <3>1. Len(captured_trees) = 0
      BY <1>6 DEF Done
    <3> QED BY <3>1 DEF Captured
  <2>2. own' = own /\ pc = "attach" /\ pc' = "done"
    BY <1>6 DEF Done, own
  <2> QED BY <1>1, <1>2, <2>1, <2>2
<1>7. CASE ~(Return \/ AttachEntry \/ AttachFails \/ Done)
  <2>1. pc' \in {"attach", "done"} => pc' = pc /\ UNCHANGED <<tab, captured_trees>>
    BY <1>7 DEF Next, ApplyIdmappedMounts, CaptureAndAttach, vars, treeVars, NextLine,
       CreateBaseDir, Unshare, MakePrivate, AfterPrivate, OpenMounts, SkipLine,
       IdmapLine, RefusedLine, FailedLine, EndOfMounts, MountTmpfs, BindLocaltime,
       NoLocaltime, EnterBox, Stat, ReadDir, Capture, NotCaptured, ReturnFails, Fails,
       BoxReplaces, Terminating
  <2>2. UNCHANGED <<tab, captured_trees>> => own' = own /\ (Captured(e) => Captured(e)')
    BY DEF own, Captured
  <2> QED BY <1>1, <1>2, <2>1, <2>2
<1> QED BY <1>3, <1>4, <1>5, <1>6, <1>7

LEMMA EntriesOKStep ==
  ASSUME IInv, [Next]_vars
  PROVE  EntriesOK'
<1> SUFFICES ASSUME NEW e \in Entries, Good(e)' PROVE EntryOK(e)'
  BY DEF EntriesOK, Entries
<1>1. kind'[e] = EntryKind[e]
  BY GoodBefore
<1>2. \A i \in 1..Len(entries') :
        entries'[i].name = e => entries'[i].type \in Types(EntryKind[e])'
  BY TypesStep
<1>3. \A i \in 1..Len(captured_trees') : captured_trees'[i].name = e =>
        captured_trees'[i].is_dir = captured_trees'[i].tree_is_dir
  BY KindsStep
<1> QED BY <1>1, <1>2, <1>3, CaptureStep, VisibleStep DEF EntryOK
\* When the kernel takes a clone of p: nothing one sees at p or that is mounted
\* below it refuses the idmap or has one.
Takes(m) == m.kind = "ok" /\ ~m.idmapped
LEMMA AcceptedFacts ==
  ASSUME NEW t \in Tables, NEW p \in Path
  PROVE  Accepted(Clone(t, p)) <=> /\ Takes(t[Seen(t, p)])
                                   /\ \A i \in Under(t, p) : Takes(t[i])
<1> DEFINE c == Clone(t, p)
           I == Under(t, p)
           top == t[Seen(t, p)]
<1>1. t \in Seq(Mounted) /\ Len(t) \in Nat /\ At(t, p) /\ top \in Mounted
  BY TableFacts
<1>2. /\ Tail1(t, p) \in Nat /\ c \in Seq(Mounted) /\ Len(c) = Tail1(t, p) + 1
      /\ c[1] = [top EXCEPT !.at = p]
      /\ \A k \in 2..Len(c) : Nth(I, k - 1) \in I /\ c[k] = t[Nth(I, k - 1)]
  BY <1>1, CloneFacts
<1>3. I \in SUBSET (1..Len(t))
  BY <1>1, UnderFacts
<1>4. \A i \in I : \E k \in 1..Tail1(t, p) : Nth(I, k) = i
  <2> HIDE DEF I
  <2> QED BY <1>1, <1>3, NthFacts DEF Tail1, I
<1> HIDE DEF c, I, top
<1>5. Takes(c[1]) <=> Takes(top)
  <2>1. c[1].kind = top.kind /\ c[1].idmapped = top.idmapped
    BY <1>1, <1>2 DEF Mounted
  <2> QED BY <2>1 DEF Takes
<1>6. Accepted(c) <=> \A k \in 1..Len(c) : Takes(c[k])
  <2>1. DOMAIN c = 1..Len(c)
    BY <1>2
  <2> QED BY <2>1 DEF Accepted, Takes
<1>7. ASSUME \A k \in 1..Len(c) : Takes(c[k])
      PROVE  Takes(top) /\ \A i \in I : Takes(t[i])
  <2>1. 1 \in 1..Len(c)
    BY <1>2
  <2>2. ASSUME NEW i \in I PROVE Takes(t[i])
    <3>1. PICK k \in 1..Tail1(t, p) : Nth(I, k) = i
      BY <1>4
    <3>2. k + 1 \in 2..Len(c) /\ k + 1 \in 1..Len(c) /\ (k + 1) - 1 = k
      BY <1>2
    <3>3. c[k + 1] = t[i]
      BY <1>2, <3>1, <3>2
    <3>4. Takes(c[k + 1])
      BY <1>7, <3>2
    <3> QED BY <3>3, <3>4
  <2> QED BY <1>5, <1>7, <2>1, <2>2
<1>8. ASSUME Takes(top), \A i \in I : Takes(t[i]), NEW k \in 1..Len(c)
      PROVE  Takes(c[k])
  <2>1. k = 1 \/ k \in 2..Len(c)
    BY <1>2
  <2> QED BY <1>2, <1>5, <1>8, <2>1
<1> QED BY <1>6, <1>7, <1>8 DEF c, I, top

\* The loop attaches at most as many mounts as the host has.
LEMMA OwnLength ==
  ASSUME IInv, pc \in BeforeTmpfs
  PROVE  Len(own) <= 2 * Len(host)
<1>1. Len(own) \in Nat /\ Len(host) \in Nat /\ Len(host) <= Len(own)
  BY OwnTables, TableFacts DEF IInv, Extends
<1>2. PICK f \in [Added -> 1..Len(host)] : Copies(f)
  BY DEF IInv, CopiedOnce
<1>3. f \in Injection(Added, 1..Len(host))
  BY <1>2 DEF Copies, Injection, IsInjective
<1>4. /\ IsFiniteSet(1..Len(host))
      /\ Cardinality(1..Len(host)) = IF 1 > Len(host) THEN 0 ELSE Len(host) - 1 + 1
  <2>1. 1 \in Int /\ Len(host) \in Int
    BY <1>1
  <2> QED BY <2>1, FS_Interval
<1>5. Cardinality(Added) <= Cardinality(1..Len(host))
  BY <1>3, <1>4, FS_Injection
<1>6. Cardinality(Added) = IF Len(host) + 1 > Len(own) THEN 0
                           ELSE Len(own) - (Len(host) + 1) + 1
  <2>1. Len(host) + 1 \in Int /\ Len(own) \in Int
    BY <1>1
  <2> QED BY <2>1, FS_Interval DEF Added
<1> QED BY <1>1, <1>4, <1>5, <1>6

LEMMA LineStep ==
  ASSUME IInv, [Next]_vars
  PROVE  LineOK'
<1>1. /\ line \in Nat /\ line >= 1 /\ line <= 2 * Len(host) + 1
      /\ pc \in Early => line = 1
      /\ pc = "tmpfs" /\ effective_user => line > Len(own)
  BY DEF IInv, LineOK
<1>2. host' = host /\ effective_user' = effective_user /\ Len(host) \in Nat
  BY TablesStep, PcStep, OwnTables, TableFacts DEF IInv
<1>3. CASE SkipLine \/ IdmapLine \/ RefusedLine \/ FailedLine
  <2>1. pc = "lines" /\ pc' = "lines" /\ line' = line + 1 /\ line <= Len(tab[ns])
    BY <1>3 DEF SkipLine, IdmapLine, RefusedLine, FailedLine, NextLine
  <2>2. tab[ns] = own
    BY <2>1 DEF IInv, Where, own
  <2>3. Len(own) <= 2 * Len(host) /\ Len(own) \in Nat
    BY <2>1, OwnLength, OwnTables, TableFacts DEF BeforeTmpfs, IInv
  <2> QED BY <1>1, <1>2, <2>1, <2>2, <2>3 DEF LineOK, Early
<1>4. CASE ~(SkipLine \/ IdmapLine \/ RefusedLine \/ FailedLine)
  <2>1. line' = line
    BY <1>4 DEF Next, ApplyIdmappedMounts, CaptureAndAttach, vars, CreateBaseDir,
       Unshare, MakePrivate, OpenMounts, EndOfMounts, MountTmpfs, BindLocaltime,
       NoLocaltime, EnterBox, Stat, ReadDir, Capture, NotCaptured, Return,
       ReturnFails, AttachEntry, AttachFails, Done, Fails, BoxReplaces, Terminating
  <2>2. pc' \in Early => pc \in Early
    BY <1>4 DEF Early, Next, ApplyIdmappedMounts, CaptureAndAttach, vars,
       CreateBaseDir, Unshare, MakePrivate, AfterPrivate, OpenMounts, EndOfMounts,
       MountTmpfs, BindLocaltime, NoLocaltime, EnterBox, Stat, ReadDir, Capture,
       NotCaptured, Return, ReturnFails, AttachEntry, AttachFails, Done, Fails,
       BoxReplaces, Terminating
  <2>3. ASSUME pc' = "tmpfs", effective_user PROVE line > Len(own')
    <3>1. CASE EndOfMounts
      BY <3>1 DEF EndOfMounts, IInv, Where, own
    <3>2. CASE pc = "tmpfs" /\ own' = own
      BY <1>1, <2>3, <3>2
    <3>3. ~MakePrivate
      BY <2>3 DEF MakePrivate, AfterPrivate
    <3>4. EndOfMounts \/ (pc = "tmpfs" /\ UNCHANGED tab)
      <4>1. ~CaptureAndAttach
        BY <2>3 DEF CaptureAndAttach, EnterBox, ReadDir, Stat, Capture, NotCaptured, Return,
           ReturnFails, AttachEntry, AttachFails, Done
      <4>2. ApplyIdmappedMounts => EndOfMounts
        BY <1>4, <2>3 DEF ApplyIdmappedMounts, OpenMounts
      <4>3. UNCHANGED vars => pc = "tmpfs" /\ UNCHANGED tab
        BY <2>3 DEF vars
      <4> QED BY <2>3, <3>3, <4>1, <4>2, <4>3 DEF Next, CreateBaseDir, Unshare, MountTmpfs,
          BindLocaltime, NoLocaltime, Fails, BoxReplaces, Terminating
    <3>5. UNCHANGED tab => own' = own
      BY DEF own
    <3> QED BY <3>1, <3>2, <3>4, <3>5
  <2> QED BY <1>1, <1>2, <2>1, <2>2, <2>3 DEF LineOK, Early
<1> QED BY <1>3, <1>4

\* A mount whose clone takes the idmap is one of the host, below which nothing
\* has been attached.
LEMMA LoopFacts ==
  ASSUME IInv, NEW u, Attaching(u), ByLoop(u)
  PROVE  LET r == own[line].at
         IN /\ line \in 1..Len(host) /\ own[line] = host[line]
            /\ \A j \in Added : ~IsPrefix(r, own[j].at)
            /\ \A i \in Under(own, r) : i \in 1..Len(host)
<1> DEFINE r == own[line].at
           s == Seen(own, r)
<1>1. /\ own \in Tables /\ own \in Seq(Mounted) /\ At(own, r) /\ r \in Path
      /\ line \in 1..Len(own) /\ pc = "lines" /\ Accepted(Clone(own, r))
      /\ Len(own) \in Nat
  BY Attached1, TableFacts
<1>2. /\ Len(host) \in Nat /\ \A i \in 1..Len(host) : own[i] = host[i]
  BY OwnTables, TableFacts DEF IInv, Extends
<1>3. \A j \in Added : own[j].idmapped
  BY <1>1 DEF IInv, CopiedOnce, BeforeTmpfs
<1>4. ~own[s].idmapped /\ \A i \in Under(own, r) : ~own[i].idmapped
  BY <1>1, AcceptedFacts DEF Takes
<1>5. \A i \in 1..Len(own) : i \in 1..Len(host) \/ i \in Added
  BY <1>1, <1>2 DEF Added
<1>6. /\ s \in 1..Len(own) /\ \A j \in 1..Len(own) : IsPrefix(own[j].at, r) => j <= s
      /\ Under(own, r) \in SUBSET (1..Len(own))
  BY <1>1, SeenFacts, UnderFacts
<1> HIDE DEF r, s
<1>7. s \in 1..Len(host)
  BY <1>3, <1>4, <1>5, <1>6
<1>8. \A i \in Under(own, r) : i \in 1..Len(host)
  BY <1>3, <1>4, <1>5, <1>6
<1>9. ASSUME NEW j \in Added, IsPrefix(r, own[j].at) PROVE FALSE
  <2>1. j \in 1..Len(own) /\ j > s
    BY <1>1, <1>2, <1>7 DEF Added
  <2>2. CASE own[j].at = r
    BY <1>1, <1>6, <2>1, <2>2, PrefixOrder
  <2>3. CASE own[j].at # r
    <3>1. j \in Under(own, r)
      <4>1. j \in s + 1..Len(own)
        BY <1>6, <2>1
      <4>2. IsStrictPrefix(r, own[j].at)
        BY <1>9, <2>3 DEF IsStrictPrefix
      <4> QED BY <4>1, <4>2 DEF Under, s
    <3> QED BY <1>3, <1>4, <3>1
  <2> QED BY <2>2, <2>3
<1>10. line \in 1..Len(host)
  <2>1. IsPrefix(r, own[line].at)
    BY <1>1, PrefixOrder DEF r
  <2> QED BY <1>1, <1>5, <1>9, <2>1
<1> QED BY <1>2, <1>8, <1>9, <1>10 DEF r

LEMMA CopiedOnceStep ==
  ASSUME IInv, [Next]_vars
  PROVE  CopiedOnce'
<1> SUFFICES ASSUME pc' \in BeforeTmpfs
             PROVE  /\ \A i \in Added' : own'[i].idmapped
                    /\ \E f \in [Added' -> 1..Len(host')] : Copies(f)'
  BY DEF CopiedOnce, BeforeTmpfs
<1>1. host' = host /\ pc \in BeforeTmpfs
  BY TablesStep, BeforeStep
<1>2. /\ \A i \in Added : own[i].idmapped
      /\ \E f \in [Added -> 1..Len(host)] : Copies(f)
  BY <1>1 DEF IInv, CopiedOnce
<1>3. CASE own' = own
  <2>1. Added' = Added
    BY <1>1, <1>3 DEF Added
  <2>2. PICK f \in [Added -> 1..Len(host)] : Copies(f)
    BY <1>2
  <2>3. Copies(f)'
    BY <1>1, <1>3, <2>1, <2>2 DEF Copies
  <2> QED BY <1>1, <1>2, <1>3, <2>1, <2>2, <2>3
<1>4. ASSUME NEW u, Attaching(u), ByLoop(u), own' = Joined(own, u)
      PROVE  /\ \A i \in Added' : own'[i].idmapped
             /\ \E f \in [Added' -> 1..Len(host')] : Copies(f)'
  <2> DEFINE r == own[line].at
             c == Clone(own, r)
             I == Under(own, r)
             n == Len(own)
             New == (n + 1)..(n + Len(u))
  <2>1. /\ own \in Tables /\ own \in Seq(Mounted) /\ r \in Path /\ At(own, r)
        /\ u \in Seq(Mounted) /\ Len(u) = Len(c) /\ n \in Nat /\ Len(u) \in Nat
        /\ \A i \in 1..Len(u) : u[i].idmapped /\ u[i].at = c[i].at
    BY <1>4, Attached1, TableFacts
  <2>2. /\ Len(own') = n + Len(u)
        /\ \A i \in 1..n : own'[i] = own[i]
        /\ \A i \in New : i - n \in 1..Len(u) /\ own'[i] = u[i - n]
    BY <1>4, <2>1, JoinedFacts
  <2>3. /\ line \in 1..Len(host) /\ host[line].at = r
        /\ \A j \in Added : ~IsPrefix(r, own[j].at)
        /\ \A i \in I : i \in 1..Len(host)
    BY <1>4, LoopFacts
  <2>4. /\ Len(host) \in Nat /\ Len(host) <= n /\ \A i \in 1..Len(host) : own[i] = host[i]
    BY OwnTables, TableFacts DEF IInv, Extends
  <2>5. /\ c \in Seq(Mounted) /\ Len(c) = Tail1(own, r) + 1 /\ Tail1(own, r) \in Nat
        /\ \A k \in 2..Len(c) : /\ k - 1 \in 1..Tail1(own, r)
                                /\ Nth(I, k - 1) \in I /\ c[k] = own[Nth(I, k - 1)]
        /\ c[1].at = r
        /\ \A k \in 1..Len(c) : IsPrefix(r, c[k].at)
    <3>1. /\ Tail1(own, r) \in Nat /\ c \in Seq(Mounted) /\ Len(c) = Tail1(own, r) + 1
          /\ \A k \in 2..Len(c) : /\ k - 1 \in 1..Tail1(own, r)
                                  /\ Nth(I, k - 1) \in I /\ c[k] = own[Nth(I, k - 1)]
      <4> HIDE DEF r
      <4> QED BY <2>1, CloneFacts
    <3>2. c[1].at = r /\ \A k \in 1..Len(c) : IsPrefix(r, c[k].at)
      <4> HIDE DEF r
      <4> QED BY <2>1, CloneAt
    <3> QED BY <3>1, <3>2
  <2>6. /\ \A k, l \in 1..Tail1(own, r) : k < l => Nth(I, k) < Nth(I, l)
        /\ \A i \in I : own[i].at # r
    <3>1. I \in SUBSET (1..n)
      BY <2>1, UnderFacts
    <3>2. \A i \in I : own[i].at # r
      BY DEF Under, IsStrictPrefix
    <3> HIDE DEF I
    <3>3. \A k, l \in 1..Cardinality(I) : k < l => Nth(I, k) < Nth(I, l)
      BY <2>1, <3>1, NthFacts
    <3> QED BY <3>2, <3>3 DEF Tail1, I
  <2> HIDE DEF r, c, I, n
  <2>7. PICK f \in [Added -> 1..Len(host)] : Copies(f)
    BY <1>2
  <2>8. Added = (Len(host) + 1)..n /\ Added' = (Len(host) + 1)..(n + Len(u))
    BY <1>1, <2>2 DEF Added, n
  <2>9. \A i \in Added' : i \in Added \/ i \in New
    BY <2>1, <2>4, <2>8
  <2>10. \A i \in Added : i \in 1..n /\ i \notin New
    BY <2>1, <2>4, <2>8
  <2> DEFINE from(i) == IF i = n + 1 THEN line ELSE Nth(I, (i - n) - 1)
             g == [i \in Added' |-> IF i \in Added THEN f[i] ELSE from(i)]
  <2>11. ASSUME NEW i \in New
         PROVE  /\ i - n \in 1..Len(c)
                /\ i # n + 1 => i - n \in 2..Len(c) /\ (i - n) - 1 \in 1..Tail1(own, r)
                /\ i = n + 1 => i - n = 1
    BY <2>1, <2>5
  <2>12. ASSUME NEW i \in New
         PROVE  /\ from(i) \in 1..Len(host) /\ host[from(i)].at = own'[i].at
                /\ IsPrefix(r, own'[i].at)
    <3>1. own'[i].at = c[i - n].at /\ IsPrefix(r, c[i - n].at)
      BY <2>1, <2>2, <2>5, <2>11
    <3>2. CASE i = n + 1
      BY <2>3, <2>5, <2>11, <3>1, <3>2
    <3>3. CASE i # n + 1
      <4>1. /\ Nth(I, (i - n) - 1) \in I
            /\ c[i - n] = own[Nth(I, (i - n) - 1)]
        BY <2>5, <2>11, <3>3
      <4> QED BY <2>3, <2>4, <3>1, <3>3, <4>1
    <3> QED BY <3>2, <3>3
  <2>13. ASSUME NEW i \in New, NEW j \in New, from(i) = from(j) PROVE i = j
    <3>1. CASE i = n + 1 /\ j = n + 1
      BY <3>1
    <3>2. CASE i = n + 1 /\ j # n + 1
      <4>1. Nth(I, (j - n) - 1) \in I /\ Nth(I, (j - n) - 1) = line
        BY <2>5, <2>11, <2>13, <3>2
      <4> QED BY <2>6, <4>1 DEF r
    <3>3. CASE i # n + 1 /\ j = n + 1
      <4>1. Nth(I, (i - n) - 1) \in I /\ Nth(I, (i - n) - 1) = line
        BY <2>5, <2>11, <2>13, <3>3
      <4> QED BY <2>6, <4>1 DEF r
    <3>4. CASE i # n + 1 /\ j # n + 1
      <4> DEFINE k == (i - n) - 1
                 l == (j - n) - 1
      <4>1. /\ k \in 1..Tail1(own, r) /\ l \in 1..Tail1(own, r)
            /\ Nth(I, k) = Nth(I, l) /\ Nth(I, k) \in 1..Len(host)
        BY <2>3, <2>5, <2>11, <2>13, <3>4
      <4>2. k = l
        <5> HIDE DEF k, l
        <5>1. ~(k < l) /\ ~(l < k)
          BY <2>4, <2>6, <4>1
        <5> QED BY <2>5, <4>1, <5>1
      <4> QED BY <2>1, <4>2
    <3> QED BY <3>1, <3>2, <3>3, <3>4
  <2> HIDE DEF from, New
  <2>14. /\ \A i \in Added : f[i] \in 1..Len(host) /\ host[f[i]].at = own'[i].at
         /\ \A i, j \in Added : f[i] = f[j] => i = j
    BY <2>2, <2>7, <2>10 DEF Copies
  <2>15. ASSUME NEW i \in Added'
         PROVE  g[i] \in 1..Len(host) /\ host[g[i]].at = own'[i].at
    BY <2>9, <2>12, <2>14
  <2>16. ASSUME NEW i \in Added', NEW j \in Added', g[i] = g[j] PROVE i = j
    <3>1. \A x \in Added : ~IsPrefix(r, own'[x].at)
      BY <2>2, <2>3, <2>10
    <3>2. \A x \in New : IsPrefix(r, own'[x].at) /\ x \notin Added
      BY <2>10, <2>12
    <3>3. own'[i].at = own'[j].at
      BY <2>15, <2>16
    <3>4. CASE i \in Added /\ j \in Added
      BY <2>14, <2>16, <3>4
    <3>5. CASE i \in New /\ j \in New
      BY <2>13, <2>16, <3>2, <3>5
    <3> QED BY <2>9, <3>1, <3>2, <3>3, <3>4, <3>5
  <2>17. g \in [Added' -> 1..Len(host)]
    BY <2>15
  <2> HIDE DEF g
  <2>18. PICK h \in [Added' -> 1..Len(host)] : h = g
    BY <2>17
  <2>19. Copies(h)'
    BY <1>1, <2>15, <2>16, <2>18 DEF Copies
  <2>20. \A i \in Added' : own'[i].idmapped
    BY <1>2, <2>1, <2>2, <2>9, <2>10 DEF New
  <2> QED BY <1>1, <2>19, <2>20
<1> QED BY <1>3, <1>4, BeforeStep
\* What a supported mount of the host is.
LEMMA SupportedFacts ==
  ASSUME IInv, NEW i \in 1..Len(host), Supported(host[i].at)
  PROVE  LET p == host[i].at
         IN /\ p \in Path /\ ~IsPrefix(Base, p) /\ p \notin Escaped /\ p \notin spoiled
            /\ Seen(host, p) = i /\ host[i].kind = "ok" /\ Accepted(Clone(host, p))
            /\ \A j \in 1..Len(host) : IsPrefix(p, host[j].at) => Seen(host, host[j].at) = j
<1> DEFINE p == host[i].at
<1>1. host \in Tables /\ DOMAIN host = 1..Len(host) /\ p \in Path /\ IsPrefix(p, p)
  BY OwnTables, TableFacts, PrefixOrder DEF IInv
<1>2. \A j \in 1..Len(host) : IsPrefix(p, host[j].at) => Seen(host, host[j].at) = j
  BY <1>1 DEF Supported, Covered, host
<1>3. Seen(host, p) = i
  BY <1>1, <1>2
<1>4. Accepted(Clone(host, p)) /\ p \notin Escaped /\ ~IsPrefix(Base, p) /\ p \notin spoiled
  BY <1>1 DEF Supported, host
<1>5. host[i].kind = "ok"
  BY <1>1, <1>3, <1>4, AcceptedFacts DEF Takes
<1> QED BY <1>1, <1>2, <1>3, <1>4, <1>5

\* Its line attaches its idmapped clone, if it is not seen idmapped before.
LEMMA LineOfSupported ==
  ASSUME IInv, pc = "lines", line \in 1..Len(host), Supported(host[line].at),
         \A j \in Added : ~IsPrefix(host[line].at, own[j].at)
  PROVE  LET p == host[line].at
         IN \/ View(own, p).idmapped
            \/ /\ own[line] = host[line] /\ ~Skipped(own[line]) /\ ~Covered(own, line)
               /\ Accepted(Clone(own, p))
<1> DEFINE p == host[line].at
<1>1. /\ p \in Path /\ ~IsPrefix(Base, p) /\ Seen(host, p) = line /\ host[line].kind = "ok"
      /\ Accepted(Clone(host, p))
  BY SupportedFacts
<1>2. /\ own \in Tables /\ host \in Tables /\ own \in Seq(Mounted) /\ host \in Seq(Mounted)
      /\ At(own, p) /\ At(host, p) /\ Len(own) \in Nat /\ Len(host) \in Nat
  BY <1>1, OwnTables, TableFacts DEF IInv
<1>3. Len(host) <= Len(own) /\ \A i \in 1..Len(host) : own[i] = host[i]
  BY DEF IInv, Extends
<1>4. \A j \in Added : own[j].idmapped /\ ~IsPrefix(p, own[j].at)
  BY DEF IInv, CopiedOnce, BeforeTmpfs
<1>5. \A i \in 1..Len(own) : i \in 1..Len(host) \/ i \in Added
  BY <1>2, <1>3 DEF Added
<1>6. own[line] = host[line] /\ line \in 1..Len(own)
  BY <1>2, <1>3
<1> HIDE DEF p
<1> DEFINE s == Seen(own, p)
<1>7. /\ s \in 1..Len(own) /\ IsPrefix(own[s].at, p)
      /\ \A j \in 1..Len(own) : IsPrefix(own[j].at, p) => j <= s
  BY <1>2, SeenFacts
<1>8. CASE s \in Added
  BY <1>4, <1>8 DEF View, p
<1>9. CASE s \in 1..Len(host)
  <2>1. s = line
    <3>1. /\ IsPrefix(host[line].at, p)
          /\ \A j \in 1..Len(host) : IsPrefix(host[j].at, p) => j <= line
      BY <1>1, <1>2, SeenFacts
    <3>2. s <= line
      BY <1>3, <1>7, <1>9, <3>1
    <3>3. line <= s
      BY <1>3, <1>6, <1>7, <3>1
    <3> QED BY <1>2, <1>6, <1>7, <3>2, <3>3
  <2>2. Under(own, p) \subseteq Under(host, p)
    <3> SUFFICES ASSUME NEW i \in Under(own, p) PROVE i \in Under(host, p)
      OBVIOUS
    <3>1. i \in line + 1..Len(own) /\ IsStrictPrefix(p, own[i].at)
      BY <2>1 DEF Under
    <3>2. i \in 1..Len(own)
      BY <1>2, <1>6, <3>1
    <3>3. i \in 1..Len(host)
      BY <1>4, <1>5, <3>1, <3>2 DEF IsStrictPrefix
    <3>4. i \in line + 1..Len(host) /\ IsStrictPrefix(p, host[i].at)
      BY <1>2, <1>3, <1>6, <3>1, <3>3
    <3> QED BY <1>1, <3>4 DEF Under
  <2>3. Accepted(Clone(own, p))
    <3>1. Takes(host[line]) /\ \A i \in Under(host, p) : Takes(host[i])
      BY <1>1, <1>2, AcceptedFacts
    <3>2. \A i \in Under(host, p) : i \in 1..Len(host)
      BY <1>2, UnderFacts
    <3>3. Takes(own[s]) /\ \A i \in Under(own, p) : Takes(own[i])
      BY <1>3, <1>6, <2>1, <2>2, <3>1, <3>2
    <3> QED BY <1>1, <1>2, <3>3, AcceptedFacts
  <2>4. ~Covered(own, line)
    BY <1>6, <2>1 DEF Covered, p
  <2>5. ~Skipped(own[line])
    BY <1>1, <1>6 DEF Skipped, p
  <2> QED BY <1>6, <2>3, <2>4, <2>5 DEF p
<1> QED BY <1>5, <1>7, <1>8, <1>9

\* An idmapped mount stays, and one that is attached over it is one too.
LEMMA LoopKeeps ==
  ASSUME IInv, NEW u, Attaching(u), ByLoop(u), NEW p \in Path
  PROVE  /\ View(own, p).idmapped => View(own', p).idmapped
         /\ IsPrefix(own[line].at, p) => View(own', p).idmapped
<1>1. /\ own \in Tables /\ own \in Seq(Mounted) /\ At(own, p) /\ own' = Joined(own, u)
      /\ u \in Seq(Mounted) /\ Len(u) \in Nat /\ DOMAIN u = 1..Len(u)
      /\ Len(u) = Len(Clone(own, own[line].at)) /\ own[line].at \in Path
      /\ \A i \in 1..Len(u) : /\ u[i].idmapped
                              /\ u[i].at = Clone(own, own[line].at)[i].at
  BY Attached1, TableFacts
<1>2. CASE At(u, p)
  <2>1. Seen(u, p) \in 1..Len(u) /\ View(own', p) = u[Seen(u, p)]
    BY <1>1, <1>2, SeenFacts, SeenConcat DEF View
  <2> QED BY <1>1, <2>1
<1>3. CASE ~At(u, p)
  <2>1. View(own', p) = View(own, p)
    BY <1>1, <1>3, SeenConcat
  <2>2. ~IsPrefix(own[line].at, p)
    <3>1. 1 \in 1..Len(u) /\ u[1].at = own[line].at
      <4>1. At(own, own[line].at)
        BY <1>1, TableFacts
      <4> QED BY <1>1, <4>1, CloneAt
    <3> QED BY <1>1, <1>3, <3>1 DEF At
  <2> QED BY <2>1, <2>2
<1> QED BY <1>2, <1>3

LEMMA IdmapStep ==
  ASSUME IInv, [Next]_vars
  PROVE  IdmapProgress'
<1> SUFFICES ASSUME pc' \in BeforeTmpfs, effective_user',
                    NEW i \in 1..Len(host'), Supported(host[i].at)'
             PROVE  View(own', host'[i].at).idmapped \/ Waiting(i)'
  BY DEF IdmapProgress, BeforeTmpfs, View
<1> DEFINE p == host[i].at
<1>1. host' = host /\ pc \in BeforeTmpfs /\ effective_user
  BY TablesStep, BeforeStep, PcStep
<1>2. Supported(p) /\ p \notin spoiled' /\ p \in Path
  <2>1. p \in Path /\ IsPrefix(p, p)
    BY <1>1, OwnTables, TableFacts, PrefixOrder DEF IInv
  <2>2. spoiled \subseteq spoiled'
    BY DEF Next, ApplyIdmappedMounts, CaptureAndAttach, vars, Spoil, CreateBaseDir,
       Unshare, MakePrivate, OpenMounts, SkipLine, IdmapLine, RefusedLine, FailedLine,
       EndOfMounts, MountTmpfs, BindLocaltime, NoLocaltime, EnterBox, Stat, ReadDir,
       Capture, NotCaptured, Return, ReturnFails, AttachEntry, AttachFails, Done,
       Fails, BoxReplaces, Terminating
  <2>3. tab'["host"] = tab["host"]
    BY <1>1 DEF host
  <2> QED BY <1>1, <2>1, <2>2, <2>3 DEF Supported, host
<1>3. View(own, p).idmapped \/ Waiting(i)
  BY <1>1, <1>2 DEF IInv, IdmapProgress
<1>4. /\ Len(host) \in Nat /\ Len(own) \in Nat /\ line \in Nat /\ i \in 1..Len(host)
      /\ own \in Tables
  BY <1>1, OwnTables, TableFacts DEF IInv, LineOK
<1>5. ASSUME NEW u, Attaching(u), ByLoop(u), own' = Joined(own, u)
      PROVE  View(own', p).idmapped \/ Waiting(i)'
  <2> DEFINE r == own[line].at
  <2>1. CASE View(own, p).idmapped \/ IsPrefix(r, p)
    BY <1>2, <1>5, <2>1, LoopKeeps
  <2>2. CASE Waiting(i) /\ ~IsPrefix(r, p)
    <3>1. /\ line \in 1..Len(host) /\ r = host[line].at /\ r \in Path
          /\ line' = line + 1
      BY <1>5, LoopFacts, Attached1 DEF ByLoop, IdmapLine, NextLine
    <3>2. line # i /\ line + 1 <= i
      <4>1. line # i
        BY <1>2, <2>2, <3>1, PrefixOrder
      <4> QED BY <1>4, <2>2, <4>1 DEF Waiting
    <3>3. ~IsPrefix(p, r)
      <4>1. SUFFICES ASSUME IsPrefix(p, r) PROVE FALSE
        OBVIOUS
      <4>2. Seen(host, r) = line
        BY <1>2, <1>4, <3>1, <4>1, SupportedFacts
      <4>3. host \in Seq(Mounted) /\ At(host, r)
        BY <3>1, OwnTables, TableFacts DEF IInv
      <4>4. i <= line
        BY <1>4, <4>1, <4>2, <4>3, SeenFacts
      <4> QED BY <1>4, <3>2, <4>4
    <3>4. ASSUME NEW k \in 1..Len(u) PROVE ~IsPrefix(p, u[k].at)
      <4>1. IsPrefix(r, u[k].at) /\ u[k].at \in Path
        <5>1. /\ Len(u) = Len(Clone(own, r)) /\ u[k].at = Clone(own, r)[k].at
              /\ own \in Seq(Mounted) /\ At(own, r)
          BY <1>4, <1>5, <3>1, Attached1, TableFacts
        <5> QED BY <3>1, <5>1, CloneAt
      <4> QED BY <1>2, <2>2, <3>1, <3>3, <4>1, PrefixOrder
    <3>5. /\ u \in Seq(Mounted) /\ Len(u) \in Nat /\ Len(own') = Len(own) + Len(u)
          /\ \A j \in 1..Len(own) : own'[j] = own[j]
          /\ \A j \in (Len(own) + 1)..(Len(own) + Len(u)) :
               j - Len(own) \in 1..Len(u) /\ own'[j] = u[j - Len(own)]
      <4>1. own \in Tables /\ u \in Seq(Mounted) /\ own' = Joined(own, u)
        BY <1>5, Attached1
      <4>2. Len(u) \in Nat
        BY <4>1
      <4> QED BY <4>1, <4>2, JoinedFacts
    <3>6. ASSUME NEW j \in Added' PROVE ~IsPrefix(p, own'[j].at)
      <4>1. j \in Added \/ j \in (Len(own) + 1)..(Len(own) + Len(u))
        BY <1>1, <1>4, <3>5 DEF Added
      <4>2. CASE j \in Added
        <5>1. j \in 1..Len(own)
          BY <1>4, <4>2 DEF Added
        <5> QED BY <2>2, <3>5, <4>2, <5>1 DEF Waiting
      <4>3. CASE j \in (Len(own) + 1)..(Len(own) + Len(u))
        BY <3>4, <3>5, <4>3
      <4> QED BY <4>1, <4>2, <4>3
    <3> QED BY <1>1, <3>1, <3>2, <3>6 DEF Waiting
  <2> QED BY <1>3, <2>1, <2>2
<1>6. CASE IdmapLine
  <2>1. PICK u : Attaching(u) /\ ByLoop(u) /\ own' = Joined(own, u)
    BY <1>6, LoopAttaches, Attached1
  <2>2. View(own', p).idmapped \/ Waiting(i)'
    BY <1>5, <2>1
  <2> QED BY <1>1, <2>2
<1>7. CASE SkipLine \/ RefusedLine \/ FailedLine
  <2>1. /\ pc = "lines" /\ line' = line + 1 /\ line <= Len(tab[ns]) /\ UNCHANGED tab
    BY <1>7 DEF SkipLine, RefusedLine, FailedLine, NextLine
  <2>2. own' = own /\ ns = "own" /\ tab[ns] = own
    BY <2>1 DEF own, IInv, Where
  <2>3. CASE View(own, p).idmapped
    BY <1>1, <2>2, <2>3
  <2>4. CASE Waiting(i) /\ line # i
    <3>1. line' <= i
      BY <1>4, <2>1, <2>4 DEF Waiting
    <3>2. Added' = Added
      BY <1>1, <2>2 DEF Added
    <3>3. Waiting(i)'
      BY <1>1, <2>2, <2>4, <3>1, <3>2 DEF Waiting
    <3> QED BY <3>3
  <2>5. CASE Waiting(i) /\ line = i /\ ~View(own, p).idmapped
    <3>1. /\ own[line] = host[line] /\ ~Skipped(own[line]) /\ ~Covered(own, line)
          /\ Accepted(Clone(own, p))
      BY <1>2, <1>4, <2>1, <2>5, LineOfSupported DEF Waiting
    <3>2. p \notin Escaped /\ own[line].at = p
      BY <1>2, <1>4, <2>5, <3>1, SupportedFacts
    <3>3. ~SkipLine
      BY <2>2, <3>1 DEF SkipLine
    <3>4. ~RefusedLine
      BY <2>2, <3>1, <3>2 DEF RefusedLine, MovedBack
    <3>5. ~FailedLine
      <4>1. FailedLine => p \in spoiled'
        BY <2>2, <3>2 DEF FailedLine, Spoil
      <4> QED BY <1>2, <4>1
    <3> QED BY <1>7, <3>3, <3>4, <3>5
  <2> QED BY <1>3, <2>3, <2>4, <2>5
<1>8. CASE ~(IdmapLine \/ SkipLine \/ RefusedLine \/ FailedLine)
  <2>1. line' = line
    BY <1>8 DEF Next, ApplyIdmappedMounts, CaptureAndAttach, vars, CreateBaseDir,
       Unshare, MakePrivate, OpenMounts, EndOfMounts, MountTmpfs, BindLocaltime,
       NoLocaltime, EnterBox, Stat, ReadDir, Capture, NotCaptured, Return,
       ReturnFails, AttachEntry, AttachFails, Done, Fails, BoxReplaces, Terminating
  <2>2. own' = own
    BY <1>8, BeforeStep DEF ByLoop
  <2>3. Added' = Added
    BY <1>1, <2>2 DEF Added
  <2> QED BY <1>1, <1>3, <2>1, <2>2, <2>3 DEF Waiting
<1> QED BY <1>6, <1>7, <1>8
-----------------------------------------------------------------------------
(***************************************************************************)
(* The invariant holds.                                                    *)
(***************************************************************************)
LEMMA InitInv ==
  ASSUME Init
  PROVE  IInv
<1>1. PICK h \in Hosts : tab = [n \in Namespaces |-> IF n = "box" THEN Box ELSE h]
  BY DEF Init
<1>2. own = h /\ host = h /\ tab["box"] = Box
  BY <1>1 DEF own, host, Namespaces
<1>3. h \in Tables /\ Box \in Tables
  BY MountAssumption
<1>4. Len(h) \in Nat /\ Len(h) >= 1
  BY <1>3, TableFacts
<1>5. Added = {}
  BY <1>2, <1>4 DEF Added
<1>6. TablesOK
  <2>1. tab \in [Namespaces -> Tables]
    BY <1>1, <1>3
  <2> QED BY <1>2, <2>1 DEF TablesOK
<1>7. Plain
  <2>1. kind \in [Entries -> EntryKinds \cup {"gone"}]
    BY MountAssumption DEF Init
  <2>2. /\ effective_user \in BOOLEAN /\ d_type \in BOOLEAN /\ shared = TRUE
        /\ pc = "base_dir" /\ ns = "host" /\ entries = << >> /\ spoiled = {}
    BY DEF Init
  <2> QED BY <2>1, <2>2 DEF Plain, Namespaces
<1>8. Where /\ Extends /\ SameView /\ LineOK
  <2>1. pc = "base_dir" /\ ns = "host" /\ line = 1
    BY DEF Init
  <2>2. Extends
    BY <1>2, <1>4 DEF Extends
  <2>3. SameView
    BY <1>2 DEF SameView
  <2> QED BY <1>2, <1>4, <2>1, <2>2, <2>3 DEF Where, LineOK
<1>9. CopiedOnce /\ IdmapProgress
  <2>1. \E f \in [Added -> 1..Len(host)] : Copies(f)
    <3>1. [x \in Added |-> 1] \in [Added -> 1..Len(host)]
      BY <1>5
    <3>2. Copies([x \in Added |-> 1])
      BY <1>5, <3>1 DEF Copies
    <3> QED BY <3>1, <3>2
  <2>2. \A i \in 1..Len(host) : Waiting(i)
    BY <1>5 DEF Waiting, Init
  <2> QED BY <1>5, <2>1, <2>2 DEF CopiedOnce, IdmapProgress
<1>10. OnTmpfs
  BY <1>2 DEF OnTmpfs, Init
<1>11. TreesOK /\ EntriesOK
  <2>1. entries = << >> /\ captured_trees = << >> /\ kind = EntryKind /\ pc = "base_dir"
    BY DEF Init
  <2>2. TreesOK
    BY <2>1 DEF TreesOK
  <2>3. Len(entries) = 0 /\ Len(captured_trees) = 0
    BY <2>1
  <2> QED BY <2>1, <2>2, <2>3 DEF EntriesOK, EntryOK
<1> QED BY <1>6, <1>7, <1>8, <1>9, <1>10, <1>11 DEF IInv

LEMMA NextInv ==
  ASSUME IInv, [Next]_vars
  PROVE  IInv'
BY PlainStep, TablesStep, PcStep, ExtendsStep, SameViewStep, CopiedOnceStep, LineStep,
   IdmapStep, OnTmpfsStep, TreesStep, EntriesOKStep DEF IInv

\* The inductive invariant.
THEOREM Inductive == Spec => []IInv
BY InitInv, NextInv, PTL DEF Spec

\* The values of the variables, and that the loop over /proc/mounts, which reads
\* what it appends, adds at most one mount per mount of the host.
THEOREM TypeCorrect == Spec => []TypeOK
<1>1. IInv => TypeOK
  <2> SUFFICES ASSUME IInv PROVE TypeOK
    OBVIOUS
  <2>1. /\ DOMAIN tab = Namespaces /\ DOMAIN captured_trees = 1..Len(captured_trees)
    BY TreesShape DEF IInv, TablesOK
  <2>2. pc = "lines" => Len(tab["own"]) <= 2 * Len(tab["host"])
    BY OwnLength DEF BeforeTmpfs, own, host
  <2>3. line \in 1..2 * Len(tab["host"]) + 1
    <3>1. Len(host) \in Nat
      BY OwnTables, TableFacts DEF IInv
    <3> QED BY <3>1 DEF IInv, LineOK, host
  <2>4. \A i \in DOMAIN captured_trees : captured_trees[i].name \in Entries
    BY <2>1, TreesShape DEF IInv
  <2> QED BY <2>1, <2>2, <2>3, <2>4 DEF IInv, Plain, TypeOK
<1> QED BY <1>1, Inductive, PTL

\* The file systems the child sees outside base_dir are the host's.
THEOREM SameFilesSeen == Spec => []SameFiles
<1>1. IInv => SameFiles
  <2> SUFFICES ASSUME IInv, NEW p \in Paths, ~IsPrefix(Base, p), p # Localtime
               PROVE  SeenAt("own", p).fs = SeenAt("host", p).fs
    BY DEF SameFiles
  <2>1. own \in Tables /\ host \in Tables
    BY OwnTables DEF IInv
  <2>2. PICK i \in 1..Len(own) : p = own[i].at
    BY <2>1, TableFacts DEF Paths, own
  <2>3. PICK j \in 1..Len(host) : p = host[j].at
    BY <2>2 DEF IInv, Extends
  <2>4. p \in Path /\ j \in DOMAIN host /\ host \in Hosts
    BY <2>1, <2>3, TableFacts DEF IInv, TablesOK
  <2>5. ~IsStrictPrefix(Localtime, host[j].at)
    BY <2>4, MountAssumption
  <2>6. ~IsPrefix(Localtime, p)
    BY <2>3, <2>5 DEF IsStrictPrefix
  <2> QED BY <2>4, <2>6 DEF IInv, SameView, SeenAt, View, own, host
<1> QED BY <1>1, Inductive, PTL

\* No path gets more layers from the loop than the host has there.
THEOREM LayersBounded == Spec => []OneLayer
<1>1. IInv => OneLayer
  <2> SUFFICES ASSUME IInv, pc = "lines", NEW p
               PROVE  Cardinality(Layers(own, Len(host) + 1, p))
                        <= Cardinality(Layers(host, 1, p))
    BY DEF OneLayer, own, host
  <2> DEFINE S == Layers(own, Len(host) + 1, p)
             T == Layers(host, 1, p)
  <2>1. PICK f \in [Added -> 1..Len(host)] : Copies(f)
    BY DEF IInv, CopiedOnce, BeforeTmpfs
  <2>2. S \subseteq Added
    BY DEF Layers, Added
  <2>3. [i \in S |-> f[i]] \in Injection(S, T)
    <3>1. \A i \in S : f[i] \in T
      BY <2>1, <2>2 DEF Copies, Layers
    <3>2. \A i, j \in S : f[i] = f[j] => i = j
      BY <2>1, <2>2 DEF Copies
    <3> HIDE DEF S, T
    <3> QED BY <3>1, <3>2 DEF Injection, IsInjective
  <2>4. IsFiniteSet(T)
    <3>1. Len(host) \in Int /\ 1 \in Int
      BY OwnTables, TableFacts DEF IInv
    <3>2. IsFiniteSet(1..Len(host))
      BY <3>1, FS_Interval
    <3>3. T \in SUBSET (1..Len(host))
      BY DEF Layers
    <3> HIDE DEF T
    <3> QED BY <3>2, <3>3, FS_Subset
  <2> HIDE DEF S, T
  <2>5. Cardinality(S) <= Cardinality(T)
    BY <2>3, <2>4, FS_Injection
  <2> QED BY <2>5 DEF S, T
<1> QED BY <1>1, Inductive, PTL

\* The loop leaves no mount without the idmap that could have it.
THEOREM AllIdmapped == Spec => []IdmapApplied
<1>1. IInv => IdmapApplied
  <2> SUFFICES ASSUME IInv, pc = "tmpfs", effective_user, NEW i \in DOMAIN host,
                      Supported(host[i].at)
               PROVE  SeenAt("own", host[i].at).idmapped
    BY DEF IdmapApplied, host
  <2>1. i \in 1..Len(host) /\ Len(host) \in Nat /\ Len(own) \in Nat
    BY OwnTables, TableFacts DEF IInv
  <2>2. line > Len(own) /\ Len(host) <= Len(own) /\ line \in Nat
    BY DEF IInv, LineOK, Extends
  <2>3. ~Waiting(i)
    BY <2>1, <2>2 DEF Waiting
  <2>4. View(own, host[i].at).idmapped
    BY <2>1, <2>3 DEF IInv, IdmapProgress, BeforeTmpfs
  <2> QED BY <2>4 DEF SeenAt, View, own
<1> QED BY <1>1, Inductive, PTL

\* Only base_dir is created on the host, where the tmpfs finds it after the loop,
\* and everything else on the tmpfs.
THEOREM PlacedMountPoints == Spec => []MountPointsPlaced
<1>1. IInv => MountPointsPlaced
  <2> SUFFICES ASSUME IInv PROVE MountPointsPlaced
    OBVIOUS
  <2>1. created \subseteq {OnHost, <<"below", "tmpfs">>}
    BY DEF IInv, OnTmpfs
  <2>2. OnHost = <<"base_dir", SeenAt("host", Base).fs>>
    BY DEF OnHost, SeenAt, View, host
  <2>3. ASSUME pc = "tmpfs" PROVE <<"base_dir", UnderBase>> \in created
    <3>1. ns = "own" /\ View(own, Base).fs = View(host, Base).fs /\ OnHost \in created
      BY <2>3 DEF IInv, Where, OnTmpfs, BeforeTmpfs
    <3>2. <<"base_dir", UnderBase>> = OnHost
      BY <3>1 DEF OnHost, UnderBase, SeenAt, View, own
    <3> QED BY <3>1, <3>2
  <2> QED BY <2>1, <2>2, <2>3 DEF MountPointsPlaced, NoBaseDir
<1> QED BY <1>1, Inductive, PTL

\* What the container sees at and below a good entry, base_dir shows.
THEOREM ContainerShown == Spec => []EntriesShown
<1>1. IInv => EntriesShown
  <2> SUFFICES ASSUME IInv, pc = "done", NEW e \in Entries, Target(e) \notin spoiled,
                      EntryKind[e] \in {"dir", "file", "symfile"}
               PROVE  Shown(e)
    BY DEF EntriesShown
  <2>1. Visible(e)
    BY DEF IInv, EntriesOK, Good, EntryOK
  <2>2. tab["box"] = Box /\ Box \in Tables
    BY Constants DEF IInv, TablesOK
  <2>3. ASSUME NEW i \in DOMAIN Box, IsPrefix(<<e>>, Box[i].at) \/ i = 1,
               NEW p, p = IF i = 1 THEN <<e>> ELSE Box[i].at
        PROVE  SeenAt("own", Base \o p).fs = SeenAt("box", p).fs
    <3>1. p \in Path /\ IsPrefix(<<e>>, p)
      <4>1. <<e>> \in Path /\ Box[i].at \in Path
        BY <2>2, Constants, TableFacts
      <4> QED BY <2>3, <4>1, PrefixOrder
    <3>2. View(own, Joined(Base, p)).fs = View(Box, p).fs
      BY <2>1, <3>1 DEF Visible
    <3> QED BY <2>2, <3>2 DEF SeenAt, View, Joined, own
  <2> QED BY <2>3 DEF Shown
<1> QED BY <1>1, Inductive, PTL

\* No step changes the mounts of the host or of the container.
THEOREM OthersUntouched == Spec => OnlyOwnMounts
<1>1. IInv /\ [Next]_vars => [UNCHANGED <<tab["host"], tab["box"]>>]_vars
  BY TablesStep DEF host
<1> QED BY <1>1, Inductive, PTL DEF Spec, OnlyOwnMounts
================================================================================
