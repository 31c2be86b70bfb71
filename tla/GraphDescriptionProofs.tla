------------------------ MODULE GraphDescriptionProofs ------------------------
(***************************************************************************)
(* Proofs about module GraphDescription: what TLC checks for a few programs  *)
(* and settings holds for every program of the nodes that the constructors   *)
(* make, every way to connect them and every number of copies.               *)
(*                                                                           *)
(* From the bottom up: a type that has an entry comes back with its name, an *)
(* IO with its type, a node with its IOs and its arguments, the table of the *)
(* types has what the nodes need in an order that can be read, functions are *)
(* numbered apart, an edge finds the ports it joined.  The graph that is     *)
(* made of any file can be held by a file; a graph that can be held comes    *)
(* back.                                                                     *)
(***************************************************************************)
EXTENDS GraphDescription, FiniteSetTheorems, SequenceTheorems,
        WellFoundedInduction, NaturalsInduction, TLAPS

(***************************************************************************)
(* Numbers and sequences.                                                    *)
(***************************************************************************)

(* A set of natural numbers has a least element.                            *)
LEMMA Least ==
  ASSUME NEW T, T \subseteq Nat, T # {}
  PROVE  \E m \in T : \A k \in T : m <= k
<1> DEFINE R == {ss \in Nat \X Nat : ss[1] < ss[2]}
<1>1. R = OpToRel(<, Nat)
  BY DEF OpToRel
<1>2. IsWellFoundedOn(R, Nat)
  BY <1>1, NatLessThanWellFounded
<1>3. PICK m \in T : \A k \in T : ~(<<k, m>> \in R)
  BY <1>2, WFMin
<1>4. \A k \in T : ~(k < m)
  <2>1. SUFFICES ASSUME NEW k \in T, k < m PROVE FALSE
    OBVIOUS
  <2>2. <<k, m>> \in R
    BY <2>1
  <2>3. QED
    BY <2>2, <1>3
<1>5. QED
  BY <1>4

(* Induction, for the set of the numbers that have a property.              *)
LEMMA Induction ==
  ASSUME NEW P, 0 \in P, \A k \in Nat : k \in P => k + 1 \in P
  PROVE  \A k \in Nat : k \in P
<1> DEFINE T == Nat \ P
<1>1. SUFFICES ASSUME T # {} PROVE FALSE
  OBVIOUS
<1>2. PICK k \in T : \A m \in T : k <= m
  BY <1>1, Least
<1>3. k \in Nat /\ k # 0 /\ k - 1 \in Nat /\ k - 1 < k
  BY <1>2
<1>4. k - 1 \in P
  BY <1>2, <1>3
<1>5. k - 1 + 1 \in P
  BY <1>3, <1>4
<1>6. QED
  BY <1>2, <1>3, <1>5

(* Pick(s, I) enumerates the positions I of s upwards.                       *)
Enumerates(e, I) ==
  /\ Cardinality(I) \in Nat
  /\ e \in [1..Cardinality(I) -> I]
  /\ \A i \in I : \E k \in 1..Cardinality(I) : e[k] = i
  /\ \A j, k \in 1..Cardinality(I) : j < k => e[j] < e[k]

LEMMA PickEnumerates ==
  ASSUME NEW s, NEW n \in Nat, NEW I, I \subseteq 1..n
  PROVE  \E e : /\ Enumerates(e, I)
                /\ Pick(s, I) = [k \in 1..Cardinality(I) |-> s[e[k]]]
                /\ \A i \in I : e[Cardinality({j \in I : j <= i})] = i
<1> DEFINE below(i) == {j \in I : j <= i}
           c == Cardinality(I)
           rank == [i \in I |-> Cardinality(below(i))]
           e == [k \in 1..c |-> CHOOSE i \in I : Cardinality(below(i)) = k]
<1>0. \A i \in I : i \in Nat
  OBVIOUS
<1>1. IsFiniteSet(I) /\ c \in Nat
  <2>1. IsFiniteSet(1..n)
    BY FS_Interval
  <2>2. QED
    BY <2>1, FS_Subset, FS_CardinalityType
<1>2. \A i \in I : IsFiniteSet(below(i)) /\ Cardinality(below(i)) \in 1..c
  <2>1. SUFFICES ASSUME NEW i \in I
                 PROVE  IsFiniteSet(below(i)) /\ Cardinality(below(i)) \in 1..c
    OBVIOUS
  <2>2. below(i) \in SUBSET I /\ i \in below(i)
    OBVIOUS
  <2> HIDE DEF below
  <2>3. IsFiniteSet(below(i)) /\ Cardinality(below(i)) <= c
    BY <1>1, <2>2, FS_Subset
  <2>4. Cardinality(below(i)) \in Nat /\ Cardinality(below(i)) # 0
    BY <2>2, <2>3, FS_CardinalityType, FS_EmptySet
  <2>5. QED
    BY <2>3, <2>4, <1>1
<1>3. \A i, j \in I : i < j => Cardinality(below(i)) < Cardinality(below(j))
  <2>1. SUFFICES ASSUME NEW i \in I, NEW j \in I, i < j
                 PROVE  Cardinality(below(i)) < Cardinality(below(j))
    OBVIOUS
  <2>2. below(i) \in SUBSET below(j) /\ j \in below(j) /\ j \notin below(i)
    <3>1. \A x \in I : x <= i => x <= j
      BY <2>1, <1>0
    <3>2. j <= j /\ ~(j <= i)
      BY <2>1, <1>0
    <3>3. QED
      BY <3>1, <3>2
  <2>3. IsFiniteSet(below(j)) /\ IsFiniteSet(below(i))
    BY <1>2
  <2> HIDE DEF below
  <2>4. /\ Cardinality(below(i)) <= Cardinality(below(j))
        /\ Cardinality(below(j)) = Cardinality(below(i)) => below(j) = below(i)
    BY <2>2, <2>3, FS_Subset
  <2>5. Cardinality(below(i)) \in Nat /\ Cardinality(below(j)) \in Nat
    BY <2>3, FS_CardinalityType
  <2>6. QED
    BY <2>2, <2>4, <2>5
<1> HIDE DEF below
<1>5. \A i, j \in I : Cardinality(below(i)) = Cardinality(below(j)) => i = j
  <2>1. SUFFICES ASSUME NEW i \in I, NEW j \in I, i # j
                 PROVE  Cardinality(below(i)) # Cardinality(below(j))
    OBVIOUS
  <2>2. i < j \/ j < i
    BY <2>1, <1>0
  <2>3. Cardinality(below(i)) \in Nat /\ Cardinality(below(j)) \in Nat
    BY <1>2, <1>1
  <2>4. QED
    BY <2>2, <2>3, <1>3
<1>6. \A k \in 1..c : \E i \in I : Cardinality(below(i)) = k
  <2>1. IsFiniteSet(1..c) /\ Cardinality(1..c) = c
    BY <1>1, FS_Interval
  <2>2. rank \in Injection(I, 1..c)
    BY <1>2, <1>5 DEF Injection, IsInjective
  <2>3. rank \in Surjection(I, 1..c)
    <3> HIDE DEF rank, c
    <3>1. Cardinality(I) = Cardinality(1..c)
      BY <2>1 DEF c
    <3>2. QED
      BY <2>1, <2>2, <3>1, FS_Injection
  <2>4. QED
    BY <2>3 DEF Surjection
<1>7. \A k \in 1..c : e[k] \in I /\ Cardinality(below(e[k])) = k
  BY <1>6
<1>8. \A i \in I : e[Cardinality(below(i))] = i
  <2> HIDE DEF e
  <2>1. QED
    BY <1>2, <1>5, <1>7
<1>9. Enumerates(e, I)
  <2>1. e \in [1..c -> I]
    BY <1>7
  <2>2. \A i \in I : \E k \in 1..c : e[k] = i
    BY <1>2, <1>8
  <2>3. \A j, k \in 1..c : j < k => e[j] < e[k]
    <3> HIDE DEF e, c
    <3>1. SUFFICES ASSUME NEW j \in 1..c, NEW k \in 1..c, j < k, ~(e[j] < e[k])
                   PROVE  FALSE
      OBVIOUS
    <3>2. e[j] \in I /\ e[k] \in I /\ Cardinality(below(e[j])) = j
            /\ Cardinality(below(e[k])) = k
      BY <1>7
    <3>3. e[j] \in Nat /\ e[k] \in Nat
      BY <3>2, <1>0
    <3>4. j \in Nat /\ k \in Nat
      BY <1>1
    <3>5. CASE e[k] = e[j]
      BY <3>1, <3>2, <3>4, <3>5
    <3>6. CASE e[k] < e[j]
      <4>1. k < j
        BY <3>2, <3>6, <1>3
      <4>2. QED
        BY <3>1, <3>4, <4>1
    <3>7. QED
      BY <3>1, <3>3, <3>5, <3>6
  <2>4. QED
    BY <1>1, <2>1, <2>2, <2>3 DEF Enumerates
<1>10. Pick(s, I) = [k \in 1..c |-> s[e[k]]]
  BY DEF Pick, below
<1>11. QED
  BY <1>8, <1>9, <1>10 DEF below

(* FlattenSeq(ss) has the elements of every sequence of ss side by side, and *)
(* no other.                                                                 *)
FlatOf(ss, f) ==
  f = [i \in 1..Len(ss) |-> IF i = 1 THEN ss[i] ELSE f[i - 1] \o ss[i]]

HoldsAt(F, t, o) ==
  /\ o \in Nat /\ o + Len(t) <= Len(F)
  /\ \A i \in 1..Len(t) : F[o + i] = t[i]

Holds(F, t) == \E o : HoldsAt(F, t, o)

LEMMA HoldsConcat ==
  ASSUME NEW R, NEW F \in Seq(R), NEW t \in Seq(R), NEW u \in Seq(R)
  PROVE  /\ \A o : HoldsAt(F, t, o) => HoldsAt(F \o u, t, o)
         /\ HoldsAt(F \o u, u, Len(F))
<1>1. /\ F \o u \in Seq(R) /\ Len(F \o u) = Len(F) + Len(u)
      /\ \A i \in 1..Len(F) : (F \o u)[i] = F[i]
      /\ \A i \in 1..Len(u) : (F \o u)[Len(F) + i] = u[i]
  OBVIOUS
<1>2. Len(F) \in Nat /\ Len(t) \in Nat /\ Len(u) \in Nat
  OBVIOUS
<1>3. ASSUME NEW o, HoldsAt(F, t, o) PROVE HoldsAt(F \o u, t, o)
  <2>1. /\ o \in Nat /\ o + Len(t) <= Len(F)
        /\ \A i \in 1..Len(t) : F[o + i] = t[i]
    BY <1>3 DEF HoldsAt
  <2>2. o + Len(t) <= Len(F \o u)
    BY <2>1, <1>1, <1>2
  <2>3. \A i \in 1..Len(t) : o + i \in 1..Len(F)
    BY <2>1, <1>2
  <2>4. \A i \in 1..Len(t) : (F \o u)[o + i] = t[i]
    BY <2>1, <2>3, <1>1
  <2>5. QED
    BY <2>1, <2>2, <2>4 DEF HoldsAt
<1>4. HoldsAt(F \o u, u, Len(F))
  BY <1>1, <1>2 DEF HoldsAt
<1>5. QED
  BY <1>3, <1>4

LEMMA FlattenExists ==
  ASSUME NEW R, NEW ss \in Seq(Seq(R))
  PROVE  \E f : FlatOf(ss, f)
<1> DEFINE n == Len(ss)
           Good(m, h) == \A i \in 1..m : h[i] = IF i = 1 THEN ss[i] ELSE h[i - 1] \o ss[i]
           P == {m \in Nat : m <= n => \E h \in [1..m -> Seq(R)] : Good(m, h)}
<1>1. n \in Nat /\ \A i \in 1..n : ss[i] \in Seq(R)
  OBVIOUS
<1>2. 0 \in P
  <2>1. [i \in 1..0 |-> <<>>] \in [1..0 -> Seq(R)] /\ Good(0, [i \in 1..0 |-> <<>>])
    OBVIOUS
  <2>2. QED
    BY <2>1
<1>3. ASSUME NEW m \in Nat, m \in P PROVE m + 1 \in P
  <2>1. SUFFICES ASSUME m + 1 <= n
                 PROVE  \E h \in [1..(m + 1) -> Seq(R)] : Good(m + 1, h)
    <3> HIDE DEF Good, n
    <3>1. QED
      BY <1>3
  <2>2. PICK h \in [1..m -> Seq(R)] : Good(m, h)
    <3> HIDE DEF Good, n
    <3>1. QED
      BY <1>3, <2>1, <1>1
  <2> DEFINE new == IF m + 1 = 1 THEN ss[m + 1] ELSE h[m] \o ss[m + 1]
             g == [i \in 1..(m + 1) |-> IF i = m + 1 THEN new ELSE h[i]]
  <2>3. new \in Seq(R)
    <3>1. ss[m + 1] \in Seq(R)
      BY <1>1, <2>1
    <3>2. m # 0 => h[m] \in Seq(R)
      BY <2>2
    <3>3. QED
      BY <3>1, <3>2
  <2>4. g \in [1..(m + 1) -> Seq(R)]
    <3> HIDE DEF new
    <3>1. \A i \in 1..(m + 1) : i # m + 1 => i \in 1..m
      OBVIOUS
    <3>2. QED
      BY <2>3, <3>1
  <2>5. Good(m + 1, g)
    <3>1. SUFFICES ASSUME NEW i \in 1..(m + 1)
                   PROVE  g[i] = IF i = 1 THEN ss[i] ELSE g[i - 1] \o ss[i]
      OBVIOUS
    <3>2. CASE i = m + 1
      BY <3>2
    <3>3. CASE i # m + 1
      <4>1. i \in 1..m /\ g[i] = h[i] /\ (i # 1 => i - 1 \in 1..m /\ g[i - 1] = h[i - 1])
        BY <3>3
      <4>2. QED
        BY <4>1, <2>2
    <3>4. QED
      BY <3>2, <3>3
  <2>6. QED
    BY <2>4, <2>5
<1>4. n \in P
  <2> HIDE DEF P
  <2>1. QED
    BY <1>1, <1>2, <1>3, Induction
<1>5. PICK h \in [1..n -> Seq(R)] : Good(n, h)
  BY <1>1, <1>4
<1>6. FlatOf(ss, h)
  BY <1>5 DEF FlatOf
<1>7. QED
  BY <1>6

LEMMA FlattenIs ==
  ASSUME NEW R, NEW ss \in Seq(Seq(R))
  PROVE  /\ FlattenSeq(ss) \in Seq(R)
         /\ \A k \in 1..Len(ss) : Holds(FlattenSeq(ss), ss[k])
         /\ \A j \in 1..Len(FlattenSeq(ss)) :
              \E k \in 1..Len(ss) : \E o :
                HoldsAt(FlattenSeq(ss), ss[k], o) /\ j - o \in 1..Len(ss[k])
<1> DEFINE n == Len(ss)
           f == CHOOSE h : FlatOf(ss, h)
           Within(F, m, j) == \E k \in 1..m : \E o :
                                HoldsAt(F, ss[k], o) /\ j - o \in 1..Len(ss[k])
           Fact(F, m) == /\ F \in Seq(R)
                         /\ \A k \in 1..m : Holds(F, ss[k])
                         /\ \A j \in 1..Len(F) : Within(F, m, j)
           P == {m \in Nat : m + 1 <= n => Fact(f[m + 1], m + 1)}
<1>1. n \in Nat /\ \A i \in 1..n : ss[i] \in Seq(R)
  OBVIOUS
<1>2. FlatOf(ss, f)
  BY FlattenExists
<1>3. n = 0 => FlattenSeq(ss) = <<>>
  BY DEF FlattenSeq
<1>4. n # 0 => FlattenSeq(ss) = f[n]
  BY <1>1 DEF FlattenSeq, FlatOf
<1> HIDE DEF f
<1>5. \A i \in 1..n : f[i] = IF i = 1 THEN ss[i] ELSE f[i - 1] \o ss[i]
  BY <1>2 DEF FlatOf
<1>6. 0 \in P
  <2>1. SUFFICES ASSUME 1 <= n PROVE Fact(f[1], 1)
    OBVIOUS
  <2>2. f[1] = ss[1] /\ ss[1] \in Seq(R)
    BY <2>1, <1>1, <1>5
  <2>3. HoldsAt(ss[1], ss[1], 0)
    <3>1. /\ 0 + Len(ss[1]) <= Len(ss[1])
          /\ \A i \in 1..Len(ss[1]) : ss[1][0 + i] = ss[1][i]
      BY <2>2
    <3>2. QED
      BY <3>1 DEF HoldsAt
  <2>4. \A j \in 1..Len(ss[1]) : Within(ss[1], 1, j)
    <3>1. SUFFICES ASSUME NEW j \in 1..Len(ss[1]) PROVE Within(ss[1], 1, j)
      OBVIOUS
    <3>2. j - 0 \in 1..Len(ss[1]) /\ 1 \in 1..1
      OBVIOUS
    <3>3. QED
      BY <3>2, <2>3
  <2>5. \A k \in 1..1 : k = 1
    OBVIOUS
  <2>6. Holds(ss[1], ss[1])
    BY <2>3 DEF Holds
  <2> HIDE DEF Within
  <2>7. QED
    BY <2>2, <2>4, <2>5, <2>6
<1>7. ASSUME NEW m \in Nat, m \in P PROVE m + 1 \in P
  <2> DEFINE l == m + 2
             F == f[m + 1]
             t == ss[l]
  <2>1. SUFFICES ASSUME l <= n PROVE Fact(f[l], l)
    BY <1>7
  <2>2. Fact(F, m + 1)
    <3>1. m + 1 <= n
      BY <1>1, <2>1
    <3> HIDE DEF Fact, n
    <3>2. QED
      BY <1>7, <3>1
  <2>3. l \in 1..n /\ l # 1 /\ l - 1 = m + 1
    BY <2>1, <1>1
  <2>4. f[l] = F \o t /\ t \in Seq(R)
    <3> HIDE DEF l, n
    <3>1. QED
      BY <2>3, <1>1, <1>5
  <2>5. F \in Seq(R) /\ F \o t \in Seq(R)
    <3>1. F \in Seq(R)
      <4> HIDE DEF F
      <4>1. QED
        BY <2>2
    <3> HIDE DEF F, t
    <3>2. QED
      BY <3>1, <2>4
  <2>6. \A k \in 1..l : k \in 1..(m + 1) \/ k = l
    OBVIOUS
  <2>7. \A k \in 1..(m + 1) : k \in 1..l /\ ss[k] \in Seq(R)
    BY <2>1, <1>1
  <2>8. l \in 1..l
    OBVIOUS
  <2>9. HoldsAt(F \o t, t, Len(F))
    <3> HIDE DEF F, t
    <3>1. QED
      BY <2>4, <2>5, HoldsConcat
  <2>10. \A k \in 1..(m + 1) : \A o : HoldsAt(F, ss[k], o) => HoldsAt(F \o t, ss[k], o)
    <3> HIDE DEF F, t
    <3>1. QED
      BY <2>4, <2>5, <2>7, HoldsConcat
  <2>11. \A k \in 1..l : Holds(F \o t, ss[k])
    <3>1. SUFFICES ASSUME NEW k \in 1..l PROVE Holds(F \o t, ss[k])
      OBVIOUS
    <3>2. CASE k = l
      BY <3>2, <2>9 DEF Holds
    <3>3. CASE k \in 1..(m + 1)
      <4>1. Holds(F, ss[k])
        <5> HIDE DEF F
        <5>1. QED
          BY <3>3, <2>2
      <4> HIDE DEF F, t
      <4>2. QED
        BY <3>3, <4>1, <2>10 DEF Holds
    <3>4. QED
      BY <2>6, <3>2, <3>3
  <2>12. \A j \in 1..Len(F \o t) : Within(F \o t, l, j)
    <3>1. SUFFICES ASSUME NEW j \in 1..Len(F \o t) PROVE Within(F \o t, l, j)
      OBVIOUS
    <3>2. /\ Len(F) \in Nat /\ Len(t) \in Nat
          /\ Len(F \o t) = Len(F) + Len(t)
      <4> HIDE DEF F, t
      <4>1. QED
        BY <2>4, <2>5
    <3>3. j \in 1..Len(F) \/ j - Len(F) \in 1..Len(t)
      <4> DEFINE p == Len(F)
                 q == Len(t)
                 r == Len(F \o t)
      <4>1. p \in Nat /\ q \in Nat /\ r = p + q /\ j \in 1..r
        BY <3>2
      <4> HIDE DEF p, q, r
      <4>2. j \in 1..p \/ j - p \in 1..q
        BY <4>1
      <4>3. QED
        BY <4>2 DEF p, q
    <3> HIDE DEF F, t
    <3>4. CASE j \in 1..Len(F)
      <4>1. PICK k \in 1..(m + 1) : \E o : HoldsAt(F, ss[k], o) /\ j - o \in 1..Len(ss[k])
        BY <3>4, <2>2
      <4>2. QED
        BY <4>1, <2>7, <2>10
    <3>5. CASE j - Len(F) \in 1..Len(t)
      BY <3>5, <2>8, <2>9 DEF t
    <3>6. QED
      BY <3>3, <3>4, <3>5
  <2>13. QED
    <3> HIDE DEF Within, F, t, l
    <3>1. QED
      BY <2>4, <2>5, <2>11, <2>12
<1>8. \A m \in Nat : m \in P
  <2> HIDE DEF P
  <2>1. QED
    BY <1>6, <1>7, Induction
<1>9. CASE n = 0
  BY <1>3, <1>9
<1>10. CASE n # 0
  <2>1. n - 1 \in Nat /\ n - 1 + 1 = n
    BY <1>1, <1>10
  <2>2. n - 1 \in P /\ n - 1 + 1 <= n
    <3> HIDE DEF P
    <3>1. QED
      BY <1>1, <1>8, <2>1
  <2>3. Fact(f[n - 1 + 1], n - 1 + 1)
    <3> HIDE DEF Fact, n
    <3>1. QED
      BY <2>2
  <2>4. Fact(f[n], n)
    <3> HIDE DEF Fact, n
    <3>1. QED
      BY <2>1, <2>3
  <2>5. QED
    BY <2>4, <1>4, <1>10
<1>11. QED
  BY <1>9, <1>10

(* The first entries of a dictionary: each key once, and none after a        *)
(* position that has the key.                                                *)
AreFirst(s, keys, c, e) ==
  /\ Firsts(s, keys) = [k \in 1..c |-> s[e[k]]]
  /\ \A j, k \in 1..c : j < k => e[j] < e[k]
  /\ \A j, k \in 1..c : keys[e[j]] = keys[e[k]] => j = k
  /\ \A i \in 1..Len(s) : \E k \in 1..c : e[k] <= i /\ keys[e[k]] = keys[i]

LEMMA FirstsAre ==
  ASSUME NEW R, NEW s \in Seq(R), NEW keys
  PROVE  \E c \in Nat : \E e \in [1..c -> 1..Len(s)] : AreFirst(s, keys, c, e)
<1> DEFINE n == Len(s)
           I == {i \in DOMAIN s : \A j \in 1..(i - 1) : keys[j] # keys[i]}
           c == Cardinality(I)
<1>1. n \in Nat /\ DOMAIN s = 1..n /\ I \subseteq 1..n
  OBVIOUS
<1>2. PICK e : Enumerates(e, I) /\ Pick(s, I) = [k \in 1..c |-> s[e[k]]]
  <2> HIDE DEF I, n
  <2>1. \E f : /\ Enumerates(f, I)
               /\ Pick(s, I) = [k \in 1..Cardinality(I) |-> s[f[k]]]
               /\ \A i \in I : f[Cardinality({j \in I : j <= i})] = i
    BY <1>1, PickEnumerates
  <2>2. QED
    BY <2>1
<1>3. /\ c \in Nat /\ e \in [1..c -> I]
      /\ \A i \in I : \E k \in 1..c : e[k] = i
      /\ \A j, k \in 1..c : j < k => e[j] < e[k]
  <2> HIDE DEF I
  <2>1. QED
    BY <1>2 DEF Enumerates
<1>4. Firsts(s, keys) = [k \in 1..c |-> s[e[k]]]
  BY <1>2 DEF Firsts
<1>5. \A i, j \in I : keys[i] = keys[j] => i = j
  <2>1. SUFFICES ASSUME NEW i \in I, NEW j \in I, i < j PROVE keys[i] # keys[j]
    BY <1>1
  <2>2. i \in 1..(j - 1)
    BY <2>1, <1>1
  <2>3. QED
    BY <2>2
<1>6. \A i \in 1..n : \E j \in I : j <= i /\ keys[j] = keys[i]
  <2>1. SUFFICES ASSUME NEW i \in 1..n PROVE \E j \in I : j <= i /\ keys[j] = keys[i]
    OBVIOUS
  <2> DEFINE T == {j \in 1..i : keys[j] = keys[i]}
  <2>2. T \subseteq Nat /\ i \in T
    BY <1>1
  <2>3. PICK j \in T : \A k \in T : j <= k
    <3> HIDE DEF T
    <3>1. QED
      BY <2>2, Least
  <2>4. j \in 1..n /\ j <= i /\ keys[j] = keys[i]
    BY <1>1
  <2>5. \A k \in 1..(j - 1) : keys[k] # keys[j]
    <3>1. SUFFICES ASSUME NEW k \in 1..(j - 1), keys[k] = keys[j] PROVE FALSE
      OBVIOUS
    <3>2. k \in 1..i /\ k < j
      BY <2>4, <1>1
    <3>3. k \in T
      BY <3>1, <3>2, <2>4
    <3>4. j <= k
      <4> HIDE DEF T
      <4>1. QED
        BY <2>3, <3>3
    <3>5. QED
      BY <3>2, <3>4, <2>4
  <2>6. QED
    BY <2>4, <2>5, <1>1
<1> HIDE DEF I, c, n
<1>7. e \in [1..c -> 1..n]
  BY <1>1, <1>3
<1>8. \A j, k \in 1..c : keys[e[j]] = keys[e[k]] => j = k
  <2>1. SUFFICES ASSUME NEW j \in 1..c, NEW k \in 1..c, keys[e[j]] = keys[e[k]]
                 PROVE  j = k
    OBVIOUS
  <2>2. e[j] = e[k] /\ e[j] \in Nat
    <3>1. e[j] \in I /\ e[k] \in I
      BY <1>3
    <3>2. e[j] = e[k]
      BY <2>1, <3>1, <1>5
    <3>3. \A i \in I : i \in Nat
      BY <1>1
    <3>4. QED
      BY <3>1, <3>2, <3>3
  <2>3. ~(j < k) /\ ~(k < j)
    BY <2>2, <1>3
  <2>4. QED
    BY <2>3, <1>3
<1>9. \A i \in 1..n : \E k \in 1..c : e[k] <= i /\ keys[e[k]] = keys[i]
  BY <1>3, <1>6
<1>10. QED
  BY <1>3, <1>4, <1>7, <1>8, <1>9 DEF n, AreFirst

(***************************************************************************)
(* Arguments.                                                                *)
(***************************************************************************)

LEMMA SequenceIs ==
  ASSUME NEW s, IsSequence(s)
  PROVE  /\ Len(s) \in Nat /\ DOMAIN s = 1..Len(s)
         /\ s \in Seq({s[k] : k \in DOMAIN s})
<1>1. Len(s) \in Nat /\ s = [k \in 1..Len(s) |-> s[k]]
  BY DEF IsSequence
<1>2. DOMAIN s = 1..Len(s)
  BY <1>1
<1> DEFINE R == {s[k] : k \in DOMAIN s}
<1>3. s \in [1..Len(s) -> R]
  BY <1>1, <1>2
<1>4. s \in Seq(R)
  BY <1>1, <1>3, SeqDef
<1>5. QED
  BY <1>1, <1>2, <1>4

LEMMA SequenceOf ==
  ASSUME NEW R, NEW s \in Seq(R)
  PROVE  IsSequence(s)
BY DEF IsSequence

LEMMA IntervalSize ==
  ASSUME NEW a \in Int, NEW b \in Int, a <= b + 1
  PROVE  Cardinality(a..b) = b - a + 1
<1>1. Cardinality(a..b) = IF a > b THEN 0 ELSE b - a + 1
  BY FS_Interval
<1>2. CASE a > b
  BY <1>1, <1>2
<1>3. CASE ~(a > b)
  BY <1>1, <1>3
<1>4. QED
  BY <1>2, <1>3

(* The event queue comes before the other arguments, and these keep their    *)
(* order: nothing changes if they were so already.                           *)
LEMMA ArgsStay ==
  ASSUME NEW args, IsSequence(args), QueuesFirst(args)
  PROVE  AddArgs(args) = args
<1> DEFINE n == Len(args)
           Q == {k \in DOMAIN args : args[k] = EvtQueue}
           O == DOMAIN args \ Q
           R == {args[k] : k \in DOMAIN args}
<1>1. n \in Nat /\ DOMAIN args = 1..n /\ args = [k \in 1..n |-> args[k]]
  BY SequenceIs DEF IsSequence
<1>2. \E m \in 0..n : Q = 1..m
  <2>1. CASE Q = {}
    <3>1. Q = 1..0 /\ 0 \in 0..n
      BY <1>1, <2>1
    <3>2. QED
      BY <3>1
  <2>2. CASE Q # {}
    <3> DEFINE T == {i \in Nat : \A k \in Q : k <= i}
    <3>1. n \in T /\ T \subseteq Nat
      BY <1>1
    <3>2. PICK m \in T : \A i \in T : m <= i
      <4> HIDE DEF T
      <4>1. QED
        BY <3>1, Least
    <3>3. m \in Nat /\ m <= n /\ \A k \in Q : k <= m
      BY <3>1, <3>2
    <3>4. m \in Q
      <4>1. SUFFICES ASSUME m \notin Q PROVE FALSE
        OBVIOUS
      <4>2. PICK q \in Q : q \in 1..n /\ q <= m
        BY <2>2, <1>1, <3>3
      <4>3. m - 1 \in Nat
        BY <3>3, <4>2
      <4>4. \A k \in Q : k <= m - 1
        BY <1>1, <3>3, <4>1
      <4>5. m <= m - 1
        BY <3>2, <4>3, <4>4
      <4>6. QED
        BY <3>3, <4>5
    <3>5. \A k \in 1..m : k \in Q
      BY <1>1, <3>3, <3>4 DEF QueuesFirst
    <3>6. Q = 1..m
      BY <1>1, <3>3, <3>5
    <3>7. QED
      BY <3>3, <3>6, <1>1
  <2>3. QED
    BY <2>1, <2>2
<1>3. PICK m \in 0..n : Q = 1..m
  BY <1>2
<1>4. O = (m + 1)..n
  BY <1>1, <1>3
<1> HIDE DEF Q, O, n
<1>5. \A i \in 0..m : Cardinality(1..i) = i
  <2>1. SUFFICES ASSUME NEW i \in 0..m PROVE Cardinality(1..i) = i
    OBVIOUS
  <2>2. i \in Int /\ 1 <= i + 1
    BY <1>1, <1>3
  <2>3. Cardinality(1..i) = i - 1 + 1
    BY <2>2, IntervalSize
  <2>4. QED
    BY <2>2, <2>3
<1>6. \A i \in m..n : Cardinality((m + 1)..i) = i - m
  <2>1. SUFFICES ASSUME NEW i \in m..n PROVE Cardinality((m + 1)..i) = i - m
    OBVIOUS
  <2>2. i \in Int /\ m + 1 \in Int /\ m + 1 <= i + 1
    BY <1>1, <1>3
  <2>3. Cardinality((m + 1)..i) = i - (m + 1) + 1
    BY <2>2, IntervalSize
  <2>4. QED
    BY <2>2, <2>3, <1>3
<1>7. Pick(args, 1..m) = [k \in 1..m |-> args[k]]
  <2>1. \A i \in 1..m : {j \in 1..m : j <= i} = 1..i
    BY <1>1, <1>3
  <2>2. \A i \in 1..m : Cardinality(1..i) = i
    BY <1>3, <1>5
  <2>3. \A k \in 1..m :
          (CHOOSE i \in 1..m : Cardinality({j \in 1..m : j <= i}) = k) = k
    BY <2>1, <2>2
  <2>4. Cardinality(1..m) = m
    BY <1>3, <1>5
  <2>5. Pick(args, 1..m) =
          [k \in 1..m |-> args[CHOOSE i \in 1..m :
                                 Cardinality({j \in 1..m : j <= i}) = k]]
    BY <2>4 DEF Pick
  <2>6. QED
    BY <2>3, <2>5
<1>8. Pick(args, (m + 1)..n) = [k \in 1..(n - m) |-> args[m + k]]
  <2>1. \A i \in (m + 1)..n : {j \in (m + 1)..n : j <= i} = (m + 1)..i
    BY <1>1, <1>3
  <2>2. \A i \in (m + 1)..n : Cardinality((m + 1)..i) = i - m
    <3>1. \A i \in (m + 1)..n : i \in m..n
      BY <1>3
    <3>2. QED
      BY <1>6, <3>1
  <2>3. \A k \in 1..(n - m) :
          (CHOOSE i \in (m + 1)..n :
             Cardinality({j \in (m + 1)..n : j <= i}) = k) = m + k
    <3>1. SUFFICES ASSUME NEW k \in 1..(n - m)
                   PROVE  (CHOOSE i \in (m + 1)..n :
                             Cardinality({j \in (m + 1)..n : j <= i}) = k) = m + k
      OBVIOUS
    <3>2. m + k \in (m + 1)..n /\ (m + k) - m = k
      BY <1>1, <1>3
    <3>3. Cardinality({j \in (m + 1)..n : j <= m + k}) = k
      BY <2>1, <2>2, <3>2
    <3>4. \A i \in (m + 1)..n :
            Cardinality({j \in (m + 1)..n : j <= i}) = k => i = m + k
      <4>1. SUFFICES ASSUME NEW i \in (m + 1)..n,
                            Cardinality({j \in (m + 1)..n : j <= i}) = k
                     PROVE  i = m + k
        OBVIOUS
      <4>2. i - m = k
        BY <2>1, <2>2, <4>1
      <4>3. QED
        BY <4>2, <1>3
    <3>5. QED
      BY <3>2, <3>3, <3>4
  <2>4. Cardinality((m + 1)..n) = n - m
    <3>1. n \in m..n
      BY <1>1, <1>3
    <3>2. QED
      BY <1>6, <3>1
  <2>5. Pick(args, (m + 1)..n) =
          [k \in 1..(n - m) |-> args[CHOOSE i \in (m + 1)..n :
                   Cardinality({j \in (m + 1)..n : j <= i}) = k]]
    BY <2>4 DEF Pick
  <2>6. QED
    BY <2>3, <2>5
<1>9. AddArgs(args) = [k \in 1..m |-> args[k]] \o [k \in 1..(n - m) |-> args[m + k]]
  BY <1>3, <1>4, <1>7, <1>8 DEF AddArgs, Q, O
<1> DEFINE a == [k \in 1..m |-> args[k]]
           b == [k \in 1..(n - m) |-> args[m + k]]
<1>10. a \in Seq(R) /\ b \in Seq(R) /\ Len(a) = m /\ Len(b) = n - m
  <2>1. m \in Nat /\ n - m \in Nat
    BY <1>1, <1>3
  <2>2. \A k \in 1..m : args[k] \in R
    BY <1>1, <1>3
  <2>3. \A k \in 1..(n - m) : args[m + k] \in R
    BY <1>1, <1>3
  <2> HIDE DEF R
  <2>4. a \in [1..m -> R] /\ b \in [1..(n - m) -> R]
    BY <2>2, <2>3
  <2>5. DOMAIN a = 1..m /\ DOMAIN b = 1..(n - m)
    OBVIOUS
  <2> HIDE DEF a, b
  <2>6. a \in Seq(R) /\ b \in Seq(R)
    BY <2>1, <2>4, SeqDef
  <2>7. QED
    BY <2>1, <2>5, <2>6, LenProperties
<1>11. a \o b = [k \in 1..n |-> args[k]]
  <2>1. a \o b \in Seq(R) /\ Len(a \o b) = n
    <3> HIDE DEF a, b, R
    <3>1. a \o b \in Seq(R) /\ Len(a \o b) = Len(a) + Len(b)
      BY <1>10
    <3>2. m + (n - m) = n
      BY <1>1, <1>3
    <3>3. QED
      BY <1>10, <3>1, <3>2
  <2>2. \A k \in 1..n : (a \o b)[k] = args[k]
    <3>1. SUFFICES ASSUME NEW k \in 1..n PROVE (a \o b)[k] = args[k]
      OBVIOUS
    <3>2. CASE k <= m
      <4>1. k \in 1..m /\ a[k] = args[k]
        BY <1>1, <1>3, <3>2
      <4> HIDE DEF a, b, R
      <4>2. QED
        BY <1>10, <4>1
    <3>3. CASE k > m
      <4>1. k - m \in 1..(n - m) /\ m + (k - m) = k
        BY <1>1, <1>3, <3>3
      <4>2. b[k - m] = args[k]
        BY <4>1
      <4>3. (a \o b)[m + (k - m)] = b[k - m]
        <5> HIDE DEF a, b, R
        <5>1. QED
          BY <1>10, <4>1
      <4>4. QED
        BY <4>1, <4>2, <4>3
    <3>4. QED
      BY <1>1, <1>3, <3>2, <3>3
  <2> HIDE DEF a, b, R
  <2>3. a \o b = [k \in 1..n |-> (a \o b)[k]]
    BY <2>1, LenProperties
  <2>4. QED
    BY <2>2, <2>3
<1>12. QED
  BY <1>1, <1>9, <1>11

LEMMA ArgsOrdered ==
  ASSUME NEW args, IsSequence(args)
  PROVE  IsSequence(AddArgs(args)) /\ QueuesFirst(AddArgs(args))
<1> DEFINE n == Len(args)
           Q == {k \in DOMAIN args : args[k] = EvtQueue}
           O == DOMAIN args \ Q
           R == {args[k] : k \in DOMAIN args}
           a == Pick(args, Q)
           b == Pick(args, O)
<1>1. n \in Nat /\ DOMAIN args = 1..n
  BY SequenceIs
<1>2. /\ Q \subseteq 1..n /\ O \subseteq 1..n
      /\ \A k \in Q : args[k] \in R /\ args[k] = EvtQueue
      /\ \A k \in O : args[k] \in R /\ args[k] # EvtQueue
  BY <1>1
<1> HIDE DEF Q, O, R, n
<1>3. /\ a \in Seq(R)
      /\ \A k \in 1..Len(a) : a[k] = EvtQueue
  <2>1. PICK e : Enumerates(e, Q) /\ a = [k \in 1..Cardinality(Q) |-> args[e[k]]]
    <3>1. \E e : /\ Enumerates(e, Q)
                 /\ Pick(args, Q) = [k \in 1..Cardinality(Q) |-> args[e[k]]]
                 /\ \A i \in Q : e[Cardinality({j \in Q : j <= i})] = i
      BY ZenonT(40), <1>1, <1>2, PickEnumerates
    <3>2. QED
      BY <3>1
  <2>2. Cardinality(Q) \in Nat /\ \A k \in 1..Cardinality(Q) : e[k] \in Q
    BY <2>1 DEF Enumerates
  <2> HIDE DEF a
  <2>3. a \in [1..Cardinality(Q) -> R]
    BY <2>1, <2>2, <1>2
  <2>4. a \in Seq(R) /\ Len(a) = Cardinality(Q)
    BY <2>2, <2>3
  <2>5. QED
    BY <2>1, <2>2, <2>4, <1>2
<1>4. /\ b \in Seq(R)
      /\ \A k \in 1..Len(b) : b[k] # EvtQueue
  <2>1. PICK e : Enumerates(e, O) /\ b = [k \in 1..Cardinality(O) |-> args[e[k]]]
    <3>1. \E e : /\ Enumerates(e, O)
                 /\ Pick(args, O) = [k \in 1..Cardinality(O) |-> args[e[k]]]
                 /\ \A i \in O : e[Cardinality({j \in O : j <= i})] = i
      BY ZenonT(40), <1>1, <1>2, PickEnumerates
    <3>2. QED
      BY <3>1
  <2>2. Cardinality(O) \in Nat /\ \A k \in 1..Cardinality(O) : e[k] \in O
    BY <2>1 DEF Enumerates
  <2> HIDE DEF b
  <2>3. b \in [1..Cardinality(O) -> R]
    BY <2>1, <2>2, <1>2
  <2>4. b \in Seq(R) /\ Len(b) = Cardinality(O)
    BY <2>2, <2>3
  <2>5. QED
    BY <2>1, <2>2, <2>4, <1>2
<1>5. AddArgs(args) = a \o b
  BY DEF AddArgs, Q, O
<1> HIDE DEF a, b
<1>6. /\ a \o b \in Seq(R) /\ Len(a) \in Nat /\ Len(b) \in Nat
      /\ Len(a \o b) = Len(a) + Len(b)
      /\ \A k \in 1..Len(a) : (a \o b)[k] = a[k]
      /\ \A k \in 1..Len(b) : (a \o b)[Len(a) + k] = b[k]
  BY <1>3, <1>4
<1>7. IsSequence(a \o b)
  BY <1>6, SequenceOf
<1>8. QueuesFirst(a \o b)
  <2> DEFINE c == a \o b
  <2>1. SUFFICES ASSUME NEW k \in 1..Len(c), c[k] = EvtQueue,
                        NEW j \in 1..k
                 PROVE  c[j] = EvtQueue
    <3>1. DOMAIN c = 1..Len(c)
      BY <1>6
    <3>2. QED
      BY <3>1 DEF QueuesFirst
  <2>2. k <= Len(a)
    <3>1. SUFFICES ASSUME k > Len(a) PROVE FALSE
      BY <1>6
    <3>2. k - Len(a) \in 1..Len(b) /\ Len(a) + (k - Len(a)) = k
      BY <1>6, <3>1
    <3>3. c[k] = b[k - Len(a)]
      BY <1>6, <3>2
    <3>4. QED
      BY <2>1, <3>2, <3>3, <1>4
  <2>3. j \in 1..Len(a)
    BY <1>6, <2>2
  <2>4. QED
    BY <1>3, <1>6, <2>3
<1>9. QED
  BY <1>5, <1>7, <1>8

(***************************************************************************)
(* Types.  The custom types of a file are those of a set U of types: each    *)
(* key once, every type that is not scalar under its key, and, before the    *)
(* entry of a Shared, that of the structure it refers to.                    *)
(***************************************************************************)
TypeTable(types, U) ==
  /\ IsSequence(types)
  /\ \A k \in DOMAIN types : \E t \in U :
       \/ t.class = "CStructType" /\ types[k] = StructEntry(t)
       \/ t.class = "SharedType" /\ t.of.class # "CType" /\ types[k] = StructEntry(t.of)
       \/ /\ t.class = "SharedType" /\ types[k] = SharedEntry(t)
          /\ t.of.class # "CType" => \E j \in 1..(k - 1) : types[j].key = ctype(t.of)
  /\ \A j, k \in DOMAIN types : types[j].key = types[k].key => j = k
  /\ \A t \in U : t.class # "CType" => \E k \in DOMAIN types : types[k].key = ctype(t)

IsStruct(c, name) ==
  \E b : c = [key |-> <<name>>, cname |-> name, bytes |-> <<b>>,
              internal |-> <<>>, shared |-> <<>>]

LEMMA BaseCtype ==
  ASSUME NEW t, BaseTypeMade(t)
  PROVE  /\ t.class \in {"CType", "CStructType"} /\ ctype(t) = <<t.name>>
         /\ t.class = "CType" => t.name \in DOMAIN Scalars
BY DEF BaseTypeMade, ctype, CType, CStructType

LEMMA SharedCtype ==
  ASSUME NEW t, TypeMade(t), t.class = "SharedType"
  PROVE  /\ BaseTypeMade(t.of) /\ t.shared \in BOOLEAN
         /\ ctype(t) = <<"Shared", t.of.name, IF t.shared THEN "true" ELSE "false">>
BY DEF TypeMade, ctype

LEMMA NotSharedIsBase ==
  ASSUME NEW t, TypeMade(t), t.class # "SharedType"
  PROVE  BaseTypeMade(t)
BY DEF TypeMade

LEMMA StructUnderName ==
  ASSUME NEW types, NEW U, \A t \in U : TypeMade(t), TypeTable(types, U),
         NEW k \in DOMAIN types, NEW name, types[k].key = <<name>>
  PROVE  IsStruct(types[k], name)
<1>1. PICK t \in U :
        \/ t.class = "CStructType" /\ types[k] = StructEntry(t)
        \/ t.class = "SharedType" /\ t.of.class # "CType" /\ types[k] = StructEntry(t.of)
        \/ t.class = "SharedType" /\ types[k] = SharedEntry(t)
  BY DEF TypeTable
<1>2. ASSUME NEW u, BaseTypeMade(u), types[k] = StructEntry(u)
      PROVE  IsStruct(types[k], name)
  <2>1. types[k].key = <<u.name>> /\ types[k].cname = u.name
          /\ types[k].bytes = <<u.bytes>>
    BY <1>2, BaseCtype DEF StructEntry
  <2>2. u.name = name
    BY <2>1
  <2>3. types[k] = [key |-> <<name>>, cname |-> name, bytes |-> <<u.bytes>>,
                    internal |-> <<>>, shared |-> <<>>]
    BY <1>2, <2>2, BaseCtype DEF StructEntry
  <2>4. QED
    BY <2>3 DEF IsStruct
<1>3. CASE t.class = "CStructType" /\ types[k] = StructEntry(t)
  <2>1. BaseTypeMade(t)
    BY <1>3, NotSharedIsBase
  <2>2. QED
    BY <1>2, <1>3, <2>1
<1>4. CASE t.class = "SharedType" /\ types[k] = StructEntry(t.of)
  <2>1. BaseTypeMade(t.of)
    BY <1>4, SharedCtype
  <2>2. QED
    BY <1>2, <1>4, <2>1
<1>5. CASE t.class = "SharedType" /\ types[k] = SharedEntry(t)
  <2>1. types[k].key = <<"Shared", t.of.name, IF t.shared THEN "true" ELSE "false">>
    BY <1>5, SharedCtype DEF SharedEntry
  <2>2. QED
    BY <2>1
<1>6. QED
  BY <1>1, <1>3, <1>4, <1>5

LEMMA SharedUnderName ==
  ASSUME NEW types, NEW U, \A t \in U : TypeMade(t), TypeTable(types, U),
         NEW k \in DOMAIN types, NEW u, TypeMade(u), u.class = "SharedType",
         types[k].key = ctype(u)
  PROVE  /\ types[k].cname = "Shared" /\ types[k].internal = <<<<u.of.name>>>>
         /\ types[k].shared = <<u.shared>>
<1>1. types[k].key = <<"Shared", u.of.name, IF u.shared THEN "true" ELSE "false">>
        /\ u.shared \in BOOLEAN
  BY SharedCtype
<1>2. PICK t \in U :
        \/ t.class = "CStructType" /\ types[k] = StructEntry(t)
        \/ t.class = "SharedType" /\ t.of.class # "CType" /\ types[k] = StructEntry(t.of)
        \/ t.class = "SharedType" /\ types[k] = SharedEntry(t)
  BY DEF TypeTable
<1>3. ASSUME NEW v, BaseTypeMade(v), types[k] = StructEntry(v)
      PROVE  FALSE
  <2>1. types[k].key = <<v.name>>
    BY <1>3, BaseCtype DEF StructEntry
  <2>2. QED
    BY <1>1, <2>1
<1>4. CASE t.class = "CStructType" /\ types[k] = StructEntry(t)
  BY <1>3, <1>4, NotSharedIsBase
<1>5. CASE t.class = "SharedType" /\ types[k] = StructEntry(t.of)
  BY <1>3, <1>5, SharedCtype
<1>6. CASE t.class = "SharedType" /\ types[k] = SharedEntry(t)
  <2>1. /\ types[k].key = <<"Shared", t.of.name, IF t.shared THEN "true" ELSE "false">>
        /\ BaseTypeMade(t.of) /\ t.shared \in BOOLEAN
    BY <1>6, SharedCtype DEF SharedEntry
  <2>2. t.of.name = u.of.name
    BY <1>1, <2>1
  <2>3. (IF t.shared THEN "true" ELSE "false") = (IF u.shared THEN "true" ELSE "false")
    BY <1>1, <2>1
  <2>4. t.shared = u.shared
    BY <1>1, <2>1, <2>3
  <2>5. /\ types[k].cname = "Shared" /\ types[k].internal = <<ctype(t.of)>>
        /\ types[k].shared = <<t.shared>>
    BY <1>6 DEF SharedEntry
  <2>6. ctype(t.of) = <<u.of.name>>
    BY <2>1, <2>2, BaseCtype
  <2>7. QED
    BY <2>4, <2>5, <2>6
<1>7. QED
  BY <1>2, <1>4, <1>5, <1>6

(* EntryOf() is the entry of the key, that no other has.                     *)
LEMMA EntryIs ==
  ASSUME NEW types, NEW U, TypeTable(types, U), NEW k \in DOMAIN types
  PROVE  EntryOf(types, types[k].key) = types[k]
BY DEF TypeTable, EntryOf

(* A type that the file names comes back as one with the same name.          *)
Known_Type(types, t) ==
  LET T == dataType(ctype(t), types)
  IN  /\ TypeMade(T) /\ PortableType(T) /\ ctype(T) = ctype(t)
      /\ t.class = "CType" => T = CType(t.name)
      /\ t.class = "CStructType" =>
           IF t.name \in DOMAIN Scalars THEN T = CType(t.name)
                                        ELSE \E b : T = CStructType(t.name, b)
      /\ t.class = "SharedType" =>
           \E b : T = SharedType(CStructType(t.of.name, b), t.shared)

LEMMA StructComesBack ==
  ASSUME NEW types, NEW U, \A t \in U : TypeMade(t), TypeTable(types, U),
         ~UnknownInternal(types), NEW k \in DOMAIN types, NEW name,
         types[k].key = <<name>>
  PROVE  /\ name # "Shared"
         /\ \E b : /\ EntryOf(types, <<name>>).cname = name
                   /\ EntryOf(types, <<name>>).bytes = <<b>>
<1>1. IsStruct(types[k], name)
  BY StructUnderName
<1>2. EntryOf(types, <<name>>) = types[k]
  BY EntryIs
<1>3. types[k].cname = name /\ types[k].internal = <<>> /\ \E b : types[k].bytes = <<b>>
  BY <1>1 DEF IsStruct
<1>4. name # "Shared"
  BY <1>3 DEF UnknownInternal, Has
<1>5. QED
  BY <1>2, <1>3, <1>4

LEMMA TypeComesBack ==
  ASSUME NEW types, NEW U, \A t \in U : TypeMade(t), TypeTable(types, U),
         ~UnknownInternal(types), NEW t \in U
  PROVE  Known_Type(types, t)
<1> DEFINE T == dataType(ctype(t), types)
<1>1. CASE t.class # "SharedType" /\ t.name \in DOMAIN Scalars
  <2>1. BaseTypeMade(t) /\ ctype(t) = <<t.name>> /\ t.class \in {"CType", "CStructType"}
    BY <1>1, NotSharedIsBase, BaseCtype
  <2>2. T = CType(t.name)
    BY <1>1, <2>1 DEF dataType
  <2> HIDE DEF T
  <2>3. T.class = "CType" /\ T.name = t.name
    BY <2>2 DEF CType
  <2>4. BaseTypeMade(T)
    BY <1>1, <2>2, <2>3 DEF BaseTypeMade
  <2>5. TypeMade(T) /\ PortableType(T)
    BY <2>3, <2>4 DEF TypeMade, PortableType
  <2>6. ctype(T) = <<t.name>>
    BY <2>3, <2>4, BaseCtype
  <2>7. QED
    BY <1>1, <2>1, <2>2, <2>5, <2>6 DEF Known_Type, T
<1>2. CASE t.class # "SharedType" /\ t.name \notin DOMAIN Scalars
  <2>1. BaseTypeMade(t) /\ ctype(t) = <<t.name>> /\ t.class = "CStructType"
    BY <1>2, NotSharedIsBase, BaseCtype
  <2>2. PICK k \in DOMAIN types : types[k].key = <<t.name>>
    BY <2>1 DEF TypeTable
  <2>3. /\ t.name # "Shared"
        /\ \E b : /\ EntryOf(types, <<t.name>>).cname = t.name
                  /\ EntryOf(types, <<t.name>>).bytes = <<b>>
    BY <2>2, StructComesBack
  <2>4. T = ImportedType(types, <<t.name>>)
    BY <1>2, <2>1 DEF dataType
  <2>5. PICK b : T = CStructType(t.name, b)
    BY <2>3, <2>4 DEF ImportedType
  <2> HIDE DEF T
  <2>6. T.class = "CStructType" /\ T.name = t.name /\ T.bytes = b
    BY <2>5 DEF CStructType
  <2>7. BaseTypeMade(T)
    BY <2>5, <2>6 DEF BaseTypeMade
  <2>8. TypeMade(T) /\ PortableType(T)
    BY <2>3, <2>6, <2>7 DEF TypeMade, PortableType
  <2>9. ctype(T) = <<t.name>>
    BY <2>6, <2>7, BaseCtype
  <2>10. QED
    BY <1>2, <2>1, <2>5, <2>8, <2>9 DEF Known_Type, T
<1>3. CASE t.class = "SharedType"
  <2> DEFINE name == t.of.name
  <2>1. TypeMade(t) /\ t.shared \in BOOLEAN
          /\ ctype(t) = <<"Shared", name, IF t.shared THEN "true" ELSE "false">>
    BY <1>3, SharedCtype
  <2>2. PICK k \in DOMAIN types : types[k].key = ctype(t)
    BY <1>3 DEF TypeTable
  <2>3. /\ types[k].cname = "Shared" /\ types[k].internal = <<<<name>>>>
        /\ types[k].shared = <<t.shared>>
    BY <1>3, <2>1, <2>2, SharedUnderName
  <2>4. PICK j \in 1..(k - 1) : types[j].key = <<name>>
    <3>1. types[k].internal[1] = <<name>>
      BY <2>3
    <3>2. QED
      BY <2>3, <3>1 DEF UnknownInternal
  <2>5. j \in DOMAIN types
    <3>1. Len(types) \in Nat /\ DOMAIN types = 1..Len(types)
      BY SequenceIs DEF TypeTable
    <3>2. QED
      BY <3>1
  <2>6. /\ name # "Shared"
        /\ \E b : /\ EntryOf(types, <<name>>).cname = name
                  /\ EntryOf(types, <<name>>).bytes = <<b>>
    BY <2>4, <2>5, StructComesBack
  <2>7. EntryOf(types, ctype(t)) = types[k]
    BY <2>2, EntryIs
  <2>8. Len(ctype(t)) # 1
    BY <2>1
  <2>9. T = ImportedType(types, ctype(t))
    BY <2>8 DEF dataType
  <2>10. PICK b : T = SharedType(CStructType(name, b), t.shared)
    BY <2>3, <2>6, <2>7, <2>9 DEF ImportedType
  <2> HIDE DEF T, name
  <2>11. T.class = "SharedType" /\ T.of = CStructType(name, b) /\ T.shared = t.shared
    BY <2>10 DEF SharedType
  <2>12. T.of.class = "CStructType" /\ T.of.name = name /\ T.of.bytes = b
    BY <2>11 DEF CStructType
  <2>13. BaseTypeMade(T.of)
    BY <2>11, <2>12 DEF BaseTypeMade
  <2>14. TypeMade(T) /\ PortableType(T)
    BY <2>1, <2>6, <2>10, <2>11, <2>12, <2>13 DEF TypeMade, PortableType
  <2>15. ctype(T) = ctype(t)
    BY <2>1, <2>11, <2>12 DEF ctype
  <2>16. QED
    BY <1>3, <2>10, <2>14, <2>15 DEF Known_Type, T, name
<1>4. QED
  BY <1>1, <1>2, <1>3

(* Types that a file can hold are known when they are needed.                *)
LEMMA TypesAreKnown ==
  ASSUME NEW types, NEW U, \A t \in U : TypeMade(t) /\ PortableType(t),
         TypeTable(types, U)
  PROVE  ~UnknownInternal(types)
<1>1. SUFFICES ASSUME NEW k \in DOMAIN types, types[k].cname = "Shared"
               PROVE  /\ Has(types[k].internal)
                      /\ \E j \in 1..(k - 1) : types[j].key = types[k].internal[1]
  BY DEF UnknownInternal
<1>2. PICK t \in U :
        \/ t.class = "CStructType" /\ types[k] = StructEntry(t)
        \/ t.class = "SharedType" /\ t.of.class # "CType" /\ types[k] = StructEntry(t.of)
        \/ /\ t.class = "SharedType" /\ types[k] = SharedEntry(t)
           /\ t.of.class # "CType" => \E j \in 1..(k - 1) : types[j].key = ctype(t.of)
  BY DEF TypeTable
<1>3. CASE t.class = "CStructType" /\ types[k] = StructEntry(t)
  BY <1>1, <1>3 DEF PortableType, StructEntry
<1>4. CASE t.class = "SharedType" /\ types[k] = StructEntry(t.of)
  BY <1>1, <1>4 DEF PortableType, StructEntry
<1>5. CASE /\ t.class = "SharedType" /\ types[k] = SharedEntry(t)
           /\ t.of.class # "CType" => \E j \in 1..(k - 1) : types[j].key = ctype(t.of)
  <2>1. t.of.class # "CType" /\ types[k].internal = <<ctype(t.of)>>
    BY <1>5 DEF PortableType, SharedEntry
  <2>2. QED
    BY <1>5, <2>1 DEF Has
<1>6. QED
  BY <1>2, <1>3, <1>4, <1>5

(* Types that may be connected may still be when they come back.             *)
LEMMA StillCompatible ==
  ASSUME NEW types, NEW s, NEW t, TypeMade(s), TypeMade(t),
         Known_Type(types, s), Known_Type(types, t), compatible(s, t),
         PortableType(s), PortableType(t)
  PROVE  compatible(dataType(ctype(s), types), dataType(ctype(t), types))
<1> DEFINE S == dataType(ctype(s), types)
           T == dataType(ctype(t), types)
<1>1. CASE s.class = "SharedType"
  <2>1. t.class = "SharedType" /\ SameType(s.of, t.of)
    BY <1>1 DEF compatible
  <2>2. s.of.class = "CStructType" /\ t.of.class = "CStructType"
    BY <1>1, <2>1, SharedCtype, BaseCtype DEF PortableType
  <2>3. s.of.name = t.of.name
    BY <2>1, <2>2 DEF SameType
  <2>4. PICK b, c : /\ S = SharedType(CStructType(s.of.name, b), s.shared)
                    /\ T = SharedType(CStructType(t.of.name, c), t.shared)
    BY <1>1, <2>1 DEF Known_Type
  <2> HIDE DEF S, T
  <2>5. /\ S.class = "SharedType" /\ T.class = "SharedType"
        /\ S.of.class = "CStructType" /\ T.of.class = "CStructType"
        /\ S.of.name = T.of.name
    BY <2>3, <2>4 DEF SharedType, CStructType
  <2>6. compatible(S, T)
    BY <2>5 DEF compatible, SameType
  <2>7. QED
    BY <2>6 DEF S, T
<1>2. CASE s.class # "SharedType"
  <2>1. t.class # "SharedType" /\ SameType(s, t)
    BY <1>2 DEF compatible
  <2>2. s.class \in {"CType", "CStructType"} /\ t.class = s.class
    BY <1>2, <2>1, NotSharedIsBase, BaseCtype DEF SameType
  <2>3. CASE s.class = "CType"
    <3>1. Scalars[s.name] = Scalars[t.name] /\ t.class = "CType"
      BY <2>1, <2>2, <2>3 DEF SameType
    <3>2. S = CType(s.name) /\ T = CType(t.name)
      BY <2>3, <3>1 DEF Known_Type
    <3>3. QED
      BY <3>1, <3>2 DEF compatible, SameType, CType
  <2>4. CASE s.class = "CStructType" /\ s.name \in DOMAIN Scalars
    <3>1. s.name = t.name /\ t.class = "CStructType"
      BY <2>1, <2>2, <2>4 DEF SameType
    <3>2. S = CType(s.name) /\ T = CType(t.name)
      BY <2>4, <3>1 DEF Known_Type
    <3>3. QED
      BY <3>1, <3>2 DEF compatible, SameType, CType
  <2>5. CASE s.class = "CStructType" /\ s.name \notin DOMAIN Scalars
    <3>1. s.name = t.name /\ t.class = "CStructType"
      BY <2>1, <2>2, <2>5 DEF SameType
    <3>2. PICK b, c : S = CStructType(s.name, b) /\ T = CStructType(t.name, c)
      BY <2>5, <3>1 DEF Known_Type
    <3>3. QED
      BY <3>1, <3>2 DEF compatible, SameType, CStructType
  <2>6. QED
    BY <2>2, <2>3, <2>4, <2>5
<1>3. QED
  BY <1>1, <1>2

(***************************************************************************)
(* IOs.                                                                      *)
(***************************************************************************)
IOBack(io, types) ==
  IO(io.name, dataType(ctype(io.type), types), io.samples, io.constraint)
IOsBack(ios, types) == [k \in DOMAIN ios |-> IOBack(ios[k], types)]

Named(ios) ==
  \A k \in DOMAIN ios : ios[k].constraint # <<>> => ios[k].constraint[1].name # None

IOsKnown(ios, types) == \A k \in DOMAIN ios : Known_Type(types, ios[k].type)

Side(ios, alike) == IF alike THEN CreateListOfIOs(ios) ELSE CreateIOs(ios)

LEMMA SomeIsFirst ==
  ASSUME NEW s, IsSequence(s), s # <<>>
  PROVE  1 \in DOMAIN s
<1>1. s \in Seq({s[k] : k \in DOMAIN s}) /\ DOMAIN s = 1..Len(s) /\ Len(s) \in Nat
  BY SequenceIs
<1>2. Len(s) # 0
  BY <1>1
<1>3. QED
  BY <1>1, <1>2

LEMMA ConstraintBack ==
  ASSUME NEW constraint, ConstraintMade(constraint),
         constraint # <<>> => constraint[1].name # None
  PROVE  AddBufferConstraint(BufferConstraint(constraint)) = constraint
<1>1. CASE constraint = <<>>
  BY <1>1 DEF BufferConstraint, AddBufferConstraint, Only, Has
<1>2. CASE constraint # <<>>
  <2> DEFINE c == constraint[1]
             y == MkBufferConstraint(c)
  <2>1. constraint = <<[name |-> c.name, mustBeArray |-> c.mustBeArray,
                        assignedByNode |-> c.assignedByNode,
                        canBeShared |-> c.canBeShared]>>
    BY <1>2 DEF ConstraintMade, setBufferConstraint
  <2>2. /\ y.name = <<c.name>> /\ y.must_be_array = c.mustBeArray
        /\ y.assigned_by_node = c.assignedByNode /\ y.can_be_shared = c.canBeShared
    BY <1>2 DEF MkBufferConstraint, Only
  <2>3. BufferConstraint(constraint) = <<y>>
    BY <1>2 DEF BufferConstraint, Only
  <2> HIDE DEF y, c
  <2>4. AddBufferConstraint(<<y>>) =
          <<[name |-> c.name, mustBeArray |-> c.mustBeArray,
             assignedByNode |-> c.assignedByNode, canBeShared |-> c.canBeShared]>>
    BY <2>2 DEF AddBufferConstraint, Has, setBufferConstraint
  <2>5. QED
    BY <2>1, <2>3, <2>4
<1>3. QED
  BY <1>1, <1>2

(* A side of a node in the file, as it comes back.                           *)
LEMMA SideIs ==
  ASSUME NEW ios, NEW alike \in BOOLEAN, IOsMade(ios, alike), ios # <<>>, NEW types
  PROVE  LET y == Side(ios, alike)
         IN  /\ IsList(y) = alike
             /\ NamelessConstraint(y) = ~Named(ios)
             /\ Named(ios) => ProcessIOs(y, types) = IOsBack(ios, types)
             /\ y.ports[1].type = IF alike THEN <<>> ELSE <<ctype(ios[1].type)>>
             /\ y.ports[1].samples = IF alike THEN <<>> ELSE <<ios[1].samples>>
<1> DEFINE y == Side(ios, alike)
<1>1. 1 \in DOMAIN ios
  BY SomeIsFirst DEF IOsMade
<1>2. DOMAIN y.ports = DOMAIN ios
  BY DEF Side, CreateListOfIOs, CreateIOs
<1>3. IsList(y) = alike
  BY DEF Side, CreateListOfIOs, CreateIOs, IsList, Has
<1>4. ASSUME NEW k \in DOMAIN ios
      PROVE  /\ y.ports[k].name = ios[k].name
             /\ y.ports[k].buffer_constraint = BufferConstraint(ios[k].constraint)
             /\ y.ports[k].type = IF alike THEN <<>> ELSE <<ctype(ios[k].type)>>
             /\ y.ports[k].samples = IF alike THEN <<>> ELSE <<ios[k].samples>>
  BY <1>4 DEF Side, CreateListOfIOs, CreateIOs, CreateIO
<1>5. alike => y.type = <<ctype(ios[1].type)>> /\ y.samples = <<ios[1].samples>>
  BY DEF Side, CreateListOfIOs
<1> HIDE DEF y
<1>6. NamelessConstraint(y) = ~Named(ios)
  <2>1. ASSUME NEW k \in DOMAIN ios
        PROVE  (Has(y.ports[k].buffer_constraint)
                  /\ ~Has(y.ports[k].buffer_constraint[1].name))
                 <=> (ios[k].constraint # <<>> /\ ios[k].constraint[1].name = None)
    <3>1. CASE ios[k].constraint = <<>>
      BY <1>4, <3>1 DEF BufferConstraint, Only, Has
    <3>2. CASE ios[k].constraint # <<>>
      <4>1. y.ports[k].buffer_constraint = <<MkBufferConstraint(ios[k].constraint[1])>>
        BY <1>4, <3>2 DEF BufferConstraint, Only
      <4>2. MkBufferConstraint(ios[k].constraint[1]).name =
              Only(ios[k].constraint[1].name # None, ios[k].constraint[1].name)
        BY DEF MkBufferConstraint
      <4>3. y.ports[k].buffer_constraint[1].name =
              Only(ios[k].constraint[1].name # None, ios[k].constraint[1].name)
        BY <4>1, <4>2
      <4>4. Has(y.ports[k].buffer_constraint)
        BY <4>1 DEF Has
      <4>5. Has(y.ports[k].buffer_constraint[1].name) <=> ios[k].constraint[1].name # None
        BY <4>3 DEF Only, Has
      <4>6. QED
        BY <3>2, <4>4, <4>5
    <3>3. QED
      BY <3>1, <3>2
  <2>2. QED
    BY <1>2, <2>1 DEF NamelessConstraint, Named
<1>7. ASSUME Named(ios) PROVE ProcessIOs(y, types) = IOsBack(ios, types)
  <2> DEFINE image(k) ==
        IO(y.ports[k].name,
           dataType((IF IsList(y) THEN y.type ELSE y.ports[k].type)[1], types),
           (IF IsList(y) THEN y.samples ELSE y.ports[k].samples)[1],
           AddBufferConstraint(y.ports[k].buffer_constraint))
  <2>1. ProcessIOs(y, types) = [k \in DOMAIN ios |-> image(k)]
    BY <1>2 DEF ProcessIOs
  <2>2. ASSUME NEW k \in DOMAIN ios PROVE image(k) = IOBack(ios[k], types)
    <3>1. AddBufferConstraint(y.ports[k].buffer_constraint) = ios[k].constraint
      <4>1. /\ ConstraintMade(ios[k].constraint)
            /\ ios[k].constraint # <<>> => ios[k].constraint[1].name # None
        BY <1>7 DEF Named, IOsMade, IOMade
      <4>2. AddBufferConstraint(BufferConstraint(ios[k].constraint)) = ios[k].constraint
        BY <4>1, ConstraintBack
      <4>3. QED
        BY <1>4, <4>2
    <3>2. (IF IsList(y) THEN y.type ELSE y.ports[k].type)[1] = ctype(ios[k].type)
      <4>1. CASE alike
        <5>1. ios[k].type = ios[1].type
          BY <4>1 DEF IOsMade
        <5>2. QED
          BY <1>3, <1>5, <4>1, <5>1
      <4>2. CASE ~alike
        BY <1>3, <1>4, <4>2
      <4>3. QED
        BY <4>1, <4>2
    <3>3. (IF IsList(y) THEN y.samples ELSE y.ports[k].samples)[1] = ios[k].samples
      <4>1. CASE alike
        <5>1. ios[k].samples = ios[1].samples
          BY <4>1 DEF IOsMade
        <5>2. QED
          BY <1>3, <1>5, <4>1, <5>1
      <4>2. CASE ~alike
        BY <1>3, <1>4, <4>2
      <4>3. QED
        BY <4>1, <4>2
    <3>4. QED
      BY <1>4, <3>1, <3>2, <3>3 DEF IOBack
  <2> HIDE DEF image
  <2>3. QED
    BY <2>1, <2>2 DEF IOsBack
<1>8. QED
  BY <1>1, <1>3, <1>4, <1>6, <1>7 DEF y

LEMMA IOBackIs ==
  ASSUME NEW io, NEW types
  PROVE  LET b == IOBack(io, types)
         IN  /\ b.name = io.name /\ b.samples = io.samples
             /\ b.constraint = io.constraint
             /\ b.type = dataType(ctype(io.type), types)
             /\ b = IO(b.name, b.type, b.samples, b.constraint)
BY DEF IOBack, IO

LEMMA IOsBackAre ==
  ASSUME NEW ios, NEW alike \in BOOLEAN, IOsMade(ios, alike), NEW types,
         IOsKnown(ios, types)
  PROVE  /\ IOsMade(IOsBack(ios, types), alike)
         /\ DOMAIN IOsBack(ios, types) = DOMAIN ios
         /\ IOsBack(ios, types) = <<>> <=> ios = <<>>
         /\ \A k \in DOMAIN ios : PortableType(IOsBack(ios, types)[k].type)
         /\ Named(ios) => Named(IOsBack(ios, types))
<1> DEFINE b == IOsBack(ios, types)
<1>1. /\ Len(ios) \in Nat /\ DOMAIN ios = 1..Len(ios)
      /\ ios \in Seq({ios[k] : k \in DOMAIN ios})
  BY SequenceIs DEF IOsMade
<1>2. DOMAIN b = DOMAIN ios /\ \A k \in DOMAIN ios : b[k] = IOBack(ios[k], types)
  BY DEF IOsBack
<1>3. b \in Seq({b[k] : k \in DOMAIN ios}) /\ Len(b) = Len(ios)
  <2> DEFINE R == {b[k] : k \in DOMAIN ios}
  <2>1. b \in [1..Len(ios) -> R]
    BY <1>1 DEF IOsBack
  <2>2. b \in Seq(R)
    <3> HIDE DEF b, R
    <3>1. QED
      BY <1>1, <2>1, SeqDef
  <2>3. QED
    BY <1>1, <1>2, <2>2, LenProperties
<1> HIDE DEF b
<1>4. IsSequence(b)
  BY <1>3, SequenceOf
<1>5. b = <<>> <=> ios = <<>>
  <2>1. ios = <<>> <=> Len(ios) = 0
    BY <1>1
  <2>2. b = <<>> <=> Len(b) = 0
    BY <1>3
  <2>3. QED
    BY <1>3, <2>1, <2>2
<1>6. ASSUME NEW k \in DOMAIN ios
      PROVE  IOMade(b[k]) /\ PortableType(b[k].type)
  <2>1. /\ b[k].type = dataType(ctype(ios[k].type), types)
        /\ b[k].constraint = ios[k].constraint
        /\ b[k] = IO(b[k].name, b[k].type, b[k].samples, b[k].constraint)
    BY <1>2, IOBackIs
  <2>2. TypeMade(b[k].type) /\ PortableType(b[k].type)
    BY <2>1 DEF IOsKnown, Known_Type
  <2>3. ConstraintMade(b[k].constraint)
    BY <2>1 DEF IOsMade, IOMade
  <2>4. QED
    BY <2>1, <2>2, <2>3 DEF IOMade
<1>7. ASSUME NEW k \in DOMAIN ios
      PROVE  /\ alike => b[k].type = b[1].type /\ b[k].samples = b[1].samples
             /\ \A j \in DOMAIN ios : b[j].name = b[k].name => j = k
  <2>1. 1 \in DOMAIN ios
    BY <1>1
  <2>2. QED
    BY <1>2, <2>1, IOBackIs DEF IOsMade
<1>8. IOsMade(b, alike)
  BY <1>2, <1>4, <1>6, <1>7 DEF IOsMade
<1>9. Named(ios) => Named(b)
  BY <1>2, IOBackIs DEF Named
<1>10. QED
  BY <1>2, <1>5, <1>6, <1>8, <1>9 DEF b

(***************************************************************************)
(* Nodes.                                                                    *)
(***************************************************************************)
Functions_ == {"Unary", "Binary", "GenericFunction"}

LEMMA ToSetOfBoth ==
  ASSUME NEW s, NEW t, IsSequence(s), IsSequence(t)
  PROVE  ToSet(s \o t) = {s[k] : k \in DOMAIN s} \cup {t[k] : k \in DOMAIN t}
<1> DEFINE R == {s[k] : k \in DOMAIN s} \cup {t[k] : k \in DOMAIN t}
<1>1. /\ Len(s) \in Nat /\ DOMAIN s = 1..Len(s)
      /\ Len(t) \in Nat /\ DOMAIN t = 1..Len(t)
      /\ s \in Seq({s[k] : k \in DOMAIN s}) /\ t \in Seq({t[k] : k \in DOMAIN t})
  BY SequenceIs
<1>2. s \in Seq(R) /\ t \in Seq(R)
  <2>1. ASSUME NEW A, NEW B, NEW u \in Seq(A), A \subseteq B PROVE u \in Seq(B)
    BY <2>1
  <2>2. QED
    BY <1>1, <2>1
<1>3. /\ s \o t \in Seq(R) /\ Len(s \o t) = Len(s) + Len(t)
      /\ \A k \in 1..Len(s) : (s \o t)[k] = s[k]
      /\ \A k \in 1..Len(t) : (s \o t)[Len(s) + k] = t[k]
  <2> HIDE DEF R
  <2>1. QED
    BY <1>2
<1>4. DOMAIN (s \o t) = 1..(Len(s) + Len(t))
  <2> HIDE DEF R
  <2>1. QED
    BY <1>3, LenProperties
<1>5. ASSUME NEW x \in R PROVE \E k \in DOMAIN (s \o t) : (s \o t)[k] = x
  <2>1. CASE \E k \in DOMAIN s : x = s[k]
    <3>1. PICK k \in 1..Len(s) : x = s[k]
      BY <1>1, <2>1
    <3>2. k \in 1..(Len(s) + Len(t))
      BY <1>1
    <3>3. QED
      BY <1>3, <1>4, <3>1, <3>2
  <2>2. CASE \E k \in DOMAIN t : x = t[k]
    <3>1. PICK k \in 1..Len(t) : x = t[k]
      BY <1>1, <2>2
    <3>2. Len(s) + k \in 1..(Len(s) + Len(t))
      BY <1>1
    <3>3. QED
      BY <1>3, <1>4, <3>1, <3>2
  <2>3. QED
    BY <2>1, <2>2
<1>6. \A k \in DOMAIN (s \o t) : (s \o t)[k] \in R
  <2> HIDE DEF R
  <2>1. QED
    BY <1>1, <1>3, <1>4
<1>7. QED
  BY <1>5, <1>6 DEF ToSet

(* A node as a record of its fields.                                         *)
NotIdentified == FALSE

NodeOf(class, kind, id, identified, ins, outs, args, argsDesc) ==
  [class |-> class, kind |-> kind, id |-> id, identified |-> identified,
   ins |-> ins, outs |-> outs, args |-> args, argsDesc |-> argsDesc]

LEMMA NodeOfIs ==
  ASSUME NEW m, NEW c, NEW k, NEW i, NEW d, NEW ins, NEW outs, NEW a, NEW ad,
         m = NodeOf(c, k, i, d, ins, outs, a, ad)
  PROVE  /\ m.class = c /\ m.kind = k /\ m.id = i /\ m.identified = d
         /\ m.ins = ins /\ m.outs = outs /\ m.args = a /\ m.argsDesc = ad
BY DEF NodeOf

LEMMA NodeWithId ==
  ASSUME NEW n, NEW m, NEW c, NEW k, NEW i, NEW d, NEW ins, NEW outs, NEW a, NEW ad,
         m = NodeOf(c, k, i, d, ins, outs, a, ad), n = [m EXCEPT !.id = n.id]
  PROVE  n = NodeOf(c, k, n.id, d, ins, outs, a, ad)
BY DEF NodeOf

LEMMA NodeExcept ==
  ASSUME NEW n, NEW m, NEW c, NEW k, NEW i, NEW d, NEW ins, NEW outs, NEW a, NEW ad,
         m = NodeOf(c, k, i, d, ins, outs, a, ad),
         n = NodeOf(c, k, n.id, d, ins, outs, a, ad)
  PROVE  n = [m EXCEPT !.id = n.id]
BY DEF NodeOf

LEMMA MadeFromIs ==
  ASSUME NEW n
  PROVE  /\ n.class = "Unary" =>
              MadeFrom(n) = NodeOf("Unary", n.kind, <<n.kind, 0>>, NotIdentified,
                <<IO("i", n.ins[1].type, n.ins[1].samples, <<>>)>>,
                <<IO("o", n.ins[1].type, n.ins[1].samples, <<>>)>>, n.args, <<>>)
         /\ n.class = "Binary" =>
              MadeFrom(n) = NodeOf("Binary", n.kind, <<n.kind, 0>>, NotIdentified,
                [k \in 1..2 |-> IO(<<n.ins[1].name, n.ins[2].name>>[k],
                                   n.ins[1].type, n.ins[1].samples, <<>>)],
                <<IO("o", n.ins[1].type, n.ins[1].samples, <<>>)>>, n.args, <<>>)
         /\ n.class = "GenericFunction" =>
              MadeFrom(n) = NodeOf("GenericFunction", n.kind, <<n.kind, 0>>, NotIdentified,
                                   n.ins, n.outs, n.args, n.argsDesc)
         /\ n.class \notin Functions_ =>
              MadeFrom(n) = NodeOf(n.class, n.kind, <<"", 0>>, n.identified,
                                   n.ins, n.outs, n.args, <<>>)
<1>1. CASE n.class = "Unary"
  <2>1. MadeFrom(n) = Unary(n.kind, n.ins[1].type, n.ins[1].samples, n.args)
    BY <1>1 DEF MadeFrom
  <2>2. QED
    BY <1>1, <2>1 DEF Unary, GenericFunction, NodeOf, NotIdentified, Functions_
<1>2. CASE n.class = "Binary"
  <2>1. MadeFrom(n) = Binary(n.kind, n.ins[1].type, n.ins[1].samples,
                             <<n.ins[1].name, n.ins[2].name>>, n.args)
    BY <1>2 DEF MadeFrom
  <2>2. QED
    BY <1>2, <2>1 DEF Binary, GenericFunction, NodeOf, NotIdentified, Functions_
<1>3. CASE n.class = "GenericFunction"
  <2>1. MadeFrom(n) = GenericFunction(n.class, n.kind, n.argsDesc, n.ins, n.outs, n.args)
    BY <1>3 DEF MadeFrom
  <2>2. QED
    BY <1>3, <2>1 DEF GenericFunction, NodeOf, NotIdentified, Functions_
<1>4. CASE n.class \notin Functions_
  <2>1. MadeFrom(n) = Node(n.class, n.kind, "", n.identified, n.ins, n.outs, n.args)
    BY <1>4 DEF MadeFrom, Functions_
  <2>2. QED
    BY <1>4, <2>1 DEF Node, NodeOf, Functions_
<1>5. QED
  BY <1>1, <1>2, <1>3, <1>4 DEF Functions_

(* What the fields of a node are, according to its class.                    *)
Shape(n) ==
  /\ n.class \in Classes
  /\ n = NodeOf(n.class, n.kind, n.id, n.identified, n.ins, n.outs, n.args, n.argsDesc)
  /\ n.class = "Unary" =>
       /\ n.identified = NotIdentified /\ n.argsDesc = <<>>
       /\ n.ins  = <<IO("i", n.ins[1].type, n.ins[1].samples, <<>>)>>
       /\ n.outs = <<IO("o", n.ins[1].type, n.ins[1].samples, <<>>)>>
  /\ n.class = "Binary" =>
       /\ n.identified = NotIdentified /\ n.argsDesc = <<>>
       /\ n.ins  = [k \in 1..2 |-> IO(<<n.ins[1].name, n.ins[2].name>>[k],
                                     n.ins[1].type, n.ins[1].samples, <<>>)]
       /\ n.outs = <<IO("o", n.ins[1].type, n.ins[1].samples, <<>>)>>
  /\ n.class = "GenericFunction" => n.identified = NotIdentified
  /\ n.class \notin Functions_ => n.argsDesc = <<>>

LEMMA NodeIs ==
  ASSUME NEW n, NodeMade(n)
  PROVE  Shape(n)
<1>1. n = [MadeFrom(n) EXCEPT !.id = n.id] /\ n.class \in Classes
  BY DEF NodeMade
<1>2. CASE n.class = "Unary"
  <2> DEFINE ins == <<IO("i", n.ins[1].type, n.ins[1].samples, <<>>)>>
             outs == <<IO("o", n.ins[1].type, n.ins[1].samples, <<>>)>>
  <2>1. MadeFrom(n) = NodeOf("Unary", n.kind, <<n.kind, 0>>, NotIdentified, ins, outs, n.args, <<>>)
    BY <1>2, MadeFromIs
  <2> HIDE DEF ins, outs
  <2>2. n = NodeOf("Unary", n.kind, n.id, NotIdentified, ins, outs, n.args, <<>>)
    BY <1>1, <2>1, NodeWithId
  <2>3. QED
    BY <1>1, <1>2, <2>2, NodeOfIs DEF Shape, Functions_, ins, outs
<1>3. CASE n.class = "Binary"
  <2> DEFINE ins == [k \in 1..2 |-> IO(<<n.ins[1].name, n.ins[2].name>>[k],
                                      n.ins[1].type, n.ins[1].samples, <<>>)]
             outs == <<IO("o", n.ins[1].type, n.ins[1].samples, <<>>)>>
  <2>1. MadeFrom(n) = NodeOf("Binary", n.kind, <<n.kind, 0>>, NotIdentified, ins, outs, n.args, <<>>)
    BY <1>3, MadeFromIs
  <2> HIDE DEF ins, outs
  <2>2. n = NodeOf("Binary", n.kind, n.id, NotIdentified, ins, outs, n.args, <<>>)
    BY <1>1, <2>1, NodeWithId
  <2>3. QED
    BY <1>1, <1>3, <2>2, NodeOfIs DEF Shape, Functions_, ins, outs
<1>4. CASE n.class = "GenericFunction"
  <2> DEFINE ins == n.ins
             outs == n.outs
  <2>1. MadeFrom(n) = NodeOf("GenericFunction", n.kind, <<n.kind, 0>>, NotIdentified, ins, outs,
                           n.args, n.argsDesc)
    BY <1>4, MadeFromIs
  <2> HIDE DEF ins, outs
  <2>2. n = NodeOf("GenericFunction", n.kind, n.id, NotIdentified, ins, outs, n.args, n.argsDesc)
    BY <1>1, <2>1, NodeWithId
  <2>3. QED
    BY <1>1, <1>4, <2>2, NodeOfIs DEF Shape, Functions_, ins, outs
<1>5. CASE n.class \notin Functions_
  <2> DEFINE number == <<"", 0>>
  <2>1. MadeFrom(n) = NodeOf(n.class, n.kind, number, n.identified, n.ins, n.outs,
                             n.args, <<>>)
    BY <1>5, MadeFromIs
  <2> HIDE DEF number
  <2>2. n = NodeOf(n.class, n.kind, n.id, n.identified, n.ins, n.outs, n.args, <<>>)
    BY <1>1, <2>1, NodeWithId
  <2>3. n.argsDesc = <<>>
    BY <2>2, NodeOfIs
  <2>4. QED
    BY <1>1, <1>5, <2>2, <2>3 DEF Shape, Functions_
<1>6. QED
  BY <1>2, <1>3, <1>4, <1>5 DEF Shape, Functions_

(* A node of that shape is one that a constructor makes.                     *)
LEMMA ShapeIs ==
  ASSUME NEW n, Shape(n)
  PROVE  n = [MadeFrom(n) EXCEPT !.id = n.id]
<1>1. n = NodeOf(n.class, n.kind, n.id, n.identified, n.ins, n.outs, n.args, n.argsDesc)
  BY DEF Shape
<1>2. CASE n.class = "Unary"
  <2> DEFINE ins == <<IO("i", n.ins[1].type, n.ins[1].samples, <<>>)>>
             outs == <<IO("o", n.ins[1].type, n.ins[1].samples, <<>>)>>
             number == <<n.kind, 0>>
  <2>1. MadeFrom(n) = NodeOf(n.class, n.kind, number, n.identified, ins, outs, n.args,
                             n.argsDesc)
    BY <1>2, MadeFromIs DEF Shape
  <2>2. n.ins = ins /\ n.outs = outs
    BY <1>2 DEF Shape
  <2> HIDE DEF ins, outs, number
  <2>3. MadeFrom(n) = NodeOf(n.class, n.kind, number, n.identified, n.ins, n.outs,
                             n.args, n.argsDesc)
    BY <2>1, <2>2
  <2>4. QED
    BY <1>1, <2>3, NodeExcept
<1>3. CASE n.class = "Binary"
  <2> DEFINE ins == [k \in 1..2 |-> IO(<<n.ins[1].name, n.ins[2].name>>[k],
                                       n.ins[1].type, n.ins[1].samples, <<>>)]
             outs == <<IO("o", n.ins[1].type, n.ins[1].samples, <<>>)>>
             number == <<n.kind, 0>>
  <2>1. MadeFrom(n) = NodeOf(n.class, n.kind, number, n.identified, ins, outs, n.args,
                             n.argsDesc)
    BY <1>3, MadeFromIs DEF Shape
  <2>2. n.ins = ins /\ n.outs = outs
    BY <1>3 DEF Shape
  <2> HIDE DEF ins, outs, number
  <2>3. MadeFrom(n) = NodeOf(n.class, n.kind, number, n.identified, n.ins, n.outs,
                             n.args, n.argsDesc)
    BY <2>1, <2>2
  <2>4. QED
    BY <1>1, <2>3, NodeExcept
<1>4. CASE n.class \notin {"Unary", "Binary"}
  <2> DEFINE number == IF n.class \in Functions_ THEN <<n.kind, 0>> ELSE <<"", 0>>
  <2>1. MadeFrom(n) = NodeOf(n.class, n.kind, number, n.identified, n.ins, n.outs,
                             n.args, n.argsDesc)
    BY <1>4, MadeFromIs DEF Shape, Functions_
  <2> HIDE DEF number
  <2>2. QED
    BY <1>1, <2>1, NodeExcept
<1>5. QED
  BY <1>2, <1>3, <1>4

(* The entry of a node.                                                      *)
LEMMA YAMLNodeIs ==
  ASSUME NEW n, NodeMade(n)
  PROVE  LET y == YAMLNode(n)
         IN  /\ y.node = n.id /\ y.identified = <<n.identified>>
             /\ Has(y.unary) = (n.class = "Unary") /\ Has(y.binary) = (n.class = "Binary")
             /\ Has(y.c_function) = (n.class = "GenericFunction")
             /\ Has(y.kind) = (n.class \notin Functions_)
             /\ n.class = "Unary" => y.unary[1] = n.kind
             /\ n.class = "Binary" => y.binary[1] = n.kind
             /\ n.class = "GenericFunction" =>
                  y.c_function[1] = [name |-> n.kind, args |-> n.argsDesc]
             /\ n.class \notin Functions_ => y.kind[1] = n.kind
             /\ Has(y.inputs) = (n.ins # <<>>) /\ Has(y.outputs) = (n.outs # <<>>)
             /\ n.ins # <<>> => y.inputs[1] = Side(n.ins, ManyInputs(n))
             /\ n.outs # <<>> => y.outputs[1] = Side(n.outs, ManyOutputs(n))
             /\ ProcessArguments(y) = n.args
<1> DEFINE y == YAMLNode(n)
<1>1. y.node = n.id /\ y.identified = <<n.identified>>
  BY DEF YAMLNode
<1>2. /\ y.unary = Only(n.class = "Unary", n.kind)
      /\ y.binary = Only(n.class = "Binary", n.kind)
      /\ y.c_function = Only(n.class = "GenericFunction",
                             [name |-> n.kind, args |-> n.argsDesc])
      /\ y.kind = Only(n.class \notin Functions_, n.kind)
      /\ y.inputs = Only(n.ins # <<>>, Side(n.ins, ManyInputs(n)))
      /\ y.outputs = Only(n.outs # <<>>, Side(n.outs, ManyOutputs(n)))
      /\ y.args = Only(n.args # <<>>, n.args)
  BY DEF YAMLNode, IsFunction, Functions_, Side
<1> HIDE DEF y
<1>3. ASSUME NEW b \in BOOLEAN, NEW v
      PROVE  Has(Only(b, v)) = b
  BY DEF Has, Only
<1>4. /\ Has(y.unary) = (n.class = "Unary") /\ Has(y.binary) = (n.class = "Binary")
      /\ Has(y.c_function) = (n.class = "GenericFunction")
      /\ Has(y.kind) = (n.class \notin Functions_)
      /\ Has(y.inputs) = (n.ins # <<>>) /\ Has(y.outputs) = (n.outs # <<>>)
  BY <1>2 DEF Has, Only
<1>5. /\ n.class = "Unary" => y.unary[1] = n.kind
      /\ n.class = "Binary" => y.binary[1] = n.kind
      /\ n.class = "GenericFunction" =>
           y.c_function[1] = [name |-> n.kind, args |-> n.argsDesc]
      /\ n.class \notin Functions_ => y.kind[1] = n.kind
      /\ n.ins # <<>> => y.inputs[1] = Side(n.ins, ManyInputs(n))
      /\ n.outs # <<>> => y.outputs[1] = Side(n.outs, ManyOutputs(n))
  BY <1>2 DEF Only
<1>6. Get(y.args, <<>>) = n.args
  BY <1>2 DEF Only, Get, Has
<1>7. ProcessArguments(y) = n.args
  BY <1>6, ArgsStay DEF ProcessArguments, NodeMade
<1>8. QED
  BY <1>1, <1>4, <1>5, <1>7 DEF y

(* What is needed for the entry of a node to be read.                        *)
LEMMA RaisesIs ==
  ASSUME NEW n, NodeMade(n)
  PROVE  ~NodeRaises(YAMLNode(n)) <=>
           /\ n.ins = <<>> \/ n.outs = <<>> =>
                n.class \notin Functions_
                  /\ (n.ins = <<>> => ~ManyOutputs(n)) /\ (n.outs = <<>> => ~ManyInputs(n))
           /\ n.class \notin {"Unary", "Binary"} => Named(n.ins) /\ Named(n.outs)
<1> DEFINE y == YAMLNode(n)
<1> HIDE DEF y
<1>0. Has(y.identified)
  <2>1. y.identified = <<n.identified>>
    BY YAMLNodeIs DEF y
  <2>2. QED
    BY <2>1 DEF Has
<1>1. /\ Has(y.unary) = (n.class = "Unary") /\ Has(y.binary) = (n.class = "Binary")
      /\ Has(y.kind) = (n.class \notin Functions_)
      /\ Has(y.inputs) = (n.ins # <<>>) /\ Has(y.outputs) = (n.outs # <<>>)
      /\ n.ins # <<>> => y.inputs[1] = Side(n.ins, ManyInputs(n))
      /\ n.outs # <<>> => y.outputs[1] = Side(n.outs, ManyOutputs(n))
  BY YAMLNodeIs DEF y
<1>2. /\ IOsMade(n.ins, ManyInputs(n)) /\ IOsMade(n.outs, ManyOutputs(n))
      /\ n.ins # <<>> \/ n.outs # <<>>
      /\ ManyInputs(n) \in BOOLEAN /\ ManyOutputs(n) \in BOOLEAN
  BY DEF NodeMade, ManyInputs, ManyOutputs
<1>3. n.ins # <<>> => /\ IsList(y.inputs[1]) = ManyInputs(n)
                      /\ NamelessConstraint(y.inputs[1]) = ~Named(n.ins)
  BY ZenonT(40), <1>1, <1>2, SideIs
<1>4. n.outs # <<>> => /\ IsList(y.outputs[1]) = ManyOutputs(n)
                       /\ NamelessConstraint(y.outputs[1]) = ~Named(n.outs)
  BY ZenonT(40), <1>1, <1>2, SideIs
<1>5. (n.ins = <<>> => Named(n.ins)) /\ (n.outs = <<>> => Named(n.outs))
  BY DEF Named
<1>6. ~NodeRaises(y) <=>
           /\ n.ins = <<>> \/ n.outs = <<>> =>
                n.class \notin Functions_
                  /\ (n.ins = <<>> => ~ManyOutputs(n)) /\ (n.outs = <<>> => ~ManyInputs(n))
           /\ n.class \notin {"Unary", "Binary"} => Named(n.ins) /\ Named(n.outs)
  BY <1>0, <1>1, <1>2, <1>3, <1>4, <1>5 DEF NodeRaises
<1>7. QED
  BY <1>6 DEF y

(* What PortableNode says of a node that has been made.                      *)
LEMMA PortableIs ==
  ASSUME NEW n, NodeMade(n)
  PROVE  PortableNode(n) <=>
           /\ Named(n.ins) /\ Named(n.outs)
           /\ \A k \in DOMAIN n.ins : PortableType(n.ins[k].type)
           /\ \A k \in DOMAIN n.outs : PortableType(n.outs[k].type)
           /\ n.class = "Binary" => n.ins[1].name = "ia" /\ n.ins[2].name = "ib"
           /\ n.class = "GenericFunction" =>
                FunctionName([name |-> n.kind, args |-> n.argsDesc]) = n.kind
           /\ n.ins = <<>> \/ n.outs = <<>> => n.class \in {"GenericSource", "GenericSink"}
<1> DEFINE Good(io) == /\ io.constraint # <<>> => io.constraint[1].name # None
                       /\ PortableType(io.type)
           Named1 == n.class = "Unary" => [k \in 1..1 |-> n.ins[k].name] = <<"i">>
           Named2 == n.class = "Binary" => [k \in 1..2 |-> n.ins[k].name] = <<"ia", "ib">>
           Last_  == n.class = "GenericFunction" =>
                       FunctionName([name |-> n.kind, args |-> n.argsDesc]) = n.kind
           Ends_  == n.ins = <<>> \/ n.outs = <<>> =>
                       n.class \in {"GenericSource", "GenericSink"}
<1>1. PortableNode(n) <=> /\ \A io \in ToSet(n.ins \o n.outs) : Good(io)
                          /\ Named1 /\ Named2 /\ Last_ /\ Ends_
  BY DEF PortableNode
<1>2. ToSet(n.ins \o n.outs) = {n.ins[k] : k \in DOMAIN n.ins}
                               \cup {n.outs[k] : k \in DOMAIN n.outs}
  BY ToSetOfBoth DEF NodeMade, IOsMade
<1>3. (\A io \in ToSet(n.ins \o n.outs) : Good(io)) <=>
        /\ \A k \in DOMAIN n.ins : Good(n.ins[k])
        /\ \A k \in DOMAIN n.outs : Good(n.outs[k])
  <2> HIDE DEF Good
  <2>1. QED
    BY <1>2
<1>4. /\ (\A k \in DOMAIN n.ins : Good(n.ins[k])) <=>
            Named(n.ins) /\ \A k \in DOMAIN n.ins : PortableType(n.ins[k].type)
      /\ (\A k \in DOMAIN n.outs : Good(n.outs[k])) <=>
            Named(n.outs) /\ \A k \in DOMAIN n.outs : PortableType(n.outs[k].type)
  BY DEF Named
<1>5. Named1
  <2>1. SUFFICES ASSUME n.class = "Unary" PROVE n.ins[1].name = "i"
    OBVIOUS
  <2> DEFINE t == n.ins[1].type
             s == n.ins[1].samples
  <2>2. n.ins = <<IO("i", t, s, <<>>)>>
    BY <2>1, NodeIs DEF Shape
  <2> HIDE DEF t, s
  <2>3. QED
    BY <2>2 DEF IO
<1>6. Named2 <=> (n.class = "Binary" => n.ins[1].name = "ia" /\ n.ins[2].name = "ib")
  <2>1. [k \in 1..2 |-> n.ins[k].name] = <<"ia", "ib">> <=>
          n.ins[1].name = "ia" /\ n.ins[2].name = "ib"
    <3>1. [k \in 1..2 |-> n.ins[k].name] = <<n.ins[1].name, n.ins[2].name>>
      OBVIOUS
    <3>2. QED
      BY <3>1
  <2>2. QED
    BY <2>1
<1> HIDE DEF Good, Named1, Named2, Last_, Ends_
<1>7. PortableNode(n) <=>
           /\ Named(n.ins) /\ Named(n.outs)
           /\ \A k \in DOMAIN n.ins : PortableType(n.ins[k].type)
           /\ \A k \in DOMAIN n.outs : PortableType(n.outs[k].type)
           /\ n.class = "Binary" => n.ins[1].name = "ia" /\ n.ins[2].name = "ib"
           /\ Last_ /\ Ends_
  BY <1>1, <1>3, <1>4, <1>5, <1>6
<1>8. QED
  BY <1>7 DEF Last_, Ends_

(* The sides of a node that has entered the file, read from there.           *)
ReadSide(side, types) == IF Has(side) THEN ProcessIOs(side[1], types) ELSE <<>>

LEMMA NoIOsBack ==
  ASSUME NEW types
  PROVE  IOsBack(<<>>, types) = <<>>
<1>1. DOMAIN <<>> = 1..0
  OBVIOUS
<1>2. QED
  BY <1>1 DEF IOsBack

LEMMA ReadSidesAre ==
  ASSUME NEW n, NodeMade(n), NEW types, Named(n.ins), Named(n.outs)
  PROVE  /\ ReadSide(YAMLNode(n).inputs, types) = IOsBack(n.ins, types)
         /\ ReadSide(YAMLNode(n).outputs, types) = IOsBack(n.outs, types)
<1> DEFINE y == YAMLNode(n)
<1> HIDE DEF y
<1>1. /\ Has(y.inputs) = (n.ins # <<>>) /\ Has(y.outputs) = (n.outs # <<>>)
      /\ n.ins # <<>> => y.inputs[1] = Side(n.ins, ManyInputs(n))
      /\ n.outs # <<>> => y.outputs[1] = Side(n.outs, ManyOutputs(n))
  BY YAMLNodeIs DEF y
<1>2. /\ IOsMade(n.ins, ManyInputs(n)) /\ IOsMade(n.outs, ManyOutputs(n))
      /\ ManyInputs(n) \in BOOLEAN /\ ManyOutputs(n) \in BOOLEAN
  BY DEF NodeMade, ManyInputs, ManyOutputs
<1>3. n.ins # <<>> =>
        ProcessIOs(Side(n.ins, ManyInputs(n)), types) = IOsBack(n.ins, types)
  BY <1>2, SideIs
<1>4. n.outs # <<>> =>
        ProcessIOs(Side(n.outs, ManyOutputs(n)), types) = IOsBack(n.outs, types)
  BY <1>2, SideIs
<1>5. QED
  BY <1>1, <1>3, <1>4, NoIOsBack DEF ReadSide, y

(* The class that is read from the lists and the sides of an entry.          *)
KindOf(n) ==
  IF n.outs = <<>> THEN "GenericSink"
  ELSE IF n.ins = <<>> THEN "GenericSource"
  ELSE IF ManyInputs(n)
         THEN IF ManyOutputs(n) THEN "GenericManyToManyNode" ELSE "GenericFromManyNode"
         ELSE IF ManyOutputs(n) THEN "GenericToManyNode" ELSE "GenericNode"

LEMMA IdentifyIs ==
  ASSUME NEW n, NodeMade(n)
  PROVE  IdentifyNodeKind(YAMLNode(n)) = KindOf(n)
<1> DEFINE y == YAMLNode(n)
<1> HIDE DEF y
<1>1. /\ Has(y.inputs) = (n.ins # <<>>) /\ Has(y.outputs) = (n.outs # <<>>)
      /\ n.ins # <<>> => y.inputs[1] = Side(n.ins, ManyInputs(n))
      /\ n.outs # <<>> => y.outputs[1] = Side(n.outs, ManyOutputs(n))
  BY YAMLNodeIs DEF y
<1>2. /\ IOsMade(n.ins, ManyInputs(n)) /\ IOsMade(n.outs, ManyOutputs(n))
      /\ ManyInputs(n) \in BOOLEAN /\ ManyOutputs(n) \in BOOLEAN
  BY DEF NodeMade, ManyInputs, ManyOutputs
<1>3. n.ins # <<>> => IsList(y.inputs[1]) = ManyInputs(n)
  BY <1>1, <1>2, SideIs
<1>4. n.outs # <<>> => IsList(y.outputs[1]) = ManyOutputs(n)
  BY <1>1, <1>2, SideIs
<1>5. CASE n.outs = <<>>
  <2>1. n.ins # <<>>
    BY <1>5 DEF NodeMade
  <2>2. QED
    BY <1>1, <1>5, <2>1 DEF IdentifyNodeKind, KindOf, y
<1>6. CASE n.outs # <<>> /\ n.ins = <<>>
  BY <1>1, <1>6 DEF IdentifyNodeKind, KindOf, y
<1>7. CASE n.outs # <<>> /\ n.ins # <<>>
  <2>1. IdentifyNodeKind(y) =
          IF IsList(y.inputs[1])
            THEN IF IsList(y.outputs[1]) THEN "GenericManyToManyNode"
                                         ELSE "GenericFromManyNode"
            ELSE IF IsList(y.outputs[1]) THEN "GenericToManyNode" ELSE "GenericNode"
    BY <1>1, <1>7 DEF IdentifyNodeKind
  <2>2. QED
    BY <1>3, <1>4, <1>7, <2>1 DEF KindOf, y
<1>8. QED
  BY <1>5, <1>6, <1>7

(* The first input of a function that has one type only.                     *)
LEMMA FirstIs ==
  ASSUME NEW n, NodeMade(n), n.class \in {"Unary", "Binary"}
  PROVE  LET first == YAMLNode(n).inputs[1].ports[1]
         IN  first.type[1] = ctype(n.ins[1].type) /\ first.samples[1] = n.ins[1].samples
<1> DEFINE y == YAMLNode(n)
<1> HIDE DEF y
<1>1. n.ins # <<>>
  <2>1. CASE n.class = "Unary"
    <3> DEFINE io == IO("i", n.ins[1].type, n.ins[1].samples, <<>>)
    <3>1. n.ins = <<io>>
      BY <2>1, NodeIs DEF Shape
    <3> HIDE DEF io
    <3>2. QED
      BY <3>1
  <2>2. CASE n.class = "Binary"
    <3> DEFINE io(k) == IO(<<n.ins[1].name, n.ins[2].name>>[k], n.ins[1].type,
                           n.ins[1].samples, <<>>)
    <3>1. n.ins = [k \in 1..2 |-> io(k)]
      BY <2>2, NodeIs DEF Shape
    <3> HIDE DEF io
    <3>2. DOMAIN n.ins = 1..2
      BY <3>1
    <3>3. DOMAIN <<>> = 1..0 /\ 1 \in 1..2 /\ 1 \notin 1..0
      OBVIOUS
    <3>4. QED
      BY <3>2, <3>3
  <2>3. QED
    BY <2>1, <2>2
<1> DEFINE many == ManyInputs(n)
           side == Side(n.ins, many)
<1>2. ~many /\ many \in BOOLEAN /\ IOsMade(n.ins, many)
  BY DEF ManyInputs, NodeMade
<1>3. y.inputs[1] = side
  BY <1>1, YAMLNodeIs DEF y
<1> HIDE DEF many
<1>4. /\ side.ports[1].type = <<ctype(n.ins[1].type)>>
      /\ side.ports[1].samples = <<n.ins[1].samples>>
  BY <1>1, <1>2, SideIs
<1> HIDE DEF side
<1>5. QED
  BY <1>3, <1>4 DEF y

(* What import_graph() makes of the entry of a node.                         *)
Number(n, kind) == IF n.class \in Functions_ THEN <<kind, 0>> ELSE n.id
OneType(name, n, types) ==
  IO(name, dataType(ctype(n.ins[1].type), types), n.ins[1].samples, <<>>)

LEMMA ImportedNodeIs ==
  ASSUME NEW n, NodeMade(n), NEW types
  PROVE  LET m == ImportedNode(YAMLNode(n), types)
             name == FunctionName([name |-> n.kind, args |-> n.argsDesc])
         IN  /\ n.class = "Unary" =>
                  m = NodeOf("Unary", n.kind, Number(n, n.kind), NotIdentified,
                             <<OneType("i", n, types)>>, <<OneType("o", n, types)>>,
                             n.args, <<>>)
             /\ n.class = "Binary" =>
                  m = NodeOf("Binary", n.kind, Number(n, n.kind), NotIdentified,
                             <<OneType("ia", n, types), OneType("ib", n, types)>>,
                             <<OneType("o", n, types)>>, n.args, <<>>)
             /\ n.class = "GenericFunction" /\ Named(n.ins) /\ Named(n.outs) =>
                  m = NodeOf("GenericFunction", name, Number(n, name), NotIdentified,
                             IOsBack(n.ins, types), IOsBack(n.outs, types),
                             n.args, n.argsDesc)
             /\ n.class \notin Functions_ /\ Named(n.ins) /\ Named(n.outs) =>
                  m = NodeOf(KindOf(n), n.kind, n.id, n.identified,
                             IOsBack(n.ins, types), IOsBack(n.outs, types),
                             n.args, <<>>)
<1> DEFINE y == YAMLNode(n)
           m == ImportedNode(y, types)
<1>1. /\ y.node = n.id /\ y.identified = <<n.identified>>
      /\ Has(y.unary) = (n.class = "Unary") /\ Has(y.binary) = (n.class = "Binary")
      /\ Has(y.c_function) = (n.class = "GenericFunction")
      /\ n.class = "Unary" => y.unary[1] = n.kind
      /\ n.class = "Binary" => y.binary[1] = n.kind
      /\ n.class = "GenericFunction" =>
           y.c_function[1] = [name |-> n.kind, args |-> n.argsDesc]
      /\ n.class \notin Functions_ => y.kind[1] = n.kind
      /\ ProcessArguments(y) = n.args
  BY YAMLNodeIs
<1>2. n.class \in {"Unary", "Binary"} =>
        /\ y.inputs[1].ports[1].type[1] = ctype(n.ins[1].type)
        /\ y.inputs[1].ports[1].samples[1] = n.ins[1].samples
  BY FirstIs
<1>3. Named(n.ins) /\ Named(n.outs) =>
        /\ ReadSide(y.inputs, types) = IOsBack(n.ins, types)
        /\ ReadSide(y.outputs, types) = IOsBack(n.outs, types)
  BY ReadSidesAre
<1>4. IdentifyNodeKind(y) = KindOf(n)
  BY IdentifyIs
<1> HIDE DEF y
<1>5. ASSUME n.class = "Unary"
      PROVE  m = NodeOf("Unary", n.kind, Number(n, n.kind), NotIdentified,
                        <<OneType("i", n, types)>>, <<OneType("o", n, types)>>,
                        n.args, <<>>)
  <2>1. m = Unary(n.kind, dataType(ctype(n.ins[1].type), types), n.ins[1].samples,
                  n.args)
    BY <1>1, <1>2, <1>5 DEF ImportedNode
  <2>2. QED
    BY <1>5, <2>1 DEF Unary, GenericFunction, NodeOf, NotIdentified, OneType, Number,
                      Functions_
<1>6. ASSUME n.class = "Binary"
      PROVE  m = NodeOf("Binary", n.kind, Number(n, n.kind), NotIdentified,
                        <<OneType("ia", n, types), OneType("ib", n, types)>>,
                        <<OneType("o", n, types)>>, n.args, <<>>)
  <2> DEFINE t == dataType(ctype(n.ins[1].type), types)
             s == n.ins[1].samples
  <2>1. m = Binary(n.kind, t, s, <<"ia", "ib">>, n.args)
    BY <1>1, <1>2, <1>6 DEF ImportedNode
  <2>2. /\ OneType("ia", n, types) = IO("ia", t, s, <<>>)
        /\ OneType("ib", n, types) = IO("ib", t, s, <<>>)
        /\ OneType("o", n, types) = IO("o", t, s, <<>>)
    BY DEF OneType
  <2> HIDE DEF t, s
  <2>3. [k \in 1..2 |-> IO(<<"ia", "ib">>[k], t, s, <<>>)] =
          <<IO("ia", t, s, <<>>), IO("ib", t, s, <<>>)>>
    OBVIOUS
  <2>4. Number(n, n.kind) = <<n.kind, 0>>
    BY <1>6 DEF Number, Functions_
  <2> HIDE DEF m
  <2>5. QED
    BY <2>1, <2>2, <2>3, <2>4 DEF Binary, GenericFunction, NodeOf, NotIdentified
<1>7. ASSUME n.class = "GenericFunction", Named(n.ins), Named(n.outs)
      PROVE  LET name == FunctionName([name |-> n.kind, args |-> n.argsDesc])
             IN  m = NodeOf("GenericFunction", name, Number(n, name), NotIdentified,
                            IOsBack(n.ins, types), IOsBack(n.outs, types),
                            n.args, n.argsDesc)
  <2> DEFINE name == FunctionName([name |-> n.kind, args |-> n.argsDesc])
  <2>1. m = GenericFunction("GenericFunction", FunctionName(y.c_function[1]),
                            y.c_function[1].args, ReadSide(y.inputs, types),
                            ReadSide(y.outputs, types), ProcessArguments(y))
    BY <1>1, <1>7 DEF ImportedNode, ReadSide
  <2>2. y.c_function[1].args = n.argsDesc /\ FunctionName(y.c_function[1]) = name
    BY <1>1, <1>7
  <2> HIDE DEF name, m
  <2>3. QED
    BY <1>1, <1>3, <1>7, <2>1, <2>2
       DEF GenericFunction, NodeOf, NotIdentified, Number, Functions_, name
<1>8. ASSUME n.class \notin Functions_, Named(n.ins), Named(n.outs)
      PROVE  m = NodeOf(KindOf(n), n.kind, n.id, n.identified,
                        IOsBack(n.ins, types), IOsBack(n.outs, types), n.args, <<>>)
  <2>1. m = [Node(IdentifyNodeKind(y), y.kind[1], "", y.identified[1],
                  ReadSide(y.inputs, types), ReadSide(y.outputs, types),
                  ProcessArguments(y)) EXCEPT !.id = y.node]
    BY <1>1, <1>8 DEF ImportedNode, ReadSide, Functions_
  <2> HIDE DEF m
  <2>2. y.identified[1] = n.identified
    BY <1>1
  <2>3. m = [Node(KindOf(n), n.kind, "", n.identified, IOsBack(n.ins, types),
                  IOsBack(n.outs, types), n.args) EXCEPT !.id = n.id]
    BY <1>1, <1>3, <1>4, <1>8, <2>1, <2>2
  <2>4. QED
    BY <2>3 DEF Node, NodeOf
<1>9. QED
  BY <1>5, <1>6, <1>7, <1>8 DEF y

LEMMA OneTypeBack ==
  ASSUME NEW n, NEW types, NEW ios, NEW name,
         ios = <<IO(name, n.ins[1].type, n.ins[1].samples, <<>>)>>
  PROVE  IOsBack(ios, types) = <<OneType(name, n, types)>>
<1> DEFINE t == n.ins[1].type
           s == n.ins[1].samples
<1>1. DOMAIN ios = 1..1 /\ ios[1] = IO(name, t, s, <<>>)
  OBVIOUS
<1>2. IOBack(ios[1], types) = OneType(name, n, types)
  BY <1>1 DEF IOBack, OneType, IO
<1>3. IOsBack(ios, types) = [k \in 1..1 |-> IOBack(ios[k], types)]
  BY <1>1 DEF IOsBack
<1> HIDE DEF t, s
<1>4. [k \in 1..1 |-> IOBack(ios[k], types)] = <<IOBack(ios[1], types)>>
  OBVIOUS
<1>5. QED
  BY <1>2, <1>3, <1>4

(* A unary function comes back whatever its type.                            *)
Same(n, types) ==
  NodeOf(n.class, n.kind, Number(n, n.kind), n.identified, IOsBack(n.ins, types),
         IOsBack(n.outs, types), n.args, n.argsDesc)

LEMMA UnaryBack ==
  ASSUME NEW n, NodeMade(n), NEW types, n.class = "Unary"
  PROVE  ImportedNode(YAMLNode(n), types) = Same(n, types)
<1>1. /\ n.ins  = <<IO("i", n.ins[1].type, n.ins[1].samples, <<>>)>>
      /\ n.outs = <<IO("o", n.ins[1].type, n.ins[1].samples, <<>>)>>
      /\ n.identified = NotIdentified /\ n.argsDesc = <<>>
  BY NodeIs DEF Shape
<1>2. /\ IOsBack(n.ins, types) = <<OneType("i", n, types)>>
      /\ IOsBack(n.outs, types) = <<OneType("o", n, types)>>
  BY <1>1, OneTypeBack
<1>3. ImportedNode(YAMLNode(n), types) =
        NodeOf("Unary", n.kind, Number(n, n.kind), NotIdentified,
               <<OneType("i", n, types)>>, <<OneType("o", n, types)>>, n.args, <<>>)
  BY ImportedNodeIs
<1>4. n.identified = NotIdentified /\ n.argsDesc = <<>>
  BY <1>1
<1>5. QED
  BY <1>2, <1>3, <1>4 DEF Same

(* So does every node that a file can hold.                                  *)
LEMMA PortableBack ==
  ASSUME NEW n, NodeMade(n), NEW types, PortableNode(n)
  PROVE  /\ ~NodeRaises(YAMLNode(n))
         /\ ImportedNode(YAMLNode(n), types) = Same(n, types)
<1>1. /\ Named(n.ins) /\ Named(n.outs)
      /\ n.class = "Binary" => n.ins[1].name = "ia" /\ n.ins[2].name = "ib"
      /\ n.class = "GenericFunction" =>
           FunctionName([name |-> n.kind, args |-> n.argsDesc]) = n.kind
      /\ n.ins = <<>> \/ n.outs = <<>> => n.class \in {"GenericSource", "GenericSink"}
  BY PortableIs
<1>2. ~NodeRaises(YAMLNode(n))
  BY <1>1, RaisesIs DEF Functions_, ManyInputs, ManyOutputs
<1>3. CASE n.class = "Unary"
  BY <1>2, <1>3, UnaryBack
<1>4. CASE n.class = "Binary"
  <2> DEFINE io(name) == IO(name, n.ins[1].type, n.ins[1].samples, <<>>)
  <2>1. /\ n.ins = [k \in 1..2 |-> io(<<n.ins[1].name, n.ins[2].name>>[k])]
        /\ n.outs = <<io("o")>>
        /\ n.identified = NotIdentified /\ n.argsDesc = <<>>
    BY <1>4, NodeIs DEF Shape
  <2>2. IOsBack(n.outs, types) = <<OneType("o", n, types)>>
    BY <2>1, OneTypeBack
  <2>3. \A name : IOBack(io(name), types) = OneType(name, n, types)
    BY DEF IOBack, OneType, IO
  <2> HIDE DEF io
  <2>4. DOMAIN n.ins = 1..2 /\ n.ins[1] = io("ia") /\ n.ins[2] = io("ib")
    BY <1>1, <1>4, <2>1
  <2>5. IOsBack(n.ins, types) = [k \in 1..2 |-> IOBack(n.ins[k], types)]
    BY <2>4 DEF IOsBack
  <2>6. [k \in 1..2 |-> IOBack(n.ins[k], types)] =
          <<IOBack(n.ins[1], types), IOBack(n.ins[2], types)>>
    OBVIOUS
  <2>7. IOsBack(n.ins, types) = <<OneType("ia", n, types), OneType("ib", n, types)>>
    BY <2>3, <2>4, <2>5, <2>6
  <2>8. ImportedNode(YAMLNode(n), types) =
          NodeOf("Binary", n.kind, Number(n, n.kind), NotIdentified,
                 <<OneType("ia", n, types), OneType("ib", n, types)>>,
                 <<OneType("o", n, types)>>, n.args, <<>>)
    BY <1>4, ImportedNodeIs
  <2>9. n.identified = NotIdentified /\ n.argsDesc = <<>>
    BY <2>1
  <2>10. QED
    BY <1>2, <1>4, <2>2, <2>7, <2>8, <2>9 DEF Same
<1>5. CASE n.class = "GenericFunction"
  <2>1. n.identified = NotIdentified
    BY <1>5, NodeIs DEF Shape
  <2>2. ImportedNode(YAMLNode(n), types) =
          NodeOf("GenericFunction", n.kind, Number(n, n.kind), NotIdentified,
                 IOsBack(n.ins, types), IOsBack(n.outs, types), n.args, n.argsDesc)
    BY <1>1, <1>5, ImportedNodeIs
  <2>3. QED
    BY <1>2, <1>5, <2>1, <2>2 DEF Same
<1>6. CASE n.class \notin Functions_
  <2>1. n.argsDesc = <<>> /\ n.class \in Classes
    BY <1>6, NodeIs DEF Shape
  <2>2. KindOf(n) = n.class
    <3>1. /\ n.class = "GenericSource" => n.ins = <<>>
          /\ n.class = "GenericSink" => n.outs = <<>>
          /\ n.ins # <<>> \/ n.outs # <<>>
      BY DEF NodeMade
    <3>2. QED
      BY <1>1, <1>6, <2>1, <3>1
         DEF KindOf, Classes, Functions_, ManyInputs, ManyOutputs
  <2>3. ImportedNode(YAMLNode(n), types) =
          NodeOf(KindOf(n), n.kind, n.id, n.identified, IOsBack(n.ins, types),
                 IOsBack(n.outs, types), n.args, <<>>)
    BY <1>1, <1>6, ImportedNodeIs
  <2>4. Number(n, n.kind) = n.id
    BY <1>6 DEF Number
  <2>5. QED
    BY <1>2, <2>1, <2>2, <2>3, <2>4 DEF Same
<1>7. QED
  BY <1>3, <1>4, <1>5, <1>6 DEF Functions_

(* What is read of a side with fewer demands on it.                          *)
LEMMA BackMade ==
  ASSUME NEW n, NodeMade(n), NEW types, IOsKnown(n.ins, types), IOsKnown(n.outs, types),
         Named(n.ins), Named(n.outs),
         NEW m, Shape(m), m.class # "Binary", m.args = n.args,
         m.ins = IOsBack(n.ins, types), m.outs = IOsBack(n.outs, types),
         m.id = <<m.id[1], m.id[2]>>, m.id[2] = 0,
         ManyInputs(m) => ManyInputs(n), ManyOutputs(m) => ManyOutputs(n),
         m.class = "GenericSource" => n.ins = <<>>,
         m.class = "GenericSink" => n.outs = <<>>,
         n.ins = <<>> \/ n.outs = <<>> => m.class \in {"GenericSource", "GenericSink"},
         m.class = "GenericFunction" =>
           FunctionName([name |-> m.kind, args |-> m.argsDesc]) = m.kind
  PROVE  NodeMade(m) /\ PortableNode(m)
<1>1. /\ IOsMade(n.ins, ManyInputs(n)) /\ ManyInputs(n) \in BOOLEAN
      /\ IOsMade(n.outs, ManyOutputs(n)) /\ ManyOutputs(n) \in BOOLEAN
      /\ NamesDiffer(n) /\ (n.ins # <<>> \/ n.outs # <<>>)
      /\ IsSequence(n.args) /\ QueuesFirst(n.args)
  BY DEF NodeMade, ManyInputs, ManyOutputs
<1>2. /\ IOsMade(m.ins, ManyInputs(n)) /\ DOMAIN m.ins = DOMAIN n.ins
      /\ (m.ins = <<>> <=> n.ins = <<>>)
      /\ \A k \in DOMAIN n.ins : PortableType(m.ins[k].type)
      /\ Named(m.ins)
  BY <1>1, IOsBackAre
<1>3. /\ IOsMade(m.outs, ManyOutputs(n)) /\ DOMAIN m.outs = DOMAIN n.outs
      /\ (m.outs = <<>> <=> n.outs = <<>>)
      /\ \A k \in DOMAIN n.outs : PortableType(m.outs[k].type)
      /\ Named(m.outs)
  BY <1>1, IOsBackAre
<1>4. IOsMade(m.ins, ManyInputs(m)) /\ IOsMade(m.outs, ManyOutputs(m))
  BY <1>2, <1>3 DEF IOsMade
<1>5. NamesDiffer(m)
  <2>1. \A k \in DOMAIN n.ins : m.ins[k].name = n.ins[k].name
    BY IOBackIs DEF IOsBack
  <2>2. \A k \in DOMAIN n.outs : m.outs[k].name = n.outs[k].name
    BY IOBackIs DEF IOsBack
  <2>3. QED
    BY <1>1, <1>2, <1>3, <2>1, <2>2 DEF NamesDiffer
<1>6. m = [MadeFrom(m) EXCEPT !.id = m.id] /\ m.class \in Classes
  BY ShapeIs DEF Shape
<1>7. m.id[2] \in IF IsFunction(m) THEN Nat ELSE {0}
  OBVIOUS
<1>8. NodeMade(m)
  BY <1>1, <1>2, <1>3, <1>4, <1>5, <1>6, <1>7 DEF NodeMade
<1>9. QED
  BY <1>2, <1>3, <1>8, PortableIs

(* The inputs and outputs of unary and binary functions have no constraint.  *)
LEMMA FunctionsNamed ==
  ASSUME NEW n, NodeMade(n), n.class \in {"Unary", "Binary"}
  PROVE  Named(n.ins) /\ Named(n.outs)
<1> DEFINE t == n.ins[1].type
           s == n.ins[1].samples
<1>1. n.class = "Unary" => n.ins = <<IO("i", t, s, <<>>)>>
  BY NodeIs DEF Shape
<1>2. n.class = "Binary" =>
        n.ins = [k \in 1..2 |-> IO(<<n.ins[1].name, n.ins[2].name>>[k], t, s, <<>>)]
  BY NodeIs DEF Shape
<1>3. n.outs = <<IO("o", t, s, <<>>)>>
  BY NodeIs DEF Shape
<1> HIDE DEF t, s
<1>4. Named(n.outs)
  BY <1>3 DEF Named, IO
<1>5. CASE n.class = "Unary"
  BY <1>1, <1>4, <1>5 DEF Named, IO
<1>6. CASE n.class = "Binary"
  <2> DEFINE name(k) == <<n.ins[1].name, n.ins[2].name>>[k]
  <2>1. n.ins = [k \in 1..2 |-> IO(name(k), t, s, <<>>)]
    BY <1>2, <1>6
  <2> HIDE DEF name
  <2>2. \A k \in DOMAIN n.ins : n.ins[k] = IO(name(k), t, s, <<>>)
    BY <2>1
  <2>3. \A k \in DOMAIN n.ins : n.ins[k].constraint = <<>>
    <3>1. \A x : IO(x, t, s, <<>>).constraint = <<>>
      BY DEF IO
    <3>2. QED
      BY <2>2, <3>1
  <2>4. QED
    BY <1>4, <2>3 DEF Named
<1>7. QED
  BY <1>5, <1>6

(* What is read without an exception is a node that a file can hold.         *)
Read(m, n) ==
  /\ NodeMade(m) /\ PortableNode(m)
  /\ m.class \in Functions_ <=> n.class \in Functions_
  /\ m.id = Number(n, m.kind)

LEMMA ReadGeneric ==
  ASSUME NEW n, NodeMade(n), NEW types, IOsKnown(n.ins, types), IOsKnown(n.outs, types),
         ~NodeRaises(YAMLNode(n)), n.class \notin {"Unary", "Binary"}
  PROVE  Read(ImportedNode(YAMLNode(n), types), n)
<1> DEFINE m == ImportedNode(YAMLNode(n), types)
<1>1. /\ Named(n.ins) /\ Named(n.outs)
      /\ n.ins = <<>> \/ n.outs = <<>> => n.class \notin Functions_
      /\ n.ins = <<>> => ~ManyOutputs(n)
      /\ n.outs = <<>> => ~ManyInputs(n)
      /\ n.ins # <<>> \/ n.outs # <<>>
      /\ n.class \in Classes /\ n.id = <<n.id[1], n.id[2]>>
      /\ n.id[2] \in IF IsFunction(n) THEN Nat ELSE {0}
  BY RaisesIs DEF NodeMade
<1>2. CASE n.class = "GenericFunction"
  <2> DEFINE name == FunctionName([name |-> n.kind, args |-> n.argsDesc])
  <2>1. m = NodeOf("GenericFunction", name, Number(n, name), NotIdentified,
                   IOsBack(n.ins, types), IOsBack(n.outs, types), n.args, n.argsDesc)
    BY <1>1, <1>2, ImportedNodeIs
  <2>2. Number(n, name) = <<name, 0>>
    BY <1>2 DEF Number, Functions_
  <2>3. FunctionName([name |-> name, args |-> n.argsDesc]) = name
    BY DEF FunctionName
  <2> HIDE DEF m, name
  <2>4. /\ m.class = "GenericFunction" /\ m.kind = name /\ m.id = <<name, 0>>
        /\ m.identified = NotIdentified /\ m.args = n.args /\ m.argsDesc = n.argsDesc
        /\ m.ins = IOsBack(n.ins, types) /\ m.outs = IOsBack(n.outs, types)
    BY <2>1, <2>2, NodeOfIs
  <2>5. Shape(m)
    BY <2>1, <2>2, <2>4 DEF Shape, Classes, Functions_
  <2>6. /\ ~ManyInputs(m) /\ ~ManyOutputs(m)
        /\ m.id = <<m.id[1], m.id[2]>> /\ m.id[2] = 0
    BY <2>4 DEF ManyInputs, ManyOutputs
  <2>7. NodeMade(m) /\ PortableNode(m)
    BY <1>1, <1>2, <2>3, <2>4, <2>5, <2>6, BackMade DEF Functions_
  <2>8. QED
    BY <1>2, <2>2, <2>4, <2>7 DEF Read, m, Functions_
<1>3. CASE n.class \notin Functions_
  <2> DEFINE c == KindOf(n)
  <2>1. m = NodeOf(c, n.kind, n.id, n.identified, IOsBack(n.ins, types),
                   IOsBack(n.outs, types), n.args, <<>>)
    BY <1>1, <1>3, ImportedNodeIs
  <2>2. n.id[2] = 0
    BY <1>1, <1>3 DEF IsFunction, Functions_
  <2>3. /\ c \in Classes /\ c \notin Functions_
        /\ c = "GenericSource" => n.ins = <<>>
        /\ c = "GenericSink" => n.outs = <<>>
        /\ n.ins = <<>> \/ n.outs = <<>> => c \in {"GenericSource", "GenericSink"}
        /\ c \in {"GenericFromManyNode", "GenericManyToManyNode"} => ManyInputs(n)
        /\ c \in {"GenericToManyNode", "GenericManyToManyNode"} => ManyOutputs(n)
    BY DEF KindOf, Classes, Functions_
  <2> HIDE DEF m, c
  <2>4. /\ m.class = c /\ m.kind = n.kind /\ m.id = n.id
        /\ m.identified = n.identified /\ m.args = n.args /\ m.argsDesc = <<>>
        /\ m.ins = IOsBack(n.ins, types) /\ m.outs = IOsBack(n.outs, types)
    BY <2>1, NodeOfIs
  <2>5. Shape(m)
    <3>1. m = NodeOf(m.class, m.kind, m.id, m.identified, m.ins, m.outs, m.args,
                     m.argsDesc)
      BY <2>1, <2>4
    <3>2. QED
      BY <2>3, <2>4, <3>1 DEF Shape, Functions_
  <2>6. /\ ManyInputs(m) => ManyInputs(n)
        /\ ManyOutputs(m) => ManyOutputs(n)
    <3>1. /\ ManyInputs(m) => c \in {"GenericFromManyNode", "GenericManyToManyNode"}
          /\ ManyOutputs(m) => c \in {"GenericToManyNode", "GenericManyToManyNode"}
      BY <2>4 DEF ManyInputs, ManyOutputs
    <3>2. QED
      BY <2>3, <3>1
  <2>7. NodeMade(m) /\ PortableNode(m)
    <3>1. m.class # "Binary" /\ m.class # "GenericFunction"
      BY <2>3, <2>4 DEF Functions_
    <3>2. QED
      BY <1>1, <2>2, <2>3, <2>4, <2>5, <2>6, <3>1, BackMade
  <2>8. QED
    BY <1>3, <2>3, <2>4, <2>7 DEF Read, m, Number
<1>4. QED
  BY <1>2, <1>3 DEF Functions_

LEMMA ReadUnary ==
  ASSUME NEW n, NodeMade(n), NEW types, IOsKnown(n.ins, types), IOsKnown(n.outs, types),
         ~NodeRaises(YAMLNode(n)), n.class = "Unary"
  PROVE  Read(ImportedNode(YAMLNode(n), types), n)
<1> DEFINE m == ImportedNode(YAMLNode(n), types)
<1>1. /\ n.ins # <<>> /\ n.outs # <<>> /\ Named(n.ins) /\ Named(n.outs)
      /\ n.identified = NotIdentified /\ n.argsDesc = <<>>
  BY RaisesIs, FunctionsNamed, NodeIs DEF Functions_, Shape
<1>2. m = Same(n, types)
  BY UnaryBack
<1>3. Number(n, n.kind) = <<n.kind, 0>>
  BY DEF Number, Functions_
<1> HIDE DEF m
<1>4. /\ m.class = "Unary" /\ m.kind = n.kind /\ m.id = <<n.kind, 0>>
      /\ m.identified = NotIdentified /\ m.args = n.args /\ m.argsDesc = <<>>
      /\ m.ins = IOsBack(n.ins, types) /\ m.outs = IOsBack(n.outs, types)
  BY <1>1, <1>2, <1>3, NodeOfIs DEF Same
<1>5. Shape(m)
  <2>1. m = NodeOf(m.class, m.kind, m.id, m.identified, m.ins, m.outs, m.args,
                   m.argsDesc)
    BY <1>1, <1>2, <1>3, <1>4 DEF Same
  <2>2. /\ m.ins = <<OneType("i", n, types)>> /\ m.outs = <<OneType("o", n, types)>>
    <3>1. /\ n.ins  = <<IO("i", n.ins[1].type, n.ins[1].samples, <<>>)>>
          /\ n.outs = <<IO("o", n.ins[1].type, n.ins[1].samples, <<>>)>>
      BY NodeIs DEF Shape
    <3>2. /\ IOsBack(n.ins, types) = <<OneType("i", n, types)>>
          /\ IOsBack(n.outs, types) = <<OneType("o", n, types)>>
      BY <3>1, OneTypeBack
    <3>3. QED
      BY <1>4, <3>2
  <2> DEFINE t == dataType(ctype(n.ins[1].type), types)
             s == n.ins[1].samples
  <2>3. OneType("i", n, types) = IO("i", t, s, <<>>)
        /\ OneType("o", n, types) = IO("o", t, s, <<>>)
    BY DEF OneType
  <2> HIDE DEF t, s
  <2>4. m.ins[1].type = t /\ m.ins[1].samples = s
    BY <2>2, <2>3 DEF IO
  <2>5. /\ m.ins = <<IO("i", m.ins[1].type, m.ins[1].samples, <<>>)>>
        /\ m.outs = <<IO("o", m.ins[1].type, m.ins[1].samples, <<>>)>>
    BY <2>2, <2>3, <2>4
  <2>6. QED
    BY <1>4, <2>1, <2>5 DEF Shape, Classes, Functions_
<1>6. /\ ~ManyInputs(m) /\ ~ManyOutputs(m)
      /\ m.id = <<m.id[1], m.id[2]>> /\ m.id[2] = 0
  BY <1>4 DEF ManyInputs, ManyOutputs
<1>7. NodeMade(m) /\ PortableNode(m)
  BY <1>1, <1>4, <1>5, <1>6, BackMade
<1>8. QED
  BY <1>3, <1>4, <1>7 DEF Read, m, Functions_

LEMMA ReadBinary ==
  ASSUME NEW n, NodeMade(n), NEW types, IOsKnown(n.ins, types), IOsKnown(n.outs, types),
         ~NodeRaises(YAMLNode(n)), n.class = "Binary"
  PROVE  Read(ImportedNode(YAMLNode(n), types), n)
<1> DEFINE m == ImportedNode(YAMLNode(n), types)
           ia == OneType("ia", n, types)
           ib == OneType("ib", n, types)
           o == OneType("o", n, types)
           t == dataType(ctype(n.ins[1].type), types)
           s == n.ins[1].samples
<1>1. /\ n.ins # <<>> /\ n.outs # <<>> /\ IsSequence(n.ins)
      /\ IsSequence(n.args) /\ QueuesFirst(n.args)
  BY RaisesIs DEF Functions_, NodeMade, IOsMade
<1>2. m = NodeOf("Binary", n.kind, Number(n, n.kind), NotIdentified, <<ia, ib>>, <<o>>,
                 n.args, <<>>)
  BY ImportedNodeIs
<1>3. Number(n, n.kind) = <<n.kind, 0>>
  BY DEF Number, Functions_
<1>4. TypeMade(t) /\ PortableType(t)
  <2>1. 1 \in DOMAIN n.ins
    BY <1>1, SomeIsFirst
  <2>2. QED
    BY <2>1 DEF IOsKnown, Known_Type
<1>5. ia = IO("ia", t, s, <<>>) /\ ib = IO("ib", t, s, <<>>) /\ o = IO("o", t, s, <<>>)
  BY DEF OneType
<1> HIDE DEF m, ia, ib, o, t, s
<1>6. /\ m.class = "Binary" /\ m.kind = n.kind /\ m.id = <<n.kind, 0>>
      /\ m.identified = NotIdentified /\ m.args = n.args /\ m.argsDesc = <<>>
      /\ m.ins = <<ia, ib>> /\ m.outs = <<o>>
  BY <1>2, <1>3, NodeOfIs
<1>7. /\ ia.name = "ia" /\ ia.type = t /\ ia.samples = s /\ ia.constraint = <<>>
      /\ ib.name = "ib" /\ ib.type = t /\ ib.samples = s /\ ib.constraint = <<>>
      /\ o.name = "o" /\ o.type = t /\ o.samples = s /\ o.constraint = <<>>
  BY <1>5 DEF IO
<1>8. Shape(m)
  <2>1. m = NodeOf(m.class, m.kind, m.id, m.identified, m.ins, m.outs, m.args,
                   m.argsDesc)
    BY <1>2, <1>3, <1>6
  <2>2. m.ins[1].name = "ia" /\ m.ins[2].name = "ib" /\ m.ins[1].type = t
        /\ m.ins[1].samples = s
    BY <1>6, <1>7
  <2>3. m.outs = <<IO("o", m.ins[1].type, m.ins[1].samples, <<>>)>>
    BY <1>5, <1>6, <2>2
  <2>4. m.ins = [k \in 1..2 |-> IO(<<"ia", "ib">>[k], t, s, <<>>)]
    <3>1. [k \in 1..2 |-> IO(<<"ia", "ib">>[k], t, s, <<>>)] =
            <<IO("ia", t, s, <<>>), IO("ib", t, s, <<>>)>>
      OBVIOUS
    <3>2. QED
      BY <1>5, <1>6, <3>1
  <2>5. m.ins = [k \in 1..2 |-> IO(<<m.ins[1].name, m.ins[2].name>>[k],
                                   m.ins[1].type, m.ins[1].samples, <<>>)]
    BY <2>2, <2>4
  <2>6. QED
    BY <1>6, <2>1, <2>3, <2>5 DEF Shape, Classes, Functions_
<1>9. IOMade(ia) /\ IOMade(ib) /\ IOMade(o)
  BY <1>4, <1>5, <1>7 DEF IOMade, ConstraintMade
<1>10. IsSequence(<<ia, ib>>) /\ IsSequence(<<o>>)
  <2>1. <<ia, ib>> \in Seq({ia, ib}) /\ <<o>> \in Seq({o})
    OBVIOUS
  <2>2. QED
    BY <2>1, SequenceOf
<1>11. IOsMade(m.ins, ManyInputs(m)) /\ IOsMade(m.outs, ManyOutputs(m))
  BY <1>6, <1>7, <1>9, <1>10 DEF IOsMade
<1>12. NamesDiffer(m) /\ Named(m.ins) /\ Named(m.outs)
  BY <1>6, <1>7 DEF NamesDiffer, Named
<1>13. NodeMade(m)
  <2>1. m = [MadeFrom(m) EXCEPT !.id = m.id] /\ m.class \in Classes
    BY <1>8, ShapeIs DEF Shape
  <2>2. m.id[2] \in IF IsFunction(m) THEN Nat ELSE {0}
    BY <1>6
  <2>3. m.ins # <<>> /\ m.id = <<m.id[1], m.id[2]>>
    BY <1>6
  <2>4. QED
    BY <1>1, <1>6, <1>11, <1>12, <2>1, <2>2, <2>3 DEF NodeMade
<1>14. PortableNode(m)
  <2>1. m.ins # <<>> /\ m.outs # <<>>
    BY <1>6
  <2>2. /\ \A k \in DOMAIN m.ins : PortableType(m.ins[k].type)
        /\ \A k \in DOMAIN m.outs : PortableType(m.outs[k].type)
    BY <1>4, <1>6, <1>7
  <2>3. m.ins[1].name = "ia" /\ m.ins[2].name = "ib"
    BY <1>6, <1>7
  <2>4. QED
    BY <1>6, <1>12, <1>13, <2>1, <2>2, <2>3, PortableIs
<1>15. QED
  BY <1>3, <1>6, <1>13, <1>14 DEF Read, m, Functions_

LEMMA ReadIsPortable ==
  ASSUME NEW n, NodeMade(n), NEW types, IOsKnown(n.ins, types), IOsKnown(n.outs, types),
         ~NodeRaises(YAMLNode(n))
  PROVE  Read(ImportedNode(YAMLNode(n), types), n)
BY ReadGeneric, ReadUnary, ReadBinary

(* A new number leaves the rest of a node alone.                             *)
LEMMA Renumbered ==
  ASSUME NEW n, NodeMade(n), NEW i, i = <<i[1], i[2]>>,
         i[2] \in IF IsFunction(n) THEN Nat ELSE {0}, NEW r, r = [n EXCEPT !.id = i]
  PROVE  /\ NodeMade(r) /\ r.id = i
         /\ r.class = n.class /\ r.kind = n.kind /\ r.identified = n.identified
         /\ r.ins = n.ins /\ r.outs = n.outs /\ r.args = n.args
         /\ r.argsDesc = n.argsDesc
         /\ PortableNode(n) => PortableNode(r)
<1>1. r = NodeOf(n.class, n.kind, i, n.identified, n.ins, n.outs, n.args, n.argsDesc)
  <2>1. n = NodeOf(n.class, n.kind, n.id, n.identified, n.ins, n.outs, n.args, n.argsDesc)
    BY NodeIs DEF Shape
  <2> DEFINE c == n.class
             k == n.kind
             j == n.id
             d == n.identified
             ins == n.ins
             outs == n.outs
             a == n.args
             ad == n.argsDesc
  <2> HIDE DEF c, k, j, d, ins, outs, a, ad
  <2>2. n = NodeOf(c, k, j, d, ins, outs, a, ad)
    BY <2>1 DEF c, k, j, d, ins, outs, a, ad
  <2>3. r = NodeOf(c, k, i, d, ins, outs, a, ad)
    BY <2>2 DEF NodeOf
  <2>4. QED
    BY <2>3 DEF c, k, j, d, ins, outs, a, ad
<1>2. /\ r.id = i
      /\ r.class = n.class /\ r.kind = n.kind /\ r.identified = n.identified
      /\ r.ins = n.ins /\ r.outs = n.outs /\ r.args = n.args
      /\ r.argsDesc = n.argsDesc
  BY <1>1, NodeOfIs
<1>3. r = NodeOf(r.class, r.kind, r.id, r.identified, r.ins, r.outs, r.args, r.argsDesc)
  BY <1>1, <1>2
<1>4. Shape(r)
  <2>1. Shape(n)
    BY NodeIs
  <2>2. QED
    BY <1>2, <1>3, <2>1 DEF Shape
<1>5. r = [MadeFrom(r) EXCEPT !.id = r.id]
  BY <1>4, ShapeIs
<1>6. /\ n.class \in Classes
      /\ IOsMade(n.ins, ManyInputs(n)) /\ IOsMade(n.outs, ManyOutputs(n)) /\ NamesDiffer(n)
      /\ n.class = "GenericSource" => n.ins = <<>>
      /\ n.class = "GenericSink" => n.outs = <<>>
      /\ n.ins # <<>> \/ n.outs # <<>>
      /\ IsSequence(n.args) /\ QueuesFirst(n.args)
  BY DEF NodeMade
<1>7. /\ IOsMade(r.ins, ManyInputs(r)) /\ IOsMade(r.outs, ManyOutputs(r))
      /\ NamesDiffer(r) /\ IsFunction(r) = IsFunction(n)
  BY <1>2, <1>6 DEF ManyInputs, ManyOutputs, NamesDiffer, IsFunction
<1>8. NodeMade(r)
  BY <1>2, <1>5, <1>6, <1>7 DEF NodeMade
<1>9. PortableNode(n) => PortableNode(r)
  BY <1>2, <1>8, PortableIs
<1>10. QED
  BY <1>2, <1>8, <1>9

(* A copy of a node, however it is numbered, is the same node.               *)
CopyOf(r, n, types) ==
  /\ NodeMade(r)
  /\ r.class = n.class /\ r.kind = n.kind /\ r.identified = n.identified
  /\ r.ins = IOsBack(n.ins, types) /\ r.outs = IOsBack(n.outs, types)
  /\ r.args = n.args /\ r.argsDesc = n.argsDesc

LEMMA ShapesStay ==
  ASSUME NEW ios, NEW types, NEW alike, IOsMade(ios, alike), IOsKnown(ios, types)
  PROVE  [k \in DOMAIN ios |-> [ios[k] EXCEPT !.type = ctype(@)]] =
           [k \in DOMAIN IOsBack(ios, types) |->
              [IOsBack(ios, types)[k] EXCEPT !.type = ctype(@)]]
<1> DEFINE b == IOsBack(ios, types)
<1>1. DOMAIN b = DOMAIN ios /\ \A k \in DOMAIN ios : b[k] = IOBack(ios[k], types)
  BY DEF IOsBack
<1> HIDE DEF b
<1>2. ASSUME NEW k \in DOMAIN ios
      PROVE  [ios[k] EXCEPT !.type = ctype(@)] = [b[k] EXCEPT !.type = ctype(@)]
  <2> DEFINE io == ios[k]
             t == dataType(ctype(io.type), types)
  <2>1. io = IO(io.name, io.type, io.samples, io.constraint)
    BY DEF IOsMade, IOMade
  <2>2. b[k] = IO(io.name, t, io.samples, io.constraint)
    BY <1>1 DEF IOBack
  <2>3. ctype(t) = ctype(io.type)
    BY DEF IOsKnown, Known_Type
  <2> HIDE DEF t, io
  <2>4. [b[k] EXCEPT !.type = ctype(@)] = IO(io.name, ctype(t), io.samples, io.constraint)
    BY <2>2 DEF IO
  <2>5. [io EXCEPT !.type = ctype(@)] =
          IO(io.name, ctype(io.type), io.samples, io.constraint)
    <3> DEFINE n == io.name
               y == io.type
               s == io.samples
               c == io.constraint
    <3>1. io = IO(n, y, s, c)
      BY <2>1
    <3> HIDE DEF n, y, s, c
    <3>2. [io EXCEPT !.type = ctype(@)] = IO(n, ctype(y), s, c)
      BY <3>1 DEF IO
    <3>3. QED
      BY <3>2 DEF n, y, s, c
  <2>6. QED
    BY <2>3, <2>4, <2>5 DEF io
<1>3. QED
  BY <1>1, <1>2 DEF b

LEMMA CopyIsSame ==
  ASSUME NEW n, NodeMade(n), NEW types, IOsKnown(n.ins, types), IOsKnown(n.outs, types),
         NEW r, CopyOf(r, n, types)
  PROVE  SameNode(n, r)
<1> DEFINE Shapes(ios) == [k \in DOMAIN ios |-> [ios[k] EXCEPT !.type = ctype(@)]]
<1>1. Shapes(n.ins) = Shapes(r.ins) /\ Shapes(n.outs) = Shapes(r.outs)
  BY ShapesStay DEF CopyOf, NodeMade
<1>2. \A field \in {"class", "kind", "identified", "args", "argsDesc"} : n[field] = r[field]
  BY DEF CopyOf
<1>3. QED
  BY <1>1, <1>2 DEF SameNode

(* The ports of a node have names that differ.                               *)
PortAt(n, io) ==
  (\E k \in DOMAIN n.ins : io = n.ins[k]) \/ (\E k \in DOMAIN n.outs : io = n.outs[k])

LEMMA PortsOf ==
  ASSUME NEW n, NodeMade(n)
  PROVE  /\ \A io : PortAt(n, io) => HasPort(n, io.name) /\ Port(n, io.name) = io
         /\ \A name : HasPort(n, name) =>
              PortAt(n, Port(n, name)) /\ Port(n, name).name = name
<1>1. ToSet(n.ins \o n.outs) = {n.ins[k] : k \in DOMAIN n.ins}
                               \cup {n.outs[k] : k \in DOMAIN n.outs}
  BY ToSetOfBoth DEF NodeMade, IOsMade
<1>2. \A io : io \in ToSet(n.ins \o n.outs) <=> PortAt(n, io)
  BY <1>1 DEF PortAt
<1>3. ASSUME NEW x, NEW y, PortAt(n, x), PortAt(n, y), x.name = y.name PROVE x = y
  <2>1. /\ \A j, k \in DOMAIN n.ins : n.ins[j].name = n.ins[k].name => j = k
        /\ \A j, k \in DOMAIN n.outs : n.outs[j].name = n.outs[k].name => j = k
    BY DEF NodeMade, IOsMade
  <2>2. \A j \in DOMAIN n.ins, k \in DOMAIN n.outs : n.ins[j].name # n.outs[k].name
    BY DEF NodeMade, NamesDiffer
  <2>3. QED
    BY <1>3, <2>1, <2>2 DEF PortAt
<1>4. ASSUME NEW io, PortAt(n, io)
      PROVE  HasPort(n, io.name) /\ Port(n, io.name) = io
  <2>1. HasPort(n, io.name)
    BY <1>2, <1>4 DEF HasPort
  <2>2. Port(n, io.name) = io
    BY <1>2, <1>3, <1>4 DEF Port
  <2>3. QED
    BY <2>1, <2>2
<1>5. ASSUME NEW name, HasPort(n, name)
      PROVE  PortAt(n, Port(n, name)) /\ Port(n, name).name = name
  BY <1>2, <1>5 DEF HasPort, Port
<1>6. QED
  BY <1>4, <1>5

LEMMA PortsBack ==
  ASSUME NEW n, NodeMade(n), NEW types, NEW r, CopyOf(r, n, types),
         NEW name, HasPort(n, name)
  PROVE  HasPort(r, name) /\ Port(r, name) = IOBack(Port(n, name), types)
<1> DEFINE io == Port(n, name)
           b == IOBack(io, types)
<1>1. PortAt(n, io) /\ io.name = name
  BY PortsOf
<1>2. b.name = name
  BY <1>1, IOBackIs
<1>3. PortAt(r, b)
  <2>1. r.ins = [k \in DOMAIN n.ins |-> IOBack(n.ins[k], types)]
    BY DEF CopyOf, IOsBack
  <2>2. r.outs = [k \in DOMAIN n.outs |-> IOBack(n.outs[k], types)]
    BY DEF CopyOf, IOsBack
  <2> HIDE DEF io
  <2>3. QED
    BY <1>1, <2>1, <2>2 DEF PortAt
<1> HIDE DEF io, b
<1>4. HasPort(r, b.name) /\ Port(r, b.name) = b
  BY <1>3, PortsOf DEF CopyOf
<1>5. QED
  BY <1>2, <1>4 DEF b, io

(***************************************************************************)
(* Graphs.                                                                   *)
(***************************************************************************)
BufferMade(a, b, buffer) ==
  /\ a.constraint # <<>> => buffer = a.constraint
  /\ a.constraint = <<>> /\ b.constraint # <<>> => buffer = b.constraint
  /\ a.constraint = <<>> /\ b.constraint = <<>> =>
       \/ buffer = <<>>
       \/ \E name, array : /\ name # None
                           /\ buffer = setBufferConstraint(name, array, FALSE, TRUE)

EndMade(g, end) ==
  end.node \in DOMAIN g.objects /\ HasPort(g.objects[end.node], end.port)

EdgeMade(g, e) ==
  /\ EndMade(g, e.src) /\ EndMade(g, e.dst)
  /\ ~ConnectRaises(g, e.src, e.dst)
  /\ BufferMade(PortOf(g, e.src), PortOf(g, e.dst), e.buffer)
  /\ e.length \in Nat \cup {NoNumber} /\ e.delay \in Nat \cup {NoNumber}
  /\ e.weak \in BOOLEAN

ObjectMade(key, n) ==
  /\ key = <<key[1], key[2]>> /\ key[2] \in Nat
  /\ NodeMade(n)
  /\ IsFunction(n) => n.id[2] > 0

GraphMade(g) ==
  /\ \A key \in DOMAIN g.objects : ObjectMade(key, g.objects[key])
  /\ \A j, k \in DOMAIN g.objects : g.objects[j].id = g.objects[k].id => j = k
  /\ IsSequence(g.edges) /\ \A k \in DOMAIN g.edges : EdgeMade(g, g.edges[k])
  /\ IsSequence(g.constants)
  /\ \A k \in DOMAIN g.constants : g.constants[k].dst.node \in DOMAIN g.objects

LEMMA ConcatIs ==
  ASSUME NEW T, NEW a \in Seq(T), NEW b \in Seq(T)
  PROVE  /\ a \o b \in Seq(T) /\ Len(a \o b) = Len(a) + Len(b)
         /\ \A k \in 1..Len(a) : (a \o b)[k] = a[k]
         /\ \A k \in 1..Len(b) : (a \o b)[Len(a) + k] = b[k]
OBVIOUS

(* The elements of a flattened sequence, and those that Firsts leaves.       *)
LEMMA FlattenElements ==
  ASSUME NEW R, NEW ss \in Seq(Seq(R))
  PROVE  /\ FlattenSeq(ss) \in Seq(R)
         /\ \A k \in DOMAIN ss : \A i \in DOMAIN ss[k] :
              \E j \in DOMAIN FlattenSeq(ss) : FlattenSeq(ss)[j] = ss[k][i]
         /\ \A j \in DOMAIN FlattenSeq(ss) :
              \E k \in DOMAIN ss : \E i \in DOMAIN ss[k] : FlattenSeq(ss)[j] = ss[k][i]
<1> DEFINE F == FlattenSeq(ss)
<1>1. /\ F \in Seq(R)
      /\ \A k \in 1..Len(ss) : Holds(F, ss[k])
      /\ \A j \in 1..Len(F) :
           \E k \in 1..Len(ss) : \E o : HoldsAt(F, ss[k], o) /\ j - o \in 1..Len(ss[k])
  BY FlattenIs
<1> HIDE DEF F
<1>2. DOMAIN ss = 1..Len(ss) /\ DOMAIN F = 1..Len(F) /\ Len(F) \in Nat
  BY <1>1
<1>3. \A k \in DOMAIN ss : ss[k] \in Seq(R) /\ DOMAIN ss[k] = 1..Len(ss[k])
                           /\ Len(ss[k]) \in Nat
  <2>1. \A k \in DOMAIN ss : ss[k] \in Seq(R)
    BY <1>2
  <2>2. QED
    BY <2>1
<1>4. ASSUME NEW k \in DOMAIN ss, NEW i \in DOMAIN ss[k]
      PROVE  \E j \in DOMAIN F : F[j] = ss[k][i]
  <2>1. PICK o : HoldsAt(F, ss[k], o)
    BY <1>1, <1>2 DEF Holds
  <2>2. o \in Nat /\ o + Len(ss[k]) <= Len(F) /\ F[o + i] = ss[k][i]
    BY <1>3, <2>1 DEF HoldsAt
  <2>3. o + i \in 1..Len(F)
    BY <1>2, <1>3, <2>2
  <2>4. QED
    BY <1>2, <2>2, <2>3
<1>5. ASSUME NEW j \in DOMAIN F
      PROVE  \E k \in DOMAIN ss : \E i \in DOMAIN ss[k] : F[j] = ss[k][i]
  <2>1. PICK k \in 1..Len(ss) : \E o : HoldsAt(F, ss[k], o) /\ j - o \in 1..Len(ss[k])
    BY <1>1, <1>2
  <2>2. PICK o : HoldsAt(F, ss[k], o) /\ j - o \in 1..Len(ss[k])
    BY <2>1
  <2>3. o \in Nat /\ j \in Nat /\ F[o + (j - o)] = ss[k][j - o] /\ o + (j - o) = j
    BY <1>2, <2>2 DEF HoldsAt
  <2>4. QED
    BY <1>2, <1>3, <2>2, <2>3
<1>6. QED
  BY <1>1, <1>4, <1>5 DEF F

(* The nodes that the edges meet, each once.                                 *)
ConstantKey(c) == <<c.src, NoNumber>>
MetBy(g, x) ==
  \/ \E k \in DOMAIN g.constants : x \in {ConstantKey(g.constants[k]),
                                          g.constants[k].dst.node}
  \/ \E k \in DOMAIN g.edges : x \in {g.edges[k].src.node, g.edges[k].dst.node}

LEMMA MetAre ==
  ASSUME NEW g, IsSequence(g.edges), IsSequence(g.constants)
  PROVE  /\ IsSequence(NodesMet(g))
         /\ \A j, k \in DOMAIN NodesMet(g) : NodesMet(g)[j] = NodesMet(g)[k] => j = k
         /\ \A k \in DOMAIN NodesMet(g) : MetBy(g, NodesMet(g)[k])
         /\ \A x : MetBy(g, x) => \E k \in DOMAIN NodesMet(g) : NodesMet(g)[k] = x
<1> DEFINE c == g.constants
           d == g.edges
           R == {ConstantKey(c[k]) : k \in DOMAIN c} \cup {c[k].dst.node : k \in DOMAIN c}
                \cup {d[k].src.node : k \in DOMAIN d} \cup {d[k].dst.node : k \in DOMAIN d}
           cs == [k \in DOMAIN c |-> <<ConstantKey(c[k]), c[k].dst.node>>]
           ds == [k \in DOMAIN d |-> <<d[k].src.node, d[k].dst.node>>]
           ss == cs \o ds
           met == FlattenSeq(ss)
<1>1. NodesMet(g) = Firsts(met, met)
  BY DEF NodesMet, ConstantKey
<1>2. Len(c) \in Nat /\ DOMAIN c = 1..Len(c) /\ Len(d) \in Nat /\ DOMAIN d = 1..Len(d)
  BY SequenceIs
<1>3. \A x : x \in R <=> MetBy(g, x)
  BY DEF MetBy
<1>4. /\ \A k \in DOMAIN c : <<ConstantKey(c[k]), c[k].dst.node>> \in Seq(R)
      /\ \A k \in DOMAIN d : <<d[k].src.node, d[k].dst.node>> \in Seq(R)
  <2>1. /\ \A k \in DOMAIN c : ConstantKey(c[k]) \in R /\ c[k].dst.node \in R
        /\ \A k \in DOMAIN d : d[k].src.node \in R /\ d[k].dst.node \in R
    OBVIOUS
  <2> HIDE DEF R
  <2>2. QED
    BY <2>1
<1> HIDE DEF R
<1>5. cs \in Seq(Seq(R)) /\ ds \in Seq(Seq(R)) /\ Len(cs) = Len(c) /\ Len(ds) = Len(d)
  <2>1. cs \in [1..Len(c) -> Seq(R)] /\ ds \in [1..Len(d) -> Seq(R)]
    BY <1>2, <1>4
  <2>2. DOMAIN cs = 1..Len(c) /\ DOMAIN ds = 1..Len(d)
    BY <1>2
  <2> HIDE DEF cs, ds
  <2>3. cs \in Seq(Seq(R)) /\ ds \in Seq(Seq(R))
    BY SMTT(30), <1>2, <2>1, SeqDef
  <2>4. QED
    BY <1>2, <2>2, <2>3, LenProperties
<1>6. /\ \A k \in DOMAIN c : cs[k] = <<ConstantKey(c[k]), c[k].dst.node>>
      /\ \A k \in DOMAIN d : ds[k] = <<d[k].src.node, d[k].dst.node>>
  OBVIOUS
<1> HIDE DEF c, d, cs, ds
<1>7. /\ ss \in Seq(Seq(R)) /\ DOMAIN ss = 1..(Len(c) + Len(d))
      /\ \A k \in 1..Len(c) : ss[k] = cs[k]
      /\ \A k \in 1..Len(d) : ss[Len(c) + k] = ds[k]
  <2> DEFINE T == Seq(R)
  <2>1. cs \in Seq(T) /\ ds \in Seq(T)
    BY <1>5
  <2> HIDE DEF T
  <2>2. /\ ss \in Seq(T) /\ Len(ss) = Len(c) + Len(d)
        /\ \A k \in 1..Len(c) : ss[k] = cs[k]
        /\ \A k \in 1..Len(d) : ss[Len(c) + k] = ds[k]
    <3>1. /\ cs \o ds \in Seq(T) /\ Len(cs \o ds) = Len(cs) + Len(ds)
          /\ \A k \in 1..Len(cs) : (cs \o ds)[k] = cs[k]
          /\ \A k \in 1..Len(ds) : (cs \o ds)[Len(cs) + k] = ds[k]
      BY <2>1, ConcatIs
    <3>2. QED
      BY <1>5, <3>1
  <2> HIDE DEF ss
  <2>3. DOMAIN ss = 1..(Len(c) + Len(d))
    BY <2>2, LenProperties
  <2>4. QED
    BY <2>2, <2>3 DEF T
<1> HIDE DEF ss
<1>8. /\ met \in Seq(R)
      /\ \A k \in DOMAIN ss : \A i \in DOMAIN ss[k] : \E j \in DOMAIN met : met[j] = ss[k][i]
  BY <1>7, FlattenElements
<1>9. \A x \in R : \E j \in DOMAIN met : met[j] = x
  <2>1. ASSUME NEW k \in DOMAIN c
        PROVE  \A x \in {ConstantKey(c[k]), c[k].dst.node} :
                 \E j \in DOMAIN met : met[j] = x
    <3>1. k \in DOMAIN ss /\ ss[k] = <<ConstantKey(c[k]), c[k].dst.node>>
      <4>1. k \in 1..Len(c)
        BY <1>2
      <4>2. k \in 1..(Len(c) + Len(d))
        BY <1>2, <4>1
      <4>3. ss[k] = cs[k]
        BY <1>7, <4>1
      <4>4. QED
        BY <1>6, <1>7, <4>2, <4>3
    <3>2. 1 \in DOMAIN ss[k] /\ 2 \in DOMAIN ss[k]
      BY <3>1
    <3>3. ss[k][1] = ConstantKey(c[k]) /\ ss[k][2] = c[k].dst.node
      BY <3>1
    <3>4. QED
      BY <1>8, <3>1, <3>2, <3>3
  <2>2. ASSUME NEW k \in DOMAIN d
        PROVE  \A x \in {d[k].src.node, d[k].dst.node} : \E j \in DOMAIN met : met[j] = x
    <3> DEFINE l == Len(c) + k
    <3>1. l \in DOMAIN ss /\ ss[l] = <<d[k].src.node, d[k].dst.node>>
      <4>1. k \in 1..Len(d)
        BY <1>2
      <4>2. l \in 1..(Len(c) + Len(d))
        BY <1>2, <4>1
      <4>3. ss[l] = ds[k]
        BY <1>7, <4>1
      <4>4. QED
        BY <1>6, <1>7, <4>2, <4>3
    <3> HIDE DEF l
    <3>2. 1 \in DOMAIN ss[l] /\ 2 \in DOMAIN ss[l]
      BY <3>1
    <3>3. ss[l][1] = d[k].src.node /\ ss[l][2] = d[k].dst.node
      BY <3>1
    <3>4. QED
      BY <1>8, <3>1, <3>2, <3>3
  <2>3. QED
    BY <2>1, <2>2 DEF R
<1> HIDE DEF met
<1>a. PICK n \in Nat : \E e \in [1..n -> 1..Len(met)] : AreFirst(met, met, n, e)
  BY <1>8, FirstsAre
<1>b. PICK e \in [1..n -> 1..Len(met)] : AreFirst(met, met, n, e)
  BY <1>a
<1>10. /\ Firsts(met, met) = [k \in 1..n |-> met[e[k]]]
       /\ \A j, k \in 1..n : j < k => e[j] < e[k]
       /\ \A j, k \in 1..n : met[e[j]] = met[e[k]] => j = k
       /\ \A i \in 1..Len(met) : \E k \in 1..n : e[k] <= i /\ met[e[k]] = met[i]
  BY <1>b DEF AreFirst
<1> DEFINE f == Firsts(met, met)
<1>11. DOMAIN f = 1..n /\ \A k \in 1..n : f[k] = met[e[k]]
  BY <1>10
<1>12. f \in [1..n -> R]
  BY <1>8, <1>10
<1> HIDE DEF f
<1>13. IsSequence(f)
  <2>1. f \in Seq(R)
    BY <1>10, <1>12, SeqDef
  <2>2. QED
    BY <2>1, SequenceOf
<1>14. \A j, k \in DOMAIN f : f[j] = f[k] => j = k
  BY ZenonT(40), <1>10, <1>11
<1>15. \A k \in DOMAIN f : f[k] \in R
  BY <1>11, <1>12
<1>16. ASSUME NEW x \in R PROVE \E k \in DOMAIN f : f[k] = x
  <2>1. PICK j \in DOMAIN met : met[j] = x
    BY <1>9
  <2>2. j \in 1..Len(met)
    BY <1>8, <2>1
  <2>3. PICK k \in 1..n : met[e[k]] = met[j]
    BY <1>10, <2>2
  <2>4. QED
    BY <1>11, <2>1, <2>3
<1>17. NodesMet(g) = f
  BY <1>1 DEF f
<1>18. QED
  BY <1>3, <1>13, <1>14, <1>15, <1>16, <1>17

(* The entries that a type makes.                                            *)
LEMMA CreateTypeIs ==
  ASSUME NEW t, TypeMade(t)
  PROVE  \/ t.class = "CType" /\ CreateType(t) = <<>>
         \/ t.class = "CStructType" /\ CreateType(t) = <<StructEntry(t)>>
         \/ /\ t.class = "SharedType" /\ t.of.class = "CType"
            /\ CreateType(t) = <<SharedEntry(t)>>
         \/ /\ t.class = "SharedType" /\ t.of.class # "CType"
            /\ CreateType(t) = <<StructEntry(t.of), SharedEntry(t)>>
<1>1. CASE t.class = "SharedType"
  BY <1>1 DEF CreateType
<1>2. CASE t.class # "SharedType"
  <2>1. t.class \in {"CType", "CStructType"}
    BY <1>2, NotSharedIsBase, BaseCtype
  <2>2. QED
    BY <2>1 DEF CreateType
<1>3. QED
  BY <1>1, <1>2

LEMMA EntryKeys ==
  ASSUME NEW t
  PROVE  StructEntry(t).key = ctype(t) /\ SharedEntry(t).key = ctype(t)
BY DEF StructEntry, SharedEntry

(* Those of a sequence of IOs, under the keys of a dictionary.               *)
Entries(ios) == FlattenSeq([k \in DOMAIN ios |-> CreateType(ios[k].type)])

LEMMA TableOf ==
  ASSUME NEW ios, IsSequence(ios), \A k \in DOMAIN ios : TypeMade(ios[k].type)
  PROVE  TypeTable(Firsts(Entries(ios), [k \in DOMAIN Entries(ios) |-> Entries(ios)[k].key]),
                   {ios[k].type : k \in DOMAIN ios})
<1> DEFINE U == {ios[k].type : k \in DOMAIN ios}
           P == [k \in DOMAIN ios |-> CreateType(ios[k].type)]
           E == {StructEntry(t) : t \in U} \cup {StructEntry(t.of) : t \in U}
                \cup {SharedEntry(t) : t \in U}
           F == FlattenSeq(P)
           keys == [k \in DOMAIN F |-> F[k].key]
           types == Firsts(F, keys)
<1>1. Len(ios) \in Nat /\ DOMAIN ios = 1..Len(ios)
  BY SequenceIs
<1>2. \A t \in U : TypeMade(t)
  OBVIOUS
<1>3. ASSUME NEW t \in U PROVE CreateType(t) \in Seq(E)
  <2>1. StructEntry(t) \in E /\ StructEntry(t.of) \in E /\ SharedEntry(t) \in E
    OBVIOUS
  <2> HIDE DEF E
  <2>2. /\ <<>> \in Seq(E) /\ <<StructEntry(t)>> \in Seq(E)
        /\ <<SharedEntry(t)>> \in Seq(E)
        /\ <<StructEntry(t.of), SharedEntry(t)>> \in Seq(E)
    BY <2>1
  <2>3. QED
    BY <1>2, <2>2, CreateTypeIs
<1> HIDE DEF E
<1>4. P \in Seq(Seq(E)) /\ Len(P) = Len(ios)
  <2>1. P \in [1..Len(ios) -> Seq(E)] /\ DOMAIN P = 1..Len(ios)
    BY <1>1, <1>3
  <2> HIDE DEF P
  <2>2. P \in Seq(Seq(E))
    BY <1>1, <2>1, SeqDef
  <2>3. QED
    BY <1>1, <2>1, <2>2, LenProperties
<1>5. \A k \in 1..Len(ios) : P[k] = CreateType(ios[k].type) /\ ios[k].type \in U
  BY <1>1
<1>6. \A t \in U : \E k \in 1..Len(ios) : t = ios[k].type
  BY <1>1
<1> HIDE DEF P, U
<1>7. /\ F \in Seq(E)
      /\ \A k \in 1..Len(P) : Holds(F, P[k])
      /\ \A j \in 1..Len(F) :
           \E k \in 1..Len(P) : \E o : HoldsAt(F, P[k], o) /\ j - o \in 1..Len(P[k])
  BY <1>4, FlattenIs
<1> HIDE DEF F
<1>8. /\ DOMAIN F = 1..Len(F) /\ Len(F) \in Nat
      /\ \A j \in 1..Len(F) : keys[j] = F[j].key
  BY <1>7
<1>9. PICK n \in Nat : \E e \in [1..n -> 1..Len(F)] : AreFirst(F, keys, n, e)
  <2> HIDE DEF keys
  <2>1. QED
    BY <1>7, FirstsAre
<1>10. PICK e \in [1..n -> 1..Len(F)] : AreFirst(F, keys, n, e)
  BY <1>9
<1> HIDE DEF keys
<1>11. /\ types = [k \in 1..n |-> F[e[k]]]
       /\ \A j, k \in 1..n : j < k => e[j] < e[k]
       /\ \A j, k \in 1..n : keys[e[j]] = keys[e[k]] => j = k
       /\ \A i \in 1..Len(F) : \E k \in 1..n : e[k] <= i /\ keys[e[k]] = keys[i]
  BY <1>10 DEF AreFirst
<1>12. /\ DOMAIN types = 1..n /\ \A k \in 1..n : types[k] = F[e[k]]
       /\ \A k \in 1..n : types[k].key = keys[e[k]] /\ e[k] \in 1..Len(F)
       /\ types \in [1..n -> E]
  <2>1. \A k \in 1..n : e[k] \in 1..Len(F) /\ F[e[k]] \in E
    <3>1. \A i \in 1..Len(F) : F[i] \in E
      BY <1>7
    <3>2. QED
      BY <3>1
  <2> HIDE DEF types
  <2>2. DOMAIN types = 1..n /\ \A k \in 1..n : types[k] = F[e[k]]
    BY <1>11
  <2>3. types \in [1..n -> E]
    BY <1>11, <2>1
  <2>4. QED
    BY <1>8, <2>1, <2>2, <2>3
<1> HIDE DEF types
<1>13. IsSequence(types)
  <2>1. types \in Seq(E)
    BY <1>12, SeqDef
  <2>2. QED
    BY <2>1, SequenceOf
<1>14. ASSUME NEW k \in 1..n
       PROVE  \E t \in U :
         \/ t.class = "CStructType" /\ types[k] = StructEntry(t)
         \/ t.class = "SharedType" /\ t.of.class # "CType" /\ types[k] = StructEntry(t.of)
         \/ /\ t.class = "SharedType" /\ types[k] = SharedEntry(t)
            /\ t.of.class # "CType" => \E j \in 1..(k - 1) : types[j].key = ctype(t.of)
  <2> DEFINE j == e[k]
  <2>1. j \in 1..Len(F) /\ types[k] = F[j]
    BY <1>12
  <2> HIDE DEF j
  <2>2. PICK m \in 1..Len(P) : \E o : HoldsAt(F, P[m], o) /\ j - o \in 1..Len(P[m])
    BY <1>7, <2>1
  <2>3. PICK o : HoldsAt(F, P[m], o) /\ j - o \in 1..Len(P[m])
    BY <2>2
  <2> DEFINE t == ios[m].type
             c == CreateType(t)
             i == j - o
  <2>4. t \in U /\ P[m] = c /\ TypeMade(t)
    BY <1>2, <1>4, <1>5
  <2>5. /\ o \in Nat /\ o + Len(c) <= Len(F) /\ i \in 1..Len(c)
        /\ \A h \in 1..Len(c) : F[o + h] = c[h]
    BY <2>3, <2>4 DEF HoldsAt
  <2>6. F[j] = c[i]
    <3>1. o + i = j
      BY <2>1, <2>5
    <3>2. QED
      BY <2>5, <3>1
  <2>7. j - 1 = o + (i - 1) /\ j \in Nat
    BY <2>1, <2>5
  <2> HIDE DEF c, i, t
  <2>8. CASE t.class = "CType" /\ c = <<>>
    BY <2>5, <2>8
  <2>9. CASE t.class = "CStructType" /\ c = <<StructEntry(t)>>
    BY <2>1, <2>4, <2>5, <2>6, <2>9
  <2>10. CASE t.class = "SharedType" /\ t.of.class = "CType" /\ c = <<SharedEntry(t)>>
    BY <2>1, <2>4, <2>5, <2>6, <2>10
  <2>11. CASE /\ t.class = "SharedType" /\ t.of.class # "CType"
              /\ c = <<StructEntry(t.of), SharedEntry(t)>>
    <3>1. i \in 1..2 /\ c[1] = StructEntry(t.of) /\ c[2] = SharedEntry(t)
      BY <2>5, <2>11
    <3>2. CASE i = 1
      BY <2>1, <2>4, <2>6, <2>11, <3>1, <3>2
    <3>3. CASE i = 2
      <4>1. F[j - 1] = StructEntry(t.of) /\ j - 1 \in 1..Len(F)
        <5>1. 1 \in 1..Len(c) /\ Len(c) = 2
          BY <2>11
        <5>2. j - 1 = o + 1
          BY <2>7, <3>3
        <5>3. QED
          BY <1>8, <2>5, <3>1, <5>1, <5>2
      <4>2. keys[j - 1] = ctype(t.of)
        BY <1>8, <4>1, EntryKeys
      <4>3. PICK h \in 1..n : e[h] <= j - 1 /\ keys[e[h]] = keys[j - 1]
        BY <1>11, <4>1
      <4>4. e[h] < e[k] /\ e[h] \in Nat /\ e[k] \in Nat
        BY <1>12, <4>3, <2>1 DEF j
      <4>5. h < k
        <5>1. k < h => e[k] < e[h]
          BY <1>11
        <5>2. e[h] # e[k] /\ ~(e[k] < e[h])
          BY <4>4
        <5>3. h # k
          BY <5>2
        <5>4. QED
          BY <1>9, <5>1, <5>2, <5>3
      <4>6. h \in 1..(k - 1)
        BY <1>9, <4>5
      <4>7. types[h].key = ctype(t.of)
        BY <1>12, <4>2, <4>3
      <4>8. QED
        BY <2>1, <2>4, <2>6, <2>11, <3>1, <3>3, <4>6, <4>7
    <3>4. QED
      BY <3>1, <3>2, <3>3
  <2>12. QED
    BY <2>4, <2>8, <2>9, <2>10, <2>11, CreateTypeIs DEF c
<1>15. ASSUME NEW t \in U, t.class # "CType"
       PROVE  \E k \in 1..n : types[k].key = ctype(t)
  <2>1. PICK m \in 1..Len(ios) : t = ios[m].type
    BY <1>6
  <2>2. P[m] = CreateType(t) /\ m \in 1..Len(P)
    BY <1>4, <1>5, <2>1
  <2>3. PICK o : HoldsAt(F, P[m], o)
    BY <1>7, <2>2 DEF Holds
  <2> DEFINE c == CreateType(t)
  <2>4. /\ o \in Nat /\ o + Len(c) <= Len(F)
        /\ \A h \in 1..Len(c) : F[o + h] = c[h]
    BY <2>2, <2>3 DEF HoldsAt
  <2>5. \E h \in 1..Len(c) : Len(c) \in Nat /\ c[h].key = ctype(t)
    <3>1. \/ c = <<StructEntry(t)>> \/ c = <<SharedEntry(t)>>
          \/ c = <<StructEntry(t.of), SharedEntry(t)>>
      BY <1>2, <1>15, CreateTypeIs
    <3> HIDE DEF c
    <3>2. CASE c = <<StructEntry(t)>> \/ c = <<SharedEntry(t)>>
      <4>1. Len(c) = 1 /\ c[1].key = ctype(t)
        BY <3>2, EntryKeys
      <4>2. QED
        BY <4>1
    <3>3. CASE c = <<StructEntry(t.of), SharedEntry(t)>>
      <4>1. Len(c) = 2 /\ c[2].key = ctype(t)
        BY <3>3, EntryKeys
      <4>2. QED
        BY <4>1
    <3>4. QED
      BY <3>1, <3>2, <3>3
  <2> HIDE DEF c
  <2>6. PICK h \in 1..Len(c) : Len(c) \in Nat /\ c[h].key = ctype(t)
    BY <2>5
  <2>7. o + h \in 1..Len(F) /\ F[o + h].key = ctype(t)
    BY <1>8, <2>4, <2>6
  <2>8. PICK k \in 1..n : keys[e[k]] = keys[o + h]
    BY <1>11, <2>7
  <2>9. QED
    BY <1>8, <1>12, <2>7, <2>8
<1>16. TypeTable(types, U)
  <2>1. \A j, k \in 1..n : types[j].key = types[k].key => j = k
    BY <1>11, <1>12
  <2>2. QED
    BY <1>12, <1>13, <1>14, <1>15, <2>1 DEF TypeTable
<1>17. QED
  BY <1>16 DEF types, F, P, U, keys, Entries

(* The IOs of a node side by side.                                           *)
LEMMA IOsOf ==
  ASSUME NEW n, NodeMade(n)
  PROVE  LET b == n.ins \o n.outs
         IN  /\ b \in Seq({b[j] : j \in DOMAIN b})
             /\ \A io : (\E j \in DOMAIN b : b[j] = io) <=> PortAt(n, io)
<1> DEFINE b == n.ins \o n.outs
           R == {n.ins[k] : k \in DOMAIN n.ins} \cup {n.outs[k] : k \in DOMAIN n.outs}
<1>1. ToSet(b) = R
  BY ToSetOfBoth DEF NodeMade, IOsMade
<1>2. n.ins \in Seq(R) /\ n.outs \in Seq(R)
  <2>1. /\ n.ins \in Seq({n.ins[k] : k \in DOMAIN n.ins})
        /\ n.outs \in Seq({n.outs[k] : k \in DOMAIN n.outs})
    BY SequenceIs DEF NodeMade, IOsMade
  <2>2. ASSUME NEW A, NEW B, NEW u \in Seq(A), A \subseteq B PROVE u \in Seq(B)
    BY <2>2
  <2>3. QED
    BY <2>1, <2>2
<1> HIDE DEF R
<1>3. b \in Seq(R)
  BY <1>2
<1> HIDE DEF b
<1>4. IsSequence(b)
  BY <1>3, SequenceOf
<1>5. \A io : (\E j \in DOMAIN b : b[j] = io) <=> io \in R
  BY <1>1 DEF ToSet
<1>6. \A io : io \in R <=> PortAt(n, io)
  BY DEF R, PortAt
<1>7. QED
  BY <1>4, <1>5, <1>6, SequenceIs DEF b

LEMMA PortMade ==
  ASSUME NEW n, NodeMade(n), NEW io, PortAt(n, io)
  PROVE  IOMade(io) /\ TypeMade(io.type) /\ ConstraintMade(io.constraint)
BY DEF NodeMade, PortAt, IOsMade, IOMade

(* The custom types of a graph are those of the nodes that its edges meet.   *)
TypesMet(g, U) ==
  /\ TypeTable(CustomTypes(g), U)
  /\ \A t \in U : /\ TypeMade(t)
                  /\ \E x, io : MetBy(g, x) /\ PortAt(g.objects[x], io) /\ io.type = t
  /\ \A x, io : MetBy(g, x) /\ PortAt(g.objects[x], io) => io.type \in U

LEMMA MetObjects ==
  ASSUME NEW g, GraphMade(g), g.constants = <<>>
  PROVE  \A x : MetBy(g, x) => /\ x \in DOMAIN g.objects /\ ~IsConstant(x)
                               /\ NodeMade(g.objects[x])
                               /\ \E k \in DOMAIN g.edges :
                                    x \in {g.edges[k].src.node, g.edges[k].dst.node}
<1>1. DOMAIN g.constants = 1..0
  OBVIOUS
<1>2. ASSUME NEW x, MetBy(g, x)
      PROVE  \E k \in DOMAIN g.edges : x \in {g.edges[k].src.node, g.edges[k].dst.node}
  BY <1>1, <1>2 DEF MetBy
<1>3. ASSUME NEW x, MetBy(g, x) PROVE x \in DOMAIN g.objects
  BY <1>2, <1>3 DEF GraphMade, EdgeMade, EndMade
<1>4. ASSUME NEW x \in DOMAIN g.objects PROVE ~IsConstant(x) /\ NodeMade(g.objects[x])
  BY <1>4 DEF GraphMade, ObjectMade, IsConstant, NoNumber
<1>5. QED
  BY <1>2, <1>3, <1>4

LEMMA CustomTypesAre ==
  ASSUME NEW g, GraphMade(g), g.constants = <<>>
  PROVE  \E U : TypesMet(g, U)
<1> DEFINE met == NodesMet(g)
           b(n) == n.ins \o n.outs
           ss == [k \in DOMAIN met |-> IF IsConstant(met[k]) THEN <<>>
                                       ELSE g.objects[met[k]].ins \o g.objects[met[k]].outs]
           ios == FlattenSeq(ss)
           R == UNION {{b(g.objects[met[k]])[j] : j \in DOMAIN b(g.objects[met[k]])} :
                         k \in DOMAIN met}
           U == {ios[k].type : k \in DOMAIN ios}
<1>1. CustomTypes(g) =
        Firsts(Entries(ios), [k \in DOMAIN Entries(ios) |-> Entries(ios)[k].key])
  BY DEF CustomTypes, Entries
<1>2. /\ IsSequence(met)
      /\ \A k \in DOMAIN met : MetBy(g, met[k])
      /\ \A x : MetBy(g, x) => \E k \in DOMAIN met : met[k] = x
  BY MetAre DEF GraphMade
<1>3. Len(met) \in Nat /\ DOMAIN met = 1..Len(met)
  BY <1>2, SequenceIs
<1> HIDE DEF met
<1>4. \A x : MetBy(g, x) => /\ x \in DOMAIN g.objects /\ ~IsConstant(x)
                            /\ NodeMade(g.objects[x])
  BY MetObjects
<1>5. \A k \in DOMAIN met : ss[k] = b(g.objects[met[k]])
  BY <1>2, <1>4
<1>6. \A k \in DOMAIN met : NodeMade(g.objects[met[k]])
  BY <1>2, <1>4
<1>7. ASSUME NEW k \in DOMAIN met
      PROVE  /\ ss[k] \in Seq(R)
             /\ \A io : (\E j \in DOMAIN ss[k] : ss[k][j] = io) <=>
                          PortAt(g.objects[met[k]], io)
  <2> DEFINE n == g.objects[met[k]]
             c == n.ins \o n.outs
  <2>1. /\ c \in Seq({c[j] : j \in DOMAIN c})
        /\ \A io : (\E j \in DOMAIN c : c[j] = io) <=> PortAt(n, io)
    BY <1>6, IOsOf
  <2>2. ss[k] = c
    BY <1>5
  <2>3. {c[j] : j \in DOMAIN c} \subseteq R
    OBVIOUS
  <2>4. ASSUME NEW A, NEW B, NEW u \in Seq(A), A \subseteq B PROVE u \in Seq(B)
    BY <2>4
  <2> HIDE DEF n, c, R, ss
  <2>5. c \in Seq(R)
    BY <2>1, <2>3, <2>4
  <2>6. QED
    BY <2>1, <2>2, <2>5 DEF n
<1> HIDE DEF R
<1>8. ss \in Seq(Seq(R)) /\ DOMAIN ss = DOMAIN met
  <2>1. ss \in [1..Len(met) -> Seq(R)] /\ DOMAIN ss = DOMAIN met
    BY <1>3, <1>7
  <2> HIDE DEF ss
  <2>2. QED
    BY <1>3, <2>1, SeqDef
<1> HIDE DEF ss
<1>9. /\ ios \in Seq(R)
      /\ \A k \in DOMAIN ss : \A i \in DOMAIN ss[k] :
           \E j \in DOMAIN ios : ios[j] = ss[k][i]
      /\ \A j \in DOMAIN ios : \E k \in DOMAIN ss : \E i \in DOMAIN ss[k] :
           ios[j] = ss[k][i]
  BY <1>8, FlattenElements
<1> HIDE DEF ios
<1>10. \A j \in DOMAIN ios : \E x : MetBy(g, x) /\ PortAt(g.objects[x], ios[j])
  <2>1. TAKE j \in DOMAIN ios
  <2>2. PICK k \in DOMAIN met : \E i \in DOMAIN ss[k] : ios[j] = ss[k][i]
    BY <1>8, <1>9
  <2>3. PortAt(g.objects[met[k]], ios[j])
    BY <1>7, <2>2
  <2>4. QED
    BY <1>2, <2>3
<1>11. ASSUME NEW x, NEW io, MetBy(g, x), PortAt(g.objects[x], io)
       PROVE  \E j \in DOMAIN ios : ios[j] = io
  <2>1. PICK k \in DOMAIN met : met[k] = x
    BY <1>2, <1>11
  <2>2. PICK i \in DOMAIN ss[k] : ss[k][i] = io
    BY <1>7, <1>11, <2>1
  <2>3. QED
    BY <1>8, <1>9, <2>2
<1>12. \A j \in DOMAIN ios : TypeMade(ios[j].type)
  BY <1>4, <1>10, PortMade
<1>13. TypeTable(CustomTypes(g), U)
  <2>1. IsSequence(ios)
    BY <1>9, SequenceOf
  <2>2. QED
    BY <1>1, <1>12, <2>1, TableOf
<1>14. TypesMet(g, U)
  BY <1>10, <1>11, <1>12, <1>13 DEF TypesMet
<1>15. QED
  BY <1>14

(* The numbers of the functions.                                             *)
CountsMade(count) == \A f \in DOMAIN count : count[f] \in Nat

LEMMA CountIs ==
  ASSUME NEW count, CountsMade(count), NEW f
  PROVE  Count(count, f) \in Nat
BY DEF CountsMade, Count

Before(nodes, k, f) == {j \in 1..(k - 1) : IsFunction(nodes[j]) /\ nodes[j].kind = f}

LEMMA BeforeGrows ==
  ASSUME NEW nodes, NEW j \in Nat, NEW k \in Nat, NEW f
  PROVE  /\ Cardinality(Before(nodes, k, f)) \in Nat
         /\ 1 <= j /\ j < k /\ IsFunction(nodes[j]) /\ nodes[j].kind = f =>
              Cardinality(Before(nodes, j, f)) < Cardinality(Before(nodes, k, f))
<1>1. ASSUME NEW i \in Nat
      PROVE  IsFiniteSet(Before(nodes, i, f)) /\ Cardinality(Before(nodes, i, f)) \in Nat
  <2>1. IsFiniteSet(1..(i - 1))
    BY FS_Interval
  <2>2. Before(nodes, i, f) \subseteq 1..(i - 1)
    BY DEF Before
  <2>3. QED
    BY <2>1, <2>2, FS_Subset, FS_CardinalityType
<1>2. ASSUME 1 <= j, j < k, IsFunction(nodes[j]), nodes[j].kind = f
      PROVE  Cardinality(Before(nodes, j, f)) < Cardinality(Before(nodes, k, f))
  <2>1. Before(nodes, j, f) \subseteq Before(nodes, k, f)
    BY <1>2 DEF Before
  <2>2. j \in Before(nodes, k, f) /\ j \notin Before(nodes, j, f)
    BY <1>2 DEF Before
  <2>3. /\ Cardinality(Before(nodes, j, f)) <= Cardinality(Before(nodes, k, f))
        /\ Cardinality(Before(nodes, j, f)) = Cardinality(Before(nodes, k, f)) =>
             Before(nodes, j, f) = Before(nodes, k, f)
    BY <1>1, <2>1, FS_Subset
  <2>4. QED
    BY <1>1, <2>2, <2>3
<1>3. QED
  BY <1>1, <1>2

(* A node but for its number.                                                *)
Renames(r, m) ==
  /\ NodeMade(r) /\ (PortableNode(m) => PortableNode(r))
  /\ r.class = m.class /\ r.kind = m.kind /\ r.identified = m.identified
  /\ r.ins = m.ins /\ r.outs = m.outs /\ r.args = m.args /\ r.argsDesc = m.argsDesc

LEMMA NumberedAre ==
  ASSUME NEW nodes, IsSequence(nodes), \A k \in DOMAIN nodes : NodeMade(nodes[k]),
         NEW count, CountsMade(count)
  PROVE  LET r == Numbered(nodes, count)
         IN  /\ DOMAIN r = DOMAIN nodes
             /\ \A k \in DOMAIN nodes :
                  /\ Renames(r[k], nodes[k])
                  /\ ~IsFunction(nodes[k]) => r[k].id = nodes[k].id
                  /\ IsFunction(nodes[k]) => r[k].id[2] > 0 /\ r[k].id[2] \in Nat
             /\ \A j, k \in DOMAIN nodes :
                  /\ IsFunction(nodes[j]) /\ IsFunction(nodes[k])
                  /\ r[j].id = r[k].id
                  => j = k
<1> DEFINE r == Numbered(nodes, count)
           number(k) == Count(count, nodes[k].kind)
                          + Cardinality(Before(nodes, k, nodes[k].kind)) + 1
           id(k) == <<nodes[k].kind, number(k)>>
<1>1. Len(nodes) \in Nat /\ DOMAIN nodes = 1..Len(nodes)
  BY SequenceIs
<1>2. /\ DOMAIN r = DOMAIN nodes
      /\ \A k \in DOMAIN nodes :
           r[k] = IF ~IsFunction(nodes[k]) THEN nodes[k]
                  ELSE [nodes[k] EXCEPT !.id = id(k)]
  BY DEF Numbered, Before
<1>3. \A k \in DOMAIN nodes : /\ number(k) \in Nat /\ number(k) > 0
                              /\ id(k)[1] = nodes[k].kind /\ id(k)[2] = number(k)
                              /\ id(k) = <<id(k)[1], id(k)[2]>>
  <2>1. TAKE k \in DOMAIN nodes
  <2>2. k \in Nat
    BY <1>1
  <2>3. /\ Count(count, nodes[k].kind) \in Nat
        /\ Cardinality(Before(nodes, k, nodes[k].kind)) \in Nat
    BY <2>2, CountIs, BeforeGrows
  <2>4. QED
    BY <2>3
<1> HIDE DEF r, id
<1>4. ASSUME NEW k \in DOMAIN nodes
      PROVE  /\ Renames(r[k], nodes[k])
             /\ ~IsFunction(nodes[k]) => r[k].id = nodes[k].id
             /\ IsFunction(nodes[k]) => r[k].id = id(k)
  <2>1. CASE ~IsFunction(nodes[k])
    BY <1>2, <2>1 DEF Renames
  <2>2. CASE IsFunction(nodes[k])
    <3>1. r[k] = [nodes[k] EXCEPT !.id = id(k)]
      BY <1>2, <2>2
    <3>3. NodeMade(nodes[k])
      OBVIOUS
    <3> DEFINE i == id(k)
               m == nodes[k]
               s == r[k]
    <3> HIDE DEF i, m, s
    <3>a. NodeMade(m) /\ IsFunction(m)
      BY <2>2, <3>3 DEF m
    <3>b. i = <<i[1], i[2]>> /\ i[2] \in Nat
      BY <1>3 DEF i
    <3>c. s = [m EXCEPT !.id = i]
      BY <3>1 DEF i, m, s
    <3>d. i[2] \in IF IsFunction(m) THEN Nat ELSE {0}
      BY <3>a, <3>b
    <3>5. /\ NodeMade(s) /\ s.id = i
          /\ s.class = m.class /\ s.kind = m.kind /\ s.identified = m.identified
          /\ s.ins = m.ins /\ s.outs = m.outs /\ s.args = m.args
          /\ s.argsDesc = m.argsDesc
          /\ PortableNode(m) => PortableNode(s)
      BY <3>a, <3>b, <3>c, <3>d, Renumbered
    <3>6. Renames(s, m) /\ s.id = i
      BY <3>5 DEF Renames
    <3>7. QED
      BY <2>2, <3>6 DEF i, m, s
  <2>3. QED
    BY <2>1, <2>2
<1>5. ASSUME NEW j \in DOMAIN nodes, NEW k \in DOMAIN nodes,
             IsFunction(nodes[j]), IsFunction(nodes[k]), r[j].id = r[k].id
      PROVE  j = k
  <2> DEFINE f == nodes[k].kind
             cj == Cardinality(Before(nodes, j, f))
             ck == Cardinality(Before(nodes, k, f))
  <2>1. id(j) = id(k)
    BY <1>4, <1>5
  <2>2. nodes[j].kind = f /\ number(j) = number(k)
    BY <1>3, <2>1
  <2>3. j \in Nat /\ k \in Nat /\ 1 <= j /\ 1 <= k
    BY <1>1
  <2>4. Count(count, f) \in Nat /\ cj \in Nat /\ ck \in Nat
    BY <2>3, CountIs, BeforeGrows
  <2>5. cj = ck
    <3>1. Count(count, f) + cj + 1 = Count(count, f) + ck + 1
      BY <2>2
    <3> HIDE DEF cj, ck
    <3>2. QED
      BY <2>4, <3>1
  <2>6. ~(j < k) /\ ~(k < j)
    <3>1. j < k => cj < ck
      BY <1>5, <2>2, <2>3, BeforeGrows
    <3>2. k < j => ck < cj
      BY <1>5, <2>2, <2>3, BeforeGrows
    <3> HIDE DEF cj, ck
    <3>3. QED
      BY <2>4, <2>5, <3>1, <3>2
  <2>7. QED
    BY <2>3, <2>6
<1>6. \A k \in DOMAIN nodes :
        IsFunction(nodes[k]) => r[k].id[2] > 0 /\ r[k].id[2] \in Nat
  BY <1>3, <1>4
<1>7. QED
  BY <1>2, <1>4, <1>5, <1>6 DEF r

LEMMA CountedIs ==
  ASSUME NEW nodes, IsSequence(nodes), NEW count, CountsMade(count)
  PROVE  CountsMade(CountedBy(nodes, count))
<1> DEFINE S(f) == {k \in DOMAIN nodes : IsFunction(nodes[k]) /\ nodes[k].kind = f}
<1>1. Len(nodes) \in Nat /\ DOMAIN nodes = 1..Len(nodes)
  BY SequenceIs
<1>2. ASSUME NEW f PROVE Cardinality(S(f)) \in Nat
  <2>1. IsFiniteSet(1..Len(nodes)) /\ S(f) \subseteq 1..Len(nodes)
    BY <1>1, FS_Interval
  <2>2. QED
    BY <2>1, FS_Subset, FS_CardinalityType
<1>3. \A f \in DOMAIN CountedBy(nodes, count) :
        CountedBy(nodes, count)[f] = Count(count, f) + Cardinality(S(f))
  BY DEF CountedBy
<1> HIDE DEF S
<1>4. QED
  BY <1>2, <1>3, CountIs DEF CountsMade

(* The file of a graph without constants.                                    *)
LEMMA DocIs ==
  ASSUME NEW g, GraphMade(g), g.constants = <<>>
  PROVE  LET doc == ExportedGraph(g)
         IN  /\ doc.FIFO = Only(g.defaultFIFOClass # StreamFIFO, g.defaultFIFOClass)
             /\ Get(doc.FIFO, StreamFIFO) = g.defaultFIFOClass
             /\ Get(doc.Duplicate, "Duplicate") = g.duplicateNodeClassName
             /\ doc.custom_types = CustomTypes(g)
             /\ DOMAIN doc.nodes = DOMAIN NodesMet(g)
             /\ \A k \in DOMAIN NodesMet(g) :
                  doc.nodes[k] = YAMLNode(g.objects[NodesMet(g)[k]])
             /\ DOMAIN doc.edges = DOMAIN g.edges /\ IsSequence(doc.edges)
             /\ \A k \in DOMAIN g.edges : doc.edges[k] = YAMLEdge(g, g.edges[k])
<1> DEFINE doc == ExportedGraph(g)
           met == NodesMet(g)
           es == [k \in DOMAIN g.edges |-> YAMLEdge(g, g.edges[k])]
           cs == [k \in DOMAIN g.constants |-> YAMLConstantEdge(g, g.constants[k])]
<1>1. /\ doc.FIFO = Only(g.defaultFIFOClass # StreamFIFO, g.defaultFIFOClass)
      /\ doc.Duplicate = Only(g.duplicateNodeClassName # "Duplicate",
                              g.duplicateNodeClassName)
      /\ doc.custom_types = CustomTypes(g) /\ doc.nodes = YAMLNodes(g)
      /\ doc.edges = cs \o es
  BY DEF ExportedGraph
<1> HIDE DEF doc
<1>2. /\ Get(doc.FIFO, StreamFIFO) = g.defaultFIFOClass
      /\ Get(doc.Duplicate, "Duplicate") = g.duplicateNodeClassName
  BY <1>1 DEF Get, Has, Only
<1>3. \A k \in DOMAIN met : ~IsConstant(met[k])
  BY MetAre, MetObjects DEF GraphMade
<1>4. /\ DOMAIN YAMLNodes(g) = DOMAIN met
      /\ \A k \in DOMAIN met : YAMLNodes(g)[k] = YAMLNode(g.objects[met[k]])
  BY <1>3 DEF YAMLNodes
<1>5. cs = <<>>
  <2>1. DOMAIN g.constants = 1..0
    OBVIOUS
  <2>2. QED
    BY <2>1
<1>6. /\ es \in Seq({es[k] : k \in DOMAIN g.edges}) /\ DOMAIN es = DOMAIN g.edges
      /\ \A k \in DOMAIN g.edges : es[k] = YAMLEdge(g, g.edges[k])
  <2> DEFINE R == {es[k] : k \in DOMAIN g.edges}
  <2>1. Len(g.edges) \in Nat /\ DOMAIN g.edges = 1..Len(g.edges)
    BY SequenceIs DEF GraphMade
  <2>2. DOMAIN es = DOMAIN g.edges
    OBVIOUS
  <2>3. es \in [1..Len(g.edges) -> R]
    BY <2>1
  <2> HIDE DEF es
  <2>4. es \in Seq(R)
    <3> HIDE DEF R
    <3>1. QED
      BY <2>1, <2>3, SeqDef
  <2>5. QED
    BY <2>2, <2>4 DEF es
<1> HIDE DEF es, cs
<1>7. doc.edges = es
  BY <1>1, <1>5, <1>6
<1>8. IsSequence(es)
  BY <1>6, SequenceOf
<1>9. QED
  BY <1>1, <1>2, <1>4, <1>6, <1>7, <1>8 DEF doc

(* The objects that are made of the file, when every node can be read.       *)
ReadOf(g, x) == ImportedNode(YAMLNode(g.objects[x]), CustomTypes(g))

LEMMA ObjectsBack ==
  ASSUME NEW g, GraphMade(g), g.constants = <<>>, NEW count, CountsMade(count),
         \A x : MetBy(g, x) => Read(ReadOf(g, x), g.objects[x])
  PROVE  LET h == ImportedObjects(ExportedGraph(g), count)
         IN  /\ h.defaultFIFOClass = g.defaultFIFOClass
             /\ h.duplicateNodeClassName = g.duplicateNodeClassName
             /\ h.constants = <<>>
             /\ h = [objects |-> h.objects, defaultFIFOClass |-> h.defaultFIFOClass,
                     duplicateNodeClassName |-> h.duplicateNodeClassName,
                     edges |-> <<>>, constants |-> <<>>]
             /\ \A x : MetBy(g, x) =>
                  /\ g.objects[x].id \in DOMAIN h.objects
                  /\ Renames(h.objects[g.objects[x].id], ReadOf(g, x))
             /\ \A key \in DOMAIN h.objects : ObjectMade(key, h.objects[key])
             /\ \A j, k \in DOMAIN h.objects :
                  h.objects[j].id = h.objects[k].id => j = k
<1> DEFINE doc == ExportedGraph(g)
           h == ImportedObjects(doc, count)
           met == NodesMet(g)
           read == ImportedNodes(doc)
           nodes == Numbered(read, count)
           objects == [key \in {doc.nodes[k].node : k \in DOMAIN doc.nodes} |->
                         nodes[CHOOSE k \in DOMAIN nodes : doc.nodes[k].node = key]]
<1>1. /\ Get(doc.FIFO, StreamFIFO) = g.defaultFIFOClass
      /\ Get(doc.Duplicate, "Duplicate") = g.duplicateNodeClassName
      /\ doc.custom_types = CustomTypes(g)
      /\ DOMAIN doc.nodes = DOMAIN met
      /\ \A k \in DOMAIN met : doc.nodes[k] = YAMLNode(g.objects[met[k]])
  BY DocIs
<1> HIDE DEF doc
<1>2. h = [EmptyGraph(objects) EXCEPT !.defaultFIFOClass = Get(doc.FIFO, StreamFIFO),
                                      !.duplicateNodeClassName = Get(doc.Duplicate, "Duplicate")]
  BY DEF ImportedObjects
<1> HIDE DEF objects, h
<1>3. h = [objects |-> objects, defaultFIFOClass |-> Get(doc.FIFO, StreamFIFO),
           duplicateNodeClassName |-> Get(doc.Duplicate, "Duplicate"),
           edges |-> <<>>, constants |-> <<>>]
  BY <1>2 DEF EmptyGraph
<1>4. /\ IsSequence(met)
      /\ \A k \in DOMAIN met : MetBy(g, met[k])
      /\ \A x : MetBy(g, x) => \E k \in DOMAIN met : met[k] = x
      /\ \A j, k \in DOMAIN met : met[j] = met[k] => j = k
  BY MetAre DEF GraphMade
<1>5. Len(met) \in Nat /\ DOMAIN met = 1..Len(met)
  BY <1>4, SequenceIs
<1> HIDE DEF met
<1>6. \A x : MetBy(g, x) => x \in DOMAIN g.objects /\ NodeMade(g.objects[x])
  BY MetObjects
<1>7. DOMAIN read = DOMAIN met /\ \A k \in DOMAIN met : read[k] = ReadOf(g, met[k])
  BY <1>1 DEF ImportedNodes, ReadOf
<1>8. IsSequence(read)
  <2> DEFINE R == {read[k] : k \in DOMAIN met}
  <2>1. read \in [1..Len(met) -> R]
    BY <1>1, <1>5 DEF ImportedNodes
  <2> HIDE DEF R, read
  <2>2. read \in Seq(R)
    BY <1>5, <2>1, SeqDef
  <2>3. QED
    BY <2>2, SequenceOf
<1> HIDE DEF read
<1>9. \A k \in DOMAIN met : Read(read[k], g.objects[met[k]])
  BY <1>4, <1>7
<1>10. \A k \in DOMAIN read : NodeMade(read[k])
  BY <1>7, <1>9 DEF Read
<1>11. /\ DOMAIN nodes = DOMAIN met
       /\ \A k \in DOMAIN met :
            /\ Renames(nodes[k], read[k])
            /\ ~IsFunction(read[k]) => nodes[k].id = read[k].id
            /\ IsFunction(read[k]) => nodes[k].id[2] > 0 /\ nodes[k].id[2] \in Nat
       /\ \A j, k \in DOMAIN met :
            IsFunction(read[j]) /\ IsFunction(read[k]) /\ nodes[j].id = nodes[k].id
            => j = k
  <2>1. /\ DOMAIN nodes = DOMAIN read
        /\ \A k \in DOMAIN read :
            /\ Renames(nodes[k], read[k])
            /\ ~IsFunction(read[k]) => nodes[k].id = read[k].id
            /\ IsFunction(read[k]) => nodes[k].id[2] > 0 /\ nodes[k].id[2] \in Nat
        /\ \A j, k \in DOMAIN read :
            IsFunction(read[j]) /\ IsFunction(read[k]) /\ nodes[j].id = nodes[k].id
            => j = k
    BY <1>8, <1>10, NumberedAre
  <2>2. QED
    BY <1>7, <2>1
<1> HIDE DEF nodes
<1> DEFINE name(k) == g.objects[met[k]].id
<1>12. \A k \in DOMAIN met : doc.nodes[k].node = name(k) /\ NodeMade(g.objects[met[k]])
  BY ZenonT(40), <1>1, <1>4, <1>6, YAMLNodeIs
<1>13. \A j, k \in DOMAIN met : name(j) = name(k) => j = k
  BY <1>4, <1>6 DEF GraphMade
<1> HIDE DEF name
<1>14. /\ DOMAIN objects = {name(k) : k \in DOMAIN met}
       /\ \A k \in DOMAIN met : objects[name(k)] = nodes[k]
  <2>1. DOMAIN objects = {name(k) : k \in DOMAIN met}
    BY <1>1, <1>12 DEF objects
  <2>2. ASSUME NEW k \in DOMAIN met PROVE objects[name(k)] = nodes[k]
    <3>1. (CHOOSE i \in DOMAIN nodes : doc.nodes[i].node = name(k)) = k
      BY <1>11, <1>12, <1>13
    <3>2. name(k) \in {doc.nodes[i].node : i \in DOMAIN doc.nodes}
      BY <1>1, <1>12
    <3>3. QED
      BY <3>1, <3>2 DEF objects
  <2>3. QED
    BY <2>1, <2>2
<1>15. ASSUME NEW x, MetBy(g, x)
       PROVE  /\ g.objects[x].id \in DOMAIN objects
              /\ Renames(objects[g.objects[x].id], ReadOf(g, x))
  <2>1. PICK k \in DOMAIN met : met[k] = x
    BY <1>4, <1>15
  <2>2. name(k) = g.objects[x].id
    BY <2>1 DEF name
  <2>3. QED
    BY <1>7, <1>11, <1>14, <2>1, <2>2
<1>16. \A k \in DOMAIN met :
         /\ IsFunction(read[k]) <=> IsFunction(g.objects[met[k]])
         /\ IsFunction(nodes[k]) <=> IsFunction(read[k])
         /\ ~IsFunction(read[k]) => nodes[k].id = name(k) /\ name(k)[2] = 0
         /\ name(k) = <<name(k)[1], name(k)[2]>> /\ name(k)[2] \in Nat
  <2>1. TAKE k \in DOMAIN met
  <2>2. IsFunction(read[k]) <=> IsFunction(g.objects[met[k]])
    BY <1>9 DEF Read, IsFunction, Functions_
  <2>3. IsFunction(nodes[k]) <=> IsFunction(read[k])
    BY <1>11 DEF Renames, IsFunction
  <2>4. ~IsFunction(read[k]) => read[k].id = name(k)
    BY <1>9 DEF Read, Number, IsFunction, Functions_, name
  <2>5. /\ name(k) = <<name(k)[1], name(k)[2]>>
        /\ name(k)[2] \in IF IsFunction(g.objects[met[k]]) THEN Nat ELSE {0}
    BY <1>12 DEF NodeMade, name
  <2>6. QED
    BY <1>11, <2>2, <2>3, <2>4, <2>5
<1>17. \A key \in DOMAIN objects : ObjectMade(key, objects[key])
  <2>1. TAKE key \in DOMAIN objects
  <2>2. PICK k \in DOMAIN met : key = name(k)
    BY <1>14
  <2>3. QED
    BY <1>11, <1>14, <1>16, <2>2 DEF ObjectMade, Renames
<1>18. \A a, b \in DOMAIN objects : objects[a].id = objects[b].id => a = b
  <2>1. SUFFICES ASSUME NEW j \in DOMAIN met, NEW k \in DOMAIN met,
                        nodes[j].id = nodes[k].id
                 PROVE  j = k
    BY <1>14
  <2>2. CASE IsFunction(read[j]) /\ IsFunction(read[k])
    BY <1>11, <2>1, <2>2
  <2>3. CASE ~IsFunction(read[j]) /\ ~IsFunction(read[k])
    BY <1>13, <1>16, <2>1, <2>3
  <2>4. CASE ~(IsFunction(read[j]) <=> IsFunction(read[k]))
    BY <1>11, <1>16, <2>1, <2>4
  <2>5. QED
    BY <2>2, <2>3, <2>4
<1>19. h.objects = objects
  BY <1>3
<1>20. QED
  BY <1>1, <1>3, <1>15, <1>17, <1>18, <1>19 DEF h, doc

(* The types of a graph that is read are known.                              *)
LEMMA KnownTypes ==
  ASSUME NEW g, GraphMade(g), g.constants = <<>>, ~UnknownInternal(CustomTypes(g))
  PROVE  \A x : MetBy(g, x) => /\ IOsKnown(g.objects[x].ins, CustomTypes(g))
                               /\ IOsKnown(g.objects[x].outs, CustomTypes(g))
<1> DEFINE types == CustomTypes(g)
<1>1. PICK U : TypesMet(g, U)
  BY CustomTypesAre
<1>2. TypeTable(types, U) /\ \A t \in U : TypeMade(t)
  BY <1>1 DEF TypesMet
<1>3. \A t \in U : Known_Type(types, t)
  <2> HIDE DEF types
  <2>1. ~UnknownInternal(types)
    BY DEF types
  <2>2. QED
    BY <1>2, <2>1, TypeComesBack
<1>4. ASSUME NEW x, MetBy(g, x), NEW io, PortAt(g.objects[x], io)
      PROVE  Known_Type(types, io.type)
  BY <1>1, <1>3, <1>4 DEF TypesMet
<1> HIDE DEF types
<1>5. ASSUME NEW x, MetBy(g, x)
      PROVE  IOsKnown(g.objects[x].ins, types) /\ IOsKnown(g.objects[x].outs, types)
  <2>1. /\ \A k \in DOMAIN g.objects[x].ins : PortAt(g.objects[x], g.objects[x].ins[k])
        /\ \A k \in DOMAIN g.objects[x].outs : PortAt(g.objects[x], g.objects[x].outs[k])
    BY DEF PortAt
  <2>2. QED
    BY <1>4, <1>5, <2>1 DEF IOsKnown
<1>6. QED
  BY <1>5 DEF types

LEMMA PortableMet ==
  ASSUME NEW g, GraphMade(g), Portable(g)
  PROVE  /\ g.constants = <<>> /\ ~UnknownInternal(CustomTypes(g))
         /\ \A x : MetBy(g, x) => /\ PortableNode(g.objects[x])
                                  /\ NodeMade(g.objects[x])
                                  /\ IOsKnown(g.objects[x].ins, CustomTypes(g))
                                  /\ IOsKnown(g.objects[x].outs, CustomTypes(g))
                                  /\ ~NodeRaises(YAMLNode(g.objects[x]))
                                  /\ Read(ReadOf(g, x), g.objects[x])
                                  /\ ReadOf(g, x) = Same(g.objects[x], CustomTypes(g))
<1>1. g.constants = <<>>
  BY DEF Portable
<1>2. ASSUME NEW x, MetBy(g, x)
      PROVE  PortableNode(g.objects[x]) /\ NodeMade(g.objects[x])
  <2>1. PICK k \in DOMAIN g.edges : x \in {g.edges[k].src.node, g.edges[k].dst.node}
    BY <1>1, <1>2, MetObjects
  <2>2. PortableNode(g.objects[g.edges[k].src.node])
        /\ PortableNode(g.objects[g.edges[k].dst.node])
    BY DEF Portable
  <2>3. QED
    BY <1>1, <1>2, <2>1, <2>2, MetObjects
<1>3. PICK U : TypesMet(g, U)
  BY <1>1, CustomTypesAre
<1>4. \A t \in U : TypeMade(t) /\ PortableType(t)
  <2>1. TAKE t \in U
  <2>2. PICK x, io : MetBy(g, x) /\ PortAt(g.objects[x], io) /\ io.type = t
    BY <1>3 DEF TypesMet
  <2>3. PortableType(io.type)
    BY <1>2, <2>2, PortableIs DEF PortAt
  <2>4. QED
    BY <1>3, <2>2, <2>3 DEF TypesMet
<1>5. ~UnknownInternal(CustomTypes(g))
  BY <1>3, <1>4, TypesAreKnown DEF TypesMet
<1>6. ASSUME NEW x, MetBy(g, x)
      PROVE  /\ IOsKnown(g.objects[x].ins, CustomTypes(g))
             /\ IOsKnown(g.objects[x].outs, CustomTypes(g))
  BY <1>1, <1>5, <1>6, KnownTypes
<1>7. ASSUME NEW x, MetBy(g, x)
      PROVE  /\ ~NodeRaises(YAMLNode(g.objects[x]))
             /\ ReadOf(g, x) = Same(g.objects[x], CustomTypes(g))
  BY <1>2, <1>7, PortableBack DEF ReadOf
<1>8. ASSUME NEW x, MetBy(g, x) PROVE Read(ReadOf(g, x), g.objects[x])
  BY <1>2, <1>6, <1>7, <1>8, ReadIsPortable DEF ReadOf
<1>9. QED
  BY <1>1, <1>2, <1>5, <1>6, <1>7, <1>8

(***************************************************************************)
(* Edges.                                                                    *)
(***************************************************************************)
LEMMA EdgeIs ==
  ASSUME NEW g, NEW src, NEW dst, NEW s
  PROVE  LET e == Edge(g, src, dst, s)
         IN  /\ e.src = src /\ e.dst = dst
             /\ e.class = IF s.class = None THEN g.defaultFIFOClass ELSE s.class
             /\ e.scale = s.scale /\ e.length = s.length /\ e.weak = s.weak
             /\ e.delay = s.delay
             /\ e.buffer = CustomBuffer(PortOf(g, src), PortOf(g, dst), s)
BY DEF Edge

(* What connect() adds is an edge of a graph.                                *)
LEMMA ConnectedMade ==
  ASSUME NEW g, NEW src, NEW dst, NEW s, EndMade(g, src), EndMade(g, dst),
         ~ConnectRaises(g, src, dst), SettingMade(s)
  PROVE  EdgeMade(g, Edge(g, src, dst, s))
<1> DEFINE e == Edge(g, src, dst, s)
           a == PortOf(g, src)
           b == PortOf(g, dst)
<1>1. /\ e.src = src /\ e.dst = dst
      /\ e.length = s.length /\ e.weak = s.weak /\ e.delay = s.delay
      /\ e.buffer = CustomBuffer(a, b, s)
  BY EdgeIs
<1> HIDE DEF e, a, b
<1>2. BufferMade(a, b, e.buffer)
  BY <1>1 DEF BufferMade, CustomBuffer
<1>3. /\ e.length \in Nat \cup {NoNumber} /\ e.delay \in Nat \cup {NoNumber}
      /\ e.weak \in BOOLEAN
  BY <1>1 DEF SettingMade
<1>4. BufferMade(PortOf(g, e.src), PortOf(g, e.dst), e.buffer)
  BY <1>1, <1>2 DEF a, b
<1>5. EdgeMade(g, e)
  BY <1>1, <1>3, <1>4 DEF EdgeMade
<1>6. QED
  BY <1>5 DEF e

(* The settings that come from the file for an edge.                         *)
LEMMA SettingIs ==
  ASSUME NEW g, NEW e, e.length \in Nat \cup {NoNumber}, e.delay \in Nat \cup {NoNumber},
         e.weak \in BOOLEAN
  PROVE  LET y == YAMLEdge(g, e)
             s == ImportedSetting(y)
         IN  /\ y.src = YAMLEnd(g, e.src) /\ y.dst = YAMLEnd(g, e.dst)
             /\ y.class = Only(e.class # StreamFIFO, e.class)
             /\ s.class = IF e.class = StreamFIFO THEN None ELSE e.class
             /\ s.scale = IF e.scale \in {0, 1} THEN 1 ELSE e.scale
             /\ s.length = IF e.length > 0 THEN e.length ELSE NoNumber
             /\ s.delay = IF e.delay > 0 THEN e.delay ELSE NoNumber
             /\ s.weak = e.weak
             /\ SettingMade(s)
<1> DEFINE y == YAMLEdge(g, e)
           s == ImportedSetting(y)
<1>1. /\ y.src = YAMLEnd(g, e.src) /\ y.dst = YAMLEnd(g, e.dst)
      /\ y.class = Only(e.class # StreamFIFO, e.class)
      /\ y.scale = Only(e.scale \notin {0, 1}, e.scale)
      /\ y.delay = Only(e.delay > 0, e.delay)
      /\ y.async_length = Only(e.length > 0, e.length)
      /\ y.weak_edge = Only(e.weak, TRUE)
  BY DEF YAMLEdge
<1> HIDE DEF y
<1>2. /\ s.class = Get(y.class, None) /\ s.scale = Get(y.scale, 1)
      /\ s.length = Get(y.async_length, NoNumber) /\ s.delay = Get(y.delay, NoNumber)
      /\ s.weak = Get(y.weak_edge, FALSE)
  BY DEF ImportedSetting
<1> HIDE DEF s
<1>3. s.class = IF e.class = StreamFIFO THEN None ELSE e.class
  BY <1>1, <1>2 DEF Only, Get, Has
<1>4. s.scale = IF e.scale \in {0, 1} THEN 1 ELSE e.scale
  BY <1>1, <1>2 DEF Only, Get, Has
<1>5. s.length = IF e.length > 0 THEN e.length ELSE NoNumber
  BY <1>1, <1>2 DEF Only, Get, Has
<1>6. s.delay = IF e.delay > 0 THEN e.delay ELSE NoNumber
  BY <1>1, <1>2 DEF Only, Get, Has
<1>7. s.weak = e.weak
  <2>1. CASE e.weak
    BY <1>1, <1>2, <2>1 DEF Only, Get, Has
  <2>2. CASE ~e.weak
    BY <1>1, <1>2, <2>2 DEF Only, Get, Has
  <2>3. QED
    BY <2>1, <2>2
<1>8. SettingMade(s)
  BY <1>5, <1>6, <1>7 DEF SettingMade, NoNumber
<1>9. QED
  BY <1>1, <1>3, <1>4, <1>5, <1>6, <1>7, <1>8 DEF s, y

LEMMA BufferBack ==
  ASSUME NEW g, NEW e, EdgeMade(g, e), NEW a, NEW b,
         a.constraint = PortOf(g, e.src).constraint,
         b.constraint = PortOf(g, e.dst).constraint
  PROVE  CustomBuffer(a, b, ImportedSetting(YAMLEdge(g, e))) = e.buffer
<1> DEFINE c == PortOf(g, e.src)
           d == PortOf(g, e.dst)
           y == YAMLEdge(g, e)
           s == ImportedSetting(y)
<1>1. BufferMade(c, d, e.buffer)
  BY DEF EdgeMade
<1>2. y.buffer_constraint = IF c.constraint = <<>> /\ d.constraint = <<>>
                              THEN BufferConstraint(e.buffer) ELSE <<>>
  BY DEF YAMLEdge
<1> HIDE DEF y
<1>3. /\ s.buffer = IF Has(y.buffer_constraint) THEN y.buffer_constraint[1].name[1]
                                                ELSE None
      /\ s.mustBeArray = IF Has(y.buffer_constraint)
                           THEN y.buffer_constraint[1].must_be_array ELSE TRUE
  BY DEF ImportedSetting
<1>4. a.constraint = c.constraint /\ b.constraint = d.constraint
  OBVIOUS
<1> HIDE DEF c, d, s
<1>5. CASE c.constraint # <<>> \/ d.constraint # <<>>
  <2>1. CustomBuffer(a, b, s) = e.buffer
    BY <1>1, <1>4, <1>5 DEF BufferMade, CustomBuffer
  <2>2. QED
    BY <2>1 DEF s, y
<1>6. CASE c.constraint = <<>> /\ d.constraint = <<>> /\ e.buffer = <<>>
  <2>1. y.buffer_constraint = <<>>
    BY <1>2, <1>6 DEF BufferConstraint, Only
  <2>2. s.buffer = None
    BY <1>3, <2>1 DEF Has
  <2>3. CustomBuffer(a, b, s) = e.buffer
    BY <1>4, <1>6, <2>2 DEF CustomBuffer
  <2>4. QED
    BY <2>3 DEF s, y
<1>7. CASE c.constraint = <<>> /\ d.constraint = <<>> /\ e.buffer # <<>>
  <2>1. PICK name, array : /\ name # None
                           /\ e.buffer = setBufferConstraint(name, array, FALSE, TRUE)
    BY <1>1, <1>7 DEF BufferMade
  <2> DEFINE m == MkBufferConstraint(e.buffer[1])
  <2>2. m.name = <<name>> /\ m.must_be_array = array
    BY <2>1 DEF MkBufferConstraint, setBufferConstraint, Only
  <2>3. y.buffer_constraint = <<m>>
    BY <1>2, <1>7 DEF BufferConstraint, Only
  <2> HIDE DEF m
  <2>4. Has(y.buffer_constraint)
    BY <2>3 DEF Has
  <2>5. s.buffer = name /\ s.mustBeArray = array
    BY <1>3, <2>2, <2>3, <2>4
  <2>6. CustomBuffer(a, b, s) = setBufferConstraint(s.buffer, s.mustBeArray, FALSE, TRUE)
    BY <1>4, <1>7, <2>1, <2>5 DEF CustomBuffer
  <2>7. QED
    BY <2>1, <2>5, <2>6 DEF s, y
<1>8. QED
  BY <1>5, <1>6, <1>7

(* A node but for its number has the same ports.                             *)
LEMMA PortsRenamed ==
  ASSUME NEW r, NEW m, r.ins = m.ins, r.outs = m.outs, NEW name
  PROVE  (HasPort(r, name) <=> HasPort(m, name)) /\ Port(r, name) = Port(m, name)
BY DEF HasPort, Port

(* The graph that is made of the file, when every node can be read.          *)
LEMMA GraphBack ==
  ASSUME NEW g, GraphMade(g), g.constants = <<>>, NEW count, CountsMade(count),
         \A x : MetBy(g, x) => Read(ReadOf(g, x), g.objects[x])
  PROVE  LET o == ImportedObjects(ExportedGraph(g), count)
             h == ImportedGraph(ExportedGraph(g), count)
         IN  /\ h.defaultFIFOClass = g.defaultFIFOClass
             /\ h.duplicateNodeClassName = g.duplicateNodeClassName
             /\ h.constants = <<>> /\ h.objects = o.objects
             /\ DOMAIN h.edges = DOMAIN g.edges /\ IsSequence(h.edges)
             /\ \A k \in DOMAIN g.edges :
                  h.edges[k] = Edge(o, YAMLEnd(g, g.edges[k].src),
                                    YAMLEnd(g, g.edges[k].dst),
                                    ImportedSetting(YAMLEdge(g, g.edges[k])))
<1> DEFINE doc == ExportedGraph(g)
           o == ImportedObjects(doc, count)
           es == [k \in DOMAIN doc.edges |->
                    Edge(o, doc.edges[k].src, doc.edges[k].dst,
                         ImportedSetting(doc.edges[k]))]
           h == ImportedGraph(doc, count)
<1>1. /\ o.defaultFIFOClass = g.defaultFIFOClass
      /\ o.duplicateNodeClassName = g.duplicateNodeClassName
      /\ o.constants = <<>>
      /\ o = [objects |-> o.objects, defaultFIFOClass |-> o.defaultFIFOClass,
              duplicateNodeClassName |-> o.duplicateNodeClassName,
              edges |-> <<>>, constants |-> <<>>]
  BY ObjectsBack
<1>2. /\ DOMAIN doc.edges = DOMAIN g.edges /\ IsSequence(doc.edges)
      /\ \A k \in DOMAIN g.edges : doc.edges[k] = YAMLEdge(g, g.edges[k])
  BY DocIs
<1>3. \A k \in DOMAIN g.edges : /\ doc.edges[k].src = YAMLEnd(g, g.edges[k].src)
                                /\ doc.edges[k].dst = YAMLEnd(g, g.edges[k].dst)
  <2> HIDE DEF doc
  <2>1. ASSUME NEW e
        PROVE  /\ YAMLEdge(g, e).src = YAMLEnd(g, e.src)
               /\ YAMLEdge(g, e).dst = YAMLEnd(g, e.dst)
    BY DEF YAMLEdge
  <2>2. QED
    BY <1>2, <2>1
<1> HIDE DEF doc, o
<1>4. h = [o EXCEPT !.edges = es]
  BY DEF ImportedGraph, o
<1> HIDE DEF h
<1>5. DOMAIN es = DOMAIN g.edges /\ IsSequence(es)
  <2>1. DOMAIN es = DOMAIN g.edges
    BY <1>2
  <2>2. DOMAIN g.edges = 1..Len(g.edges) /\ Len(g.edges) \in Nat
    BY SequenceIs DEF GraphMade
  <2> DEFINE R == {es[k] : k \in DOMAIN g.edges}
  <2>3. es \in [1..Len(g.edges) -> R]
    BY <1>2, <2>2
  <2> HIDE DEF es, R
  <2>4. es \in Seq(R)
    BY <2>2, <2>3, SeqDef
  <2>5. QED
    BY <2>1, <2>4, SequenceOf
<1>6. \A k \in DOMAIN g.edges :
        es[k] = Edge(o, YAMLEnd(g, g.edges[k].src), YAMLEnd(g, g.edges[k].dst),
                     ImportedSetting(YAMLEdge(g, g.edges[k])))
  BY <1>2, <1>3
<1> HIDE DEF es
<1>7. /\ h.objects = o.objects /\ h.defaultFIFOClass = o.defaultFIFOClass
      /\ h.duplicateNodeClassName = o.duplicateNodeClassName
      /\ h.constants = o.constants /\ h.edges = es
  BY <1>1, <1>4
<1>8. QED
  BY <1>1, <1>5, <1>6, <1>7 DEF doc, o, h

(* A constant has an entry that no reader understands.                       *)
LEMMA ConstantRaises ==
  ASSUME NEW g, GraphMade(g), g.constants # <<>>
  PROVE  ImportRaises(ExportedGraph(g))
<1>1. 1 \in DOMAIN g.constants
  BY SomeIsFirst DEF GraphMade
<1> DEFINE c == g.constants[1]
<1>2. MetBy(g, ConstantKey(c))
  BY <1>1 DEF MetBy
<1>3. PICK k \in DOMAIN NodesMet(g) : NodesMet(g)[k] = ConstantKey(c)
  BY <1>2, MetAre DEF GraphMade
<1>4. IsConstant(NodesMet(g)[k])
  BY <1>3 DEF IsConstant, ConstantKey
<1>5. ExportedGraph(g).nodes = YAMLNodes(g)
  BY DEF ExportedGraph
<1>6. k \in DOMAIN YAMLNodes(g) /\ YAMLNodes(g)[k] = YAMLConstantNode(NodesMet(g)[k][1])
  BY <1>4 DEF YAMLNodes
<1>7. ASSUME NEW name PROVE NodeRaises(YAMLConstantNode(name))
  <2>1. YAMLConstantNode(name).identified = <<>>
    BY DEF YAMLConstantNode
  <2>2. QED
    BY <2>1 DEF NodeRaises, Has
<1>8. \E i \in DOMAIN ExportedGraph(g).nodes : NodeRaises(ExportedGraph(g).nodes[i])
  BY <1>5, <1>6, <1>7
<1>9. QED
  BY <1>8 DEF ImportRaises

(* Without an exception every node has been read.                            *)
LEMMA ReadMet ==
  ASSUME NEW g, GraphMade(g), ~ImportRaises(ExportedGraph(g))
  PROVE  /\ g.constants = <<>>
         /\ \A x : MetBy(g, x) => Read(ReadOf(g, x), g.objects[x])
<1> DEFINE doc == ExportedGraph(g)
<1>1. g.constants = <<>>
  BY ConstantRaises
<1>2. /\ ~UnknownInternal(doc.custom_types)
      /\ \A k \in DOMAIN doc.nodes : ~NodeRaises(doc.nodes[k])
  BY DEF ImportRaises
<1>3. /\ doc.custom_types = CustomTypes(g) /\ DOMAIN doc.nodes = DOMAIN NodesMet(g)
      /\ \A k \in DOMAIN NodesMet(g) :
           doc.nodes[k] = YAMLNode(g.objects[NodesMet(g)[k]])
  BY <1>1, DocIs
<1> HIDE DEF doc
<1>4. ASSUME NEW x, MetBy(g, x) PROVE ~NodeRaises(YAMLNode(g.objects[x]))
  <2>1. PICK k \in DOMAIN NodesMet(g) : NodesMet(g)[k] = x
    BY <1>4, MetAre DEF GraphMade
  <2>2. QED
    BY <1>2, <1>3, <2>1
<1>5. ASSUME NEW x, MetBy(g, x)
      PROVE  /\ IOsKnown(g.objects[x].ins, CustomTypes(g))
             /\ IOsKnown(g.objects[x].outs, CustomTypes(g))
             /\ NodeMade(g.objects[x])
  BY <1>1, <1>2, <1>3, <1>5, KnownTypes, MetObjects
<1>6. ASSUME NEW x, MetBy(g, x) PROVE Read(ReadOf(g, x), g.objects[x])
  BY <1>4, <1>5, <1>6, ReadIsPortable DEF ReadOf
<1>7. QED
  BY <1>1, <1>6

(* The ends of the edges, in the objects made with any numbers.              *)
LEMMA EndsBack ==
  ASSUME NEW g, GraphMade(g), g.constants = <<>>,
         \A x : MetBy(g, x) => Read(ReadOf(g, x), g.objects[x]),
         NEW count, CountsMade(count), NEW k \in DOMAIN g.edges,
         NEW end \in {g.edges[k].src, g.edges[k].dst}
  PROVE  LET o == ImportedObjects(ExportedGraph(g), count)
             y == YAMLEnd(g, end)
         IN  /\ MetBy(g, end.node) /\ y.node = g.objects[end.node].id
             /\ y.port = end.port
             /\ y.node \in DOMAIN o.objects
             /\ Renames(o.objects[y.node], ReadOf(g, end.node))
             /\ HasPort(o.objects[y.node], y.port) <=> HasPort(ReadOf(g, end.node), end.port)
             /\ PortOf(o, y) = Port(ReadOf(g, end.node), end.port)
<1> DEFINE o == ImportedObjects(ExportedGraph(g), count)
           y == YAMLEnd(g, end)
<1>1. MetBy(g, end.node)
  BY DEF MetBy
<1>2. y.node = g.objects[end.node].id /\ y.port = end.port
  BY DEF YAMLEnd
<1>3. /\ g.objects[end.node].id \in DOMAIN o.objects
      /\ Renames(o.objects[g.objects[end.node].id], ReadOf(g, end.node))
  BY <1>1, ObjectsBack
<1> HIDE DEF o, y
<1>4. /\ HasPort(o.objects[y.node], y.port) <=> HasPort(ReadOf(g, end.node), end.port)
      /\ Port(o.objects[y.node], y.port) = Port(ReadOf(g, end.node), end.port)
  <2>1. /\ o.objects[y.node].ins = ReadOf(g, end.node).ins
        /\ o.objects[y.node].outs = ReadOf(g, end.node).outs
    BY <1>2, <1>3 DEF Renames
  <2>2. \A name : /\ HasPort(o.objects[y.node], name) <=> HasPort(ReadOf(g, end.node), name)
                  /\ Port(o.objects[y.node], name) = Port(ReadOf(g, end.node), name)
    BY <2>1, PortsRenamed
  <2>3. QED
    BY <1>2, <2>2
<1>5. PortOf(o, y) = Port(ReadOf(g, end.node), end.port)
  BY <1>4 DEF PortOf
<1>6. QED
  BY <1>1, <1>2, <1>3, <1>4, <1>5 DEF o, y
(* What connect() says of two ends depends on their ports alone.             *)
LEMMA ConnectsAlike ==
  ASSUME NEW g, NEW h, NEW a, NEW b, NEW c, NEW d,
         PortOf(g, a) = PortOf(h, c), PortOf(g, b) = PortOf(h, d)
  PROVE  ConnectRaises(g, a, b) <=> ConnectRaises(h, c, d)
BY DEF ConnectRaises

LEMMA EdgeStays ==
  ASSUME NEW g, NEW h, g.objects = h.objects, NEW e, EdgeMade(g, e)
  PROVE  EdgeMade(h, e)
<1>1. \A end : PortOf(g, end) = PortOf(h, end) /\ (EndMade(g, end) <=> EndMade(h, end))
  BY DEF PortOf, EndMade
<1>2. ~ConnectRaises(h, e.src, e.dst)
  BY <1>1, ConnectsAlike DEF EdgeMade
<1>3. QED
  BY <1>1, <1>2 DEF EdgeMade

(* Without an exception every edge has been connected, with any numbers.     *)
LEMMA EdgesBack ==
  ASSUME NEW g, GraphMade(g), ~ImportRaises(ExportedGraph(g)),
         NEW count, CountsMade(count), NEW k \in DOMAIN g.edges
  PROVE  LET o   == ImportedObjects(ExportedGraph(g), count)
             src == YAMLEnd(g, g.edges[k].src)
             dst == YAMLEnd(g, g.edges[k].dst)
         IN  /\ EdgeMade(o, Edge(o, src, dst, ImportedSetting(YAMLEdge(g, g.edges[k]))))
             /\ PortableNode(o.objects[src.node]) /\ PortableNode(o.objects[dst.node])
<1> DEFINE doc == ExportedGraph(g)
           e == g.edges[k]
           o == ImportedObjects(doc, count)
           z == ImportedObjects(doc, <<>>)
           src == YAMLEnd(g, e.src)
           dst == YAMLEnd(g, e.dst)
           s == ImportedSetting(YAMLEdge(g, e))
<1>1. /\ g.constants = <<>>
      /\ \A x : MetBy(g, x) => Read(ReadOf(g, x), g.objects[x])
  BY ReadMet
<1>2. CountsMade(<<>>)
  BY DEF CountsMade
<1>3. /\ DOMAIN doc.edges = DOMAIN g.edges /\ doc.edges[k] = YAMLEdge(g, e)
  BY <1>1, DocIs
<1>4. ~EdgeRaises(z, doc.edges[k])
  BY <1>3 DEF ImportRaises
<1>5. EdgeMade(g, e)
  BY DEF GraphMade
<1>6. YAMLEdge(g, e).src = src /\ YAMLEdge(g, e).dst = dst /\ SettingMade(s)
  BY <1>5, SettingIs DEF EdgeMade
<1>7. /\ HasPort(z.objects[src.node], src.port) /\ HasPort(z.objects[dst.node], dst.port)
      /\ ~ConnectRaises(z, src, dst)
  BY <1>3, <1>4, <1>6 DEF EdgeRaises
<1>8. ASSUME NEW end \in {e.src, e.dst}
      PROVE  LET y == YAMLEnd(g, end)
             IN  /\ y.node \in DOMAIN o.objects
                 /\ HasPort(o.objects[y.node], y.port) <=> HasPort(z.objects[y.node], y.port)
                 /\ PortOf(o, y) = PortOf(z, y)
                 /\ PortableNode(o.objects[y.node])
  <2> DEFINE y == YAMLEnd(g, end)
  <2>1. /\ MetBy(g, end.node) /\ y.node \in DOMAIN o.objects
        /\ Renames(o.objects[y.node], ReadOf(g, end.node))
        /\ HasPort(o.objects[y.node], y.port) <=> HasPort(ReadOf(g, end.node), end.port)
        /\ PortOf(o, y) = Port(ReadOf(g, end.node), end.port)
    BY <1>1, EndsBack
  <2>2. /\ HasPort(z.objects[y.node], y.port) <=> HasPort(ReadOf(g, end.node), end.port)
        /\ PortOf(z, y) = Port(ReadOf(g, end.node), end.port)
    BY <1>1, <1>2, EndsBack
  <2>3. PortableNode(o.objects[y.node])
    BY <1>1, <2>1 DEF Read, Renames
  <2> HIDE DEF o, z
  <2>4. QED
    BY <2>1, <2>2, <2>3
<1> HIDE DEF doc, o, z, s
<1>9. /\ EndMade(o, src) /\ EndMade(o, dst)
      /\ PortOf(o, src) = PortOf(z, src) /\ PortOf(o, dst) = PortOf(z, dst)
      /\ PortableNode(o.objects[src.node]) /\ PortableNode(o.objects[dst.node])
  BY <1>7, <1>8 DEF EndMade
<1> HIDE DEF src, dst
<1>10. ~ConnectRaises(o, src, dst)
  BY <1>7, <1>9, ConnectsAlike
<1>11. EdgeMade(o, Edge(o, src, dst, s))
  BY <1>6, <1>9, <1>10, ConnectedMade
<1>12. QED
  BY <1>9, <1>11 DEF doc, o, src, dst, s

(* The classes of the FIFOs of what is made of a file.                       *)
LEMMA ClassesBack ==
  ASSUME NEW g, GraphMade(g), g.constants = <<>>, ~UnknownClass(ExportedGraph(g)),
         NEW k \in DOMAIN g.edges
  PROVE  LET c == g.edges[k].class
             d == g.defaultFIFOClass
             s == ImportedSetting(YAMLEdge(g, g.edges[k]))
             class == IF s.class = None THEN d ELSE s.class
         IN  /\ d \in Known \cup {StreamFIFO}
             /\ class \in Known \cup {StreamFIFO}
             /\ class = StreamFIFO => d = StreamFIFO
             /\ class = IF c = StreamFIFO THEN d ELSE c
<1> DEFINE doc == ExportedGraph(g)
           e == g.edges[k]
           d == g.defaultFIFOClass
           s == ImportedSetting(YAMLEdge(g, e))
<1>1. /\ doc.FIFO = Only(d # StreamFIFO, d)
      /\ DOMAIN doc.edges = DOMAIN g.edges /\ doc.edges[k] = YAMLEdge(g, e)
  BY DocIs
<1>2. ~ClassUnknown(doc.FIFO) /\ ~ClassUnknown(doc.edges[k].class)
  BY <1>1 DEF UnknownClass
<1>3. /\ doc.edges[k].class = Only(e.class # StreamFIFO, e.class)
      /\ s.class = IF e.class = StreamFIFO THEN None ELSE e.class
  BY <1>1, SettingIs DEF GraphMade, EdgeMade
<1> HIDE DEF doc, s
<1>4. d \in Known \cup {StreamFIFO}
  BY <1>1, <1>2 DEF ClassUnknown, Only, Has
<1>5. e.class \in Known \cup {StreamFIFO}
  BY <1>2, <1>3 DEF ClassUnknown, Only, Has
<1>6. None \notin Known /\ None # StreamFIFO
  BY GraphDescriptionAssumption DEF None, StreamFIFO
<1> HIDE DEF d, e
<1>7. QED
  BY <1>3, <1>4, <1>5, <1>6 DEF d, e, s

(* What is made of a file is a graph that a file can hold.                   *)
LEMMA ImportedIsPortable ==
  ASSUME NEW g, GraphMade(g), ~ImportRaises(ExportedGraph(g)),
         NEW count, CountsMade(count)
  PROVE  GraphMade(ImportedGraph(ExportedGraph(g), count))
         /\ Portable(ImportedGraph(ExportedGraph(g), count))
<1> DEFINE doc == ExportedGraph(g)
           o == ImportedObjects(doc, count)
           h == ImportedGraph(doc, count)
           src(k) == YAMLEnd(g, g.edges[k].src)
           dst(k) == YAMLEnd(g, g.edges[k].dst)
           s(k) == ImportedSetting(YAMLEdge(g, g.edges[k]))
<1>1. /\ g.constants = <<>>
      /\ \A x : MetBy(g, x) => Read(ReadOf(g, x), g.objects[x])
  BY ReadMet
<1>2. /\ \A key \in DOMAIN o.objects : ObjectMade(key, o.objects[key])
      /\ \A j, k \in DOMAIN o.objects : o.objects[j].id = o.objects[k].id => j = k
      /\ o.defaultFIFOClass = g.defaultFIFOClass
  BY <1>1, ObjectsBack
<1>3. /\ h.defaultFIFOClass = g.defaultFIFOClass
      /\ h.constants = <<>> /\ h.objects = o.objects
      /\ DOMAIN h.edges = DOMAIN g.edges /\ IsSequence(h.edges)
      /\ \A k \in DOMAIN g.edges : h.edges[k] = Edge(o, src(k), dst(k), s(k))
  BY <1>1, GraphBack
<1>4. \A k \in DOMAIN g.edges :
        /\ EdgeMade(o, Edge(o, src(k), dst(k), s(k)))
        /\ PortableNode(o.objects[src(k).node]) /\ PortableNode(o.objects[dst(k).node])
  BY EdgesBack
<1>5. ~UnknownClass(doc)
  BY DEF ImportRaises
<1>6. ASSUME NEW k \in DOMAIN g.edges
      PROVE  LET d == g.defaultFIFOClass
                 class == IF s(k).class = None THEN d ELSE s(k).class
             IN  /\ d \in Known \cup {StreamFIFO}
                 /\ class \in Known \cup {StreamFIFO}
                 /\ class = StreamFIFO => d = StreamFIFO
  BY <1>1, <1>5, ClassesBack
<1>7. ASSUME NEW k \in DOMAIN g.edges PROVE s(k).scale # 0
  BY SettingIs DEF GraphMade, EdgeMade
<1>a. g.defaultFIFOClass \in Known \cup {StreamFIFO}
  <2>1. doc.FIFO = Only(g.defaultFIFOClass # StreamFIFO, g.defaultFIFOClass)
    BY <1>1, DocIs
  <2> HIDE DEF doc
  <2>2. QED
    BY <1>5, <2>1 DEF UnknownClass, ClassUnknown, Only, Has
<1> HIDE DEF doc, o, h, src, dst, s
<1>8. GraphMade(h)
  <2>1. \A k \in DOMAIN h.edges : EdgeMade(h, h.edges[k])
    BY <1>3, <1>4, EdgeStays
  <2>2. IsSequence(h.constants) /\ DOMAIN h.constants = {}
    BY <1>3 DEF IsSequence
  <2>3. QED
    BY <1>2, <1>3, <2>1, <2>2 DEF GraphMade
<1>9. Portable(h)
  <2>1. ASSUME NEW k \in DOMAIN h.edges
        PROVE  LET e == h.edges[k]
               IN  /\ e.class \in Known \cup {StreamFIFO}
                   /\ e.class = StreamFIFO => h.defaultFIFOClass = StreamFIFO
                   /\ e.scale # 0
                   /\ PortableNode(h.objects[e.src.node])
                   /\ PortableNode(h.objects[e.dst.node])
    <3> DEFINE e == Edge(o, src(k), dst(k), s(k))
    <3>1. /\ e.src = src(k) /\ e.dst = dst(k) /\ e.scale = s(k).scale
          /\ e.class = IF s(k).class = None THEN g.defaultFIFOClass ELSE s(k).class
      BY <1>2, EdgeIs
    <3>2. h.edges[k] = e /\ k \in DOMAIN g.edges
      BY <1>3
    <3> HIDE DEF e
    <3>3. QED
      BY <1>3, <1>4, <1>6, <1>7, <3>1, <3>2
  <2>2. QED
    BY <1>3, <1>a, <2>1 DEF Portable
<1>10. QED
  BY <1>8, <1>9 DEF h, doc

(* The end of an edge in the copy of a graph that a file can hold.           *)
LEMMA EndComesBack ==
  ASSUME NEW g, GraphMade(g), Portable(g), NEW count, CountsMade(count),
         NEW k \in DOMAIN g.edges, NEW end \in {g.edges[k].src, g.edges[k].dst}
  PROVE  LET o == ImportedObjects(ExportedGraph(g), count)
             y == YAMLEnd(g, end)
             types == CustomTypes(g)
         IN  /\ HasPort(o.objects[y.node], y.port)
             /\ PortOf(o, y) = IOBack(PortOf(g, end), types)
             /\ TypeMade(PortOf(g, end).type) /\ PortableType(PortOf(g, end).type)
             /\ Known_Type(types, PortOf(g, end).type)
             /\ SameNode(g.objects[end.node], o.objects[y.node])
<1> DEFINE o == ImportedObjects(ExportedGraph(g), count)
           y == YAMLEnd(g, end)
           types == CustomTypes(g)
           n == g.objects[end.node]
           r == o.objects[y.node]
           m == ReadOf(g, end.node)
           io == PortOf(g, end)
<1>1. /\ g.constants = <<>>
      /\ \A x : MetBy(g, x) => Read(ReadOf(g, x), g.objects[x])
  BY PortableMet
<1>2. /\ MetBy(g, end.node) /\ Renames(r, m) /\ y.port = end.port
  BY <1>1, EndsBack
<1>3. /\ PortableNode(n) /\ NodeMade(n) /\ IOsKnown(n.ins, types) /\ IOsKnown(n.outs, types)
      /\ Read(m, n) /\ m = Same(n, types)
  BY <1>2, PortableMet
<1>4. HasPort(n, end.port) /\ io = Port(n, end.port)
  BY DEF GraphMade, EdgeMade, EndMade, PortOf
<1>z. PortOf(o, y) = Port(r, y.port)
  BY DEF PortOf
<1> HIDE DEF o, y, types, n, r, m, io
<1>5. m = NodeOf(n.class, n.kind, Number(n, n.kind), n.identified,
                 IOsBack(n.ins, types), IOsBack(n.outs, types), n.args, n.argsDesc)
  BY <1>3 DEF Same
<1>6. /\ m.class = n.class /\ m.kind = n.kind /\ m.identified = n.identified
      /\ m.ins = IOsBack(n.ins, types) /\ m.outs = IOsBack(n.outs, types)
      /\ m.args = n.args /\ m.argsDesc = n.argsDesc
  BY <1>5, NodeOfIs
<1>7. CopyOf(r, n, types)
  BY <1>2, <1>6 DEF CopyOf, Renames
<1>8. HasPort(r, end.port) /\ Port(r, end.port) = IOBack(io, types)
  BY <1>3, <1>4, <1>7, PortsBack
<1>9. PortAt(n, io)
  BY <1>3, <1>4, PortsOf
<1>10. TypeMade(io.type)
  BY <1>3, <1>9, PortMade
<1>11. Known_Type(types, io.type)
  BY <1>3, <1>9 DEF PortAt, IOsKnown
<1>12. PortableType(io.type)
  BY <1>3, <1>9, PortableIs DEF PortAt
<1>13. SameNode(n, r)
  BY <1>3, <1>7, CopyIsSame
<1>14. QED
  BY <1>2, <1>8, <1>10, <1>11, <1>12, <1>13, <1>z DEF o, y, types, n, r, io

(* An edge of the copy of a graph that a file can hold.                      *)
LEMMA EdgeComesBack ==
  ASSUME NEW g, GraphMade(g), Portable(g), NEW count, CountsMade(count),
         NEW k \in DOMAIN g.edges
  PROVE  LET o   == ImportedObjects(ExportedGraph(g), count)
             src == YAMLEnd(g, g.edges[k].src)
             dst == YAMLEnd(g, g.edges[k].dst)
         IN  /\ ~ConnectRaises(o, src, dst)
             /\ CustomBuffer(PortOf(o, src), PortOf(o, dst),
                             ImportedSetting(YAMLEdge(g, g.edges[k])))
                  = g.edges[k].buffer
<1> DEFINE o == ImportedObjects(ExportedGraph(g), count)
           e == g.edges[k]
           types == CustomTypes(g)
           a == PortOf(g, e.src)
           b == PortOf(g, e.dst)
           c == PortOf(o, YAMLEnd(g, e.src))
           d == PortOf(o, YAMLEnd(g, e.dst))
<1>1. EdgeMade(g, e)
  BY DEF GraphMade
<1>2. /\ c = IOBack(a, types) /\ TypeMade(a.type) /\ PortableType(a.type)
      /\ Known_Type(types, a.type)
  BY EndComesBack
<1>3. /\ d = IOBack(b, types) /\ TypeMade(b.type) /\ PortableType(b.type)
      /\ Known_Type(types, b.type)
  BY EndComesBack
<1>4. ~ConnectRaises(g, e.src, e.dst)
  BY <1>1 DEF EdgeMade
<1>5. /\ compatible(a.type, b.type)
      /\ ~(/\ a.constraint # <<>> /\ b.constraint # <<>>
           /\ \/ a.constraint[1].name # b.constraint[1].name
              \/ a.constraint[1].mustBeArray # b.constraint[1].mustBeArray)
  BY <1>4 DEF ConnectRaises
<1>6. ConnectRaises(o, YAMLEnd(g, e.src), YAMLEnd(g, e.dst)) =
        \/ ~compatible(c.type, d.type)
        \/ /\ c.constraint # <<>> /\ d.constraint # <<>>
           /\ \/ c.constraint[1].name # d.constraint[1].name
              \/ c.constraint[1].mustBeArray # d.constraint[1].mustBeArray
  BY DEF ConnectRaises
<1>7. a.constraint = PortOf(g, e.src).constraint /\ b.constraint = PortOf(g, e.dst).constraint
  OBVIOUS
<1> HIDE DEF o, types, a, b, c, d, e
<1>8. /\ c.constraint = a.constraint /\ c.type = dataType(ctype(a.type), types)
      /\ d.constraint = b.constraint /\ d.type = dataType(ctype(b.type), types)
  BY <1>2, <1>3, IOBackIs
<1>9. compatible(c.type, d.type)
  BY <1>2, <1>3, <1>5, <1>8, StillCompatible
<1>10. ~ConnectRaises(o, YAMLEnd(g, e.src), YAMLEnd(g, e.dst))
  BY <1>5, <1>6, <1>8, <1>9
<1>11. CustomBuffer(c, d, ImportedSetting(YAMLEdge(g, e))) = e.buffer
  BY <1>1, <1>7, <1>8, BufferBack
<1>12. QED
  BY <1>10, <1>11 DEF o, c, d, e

(* A graph that a file can hold is read without an exception.                *)
LEMMA PortableIsRead ==
  ASSUME NEW g, GraphMade(g), Portable(g)
  PROVE  ~ImportRaises(ExportedGraph(g))
<1> DEFINE doc == ExportedGraph(g)
           o == ImportedObjects(doc, <<>>)
<1>0. CountsMade(<<>>)
  BY DEF CountsMade
<1>1. /\ g.constants = <<>> /\ ~UnknownInternal(CustomTypes(g))
      /\ \A x : MetBy(g, x) => ~NodeRaises(YAMLNode(g.objects[x]))
  BY PortableMet
<1>2. /\ doc.FIFO = Only(g.defaultFIFOClass # StreamFIFO, g.defaultFIFOClass)
      /\ doc.custom_types = CustomTypes(g)
      /\ DOMAIN doc.nodes = DOMAIN NodesMet(g)
      /\ \A k \in DOMAIN NodesMet(g) :
           doc.nodes[k] = YAMLNode(g.objects[NodesMet(g)[k]])
      /\ DOMAIN doc.edges = DOMAIN g.edges
      /\ \A k \in DOMAIN g.edges : doc.edges[k] = YAMLEdge(g, g.edges[k])
  BY <1>1, DocIs
<1>3. \A k \in DOMAIN g.edges :
        LET y == YAMLEdge(g, g.edges[k])
        IN  /\ y.src = YAMLEnd(g, g.edges[k].src) /\ y.dst = YAMLEnd(g, g.edges[k].dst)
            /\ y.class = Only(g.edges[k].class # StreamFIFO, g.edges[k].class)
  BY SettingIs DEF GraphMade, EdgeMade
<1>4. ASSUME NEW k \in DOMAIN doc.edges PROVE ~EdgeRaises(o, doc.edges[k])
  <2> DEFINE src == YAMLEnd(g, g.edges[k].src)
             dst == YAMLEnd(g, g.edges[k].dst)
  <2>1. k \in DOMAIN g.edges
    BY <1>2
  <2>2. HasPort(o.objects[src.node], src.port) /\ HasPort(o.objects[dst.node], dst.port)
    BY <1>0, <2>1, EndComesBack
  <2>3. ~ConnectRaises(o, src, dst)
    BY <1>0, <2>1, EdgeComesBack
  <2>4. doc.edges[k].src = src /\ doc.edges[k].dst = dst
    BY <1>2, <1>3, <2>1
  <2> HIDE DEF src, dst, doc, o
  <2>5. QED
    BY <2>2, <2>3, <2>4 DEF EdgeRaises
<1> HIDE DEF doc, o
<1>5. \A k \in DOMAIN doc.nodes : ~NodeRaises(doc.nodes[k])
  BY <1>1, <1>2, MetAre DEF GraphMade
<1>6. ~UnknownClass(doc)
  <2>1. ~ClassUnknown(doc.FIFO)
    BY <1>2 DEF Portable, ClassUnknown, Has, Only
  <2>2. ASSUME NEW k \in DOMAIN doc.edges PROVE ~ClassUnknown(doc.edges[k].class)
    <3>1. /\ doc.edges[k].class = Only(g.edges[k].class # StreamFIFO, g.edges[k].class)
          /\ k \in DOMAIN g.edges
      BY <1>2, <1>3
    <3>2. g.edges[k].class \in Known \cup {StreamFIFO}
      BY <3>1 DEF Portable
    <3>3. QED
      BY <3>1, <3>2 DEF ClassUnknown, Has, Only
  <2>3. QED
    BY <2>1, <2>2 DEF UnknownClass
<1>7. QED
  BY <1>1, <1>2, <1>4, <1>5, <1>6 DEF ImportRaises, doc, o

(* And it comes back as it was.                                              *)
LEMMA PortableComesBack ==
  ASSUME NEW g, GraphMade(g), Portable(g), NEW count, CountsMade(count)
  PROVE  SameGraph(g, ImportedGraph(ExportedGraph(g), count))
<1> DEFINE doc == ExportedGraph(g)
           o == ImportedObjects(doc, count)
           h == ImportedGraph(doc, count)
           src(k) == YAMLEnd(g, g.edges[k].src)
           dst(k) == YAMLEnd(g, g.edges[k].dst)
           s(k) == ImportedSetting(YAMLEdge(g, g.edges[k]))
           Amount(x) == IF x = NoNumber THEN 0 ELSE x
<1>1. /\ g.constants = <<>>
      /\ \A x : MetBy(g, x) => Read(ReadOf(g, x), g.objects[x])
  BY PortableMet
<1>2. o.defaultFIFOClass = g.defaultFIFOClass
  BY <1>1, ObjectsBack
<1>3. /\ h.defaultFIFOClass = g.defaultFIFOClass
      /\ h.duplicateNodeClassName = g.duplicateNodeClassName
      /\ h.constants = <<>> /\ h.objects = o.objects
      /\ DOMAIN h.edges = DOMAIN g.edges
      /\ \A k \in DOMAIN g.edges : h.edges[k] = Edge(o, src(k), dst(k), s(k))
  BY <1>1, GraphBack
<1>4. ASSUME NEW k \in DOMAIN g.edges
      PROVE  LET e == g.edges[k]
                 f == h.edges[k]
             IN  /\ f.src = YAMLEnd(g, e.src) /\ f.dst = YAMLEnd(g, e.dst)
                 /\ \A field \in {"class", "scale", "weak", "buffer"} : e[field] = f[field]
                 /\ Amount(e.length) = Amount(f.length) /\ Amount(e.delay) = Amount(f.delay)
                 /\ SameNode(g.objects[e.src.node], h.objects[f.src.node])
                 /\ SameNode(g.objects[e.dst.node], h.objects[f.dst.node])
  <2> DEFINE e == g.edges[k]
             f == h.edges[k]
             w == Edge(o, src(k), dst(k), s(k))
  <2>1. f = w
    BY <1>3
  <2>2. /\ w.src = src(k) /\ w.dst = dst(k) /\ w.scale = s(k).scale
        /\ w.class = IF s(k).class = None THEN g.defaultFIFOClass ELSE s(k).class
        /\ w.length = s(k).length /\ w.weak = s(k).weak /\ w.delay = s(k).delay
        /\ w.buffer = CustomBuffer(PortOf(o, src(k)), PortOf(o, dst(k)), s(k))
    BY <1>2, EdgeIs
  <2>3. w.buffer = e.buffer
    BY <2>2, EdgeComesBack
  <2>4. /\ e.length \in Nat \cup {NoNumber} /\ e.delay \in Nat \cup {NoNumber}
        /\ e.weak \in BOOLEAN
    BY DEF GraphMade, EdgeMade
  <2>5. /\ s(k).class = IF e.class = StreamFIFO THEN None ELSE e.class
        /\ s(k).scale = IF e.scale \in {0, 1} THEN 1 ELSE e.scale
        /\ s(k).length = IF e.length > 0 THEN e.length ELSE NoNumber
        /\ s(k).delay = IF e.delay > 0 THEN e.delay ELSE NoNumber
        /\ s(k).weak = e.weak
    BY <2>4, SettingIs
  <2>6. /\ e.class \in Known \cup {StreamFIFO}
        /\ e.class = StreamFIFO => g.defaultFIFOClass = StreamFIFO
        /\ e.scale # 0
    BY DEF Portable
  <2>7. /\ SameNode(g.objects[e.src.node], o.objects[src(k).node])
        /\ SameNode(g.objects[e.dst.node], o.objects[dst(k).node])
    BY EndComesBack
  <2>8. None \notin Known
    BY GraphDescriptionAssumption
  <2> HIDE DEF w, e, f, s, src, dst, o, h
  <2>9. w.class = e.class
    BY <2>2, <2>5, <2>6, <2>8
  <2>10. w.scale = e.scale
    BY <2>2, <2>5, <2>6
  <2>11. Amount(e.length) = Amount(w.length) /\ Amount(e.delay) = Amount(w.delay)
    BY <2>2, <2>4, <2>5 DEF NoNumber
  <2>12. QED
    BY <1>3, <2>1, <2>2, <2>3, <2>5, <2>7, <2>9, <2>10, <2>11 DEF e, f, src, dst
<1>5. DOMAIN g.edges = DOMAIN h.edges
  BY <1>3
<1> HIDE DEF o, h, src, dst, s
<1>6. SameGraph(g, h)
  BY <1>1, <1>3, <1>4, <1>5 DEF SameGraph
<1>7. QED
  BY <1>6 DEF h, doc

(***************************************************************************)
(* The script.                                                               *)
(***************************************************************************)
LEMMA Appended ==
  ASSUME NEW s, IsSequence(s), NEW e
  PROVE  LET t == Append(s, e)
         IN  /\ IsSequence(t) /\ Len(t) = Len(s) + 1 /\ t # <<>>
             /\ DOMAIN t = 1..Len(s) + 1 /\ t[Len(s) + 1] = e /\ Last(t) = e
             /\ \A k \in DOMAIN s : t[k] = s[k]
<1> DEFINE R == {s[k] : k \in DOMAIN s} \cup {e}
           t == Append(s, e)
<1>1. Len(s) \in Nat /\ DOMAIN s = 1..Len(s) /\ s \in Seq({s[k] : k \in DOMAIN s})
  BY SequenceIs
<1>2. s \in Seq(R)
  BY <1>1
<1>3. e \in R
  OBVIOUS
<1> HIDE DEF R
<1>4. /\ t \in Seq(R) /\ Len(t) = Len(s) + 1 /\ t[Len(s) + 1] = e
      /\ \A k \in 1..Len(s) : t[k] = s[k]
  BY <1>1, <1>2, <1>3
<1> HIDE DEF t
<1>5. IsSequence(t)
  BY <1>4, SequenceOf
<1>6. DOMAIN t = 1..Len(s) + 1
  BY <1>4, <1>5, SequenceIs
<1>7. t # <<>>
  BY <1>1, <1>4
<1>8. QED
  BY <1>1, <1>4, <1>5, <1>6, <1>7 DEF Last, t

LEMMA OneGraph ==
  ASSUME NEW g
  PROVE  IsSequence(<<g>>) /\ Len(<<g>>) = 1 /\ DOMAIN <<g>> = {1} /\ <<g>>[1] = g
BY DEF IsSequence

(* The graph that the script builds: its nodes are under the names that they *)
(* have.                                                                     *)
ScriptGraph(g) ==
  /\ \E objects, c, d, edges, constants :
       g = [objects |-> objects, defaultFIFOClass |-> c, duplicateNodeClassName |-> d,
            edges |-> edges, constants |-> constants]
  /\ \A key \in DOMAIN g.objects : g.objects[key].id = key

LEMMA ProgramMade ==
  ASSUME NEW program \in Programs
  PROVE  LET g == EmptyGraph(NamedObjects(program))
         IN  /\ GraphMade(g) /\ ScriptGraph(g)
             /\ CountsMade(CountedBy(program, <<>>))
<1> DEFINE g == EmptyGraph(NamedObjects(program))
           nodes == Numbered(program, <<>>)
           objects == NamedObjects(program)
<1>1. IsSequence(program) /\ \A k \in DOMAIN program : NodeMade(program[k])
  BY GraphDescriptionAssumption
<1>2. CountsMade(<<>>)
  BY DEF CountsMade
<1>3. CountsMade(CountedBy(program, <<>>))
  BY <1>1, <1>2, CountedIs
<1>4. /\ DOMAIN nodes = DOMAIN program
      /\ \A k \in DOMAIN program :
           /\ Renames(nodes[k], program[k])
           /\ IsFunction(program[k]) => nodes[k].id[2] > 0 /\ nodes[k].id[2] \in Nat
  BY <1>1, <1>2, NumberedAre
<1>5. /\ DOMAIN objects = {n.id : n \in ToSet(nodes)}
      /\ \A key \in DOMAIN objects : objects[key] \in ToSet(nodes) /\ objects[key].id = key
  BY DEF NamedObjects
<1> HIDE DEF nodes, objects
<1>6. ASSUME NEW n \in ToSet(nodes)
      PROVE  /\ NodeMade(n) /\ (IsFunction(n) => n.id[2] > 0)
             /\ n.id = <<n.id[1], n.id[2]>> /\ n.id[2] \in Nat
  <2>1. PICK k \in DOMAIN nodes : n = nodes[k]
    BY DEF ToSet
  <2>2. NodeMade(n) /\ n.class = program[k].class
    BY <1>4, <2>1 DEF Renames
  <2>3. IsFunction(n) => n.id[2] > 0
    BY <1>4, <2>1, <2>2 DEF IsFunction
  <2>4. n.id = <<n.id[1], n.id[2]>> /\ n.id[2] \in Nat
    BY <2>2 DEF NodeMade
  <2>5. QED
    BY <2>2, <2>3, <2>4
<1>7. \A key \in DOMAIN objects : ObjectMade(key, objects[key])
  BY <1>5, <1>6 DEF ObjectMade
<1>8. /\ g.objects = objects /\ g.edges = <<>> /\ g.constants = <<>>
      /\ g = [objects |-> objects, defaultFIFOClass |-> StreamFIFO,
              duplicateNodeClassName |-> "Duplicate", edges |-> <<>>, constants |-> <<>>]
  BY DEF EmptyGraph, objects
<1> HIDE DEF g
<1>9. IsSequence(<<>>) /\ DOMAIN <<>> = {}
  BY DEF IsSequence
<1>10. GraphMade(g)
  BY <1>5, <1>7, <1>8, <1>9 DEF GraphMade
<1>11. ScriptGraph(g)
  BY <1>5, <1>8 DEF ScriptGraph
<1>12. QED
  BY <1>3, <1>10, <1>11 DEF g

(* Another value of one field of a script's graph.                           *)
LEMMA ScriptGraphWith ==
  ASSUME NEW g, ScriptGraph(g), NEW v
  PROVE  /\ LET h == [g EXCEPT !.edges = v]
            IN  /\ ScriptGraph(h) /\ h.edges = v /\ h.objects = g.objects
                /\ h.constants = g.constants
         /\ LET h == [g EXCEPT !.constants = v]
            IN  /\ ScriptGraph(h) /\ h.constants = v /\ h.objects = g.objects
                /\ h.edges = g.edges
         /\ LET h == [g EXCEPT !.defaultFIFOClass = v]
            IN  /\ ScriptGraph(h) /\ h.constants = g.constants /\ h.objects = g.objects
                /\ h.edges = g.edges
         /\ LET h == [g EXCEPT !.duplicateNodeClassName = v]
            IN  /\ ScriptGraph(h) /\ h.constants = g.constants /\ h.objects = g.objects
                /\ h.edges = g.edges
<1>1. g = [objects |-> g.objects, defaultFIFOClass |-> g.defaultFIFOClass,
           duplicateNodeClassName |-> g.duplicateNodeClassName,
           edges |-> g.edges, constants |-> g.constants]
  <2>1. PICK objects, c, d, edges, constants :
          g = [objects |-> objects, defaultFIFOClass |-> c,
               duplicateNodeClassName |-> d, edges |-> edges, constants |-> constants]
    BY DEF ScriptGraph
  <2>2. QED
    BY <2>1
<1>2. \A key \in DOMAIN g.objects : g.objects[key].id = key
  BY DEF ScriptGraph
<1>3. LET h == [g EXCEPT !.edges = v]
      IN  ScriptGraph(h) /\ h.edges = v /\ h.objects = g.objects /\ h.constants = g.constants
  <2> DEFINE h == [g EXCEPT !.edges = v]
  <2>1. h = [objects |-> g.objects,
             defaultFIFOClass |-> g.defaultFIFOClass,
             duplicateNodeClassName |-> g.duplicateNodeClassName,
             edges |-> v, constants |-> g.constants]
    BY <1>1
  <2> HIDE DEF h
  <2>2. h.edges = v /\ h.objects = g.objects /\ h.constants = g.constants
    BY <2>1
  <2>3. ScriptGraph(h)
    BY <1>2, <2>1, <2>2 DEF ScriptGraph
  <2>4. QED
    BY <2>2, <2>3 DEF h
<1>4. LET h == [g EXCEPT !.constants = v]
      IN  ScriptGraph(h) /\ h.constants = v /\ h.objects = g.objects /\ h.edges = g.edges
  <2> DEFINE h == [g EXCEPT !.constants = v]
  <2>1. h = [objects |-> g.objects,
             defaultFIFOClass |-> g.defaultFIFOClass,
             duplicateNodeClassName |-> g.duplicateNodeClassName,
             edges |-> g.edges, constants |-> v]
    BY <1>1
  <2> HIDE DEF h
  <2>2. h.constants = v /\ h.objects = g.objects /\ h.edges = g.edges
    BY <2>1
  <2>3. ScriptGraph(h)
    BY <1>2, <2>1, <2>2 DEF ScriptGraph
  <2>4. QED
    BY <2>2, <2>3 DEF h
<1>5. LET h == [g EXCEPT !.defaultFIFOClass = v]
      IN  ScriptGraph(h) /\ h.constants = g.constants /\ h.objects = g.objects /\ h.edges = g.edges
  <2> DEFINE h == [g EXCEPT !.defaultFIFOClass = v]
  <2>1. h = [objects |-> g.objects,
             defaultFIFOClass |-> v,
             duplicateNodeClassName |-> g.duplicateNodeClassName,
             edges |-> g.edges, constants |-> g.constants]
    BY <1>1
  <2> HIDE DEF h
  <2>2. h.constants = g.constants /\ h.objects = g.objects /\ h.edges = g.edges
    BY <2>1
  <2>3. ScriptGraph(h)
    BY <1>2, <2>1, <2>2 DEF ScriptGraph
  <2>4. QED
    BY <2>2, <2>3 DEF h
<1>6. LET h == [g EXCEPT !.duplicateNodeClassName = v]
      IN  ScriptGraph(h) /\ h.constants = g.constants /\ h.objects = g.objects /\ h.edges = g.edges
  <2> DEFINE h == [g EXCEPT !.duplicateNodeClassName = v]
  <2>1. h = [objects |-> g.objects,
             defaultFIFOClass |-> g.defaultFIFOClass,
             duplicateNodeClassName |-> v,
             edges |-> g.edges, constants |-> g.constants]
    BY <1>1
  <2> HIDE DEF h
  <2>2. h.constants = g.constants /\ h.objects = g.objects /\ h.edges = g.edges
    BY <2>1
  <2>3. ScriptGraph(h)
    BY <1>2, <2>1, <2>2 DEF ScriptGraph
  <2>4. QED
    BY <2>2, <2>3 DEF h
<1>7. QED
  BY <1>3, <1>4, <1>5, <1>6

(* The ends that the script connects are ports of nodes of the graph.        *)
LEMMA EndsAre ==
  ASSUME NEW g, GraphMade(g), ScriptGraph(g), NEW key \in DOMAIN g.objects,
         NEW io, PortAt(g.objects[key], io), NEW end,
         end = [node |-> g.objects[key].id, port |-> io.name]
  PROVE  EndMade(g, end)
<1>1. NodeMade(g.objects[key]) /\ g.objects[key].id = key
  BY DEF GraphMade, ObjectMade, ScriptGraph
<1>2. HasPort(g.objects[key], io.name)
  BY <1>1, PortsOf
<1>3. QED
  BY <1>1, <1>2 DEF EndMade

LEMMA GraphStays ==
  ASSUME NEW g, GraphMade(g), NEW h, h.objects = g.objects,
         IsSequence(h.edges), \A k \in DOMAIN h.edges : EdgeMade(g, h.edges[k]),
         IsSequence(h.constants),
         \A k \in DOMAIN h.constants : h.constants[k].dst.node \in DOMAIN g.objects
  PROVE  GraphMade(h)
<1>1. \A k \in DOMAIN h.edges : EdgeMade(h, h.edges[k])
  BY EdgeStays
<1>2. QED
  BY <1>1 DEF GraphMade

(* The graph after connect(), with a node or a constant, and after the       *)
(* defaults have been set.                                                   *)
LEMMA ConnectKeeps ==
  ASSUME NEW g, GraphMade(g), ScriptGraph(g), NEW src, NEW dst, NEW s,
         EndMade(g, src), EndMade(g, dst), ~ConnectRaises(g, src, dst), SettingMade(s)
  PROVE  GraphMade(connect(g, src, dst, s)) /\ ScriptGraph(connect(g, src, dst, s))
<1> DEFINE e == Edge(g, src, dst, s)
           h == connect(g, src, dst, s)
<1>1. EdgeMade(g, e)
  BY ConnectedMade
<1>2. /\ ScriptGraph(h) /\ h.edges = Append(g.edges, e) /\ h.objects = g.objects
      /\ h.constants = g.constants
  BY ScriptGraphWith DEF connect
<1> HIDE DEF e, h
<1>3. /\ IsSequence(h.edges)
      /\ \A k \in DOMAIN h.edges : k \in DOMAIN g.edges \/ h.edges[k] = e
      /\ \A k \in DOMAIN g.edges : h.edges[k] = g.edges[k]
  <2>1. IsSequence(g.edges)
    BY DEF GraphMade
  <2>2. Len(g.edges) \in Nat /\ DOMAIN g.edges = 1..Len(g.edges)
    BY <2>1, SequenceIs
  <2>3. /\ IsSequence(h.edges) /\ DOMAIN h.edges = 1..Len(g.edges) + 1
        /\ h.edges[Len(g.edges) + 1] = e
        /\ \A k \in DOMAIN g.edges : h.edges[k] = g.edges[k]
    BY <1>2, <2>1, Appended
  <2>4. QED
    BY <2>2, <2>3
<1>4. \A k \in DOMAIN h.edges : EdgeMade(g, h.edges[k])
  BY <1>1, <1>3 DEF GraphMade
<1>5. GraphMade(h)
  BY <1>2, <1>3, <1>4, GraphStays DEF GraphMade
<1>6. QED
  BY <1>2, <1>5 DEF h

LEMMA ConnectConstantKeeps ==
  ASSUME NEW g, GraphMade(g), ScriptGraph(g), NEW name, NEW dst, EndMade(g, dst)
  PROVE  GraphMade(connectConstant(g, name, dst))
         /\ ScriptGraph(connectConstant(g, name, dst))
<1> DEFINE c == [src |-> name, dst |-> dst]
           h == connectConstant(g, name, dst)
<1>1. c.dst = dst
  OBVIOUS
<1>2. /\ ScriptGraph(h) /\ h.constants = Append(g.constants, c) /\ h.objects = g.objects
      /\ h.edges = g.edges
  BY ScriptGraphWith DEF connectConstant
<1> HIDE DEF c, h
<1>3. /\ IsSequence(h.constants)
      /\ \A k \in DOMAIN h.constants : h.constants[k].dst.node \in DOMAIN g.objects
  <2>1. IsSequence(g.constants)
    BY DEF GraphMade
  <2>2. Len(g.constants) \in Nat /\ DOMAIN g.constants = 1..Len(g.constants)
    BY <2>1, SequenceIs
  <2>3. /\ IsSequence(h.constants) /\ DOMAIN h.constants = 1..Len(g.constants) + 1
        /\ h.constants[Len(g.constants) + 1] = c
        /\ \A k \in DOMAIN g.constants : h.constants[k] = g.constants[k]
    BY <1>2, <2>1, Appended
  <2>4. \A k \in DOMAIN h.constants : h.constants[k].dst.node \in DOMAIN g.objects
    BY <1>1, <2>2, <2>3 DEF GraphMade, EndMade
  <2>5. QED
    BY <2>3, <2>4
<1>4. GraphMade(h)
  BY <1>2, <1>3, GraphStays DEF GraphMade
<1>5. QED
  BY <1>2, <1>4 DEF h

LEMMA DefaultsKeep ==
  ASSUME NEW g, GraphMade(g), ScriptGraph(g), NEW c, NEW d
  PROVE  LET h == [g EXCEPT !.defaultFIFOClass = c, !.duplicateNodeClassName = d]
         IN  GraphMade(h) /\ ScriptGraph(h)
<1> DEFINE f == [g EXCEPT !.defaultFIFOClass = c]
           k == [f EXCEPT !.duplicateNodeClassName = d]
           h == [g EXCEPT !.defaultFIFOClass = c, !.duplicateNodeClassName = d]
<1>1. h = k
  OBVIOUS
<1>2. /\ ScriptGraph(f) /\ f.objects = g.objects /\ f.edges = g.edges
      /\ f.constants = g.constants
  BY ScriptGraphWith
<1> HIDE DEF f
<1>3. /\ ScriptGraph(k) /\ k.objects = f.objects /\ k.edges = f.edges
      /\ k.constants = f.constants
  BY <1>2, ScriptGraphWith
<1> HIDE DEF k, h
<1>4. GraphMade(k)
  BY <1>2, <1>3, GraphStays DEF GraphMade
<1>5. QED
  BY <1>1, <1>3, <1>4 DEF h

(* The numbers that functions have been given after an import.               *)
LEMMA CountsStay ==
  ASSUME NEW g, GraphMade(g), ~ImportRaises(ExportedGraph(g)),
         NEW count, CountsMade(count)
  PROVE  CountsMade(CountedBy(ImportedNodes(ExportedGraph(g)), count))
<1> DEFINE doc == ExportedGraph(g)
           met == NodesMet(g)
           read == ImportedNodes(doc)
<1>1. g.constants = <<>>
  BY ReadMet
<1>2. DOMAIN doc.nodes = DOMAIN met
  BY <1>1, DocIs
<1>3. Len(met) \in Nat /\ DOMAIN met = 1..Len(met)
  BY MetAre, SequenceIs DEF GraphMade
<1> HIDE DEF doc, met
<1>4. IsSequence(read)
  <2> DEFINE R == {read[k] : k \in 1..Len(met)}
  <2>1. read \in [1..Len(met) -> R]
    BY <1>2, <1>3 DEF ImportedNodes
  <2> HIDE DEF R, read
  <2>2. read \in Seq(R)
    BY <1>3, <2>1, SeqDef
  <2>3. QED
    BY <2>2, SequenceOf
<1> HIDE DEF read
<1>5. CountsMade(CountedBy(read, count))
  BY <1>4, CountedIs
<1>6. QED
  BY <1>5 DEF read, doc

(* The inductive invariant: what graphs the script and its imports can hold, *)
(* and how each follows from the one before.                                 *)
GraphsMade ==
  /\ IsSequence(graphs) /\ Len(graphs) > 0
  /\ \A k \in DOMAIN graphs : GraphMade(graphs[k])
  /\ ScriptGraph(graphs[1])
FilesMade ==
  /\ IsSequence(files) /\ Len(files) \in {Len(graphs) - 1, Len(graphs)}
  /\ \A k \in DOMAIN files : files[k] = ExportedGraph(graphs[k])
CopiesMade ==
  \A k \in DOMAIN graphs : k > 1 =>
    /\ Portable(graphs[k])
    /\ Portable(graphs[k - 1]) => SameGraph(graphs[k - 1], graphs[k])

Inv ==
  /\ GraphsMade /\ FilesMade /\ CopiesMade
  /\ raised = "import" => ~Portable(Last(graphs))
  /\ CountsMade(made)

LEMMA InitInv == Init => Inv
<1> SUFFICES ASSUME Init PROVE Inv
  OBVIOUS
<1>1. PICK program \in Programs : /\ graphs = <<EmptyGraph(NamedObjects(program))>>
                                  /\ made = CountedBy(program, <<>>)
  BY DEF Init
<1> DEFINE g == EmptyGraph(NamedObjects(program))
<1>2. GraphMade(g) /\ ScriptGraph(g) /\ CountsMade(made)
  BY <1>1, ProgramMade
<1>3. files = <<>> /\ raised = None /\ graphs = <<g>>
  BY <1>1 DEF Init
<1> HIDE DEF g
<1>4. IsSequence(graphs) /\ Len(graphs) = 1 /\ DOMAIN graphs = {1} /\ graphs[1] = g
  BY <1>3, OneGraph
<1>5. IsSequence(files) /\ Len(files) = 0 /\ DOMAIN files = {}
  BY <1>3 DEF IsSequence
<1>6. raised # "import"
  BY <1>3 DEF None
<1>7. GraphsMade
  BY <1>2, <1>4 DEF GraphsMade
<1>8. FilesMade
  BY <1>4, <1>5 DEF FilesMade
<1>9. CopiesMade
  BY <1>4 DEF CopiesMade
<1>10. QED
  BY <1>2, <1>6, <1>7, <1>8, <1>9 DEF Inv

(* Before the first file there is one graph.                                 *)
LEMMA GraphIsOne ==
  ASSUME Inv, files = <<>>
  PROVE  /\ Len(graphs) = 1 /\ DOMAIN graphs = {1} /\ Last(graphs) = graphs[1]
         /\ GraphMade(graphs[1]) /\ ScriptGraph(graphs[1])
<1>1. Len(graphs) \in Nat /\ DOMAIN graphs = 1..Len(graphs) /\ Len(graphs) > 0
  BY SequenceIs DEF Inv, GraphsMade
<1>2. Len(files) = 0 /\ Len(files) \in {Len(graphs) - 1, Len(graphs)}
  BY DEF Inv, FilesMade
<1>3. Len(graphs) = 1
  BY <1>1, <1>2
<1>4. DOMAIN graphs = {1} /\ Last(graphs) = graphs[1]
  BY <1>1, <1>3 DEF Last
<1>5. QED
  BY <1>3, <1>4 DEF Inv, GraphsMade

(* A step that builds the graph, or sets an option.                          *)
LEMMA BuildingKeeps ==
  ASSUME Inv, files = <<>>, NEW h, GraphMade(h), ScriptGraph(h),
         graphs' = <<h>> \/ graphs' = graphs, UNCHANGED <<files, made>>,
         raised' # "import"
  PROVE  Inv'
<1>1. /\ Len(graphs) = 1 /\ DOMAIN graphs = {1} /\ IsSequence(graphs)
      /\ GraphMade(graphs[1]) /\ ScriptGraph(graphs[1])
  BY GraphIsOne DEF Inv, GraphsMade
<1>2. /\ IsSequence(graphs') /\ Len(graphs') = 1 /\ DOMAIN (graphs') = {1}
      /\ GraphMade(graphs'[1]) /\ ScriptGraph(graphs'[1])
  BY <1>1, OneGraph
<1>3. GraphsMade'
  BY <1>2 DEF GraphsMade
<1>4. IsSequence(files') /\ Len(files') = 0 /\ DOMAIN (files') = {}
  BY DEF IsSequence
<1>5. FilesMade'
  BY <1>2, <1>4 DEF FilesMade
<1>6. CopiesMade'
  BY <1>2 DEF CopiesMade
<1>7. CountsMade(made')
  BY DEF Inv
<1>8. QED
  BY <1>3, <1>5, <1>6, <1>7 DEF Inv

(* The ends that the script has to connect.                                  *)
LEMMA AllEndsAre ==
  ASSUME GraphMade(graphs[1]), ScriptGraph(graphs[1])
  PROVE  /\ \A end \in AllEnds("outs") : EndMade(graphs[1], end)
         /\ \A end \in AllEnds("ins") : EndMade(graphs[1], end)
<1> DEFINE g == graphs[1]
<1>1. ASSUME NEW end \in AllEnds("outs") PROVE EndMade(g, end)
  <2>1. PICK key \in DOMAIN g.objects : end \in Ends(g.objects[key], "outs")
    BY <1>1 DEF AllEnds
  <2>2. PICK io \in ToSet(g.objects[key].outs) :
          end = [node |-> g.objects[key].id, port |-> io.name]
    BY <2>1 DEF Ends
  <2>3. PortAt(g.objects[key], io)
    BY <2>2 DEF ToSet, PortAt
  <2> HIDE DEF g
  <2>4. QED
    BY <2>2, <2>3, EndsAre DEF g
<1>2. ASSUME NEW end \in AllEnds("ins") PROVE EndMade(g, end)
  <2>1. PICK key \in DOMAIN g.objects : end \in Ends(g.objects[key], "ins")
    BY <1>2 DEF AllEnds
  <2>2. PICK io \in ToSet(g.objects[key].ins) :
          end = [node |-> g.objects[key].id, port |-> io.name]
    BY <2>1 DEF Ends
  <2>3. PortAt(g.objects[key], io)
    BY <2>2 DEF ToSet, PortAt
  <2> HIDE DEF g
  <2>4. QED
    BY <2>2, <2>3, EndsAre DEF g
<1>3. QED
  BY <1>1, <1>2

LEMMA ConnectInv == Inv /\ Connect => Inv'
<1> SUFFICES ASSUME Inv, Connect PROVE Inv'
  OBVIOUS
<1> DEFINE g == graphs[1]
<1>1. PICK src \in AllEnds("outs"), dst \in AllEnds("ins"), s \in Settings :
        /\ Builds
        /\ IF ConnectRaises(g, src, dst)
             THEN raised' = "connect" /\ UNCHANGED graphs
             ELSE graphs' = <<connect(g, src, dst, s)>> /\ UNCHANGED raised
        /\ UNCHANGED <<files, made>>
  BY DEF Connect
<1>2. files = <<>> /\ raised = None
  BY <1>1 DEF Builds, Calls
<1>3. GraphMade(g) /\ ScriptGraph(g)
  BY <1>2, GraphIsOne
<1>4. EndMade(g, src) /\ EndMade(g, dst) /\ SettingMade(s)
  BY <1>3, AllEndsAre, GraphDescriptionAssumption
<1>5. CASE ConnectRaises(g, src, dst)
  <2>1. graphs' = graphs /\ raised' # "import"
    BY <1>1, <1>5
  <2> HIDE DEF g
  <2>2. QED
    BY <1>1, <1>2, <1>3, <2>1, BuildingKeeps
<1>6. CASE ~ConnectRaises(g, src, dst)
  <2> DEFINE h == connect(g, src, dst, s)
  <2>1. graphs' = <<h>> /\ raised' # "import"
    BY <1>1, <1>2, <1>6 DEF None
  <2> HIDE DEF g
  <2>2. GraphMade(h) /\ ScriptGraph(h)
    BY <1>3, <1>4, <1>6, ConnectKeeps
  <2> HIDE DEF h
  <2>3. QED
    BY <1>1, <1>2, <2>1, <2>2, BuildingKeeps
<1>7. QED
  BY <1>5, <1>6

LEMMA ConnectConstantInv == Inv /\ ConnectConstant => Inv'
<1> SUFFICES ASSUME Inv, ConnectConstant PROVE Inv'
  OBVIOUS
<1> DEFINE g == graphs[1]
<1>1. PICK name \in ConstantNames, dst \in AllEnds("ins") :
        /\ Builds
        /\ graphs' = <<connectConstant(g, name, dst)>>
        /\ UNCHANGED <<files, made, raised>>
  BY DEF ConnectConstant
<1>2. files = <<>> /\ raised = None
  BY <1>1 DEF Builds, Calls
<1>3. GraphMade(g) /\ ScriptGraph(g)
  BY <1>2, GraphIsOne
<1>4. EndMade(g, dst)
  BY <1>3, AllEndsAre
<1> DEFINE h == connectConstant(g, name, dst)
<1>5. graphs' = <<h>> /\ raised' # "import"
  BY <1>1, <1>2 DEF None
<1> HIDE DEF g
<1>6. GraphMade(h) /\ ScriptGraph(h)
  BY <1>3, <1>4, ConnectConstantKeeps
<1> HIDE DEF h
<1>7. QED
  BY <1>1, <1>2, <1>5, <1>6, BuildingKeeps

LEMMA SetDefaultsInv == Inv /\ SetDefaults => Inv'
<1> SUFFICES ASSUME Inv, SetDefaults PROVE Inv'
  OBVIOUS
<1> DEFINE g == graphs[1]
<1>1. PICK c \in Defaults, d \in {"Duplicate", "MyDuplicate"} :
        /\ Builds
        /\ graphs' = <<[g EXCEPT !.defaultFIFOClass = c, !.duplicateNodeClassName = d]>>
        /\ UNCHANGED <<files, made, raised>>
  BY DEF SetDefaults
<1>2. files = <<>> /\ raised = None
  BY <1>1 DEF Builds, Calls
<1>3. GraphMade(g) /\ ScriptGraph(g)
  BY <1>2, GraphIsOne
<1> DEFINE h == [g EXCEPT !.defaultFIFOClass = c, !.duplicateNodeClassName = d]
<1>4. graphs' = <<h>> /\ raised' # "import"
  BY <1>1, <1>2 DEF None
<1> HIDE DEF g
<1>5. GraphMade(h) /\ ScriptGraph(h)
  BY <1>3, DefaultsKeep
<1> HIDE DEF h
<1>6. QED
  BY <1>1, <1>2, <1>4, <1>5, BuildingKeeps

LEMMA SetOptionInv == Inv /\ SetOption => Inv'
<1> SUFFICES ASSUME Inv, SetOption PROVE Inv'
  OBVIOUS
<1>1. files = <<>> /\ raised = None
  BY DEF SetOption, Calls
<1>2. UNCHANGED <<graphs, files, made>> /\ raised' # "import"
  BY <1>1 DEF SetOption, None
<1>3. GraphMade(graphs[1]) /\ ScriptGraph(graphs[1])
  BY <1>1, GraphIsOne
<1>4. QED
  BY <1>1, <1>2, <1>3, BuildingKeeps

LEMMA ExportInv == Inv /\ Export => Inv'
<1> SUFFICES ASSUME Inv, Export PROVE Inv'
  OBVIOUS
<1> DEFINE doc == ExportedGraph(Last(graphs))
<1>1. /\ Len(files) < Len(graphs) /\ files' = Append(files, doc)
      /\ UNCHANGED <<graphs, made, raised>>
  BY DEF Export
<1>2. /\ IsSequence(files) /\ Len(files) \in {Len(graphs) - 1, Len(graphs)}
      /\ \A k \in DOMAIN files : files[k] = ExportedGraph(graphs[k])
  BY DEF Inv, FilesMade
<1>3. /\ Len(graphs) \in Nat /\ Len(graphs) > 0 /\ DOMAIN graphs = 1..Len(graphs)
      /\ Len(files) \in Nat /\ DOMAIN files = 1..Len(files)
  BY <1>2, SequenceIs DEF Inv, GraphsMade
<1>4. Len(files) + 1 = Len(graphs) /\ doc = ExportedGraph(graphs[Len(files) + 1])
  <2>1. Len(files) = Len(graphs) - 1
    <3> DEFINE a == Len(files)
               b == Len(graphs)
    <3>1. a \in Nat /\ b \in Nat /\ a < b /\ (a = b - 1 \/ a = b)
      BY <1>1, <1>2, <1>3
    <3> HIDE DEF a, b
    <3>2. a = b - 1
      BY <3>1
    <3>3. QED
      BY <3>2 DEF a, b
  <2>2. Len(files) + 1 = Len(graphs)
    BY <1>3, <2>1
  <2>3. Last(graphs) = graphs[Len(graphs)]
    BY DEF Last
  <2>4. QED
    BY <2>2, <2>3
<1> HIDE DEF doc
<1>5. /\ IsSequence(files') /\ Len(files') = Len(files) + 1
      /\ DOMAIN (files') = 1..Len(files) + 1 /\ files'[Len(files) + 1] = doc
      /\ \A k \in DOMAIN files : files'[k] = files[k]
  BY <1>1, <1>2, Appended
<1>6. \A k \in DOMAIN (files') : files'[k] = ExportedGraph(graphs[k])
  <2>1. \A k \in DOMAIN (files') : k \in DOMAIN files \/ k = Len(files) + 1
    BY <1>3, <1>5
  <2>2. QED
    BY <1>2, <1>4, <1>5, <2>1
<1>7. FilesMade'
  BY <1>1, <1>4, <1>5, <1>6 DEF FilesMade
<1>8. GraphsMade' /\ CopiesMade'
  BY <1>1 DEF Inv, GraphsMade, CopiesMade
<1>9. CountsMade(made') /\ (raised' = "import" => ~Portable(Last(graphs')))
  BY <1>1 DEF Inv
<1>10. QED
  BY <1>7, <1>8, <1>9 DEF Inv

LEMMA ImportInv == Inv /\ Import => Inv'
<1> SUFFICES ASSUME Inv, Import PROVE Inv'
  OBVIOUS
<1> DEFINE g == Last(graphs)
           n == Len(graphs)
<1>1. PICK count \in {made, <<>>} :
        /\ raised = None /\ Len(files) = n
        /\ IF ImportRaises(Last(files))
             THEN raised' = "import" /\ UNCHANGED <<graphs, made>>
             ELSE /\ graphs' = Append(graphs, ImportedGraph(Last(files), count))
                  /\ made' = CountedBy(ImportedNodes(Last(files)), count)
                  /\ UNCHANGED raised
        /\ UNCHANGED files
  BY DEF Import
<1>2. /\ IsSequence(files) /\ \A k \in DOMAIN files : files[k] = ExportedGraph(graphs[k])
      /\ IsSequence(graphs) /\ n > 0
      /\ \A k \in DOMAIN graphs : GraphMade(graphs[k])
      /\ ScriptGraph(graphs[1])
  BY DEF Inv, FilesMade, GraphsMade
<1>3. /\ n \in Nat /\ DOMAIN graphs = 1..n /\ Len(files) \in Nat
      /\ DOMAIN files = 1..Len(files)
  BY <1>2, SequenceIs
<1>4. /\ Last(files) = ExportedGraph(g) /\ GraphMade(g) /\ g = graphs[n]
  <2>1. n \in DOMAIN files /\ n \in DOMAIN graphs
    BY <1>1, <1>2, <1>3
  <2>2. Last(files) = files[n] /\ g = graphs[n]
    BY <1>1 DEF Last
  <2> HIDE DEF g, n
  <2>3. QED
    BY <1>2, <2>1, <2>2
<1>5. CountsMade(count)
  BY <1>1 DEF Inv, CountsMade
<1> DEFINE doc == ExportedGraph(g)
           h == ImportedGraph(doc, count)
<1>6. CASE ImportRaises(doc)
  <2>1. raised' = "import" /\ UNCHANGED <<graphs, made, files>>
    BY <1>1, <1>4, <1>6
  <2>2. ~Portable(g)
    BY <1>4, <1>6, PortableIsRead
  <2>3. GraphsMade' /\ FilesMade' /\ CopiesMade' /\ CountsMade(made')
    BY <2>1 DEF Inv, GraphsMade, FilesMade, CopiesMade
  <2>4. QED
    BY <2>1, <2>2, <2>3 DEF Inv
<1>7. CASE ~ImportRaises(doc)
  <2>1. /\ graphs' = Append(graphs, h) /\ made' = CountedBy(ImportedNodes(doc), count)
        /\ UNCHANGED <<files, raised>>
    BY <1>1, <1>4, <1>7
  <2> HIDE DEF g
  <2>2. GraphMade(h) /\ Portable(h)
    BY <1>4, <1>5, <1>7, ImportedIsPortable
  <2>3. Portable(g) => SameGraph(g, h)
    BY <1>4, <1>5, PortableComesBack
  <2>4. CountsMade(made')
    BY <1>4, <1>5, <1>7, <2>1, CountsStay
  <2> HIDE DEF h, doc
  <2>5. /\ IsSequence(graphs') /\ Len(graphs') = n + 1 /\ DOMAIN (graphs') = 1..n + 1
        /\ graphs'[n + 1] = h /\ \A k \in DOMAIN graphs : graphs'[k] = graphs[k]
    BY <1>2, <2>1, Appended
  <2> HIDE DEF n
  <2>6. GraphsMade'
    <3>1. \A k \in DOMAIN (graphs') : GraphMade(graphs'[k])
      BY <1>2, <1>3, <2>2, <2>5
    <3>2. ScriptGraph(graphs'[1])
      BY <1>2, <1>3, <2>5
    <3>3. Len(graphs') > 0
      BY <1>3, <2>5
    <3>4. QED
      BY <2>5, <3>1, <3>2, <3>3 DEF GraphsMade
  <2>7. FilesMade'
    <3>1. Len(files') = Len(graphs') - 1
      <4>1. Len(files') = n /\ Len(graphs') = n + 1 /\ n \in Nat
        BY <1>1, <1>3, <2>1, <2>5
      <4>2. QED
        BY <4>1
    <3>2. \A k \in DOMAIN (files') : files'[k] = ExportedGraph(graphs'[k])
      BY <1>1, <1>2, <1>3, <2>1, <2>5 DEF n
    <3>3. QED
      BY <1>2, <2>1, <3>1, <3>2 DEF FilesMade
  <2>8. CopiesMade'
    <3> SUFFICES ASSUME NEW k \in 1..n + 1, k > 1
                 PROVE  /\ Portable(graphs'[k])
                        /\ Portable(graphs'[k - 1]) => SameGraph(graphs'[k - 1], graphs'[k])
      BY <2>5 DEF CopiesMade
    <3>1. CASE k = n + 1
      <4>1. graphs'[k] = h /\ graphs'[k - 1] = g
        BY <1>3, <1>4, <2>5, <3>1
      <4>2. QED
        BY <2>2, <2>3, <4>1
    <3>2. CASE k \in 1..n
      <4>1. graphs'[k] = graphs[k] /\ graphs'[k - 1] = graphs[k - 1] /\ k \in DOMAIN graphs
        BY <1>3, <2>5, <3>2
      <4>2. QED
        BY <4>1 DEF Inv, CopiesMade
    <3>3. QED
      BY <1>3, <3>1, <3>2
  <2>9. raised' # "import"
    BY <1>1, <2>1 DEF None
  <2>10. QED
    BY <2>4, <2>6, <2>7, <2>8, <2>9 DEF Inv
<1>8. QED
  BY <1>6, <1>7

LEMMA StutterInv == Inv /\ UNCHANGED <<graphs, files, made, raised>> => Inv'
<1> SUFFICES ASSUME Inv, UNCHANGED <<graphs, files, made, raised>> PROVE Inv'
  OBVIOUS
<1>1. GraphsMade' /\ FilesMade' /\ CopiesMade'
  BY DEF Inv, GraphsMade, FilesMade, CopiesMade
<1>2. CountsMade(made') /\ (raised' = "import" => ~Portable(Last(graphs')))
  BY DEF Inv
<1>3. QED
  BY <1>1, <1>2 DEF Inv

LEMMA InvIsInductive == Inv /\ [Next]_vars => Inv'
<1> SUFFICES ASSUME Inv, [Next]_vars PROVE Inv'
  OBVIOUS
<1>1. CASE ExportConfig \/ ImportConfig
  <2>1. UNCHANGED <<graphs, files, made, raised>>
    BY <1>1 DEF ExportConfig, ImportConfig
  <2>2. QED
    BY <2>1, StutterInv
<1>2. CASE UNCHANGED vars
  BY <1>2, StutterInv DEF vars
<1>3. QED
  BY <1>1, <1>2, ConnectInv, ConnectConstantInv, SetDefaultsInv, SetOptionInv,
     ExportInv, ImportInv DEF Next

(* The graphs of every program, connected in whatever ways and copied as     *)
(* often as the script likes, are what the invariant says.                   *)
LEMMA SpecInv == Spec => []Inv
BY InitInv, InvIsInductive, PTL DEF Spec

(* CopyIsFaithful (GraphDescription.tla): a graph that a file can hold is    *)
(* imported without an exception and comes back as it was, whatever the      *)
(* nodes, their types and their arguments, the settings of the edges, the    *)
(* classes of the FIFOs and the numbers of the functions (export_graph(),    *)
(* import_graph()).                                                          *)
THEOREM CopiesAreFaithful == Spec => []CopyIsFaithful
<1>1. Inv => CopyIsFaithful
  <2> SUFFICES ASSUME Inv, Portable(graphs[1])
               PROVE  /\ raised # "import"
                      /\ Len(graphs) > 1 => SameGraph(graphs[1], graphs[2])
    BY DEF CopyIsFaithful
  <2>1. Len(graphs) \in Nat /\ DOMAIN graphs = 1..Len(graphs) /\ Len(graphs) > 0
    BY SequenceIs DEF Inv, GraphsMade
  <2>2. Portable(Last(graphs))
    <3>1. CASE Len(graphs) = 1
      BY <3>1 DEF Last
    <3>2. CASE Len(graphs) > 1
      BY <2>1, <3>2 DEF Last, Inv, CopiesMade
    <3>3. QED
      BY <2>1, <3>1, <3>2
  <2>3. ASSUME Len(graphs) > 1 PROVE SameGraph(graphs[1], graphs[2])
    <3>1. 2 \in DOMAIN graphs /\ 2 > 1 /\ 2 - 1 = 1
      BY <2>1, <2>3
    <3>2. Portable(graphs[2 - 1]) => SameGraph(graphs[2 - 1], graphs[2])
      BY <3>1 DEF Inv, CopiesMade
    <3>3. QED
      BY <3>1, <3>2
  <2>4. QED
    BY <2>2, <2>3 DEF Inv
<1>2. QED
  BY <1>1, SpecInv, PTL

(* CopiesAgree (GraphDescription.tla): whatever the first import has lost, a *)
(* copy is exported, imported without an exception and the same again.       *)
THEOREM CopiesOfCopiesAgree == Spec => []CopiesAgree
<1>1. Inv => CopiesAgree
  <2> SUFFICES ASSUME Inv
               PROVE  /\ Len(graphs) > 1 => raised # "import"
                      /\ Len(graphs) = 3 => SameGraph(graphs[2], graphs[3])
    BY DEF CopiesAgree
  <2>1. Len(graphs) \in Nat /\ DOMAIN graphs = 1..Len(graphs) /\ Len(graphs) > 0
    BY SequenceIs DEF Inv, GraphsMade
  <2>2. Len(graphs) > 1 => Portable(Last(graphs))
    BY <2>1 DEF Last, Inv, CopiesMade
  <2>3. ASSUME Len(graphs) = 3 PROVE SameGraph(graphs[2], graphs[3])
    <3>1. 2 \in DOMAIN graphs /\ 3 \in DOMAIN graphs /\ 3 - 1 = 2
      BY <2>1, <2>3
    <3>2. Portable(graphs[2])
      BY <3>1 DEF Inv, CopiesMade
    <3>3. Portable(graphs[3 - 1]) => SameGraph(graphs[3 - 1], graphs[3])
      BY <3>1 DEF Inv, CopiesMade
    <3>4. QED
      BY <3>1, <3>2, <3>3
  <2>4. QED
    BY <2>2, <2>3 DEF Inv
<1>2. QED
  BY <1>1, SpecInv, PTL

(***************************************************************************)
(* The configuration.                                                        *)
(***************************************************************************)
(* Every option but those that the file cannot hold is compared in one      *)
(* section and looked for in the same: export_config(), import_config().    *)
LEMMA OptionsComeBack ==
  ASSUME NEW c \in SUBSET Configuration
  PROVE  ImportedConfig(ExportedConfig(c))
           = c \ OutsideTheFile
<1> DEFINE file == ExportedConfig(c)
<1>1. /\ DOMAIN file = {s \in Sections :
                          Exported[s] \cap c # {}}
      /\ \A s \in DOMAIN file : file[s] = Exported[s] \cap c
  BY DEF ExportedConfig
<1>2. \A s \in Sections :
        Exported[s] \subseteq Looked[s]
  <2>1. Exported["schedule"] \subseteq Looked["schedule"]
    BY DEF Exported, Looked
  <2>2. Exported["code"] \subseteq Looked["code"]
    BY DEF Exported, Looked
  <2>3. Exported["c"] \subseteq Looked["c"]
    BY DEF Exported, Looked
  <2>4. Exported["python"] \subseteq Looked["python"]
    BY DEF Exported, Looked
  <2>5. Exported["graphviz"] \subseteq Looked["graphviz"]
    BY DEF Exported, Looked
  <2>6. QED
    BY <2>1, <2>2, <2>3, <2>4, <2>5 DEF Sections
<1>3. \A o \in Configuration :
        o \notin OutsideTheFile
          <=> \E s \in Sections : o \in Exported[s]
  <2>1. \A s \in Sections :
           /\ Exported[s] \subseteq Configuration
           /\ Exported[s] \cap OutsideTheFile = {}
    BY SMTT(30) DEF Sections, Exported, OutsideTheFile, Configuration, ScheduleOptions,
                    GraphvizOptions, CodeOptions, FileNameOptions, ModeOptions
  <2>2. \A o \in Configuration :
         \/ o \in OutsideTheFile
         \/ o \in Exported["schedule"]
         \/ o \in Exported["code"]
         \/ o \in Exported["c"]
         \/ o \in Exported["python"]
         \/ o \in Exported["graphviz"]
    BY SMTT(30) DEF Exported, OutsideTheFile, Configuration, ScheduleOptions,
                    GraphvizOptions, CodeOptions, FileNameOptions, ModeOptions
  <2>3. QED
    BY <2>1, <2>2 DEF Sections
<1>4. QED
  BY <1>1, <1>2, <1>3 DEF ImportedConfig

(* The configuration that a script sets has options of the code generator   *)
(* only; its file is that of the options set when it was exported, which no *)
(* call sets afterwards, and its copy is what was read of that file.        *)
ConfigurationInv ==
  /\ conf \subseteq Configuration
  /\ confFile # <<>> => confFile = <<ExportedConfig(conf)>>
  /\ confCopy # <<>> =>
       /\ confFile # <<>>
       /\ confCopy = <<ImportedConfig(confFile[1])>>

LEMMA ConfigurationInvInductive ==
  ConfigurationInv /\ [Next]_vars => ConfigurationInv'
<1> SUFFICES ASSUME ConfigurationInv, [Next]_vars
             PROVE  ConfigurationInv'
  OBVIOUS
<1> USE DEF ConfigurationInv
<1>1. CASE SetOption
  BY <1>1 DEF SetOption, Calls
<1>2. CASE ExportConfig
  BY <1>2 DEF ExportConfig
<1>3. CASE ImportConfig
  BY <1>3 DEF ImportConfig
<1>4. CASE UNCHANGED <<conf, confFile, confCopy>>
  BY <1>4
<1>5. CASE \/ Connect \/ ConnectConstant
           \/ SetDefaults \/ Export \/ Import
  <2>1. UNCHANGED <<conf, confFile, confCopy>>
    BY <1>5 DEF Connect, ConnectConstant,
       SetDefaults, Export, Import
  <2>2. QED
    BY <2>1, <1>4
<1>6. CASE UNCHANGED vars
  BY <1>4, <1>6 DEF vars
<1>7. QED
  BY <1>1, <1>2, <1>3, <1>5, <1>6 DEF Next

(* ConfigurationSurvives (GraphDescription.tla): whatever options a script    *)
(* sets, those that have a key come back and no other does                   *)
(* (export_config(), import_config()).                                       *)
THEOREM OptionsSurvive == Spec => []ConfigurationSurvives
<1>1. Init => ConfigurationInv
  BY DEF Init, ConfigurationInv
<1>2. ConfigurationInv => ConfigurationSurvives
  BY OptionsComeBack DEF ConfigurationInv, ConfigurationSurvives
<1>3. QED
  BY <1>1, <1>2, ConfigurationInvInductive, PTL DEF Spec
=============================================================================
