--------------------------- MODULE HostLinkProofs ---------------------------
(***************************************************************************)
(* Proofs about modules PackedEvents and HostLink: events of any number of  *)
(* values that both languages know survive being packed and unpacked, and    *)
(* cross the connection however its streams are cut.                         *)
(***************************************************************************)
EXTENDS HostLink, WellFoundedInduction, NaturalsInduction, SequenceTheorems,
        TLAPS

(* A set of natural numbers has a least element.                            *)
LEMMA Least ==
  ASSUME NEW T, T \subseteq Nat, T # {}
  PROVE  \E n \in T : \A m \in T : n <= m
<1> DEFINE R == {ss \in Nat \X Nat : ss[1] < ss[2]}
<1>1. R = OpToRel(<, Nat)
  BY DEF OpToRel
<1>2. IsWellFoundedOn(R, Nat)
  BY <1>1, NatLessThanWellFounded
<1>3. PICK n \in T : \A m \in T : ~(<<m, n>> \in R)
  BY <1>2, WFMin
<1>4. \A m \in T : ~(m < n)
  <2>1. SUFFICES ASSUME NEW m \in T, m < n PROVE FALSE
    OBVIOUS
  <2>2. <<m, n>> \in R
    BY <2>1
  <2>3. QED
    BY <2>2, <1>3
<1>5. QED
  BY <1>4

(* Induction, for the set of the numbers that have a property.              *)
LEMMA Induction ==
  ASSUME NEW P, 0 \in P, \A n \in Nat : n \in P => n + 1 \in P
  PROVE  \A n \in Nat : n \in P
<1> DEFINE T == Nat \ P
<1>1. SUFFICES ASSUME T # {} PROVE FALSE
  OBVIOUS
<1>2. PICK n \in T : \A m \in T : n <= m
  BY <1>1, Least
<1>3. n # 0
  OBVIOUS
<1>4. n - 1 \in Nat /\ n - 1 \notin T
  BY <1>2, <1>3
<1>5. n \in P
  <2>1. n - 1 + 1 \in P
    BY <1>4
  <2>2. QED
    BY <2>1
<1>6. QED
  BY <1>5
-----------------------------------------------------------------------------
(* FlattenSeq: what its recursive function computes.                        *)
Concats(s, f) ==
  f = [i \in 1 .. Len(s) |-> IF i = 1 THEN s[i] ELSE f[i - 1] \o s[i]]

LEMMA FlattenIs ==
  ASSUME NEW s, Len(s) # 0, NEW g, Concats(s, g)
  PROVE  \E f : Concats(s, f) /\ FlattenSeq(s) = f[Len(s)]
<1>1. FlattenSeq(s) = (CHOOSE f : Concats(s, f))[Len(s)]
  BY DEF FlattenSeq, Concats
<1>2. Concats(s, CHOOSE f : Concats(s, f))
  OBVIOUS
<1>3. QED
  BY <1>1, <1>2

(* A sequence of sequences, one longer.                                     *)
LEMMA AppendTo ==
  ASSUME NEW S, NEW s \in Seq(Seq(S)), NEW x \in Seq(S)
  PROVE  /\ Append(s, x) \in Seq(Seq(S)) /\ Len(Append(s, x)) = Len(s) + 1
         /\ Len(s) \in Nat
         /\ \A i \in 1 .. Len(s) : Append(s, x)[i] = s[i] /\ s[i] \in Seq(S)
         /\ Append(s, x)[Len(s) + 1] = x
  OBVIOUS

(* The concatenations of a longer sequence continue those of the shorter.   *)
Continues(s, x, f, g) ==
  /\ Concats(Append(s, x), g)
  /\ g[Len(s) + 1] = (IF Len(s) = 0 THEN <<>> ELSE f[Len(s)]) \o x

LEMMA ConcatsAppend ==
  ASSUME NEW S, NEW s \in Seq(Seq(S)), NEW x \in Seq(S),
         NEW f \in [1 .. Len(s) -> Seq(S)], Concats(s, f)
  PROVE  \E g \in [1 .. Len(s) + 1 -> Seq(S)] : Continues(s, x, f, g)
<1> DEFINE n == Len(s)
           t == Append(s, x)
           last == (IF n = 0 THEN <<>> ELSE f[n]) \o x
           g == [i \in 1 .. n + 1 |-> IF i = n + 1 THEN last ELSE f[i]]
<1>1. /\ n \in Nat /\ Len(t) = n + 1 /\ t[n + 1] = x
      /\ \A i \in 1 .. n : t[i] = s[i]
  BY AppendTo
<1>2. last \in Seq(S) /\ (n = 0 => last = x)
  <2>1. CASE n = 0
    BY <2>1, ConcatEmptySeq
  <2>2. CASE n # 0
    <3>1. f[n] \in Seq(S)
      <4>1. n \in 1 .. Len(s)
        BY <1>1, <2>2
      <4>2. QED
        BY <4>1
    <3>2. QED
      BY <2>2, <3>1, ConcatProperties
  <2>3. QED
    BY <2>1, <2>2
<1>3. \A i \in 1 .. n :
        f[i] = IF i = 1 THEN s[i] ELSE f[i - 1] \o s[i]
  BY DEF Concats
<1> HIDE DEF n, t, last
<1>4. g \in [1 .. n + 1 -> Seq(S)] /\ g[n + 1] = last
      /\ \A i \in 1 .. n : g[i] = f[i]
  BY <1>1, <1>2 DEF n
<1>5. \A i \in 1 .. n + 1 :
        g[i] = IF i = 1 THEN t[i] ELSE g[i - 1] \o t[i]
  <2>1. SUFFICES ASSUME NEW i \in 1 .. n + 1
                 PROVE  g[i] = IF i = 1 THEN t[i] ELSE g[i - 1] \o t[i]
    OBVIOUS
  <2>2. CASE i = n + 1
    <3>1. CASE n = 0
      BY <1>1, <1>2, <1>4, <2>2, <3>1
    <3>2. CASE n # 0
      <4>1. i # 1 /\ i - 1 = n /\ n \in 1 .. n
        BY <1>1, <2>2, <3>2
      <4>2. g[i - 1] = f[n] /\ last = f[n] \o x
        BY <1>4, <3>2, <4>1 DEF last
      <4>3. QED
        BY <1>1, <1>4, <2>2, <4>1, <4>2
    <3>3. QED
      BY <3>1, <3>2
  <2>3. CASE i # n + 1
    <3>1. i \in 1 .. n
      BY <1>1, <2>3
    <3>2. i # 1 => i - 1 \in 1 .. n
      BY <1>1, <3>1
    <3>3. QED
      BY <1>1, <1>3, <1>4, <3>1, <3>2
  <2>4. QED
    BY <2>2, <2>3
<1>6. Concats(t, g)
  BY <1>1, <1>4, <1>5 DEF Concats
<1>7. QED
  <2>1. Continues(s, x, f, g)
    BY <1>4, <1>6 DEF n, t, last, Continues
  <2>2. g \in [1 .. Len(s) + 1 -> Seq(S)]
    BY <1>4 DEF n
  <2>3. QED
    BY <2>1, <2>2

(* They exist for every sequence of sequences, ...                          *)
LEMMA ConcatsExist ==
  ASSUME NEW S
  PROVE  \A s \in Seq(Seq(S)) : \E f \in [1 .. Len(s) -> Seq(S)] : Concats(s, f)
<1> DEFINE Has(s) == \E f \in [1 .. Len(s) -> Seq(S)] : Concats(s, f)
           P == {n \in Nat : \A s \in Seq(Seq(S)) : Len(s) = n => Has(s)}
<1>1. 0 \in P
  <2>1. SUFFICES ASSUME NEW s \in Seq(Seq(S)), Len(s) = 0 PROVE Has(s)
    OBVIOUS
  <2>2. 1 .. Len(s) = {}
    BY <2>1
  <2> DEFINE f == [i \in 1 .. Len(s) |-> <<>>]
  <2>3. f \in [1 .. Len(s) -> Seq(S)] /\ Concats(s, f)
    BY <2>2 DEF Concats
  <2>4. QED
    BY <2>3
<1>2. ASSUME NEW n \in Nat, n \in P PROVE n + 1 \in P
  <2>1. SUFFICES ASSUME NEW s \in Seq(Seq(S)), Len(s) = n + 1 PROVE Has(s)
    OBVIOUS
  <2> DEFINE r == SubSeq(s, 1, n)
  <2>2. r \in Seq(Seq(S)) /\ Len(r) = n /\ s[n + 1] \in Seq(S)
        /\ s = Append(r, s[n + 1])
    BY <2>1
  <2>3. PICK f \in [1 .. Len(r) -> Seq(S)] : Concats(r, f)
    BY <1>2, <2>2
  <2> HIDE DEF r
  <2>4. \E g \in [1 .. Len(r) + 1 -> Seq(S)] : Concats(Append(r, s[n + 1]), g)
    BY <2>2, <2>3, ConcatsAppend DEF Continues
  <2>5. QED
    BY <2>1, <2>2, <2>4
<1> HIDE DEF P
<1>3. \A n \in Nat : n \in P
  BY <1>1, <1>2, Induction
<1>4. QED
  BY <1>3 DEF P

(* and there is only one.                                                   *)
LEMMA ConcatsUnique ==
  ASSUME NEW s, Len(s) \in Nat, NEW f, NEW g, Concats(s, f), Concats(s, g)
  PROVE  f = g
<1>1. \A i \in 1 .. Len(s) :
        /\ f[i] = IF i = 1 THEN s[i] ELSE f[i - 1] \o s[i]
        /\ g[i] = IF i = 1 THEN s[i] ELSE g[i - 1] \o s[i]
  BY DEF Concats
<1> DEFINE P == {n \in Nat : n \in 1 .. Len(s) => f[n] = g[n]}
<1>2. 0 \in P
  OBVIOUS
<1>3. ASSUME NEW n \in Nat, n \in P PROVE n + 1 \in P
  <2>1. SUFFICES ASSUME n + 1 \in 1 .. Len(s) PROVE f[n + 1] = g[n + 1]
    OBVIOUS
  <2>2. CASE n = 0
    BY <1>1, <2>1, <2>2
  <2>3. CASE n # 0
    <3>1. n \in 1 .. Len(s) /\ n + 1 # 1 /\ n + 1 - 1 = n
      BY <2>1, <2>3
    <3>2. f[n] = g[n]
      BY <1>3, <3>1
    <3>3. /\ f[n + 1] = f[n + 1 - 1] \o s[n + 1]
          /\ g[n + 1] = g[n + 1 - 1] \o s[n + 1]
      <4> DEFINE k == n + 1
      <4>1. k \in 1 .. Len(s) /\ k # 1
        BY <2>1, <3>1
      <4> HIDE DEF k
      <4>2. f[k] = f[k - 1] \o s[k] /\ g[k] = g[k - 1] \o s[k]
        BY <1>1, <4>1
      <4>3. QED
        BY <4>2 DEF k
    <3>4. f[n + 1] = f[n] \o s[n + 1] /\ g[n + 1] = g[n] \o s[n + 1]
      BY <3>1, <3>3
    <3>5. QED
      BY <3>2, <3>4
  <2>4. QED
    BY <2>2, <2>3
<1> HIDE DEF P
<1>4. \A n \in Nat : n \in P
  BY <1>2, <1>3, Induction
<1>5. \A n \in 1 .. Len(s) : f[n] = g[n]
  BY <1>4 DEF P
<1>6. /\ f = [i \in 1 .. Len(s) |-> f[i]] /\ g = [i \in 1 .. Len(s) |-> g[i]]
  BY DEF Concats
<1>7. QED
  BY <1>5, <1>6

LEMMA FlattenEmpty == ASSUME NEW s, Len(s) = 0 PROVE FlattenSeq(s) = s
  BY DEF FlattenSeq

(* FlattenSeq of a longer sequence, ...                                     *)
LEMMA FlattenAppend ==
  ASSUME NEW S, NEW s \in Seq(Seq(S)), NEW x \in Seq(S)
  PROVE  /\ FlattenSeq(s) \in Seq(S)
         /\ FlattenSeq(Append(s, x)) = FlattenSeq(s) \o x
<1>1. PICK f \in [1 .. Len(s) -> Seq(S)] : Concats(s, f)
  BY ConcatsExist
<1>2. FlattenSeq(s) = IF Len(s) = 0 THEN <<>> ELSE f[Len(s)]
  <2>1. CASE Len(s) = 0
    BY <2>1, FlattenEmpty
  <2>2. CASE Len(s) # 0
    <3>1. PICK g : Concats(s, g) /\ FlattenSeq(s) = g[Len(s)]
      BY <1>1, <2>2, FlattenIs
    <3>2. Len(s) \in Nat
      BY AppendTo
    <3>3. g = f
      BY <1>1, <3>1, <3>2, ConcatsUnique
    <3>4. QED
      BY <2>2, <3>1, <3>3
  <2>3. QED
    BY <2>1, <2>2
<1>3. FlattenSeq(s) \in Seq(S)
  <2>1. Len(s) # 0 => Len(s) \in 1 .. Len(s)
    BY AppendTo
  <2>2. Len(s) # 0 => f[Len(s)] \in Seq(S)
    BY <2>1
  <2>3. <<>> \in Seq(S)
    OBVIOUS
  <2>4. QED
    BY <1>2, <2>2, <2>3
<1>4. PICK g \in [1 .. Len(s) + 1 -> Seq(S)] : Continues(s, x, f, g)
  BY <1>1, ConcatsAppend
<1>5. /\ Append(s, x) \in Seq(Seq(S)) /\ Len(Append(s, x)) = Len(s) + 1
      /\ Len(s) \in Nat /\ Len(Append(s, x)) # 0
  BY AppendTo
<1>6. PICK h : /\ Concats(Append(s, x), h)
               /\ FlattenSeq(Append(s, x)) = h[Len(Append(s, x))]
  BY <1>4, <1>5, FlattenIs DEF Continues
<1>7. h = g
  <2>1. Len(Append(s, x)) \in Nat
    BY <1>5
  <2>2. QED
    BY <1>4, <1>6, <2>1, ConcatsUnique DEF Continues
<1>8. FlattenSeq(Append(s, x)) = FlattenSeq(s) \o x
  BY <1>2, <1>4, <1>5, <1>6, <1>7 DEF Continues
<1>9. QED
  BY <1>3, <1>8

LEMMA FlattenType ==
  ASSUME NEW S, NEW s \in Seq(Seq(S))
  PROVE  FlattenSeq(s) \in Seq(S)
<1>1. <<>> \in Seq(S)
  OBVIOUS
<1>2. QED
  BY <1>1, FlattenAppend

(* A sequence that is not empty, without its last element.                  *)
LEMMA LastOff ==
  ASSUME NEW S, NEW s \in Seq(S), NEW n \in Nat, Len(s) = n + 1
  PROVE  /\ SubSeq(s, 1, n) \in Seq(S) /\ Len(SubSeq(s, 1, n)) = n
         /\ s[n + 1] \in S /\ s = Append(SubSeq(s, 1, n), s[n + 1])
  OBVIOUS

(* and of one with another first element.                                   *)
LEMMA FlattenFirst ==
  ASSUME NEW S, NEW x \in Seq(S)
  PROVE  \A s \in Seq(Seq(S)) :
           /\ <<x>> \o s \in Seq(Seq(S))
           /\ FlattenSeq(<<x>> \o s) = x \o FlattenSeq(s)
<1> DEFINE Splits(s) == FlattenSeq(<<x>> \o s) = x \o FlattenSeq(s)
<1> HIDE DEF Splits
<1> DEFINE P == {n \in Nat : \A s \in Seq(Seq(S)) : Len(s) = n => Splits(s)}
<1>0. \A s \in Seq(Seq(S)) : <<x>> \o s \in Seq(Seq(S))
  BY ConcatProperties
<1>1. 0 \in P
  <2>1. SUFFICES ASSUME NEW s \in Seq(Seq(S)), Len(s) = 0 PROVE Splits(s)
    OBVIOUS
  <2>2. s = <<>> /\ FlattenSeq(s) = <<>>
    BY <2>1, FlattenEmpty
  <2>3. <<x>> \o s = Append(s, x)
    BY <2>2
  <2>4. FlattenSeq(<<x>> \o s) = <<>> \o x
    BY <2>2, <2>3, FlattenAppend
  <2>5. QED
    BY <2>2, <2>4, ConcatEmptySeq DEF Splits
<1>2. ASSUME NEW n \in Nat, n \in P PROVE n + 1 \in P
  <2>1. SUFFICES ASSUME NEW s \in Seq(Seq(S)), Len(s) = n + 1 PROVE Splits(s)
    OBVIOUS
  <2> DEFINE r == SubSeq(s, 1, n)
             y == s[n + 1]
  <2>2. r \in Seq(Seq(S)) /\ Len(r) = n /\ y \in Seq(S) /\ s = Append(r, y)
    BY <2>1, LastOff
  <2>3. FlattenSeq(<<x>> \o r) = x \o FlattenSeq(r)
    BY <1>2, <2>2 DEF Splits
  <2> HIDE DEF r, y
  <2>4. <<x>> \o s = Append(<<x>> \o r, y) /\ <<x>> \o r \in Seq(Seq(S))
    BY <1>0, <2>2
  <2>5. FlattenSeq(<<x>> \o s) = (x \o FlattenSeq(r)) \o y
    <3>1. FlattenSeq(Append(<<x>> \o r, y)) = FlattenSeq(<<x>> \o r) \o y
      BY <2>2, <2>4, FlattenAppend
    <3>2. QED
      BY <2>3, <2>4, <3>1
  <2>6. FlattenSeq(s) = FlattenSeq(r) \o y /\ FlattenSeq(r) \in Seq(S)
    BY <2>2, FlattenAppend
  <2>7. (x \o FlattenSeq(r)) \o y = x \o (FlattenSeq(r) \o y)
    BY <2>2, <2>6, ConcatAssociative, SMTT(30)
  <2>8. QED
    BY <2>5, <2>6, <2>7 DEF Splits
<1> HIDE DEF P
<1>3. \A n \in Nat : n \in P
  BY <1>1, <1>2, Induction
<1>4. \A s \in Seq(Seq(S)) : Splits(s)
  BY <1>3 DEF P
<1>5. QED
  BY <1>0, <1>4 DEF Splits

(* The elements of a sequence of sequences, in the flat one: the i-th        *)
(* begins after those before it.                                            *)
Before(s, i) == Len(FlattenSeq(SubSeq(s, 1, i - 1)))

LEMMA BeforeFirst ==
  ASSUME NEW S, NEW s \in Seq(Seq(S))
  PROVE  /\ Before(s, 1) = 0
         /\ \A i \in 1 .. Len(s) :
              /\ Before(s, i) \in Nat
              /\ Before(s, i + 1) = Before(s, i) + Len(s[i])
<1>1. Before(s, 1) = 0
  <2>1. 1 - 1 = 0 /\ SubSeq(s, 1, 0) = <<>>
    BY SubSeqEmpty
  <2>2. FlattenSeq(<<>>) = <<>>
    BY FlattenEmpty
  <2>3. Before(s, 1) = Len(<<>>)
    BY <2>1, <2>2 DEF Before
  <2>4. QED
    BY <2>3
<1>2. ASSUME NEW i \in 1 .. Len(s)
      PROVE  /\ Before(s, i) \in Nat
             /\ Before(s, i + 1) = Before(s, i) + Len(s[i])
  <2> DEFINE r == SubSeq(s, 1, i - 1)
  <2>1. r \in Seq(Seq(S)) /\ s[i] \in Seq(S) /\ SubSeq(s, 1, i) = Append(r, s[i])
    OBVIOUS
  <2>2. i + 1 - 1 = i
    OBVIOUS
  <2> HIDE DEF r
  <2>3. FlattenSeq(r) \in Seq(S)
        /\ FlattenSeq(SubSeq(s, 1, i)) = FlattenSeq(r) \o s[i]
    BY <2>1, FlattenAppend
  <2>4. /\ Len(FlattenSeq(r)) \in Nat
        /\ Len(FlattenSeq(r) \o s[i]) = Len(FlattenSeq(r)) + Len(s[i])
    BY <2>1, <2>3, LenProperties, ConcatProperties
  <2>5. /\ Before(s, i) = Len(FlattenSeq(r))
        /\ Before(s, i + 1) = Len(FlattenSeq(SubSeq(s, 1, i)))
    BY <2>2 DEF Before, r
  <2>6. QED
    BY <2>3, <2>4, <2>5
<1>3. QED
  BY <1>1, <1>2

LEMMA FlattenAt ==
  ASSUME NEW S
  PROVE  \A s \in Seq(Seq(S)) : \A i \in 1 .. Len(s) :
           /\ Before(s, i) + Len(s[i]) <= Len(FlattenSeq(s))
           /\ \A j \in 1 .. Len(s[i]) :
                FlattenSeq(s)[Before(s, i) + j] = s[i][j]
<1> DEFINE There(s, i) ==
             /\ Before(s, i) + Len(s[i]) <= Len(FlattenSeq(s))
             /\ \A j \in 1 .. Len(s[i]) :
                  FlattenSeq(s)[Before(s, i) + j] = s[i][j]
           P == {n \in Nat : \A s \in Seq(Seq(S)) :
                               Len(s) = n => \A i \in 1 .. n : There(s, i)}
<1>1. 0 \in P
  OBVIOUS
<1>2. ASSUME NEW n \in Nat, n \in P PROVE n + 1 \in P
  <2>1. SUFFICES ASSUME NEW s \in Seq(Seq(S)), Len(s) = n + 1,
                        NEW i \in 1 .. n + 1
                 PROVE  There(s, i)
    OBVIOUS
  <2> DEFINE r == SubSeq(s, 1, n)
             y == s[n + 1]
  <2>2. r \in Seq(Seq(S)) /\ Len(r) = n /\ y \in Seq(S) /\ s = Append(r, y)
    BY <2>1, LastOff
  <2>3. \A k \in 1 .. n : There(r, k)
    BY <1>2, <2>2
  <2>4. SubSeq(s, 1, i - 1) = SubSeq(r, 1, i - 1)
    BY <2>1
  <2>5. \A k \in 1 .. n : s[k] = r[k] /\ r[k] \in Seq(S)
    BY <2>1
  <2>6. i = n + 1 => SubSeq(s, 1, i - 1) = r
    BY <2>1
  <2> HIDE DEF r, There
  <2>7. FlattenSeq(s) = FlattenSeq(r) \o y /\ FlattenSeq(r) \in Seq(S)
    BY <2>2, FlattenAppend
  <2>8. Before(s, i) = Before(r, i) /\ (i = n + 1 => Before(s, i) = Len(FlattenSeq(r)))
    BY <2>4, <2>6 DEF Before
  <2> DEFINE F == FlattenSeq(r)
  <2> HIDE DEF F, y
  <2>9. /\ Len(F) \in Nat /\ Len(y) \in Nat
        /\ Len(F \o y) = Len(F) + Len(y)
        /\ \A k \in 1 .. Len(F) + Len(y) :
             (F \o y)[k] = IF k <= Len(F) THEN F[k] ELSE y[k - Len(F)]
    BY <2>2, <2>7, LenProperties, ConcatProperties DEF F
  <2>10. CASE i = n + 1
    <3>1. Before(s, i) = Len(F) /\ FlattenSeq(s) = F \o y /\ s[i] = y
      BY <2>7, <2>8, <2>10 DEF F, y
    <3>2. \A j \in 1 .. Len(y) : (F \o y)[Len(F) + j] = y[j]
      <4>1. SUFFICES ASSUME NEW j \in 1 .. Len(y)
                     PROVE  (F \o y)[Len(F) + j] = y[j]
        OBVIOUS
      <4>2. /\ Len(F) + j \in 1 .. Len(F) + Len(y)
            /\ ~(Len(F) + j <= Len(F)) /\ Len(F) + j - Len(F) = j
        BY <2>9
      <4>3. QED
        BY <2>9, <4>2
    <3>3. Before(s, i) + Len(s[i]) <= Len(FlattenSeq(s))
      BY <2>9, <3>1
    <3>4. \A j \in 1 .. Len(s[i]) : FlattenSeq(s)[Before(s, i) + j] = s[i][j]
      BY <3>1, <3>2
    <3>5. QED
      BY <3>3, <3>4 DEF There
  <2>11. CASE i # n + 1
    <3>1. i \in 1 .. n
      BY <2>11
    <3>2. /\ Before(r, i) + Len(r[i]) <= Len(F) /\ r[i] \in Seq(S)
          /\ \A j \in 1 .. Len(r[i]) : F[Before(r, i) + j] = r[i][j]
      BY <2>3, <2>5, <3>1 DEF There, F
    <3>3. Before(r, i) \in Nat /\ Len(r[i]) \in Nat
      BY <2>2, <3>1, <3>2, BeforeFirst, LenProperties
    <3>4. Before(s, i) = Before(r, i) /\ FlattenSeq(s) = F \o y /\ s[i] = r[i]
      BY <2>5, <2>7, <2>8, <3>1 DEF F
    <3>5. \A j \in 1 .. Len(r[i]) :
            (F \o y)[Before(r, i) + j] = r[i][j]
      <4>1. SUFFICES ASSUME NEW j \in 1 .. Len(r[i])
                     PROVE  (F \o y)[Before(r, i) + j] = r[i][j]
        OBVIOUS
      <4>2. Before(r, i) + j \in 1 .. Len(F) + Len(y)
            /\ Before(r, i) + j <= Len(F)
        BY <2>9, <3>2, <3>3
      <4>3. QED
        BY <2>9, <3>2, <4>2
    <3>6. Before(r, i) + Len(r[i]) <= Len(F \o y)
      BY <2>9, <3>2, <3>3
    <3>7. QED
      BY <3>4, <3>5, <3>6 DEF There
  <2>12. QED
    BY <2>10, <2>11
<1> HIDE DEF P
<1>3. \A n \in Nat : n \in P
  BY <1>1, <1>2, Induction
<1>4. QED
  BY <1>3 DEF P
-----------------------------------------------------------------------------
(* Units s at the place p of a message.                                     *)
Holds(m, p, s) ==
  /\ p + Len(s) - 1 <= Len(m)
  /\ \A j \in 1 .. Len(s) : m[p + j - 1] = s[j]

LEMMA Tags ==
  /\ Tag.kNone = 0 /\ Tag.kInt8 = 1 /\ Tag.kInt16 = 2 /\ Tag.kInt32 = 3
  /\ Tag.kInt64 = 4 /\ Tag.kFloat = 5 /\ Tag.kDouble = 6 /\ Tag.kUInt8 = 7
  /\ Tag.kUInt16 = 8 /\ Tag.kUInt32 = 9 /\ Tag.kUInt64 = 10
  /\ Tag.kAny = 11 /\ Tag.kStr = 12 /\ Tag.kTensor = 13
  /\ SharedKind = 15 /\ kCopyBuffer = 0 /\ kSharedBuffer = 1
  /\ Integral = {1, 2, 3, 4, 7, 8, 9, 10} /\ Scalars = 1 .. 10
  BY DEF Tag, SharedKind, kCopyBuffer, kSharedBuffer, Integral, Scalars

(* A number, or a value without elements: two units, or one.                *)
LEMMA HoldsTwo ==
  ASSUME NEW m, NEW p \in Nat, NEW a, NEW b, Holds(m, p, <<a, b>>)
  PROVE  m[p] = a /\ m[p + 1] = b
<1>1. Len(<<a, b>>) = 2 /\ <<a, b>>[1] = a /\ <<a, b>>[2] = b
  OBVIOUS
<1>2. m[p + 1 - 1] = a /\ m[p + 2 - 1] = b
  BY <1>1 DEF Holds
<1>3. p + 1 - 1 = p /\ p + 2 - 1 = p + 1
  OBVIOUS
<1>4. QED
  BY <1>2, <1>3

LEMMA HoldsOne ==
  ASSUME NEW m, NEW p \in Nat, NEW a, Holds(m, p, <<a>>)
  PROVE  m[p] = a
<1>1. Len(<<a>>) = 1 /\ <<a>>[1] = a
  OBVIOUS
<1>2. m[p + 1 - 1] = a
  BY <1>1 DEF Holds
<1>3. p + 1 - 1 = p
  OBVIOUS
<1>4. QED
  BY <1>2, <1>3

(* What holds a concatenation holds its parts.                              *)
LEMMA HoldsParts ==
  ASSUME NEW m \in Seq(Int), NEW p \in Nat, NEW s \in Seq(Int),
         NEW t \in Seq(Int), Holds(m, p, s \o t)
  PROVE  Holds(m, p, s) /\ Holds(m, p + Len(s), t)
<1>1. /\ Len(s) \in Nat /\ Len(t) \in Nat /\ Len(m) \in Nat
      /\ Len(s \o t) = Len(s) + Len(t)
      /\ \A i \in 1 .. Len(s) + Len(t) : (s \o t)[i] =
           IF i <= Len(s) THEN s[i] ELSE t[i - Len(s)]
  BY LenProperties, ConcatProperties
<1>2. /\ p + (Len(s) + Len(t)) - 1 <= Len(m)
      /\ \A i \in 1 .. Len(s) + Len(t) : m[p + i - 1] = (s \o t)[i]
  BY <1>1 DEF Holds
<1>3. Holds(m, p, s)
  <2>1. \A j \in 1 .. Len(s) : m[p + j - 1] = s[j]
    BY <1>1, <1>2
  <2>2. QED
    BY <1>1, <1>2, <2>1 DEF Holds
<1>4. ASSUME NEW j \in 1 .. Len(t) PROVE m[p + Len(s) + j - 1] = t[j]
  <2> DEFINE i == Len(s) + j
  <2>1. /\ i \in 1 .. Len(s) + Len(t) /\ ~(i <= Len(s)) /\ i - Len(s) = j
        /\ p + Len(s) + j - 1 = p + i - 1
    BY <1>1
  <2> HIDE DEF i
  <2>2. m[p + i - 1] = (s \o t)[i] /\ (s \o t)[i] = t[i - Len(s)]
    BY <1>1, <1>2, <2>1
  <2>3. QED
    BY <2>1, <2>2
<1>5. p + Len(s) + Len(t) - 1 <= Len(m)
  BY <1>1, <1>2
<1>6. QED
  BY <1>3, <1>4, <1>5 DEF Holds

LEMMA Joined ==
  ASSUME NEW s \in Seq(Int), NEW t \in Seq(Int)
  PROVE  /\ s \o t \in Seq(Int) /\ Len(s \o t) = Len(s) + Len(t)
         /\ Len(s) \in Nat /\ Len(t) \in Nat
  BY ConcatProperties, LenProperties

LEMMA Pair ==
  ASSUME NEW a \in Int, NEW b \in Int
  PROVE  <<a>> \o <<b>> = <<a, b>>
<1> DEFINE s == <<a>>
           t == <<b>>
           u == <<a, b>>
<1>1. s \in Seq(Int) /\ t \in Seq(Int) /\ u \in Seq(Int)
  OBVIOUS
<1>2. Len(s) = 1 /\ Len(t) = 1 /\ Len(u) = 2
  OBVIOUS
<1>3. s[1] = a /\ t[1] = b /\ u[1] = a /\ u[2] = b
  OBVIOUS
<1> HIDE DEF s, t, u
<1>4. s \o t \in Seq(Int) /\ Len(s \o t) = Len(s) + Len(t)
  BY <1>1, Joined
<1>5. \A i \in 1 .. Len(s) + Len(t) :
        (s \o t)[i] = IF i <= Len(s) THEN s[i] ELSE t[i - Len(s)]
  BY <1>1, ConcatProperties
<1>6. (s \o t)[1] = s[1] /\ (s \o t)[2] = t[1]
  <2>1. \A n, k \in Nat : Len(s) = n /\ Len(t) = k =>
          \A i \in 1 .. n + k :
            (s \o t)[i] = IF i <= n THEN s[i] ELSE t[i - n]
    BY <1>5
  <2>2. \A i \in 1 .. 1 + 1 :
            (s \o t)[i] = IF i <= 1 THEN s[i] ELSE t[i - 1]
    BY <1>2, <2>1
  <2>3. 1 \in 1 .. 1 + 1 /\ 2 \in 1 .. 1 + 1 /\ 1 <= 1 /\ ~(2 <= 1) /\ 2 - 1 = 1
    OBVIOUS
  <2> DEFINE w == s \o t
  <2> HIDE DEF w
  <2>4. w[1] = s[1] /\ w[2] = t[2 - 1]
    BY <2>2, <2>3 DEF w
  <2>5. QED
    BY <2>3, <2>4 DEF w
<1>7. Len(s \o t) = Len(u) /\ \A i \in 1 .. Len(s \o t) : (s \o t)[i] = u[i]
  <2>1. Len(s \o t) = 2
    BY <1>2, <1>4
  <2>2. \A i \in 1 .. 2 : (s \o t)[i] = u[i]
    <3>1. SUFFICES ASSUME NEW i \in 1 .. 2 PROVE (s \o t)[i] = u[i]
      OBVIOUS
    <3>2. i = 1 \/ i = 2
      OBVIOUS
    <3>3. QED
      BY <1>3, <1>6, <3>2
  <2>3. QED
    BY <1>2, <2>1, <2>2
<1>8. s \o t = u
  BY <1>1, <1>4, <1>7, SeqEqual
<1>9. QED
  BY <1>8 DEF s, t, u

(* One unit and what follows it.                                            *)
LEMMA HoldsTag ==
  ASSUME NEW m \in Seq(Int), NEW p \in Nat, NEW a \in Int,
         NEW t \in Seq(Int), Holds(m, p, <<a>> \o t)
  PROVE  /\ m[p] = a /\ Holds(m, p + 1, t)
         /\ <<a>> \o t \in Seq(Int) /\ Len(<<a>> \o t) = 1 + Len(t)
<1> DEFINE h == <<a>>
<1>1. h \in Seq(Int) /\ Len(h) = 1
  OBVIOUS
<1> HIDE DEF h
<1>2. Holds(m, p, h \o t)
  BY DEF h
<1>3. Holds(m, p, h) /\ Holds(m, p + Len(h), t)
  BY <1>1, <1>2, HoldsParts
<1>4. m[p] = a
  BY <1>3, HoldsOne DEF h
<1>5. h \o t \in Seq(Int) /\ Len(h \o t) = Len(h) + Len(t)
  BY <1>1, ConcatProperties
<1>6. QED
  BY <1>1, <1>3, <1>4, <1>5 DEF h

(* Two units and what follows them.                                         *)
LEMMA HoldsHeader ==
  ASSUME NEW m \in Seq(Int), NEW p \in Nat, NEW a \in Int, NEW b \in Int,
         NEW t \in Seq(Int), Holds(m, p, <<a, b>> \o t)
  PROVE  /\ m[p] = a /\ m[p + 1] = b /\ Holds(m, p + 2, t)
         /\ <<a, b>> \o t \in Seq(Int) /\ Len(<<a, b>> \o t) = 2 + Len(t)
<1> DEFINE h == <<a, b>>
<1>1. h \in Seq(Int) /\ Len(h) = 2
  OBVIOUS
<1> HIDE DEF h
<1>2. Holds(m, p, h \o t)
  BY DEF h
<1>3. Holds(m, p, h) /\ Holds(m, p + Len(h), t)
  BY <1>1, <1>2, HoldsParts
<1>4. m[p] = a /\ m[p + 1] = b
  BY <1>3, HoldsTwo DEF h
<1>5. h \o t \in Seq(Int) /\ Len(h \o t) = Len(h) + Len(t)
  BY <1>1, ConcatProperties
<1>6. QED
  BY <1>1, <1>3, <1>4, <1>5 DEF h

(* The elements that a message holds are those that are read.               *)
LEMMA HoldsElements ==
  ASSUME NEW m \in Seq(Int), NEW p \in Nat \ {0}, NEW s \in Seq(Int),
         Holds(m, p, s)
  PROVE  Elements(m, p, Len(s)) = s
<1>1. /\ Len(s) \in Nat /\ Len(m) \in Nat /\ p + Len(s) - 1 <= Len(m)
      /\ \A j \in 1 .. Len(s) : m[p + j - 1] = s[j]
  BY LenProperties DEF Holds
<1> DEFINE n == p + Len(s) - 1
<1>2. /\ p \in Int /\ n \in Int /\ n - p + 1 = Len(s)
      /\ p <= n => n - p + 1 = Len(s)
      /\ ~(p <= n) => Len(s) = 0
  BY <1>1
<1>3. \A i \in p .. n : m[i] \in Int
  BY <1>1
<1>4. /\ SubSeq(m, p, n) \in Seq(Int)
      /\ Len(SubSeq(m, p, n)) = IF p <= n THEN n - p + 1 ELSE 0
      /\ \A i \in 1 .. n - p + 1 : SubSeq(m, p, n)[i] = m[p + i - 1]
  <2> HIDE DEF n
  <2>1. QED
    BY <1>2, <1>3, SubSeqProperties
<1>5. /\ Len(SubSeq(m, p, n)) = Len(s)
      /\ \A i \in 1 .. Len(s) : SubSeq(m, p, n)[i] = s[i]
  BY <1>1, <1>2, <1>4
<1>6. SubSeq(m, p, n) = s
  BY <1>4, <1>5, SeqEqual
<1>7. QED
  BY <1>6 DEF Elements

(* An array: its length, then its elements.                                 *)
LEMMA HoldsArray ==
  ASSUME NEW m \in Seq(Int), NEW p \in Nat \ {0}, NEW s \in Seq(Int),
         Holds(m, p, PackArray(s))
  PROVE  m[p] = Len(s) /\ Holds(m, p + 1, s) /\ Elements(m, p + 1, Len(s)) = s
<1>1. Len(s) \in Nat /\ <<Len(s)>> \in Seq(Int) /\ Len(<<Len(s)>>) = 1
  BY LenProperties
<1>2. Holds(m, p, <<Len(s)>>) /\ Holds(m, p + 1, s)
  <2>1. Holds(m, p, <<Len(s)>>) /\ Holds(m, p + Len(<<Len(s)>>), s)
    BY <1>1, HoldsParts DEF PackArray
  <2>2. QED
    BY <1>1, <2>1
<1>3. m[p] = Len(s)
  BY <1>2, HoldsOne
<1>4. p + 1 \in Nat \ {0}
  OBVIOUS
<1>5. QED
  BY <1>2, <1>3, <1>4, HoldsElements

LEMMA ArrayType ==
  ASSUME NEW s \in Seq(Int)
  PROVE  PackArray(s) \in Seq(Int) /\ Len(PackArray(s)) = Len(s) + 1
<1>1. Len(s) \in Nat /\ <<Len(s)>> \in Seq(Int) /\ Len(<<Len(s)>>) = 1
  BY LenProperties
<1>2. QED
  BY <1>1, ConcatProperties DEF PackArray
-----------------------------------------------------------------------------
(* C++ reads a value of Python, ...                                         *)
LEMMA PyKinds == ASSUME NEW x \in Int32 PROVE PyIntegerKind(x) \in {1, 2, 3}
<1>1. Tag.kInt8 = 1 /\ Tag.kInt16 = 2 /\ Tag.kInt32 = 3
  BY Tags
<1>2. QED
  BY <1>1 DEF PyIntegerKind

PyNumber(v) ==
  /\ v \in [type : {"int", "float"}, of : {Tag.kNone}, dims : {<<>>},
            body : [1..1 -> Int]]
  /\ v.type = "int" => v.body[1] \in Int32

LEMMA PyReadableIs ==
  ASSUME NEW v \in PyReadable
  PROVE  \/ v = PyNone \/ PyNumber(v)
         \/ v \in [type : {"bytes"}, of : {Tag.kNone}, dims : {<<>>},
                   body : Seq(Int)]
<1>1. \A max \in Int : Signed(max) \subseteq Int
  BY DEF Signed
<1>2. \A x \in Int32 : x \in Int
  BY <1>1 DEF Int32
<1>3. CASE v \in [type : {"int"}, of : {Tag.kNone}, dims : {<<>>},
                  body : [1..1 -> Int32]]
  <2>1. v.body[1] \in Int32 /\ v.body \in [1..1 -> Int]
    BY <1>2, <1>3
  <2>2. QED
    BY <1>3, <2>1 DEF PyNumber
<1>4. CASE v \in [type : {"float"}, of : {Tag.kNone}, dims : {<<>>},
                  body : [1..1 -> Int]]
  BY <1>4 DEF PyNumber
<1>5. QED
  BY <1>3, <1>4 DEF PyReadable

LEMMA PyPacked ==
  ASSUME NEW v
  PROVE  /\ v.type = "int" => PyPackValue(v) = <<PyIntegerKind(v.body[1])>> \o v.body
         /\ v.type = "float" => PyPackValue(v) = <<5>> \o v.body
         /\ v.type = "bytes" => PyPackValue(v) = <<11, 0>> \o PackArray(v.body)
         /\ v.type = "none" => PyPackValue(v) = <<0>>
<1>1. CASE v.type = "int"
  BY <1>1 DEF PyPackValue
<1>2. CASE v.type = "float"
  BY <1>2, Tags DEF PyPackValue
<1>3. CASE v.type = "bytes"
  BY <1>3, Tags DEF PyPackValue
<1>4. CASE v.type = "none"
  BY <1>4, Tags DEF PyPackValue
<1>5. QED
  BY <1>1, <1>2, <1>3, <1>4

(* What the reader of C++ does with each of the tags that Python sends.     *)
LEMMA CppUnpacked ==
  ASSUME NEW m, NEW p
  PROVE  /\ m[p] \in {1, 2, 3, 5} =>
              CppUnpackValue(m, p) = Read(CppValue(m[p], <<m[p + 1]>>), p + 2)
         /\ m[p] = 0 => CppUnpackValue(m, p) = Read(CppNone, p + 1)
         /\ m[p] = 11 /\ m[p + 1] = 0 =>
              CppUnpackValue(m, p) =
                Read(CppValue(11, Elements(m, p + 3, m[p + 2])), p + 3 + m[p + 2])
<1>1. CASE m[p] \in {1, 2, 3, 5}
  BY <1>1, Tags DEF CppUnpackValue, CppReads
<1>2. CASE m[p] = 0
  BY <1>2, Tags DEF CppUnpackValue, CppReads
<1>3. CASE m[p] = 11 /\ m[p + 1] = 0
  BY <1>3, Tags DEF CppUnpackValue, CppReads
<1>4. QED
  BY <1>1, <1>2, <1>3

LEMMA CppTypes ==
  /\ \A k \in Integral : TypeOf(k) = "int"
  /\ TypeOf(5) = "float" /\ TypeOf(6) = "float" /\ TypeOf(12) = "str"
  /\ TypeOf(11) = "bytes" /\ TypeOf(13) = "tensor"
  /\ TypeOf(0) = "none" /\ TypeOf(15) = "none"
<1>1. \A k \in Integral : TypeOf(k) = "int"
  BY Tags DEF TypeOf
<1>2. TypeOf(5) = "float" /\ TypeOf(6) = "float"
  BY Tags DEF TypeOf
<1>3. TypeOf(12) = "str" /\ TypeOf(11) = "bytes" /\ TypeOf(13) = "tensor"
  BY Tags DEF TypeOf
<1>4. TypeOf(0) = "none" /\ TypeOf(15) = "none"
  BY Tags DEF TypeOf
<1>5. QED
  BY <1>1, <1>2, <1>3, <1>4

LEMMA CppReadsPy ==
  ASSUME NEW v \in PyReadable, NEW m \in Seq(Int), NEW p \in Nat \ {0},
         Holds(m, p, PyPackValue(v))
  PROVE  /\ SaidByCpp(CppUnpackValue(m, p).val) = v
         /\ CppUnpackValue(m, p).next = p + Len(PyPackValue(v))
<1>0. Tag.kNone = 0
  BY Tags
<1>1. CASE v = PyNone
  <2>1. PyPackValue(v) = <<0>>
    BY <1>1, PyPacked DEF PyNone, PyValue
  <2>2. m[p] = 0
    BY <2>1, HoldsOne
  <2>3. CppUnpackValue(m, p) = Read(CppNone, p + 1)
    BY <2>2, CppUnpacked
  <2>4. SaidByCpp(CppNone) = PyNone
    BY <1>0, CppTypes DEF SaidByCpp, CppNone, CppValue
  <2>5. QED
    BY <1>1, <2>1, <2>3, <2>4 DEF Read
<1>2. CASE PyNumber(v)
  <2> DEFINE k == IF v.type = "int" THEN PyIntegerKind(v.body[1]) ELSE 5
             x == v.body[1]
  <2>1. v.body = <<x>> /\ x \in Int /\ v.type \in {"int", "float"}
    BY <1>2 DEF PyNumber
  <2>2. k \in {1, 2, 3, 5} /\ (v.type = "int" => k \in {1, 2, 3})
        /\ (v.type # "int" => k = 5)
    BY <1>2, <2>1, PyKinds DEF PyNumber
  <2>3. PyPackValue(v) = <<k, x>>
    <3>1. PyPackValue(v) = <<k>> \o v.body
      BY <2>1, PyPacked
    <3> HIDE DEF k, x
    <3>2. <<k>> \o <<x>> = <<k, x>>
      BY <2>1, <2>2, Pair
    <3>3. QED
      BY <2>1, <3>1, <3>2
  <2> HIDE DEF k, x
  <2>4. m[p] = k /\ m[p + 1] = x
    BY <2>3, HoldsTwo
  <2>5. CppUnpackValue(m, p) = Read(CppValue(k, <<x>>), p + 2)
    BY <2>2, <2>4, CppUnpacked
  <2>6. TypeOf(k) = v.type
    BY <2>1, <2>2, CppTypes, Tags
  <2>7. SaidByCpp(CppValue(k, <<x>>)) =
          [type |-> v.type, of |-> 0, dims |-> <<>>, body |-> <<x>>]
    BY <1>0, <2>1, <2>6 DEF SaidByCpp, CppValue
  <2>8. v = [type |-> v.type, of |-> 0, dims |-> <<>>, body |-> <<x>>]
    BY <1>0, <1>2, <2>1 DEF PyNumber
  <2>9. Len(PyPackValue(v)) = 2
    BY <2>3
  <2>10. QED
    BY <2>5, <2>7, <2>8, <2>9 DEF Read
<1>3. CASE v \in [type : {"bytes"}, of : {Tag.kNone}, dims : {<<>>},
                  body : Seq(Int)]
  <2> DEFINE s == v.body
  <2>1. s \in Seq(Int) /\ PyPackValue(v) = <<11, 0>> \o PackArray(s)
    BY <1>3, PyPacked
  <2>2. v = [type |-> "bytes", of |-> 0, dims |-> <<>>, body |-> s]
    BY <1>0, <1>3
  <2> HIDE DEF s
  <2>3. PackArray(s) \in Seq(Int) /\ Len(PackArray(s)) = Len(s) + 1
        /\ Len(s) \in Nat
    BY <2>1, ArrayType, LenProperties
  <2>4. /\ m[p] = 11 /\ m[p + 1] = 0 /\ Holds(m, p + 2, PackArray(s))
        /\ Len(<<11, 0>> \o PackArray(s)) = 2 + Len(PackArray(s))
    BY <2>1, <2>3, HoldsHeader
  <2>5. m[p + 2] = Len(s) /\ Elements(m, p + 3, Len(s)) = s
    <3>1. p + 2 \in Nat \ {0} /\ p + 2 + 1 = p + 3
      OBVIOUS
    <3>2. m[p + 2] = Len(s) /\ Elements(m, p + 2 + 1, Len(s)) = s
      BY <2>1, <2>4, <3>1, HoldsArray
    <3>3. QED
      BY <3>1, <3>2
  <2>6. CppUnpackValue(m, p) = Read(CppValue(11, s), p + 3 + Len(s))
    BY <2>4, <2>5, CppUnpacked
  <2>7. SaidByCpp(CppValue(11, s)) =
          [type |-> "bytes", of |-> 0, dims |-> <<>>, body |-> s]
    BY <1>0, CppTypes DEF SaidByCpp, CppValue
  <2>8. Len(PyPackValue(v)) = 3 + Len(s)
    BY <2>1, <2>3, <2>4
  <2>9. SaidByCpp(CppUnpackValue(m, p).val) = v
    BY <2>2, <2>6, <2>7 DEF Read
  <2>10. p + 3 + Len(s) = p + (3 + Len(s))
    BY <2>3
  <2>11. CppUnpackValue(m, p).next = p + Len(PyPackValue(v))
    BY <2>6, <2>8, <2>10 DEF Read
  <2>12. QED
    BY <2>9, <2>11
<1>4. QED
  BY <1>1, <1>2, <1>3, PyReadableIs

(* and Python a value of C++.                                               *)
LEMMA CppPacked ==
  ASSUME NEW v
  PROVE  /\ v.kind \in 1 .. 10 => CppPackValue(v) = <<v.kind>> \o v.body
         /\ v.kind = 0 => CppPackValue(v) = <<0>>
         /\ v.kind = 12 =>
              CppPackValue(v) = <<12>> \o PackArray(v.body \o <<0>>)
         /\ v.kind = 15 => CppPackValue(v) = <<11, 1>> \o v.body
         /\ v.kind = 13 => CppPackValue(v) = PackTensor(v, Padded(v.dims, 3))
<1>1. CASE v.kind \in 1 .. 10
  <2>1. v.kind \in Scalars
    BY <1>1, Tags
  <2>2. CppPackValue(v) = <<v.kind>> \o v.body
    BY <2>1 DEF CppPackValue
  <2>3. QED
    BY <1>1, <2>2
<1>2. CASE v.kind = 0
  BY <1>2, Tags DEF CppPackValue
<1>3. CASE v.kind = 12
  BY <1>3, Tags DEF CppPackValue
<1>4. CASE v.kind = 15
  BY <1>4, Tags DEF CppPackValue
<1>5. CASE v.kind = 13
  BY <1>5, Tags DEF CppPackValue, CG_TENSOR_NB_DIMS
<1>6. QED
  BY <1>1, <1>2, <1>3, <1>4, <1>5

(* What the reader of Python does with each of the tags that C++ sends.     *)
LEMMA PyUnpacked ==
  ASSUME NEW m, NEW p
  PROVE  /\ m[p] \in 1 .. 10 =>
              PyUnpackValue(m, p) =
                Read(PyValue(IF m[p] \in Integral THEN "int" ELSE "float",
                             <<m[p + 1]>>), p + 2)
         /\ m[p] = 0 => PyUnpackValue(m, p) = Read(PyNone, p + 1)
         /\ m[p] = 11 /\ m[p + 1] = 1 => PyUnpackValue(m, p) = Read(PyNone, p + 4)
         /\ m[p] = 12 =>
              PyUnpackValue(m, p) =
                Read(PyValue("str", Elements(m, p + 2, m[p + 1] - 1)),
                     p + 2 + m[p + 1])
         /\ m[p] = 13 => PyUnpackValue(m, p) = PyUnpackTensor(m, p)
<1>1. CASE m[p] \in 1 .. 10 /\ m[p] \in Integral
  BY <1>1, Tags DEF PyUnpackValue
<1>2. CASE m[p] \in 1 .. 10 /\ m[p] \notin Integral
  BY <1>2, Tags DEF PyUnpackValue
<1>3. CASE m[p] = 0
  BY <1>3, Tags DEF PyUnpackValue
<1>4. CASE m[p] = 11
  BY <1>4, Tags DEF PyUnpackValue
<1>5. CASE m[p] = 12
  BY <1>5, Tags DEF PyUnpackValue
<1>6. CASE m[p] = 13
  BY <1>6, Tags DEF PyUnpackValue
<1>7. QED
  BY <1>1, <1>2, <1>3, <1>4, <1>5, <1>6

(* A tensor: its dimensions are followed by as many zeros as are missing.   *)
LEMMA PaddedType ==
  ASSUME NEW n \in 0 .. 3, NEW dims \in [1 .. n -> Int]
  PROVE  /\ dims \in Seq(Int) /\ Len(dims) = n
         /\ \E z \in Seq(Int) : /\ Padded(dims, 3) = dims \o z
                                /\ Padded(dims, 3) \in Seq(Int)
                                /\ Len(Padded(dims, 3)) = 3
<1>1. dims \in Seq(Int) /\ Len(dims) = n
  OBVIOUS
<1> DEFINE z == [i \in 1 .. 3 - n |-> 0]
<1>2. z \in Seq(Int) /\ Len(z) = 3 - n
  OBVIOUS
<1>3. Padded(dims, 3) = dims \o z
  BY <1>1 DEF Padded
<1> HIDE DEF z
<1>4. dims \o z \in Seq(Int) /\ Len(dims \o z) = 3
  BY <1>1, <1>2, Joined
<1>5. /\ Padded(dims, 3) = dims \o z /\ Padded(dims, 3) \in Seq(Int)
      /\ Len(Padded(dims, 3)) = 3
  BY <1>3, <1>4
<1>6. QED
  BY <1>1, <1>2, <1>5

LEMMA PyReadsTensor ==
  ASSUME NEW m \in Seq(Int), NEW p \in Nat \ {0}, NEW v, v.of \in 1 .. 10,
         v.body \in Seq(Int), NEW n \in 0 .. 3, v.dims \in [1 .. n -> Int],
         Holds(m, p, PackTensor(v, Padded(v.dims, 3)))
  PROVE  /\ m[p] = 13
         /\ PyUnpackTensor(m, p) =
              Read(PyTensor(v.of, v.dims, v.body), p + 9 + Len(v.body))
         /\ Len(PackTensor(v, Padded(v.dims, 3))) = 9 + Len(v.body)
         /\ Len(v.body) \in Nat
<1> DEFINE P == Padded(v.dims, 3)
           A == <<13, n>>
           B == PackArray(P)
           C == <<v.of, 0>>
           D == PackArray(v.body)
<1>1. /\ v.dims \in Seq(Int) /\ Len(v.dims) = n
      /\ P \in Seq(Int) /\ Len(P) = 3 /\ \E z \in Seq(Int) : P = v.dims \o z
  BY PaddedType
<1>2. PackTensor(v, P) = ((A \o B) \o C) \o D
  BY <1>1, Tags DEF PackTensor
<1>3. A \in Seq(Int) /\ C \in Seq(Int)
  OBVIOUS
<1>30. Len(A) = 2 /\ Len(C) = 2
  OBVIOUS
<1> HIDE DEF P
<1>31. P \in Seq(Int)
  BY <1>1
<1>4. /\ B \in Seq(Int) /\ Len(B) = Len(P) + 1
      /\ D \in Seq(Int) /\ Len(D) = Len(v.body) + 1 /\ Len(v.body) \in Nat
  <2>1. B \in Seq(Int) /\ Len(B) = Len(P) + 1
    BY <1>31, ArrayType
  <2>2. D \in Seq(Int) /\ Len(D) = Len(v.body) + 1
    BY ArrayType
  <2>3. Len(v.body) \in Nat
    BY LenProperties
  <2>4. QED
    BY <2>1, <2>2, <2>3
<1>5. Holds(m, p, ((A \o B) \o C) \o D)
  BY <1>2 DEF P
<1> HIDE DEF A, B, C, D
<1>6. A \o B \in Seq(Int) /\ Len(A \o B) = Len(A) + Len(B)
  BY <1>3, <1>4, Joined
<1>7. /\ (A \o B) \o C \in Seq(Int)
      /\ Len((A \o B) \o C) = Len(A \o B) + Len(C)
  BY <1>3, <1>6, Joined
<1>70. Len(A \o B) = 6 /\ Len((A \o B) \o C) = 8
  BY <1>1, <1>30, <1>4, <1>6, <1>7
<1>8. Len(((A \o B) \o C) \o D) = 9 + Len(v.body)
  <2>1. Len(((A \o B) \o C) \o D) = Len((A \o B) \o C) + Len(D)
    BY <1>4, <1>7, Joined
  <2>2. QED
    BY <1>4, <1>70, <2>1
<1>9. Holds(m, p, (A \o B) \o C) /\ Holds(m, p + 8, D)
  <2>1. Holds(m, p + Len((A \o B) \o C), D) /\ Holds(m, p, (A \o B) \o C)
    BY <1>4, <1>5, <1>7, HoldsParts
  <2>2. QED
    BY <1>70, <2>1
<1>10. Holds(m, p, A \o B) /\ Holds(m, p + 6, C)
  <2>1. Holds(m, p + Len(A \o B), C) /\ Holds(m, p, A \o B)
    BY <1>3, <1>6, <1>9, HoldsParts
  <2>2. QED
    BY <1>70, <2>1
<1>11. Holds(m, p, A) /\ Holds(m, p + 2, B)
  <2>1. Holds(m, p + Len(A), B) /\ Holds(m, p, A)
    BY <1>3, <1>4, <1>10, HoldsParts
  <2>2. QED
    BY <1>30, <2>1
<1>12. m[p] = 13 /\ m[p + 1] = n
  BY <1>11, HoldsTwo DEF A
<1>13. m[p + 6] = v.of /\ m[p + 7] = 0
  <2>1. p + 6 \in Nat /\ p + 6 + 1 = p + 7
    OBVIOUS
  <2>2. m[p + 6] = v.of /\ m[p + 6 + 1] = 0
    BY <1>10, <2>1, HoldsTwo DEF C
  <2>3. QED
    BY <2>1, <2>2
<1>14. m[p + 2] = 3 /\ Elements(m, p + 3, n) = v.dims
  <2>1. p + 2 \in Nat \ {0} /\ p + 2 + 1 = p + 3 /\ p + 3 \in Nat \ {0}
    OBVIOUS
  <2>2. m[p + 2] = 3 /\ Holds(m, p + 2 + 1, P)
    <3>1. Holds(m, p + 2, PackArray(P))
      BY <1>11 DEF B
    <3>2. m[p + 2] = Len(P) /\ Holds(m, p + 2 + 1, P)
      BY <1>31, <2>1, <3>1, HoldsArray
    <3>3. QED
      BY <1>1, <3>2
  <2>3. PICK z \in Seq(Int) : P = v.dims \o z
    BY <1>1
  <2>4. Holds(m, p + 3, v.dims)
    BY <1>1, <2>1, <2>2, <2>3, HoldsParts
  <2>5. Elements(m, p + 3, Len(v.dims)) = v.dims
    BY <1>1, <2>1, <2>4, HoldsElements
  <2>6. QED
    BY <1>1, <2>2, <2>5
<1>15. m[p + 8] = Len(v.body) /\ Elements(m, p + 9, Len(v.body)) = v.body
  <2>1. p + 8 \in Nat \ {0} /\ p + 8 + 1 = p + 9
    OBVIOUS
  <2>2. /\ m[p + 8] = Len(v.body)
        /\ Elements(m, p + 8 + 1, Len(v.body)) = v.body
    BY <1>9, <2>1, HoldsArray DEF D
  <2>3. QED
    BY <2>1, <2>2
<1>16. PyUnpackTensor(m, p) =
         Read(PyTensor(v.of, v.dims, v.body), p + 9 + Len(v.body))
  <2>1. /\ p + 3 + m[p + 2] = p + 6 /\ p + 6 + 1 = p + 7 /\ p + 6 + 2 = p + 8
        /\ p + 6 + 3 = p + 9
    BY <1>14
  <2>2. m[p + 6] \in Scalars /\ m[p + 7] = kCopyBuffer
    BY <1>13, Tags
  <2>3. QED
    BY <1>12, <1>13, <1>14, <1>15, <2>1, <2>2 DEF PyUnpackTensor
<1>17. QED
  BY <1>2, <1>4, <1>8, <1>12, <1>16 DEF P

LEMMA PyReadsCpp ==
  ASSUME NEW v \in CppReadable, NEW m \in Seq(Int), NEW p \in Nat \ {0},
         Holds(m, p, CppPackValue(v))
  PROVE  /\ PyUnpackValue(m, p).val = SaidByCpp(v)
         /\ PyUnpackValue(m, p).next = p + Len(CppPackValue(v))
<1>0. Tag.kNone = 0 /\ Tag.kStr = 12 /\ Tag.kTensor = 13 /\ SharedKind = 15
      /\ Scalars = 1 .. 10 /\ CG_TENSOR_NB_DIMS = 3
  BY Tags DEF CG_TENSOR_NB_DIMS
<1>1. CASE v = CppNone
  <2>1. v.kind = 0
    BY <1>0, <1>1 DEF CppNone, CppValue
  <2>2. CppPackValue(v) = <<0>> /\ Len(<<0>>) = 1
    BY <2>1, CppPacked
  <2>3. m[p] = 0
    BY <2>2, HoldsOne
  <2>4. PyUnpackValue(m, p) = Read(PyNone, p + 1)
    BY <2>3, PyUnpacked
  <2>5. SaidByCpp(v) = PyNone
    BY <2>1, CppTypes DEF SaidByCpp
  <2>6. QED
    BY <2>2, <2>4, <2>5 DEF Read
<1>2. CASE v \in [kind : Scalars, of : {Tag.kNone}, dims : {<<>>},
                  body : [1..1 -> Int]]
  <2> DEFINE k == v.kind
             x == v.body[1]
  <2>1. k \in 1 .. 10 /\ v.body = <<x>> /\ x \in Int /\ v.of = 0 /\ v.dims = <<>>
    BY <1>0, <1>2
  <2>2. CppPackValue(v) = <<k>> \o <<x>>
    BY <2>1, CppPacked
  <2>3. <<k>> \o <<x>> = <<k, x>>
    <3> HIDE DEF k, x
    <3>1. QED
      BY <2>1, Pair
  <2> HIDE DEF k, x
  <2>4. CppPackValue(v) = <<k, x>> /\ Len(<<k, x>>) = 2
    BY <2>2, <2>3
  <2>5. m[p] = k /\ m[p + 1] = x
    BY <2>4, HoldsTwo
  <2>6. PyUnpackValue(m, p) =
          Read(PyValue(IF k \in Integral THEN "int" ELSE "float", <<x>>), p + 2)
    BY <2>1, <2>5, PyUnpacked
  <2>7. TypeOf(k) = IF k \in Integral THEN "int" ELSE "float"
    <3>1. CASE k \in Integral
      BY <3>1, CppTypes
    <3>2. CASE k \notin Integral
      <4>1. k = 5 \/ k = 6
        BY <2>1, <3>2, Tags
      <4>2. QED
        BY <3>2, <4>1, CppTypes
    <3>3. QED
      BY <3>1, <3>2
  <2>8. SaidByCpp(v) = PyValue(TypeOf(k), <<x>>)
    BY <1>0, <2>1, <2>7 DEF SaidByCpp, PyValue, k
  <2>9. QED
    BY <2>4, <2>6, <2>7, <2>8 DEF Read
<1>3. CASE v \in [kind : {SharedKind}, of : {Tag.kNone}, dims : {<<>>},
                  body : [1..2 -> Int]]
  <2> DEFINE b == v.body
             h == <<11, 1>>
  <2>1. v.kind = 15 /\ b \in Seq(Int) /\ Len(b) = 2
    <3>1. v.kind = 15 /\ b \in [1 .. 2 -> Int]
      BY <1>0, <1>3
    <3> HIDE DEF b
    <3>2. \A n \in Nat : b \in [1 .. n -> Int] => b \in Seq(Int) /\ Len(b) = n
      OBVIOUS
    <3>3. QED
      BY <3>1, <3>2
  <2>2. CppPackValue(v) = h \o b
    BY <2>1, CppPacked
  <2>3. h \in Seq(Int) /\ Len(h) = 2
    OBVIOUS
  <2> HIDE DEF b
  <2>4. m[p] = 11 /\ m[p + 1] = 1
    BY <2>1, <2>2, HoldsHeader
  <2> HIDE DEF h
  <2>5. PyUnpackValue(m, p) = Read(PyNone, p + 4)
    BY <2>4, PyUnpacked
  <2>6. Len(h \o b) = Len(h) + Len(b)
    BY <2>1, <2>3, Joined
  <2>7. Len(CppPackValue(v)) = 4
    BY <2>1, <2>2, <2>3, <2>6
  <2>8. SaidByCpp(v) = PyNone
    BY <2>1, CppTypes DEF SaidByCpp
  <2>9. QED
    BY <2>5, <2>7, <2>8 DEF Read
<1>4. CASE v \in [kind : {Tag.kStr}, of : {Tag.kNone}, dims : {<<>>},
                  body : Seq(Int)]
  <2> DEFINE b == v.body
             s == b \o <<0>>
             t == PackArray(s)
             h == <<12>>
  <2>1. v.kind = 12 /\ b \in Seq(Int) /\ v.of = 0 /\ v.dims = <<>>
    BY <1>0, <1>4
  <2>2. CppPackValue(v) = h \o t
    BY <2>1, CppPacked
  <2>3. h \in Seq(Int) /\ Len(h) = 1 /\ <<0>> \in Seq(Int) /\ Len(<<0>>) = 1
    OBVIOUS
  <2>4. s \in Seq(Int) /\ Len(s) = Len(b) + 1 /\ Len(b) \in Nat
    <3> DEFINE z == <<0>>
    <3>1. z \in Seq(Int) /\ Len(z) = 1
      BY <2>3
    <3> HIDE DEF b, z
    <3>2. b \o z \in Seq(Int) /\ Len(b \o z) = Len(b) + Len(z) /\ Len(b) \in Nat
      BY <2>1, <3>1, Joined
    <3>3. QED
      BY <3>1, <3>2 DEF z
  <2>5. Holds(m, p, h \o t)
    BY <2>2
  <2>6. \A i \in 1 .. Len(b) : s[i] = b[i]
    <3> DEFINE z == <<0>>
    <3> HIDE DEF b, z
    <3>1. \A i \in 1 .. Len(b) : (b \o z)[i] = b[i]
      BY <2>1, <2>3, ConcatProperties, LenProperties DEF z
    <3>2. QED
      BY <3>1 DEF z
  <2> HIDE DEF s
  <2>7. t \in Seq(Int) /\ Len(t) = Len(s) + 1
    BY <2>4, ArrayType
  <2> HIDE DEF t, b
  <2>8. m[p] = 12 /\ Holds(m, p + 1, t)
    BY <2>5, <2>7, HoldsTag DEF h
  <2>9. m[p + 1] = Len(s) /\ Holds(m, p + 2, s)
    <3>1. p + 1 \in Nat \ {0} /\ p + 1 + 1 = p + 2
      OBVIOUS
    <3>2. m[p + 1] = Len(s) /\ Holds(m, p + 1 + 1, s)
      BY <2>4, <2>8, <3>1, HoldsArray DEF t
    <3>3. QED
      BY <3>1, <3>2
  <2>10. Elements(m, p + 2, m[p + 1] - 1) = b
    <3>1. Holds(m, p + 2, b)
      <4>1. /\ p + 2 + Len(s) - 1 <= Len(m) /\ Len(m) \in Nat
            /\ \A j \in 1 .. Len(s) : m[p + 2 + j - 1] = s[j]
        BY <2>9, LenProperties DEF Holds
      <4>2. p + 2 + Len(b) - 1 <= Len(m)
        BY <2>4, <4>1
      <4>3. \A j \in 1 .. Len(b) : m[p + 2 + j - 1] = b[j]
        <5>1. \A j \in 1 .. Len(b) : j \in 1 .. Len(s)
          BY <2>4
        <5>2. QED
          BY <2>6, <4>1, <5>1
      <4>4. QED
        BY <4>2, <4>3 DEF Holds
    <3>2. p + 2 \in Nat \ {0}
      OBVIOUS
    <3>3. Elements(m, p + 2, Len(b)) = b
      BY <2>1, <3>1, <3>2, HoldsElements
    <3>4. m[p + 1] - 1 = Len(b)
      BY <2>4, <2>9
    <3>5. QED
      BY <3>3, <3>4
  <2>11. PyUnpackValue(m, p) = Read(PyValue("str", b), p + 2 + Len(s))
    BY <2>8, <2>9, <2>10, PyUnpacked
  <2> HIDE DEF h
  <2>12. Len(h \o t) = Len(h) + Len(t)
    BY <2>3, <2>7, Joined DEF h
  <2>13. Len(CppPackValue(v)) = Len(s) + 2
    BY <2>2, <2>3, <2>4, <2>7, <2>12 DEF h
  <2>14. SaidByCpp(v) = PyValue("str", b)
    BY <1>0, <2>1, CppTypes DEF SaidByCpp, PyValue, b
  <2>15. QED
    BY <2>4, <2>11, <2>13, <2>14 DEF Read
<1>5. CASE v \in [kind : {Tag.kTensor}, of : Scalars,
                  dims : {d \in Seq(Int) : Len(d) <= CG_TENSOR_NB_DIMS},
                  body : Seq(Int)]
  <2> DEFINE n == Len(v.dims)
  <2>1. /\ v.kind = 13 /\ v.of \in 1 .. 10 /\ v.body \in Seq(Int)
        /\ v.dims \in Seq(Int) /\ n <= 3
    BY <1>0, <1>5
  <2>2. n \in 0 .. 3 /\ v.dims \in [1 .. n -> Int]
    <3>1. n \in Nat /\ v.dims \in [1 .. n -> Int]
      BY <2>1, LenProperties
    <3> HIDE DEF n
    <3>2. QED
      BY <2>1, <3>1
  <2>3. CppPackValue(v) = PackTensor(v, Padded(v.dims, 3))
    BY <2>1, CppPacked
  <2> HIDE DEF n
  <2>4. /\ m[p] = 13
        /\ PyUnpackTensor(m, p) =
             Read(PyTensor(v.of, v.dims, v.body), p + 9 + Len(v.body))
        /\ Len(CppPackValue(v)) = 9 + Len(v.body)
        /\ Len(v.body) \in Nat
    BY <2>1, <2>2, <2>3, PyReadsTensor
  <2>5. PyUnpackValue(m, p) = Read(PyTensor(v.of, v.dims, v.body), p + 9 + Len(v.body))
    BY <2>4, PyUnpacked
  <2>6. SaidByCpp(v) = PyTensor(v.of, v.dims, v.body)
    BY <2>1, CppTypes DEF SaidByCpp, PyTensor
  <2>7. p + Len(CppPackValue(v)) = p + 9 + Len(v.body)
    <3> DEFINE L == Len(v.body)
               M == Len(CppPackValue(v))
    <3>1. L \in Nat /\ M = 9 + L
      BY <2>4
    <3> HIDE DEF L, M
    <3>2. p + M = p + 9 + L
      BY <3>1
    <3>3. QED
      BY <3>2 DEF L, M
  <2>8. /\ PyUnpackValue(m, p).val = PyTensor(v.of, v.dims, v.body)
        /\ PyUnpackValue(m, p).next = p + 9 + Len(v.body)
    BY <2>5 DEF Read
  <2>9. QED
    BY <2>6, <2>7, <2>8
<1>6. QED
  BY <1>1, <1>2, <1>3, <1>4, <1>5 DEF CppReadable
-----------------------------------------------------------------------------
(* What is packed is a message.                                             *)
LEMMA TagThen ==
  ASSUME NEW a \in Int, NEW t \in Seq(Int)
  PROVE  <<a>> \o t \in Seq(Int)
<1>1. <<a>> \in Seq(Int)
  OBVIOUS
<1>2. QED
  BY <1>1, Joined

LEMMA HeaderThen ==
  ASSUME NEW a \in Int, NEW b \in Int, NEW t \in Seq(Int)
  PROVE  <<a, b>> \o t \in Seq(Int)
<1>1. <<a, b>> \in Seq(Int)
  OBVIOUS
<1>2. QED
  BY <1>1, Joined

LEMMA Listed ==
  ASSUME NEW n \in Nat, NEW b \in [1 .. n -> Int]
  PROVE  b \in Seq(Int) /\ Len(b) = n
  OBVIOUS

LEMMA PyPackType == ASSUME NEW v \in PyReadable PROVE PyPackValue(v) \in Seq(Int)
<1>1. CASE v = PyNone
  <2>1. PyPackValue(v) = <<0>>
    BY <1>1, PyPacked DEF PyNone, PyValue
  <2>2. QED
    BY <2>1
<1>2. CASE PyNumber(v)
  <2>1. v.body \in [1 .. 1 -> Int] /\ v.type \in {"int", "float"}
    BY <1>2 DEF PyNumber
  <2>2. v.body \in Seq(Int) /\ v.body[1] \in Int
    <3>1. 1 \in Nat /\ v.body[1] \in Int
      BY <2>1
    <3>2. QED
      BY <2>1, <3>1, Listed
  <2>3. v.type = "int" => PyIntegerKind(v.body[1]) \in Int
    BY <1>2, PyKinds DEF PyNumber
  <2>4. CASE v.type = "int"
    BY <2>2, <2>3, <2>4, PyPacked, TagThen
  <2>5. CASE v.type = "float"
    <3>1. 5 \in Int
      OBVIOUS
    <3>2. QED
      BY <2>2, <2>5, <3>1, PyPacked, TagThen
  <2>6. QED
    BY <2>1, <2>4, <2>5
<1>3. CASE v \in [type : {"bytes"}, of : {Tag.kNone}, dims : {<<>>},
                  body : Seq(Int)]
  <2>1. v.type = "bytes" /\ v.body \in Seq(Int) /\ 11 \in Int /\ 0 \in Int
    BY <1>3
  <2>2. PackArray(v.body) \in Seq(Int)
    BY <2>1, ArrayType
  <2>3. QED
    BY <2>1, <2>2, PyPacked, HeaderThen
<1>4. QED
  BY <1>1, <1>2, <1>3, PyReadableIs

LEMMA CppPackType == ASSUME NEW v \in CppReadable PROVE CppPackValue(v) \in Seq(Int)
<1>0. Tag.kNone = 0 /\ Tag.kStr = 12 /\ Tag.kTensor = 13 /\ SharedKind = 15
      /\ Scalars = 1 .. 10 /\ CG_TENSOR_NB_DIMS = 3 /\ kCopyBuffer = 0
  BY Tags DEF CG_TENSOR_NB_DIMS
<1>1. CASE v = CppNone
  <2>1. v.kind = 0
    BY <1>0, <1>1 DEF CppNone, CppValue
  <2>2. QED
    BY <2>1, CppPacked
<1>2. CASE v \in [kind : Scalars, of : {Tag.kNone}, dims : {<<>>},
                  body : [1..1 -> Int]]
  <2>1. v.kind \in 1 .. 10 /\ v.body \in [1 .. 1 -> Int]
    BY <1>0, <1>2
  <2>2. v.kind \in Int /\ v.body \in Seq(Int)
    <3>1. 1 \in Nat /\ v.kind \in Int
      BY <2>1
    <3>2. QED
      BY <2>1, <3>1, Listed
  <2>3. QED
    BY <2>1, <2>2, CppPacked, TagThen
<1>3. CASE v \in [kind : {SharedKind}, of : {Tag.kNone}, dims : {<<>>},
                  body : [1..2 -> Int]]
  <2>1. v.kind = 15 /\ v.body \in [1 .. 2 -> Int] /\ 11 \in Int /\ 1 \in Int
    BY <1>0, <1>3
  <2>2. v.body \in Seq(Int)
    <3>1. 2 \in Nat
      OBVIOUS
    <3>2. QED
      BY <2>1, <3>1, Listed
  <2>3. QED
    BY <2>1, <2>2, CppPacked, HeaderThen
<1>4. CASE v \in [kind : {Tag.kStr}, of : {Tag.kNone}, dims : {<<>>},
                  body : Seq(Int)]
  <2>1. v.kind = 12 /\ v.body \in Seq(Int) /\ <<0>> \in Seq(Int) /\ 12 \in Int
    BY <1>0, <1>4
  <2>2. v.body \o <<0>> \in Seq(Int)
    BY <2>1, Joined
  <2>3. PackArray(v.body \o <<0>>) \in Seq(Int)
    BY <2>2, ArrayType
  <2>4. QED
    BY <2>1, <2>3, CppPacked, TagThen
<1>5. CASE v \in [kind : {Tag.kTensor}, of : Scalars,
                  dims : {d \in Seq(Int) : Len(d) <= CG_TENSOR_NB_DIMS},
                  body : Seq(Int)]
  <2> DEFINE n == Len(v.dims)
             P == Padded(v.dims, 3)
             A == <<13, n>>
             B == PackArray(P)
             C == <<v.of, 0>>
             D == PackArray(v.body)
  <2>1. /\ v.kind = 13 /\ v.of \in 1 .. 10 /\ v.body \in Seq(Int)
        /\ v.dims \in Seq(Int) /\ n <= 3
    BY <1>0, <1>5
  <2>2. n \in 0 .. 3 /\ v.dims \in [1 .. n -> Int]
    <3>1. n \in Nat /\ v.dims \in [1 .. n -> Int]
      BY <2>1, LenProperties
    <3> HIDE DEF n
    <3>2. QED
      BY <2>1, <3>1
  <2>3. CppPackValue(v) = ((A \o B) \o C) \o D
    BY <1>0, <2>1, CppPacked DEF PackTensor
  <2>4. A \in Seq(Int) /\ C \in Seq(Int)
    <3> HIDE DEF n
    <3>1. n \in Int
      BY <2>2
    <3>2. v.of \in Int
      BY <2>1
    <3>3. QED
      BY <3>1, <3>2
  <2>5. P \in Seq(Int)
    <3> HIDE DEF n
    <3>1. QED
      BY <2>2, PaddedType
  <2> HIDE DEF P
  <2>6. B \in Seq(Int) /\ D \in Seq(Int)
    BY <2>1, <2>5, ArrayType
  <2> HIDE DEF A, B, C, D
  <2>7. A \o B \in Seq(Int)
    BY <2>4, <2>6, Joined
  <2>8. (A \o B) \o C \in Seq(Int)
    BY <2>4, <2>7, Joined
  <2>9. ((A \o B) \o C) \o D \in Seq(Int)
    BY <2>6, <2>8, Joined
  <2>10. QED
    BY <2>3, <2>9
<1>6. QED
  BY <1>1, <1>2, <1>3, <1>4, <1>5 DEF CppReadable

LEMMA HoldsItself == ASSUME NEW m \in Seq(Int) PROVE Holds(m, 1, m)
  BY LenProperties DEF Holds

(* Where an event has its fields, and each of its values.                   *)
LEMMA EventPacked ==
  ASSUME NEW e, e.node \in Int, e.id \in Int, NEW packed \in Seq(Seq(Int)),
         NEW m, m = PackEvent(e, packed)
  PROVE  /\ m \in Seq(Int) /\ m[1] = e.node /\ m[2] = e.id
         /\ Len(packed) = 0 => m[3] = 0 /\ m[4] = 0
         /\ Len(packed) = 1 => m[3] = 0 /\ Holds(m, 4, packed[1])
         /\ Len(packed) > 1 =>
              /\ m[3] = 1 /\ m[4] = Len(packed)
              /\ \A i \in 1 .. Len(packed) :
                   Holds(m, 5 + Before(packed, i), packed[i])
<1> DEFINE n == Len(packed)
           F == FlattenSeq(packed)
           t == CASE n = 0 -> <<0, Tag.kNone>>
                  [] n = 1 -> <<0>> \o packed[1]
                  [] OTHER -> <<1, n>> \o F
           none == <<0, 0>>
           one  == <<0>> \o packed[1]
           many == <<1, n>> \o F
<1>0. n \in Nat /\ (n # 0 => packed[1] \in Seq(Int)) /\ F \in Seq(Int)
  <2>1. n \in Nat /\ F \in Seq(Int)
    BY FlattenType, LenProperties
  <2>2. n # 0 => packed[1] \in Seq(Int)
    OBVIOUS
  <2>3. QED
    BY <2>1, <2>2
<1>1. m = <<e.node, e.id>> \o t
  BY DEF PackEvent
<1> HIDE DEF n, F
<1>2. /\ n = 0 => t = none
      /\ n = 1 => t = one
      /\ n # 0 /\ n # 1 => t = many
  <2>1. CASE n = 0
    BY <2>1, Tags
  <2>2. CASE n = 1
    BY <2>2
  <2>3. CASE n # 0 /\ n # 1
    BY <2>3
  <2>4. QED
    BY <2>1, <2>2, <2>3
<1> HIDE DEF t, none, one, many
<1>3. t \in Seq(Int)
  <2>1. CASE n = 0
    <3>1. none \in Seq(Int)
      BY DEF none
    <3>2. QED
      BY <1>2, <2>1, <3>1
  <2>2. CASE n = 1
    <3>1. 0 \in Int /\ packed[1] \in Seq(Int)
      BY <1>0, <2>2
    <3>2. one \in Seq(Int)
      BY <3>1, TagThen DEF one
    <3>3. QED
      BY <1>2, <2>2, <3>2
  <2>3. CASE n # 0 /\ n # 1
    <3>1. 1 \in Int /\ n \in Int
      BY <1>0
    <3>2. many \in Seq(Int)
      BY <1>0, <3>1, HeaderThen DEF many
    <3>3. QED
      BY <1>2, <2>3, <3>2
  <2>4. QED
    BY <2>1, <2>2, <2>3
<1>4. m \in Seq(Int)
  BY <1>1, <1>3, HeaderThen
<1>5. m[1] = e.node /\ m[2] = e.id /\ Holds(m, 3, t)
  <2>1. Holds(m, 1, <<e.node, e.id>> \o t)
    BY <1>1, <1>4, HoldsItself
  <2>2. 1 \in Nat /\ 1 + 1 = 2 /\ 1 + 2 = 3
    OBVIOUS
  <2>3. m[1] = e.node /\ m[1 + 1] = e.id /\ Holds(m, 1 + 2, t)
    BY <1>3, <1>4, <2>1, <2>2, HoldsHeader
  <2>4. QED
    BY <2>2, <2>3
<1>6. 3 \in Nat /\ 3 + 1 = 4 /\ 3 + 2 = 5 /\ 0 \in Int /\ 1 \in Int
  OBVIOUS
<1>7. ASSUME n = 0 PROVE m[3] = 0 /\ m[4] = 0
  <2>1. Holds(m, 3, <<0, 0>>)
    BY <1>2, <1>5, <1>7 DEF none
  <2>2. m[3] = 0 /\ m[3 + 1] = 0
    BY <1>6, <2>1, HoldsTwo
  <2>3. QED
    BY <1>6, <2>2
<1>8. ASSUME n = 1 PROVE m[3] = 0 /\ Holds(m, 4, packed[1])
  <2>1. Holds(m, 3, one) /\ packed[1] \in Seq(Int)
    BY <1>0, <1>2, <1>5, <1>8
  <2>2. m[3] = 0 /\ Holds(m, 3 + 1, packed[1])
    BY <1>4, <1>6, <2>1, HoldsTag DEF one
  <2>3. QED
    BY <1>6, <2>2
<1>9. ASSUME n > 1
      PROVE  /\ m[3] = 1 /\ m[4] = n
             /\ \A i \in 1 .. n : Holds(m, 5 + Before(packed, i), packed[i])
  <2>1. n # 0 /\ n # 1 /\ n \in Int
    BY <1>0, <1>9
  <2>0. Holds(m, 3, many)
    BY <1>2, <1>5, <2>1
  <2>2. m[3] = 1 /\ m[3 + 1] = n /\ Holds(m, 3 + 2, F)
    <3>1. QED
      BY <1>0, <1>4, <1>6, <2>0, <2>1, HoldsHeader DEF many
  <2>3. Holds(m, 5, F)
    BY <1>6, <2>2
  <2>4. ASSUME NEW i \in 1 .. n PROVE Holds(m, 5 + Before(packed, i), packed[i])
    <3> DEFINE b == Before(packed, i)
               q == packed[i]
    <3>1. b \in Nat /\ q \in Seq(Int) /\ Len(q) \in Nat
      BY BeforeFirst, LenProperties DEF n
    <3>2. /\ b + Len(q) <= Len(F)
          /\ \A j \in 1 .. Len(q) : F[b + j] = q[j]
      BY FlattenAt DEF F, n
    <3>3. /\ 5 + Len(F) - 1 <= Len(m) /\ Len(F) \in Nat /\ Len(m) \in Nat
          /\ \A j \in 1 .. Len(F) : m[5 + j - 1] = F[j]
      BY <1>0, <1>4, <2>3, LenProperties DEF Holds
    <3> HIDE DEF b, q
    <3>4. 5 + b + Len(q) - 1 <= Len(m)
      BY <3>1, <3>2, <3>3
    <3>5. ASSUME NEW j \in 1 .. Len(q) PROVE m[5 + b + j - 1] = q[j]
      <4> DEFINE k == b + j
      <4>1. k \in 1 .. Len(F) /\ 5 + b + j - 1 = 5 + k - 1
        BY <3>1, <3>2, <3>3
      <4>2. F[k] = q[j]
        BY <3>2
      <4> HIDE DEF k
      <4>3. m[5 + k - 1] = F[k]
        BY <3>3, <4>1
      <4>4. QED
        BY <4>1, <4>2, <4>3
    <3>6. Holds(m, 5 + b, q)
      BY <3>4, <3>5 DEF Holds
    <3>7. QED
      BY <3>6 DEF b, q
  <2>5. QED
    BY <1>6, <2>2, <2>4
<1>10. QED
  BY <1>0, <1>4, <1>5, <1>7, <1>8, <1>9 DEF n
-----------------------------------------------------------------------------
(* Reading a list: when each value that begins at its place is followed by  *)
(* the place of the next, the values are read at their places.              *)
Follow(next, place, n) ==
  \A i \in 1 .. n :
    (i = 1 \/ next[i - 1] = place[i]) => next[i] = place[i + 1]

LEMMA InPlace ==
  ASSUME NEW n \in Nat, NEW next, NEW place, Follow(next, place, n)
  PROVE  \A i \in 1 .. n : i = 1 \/ next[i - 1] = place[i]
<1> DEFINE P == {k \in Nat : k \in 1 .. n => k = 1 \/ next[k - 1] = place[k]}
<1>1. 0 \in P
  OBVIOUS
<1>2. ASSUME NEW k \in Nat, k \in P PROVE k + 1 \in P
  <2>1. SUFFICES ASSUME k + 1 \in 1 .. n, k + 1 # 1
                 PROVE  next[k] = place[k + 1]
    <3>1. k + 1 - 1 = k
      OBVIOUS
    <3>2. QED
      BY <3>1
  <2>2. k \in 1 .. n
    BY <2>1
  <2>3. k = 1 \/ next[k - 1] = place[k]
    BY <1>2, <2>2
  <2>4. QED
    BY <2>2, <2>3 DEF Follow
<1> HIDE DEF P
<1>3. \A k \in Nat : k \in P
  BY <1>1, <1>2, Induction
<1>4. QED
  BY <1>3 DEF P

(* The values of the event that C++ reads in message m, ...                 *)
CppReading(m, n, f) ==
  f = [i \in 1 .. n |-> CppUnpackValue(m, IF i = 1 THEN 5 ELSE f[i - 1].next)]

LEMMA CppReadsList ==
  ASSUME NEW m, NEW n \in Nat, m[3] # 0, m[4] = n, NEW place, place[1] = 5,
         \A i \in 1 .. n : CppUnpackValue(m, place[i]).next = place[i + 1]
  PROVE  CppUnpack(m) =
           [node |-> m[1], id |-> m[2],
            data |-> [i \in 1 .. n |-> CppUnpackValue(m, place[i]).val]]
<1> DEFINE w == [i \in 1 .. n |-> CppUnpackValue(m, place[i])]
           f == CHOOSE g : CppReading(m, n, g)
<1>1. CppReading(m, n, w)
  <2>1. \A i \in 1 .. n :
          w[i] = CppUnpackValue(m, IF i = 1 THEN 5 ELSE w[i - 1].next)
    <3>1. SUFFICES ASSUME NEW i \in 1 .. n
                   PROVE  place[i] = IF i = 1 THEN 5 ELSE w[i - 1].next
      OBVIOUS
    <3>2. CASE i = 1
      BY <3>2
    <3>3. CASE i # 1
      <4> DEFINE k == i - 1
      <4>1. k \in 1 .. n /\ k + 1 = i
        BY <3>3
      <4> HIDE DEF k
      <4>2. w[k].next = place[k + 1]
        BY <4>1
      <4>3. QED
        BY <3>3, <4>1, <4>2 DEF k
    <3>4. QED
      BY <3>2, <3>3
  <2>2. QED
    BY <2>1 DEF CppReading
<1>2. CppReading(m, n, f)
  BY <1>1
<1>3. CppUnpack(m) = [node |-> m[1], id |-> m[2],
                      data |-> [i \in 1 .. n |-> f[i].val]]
  BY DEF CppUnpack, CppReading
<1> HIDE DEF f
<1>4. \A i \in 1 .. n :
        f[i] = CppUnpackValue(m, IF i = 1 THEN 5 ELSE f[i - 1].next)
  BY <1>2 DEF CppReading
<1>5. \A i \in 1 .. n : f[i] = CppUnpackValue(m, place[i])
  <2> DEFINE next == [i \in 1 .. n |-> f[i].next]
  <2>1. \A i \in 1 .. n : i = 1 \/ (i - 1 \in 1 .. n /\ next[i - 1] = f[i - 1].next)
    OBVIOUS
  <2>2. \A i \in 1 .. n : next[i] = f[i].next
    OBVIOUS
  <2> HIDE DEF next
  <2>3. \A i \in 1 .. n : i = 1 \/ next[i - 1] = place[i] =>
                          f[i] = CppUnpackValue(m, place[i])
    BY <1>4, <2>1
  <2>4. Follow(next, place, n)
    BY <2>2, <2>3 DEF Follow
  <2>5. \A i \in 1 .. n : i = 1 \/ next[i - 1] = place[i]
    BY <2>4, InPlace
  <2>6. QED
    BY <2>3, <2>5
<1>6. [i \in 1 .. n |-> f[i].val] = [i \in 1 .. n |-> CppUnpackValue(m, place[i]).val]
  BY <1>5
<1>7. QED
  BY <1>3, <1>6

(* and in Python.                                                           *)
PyReading(m, n, f) ==
  f = [i \in 1 .. n |-> PyUnpackValue(m, IF i = 1 THEN 5 ELSE f[i - 1].next)]

LEMMA PyReadsList ==
  ASSUME NEW m, NEW n \in Nat, m[3] # 0, m[4] = n, NEW place, place[1] = 5,
         \A i \in 1 .. n : PyUnpackValue(m, place[i]).next = place[i + 1]
  PROVE  PyUnpack(m) =
           [node |-> m[1], id |-> m[2],
            data |-> [i \in 1 .. n |-> PyUnpackValue(m, place[i]).val]]
<1> DEFINE w == [i \in 1 .. n |-> PyUnpackValue(m, place[i])]
           f == CHOOSE g : PyReading(m, n, g)
<1>1. PyReading(m, n, w)
  <2>1. \A i \in 1 .. n :
          w[i] = PyUnpackValue(m, IF i = 1 THEN 5 ELSE w[i - 1].next)
    <3>1. SUFFICES ASSUME NEW i \in 1 .. n
                   PROVE  place[i] = IF i = 1 THEN 5 ELSE w[i - 1].next
      OBVIOUS
    <3>2. CASE i = 1
      BY <3>2
    <3>3. CASE i # 1
      <4> DEFINE k == i - 1
      <4>1. k \in 1 .. n /\ k + 1 = i
        BY <3>3
      <4> HIDE DEF k
      <4>2. w[k].next = place[k + 1]
        BY <4>1
      <4>3. QED
        BY <3>3, <4>1, <4>2 DEF k
    <3>4. QED
      BY <3>2, <3>3
  <2>2. QED
    BY <2>1 DEF PyReading
<1>2. PyReading(m, n, f)
  BY <1>1
<1>3. PyUnpack(m) = [node |-> m[1], id |-> m[2],
                      data |-> [i \in 1 .. n |-> f[i].val]]
  BY DEF PyUnpack, PyReading
<1> HIDE DEF f
<1>4. \A i \in 1 .. n :
        f[i] = PyUnpackValue(m, IF i = 1 THEN 5 ELSE f[i - 1].next)
  BY <1>2 DEF PyReading
<1>5. \A i \in 1 .. n : f[i] = PyUnpackValue(m, place[i])
  <2> DEFINE next == [i \in 1 .. n |-> f[i].next]
  <2>1. \A i \in 1 .. n : i = 1 \/ (i - 1 \in 1 .. n /\ next[i - 1] = f[i - 1].next)
    OBVIOUS
  <2>2. \A i \in 1 .. n : next[i] = f[i].next
    OBVIOUS
  <2> HIDE DEF next
  <2>3. \A i \in 1 .. n : i = 1 \/ next[i - 1] = place[i] =>
                          f[i] = PyUnpackValue(m, place[i])
    BY <1>4, <2>1
  <2>4. Follow(next, place, n)
    BY <2>2, <2>3 DEF Follow
  <2>5. \A i \in 1 .. n : i = 1 \/ next[i - 1] = place[i]
    BY <2>4, InPlace
  <2>6. QED
    BY <2>3, <2>5
<1>6. [i \in 1 .. n |-> f[i].val] = [i \in 1 .. n |-> PyUnpackValue(m, place[i]).val]
  BY <1>5
<1>7. QED
  BY <1>3, <1>6

-----------------------------------------------------------------------------
(* The event of a reading, and what an event says.                          *)
Event(a, b, d) == [node |-> a, id |-> b, data |-> d]

LEMMA SaidSome ==
  ASSUME NEW a, NEW b, NEW d, d # <<>>
  PROVE  Said(Event(a, b, d)) = Event(a, b, d)
  BY DEF Said, Event

LEMMA SaidNone ==
  ASSUME NEW a, NEW b
  PROVE  Said(Event(a, b, <<>>)) = Event(a, b, <<PyNone>>)
  BY DEF Said, Event

LEMMA SaidOfCpp ==
  ASSUME NEW a, NEW b, NEW d
  PROVE  SaidCpp(Event(a, b, d)) =
           Said(Event(a, b, [i \in DOMAIN d |-> SaidByCpp(d[i])]))
  BY DEF SaidCpp, Event

LEMMA EventNode == ASSUME NEW a, NEW b, NEW d PROVE Event(a, b, d).node = a
  BY DEF Event

LEMMA EventIs ==
  ASSUME NEW V, NEW e \in Events(V)
  PROVE  /\ e = Event(e.node, e.id, e.data)
         /\ e.node \in Int /\ e.id \in Int /\ e.data \in Seq(V)
  BY DEF Events, Event

LEMMA Singleton ==
  ASSUME NEW d, NEW x
  PROVE  /\ DOMAIN <<x>> = 1 .. 1 /\ <<x>>[1] = x /\ <<x>> # <<>>
         /\ <<x>> = [i \in 1 .. 1 |-> x]
  OBVIOUS

LEMMA ListedSeqs ==
  ASSUME NEW n \in Nat, NEW b \in [1 .. n -> Seq(Int)]
  PROVE  b \in Seq(Seq(Int)) /\ Len(b) = n
  OBVIOUS

(* What C++ reads of an event that Python packed, value by value.           *)
LEMMA CppUnpacksPy ==
  ASSUME NEW e \in Events(PyReadable), NEW m, m = PyPack(e)
  PROVE  /\ m \in Seq(Int)
         /\ \E d : /\ CppUnpack(m) = Event(e.node, e.id, d)
                   /\ DOMAIN d = 1 .. (IF Len(e.data) = 0 THEN 1 ELSE Len(e.data))
                   /\ \A i \in DOMAIN d :
                        SaidByCpp(d[i]) = IF Len(e.data) = 0 THEN PyNone ELSE e.data[i]
<1> DEFINE s == e.data
           n == Len(s)
           packed == [i \in DOMAIN s |-> PyPackValue(s[i])]
<1>1. /\ e.node \in Int /\ e.id \in Int /\ s \in Seq(PyReadable)
      /\ n \in Nat /\ DOMAIN s = 1 .. n /\ \A i \in 1 .. n : s[i] \in PyReadable
  BY EventIs, LenProperties
<1>2. /\ packed \in [1 .. n -> Seq(Int)]
      /\ \A i \in 1 .. n : packed[i] = PyPackValue(s[i])
  <2> HIDE DEF n, s
  <2>1. QED
    BY <1>1, PyPackType
<1>3. m = PackEvent(e, packed)
  BY DEF PyPack
<1> HIDE DEF packed, n, s
<1>4. packed \in Seq(Seq(Int)) /\ Len(packed) = n
  BY <1>1, <1>2, ListedSeqs
<1>5. /\ m \in Seq(Int) /\ m[1] = e.node /\ m[2] = e.id
      /\ n = 0 => m[3] = 0 /\ m[4] = 0
      /\ n = 1 => m[3] = 0 /\ Holds(m, 4, packed[1])
      /\ n > 1 => /\ m[3] = 1 /\ m[4] = n
                  /\ \A i \in 1 .. n : Holds(m, 5 + Before(packed, i), packed[i])
  BY <1>1, <1>3, <1>4, EventPacked
<1>6. ASSUME m[3] = 0
      PROVE  CppUnpack(m) = Event(m[1], m[2], <<CppUnpackValue(m, 4).val>>)
  BY <1>6 DEF CppUnpack, Event
<1>7. CASE n = 0
  <2>1. CppUnpackValue(m, 4) = Read(CppNone, 4 + 1)
    BY <1>5, <1>7, CppUnpacked
  <2>2. SaidByCpp(CppNone) = PyNone
    BY CppTypes, Tags DEF SaidByCpp, CppNone, CppValue
  <2>3. CppUnpack(m) = Event(e.node, e.id, <<CppNone>>)
    BY <1>5, <1>6, <1>7, <2>1 DEF Read
  <2>4. /\ DOMAIN <<CppNone>> = 1 .. 1
        /\ \A i \in 1 .. 1 : SaidByCpp(<<CppNone>>[i]) = PyNone
    BY <2>2
  <2>5. QED
    BY <1>5, <1>7, <2>3, <2>4 DEF n, s
<1>8. CASE n = 1
  <2> DEFINE v == CppUnpackValue(m, 4).val
  <2>1. 4 \in Nat \ {0} /\ 1 \in 1 .. n
    BY <1>8
  <2>2. SaidByCpp(v) = s[1]
    BY <1>1, <1>2, <1>5, <1>8, <2>1, CppReadsPy
  <2>3. CppUnpack(m) = Event(e.node, e.id, <<v>>)
    BY <1>5, <1>6, <1>8
  <2> HIDE DEF v
  <2>4. DOMAIN <<v>> = 1 .. 1 /\ \A i \in 1 .. 1 : SaidByCpp(<<v>>[i]) = s[i]
    BY <2>2
  <2>5. QED
    BY <1>5, <1>8, <2>3, <2>4 DEF n, s
<1>9. CASE n > 1
  <2> DEFINE place == [i \in 1 .. n + 1 |-> 5 + Before(packed, i)]
             d == [i \in 1 .. n |-> CppUnpackValue(m, place[i]).val]
  <2>1. /\ Before(packed, 1) = 0
        /\ \A i \in 1 .. n : /\ Before(packed, i) \in Nat
                             /\ Before(packed, i + 1) = Before(packed, i) + Len(packed[i])
    BY <1>4, BeforeFirst
  <2>2. place[1] = 5 /\ \A i \in 1 .. n :
          /\ place[i] \in Nat \ {0} /\ place[i + 1] = place[i] + Len(packed[i])
          /\ place[i] = 5 + Before(packed, i)
    <3>1. \A i \in 1 .. n + 1 : place[i] = 5 + Before(packed, i)
      OBVIOUS
    <3> HIDE DEF place
    <3>2. 1 \in 1 .. n + 1
      BY <1>9, <1>1
    <3>3. ASSUME NEW i \in 1 .. n
          PROVE  /\ place[i] \in Nat \ {0} /\ place[i + 1] = place[i] + Len(packed[i])
                 /\ place[i] = 5 + Before(packed, i)
      <4>1. i \in 1 .. n + 1 /\ i + 1 \in 1 .. n + 1
        BY <1>1
      <4>2. place[i] = 5 + Before(packed, i) /\ place[i + 1] = 5 + Before(packed, i + 1)
        BY <3>1, <4>1
      <4>3. Before(packed, i) \in Nat /\ Len(packed[i]) \in Nat
        BY <1>2, <2>1, LenProperties
      <4>4. QED
        BY <2>1, <4>2, <4>3
    <3>4. QED
      BY <2>1, <3>1, <3>2, <3>3
  <2> HIDE DEF place
  <2>3. \A i \in 1 .. n : /\ SaidByCpp(CppUnpackValue(m, place[i]).val) = s[i]
                          /\ CppUnpackValue(m, place[i]).next = place[i + 1]
    <3>1. SUFFICES ASSUME NEW i \in 1 .. n
                   PROVE  /\ SaidByCpp(CppUnpackValue(m, place[i]).val) = s[i]
                          /\ CppUnpackValue(m, place[i]).next = place[i + 1]
      OBVIOUS
    <3>2. Holds(m, place[i], PyPackValue(s[i])) /\ s[i] \in PyReadable
      BY <1>1, <1>2, <1>5, <1>9, <2>2
    <3>3. /\ SaidByCpp(CppUnpackValue(m, place[i]).val) = s[i]
          /\ CppUnpackValue(m, place[i]).next = place[i] + Len(PyPackValue(s[i]))
      BY <1>5, <2>2, <3>2, CppReadsPy
    <3>4. QED
      BY <1>2, <2>2, <3>3
  <2>4. m[3] # 0 /\ m[4] = n
    BY <1>5, <1>9
  <2>5. CppUnpack(m) = Event(m[1], m[2], d)
    <3>1. place[1] = 5 /\ n \in Nat
          /\ \A i \in 1 .. n : CppUnpackValue(m, place[i]).next = place[i + 1]
      BY <1>1, <2>2, <2>3
    <3>2. CppUnpack(m) = [node |-> m[1], id |-> m[2], data |-> d]
      BY <2>4, <3>1, CppReadsList
    <3>3. QED
      BY <3>2 DEF Event
  <2>6. DOMAIN d = 1 .. n /\ \A i \in 1 .. n : SaidByCpp(d[i]) = s[i]
    BY <2>3
  <2> HIDE DEF d
  <2>7. n # 0
    BY <1>9
  <2>8. QED
    BY <1>5, <2>5, <2>6, <2>7 DEF n, s
<1>10. n = 0 \/ n = 1 \/ n > 1
  BY <1>1
<1>11. QED
  BY <1>7, <1>8, <1>9, <1>10

(* The nodes are told what the host said: PyReadable are the values that    *)
(* Unpack of cg_pack.hpp reads from Pack of events.py, in events of any     *)
(* number of them.                                                          *)
THEOREM EventsReadByCpp ==
  ASSUME NEW e \in Events(PyReadable)
  PROVE  /\ PyPack(e) \in Seq(Int)
         /\ CppUnpack(PyPack(e)).node = e.node
         /\ SaidCpp(CppUnpack(PyPack(e))) = Said(e)
<1> DEFINE m == PyPack(e)
           n == Len(e.data)
           said == IF e.data = <<>> THEN <<PyNone>> ELSE e.data
<1>1. m \in Seq(Int)
  BY CppUnpacksPy
<1>2. PICK d : /\ CppUnpack(m) = Event(e.node, e.id, d)
               /\ DOMAIN d = 1 .. (IF n = 0 THEN 1 ELSE n)
               /\ \A i \in DOMAIN d :
                    SaidByCpp(d[i]) = IF n = 0 THEN PyNone ELSE e.data[i]
  BY CppUnpacksPy
<1>3. e = Event(e.node, e.id, e.data) /\ e.data \in Seq(PyReadable)
  BY EventIs
<1> HIDE DEF m
<1>4. [i \in DOMAIN d |-> SaidByCpp(d[i])] = said /\ said # <<>>
  <2>1. CASE n = 0
    <3>1. e.data = <<>>
      BY <1>3, <2>1
    <3>2. DOMAIN d = 1 .. 1 /\ \A i \in 1 .. 1 : SaidByCpp(d[i]) = PyNone
      BY <1>2, <2>1
    <3>3. [i \in DOMAIN d |-> SaidByCpp(d[i])] = [i \in 1 .. 1 |-> PyNone]
      BY <3>2
    <3>4. QED
      BY <3>1, <3>3, Singleton
  <2>2. CASE n # 0
    <3>1. e.data # <<>>
      BY <2>2
    <3>2. DOMAIN d = 1 .. n /\ \A i \in 1 .. n : SaidByCpp(d[i]) = e.data[i]
      BY <1>2, <2>2
    <3>3. e.data = [i \in 1 .. n |-> e.data[i]]
      BY <1>3
    <3> HIDE DEF n
    <3>4. [i \in DOMAIN d |-> SaidByCpp(d[i])] = [i \in 1 .. n |-> e.data[i]]
      BY <3>2
    <3>5. QED
      BY <3>1, <3>3, <3>4
  <2>3. QED
    BY <2>1, <2>2
<1> HIDE DEF said, n
<1> DEFINE a == e.node
           b == e.id
<1> HIDE DEF a, b
<1>50. CppUnpack(m) = Event(a, b, d) /\ e = Event(a, b, e.data)
  BY <1>2, <1>3 DEF a, b
<1>5. SaidCpp(CppUnpack(m)) = Said(Event(a, b, said))
  <2>1. SaidCpp(Event(a, b, d)) =
          Said(Event(a, b, [i \in DOMAIN d |-> SaidByCpp(d[i])]))
    BY SaidOfCpp
  <2>2. QED
    BY <1>4, <1>50, <2>1
<1>6. Said(Event(a, b, said)) = Event(a, b, said)
  BY <1>4, SaidSome
<1>7. Said(e) = Event(a, b, said)
  <2>1. CASE e.data = <<>>
    BY <1>50, <2>1, SaidNone DEF said
  <2>2. CASE e.data # <<>>
    BY <1>50, <2>2, SaidSome DEF said
  <2>3. QED
    BY <2>1, <2>2
<1>8. CppUnpack(m).node = e.node
  <2>1. Event(a, b, d).node = a
    BY EventNode
  <2>2. QED
    BY <1>50, <2>1 DEF a
<1>9. QED
  BY <1>1, <1>5, <1>6, <1>7, <1>8 DEF m

(* And what Cppthon reads of an event that C++ packed.                       *)
LEMMA PyUnpacksCpp ==
  ASSUME NEW e \in Events(CppReadable), NEW m, m = CppPack(e)
  PROVE  /\ m \in Seq(Int)
         /\ \E d : /\ PyUnpack(m) = Event(e.node, e.id, d)
                   /\ d = [i \in DOMAIN d |-> d[i]]
                   /\ DOMAIN d = 1 .. (IF Len(e.data) = 0 THEN 1 ELSE Len(e.data))
                   /\ \A i \in DOMAIN d :
                        d[i] = IF Len(e.data) = 0 THEN PyNone ELSE SaidByCpp(e.data[i])
<1> DEFINE s == e.data
           n == Len(s)
           packed == [i \in DOMAIN s |-> CppPackValue(s[i])]
<1>1. /\ e.node \in Int /\ e.id \in Int /\ s \in Seq(CppReadable)
      /\ n \in Nat /\ DOMAIN s = 1 .. n /\ \A i \in 1 .. n : s[i] \in CppReadable
  BY EventIs, LenProperties
<1>2. /\ packed \in [1 .. n -> Seq(Int)]
      /\ \A i \in 1 .. n : packed[i] = CppPackValue(s[i])
  <2> HIDE DEF n, s
  <2>1. QED
    BY <1>1, CppPackType
<1>3. m = PackEvent(e, packed)
  BY DEF CppPack
<1> HIDE DEF packed, n, s
<1>4. packed \in Seq(Seq(Int)) /\ Len(packed) = n
  BY <1>1, <1>2, ListedSeqs
<1>5. /\ m \in Seq(Int) /\ m[1] = e.node /\ m[2] = e.id
      /\ n = 0 => m[3] = 0 /\ m[4] = 0
      /\ n = 1 => m[3] = 0 /\ Holds(m, 4, packed[1])
      /\ n > 1 => /\ m[3] = 1 /\ m[4] = n
                  /\ \A i \in 1 .. n : Holds(m, 5 + Before(packed, i), packed[i])
  BY <1>1, <1>3, <1>4, EventPacked
<1>6. ASSUME m[3] = 0
      PROVE  PyUnpack(m) = Event(m[1], m[2], <<PyUnpackValue(m, 4).val>>)
  BY <1>6 DEF PyUnpack, Event
<1>7. CASE n = 0
  <2>1. PyUnpackValue(m, 4) = Read(PyNone, 4 + 1)
    BY <1>5, <1>7, PyUnpacked
  <2>3. PyUnpack(m) = Event(e.node, e.id, <<PyNone>>)
    BY <1>5, <1>6, <1>7, <2>1 DEF Read
  <2>4. /\ DOMAIN <<PyNone>> = 1 .. 1
        /\ \A i \in 1 .. 1 : <<PyNone>>[i] = PyNone
    OBVIOUS
  <2>5. QED
    BY <1>5, <1>7, <2>3, <2>4 DEF n, s
<1>8. CASE n = 1
  <2> DEFINE v == PyUnpackValue(m, 4).val
  <2>1. 4 \in Nat \ {0} /\ 1 \in 1 .. n
    BY <1>8
  <2>2. v = SaidByCpp(s[1])
    BY <1>1, <1>2, <1>5, <1>8, <2>1, PyReadsCpp
  <2>3. PyUnpack(m) = Event(e.node, e.id, <<v>>)
    BY <1>5, <1>6, <1>8
  <2> HIDE DEF v
  <2>4. DOMAIN <<v>> = 1 .. 1 /\ \A i \in 1 .. 1 : <<v>>[i] = SaidByCpp(s[i])
    BY <2>2
  <2>5. QED
    BY <1>5, <1>8, <2>3, <2>4 DEF n, s
<1>9. CASE n > 1
  <2> DEFINE place == [i \in 1 .. n + 1 |-> 5 + Before(packed, i)]
             d == [i \in 1 .. n |-> PyUnpackValue(m, place[i]).val]
  <2>1. /\ Before(packed, 1) = 0
        /\ \A i \in 1 .. n : /\ Before(packed, i) \in Nat
                             /\ Before(packed, i + 1) = Before(packed, i) + Len(packed[i])
    BY <1>4, BeforeFirst
  <2>2. place[1] = 5 /\ \A i \in 1 .. n :
          /\ place[i] \in Nat \ {0} /\ place[i + 1] = place[i] + Len(packed[i])
          /\ place[i] = 5 + Before(packed, i)
    <3>1. \A i \in 1 .. n + 1 : place[i] = 5 + Before(packed, i)
      OBVIOUS
    <3> HIDE DEF place
    <3>2. 1 \in 1 .. n + 1
      BY <1>9, <1>1
    <3>3. ASSUME NEW i \in 1 .. n
          PROVE  /\ place[i] \in Nat \ {0} /\ place[i + 1] = place[i] + Len(packed[i])
                 /\ place[i] = 5 + Before(packed, i)
      <4>1. i \in 1 .. n + 1 /\ i + 1 \in 1 .. n + 1
        BY <1>1
      <4>2. place[i] = 5 + Before(packed, i) /\ place[i + 1] = 5 + Before(packed, i + 1)
        BY <3>1, <4>1
      <4>3. Before(packed, i) \in Nat /\ Len(packed[i]) \in Nat
        BY <1>2, <2>1, LenProperties
      <4>4. QED
        BY <2>1, <4>2, <4>3
    <3>4. QED
      BY <2>1, <3>1, <3>2, <3>3
  <2> HIDE DEF place
  <2>3. \A i \in 1 .. n : /\ PyUnpackValue(m, place[i]).val = SaidByCpp(s[i])
                          /\ PyUnpackValue(m, place[i]).next = place[i + 1]
    <3>1. SUFFICES ASSUME NEW i \in 1 .. n
                   PROVE  /\ PyUnpackValue(m, place[i]).val = SaidByCpp(s[i])
                          /\ PyUnpackValue(m, place[i]).next = place[i + 1]
      OBVIOUS
    <3>2. Holds(m, place[i], CppPackValue(s[i])) /\ s[i] \in CppReadable
      BY <1>1, <1>2, <1>5, <1>9, <2>2
    <3>3. /\ PyUnpackValue(m, place[i]).val = SaidByCpp(s[i])
          /\ PyUnpackValue(m, place[i]).next = place[i] + Len(CppPackValue(s[i]))
      BY <1>5, <2>2, <3>2, PyReadsCpp
    <3>4. QED
      BY <1>2, <2>2, <3>3
  <2>4. m[3] # 0 /\ m[4] = n
    BY <1>5, <1>9
  <2>5. PyUnpack(m) = Event(m[1], m[2], d)
    <3>1. place[1] = 5 /\ n \in Nat
          /\ \A i \in 1 .. n : PyUnpackValue(m, place[i]).next = place[i + 1]
      BY <1>1, <2>2, <2>3
    <3>2. PyUnpack(m) = [node |-> m[1], id |-> m[2], data |-> d]
      BY <2>4, <3>1, PyReadsList
    <3>3. QED
      BY <3>2 DEF Event
  <2>6. /\ DOMAIN d = 1 .. n /\ \A i \in 1 .. n : d[i] = SaidByCpp(s[i])
        /\ d = [i \in DOMAIN d |-> d[i]]
    BY <2>3
  <2> HIDE DEF d
  <2>7. n # 0
    BY <1>9
  <2>8. QED
    BY <1>5, <2>5, <2>6, <2>7 DEF n, s
<1>10. n = 0 \/ n = 1 \/ n > 1
  BY <1>1
<1>11. QED
  BY <1>7, <1>8, <1>9, <1>10

(* A host reads what the nodes said, in the terms of Python: Unpack of        *)
(* events.py against Pack of cg_pack.hpp, for the values of CppReadable.    *)
THEOREM EventsReadByPy ==
  ASSUME NEW e \in Events(CppReadable)
  PROVE  /\ CppPack(e) \in Seq(Int)
         /\ PyUnpack(CppPack(e)) = SaidCpp(e)
<1> DEFINE m == CppPack(e)
           n == Len(e.data)
           said == [i \in DOMAIN e.data |-> SaidByCpp(e.data[i])]
<1>1. m \in Seq(Int)
  BY PyUnpacksCpp
<1>2. PICK d : /\ PyUnpack(m) = Event(e.node, e.id, d)
               /\ DOMAIN d = 1 .. (IF n = 0 THEN 1 ELSE n)
               /\ \A i \in DOMAIN d :
                    d[i] = IF n = 0 THEN PyNone ELSE SaidByCpp(e.data[i])
               /\ d = [i \in DOMAIN d |-> d[i]]
  BY PyUnpacksCpp
<1>3. e = Event(e.node, e.id, e.data) /\ e.data \in Seq(CppReadable)
      /\ n \in Nat /\ DOMAIN e.data = 1 .. n
  BY EventIs, LenProperties
<1> DEFINE a == e.node
           b == e.id
<1> HIDE DEF a, b, m, n
<1>4. PyUnpack(m) = Event(a, b, d) /\ e = Event(a, b, e.data)
  BY <1>2, <1>3 DEF a, b
<1>5. SaidCpp(e) = Said(Event(a, b, said))
  <2>1. SaidCpp(Event(a, b, e.data)) = Said(Event(a, b, said))
    BY SaidOfCpp
  <2>2. QED
    BY <1>4, <2>1
<1>6. Said(Event(a, b, said)) = Event(a, b, d)
  <2>1. CASE n = 0
    <3>1. said = <<>>
      BY <1>3, <2>1
    <3>2. d = [i \in 1 .. 1 |-> PyNone]
      BY <1>2, <2>1
    <3>3. d = <<PyNone>>
      BY <3>2, Singleton
    <3> HIDE DEF said
    <3>4. QED
      BY <3>1, <3>3, SaidNone
  <2>2. CASE n # 0
    <3>1. said = d
      BY <1>2, <1>3, <2>2
    <3>2. said # <<>>
      <4>1. 1 \in DOMAIN said
        BY <1>3, <2>2
      <4>2. QED
        BY <4>1
    <3> HIDE DEF said
    <3>3. QED
      BY <3>1, <3>2, SaidSome
  <2>3. QED
    BY <2>1, <2>2
<1>7. PyUnpack(m) = SaidCpp(e)
  BY <1>4, <1>5, <1>6
<1>8. QED
  BY <1>1, <1>7 DEF m
-----------------------------------------------------------------------------
(* Sequences: what is cut can be put together again.                        *)
LEMMA FlattenConcat ==
  ASSUME NEW S, NEW s \in Seq(Seq(S))
  PROVE  \A t \in Seq(Seq(S)) : FlattenSeq(s \o t) = FlattenSeq(s) \o FlattenSeq(t)
<1> DEFINE Splits(t) == FlattenSeq(s \o t) = FlattenSeq(s) \o FlattenSeq(t)
<1> HIDE DEF Splits
<1> DEFINE P == {n \in Nat : \A t \in Seq(Seq(S)) : Len(t) = n => Splits(t)}
<1>0. FlattenSeq(s) \in Seq(S)
  BY FlattenType
<1>1. 0 \in P
  <2>1. SUFFICES ASSUME NEW t \in Seq(Seq(S)), Len(t) = 0 PROVE Splits(t)
    OBVIOUS
  <2>2. t = <<>> /\ FlattenSeq(t) = <<>>
    BY <2>1, FlattenEmpty
  <2>3. s \o t = s /\ FlattenSeq(s) \o <<>> = FlattenSeq(s)
    BY <1>0, <2>2, ConcatEmptySeq
  <2>4. QED
    BY <2>2, <2>3 DEF Splits
<1>2. ASSUME NEW n \in Nat, n \in P PROVE n + 1 \in P
  <2>1. SUFFICES ASSUME NEW t \in Seq(Seq(S)), Len(t) = n + 1 PROVE Splits(t)
    OBVIOUS
  <2> DEFINE r == SubSeq(t, 1, n)
             y == t[n + 1]
  <2>2. r \in Seq(Seq(S)) /\ Len(r) = n /\ y \in Seq(S) /\ t = Append(r, y)
    BY <2>1, LastOff
  <2>3. FlattenSeq(s \o r) = FlattenSeq(s) \o FlattenSeq(r)
    BY <1>2, <2>2 DEF Splits
  <2> HIDE DEF r, y
  <2>4. s \o r \in Seq(Seq(S)) /\ FlattenSeq(r) \in Seq(S)
    BY <2>2, ConcatProperties, FlattenType
  <2>5. s \o t = Append(s \o r, y)
    BY <2>2
  <2>6. FlattenSeq(s \o t) = (FlattenSeq(s) \o FlattenSeq(r)) \o y
    <3>1. FlattenSeq(Append(s \o r, y)) = FlattenSeq(s \o r) \o y
      BY <2>2, <2>4, FlattenAppend
    <3>2. QED
      BY <2>3, <2>5, <3>1
  <2>7. FlattenSeq(t) = FlattenSeq(r) \o y
    BY <2>2, FlattenAppend
  <2>8. (FlattenSeq(s) \o FlattenSeq(r)) \o y = FlattenSeq(s) \o (FlattenSeq(r) \o y)
    BY <1>0, <2>2, <2>4, ConcatAssociative, SMTT(30)
  <2>9. QED
    BY <2>6, <2>7, <2>8 DEF Splits
<1> HIDE DEF P
<1>3. \A n \in Nat : n \in P
  BY <1>1, <1>2, Induction
<1>4. QED
  BY <1>3 DEF P, Splits

LEMMA Cut ==
  ASSUME NEW S, NEW s \in Seq(S), NEW k \in 0 .. Len(s)
  PROVE  /\ SubSeq(s, 1, k) \in Seq(S) /\ Len(SubSeq(s, 1, k)) = k
         /\ Rest(s, k) \in Seq(S) /\ Len(Rest(s, k)) = Len(s) - k
         /\ s = SubSeq(s, 1, k) \o Rest(s, k)
<1>1. /\ SubSeq(s, 1, k) \in Seq(S) /\ Len(SubSeq(s, 1, k)) = k
      /\ Rest(s, k) \in Seq(S) /\ Len(Rest(s, k)) = Len(s) - k
  BY DEF Rest
<1>2. 1 \in 1 .. Len(s) + 1 /\ k \in 1 - 1 .. Len(s) /\ Len(s) \in k .. Len(s)
  BY LenProperties
<1>3. SubSeq(s, 1, k) \o SubSeq(s, k + 1, Len(s)) = SubSeq(s, 1, Len(s))
  BY <1>2, ConcatAdjacentSubSeq
<1>4. SubSeq(s, 1, Len(s)) = s
  BY SubSeqFull
<1>5. QED
  BY <1>1, <1>3, <1>4 DEF Rest

LEMMA Assoc ==
  ASSUME NEW s \in Seq(Int), NEW t \in Seq(Int), NEW v \in Seq(Int)
  PROVE  (s \o t) \o v = s \o (t \o v)
<1> DEFINE S == Int
<1>1. s \in Seq(S) /\ t \in Seq(S) /\ v \in Seq(S)
  OBVIOUS
<1> HIDE DEF S
<1>2. QED
  BY <1>1, ConcatAssociative, SMTT(30)

LEMMA CancelLeft ==
  ASSUME NEW S, NEW s \in Seq(S), NEW t \in Seq(S), NEW v \in Seq(S),
         s \o t = s \o v
  PROVE  t = v
<1>1. \A ss, tt, vv \in Seq(S) : ss \o tt = ss \o vv => tt = vv
  BY ConcatSimplifications
<1>2. QED
  BY <1>1

LEMMA CancelRight ==
  ASSUME NEW S, NEW s \in Seq(S), NEW t \in Seq(S), NEW v \in Seq(S),
         s \o v = t \o v
  PROVE  s = t
<1>1. \A ss, tt, vv \in Seq(S) : ss \o vv = tt \o vv => ss = tt
  BY ConcatSimplifications
<1>2. QED
  BY <1>1

LEMMA SplitBack ==
  ASSUME NEW S, NEW s \in Seq(S), NEW t \in Seq(S)
  PROVE  SubSeq(s \o t, 1, Len(s)) = s /\ Rest(s \o t, Len(s)) = t
<1> DEFINE w == s \o t
           n == Len(s)
<1>1. w \in Seq(S) /\ Len(w) = n + Len(t) /\ n \in Nat /\ Len(t) \in Nat
      /\ \A i \in 1 .. n + Len(t) : w[i] = IF i <= n THEN s[i] ELSE t[i - n]
  BY ConcatProperties, LenProperties
<1> HIDE DEF w
<1>2. SubSeq(w, 1, n) \in Seq(S) /\ Len(SubSeq(w, 1, n)) = n
      /\ Rest(w, n) \in Seq(S) /\ Len(Rest(w, n)) = Len(w) - n
      /\ w = SubSeq(w, 1, n) \o Rest(w, n)
  <2>1. n \in 0 .. Len(w)
    BY <1>1
  <2> HIDE DEF n
  <2>2. QED
    BY <1>1, <2>1, Cut
<1>3. \A i \in 1 .. n : SubSeq(w, 1, n)[i] = s[i]
  BY <1>1
<1>4. SubSeq(w, 1, n) = s
  BY <1>2, <1>3, SeqEqual
<1>5. s \o Rest(w, n) = s \o t
  BY <1>2, <1>4 DEF w
<1>6. Rest(w, n) = t
  BY <1>2, <1>5, CancelLeft
<1>7. QED
  BY <1>4, <1>6 DEF w

LEMMA PrefixConcat ==
  ASSUME NEW S, NEW s \in Seq(S), NEW t \in Seq(S)
  PROVE  IsPrefix(s, s \o t)
<1>1. Len(s) <= Len(s \o t)
  BY ConcatProperties, LenProperties
<1>2. SubSeq(s, 1, Len(s)) = SubSeq(s \o t, 1, Len(s))
  BY SplitBack, SubSeqFull
<1>3. QED
  BY <1>1, <1>2 DEF IsPrefix

LEMMA FirstOff ==
  ASSUME NEW S, NEW s \in Seq(S), s # <<>>
  PROVE  s[1] \in S /\ Tail(s) \in Seq(S) /\ s = <<s[1]>> \o Tail(s) /\ Head(s) = s[1]
  OBVIOUS

(* A sequence cut in two, and followed by another.                          *)
LEMMA CutThen ==
  ASSUME NEW S, NEW b \in Seq(S), NEW u \in Seq(S), NEW n \in 0 .. Len(b)
  PROVE  /\ SubSeq(b, 1, n) \o (Rest(b, n) \o u) = b \o u
         /\ Rest(b, n) \o u \in Seq(S)
<1> DEFINE f == SubSeq(b, 1, n)
           r == Rest(b, n)
<1>1. f \in Seq(S) /\ r \in Seq(S) /\ b = f \o r
  BY Cut
<1> HIDE DEF f, r
<1>2. (f \o r) \o u = f \o (r \o u)
  <2>1. f \in Seq(S) /\ r \in Seq(S)
    BY <1>1
  <2>2. QED
    BY <2>1, ConcatAssociative
<1>3. r \o u \in Seq(S)
  BY <1>1, ConcatProperties
<1>4. f \o (r \o u) = b \o u
  BY <1>1, <1>2
<1>5. QED
  BY <1>3, <1>4 DEF f, r

(* Two parts of a sequence that begins with a longer part.                  *)
LEMMA SplitLonger ==
  ASSUME NEW S, NEW b \in Seq(S), NEW u \in Seq(S), NEW h \in Seq(S),
         NEW w \in Seq(S), b \o u = h \o w, Len(h) <= Len(b)
  PROVE  SubSeq(b, 1, Len(h)) = h /\ Rest(b, Len(h)) \o u = w
         /\ Rest(b, Len(h)) \in Seq(S)
<1> DEFINE n == Len(h)
           f == SubSeq(b, 1, n)
           r == Rest(b, n)
<1>1. n \in 0 .. Len(b)
  BY LenProperties
<1>2. f \in Seq(S) /\ Len(f) = n /\ r \in Seq(S) /\ b = f \o r
  BY <1>1, Cut
<1>3. f \o (r \o u) = h \o w /\ r \o u \in Seq(S)
  BY <1>1, CutThen
<1> HIDE DEF f, r
<1> DEFINE v == r \o u
<1>4. f \o v = h \o w /\ v \in Seq(S)
  BY <1>3
<1> HIDE DEF v
<1>5. f = h
  <2>1. SubSeq(f \o v, 1, Len(f)) = f
    BY <1>2, <1>4, SplitBack
  <2>2. SubSeq(h \o w, 1, Len(h)) = h
    BY SplitBack
  <2>3. QED
    BY <1>2, <1>4, <2>1, <2>2
<1>6. v = w
  BY <1>4, <1>5, CancelLeft
<1>7. QED
  BY <1>2, <1>5, <1>6 DEF f, r, v
-----------------------------------------------------------------------------
(* Frames.                                                                  *)
LEMMA Halves ==
  ASSUME NEW n \in Nat
  PROVE  /\ n % Half \in Nat /\ n % Half < Half /\ n \div Half \in Nat
         /\ n = (n % Half) + Half * (n \div Half)
         /\ n < Half => n % Half = n
<1>1. /\ n % 65536 \in Nat /\ n % 65536 < 65536 /\ n \div 65536 \in Nat
      /\ n = (n % 65536) + 65536 * (n \div 65536)
  OBVIOUS
<1>2. n < 65536 => n % 65536 = n
  OBVIOUS
<1> DEFINE x == n % 65536
           q == n \div 65536
<1>3. /\ x \in Nat /\ x < 65536 /\ q \in Nat /\ n = x + 65536 * q
      /\ n < 65536 => x = n
  BY <1>1, <1>2
<1>4. x = n % Half /\ q = n \div Half /\ Half = 65536
  BY DEF Half
<1> HIDE DEF x, q
<1>5. QED
  BY <1>3, <1>4
LEMMA LengthType ==
  ASSUME NEW s \in Seq(Int), Len(s) >= 2
  PROVE  Length(s) \in Nat
<1>1. s[1] \in Int /\ s[2] \in Int
  OBVIOUS
<1>2. \A x \in Int : x % Half \in Nat
  BY DEF Half
<1> DEFINE a == s[1] % Half
           b == s[2] % Half
<1>3. a \in Nat /\ b \in Nat
  BY <1>1, <1>2
<1> HIDE DEF a, b
<1>4. a + Half * b \in Nat
  BY <1>3 DEF Half
<1>5. QED
  BY <1>4 DEF Length, a, b

LEMMA Header ==
  ASSUME NEW n \in Nat
  PROVE  \E h \in Seq(Int) :
           /\ h = <<n % Half, (n \div Half) % Half>> /\ Len(h) = 2
           /\ n \div Half < Half - 1 => Length(h) = n
<1> DEFINE x == n % Half
           q == n \div Half
           y == q % Half
           h == <<x, y>>
<1>0. /\ x \in Nat /\ x < Half /\ q \in Nat /\ n = x + Half * q
  BY Halves
<1> HIDE DEF q, x
<1>1. x % Half = x /\ y \in Nat /\ (q < Half => y = q)
  BY <1>0, Halves
<1> HIDE DEF y
<1>2. h \in Seq(Int) /\ Len(h) = 2 /\ h[1] = x /\ h[2] = y
  BY <1>0, <1>1
<1>3. q < Half - 1 => Length(h) = n
  <2>1. SUFFICES ASSUME q < Half - 1 PROVE Length(h) = n
    OBVIOUS
  <2>2. y = q
    BY <1>0, <1>1, <2>1 DEF Half
  <2>3. q % Half = q
    BY <2>2 DEF y
  <2>4. Length(h) = x + Half * q
    BY <1>1, <1>2, <2>2, <2>3 DEF Length
  <2>5. QED
    BY <1>0, <2>4
<1> HIDE DEF h
<1>4. QED
  BY <1>2, <1>3 DEF h, x, y, q

LEMMA FramedType ==
  ASSUME NEW m \in Seq(Int)
  PROVE  /\ Framed(m) \in Seq(Int) /\ Len(Framed(m)) = 2 + Len(m)
         /\ Len(m) \in Nat
         /\ Fits(m) =>
              \E h \in Seq(Int) : /\ Framed(m) = h \o m
                                 /\ Len(h) = 2 /\ Length(h) = Len(m)
<1>1. Len(m) \in Nat
  BY LenProperties
<1>2. PICK h \in Seq(Int) :
        /\ h = <<Len(m) % Half, (Len(m) \div Half) % Half>> /\ Len(h) = 2
        /\ Len(m) \div Half < Half - 1 => Length(h) = Len(m)
  BY <1>1, Header
<1>3. Framed(m) = h \o m
  BY <1>2 DEF Framed
<1>4. h \o m \in Seq(Int) /\ Len(h \o m) = Len(h) + Len(m)
  BY Joined
<1>5. Fits(m) => Length(h) = Len(m)
  BY <1>2 DEF Fits
<1>6. QED
  BY <1>1, <1>2, <1>3, <1>4, <1>5

(* What begins with a frame gives its length, then its message.             *)
FrameOf(b, u, m, w) ==
  /\ m \in Seq(Int) /\ w \in Seq(Int) /\ b \in Seq(Int) /\ u \in Seq(Int)
  /\ Fits(m) /\ b \o u = Framed(m) \o w

LEMMA FirstFrame ==
  ASSUME NEW m, NEW w, NEW b, NEW u, FrameOf(b, u, m, w), Len(b) >= 2
  PROVE  /\ Length(b) = Len(m) /\ Len(m) \in Nat
         /\ Len(b) >= 2 + Len(m) =>
              /\ SubSeq(b, 3, 2 + Len(m)) = m
              /\ Rest(b, 2 + Len(m)) \in Seq(Int)
              /\ Rest(b, 2 + Len(m)) \o u = w
<1>0. /\ m \in Seq(Int) /\ w \in Seq(Int) /\ b \in Seq(Int) /\ u \in Seq(Int)
      /\ Fits(m) /\ b \o u = Framed(m) \o w
  BY DEF FrameOf
<1> USE <1>0
<1>1. /\ Framed(m) \in Seq(Int) /\ Len(Framed(m)) = 2 + Len(m) /\ Len(m) \in Nat
  BY FramedType
<1>2. PICK h \in Seq(Int) : Framed(m) = h \o m /\ Len(h) = 2 /\ Length(h) = Len(m)
  BY FramedType
<1>3. SubSeq(b, 1, 2) = h
  <2>1. b \o u = h \o (m \o w) /\ m \o w \in Seq(Int)
    <3>0. h \in Seq(Int)
      BY <1>2
    <3>1. (h \o m) \o w = h \o (m \o w)
      BY <3>0, Assoc
    <3>2. m \o w \in Seq(Int)
      BY Joined
    <3>3. b \o u = (h \o m) \o w
      BY <1>2
    <3>4. QED
      BY <3>1, <3>2, <3>3
  <2> DEFINE v == m \o w
  <2> HIDE DEF v
  <2>2. b \o u = h \o v /\ v \in Seq(Int) /\ Len(h) <= Len(b)
    BY <1>2, <2>1 DEF v
  <2>3. SubSeq(b, 1, Len(h)) = h
    BY <2>2, SplitLonger
  <2>4. QED
    BY <1>2, <2>3
<1>4. Length(b) = Len(m)
  <2>1. SubSeq(b, 1, 2)[1] = b[1] /\ SubSeq(b, 1, 2)[2] = b[2]
    OBVIOUS
  <2>2. QED
    BY <1>2, <1>3, <2>1 DEF Length
<1>5. ASSUME Len(b) >= 2 + Len(m)
      PROVE  /\ SubSeq(b, 3, 2 + Len(m)) = m
             /\ Rest(b, 2 + Len(m)) \in Seq(Int)
             /\ Rest(b, 2 + Len(m)) \o u = w
  <2> DEFINE f == Framed(m)
             n == Len(m)
  <2>1. /\ f \in Seq(Int) /\ Len(f) = 2 + n /\ n \in Nat /\ Len(f) <= Len(b)
        /\ b \o u = f \o w
    BY <1>1, <1>5
  <2> HIDE DEF f
  <2>2. /\ SubSeq(b, 1, Len(f)) = f /\ Rest(b, Len(f)) \o u = w
        /\ Rest(b, Len(f)) \in Seq(Int)
    BY <2>1, SplitLonger
  <2>3. SubSeq(b, 3, 2 + n) = m
    <3>1. SubSeq(f, 3, 2 + n) = m
      <4>1. Rest(h \o m, Len(h)) = m
        BY <1>2, SplitBack
      <4>2. Rest(f, 2) = m
        BY <1>2, <4>1 DEF f
      <4>3. QED
        BY <2>1, <4>2 DEF Rest
    <3>2. SubSeq(SubSeq(b, 1, 2 + n), 3, 2 + n) = SubSeq(b, 3, 2 + n)
      <4>1. 2 + n \in Nat /\ 2 + n <= Len(b) /\ Len(b) \in Nat
        BY <2>1, LenProperties
      <4> DEFINE k == 2 + n
      <4>2. k \in Nat /\ k <= Len(b)
        BY <4>1
      <4> HIDE DEF k
      <4>3. SubSeq(SubSeq(b, 1, k), 3, k) = SubSeq(b, 3, k)
        BY <4>2
      <4>4. QED
        BY <4>3 DEF k
    <3>3. QED
      BY <2>1, <2>2, <3>1, <3>2
  <2>4. QED
    BY <2>1, <2>2, <2>3
<1>6. QED
  BY <1>1, <1>4, <1>5
-----------------------------------------------------------------------------
(* The units of several events, one frame after the other.                  *)
PyEvents  == {e \in Events(PyReadable) : Fits(PyPack(e))}
CppEvents == {e \in Events(CppReadable) : Fits(CppPack(e))}

Wire(ms) == FlattenSeq([i \in DOMAIN ms |-> Framed(ms[i])])

(* A sequence that is made from another, element by element.                *)
Map(f, s) == [i \in DOMAIN s |-> f[s[i]]]

LEMMA MapType ==
  ASSUME NEW S, NEW n \in Nat, NEW b \in [1 .. n -> S]
  PROVE  b \in Seq(S) /\ Len(b) = n
  OBVIOUS

Maps(S, V, f, s) == f \in [S -> V] /\ s \in Seq(S)

LEMMA MapIs ==
  ASSUME NEW S, NEW V, NEW f, NEW s, Maps(S, V, f, s)
  PROVE  /\ Map(f, s) \in Seq(V) /\ Len(Map(f, s)) = Len(s)
         /\ \A i \in 1 .. Len(s) : Map(f, s)[i] = f[s[i]]
<1> DEFINE n == Len(s)
<1>0. f \in [S -> V] /\ s \in Seq(S)
  BY DEF Maps
<1>1. n \in Nat /\ DOMAIN s = 1 .. n /\ \A i \in 1 .. n : s[i] \in S
  BY <1>0, LenProperties
<1>2. /\ Map(f, s) \in [1 .. n -> V]
      /\ \A i \in 1 .. n : Map(f, s)[i] = f[s[i]]
  BY <1>0, <1>1 DEF Map
<1> HIDE DEF n
<1>3. Map(f, s) \in Seq(V) /\ Len(Map(f, s)) = n
  BY <1>1, <1>2, MapType
<1>4. QED
  BY <1>2, <1>3 DEF n

LEMMA Concat ==
  ASSUME NEW S, NEW a \in Seq(S), NEW b \in Seq(S), NEW n, NEW k,
         Len(a) = n, Len(b) = k
  PROVE  /\ a \o b \in Seq(S) /\ Len(a \o b) = n + k /\ n \in Nat /\ k \in Nat
         /\ \A i \in 1 .. n + k : (a \o b)[i] = IF i <= n THEN a[i] ELSE b[i - n]
<1>1. /\ a \o b \in Seq(S) /\ Len(a \o b) = Len(a) + Len(b)
      /\ \A i \in 1 .. Len(a) + Len(b) :
           (a \o b)[i] = IF i <= Len(a) THEN a[i] ELSE b[i - Len(a)]
  BY ConcatProperties
<1>2. Len(a) \in Nat /\ Len(b) \in Nat
  BY LenProperties
<1>3. QED
  BY <1>1, <1>2

LEMMA MapJoins ==
  ASSUME NEW S, NEW V, NEW f, NEW s, NEW t, Maps(S, V, f, s), Maps(S, V, f, t)
  PROVE  Map(f, s \o t) = Map(f, s) \o Map(f, t)
<1> DEFINE n == Len(s)
           k == Len(t)
           u == s \o t
           a == Map(f, s)
           b == Map(f, t)
           c == Map(f, u)
<1>1. /\ u \in Seq(S) /\ Len(u) = n + k /\ n \in Nat /\ k \in Nat
      /\ \A i \in 1 .. n + k : u[i] = IF i <= n THEN s[i] ELSE t[i - n]
  <2>1. s \in Seq(S) /\ t \in Seq(S)
    BY DEF Maps
  <2>2. QED
    BY <2>1, Concat
<1>2. /\ a \in Seq(V) /\ Len(a) = n /\ \A i \in 1 .. n : a[i] = f[s[i]]
      /\ b \in Seq(V) /\ Len(b) = k /\ \A i \in 1 .. k : b[i] = f[t[i]]
  BY MapIs
<1> HIDE DEF u, n, k
<1>3. c \in Seq(V) /\ Len(c) = n + k /\ \A i \in 1 .. n + k : c[i] = f[u[i]]
  <2>1. c \in Seq(V) /\ Len(c) = Len(u) /\ \A i \in 1 .. Len(u) : c[i] = f[u[i]]
    <3>1. Maps(S, V, f, u)
      BY <1>1 DEF Maps
    <3>2. QED
      BY <3>1, MapIs
  <2>2. QED
    BY <1>1, <2>1
<1> HIDE DEF a, b, c
<1>4. /\ a \o b \in Seq(V) /\ Len(a \o b) = n + k
      /\ \A i \in 1 .. n + k : (a \o b)[i] = IF i <= n THEN a[i] ELSE b[i - n]
  BY <1>2, Concat
<1>5. \A i \in 1 .. n + k : c[i] = (a \o b)[i]
  <2>1. SUFFICES ASSUME NEW i \in 1 .. n + k PROVE c[i] = (a \o b)[i]
    OBVIOUS
  <2>2. CASE i <= n
    <3>1. i \in 1 .. n
      BY <2>2
    <3>2. u[i] = s[i] /\ (a \o b)[i] = a[i]
      BY <1>1, <1>4, <2>2
    <3>3. a[i] = f[s[i]] /\ c[i] = f[u[i]]
      BY <1>2, <1>3, <3>1
    <3>4. QED
      BY <3>2, <3>3
  <2>3. CASE ~(i <= n)
    <3>1. i - n \in 1 .. k
      BY <1>1, <2>3
    <3>2. u[i] = t[i - n] /\ (a \o b)[i] = b[i - n]
      BY <1>1, <1>4, <2>3
    <3>3. b[i - n] = f[t[i - n]] /\ c[i] = f[u[i]]
      BY <1>2, <1>3, <3>1
    <3>4. QED
      BY <3>2, <3>3
  <2>4. QED
    BY <2>2, <2>3
<1>6. c = a \o b
  BY <1>3, <1>4, <1>5, SeqEqual
<1>7. QED
  BY <1>6 DEF a, b, c, u

LEMMA MapOne ==
  ASSUME NEW f, NEW x
  PROVE  Map(f, <<x>>) = <<f[x]>> /\ Map(f, <<>>) = <<>>
  BY DEF Map

(* Frames of several messages.                                              *)
Frames(ms) == [i \in DOMAIN ms |-> Framed(ms[i])]
Framing    == [m \in Seq(Int) |-> Framed(m)]

LEMMA FramesAre ==
  ASSUME NEW ms \in Seq(Seq(Int))
  PROVE  Maps(Seq(Int), Seq(Int), Framing, ms) /\ Frames(ms) = Map(Framing, ms)
<1>1. Framing \in [Seq(Int) -> Seq(Int)]
  BY FramedType DEF Framing
<1>2. \A i \in DOMAIN ms : ms[i] \in Seq(Int)
  OBVIOUS
<1>3. Frames(ms) = Map(Framing, ms)
  BY <1>2 DEF Frames, Map, Framing
<1>4. QED
  BY <1>1, <1>3 DEF Maps

LEMMA FramesType ==
  ASSUME NEW ms \in Seq(Seq(Int))
  PROVE  Frames(ms) \in Seq(Seq(Int))
  BY FramesAre, MapIs

LEMMA FramesConcat ==
  ASSUME NEW s \in Seq(Seq(Int)), NEW t \in Seq(Seq(Int))
  PROVE  Frames(s \o t) = Frames(s) \o Frames(t)
<1>1. s \o t \in Seq(Seq(Int))
  BY ConcatProperties
<1>2. Frames(s \o t) = Map(Framing, s \o t)
  BY <1>1, FramesAre
<1>3. Map(Framing, s \o t) = Map(Framing, s) \o Map(Framing, t)
  BY FramesAre, MapJoins
<1>4. QED
  BY <1>2, <1>3, FramesAre

LEMMA WireIs ==
  ASSUME NEW ms \in Seq(Seq(Int))
  PROVE  Wire(ms) \in Seq(Int) /\ Wire(ms) = FlattenSeq(Frames(ms))
<1>1. Wire(ms) = FlattenSeq(Frames(ms))
  BY DEF Wire, Frames
<1>2. FlattenSeq(Frames(ms)) \in Seq(Int)
  BY FramesType, FlattenType
<1>3. QED
  BY <1>1, <1>2

LEMMA WireConcat ==
  ASSUME NEW s \in Seq(Seq(Int)), NEW t \in Seq(Seq(Int))
  PROVE  Wire(s \o t) = Wire(s) \o Wire(t)
<1>1. s \o t \in Seq(Seq(Int))
  BY ConcatProperties
<1>2. Wire(s \o t) = FlattenSeq(Frames(s) \o Frames(t))
  BY <1>1, WireIs, FramesConcat
<1>3. FlattenSeq(Frames(s) \o Frames(t)) = FlattenSeq(Frames(s)) \o FlattenSeq(Frames(t))
  BY FramesType, FlattenConcat
<1>4. QED
  BY <1>2, <1>3, WireIs

LEMMA WireOne ==
  ASSUME NEW m \in Seq(Int)
  PROVE  <<m>> \in Seq(Seq(Int)) /\ Wire(<<m>>) = Framed(m)
<1> DEFINE x == Framed(m)
           s == <<m>>
<1>1. s \in Seq(Seq(Int)) /\ x \in Seq(Int)
  BY FramedType
<1>2. Frames(s) = Append(<<>>, x)
  BY DEF Frames
<1> HIDE DEF x
<1>3. <<>> \in Seq(Seq(Int)) /\ FlattenSeq(<<>>) = <<>>
  BY FlattenEmpty
<1>4. FlattenSeq(Append(<<>>, x)) = <<>> \o x
  BY <1>1, <1>3, FlattenAppend
<1>5. <<>> \o x = x
  BY <1>1, ConcatEmptySeq
<1> HIDE DEF s
<1>6. Wire(s) = x
  BY <1>1, <1>2, <1>4, <1>5, WireIs
<1>7. QED
  BY <1>1, <1>6 DEF s, x

LEMMA WireNone == Wire(<<>>) = <<>>
<1>1. [i \in DOMAIN <<>> |-> Framed(<<>>[i])] = <<>>
  OBVIOUS
<1>2. FlattenSeq(<<>>) = <<>>
  BY FlattenEmpty
<1>3. QED
  BY <1>1, <1>2 DEF Wire
-----------------------------------------------------------------------------
(* The units that the events of a host and those of the nodes make.         *)
PyPacking    == [e \in PyEvents |-> PyPack(e)]
CppPacking   == [e \in CppEvents |-> CppPack(e)]
UpWire(es)   == Wire(Map(PyPacking, es))
DownWire(es) == Wire(Map(CppPacking, es))

LEMMA PacksType ==
  /\ \A es \in Seq(PyEvents) : Maps(PyEvents, Seq(Int), PyPacking, es)
  /\ \A es \in Seq(CppEvents) :
       Maps(CppEvents, Seq(Int), CppPacking, es)
  /\ \A e \in PyEvents : PyPacking[e] = PyPack(e)
  /\ \A e \in CppEvents : CppPacking[e] = CppPack(e)
<1>1. \A e \in PyEvents : PyPack(e) \in Seq(Int)
  BY EventsReadByCpp DEF PyEvents
<1>2. \A e \in CppEvents : CppPack(e) \in Seq(Int)
  BY EventsReadByPy DEF CppEvents
<1>3. PyPacking \in [PyEvents -> Seq(Int)]
  BY <1>1 DEF PyPacking
<1>4. CppPacking \in [CppEvents -> Seq(Int)]
  BY <1>2 DEF CppPacking
<1>5. QED
  BY <1>3, <1>4 DEF Maps, PyPacking, CppPacking

LEMMA UpWires ==
  ASSUME NEW s \in Seq(PyEvents)
  PROVE  /\ UpWire(s) \in Seq(Int)
         /\ \A t \in Seq(PyEvents) : UpWire(s \o t) = UpWire(s) \o UpWire(t)
<1> DEFINE f == PyPacking
<1>1. \A t \in Seq(PyEvents) : Maps(PyEvents, Seq(Int), f, t)
  BY PacksType
<1> HIDE DEF f
<1>2. Map(f, s) \in Seq(Seq(Int))
  BY <1>1, MapIs
<1>3. UpWire(s) \in Seq(Int)
  BY <1>2, WireIs DEF UpWire, f
<1>4. ASSUME NEW t \in Seq(PyEvents) PROVE UpWire(s \o t) = UpWire(s) \o UpWire(t)
  <2>1. Map(f, s \o t) = Map(f, s) \o Map(f, t)
    BY <1>1, MapJoins
  <2>2. Map(f, t) \in Seq(Seq(Int))
    BY <1>1, MapIs
  <2>3. Wire(Map(f, s) \o Map(f, t)) = Wire(Map(f, s)) \o Wire(Map(f, t))
    BY <1>2, <2>2, WireConcat
  <2>4. QED
    BY <2>1, <2>3 DEF UpWire, f
<1>5. QED
  BY <1>3, <1>4

LEMMA DownWires ==
  ASSUME NEW s \in Seq(CppEvents)
  PROVE  /\ DownWire(s) \in Seq(Int)
         /\ \A t \in Seq(CppEvents) : DownWire(s \o t) = DownWire(s) \o DownWire(t)
<1> DEFINE f == CppPacking
<1>1. \A t \in Seq(CppEvents) : Maps(CppEvents, Seq(Int), f, t)
  BY PacksType
<1> HIDE DEF f
<1>2. Map(f, s) \in Seq(Seq(Int))
  BY <1>1, MapIs
<1>3. DownWire(s) \in Seq(Int)
  BY <1>2, WireIs DEF DownWire, f
<1>4. ASSUME NEW t \in Seq(CppEvents)
      PROVE  DownWire(s \o t) = DownWire(s) \o DownWire(t)
  <2>1. Map(f, s \o t) = Map(f, s) \o Map(f, t)
    BY <1>1, MapJoins
  <2>2. Map(f, t) \in Seq(Seq(Int))
    BY <1>1, MapIs
  <2>3. Wire(Map(f, s) \o Map(f, t)) = Wire(Map(f, s)) \o Wire(Map(f, t))
    BY <1>2, <2>2, WireConcat
  <2>4. QED
    BY <2>1, <2>3 DEF DownWire, f
<1>5. QED
  BY <1>3, <1>4

LEMMA UpWireOne ==
  ASSUME NEW e \in PyEvents
  PROVE  UpWire(<<e>>) = Framed(PyPack(e)) /\ UpWire(<<>>) = <<>>
         /\ PyPack(e) \in Seq(Int)
<1> DEFINE f == PyPacking
<1>1. f[e] = PyPack(e) /\ PyPack(e) \in Seq(Int)
  BY PacksType, EventsReadByCpp DEF PyEvents
<1> HIDE DEF f
<1>2. Map(f, <<e>>) = <<f[e]>> /\ Map(f, <<>>) = <<>>
  BY MapOne
<1>3. Wire(<<PyPack(e)>>) = Framed(PyPack(e)) /\ Wire(<<>>) = <<>>
  BY <1>1, WireOne, WireNone
<1>4. QED
  BY <1>1, <1>2, <1>3 DEF UpWire, f

LEMMA DownWireOne ==
  ASSUME NEW e \in CppEvents
  PROVE  DownWire(<<e>>) = Framed(CppPack(e)) /\ DownWire(<<>>) = <<>>
         /\ CppPack(e) \in Seq(Int)
<1> DEFINE f == CppPacking
<1>1. f[e] = CppPack(e) /\ CppPack(e) \in Seq(Int)
  BY PacksType, EventsReadByPy DEF CppEvents
<1> HIDE DEF f
<1>2. Map(f, <<e>>) = <<f[e]>> /\ Map(f, <<>>) = <<>>
  BY MapOne
<1>3. Wire(<<CppPack(e)>>) = Framed(CppPack(e)) /\ Wire(<<>>) = <<>>
  BY <1>1, WireOne, WireNone
<1>4. QED
  BY <1>1, <1>2, <1>3 DEF DownWire, f

LEMMA NoWire == UpWire(<<>>) = <<>> /\ DownWire(<<>>) = <<>>
<1>1. \A f : Map(f, <<>>) = <<>>
  BY MapOne
<1>2. QED
  BY <1>1, WireNone DEF UpWire, DownWire

(* What is told of several events is what is told of each.                  *)
SaidEvents == {Said(e) : e \in PyEvents}
Telling == [e \in PyEvents |-> IF e.node \in Nodes THEN <<Said(e)>> ELSE <<>>]

LEMMA ToldIs ==
  ASSUME NEW es \in Seq(PyEvents)
  PROVE  /\ Maps(PyEvents, Seq(SaidEvents), Telling, es)
         /\ Told(es) = FlattenSeq(Map(Telling, es)) /\ Told(es) \in Seq(SaidEvents)
<1>1. \A e \in PyEvents : Said(e) \in SaidEvents
  BY DEF SaidEvents
<1>2. Maps(PyEvents, Seq(SaidEvents), Telling, es)
  <2>1. \A x \in SaidEvents : <<x>> \in Seq(SaidEvents)
    OBVIOUS
  <2>2. Telling \in [PyEvents -> Seq(SaidEvents)]
    BY <1>1, <2>1 DEF Telling
  <2>3. QED
    BY <2>2 DEF Maps
<1>3. \A i \in DOMAIN es : es[i] \in PyEvents
  OBVIOUS
<1>4. Map(Telling, es) = [i \in DOMAIN es |->
        IF es[i].node \in Nodes THEN <<Said(es[i])>> ELSE <<>>]
  BY <1>3 DEF Map, Telling
<1>5. Told(es) = FlattenSeq(Map(Telling, es))
  BY <1>4 DEF Told
<1>6. Map(Telling, es) \in Seq(Seq(SaidEvents))
  BY <1>2, MapIs
<1>7. QED
  BY <1>2, <1>5, <1>6, FlattenType

LEMMA ToldConcat ==
  ASSUME NEW s \in Seq(PyEvents), NEW t \in Seq(PyEvents)
  PROVE  Told(s \o t) = Told(s) \o Told(t)
<1>1. s \o t \in Seq(PyEvents)
  BY ConcatProperties
<1>2. Map(Telling, s \o t) = Map(Telling, s) \o Map(Telling, t)
  BY ToldIs, MapJoins
<1>3. Map(Telling, s) \in Seq(Seq(SaidEvents)) /\ Map(Telling, t) \in Seq(Seq(SaidEvents))
  BY ToldIs, MapIs
<1>4. QED
  <2>1. Told(s \o t) = FlattenSeq(Map(Telling, s) \o Map(Telling, t))
    BY <1>1, <1>2, ToldIs
  <2>2. FlattenSeq(Map(Telling, s) \o Map(Telling, t)) =
          FlattenSeq(Map(Telling, s)) \o FlattenSeq(Map(Telling, t))
    BY <1>3, FlattenConcat
  <2>3. QED
    BY <2>1, <2>2, ToldIs

LEMMA ToldOne ==
  ASSUME NEW e \in PyEvents
  PROVE  Told(<<e>>) = IF e.node \in Nodes THEN <<Said(e)>> ELSE <<>>
<1>1. <<e>> \in Seq(PyEvents)
  OBVIOUS
<1> DEFINE x == Telling[e]
<1>2. Map(Telling, <<e>>) = <<x>>
  BY MapOne
<1>3. x = IF e.node \in Nodes THEN <<Said(e)>> ELSE <<>>
  BY DEF Telling
<1> HIDE DEF x
<1>4. x \in Seq(SaidEvents)
  <2>1. Said(e) \in SaidEvents
    BY DEF SaidEvents
  <2>2. QED
    BY <1>3, <2>1
<1>5. FlattenSeq(Append(<<>>, x)) = FlattenSeq(<<>>) \o x
  <2>1. <<>> \in Seq(Seq(SaidEvents))
    OBVIOUS
  <2>2. QED
    BY <1>4, <2>1, FlattenAppend
<1>6. FlattenSeq(<<>>) = <<>> /\ <<>> \o x = x
  BY <1>4, FlattenEmpty, ConcatEmptySeq
<1>7. Append(<<>>, x) = <<x>>
  OBVIOUS
<1>8. Told(<<e>>) = FlattenSeq(<<x>>)
  BY <1>1, <1>2, ToldIs
<1>9. QED
  BY <1>3, <1>5, <1>6, <1>7, <1>8
-----------------------------------------------------------------------------
(* The network thread knows whom it serves; the streams are of units.       *)
TypeInv ==
  /\ pc \in {"accept", "clean", "recv", "parse", "process", "drain", "send",
             "close", "done", "killed"}
  /\ back \in {"accept", "recv", "parse"}
  /\ nbClients \in 0 .. Clients /\ client_socket \in {INVALID, nbClients}
  /\ buffer \in Seq(Int) /\ msg_to_host \in Seq(Seq(Int))
  /\ frame \in Seq(Int) /\ sent \in 0 .. Len(frame)
  /\ up \in [Connections -> Seq(Int)] /\ down \in [Connections -> Seq(Int)]
  /\ \A c \in Connections : Len(down[c]) <= Room
  /\ received \in [Connections -> Seq(Int)]
  /\ msg_len \in [Connections -> Nat \cup {NoLen}]
  /\ host \in [Connections -> {"new", "open", "closed"}]
  /\ sentUp \in [Connections -> Seq(PyEvents)]
  /\ sentDown \in [Connections -> Seq(CppEvents)]
  /\ DOMAIN gotUp = Connections /\ gotDown \in [Connections -> Seq(Seq(Int))]
  /\ whole \in [Connections -> Nat]

Serving == {"recv", "parse", "process", "drain", "send", "close"}

Served ==
  /\ pc \in Serving => client_socket # INVALID
  /\ pc \in {"accept", "done"} => client_socket = INVALID /\ msg_to_host = <<>>
  /\ pc = "clean" => back \in {"accept", "recv"}
                     /\ (back = "accept" <=> client_socket = INVALID)
  /\ pc \in {"process", "drain", "send"} => back \in {"recv", "parse"}
  /\ pc = "send" => sent < Len(frame)

(* What the host of a connection has sent: the events that were heard, then *)
(* those that are in the receiver or in the stream.                         *)
Stream(c) == IF c = client_socket THEN buffer \o up[c] ELSE up[c]
Live(c)   == c = client_socket \/ c > nbClients

UpOk(c, done, rest) ==
  /\ sentUp[c] = done \o rest
  /\ gotUp[c] = Told(done)
  /\ Live(c) => Stream(c) = UpWire(rest)

UpInv ==
  \A c \in Connections : \E done, rest \in Seq(PyEvents) : UpOk(c, done, rest)

LEMMA ServedOne ==
  ASSUME TypeInv, client_socket # INVALID
  PROVE  client_socket \in Connections /\ client_socket = nbClients
  BY DEF TypeInv, INVALID, Connections

LEMMA UpSame ==
  ASSUME UpInv,
         UNCHANGED <<sentUp, gotUp, up, buffer, client_socket, nbClients>>
  PROVE  UpInv'
<1>1. SUFFICES ASSUME NEW c \in Connections
               PROVE  \E done, rest \in Seq(PyEvents) : UpOk(c, done, rest)'
  BY DEF UpInv
<1>2. PICK done \in Seq(PyEvents), rest \in Seq(PyEvents) : UpOk(c, done, rest)
  BY DEF UpInv
<1>3. UpOk(c, done, rest)'
  BY <1>2 DEF UpOk, Live, Stream
<1>4. QED
  BY <1>3

(* The connections that a step leaves alone.                                *)
LEMMA UpApart ==
  ASSUME UpInv, NEW c \in Connections, sentUp'[c] = sentUp[c],
         gotUp'[c] = gotUp[c], Live(c)' => Live(c) /\ Stream(c)' = Stream(c)
  PROVE  \E done, rest \in Seq(PyEvents) : UpOk(c, done, rest)'
<1>1. PICK done \in Seq(PyEvents), rest \in Seq(PyEvents) : UpOk(c, done, rest)
  BY DEF UpInv
<1>2. UpOk(c, done, rest)'
  BY <1>1 DEF UpOk
<1>3. QED
  BY <1>2

LEMMA AcceptKeepsUp ==
  ASSUME TypeInv, Served, UpInv, NAccept
  PROVE  UpInv'
<1>1. ASSUME NEW c \in Connections
      PROVE  Live(c)' => Live(c) /\ Stream(c)' = Stream(c)
  <2>1. c \in Nat \ {0} /\ nbClients \in Nat /\ client_socket = INVALID
        /\ nbClients' = nbClients + 1 /\ client_socket' = nbClients + 1
        /\ buffer' = <<>> /\ up' = up /\ up[c] \in Seq(Int)
    BY DEF TypeInv, Served, NAccept, Connections, streams
  <2>2. <<>> \o up[c] = up[c]
    BY <2>1, ConcatEmptySeq
  <2>3. c # client_socket
    BY <2>1 DEF INVALID
  <2>4. QED
    BY <2>1, <2>2, <2>3 DEF Live, Stream
<1>2. sentUp' = sentUp /\ gotUp' = gotUp
  BY DEF NAccept, logs
<1>3. QED
  BY <1>1, <1>2, UpApart DEF UpInv

LEMMA CloseKeepsUp ==
  ASSUME TypeInv, Served, UpInv, NClose
  PROVE  UpInv'
<1>1. ASSUME NEW c \in Connections
      PROVE  Live(c)' => Live(c) /\ Stream(c)' = Stream(c)
  <2>1. c \in Nat \ {0} /\ nbClients \in Nat /\ client_socket = nbClients
        /\ nbClients' = nbClients /\ client_socket' = 0 /\ up' = up
    BY ServedOne DEF TypeInv, Served, Serving, NClose, Connections, streams, INVALID
  <2>2. QED
    BY <2>1 DEF Live, Stream
<1>2. sentUp' = sentUp /\ gotUp' = gotUp
  BY DEF NClose, logs
<1>3. QED
  BY <1>1, <1>2, UpApart DEF UpInv

LEMMA MovesRange ==
  ASSUME NEW n \in Nat, NEW k \in Moves(n)
  PROVE  k \in 1 .. n
<1>1. PICK q \in Chunks : k = Min({n, q}) /\ k # 0
  BY DEF Moves
<1>2. q \in Nat
  BY HostLinkAssumption
<1>3. \E x \in {n, q} : \A y \in {n, q} : x <= y
  BY <1>2
<1>4. Min({n, q}) \in {n, q} /\ \A y \in {n, q} : Min({n, q}) <= y
  BY <1>3 DEF Min
<1>5. QED
  BY <1>1, <1>2, <1>4

LEMMA RecvKeepsUp ==
  ASSUME TypeInv, Served, UpInv, NRecv
  PROVE  UpInv' /\ buffer' \in Seq(Int) /\ up' \in [Connections -> Seq(Int)]
<1> DEFINE c0 == client_socket
<1>1. c0 \in Connections /\ up[c0] \in Seq(Int) /\ buffer \in Seq(Int)
  BY ServedOne DEF TypeInv, Served, Serving, NRecv
<1>2. PICK k \in Moves(Len(up[c0])) :
        /\ buffer' = buffer \o SubSeq(up[c0], 1, k)
        /\ up' = [up EXCEPT ![c0] = Rest(@, k)]
  BY DEF NRecv
<1> DEFINE s == up[c0]
           a == SubSeq(s, 1, k)
           b == Rest(s, k)
<1>3. k \in 0 .. Len(s)
  BY <1>1, <1>2, MovesRange, LenProperties
<1>4. a \in Seq(Int) /\ b \in Seq(Int) /\ s = a \o b
  BY <1>1, <1>3, Cut
<1>5. up'[c0] = b /\ \A c \in Connections : c # c0 => up'[c] = up[c]
  BY <1>1, <1>2 DEF TypeInv
<1>6. UNCHANGED <<client_socket, nbClients, sentUp, gotUp>>
  BY DEF NRecv, logs
<1> HIDE DEF a, b, s
<1>7. (buffer \o a) \o b = buffer \o s
  <2>1. (buffer \o a) \o b = buffer \o (a \o b)
    BY <1>1, <1>4, Assoc
  <2>2. QED
    BY <1>4, <2>1
<1>8. ASSUME NEW c \in Connections
      PROVE  Live(c)' => Live(c) /\ Stream(c)' = Stream(c)
  <2>1. CASE c = c0
    <3>1. Stream(c)' = (buffer \o a) \o b /\ Stream(c) = buffer \o s
      BY <1>2, <1>5, <1>6, <2>1 DEF Stream, a, s
    <3>2. QED
      BY <1>6, <1>7, <3>1, <2>1 DEF Live
  <2>2. CASE c # c0
    BY <1>5, <1>6, <2>2 DEF Live, Stream
  <2>3. QED
    BY <2>1, <2>2
<1>9. UpInv'
  BY <1>6, <1>8, UpApart DEF UpInv
<1>10. buffer' \in Seq(Int)
  BY <1>1, <1>2, <1>4, Joined DEF a, s
<1>11. up' \in [Connections -> Seq(Int)]
  BY <1>2, <1>4 DEF TypeInv, b, s
<1>12. QED
  BY <1>9, <1>10, <1>11

(* A whole message at the head of the receiver is the first that was not     *)
(* heard; the node that it names hears what the host said.                  *)
LEMMA HandleKeepsUp ==
  ASSUME TypeInv, Served, UpInv, NHandle
  PROVE  UpInv' /\ buffer' \in Seq(Int) /\ DOMAIN gotUp' = Connections
<1>0. PICK c0 \in Connections : c0 = client_socket
  BY ServedOne DEF Served, Serving, NHandle
<1> DEFINE s == up[c0]
           n == Length(buffer)
           e == CppUnpack(SubSeq(buffer, 3, 2 + n))
<1>1. c0 \in Connections /\ s \in Seq(Int) /\ buffer \in Seq(Int)
  BY <1>0 DEF TypeInv
<1>2. PICK done \in Seq(PyEvents), rest \in Seq(PyEvents) : UpOk(c0, done, rest)
  BY <1>1 DEF UpInv
<1>3. buffer \o s = UpWire(rest) /\ gotUp[c0] = Told(done)
      /\ sentUp[c0] = done \o rest
  BY <1>0, <1>2 DEF UpOk, Live, Stream
<1>4. Len(buffer) >= 2 /\ Len(buffer) >= 2 + n
  BY DEF NHandle, Complete
<1>5. rest # <<>>
  <2>1. SUFFICES ASSUME rest = <<>> PROVE FALSE
    OBVIOUS
  <2>2. buffer \o s = <<>>
    BY <1>3, <2>1, NoWire
  <2>3. Len(buffer \o s) = Len(buffer) + Len(s) /\ Len(buffer) \in Nat /\ Len(s) \in Nat
    BY <1>1, Joined
  <2>4. Len(buffer \o s) = 0
    BY <2>2
  <2>5. QED
    BY <1>4, <2>3, <2>4
<1> DEFINE r == rest[1]
           t == Tail(rest)
           m == PyPack(r)
<1>6. r \in PyEvents /\ t \in Seq(PyEvents) /\ rest = <<r>> \o t
      /\ <<r>> \in Seq(PyEvents)
  BY <1>2, <1>5, FirstOff
<1> HIDE DEF r, t
<1>7. /\ UpWire(rest) = Framed(m) \o UpWire(t) /\ UpWire(t) \in Seq(Int)
      /\ m \in Seq(Int) /\ Fits(m)
  <2>1. UpWire(<<r>> \o t) = UpWire(<<r>>) \o UpWire(t)
    BY <1>6, UpWires
  <2>2. QED
    BY <1>6, <2>1, UpWireOne, UpWires DEF PyEvents
<1> HIDE DEF m
<1>8. /\ n = Len(m) /\ Len(m) \in Nat
      /\ SubSeq(buffer, 3, 2 + n) = m
      /\ Rest(buffer, 2 + n) \in Seq(Int) /\ Rest(buffer, 2 + n) \o s = UpWire(t)
  <2>1. buffer \o s = Framed(m) \o UpWire(t)
    BY <1>3, <1>7
  <2>2. n = Len(m) /\ Len(m) \in Nat
    BY <1>1, <1>4, <1>7, <2>1, FirstFrame DEF FrameOf
  <2> HIDE DEF n
  <2>3. Len(buffer) >= 2 + Len(m)
    BY <1>4, <2>2
  <2>4. /\ SubSeq(buffer, 3, 2 + Len(m)) = m
        /\ Rest(buffer, 2 + Len(m)) \in Seq(Int)
        /\ Rest(buffer, 2 + Len(m)) \o s = UpWire(t)
    <3> DEFINE w == UpWire(t)
    <3>1. w \in Seq(Int) /\ buffer \o s = Framed(m) \o w /\ Len(buffer) >= 2
      BY <1>4, <1>7, <2>1
    <3> HIDE DEF w, s
    <3>2. Len(buffer) >= 2 + Len(m) =>
            /\ SubSeq(buffer, 3, 2 + Len(m)) = m
            /\ Rest(buffer, 2 + Len(m)) \in Seq(Int)
            /\ Rest(buffer, 2 + Len(m)) \o s = w
      <4>1. FrameOf(buffer, s, m, w)
        BY <1>1, <1>7, <3>1 DEF FrameOf
      <4>2. QED
        BY <3>1, <4>1, FirstFrame
    <3>3. QED
      BY <2>3, <3>2 DEF w
  <2>5. QED
    BY <2>2, <2>4
<1>9. e.node = r.node /\ SaidCpp(e) = Said(r)
  BY <1>6, <1>8, EventsReadByCpp DEF m, PyEvents
<1>10. /\ buffer' = Rest(buffer, 2 + n)
       /\ gotUp' = IF e.node \in Nodes
                   THEN [gotUp EXCEPT ![c0] = Append(@, SaidCpp(e))] ELSE gotUp
       /\ UNCHANGED <<client_socket, nbClients, up, sentUp>>
  BY <1>0 DEF NHandle, streams
<1> HIDE DEF n, e
<1>11. gotUp'[c0] = Told(done) \o Told(<<r>>)
  <2>1. Told(done) \in Seq(SaidEvents)
    BY <1>2, ToldIs
  <2>2. CASE r.node \in Nodes
    <3>1. Told(<<r>>) = <<Said(r)>>
      BY <1>6, <2>2, ToldOne
    <3>2. gotUp'[c0] = Append(Told(done), Said(r))
      BY <1>1, <1>3, <1>9, <1>10, <2>2 DEF TypeInv
    <3>3. Said(r) \in SaidEvents
      BY <1>6 DEF SaidEvents
    <3>4. QED
      BY <2>1, <3>1, <3>2, <3>3, AppendIsConcat
  <2>3. CASE r.node \notin Nodes
    <3>1. Told(<<r>>) = <<>>
      BY <1>6, <2>3, ToldOne
    <3>2. gotUp'[c0] = Told(done)
      BY <1>3, <1>9, <1>10, <2>3
    <3>3. QED
      BY <2>1, <3>1, <3>2, ConcatEmptySeq
  <2>4. QED
    BY <2>2, <2>3
<1> DEFINE done2 == done \o <<r>>
<1>12. done2 \in Seq(PyEvents) /\ sentUp[c0] = done2 \o t
  <2>1. (done \o <<r>>) \o t = done \o (<<r>> \o t)
    BY <1>2, <1>6, ConcatAssociative
  <2>2. done \o <<r>> \in Seq(PyEvents)
    BY <1>2, <1>6, ConcatProperties
  <2>3. QED
    BY <1>3, <1>6, <2>1, <2>2
<1>13. Told(done2) = Told(done) \o Told(<<r>>)
  BY <1>2, <1>6, ToldConcat
<1> HIDE DEF done2
<1>14. UpOk(c0, done2, t)'
  <2>1. Stream(c0)' = Rest(buffer, 2 + n) \o s
    BY <1>0, <1>10 DEF Stream
  <2>2. QED
    BY <1>8, <1>10, <1>11, <1>12, <1>13, <2>1 DEF UpOk
<1>15. ASSUME NEW c \in Connections
       PROVE  \E d, q \in Seq(PyEvents) : UpOk(c, d, q)'
  <2>1. CASE c = c0
    BY <1>6, <1>12, <1>14, <2>1
  <2>2. CASE c # c0
    <3>1. gotUp'[c] = gotUp[c]
      BY <1>10, <2>2 DEF TypeInv
    <3>2. Live(c)' => Live(c) /\ Stream(c)' = Stream(c)
      BY <1>0, <1>10, <2>2 DEF Live, Stream
    <3>3. sentUp'[c] = sentUp[c]
      BY <1>10
    <3>4. QED
      BY <3>1, <3>2, <3>3, UpApart
  <2>3. QED
    BY <2>1, <2>2
<1>16. DOMAIN gotUp' = Connections
  BY <1>10 DEF TypeInv
<1>17. buffer' \in Seq(Int)
  BY <1>8, <1>10
<1>18. QED
  BY <1>15, <1>16, <1>17 DEF UpInv

LEMMA SendKeepsUp ==
  ASSUME Readable, TypeInv, Served, UpInv, NEW c0 \in Connections, CSend(c0)
  PROVE  /\ UpInv' /\ up' \in [Connections -> Seq(Int)]
         /\ sentUp' \in [Connections -> Seq(PyEvents)]
<1>0. PICK e : e = HostEvents[c0][Len(sentUp[c0]) + 1]
  OBVIOUS
<1> DEFINE s == up[c0]
           f == Framed(PyPack(e))
<1>1. e \in PyEvents
  <2>1. HostEvents[c0] \in Seq(PyEvents) /\ Len(sentUp[c0]) \in Nat
    BY LenProperties DEF Readable, PyEvents, TypeInv
  <2>2. Len(sentUp[c0]) < Len(HostEvents[c0])
    BY DEF CSend
  <2>3. QED
    BY <1>0, <2>1, <2>2
<1>2. /\ up' = [up EXCEPT ![c0] = @ \o f]
      /\ sentUp' = [sentUp EXCEPT ![c0] = Append(@, e)]
      /\ UNCHANGED <<client_socket, nbClients, buffer, gotUp>>
  BY <1>0 DEF CSend, network
<1>3. f \in Seq(Int) /\ UpWire(<<e>>) = f /\ <<e>> \in Seq(PyEvents)
  BY <1>1, UpWireOne, FramedType
<1> HIDE DEF f
<1>4. s \in Seq(Int) /\ buffer \in Seq(Int) /\ up'[c0] = s \o f
      /\ sentUp[c0] \in Seq(PyEvents) /\ sentUp'[c0] = Append(sentUp[c0], e)
  BY <1>2 DEF TypeInv
<1>5. s \o f \in Seq(Int) /\ Append(sentUp[c0], e) \in Seq(PyEvents)
      /\ Append(sentUp[c0], e) = sentUp[c0] \o <<e>>
  BY <1>1, <1>3, <1>4, Joined, AppendProperties, AppendIsConcat
<1>6. PICK done \in Seq(PyEvents), rest \in Seq(PyEvents) : UpOk(c0, done, rest)
  BY DEF UpInv
<1> DEFINE rest2 == rest \o <<e>>
<1>7. rest2 \in Seq(PyEvents) /\ sentUp'[c0] = done \o rest2
      /\ UpWire(rest2) = UpWire(rest) \o f
  <2>1. (done \o rest) \o <<e>> = done \o (rest \o <<e>>)
    BY <1>3, <1>6, ConcatAssociative
  <2>2. rest \o <<e>> \in Seq(PyEvents)
    BY <1>3, <1>6, ConcatProperties
  <2>3. UpWire(rest \o <<e>>) = UpWire(rest) \o UpWire(<<e>>)
    BY <1>3, <1>6, UpWires
  <2>4. sentUp[c0] = done \o rest
    BY <1>6 DEF UpOk
  <2>5. QED
    BY <1>3, <1>4, <1>5, <2>1, <2>2, <2>3, <2>4
<1> HIDE DEF rest2, s
<1>8. UpOk(c0, done, rest2)'
  <2>1. Stream(c0)' = Stream(c0) \o f
    <3>1. CASE c0 = client_socket
      <4>1. Stream(c0) = buffer \o s /\ Stream(c0)' = buffer \o (s \o f)
        BY <1>2, <1>4, <3>1 DEF Stream, s
      <4>2. (buffer \o s) \o f = buffer \o (s \o f)
        BY <1>3, <1>4, Assoc
      <4>3. QED
        BY <4>1, <4>2
    <3>2. CASE c0 # client_socket
      BY <1>2, <1>4, <3>2 DEF Stream, s
    <3>3. QED
      BY <3>1, <3>2
  <2>2. Live(c0)' => Live(c0)
    BY <1>2 DEF Live
  <2>3. gotUp'[c0] = Told(done) /\ (Live(c0) => Stream(c0) = UpWire(rest))
    BY <1>2, <1>6 DEF UpOk
  <2>4. QED
    BY <1>7, <2>1, <2>2, <2>3 DEF UpOk
<1>9. ASSUME NEW c \in Connections
      PROVE  \E d, q \in Seq(PyEvents) : UpOk(c, d, q)'
  <2>1. CASE c = c0
    BY <1>6, <1>7, <1>8, <2>1
  <2>2. CASE c # c0
    <3>1. sentUp'[c] = sentUp[c] /\ up'[c] = up[c]
      BY <1>2, <2>2 DEF TypeInv
    <3>2. Live(c)' => Live(c) /\ Stream(c)' = Stream(c)
      BY <1>2, <3>1 DEF Live, Stream
    <3>3. gotUp'[c] = gotUp[c]
      BY <1>2
    <3>4. QED
      BY <3>1, <3>2, <3>3, UpApart
  <2>3. QED
    BY <2>1, <2>2
<1>10. up' \in [Connections -> Seq(Int)] /\ sentUp' \in [Connections -> Seq(PyEvents)]
  BY <1>2, <1>4, <1>5 DEF TypeInv, s
<1>11. QED
  BY <1>9, <1>10 DEF UpInv
-----------------------------------------------------------------------------
(* t is s without some of its elements.                                     *)
Picks(f, t, s) ==
  /\ f \in [1 .. Len(t) -> 1 .. Len(s)]
  /\ \A i, j \in 1 .. Len(t) : i < j => f[i] < f[j]
  /\ \A i \in 1 .. Len(t) : t[i] = s[f[i]]

Sub(t, s) == \E f : Picks(f, t, s)

LEMMA SubNone == ASSUME NEW s PROVE Sub(<<>>, s)
<1> DEFINE f == [i \in 1 .. 0 |-> 1]
<1>1. Len(<<>>) = 0 /\ 1 .. 0 = {}
  OBVIOUS
<1>2. Picks(f, <<>>, s)
  BY <1>1 DEF Picks
<1>3. QED
  BY <1>2 DEF Sub

LEMMA SubGrow ==
  ASSUME NEW S, NEW s \in Seq(S), NEW t \in Seq(S), NEW x \in S, Sub(t, s)
  PROVE  Sub(t, s \o <<x>>)
<1>1. PICK f : Picks(f, t, s)
  BY DEF Sub
<1> DEFINE n == Len(s)
           u == s \o <<x>>
<1>2. n \in Nat /\ Len(u) = n + 1 /\ \A i \in 1 .. n : u[i] = s[i]
  OBVIOUS
<1> HIDE DEF u
<1>3. Picks(f, t, u)
  <2>1. f \in [1 .. Len(t) -> 1 .. n]
    BY <1>1 DEF Picks
  <2> HIDE DEF n
  <2>2. f \in [1 .. Len(t) -> 1 .. n + 1]
    BY <1>2, <2>1
  <2>3. \A i \in 1 .. Len(t) : t[i] = u[f[i]]
    BY <1>1, <1>2, <2>1 DEF Picks
  <2>4. QED
    BY <1>1, <1>2, <2>2, <2>3 DEF Picks
<1>4. QED
  BY <1>3 DEF Sub, u

LEMMA SubBoth ==
  ASSUME NEW S, NEW s \in Seq(S), NEW t \in Seq(S), NEW x \in S, Sub(t, s)
  PROVE  Sub(t \o <<x>>, s \o <<x>>)
<1>1. PICK f : Picks(f, t, s)
  BY DEF Sub
<1> DEFINE n == Len(s)
           k == Len(t)
           u == s \o <<x>>
           v == t \o <<x>>
<1>2. /\ n \in Nat /\ Len(u) = n + 1 /\ u[n + 1] = x
      /\ \A i \in 1 .. n : u[i] = s[i]
  OBVIOUS
<1>3. /\ k \in Nat /\ Len(v) = k + 1 /\ v[k + 1] = x
      /\ \A i \in 1 .. k : v[i] = t[i]
  OBVIOUS
<1>4. /\ f \in [1 .. k -> 1 .. n] /\ \A i, j \in 1 .. k : i < j => f[i] < f[j]
      /\ \A i \in 1 .. k : t[i] = s[f[i]]
  BY <1>1 DEF Picks
<1> HIDE DEF u, v, n, k
<1> DEFINE g == [i \in 1 .. k + 1 |-> IF i = k + 1 THEN n + 1 ELSE f[i]]
<1>5. /\ \A i \in 1 .. k : g[i] = f[i] /\ g[i] \in 1 .. n
      /\ g[k + 1] = n + 1 /\ DOMAIN g = 1 .. k + 1
      /\ \A i \in 1 .. k + 1 : i = k + 1 \/ i \in 1 .. k
  BY <1>3, <1>4
<1>6. g \in [1 .. k + 1 -> 1 .. n + 1]
  BY <1>2, <1>3, <1>4
<1> HIDE DEF g
<1>7. ASSUME NEW i \in 1 .. k + 1, NEW j \in 1 .. k + 1, i < j
      PROVE  g[i] < g[j]
  <2>1. i \in 1 .. k /\ g[i] = f[i] /\ g[i] \in 1 .. n
    BY <1>3, <1>5, <1>7
  <2>2. CASE j = k + 1
    BY <1>2, <1>5, <2>1, <2>2
  <2>3. CASE j \in 1 .. k
    BY <1>4, <1>5, <1>7, <2>1, <2>3
  <2>4. QED
    BY <1>5, <2>2, <2>3
<1>8. \A i \in 1 .. k + 1 : v[i] = u[g[i]]
  <2>1. v[k + 1] = u[g[k + 1]]
    BY <1>2, <1>3, <1>5
  <2>2. ASSUME NEW i \in 1 .. k PROVE v[i] = u[g[i]]
    <3>1. v[i] = t[i] /\ t[i] = s[f[i]] /\ g[i] = f[i] /\ g[i] \in 1 .. n
      BY <1>3, <1>4, <1>5
    <3>2. u[g[i]] = s[g[i]]
      BY <1>2, <3>1
    <3>3. QED
      BY <3>1, <3>2
  <2>3. QED
    BY <1>5, <2>1, <2>2
<1>9. Picks(g, v, u)
  BY <1>2, <1>3, <1>6, <1>7, <1>8 DEF Picks
<1>10. QED
  BY <1>9 DEF Sub, u, v

(* Without those in the middle.                                             *)
LEMMA SubDrop ==
  ASSUME NEW S, NEW s, NEW a \in Seq(S), NEW b \in Seq(S), NEW c \in Seq(S),
         Sub((a \o b) \o c, s)
  PROVE  Sub(a \o c, s)
<1> DEFINE n == Len(a)
           l == Len(b)
           k == Len(c)
           ab == a \o b
           t == ab \o c
           u == a \o c
<1>1. PICK f : Picks(f, t, s)
  BY DEF Sub
<1>2. /\ ab \in Seq(S) /\ Len(ab) = n + l /\ n \in Nat /\ l \in Nat
      /\ \A i \in 1 .. n + l : ab[i] = IF i <= n THEN a[i] ELSE b[i - n]
  BY Concat
<1>3. /\ u \in Seq(S) /\ Len(u) = n + k /\ k \in Nat
      /\ \A i \in 1 .. n + k : u[i] = IF i <= n THEN a[i] ELSE c[i - n]
  BY Concat
<1> HIDE DEF ab, u, n, l, k
<1>4. /\ t \in Seq(S) /\ Len(t) = (n + l) + k
      /\ \A i \in 1 .. (n + l) + k : t[i] = IF i <= n + l THEN ab[i] ELSE c[i - (n + l)]
  <2>1. Len(c) = k
    BY DEF k
  <2>2. QED
    BY <1>2, <2>1, Concat
<1>5. /\ f \in [1 .. (n + l) + k -> 1 .. Len(s)]
      /\ \A i, j \in 1 .. (n + l) + k : i < j => f[i] < f[j]
      /\ \A i \in 1 .. (n + l) + k : t[i] = s[f[i]]
  BY <1>1, <1>4 DEF Picks
<1> HIDE DEF t
<1> DEFINE at(i) == IF i <= n THEN i ELSE i + l
           g == [i \in 1 .. n + k |-> f[at(i)]]
<1>6. /\ \A i \in 1 .. n + k : at(i) \in 1 .. (n + l) + k
      /\ \A i, j \in 1 .. n + k : i < j => at(i) < at(j)
  BY <1>2, <1>3
<1>7. \A i \in 1 .. n + k : u[i] = t[at(i)]
  <2>1. SUFFICES ASSUME NEW i \in 1 .. n + k PROVE u[i] = t[at(i)]
    OBVIOUS
  <2>2. CASE i <= n
    <3>1. at(i) = i /\ i \in 1 .. n + l /\ i \in 1 .. (n + l) + k /\ i <= n + l
      BY <1>2, <1>3, <2>2
    <3> HIDE DEF at
    <3>2. t[i] = ab[i] /\ ab[i] = a[i] /\ u[i] = a[i]
      BY <1>2, <1>3, <1>4, <2>2, <3>1
    <3>3. QED
      BY <3>1, <3>2
  <2>3. CASE ~(i <= n)
    <3>1. at(i) = i + l /\ i + l \in 1 .. (n + l) + k /\ ~(i + l <= n + l)
          /\ (i + l) - (n + l) = i - n
      BY <1>2, <1>3, <2>3
    <3> DEFINE j == i + l
    <3> HIDE DEF at, j
    <3>2. t[j] = c[j - (n + l)] /\ u[i] = c[i - n]
      BY <1>3, <1>4, <2>3, <3>1 DEF j
    <3>3. QED
      BY <3>1, <3>2 DEF j
  <2>4. QED
    BY <2>2, <2>3
<1> HIDE DEF at
<1>8. \A i \in 1 .. n + k : g[i] = f[at(i)]
  OBVIOUS
<1>9. g \in [1 .. n + k -> 1 .. Len(s)]
  BY <1>5, <1>6
<1> HIDE DEF g
<1>10. /\ \A i, j \in 1 .. n + k : i < j => g[i] < g[j]
       /\ \A i \in 1 .. n + k : u[i] = s[g[i]]
  BY <1>5, <1>6, <1>7, <1>8
<1>11. Picks(g, u, s)
  BY <1>3, <1>9, <1>10 DEF Picks
<1>12. QED
  BY <1>11 DEF Sub, u
-----------------------------------------------------------------------------
(* What a host has read, what is on its way and what waits: of the events   *)
(* that were sent while it was served, some, in their order.                *)
CppPacks(es) == Map(CppPacking, es)

(* The events that a host has read as they were sent, D, that are on their  *)
(* way to it in whole frames, A, and that wait in the queue, Q.  H is the   *)
(* header that recv_messages() has taken off, X what of the last frame has  *)
(* not been sent, or never will, and J what follows the whole frames once a *)
(* frame was abandoned in the middle.                                       *)
HeaderOk(len, H) == IF len = NoLen THEN H = <<>> ELSE Len(H) = 2 /\ Length(H) = len

LastFrame(A) ==
  \E A0 \in Seq(CppEvents), e \in CppEvents :
    A = A0 \o <<e>> /\ frame = Framed(CppPack(e))

InFlight(c, D, A, X) ==
  IF pc = "send"
  THEN X = Rest(frame, sent) /\ LastFrame(A) /\ whole[c] < Len(D) + Len(A)
  ELSE X = <<>>

Flows(c, D, A, Q, H, X, J) ==
  /\ (H \o received[c]) \o (down[c] \o X) = DownWire(A) \o J
  /\ HeaderOk(msg_len[c], H)
  /\ IF c \in garbled THEN X = <<>> ELSE J = <<>>
  /\ c = client_socket /\ pc # "killed" /\ c \notin garbled =>
       msg_to_host = CppPacks(Q) /\ InFlight(c, D, A, X)

(* The messages that are read before any other are those of D; after them a *)
(* host reads something only when no whole frame is left.                   *)
ReadFirst(got, D) ==
  /\ Len(D) <= Len(got)
  /\ \A i \in DOMAIN D : PyUnpack(got[i]) = SaidCpp(D[i])

Counted(c, D, A) ==
  /\ whole[c] <= Len(D) + Len(A)
  /\ Len(D) < Len(gotDown[c]) => c \in garbled /\ A = <<>>

DownOk(c, D, A, Q, H, X, J) ==
  /\ D \in Seq(CppEvents) /\ A \in Seq(CppEvents) /\ Q \in Seq(CppEvents)
  /\ H \in Seq(Int) /\ X \in Seq(Int) /\ J \in Seq(Int)
  /\ Sub((D \o A) \o Q, sentDown[c])
  /\ ReadFirst(gotDown[c], D) /\ Counted(c, D, A)
  /\ host[c] # "closed" => Flows(c, D, A, Q, H, X, J)

DownInv == \A c \in Connections : \E D, A, Q, H, X, J : DownOk(c, D, A, Q, H, X, J)

(* Nothing is sent to a host before it is served.                           *)
Untouched ==
  \A c \in Connections : c > nbClients =>
    /\ sentDown[c] = <<>> /\ gotDown[c] = <<>> /\ down[c] = <<>>
    /\ received[c] = <<>> /\ msg_len[c] = NoLen /\ whole[c] = 0

(* A step that leaves a connection alone.                                   *)
Waits(c) ==
  /\ c = client_socket /\ pc # "killed"
  /\ msg_to_host' = msg_to_host
  /\ pc' = "send" <=> pc = "send"
  /\ pc = "send" => UNCHANGED <<frame, sent>>

ApartFrom(c) ==
  /\ UNCHANGED <<sentDown[c], gotDown[c], received[c], down[c], msg_len[c], whole[c]>>
  /\ host'[c] # "closed" => host[c] # "closed"
  /\ c \in garbled => c \in garbled'
  /\ host'[c] # "closed" => (c \in garbled' => c \in garbled)
  /\ (c = client_socket /\ pc # "killed" /\ host[c] # "closed")' =>
       c \in garbled \/ Waits(c)

LEMMA FlowsApart ==
  ASSUME NEW c, NEW D, NEW A, NEW Q, NEW H, NEW X, NEW J,
         Flows(c, D, A, Q, H, X, J), ApartFrom(c), host'[c] # "closed"
  PROVE  Flows(c, D, A, Q, H, X, J)'
<1>1. /\ (H \o received[c]) \o (down[c] \o X) = DownWire(A) \o J
      /\ HeaderOk(msg_len[c], H)
      /\ IF c \in garbled THEN X = <<>> ELSE J = <<>>
  BY DEF Flows
<1>2. /\ ((H \o received[c]) \o (down[c] \o X) = DownWire(A) \o J)'
      /\ HeaderOk(msg_len[c], H)'
      /\ (IF c \in garbled THEN X = <<>> ELSE J = <<>>)'
  BY <1>1 DEF HeaderOk, ApartFrom
<1>3. ASSUME (c = client_socket /\ pc # "killed" /\ c \notin garbled)'
      PROVE  (msg_to_host = CppPacks(Q) /\ InFlight(c, D, A, X))'
  <2>1. Waits(c) /\ c \notin garbled /\ whole'[c] = whole[c]
    BY <1>3 DEF ApartFrom
  <2>2. msg_to_host = CppPacks(Q) /\ InFlight(c, D, A, X)
    BY <2>1 DEF Flows, Waits
  <2>3. InFlight(c, D, A, X)'
    BY <2>1, <2>2 DEF InFlight, LastFrame, Waits
  <2>4. QED
    BY <2>1, <2>2, <2>3 DEF Waits
<1>4. QED
  BY <1>2, <1>3 DEF Flows

LEMMA DownSameFor ==
  ASSUME DownInv, NEW c \in Connections, ApartFrom(c)
  PROVE  \E D, A, Q, H, X, J : DownOk(c, D, A, Q, H, X, J)'
<1>2. PICK D, A, Q, H, X, J : DownOk(c, D, A, Q, H, X, J)
  BY DEF DownInv
<1>3. host'[c] # "closed" => Flows(c, D, A, Q, H, X, J)'
  <2>1. SUFFICES ASSUME host'[c] # "closed" PROVE Flows(c, D, A, Q, H, X, J)'
    OBVIOUS
  <2>2. Flows(c, D, A, Q, H, X, J)
    BY <1>2, <2>1 DEF DownOk, ApartFrom
  <2>3. QED
    BY <2>1, <2>2, FlowsApart
<1>4. ReadFirst(gotDown'[c], D) /\ Counted(c, D, A)'
  BY <1>2 DEF DownOk, ApartFrom, Counted
<1>5. DownOk(c, D, A, Q, H, X, J)'
  BY <1>2, <1>3, <1>4 DEF DownOk, ApartFrom
<1>6. QED
  BY <1>5

LEMMA DownSame ==
  ASSUME DownInv, \A c \in Connections : ApartFrom(c)
  PROVE  DownInv'
  BY DownSameFor DEF DownInv

LEMMA EventsJoin ==
  ASSUME NEW a \in Seq(CppEvents), NEW b \in Seq(CppEvents), NEW c \in Seq(CppEvents)
  PROVE  /\ a \o b \in Seq(CppEvents) /\ b \o c \in Seq(CppEvents)
         /\ (a \o b) \o c = a \o (b \o c)
  BY ConcatAssociative, ConcatProperties

(* What remains of a sequence.                                              *)
LEMMA RestIs ==
  ASSUME NEW S, NEW s \in Seq(S)
  PROVE  Rest(s, 0) = s /\ Rest(s, Len(s)) = <<>>
<1>1. Rest(s, 0) = s
  BY SubSeqFull DEF Rest
<1>2. Rest(s, Len(s)) = <<>>
  BY LenProperties, SubSeqEmpty DEF Rest
<1>3. QED
  BY <1>1, <1>2

LEMMA RestCut ==
  ASSUME NEW S, NEW s \in Seq(S), NEW n \in Nat, NEW k \in Nat, n + k <= Len(s)
  PROVE  /\ SubSeq(s, n + 1, n + k) \in Seq(S) /\ Rest(s, n + k) \in Seq(S)
         /\ Rest(s, n) = SubSeq(s, n + 1, n + k) \o Rest(s, n + k)
         /\ Len(SubSeq(s, n + 1, n + k)) = k
<1>1. n + 1 \in 1 .. Len(s) + 1 /\ n + k \in (n + 1) - 1 .. Len(s)
      /\ Len(s) \in n + k .. Len(s)
  BY LenProperties
<1>2. SubSeq(s, n + 1, n + k) \o SubSeq(s, (n + k) + 1, Len(s)) = SubSeq(s, n + 1, Len(s))
  BY <1>1, ConcatAdjacentSubSeq
<1>3. SubSeq(s, n + 1, n + k) \in Seq(S) /\ Rest(s, n + k) \in Seq(S)
      /\ Len(SubSeq(s, n + 1, n + k)) = k
  BY <1>1 DEF Rest
<1>4. QED
  BY <1>2, <1>3 DEF Rest

LEMMA RestTwice ==
  ASSUME NEW S, NEW s \in Seq(S), NEW n \in Nat, NEW k \in Nat, n + k <= Len(s)
  PROVE  /\ SubSeq(Rest(s, n), 1, k) = SubSeq(s, n + 1, n + k)
         /\ Rest(Rest(s, n), k) = Rest(s, n + k)
<1> DEFINE x == SubSeq(s, n + 1, n + k)
           y == Rest(s, n + k)
<1>1. x \in Seq(S) /\ y \in Seq(S) /\ Rest(s, n) = x \o y /\ Len(x) = k
  <2>1. /\ SubSeq(s, n + 1, n + k) \in Seq(S) /\ Rest(s, n + k) \in Seq(S)
        /\ Rest(s, n) = SubSeq(s, n + 1, n + k) \o Rest(s, n + k)
        /\ Len(SubSeq(s, n + 1, n + k)) = k
    BY RestCut
  <2>2. QED
    BY <2>1
<1> HIDE DEF x, y
<1>2. SubSeq(x \o y, 1, Len(x)) = x /\ Rest(x \o y, Len(x)) = y
  BY <1>1, SplitBack
<1>3. QED
  BY <1>1, <1>2 DEF x, y

(* The steps that touch no stream to a host.                                *)
LEMMA AcceptKeepsDown ==
  ASSUME TypeInv, Served, Untouched, DownInv, NAccept
  PROVE  DownInv'
<1>1. ASSUME NEW c \in Connections
      PROVE  \E D, A, Q, H, X, J : DownOk(c, D, A, Q, H, X, J)'
  <2>1. CASE c # client_socket'
    <3>1. ApartFrom(c)
      BY <2>1 DEF ApartFrom, NAccept, streams, clients, logs, frames
    <3>2. QED
      BY <3>1, DownSameFor
  <2>2. CASE c = client_socket'
    <3>1. c > nbClients /\ pc' = "clean" /\ msg_to_host' = <<>>
      BY <2>2 DEF NAccept, Served, TypeInv
    <3>2. /\ sentDown'[c] = <<>> /\ gotDown'[c] = <<>> /\ down'[c] = <<>>
          /\ received'[c] = <<>> /\ msg_len'[c] = NoLen /\ whole'[c] = 0
      BY <3>1 DEF Untouched, NAccept, streams, clients, logs, frames
    <3>3. <<>> \in Seq(CppEvents) /\ <<>> \in Seq(Int) /\ <<>> \o <<>> = <<>>
          /\ ReadFirst(<<>>, <<>>) /\ Len(<<>>) = 0
      BY DEF ReadFirst
    <3>4. CppPacks(<<>>) = <<>> /\ DownWire(<<>>) = <<>>
      BY MapOne, NoWire DEF CppPacks
    <3>5. Flows(c, <<>>, <<>>, <<>>, <<>>, <<>>, <<>>)' /\ Counted(c, <<>>, <<>>)'
      BY <3>1, <3>2, <3>3, <3>4 DEF Flows, HeaderOk, InFlight, Counted
    <3>6. Sub((<<>> \o <<>>) \o <<>>, sentDown'[c])
      BY <3>3, SubNone
    <3>7. DownOk(c, <<>>, <<>>, <<>>, <<>>, <<>>, <<>>)'
      BY <3>2, <3>3, <3>5, <3>6 DEF DownOk
    <3>8. QED
      BY <3>7
  <2>3. QED
    BY <2>1, <2>2
<1>2. QED
  BY <1>1 DEF DownInv

LEMMA QuietKeepsDown ==
  ASSUME TypeInv, DownInv,
         \/ NEnd \/ NRecv \/ NRecvNothing \/ NRecvEnd \/ NHandle
         \/ NKilled \/ NClose \/ CloseHost
  PROVE  DownInv'
<1>1. SUFFICES ASSUME NEW c \in Connections PROVE ApartFrom(c)
  BY DownSame
<1>2. CASE NEnd
  BY <1>2 DEF ApartFrom, Waits, NEnd, streams, clients, logs, frames
<1>3. CASE NRecv
  BY <1>3 DEF ApartFrom, Waits, NRecv, clients, logs, frames
<1>4. CASE NRecvNothing
  BY <1>4 DEF ApartFrom, Waits, NRecvNothing, streams, clients, logs, frames
<1>5. CASE NRecvEnd
  BY <1>5 DEF ApartFrom, Waits, NRecvEnd, streams, clients, logs, frames
<1>6. CASE NHandle
  BY <1>6 DEF ApartFrom, Waits, NHandle, streams, clients, frames
<1>7. CASE NKilled
  BY <1>7 DEF ApartFrom, NKilled, streams, clients, logs, frames
<1>8. CASE NClose
  BY <1>8
     DEF ApartFrom, NClose, streams, clients, logs, frames, INVALID, Connections
<1>9. CASE CloseHost
  BY <1>9 DEF ApartFrom, Waits, CloseHost, network, streams, clients, logs, frames
<1>10. QED
  BY <1>2, <1>3, <1>4, <1>5, <1>6, <1>7, <1>8, <1>9

LEMMA IdleKeepsDown ==
  ASSUME TypeInv, Served, DownInv, NParsed \/ NDrained \/ NSendClosed
  PROVE  DownInv'
<1>1. SUFFICES ASSUME NEW c \in Connections PROVE ApartFrom(c)
  BY DownSame
<1>2. CASE NParsed
  BY <1>2 DEF ApartFrom, Waits, NParsed, streams, clients, logs, frames
<1>3. CASE NDrained
  BY <1>3 DEF ApartFrom, Waits, NDrained, Served, streams, clients, logs, frames
<1>4. CASE NSendClosed
  BY <1>4 DEF ApartFrom, NSendClosed, clients, logs, frames
<1>5. QED
  BY <1>2, <1>3, <1>4

LEMMA HostKeepsDown ==
  ASSUME TypeInv, DownInv, NEW b \in Connections,
         CConnect(b) \/ CSend(b) \/ CClose(b)
  PROVE  DownInv'
<1>1. SUFFICES ASSUME NEW c \in Connections PROVE ApartFrom(c)
  BY DownSame
<1>2. CASE CConnect(b)
  <2>1. host'[c] = host[c] \/ host[c] = "new"
    BY <1>2 DEF CConnect, TypeInv
  <2>2. QED
    BY <1>2, <2>1 DEF ApartFrom, Waits, CConnect, network, streams, logs, frames
<1>3. CASE CSend(b)
  BY <1>3 DEF ApartFrom, Waits, CSend, network, clients, frames
<1>4. CASE CClose(b)
  <2>1. host'[c] = host[c] \/ host'[c] = "closed"
    BY <1>4 DEF CClose, TypeInv
  <2>2. QED
    BY <1>4, <2>1 DEF ApartFrom, Waits, CClose, network, logs, frames
<1>5. QED
  BY <1>2, <1>3, <1>4

(* The messages of several events.                                          *)
LEMMA CppPacksAre ==
  ASSUME NEW s \in Seq(CppEvents)
  PROVE  /\ CppPacks(s) \in Seq(Seq(Int)) /\ CppPacks(<<>>) = <<>>
         /\ \A e \in CppEvents :
              /\ CppPack(e) \in Seq(Int)
              /\ CppPacks(s \o <<e>>) = CppPacks(s) \o <<CppPack(e)>>
              /\ CppPacks(<<e>> \o s) = <<CppPack(e)>> \o CppPacks(s)
<1> DEFINE f == CppPacking
<1>1. \A t \in Seq(CppEvents) : Maps(CppEvents, Seq(Int), f, t)
  BY PacksType
<1>2. \A e \in CppEvents : f[e] = CppPack(e)
  BY PacksType
<1> HIDE DEF f
<1>3. Map(f, s) \in Seq(Seq(Int)) /\ Map(f, <<>>) = <<>>
  BY <1>1, MapIs, MapOne
<1>4. ASSUME NEW e \in CppEvents
      PROVE  /\ CppPack(e) \in Seq(Int)
             /\ CppPacks(s \o <<e>>) = CppPacks(s) \o <<CppPack(e)>>
             /\ CppPacks(<<e>> \o s) = <<CppPack(e)>> \o CppPacks(s)
  <2>1. <<e>> \in Seq(CppEvents)
    OBVIOUS
  <2>2. Map(f, <<e>>) = <<f[e]>>
    BY MapOne
  <2> DEFINE t == <<e>>
  <2>0. Maps(CppEvents, Seq(Int), f, s) /\ Maps(CppEvents, Seq(Int), f, t)
    BY <1>1, <2>1
  <2> HIDE DEF t
  <2>3. Map(f, s \o t) = Map(f, s) \o Map(f, t) /\ Map(f, t \o s) = Map(f, t) \o Map(f, s)
    BY <2>0, MapJoins
  <2>4. CppPack(e) \in Seq(Int)
    BY DownWireOne
  <2>5. QED
    BY <1>2, <2>2, <2>3, <2>4 DEF CppPacks, t, f
<1>5. QED
  BY <1>3, <1>4 DEF CppPacks, f

LEMMA CleanKeepsDown ==
  ASSUME TypeInv, Served, DownInv, NClean
  PROVE  DownInv'
<1>0. /\ pc = "clean" /\ msg_to_host' = <<>> /\ pc' = back
      /\ UNCHANGED <<client_socket, frame, sent, streams, clients, logs>>
  BY DEF NClean, Cleaned
<1>1. ASSUME NEW c \in Connections
      PROVE  \E D, A, Q, H, X, J : DownOk(c, D, A, Q, H, X, J)'
  <2>1. CASE c # client_socket \/ c \in garbled
    <3>1. ApartFrom(c)
      BY <1>0, <2>1 DEF ApartFrom, streams, clients, logs, frames
    <3>2. QED
      BY <3>1, DownSameFor
  <2>2. CASE c = client_socket /\ c \notin garbled
    <3>1. PICK D, A, Q, H, X, J : DownOk(c, D, A, Q, H, X, J)
      BY DEF DownInv
    <3>2. D \in Seq(CppEvents) /\ A \in Seq(CppEvents) /\ Q \in Seq(CppEvents)
          /\ Sub((D \o A) \o Q, sentDown[c])
      BY <3>1 DEF DownOk
    <3> DEFINE s == D \o A
               z == <<>>
    <3>3. s \in Seq(CppEvents) /\ s \o Q \in Seq(CppEvents) /\ z \in Seq(CppEvents)
      BY <3>2, ConcatProperties
    <3> HIDE DEF s
    <3>4. (s \o Q) \o z = s \o Q
      BY <3>3, ConcatEmptySeq
    <3> HIDE DEF z
    <3>5. Sub(s \o z, sentDown[c])
      BY <3>2, <3>3, <3>4, SubDrop DEF s
    <3>6. CppPacks(z) = <<>>
      BY <3>2, CppPacksAre DEF z
    <3>7. pc' # "send"
      BY <1>0 DEF TypeInv
    <3>8. Flows(c, D, A, Q, H, X, J) => Flows(c, D, A, z, H, X, J)'
      <4>1. SUFFICES ASSUME Flows(c, D, A, Q, H, X, J) PROVE Flows(c, D, A, z, H, X, J)'
        OBVIOUS
      <4>2. /\ (H \o received[c]) \o (down[c] \o X) = DownWire(A) \o J
            /\ HeaderOk(msg_len[c], H) /\ J = <<>> /\ X = <<>>
        BY <1>0, <2>2, <4>1 DEF Flows, InFlight
      <4>3. /\ ((H \o received[c]) \o (down[c] \o X) = DownWire(A) \o J)'
            /\ HeaderOk(msg_len[c], H)'
        BY <1>0, <4>2 DEF streams, clients, HeaderOk
      <4>4. InFlight(c, D, A, X)'
        BY <1>0, <3>7, <4>2 DEF InFlight
      <4>5. QED
        BY <1>0, <2>2, <3>6, <4>2, <4>3, <4>4 DEF Flows
    <3>9. Counted(c, D, A)' /\ ReadFirst(gotDown'[c], D)
      BY <1>0, <3>1 DEF DownOk, Counted, logs, frames
    <3>10. DownOk(c, D, A, z, H, X, J)'
      BY <1>0, <3>1, <3>3, <3>5, <3>8, <3>9 DEF DownOk, s, clients, logs
    <3>11. QED
      BY <3>10
  <2>3. QED
    BY <2>1, <2>2
<1>2. QED
  BY <1>1 DEF DownInv

(* An event that a node sends waits for the network thread, or is dropped.  *)
LEMMA NodeKeepsDown ==
  ASSUME Readable, TypeInv, Served, DownInv, GSend
  PROVE  /\ DownInv' /\ sentDown' \in [Connections -> Seq(CppEvents)]
         /\ msg_to_host' \in Seq(Seq(Int))
<1>0. PICK c0 \in Connections : c0 = client_socket
  BY ServedOne DEF GSend
<1>e. PICK e : e = GraphEvents[c0][Len(sentDown[c0]) + 1]
  OBVIOUS
<1> DEFINE m == CppPack(e)
<1>1. e \in CppEvents
  <2>1. GraphEvents[c0] \in Seq(CppEvents) /\ Len(sentDown[c0]) \in Nat
    BY LenProperties DEF Readable, CppEvents, TypeInv
  <2>2. Len(sentDown[c0]) < Len(GraphEvents[c0])
    BY <1>0 DEF GSend
  <2>3. QED
    BY <1>e, <2>1, <2>2
<1>2. m \in Seq(Int)
  BY <1>1, DownWireOne
<1>3. /\ sentDown' = [sentDown EXCEPT ![c0] = Append(@, e)]
      /\ msg_to_host' = IF Len(msg_to_host) < MaxHostMsgs
                        THEN Append(msg_to_host, m) ELSE msg_to_host
      /\ UNCHANGED <<pc, client_socket, frame, sent, streams, clients, gotDown, frames>>
  BY <1>0, <1>e DEF GSend
<1> HIDE DEF m
<1>4. /\ sentDown[c0] \in Seq(CppEvents) /\ sentDown'[c0] = sentDown[c0] \o <<e>>
      /\ Append(sentDown[c0], e) \in Seq(CppEvents)
      /\ \A c \in Connections : c # c0 => sentDown'[c] = sentDown[c]
  <2>1. /\ sentDown[c0] \in Seq(CppEvents)
        /\ sentDown'[c0] = Append(sentDown[c0], e)
        /\ \A c \in Connections : c # c0 => sentDown'[c] = sentDown[c]
    BY <1>3 DEF TypeInv
  <2>2. /\ Append(sentDown[c0], e) \in Seq(CppEvents)
        /\ Append(sentDown[c0], e) = sentDown[c0] \o <<e>>
    BY <1>1, <2>1, AppendProperties, AppendIsConcat
  <2>3. QED
    BY <2>1, <2>2
<1>5. /\ msg_to_host \in Seq(Seq(Int)) /\ Append(msg_to_host, m) \in Seq(Seq(Int))
      /\ Append(msg_to_host, m) = msg_to_host \o <<m>>
  BY <1>2, AppendProperties, AppendIsConcat DEF TypeInv
<1>6. ASSUME NEW c \in Connections
      PROVE  \E D, A, Q, H, X, J : DownOk(c, D, A, Q, H, X, J)'
  <2>1. CASE c # c0
    <3>1. ApartFrom(c)
      BY <1>0, <1>3, <1>4, <2>1 DEF ApartFrom, streams, clients, frames
    <3>2. QED
      BY <3>1, DownSameFor
  <2>2. CASE c = c0
    <3>1. PICK D, A, Q, H, X, J : DownOk(c, D, A, Q, H, X, J)
      BY DEF DownInv
    <3>2. D \in Seq(CppEvents) /\ A \in Seq(CppEvents) /\ Q \in Seq(CppEvents)
          /\ Sub((D \o A) \o Q, sentDown[c])
      BY <3>1 DEF DownOk
    <3> DEFINE s == D \o A
               x == <<e>>
    <3>3. s \in Seq(CppEvents) /\ s \o Q \in Seq(CppEvents) /\ x \in Seq(CppEvents)
      BY <1>1, <3>2, ConcatProperties
    <3> HIDE DEF s
    <3>4. ASSUME NEW P \in Seq(CppEvents), Sub(s \o P, sentDown'[c]),
                 msg_to_host = CppPacks(Q) => msg_to_host' = CppPacks(P)
          PROVE  DownOk(c, D, A, P, H, X, J)'
      <4>1. Flows(c, D, A, Q, H, X, J) => Flows(c, D, A, P, H, X, J)'
        <5>1. SUFFICES ASSUME Flows(c, D, A, Q, H, X, J)
                       PROVE  Flows(c, D, A, P, H, X, J)'
          OBVIOUS
        <5>2. /\ ((H \o received[c]) \o (down[c] \o X) = DownWire(A) \o J)'
              /\ HeaderOk(msg_len[c], H)'
              /\ (IF c \in garbled THEN X = <<>> ELSE J = <<>>)'
          BY <1>3, <5>1 DEF streams, clients, HeaderOk, Flows, frames
        <5>3. InFlight(c, D, A, X) => InFlight(c, D, A, X)'
          BY <1>3 DEF InFlight, LastFrame, frames
        <5>4. QED
          BY <1>3, <3>4, <5>1, <5>2, <5>3 DEF Flows, frames
      <4>2. Counted(c, D, A)' /\ ReadFirst(gotDown'[c], D)
        BY <1>3, <3>1 DEF DownOk, Counted, frames
      <4>3. QED
        BY <1>3, <3>1, <3>4, <4>1, <4>2 DEF DownOk, s, clients
    <3>5. CASE Len(msg_to_host) < MaxHostMsgs
      <4>1. Sub((s \o Q) \o x, sentDown'[c])
        BY <1>1, <1>4, <2>2, <3>2, <3>3, SubBoth DEF s
      <4>2. (s \o Q) \o x = s \o (Q \o x) /\ Q \o x \in Seq(CppEvents)
        <5>1. s \in Seq(CppEvents) /\ Q \in Seq(CppEvents) /\ x \in Seq(CppEvents)
          BY <3>2, <3>3
        <5>2. QED
          BY <5>1, EventsJoin
      <4>3. CppPacks(Q \o x) = CppPacks(Q) \o <<m>>
        BY <1>1, <3>2, CppPacksAre DEF m
      <4> DEFINE P == Q \o x
      <4>4. msg_to_host = CppPacks(Q) => msg_to_host' = CppPacks(P)
        BY <1>3, <1>5, <3>5, <4>3
      <4> HIDE DEF P
      <4>5. DownOk(c, D, A, P, H, X, J)'
        BY <3>4, <4>1, <4>2, <4>4 DEF P
      <4>6. QED
        BY <4>5
    <3>6. CASE ~(Len(msg_to_host) < MaxHostMsgs)
      <4>1. Sub(s \o Q, sentDown'[c])
        BY <1>1, <1>4, <2>2, <3>2, <3>3, SubGrow DEF s
      <4>2. DownOk(c, D, A, Q, H, X, J)'
        BY <1>3, <3>2, <3>4, <3>6, <4>1
      <4>3. QED
        BY <4>2
    <3>7. QED
      BY <3>5, <3>6
  <2>3. QED
    BY <2>1, <2>2
<1>7. sentDown' \in [Connections -> Seq(CppEvents)]
  BY <1>3, <1>4 DEF TypeInv
<1>8. QED
  BY <1>3, <1>5, <1>6, <1>7 DEF DownInv

(* Some events, then others.                                                *)
(* The network thread takes a message, and its frame is what is to be sent. *)
LEMMA TakeKeepsDown ==
  ASSUME TypeInv, Served, DownInv, NTake
  PROVE  /\ DownInv' /\ frame' \in Seq(Int) /\ msg_to_host' \in Seq(Seq(Int))
         /\ sent' \in 0 .. Len(frame') /\ sent' < Len(frame')
<1>0. /\ pc \in {"process", "drain"} /\ pc' = "send" /\ sent' = 0
      /\ msg_to_host # <<>> /\ msg_to_host \in Seq(Seq(Int))
      /\ frame' = Framed(Head(msg_to_host)) /\ msg_to_host' = Tail(msg_to_host)
      /\ UNCHANGED <<client_socket, streams, clients, logs>>
  BY DEF NTake, TypeInv
<1>1. Head(msg_to_host) \in Seq(Int) /\ msg_to_host' \in Seq(Seq(Int))
  BY <1>0
<1>2. ASSUME NEW c \in Connections
      PROVE  \E D, A, Q, H, X, J : DownOk(c, D, A, Q, H, X, J)'
  <2>1. CASE c # client_socket \/ host[c] = "closed" \/ c \in garbled
    <3>1. ApartFrom(c)
      BY <1>0, <2>1 DEF ApartFrom, streams, clients, logs, frames
    <3>2. QED
      BY <3>1, DownSameFor
  <2>2. CASE c = client_socket /\ host[c] # "closed" /\ c \notin garbled
    <3>1. PICK D, A, Q, H, X, J : DownOk(c, D, A, Q, H, X, J)
      BY DEF DownInv
    <3>2. /\ D \in Seq(CppEvents) /\ A \in Seq(CppEvents) /\ Q \in Seq(CppEvents)
          /\ Sub((D \o A) \o Q, sentDown[c]) /\ Flows(c, D, A, Q, H, X, J)
          /\ H \in Seq(Int)
      BY <2>2, <3>1 DEF DownOk
    <3>3. msg_to_host = CppPacks(Q) /\ X = <<>> /\ J = <<>>
      BY <1>0, <2>2, <3>2 DEF Flows, InFlight
    <3>4. Q # <<>>
      BY <1>0, <3>2, <3>3, CppPacksAre
    <3>5. PICK e \in CppEvents, P \in Seq(CppEvents) : Q = <<e>> \o P
      BY <3>2, <3>4, FirstOff
    <3> DEFINE x == <<e>>
               m == CppPack(e)
               F == Framed(m)
               A2 == A \o x
    <3>6. m \in Seq(Int) /\ msg_to_host = <<m>> \o CppPacks(P)
          /\ CppPacks(P) \in Seq(Seq(Int))
      BY <3>3, <3>5, CppPacksAre
    <3>7. x \in Seq(CppEvents) /\ F \in Seq(Int) /\ DownWire(x) = F
      BY <3>6, FramedType, DownWireOne
    <3> HIDE DEF m
    <3>8. Head(msg_to_host) = m /\ Tail(msg_to_host) = CppPacks(P)
      BY <3>6
    <3>9. frame' = F /\ msg_to_host' = CppPacks(P)
      BY <1>0, <3>8
    <3> HIDE DEF x, F
    <3>10. A2 \in Seq(CppEvents) /\ DownWire(A2) = DownWire(A) \o F
      BY <3>2, <3>7, ConcatProperties, DownWires
    <3>n. DownWire(A) \in Seq(Int) /\ DownWire(A2) \in Seq(Int)
      BY <3>2, <3>10, DownWires
    <3>11. Sub((D \o A2) \o P, sentDown'[c])
      <4> DEFINE s == D \o A
      <4>1. s \in Seq(CppEvents) /\ D \o A2 = s \o x
        <5>1. D \in Seq(CppEvents) /\ A \in Seq(CppEvents) /\ x \in Seq(CppEvents)
          BY <3>2, <3>7
        <5>2. QED
          BY <5>1, EventsJoin
      <4> HIDE DEF s
      <4>2. s \o (x \o P) = (s \o x) \o P
        <5>1. x \in Seq(CppEvents) /\ P \in Seq(CppEvents)
          BY <3>5, <3>7
        <5>2. QED
          BY <4>1, <5>1, EventsJoin
      <4>3. Sub(s \o (x \o P), sentDown'[c])
        BY <1>0, <3>2, <3>5 DEF s, x, logs
      <4>4. QED
        BY <4>1, <4>2, <4>3
    <3>12. (H \o received[c]) \o (down[c] \o F) = DownWire(A2) \o J
      <4> DEFINE r == H \o received[c]
                 d == down[c]
      <4>1. r \in Seq(Int) /\ d \in Seq(Int)
        BY <3>2, Joined DEF TypeInv
      <4>2. r \o (d \o X) = DownWire(A) \o J
        BY <3>2 DEF Flows
      <4> HIDE DEF r, d
      <4>3. r \o d = DownWire(A)
        BY <3>3, <3>n, <4>1, <4>2, ConcatEmptySeq
      <4>4. r \o (d \o F) = (r \o d) \o F
        BY <3>7, <4>1, Assoc
      <4>5. DownWire(A2) \o J = DownWire(A2)
        BY <3>3, <3>n, ConcatEmptySeq
      <4>6. QED
        BY <3>10, <4>3, <4>4, <4>5 DEF r, d
    <3>13. Rest(F, 0) = F
      BY <3>7, RestIs
    <3>c. Len(A2) = Len(A) + 1 /\ Counted(c, D, A) /\ whole[c] \in Nat
          /\ Len(D) \in Nat /\ Len(A) \in Nat
      <4>1. Len(A2) = Len(A) + 1
        BY <3>2, <3>5 DEF x
      <4>2. QED
        BY <3>1, <3>2, <4>1, LenProperties DEF DownOk, TypeInv
    <3>14. InFlight(c, D, A2, F)' /\ Counted(c, D, A2)'
      <4>1. LastFrame(A2)'
        BY <3>2, <3>9 DEF LastFrame, x, F, m
      <4>2. whole'[c] < Len(D) + Len(A2)
        BY <1>0, <3>c DEF Counted, logs, frames
      <4>3. Counted(c, D, A2)'
        BY <1>0, <2>2, <3>c, <4>2 DEF Counted, logs, frames
      <4>4. QED
        BY <1>0, <3>9, <3>13, <4>1, <4>2, <4>3 DEF InFlight
    <3>15. HeaderOk(msg_len[c], H)'
      BY <1>0, <3>2 DEF Flows, HeaderOk, clients
    <3>16. ((H \o received[c]) \o (down[c] \o F) = DownWire(A2) \o J)'
      BY <1>0, <3>12 DEF clients, streams
    <3> HIDE DEF A2
    <3>17. Flows(c, D, A2, P, H, F, J)'
      BY <1>0, <2>2, <3>3, <3>9, <3>14, <3>15, <3>16 DEF Flows, logs, frames
    <3>18. gotDown' = gotDown
      BY <1>0 DEF logs
    <3>19. DownOk(c, D, A2, P, H, F, J)'
      BY <3>1, <3>2, <3>5, <3>7, <3>10, <3>11, <3>14, <3>17, <3>18 DEF DownOk
    <3>20. QED
      BY <3>19
  <2>3. QED
    BY <2>1, <2>2
<1>3. frame' \in Seq(Int) /\ Len(frame') = 2 + Len(Head(msg_to_host))
      /\ Len(Head(msg_to_host)) \in Nat
  BY <1>0, <1>1, FramedType
<1>4. QED
  BY <1>0, <1>1, <1>2, <1>3 DEF DownInv

(* send() moves the head of what is left of the frame into the stream.      *)
LEMMA MoveKeepsDown ==
  ASSUME TypeInv, Served, DownInv, NSend
  PROVE  /\ DownInv' /\ down' \in [Connections -> Seq(Int)]
         /\ \A c \in Connections : Len(down'[c]) <= Room
         /\ sent' \in 0 .. Len(frame) /\ (pc' = "send" => sent' < Len(frame))
         /\ whole' \in [Connections -> Nat]
<1>0. PICK c0 \in Connections : c0 = client_socket
  BY ServedOne DEF NSend, Served, Serving
<1> DEFINE d == down[c0]
           left == Len(frame) - sent
           space == Room - Len(d)
<1>n. PICK n : n = Min({left, space})
  OBVIOUS
<1>1. PICK k \in Moves(n) :
        /\ sent' = sent + k
        /\ down' = [down EXCEPT ![c0] = @ \o SubSeq(frame, sent + 1, sent')]
  BY <1>0, <1>n DEF NSend
<1>2. left \in Nat /\ space \in Nat /\ d \in Seq(Int) /\ sent \in Nat
      /\ frame \in Seq(Int) /\ Len(d) \in Nat /\ Room \in Nat
  BY HostLinkAssumption, LenProperties DEF TypeInv
<1> HIDE DEF d
<1>3. n \in Nat /\ n <= left /\ n <= space
  <2>1. \E x \in {left, space} : \A y \in {left, space} : x <= y
    BY <1>2
  <2>2. Min({left, space}) \in {left, space}
        /\ \A y \in {left, space} : Min({left, space}) <= y
    BY <2>1 DEF Min
  <2>3. QED
    BY <1>n, <1>2, <2>2
<1>4. k \in Nat /\ k <= left /\ k <= space
  <2>1. k \in 1 .. n
    BY <1>1, <1>3, MovesRange
  <2>2. QED
    BY <1>2, <1>3, <2>1
<1>r. PICK R : R = Rest(frame, sent + k)
  OBVIOUS
<1> DEFINE g == SubSeq(frame, sent + 1, sent + k)
<1>5. /\ g \in Seq(Int) /\ R \in Seq(Int) /\ Rest(frame, sent) = g \o R
      /\ Len(g) = k
  <2>1. sent + k <= Len(frame)
    BY <1>2, <1>4, LenProperties
  <2> DEFINE S == Int
  <2>2. frame \in Seq(S) /\ sent \in Nat /\ k \in Nat
    BY <1>2, <1>4
  <2> HIDE DEF S
  <2>3. /\ g \in Seq(S) /\ Rest(frame, sent + k) \in Seq(S)
        /\ Rest(frame, sent) = g \o Rest(frame, sent + k) /\ Len(g) = k
    BY <2>1, <2>2, RestCut
  <2>4. QED
    BY <1>r, <2>3 DEF S
<1>6. /\ pc = "send" /\ host[c0] = "open"
      /\ pc' = IF sent' = Len(frame) THEN "drain" ELSE "send"
      /\ whole' = IF sent' = Len(frame) /\ c0 \notin garbled
                  THEN [whole EXCEPT ![c0] = @ + 1] ELSE whole
      /\ UNCHANGED <<client_socket, msg_to_host, frame, garbled, clients, sentDown,
                     gotDown>>
  BY <1>0 DEF NSend
<1>7. down' = [down EXCEPT ![c0] = d \o g]
  BY <1>1 DEF d
<1> HIDE DEF g
<1>8. d \o g \in Seq(Int) /\ Len(d \o g) = Len(d) + k
  BY <1>2, <1>5, Joined
<1>9. /\ \A c \in Connections : c # c0 => down'[c] = down[c] /\ whole'[c] = whole[c]
      /\ down'[c0] = d \o g
      /\ whole'[c0] = IF sent' = Len(frame) /\ c0 \notin garbled
                      THEN whole[c0] + 1 ELSE whole[c0]
      /\ whole' \in [Connections -> Nat] /\ whole[c0] \in Nat
  <2>1. /\ whole \in [Connections -> Nat] /\ down \in [Connections -> Seq(Int)]
        /\ c0 \in Connections
    BY DEF TypeInv
  <2>2. down'[c0] = d \o g /\ \A c \in Connections : c # c0 => down'[c] = down[c]
    BY <1>7, <2>1
  <2>3. /\ \A c \in Connections : c # c0 => whole'[c] = whole[c]
        /\ whole'[c0] = IF sent' = Len(frame) /\ c0 \notin garbled
                        THEN whole[c0] + 1 ELSE whole[c0]
        /\ whole' \in [Connections -> Nat] /\ whole[c0] \in Nat
    BY <1>6, <2>1
  <2>4. QED
    BY <2>2, <2>3
<1>10. ASSUME NEW c \in Connections
       PROVE  \E D, A, Q, H, X, J : DownOk(c, D, A, Q, H, X, J)'
  <2>1. CASE c # c0
    <3>1. down'[c] = down[c] /\ whole'[c] = whole[c]
      BY <1>9, <2>1
    <3>2. ApartFrom(c)
      BY <1>0, <1>6, <2>1, <3>1 DEF ApartFrom, clients
    <3>3. QED
      BY <3>2, DownSameFor
  <2>3. CASE c = c0 /\ c0 \in garbled
    <3>1. PICK D, A, Q, H, X, J : DownOk(c, D, A, Q, H, X, J)
      BY DEF DownInv
    <3>2. /\ A \in Seq(CppEvents) /\ Flows(c, D, A, Q, H, X, J) /\ X = <<>>
          /\ H \in Seq(Int) /\ J \in Seq(Int) /\ DownWire(A) \in Seq(Int)
      BY <1>6, <2>3, <3>1, DownWires DEF DownOk, Flows
    <3>3. (H \o received[c]) \o (down'[c] \o X) = DownWire(A) \o (J \o g)
      <4> DEFINE r == H \o received[c]
                 w == DownWire(A)
      <4>1. r \in Seq(Int) /\ w \in Seq(Int)
        BY <3>2, Joined DEF TypeInv
      <4>2. r \o (d \o X) = w \o J
        BY <2>3, <3>2 DEF Flows, d
      <4> HIDE DEF r, w
      <4>3. r \o d = w \o J /\ down'[c] \o X = d \o g
        BY <1>2, <1>8, <1>9, <2>3, <3>2, <4>2, ConcatEmptySeq
      <4>4. r \o (d \o g) = (r \o d) \o g
        <5>1. r \in Seq(Int) /\ d \in Seq(Int) /\ g \in Seq(Int)
          BY <1>2, <1>5, <4>1
        <5>2. (r \o d) \o g = r \o (d \o g)
          BY <5>1, Assoc
        <5>3. QED
          BY <5>2
      <4>5. (w \o J) \o g = w \o (J \o g)
        <5>1. w \in Seq(Int) /\ J \in Seq(Int) /\ g \in Seq(Int)
          BY <1>5, <3>2, <4>1
        <5>2. QED
          BY <5>1, Assoc
      <4>6. QED
        BY <4>3, <4>4, <4>5 DEF r, w
    <3>p. PICK J2 : J2 = J \o g
      OBVIOUS
    <3>4. J2 \in Seq(Int)
      BY <1>5, <3>2, <3>p, Joined
    <3>5. HeaderOk(msg_len[c], H)' /\ received' = received
      BY <1>6, <3>2 DEF Flows, HeaderOk, clients
    <3>6. Flows(c, D, A, Q, H, X, J2)'
      BY <1>6, <2>3, <3>2, <3>3, <3>5, <3>p DEF Flows
    <3>7. Counted(c, D, A)'
      BY <1>6, <1>9, <2>3, <3>1 DEF Counted, DownOk
    <3>8. DownOk(c, D, A, Q, H, X, J2)'
      BY <1>6, <3>1, <3>4, <3>6, <3>7 DEF DownOk
    <3>9. QED
      BY <3>8
  <2>2. CASE c = c0 /\ c0 \notin garbled
    <3>1. PICK D, A, Q, H, X, J : DownOk(c, D, A, Q, H, X, J)
      BY DEF DownInv
    <3>2. /\ D \in Seq(CppEvents) /\ A \in Seq(CppEvents) /\ Q \in Seq(CppEvents)
          /\ Flows(c, D, A, Q, H, X, J) /\ H \in Seq(Int) /\ X \in Seq(Int)
      BY <1>6, <2>2, <3>1 DEF DownOk
    <3>3. /\ msg_to_host = CppPacks(Q) /\ X = Rest(frame, sent) /\ LastFrame(A)
          /\ J = <<>> /\ whole[c] < Len(D) + Len(A)
      BY <1>0, <1>6, <2>2, <3>2 DEF Flows, InFlight
    <3>4. (H \o received[c]) \o (down'[c] \o R) = DownWire(A) \o J
      <4> DEFINE r == H \o received[c]
      <4>1. (d \o g) \o R = d \o (g \o R)
        BY <1>2, <1>5, Assoc
      <4>2. r \o (d \o X) = DownWire(A) \o J
        BY <2>2, <3>2 DEF Flows, d
      <4> HIDE DEF r
      <4>3. X = g \o R /\ down'[c] = d \o g
        BY <1>5, <1>9, <2>2, <3>3
      <4>4. r \o (down'[c] \o R) = DownWire(A) \o J
        BY <4>1, <4>2, <4>3
      <4>5. QED
        BY <4>4 DEF r
    <3>5. InFlight(c, D, A, R)'
      <4>1. CASE sent' = Len(frame)
        <5>1. R = <<>> /\ pc' = "drain"
          BY <1>r, <1>1, <1>2, <1>6, <4>1, RestIs
        <5>2. QED
          BY <5>1 DEF InFlight
      <4>2. CASE sent' # Len(frame)
        <5>1. R = Rest(frame, sent)' /\ pc' = "send"
          BY <1>r, <1>1, <1>6, <4>2
        <5>2. LastFrame(A)' /\ whole'[c] < Len(D) + Len(A)
          BY <1>6, <1>9, <2>2, <3>3, <4>2 DEF LastFrame
        <5>3. QED
          BY <5>1, <5>2 DEF InFlight
      <4>3. QED
        BY <4>1, <4>2
    <3>6. HeaderOk(msg_len[c], H)' /\ received' = received
      BY <1>6, <3>2 DEF Flows, HeaderOk, clients
    <3>7. Flows(c, D, A, Q, H, R, J)'
      BY <1>6, <2>2, <3>3, <3>4, <3>5, <3>6 DEF Flows
    <3>8. Counted(c, D, A)'
      <4>1. Len(D) \in Nat /\ Len(A) \in Nat
        BY <3>2, LenProperties
      <4>2. whole'[c] <= Len(D) + Len(A)
        BY <1>9, <2>2, <3>3, <4>1
      <4>3. QED
        BY <1>6, <2>2, <3>1, <4>2 DEF Counted, DownOk
    <3>9. DownOk(c, D, A, Q, H, R, J)'
      BY <1>5, <1>6, <3>1, <3>7, <3>8 DEF DownOk
    <3>10. QED
      BY <3>9
  <2>4. QED
    BY <2>1, <2>2, <2>3
<1>11. down' \in [Connections -> Seq(Int)]
  BY <1>7, <1>8 DEF TypeInv
<1>12. ASSUME NEW c \in Connections PROVE Len(down'[c]) <= Room
  <2>1. Len(down[c]) <= Room /\ Len(d) + k <= Room
    BY <1>2, <1>4 DEF TypeInv
  <2>2. QED
    BY <1>8, <1>9, <2>1
<1>13. sent' \in 0 .. Len(frame) /\ (pc' = "send" => sent' < Len(frame))
  <2>1. sent' = sent + k /\ Len(frame) \in Nat
    BY <1>1, <1>2, LenProperties
  <2>2. QED
    BY <1>2, <1>4, <1>6, <2>1
<1>14. QED
  BY <1>9, <1>10, <1>11, <1>12, <1>13 DEF DownInv

(* send() fails: of a frame of which nothing was sent the host reads        *)
(* nothing; of another the part that was sent follows the whole frames.     *)
LEMMA FailKeepsDown ==
  ASSUME TypeInv, Served, DownInv, NSendFails
  PROVE  DownInv'
<1>0. /\ pc = "send" /\ pc' = "drain"
      /\ garbled' = IF sent > 0 THEN garbled \cup {client_socket} ELSE garbled
      /\ UNCHANGED <<client_socket, msg_to_host, down, clients, sentDown, gotDown,
                     whole>>
  BY DEF NSendFails, streams
<1>1. ASSUME NEW c \in Connections
      PROVE  \E D, A, Q, H, X, J : DownOk(c, D, A, Q, H, X, J)'
  <2>1. CASE c # client_socket \/ host[c] = "closed" \/ c \in garbled
    <3>1. ApartFrom(c)
      BY <1>0, <2>1 DEF ApartFrom, clients
    <3>2. QED
      BY <3>1, DownSameFor
  <2>2. CASE c = client_socket /\ host[c] # "closed" /\ c \notin garbled
    <3>1. PICK D, A, Q, H, X, J : DownOk(c, D, A, Q, H, X, J)
      BY DEF DownInv
    <3>2. /\ D \in Seq(CppEvents) /\ A \in Seq(CppEvents) /\ Q \in Seq(CppEvents)
          /\ Sub((D \o A) \o Q, sentDown[c]) /\ Flows(c, D, A, Q, H, X, J)
          /\ H \in Seq(Int)
      BY <2>2, <3>1 DEF DownOk
    <3>3. sent \in 0 .. Len(frame) /\ (c \in garbled' <=> sent # 0)
      BY <1>0, <2>2 DEF TypeInv
    <3>4. /\ msg_to_host = CppPacks(Q) /\ X = Rest(frame, sent) /\ LastFrame(A)
          /\ J = <<>> /\ whole[c] < Len(D) + Len(A)
      BY <1>0, <2>2, <3>2 DEF Flows, InFlight
    <3>5. PICK B \in Seq(CppEvents), e \in CppEvents :
            A = B \o <<e>> /\ frame = Framed(CppPack(e))
      BY <3>4 DEF LastFrame
    <3> DEFINE x == <<e>>
               F == Framed(CppPack(e))
    <3>6. F \in Seq(Int) /\ x \in Seq(CppEvents) /\ DownWire(x) = F
      BY <3>5, DownWireOne, FramedType
    <3>p. PICK part : part = SubSeq(F, 1, sent)
      OBVIOUS
    <3>7. /\ A = B \o x /\ F = part \o X /\ part \in Seq(Int) /\ X \in Seq(Int)
          /\ sent = 0 => part = <<>>
      <4>1. sent \in 0 .. Len(F) /\ X = Rest(F, sent)
        BY <3>3, <3>4, <3>5
      <4> HIDE DEF F
      <4>2. /\ part \in Seq(Int) /\ Rest(F, sent) \in Seq(Int)
            /\ F = part \o Rest(F, sent)
        <5> DEFINE S == Int
        <5>1. F \in Seq(S) /\ sent \in 0 .. Len(F)
          BY <3>6, <4>1
        <5> HIDE DEF S
        <5>2. /\ SubSeq(F, 1, sent) \in Seq(S) /\ Rest(F, sent) \in Seq(S)
              /\ F = SubSeq(F, 1, sent) \o Rest(F, sent)
          BY <5>1, Cut
        <5>3. QED
          BY <3>p, <5>2 DEF S
      <4>3. sent = 0 => part = <<>>
        BY <3>6, <3>p, SubSeqEmpty
      <4>4. QED
        BY <3>5, <4>1, <4>2, <4>3
    <3> HIDE DEF x, F
    <3>8. Sub((D \o B) \o Q, sentDown'[c])
      <4> DEFINE s == D \o B
      <4>1. /\ D \in Seq(CppEvents) /\ B \in Seq(CppEvents)
            /\ x \in Seq(CppEvents)
        BY <3>2, <3>5, <3>6
      <4>2. D \o B \in Seq(CppEvents) /\ (D \o B) \o x = D \o (B \o x)
        BY <4>1, EventsJoin
      <4>3. s \in Seq(CppEvents) /\ D \o A = s \o x
        BY <3>7, <4>2
      <4> HIDE DEF s
      <4>4. Sub((s \o x) \o Q, sentDown'[c])
        BY <1>0, <3>2, <4>3 DEF logs
      <4>5. Sub(s \o Q, sentDown'[c])
        BY <3>2, <3>6, <4>3, <4>4, SubDrop
      <4>6. QED
        BY <4>5 DEF s
    <3> DEFINE z == <<>>
    <3>9. (H \o received[c]) \o (down[c] \o z) = DownWire(B) \o part
      <4> DEFINE r == H \o received[c]
                 d == down[c]
      <4>1. r \in Seq(Int) /\ d \in Seq(Int)
        BY <3>2, Joined DEF TypeInv
      <4> DEFINE w == DownWire(B)
                 p == w \o part
                 q == r \o d
      <4>a. d \o z = d
        BY <4>1, ConcatEmptySeq
      <4>b. w \in Seq(Int) /\ DownWire(B \o x) = w \o DownWire(x)
        BY <3>5, <3>6, DownWires
      <4>2. DownWire(A) = w \o F /\ DownWire(A) \in Seq(Int)
        BY <3>2, <3>6, <3>7, <4>b, DownWires
      <4>3. r \o (d \o X) = w \o F
        <5>1. r \o (d \o X) = DownWire(A) \o J
          BY <3>2 DEF Flows
        <5>2. DownWire(A) \o J = DownWire(A)
          BY <3>4, <4>2, ConcatEmptySeq
        <5>3. QED
          BY <4>2, <5>1, <5>2
      <4> HIDE DEF r, d, z, w
      <4>4. w \o F = p \o X
        BY <3>7, <4>b, Assoc
      <4>5. r \o (d \o X) = q \o X
        BY <3>7, <4>1, Assoc
      <4>c. q \in Seq(Int) /\ p \in Seq(Int)
        BY <3>7, <4>1, <4>b, Joined
      <4>6. q \o X = p \o X
        BY <4>3, <4>4, <4>5
      <4> HIDE DEF p, q
      <4>7. q = p
        BY <3>7, <4>6, <4>c, CancelRight
      <4>8. QED
        BY <4>a, <4>7 DEF r, d, p, q, w
    <3>10. InFlight(c, D, B, z)' /\ z \in Seq(Int) /\ z = <<>>
      BY <1>0 DEF InFlight
    <3>c. Counted(c, D, B)'
      <4>1. Len(A) = Len(B) + 1 /\ Len(B) \in Nat /\ Len(D) \in Nat /\ A # <<>>
        BY <3>2, <3>5, <3>7 DEF x
      <4>2. whole[c] \in Nat
        BY DEF TypeInv
      <4>3. whole[c] <= Len(D) + Len(B)
        BY <3>4, <4>1, <4>2
      <4>4. ~(Len(D) < Len(gotDown[c]))
        BY <3>1, <4>1 DEF DownOk, Counted
      <4>5. QED
        BY <1>0, <4>3, <4>4 DEF Counted
    <3>11. HeaderOk(msg_len[c], H)' /\ received' = received
      BY <1>0, <3>2 DEF Flows, HeaderOk, clients
    <3> HIDE DEF z
    <3>12. Flows(c, D, B, Q, H, z, part)'
      BY <1>0, <3>3, <3>4, <3>7, <3>9, <3>10, <3>11 DEF Flows
    <3>13. DownOk(c, D, B, Q, H, z, part)'
      BY <1>0, <3>1, <3>5, <3>7, <3>8, <3>10, <3>c, <3>12 DEF DownOk
    <3>14. QED
      BY <3>13
  <2>3. QED
    BY <2>1, <2>2
<1>2. QED
  BY <1>1 DEF DownInv

(* recv_messages(): what a host has, b, and what is still to come, u, begin *)
(* with a whole frame while one is on its way.                              *)
Comes(W, b, u) == b \in Seq(Int) /\ u \in Seq(Int) /\ b \o u = W

Ahead(A, J) == DownWire(A) \o J

LEMMA FirstComes ==
  ASSUME NEW A \in Seq(CppEvents), A # <<>>, NEW J \in Seq(Int), NEW b, NEW u,
         Comes(Ahead(A, J), b, u), Len(b) >= 2
  PROVE  \E e \in CppEvents, B \in Seq(CppEvents) :
           /\ A = <<e>> \o B /\ CppPack(e) \in Seq(Int)
           /\ Length(b) = Len(CppPack(e)) /\ Len(CppPack(e)) \in Nat
           /\ Len(b) >= 2 + Length(b) =>
                /\ SubSeq(b, 3, 2 + Length(b)) = CppPack(e)
                /\ Comes(Ahead(B, J), Rest(b, 2 + Length(b)), u)
<1>1. /\ b \in Seq(Int) /\ u \in Seq(Int) /\ b \o u = DownWire(A) \o J
  BY DEF Comes, Ahead
<1>3. PICK e \in CppEvents, B \in Seq(CppEvents) : A = <<e>> \o B
  <2>1. A[1] \in CppEvents /\ Tail(A) \in Seq(CppEvents) /\ A = <<A[1]>> \o Tail(A)
    BY FirstOff
  <2>2. QED
    BY <2>1
<1> DEFINE m == CppPack(e)
           v == DownWire(B)
           w == v \o J
           n == Length(b)
           F == Framed(m)
<1>4. m \in Seq(Int) /\ DownWire(<<e>>) = F /\ <<e>> \in Seq(CppEvents) /\ Fits(m)
      /\ F \in Seq(Int)
  BY <1>3, DownWireOne, FramedType DEF CppEvents
<1>5. w \in Seq(Int) /\ DownWire(A) \o J = F \o w
  <2>1. v \in Seq(Int) /\ DownWire(A) = F \o v
    BY <1>3, <1>4, DownWires
  <2> HIDE DEF v, F
  <2>2. (F \o v) \o J = F \o (v \o J)
    BY <1>4, <2>1, Assoc
  <2>3. v \o J \in Seq(Int)
    BY <2>1, Joined
  <2>4. QED
    BY <2>1, <2>2, <2>3
<1> HIDE DEF m, w
<1>6. FrameOf(b, u, m, w)
  BY <1>1, <1>4, <1>5 DEF FrameOf, F
<1>7. /\ n = Len(m) /\ Len(m) \in Nat
      /\ Len(b) >= 2 + Len(m) =>
           /\ SubSeq(b, 3, 2 + Len(m)) = m
           /\ Rest(b, 2 + Len(m)) \in Seq(Int)
           /\ Rest(b, 2 + Len(m)) \o u = w
  BY <1>6, FirstFrame
<1> HIDE DEF n
<1>8. ASSUME Len(b) >= 2 + n
      PROVE  SubSeq(b, 3, 2 + n) = m /\ Comes(Ahead(B, J), Rest(b, 2 + n), u)
  BY <1>1, <1>7, <1>8 DEF Comes, Ahead, w, v
<1>9. QED
  BY <1>3, <1>4, <1>7, <1>8 DEF m, n

(* The header, or none, that has been taken off the units that came.        *)
LEMMA HeaderTaken ==
  ASSUME TypeInv, NEW c \in Connections, NEW W, NEW H \in Seq(Int), NEW u,
         NEW len \in Nat \cup {NoLen}, NEW units \in Seq(Int),
         Comes(W, H \o units, u), HeaderOk(len, H), Buffered(c, len, units)
  PROVE  /\ \E G \in Seq(Int) :
              Comes(W, G \o received'[c], u) /\ HeaderOk(msg_len'[c], G)
         /\ received' \in [Connections -> Seq(Int)]
         /\ msg_len' \in [Connections -> Nat \cup {NoLen}]
         /\ \A d \in Connections :
              d # c => received'[d] = received[d] /\ msg_len'[d] = msg_len[d]
<1> DEFINE header == len = NoLen /\ Len(units) >= 2
<1>1. CASE header
  <2> DEFINE n == Length(units)
             r == Rest(units, 2)
             G == SubSeq(units, 1, 2)
  <2>1. H = <<>> /\ H \o units = units
    BY <1>1, ConcatEmptySeq DEF HeaderOk
  <2>2. n \in Nat
    BY <1>1, LengthType
  <2>3. 2 \in 0 .. Len(units)
    BY <1>1, LenProperties
  <2>4. G \in Seq(Int) /\ Len(G) = 2 /\ r \in Seq(Int) /\ units = G \o r
    BY <2>3, Cut
  <2>5. G[1] = units[1] /\ G[2] = units[2]
    BY <1>1
  <2>6. Length(G) = n
    BY <2>5 DEF Length
  <2>7. msg_len' = [msg_len EXCEPT ![c] = n] /\ received' = [received EXCEPT ![c] = r]
    BY <1>1 DEF Buffered
  <2> HIDE DEF n, r, G
  <2>8. HeaderOk(n, G)
    BY <2>2, <2>4, <2>6 DEF HeaderOk, NoLen
  <2>9. Comes(W, G \o r, u)
    BY <2>1, <2>4
  <2>10. msg_len'[c] = n /\ received'[c] = r
    BY <2>7 DEF TypeInv
  <2>11. QED
    BY <2>2, <2>4, <2>7, <2>8, <2>9, <2>10 DEF TypeInv
<1>2. CASE ~header
  <2>1. msg_len' = [msg_len EXCEPT ![c] = len]
        /\ received' = [received EXCEPT ![c] = units]
    BY <1>2 DEF Buffered
  <2>2. msg_len'[c] = len /\ received'[c] = units
    BY <2>1 DEF TypeInv
  <2>3. QED
    BY <2>1, <2>2 DEF TypeInv
<1>3. QED
  BY <1>1, <1>2

(* Together, the header and what a host has buffered, and what is to come.  *)
LEMMA FlowComes ==
  ASSUME TypeInv, NEW c \in Connections, NEW D, NEW A, NEW Q, NEW H, NEW X, NEW J,
         H \in Seq(Int), X \in Seq(Int), Flows(c, D, A, Q, H, X, J)
  PROVE  /\ H \o received[c] \in Seq(Int) /\ down[c] \o X \in Seq(Int)
         /\ Comes(Ahead(A, J), H \o received[c], down[c] \o X)
<1>1. received[c] \in Seq(Int) /\ down[c] \in Seq(Int)
  BY DEF TypeInv
<1>2. H \o received[c] \in Seq(Int) /\ down[c] \o X \in Seq(Int)
  BY <1>1, Joined
<1>3. QED
  BY <1>2 DEF Comes, Ahead, Flows

LEMMA ReadKeepsDown ==
  ASSUME TypeInv, DownInv, NEW b \in Connections, CRecv(b)
  PROVE  /\ DownInv' /\ down' \in [Connections -> Seq(Int)]
         /\ \A c \in Connections : Len(down'[c]) <= Room
         /\ received' \in [Connections -> Seq(Int)]
         /\ msg_len' \in [Connections -> Nat \cup {NoLen}]
<1> DEFINE d == down[b]
           r == received[b]
<1>1. PICK k \in Moves(Len(d)) :
        /\ Buffered(b, msg_len[b], r \o SubSeq(d, 1, k))
        /\ down' = [down EXCEPT ![b] = Rest(@, k)]
  BY DEF CRecv
<1> DEFINE a == SubSeq(d, 1, k)
           t == Rest(d, k)
<1>2. d \in Seq(Int) /\ r \in Seq(Int) /\ k \in 0 .. Len(d)
      /\ msg_len[b] \in Nat \cup {NoLen} /\ Len(d) <= Room
  <2>1. d \in Seq(Int) /\ r \in Seq(Int) /\ msg_len[b] \in Nat \cup {NoLen}
        /\ Len(d) <= Room
    BY DEF TypeInv
  <2>2. Len(d) \in Nat
    BY <2>1, LenProperties
  <2>3. k \in 1 .. Len(d)
    BY <1>1, <2>2, MovesRange
  <2>4. QED
    BY <2>1, <2>2, <2>3
<1>3. a \in Seq(Int) /\ t \in Seq(Int) /\ d = a \o t /\ Len(t) = Len(d) - k
  BY <1>2, Cut
<1>4. /\ host[b] = "open" /\ down' = [down EXCEPT ![b] = t]
      /\ UNCHANGED <<network, host, logs>>
  BY <1>1 DEF CRecv
<1> DEFINE units == r \o a
<1>5. Buffered(b, msg_len[b], units) /\ units \in Seq(Int)
  BY <1>1, <1>2, <1>3, Joined
<1>6. Len(t) <= Room
  <2> DEFINE n == Len(d)
  <2>1. n \in Nat
    BY <1>2, LenProperties
  <2>2. Len(t) = n - k /\ k \in 0 .. n /\ n <= Room
    BY <1>2, <1>3
  <2> HIDE DEF n
  <2>3. QED
    BY <2>1, <2>2, HostLinkAssumption
<1> HIDE DEF a, t, d
<1>7. PICK D, A, Q, H, X, J : DownOk(b, D, A, Q, H, X, J)
  BY DEF DownInv
<1>8. /\ D \in Seq(CppEvents) /\ A \in Seq(CppEvents) /\ Q \in Seq(CppEvents)
      /\ Flows(b, D, A, Q, H, X, J) /\ H \in Seq(Int) /\ X \in Seq(Int)
  BY <1>4, <1>7 DEF DownOk
<1> DEFINE v == t \o X
<1>9. Comes(Ahead(A, J), H \o units, v)
  <2>1. v \in Seq(Int) /\ H \o r \in Seq(Int)
    BY <1>2, <1>3, <1>8, Joined
  <2>2. H \o units = (H \o r) \o a
    <3>1. H \in Seq(Int) /\ r \in Seq(Int) /\ a \in Seq(Int)
      BY <1>2, <1>3, <1>8
    <3>2. (H \o r) \o a = H \o (r \o a)
      BY <3>1, Assoc
    <3>3. QED
      BY <3>2
  <2>3. H \o units \in Seq(Int)
    BY <1>5, <1>8, Joined
  <2>4. (a \o t) \o X = a \o (t \o X)
    BY <1>3, <1>8, Assoc
  <2>5. (H \o r) \o (d \o X) = Ahead(A, J)
    BY <1>8 DEF Flows, d, Ahead
  <2> DEFINE q == H \o r
  <2>6. q \in Seq(Int)
    BY <2>1
  <2> HIDE DEF q, v
  <2>7. (q \o a) \o v = q \o (a \o v)
    BY <1>3, <2>1, <2>6, Assoc
  <2>8. q \o (a \o v) = Ahead(A, J)
    BY <1>3, <2>4, <2>5 DEF q, v
  <2>9. QED
    BY <1>8, <2>1, <2>2, <2>3, <2>7, <2>8 DEF Comes, q
<1>10. HeaderOk(msg_len[b], H)
  BY <1>8 DEF Flows
<1> HIDE DEF units, v, r
<1>11. /\ \E G \in Seq(Int) :
            Comes(Ahead(A, J), G \o received'[b], v) /\ HeaderOk(msg_len'[b], G)
       /\ received' \in [Connections -> Seq(Int)]
       /\ msg_len' \in [Connections -> Nat \cup {NoLen}]
       /\ \A c \in Connections :
            c # b => received'[c] = received[c] /\ msg_len'[c] = msg_len[c]
  BY <1>2, <1>5, <1>8, <1>9, <1>10, HeaderTaken
<1>12. PICK G \in Seq(Int) :
         Comes(Ahead(A, J), G \o received'[b], v) /\ HeaderOk(msg_len'[b], G)
  BY <1>11
<1>13. down'[b] = t /\ \A c \in Connections : c # b => down'[c] = down[c]
  BY <1>4 DEF TypeInv
<1>14. ASSUME NEW c \in Connections
       PROVE  \E DD, AA, QQ, HH, XX, JJ :
               DownOk(c, DD, AA, QQ, HH, XX, JJ)'
  <2>1. CASE c # b
    <3>1. ApartFrom(c)
      BY <1>4, <1>11, <1>13, <2>1 DEF ApartFrom, Waits, network, logs, frames
    <3>2. QED
      BY <3>1, DownSameFor
  <2>2. CASE c = b
    <3>1. (G \o received'[c]) \o (down'[c] \o X) = DownWire(A) \o J
      BY <1>12, <1>13, <2>2 DEF Comes, Ahead, v
    <3>2. HeaderOk(msg_len[c], G)'
      BY <1>12, <2>2 DEF HeaderOk
    <3>3. /\ (c = client_socket /\ pc # "killed" /\ c \notin garbled)' =>
               (msg_to_host = CppPacks(Q) /\ InFlight(c, D, A, X))'
          /\ (IF c \in garbled THEN X = <<>> ELSE J = <<>>)'
      BY <1>4, <1>8, <2>2 DEF Flows, InFlight, LastFrame, network, logs, frames
    <3>4. Flows(c, D, A, Q, G, X, J)'
      BY <3>1, <3>2, <3>3 DEF Flows
    <3>5. Counted(c, D, A)'
      BY <1>4, <1>7, <2>2 DEF DownOk, Counted, logs, frames
    <3>6. DownOk(c, D, A, Q, G, X, J)'
      BY <1>4, <1>7, <1>8, <2>2, <3>4, <3>5 DEF DownOk, logs
    <3>7. QED
      BY <3>6
  <2>3. QED
    BY <2>1, <2>2
<1>15. down' \in [Connections -> Seq(Int)] /\ \A c \in Connections : Len(down'[c]) <= Room
  BY <1>3, <1>4, <1>6 DEF TypeInv
<1>16. QED
  BY <1>11, <1>14, <1>15 DEF DownInv

EndsIn(S, s, y) == \E r \in Seq(S) : s = r \o <<y>>

FirstAndLast(S, x, s, t, y) ==
  /\ x \in S /\ s \in Seq(S) /\ t \in Seq(S) /\ y \in S
  /\ s # <<>> /\ <<x>> \o s = t \o <<y>>

LEMMA SameLast ==
  ASSUME NEW S, NEW x, NEW s, NEW t, NEW y, FirstAndLast(S, x, s, t, y)
  PROVE  EndsIn(S, s, y)
<1>0. /\ x \in S /\ s \in Seq(S) /\ t \in Seq(S) /\ y \in S
      /\ s # <<>> /\ <<x>> \o s = t \o <<y>>
  BY DEF FirstAndLast
<1> USE <1>0
<1> DEFINE n == Len(s)
           k == Len(t)
<1>1. /\ n \in Nat \ {0} /\ SubSeq(s, 1, n - 1) \in Seq(S)
      /\ s = SubSeq(s, 1, n - 1) \o <<s[n]>>
  OBVIOUS
<1>2. Len(<<x>> \o s) = 1 + n /\ (<<x>> \o s)[1 + n] = s[n]
  OBVIOUS
<1>3. k \in Nat /\ Len(t \o <<y>>) = k + 1 /\ (t \o <<y>>)[k + 1] = y
  OBVIOUS
<1> HIDE DEF n, k
<1>4. s[n] = y
  <2>1. 1 + n = k + 1
    BY <1>2, <1>3
  <2>2. QED
    BY <1>2, <1>3, <2>1
<1>5. QED
  BY <1>1, <1>4 DEF EndsIn

LEMMA LastFrameTail ==
  ASSUME NEW e \in CppEvents, NEW B \in Seq(CppEvents), B # <<>>,
         LastFrame(<<e>> \o B)
  PROVE  LastFrame(B)
<1>1. PICK A0 \in Seq(CppEvents), e0 \in CppEvents :
        <<e>> \o B = A0 \o <<e0>> /\ frame = Framed(CppPack(e0))
  BY DEF LastFrame
<1>2. EndsIn(CppEvents, B, e0)
  <2>1. FirstAndLast(CppEvents, e, B, A0, e0)
    BY <1>1 DEF FirstAndLast
  <2>2. QED
    BY <2>1, SameLast
<1>3. QED
  BY <1>1, <1>2 DEF LastFrame, EndsIn

(* What is on its way ends with the frame that is sent, after the first     *)
(* event has been read as before.                                           *)
LEMMA InFlightTail ==
  ASSUME TypeInv, Served, NEW c, NEW D \in Seq(CppEvents), NEW e \in CppEvents,
         NEW B \in Seq(CppEvents), NEW X, NEW b \in Seq(Int), NEW v \in Seq(Int),
         v = b \o X, NEW w \in Seq(Int), w \o v = DownWire(B),
         InFlight(c, D, <<e>> \o B, X)
  PROVE  InFlight(c, D \o <<e>>, B, X)
<1>1. CASE pc # "send"
  BY <1>1 DEF InFlight
<1>2. CASE pc = "send"
  <2>1. X = Rest(frame, sent) /\ LastFrame(<<e>> \o B)
        /\ whole[c] < Len(D) + Len(<<e>> \o B)
    BY <1>2 DEF InFlight
  <2>2. Len(D \o <<e>>) + Len(B) = Len(D) + Len(<<e>> \o B)
    <3>1. /\ Len(D \o <<e>>) = Len(D) + 1 /\ Len(<<e>> \o B) = 1 + Len(B)
          /\ Len(D) \in Nat /\ Len(B) \in Nat
      OBVIOUS
    <3>2. QED
      BY <3>1
  <2>3. X \in Seq(Int) /\ Len(X) > 0
    <3>1. sent \in 0 .. Len(frame) /\ sent < Len(frame) /\ frame \in Seq(Int)
      BY <1>2 DEF TypeInv, Served
    <3>2. Rest(frame, sent) \in Seq(Int) /\ Len(Rest(frame, sent)) = Len(frame) - sent
          /\ Len(frame) \in Nat
      BY <3>1, Cut, LenProperties
    <3>3. QED
      BY <2>1, <3>1, <3>2
  <2>4. B # <<>>
    <3>1. Len(v) = Len(b) + Len(X) /\ Len(b) \in Nat /\ Len(X) \in Nat
      BY <2>3, Joined, LenProperties
    <3>2. Len(w \o v) = Len(w) + Len(v) /\ Len(w) \in Nat
      BY Joined, LenProperties
    <3>3. Len(w \o v) > 0
      BY <2>3, <3>1, <3>2
    <3>4. w \o v # <<>>
      BY <3>3
    <3>5. QED
      BY <3>4, NoWire
  <2>5. LastFrame(B)
    BY <2>1, <2>4, LastFrameTail
  <2>6. whole[c] < Len(D \o <<e>>) + Len(B)
    BY <2>1, <2>2
  <2>7. QED
    BY <1>2, <2>1, <2>5, <2>6 DEF InFlight
<1>3. QED
  BY <1>1, <1>2

(* The message that a host yields, and the units after it.                  *)
Message(b) == SubSeq(received[b], 1, msg_len[b])
After(b)   == Rest(received[b], msg_len[b])

LEMMA YieldTakes ==
  ASSUME TypeInv, NEW b \in Connections, CYield(b),
         NEW H \in Seq(Int), HeaderOk(msg_len[b], H), NEW u, u = H \o received[b]
  PROVE  /\ msg_len[b] \in Nat /\ Length(u) = msg_len[b]
         /\ Len(u) >= 2 + msg_len[b] /\ Len(u) >= 2
         /\ Message(b) = SubSeq(u, 3, 2 + msg_len[b])
         /\ After(b) = Rest(u, 2 + msg_len[b])
         /\ Message(b) \in Seq(Int) /\ After(b) \in Seq(Int)
<1> DEFINE r == received[b]
           n == msg_len[b]
<1>1. n # NoLen /\ Len(r) >= n
  BY DEF CYield, HasMessage
<1>2. r \in Seq(Int) /\ n \in Nat
  BY <1>1 DEF TypeInv
<1>3. Len(H) = 2 /\ Length(H) = n
  BY <1>1 DEF HeaderOk
<1> HIDE DEF n, r
<1>4. u \in Seq(Int) /\ Len(u) = 2 + Len(r) /\ Len(r) \in Nat
  <2>1. H \o r \in Seq(Int) /\ Len(H \o r) = Len(H) + Len(r) /\ Len(r) \in Nat
    BY <1>2, Joined, LenProperties
  <2>2. QED
    BY <1>3, <2>1 DEF r
<1>5. SubSeq(u, 1, 2) = H /\ Rest(u, 2) = r
  <2>1. SubSeq(H \o r, 1, Len(H)) = H /\ Rest(H \o r, Len(H)) = r
    BY <1>2, SplitBack
  <2>2. QED
    BY <1>3, <2>1 DEF r
<1>6. Length(u) = n
  <2>1. SubSeq(u, 1, 2)[1] = u[1] /\ SubSeq(u, 1, 2)[2] = u[2]
    BY <1>4
  <2>2. QED
    BY <1>3, <1>5, <2>1 DEF Length
<1>7. n \in 0 .. Len(r)
  BY <1>1, <1>2
<1>8. SubSeq(Rest(u, 2), 1, n) = SubSeq(u, 3, 2 + n)
      /\ Rest(Rest(u, 2), n) = Rest(u, 2 + n)
  <2> DEFINE S == Int
             j == 2
  <2>1. u \in Seq(S) /\ n \in Nat /\ j \in Nat /\ j + n <= Len(u) /\ j + 1 = 3
    BY <1>2, <1>4, <1>7
  <2> HIDE DEF S, j
  <2>2. /\ SubSeq(Rest(u, j), 1, n) = SubSeq(u, j + 1, j + n)
        /\ Rest(Rest(u, j), n) = Rest(u, j + n)
    BY <2>1, RestTwice
  <2>3. QED
    BY <2>1, <2>2 DEF j
<1>9. SubSeq(r, 1, n) \in Seq(Int) /\ Rest(r, n) \in Seq(Int)
  BY <1>2, <1>7, Cut
<1>10. Rest(r, n) = Rest(u, 2 + n)
  BY <1>5, <1>8
<1>11. Len(u) >= 2 + n /\ Len(u) >= 2
  BY <1>4, <1>7
<1>12. SubSeq(r, 1, n) = SubSeq(u, 3, 2 + n)
  BY <1>5, <1>8
<1>13. Message(b) = SubSeq(r, 1, n) /\ After(b) = Rest(r, n)
  BY DEF Message, After, n, r
<1>14. QED
  BY <1>2, <1>6, <1>9, <1>10, <1>11, <1>12, <1>13 DEF n

(* What holds of the events read and of those on their way after a message  *)
(* was yielded, before the next header is taken off.                        *)
Yielded(b, D, A, Q, X, J) ==
  /\ D \in Seq(CppEvents) /\ A \in Seq(CppEvents) /\ J \in Seq(Int)
  /\ Sub((D \o A) \o Q, sentDown[b])
  /\ ReadFirst(gotDown'[b], D) /\ Counted(b, D, A)'
  /\ Comes(Ahead(A, J), After(b), down[b] \o X)
  /\ IF b \in garbled THEN X = <<>> ELSE J = <<>>
  /\ b = client_socket /\ pc # "killed" /\ b \notin garbled => InFlight(b, D, A, X)

LEMMA ReadNext ==
  ASSUME NEW got \in Seq(Seq(Int)), NEW D \in Seq(CppEvents), ReadFirst(got, D),
         NEW m \in Seq(Int)
  PROVE  /\ ReadFirst(Append(got, m), D)
         /\ \A e \in CppEvents :
              Len(got) = Len(D) /\ PyUnpack(m) = SaidCpp(e) =>
                ReadFirst(Append(got, m), D \o <<e>>)
<1> DEFINE n == Len(got)
           k == Len(D)
           h == Append(got, m)
<1>1. /\ n \in Nat /\ k \in Nat /\ k <= n /\ DOMAIN D = 1 .. k
      /\ \A i \in 1 .. k : PyUnpack(got[i]) = SaidCpp(D[i])
  BY LenProperties DEF ReadFirst
<1>2. Len(h) = n + 1 /\ h[n + 1] = m /\ \A i \in 1 .. n : h[i] = got[i]
  BY AppendProperties
<1> HIDE DEF n, h
<1>3. ReadFirst(h, D)
  BY <1>1, <1>2 DEF ReadFirst
<1>4. ASSUME NEW e \in CppEvents, n = k, PyUnpack(m) = SaidCpp(e)
      PROVE  ReadFirst(h, D \o <<e>>)
  <2> DEFINE E == D \o <<e>>
  <2>1. /\ DOMAIN E = 1 .. k + 1 /\ Len(E) = k + 1 /\ E[k + 1] = e
        /\ \A i \in 1 .. k : E[i] = D[i]
    OBVIOUS
  <2> HIDE DEF E, k
  <2>2. ASSUME NEW i \in 1 .. k + 1 PROVE PyUnpack(h[i]) = SaidCpp(E[i])
    <3>1. CASE i = k + 1
      BY <1>2, <1>4, <2>1, <3>1
    <3>2. CASE i # k + 1
      <4>1. i \in 1 .. k
        BY <1>1, <3>2
      <4>2. E[i] = D[i] /\ h[i] = got[i]
        BY <1>2, <1>4, <2>1, <4>1
      <4>3. QED
        BY <1>1, <4>1, <4>2
    <3>3. QED
      BY <3>1, <3>2
  <2>3. ReadFirst(h, E)
    BY <1>2, <1>4, <2>1, <2>2 DEF ReadFirst
  <2>4. QED
    BY <2>3 DEF E
<1>5. QED
  BY <1>3, <1>4 DEF n, h

LEMMA YieldWhole ==
  ASSUME TypeInv, Served, NEW b \in Connections, CYield(b),
         NEW D, NEW A, NEW Q, NEW H, NEW X, NEW J, DownOk(b, D, A, Q, H, X, J),
         A # <<>>
  PROVE  \E E, B : Yielded(b, E, B, Q, X, J)
<1> DEFINE d == down[b]
           u == H \o received[b]
           v == d \o X
           n == msg_len[b]
           m == Message(b)
           t == After(b)
<1>1. /\ D \in Seq(CppEvents) /\ A \in Seq(CppEvents) /\ Q \in Seq(CppEvents)
      /\ Flows(b, D, A, Q, H, X, J) /\ H \in Seq(Int) /\ X \in Seq(Int)
      /\ J \in Seq(Int) /\ Sub((D \o A) \o Q, sentDown[b])
      /\ ReadFirst(gotDown[b], D) /\ Counted(b, D, A) /\ HeaderOk(n, H)
  BY DEF DownOk, CYield, Flows
<1>2. /\ gotDown' = [gotDown EXCEPT ![b] = Append(@, m)]
      /\ gotDown[b] \in Seq(Seq(Int)) /\ d \in Seq(Int) /\ whole[b] \in Nat
      /\ UNCHANGED <<whole, garbled>>
  BY DEF CYield, TypeInv, Message, frames
<1>3. gotDown'[b] = Append(gotDown[b], m)
  BY <1>2 DEF TypeInv
<1>4. Comes(Ahead(A, J), u, v)
  BY <1>1, FlowComes
<1>5. /\ n \in Nat /\ Length(u) = n /\ Len(u) >= 2 + n /\ Len(u) >= 2
      /\ m = SubSeq(u, 3, 2 + n) /\ t = Rest(u, 2 + n)
      /\ m \in Seq(Int) /\ t \in Seq(Int)
  BY <1>1, YieldTakes
<1> HIDE DEF u, v, n, m, t, d
<1>6. PICK e \in CppEvents, B \in Seq(CppEvents) :
        /\ A = <<e>> \o B
        /\ SubSeq(u, 3, 2 + Length(u)) = CppPack(e)
        /\ Comes(Ahead(B, J), Rest(u, 2 + Length(u)), v)
  <2>1. /\ A \in Seq(CppEvents) /\ J \in Seq(Int)
        /\ Len(u) >= 2 /\ Len(u) >= 2 + Length(u)
    BY <1>1, <1>5
  <2>2. QED
    BY <1>4, <2>1, FirstComes
<1>7. m = CppPack(e) /\ Comes(Ahead(B, J), t, v)
  BY <1>5, <1>6
<1>8. PyUnpack(m) = SaidCpp(e)
  BY <1>7, EventsReadByPy DEF CppEvents
<1> DEFINE E == D \o <<e>>
           x == <<e>>
<1>9. /\ x \in Seq(CppEvents) /\ E \in Seq(CppEvents)
      /\ (E \o B) \o Q = (D \o A) \o Q
  <2>1. /\ x \in Seq(CppEvents) /\ D \in Seq(CppEvents)
        /\ B \in Seq(CppEvents)
    BY <1>1, <1>6
  <2> HIDE DEF x
  <2>2. D \o x \in Seq(CppEvents) /\ (D \o x) \o B = D \o (x \o B)
    BY <2>1, EventsJoin
  <2>3. QED
    BY <1>6, <2>1, <2>2 DEF x
<1>10. /\ Len(A) = 1 + Len(B) /\ Len(E) = Len(D) + 1
       /\ Len(B) \in Nat /\ Len(D) \in Nat
  BY <1>1, <1>6
<1>11. Len(gotDown[b]) = Len(D)
  BY <1>1, <1>2, <1>10, LenProperties DEF Counted, ReadFirst
<1> HIDE DEF x
<1>12. ReadFirst(gotDown'[b], E)
  BY <1>1, <1>2, <1>3, <1>5, <1>8, <1>11, ReadNext
<1>13. Counted(b, E, B)'
  <2> DEFINE S == Seq(Int)
             g == gotDown[b]
  <2>a. g \in Seq(S) /\ m \in S
    BY <1>2, <1>5
  <2> HIDE DEF S, g, E
  <2>b. Len(Append(g, m)) = Len(g) + 1
    BY <2>a, AppendProperties
  <2>1. Len(gotDown'[b]) = Len(E)
    BY <1>3, <1>10, <1>11, <2>b DEF g
  <2>2. whole'[b] <= Len(E) + Len(B)
    BY <1>1, <1>2, <1>10 DEF Counted
  <2>3. QED
    BY <1>10, <2>1, <2>2 DEF Counted
<1>14. ASSUME b = client_socket, pc # "killed", b \notin garbled
       PROVE  InFlight(b, E, B, X)
  <2>1. InFlight(b, D, <<e>> \o B, X) /\ J = <<>>
    BY <1>1, <1>6, <1>14 DEF Flows
  <2>2. t \o v = DownWire(B)
    <3>1. t \o v = DownWire(B) \o J
      BY <1>7 DEF Comes, Ahead
    <3>2. DownWire(B) \in Seq(Int)
      BY DownWires
    <3>3. QED
      BY <2>1, <3>1, <3>2, ConcatEmptySeq
  <2>3. v \in Seq(Int) /\ v = d \o X
    BY <1>4 DEF Comes, v
  <2>4. QED
    BY <1>1, <1>2, <1>5, <2>1, <2>2, <2>3, InFlightTail
<1>15. IF b \in garbled THEN X = <<>> ELSE J = <<>>
  BY <1>1 DEF Flows
<1> HIDE DEF E
<1>16. Yielded(b, E, B, Q, X, J)
  BY <1>1, <1>7, <1>9, <1>12, <1>13, <1>14, <1>15 DEF Yielded, t, v, d
<1>17. QED
  BY <1>16

LEMMA YieldMore ==
  ASSUME TypeInv, Served, NEW b \in Connections, CYield(b),
         NEW D, NEW A, NEW Q, NEW H, NEW X, NEW J, DownOk(b, D, A, Q, H, X, J),
         A = <<>>
  PROVE  \E K : Yielded(b, D, A, Q, X, K)
<1> DEFINE d == down[b]
           u == H \o received[b]
           v == d \o X
           n == msg_len[b]
           m == Message(b)
           t == After(b)
           K == t \o v
<1>1. /\ D \in Seq(CppEvents) /\ A \in Seq(CppEvents) /\ Q \in Seq(CppEvents)
      /\ Flows(b, D, A, Q, H, X, J) /\ H \in Seq(Int) /\ X \in Seq(Int)
      /\ J \in Seq(Int) /\ Sub((D \o A) \o Q, sentDown[b])
      /\ ReadFirst(gotDown[b], D) /\ Counted(b, D, A) /\ HeaderOk(n, H)
  BY DEF DownOk, CYield, Flows
<1>2. /\ gotDown' = [gotDown EXCEPT ![b] = Append(@, m)]
      /\ gotDown[b] \in Seq(Seq(Int))
      /\ UNCHANGED <<whole, garbled>>
  BY DEF CYield, TypeInv, Message, frames
<1>3. gotDown'[b] = Append(gotDown[b], m)
  BY <1>2 DEF TypeInv
<1>4. Comes(Ahead(A, J), u, v)
  BY <1>1, FlowComes
<1>5. /\ Len(u) >= 2 /\ m \in Seq(Int) /\ t \in Seq(Int)
  BY <1>1, YieldTakes
<1> HIDE DEF u, v, m, t, n, d
<1>6. b \in garbled /\ X = <<>>
  <2>1. SUFFICES ASSUME b \notin garbled PROVE FALSE
    BY <1>1 DEF Flows
  <2>2. J = <<>>
    BY <1>1, <2>1 DEF Flows
  <2>3. u \o v = <<>> \o <<>> /\ u \in Seq(Int) /\ v \in Seq(Int)
    BY <1>4, <2>2, NoWire DEF Comes, Ahead
  <2>4. Len(u \o v) = Len(u) + Len(v) /\ Len(v) \in Nat /\ Len(u) \in Nat
    BY <2>3, Joined, LenProperties
  <2>5. Len(<<>> \o <<>>) = 0
    OBVIOUS
  <2>6. QED
    BY <1>5, <2>3, <2>4, <2>5
<1>7. K \in Seq(Int) /\ v \in Seq(Int)
  BY <1>4, <1>5, Joined DEF Comes
<1> HIDE DEF K
<1>8. Comes(Ahead(A, K), t, v)
  <2>1. <<>> \o K = K
    BY <1>7, ConcatEmptySeq
  <2>2. QED
    BY <1>5, <1>7, <2>1, NoWire DEF Comes, Ahead, K
<1>9. ReadFirst(gotDown'[b], D)
  BY <1>1, <1>2, <1>3, <1>5, ReadNext
<1>10. Counted(b, D, A)'
  BY <1>1, <1>2, <1>6 DEF Counted
<1>11. Yielded(b, D, A, Q, X, K)
  BY <1>1, <1>6, <1>7, <1>8, <1>9, <1>10 DEF Yielded, t, v, d
<1>12. QED
  BY <1>11

LEMMA YieldKeepsDown ==
  ASSUME TypeInv, Served, DownInv, NEW b \in Connections, CYield(b)
  PROVE  /\ DownInv' /\ received' \in [Connections -> Seq(Int)]
         /\ msg_len' \in [Connections -> Nat \cup {NoLen}]
         /\ gotDown' \in [Connections -> Seq(Seq(Int))]
<1> DEFINE t == After(b)
           m == Message(b)
<1>1. /\ host[b] = "open" /\ Buffered(b, NoLen, t)
      /\ gotDown' = [gotDown EXCEPT ![b] = Append(@, m)]
      /\ UNCHANGED <<network, streams, host, sentDown, frames>>
  BY DEF CYield, After, Message
<1>2. PICK D, A, Q, H, X, J : DownOk(b, D, A, Q, H, X, J)
  BY DEF DownInv
<1>3. /\ Q \in Seq(CppEvents) /\ H \in Seq(Int) /\ X \in Seq(Int)
      /\ Flows(b, D, A, Q, H, X, J) /\ HeaderOk(msg_len[b], H)
  BY <1>1, <1>2 DEF DownOk, Flows
<1>4. m \in Seq(Int) /\ t \in Seq(Int)
  BY <1>3, YieldTakes
<1>5. PICK E, B, K : Yielded(b, E, B, Q, X, K)
  BY <1>2, YieldWhole, YieldMore
<1> HIDE DEF m, t
<1> DEFINE v == down[b] \o X
<1>6. Comes(Ahead(B, K), t, v)
  BY <1>5 DEF Yielded, t
<1> HIDE DEF v
<1>7. PICK z : z = <<>>
  OBVIOUS
<1>8. Comes(Ahead(B, K), z \o t, v) /\ z \in Seq(Int) /\ HeaderOk(NoLen, z)
  <2>1. z \o t = t
    BY <1>4, <1>7, ConcatEmptySeq
  <2>2. QED
    BY <1>6, <1>7, <2>1 DEF HeaderOk
<1>9. /\ \E G \in Seq(Int) :
            Comes(Ahead(B, K), G \o received'[b], v) /\ HeaderOk(msg_len'[b], G)
      /\ received' \in [Connections -> Seq(Int)]
      /\ msg_len' \in [Connections -> Nat \cup {NoLen}]
      /\ \A c \in Connections :
           c # b => received'[c] = received[c] /\ msg_len'[c] = msg_len[c]
  BY <1>1, <1>4, <1>8, HeaderTaken
<1>10. PICK G \in Seq(Int) :
         Comes(Ahead(B, K), G \o received'[b], v) /\ HeaderOk(msg_len'[b], G)
  BY <1>9
<1>11. ASSUME NEW c \in Connections
       PROVE  \E DD, AA, QQ, HH, XX, JJ :
                DownOk(c, DD, AA, QQ, HH, XX, JJ)'
  <2>1. CASE c # b
    <3>1. gotDown'[c] = gotDown[c]
      BY <1>1, <2>1 DEF TypeInv
    <3>2. ApartFrom(c)
      BY <1>1, <1>9, <2>1, <3>1 DEF ApartFrom, Waits, network, streams, frames
    <3>3. QED
      BY <3>2, DownSameFor
  <2>2. CASE c = b
    <3>1. (G \o received'[c]) \o (down'[c] \o X) = DownWire(B) \o K
      BY <1>1, <1>10, <2>2 DEF Comes, Ahead, v, streams
    <3>2. HeaderOk(msg_len[c], G)'
      BY <1>10, <2>2 DEF HeaderOk
    <3>3. ASSUME (c = client_socket /\ pc # "killed" /\ c \notin garbled)'
          PROVE  (msg_to_host = CppPacks(Q) /\ InFlight(c, E, B, X))'
      <4>1. c = client_socket /\ pc # "killed" /\ c \notin garbled
        BY <1>1, <3>3 DEF network, frames
      <4>2. msg_to_host = CppPacks(Q) /\ InFlight(c, E, B, X)
        BY <1>3, <1>5, <2>2, <4>1 DEF Flows, Yielded
      <4>3. QED
        BY <1>1, <4>2 DEF InFlight, LastFrame, network, frames
    <3>4. (IF c \in garbled THEN X = <<>> ELSE K = <<>>)'
      BY <1>1, <1>5, <2>2 DEF Yielded, frames
    <3>5. Flows(c, E, B, Q, G, X, K)'
      BY <3>1, <3>2, <3>3, <3>4 DEF Flows
    <3>6. DownOk(c, E, B, Q, G, X, K)'
      BY <1>1, <1>3, <1>5, <2>2, <3>5 DEF DownOk, Yielded
    <3>7. QED
      BY <3>6
  <2>3. QED
    BY <2>1, <2>2
<1>12. gotDown' \in [Connections -> Seq(Seq(Int))]
  <2>1. gotDown[b] \in Seq(Seq(Int)) /\ Append(gotDown[b], m) \in Seq(Seq(Int))
    BY <1>4, AppendProperties DEF TypeInv
  <2>2. QED
    BY <1>1, <2>1 DEF TypeInv
<1>13. QED
  BY <1>9, <1>11, <1>12 DEF DownInv
-----------------------------------------------------------------------------
(* The invariant: types, whom the network thread serves, and the two        *)
(* directions.                                                              *)
Inv == TypeInv /\ Served /\ Untouched /\ UpInv /\ DownInv

LEMMA InitInv == ASSUME Init PROVE Inv
<1>1. 0 \in 0 .. Clients /\ 0 <= Room /\ <<>> \in Seq(Int) /\ Len(<<>>) = 0
  BY HostLinkAssumption
<1>2. TypeInv
  BY <1>1 DEF Init, TypeInv, Each, INVALID, NoLen
<1>3. Served
  BY DEF Init, Served, Serving, INVALID
<1>4. Untouched
  BY DEF Init, Untouched, Each
<1>5. <<>> \in Seq(PyEvents) /\ <<>> \in Seq(CppEvents) /\ <<>> \o <<>> = <<>>
      /\ ReadFirst(<<>>, <<>>) /\ Len(<<>>) = 0
  BY DEF ReadFirst
<1>6. Told(<<>>) = <<>>
  <2>1. Map(Telling, <<>>) = <<>>
    BY MapOne
  <2>2. Told(<<>>) = FlattenSeq(Map(Telling, <<>>))
    BY <1>5, ToldIs
  <2>3. FlattenSeq(<<>>) = <<>>
    BY FlattenEmpty
  <2>4. QED
    BY <2>1, <2>2, <2>3
<1>7. CppPacks(<<>>) = <<>> /\ UpWire(<<>>) = <<>> /\ DownWire(<<>>) = <<>>
  BY MapOne, NoWire DEF CppPacks
<1>8. ASSUME NEW c \in Connections PROVE UpOk(c, <<>>, <<>>)
  BY <1>5, <1>6, <1>7 DEF UpOk, Init, Each, Stream
<1>9. UpInv
  BY <1>5, <1>8 DEF UpInv
<1>10. ASSUME NEW c \in Connections
       PROVE  DownOk(c, <<>>, <<>>, <<>>, <<>>, <<>>, <<>>)
  <2>1. received[c] = <<>> /\ down[c] = <<>> /\ msg_len[c] = NoLen /\ gotDown[c] = <<>>
        /\ pc = "accept" /\ msg_to_host = <<>> /\ whole[c] = 0
    BY DEF Init, Each
  <2>2. Flows(c, <<>>, <<>>, <<>>, <<>>, <<>>, <<>>) /\ Counted(c, <<>>, <<>>)
    BY <1>5, <1>7, <2>1 DEF Flows, HeaderOk, InFlight, Counted
  <2>3. Sub((<<>> \o <<>>) \o <<>>, sentDown[c])
    BY <1>5, SubNone
  <2>4. QED
    BY <1>1, <1>5, <2>1, <2>2, <2>3 DEF DownOk
<1>11. DownInv
  BY <1>10 DEF DownInv
<1>12. QED
  BY <1>2, <1>3, <1>4, <1>9, <1>11 DEF Inv

LEMMA StutterKeeps == ASSUME Inv, UNCHANGED vars PROVE Inv'
<1>1. TypeInv' /\ Served' /\ Untouched'
  BY DEF Inv, TypeInv, Served, Untouched, vars, network, streams, clients, logs, frames
<1>2. UpInv'
  BY UpSame DEF Inv, vars, network, streams, logs
<1>3. DownInv'
  <2>1. \A c \in Connections : ApartFrom(c)
    BY DEF ApartFrom, Waits, vars, network, streams, clients, logs, frames
  <2>2. QED
    BY <2>1, DownSame DEF Inv
<1>4. QED
  BY <1>1, <1>2, <1>3 DEF Inv

(* The steps of the network thread that touch only what it knows itself.    *)
LEMMA ThreadKeeps ==
  ASSUME Inv, NEnd \/ NRecvNothing \/ NRecvEnd \/ NParsed \/ NDrained
                   \/ NSendClosed \/ NKilled \/ CloseHost
  PROVE  Inv'
<1>0. TypeInv /\ Served /\ Untouched /\ UpInv /\ DownInv
  BY DEF Inv
<1>1. CASE NEnd
  BY <1>0, <1>1, UpSame, QuietKeepsDown
     DEF Inv, TypeInv, Served, Serving, Untouched, NEnd, streams, clients, logs, frames
<1>2. CASE NRecvNothing
  BY <1>0, <1>2, UpSame, QuietKeepsDown
     DEF Inv, TypeInv, Served, Serving, Untouched, NRecvNothing, streams, clients, logs, frames
<1>3. CASE NRecvEnd
  BY <1>0, <1>3, UpSame, QuietKeepsDown
     DEF Inv, TypeInv, Served, Serving, Untouched, NRecvEnd, streams, clients, logs, frames
<1>4. CASE NParsed
  BY <1>0, <1>4, UpSame, IdleKeepsDown
     DEF Inv, TypeInv, Served, Serving, Untouched, NParsed, streams, clients, logs, frames
<1>5. CASE NDrained
  BY <1>0, <1>5, UpSame, IdleKeepsDown
     DEF Inv, TypeInv, Served, Serving, Untouched, NDrained, streams, clients, logs, frames
<1>6. CASE NSendClosed
  BY <1>0, <1>6, UpSame, IdleKeepsDown
     DEF Inv, TypeInv, Served, Serving, Untouched, NSendClosed, clients, logs, frames
<1>7. CASE NKilled
  BY <1>0, <1>7, UpSame, QuietKeepsDown
     DEF Inv, TypeInv, Served, Serving, Untouched, NKilled, streams, clients, logs, frames
<1>8. CASE CloseHost
  BY <1>0, <1>8, UpSame, QuietKeepsDown
     DEF Inv, TypeInv, Served, Serving, Untouched, CloseHost, network, streams,
         clients, logs, frames
<1>9. QED
  BY <1>1, <1>2, <1>3, <1>4, <1>5, <1>6, <1>7, <1>8

LEMMA ConnectionKeeps ==
  ASSUME Inv, NAccept \/ NClean \/ NClose
  PROVE  Inv'
<1>0. TypeInv /\ Served /\ Untouched /\ UpInv /\ DownInv
  BY DEF Inv
<1>1. CASE NAccept
  <2>1. nbClients + 1 \in 0 .. Clients /\ nbClients' = nbClients + 1
        /\ nbClients \in Nat /\ <<>> \in Seq(Int)
    BY <1>0, <1>1, HostLinkAssumption DEF NAccept, TypeInv
  <2>2. TypeInv'
    BY <1>0, <1>1, <2>1 DEF NAccept, TypeInv, streams, clients, logs, frames
  <2>3. Served'
    BY <1>0, <1>1, <2>1 DEF NAccept, Served, Serving, INVALID
  <2>4. Untouched'
    BY <1>0, <1>1, <2>1
       DEF NAccept, Untouched, Connections, streams, clients, logs, frames
  <2>5. QED
    BY <1>0, <1>1, <2>2, <2>3, <2>4, AcceptKeepsUp, AcceptKeepsDown DEF Inv
<1>2. CASE NClean
  <2>1. TypeInv'
    BY <1>0, <1>2 DEF NClean, Cleaned, TypeInv, streams, clients, logs, frames
  <2>2. Served'
    BY <1>0, <1>2 DEF NClean, Cleaned, Served, Serving, INVALID
  <2>3. Untouched'
    BY <1>0, <1>2 DEF NClean, Untouched, streams, clients, logs, frames
  <2>4. UpInv'
    BY <1>0, <1>2, UpSame DEF NClean, streams, logs
  <2>5. QED
    BY <1>0, <1>2, <2>1, <2>2, <2>3, <2>4, CleanKeepsDown DEF Inv
<1>3. CASE NClose
  <2>1. TypeInv'
    BY <1>0, <1>3 DEF NClose, TypeInv, streams, clients, logs, frames
  <2>2. Served'
    BY <1>0, <1>3 DEF NClose, Served, Serving
  <2>3. Untouched'
    BY <1>0, <1>3 DEF NClose, Untouched, streams, clients, logs, frames
  <2>4. QED
    BY <1>0, <1>3, <2>1, <2>2, <2>3, CloseKeepsUp, QuietKeepsDown DEF Inv
<1>4. QED
  BY <1>1, <1>2, <1>3

LEMMA InputKeeps ==
  ASSUME Inv, NRecv \/ NHandle
  PROVE  Inv'
<1>0. TypeInv /\ Served /\ Untouched /\ UpInv /\ DownInv
  BY DEF Inv
<1>1. CASE NRecv
  <2>1. UpInv' /\ buffer' \in Seq(Int) /\ up' \in [Connections -> Seq(Int)]
    BY <1>0, <1>1, RecvKeepsUp
  <2>2. TypeInv'
    BY <1>0, <1>1, <2>1 DEF NRecv, TypeInv, clients, logs, frames
  <2>3. Served'
    BY <1>0, <1>1 DEF NRecv, Served, Serving
  <2>4. Untouched'
    BY <1>0, <1>1 DEF NRecv, Untouched, clients, logs, frames
  <2>5. QED
    BY <1>0, <1>1, <2>1, <2>2, <2>3, <2>4, QuietKeepsDown DEF Inv
<1>2. CASE NHandle
  <2>1. UpInv' /\ buffer' \in Seq(Int) /\ DOMAIN gotUp' = Connections
    BY <1>0, <1>2, HandleKeepsUp
  <2>2. TypeInv'
    BY <1>0, <1>2, <2>1 DEF NHandle, TypeInv, streams, clients, frames
  <2>3. Served'
    BY <1>0, <1>2 DEF NHandle, Served, Serving
  <2>4. Untouched'
    BY <1>0, <1>2 DEF NHandle, Untouched, streams, clients, frames
  <2>5. QED
    BY <1>0, <1>2, <2>1, <2>2, <2>3, <2>4, QuietKeepsDown DEF Inv
<1>3. QED
  BY <1>1, <1>2

LEMMA OutputKeeps ==
  ASSUME Readable, Inv, GSend \/ NTake \/ NSend \/ NSendFails
  PROVE  Inv'
<1>0. TypeInv /\ Served /\ Untouched /\ UpInv /\ DownInv
  BY DEF Inv
<1>1. client_socket \in Connections /\ client_socket = nbClients
  BY <1>0, ServedOne DEF Served, Serving, GSend, NTake, NSend, NSendFails
<1>2. CASE GSend
  <2>1. /\ DownInv' /\ sentDown' \in [Connections -> Seq(CppEvents)]
        /\ msg_to_host' \in Seq(Seq(Int))
    BY <1>0, <1>2, NodeKeepsDown
  <2>2. TypeInv'
    BY <1>0, <1>2, <2>1 DEF GSend, TypeInv, streams, clients, frames
  <2>3. Served'
    BY <1>0, <1>2 DEF GSend, Served, Serving
  <2>4. \A c \in Connections : c # client_socket => sentDown'[c] = sentDown[c]
    BY <1>0, <1>2 DEF GSend, TypeInv, frames
  <2>5. Untouched'
    BY <1>0, <1>1, <1>2, <2>4
       DEF GSend, Untouched, Connections, streams, clients, frames
  <2>6. UpInv'
    BY <1>0, <1>2, UpSame DEF GSend, streams
  <2>7. QED
    BY <2>1, <2>2, <2>3, <2>5, <2>6 DEF Inv
<1>3. CASE NTake
  <2>1. /\ DownInv' /\ frame' \in Seq(Int) /\ msg_to_host' \in Seq(Seq(Int))
        /\ sent' \in 0 .. Len(frame') /\ sent' < Len(frame')
    BY <1>0, <1>3, TakeKeepsDown
  <2>2. TypeInv'
    BY <1>0, <1>3, <2>1 DEF NTake, TypeInv, streams, clients, logs, frames
  <2>3. Served'
    BY <1>0, <1>3, <2>1 DEF NTake, Served, Serving
  <2>4. Untouched'
    BY <1>0, <1>3 DEF NTake, Untouched, streams, clients, logs, frames
  <2>5. UpInv'
    BY <1>0, <1>3, UpSame DEF NTake, streams, logs
  <2>6. QED
    BY <2>1, <2>2, <2>3, <2>4, <2>5 DEF Inv
<1>4. CASE NSend
  <2>1. /\ DownInv' /\ down' \in [Connections -> Seq(Int)]
        /\ \A c \in Connections : Len(down'[c]) <= Room
        /\ sent' \in 0 .. Len(frame) /\ (pc' = "send" => sent' < Len(frame))
        /\ whole' \in [Connections -> Nat]
    BY <1>0, <1>4, MoveKeepsDown
  <2>2. TypeInv'
    BY <1>0, <1>4, <2>1 DEF NSend, TypeInv, clients
  <2>3. Served'
    BY <1>0, <1>4, <2>1 DEF NSend, Served, Serving
  <2>4. \A c \in Connections : c # client_socket =>
          down'[c] = down[c] /\ whole'[c] = whole[c]
    BY <1>0, <1>4 DEF NSend, TypeInv
  <2>5. Untouched'
    BY <1>0, <1>1, <1>4, <2>4 DEF NSend, Untouched, Connections, clients
  <2>6. UpInv'
    BY <1>0, <1>4, UpSame DEF NSend
  <2>7. QED
    BY <2>1, <2>2, <2>3, <2>5, <2>6 DEF Inv
<1>5. CASE NSendFails
  <2>1. TypeInv'
    BY <1>0, <1>5 DEF NSendFails, TypeInv, streams, clients
  <2>2. Served'
    BY <1>0, <1>5 DEF NSendFails, Served, Serving
  <2>3. Untouched'
    BY <1>0, <1>5 DEF NSendFails, Untouched, streams, clients
  <2>4. UpInv'
    BY <1>0, <1>5, UpSame DEF NSendFails, streams
  <2>5. QED
    BY <1>0, <1>5, <2>1, <2>2, <2>3, <2>4, FailKeepsDown DEF Inv
<1>6. QED
  BY <1>2, <1>3, <1>4, <1>5

LEMMA HostKeeps ==
  ASSUME Readable, Inv, NEW b \in Connections, Host(b)
  PROVE  Inv'
<1>0. TypeInv /\ Served /\ Untouched /\ UpInv /\ DownInv
  BY DEF Inv
<1>1. CASE CConnect(b)
  <2>1. TypeInv'
    BY <1>0, <1>1 DEF CConnect, TypeInv, network, streams, logs, frames
  <2>2. Served' /\ Untouched'
    BY <1>0, <1>1 DEF CConnect, Served, Untouched, network, streams, logs, frames
  <2>3. UpInv'
    BY <1>0, <1>1, UpSame DEF CConnect, network, streams, logs
  <2>4. QED
    BY <1>0, <1>1, <2>1, <2>2, <2>3, HostKeepsDown DEF Inv
<1>2. CASE CSend(b)
  <2>1. /\ UpInv' /\ up' \in [Connections -> Seq(Int)]
        /\ sentUp' \in [Connections -> Seq(PyEvents)]
    BY <1>0, <1>2, SendKeepsUp
  <2>2. TypeInv'
    BY <1>0, <1>2, <2>1 DEF CSend, TypeInv, network, clients, frames
  <2>3. Served' /\ Untouched'
    BY <1>0, <1>2 DEF CSend, Served, Untouched, network, clients, frames
  <2>4. QED
    BY <1>0, <1>2, <2>1, <2>2, <2>3, HostKeepsDown DEF Inv
<1>3. CASE CRecv(b)
  <2>1. /\ DownInv' /\ down' \in [Connections -> Seq(Int)]
        /\ \A c \in Connections : Len(down'[c]) <= Room
        /\ received' \in [Connections -> Seq(Int)]
        /\ msg_len' \in [Connections -> Nat \cup {NoLen}]
    BY <1>0, <1>3, ReadKeepsDown
  <2>2. TypeInv'
    BY <1>0, <1>3, <2>1 DEF CRecv, TypeInv, network, logs, frames
  <2>3. Served'
    BY <1>0, <1>3 DEF CRecv, Served, network
  <2>4. down[b] # <<>>
    <3>1. PICK k : k \in Moves(Len(down[b]))
      BY <1>3 DEF CRecv
    <3>2. Len(down[b]) = 0 => k \in 1 .. 0
      BY <3>1, MovesRange
    <3>3. QED
      BY <3>2
  <2>5. Untouched'
    <3>1. b <= nbClients
      BY <1>0, <2>4 DEF Untouched, TypeInv, Connections
    <3>2. \A c \in Connections : c # b =>
            /\ down'[c] = down[c] /\ received'[c] = received[c]
            /\ msg_len'[c] = msg_len[c]
      BY <1>0, <1>3 DEF CRecv, Buffered, TypeInv
    <3>3. ASSUME NEW c \in Connections, c > nbClients PROVE c # b
      BY <1>0, <3>1, <3>3 DEF TypeInv, Connections
    <3>4. UNCHANGED <<nbClients, sentDown, gotDown, whole>>
      BY <1>3 DEF CRecv, network, logs, frames
    <3>5. QED
      BY <1>0, <3>2, <3>3, <3>4 DEF Untouched
  <2>6. UpInv'
    BY <1>0, <1>3, UpSame DEF CRecv, network, logs
  <2>7. QED
    BY <2>1, <2>2, <2>3, <2>5, <2>6 DEF Inv
<1>4. CASE CYield(b)
  <2>1. /\ DownInv' /\ received' \in [Connections -> Seq(Int)]
        /\ msg_len' \in [Connections -> Nat \cup {NoLen}]
        /\ gotDown' \in [Connections -> Seq(Seq(Int))]
    BY <1>0, <1>4, YieldKeepsDown
  <2>2. TypeInv'
    BY <1>0, <1>4, <2>1 DEF CYield, TypeInv, network, streams, frames
  <2>3. Served'
    BY <1>0, <1>4 DEF CYield, Served, network
  <2>4. Untouched'
    <3>1. b <= nbClients
      BY <1>0, <1>4 DEF Untouched, CYield, HasMessage, TypeInv, Connections
    <3>2. \A c \in Connections : c # b =>
            /\ gotDown'[c] = gotDown[c] /\ received'[c] = received[c]
            /\ msg_len'[c] = msg_len[c]
      BY <1>0, <1>4 DEF CYield, Buffered, TypeInv
    <3>3. ASSUME NEW c \in Connections, c > nbClients PROVE c # b
      BY <1>0, <3>1, <3>3 DEF TypeInv, Connections
    <3>4. UNCHANGED <<nbClients, sentDown, down, whole>>
      BY <1>4 DEF CYield, network, streams, frames
    <3>5. QED
      BY <1>0, <3>2, <3>3, <3>4 DEF Untouched
  <2>5. UpInv'
    BY <1>0, <1>4, UpSame DEF CYield, network, streams
  <2>6. QED
    BY <2>1, <2>2, <2>3, <2>4, <2>5 DEF Inv
<1>5. CASE CClose(b)
  <2>1. TypeInv'
    BY <1>0, <1>5 DEF CClose, TypeInv, network, logs, frames
  <2>2. Served' /\ Untouched'
    BY <1>0, <1>5 DEF CClose, Served, Untouched, network, logs, frames
  <2>3. UpInv'
    BY <1>0, <1>5, UpSame DEF CClose, network, logs
  <2>4. QED
    BY <1>0, <1>5, <2>1, <2>2, <2>3, HostKeepsDown DEF Inv
<1>6. QED
  BY <1>1, <1>2, <1>3, <1>4, <1>5 DEF Host

LEMMA InvKept ==
  ASSUME Readable, Inv, [Next]_vars
  PROVE  Inv'
<1>1. CASE Network
  BY <1>1, ThreadKeeps, ConnectionKeeps, InputKeeps, OutputKeeps DEF Network
<1>2. CASE CloseHost
  BY <1>2, ThreadKeeps
<1>3. CASE GSend
  BY <1>3, OutputKeeps
<1>4. CASE \E c \in Connections : Host(c)
  BY <1>4, HostKeeps
<1>5. CASE UNCHANGED vars
  BY <1>5, StutterKeeps
<1>6. QED
  BY <1>1, <1>2, <1>3, <1>4, <1>5 DEF Next

(* Some of the sent events, which the first n messages that were read say.  *)
Heard(got, n, s) ==
  \E from \in [1 .. n -> DOMAIN s] :
    /\ \A i, j \in DOMAIN from : i < j => from[i] < from[j]
    /\ \A i \in DOMAIN from : PyUnpack(got[i]) = SaidCpp(s[from[i]])

LEMMA SubIsHeard ==
  ASSUME NEW D \in Seq(CppEvents), NEW s \in Seq(CppEvents), Sub(D, s), NEW got,
         ReadFirst(got, D), NEW n \in 0 .. Len(D)
  PROVE  Heard(got, n, s)
<1>1. PICK f : Picks(f, D, s)
  BY DEF Sub
<1>2. /\ DOMAIN D = 1 .. Len(D) /\ DOMAIN s = 1 .. Len(s)
      /\ 1 .. n \subseteq 1 .. Len(D) /\ Len(D) \in Nat
  BY LenProperties
<1> DEFINE g == [i \in 1 .. n |-> f[i]]
<1>3. g \in [1 .. n -> DOMAIN s] /\ DOMAIN g = 1 .. n
  BY <1>1, <1>2 DEF Picks
<1>4. \A i, j \in 1 .. n : i < j => g[i] < g[j]
  BY <1>1, <1>2 DEF Picks
<1>5. \A i \in 1 .. n : PyUnpack(got[i]) = SaidCpp(s[g[i]])
  BY <1>1, <1>2 DEF Picks, ReadFirst
<1> HIDE DEF g
<1>6. QED
  BY <1>3, <1>4, <1>5 DEF Heard

LEMMA InvSays == ASSUME Inv PROVE GraphHearsHost /\ HostHearsGraph
<1>0. TypeInv /\ UpInv /\ DownInv
  BY DEF Inv
<1>1. ASSUME NEW c \in Connections PROVE IsPrefix(gotUp[c], Expected(c))
  <2>1. PICK done \in Seq(PyEvents), rest \in Seq(PyEvents) : UpOk(c, done, rest)
    BY <1>0 DEF UpInv
  <2>2. Expected(c) = Told(done) \o Told(rest) /\ gotUp[c] = Told(done)
    BY <2>1, ToldConcat DEF UpOk, Expected
  <2>3. Told(done) \in Seq(SaidEvents) /\ Told(rest) \in Seq(SaidEvents)
    BY ToldIs
  <2>4. QED
    BY <2>2, <2>3, PrefixConcat
<1>2. ASSUME NEW c \in Connections
      PROVE  Heard(gotDown[c], Intact(c), sentDown[c])
  <2>1. PICK D, A, Q, H, X, J : DownOk(c, D, A, Q, H, X, J)
    BY <1>0 DEF DownInv
  <2>2. /\ D \in Seq(CppEvents) /\ A \in Seq(CppEvents) /\ Q \in Seq(CppEvents)
        /\ Sub((D \o A) \o Q, sentDown[c])
        /\ ReadFirst(gotDown[c], D) /\ Counted(c, D, A)
    BY <2>1 DEF DownOk
  <2>3. Sub(D, sentDown[c])
    <3> DEFINE z == <<>>
               B == A \o Q
    <3>1. (D \o A) \o Q = D \o B /\ B \in Seq(CppEvents) /\ z \in Seq(CppEvents)
      BY <2>2, EventsJoin
    <3> HIDE DEF B
    <3>2. (D \o B) \o z = D \o B /\ D \o z = D
      BY <2>2, <3>1, ConcatEmptySeq, ConcatProperties
    <3> HIDE DEF z
    <3>3. Sub((D \o B) \o z, sentDown[c])
      BY <2>2, <3>1, <3>2
    <3>4. Sub(D \o z, sentDown[c])
      BY <2>2, <3>1, <3>3, SubDrop
    <3>5. QED
      BY <3>2, <3>4
  <2>4. sentDown[c] \in Seq(CppEvents)
    BY <1>0 DEF TypeInv
  <2>5. Intact(c) \in 0 .. Len(D)
    <3> DEFINE n == Len(gotDown[c])
               k == Len(D)
    <3>1. n \in Nat /\ k \in Nat /\ k <= n /\ whole[c] \in Nat /\ Len(<<>>) = 0
      BY <1>0, <2>2, LenProperties DEF TypeInv, ReadFirst
    <3>2. /\ k < n => c \in garbled /\ whole[c] <= k
      BY <2>2, <3>1 DEF Counted
    <3>3. /\ Min({whole[c], n}) \in Nat
          /\ Min({whole[c], n}) <= whole[c] /\ Min({whole[c], n}) <= n
      <4>1. \E x \in {whole[c], n} : \A y \in {whole[c], n} : x <= y
        BY <3>1
      <4>2. Min({whole[c], n}) \in {whole[c], n}
            /\ \A y \in {whole[c], n} : Min({whole[c], n}) <= y
        BY <4>1 DEF Min
      <4>3. QED
        BY <3>1, <4>2
    <3> DEFINE p == Min({whole[c], n})
    <3>4. Intact(c) = IF c \in garbled THEN p ELSE n
      BY DEF Intact
    <3> HIDE DEF n, k, p
    <3>5. p \in Nat /\ p <= whole[c] /\ p <= n
      BY <3>3 DEF p
    <3>6. Intact(c) \in 0 .. k
      BY <3>1, <3>2, <3>4, <3>5
    <3>7. QED
      BY <3>6 DEF k
  <2>6. QED
    BY <2>2, <2>3, <2>4, <2>5, SubIsHeard
<1>3. QED
  BY <1>1, <1>2 DEF GraphHearsHost, HostHearsGraph, Heard

THEOREM HostLinkInvariant == ASSUME Readable PROVE Spec => []Inv
<1>1. Init => Inv
  BY InitInv
<1>2. Inv /\ [Next]_vars => Inv'
  BY InvKept
<1>3. QED
  BY <1>1, <1>2, PTL DEF Spec

(* What the nodes are told is, at any time, the beginning of what the host   *)
(* of the connection sent to nodes that exist: receiveMessages() and        *)
(* handleMessage() lose, repeat and reorder nothing, whatever the cuts.     *)
THEOREM NodesHearTheHost == ASSUME Readable PROVE Spec => []GraphHearsHost
<1>1. Spec => []Inv
  BY HostLinkInvariant
<1>2. Inv => GraphHearsHost
  BY InvSays
<1>3. QED
  BY <1>1, <1>2, PTL

(* What a host reads are events sent on its own connection, in their order   *)
(* and each at most once, though the streams are cut anywhere, whole frames *)
(* are dropped and hosts come and go; after a frame abandoned in the middle *)
(* this is said only of as many messages as were sent whole before it       *)
(* (clean_queue(), send_all(), recv_messages()).                            *)
THEOREM HostsHearTheGraph == ASSUME Readable PROVE Spec => []HostHearsGraph
<1>1. Spec => []Inv
  BY HostLinkInvariant
<1>2. Inv => HostHearsGraph
  BY InvSays
<1>3. QED
  BY <1>1, <1>2, PTL
=============================================================================
