--------------------------- MODULE DataflowProofs ---------------------------
(***************************************************************************)
(* Proofs about modules StaticSchedule, FIFOAllocation and DataflowRun: for  *)
(* every graph, the schedule that is found is periodic, it is given up only  *)
(* when there is none, the loop over it stays within the lengths of the      *)
(* FIFOs, and no sharing of memory spoils the inputs of a node.              *)
(***************************************************************************)
EXTENDS DataflowRun, FiniteSetTheorems, SequenceTheorems,
        WellFoundedInduction, NaturalsInduction, TLAPS

(* A set of natural numbers has a least element.                            *)
LEMMA Least ==
  ASSUME NEW T, T \subseteq Nat, T # {}
  PROVE  \E m \in T : \A k \in T : m <= k
<1> DEFINE R == {ss \in Nat \X Nat : ss[1] < ss[2]}
<1>1. R = OpToRel(<, Nat)
  BY DEF OpToRel
<1>2. IsWellFoundedOn(R, Nat)
  BY <1>1, NatLessThanWellFounded
<1>3. PICK m \in T : \A k \in T : ~(<<k, m>> \in R)
  BY <1>2, WFMin
<1>4. \A k \in T : ~(k < m)
  <2>1. SUFFICES ASSUME NEW k \in T, k < m PROVE FALSE
    OBVIOUS
  <2>2. <<k, m>> \in R
    BY <2>1
  <2>3. QED
    BY <2>2, <1>3
<1>5. QED
  BY <1>4

(* Induction, for the set of the numbers that have a property.              *)
LEMMA Induction ==
  ASSUME NEW P, 0 \in P, \A k \in Nat : k \in P => k + 1 \in P
  PROVE  \A k \in Nat : k \in P
<1> DEFINE T == Nat \ P
<1>1. SUFFICES ASSUME T # {} PROVE FALSE
  OBVIOUS
<1>2. PICK k \in T : \A m \in T : k <= m
  BY <1>1, Least
<1>3. k # 0
  OBVIOUS
<1>4. k - 1 \in Nat /\ k - 1 \notin T
  BY <1>2, <1>3
<1>5. k \in P
  <2>1. k - 1 + 1 \in P
    BY <1>4
  <2>2. QED
    BY <2>1
<1>6. QED
  BY <1>5

LEMMA MinOf ==
  ASSUME NEW T, T \subseteq Nat, T # {}
  PROVE  Min(T) \in T /\ \A k \in T : Min(T) <= k
BY Least DEF Min
-----------------------------------------------------------------------------
(* The recursive functions of the model exist.                              *)

Steps(k, a, g, f) ==
  /\ f[0] = a
  /\ \A i \in 1 .. k : f[i] = g[i][f[i - 1]]

LEMMA StepsExist ==
  ASSUME NEW D, NEW a \in D, NEW g \in [Nat -> [D -> D]], NEW k \in Nat
  PROVE  \E f \in [0 .. k -> D] : Steps(k, a, g, f)
<1> DEFINE P == {i \in Nat : \E f \in [0 .. i -> D] : Steps(i, a, g, f)}
<1>1. 0 \in P
  <2> DEFINE f == [i \in 0 .. 0 |-> a]
  <2>1. f \in [0 .. 0 -> D] /\ f[0] = a
    OBVIOUS
  <2>2. Steps(0, a, g, f)
    BY <2>1 DEF Steps
  <2>3. QED
    BY <2>1, <2>2
<1>2. \A i \in Nat : i \in P => i + 1 \in P
  <2>0. SUFFICES ASSUME NEW i \in Nat, i \in P PROVE i + 1 \in P
    OBVIOUS
  <2>1. PICK f \in [0 .. i -> D] : Steps(i, a, g, f)
    BY <2>0
  <2> DEFINE h == [j \in 0 .. i + 1 |-> IF j = i + 1 THEN g[i + 1][f[i]] ELSE f[j]]
  <2>2. f[i] \in D /\ i + 1 \in Nat /\ g[i + 1][f[i]] \in D
    <3>1. f[i] \in D
      OBVIOUS
    <3>2. i + 1 \in Nat /\ g[i + 1] \in [D -> D]
      OBVIOUS
    <3>3. QED
      BY <3>1, <3>2
  <2>3. h \in [0 .. i + 1 -> D]
    BY <2>2
  <2>4. h[0] = a /\ h[i + 1] = g[i + 1][f[i]] /\ \A j \in 0 .. i : h[j] = f[j]
    <3>1. f[0] = a /\ i + 1 \in 0 .. i + 1 /\ 0 \in 0 .. i /\ i + 1 # 0
      BY <2>1 DEF Steps
    <3>2. \A j \in 0 .. i : j # i + 1 /\ j \in 0 .. i + 1
      OBVIOUS
    <3>3. QED
      BY <3>1, <3>2
  <2>5. \A j \in 1 .. i : f[j] = g[j][f[j - 1]]
    BY <2>1 DEF Steps
  <2> HIDE DEF h
  <2>6. \A j \in 1 .. i + 1 : h[j] = g[j][h[j - 1]]
    <3>1. SUFFICES ASSUME NEW j \in 1 .. i + 1 PROVE h[j] = g[j][h[j - 1]]
      OBVIOUS
    <3>2. CASE j = i + 1
      <4>1. i \in 0 .. i /\ j - 1 = i
        BY <3>2
      <4>2. QED
        BY <2>4, <3>2, <4>1
    <3>3. CASE j # i + 1
      <4>1. j \in 1 .. i /\ j - 1 \in 0 .. i /\ j \in 0 .. i
        BY <3>3
      <4>2. QED
        BY <2>4, <2>5, <4>1
    <3>4. QED
      BY <3>2, <3>3
  <2>7. Steps(i + 1, a, g, h)
    BY <2>4, <2>6 DEF Steps
  <2>8. QED
    BY <2>2, <2>3, <2>7
<1>3. \A i \in Nat : i \in P
  <2> HIDE DEF P
  <2>1. QED
    BY <1>1, <1>2, Induction
<1>4. QED
  BY <1>3

LEMMA StepsAgree ==
  ASSUME NEW a, NEW g, NEW m \in Nat, NEW k \in Nat, NEW f, NEW h,
         Steps(m, a, g, f), Steps(k, a, g, h)
  PROVE  \A i \in Nat : i <= m /\ i <= k => f[i] = h[i]
<1> DEFINE P == {i \in Nat : i <= m /\ i <= k => f[i] = h[i]}
<1>1. 0 \in P
  BY DEF Steps
<1>2. \A i \in Nat : i \in P => i + 1 \in P
  <2>1. SUFFICES ASSUME NEW i \in Nat, i \in P, i + 1 <= m, i + 1 <= k
                 PROVE  f[i + 1] = h[i + 1]
    OBVIOUS
  <2>2. f[i] = h[i] /\ i + 1 \in 1 .. m /\ i + 1 \in 1 .. k /\ i + 1 - 1 = i
    BY <2>1
  <2>3. f[i + 1] = g[i + 1][f[i]] /\ h[i + 1] = g[i + 1][h[i]]
    <3> HIDE DEF P
    <3>1. QED
      BY <2>2 DEF Steps
  <2>4. QED
    BY <2>2, <2>3
<1>3. \A i \in Nat : i \in P
  <2> HIDE DEF P
  <2>1. QED
    BY <1>1, <1>2, Induction
<1>4. QED
  BY <1>3

Follows(a, g, f) == f[0] = a /\ \A k \in Nat : f[k + 1] = g[k + 1][f[k]]

LEMMA Recursion ==
  ASSUME NEW D, NEW a \in D, NEW g \in [Nat -> [D -> D]]
  PROVE  \E f \in [Nat -> D] : Follows(a, g, f)
<1> DEFINE part(k) == CHOOSE f : f \in [0 .. k -> D] /\ Steps(k, a, g, f)
           f == [k \in Nat |-> part(k)[k]]
<1>1. \A k \in Nat : part(k) \in [0 .. k -> D] /\ Steps(k, a, g, part(k))
  BY StepsExist
<1> HIDE DEF part
<1>2. f \in [Nat -> D] /\ \A k \in Nat : f[k] = part(k)[k]
  BY <1>1
<1> HIDE DEF f
<1>3. f[0] = a
  BY <1>1, <1>2 DEF Steps
<1>4. \A k \in Nat : f[k + 1] = g[k + 1][f[k]]
  <2>1. SUFFICES ASSUME NEW k \in Nat PROVE f[k + 1] = g[k + 1][f[k]]
    OBVIOUS
  <2>2. k + 1 \in Nat /\ k + 1 \in 1 .. k + 1 /\ k + 1 - 1 = k /\ k <= k + 1 /\ k <= k
    OBVIOUS
  <2>3. part(k + 1)[k] = part(k)[k]
    BY <1>1, <2>2, StepsAgree
  <2>4. part(k + 1)[k + 1] = g[k + 1][part(k + 1)[k]]
    BY <1>1, <2>2 DEF Steps
  <2>5. QED
    BY <1>2, <2>2, <2>3, <2>4
<1>5. QED
  <2>1. Follows(a, g, f)
    BY <1>3, <1>4 DEF Follows
  <2>2. QED
    BY <1>2, <2>1
-----------------------------------------------------------------------------
(* The rates.                                                               *)

(* The remainder of a division is unique.                                   *)
LEMMA Remainder ==
  ASSUME NEW L \in Nat \ {0}, NEW k \in Nat
  PROVE  /\ k % L \in 0 .. L - 1
         /\ (k + L) % L = k % L
         /\ k < L => k % L = k
<1>1. k % L \in 0 .. L - 1 /\ k \div L \in Int /\ k = L * (k \div L) + (k % L)
  OBVIOUS
<1>2. /\ (k + L) % L \in 0 .. L - 1 /\ (k + L) \div L \in Int
      /\ k + L = L * ((k + L) \div L) + ((k + L) % L)
  OBVIOUS
<1>3. \A q, p \in Int : \A r, t \in 0 .. L - 1 :
        L * q + r = L * p + t => r = t
  <2>1. SUFFICES ASSUME NEW q \in Int, NEW p \in Int,
                        NEW r \in 0 .. L - 1, NEW t \in 0 .. L - 1,
                        L * q + r = L * p + t
                 PROVE  r = t
    OBVIOUS
  <2>2. L * q - L * p = L * (q - p) /\ L * (q - p) = t - r
    BY <2>1
  <2>3. CASE q - p >= 1
    <3>1. L * (q - p) >= L
      BY <2>3
    <3>2. QED
      BY <2>2, <3>1
  <2>4. CASE q - p <= -1
    <3>1. L * (q - p) <= 0 - L
      BY <2>4
    <3>2. QED
      BY <2>2, <3>1
  <2>5. CASE q - p = 0
    BY <2>2, <2>5
  <2>6. QED
    BY <2>3, <2>4, <2>5
<1>4. (k + L) % L = k % L
  <2>1. k + L = L * (k \div L + 1) + (k % L)
    BY <1>1
  <2>2. k \div L + 1 \in Int
    BY <1>1
  <2>3. QED
    BY <1>1, <1>2, <1>3, <2>1, <2>2
<1>5. k < L => k % L = k
  <2>1. SUFFICES ASSUME k < L PROVE k % L = k
    OBVIOUS
  <2>2. k \in 0 .. L - 1 /\ L * 0 + k = L * (k \div L) + (k % L)
    BY <1>1, <2>1
  <2>3. QED
    BY <1>1, <1>3, <2>2
<1>6. QED
  BY <1>1, <1>4, <1>5

LEMMA CycleValueIs ==
  ASSUME NEW s, IsRates(s), NEW k \in Nat
  PROVE  /\ Len(s) \in Nat \ {0}
         /\ CycleValue(s, k) \in Nat
         /\ CycleValue(s, k + Len(s)) = CycleValue(s, k)
         /\ k < Len(s) => CycleValue(s, k) = s[k + 1]
<1>1. s \in Seq(Nat) /\ Len(s) \in Nat \ {0}
  BY DEF IsRates
<1>2. /\ k % Len(s) \in 0 .. Len(s) - 1
      /\ (k + Len(s)) % Len(s) = k % Len(s)
      /\ k < Len(s) => k % Len(s) = k
  BY <1>1, Remainder
<1>3. (k % Len(s)) + 1 \in 1 .. Len(s)
  BY <1>1, <1>2
<1>4. CycleValue(s, k) \in Nat
  BY <1>1, <1>3 DEF CycleValue
<1>5. QED
  BY <1>1, <1>2, <1>4 DEF CycleValue

SumOf(s, f) ==
  f = [k \in Nat |-> IF k = 0 THEN 0 ELSE f[k - 1] + CycleValue(s, k - 1)]

LEMMA MovedIs ==
  ASSUME NEW s, IsRates(s)
  PROVE  /\ Moved(s, 0) = 0
         /\ \A k \in Nat : /\ Moved(s, k) \in Nat
                           /\ Moved(s, k + 1) = Moved(s, k) + CycleValue(s, k)
<1> DEFINE g == [k \in Nat |-> [v \in Nat |->
                   IF k = 0 THEN v ELSE v + CycleValue(s, k - 1)]]
           f == CHOOSE h : SumOf(s, h)
<1>1. \A k \in Nat : CycleValue(s, k) \in Nat
  BY CycleValueIs
<1>2. \A k \in Nat : k # 0 => k - 1 \in Nat
  OBVIOUS
<1>3. g \in [Nat -> [Nat -> Nat]]
  BY <1>1, <1>2
<1>4. \A k \in Nat : \A v \in Nat : g[k + 1][v] = v + CycleValue(s, k)
  <2>1. SUFFICES ASSUME NEW k \in Nat, NEW v \in Nat
                 PROVE  g[k + 1][v] = v + CycleValue(s, k)
    OBVIOUS
  <2>2. k + 1 \in Nat /\ k + 1 # 0 /\ k + 1 - 1 = k
    OBVIOUS
  <2>3. QED
    BY <2>2
<1> HIDE DEF g
<1>5. PICK h \in [Nat -> Nat] :
        h[0] = 0 /\ \A k \in Nat : h[k + 1] = g[k + 1][h[k]]
  <2>1. \E h \in [Nat -> Nat] : Follows(0, g, h)
    BY <1>3, Recursion
  <2>2. QED
    BY <2>1 DEF Follows
<1>6. SumOf(s, h)
  <2>1. \A k \in Nat : k # 0 => h[k] = h[k - 1] + CycleValue(s, k - 1)
    <3>1. SUFFICES ASSUME NEW k \in Nat, k # 0
                   PROVE  h[k] = h[k - 1] + CycleValue(s, k - 1)
      OBVIOUS
    <3>2. k - 1 \in Nat /\ k - 1 + 1 = k /\ h[k - 1] \in Nat
      BY <3>1, <1>2
    <3>3. QED
      BY <1>4, <1>5, <3>2
  <2>2. QED
    BY <1>5, <2>1 DEF SumOf
<1>7. SumOf(s, f)
  BY <1>6
<1>8. \A k \in Nat : Moved(s, k) = f[k]
  BY DEF Moved, SumOf
<1> HIDE DEF f
<1>9. f[0] = 0 /\ \A k \in Nat : f[k + 1] = f[k] + CycleValue(s, k)
  <2>1. f[0] = 0
    BY <1>7 DEF SumOf
  <2>2. ASSUME NEW k \in Nat PROVE f[k + 1] = f[k] + CycleValue(s, k)
    <3>1. k + 1 \in Nat /\ k + 1 # 0 /\ k + 1 - 1 = k
      OBVIOUS
    <3>2. QED
      BY <1>7, <3>1 DEF SumOf
  <2>3. QED
    BY <2>1, <2>2
<1>10. \A k \in Nat : f[k] \in Nat
  <2> DEFINE P == {k \in Nat : f[k] \in Nat}
  <2>1. 0 \in P
    BY <1>9
  <2>2. \A k \in Nat : k \in P => k + 1 \in P
    BY <1>1, <1>9
  <2>3. \A k \in Nat : k \in P
    <3> HIDE DEF P
    <3>1. QED
      BY <2>1, <2>2, Induction
  <2>4. QED
    BY <2>3
<1>11. QED
  <2>1. \A k \in Nat : k + 1 \in Nat
    OBVIOUS
  <2>2. QED
    BY <1>8, <1>9, <1>10, <2>1

(* More executions never move fewer samples.                                *)
LEMMA MovedGrows ==
  ASSUME NEW s, IsRates(s), NEW i \in Nat, NEW k \in Nat, i <= k
  PROVE  Moved(s, i) <= Moved(s, k)
<1> DEFINE P == {j \in Nat : Moved(s, i) <= Moved(s, i + j)}
<1>1. 0 \in P
  <2>1. Moved(s, i) \in Nat /\ i + 0 = i
    BY MovedIs
  <2>2. QED
    BY <2>1
<1>2. \A j \in Nat : j \in P => j + 1 \in P
  <2>1. SUFFICES ASSUME NEW j \in Nat, Moved(s, i) <= Moved(s, i + j)
                 PROVE  Moved(s, i) <= Moved(s, i + (j + 1))
    OBVIOUS
  <2>2. i + j \in Nat /\ i + (j + 1) = i + j + 1
    OBVIOUS
  <2>3. /\ Moved(s, i) \in Nat /\ Moved(s, i + j) \in Nat
        /\ CycleValue(s, i + j) \in Nat
        /\ Moved(s, i + j + 1) = Moved(s, i + j) + CycleValue(s, i + j)
    BY <2>2, MovedIs, CycleValueIs
  <2>4. QED
    BY <2>1, <2>2, <2>3
<1>3. k - i \in P
  <2>1. k - i \in Nat
    OBVIOUS
  <2> HIDE DEF P
  <2>2. QED
    BY <1>1, <1>2, <2>1, Induction
<1>4. i + (k - i) = k
  OBVIOUS
<1>5. QED
  BY <1>3, <1>4

LEMMA TotalIsPositive ==
  ASSUME NEW s, IsRates(s)
  PROVE  Total(s) \in Nat \ {0}
<1>1. PICK i \in DOMAIN s : s[i] > 0
  BY DEF IsRates
<1>2. s \in Seq(Nat) /\ i \in 1 .. Len(s) /\ Len(s) \in Nat
  BY <1>1 DEF IsRates
<1>3. i - 1 \in Nat /\ i - 1 < Len(s) /\ i - 1 + 1 = i /\ i \in Nat /\ i <= Len(s)
  BY <1>2
<1>4. CycleValue(s, i - 1) = s[i]
  BY <1>3, CycleValueIs
<1>5. /\ Moved(s, i) = Moved(s, i - 1) + s[i] /\ Moved(s, i - 1) \in Nat
      /\ Moved(s, i) \in Nat /\ s[i] \in Nat
  <2>1. s[i] \in Nat
    BY <1>2
  <2>2. /\ Moved(s, i - 1 + 1) = Moved(s, i - 1) + CycleValue(s, i - 1)
        /\ Moved(s, i - 1) \in Nat /\ Moved(s, i) \in Nat
    BY <1>3, MovedIs
  <2>3. QED
    BY <1>3, <1>4, <2>1, <2>2
<1>6. Moved(s, i) <= Total(s) /\ Total(s) \in Nat
  BY <1>2, <1>3, MovedGrows, MovedIs DEF Total
<1>7. QED
  BY <1>1, <1>5, <1>6

(* A whole number of cycles moves as many times the samples of one.         *)
LEMMA MovedPerCycle ==
  ASSUME NEW s, IsRates(s), NEW k \in Nat
  PROVE  Moved(s, k + Len(s)) = Moved(s, k) + Total(s)
<1> DEFINE P == {j \in Nat : Moved(s, j + Len(s)) = Moved(s, j) + Total(s)}
<1>1. Len(s) \in Nat
  BY DEF IsRates
<1>2. 0 \in P
  <2>1. 0 + Len(s) = Len(s) /\ Moved(s, 0) = 0 /\ Total(s) \in Nat
    BY <1>1, MovedIs, TotalIsPositive
  <2>2. QED
    BY <2>1 DEF Total
<1>3. \A j \in Nat : j \in P => j + 1 \in P
  <2>1. SUFFICES ASSUME NEW j \in Nat, Moved(s, j + Len(s)) = Moved(s, j) + Total(s)
                 PROVE  Moved(s, j + 1 + Len(s)) = Moved(s, j + 1) + Total(s)
    OBVIOUS
  <2>2. j + Len(s) \in Nat /\ j + 1 + Len(s) = j + Len(s) + 1
    BY <1>1
  <2>3. /\ Moved(s, j + Len(s) + 1)
             = Moved(s, j + Len(s)) + CycleValue(s, j + Len(s))
        /\ Moved(s, j + 1) = Moved(s, j) + CycleValue(s, j)
        /\ Moved(s, j) \in Nat /\ CycleValue(s, j) \in Nat
    BY <2>2, MovedIs, CycleValueIs
  <2>4. CycleValue(s, j + Len(s)) = CycleValue(s, j)
    BY CycleValueIs
  <2>5. Total(s) \in Nat
    BY TotalIsPositive
  <2>6. QED
    BY <2>1, <2>2, <2>3, <2>4, <2>5
<1>4. \A j \in Nat : j \in P
  <2> HIDE DEF P
  <2>1. QED
    BY <1>2, <1>3, Induction
<1>5. QED
  BY <1>4

LEMMA MovedInCycles ==
  ASSUME NEW s, IsRates(s), NEW m \in Nat
  PROVE  Moved(s, m * Len(s)) = m * Total(s)
<1> DEFINE P == {j \in Nat : Moved(s, j * Len(s)) = j * Total(s)}
<1>1. Len(s) \in Nat /\ Total(s) \in Nat
  BY TotalIsPositive DEF IsRates
<1>2. 0 \in P
  <2>1. 0 * Len(s) = 0 /\ 0 * Total(s) = 0 /\ Moved(s, 0) = 0
    BY <1>1, MovedIs
  <2>2. QED
    BY <2>1
<1>3. \A j \in Nat : j \in P => j + 1 \in P
  <2>1. SUFFICES ASSUME NEW j \in Nat, Moved(s, j * Len(s)) = j * Total(s)
                 PROVE  Moved(s, (j + 1) * Len(s)) = (j + 1) * Total(s)
    OBVIOUS
  <2>2. /\ (j + 1) * Len(s) = j * Len(s) + Len(s) /\ j * Len(s) \in Nat
        /\ (j + 1) * Total(s) = j * Total(s) + Total(s)
    BY <1>1
  <2>3. QED
    BY <2>1, <2>2, MovedPerCycle
<1>4. \A j \in Nat : j \in P
  <2> HIDE DEF P
  <2>1. QED
    BY <1>2, <1>3, Induction
<1>5. QED
  BY <1>4
-----------------------------------------------------------------------------
(* The graphs that are scheduled.                                           *)

IsSchedulable(g) ==
  /\ IsFiniteSet(Nodes(g)) /\ Nodes(g) # {}
  /\ \A e \in g.edges :
       e.delay \in Nat /\ IsRates(e.prod) /\ IsRates(e.cons)
  /\ \A x \in Nodes(g) : \E k \in 1 .. MaxPeriod :
       \A l \in IOLengths(g, x) : k % l = 0

LEMMA EndsAreNodes ==
  ASSUME NEW g, NEW e \in g.edges
  PROVE  e.src \in Nodes(g) /\ e.dst \in Nodes(g)
<1>1. {e.src, e.dst} \in {{f.src, f.dst} : f \in g.edges}
  OBVIOUS
<1>2. {e.src, e.dst} \subseteq UNION {{f.src, f.dst} : f \in g.edges}
  BY <1>1
<1>3. QED
  BY <1>2 DEF Nodes

(* Whole numbers of cycles.                                                 *)
LEMMA Quotient ==
  ASSUME NEW L \in Nat \ {0}, NEW k \in Nat \ {0}, k % L = 0
  PROVE  k \div L \in Nat \ {0} /\ k = (k \div L) * L
<1>1. k \div L \in Int /\ k = L * (k \div L) + (k % L)
  OBVIOUS
<1>2. k = L * (k \div L)
  BY <1>1
<1>3. CASE k \div L <= 0
  <2>1. L * (k \div L) <= 0
    BY <1>1, <1>3
  <2>2. QED
    BY <1>2, <2>1
<1>4. CASE k \div L > 0
  BY <1>1, <1>2, <1>4
<1>5. QED
  BY <1>1, <1>3, <1>4

LEMMA CyclePeriodIs ==
  ASSUME NEW g, IsSchedulable(g), NEW x \in Nodes(g)
  PROVE  /\ CyclePeriod(g, x) \in Nat \ {0}
         /\ \A l \in IOLengths(g, x) : CyclePeriod(g, x) % l = 0
<1> DEFINE T == {k \in 1 .. MaxPeriod : \A l \in IOLengths(g, x) : k % l = 0}
<1>1. T # {} /\ T \subseteq Nat /\ T \subseteq 1 .. MaxPeriod
  BY BoundsAssumption DEF IsSchedulable
<1>2. Min(T) \in T
  <2> HIDE DEF T
  <2>1. QED
    BY <1>1, MinOf
<1>3. CyclePeriod(g, x) = Min(T)
  BY DEF CyclePeriod
<1>4. QED
  BY <1>1, <1>2, <1>3, BoundsAssumption

(* In one period, a node moves its samples of a cycle a whole number of     *)
(* times.                                                                   *)
LEMMA EdgePeriods ==
  ASSUME NEW g, IsSchedulable(g), NEW e \in g.edges
  PROVE  LET p == CyclePeriod(g, e.src) \div Len(e.prod)
             c == CyclePeriod(g, e.dst) \div Len(e.cons) IN
         /\ p \in Nat \ {0} /\ CyclePeriod(g, e.src) = p * Len(e.prod)
         /\ c \in Nat \ {0} /\ CyclePeriod(g, e.dst) = c * Len(e.cons)
<1>1. e.src \in Nodes(g) /\ e.dst \in Nodes(g)
  BY EndsAreNodes
<1>2. Len(e.prod) \in IOLengths(g, e.src) /\ Len(e.cons) \in IOLengths(g, e.dst)
  BY DEF IOLengths
<1>3. Len(e.prod) \in Nat \ {0} /\ Len(e.cons) \in Nat \ {0}
  BY DEF IsSchedulable, IsRates
<1>4. /\ CyclePeriod(g, e.src) \in Nat \ {0}
      /\ CyclePeriod(g, e.dst) \in Nat \ {0}
      /\ CyclePeriod(g, e.src) % Len(e.prod) = 0
      /\ CyclePeriod(g, e.dst) % Len(e.cons) = 0
  BY <1>1, <1>2, CyclePeriodIs
<1>5. QED
  BY <1>3, <1>4, Quotient

(* What the rows of the topology matrix hold.                               *)
LEMMA RowIs ==
  ASSUME NEW g, IsSchedulable(g), NEW e \in g.edges
  PROVE  LET p == CyclePeriod(g, e.src) \div Len(e.prod)
             c == CyclePeriod(g, e.dst) \div Len(e.cons) IN
         /\ TopologyRow(g, e)[e.dst] = 0 - Total(e.cons) * c
         /\ e.src # e.dst => TopologyRow(g, e)[e.src] = Total(e.prod) * p
         /\ TopologyRow(g, e)[e.dst] \in Int
         /\ TopologyRow(g, e)[e.src] \in Int
<1>1. e.src \in Nodes(g) /\ e.dst \in Nodes(g)
  BY EndsAreNodes
<1>2. IsRates(e.prod) /\ IsRates(e.cons)
  BY DEF IsSchedulable
<1>3. Total(e.prod) \in Nat /\ Total(e.cons) \in Nat
  BY <1>2, TotalIsPositive
<1>4. TopologyRow(g, e)[e.dst]
        = 0 - Total(e.cons) * (CyclePeriod(g, e.dst) \div Len(e.cons))
  BY <1>1 DEF TopologyRow
<1>5. e.src # e.dst =>
        TopologyRow(g, e)[e.src]
          = Total(e.prod) * (CyclePeriod(g, e.src) \div Len(e.prod))
  BY <1>1 DEF TopologyRow
<1>6. QED
  BY <1>3, <1>4, <1>5, EdgePeriods

LEMMA NullVectorIs ==
  ASSUME NEW g, NEW v
  PROVE  v \in NullVectors(g) <=>
           /\ v \in [Nodes(g) -> 1 .. MaxRepetition]
           /\ \A e \in g.edges :
                TopologyRow(g, e)[e.src] * v[e.src] +
                  (IF e.dst = e.src THEN 0
                   ELSE TopologyRow(g, e)[e.dst] * v[e.dst]) = 0
BY DEF NullVectors

(* No node of a graph that has a null vector feeds itself, and a period     *)
(* takes from every FIFO what it has put into it.                           *)
LEMMA PeriodsBalance ==
  ASSUME NEW g, IsSchedulable(g), NEW v \in NullVectors(g), NEW e \in g.edges
  PROVE  /\ e.src # e.dst
         /\ Moved(e.prod, v[e.src] * CyclePeriod(g, e.src))
              = Moved(e.cons, v[e.dst] * CyclePeriod(g, e.dst))
<1> DEFINE p == CyclePeriod(g, e.src) \div Len(e.prod)
           c == CyclePeriod(g, e.dst) \div Len(e.cons)
           row == TopologyRow(g, e)
<1>1. e.src \in Nodes(g) /\ e.dst \in Nodes(g)
  BY EndsAreNodes
<1>2. IsRates(e.prod) /\ IsRates(e.cons)
  BY DEF IsSchedulable
<1>3. /\ Total(e.prod) \in Nat \ {0} /\ Total(e.cons) \in Nat \ {0}
      /\ Len(e.prod) \in Nat /\ Len(e.cons) \in Nat
  <2>1. Total(e.prod) \in Nat \ {0} /\ Total(e.cons) \in Nat \ {0}
    BY <1>2, TotalIsPositive
  <2>2. Len(e.prod) \in Nat /\ Len(e.cons) \in Nat
    BY <1>2 DEF IsRates
  <2>3. QED
    BY <2>1, <2>2
<1>4. /\ p \in Nat \ {0} /\ CyclePeriod(g, e.src) = p * Len(e.prod)
      /\ c \in Nat \ {0} /\ CyclePeriod(g, e.dst) = c * Len(e.cons)
  BY EdgePeriods
<1>5. /\ row[e.dst] = 0 - Total(e.cons) * c
      /\ e.src # e.dst => row[e.src] = Total(e.prod) * p
  BY RowIs
<1>6. /\ v \in [Nodes(g) -> 1 .. MaxRepetition]
      /\ row[e.src] * v[e.src] +
           (IF e.dst = e.src THEN 0 ELSE row[e.dst] * v[e.dst]) = 0
  BY NullVectorIs
<1>7. v[e.src] \in Nat \ {0} /\ v[e.dst] \in Nat \ {0}
  BY <1>1, <1>6, BoundsAssumption
<1> HIDE DEF p, c, row
<1>8. \A i, j \in Nat \ {0} : i * j \in Nat \ {0}
  OBVIOUS
<1>9. e.src # e.dst
  <2>1. SUFFICES ASSUME e.src = e.dst PROVE FALSE
    OBVIOUS
  <2>2. (Total(e.cons) * c) * v[e.dst] \in Nat \ {0}
    BY <1>3, <1>4, <1>7, <1>8
  <2>3. (0 - Total(e.cons) * c) * v[e.dst] = 0 - (Total(e.cons) * c) * v[e.dst]
    BY <1>3, <1>4, <1>7
  <2>4. row[e.src] = 0 - Total(e.cons) * c /\ v[e.src] = v[e.dst]
    BY <1>5, <2>1
  <2>5. (0 - Total(e.cons) * c) * v[e.dst] + 0 = 0
    BY <1>6, <2>1, <2>4
  <2>6. QED
    BY <2>2, <2>3, <2>5
<1>10. (Total(e.prod) * p) * v[e.src] = (Total(e.cons) * c) * v[e.dst]
  <2>1. (Total(e.prod) * p) * v[e.src] + (0 - Total(e.cons) * c) * v[e.dst] = 0
    BY <1>5, <1>6, <1>9
  <2>2. (0 - Total(e.cons) * c) * v[e.dst] = 0 - (Total(e.cons) * c) * v[e.dst]
    BY <1>3, <1>4, <1>7
  <2>3. /\ (Total(e.prod) * p) * v[e.src] \in Nat
        /\ (Total(e.cons) * c) * v[e.dst] \in Nat
    BY <1>3, <1>4, <1>7, <1>8
  <2>4. QED
    BY <2>1, <2>2, <2>3
<1>11. /\ v[e.src] * (p * Len(e.prod)) = (v[e.src] * p) * Len(e.prod)
       /\ v[e.dst] * (c * Len(e.cons)) = (v[e.dst] * c) * Len(e.cons)
       /\ (v[e.src] * p) * Total(e.prod) = (Total(e.prod) * p) * v[e.src]
       /\ (v[e.dst] * c) * Total(e.cons) = (Total(e.cons) * c) * v[e.dst]
       /\ v[e.src] * p \in Nat /\ v[e.dst] * c \in Nat
  <2>1. \A i, j, k \in Nat : i * (j * k) = (i * j) * k
    OBVIOUS
  <2>2. \A i, j, k \in Nat : (i * j) * k = (k * j) * i
    OBVIOUS
  <2>3. \A i, j \in Nat : i * j \in Nat
    OBVIOUS
  <2>4. /\ v[e.src] \in Nat /\ v[e.dst] \in Nat /\ p \in Nat /\ c \in Nat
        /\ Total(e.prod) \in Nat /\ Total(e.cons) \in Nat
        /\ Len(e.prod) \in Nat /\ Len(e.cons) \in Nat
    BY <1>3, <1>4, <1>7
  <2>5. /\ v[e.src] * (p * Len(e.prod)) = (v[e.src] * p) * Len(e.prod)
        /\ v[e.dst] * (c * Len(e.cons)) = (v[e.dst] * c) * Len(e.cons)
    <3>1. v[e.src] * (p * Len(e.prod)) = (v[e.src] * p) * Len(e.prod)
      BY ONLY <2>1, <2>4
    <3>2. v[e.dst] * (c * Len(e.cons)) = (v[e.dst] * c) * Len(e.cons)
      BY ONLY <2>1, <2>4
    <3>3. QED
      BY <3>1, <3>2
  <2>6. /\ (v[e.src] * p) * Total(e.prod) = (Total(e.prod) * p) * v[e.src]
        /\ (v[e.dst] * c) * Total(e.cons) = (Total(e.cons) * c) * v[e.dst]
    <3>1. (v[e.src] * p) * Total(e.prod) = (Total(e.prod) * p) * v[e.src]
      BY ONLY <2>2, <2>4
    <3>2. (v[e.dst] * c) * Total(e.cons) = (Total(e.cons) * c) * v[e.dst]
      BY ONLY <2>2, <2>4
    <3>3. QED
      BY <3>1, <3>2
  <2>7. v[e.src] * p \in Nat /\ v[e.dst] * c \in Nat
    BY ONLY <2>3, <2>4
  <2>8. QED
    BY <2>5, <2>6, <2>7
<1>12. /\ Moved(e.prod, (v[e.src] * p) * Len(e.prod))
            = (v[e.src] * p) * Total(e.prod)
       /\ Moved(e.cons, (v[e.dst] * c) * Len(e.cons))
            = (v[e.dst] * c) * Total(e.cons)
  BY <1>2, <1>11, MovedInCycles
<1>13. QED
  BY <1>4, <1>9, <1>10, <1>11, <1>12

(* There is a smallest null vector when there is one at all: one with the   *)
(* least entry for some node has entries without a common divisor.          *)
LEMMA SmallestIs ==
  ASSUME NEW g, IsSchedulable(g), NullVectors(g) # {}
  PROVE  Smallest(NullVectors(g)) \in NullVectors(g)
<1>1. PICK o \in Nodes(g) : TRUE
  BY DEF IsSchedulable
<1> DEFINE T == {v[o] : v \in NullVectors(g)}
<1>2. \A v \in NullVectors(g) : v \in [Nodes(g) -> 1 .. MaxRepetition]
  BY NullVectorIs
<1>3. \A v \in NullVectors(g) : \A x \in Nodes(g) : v[x] \in Nat \ {0}
  BY <1>2, BoundsAssumption
<1>4. T \subseteq Nat /\ T # {}
  BY <1>3
<1>5. PICK least \in T : \A t \in T : least <= t
  BY <1>4, Least
<1>6. PICK v \in NullVectors(g) : v[o] = least
  OBVIOUS
<1>7. ASSUME NEW k \in 2 .. MaxRepetition, \A x \in DOMAIN v : v[x] % k = 0
      PROVE  FALSE
  <2> DEFINE w == [x \in Nodes(g) |-> v[x] \div k]
  <2>1. k \in Nat \ {0} /\ k >= 2
    BY BoundsAssumption
  <2>2. \A x \in Nodes(g) :
          w[x] \in Nat \ {0} /\ v[x] = w[x] * k /\ v[x] \in Nat \ {0}
    BY <1>2, <1>3, <1>7, <2>1, Quotient
  <2> HIDE DEF w
  <2>3. \A x \in Nodes(g) : w[x] < v[x]
    <3>1. SUFFICES ASSUME NEW x \in Nodes(g) PROVE w[x] < v[x]
      OBVIOUS
    <3>2. w[x] * k >= w[x] * 2
      BY <2>1, <2>2
    <3>3. QED
      BY <2>2, <3>2
  <2>4. w \in [Nodes(g) -> 1 .. MaxRepetition]
    <3>1. \A x \in Nodes(g) : w[x] \in 1 .. MaxRepetition
      BY <1>2, <2>2, <2>3, BoundsAssumption
    <3>2. QED
      BY <3>1 DEF w
  <2>5. ASSUME NEW e \in g.edges
        PROVE  TopologyRow(g, e)[e.src] * w[e.src] +
                 (IF e.dst = e.src THEN 0
                  ELSE TopologyRow(g, e)[e.dst] * w[e.dst]) = 0
    <3> DEFINE r == TopologyRow(g, e)[e.src]
               t == IF e.dst = e.src THEN 0 ELSE TopologyRow(g, e)[e.dst]
    <3>1. r \in Int /\ t \in Int
      BY RowIs
    <3>2. e.src \in Nodes(g) /\ e.dst \in Nodes(g)
      BY EndsAreNodes
    <3>3. r * v[e.src] + t * v[e.dst] = 0
      <4>1. r * v[e.src] + (IF e.dst = e.src THEN 0
                            ELSE TopologyRow(g, e)[e.dst] * v[e.dst]) = 0
        BY NullVectorIs
      <4>2. v[e.dst] \in Nat
        BY <2>2, <3>2
      <4>3. 0 * v[e.dst] = 0
        BY <4>2
      <4>4. QED
        BY <4>1, <4>3
    <3>4. /\ w[e.src] \in Nat /\ v[e.src] = w[e.src] * k
          /\ w[e.dst] \in Nat /\ v[e.dst] = w[e.dst] * k
      BY <2>2, <3>2
    <3>5. t * w[e.dst] = IF e.dst = e.src THEN 0
                         ELSE TopologyRow(g, e)[e.dst] * w[e.dst]
      BY <3>4
    <3> HIDE DEF r, t
    <3>6. r * (w[e.src] * k) + t * (w[e.dst] * k)
            = (r * w[e.src] + t * w[e.dst]) * k
      BY <2>1, <3>1, <3>4
    <3>7. (r * w[e.src] + t * w[e.dst]) * k = 0
      BY <3>3, <3>4, <3>6
    <3>8. r * w[e.src] + t * w[e.dst] = 0
      <4>1. \A i \in Int : i * k = 0 => i = 0
        BY <2>1
      <4>2. r * w[e.src] + t * w[e.dst] \in Int
        BY <3>1, <3>4
      <4>3. QED
        BY <3>7, <4>1, <4>2
    <3>9. QED
      BY <3>5, <3>8 DEF r
  <2>6. w \in NullVectors(g)
    BY <2>4, <2>5, NullVectorIs
  <2>7. w[o] \in T /\ w[o] < least /\ w[o] \in Nat
    BY <1>1, <1>6, <2>2, <2>3, <2>6
  <2>8. least <= w[o] /\ least \in Nat
    BY <1>4, <1>5, <2>7
  <2>9. QED
    BY <2>7, <2>8
<1>8. \A k \in 2 .. MaxRepetition : \E x \in DOMAIN v : v[x] % k # 0
  BY <1>7
<1>9. QED
  BY <1>8 DEF Smallest
-----------------------------------------------------------------------------
(* Inserting Duplicates keeps a graph schedulable.                          *)

LEMMA FiniteImage ==
  ASSUME NEW S, IsFiniteSet(S), NEW f, DOMAIN f = S
  PROVE  IsFiniteSet({f[x] : x \in S})
<1> DEFINE T == {f[x] : x \in S}
           h == [x \in S |-> f[x]]
<1>1. h \in Surjection(S, T)
  BY DEF Surjection
<1>2. QED
  <2> HIDE DEF h, T
  <2>1. IsFiniteSet(T)
    BY <1>1, FS_Surjection
  <2>2. QED
    BY <2>1 DEF T

LEMMA FiniteNodes ==
  ASSUME NEW g, IsFiniteSet(g.edges), g.open = {}
  PROVE  IsFiniteSet(Nodes(g))
<1> DEFINE f == [e \in g.edges |-> {e.src, e.dst}]
           S == {f[e] : e \in g.edges}
<1>1. IsFiniteSet(S)
  <2>1. DOMAIN f = g.edges
    OBVIOUS
  <2> HIDE DEF f
  <2>2. QED
    BY <2>1, FiniteImage
<1>2. \A T \in S : IsFiniteSet(T)
  <2>1. SUFFICES ASSUME NEW e \in g.edges PROVE IsFiniteSet({e.src, e.dst})
    OBVIOUS
  <2>2. IsFiniteSet({e.src} \cup {e.dst})
    BY FS_Singleton, FS_AddElement
  <2>3. {e.src} \cup {e.dst} = {e.src, e.dst}
    OBVIOUS
  <2>4. QED
    BY <2>2, <2>3
<1>3. IsFiniteSet(UNION S)
  <2> HIDE DEF S
  <2>1. QED
    BY <1>1, <1>2, FS_UNION
<1>4. S = {{e.src, e.dst} : e \in g.edges} /\ {o.src : o \in g.open} = {}
  OBVIOUS
<1>5. Nodes(g) = UNION S
  BY <1>4 DEF Nodes
<1>6. QED
  BY <1>3, <1>5

Shared(g) == {e \in g.edges : Fan(g, e) # {e}}

LEMMA ExpandedEdges ==
  ASSUME NEW g
  PROVE  /\ InsertDuplicates(g).open = {}
         /\ InsertDuplicates(g).edges =
              (g.edges \ Shared(g))
                \cup {ToDuplicate(e) : e \in Shared(g) \cup g.open}
                \cup {FromDuplicate(e, NumberInFan(g, e)) : e \in Shared(g)}
BY DEF InsertDuplicates, Shared

LEMMA DuplicateRates ==
  ASSUME NEW o
  PROVE  /\ ToDuplicate(o).prod = o.prod /\ ToDuplicate(o).cons = o.prod
         /\ ToDuplicate(o).delay = 0
BY DEF ToDuplicate

LEMMA CopyRates ==
  ASSUME NEW g \in InputGraphs, NEW e \in g.edges, NEW k
  PROVE  /\ FromDuplicate(e, k).prod = e.prod
         /\ FromDuplicate(e, k).cons = e.cons
         /\ FromDuplicate(e, k).delay = e.delay
<1>1. DOMAIN e = {"src", "out", "prod", "outBuffer",
                  "dst", "inp", "cons", "inBuffer", "delay", "buffer"}
  BY GraphAssumption
<1>2. QED
  BY <1>1 DEF FromDuplicate

LEMMA ExpandedIsFinite ==
  ASSUME NEW g \in InputGraphs
  PROVE  IsFiniteSet(InsertDuplicates(g).edges)
<1> DEFINE d == InsertDuplicates(g)
           to == [e \in Shared(g) \cup g.open |-> ToDuplicate(e)]
           from == [e \in Shared(g) |-> FromDuplicate(e, NumberInFan(g, e))]
<1>1. IsFiniteSet(g.edges) /\ IsFiniteSet(g.open)
  BY GraphAssumption
<1>2. d.edges = (g.edges \ Shared(g))
                  \cup {ToDuplicate(e) : e \in Shared(g) \cup g.open}
                  \cup {FromDuplicate(e, NumberInFan(g, e)) : e \in Shared(g)}
  BY ExpandedEdges
<1>3. Shared(g) \subseteq g.edges
  BY DEF Shared
<1>4. IsFiniteSet(Shared(g)) /\ IsFiniteSet(g.edges \ Shared(g))
      /\ IsFiniteSet(Shared(g) \cup g.open)
  BY <1>1, <1>3, FS_Subset, FS_Difference, FS_Union
<1>5. IsFiniteSet({ToDuplicate(e) : e \in Shared(g) \cup g.open})
  <2>1. DOMAIN to = Shared(g) \cup g.open
    OBVIOUS
  <2>2. {to[e] : e \in Shared(g) \cup g.open}
          = {ToDuplicate(e) : e \in Shared(g) \cup g.open}
    OBVIOUS
  <2> HIDE DEF to
  <2>3. QED
    BY <1>4, <2>1, <2>2, FiniteImage
<1>6. IsFiniteSet({FromDuplicate(e, NumberInFan(g, e)) : e \in Shared(g)})
  <2>1. DOMAIN from = Shared(g)
    OBVIOUS
  <2>2. {from[e] : e \in Shared(g)}
          = {FromDuplicate(e, NumberInFan(g, e)) : e \in Shared(g)}
    OBVIOUS
  <2> HIDE DEF from
  <2>3. QED
    BY <1>4, <2>1, <2>2, FiniteImage
<1> HIDE DEF d
<1>7. IsFiniteSet(d.edges)
  <2>1. IsFiniteSet((g.edges \ Shared(g))
                      \cup {ToDuplicate(e) : e \in Shared(g) \cup g.open})
    BY <1>4, <1>5, FS_Union
  <2>2. IsFiniteSet(((g.edges \ Shared(g))
                       \cup {ToDuplicate(e) : e \in Shared(g) \cup g.open})
                     \cup {FromDuplicate(e, NumberInFan(g, e)) : e \in Shared(g)})
    BY ONLY <1>6, <2>1, FS_Union
  <2>3. QED
    BY <1>2, <2>2
<1>8. QED
  BY <1>7 DEF d

LEMMA ExpandedIsSchedulable ==
  ASSUME NEW g \in InputGraphs
  PROVE  IsSchedulable(InsertDuplicates(g))
<1> DEFINE d == InsertDuplicates(g)
<1>1. /\ Nodes(g) # {}
      /\ \A e \in g.edges :
           e.delay \in Nat /\ IsRates(e.prod) /\ IsRates(e.cons)
      /\ \A o \in g.open : IsRates(o.prod)
  BY GraphAssumption
<1>2. /\ d.open = {}
      /\ d.edges = (g.edges \ Shared(g))
                     \cup {ToDuplicate(e) : e \in Shared(g) \cup g.open}
                     \cup {FromDuplicate(e, NumberInFan(g, e)) : e \in Shared(g)}
  BY ExpandedEdges
<1>3. Shared(g) \subseteq g.edges
  BY DEF Shared
<1>4. IsFiniteSet(d.edges)
  BY ExpandedIsFinite
<1> HIDE DEF d
<1>5. IsFiniteSet(Nodes(d))
  BY <1>2, <1>4, FiniteNodes
<1>6. Nodes(d) # {}
  <2>1. d.edges # {}
    <3>1. CASE g.edges # {}
      <4>1. PICK e \in g.edges : TRUE
        BY <3>1
      <4>2. e \in d.edges \/ ToDuplicate(e) \in d.edges
        BY <1>2
      <4>3. QED
        BY <4>2
    <3>2. CASE g.edges = {}
      <4>1. g.open # {}
        BY <1>1, <3>2 DEF Nodes
      <4>2. PICK o \in g.open : TRUE
        BY <4>1
      <4>3. ToDuplicate(o) \in d.edges
        BY <1>2
      <4>4. QED
        BY <4>3
    <3>3. QED
      BY <3>1, <3>2
  <2>2. PICK e \in d.edges : TRUE
    BY <2>1
  <2>3. e.src \in Nodes(d)
    BY EndsAreNodes
  <2>4. QED
    BY <2>3
<1>7. ASSUME NEW e \in d.edges
       PROVE  e.delay \in Nat /\ IsRates(e.prod) /\ IsRates(e.cons)
  <2>1. CASE e \in g.edges
    BY <1>1, <2>1
  <2>2. CASE \E f \in Shared(g) \cup g.open : e = ToDuplicate(f)
    <3>1. PICK f \in Shared(g) \cup g.open : e = ToDuplicate(f)
      BY <2>2
    <3>2. IsRates(f.prod)
      BY <1>1, <1>3
    <3>3. QED
      BY <3>1, <3>2, DuplicateRates
  <2>3. CASE \E f \in Shared(g) : e = FromDuplicate(f, NumberInFan(g, f))
    <3>1. PICK f \in Shared(g) : e = FromDuplicate(f, NumberInFan(g, f))
      BY <2>3
    <3>2. f \in g.edges
      BY <1>3
    <3>3. /\ e.prod = f.prod /\ e.cons = f.cons /\ e.delay = f.delay
      BY <3>1, <3>2, CopyRates
    <3>4. QED
      BY <1>1, <3>2, <3>3
  <2>4. QED
    BY <1>2, <2>1, <2>2, <2>3
<1>8. \A x \in Nodes(d) : \E k \in 1 .. MaxPeriod :
         \A l \in IOLengths(d, x) : k % l = 0
  BY PeriodAssumption DEF d
<1>9. IsSchedulable(d)
  BY <1>5, <1>6, <1>7, <1>8 DEF IsSchedulable
<1>10. QED
  BY <1>9 DEF d
-----------------------------------------------------------------------------
(* The layers hold nodes.                                                   *)

LEMMA InOrderIs ==
  ASSUME NEW S, IsFiniteSet(S), NEW rank,
         \A x \in S : rank[x] \in Nat,
         \A x, y \in S : rank[x] = rank[y] => x = y
  PROVE  /\ DOMAIN InOrder(S, rank) = 1 .. Cardinality(S)
         /\ \A i \in 1 .. Cardinality(S) : InOrder(S, rank)[i] \in S
<1> DEFINE below(x) == {y \in S : rank[y] <= rank[x]}
           place == [x \in S |-> Cardinality(below(x))]
           c == Cardinality(S)
<1>1. c \in Nat /\ IsFiniteSet(1 .. c) /\ Cardinality(1 .. c) = c
  <2>1. c \in Nat
    BY FS_CardinalityType
  <2>2. QED
    BY <2>1, FS_Interval
<1>2. \A x \in S : /\ IsFiniteSet(below(x)) /\ Cardinality(below(x)) <= c
                   /\ Cardinality(below(x)) \in Nat
                   /\ x \in below(x)
  BY FS_Subset, FS_CardinalityType
<1>3. \A x \in S : Cardinality(below(x)) # 0
  BY <1>2, FS_EmptySet
<1>4. \A x \in S : Cardinality(below(x)) \in 1 .. c
  <2> HIDE DEF below, c
  <2>1. QED
    BY <1>1, <1>2, <1>3
<1>5. \A x, y \in S : rank[x] < rank[y] =>
         Cardinality(below(x)) # Cardinality(below(y))
  <2>1. SUFFICES ASSUME NEW x \in S, NEW y \in S, rank[x] < rank[y]
                 PROVE  Cardinality(below(x)) # Cardinality(below(y))
    OBVIOUS
  <2>2. below(x) \in SUBSET below(y)
    BY <2>1
  <2>3. y \in below(y) /\ y \notin below(x)
    BY <2>1
  <2>4. below(x) # below(y)
    BY <2>3
  <2>5. QED
    <3> HIDE DEF below
    <3>1. QED
      BY <1>2, <2>2, <2>4, FS_Subset
<1>6. place \in Injection(S, 1 .. c)
  <2>1. place \in [S -> 1 .. c]
    BY <1>4
  <2>2. ASSUME NEW x \in S, NEW y \in S, place[x] = place[y] PROVE x = y
    <3>1. Cardinality(below(x)) = Cardinality(below(y))
      BY <2>2
    <3>2. ~(rank[x] < rank[y]) /\ ~(rank[y] < rank[x])
      <4> HIDE DEF below
      <4>1. QED
        BY <1>5, <3>1
    <3>3. QED
      BY <3>2
  <2>3. QED
    <3> HIDE DEF place
    <3>1. QED
      BY <2>1, <2>2 DEF Injection, IsInjective
<1>7. place \in Surjection(S, 1 .. c)
  <2> HIDE DEF place, c
  <2>1. Cardinality(S) = Cardinality(1 .. c)
    BY <1>1 DEF c
  <2>2. QED
    BY <1>1, <1>6, <2>1, FS_Injection
<1>8. \A i \in 1 .. c : \E x \in S : Cardinality(below(x)) = i
  <2>1. \A i \in 1 .. c : \E x \in S : place[x] = i
    <3> HIDE DEF place
    <3>1. QED
      BY <1>7 DEF Surjection
  <2>2. QED
    BY <2>1
<1>9. QED
  BY <1>8 DEF InOrder

RemovedOf(g, f) ==
  f = [k \in Nat |->
         IF k = 0 THEN {}
         ELSE {x \in Nodes(g) : \A e \in g.edges : e.src = x => e.dst \in f[k - 1]}]

LEMMA RemovedIs ==
  ASSUME NEW g
  PROVE  /\ DOMAIN Removed(g) = 0 .. Cardinality(Nodes(g))
         /\ \A k \in DOMAIN Removed(g) : k \in Nat => Removed(g)[k] \subseteq Nodes(g)
<1> DEFINE D == SUBSET Nodes(g)
           next == [k \in Nat |-> [S \in D |->
                     {x \in Nodes(g) : \A e \in g.edges : e.src = x => e.dst \in S}]]
           f == CHOOSE h : RemovedOf(g, h)
<1>1. next \in [Nat -> [D -> D]]
  OBVIOUS
<1>2. {} \in D
  OBVIOUS
<1>3. \A k \in Nat : \A S \in D :
        next[k][S] = {x \in Nodes(g) : \A e \in g.edges : e.src = x => e.dst \in S}
  OBVIOUS
<1>4. PICK h \in [Nat -> D] : Follows({}, next, h)
  <2> HIDE DEF D, next, f
  <2>1. QED
    BY <1>1, <1>2, Recursion
<1>5. RemovedOf(g, h)
  <2>1. ASSUME NEW k \in Nat, k # 0
        PROVE  h[k] = {x \in Nodes(g) :
                         \A e \in g.edges : e.src = x => e.dst \in h[k - 1]}
    <3>1. k - 1 \in Nat /\ k - 1 + 1 = k
      BY <2>1
    <3>2. h[k - 1] \in D
      BY <3>1
    <3>3. h[k] = next[k][h[k - 1]]
      <4> HIDE DEF D, next
      <4>1. QED
        BY <1>4, <3>1 DEF Follows
    <3>4. QED
      <4> HIDE DEF D, next
      <4>1. QED
        BY <1>3, <3>2, <3>3
  <2>2. h[0] = {}
    <3> HIDE DEF D, next
    <3>1. QED
      BY <1>4 DEF Follows
  <2>3. h = [k \in Nat |-> h[k]]
    OBVIOUS
  <2>4. QED
    <3> HIDE DEF D, next
    <3>1. QED
      BY <2>1, <2>2, <2>3 DEF RemovedOf
<1>6. RemovedOf(g, f)
  BY <1>5
<1>7. Removed(g) = [k \in 0 .. Cardinality(Nodes(g)) |-> f[k]]
  BY DEF Removed, RemovedOf
<1> HIDE DEF f
<1>8. \A k \in Nat : f[k] \subseteq Nodes(g)
  BY <1>6 DEF RemovedOf
<1>9. QED
  BY <1>7, <1>8

LEMMA SinkLayersAre ==
  ASSUME NEW g, IsSchedulable(g), NEW k \in DOMAIN SinkLayers(g)
  PROVE  SinkLayers(g)[k] \subseteq Nodes(g)
<1> DEFINE c == Cardinality(Nodes(g))
           T == {i \in DOMAIN Removed(g) : Removed(g)[i] = Removed(g)[c]}
<1>1. c \in Nat /\ DOMAIN Removed(g) = 0 .. c
  BY RemovedIs, FS_CardinalityType DEF IsSchedulable
<1>2. T \subseteq Nat /\ c \in T
  BY <1>1
<1>3. Min(T) \in 0 .. c
  <2>1. Min(T) \in T
    <3> HIDE DEF T
    <3>1. QED
      BY <1>2, MinOf
  <2>2. QED
    BY <1>1, <2>1
<1>4. SinkLayers(g) = IF Removed(g)[Min(T)] # Nodes(g) THEN <<>>
                      ELSE [i \in 1 .. Min(T) |->
                              Removed(g)[i] \ Removed(g)[i - 1]]
  BY DEF SinkLayers
<1> HIDE DEF T, c
<1>5. CASE Removed(g)[Min(T)] # Nodes(g)
  BY <1>4, <1>5
<1>6. CASE Removed(g)[Min(T)] = Nodes(g)
  <2>1. k \in 1 .. Min(T) /\ SinkLayers(g)[k] = Removed(g)[k] \ Removed(g)[k - 1]
    BY <1>4, <1>6
  <2>2. k \in 0 .. c /\ k \in Nat
    BY <1>1, <1>3, <2>1
  <2>3. Removed(g)[k] \subseteq Nodes(g)
    BY <1>1, <2>2, RemovedIs
  <2>4. QED
    BY <2>1, <2>3
<1>7. QED
  BY <1>5, <1>6
-----------------------------------------------------------------------------
(* How often a node is among the first elements of a schedule.              *)

Count(s, x, k) == Cardinality({i \in 1 .. k : s[i] = x})

LEMMA CountIs ==
  ASSUME NEW s, NEW x, NEW j \in Nat
  PROVE  /\ Count(s, x, 0) = 0
         /\ Count(s, x, j) \in Nat
         /\ Count(s, x, j + 1)
              = Count(s, x, j) + (IF s[j + 1] = x THEN 1 ELSE 0)
<1> DEFINE T(k) == {i \in 1 .. k : s[i] = x}
<1>1. \A k \in Nat : IsFiniteSet(T(k)) /\ Cardinality(T(k)) \in Nat
  <2>1. SUFFICES ASSUME NEW k \in Nat
                 PROVE  IsFiniteSet(T(k)) /\ Cardinality(T(k)) \in Nat
    OBVIOUS
  <2>2. IsFiniteSet(1 .. k)
    BY FS_Interval
  <2>3. T(k) \in SUBSET (1 .. k)
    OBVIOUS
  <2>4. QED
    <3> HIDE DEF T
    <3>1. QED
      BY <2>2, <2>3, FS_Subset, FS_CardinalityType
<1>2. T(0) = {}
  OBVIOUS
<1>3. ASSUME NEW k \in Nat
      PROVE  Cardinality(T(k + 1))
               = Cardinality(T(k)) + (IF s[k + 1] = x THEN 1 ELSE 0)
  <2>1. CASE s[k + 1] = x
    <3>1. T(k + 1) = T(k) \cup {k + 1} /\ k + 1 \notin T(k)
      BY <2>1
    <3>2. QED
      <4> HIDE DEF T
      <4>1. QED
        BY <1>1, <2>1, <3>1, FS_AddElement
  <2>2. CASE s[k + 1] # x
    <3>1. T(k + 1) = T(k)
      BY <2>2
    <3>2. QED
      <4> HIDE DEF T
      <4>1. QED
        BY <1>1, <2>2, <3>1
  <2>3. QED
    BY <2>1, <2>2
<1>4. QED
  BY <1>1, <1>2, <1>3, FS_EmptySet DEF Count

LEMMA CountAppend ==
  ASSUME NEW S, NEW s \in Seq(S), NEW y \in S, NEW x, NEW k \in 0 .. Len(s)
  PROVE  Count(Append(s, y), x, k) = Count(s, x, k)
<1>1. \A i \in 1 .. k : Append(s, y)[i] = s[i]
  OBVIOUS
<1>2. {i \in 1 .. k : Append(s, y)[i] = x} = {i \in 1 .. k : s[i] = x}
  BY <1>1
<1>3. QED
  BY <1>2 DEF Count

LEMMA CountGrows ==
  ASSUME NEW s, NEW x, NEW j \in Nat, NEW k \in Nat, j <= k
  PROVE  Count(s, x, j) <= Count(s, x, k)
<1>1. IsFiniteSet({i \in 1 .. k : s[i] = x})
  <2>1. IsFiniteSet(1 .. k)
    BY FS_Interval
  <2>2. {i \in 1 .. k : s[i] = x} \in SUBSET (1 .. k)
    OBVIOUS
  <2>3. QED
    BY <2>1, <2>2, FS_Subset
<1>2. {i \in 1 .. j : s[i] = x} \in SUBSET {i \in 1 .. k : s[i] = x}
  OBVIOUS
<1>3. QED
  BY <1>1, <1>2, FS_Subset DEF Count
-----------------------------------------------------------------------------
(* The samples in a FIFO, after the first executions of a schedule.         *)

Occupancy(s, e, k) ==
  e.delay + Moved(e.prod, Count(s, e.src, k)) - Moved(e.cons, Count(s, e.dst, k))

Within(g, s, bound) ==
  \A k \in 0 .. Len(s) : \A e \in g.edges :
    0 <= Occupancy(s, e, k) /\ Occupancy(s, e, k) <= bound[e]

(* The rates of an output repeat after any number of cycles.                *)
LEMMA CycleValueShift ==
  ASSUME NEW s, IsRates(s), NEW m \in Nat, NEW k \in Nat
  PROVE  CycleValue(s, m * Len(s) + k) = CycleValue(s, k)
<1> DEFINE P == {j \in Nat : CycleValue(s, j * Len(s) + k) = CycleValue(s, k)}
<1>1. Len(s) \in Nat
  BY DEF IsRates
<1>2. 0 \in P
  <2>1. 0 * Len(s) + k = k
    BY <1>1
  <2>2. QED
    BY <2>1
<1>3. \A j \in Nat : j \in P => j + 1 \in P
  <2>1. SUFFICES ASSUME NEW j \in Nat, CycleValue(s, j * Len(s) + k) = CycleValue(s, k)
                 PROVE  CycleValue(s, (j + 1) * Len(s) + k) = CycleValue(s, k)
    OBVIOUS
  <2>2. /\ (j + 1) * Len(s) + k = j * Len(s) + k + Len(s)
        /\ j * Len(s) + k \in Nat
    BY <1>1
  <2>3. QED
    BY <2>1, <2>2, CycleValueIs
<1>4. \A j \in Nat : j \in P
  <2> HIDE DEF P
  <2>1. QED
    BY <1>2, <1>3, Induction
<1>5. QED
  BY <1>4

LEMMA OccupancyIs ==
  ASSUME NEW g, IsSchedulable(g), NEW e \in g.edges, NEW s, NEW k \in Nat
  PROVE  /\ Occupancy(s, e, 0) = e.delay
         /\ Occupancy(s, e, k) \in Int
         /\ Occupancy(s, e, k + 1)
              = Occupancy(s, e, k)
                + (IF s[k + 1] = e.src
                   THEN CycleValue(e.prod, Count(s, e.src, k)) ELSE 0)
                - (IF s[k + 1] = e.dst
                   THEN CycleValue(e.cons, Count(s, e.dst, k)) ELSE 0)
<1>1. e.delay \in Nat /\ IsRates(e.prod) /\ IsRates(e.cons)
  BY DEF IsSchedulable
<1>2. /\ Count(s, e.src, 0) = 0 /\ Count(s, e.dst, 0) = 0
      /\ Count(s, e.src, k) \in Nat /\ Count(s, e.dst, k) \in Nat
      /\ Count(s, e.src, k + 1)
           = Count(s, e.src, k) + (IF s[k + 1] = e.src THEN 1 ELSE 0)
      /\ Count(s, e.dst, k + 1)
           = Count(s, e.dst, k) + (IF s[k + 1] = e.dst THEN 1 ELSE 0)
  <2>1. ASSUME NEW x
        PROVE  /\ Count(s, x, 0) = 0 /\ Count(s, x, k) \in Nat
               /\ Count(s, x, k + 1)
                    = Count(s, x, k) + (IF s[k + 1] = x THEN 1 ELSE 0)
    BY CountIs
  <2>2. QED
    BY <2>1
<1>3. ASSUME NEW r, IsRates(r), NEW j \in Nat
      PROVE  /\ Moved(r, 0) = 0 /\ Moved(r, j) \in Nat
             /\ Moved(r, j + 1) = Moved(r, j) + CycleValue(r, j)
             /\ CycleValue(r, j) \in Nat
  BY <1>3, MovedIs, CycleValueIs
<1>4. /\ Moved(e.prod, 0) = 0 /\ Moved(e.cons, 0) = 0
      /\ Moved(e.prod, Count(s, e.src, k)) \in Nat
      /\ Moved(e.cons, Count(s, e.dst, k)) \in Nat
  BY <1>1, <1>2, <1>3
<1>5. Moved(e.prod, Count(s, e.src, k + 1))
        = Moved(e.prod, Count(s, e.src, k))
          + (IF s[k + 1] = e.src THEN CycleValue(e.prod, Count(s, e.src, k)) ELSE 0)
  <2>1. CASE s[k + 1] = e.src
    BY <1>1, <1>2, <1>3, <2>1
  <2>2. CASE s[k + 1] # e.src
    BY <1>2, <1>4, <2>2
  <2>3. QED
    BY <2>1, <2>2
<1>6. Moved(e.cons, Count(s, e.dst, k + 1))
        = Moved(e.cons, Count(s, e.dst, k))
          + (IF s[k + 1] = e.dst THEN CycleValue(e.cons, Count(s, e.dst, k)) ELSE 0)
  <2>1. CASE s[k + 1] = e.dst
    BY <1>1, <1>2, <1>3, <2>1
  <2>2. CASE s[k + 1] # e.dst
    BY <1>2, <1>4, <2>2
  <2>3. QED
    BY <2>1, <2>2
<1>7. /\ CycleValue(e.prod, Count(s, e.src, k)) \in Nat
      /\ CycleValue(e.cons, Count(s, e.dst, k)) \in Nat
  BY <1>1, <1>2, <1>3
<1>8. QED
  BY <1>1, <1>2, <1>4, <1>5, <1>6, <1>7 DEF Occupancy

LEMMA OccupancyAppend ==
  ASSUME NEW S, NEW s \in Seq(S), NEW y \in S, NEW e, NEW k \in 0 .. Len(s)
  PROVE  Occupancy(Append(s, y), e, k) = Occupancy(s, e, k)
BY CountAppend DEF Occupancy
-----------------------------------------------------------------------------
(* The simulation of the schedule.                                          *)

(* The schedule so far, within the lengths that are known so far.           *)
Plans ==
  /\ IsSchedulable(graph)
  /\ \A e \in graph.edges : e.src # e.dst
  /\ schedule \in Seq(Nodes(graph))
  /\ bMax \in [graph.edges -> Nat]
  /\ Within(graph, schedule, bMax)

(* How the counters of the simulation tell what the schedule has done.      *)
Simulates ==
  /\ initN \in NullVectors(graph)
  /\ n \in [Nodes(graph) -> Nat]
  /\ positionInCycle \in [Nodes(graph) -> Nat]
  /\ \A x \in Nodes(graph) :
       /\ n[x] <= initN[x]
       /\ positionInCycle[x] < CyclePeriod(graph, x)
       /\ n[x] = 0 => positionInCycle[x] = 0
       /\ Count(schedule, x, Len(schedule))
            = (initN[x] - n[x]) * CyclePeriod(graph, x) + positionInCycle[x]
  /\ b = [e \in graph.edges |-> Occupancy(schedule, e, Len(schedule))]

LEMMA Regroup ==
  ASSUME NEW i \in Nat, NEW j \in Nat, NEW k \in Nat
  PROVE  i * (j * k) = (i * j) * k /\ i * j \in Nat
OBVIOUS

(* The position in the cycle of a node gives the position in the rates of   *)
(* its inputs and outputs.                                                  *)
LEMMA PositionIs ==
  ASSUME Plans, Simulates, NEW e \in graph.edges
  PROVE  /\ CycleValue(e.prod, positionInCycle[e.src])
              = CycleValue(e.prod, Count(schedule, e.src, Len(schedule)))
         /\ CycleValue(e.cons, positionInCycle[e.dst])
              = CycleValue(e.cons, Count(schedule, e.dst, Len(schedule)))
<1> DEFINE p == CyclePeriod(graph, e.src) \div Len(e.prod)
           c == CyclePeriod(graph, e.dst) \div Len(e.cons)
           i == initN[e.src] - n[e.src]
           j == initN[e.dst] - n[e.dst]
<1>1. e.src \in Nodes(graph) /\ e.dst \in Nodes(graph)
  BY EndsAreNodes
<1>2. IsSchedulable(graph) /\ IsRates(e.prod) /\ IsRates(e.cons)
  BY DEF Plans, IsSchedulable
<1>3. Len(e.prod) \in Nat /\ Len(e.cons) \in Nat
  BY <1>2 DEF IsRates
<1>4. /\ p \in Nat \ {0} /\ CyclePeriod(graph, e.src) = p * Len(e.prod)
      /\ c \in Nat \ {0} /\ CyclePeriod(graph, e.dst) = c * Len(e.cons)
  BY <1>2, EdgePeriods
<1>5. initN \in [Nodes(graph) -> 1 .. MaxRepetition]
  BY NullVectorIs DEF Simulates
<1>6. \A x \in Nodes(graph) : initN[x] - n[x] \in Nat /\ positionInCycle[x] \in Nat
  <2>1. SUFFICES ASSUME NEW x \in Nodes(graph)
                 PROVE  initN[x] - n[x] \in Nat /\ positionInCycle[x] \in Nat
    OBVIOUS
  <2>2. initN[x] \in Nat /\ n[x] \in Nat /\ n[x] <= initN[x]
        /\ positionInCycle[x] \in Nat
    BY <1>5, BoundsAssumption DEF Simulates
  <2>3. QED
    BY <2>2
<1>7. i \in Nat /\ j \in Nat
  BY <1>1, <1>6
<1>8. /\ Count(schedule, e.src, Len(schedule))
           = i * (p * Len(e.prod)) + positionInCycle[e.src]
      /\ Count(schedule, e.dst, Len(schedule))
           = j * (c * Len(e.cons)) + positionInCycle[e.dst]
  BY <1>1, <1>4 DEF Simulates
<1> HIDE DEF p, c, i, j
<1>9. /\ i * (p * Len(e.prod)) = (i * p) * Len(e.prod) /\ i * p \in Nat
      /\ j * (c * Len(e.cons)) = (j * c) * Len(e.cons) /\ j * c \in Nat
  BY <1>3, <1>4, <1>7, Regroup
<1>10. positionInCycle[e.src] \in Nat /\ positionInCycle[e.dst] \in Nat
  BY <1>1, <1>6
<1>11. /\ CycleValue(e.prod, (i * p) * Len(e.prod) + positionInCycle[e.src])
            = CycleValue(e.prod, positionInCycle[e.src])
       /\ CycleValue(e.cons, (j * c) * Len(e.cons) + positionInCycle[e.dst])
            = CycleValue(e.cons, positionInCycle[e.dst])
  <2>1. i * p \in Nat /\ j * c \in Nat
    BY <1>9
  <2>2. QED
    BY ONLY <1>2, <1>10, <2>1, CycleValueShift
<1>12. QED
  BY <1>8, <1>9, <1>11

LEMMA NewBIs ==
  ASSUME Plans, Simulates, NEW x \in Nodes(graph), NEW e \in graph.edges
  PROVE  /\ NewB(x)[e] = Occupancy(Append(schedule, x), e, Len(schedule) + 1)
         /\ NewB(x)[e] \in Int
         /\ NewB(x)[e] = b[e] + (IF e.src = x THEN
               CycleValue(e.prod, Count(schedule, e.src, Len(schedule))) ELSE 0)
             - (IF e.dst = x THEN
               CycleValue(e.cons, Count(schedule, e.dst, Len(schedule))) ELSE 0)
<1> DEFINE k == Len(schedule)
           t == Append(schedule, x)
<1>1. IsSchedulable(graph) /\ e.src # e.dst /\ schedule \in Seq(Nodes(graph))
      /\ IsRates(e.prod) /\ IsRates(e.cons)
  BY DEF Plans, IsSchedulable
<1>2. k \in Nat /\ t[k + 1] = x /\ k \in 0 .. Len(schedule)
  BY <1>1
<1>3. /\ Count(t, e.src, k) = Count(schedule, e.src, k)
      /\ Count(t, e.dst, k) = Count(schedule, e.dst, k)
      /\ Occupancy(t, e, k) = Occupancy(schedule, e, k)
  BY <1>1, <1>2, CountAppend, OccupancyAppend
<1>4. Count(schedule, e.src, k) \in Nat /\ Count(schedule, e.dst, k) \in Nat
  BY <1>2, CountIs
<1>5. /\ CycleValue(e.prod, Count(schedule, e.src, k)) \in Nat
      /\ CycleValue(e.cons, Count(schedule, e.dst, k)) \in Nat
  BY <1>1, <1>4, CycleValueIs
<1>6. b[e] = Occupancy(schedule, e, k) /\ b[e] \in Int
  BY <1>1, <1>2, OccupancyIs DEF Simulates
<1>7. Occupancy(t, e, k + 1)
        = Occupancy(t, e, k)
          + (IF t[k + 1] = e.src THEN CycleValue(e.prod, Count(t, e.src, k)) ELSE 0)
          - (IF t[k + 1] = e.dst THEN CycleValue(e.cons, Count(t, e.dst, k)) ELSE 0)
  BY <1>1, <1>2, OccupancyIs
<1>8. NewB(x)[e] = b[e] + CASE e.src = x -> CycleValue(e.prod, positionInCycle[x])
                            [] e.dst = x /\ e.src # x ->
                                 0 - CycleValue(e.cons, positionInCycle[x])
                            [] OTHER -> 0
  BY DEF NewB
<1> HIDE DEF k, t
<1>9. CASE e.src = x
  <2>1. NewB(x)[e] = b[e] + CycleValue(e.prod, Count(schedule, e.src, k))
    BY <1>8, <1>9, PositionIs DEF k
  <2>2. Occupancy(t, e, k + 1)
          = b[e] + CycleValue(e.prod, Count(schedule, e.src, k))
    BY <1>1, <1>2, <1>3, <1>5, <1>6, <1>7, <1>9
  <2>3. QED
    BY <1>1, <1>5, <1>6, <1>9, <2>1, <2>2 DEF k, t
<1>10. CASE e.src # x /\ e.dst = x
  <2>1. NewB(x)[e] = b[e] + (0 - CycleValue(e.cons, Count(schedule, e.dst, k)))
    BY <1>8, <1>10, PositionIs DEF k
  <2>2. Occupancy(t, e, k + 1)
          = b[e] - CycleValue(e.cons, Count(schedule, e.dst, k))
    BY <1>2, <1>3, <1>5, <1>6, <1>7, <1>10
  <2>3. QED
    BY <1>5, <1>6, <1>10, <2>1, <2>2 DEF k, t
<1>11. CASE e.src # x /\ e.dst # x
  <2>1. NewB(x)[e] = b[e] + 0
    BY <1>8, <1>11
  <2>2. Occupancy(t, e, k + 1) = b[e]
    BY <1>2, <1>3, <1>6, <1>7, <1>11
  <2>3. QED
    BY <1>6, <1>11, <2>1, <2>2 DEF k, t
<1>12. QED
  BY <1>9, <1>10, <1>11

(* An execution that leaves no FIFO below zero or beyond its length.        *)
LEMMA ExecuteKeeps ==
  ASSUME Plans, Simulates, NEW x \in Nodes(graph), n[x] > 0,
         Execute(x), UNCHANGED <<graph, initN>>,
         bMax' \in [graph.edges -> Nat],
         \A e \in graph.edges : /\ bMax[e] <= bMax'[e]
                                /\ 0 <= NewB(x)[e] /\ NewB(x)[e] <= bMax'[e]
  PROVE  Plans' /\ Simulates'
<1> DEFINE k == Len(schedule)
           CP(y) == CyclePeriod(graph, y)
<1>1. /\ IsSchedulable(graph) /\ \A e \in graph.edges : e.src # e.dst
      /\ schedule \in Seq(Nodes(graph)) /\ bMax \in [graph.edges -> Nat]
      /\ Within(graph, schedule, bMax)
  BY DEF Plans
<1>2. /\ schedule' = Append(schedule, x) /\ b' = NewB(x)
      /\ graph' = graph /\ initN' = initN
  BY DEF Execute
<1>3. /\ k \in Nat /\ Len(schedule') = k + 1 /\ schedule'[k + 1] = x
      /\ schedule' \in Seq(Nodes(graph))
  BY <1>1, <1>2
<1>4. \A e \in graph.edges :
        Occupancy(schedule', e, k + 1) = NewB(x)[e] /\ NewB(x)[e] \in Int
  BY <1>2, NewBIs
<1>5. Within(graph, schedule', bMax')
  <2>1. SUFFICES ASSUME NEW i \in 0 .. k + 1, NEW e \in graph.edges
                 PROVE  /\ 0 <= Occupancy(schedule', e, i)
                        /\ Occupancy(schedule', e, i) <= bMax'[e]
    BY <1>3 DEF Within
  <2>2. CASE i = k + 1
    BY <1>4, <2>2
  <2>3. CASE i # k + 1
    <3>1. i \in 0 .. k /\ i \in Nat
      BY <1>3, <2>3
    <3>2. Occupancy(schedule', e, i) = Occupancy(schedule, e, i)
      BY <1>1, <1>2, <3>1, OccupancyAppend
    <3>3. 0 <= Occupancy(schedule, e, i) /\ Occupancy(schedule, e, i) <= bMax[e]
      BY <1>1, <3>1 DEF Within
    <3>4. Occupancy(schedule, e, i) \in Int
      BY <1>1, <3>1, OccupancyIs
    <3>5. bMax[e] \in Nat /\ bMax'[e] \in Nat /\ bMax[e] <= bMax'[e]
      BY <1>1
    <3> HIDE DEF k
    <3>6. QED
      BY <3>2, <3>3, <3>4, <3>5
  <2>4. QED
    BY <2>2, <2>3
<1>6. Plans'
  BY <1>1, <1>2, <1>3, <1>5 DEF Plans
<1>7. b' = [e \in graph.edges |-> Occupancy(schedule', e, k + 1)]
  <2>1. NewB(x) = [e \in graph.edges |-> NewB(x)[e]]
    BY DEF NewB
  <2> HIDE DEF k
  <2>2. QED
    BY <1>2, <1>4, <2>1
<1>8. /\ initN \in NullVectors(graph)
      /\ n \in [Nodes(graph) -> Nat] /\ positionInCycle \in [Nodes(graph) -> Nat]
      /\ \A y \in Nodes(graph) :
           /\ n[y] <= initN[y]
           /\ positionInCycle[y] < CP(y)
           /\ n[y] = 0 => positionInCycle[y] = 0
           /\ Count(schedule, y, k) = (initN[y] - n[y]) * CP(y) + positionInCycle[y]
  BY DEF Simulates
<1>9. \A y \in Nodes(graph) : initN[y] \in Nat /\ CP(y) \in Nat \ {0}
  <2>1. initN \in [Nodes(graph) -> 1 .. MaxRepetition]
    BY <1>8, NullVectorIs
  <2>2. \A y \in Nodes(graph) : initN[y] \in Nat
    BY <2>1, BoundsAssumption
  <2>3. QED
    BY <1>1, <2>2, CyclePeriodIs
<1>10. \A y \in Nodes(graph) :
         Count(schedule', y, k + 1)
           = Count(schedule, y, k) + (IF y = x THEN 1 ELSE 0)
  <2>1. SUFFICES ASSUME NEW y \in Nodes(graph)
                 PROVE  Count(schedule', y, k + 1)
                          = Count(schedule, y, k) + (IF y = x THEN 1 ELSE 0)
    OBVIOUS
  <2>2. k \in 0 .. Len(schedule)
    BY <1>3
  <2>3. Count(schedule', y, k) = Count(schedule, y, k)
    BY <1>1, <1>2, <2>2, CountAppend
  <2> HIDE DEF k
  <2>4. Count(schedule', y, k + 1)
          = Count(schedule', y, k) + (IF schedule'[k + 1] = y THEN 1 ELSE 0)
    <3>1. k \in Nat
      BY <1>3
    <3>2. QED
      BY <3>1, CountIs
  <2>5. QED
    BY <1>3, <2>3, <2>4
<1> DEFINE next == positionInCycle[x] + 1
<1>11. IF next = CP(x)
       THEN /\ positionInCycle' = [positionInCycle EXCEPT ![x] = 0]
            /\ n' = [n EXCEPT ![x] = n[x] - 1]
       ELSE /\ positionInCycle' = [positionInCycle EXCEPT ![x] = next]
            /\ n' = n
  BY DEF Execute
<1>12. n[x] \in Nat \ {0} /\ positionInCycle[x] \in Nat /\ next \in Nat
  BY <1>8
<1> HIDE DEF k
<1>13. n' \in [Nodes(graph) -> Nat] /\ positionInCycle' \in [Nodes(graph) -> Nat]
  <2>1. CASE next = CP(x)
    <3>1. n[x] - 1 \in Nat
      BY <1>12
    <3>2. QED
      BY <1>8, <1>11, <2>1, <3>1
  <2>2. CASE next # CP(x)
    BY <1>8, <1>11, <1>12, <2>2
  <2>3. QED
    BY <2>1, <2>2
<1>14. ASSUME NEW y \in Nodes(graph), y # x
       PROVE  n'[y] = n[y] /\ positionInCycle'[y] = positionInCycle[y]
  <2>1. CASE next = CP(x)
    BY <1>8, <1>11, <1>14, <2>1
  <2>2. CASE next # CP(x)
    BY <1>8, <1>11, <1>14, <2>2
  <2>3. QED
    BY <2>1, <2>2
<1>15. ASSUME NEW y \in Nodes(graph)
       PROVE  /\ n'[y] <= initN[y]
              /\ positionInCycle'[y] < CP(y)
              /\ n'[y] = 0 => positionInCycle'[y] = 0
              /\ Count(schedule', y, k + 1)
                   = (initN[y] - n'[y]) * CP(y) + positionInCycle'[y]
  <2>1. CASE y # x
    <3>1. Count(schedule, y, k) \in Nat
      BY <1>3, CountIs
    <3>2. Count(schedule', y, k + 1) = Count(schedule, y, k)
      BY <1>10, <2>1, <3>1
    <3>3. n'[y] = n[y] /\ positionInCycle'[y] = positionInCycle[y]
      BY <1>14, <2>1
    <3> HIDE DEF CP
    <3>4. QED
      BY <1>8, <3>2, <3>3
  <2>2. CASE y = x /\ next = CP(x)
    <3>1. n'[x] = n[x] - 1 /\ positionInCycle'[x] = 0
      BY <1>8, <1>11, <2>2
    <3>2. /\ initN[x] \in Nat /\ CP(x) \in Nat \ {0} /\ n[x] <= initN[x]
          /\ Count(schedule, x, k) = (initN[x] - n[x]) * CP(x) + positionInCycle[x]
          /\ Count(schedule', x, k + 1) = Count(schedule, x, k) + 1
      BY <1>8, <1>9, <1>10
    <3> DEFINE i == initN[x] - n[x]
    <3>3. i \in Nat
      BY <1>12, <3>2
    <3>4. initN[x] - (n[x] - 1) = i + 1
      BY <1>12, <3>2
    <3>5. (i + 1) * CP(x) = i * CP(x) + CP(x) /\ i * CP(x) \in Nat
      BY <3>2, <3>3
    <3> HIDE DEF CP, i
    <3>6. Count(schedule', x, k + 1) = i * CP(x) + positionInCycle[x] + 1
      BY <3>2 DEF i
    <3>7. Count(schedule', x, k + 1) = (i + 1) * CP(x) + 0
      BY <1>12, <2>2, <3>2, <3>5, <3>6
    <3>8. n[x] - 1 <= initN[x] /\ 0 < CP(x)
      BY <1>12, <3>2
    <3>9. QED
      BY <2>2, <3>1, <3>4, <3>7, <3>8
  <2>3. CASE y = x /\ next # CP(x)
    <3>1. n'[x] = n[x] /\ positionInCycle'[x] = next
      BY <1>8, <1>11, <2>3
    <3>2. /\ initN[x] \in Nat /\ CP(x) \in Nat \ {0} /\ n[x] <= initN[x]
          /\ Count(schedule, x, k) = (initN[x] - n[x]) * CP(x) + positionInCycle[x]
          /\ Count(schedule', x, k + 1) = Count(schedule, x, k) + 1
          /\ positionInCycle[x] < CP(x)
      BY <1>8, <1>9, <1>10
    <3>3. (initN[x] - n[x]) * CP(x) \in Nat
      <4>1. initN[x] - n[x] \in Nat
        BY <1>12, <3>2
      <4> HIDE DEF CP
      <4>2. \A i, j \in Nat : i * j \in Nat
        OBVIOUS
      <4>3. QED
        BY <3>2, <4>1, <4>2
    <3> HIDE DEF CP
    <3>4. next < CP(x)
      BY <1>12, <2>3, <3>2
    <3>5. Count(schedule', x, k + 1) = (initN[x] - n[x]) * CP(x) + next
      BY <1>12, <3>2, <3>3
    <3>6. n[x] # 0
      BY <1>12
    <3>7. QED
      BY <2>3, <3>1, <3>2, <3>4, <3>5, <3>6
  <2>4. QED
    BY <2>1, <2>2, <2>3
<1>16. Simulates'
  BY <1>2, <1>3, <1>7, <1>8, <1>13, <1>15 DEF Simulates
<1>17. QED
  BY <1>6, <1>16
-----------------------------------------------------------------------------
(* Finished, or unable to go on.                                            *)

Done(x) == Count(schedule, x, Len(schedule))

LEMMA DoneIs ==
  ASSUME Plans, Simulates, NEW x \in Nodes(graph)
  PROVE  /\ Done(x) \in Nat /\ Period[x] \in Nat \ {0}
         /\ Done(x) <= Period[x]
         /\ Done(x) = Period[x] <=> n[x] = 0
<1> DEFINE c == CyclePeriod(graph, x)
           i == initN[x] - n[x]
<1>1. c \in Nat \ {0}
  BY CyclePeriodIs DEF Plans
<1>2. initN \in [Nodes(graph) -> 1 .. MaxRepetition]
  BY NullVectorIs DEF Simulates
<1>3. initN[x] \in Nat \ {0}
  BY <1>2, BoundsAssumption
<1>4. /\ n[x] \in Nat /\ n[x] <= initN[x] /\ positionInCycle[x] \in Nat
      /\ positionInCycle[x] < c /\ (n[x] = 0 => positionInCycle[x] = 0)
      /\ Done(x) = i * c + positionInCycle[x]
  BY DEF Simulates, Done
<1>5. Period[x] = initN[x] * c
  BY DEF Period
<1> HIDE DEF c
<1>6. i \in Nat /\ initN[x] = i + n[x]
  BY <1>3, <1>4
<1> HIDE DEF i
<1>7. initN[x] * c = i * c + n[x] * c
  BY <1>1, <1>4, <1>6
<1>8. i * c \in Nat /\ initN[x] * c \in Nat \ {0}
  BY <1>1, <1>3, <1>6
<1>9. CASE n[x] = 0
  <2>1. n[x] * c = 0
    BY <1>1, <1>9
  <2>2. QED
    BY <1>4, <1>5, <1>7, <1>8, <1>9, <2>1
<1>10. CASE n[x] # 0
  <2>1. n[x] * c >= c
    BY <1>1, <1>4, <1>10
  <2>2. QED
    BY <1>1, <1>4, <1>5, <1>7, <1>8, <1>10, <2>1
<1>11. QED
  BY <1>9, <1>10

(* A finished simulation is a period.                                       *)
LEMMA FinishedIsPeriodic ==
  ASSUME Plans, Simulates, Finished
  PROVE  /\ \A x \in Nodes(graph) : /\ Done(x) = Period[x]
                                    /\ positionInCycle[x] = 0
         /\ \A e \in graph.edges : /\ Occupancy(schedule, e, Len(schedule)) = e.delay
                                   /\ b[e] = e.delay
<1>1. \A x \in Nodes(graph) : Done(x) = Period[x] /\ positionInCycle[x] = 0
  BY DoneIs DEF Finished, Simulates
<1>2. ASSUME NEW e \in graph.edges
      PROVE  Occupancy(schedule, e, Len(schedule)) = e.delay
  <2>1. e.src \in Nodes(graph) /\ e.dst \in Nodes(graph)
    BY EndsAreNodes
  <2>2. /\ Count(schedule, e.src, Len(schedule)) = initN[e.src] * CyclePeriod(graph, e.src)
        /\ Count(schedule, e.dst, Len(schedule)) = initN[e.dst] * CyclePeriod(graph, e.dst)
    BY <1>1, <2>1 DEF Done, Period
  <2>3. Moved(e.prod, initN[e.src] * CyclePeriod(graph, e.src))
          = Moved(e.cons, initN[e.dst] * CyclePeriod(graph, e.dst))
    BY PeriodsBalance DEF Plans, Simulates
  <2>4. e.delay \in Nat /\ IsRates(e.prod)
    BY DEF Plans, IsSchedulable
  <2>5. Moved(e.prod, Count(schedule, e.src, Len(schedule))) \in Nat
    <3>1. Count(schedule, e.src, Len(schedule)) \in Nat
      BY <2>1, DoneIs DEF Done
    <3>2. QED
      BY <2>4, <3>1, MovedIs
  <2>6. QED
    BY <2>2, <2>3, <2>4, <2>5 DEF Occupancy
<1>3. QED
  BY <1>1, <1>2 DEF Simulates

(* A node that another order of executions lets run, when all the others    *)
(* have run at most as often as here, can run here too.                     *)
LEMMA NextCanRun ==
  ASSUME Plans, Simulates, NEW x \in Nodes(graph), Done(x) < Period[x],
         NEW c, \A y \in Nodes(graph) : c[y] \in Nat /\ c[y] <= Done(y),
         \A e \in graph.edges : e.dst = x =>
           e.delay + Moved(e.prod, c[e.src]) >= Moved(e.cons, Done(x) + 1)
  PROVE  Runnable(x)
<1>1. Len(schedule) \in Nat
  BY DEF Plans
<1>2. n[x] > 0
  <2>1. n[x] # 0 /\ n[x] \in Nat
    BY DoneIs DEF Simulates
  <2>2. QED
    BY <2>1
<1>3. ASSUME NEW e \in graph.edges PROVE NewB(x)[e] >= 0
  <2>1. /\ IsSchedulable(graph) /\ e.src # e.dst /\ e.delay \in Nat
        /\ IsRates(e.prod) /\ IsRates(e.cons)
    BY DEF Plans, IsSchedulable
  <2>2. e.src \in Nodes(graph) /\ e.dst \in Nodes(graph)
    BY EndsAreNodes
  <2>3. /\ Done(e.src) \in Nat /\ Done(e.dst) \in Nat /\ c[e.src] \in Nat
        /\ c[e.src] <= Done(e.src)
    BY <2>2, DoneIs
  <2>4. /\ NewB(x)[e] \in Int
        /\ NewB(x)[e] = b[e]
             + (IF e.src = x THEN CycleValue(e.prod, Done(e.src)) ELSE 0)
             - (IF e.dst = x THEN CycleValue(e.cons, Done(e.dst)) ELSE 0)
    BY NewBIs DEF Done
  <2>5. /\ b[e] = e.delay + Moved(e.prod, Done(e.src)) - Moved(e.cons, Done(e.dst))
        /\ b[e] >= 0
    <3>1. b[e] = Occupancy(schedule, e, Len(schedule))
      BY DEF Simulates
    <3>2. 0 <= Occupancy(schedule, e, Len(schedule))
      BY <1>1 DEF Plans, Within
    <3>3. Occupancy(schedule, e, Len(schedule)) \in Int
      BY <1>1, <2>1, OccupancyIs
    <3>4. QED
      BY <3>1, <3>2, <3>3 DEF Occupancy, Done
  <2>6. /\ CycleValue(e.prod, Done(e.src)) \in Nat
        /\ CycleValue(e.cons, Done(e.dst)) \in Nat
        /\ Moved(e.prod, Done(e.src)) \in Nat
        /\ Moved(e.prod, c[e.src]) \in Nat
        /\ Moved(e.cons, Done(e.dst)) \in Nat
        /\ Moved(e.cons, Done(e.dst) + 1)
             = Moved(e.cons, Done(e.dst)) + CycleValue(e.cons, Done(e.dst))
    BY <2>1, <2>3, CycleValueIs, MovedIs
  <2>7. CASE e.dst = x
    <3>1. Moved(e.prod, c[e.src]) <= Moved(e.prod, Done(e.src))
      BY <2>1, <2>3, MovedGrows
    <3>2. e.delay + Moved(e.prod, c[e.src]) >= Moved(e.cons, Done(e.dst) + 1)
      BY <2>7
    <3>3. QED
      BY <2>1, <2>4, <2>5, <2>6, <2>7, <3>1, <3>2
  <2>8. CASE e.dst # x
    <3>1. b[e] \in Int
      BY <2>1, <2>5, <2>6
    <3>2. QED
      BY <2>4, <2>5, <2>6, <2>8, <3>1
  <2>9. QED
    BY <2>7, <2>8
<1>4. QED
  BY <1>2, <1>3 DEF Runnable

After(c, x) == [c EXCEPT ![x] = c[x] + 1]
Valid(g, c) == \A e \in g.edges :
                 e.delay + Moved(e.prod, c[e.src]) >= Moved(e.cons, c[e.dst])
Further(g, goal, S) ==
  UNION {{After(c, x) : x \in {y \in Nodes(g) :
            c[y] < goal[y] /\ Valid(g, After(c, y))}} : c \in S}
Nothing(g) == [x \in Nodes(g) |-> 0]

ReachOf(g, goal, f) ==
  f = [k \in Nat |-> IF k = 0 THEN {Nothing(g)} ELSE Further(g, goal, f[k - 1])]

LEMMA ReachableIs ==
  ASSUME NEW g, IsFiniteSet(Nodes(g)), NEW goal
  PROVE  \E f : \E k \in Nat :
           ReachOf(g, goal, f) /\ Reachable(g, goal) = f[k]
<1> DEFINE D == SUBSET [Nodes(g) -> Nat]
           next == [k \in Nat |-> [S \in D |-> Further(g, goal, S)]]
           T == {p \in Nodes(g) \X (1 .. MaxRepetition * MaxPeriod) :
                   p[2] <= goal[p[1]]}
           f == CHOOSE h : ReachOf(g, goal, h)
<1>1. \A S \in D : Further(g, goal, S) \in D
  <2>1. SUFFICES ASSUME NEW S \in D, NEW d \in Further(g, goal, S)
                 PROVE  d \in [Nodes(g) -> Nat]
    OBVIOUS
  <2>2. PICK c \in S : d \in {After(c, x) : x \in {y \in Nodes(g) :
            c[y] < goal[y] /\ Valid(g, After(c, y))}}
    BY <2>1 DEF Further
  <2>3. PICK x \in Nodes(g) : d = After(c, x)
    BY <2>2
  <2>4. c \in [Nodes(g) -> Nat]
    BY <2>2
  <2>5. c[x] + 1 \in Nat
    BY <2>4
  <2>6. QED
    BY <2>3, <2>4, <2>5 DEF After
<1>2. {Nothing(g)} \in D
  BY DEF Nothing
<1>3. next \in [Nat -> [D -> D]] /\ \A k \in Nat : \A S \in D : next[k][S] = Further(g, goal, S)
  <2> HIDE DEF D
  <2>1. QED
    BY <1>1
<1>4. PICK h \in [Nat -> D] : Follows({Nothing(g)}, next, h)
  <2> HIDE DEF D, next, f
  <2>1. QED
    BY <1>2, <1>3, Recursion
<1> HIDE DEF D, next
<1>5. ReachOf(g, goal, h)
  <2>1. ASSUME NEW k \in Nat, k # 0 PROVE h[k] = Further(g, goal, h[k - 1])
    <3>1. k - 1 \in Nat /\ k - 1 + 1 = k
      BY <2>1
    <3>2. h[k - 1] \in D
      BY <3>1
    <3>3. h[k] = next[k][h[k - 1]]
      BY <1>4, <3>1 DEF Follows
    <3>4. QED
      BY <1>3, <3>2, <3>3
  <2>2. h[0] = {Nothing(g)}
    BY <1>4 DEF Follows
  <2>3. h = [k \in Nat |-> h[k]]
    OBVIOUS
  <2>4. QED
    BY <2>1, <2>2, <2>3 DEF ReachOf
<1>6. ReachOf(g, goal, f)
  BY <1>5
<1>7. Cardinality(T) \in Nat
  <2>1. MaxRepetition * MaxPeriod \in Nat
    BY BoundsAssumption
  <2>2. IsFiniteSet(1 .. MaxRepetition * MaxPeriod)
    BY <2>1, FS_Interval
  <2>3. IsFiniteSet(Nodes(g) \X (1 .. MaxRepetition * MaxPeriod))
    BY <2>2, FS_Product
  <2>4. T \in SUBSET (Nodes(g) \X (1 .. MaxRepetition * MaxPeriod))
    OBVIOUS
  <2> HIDE DEF T
  <2>5. QED
    BY <2>3, <2>4, FS_Subset, FS_CardinalityType
<1>8. Reachable(g, goal) = f[Cardinality(T)]
  BY DEF Reachable, ReachOf, Further, After, Valid, Nothing
<1>9. QED
  BY <1>6, <1>7, <1>8

(* When no node can run and some have not finished, no order of executions  *)
(* ever gets further than the simulation has, for any of the nodes.         *)
LEMMA NothingReachable ==
  ASSUME Plans, Simulates, ~Finished, \A x \in Nodes(graph) : ~Runnable(x)
  PROVE  Period \notin Reachable(graph, Period)
<1> DEFINE Bound == {c \in [Nodes(graph) -> Nat] :
                       \A x \in Nodes(graph) : c[x] <= Done(x)}
<1>1. IsFiniteSet(Nodes(graph))
  BY DEF Plans, IsSchedulable
<1>2. PICK f : \E k \in Nat :
         ReachOf(graph, Period, f) /\ Reachable(graph, Period) = f[k]
  BY <1>1, ReachableIs
<1>3. PICK k \in Nat :
         ReachOf(graph, Period, f) /\ Reachable(graph, Period) = f[k]
  BY <1>2
<1>4. \A x \in Nodes(graph) : Done(x) \in Nat /\ Period[x] \in Nat
  BY DoneIs
<1>5. Nothing(graph) \in Bound
  BY <1>4 DEF Nothing
<1>6. ASSUME NEW c \in Bound, NEW x \in Nodes(graph), c[x] < Period[x],
             Valid(graph, After(c, x))
      PROVE  After(c, x) \in Bound
  <2>1. c \in [Nodes(graph) -> Nat] /\ \A y \in Nodes(graph) : c[y] <= Done(y)
    OBVIOUS
  <2>2. /\ After(c, x) \in [Nodes(graph) -> Nat]
        /\ After(c, x)[x] = c[x] + 1
        /\ \A y \in Nodes(graph) : y # x => After(c, x)[y] = c[y]
    BY <2>1 DEF After
  <2>3. c[x] # Done(x)
    <3>1. SUFFICES ASSUME c[x] = Done(x) PROVE FALSE
      OBVIOUS
    <3>2. ASSUME NEW e \in graph.edges, e.dst = x
          PROVE  e.delay + Moved(e.prod, c[e.src]) >= Moved(e.cons, Done(x) + 1)
      <4>1. e.src # x /\ e.src \in Nodes(graph)
        BY <3>2, EndsAreNodes DEF Plans
      <4>2. e.delay + Moved(e.prod, After(c, x)[e.src])
              >= Moved(e.cons, After(c, x)[e.dst])
        BY <1>6 DEF Valid
      <4>3. QED
        BY <2>2, <3>1, <3>2, <4>1, <4>2
    <3>3. Done(x) < Period[x]
      BY <1>6, <3>1
    <3>4. \A y \in Nodes(graph) : c[y] \in Nat /\ c[y] <= Done(y)
      BY <2>1
    <3>5. Runnable(x)
      BY <3>2, <3>3, <3>4, NextCanRun
    <3>6. QED
      BY <3>5
  <2>4. c[x] + 1 <= Done(x)
    BY <1>4, <2>1, <2>3
  <2>5. QED
    BY <2>1, <2>2, <2>4
<1>7. \A S : S \subseteq Bound => Further(graph, Period, S) \subseteq Bound
  <2>1. SUFFICES ASSUME NEW S, S \subseteq Bound,
                        NEW d \in Further(graph, Period, S)
                 PROVE  d \in Bound
    OBVIOUS
  <2>2. PICK c \in S : d \in {After(c, x) : x \in {y \in Nodes(graph) :
            c[y] < Period[y] /\ Valid(graph, After(c, y))}}
    BY <2>1 DEF Further
  <2>3. PICK x \in Nodes(graph) : /\ d = After(c, x) /\ c[x] < Period[x]
                                  /\ Valid(graph, After(c, x))
    BY <2>2
  <2>4. c \in Bound
    BY <2>1
  <2> HIDE DEF Bound
  <2>5. QED
    BY <1>6, <2>3, <2>4
<1> HIDE DEF Bound
<1>8. f[0] = {Nothing(graph)}
      /\ \A j \in Nat : j # 0 => f[j] = Further(graph, Period, f[j - 1])
  BY <1>3 DEF ReachOf
<1> DEFINE P == {j \in Nat : f[j] \subseteq Bound}
<1>9. 0 \in P
  BY <1>5, <1>8
<1>10. \A j \in Nat : j \in P => j + 1 \in P
  <2>1. SUFFICES ASSUME NEW j \in Nat, f[j] \subseteq Bound
                 PROVE  f[j + 1] \subseteq Bound
    OBVIOUS
  <2>2. j + 1 \in Nat /\ j + 1 # 0 /\ j + 1 - 1 = j
    OBVIOUS
  <2>3. f[j + 1] = Further(graph, Period, f[j])
    BY <1>8, <2>2
  <2>4. QED
    BY <1>7, <2>1, <2>3
<1>11. \A j \in Nat : j \in P
  <2> HIDE DEF P
  <2>1. QED
    BY <1>9, <1>10, Induction
<1>12. f[k] \subseteq Bound
  BY <1>11
<1>13. Period \notin Bound
  <2>1. PICK x \in Nodes(graph) : n[x] # 0
    BY DEF Finished
  <2>2. Done(x) < Period[x]
    BY <2>1, DoneIs
  <2>3. QED
    BY <1>4, <2>2 DEF Bound
<1>14. QED
  BY <1>3, <1>12, <1>13

(* A schedule of a whole period within the lengths.                         *)
Completes(w) ==
  /\ w \in Seq(Nodes(graph)) /\ Within(graph, w, bMax)
  /\ \A x \in Nodes(graph) : Count(w, x, Len(w)) = Period[x]

(* With priority to the sinks, there is always a node that fits within the  *)
(* lengths: the first one with which the other schedule gets further.       *)
LEMMA SinksGoOn ==
  ASSUME Plans, Simulates, ~Finished, NEW w, Completes(w)
  PROVE  \E x \in Nodes(graph) : FitsIn(x)
<1> DEFINE T == {k \in 0 .. Len(w) :
                   \E y \in Nodes(graph) : Count(w, y, k) > Done(y)}
<1>1. /\ w \in Seq(Nodes(graph)) /\ Len(w) \in Nat /\ Within(graph, w, bMax)
      /\ \A x \in Nodes(graph) : Count(w, x, Len(w)) = Period[x]
  BY DEF Completes
<1>2. \A x \in Nodes(graph) : /\ Done(x) \in Nat /\ Period[x] \in Nat
                              /\ (Done(x) = Period[x] <=> n[x] = 0)
                              /\ Done(x) <= Period[x]
  BY DoneIs
<1>3. Len(w) \in T
  <2>1. PICK x \in Nodes(graph) : n[x] # 0
    BY DEF Finished
  <2>2. Count(w, x, Len(w)) > Done(x)
    BY <1>1, <1>2, <2>1
  <2>3. QED
    BY <1>1, <2>2
<1>4. PICK k \in T : \A j \in T : k <= j
  <2>1. T \subseteq Nat
    OBVIOUS
  <2>2. QED
    <3> HIDE DEF T
    <3>1. QED
      BY <1>3, <2>1, Least
<1>5. PICK x \in Nodes(graph) : Count(w, x, k) > Done(x)
  OBVIOUS
<1>6. k \in 0 .. Len(w) /\ k \in Nat
  OBVIOUS
<1>7. k # 0
  <2>1. Count(w, x, 0) = 0
    BY CountIs, <1>6
  <2>2. QED
    BY <1>2, <1>5, <2>1
<1> DEFINE i == k - 1
<1>8. i \in Nat /\ i \in 0 .. Len(w) /\ i + 1 = k
  BY <1>6, <1>7
<1>9. i \notin T
  BY <1>4, <1>8
<1>10. \A y \in Nodes(graph) : Count(w, y, i) <= Done(y) /\ Count(w, y, i) \in Nat
  <2>1. \A y \in Nodes(graph) : Count(w, y, i) \in Nat
    BY <1>8, CountIs
  <2>2. \A y \in Nodes(graph) : ~(Count(w, y, i) > Done(y))
    BY <1>8, <1>9
  <2> HIDE DEF i
  <2>3. QED
    BY <1>2, <2>1, <2>2
<1> HIDE DEF i, T
<1>11. \A y \in Nodes(graph) :
         Count(w, y, k) = Count(w, y, i) + (IF w[k] = y THEN 1 ELSE 0)
  <2>1. SUFFICES ASSUME NEW y \in Nodes(graph)
                 PROVE  Count(w, y, k) = Count(w, y, i) + (IF w[k] = y THEN 1 ELSE 0)
    OBVIOUS
  <2>2. Count(w, y, i + 1) = Count(w, y, i) + (IF w[i + 1] = y THEN 1 ELSE 0)
    <3>1. i \in Nat
      BY <1>8
    <3>2. QED
      BY <3>1, CountIs
  <2>3. QED
    BY <1>8, <2>2
<1>12. /\ w[k] = x /\ Count(w, x, i) = Done(x) /\ Count(w, x, k) = Done(x) + 1
       /\ \A y \in Nodes(graph) : y # x => Count(w, y, k) = Count(w, y, i)
  <2>1. w[k] = x
    <3>1. Count(w, x, k) = Count(w, x, i) + (IF w[k] = x THEN 1 ELSE 0)
      BY <1>11
    <3>2. Count(w, x, i) <= Done(x) /\ Count(w, x, i) \in Nat /\ Done(x) \in Nat
      BY <1>2, <1>10
    <3>3. QED
      BY <1>5, <3>1, <3>2
  <2>2. Count(w, x, k) = Count(w, x, i) + 1
    BY <1>11, <2>1
  <2>3. Count(w, x, i) = Done(x)
    BY <1>2, <1>5, <1>10, <2>2
  <2>4. \A y \in Nodes(graph) : y # x => Count(w, y, k) = Count(w, y, i)
    <3>1. \A y \in Nodes(graph) : y # x => Count(w, y, k) = Count(w, y, i) + 0
      BY <1>11, <2>1
    <3>2. QED
      BY <1>10, <3>1
  <2>5. QED
    BY <2>1, <2>2, <2>3, <2>4
<1>13. Done(x) < Period[x]
  <2>1. Count(w, x, k) <= Count(w, x, Len(w))
    BY <1>1, <1>6, CountGrows
  <2>2. QED
    BY <1>1, <1>2, <1>12, <2>1
<1>14. ASSUME NEW e \in graph.edges
       PROVE  /\ e.src # e.dst /\ e.src \in Nodes(graph) /\ e.dst \in Nodes(graph)
              /\ e.delay \in Nat /\ IsRates(e.prod) /\ IsRates(e.cons)
              /\ Occupancy(w, e, k) = e.delay + Moved(e.prod, Count(w, e.src, k))
                                              - Moved(e.cons, Count(w, e.dst, k))
              /\ Moved(e.prod, Count(w, e.src, k)) \in Nat
              /\ Moved(e.cons, Count(w, e.dst, k)) \in Nat
              /\ 0 <= Occupancy(w, e, k) /\ Occupancy(w, e, k) <= bMax[e]
              /\ bMax[e] \in Nat
  <2>1. /\ e.src # e.dst /\ e.src \in Nodes(graph) /\ e.dst \in Nodes(graph)
        /\ e.delay \in Nat /\ IsRates(e.prod) /\ IsRates(e.cons)
        /\ bMax[e] \in Nat
    BY EndsAreNodes DEF Plans, IsSchedulable
  <2>2. Count(w, e.src, k) \in Nat /\ Count(w, e.dst, k) \in Nat
    BY <1>6, CountIs
  <2>3. /\ Moved(e.prod, Count(w, e.src, k)) \in Nat
        /\ Moved(e.cons, Count(w, e.dst, k)) \in Nat
    BY <2>1, <2>2, MovedIs
  <2>4. 0 <= Occupancy(w, e, k) /\ Occupancy(w, e, k) <= bMax[e]
    BY <1>1, <1>6 DEF Within
  <2>5. QED
    BY <2>1, <2>3, <2>4 DEF Occupancy
<1>15. Runnable(x)
  <2> DEFINE c == [y \in Nodes(graph) |-> Count(w, y, i)]
  <2>1. \A y \in Nodes(graph) : c[y] \in Nat /\ c[y] <= Done(y)
    BY <1>10
  <2>2. ASSUME NEW e \in graph.edges, e.dst = x
        PROVE  e.delay + Moved(e.prod, c[e.src]) >= Moved(e.cons, Done(x) + 1)
    <3>1. c[e.src] = Count(w, e.src, k) /\ Count(w, e.dst, k) = Done(x) + 1
      BY <1>12, <1>14, <2>2
    <3> HIDE DEF c
    <3>2. QED
      BY <1>14, <3>1
  <2> HIDE DEF c
  <2>3. QED
    BY <1>13, <2>1, <2>2, NextCanRun
<1>16. ASSUME NEW e \in graph.edges PROVE NewB(x)[e] <= bMax[e]
  <2>1. Done(e.src) \in Nat /\ Done(e.dst) \in Nat
    BY <1>2, <1>14
  <2>2. /\ NewB(x)[e] \in Int
        /\ NewB(x)[e] = b[e]
             + (IF e.src = x THEN CycleValue(e.prod, Done(e.src)) ELSE 0)
             - (IF e.dst = x THEN CycleValue(e.cons, Done(e.dst)) ELSE 0)
    BY NewBIs DEF Done
  <2>3. /\ b[e] = e.delay + Moved(e.prod, Done(e.src)) - Moved(e.cons, Done(e.dst))
        /\ b[e] <= bMax[e]
    <3>1. b[e] = Occupancy(schedule, e, Len(schedule))
      BY DEF Simulates
    <3>2. Len(schedule) \in 0 .. Len(schedule)
      BY DEF Plans
    <3>3. Occupancy(schedule, e, Len(schedule)) <= bMax[e]
      BY <3>2 DEF Plans, Within
    <3>4. QED
      BY <3>1, <3>3 DEF Occupancy, Done
  <2>4. /\ CycleValue(e.prod, Done(e.src)) \in Nat
        /\ CycleValue(e.cons, Done(e.dst)) \in Nat
        /\ Moved(e.prod, Done(e.src)) \in Nat
        /\ Moved(e.cons, Done(e.dst)) \in Nat
        /\ Moved(e.prod, Done(e.src) + 1)
             = Moved(e.prod, Done(e.src)) + CycleValue(e.prod, Done(e.src))
    BY <1>14, <2>1, CycleValueIs, MovedIs
  <2>5. b[e] \in Int
    BY <1>14, <2>3, <2>4
  <2>6. CASE e.src = x
    <3>1. e.dst # x
      BY <1>14, <2>6
    <3>2. /\ Count(w, e.src, k) = Done(e.src) + 1
          /\ Count(w, e.dst, k) <= Done(e.dst) /\ Count(w, e.dst, k) \in Nat
      BY <1>10, <1>12, <1>14, <2>6, <3>1
    <3>3. Moved(e.cons, Count(w, e.dst, k)) <= Moved(e.cons, Done(e.dst))
      BY <1>14, <2>1, <3>2, MovedGrows
    <3>4. NewB(x)[e] = b[e] + CycleValue(e.prod, Done(e.src))
      BY <2>2, <2>4, <2>5, <2>6, <3>1
    <3>5. NewB(x)[e] <= Occupancy(w, e, k)
      BY <1>14, <2>3, <2>4, <3>2, <3>3, <3>4
    <3>6. QED
      <4>1. Occupancy(w, e, k) <= bMax[e] /\ bMax[e] \in Nat
            /\ Occupancy(w, e, k) \in Int
        BY <1>14
      <4>2. QED
        BY <2>2, <3>5, <4>1
  <2>7. CASE e.src # x
    BY <1>14, <2>2, <2>3, <2>4, <2>5, <2>7
  <2>8. QED
    BY <2>6, <2>7
<1>17. QED
  BY <1>15, <1>16 DEF FitsIn
-----------------------------------------------------------------------------
(* The invariant of the scheduling, and of what it leaves to the program.   *)

Simulating == {"greedy", "sinks", "scheduled"}
Planned == Simulating \cup {"allocated", "running", "left"}

(* What the loop needs of the schedule that it repeats: the contents of the *)
(* FIFOs and the positions in the rates come back.                          *)
Repeats ==
  /\ schedule # <<>>
  /\ \A e \in graph.edges :
       /\ Occupancy(schedule, e, Len(schedule)) = e.delay
       /\ \E p, c \in Nat :
            /\ Count(schedule, e.src, Len(schedule)) = p * Len(e.prod)
            /\ Count(schedule, e.dst, Len(schedule)) = c * Len(e.cons)

LayersHoldNodes == \A k \in DOMAIN layers : layers[k] \in Seq(Nodes(graph))

ScheduleInv ==
  /\ phase = "described" => graph \in InputGraphs
  /\ phase = "expanded" => IsSchedulable(graph)
  /\ phase \in {"described", "expanded"} => schedule = <<>>
  /\ phase \in Planned => Plans
  /\ phase \in Simulating => Simulates
  /\ phase = "scheduled" => Finished
  /\ phase \in {"greedy", "sinks"} => LayersHoldNodes
  /\ phase = "sinks" => \E w : Completes(w)
  /\ phase \in {"allocated", "running", "left"} => Repeats
  /\ phase = "DeadlockError" => Period \notin Reachable(graph, Period)

LEMMA FinishedRepeats ==
  ASSUME Plans, Simulates, Finished
  PROVE  Repeats
<1>1. schedule # <<>>
  <2>1. PICK x \in Nodes(graph) : TRUE
    BY DEF Plans, IsSchedulable
  <2>2. Done(x) # 0
    BY DoneIs, FinishedIsPeriodic
  <2>3. Count(<<>>, x, 0) = 0 /\ Len(<<>>) = 0
    <3>1. 0 \in Nat
      OBVIOUS
    <3>2. QED
      BY <3>1, CountIs
  <2>4. QED
    BY <2>2, <2>3 DEF Done
<1>2. ASSUME NEW e \in graph.edges
      PROVE  \E p, c \in Nat :
               /\ Count(schedule, e.src, Len(schedule)) = p * Len(e.prod)
               /\ Count(schedule, e.dst, Len(schedule)) = c * Len(e.cons)
  <2> DEFINE p == CyclePeriod(graph, e.src) \div Len(e.prod)
             c == CyclePeriod(graph, e.dst) \div Len(e.cons)
  <2>1. e.src \in Nodes(graph) /\ e.dst \in Nodes(graph)
    BY EndsAreNodes
  <2>2. /\ p \in Nat /\ CyclePeriod(graph, e.src) = p * Len(e.prod)
        /\ c \in Nat /\ CyclePeriod(graph, e.dst) = c * Len(e.cons)
    BY EdgePeriods DEF Plans
  <2>3. /\ Count(schedule, e.src, Len(schedule)) = initN[e.src] * (p * Len(e.prod))
        /\ Count(schedule, e.dst, Len(schedule)) = initN[e.dst] * (c * Len(e.cons))
    BY <2>1, <2>2, FinishedIsPeriodic DEF Done, Period
  <2>4. initN[e.src] \in Nat /\ initN[e.dst] \in Nat
    <3>1. initN \in [Nodes(graph) -> 1 .. MaxRepetition]
      BY NullVectorIs DEF Simulates
    <3>2. QED
      BY <2>1, <3>1, BoundsAssumption
  <2>5. Len(e.prod) \in Nat /\ Len(e.cons) \in Nat
    BY DEF Plans, IsSchedulable, IsRates
  <2> HIDE DEF p, c
  <2>6. /\ initN[e.src] * (p * Len(e.prod)) = (initN[e.src] * p) * Len(e.prod)
        /\ initN[e.src] * p \in Nat
        /\ initN[e.dst] * (c * Len(e.cons)) = (initN[e.dst] * c) * Len(e.cons)
        /\ initN[e.dst] * c \in Nat
    <3>1. p \in Nat /\ c \in Nat
      BY <2>2
    <3>2. /\ initN[e.src] * (p * Len(e.prod)) = (initN[e.src] * p) * Len(e.prod)
          /\ initN[e.src] * p \in Nat
      BY ONLY <2>4, <2>5, <3>1, Regroup
    <3>3. /\ initN[e.dst] * (c * Len(e.cons)) = (initN[e.dst] * c) * Len(e.cons)
          /\ initN[e.dst] * c \in Nat
      BY ONLY <2>4, <2>5, <3>1, Regroup
    <3>4. QED
      BY <3>2, <3>3
  <2>7. QED
    BY <2>3, <2>6
<1>3. QED
  BY <1>1, <1>2, FinishedIsPeriodic DEF Repeats

LEMMA ScheduleInit == SchedInit => ScheduleInv
BY DEF SchedInit, ScheduleInv, Planned, Simulating

(* A state in which the schedule is made again, from nothing.               *)
LEMMA FromNothing ==
  ASSUME IsSchedulable(graph), schedule' = <<>>, graph' = graph,
         \A e \in graph.edges : e.src # e.dst,
         bMax' \in [graph.edges -> Nat],
         \A e \in graph.edges : e.delay <= bMax'[e],
         initN' \in NullVectors(graph), n' = initN',
         positionInCycle' = [x \in Nodes(graph) |-> 0],
         b' = [e \in graph.edges |-> e.delay]
  PROVE  Plans' /\ Simulates'
<1>1. /\ schedule' \in Seq(Nodes(graph)) /\ Len(schedule') = 0
  OBVIOUS
<1>2. ASSUME NEW e \in graph.edges
      PROVE  Occupancy(schedule', e, 0) = e.delay /\ e.delay \in Nat
  <2>1. 0 \in Nat /\ e.delay \in Nat
    BY DEF IsSchedulable
  <2>2. QED
    BY <2>1, OccupancyIs
<1>3. Within(graph, schedule', bMax')
  <2>1. SUFFICES ASSUME NEW k \in 0 .. 0, NEW e \in graph.edges
                 PROVE  /\ 0 <= Occupancy(schedule', e, k)
                        /\ Occupancy(schedule', e, k) <= bMax'[e]
    BY <1>1 DEF Within
  <2>2. k = 0
    OBVIOUS
  <2>3. QED
    BY <1>2, <2>2
<1>4. Plans'
  BY <1>1, <1>3 DEF Plans
<1>5. ASSUME NEW x \in Nodes(graph)
      PROVE  /\ initN'[x] \in Nat /\ CyclePeriod(graph, x) \in Nat \ {0}
             /\ Count(schedule', x, 0) = 0
             /\ (initN'[x] - initN'[x]) * CyclePeriod(graph, x) + 0 = 0
  <2>1. initN' \in [Nodes(graph) -> 1 .. MaxRepetition]
    BY NullVectorIs
  <2>2. initN'[x] \in Nat /\ CyclePeriod(graph, x) \in Nat \ {0}
    BY <2>1, CyclePeriodIs, BoundsAssumption
  <2>3. Count(schedule', x, 0) = 0
    <3>1. 0 \in Nat
      OBVIOUS
    <3>2. QED
      BY <3>1, CountIs
  <2>4. (initN'[x] - initN'[x]) * CyclePeriod(graph, x) + 0 = 0
    BY <2>2
  <2>5. QED
    BY <2>2, <2>3, <2>4
<1>6. n' \in [Nodes(graph) -> Nat]
  <2>1. initN' \in [Nodes(graph) -> 1 .. MaxRepetition]
    BY NullVectorIs
  <2>2. QED
    BY <2>1, BoundsAssumption
<1>7. b' = [e \in graph.edges |-> Occupancy(schedule', e, Len(schedule'))]
  BY <1>1, <1>2
<1>8. Simulates'
  BY <1>1, <1>5, <1>6, <1>7 DEF Simulates
<1>9. QED
  BY <1>4, <1>8

LEMMA TopologyMatrixKeeps ==
  ASSUME ScheduleInv, topologyMatrix
  PROVE  ScheduleInv'
<1>1. phase = "expanded" /\ IsSchedulable(graph) /\ schedule = <<>>
  BY DEF ScheduleInv, topologyMatrix
<1>2. CASE NullVectors(graph) = {}
  <2>1. phase' = "NotSchedulableError"
    BY <1>2 DEF topologyMatrix, Raise
  <2>2. QED
    BY <2>1 DEF ScheduleInv, Planned, Simulating
<1>3. CASE NullVectors(graph) # {}
  <2> DEFINE sets == IF config.sinkPriority THEN SinkLayers(graph) ELSE <<>>
  <2>1. /\ initN' = Smallest(NullVectors(graph)) /\ n' = initN'
        /\ sorted' \in Bijection(Nodes(graph), 1 .. Cardinality(Nodes(graph)))
        /\ b' = [e \in graph.edges |-> e.delay]
        /\ bMax' = [e \in graph.edges |-> e.delay]
        /\ positionInCycle' = [x \in Nodes(graph) |-> 0]
        /\ layers' = [k \in DOMAIN sets |-> InOrder(sets[k], sorted')]
        /\ phase' = "greedy" /\ graph' = graph /\ schedule' = schedule
    BY <1>3 DEF topologyMatrix
  <2>2. initN' \in NullVectors(graph)
    BY <1>1, <1>3, <2>1, SmallestIs
  <2>3. \A e \in graph.edges : e.src # e.dst /\ e.delay \in Nat
    BY <1>1, <2>2, PeriodsBalance DEF IsSchedulable
  <2>4. Plans' /\ Simulates'
    <3>1. /\ bMax' \in [graph.edges -> Nat]
          /\ \A e \in graph.edges : e.delay <= bMax'[e]
      BY <2>1, <2>3
    <3> HIDE DEF sets
    <3>2. QED
      BY <1>1, <2>1, <2>2, <2>3, <3>1, FromNothing
  <2>5. LayersHoldNodes'
    <3>1. SUFFICES ASSUME NEW k \in DOMAIN sets
                   PROVE  InOrder(sets[k], sorted') \in Seq(Nodes(graph))
      BY <2>1 DEF LayersHoldNodes
    <3>2. sets[k] \subseteq Nodes(graph)
      <4>1. CASE config.sinkPriority
        BY <1>1, <4>1, SinkLayersAre
      <4>2. CASE ~config.sinkPriority
        BY <4>2
      <4>3. QED
        BY <4>1, <4>2
    <3> HIDE DEF sets
    <3>3. IsFiniteSet(Nodes(graph)) /\ IsFiniteSet(sets[k])
          /\ Cardinality(sets[k]) \in Nat
      <4>1. IsFiniteSet(Nodes(graph))
        BY <1>1 DEF IsSchedulable
      <4>2. QED
        BY <3>2, <4>1, FS_Subset, FS_CardinalityType
    <3>4. /\ sorted' \in [Nodes(graph) -> 1 .. Cardinality(Nodes(graph))]
          /\ \A x, y \in Nodes(graph) : sorted'[x] = sorted'[y] => x = y
      BY <2>1 DEF Bijection, Injection, IsInjective
    <3>5. \A x \in Nodes(graph) : sorted'[x] \in Nat
      <4>1. Cardinality(Nodes(graph)) \in Nat
        BY <3>3, FS_CardinalityType
      <4>2. QED
        BY <3>4, <4>1
    <3>6. /\ DOMAIN InOrder(sets[k], sorted') = 1 .. Cardinality(sets[k])
          /\ \A i \in 1 .. Cardinality(sets[k]) :
               InOrder(sets[k], sorted')[i] \in Nodes(graph)
      <4>1. /\ \A x \in sets[k] : sorted'[x] \in Nat
            /\ \A x, y \in sets[k] : sorted'[x] = sorted'[y] => x = y
        BY <3>2, <3>4, <3>5
      <4>2. /\ DOMAIN InOrder(sets[k], sorted') = 1 .. Cardinality(sets[k])
            /\ \A i \in 1 .. Cardinality(sets[k]) :
                 InOrder(sets[k], sorted')[i] \in sets[k]
        BY <3>3, <4>1, InOrderIs
      <4>3. QED
        BY <3>2, <4>2
    <3>7. InOrder(sets[k], sorted') \in
            [1 .. Cardinality(sets[k]) -> Nodes(graph)]
      BY <3>6 DEF InOrder
    <3>8. QED
      BY <3>3, <3>7
  <2>6. QED
    BY <2>1, <2>4, <2>5 DEF ScheduleInv, Planned, Simulating
<1>4. QED
  BY <1>2, <1>3

LEMMA MaxIs ==
  ASSUME NEW i \in Nat, NEW j \in Nat
  PROVE  Max({i, j}) \in Nat /\ i <= Max({i, j}) /\ j <= Max({i, j})
<1>1. \E m \in {i, j} : \A k \in {i, j} : m >= k
  <2>1. CASE i >= j
    BY <2>1
  <2>2. CASE j >= i
    BY <2>2
  <2>3. QED
    BY <2>1, <2>2
<1>2. Max({i, j}) \in {i, j} /\ \A k \in {i, j} : Max({i, j}) >= k
  BY <1>1 DEF Max
<1>3. QED
  BY <1>2

LEMMA SelectGreedyKeeps ==
  ASSUME ScheduleInv, selectGreedy
  PROVE  ScheduleInv'
<1>1. /\ phase = "greedy" /\ phase' = "greedy" /\ Plans /\ Simulates
      /\ LayersHoldNodes
      /\ graph' = graph /\ initN' = initN /\ layers' = layers
  BY DEF ScheduleInv, selectGreedy, Planned, Simulating
<1>2. PICK x \in Selected :
        /\ Execute(x)
        /\ bMax' = [e \in graph.edges |-> Max({b'[e], bMax[e]})]
  BY DEF selectGreedy
<1>3. x \in Nodes(graph) /\ n[x] > 0 /\ \A e \in graph.edges : NewB(x)[e] >= 0
  BY DEF Selected, Candidates, Runnable
<1>4. ASSUME NEW e \in graph.edges
      PROVE  /\ bMax'[e] \in Nat
             /\ bMax[e] <= bMax'[e] /\ 0 <= NewB(x)[e] /\ NewB(x)[e] <= bMax'[e]
  <2>1. NewB(x)[e] \in Nat
    <3>1. NewB(x)[e] \in Int
      BY <1>1, <1>3, NewBIs
    <3>2. QED
      BY <1>3, <3>1
  <2>2. b'[e] = NewB(x)[e]
    BY <1>2 DEF Execute
  <2>3. bMax'[e] = Max({b'[e], bMax[e]}) /\ bMax[e] \in Nat
    BY <1>1, <1>2 DEF Plans
  <2>4. QED
    BY <2>1, <2>2, <2>3, MaxIs
<1>5. bMax' \in [graph.edges -> Nat]
  <2>1. bMax' = [e \in graph.edges |-> bMax'[e]]
    BY <1>2
  <2>2. QED
    BY <1>4, <2>1
<1>6. Plans' /\ Simulates'
  BY <1>1, <1>2, <1>3, <1>4, <1>5, ExecuteKeeps
<1>7. LayersHoldNodes'
  BY <1>1 DEF LayersHoldNodes
<1>8. QED
  BY <1>1, <1>6, <1>7 DEF ScheduleInv, Planned, Simulating

LEMMA FinishGreedyKeeps ==
  ASSUME ScheduleInv, finishGreedy
  PROVE  ScheduleInv'
<1>1. /\ phase = "greedy" /\ Plans /\ Simulates /\ LayersHoldNodes /\ Finished
      /\ graph' = graph /\ initN' = initN /\ layers' = layers /\ bMax' = bMax
      /\ positionInCycle' = positionInCycle
  BY DEF ScheduleInv, finishGreedy, Planned, Simulating
<1>2. CASE layers = <<>>
  <2>1. phase' = "scheduled" /\ n' = n /\ b' = b /\ schedule' = schedule
    BY <1>2 DEF finishGreedy
  <2>2. Plans' /\ Simulates' /\ Finished'
    BY <1>1, <2>1 DEF Plans, Simulates, Finished
  <2>3. QED
    BY <2>1, <2>2 DEF ScheduleInv, Planned, Simulating
<1>3. CASE layers # <<>>
  <2>1. /\ phase' = "sinks" /\ n' = initN
        /\ b' = [e \in graph.edges |-> e.delay] /\ schedule' = <<>>
    BY <1>3 DEF finishGreedy
  <2>2. positionInCycle' = [x \in Nodes(graph) |-> 0]
    <3>1. \A x \in Nodes(graph) : positionInCycle[x] = 0
      BY <1>1, FinishedIsPeriodic
    <3>2. positionInCycle \in [Nodes(graph) -> Nat]
      BY <1>1 DEF Simulates
    <3>3. QED
      BY <1>1, <3>1, <3>2
  <2>3. \A e \in graph.edges : e.delay <= bMax'[e]
    <3>1. SUFFICES ASSUME NEW e \in graph.edges PROVE e.delay <= bMax[e]
      BY <1>1
    <3>2. 0 \in 0 .. Len(schedule) /\ 0 \in Nat
      BY <1>1 DEF Plans
    <3>3. Occupancy(schedule, e, 0) <= bMax[e]
      BY <1>1, <3>2 DEF Plans, Within
    <3>4. Occupancy(schedule, e, 0) = e.delay
      BY <1>1, <3>2, OccupancyIs DEF Plans
    <3>5. QED
      BY <3>3, <3>4
  <2>4. Plans' /\ Simulates'
    <3>1. /\ IsSchedulable(graph) /\ initN' \in NullVectors(graph)
          /\ bMax' \in [graph.edges -> Nat] /\ n' = initN'
          /\ \A e \in graph.edges : e.src # e.dst
      BY <1>1, <2>1 DEF Plans, Simulates
    <3>2. QED
      BY <1>1, <2>1, <2>2, <2>3, <3>1, FromNothing
  <2>5. Completes(schedule)
    <3>1. \A x \in Nodes(graph) : Count(schedule, x, Len(schedule)) = Period[x]
      BY <1>1, FinishedIsPeriodic DEF Done
    <3>2. QED
      BY <1>1, <3>1 DEF Completes, Plans
  <2>6. \E w : Completes(w)'
    <3>1. Period' = Period
      BY <1>1 DEF Period
    <3>2. /\ schedule \in Seq(Nodes(graph')) /\ Within(graph', schedule, bMax')
          /\ \A x \in Nodes(graph') : Count(schedule, x, Len(schedule)) = Period'[x]
      BY <1>1, <2>5, <3>1 DEF Completes
    <3>3. \E w : /\ w \in Seq(Nodes(graph')) /\ Within(graph', w, bMax')
                 /\ \A x \in Nodes(graph') : Count(w, x, Len(w)) = Period'[x]
      BY <3>2
    <3>4. QED
      BY <3>3 DEF Completes
  <2>7. LayersHoldNodes'
    BY <1>1 DEF LayersHoldNodes
  <2>8. QED
    BY <2>1, <2>4, <2>6, <2>7 DEF ScheduleInv, Planned, Simulating
<1>4. QED
  BY <1>2, <1>3

LEMMA CompletesKeeps ==
  ASSUME UNCHANGED <<graph, bMax, initN>>, \E w : Completes(w)
  PROVE  \E w : Completes(w)'
<1>1. PICK w : Completes(w)
  OBVIOUS
<1>2. Period' = Period
  BY DEF Period
<1>3. /\ w \in Seq(Nodes(graph')) /\ Within(graph', w, bMax')
      /\ \A x \in Nodes(graph') : Count(w, x, Len(w)) = Period'[x]
  BY <1>1, <1>2 DEF Completes
<1>4. \E v : /\ v \in Seq(Nodes(graph')) /\ Within(graph', v, bMax')
             /\ \A x \in Nodes(graph') : Count(v, x, Len(v)) = Period'[x]
  BY <1>3
<1>5. QED
  BY <1>4 DEF Completes

LEMMA SelectSinksKeeps ==
  ASSUME ScheduleInv, selectSinks
  PROVE  ScheduleInv'
<1>1. /\ phase = "sinks" /\ phase' = "sinks" /\ Plans /\ Simulates
      /\ LayersHoldNodes /\ \E w : Completes(w)
      /\ graph' = graph /\ initN' = initN /\ bMax' = bMax
  BY DEF ScheduleInv, selectSinks, Planned, Simulating
<1>2. PICK k \in DOMAIN layers : \E i \in DOMAIN layers[k] :
        /\ FitsIn(layers[k][i])
        /\ Execute(layers[k][i])
        /\ layers' = [layers EXCEPT ![k] =
              [j \in DOMAIN layers[k] |->
                 IF j < i THEN layers[k][j]
                 ELSE IF j = Len(layers[k]) THEN layers[k][i]
                 ELSE layers[k][j + 1]]]
  BY DEF selectSinks
<1>3. PICK i \in DOMAIN layers[k] :
        /\ FitsIn(layers[k][i])
        /\ Execute(layers[k][i])
        /\ layers' = [layers EXCEPT ![k] =
              [j \in DOMAIN layers[k] |->
                 IF j < i THEN layers[k][j]
                 ELSE IF j = Len(layers[k]) THEN layers[k][i]
                 ELSE layers[k][j + 1]]]
  BY <1>2
<1> DEFINE x == layers[k][i]
           l == layers[k]
           moved == [j \in DOMAIN l |-> IF j < i THEN l[j]
                                        ELSE IF j = Len(l) THEN l[i] ELSE l[j + 1]]
<1>4. l \in Seq(Nodes(graph)) /\ i \in 1 .. Len(l) /\ DOMAIN l = 1 .. Len(l)
  BY <1>1, <1>3 DEF LayersHoldNodes
<1>5. /\ x \in Nodes(graph) /\ n[x] > 0
      /\ \A e \in graph.edges : NewB(x)[e] >= 0 /\ NewB(x)[e] <= bMax[e]
  BY <1>3, <1>4 DEF FitsIn, Runnable
<1>6. Plans' /\ Simulates'
  <2>1. bMax' \in [graph.edges -> Nat] /\ \A e \in graph.edges : bMax[e] \in Nat
    BY <1>1 DEF Plans
  <2>2. \A e \in graph.edges :
          /\ bMax[e] <= bMax'[e] /\ 0 <= NewB(x)[e] /\ NewB(x)[e] <= bMax'[e]
    <3>1. \A e \in graph.edges : NewB(x)[e] \in Int
      BY <1>1, <1>5, NewBIs
    <3> HIDE DEF x
    <3>2. QED
      BY <1>1, <1>5, <2>1, <3>1
  <2>3. Execute(x)
    BY <1>3
  <2> HIDE DEF x
  <2>4. QED
    BY <1>1, <1>5, <2>1, <2>2, <2>3, ExecuteKeeps
<1>7. LayersHoldNodes'
  <2>1. \A j \in 1 .. Len(l) : moved[j] \in Nodes(graph)
    <3>1. SUFFICES ASSUME NEW j \in 1 .. Len(l) PROVE moved[j] \in Nodes(graph)
      OBVIOUS
    <3>2. CASE j < i
      BY <1>4, <3>2
    <3>3. CASE ~(j < i) /\ j = Len(l)
      BY <1>4, <3>3
    <3>4. CASE ~(j < i) /\ j # Len(l)
      <4>1. moved[j] = l[j + 1]
        BY <1>4, <3>4
      <4> HIDE DEF moved, l
      <4>2. Len(l) \in Nat
        BY <1>4
      <4>3. j + 1 \in 1 .. Len(l)
        BY <3>4, <4>2
      <4>4. l[j + 1] \in Nodes(graph)
        BY <1>4, <4>3
      <4>5. QED
        BY <4>1, <4>4
    <3>5. QED
      BY <3>2, <3>3, <3>4
  <2>2. moved \in [1 .. Len(l) -> Nodes(graph)]
    BY <1>4, <2>1
  <2>3. moved \in Seq(Nodes(graph))
    <3>1. Len(l) \in Nat
      BY <1>4
    <3> HIDE DEF moved, l
    <3>2. QED
      BY <2>2, <3>1
  <2>4. layers' = [layers EXCEPT ![k] = moved]
    BY <1>3
  <2> HIDE DEF moved, l
  <2>5. \A h \in DOMAIN layers' : layers'[h] \in Seq(Nodes(graph))
    BY <1>1, <2>3, <2>4 DEF LayersHoldNodes
  <2>6. QED
    BY <1>1, <2>5 DEF LayersHoldNodes
<1>8. \E w : Completes(w)'
  BY <1>1, CompletesKeeps
<1>9. QED
  BY <1>1, <1>6, <1>7, <1>8 DEF ScheduleInv, Planned, Simulating

LEMMA RaiseExceptionKeeps ==
  ASSUME ScheduleInv, raiseException
  PROVE  ScheduleInv'
<1>1. CASE Raise("DeadlockError") /\ phase \in {"greedy", "sinks"} /\ ~Finished
           /\ {x \in Nodes(graph) : IF phase = "greedy" THEN Runnable(x)
                                                        ELSE FitsIn(x)} = {}
  <2>1. Plans /\ Simulates
    BY <1>1 DEF ScheduleInv, Planned, Simulating
  <2>2. CASE phase = "greedy"
    <3>1. \A x \in Nodes(graph) : ~Runnable(x)
      BY <1>1, <2>2
    <3>2. Period \notin Reachable(graph, Period)
      BY <1>1, <2>1, <3>1, NothingReachable
    <3>3. graph' = graph /\ initN' = initN /\ phase' = "DeadlockError"
      BY <1>1 DEF Raise
    <3>4. Period' = Period
      BY <3>3 DEF Period
    <3>5. (Period \notin Reachable(graph, Period))'
      BY <3>2, <3>3, <3>4
    <3>6. QED
      BY <3>3, <3>5 DEF ScheduleInv, Planned, Simulating
  <2>3. CASE phase = "sinks"
    <3>1. \A x \in Nodes(graph) : ~FitsIn(x)
      BY <1>1, <2>3
    <3>2. \E w : Completes(w)
      BY <2>3 DEF ScheduleInv
    <3>3. QED
      BY <1>1, <2>1, <3>1, <3>2, SinksGoOn
  <2>4. QED
    BY <1>1, <2>2, <2>3
<1>2. CASE Raise("CantHaveBufferConstraintOnFIFOWhenDuplicateIsInserted")
  BY <1>2 DEF Raise, ScheduleInv, Planned, Simulating
<1>3. CASE Raise("GraphIsNotConnected")
  BY <1>3 DEF Raise, ScheduleInv, Planned, Simulating
<1>4. QED
  BY <1>1, <1>2, <1>3 DEF raiseException

(* The loop leaves the schedule and the lengths as they are.                *)
LEMMA ScheduleStays ==
  ASSUME ScheduleInv, UNCHANGED <<graph, schedule, bMax>>,
         phase \in {"allocated", "running", "left"},
         phase' \in {"allocated", "running", "left"}
  PROVE  ScheduleInv'
<1>1. Plans /\ Repeats
  BY DEF ScheduleInv, Planned, Simulating
<1>2. Plans' /\ Repeats'
  BY <1>1 DEF Plans, Repeats
<1>3. QED
  BY <1>2 DEF ScheduleInv, Planned, Simulating

LEMMA ComputeScheduleKeeps ==
  ASSUME ScheduleInv, computeSchedule
  PROVE  ScheduleInv'
<1>1. CASE insertDuplicates
  <2>1. /\ phase = "described" /\ phase' = "expanded" /\ graph \in InputGraphs
        /\ graph' = InsertDuplicates(graph) /\ schedule' = schedule
        /\ schedule = <<>>
    BY <1>1 DEF insertDuplicates, ScheduleInv
  <2>2. IsSchedulable(graph')
    BY <2>1, ExpandedIsSchedulable
  <2>3. QED
    BY <2>1, <2>2 DEF ScheduleInv, Planned, Simulating
<1>2. CASE finishSinks
  <2>1. /\ phase = "sinks" /\ phase' = "scheduled" /\ Finished /\ Plans /\ Simulates
        /\ UNCHANGED <<graph, schedule, bMax, initN, n, b, positionInCycle>>
    BY <1>2 DEF finishSinks, ScheduleInv, Planned, Simulating
  <2>2. Plans' /\ Simulates' /\ Finished'
    BY <2>1 DEF Plans, Simulates, Finished
  <2>3. QED
    BY <2>1, <2>2 DEF ScheduleInv, Planned, Simulating
<1>3. QED
  BY <1>1, <1>2, TopologyMatrixKeeps, SelectGreedyKeeps, FinishGreedyKeeps,
     SelectSinksKeeps, RaiseExceptionKeeps DEF computeSchedule

LEMMA AllocationKeeps ==
  ASSUME ScheduleInv, initializeFIFODescriptions \/ refuseConstraints
  PROVE  ScheduleInv'
<1>1. CASE initializeFIFODescriptions
  <2>1. /\ phase = "scheduled" /\ phase' = "allocated"
        /\ UNCHANGED <<graph, schedule, bMax>>
        /\ Plans /\ Simulates /\ Finished
    BY <1>1 DEF initializeFIFODescriptions, ScheduleInv, Planned, Simulating
  <2>2. Repeats
    BY <2>1, FinishedRepeats
  <2>3. Plans' /\ Repeats'
    BY <2>1, <2>2 DEF Plans, Repeats
  <2>4. QED
    BY <2>1, <2>3 DEF ScheduleInv, Planned, Simulating
<1>2. CASE refuseConstraints
  BY <1>2 DEF refuseConstraints, Raise, ScheduleInv, Planned, Simulating
<1>3. QED
  BY <1>1, <1>2

LEMMA LoopKeeps ==
  ASSUME ScheduleInv, startScheduler \/ readInputs \/ writeOutputs \/ nextNode
                      \/ errorHandling \/ resume
  PROVE  ScheduleInv'
<1>1. CASE startScheduler
  BY <1>1, ScheduleStays DEF startScheduler
<1>2. CASE readInputs
  BY <1>2, ScheduleStays DEF readInputs, schedVars
<1>3. CASE writeOutputs
  BY <1>3, ScheduleStays DEF writeOutputs, schedVars
<1>4. CASE nextNode
  BY <1>4, ScheduleStays DEF nextNode
<1>5. CASE errorHandling
  BY <1>5, ScheduleStays DEF errorHandling
<1>6. CASE resume
  BY <1>6, ScheduleStays DEF resume
<1>7. QED
  BY <1>1, <1>2, <1>3, <1>4, <1>5, <1>6

LEMMA ScheduleNext ==
  ASSUME ScheduleInv, [Next]_vars
  PROVE  ScheduleInv'
<1>1. CASE UNCHANGED vars
  <2>1. UNCHANGED <<config, graph, phase, initN, n, b, bMax, positionInCycle,
                    layers, schedule>>
    BY <1>1 DEF vars, schedVars
  <2>2. Plans' = Plans /\ Simulates' = Simulates /\ Finished' = Finished
        /\ LayersHoldNodes' = LayersHoldNodes /\ Repeats' = Repeats
    BY <2>1 DEF Plans, Simulates, Finished, LayersHoldNodes, Repeats
  <2>3. (\E w : Completes(w)) => \E w : Completes(w)'
    BY <2>1, CompletesKeeps
  <2>4. Period' = Period
    BY <2>1 DEF Period
  <2>5. QED
    BY <2>1, <2>2, <2>3, <2>4 DEF ScheduleInv
<1>2. QED
  BY <1>1, ComputeScheduleKeeps, AllocationKeeps, LoopKeeps DEF Next

THEOREM ScheduleInvariant == Spec => []ScheduleInv
<1>1. Init => ScheduleInv
  BY ScheduleInit DEF Init
<1>2. ScheduleInv /\ [Next]_vars => ScheduleInv'
  BY ScheduleNext
<1>3. QED
  BY <1>1, <1>2, PTL DEF Spec

(* Theorem: a schedule that is found, by either choice of the next node and  *)
(* for any graph, runs every node as often as the null vector demands and   *)
(* leaves every FIFO with the samples it began with (computeSchedule() and  *)
(* computeTopologicalOrderSchedule() of description.py).                    *)
THEOREM SchedulesArePeriodic == Spec => []ScheduleIsPeriodic
<1>1. ScheduleInv => ScheduleIsPeriodic
  <2>1. SUFFICES ASSUME ScheduleInv, phase = "scheduled"
                 PROVE  /\ \A x \in Nodes(graph) :
                             Executions(x) = Period[x] /\ positionInCycle[x] = 0
                        /\ \A e \in graph.edges : b[e] = e.delay
    BY DEF ScheduleIsPeriodic
  <2>2. Plans /\ Simulates /\ Finished
    BY <2>1 DEF ScheduleInv, Planned, Simulating
  <2>3. \A x \in Nodes(graph) : Executions(x) = Done(x)
    <3>1. DOMAIN schedule = 1 .. Len(schedule)
      BY <2>2 DEF Plans
    <3>2. QED
      BY <3>1 DEF Executions, Done, Count
  <2>4. QED
    BY <2>2, <2>3, FinishedIsPeriodic
<1>2. QED
  BY <1>1, ScheduleInvariant, PTL

(* Theorem: the scheduler gives up with DeadlockError only when no order of *)
(* executions at all completes a period; and with priority to the sinks,    *)
(* within the lengths that the greedy schedule has found, it never gives up *)
(* (the two loops over the nodes of description.py).                        *)
THEOREM DeadlocksAreReal == Spec => []DeadlockIsReal
<1>1. ScheduleInv => DeadlockIsReal
  BY DEF ScheduleInv, DeadlockIsReal
<1>2. QED
  BY <1>1, ScheduleInvariant, PTL
-----------------------------------------------------------------------------
(* The loop over the schedule.                                              *)

(* The samples in a FIFO that is not an array, at each step of a node.      *)
Contents(e) ==
  CASE step = "before"  -> Occupancy(schedule, e, id - 1)
    [] step = "reading" -> Occupancy(schedule, e, id - 1)
                             - (IF e.dst = Node
                                THEN CycleValue(e.cons, Count(schedule, e.dst, id - 1))
                                ELSE 0)
    [] step = "after"   -> Occupancy(schedule, e, id)

Positioned(e) ==
  IF IsArray(e) THEN readPos[e] = 0 /\ writePos[e] = 0
  ELSE /\ readPos[e] \in Nat /\ writePos[e] \in Nat
       /\ readPos[e] <= writePos[e] /\ writePos[e] <= bMax[e]
       /\ phase = "running" => writePos[e] - readPos[e] = Contents(e)

LoopInv ==
  phase \in {"running", "left"} =>
    /\ nbSchedule \in Nat /\ id \in 1 .. Len(schedule)
    /\ step \in {"before", "reading", "after"}
    /\ phase = "left" => step = "before"
    /\ skip \subseteq Arrays => \A e \in graph.edges : Positioned(e)

(* The rates have come back to where they were when the schedule began.     *)
LEMMA RunsIs ==
  ASSUME Plans, Repeats, nbSchedule \in Nat, id \in 1 .. Len(schedule),
         NEW e \in graph.edges
  PROVE  /\ CycleValue(e.prod, Runs(e.src))
              = CycleValue(e.prod, Count(schedule, e.src, id - 1))
         /\ CycleValue(e.cons, Runs(e.dst))
              = CycleValue(e.cons, Count(schedule, e.dst, id - 1))
         /\ CycleValue(e.prod, Count(schedule, e.src, id - 1)) \in Nat
         /\ CycleValue(e.cons, Count(schedule, e.dst, id - 1)) \in Nat
<1>1. PICK p \in Nat, c \in Nat :
        /\ Count(schedule, e.src, Len(schedule)) = p * Len(e.prod)
        /\ Count(schedule, e.dst, Len(schedule)) = c * Len(e.cons)
  BY DEF Repeats
<1>2. IsRates(e.prod) /\ IsRates(e.cons)
  BY DEF Plans, IsSchedulable
<1>3. Len(e.prod) \in Nat /\ Len(e.cons) \in Nat
  BY <1>2 DEF IsRates
<1>4. /\ Runs(e.src) = nbSchedule * (p * Len(e.prod)) + Count(schedule, e.src, id - 1)
      /\ Runs(e.dst) = nbSchedule * (c * Len(e.cons)) + Count(schedule, e.dst, id - 1)
  BY <1>1 DEF Runs, Count
<1>5. \A i, j, k \in Nat : i * (j * k) = (i * j) * k
  OBVIOUS
<1>6. \A i, j \in Nat : i * j \in Nat
  OBVIOUS
<1>7. /\ nbSchedule * (p * Len(e.prod)) = (nbSchedule * p) * Len(e.prod)
      /\ nbSchedule * (c * Len(e.cons)) = (nbSchedule * c) * Len(e.cons)
  <2>1. nbSchedule \in Nat /\ p \in Nat /\ c \in Nat
    OBVIOUS
  <2>2. nbSchedule * (p * Len(e.prod)) = (nbSchedule * p) * Len(e.prod)
    BY ONLY <1>3, <1>5, <2>1, Zenon
  <2>3. nbSchedule * (c * Len(e.cons)) = (nbSchedule * c) * Len(e.cons)
    BY ONLY <1>3, <1>5, <2>1, Zenon
  <2>4. QED
    BY <2>2, <2>3
<1>8. nbSchedule * p \in Nat /\ nbSchedule * c \in Nat
  <2>1. nbSchedule \in Nat /\ p \in Nat /\ c \in Nat
    OBVIOUS
  <2>2. QED
    BY ONLY <1>6, <2>1
<1>9. Count(schedule, e.src, id - 1) \in Nat /\ Count(schedule, e.dst, id - 1) \in Nat
  <2>1. id - 1 \in Nat
    OBVIOUS
  <2>2. QED
    BY <2>1, CountIs
<1> DEFINE np == nbSchedule * p
           nc == nbSchedule * c
           i  == Count(schedule, e.src, id - 1)
           j  == Count(schedule, e.dst, id - 1)
<1>10. /\ Runs(e.src) = np * Len(e.prod) + i
       /\ Runs(e.dst) = nc * Len(e.cons) + j
  BY <1>4, <1>7
<1>11. np \in Nat /\ nc \in Nat /\ i \in Nat /\ j \in Nat
  BY <1>8, <1>9
<1> HIDE DEF np, nc, i, j
<1>12. /\ CycleValue(e.prod, np * Len(e.prod) + i) = CycleValue(e.prod, i)
       /\ CycleValue(e.cons, nc * Len(e.cons) + j) = CycleValue(e.cons, j)
  BY <1>2, <1>11, CycleValueShift
<1>13. CycleValue(e.prod, i) \in Nat /\ CycleValue(e.cons, j) \in Nat
  BY <1>2, <1>11, CycleValueIs
<1>14. QED
  BY <1>10, <1>12, <1>13 DEF i, j

(* What an element of the schedule does to a FIFO.                          *)
LEMMA ElementIs ==
  ASSUME Plans, id \in 1 .. Len(schedule), NEW e \in graph.edges
  PROVE  /\ Occupancy(schedule, e, id)
              = Occupancy(schedule, e, id - 1)
                + (IF Node = e.src
                   THEN CycleValue(e.prod, Count(schedule, e.src, id - 1)) ELSE 0)
                - (IF Node = e.dst
                   THEN CycleValue(e.cons, Count(schedule, e.dst, id - 1)) ELSE 0)
         /\ \A k \in {id - 1, id} : /\ Occupancy(schedule, e, k) \in Int
                                    /\ 0 <= Occupancy(schedule, e, k)
                                    /\ Occupancy(schedule, e, k) <= bMax[e]
         /\ bMax[e] \in Nat /\ e.src # e.dst
<1>1. IsSchedulable(graph) /\ bMax[e] \in Nat /\ e.src # e.dst
      /\ Within(graph, schedule, bMax) /\ Len(schedule) \in Nat
  BY DEF Plans
<1> DEFINE k == id - 1
<1>2. k \in Nat /\ k + 1 = id /\ id \in Nat
      /\ k \in 0 .. Len(schedule) /\ id \in 0 .. Len(schedule)
  BY <1>1
<1> HIDE DEF k
<1>3. Occupancy(schedule, e, k + 1)
        = Occupancy(schedule, e, k)
          + (IF schedule[k + 1] = e.src
             THEN CycleValue(e.prod, Count(schedule, e.src, k)) ELSE 0)
          - (IF schedule[k + 1] = e.dst
             THEN CycleValue(e.cons, Count(schedule, e.dst, k)) ELSE 0)
  <2>1. k \in Nat
    BY <1>2
  <2>2. QED
    BY <1>1, <2>1, OccupancyIs
<1>4. /\ Occupancy(schedule, e, k) \in Int /\ Occupancy(schedule, e, id) \in Int
      /\ 0 <= Occupancy(schedule, e, k) /\ Occupancy(schedule, e, k) <= bMax[e]
      /\ 0 <= Occupancy(schedule, e, id) /\ Occupancy(schedule, e, id) <= bMax[e]
  BY <1>1, <1>2, OccupancyIs DEF Within
<1>5. QED
  BY <1>1, <1>2, <1>3, <1>4 DEF Node, k

(* At the beginning of the schedule, and when the FIFOs are reset.          *)
LEMMA FreshIsPositioned ==
  ASSUME Plans, Repeats, UNCHANGED <<graph, schedule, bMax>>,
         id' = 1, step' = "before", NEW e \in graph.edges,
         IF IsArray(e) THEN readPos'[e] = 0 /\ writePos'[e] = 0
                       ELSE readPos'[e] = 0 /\ writePos'[e] = e.delay
  PROVE  Positioned(e)'
<1>1. /\ Occupancy(schedule, e, 0) = e.delay /\ e.delay \in Nat
      /\ e.delay <= bMax[e]
  <2>1. IsSchedulable(graph) /\ e.delay \in Nat /\ Len(schedule) \in Nat
        /\ Within(graph, schedule, bMax) /\ 0 \in Nat
    BY DEF Plans, IsSchedulable
  <2>2. Occupancy(schedule, e, 0) = e.delay
    BY <2>1, OccupancyIs
  <2>3. 0 \in 0 .. Len(schedule)
    BY <2>1
  <2>4. Occupancy(schedule, e, 0) <= bMax[e]
    BY <2>1, <2>3 DEF Within
  <2>5. QED
    BY <2>1, <2>2, <2>4
<1>2. Contents(e)' = Occupancy(schedule, e, 0)
  <2>1. id' - 1 = 0
    OBVIOUS
  <2>2. QED
    BY <2>1 DEF Contents
<1>3. IsArray(e)' = IsArray(e)
  BY DEF IsArray, FifoLength
<1>4. CASE IsArray(e)
  BY <1>3, <1>4 DEF Positioned
<1>5. CASE ~IsArray(e)
  <2>1. readPos'[e] = 0 /\ writePos'[e] = e.delay
    BY <1>5
  <2>2. writePos'[e] - readPos'[e] = Contents(e)'
    BY <1>1, <1>2, <2>1
  <2>3. QED
    BY <1>1, <1>3, <1>5, <2>1, <2>2 DEF Positioned
<1>6. QED
  BY <1>4, <1>5

LEMMA StartSchedulerKeeps ==
  ASSUME ScheduleInv, startScheduler
  PROVE  LoopInv'
<1>1. /\ phase = "allocated" /\ phase' = "running" /\ Plans /\ Repeats
      /\ UNCHANGED <<graph, schedule, bMax>>
      /\ readPos' = [e \in graph.edges |-> 0]
      /\ writePos' = [e \in graph.edges |-> e.delay]
      /\ step' = "before" /\ id' = 1 /\ nbSchedule' = 0
  BY DEF ScheduleInv, Planned, Simulating, startScheduler
<1>2. ASSUME NEW e \in graph.edges PROVE Positioned(e)'
  <2>1. IsArray(e) => e.delay = 0
    BY DEF IsArray
  <2>2. QED
    BY <1>1, <2>1, FreshIsPositioned
<1>3. id' \in 1 .. Len(schedule')
  <2>1. schedule \in Seq(Nodes(graph)) /\ schedule # <<>>
    BY <1>1 DEF Plans, Repeats
  <2>2. Len(schedule) \in Nat \ {0}
    BY <2>1
  <2>3. QED
    BY <1>1, <2>2
<1>4. QED
  BY <1>1, <1>2, <1>3 DEF LoopInv

(* The parts of the invariant that are about the loop alone.                *)
LEMMA Running ==
  ASSUME ScheduleInv, LoopInv, phase \in {"running", "left"}
  PROVE  /\ Plans /\ Repeats /\ nbSchedule \in Nat /\ id \in 1 .. Len(schedule)
         /\ \A e \in graph.edges : IsArray(e) => e.delay = 0
         /\ skip \subseteq Arrays => \A e \in graph.edges : Positioned(e)
BY DEF ScheduleInv, Planned, Simulating, LoopInv, IsArray

LEMMA ReadInputsKeeps ==
  ASSUME ScheduleInv, LoopInv, readInputs
  PROVE  LoopInv'
<1>1. /\ phase = "running" /\ phase' = "running"
      /\ step = "before" /\ step' = "reading"
      /\ UNCHANGED <<graph, schedule, bMax, skip, writePos, id, nbSchedule>>
      /\ readPos' = ReadPosAfter(Node)
  BY DEF readInputs, schedVars, allocVars
<1>2. Plans /\ Repeats /\ nbSchedule \in Nat /\ id \in 1 .. Len(schedule)
      /\ (skip \subseteq Arrays => \A e \in graph.edges : Positioned(e))
  BY <1>1, Running
<1>3. ASSUME NEW e \in graph.edges, Positioned(e) PROVE Positioned(e)'
  <2>1. IsArray(e)' = IsArray(e) /\ Node' = Node
    BY <1>1 DEF IsArray, FifoLength, Node
  <2>2. readPos'[e] = IF e.dst = Node /\ ~IsArray(e)
                      THEN readPos[e] + CycleValue(e.cons, Runs(Node))
                      ELSE readPos[e]
    BY <1>1 DEF ReadPosAfter
  <2>3. CASE IsArray(e)
    BY <1>1, <1>3, <2>1, <2>2, <2>3 DEF Positioned
  <2>4. CASE ~IsArray(e)
    <3> DEFINE o == Occupancy(schedule, e, id - 1)
               v == CycleValue(e.cons, Count(schedule, e.dst, id - 1))
    <3>1. /\ readPos[e] \in Nat /\ writePos[e] \in Nat
          /\ readPos[e] <= writePos[e] /\ writePos[e] <= bMax[e]
          /\ writePos[e] - readPos[e] = o
      BY <1>1, <1>3, <2>4 DEF Positioned, Contents
    <3>2. v \in Nat /\ CycleValue(e.cons, Runs(e.dst)) = v
      BY <1>2, RunsIs
    <3>3. e.src # e.dst /\ o \in Int
          /\ (e.dst = Node => Occupancy(schedule, e, id) = o + 0 - v)
          /\ 0 <= Occupancy(schedule, e, id)
      BY <1>2, ElementIs
    <3>4. Contents(e)' = o - (IF e.dst = Node THEN v ELSE 0)
      BY <1>1, <2>1 DEF Contents
    <3> HIDE DEF o, v
    <3>5. CASE e.dst = Node
      <4>1. readPos'[e] = readPos[e] + v
        BY <2>2, <2>4, <3>2, <3>5
      <4>2. o - v >= 0
        BY <3>2, <3>3, <3>5
      <4>3. writePos[e] - (readPos[e] + v) = o - v
        BY <3>1, <3>2, <3>3
      <4>4. Contents(e)' = o - v
        BY <3>4, <3>5
      <4>5. /\ readPos[e] + v \in Nat /\ readPos[e] + v <= writePos[e]
        BY <3>1, <3>2, <4>2, <4>3
      <4>6. QED
        BY <1>1, <2>1, <2>4, <3>1, <4>1, <4>3, <4>4, <4>5 DEF Positioned
    <3>6. CASE e.dst # Node
      <4>1. readPos'[e] = readPos[e]
        BY <2>2, <3>6
      <4>2. Contents(e)' = o
        BY <3>3, <3>4, <3>6
      <4>3. QED
        BY <1>1, <2>1, <2>4, <3>1, <4>1, <4>2 DEF Positioned
    <3>7. QED
      BY <3>5, <3>6
  <2>5. QED
    BY <2>3, <2>4
<1>4. Arrays' = Arrays
  BY <1>1 DEF Arrays, IsArray, FifoLength
<1>5. QED
  BY <1>1, <1>2, <1>3, <1>4 DEF LoopInv

LEMMA WriteOutputsKeeps ==
  ASSUME ScheduleInv, LoopInv, writeOutputs
  PROVE  LoopInv'
<1> DEFINE filled == OutputsOf(Node) \ skip
<1>1. /\ phase = "running" /\ phase' = "running"
      /\ step = "reading" /\ step' = "after"
      /\ UNCHANGED <<graph, schedule, bMax, skip, id, nbSchedule>>
      /\ writePos' = [e \in graph.edges |->
                        IF e \in filled /\ ~IsArray(e)
                        THEN Kept(e) + CycleValue(e.prod, Runs(Node))
                        ELSE writePos[e]]
      /\ readPos' = [e \in graph.edges |->
                       IF e \in filled /\ ~IsArray(e) THEN 0 ELSE readPos[e]]
  BY DEF writeOutputs, schedVars, allocVars
<1>2. Plans /\ Repeats /\ nbSchedule \in Nat /\ id \in 1 .. Len(schedule)
      /\ (skip \subseteq Arrays => \A e \in graph.edges : Positioned(e))
  BY <1>1, Running
<1>3. ASSUME NEW e \in graph.edges, Positioned(e), skip \subseteq Arrays
      PROVE  Positioned(e)'
  <2>1. IsArray(e)' = IsArray(e) /\ Node' = Node
    BY <1>1 DEF IsArray, FifoLength, Node
  <2>2. CASE IsArray(e)
    BY <1>1, <1>3, <2>1, <2>2 DEF Positioned
  <2>3. CASE ~IsArray(e)
    <3> DEFINE o == Occupancy(schedule, e, id - 1)
               v == CycleValue(e.prod, Count(schedule, e.src, id - 1))
               w == CycleValue(e.cons, Count(schedule, e.dst, id - 1))
    <3>1. /\ readPos[e] \in Nat /\ writePos[e] \in Nat
          /\ readPos[e] <= writePos[e] /\ writePos[e] <= bMax[e]
          /\ writePos[e] - readPos[e] = o - (IF e.dst = Node THEN w ELSE 0)
      BY <1>1, <1>3, <2>3 DEF Positioned, Contents
    <3>2. v \in Nat /\ w \in Nat /\ CycleValue(e.prod, Runs(e.src)) = v
      BY <1>2, RunsIs
    <3>3. /\ e.src # e.dst /\ o \in Int
          /\ Occupancy(schedule, e, id)
               = o + (IF Node = e.src THEN v ELSE 0)
                   - (IF Node = e.dst THEN w ELSE 0)
          /\ Occupancy(schedule, e, id) <= bMax[e] /\ bMax[e] \in Nat
          /\ 0 <= Occupancy(schedule, e, id)
          /\ Occupancy(schedule, e, id) \in Int
      BY <1>2, ElementIs
    <3>4. Contents(e)' = Occupancy(schedule, e, id)
      BY <1>1 DEF Contents
    <3>5. e \in filled <=> e.src = Node
      BY <1>3, <2>3 DEF OutputsOf, Arrays
    <3>6. Kept(e) = writePos[e] - readPos[e]
      BY <2>3 DEF Kept
    <3> HIDE DEF o, v, w, filled
    <3>7. CASE e.src = Node
      <4>1. writePos'[e] = (writePos[e] - readPos[e]) + v /\ readPos'[e] = 0
        BY <1>1, <2>3, <3>2, <3>5, <3>6, <3>7
      <4>2. writePos[e] - readPos[e] = o
        BY <3>1, <3>3, <3>7
      <4>3. Occupancy(schedule, e, id) = o + v
        BY <3>2, <3>3, <3>7
      <4>4. writePos'[e] = Occupancy(schedule, e, id)
        BY <4>1, <4>2, <4>3
      <4>5. writePos'[e] \in Nat /\ writePos'[e] - 0 = writePos'[e]
        BY <3>3, <4>4
      <4>6. QED
        BY <1>1, <2>1, <2>3, <3>3, <3>4, <4>1, <4>4, <4>5 DEF Positioned
    <3>8. CASE e.src # Node
      <4>1. writePos'[e] = writePos[e] /\ readPos'[e] = readPos[e]
        BY <1>1, <3>5, <3>8
      <4>2. Occupancy(schedule, e, id) = o - (IF e.dst = Node THEN w ELSE 0)
        BY <3>2, <3>3, <3>8
      <4>3. QED
        BY <1>1, <2>1, <2>3, <3>1, <3>4, <4>1, <4>2 DEF Positioned
    <3>9. QED
      BY <3>7, <3>8
  <2>4. QED
    BY <2>2, <2>3
<1>4. Arrays' = Arrays
  BY <1>1 DEF Arrays, IsArray, FifoLength
<1>5. QED
  BY <1>1, <1>2, <1>3, <1>4 DEF LoopInv

LEMMA NextNodeKeeps ==
  ASSUME ScheduleInv, LoopInv, nextNode
  PROVE  LoopInv'
<1>1. /\ phase = "running" /\ phase' \in {"running", "left"}
      /\ step = "after" /\ step' = "before"
      /\ UNCHANGED <<graph, schedule, bMax, skip, readPos, writePos>>
      /\ \/ id < Len(schedule) /\ id' = id + 1 /\ nbSchedule' = nbSchedule
         \/ ~(id < Len(schedule)) /\ id' = 1 /\ nbSchedule' = nbSchedule + 1
  BY DEF nextNode, allocVars
<1>2. Plans /\ Repeats /\ nbSchedule \in Nat /\ id \in 1 .. Len(schedule)
      /\ (skip \subseteq Arrays => \A e \in graph.edges : Positioned(e))
  BY <1>1, Running
<1>3. Len(schedule) \in Nat
  BY <1>2 DEF Plans
<1>4. nbSchedule' \in Nat /\ id' \in 1 .. Len(schedule')
  BY <1>1, <1>2, <1>3
<1>5. ASSUME NEW e \in graph.edges
      PROVE  Contents(e)' = Occupancy(schedule, e, id)
  <2>1. Contents(e)' = Occupancy(schedule, e, id' - 1)
    BY <1>1 DEF Contents
  <2>2. CASE id < Len(schedule)
    <3>1. id' - 1 = id
      BY <1>1, <1>2, <2>2
    <3>2. QED
      BY <2>1, <3>1
  <2>3. CASE ~(id < Len(schedule))
    <3>1. id' - 1 = 0 /\ id = Len(schedule) /\ 0 \in Nat
      BY <1>1, <1>2, <1>3, <2>3
    <3>2. Occupancy(schedule, e, 0) = e.delay
      BY <1>2, <3>1, OccupancyIs DEF Plans
    <3>3. Occupancy(schedule, e, id) = e.delay
      BY <1>2, <3>1 DEF Repeats
    <3>4. QED
      BY <2>1, <3>1, <3>2, <3>3
  <2>4. QED
    BY <2>2, <2>3
<1>6. ASSUME NEW e \in graph.edges, Positioned(e) PROVE Positioned(e)'
  <2>1. IsArray(e)' = IsArray(e)
    BY <1>1 DEF IsArray, FifoLength
  <2>2. Contents(e) = Occupancy(schedule, e, id)
    BY <1>1 DEF Contents
  <2>3. QED
    BY <1>1, <1>5, <1>6, <2>1, <2>2 DEF Positioned
<1>7. Arrays' = Arrays
  BY <1>1 DEF Arrays, IsArray, FifoLength
<1>8. QED
  BY <1>1, <1>2, <1>4, <1>6, <1>7 DEF LoopInv

LEMMA ErrorHandlingKeeps ==
  ASSUME ScheduleInv, LoopInv, errorHandling
  PROVE  LoopInv'
<1>1. /\ phase = "running" /\ phase' = "left" /\ step' = "before"
      /\ UNCHANGED <<graph, schedule, bMax, skip, readPos, writePos, id,
                     nbSchedule>>
  BY DEF errorHandling, allocVars
<1>2. Plans /\ Repeats /\ nbSchedule \in Nat /\ id \in 1 .. Len(schedule)
      /\ (skip \subseteq Arrays => \A e \in graph.edges : Positioned(e))
  BY <1>1, Running
<1>3. ASSUME NEW e \in graph.edges, Positioned(e) PROVE Positioned(e)'
  <2>1. IsArray(e)' = IsArray(e)
    BY <1>1 DEF IsArray, FifoLength
  <2>2. QED
    BY <1>1, <1>3, <2>1 DEF Positioned
<1>4. Arrays' = Arrays
  BY <1>1 DEF Arrays, IsArray, FifoLength
<1>5. QED
  BY <1>1, <1>2, <1>3, <1>4 DEF LoopInv

LEMMA ResumeKeeps ==
  ASSUME ScheduleInv, LoopInv, resume
  PROVE  LoopInv'
<1>1. /\ phase = "left" /\ phase' = "running" /\ step' = step
      /\ UNCHANGED <<graph, schedule, bMax, skip>>
      /\ readPos' = [e \in graph.edges |-> IF IsArray(e) THEN readPos[e] ELSE 0]
      /\ writePos' = [e \in graph.edges |-> IF IsArray(e) THEN writePos[e]
                                                          ELSE e.delay]
      /\ id' = 1 /\ nbSchedule' = 0
  BY DEF resume, allocVars
<1>2. Plans /\ Repeats /\ id \in 1 .. Len(schedule)
      /\ (skip \subseteq Arrays => \A e \in graph.edges : Positioned(e))
  BY <1>1, Running
<1>3. step' = "before"
  BY <1>1 DEF LoopInv
<1>4. ASSUME NEW e \in graph.edges, Positioned(e) PROVE Positioned(e)'
  <2>1. IF IsArray(e) THEN readPos'[e] = 0 /\ writePos'[e] = 0
                      ELSE readPos'[e] = 0 /\ writePos'[e] = e.delay
    BY <1>1, <1>4 DEF Positioned
  <2>2. QED
    BY <1>1, <1>2, <1>3, <2>1, FreshIsPositioned
<1>5. id' \in 1 .. Len(schedule')
  <2>1. Len(schedule) \in Nat
    BY <1>2 DEF Plans
  <2>2. QED
    BY <1>1, <1>2, <2>1
<1>6. Arrays' = Arrays
  BY <1>1 DEF Arrays, IsArray, FifoLength
<1>7. QED
  BY <1>1, <1>2, <1>3, <1>4, <1>5, <1>6 DEF LoopInv

(* Before the program starts there are no positions yet.                    *)
LEMMA NotYetRunning ==
  ASSUME computeSchedule \/ initializeFIFODescriptions \/ refuseConstraints
  PROVE  LoopInv'
<1>1. phase' \notin {"running", "left"}
  <2>1. CASE insertDuplicates
    BY <2>1 DEF insertDuplicates
  <2>2. CASE topologyMatrix
    BY <2>2 DEF topologyMatrix, Raise
  <2>3. CASE selectGreedy
    BY <2>3 DEF selectGreedy
  <2>4. CASE finishGreedy
    BY <2>4 DEF finishGreedy
  <2>5. CASE selectSinks
    BY <2>5 DEF selectSinks
  <2>6. CASE finishSinks
    BY <2>6 DEF finishSinks
  <2>7. CASE raiseException
    BY <2>7 DEF raiseException, Raise
  <2>8. CASE initializeFIFODescriptions
    BY <2>8 DEF initializeFIFODescriptions
  <2>9. CASE refuseConstraints
    BY <2>9 DEF refuseConstraints, Raise
  <2>10. QED
    BY <2>1, <2>2, <2>3, <2>4, <2>5, <2>6, <2>7, <2>8, <2>9 DEF computeSchedule
<1>2. QED
  BY <1>1 DEF LoopInv

LEMMA LoopNext ==
  ASSUME ScheduleInv, LoopInv, [Next]_vars
  PROVE  LoopInv'
<1>1. CASE UNCHANGED vars
  <2>1. UNCHANGED <<graph, phase, bMax, schedule, skip, readPos, writePos, step,
                    id, nbSchedule>>
    BY <1>1 DEF vars, schedVars, allocVars, runVars
  <2>2. \A e \in graph.edges : Positioned(e)' = Positioned(e)
    BY <2>1 DEF Positioned, Contents, IsArray, FifoLength, Node
  <2>3. Arrays' = Arrays
    BY <2>1 DEF Arrays, IsArray, FifoLength
  <2>4. QED
    BY <2>1, <2>2, <2>3 DEF LoopInv
<1>2. QED
  BY <1>1, NotYetRunning, StartSchedulerKeeps, ReadInputsKeeps,
     WriteOutputsKeeps, NextNodeKeeps, ErrorHandlingKeeps, ResumeKeeps DEF Next

THEOREM LoopInvariant == Spec => [](ScheduleInv /\ LoopInv)
<1>1. Init => ScheduleInv /\ LoopInv
  <2>1. Init => LoopInv
    BY DEF Init, SchedInit, LoopInv
  <2>2. QED
    BY <2>1, ScheduleInit DEF Init
<1>2. ScheduleInv /\ LoopInv /\ [Next]_vars => (ScheduleInv /\ LoopInv)'
  BY ScheduleNext, LoopNext
<1>3. QED
  BY <1>1, <1>2, PTL DEF Spec

-----------------------------------------------------------------------------
(* Which outputs a Duplicate leaves out.                                    *)

(* A Duplicate has an input, and its outputs are numbered.                  *)
LEMMA DuplicatesAreFed ==
  ASSUME NEW g \in InputGraphs, NEW e \in InsertDuplicates(g).edges,
         IsDuplicate(e.src)
  PROVE  /\ \E f \in InsertDuplicates(g).edges : f.dst = e.src
         /\ e.out \in Nat
<1>1. InsertDuplicates(g).edges
        = (g.edges \ Shared(g))
            \cup {ToDuplicate(f) : f \in Shared(g) \cup g.open}
            \cup {FromDuplicate(f, NumberInFan(g, f)) : f \in Shared(g)}
  BY ExpandedEdges
<1>2. \A x \in Nodes(g) : ~IsDuplicate(x)
  <2>1. \A x \in Nodes(g) : Len(x) = 1
    BY GraphAssumption
  <2>2. SUFFICES ASSUME NEW x \in Nodes(g) PROVE ~(Len(x) > 1)
    BY DEF IsDuplicate
  <2>3. Len(x) = 1
    BY <2>1
  <2>4. QED
    BY <2>3
<1>3. Shared(g) \subseteq g.edges
  BY DEF Shared
<1>4. e \notin g.edges
  BY <1>2, EndsAreNodes
<1>5. ASSUME NEW o \in Shared(g) \cup g.open PROVE e # ToDuplicate(o)
  <2>1. o.src \in Nodes(g)
    <3>1. CASE o \in Shared(g)
      BY <1>3, <3>1, EndsAreNodes
    <3>2. CASE o \in g.open
      <4>1. {h.src : h \in g.open} \subseteq Nodes(g)
        BY DEF Nodes
      <4>2. o.src \in {h.src : h \in g.open}
        BY <3>2
      <4>3. QED
        BY <4>1, <4>2
    <3>3. QED
      BY <3>1, <3>2
  <2>2. ToDuplicate(o).src = o.src
    BY DEF ToDuplicate
  <2>3. QED
    BY <1>2, <2>1, <2>2
<1>6. PICK f \in Shared(g) : e = FromDuplicate(f, NumberInFan(g, f))
  BY <1>1, <1>4, <1>5
<1>7. e.src = DuplicateOf(f) /\ e.out = NumberInFan(g, f)
  <2>1. f \in g.edges
    BY <1>3
  <2>2. DOMAIN f = {"src", "out", "prod", "outBuffer",
                    "dst", "inp", "cons", "inBuffer", "delay", "buffer"}
    BY <2>1, GraphAssumption
  <2>3. QED
    BY <1>6, <2>2 DEF FromDuplicate
<1>8. ToDuplicate(f) \in InsertDuplicates(g).edges
  BY <1>1
<1>9. ToDuplicate(f).dst = DuplicateOf(f)
  BY DEF ToDuplicate
<1>10. NumberInFan(g, f) \in Nat
  <2>1. IsFiniteSet(g.edges)
    BY GraphAssumption
  <2>2. \A S : S \subseteq g.edges => Cardinality(S) \in Nat
    BY <2>1, FS_Subset, FS_CardinalityType
  <2>3. QED
    BY <2>2 DEF NumberInFan, Fan
<1>11. QED
  BY <1>7, <1>8, <1>9, <1>10

AllocInv ==
  /\ phase \in {"expanded"} \cup Planned =>
       \E g \in InputGraphs : graph = InsertDuplicates(g)
  /\ phase \in {"allocated", "running", "left"} =>
       /\ skip = SkippedBy(buffer) /\ DOMAIN buffer = graph.edges
       /\ \A e \in graph.edges : /\ e \in buffer[e]
                                 /\ buffer[e] \subseteq graph.edges
                                 /\ ~IsArray(e) => buffer[e] = {e}

LEMMA AllocNext ==
  ASSUME ScheduleInv, AllocInv, [Next]_vars
  PROVE  AllocInv'
<1> USE DEF AllocInv, Planned, Simulating
<1>1. CASE insertDuplicates
  BY <1>1 DEF insertDuplicates, ScheduleInv
<1>2. CASE /\ computeSchedule \/ refuseConstraints
           /\ ~insertDuplicates
  <2>1. /\ UNCHANGED graph
        /\ phase' \notin {"allocated", "running", "left"}
        /\ phase' \in {"expanded"} \cup Planned => phase \in {"expanded"} \cup Planned
    <3>1. CASE topologyMatrix
      BY <3>1 DEF topologyMatrix, Raise
    <3>2. CASE selectGreedy
      BY <3>2 DEF selectGreedy
    <3>3. CASE finishGreedy
      BY <3>3 DEF finishGreedy
    <3>4. CASE selectSinks
      BY <3>4 DEF selectSinks
    <3>5. CASE finishSinks
      BY <3>5 DEF finishSinks
    <3>6. CASE raiseException
      BY <3>6 DEF raiseException, Raise
    <3>7. CASE refuseConstraints
      BY <3>7 DEF refuseConstraints, Raise
    <3>8. QED
      BY <1>2, <3>1, <3>2, <3>3, <3>4, <3>5, <3>6, <3>7 DEF computeSchedule
  <2>2. QED
    BY <2>1
<1>3. CASE initializeFIFODescriptions
  <2>1. /\ UNCHANGED <<config, graph, bMax, liveInterval>>
        /\ phase = "scheduled" /\ phase' = "allocated"
        /\ skip' = SkippedBy(buffer')
    BY <1>3 DEF initializeFIFODescriptions
  <2>2. skip' = SkippedBy(buffer)'
    BY <2>1 DEF SkippedBy, BufferAttribute, InputOf
  <2>3. \A e \in graph.edges : IsArray(e)' = IsArray(e)
    BY <2>1 DEF IsArray, FifoLength
  <2>4. /\ DOMAIN buffer' = graph.edges
        /\ \A e \in graph.edges : /\ e \in buffer'[e]
                                  /\ buffer'[e] \subseteq graph.edges
                                  /\ ~IsArray(e) => buffer'[e] = {e}
    BY <1>3 DEF initializeFIFODescriptions, BuffersOf, Arrays
  <2>5. QED
    BY <2>1, <2>2, <2>3, <2>4
<1>4. CASE startScheduler \/ readInputs \/ writeOutputs \/ nextNode
           \/ errorHandling \/ resume \/ UNCHANGED vars
  <2>1. /\ UNCHANGED <<config, graph, bMax, buffer, skip>>
        /\ phase' = phase \/ phase \in {"allocated", "running", "left"}
    BY <1>4 DEF startScheduler, readInputs, writeOutputs, nextNode,
                errorHandling, resume, vars, schedVars, allocVars
  <2>2. SkippedBy(buffer)' = SkippedBy(buffer)
    BY <2>1 DEF SkippedBy, BufferAttribute, InputOf
  <2>3. \A e \in graph.edges : IsArray(e)' = IsArray(e)
    BY <2>1 DEF IsArray, FifoLength
  <2>4. QED
    BY <2>1, <2>2, <2>3
<1>5. QED
  BY <1>1, <1>2, <1>3, <1>4 DEF Next

(* The buffer is imposed, or shared with one that is.                       *)
Imposed(e) == \E f \in buffer[e] : IsCustom(f)

(* The buffer that is imposed on an output of a Duplicate, if it is not a   *)
(* plain array, is the only one that is imposed around the Duplicate.       *)
ImposedApart ==
  \A e, f \in graph.edges :
    IsDuplicate(e.src) /\ ~IsArray(e) /\ f # e /\ e.src \in {f.src, f.dst} =>
      ~(Imposed(e) /\ Imposed(f))

LEMMA SkippedAreArrays ==
  ASSUME ScheduleInv, AllocInv, ImposedApart, phase \in {"running", "left"}
  PROVE  skip \subseteq Arrays
<1>1. SUFFICES ASSUME NEW e \in skip, ~IsArray(e) PROVE FALSE
  <2>1. skip \subseteq graph.edges
    BY DEF AllocInv, SkippedBy
  <2>2. QED
    BY <1>1, <2>1 DEF Arrays
<1>2. /\ e \in graph.edges /\ IsDuplicate(e.src)
      /\ \/ BufferAttribute(buffer, e) = BufferAttribute(buffer, InputOf(e.src))
         \/ \E f \in graph.edges :
              /\ f.src = e.src /\ f.out < e.out
              /\ BufferAttribute(buffer, f) = BufferAttribute(buffer, e)
  BY DEF AllocInv, SkippedBy
<1>3. /\ \A f \in graph.edges : f \in buffer[f] /\ buffer[f] \subseteq graph.edges
      /\ buffer[e] = {e}
  BY <1>1, <1>2 DEF AllocInv
<1>4. PICK g \in InputGraphs : graph = InsertDuplicates(g)
  BY DEF AllocInv, Planned
<1>5. \A f \in graph.edges : NoBuffer # buffer[f]
  BY <1>3, <1>4, NoBufferAssumption
<1>6. ASSUME NEW f \in graph.edges, f # e, e.src \in {f.src, f.dst}
      PROVE  BufferAttribute(buffer, f) # BufferAttribute(buffer, e)
  <2>1. ~(Imposed(e) /\ Imposed(f))
    BY <1>1, <1>2, <1>6 DEF ImposedApart
  <2>2. buffer[f] # buffer[e]
    BY <1>3, <1>6
  <2>3. /\ BufferAttribute(buffer, f) = IF Imposed(f) THEN NoBuffer ELSE buffer[f]
        /\ BufferAttribute(buffer, e) = IF Imposed(e) THEN NoBuffer ELSE buffer[e]
    BY DEF BufferAttribute, Imposed
  <2>4. QED
    BY <1>2, <1>5, <2>1, <2>2, <2>3
<1>7. InputOf(e.src) \in graph.edges /\ InputOf(e.src).dst = e.src
  BY <1>2, <1>4, DuplicatesAreFed DEF InputOf
<1>8. InputOf(e.src) # e
  BY <1>2, <1>7 DEF ScheduleInv, Planned, Plans
<1>9. \A f \in graph.edges : f.src = e.src /\ f.out < e.out => f # e
  <2>1. e.out \in Nat
    BY <1>2, <1>4, DuplicatesAreFed
  <2>2. ~(e.out < e.out)
    BY <2>1
  <2>3. QED
    BY <2>2
<1>10. QED
  BY <1>2, <1>6, <1>7, <1>8, <1>9

(* Theorem: whatever the graph, the schedule and the configuration, and     *)
(* however often the loop is left and begun again, no FIFO of the generated *)
(* program is read past what was written nor written past the length that   *)
(* the simulation has found (getReadBuffer() and getWriteBuffer() of        *)
(* GenericNodes.hpp test nothing).  A second buffer that is imposed around  *)
(* a Duplicate is excluded: description.py:1193 takes it for the first, and *)
(* its FIFO is never filled.                                                *)
THEOREM LoopStaysInBounds == Spec => [](ImposedApart => FIFOBounds)
<1>1. ScheduleInv /\ LoopInv /\ AllocInv => (ImposedApart => FIFOBounds)
  <2>1. SUFFICES ASSUME ScheduleInv, LoopInv, AllocInv, ImposedApart,
                        phase \in {"running", "left"}, NEW e \in graph.edges
                 PROVE  0 <= readPos[e] /\ readPos[e] <= writePos[e]
                                        /\ writePos[e] <= bMax[e]
    BY DEF FIFOBounds, FifoLength
  <2>2. skip \subseteq Arrays
    BY <2>1, SkippedAreArrays
  <2>3. Positioned(e) /\ bMax[e] \in Nat
    BY <2>1, <2>2, Running DEF Plans
  <2>4. QED
    BY <2>3 DEF Positioned
<1>2. Init => AllocInv
  BY DEF Init, SchedInit, AllocInv, Planned, Simulating
<1>3. ScheduleInv /\ AllocInv /\ [Next]_vars => AllocInv'
  BY AllocNext
<1>4. QED
  BY <1>1, <1>2, <1>3, ScheduleInvariant, LoopInvariant, PTL DEF Spec
-----------------------------------------------------------------------------
(* What a Duplicate has at its ends.                                        *)

LEMMA NodesAreNames ==
  ASSUME NEW g \in InputGraphs
  PROVE  /\ \A e \in g.edges : /\ e.src \in Seq(Nat) /\ ~IsDuplicate(e.src)
                               /\ ~IsDuplicate(e.dst)
                               /\ e.out \in Nat
         /\ \A o \in g.open : /\ o.src \in Seq(Nat) /\ ~IsDuplicate(o.src)
                              /\ o.out \in Nat
<1>1. \A x \in Nodes(g) : x \in Seq(Nat) /\ ~IsDuplicate(x)
  <2>1. \A x \in Nodes(g) : x \in Seq(Nat) /\ Len(x) = 1
    BY GraphAssumption
  <2>2. SUFFICES ASSUME NEW x \in Nodes(g) PROVE x \in Seq(Nat) /\ ~(Len(x) > 1)
    BY DEF IsDuplicate
  <2>3. x \in Seq(Nat) /\ Len(x) = 1
    BY <2>1
  <2>4. QED
    BY <2>3
<1>2. \A o \in g.open : o.src \in Nodes(g)
  <2>1. {o.src : o \in g.open} \subseteq Nodes(g)
    BY DEF Nodes
  <2>2. QED
    BY <2>1
<1>3. \A e \in g.edges : e.out \in Nat
  BY GraphAssumption
<1>4. \A o \in g.open : o.out \in Nat
  BY GraphAssumption
<1>5. QED
  BY <1>1, <1>2, <1>3, <1>4, EndsAreNodes

(* The fields that the insertion of a Duplicate changes.                    *)
LEMMA ToDuplicateIs ==
  ASSUME NEW o
  PROVE  /\ ToDuplicate(o).src = o.src /\ ToDuplicate(o).out = o.out
         /\ ToDuplicate(o).dst = DuplicateOf(o)
         /\ ToDuplicate(o).prod = o.prod /\ ToDuplicate(o).cons = o.prod
         /\ ToDuplicate(o).delay = 0
BY DEF ToDuplicate

LEMMA FromDuplicateIs ==
  ASSUME NEW g \in InputGraphs, NEW e \in g.edges
  PROVE  LET f == FromDuplicate(e, NumberInFan(g, e)) IN
         /\ f.src = DuplicateOf(e) /\ f.dst = e.dst
         /\ f.prod = e.prod /\ f.out \in Nat
<1>1. DOMAIN e = {"src", "out", "prod", "outBuffer",
                  "dst", "inp", "cons", "inBuffer", "delay", "buffer"}
  BY GraphAssumption
<1>2. NumberInFan(g, e) \in Nat
  <2>1. IsFiniteSet(g.edges)
    BY GraphAssumption
  <2>2. \A S : S \subseteq g.edges => Cardinality(S) \in Nat
    BY <2>1, FS_Subset, FS_CardinalityType
  <2>3. QED
    BY <2>2 DEF NumberInFan, Fan
<1>3. QED
  BY <1>1, <1>2 DEF FromDuplicate

(* The name of a Duplicate tells which output it belongs to.                *)
LEMMA DuplicateOfIs ==
  ASSUME NEW e, e.src \in Seq(Nat), e.out \in Nat,
         NEW f, f.src \in Seq(Nat), f.out \in Nat,
         DuplicateOf(e) = DuplicateOf(f)
  PROVE  e.src = f.src /\ e.out = f.out
<1>1. \A s, t \in Seq(Nat) : \A i, j \in Nat :
        Append(s, i) = Append(t, j) => s = t /\ i = j
  BY AppendInjective
<1>2. Append(e.src, e.out) = Append(f.src, f.out)
  BY DEF DuplicateOf
<1>3. QED
  BY ONLY <1>1, <1>2, e.src \in Seq(Nat), e.out \in Nat,
          f.src \in Seq(Nat), f.out \in Nat

(* A Duplicate has one input, which comes from a node of the user and       *)
(* brings as many samples as each of the outputs takes away.                *)
LEMMA DuplicatesHaveOneInput ==
  ASSUME NEW g \in InputGraphs, NEW e \in InsertDuplicates(g).edges,
         IsDuplicate(e.src)
  PROVE  \E i \in InsertDuplicates(g).edges :
           /\ i.dst = e.src
           /\ \A h \in InsertDuplicates(g).edges : h.dst = e.src => h = i
           /\ ~IsDuplicate(i.src)
           /\ i.delay = 0 /\ i.cons = i.prod /\ i.prod = e.prod
<1>1. InsertDuplicates(g).edges
        = (g.edges \ Shared(g))
            \cup {ToDuplicate(f) : f \in Shared(g) \cup g.open}
            \cup {FromDuplicate(f, NumberInFan(g, f)) : f \in Shared(g)}
  BY ExpandedEdges
<1>2. Shared(g) \subseteq g.edges
  BY DEF Shared
<1>3. \A o \in Shared(g) \cup g.open :
        o.src \in Seq(Nat) /\ ~IsDuplicate(o.src) /\ o.out \in Nat
  BY <1>2, NodesAreNames
<1>4. PICK f \in Shared(g) : e = FromDuplicate(f, NumberInFan(g, f))
  <2>1. e \notin g.edges
    BY NodesAreNames
  <2>2. ASSUME NEW o \in Shared(g) \cup g.open PROVE e # ToDuplicate(o)
    BY <1>3, ToDuplicateIs
  <2>3. QED
    BY <1>1, <2>1, <2>2
<1>5. f \in g.edges /\ e.src = DuplicateOf(f) /\ e.prod = f.prod
  BY <1>2, <1>4, FromDuplicateIs
<1> DEFINE i == ToDuplicate(f)
<1>6. /\ i \in InsertDuplicates(g).edges
      /\ i.dst = e.src /\ ~IsDuplicate(i.src)
      /\ i.delay = 0 /\ i.cons = i.prod /\ i.prod = e.prod
  BY <1>1, <1>3, <1>5, ToDuplicateIs
<1>7. ASSUME NEW h \in InsertDuplicates(g).edges, h.dst = e.src
      PROVE  h = i
  <2>1. IsDuplicate(h.dst)
    BY <1>7
  <2>2. h \notin g.edges
    BY <2>1, NodesAreNames
  <2>3. ASSUME NEW k \in Shared(g) PROVE h # FromDuplicate(k, NumberInFan(g, k))
    <3>1. k \in g.edges
      BY <1>2
    <3>2. ~IsDuplicate(k.dst)
      BY <3>1, NodesAreNames
    <3>3. QED
      BY <2>1, <3>1, <3>2, FromDuplicateIs
  <2>4. PICK o \in Shared(g) \cup g.open : h = ToDuplicate(o)
    BY <1>1, <2>2, <2>3
  <2>5. DuplicateOf(o) = DuplicateOf(f)
    BY <1>5, <1>7, <2>4, ToDuplicateIs
  <2>6. o.src = f.src /\ o.out = f.out
    BY <1>3, <2>5, DuplicateOfIs
  <2>7. CASE o \in g.open
    <3>1. f = o
      BY <1>5, <2>6, <2>7, GraphAssumption
    <3>2. QED
      BY <2>4, <3>1
  <2>8. CASE o \in Shared(g)
    <3>1. o \in g.edges
      BY <1>2, <2>8
    <3>2. o.prod = f.prod /\ o.outBuffer = f.outBuffer
      BY <1>5, <2>6, <3>1, GraphAssumption
    <3>3. ToDuplicate(o) = ToDuplicate(f)
      BY <2>5, <2>6, <3>2 DEF ToDuplicate
    <3>4. QED
      BY <2>4, <3>3
  <2>9. QED
    BY <2>4, <2>7, <2>8
<1>8. QED
  BY <1>6, <1>7

LEMMA OutputsAreNumbered ==
  ASSUME NEW g \in InputGraphs, NEW e \in InsertDuplicates(g).edges
  PROVE  e.out \in Nat
<1>1. Shared(g) \subseteq g.edges
  BY DEF Shared
<1>2. CASE e \in g.edges
  BY <1>2, NodesAreNames
<1>3. CASE \E o \in Shared(g) \cup g.open : e = ToDuplicate(o)
  BY <1>1, <1>3, NodesAreNames, ToDuplicateIs
<1>4. CASE \E f \in Shared(g) : e = FromDuplicate(f, NumberInFan(g, f))
  BY <1>1, <1>4, FromDuplicateIs
<1>5. QED
  BY <1>2, <1>3, <1>4, ExpandedEdges
-----------------------------------------------------------------------------
(* The intervals in which the FIFOs are live.                               *)

(* Every execution moves the same number of samples.                        *)
Plain(e) == Len(e.prod) = 1 /\ Len(e.cons) = 1

LEMMA PlainRates ==
  ASSUME NEW s, IsRates(s), Len(s) = 1, NEW k \in Nat
  PROVE  CycleValue(s, k) = s[1] /\ s[1] \in Nat \ {0}
<1>1. k % 1 = 0
  <2>1. k % 1 \in 0 .. 1 - 1
    BY Remainder
  <2>2. QED
    BY <2>1
<1>2. s \in Seq(Nat) /\ \E i \in DOMAIN s : s[i] > 0
  BY DEF IsRates
<1>3. DOMAIN s = {1}
  BY <1>2
<1>4. s[1] \in Nat /\ s[1] > 0
  BY <1>2, <1>3
<1>5. QED
  BY <1>1, <1>4 DEF CycleValue

(* No execution of the writer comes before the start of the interval, none  *)
(* of the reader after its end.                                             *)
LiveAt(e) ==
  /\ liveInterval[e][1] \in Int /\ liveInterval[e][2] \in Int
  /\ -1 <= liveInterval[e][1] /\ liveInterval[e][1] < Len(schedule)
  /\ \A k \in 1 .. Len(schedule) :
       /\ schedule[k] = e.src =>
            0 <= liveInterval[e][1] /\ liveInterval[e][1] < k
       /\ schedule[k] = e.dst => k <= liveInterval[e][2] + 1

Recording == phase \in {"sinks", "scheduled"} \/ (phase = "greedy" /\ layers = <<>>)

LiveInv ==
  /\ phase = "greedy" /\ layers # <<>> =>
       \A e \in graph.edges : liveInterval[e] = <<-1, -1>>
  /\ Recording => \A e \in graph.edges : Plain(e) => LiveAt(e)

LEMMA RecordedIs ==
  ASSUME Plans, Simulates, NEW x \in Nodes(graph), NEW time,
         NEW e \in graph.edges, Plain(e)
  PROVE  /\ Recorded(x, time)[e][1]
              = IF e.src = x /\ liveInterval[e][1] = -1 THEN time
                ELSE liveInterval[e][1]
         /\ Recorded(x, time)[e][2]
              = IF e.dst = x THEN time ELSE liveInterval[e][2]
<1> DEFINE p == CycleValue(e.prod, Count(schedule, e.src, Len(schedule)))
           c == CycleValue(e.cons, Count(schedule, e.dst, Len(schedule)))
<1>1. IsRates(e.prod) /\ IsRates(e.cons) /\ e.src # e.dst /\ Len(schedule) \in Nat
  BY DEF Plans, IsSchedulable
<1>2. /\ Count(schedule, e.src, Len(schedule)) \in Nat
      /\ Count(schedule, e.dst, Len(schedule)) \in Nat
  BY <1>1, CountIs
<1>3. p \in Nat \ {0} /\ c \in Nat \ {0}
  BY <1>1, <1>2, PlainRates DEF Plain
<1>4. b[e] \in Int
  <2>1. Occupancy(schedule, e, Len(schedule)) \in Int
    BY <1>1, OccupancyIs DEF Plans
  <2>2. QED
    BY <2>1 DEF Simulates
<1>5. NewB(x)[e] = b[e] + (IF e.src = x THEN p ELSE 0) - (IF e.dst = x THEN c ELSE 0)
  BY NewBIs
<1> HIDE DEF p, c
<1>6. /\ NewB(x)[e] > b[e] <=> e.src = x
      /\ NewB(x)[e] < b[e] <=> e.dst = x
  BY <1>1, <1>3, <1>4, <1>5
<1>7. QED
  BY <1>6 DEF Recorded

LEMMA RecordedKeeps ==
  ASSUME Plans, Simulates, NEW x \in Nodes(graph),
         NEW e \in graph.edges, Plain(e), LiveAt(e),
         liveInterval' = Recorded(x, Len(schedule)),
         schedule' = Append(schedule, x)
  PROVE  LiveAt(e)'
<1> DEFINE i == liveInterval[e][1]
           j == liveInterval[e][2]
           L == Len(schedule)
<1>1. /\ liveInterval'[e][1] = IF e.src = x /\ i = -1 THEN L ELSE i
      /\ liveInterval'[e][2] = IF e.dst = x THEN L ELSE j
  BY RecordedIs
<1>2. /\ schedule \in Seq(Nodes(graph)) /\ L \in Nat
      /\ Len(schedule') = L + 1 /\ schedule'[L + 1] = x
      /\ \A k \in 1 .. L : schedule'[k] = schedule[k]
  BY DEF Plans
<1>3. /\ i \in Int /\ j \in Int /\ -1 <= i /\ i < L
      /\ \A k \in 1 .. L : /\ schedule[k] = e.src => 0 <= i /\ i < k
                           /\ schedule[k] = e.dst => k <= j + 1
  BY DEF LiveAt
<1> DEFINE ii == liveInterval'[e][1]
           jj == liveInterval'[e][2]
<1> HIDE DEF i, j, L, ii, jj
<1>4. ii \in Int /\ jj \in Int /\ -1 <= ii /\ ii < L + 1
  BY <1>1, <1>2, <1>3 DEF ii, jj
<1>5. ASSUME NEW k \in 1 .. L + 1
      PROVE  /\ schedule'[k] = e.src => 0 <= ii /\ ii < k
             /\ schedule'[k] = e.dst => k <= jj + 1
  <2>1. CASE k = L + 1
    BY <1>1, <1>2, <1>3, <2>1 DEF ii, jj
  <2>2. CASE k # L + 1
    <3>1. k \in 1 .. L
      BY <1>2, <2>2
    <3>2. /\ schedule'[k] = e.src => 0 <= i /\ i < k
          /\ schedule'[k] = e.dst => k <= j + 1
      BY <1>2, <1>3, <3>1
    <3>3. QED
      BY <1>1, <1>2, <1>3, <3>1, <3>2 DEF ii, jj
  <2>3. QED
    BY <2>1, <2>2
<1>6. QED
  BY <1>2, <1>4, <1>5 DEF LiveAt, ii, jj

LEMMA LiveNext ==
  ASSUME ScheduleInv, LiveInv, [Next]_vars
  PROVE  LiveInv'
<1> USE DEF Recording
<1>1. CASE topologyMatrix
  <2>1. CASE phase' = "greedy"
    <3>1. /\ \A e \in graph.edges : liveInterval'[e] = <<-1, -1>>
          /\ UNCHANGED <<graph, schedule>> /\ schedule = <<>>
      BY <1>1, <2>1 DEF topologyMatrix, Raise, ScheduleInv
    <3>2. \A e \in graph'.edges : LiveAt(e)'
      <4>1. SUFFICES ASSUME NEW e \in graph.edges PROVE LiveAt(e)'
        BY <3>1
      <4>2. liveInterval'[e] = <<-1, -1>> /\ schedule' = <<>>
        BY <3>1
      <4>3. Len(schedule') = 0
        BY <4>2
      <4>4. liveInterval'[e][1] = -1 /\ liveInterval'[e][2] = -1
        BY <4>2
      <4>5. QED
        BY <4>3, <4>4 DEF LiveAt
    <3>3. QED
      BY <2>1, <3>1, <3>2 DEF LiveInv
  <2>2. CASE phase' = "NotSchedulableError"
    BY <2>2 DEF LiveInv
  <2>3. QED
    BY <1>1, <2>1, <2>2 DEF topologyMatrix, Raise
<1>2. CASE selectGreedy
  <2>1. /\ UNCHANGED <<graph, phase, layers>> /\ phase = "greedy"
        /\ \E x \in Selected :
             /\ schedule' = Append(schedule, x)
             /\ liveInterval' = IF layers = <<>> THEN Recorded(x, Len(schedule))
                                                ELSE liveInterval
    BY <1>2 DEF selectGreedy, Execute
  <2>2. PICK x \in Selected :
          /\ schedule' = Append(schedule, x)
          /\ liveInterval' = IF layers = <<>> THEN Recorded(x, Len(schedule))
                                             ELSE liveInterval
    BY <2>1
  <2>3. Plans /\ Simulates /\ x \in Nodes(graph)
    BY <2>1 DEF ScheduleInv, Planned, Simulating, Selected, Candidates
  <2>4. CASE layers = <<>>
    <3>1. \A e \in graph.edges : Plain(e) => LiveAt(e)'
      BY <2>1, <2>2, <2>3, <2>4, RecordedKeeps DEF LiveInv
    <3>2. QED
      BY <2>1, <2>4, <3>1 DEF LiveInv
  <2>5. CASE layers # <<>>
    BY <2>1, <2>2, <2>5 DEF LiveInv
  <2>6. QED
    BY <2>4, <2>5
<1>3. CASE finishGreedy
  <2>1. UNCHANGED <<graph, layers, liveInterval>> /\ phase = "greedy"
    BY <1>3 DEF finishGreedy
  <2>2. CASE layers = <<>>
    <3>1. phase' = "scheduled" /\ UNCHANGED schedule
      BY <1>3, <2>2 DEF finishGreedy
    <3>2. \A e \in graph.edges : LiveAt(e)' = LiveAt(e)
      BY <2>1, <3>1 DEF LiveAt
    <3>3. QED
      BY <2>1, <2>2, <3>1, <3>2 DEF LiveInv
  <2>3. CASE layers # <<>>
    <3>1. phase' = "sinks" /\ schedule' = <<>>
      BY <1>3, <2>3 DEF finishGreedy
    <3>2. ASSUME NEW e \in graph.edges PROVE LiveAt(e)'
      <4>1. liveInterval'[e] = <<-1, -1>>
        BY <2>1, <2>3 DEF LiveInv
      <4>2. Len(schedule') = 0
        BY <3>1
      <4>3. liveInterval'[e][1] = -1 /\ liveInterval'[e][2] = -1
        BY <4>1
      <4>4. QED
        BY <4>2, <4>3 DEF LiveAt
    <3>3. QED
      BY <2>1, <3>1, <3>2 DEF LiveInv
  <2>4. QED
    BY <2>2, <2>3
<1>4. CASE selectSinks
  <2>1. /\ UNCHANGED <<graph, phase>> /\ phase = "sinks"
        /\ \E k \in DOMAIN layers : \E i \in DOMAIN layers[k] :
             /\ FitsIn(layers[k][i])
             /\ schedule' = Append(schedule, layers[k][i])
             /\ liveInterval' = Recorded(layers[k][i], Len(schedule))
    BY <1>4 DEF selectSinks, Execute
  <2>2. PICK k \in DOMAIN layers : \E i \in DOMAIN layers[k] :
             /\ schedule' = Append(schedule, layers[k][i])
             /\ liveInterval' = Recorded(layers[k][i], Len(schedule))
    BY <2>1
  <2>3. PICK i \in DOMAIN layers[k] :
             /\ schedule' = Append(schedule, layers[k][i])
             /\ liveInterval' = Recorded(layers[k][i], Len(schedule))
    BY <2>2
  <2>4. Plans /\ Simulates /\ layers[k] \in Seq(Nodes(graph))
    BY <2>1 DEF ScheduleInv, Planned, Simulating, LayersHoldNodes
  <2>5. layers[k][i] \in Nodes(graph)
    BY <2>4
  <2>6. \A e \in graph.edges : Plain(e) => LiveAt(e)'
    BY <2>1, <2>3, <2>4, <2>5, RecordedKeeps DEF LiveInv
  <2>7. QED
    BY <2>1, <2>6 DEF LiveInv
<1>5. CASE finishSinks \/ UNCHANGED vars
  <2>1. /\ UNCHANGED <<graph, layers, liveInterval, schedule>>
        /\ phase' = phase \/ (phase = "sinks" /\ phase' = "scheduled")
    BY <1>5 DEF finishSinks, vars, schedVars
  <2>2. \A e \in graph.edges : LiveAt(e)' = LiveAt(e)
    BY <2>1 DEF LiveAt
  <2>3. QED
    BY <2>1, <2>2 DEF LiveInv
<1>6. CASE \/ insertDuplicates \/ raiseException \/ refuseConstraints
           \/ initializeFIFODescriptions \/ startScheduler \/ readInputs
           \/ writeOutputs \/ nextNode \/ errorHandling \/ resume
  <2>1. phase' \notin {"greedy", "sinks", "scheduled"}
    BY <1>6 DEF insertDuplicates, raiseException, refuseConstraints, Raise,
                initializeFIFODescriptions, startScheduler, readInputs,
                writeOutputs, nextNode, errorHandling, resume, schedVars
  <2>2. QED
    BY <2>1 DEF LiveInv
<1>7. QED
  BY <1>1, <1>2, <1>3, <1>4, <1>5, <1>6 DEF Next, computeSchedule
-----------------------------------------------------------------------------
(* Which FIFOs have the same memory.                                        *)

LEMMA ArrayIs ==
  ASSUME Plans, NEW e \in graph.edges, IsArray(e)
  PROVE  /\ Plain(e) /\ e.delay = 0 /\ bMax[e] \in Nat \ {0}
         /\ \A k \in Nat : /\ CycleValue(e.prod, k) = bMax[e]
                           /\ CycleValue(e.cons, k) = bMax[e]
<1>1. /\ e.prod = <<bMax[e]>> /\ e.cons = <<bMax[e]>> /\ e.delay = 0
  BY DEF IsArray, FifoLength
<1>2. IsRates(e.prod) /\ IsRates(e.cons)
  BY DEF Plans, IsSchedulable
<1>3. Len(e.prod) = 1 /\ Len(e.cons) = 1 /\ e.prod[1] = bMax[e] /\ e.cons[1] = bMax[e]
  BY <1>1
<1>4. \A k \in Nat : /\ CycleValue(e.prod, k) = bMax[e] /\ bMax[e] \in Nat \ {0}
                     /\ CycleValue(e.cons, k) = bMax[e]
  BY <1>2, <1>3, PlainRates
<1>5. 0 \in Nat
  OBVIOUS
<1>6. QED
  BY <1>1, <1>3, <1>4, <1>5 DEF Plain

LEMMA CountedOnce ==
  ASSUME NEW s, NEW x, NEW j \in Nat, NEW k \in Nat, j <= k,
         Count(s, x, j) # Count(s, x, k)
  PROVE  \E i \in j + 1 .. k : s[i] = x
<1>1. SUFFICES ASSUME \A i \in j + 1 .. k : s[i] # x PROVE FALSE
  OBVIOUS
<1>2. {i \in 1 .. j : s[i] = x} = {i \in 1 .. k : s[i] = x}
  <2>1. \A i \in 1 .. k : i \in 1 .. j \/ i \in j + 1 .. k
    OBVIOUS
  <2>2. 1 .. j \subseteq 1 .. k
    OBVIOUS
  <2>3. QED
    BY <1>1, <2>1, <2>2
<1>3. QED
  BY <1>2 DEF Count

(* What an array holds was written earlier in the period and is read later  *)
(* in it.                                                                   *)
LEMMA WrittenBefore ==
  ASSUME Plans, NEW e \in graph.edges, e.delay = 0,
         NEW t \in 0 .. Len(schedule), Occupancy(schedule, e, t) > 0
  PROVE  \E k \in 1 .. t : schedule[k] = e.src
<1>1. IsRates(e.prod) /\ IsRates(e.cons) /\ t \in Nat
  BY DEF Plans, IsSchedulable
<1> DEFINE p == Count(schedule, e.src, t)
           c == Count(schedule, e.dst, t)
<1>2. p \in Nat /\ c \in Nat /\ Count(schedule, e.src, 0) = 0
  BY <1>1, CountIs
<1>3. Occupancy(schedule, e, t) = Moved(e.prod, p) - Moved(e.cons, c)
  <2>1. Moved(e.prod, p) \in Nat /\ Moved(e.cons, c) \in Nat
    BY <1>1, <1>2, MovedIs
  <2>2. QED
    BY <2>1 DEF Occupancy
<1> HIDE DEF p, c
<1>4. Moved(e.prod, p) > 0
  <2>1. Moved(e.prod, p) \in Nat /\ Moved(e.cons, c) \in Nat
    BY <1>1, <1>2, MovedIs
  <2>2. QED
    BY <1>3, <2>1
<1>5. p # 0
  BY <1>1, <1>4, MovedIs
<1>6. \E k \in 0 + 1 .. t : schedule[k] = e.src
  BY <1>1, <1>2, <1>5, CountedOnce DEF p
<1>7. QED
  BY <1>6

LEMMA ReadAfter ==
  ASSUME Plans, NEW e \in graph.edges,
         NEW t \in 0 .. Len(schedule), Occupancy(schedule, e, t) > 0,
         Occupancy(schedule, e, Len(schedule)) = 0
  PROVE  \E k \in t + 1 .. Len(schedule) : schedule[k] = e.dst
<1>1. /\ IsRates(e.prod) /\ IsRates(e.cons) /\ e.delay \in Nat
      /\ t \in Nat /\ Len(schedule) \in Nat /\ t <= Len(schedule)
  BY DEF Plans, IsSchedulable
<1> DEFINE L == Len(schedule)
           p == Count(schedule, e.src, t)
           c == Count(schedule, e.dst, t)
           pp == Count(schedule, e.src, L)
           cc == Count(schedule, e.dst, L)
<1>2. p \in Nat /\ c \in Nat /\ pp \in Nat /\ cc \in Nat
  BY <1>1, CountIs
<1>3. p <= pp
  BY <1>1, CountGrows
<1>4. /\ Occupancy(schedule, e, t) = e.delay + Moved(e.prod, p) - Moved(e.cons, c)
      /\ Occupancy(schedule, e, L) = e.delay + Moved(e.prod, pp) - Moved(e.cons, cc)
  BY DEF Occupancy
<1> HIDE DEF p, c, pp, cc
<1>5. Moved(e.prod, p) <= Moved(e.prod, pp)
  BY <1>1, <1>2, <1>3, MovedGrows
<1>6. /\ Moved(e.prod, p) \in Nat /\ Moved(e.prod, pp) \in Nat
      /\ Moved(e.cons, c) \in Nat /\ Moved(e.cons, cc) \in Nat
  BY <1>1, <1>2, MovedIs
<1>7. Moved(e.cons, c) # Moved(e.cons, cc)
  BY <1>1, <1>4, <1>5, <1>6
<1>8. QED
  BY <1>1, <1>7, CountedOnce DEF c, cc

(* Where the interval of an array lies.                                     *)
LEMMA IntervalIs ==
  ASSUME Plans, NEW e \in graph.edges, IsArray(e), LiveAt(e),
         Occupancy(schedule, e, Len(schedule)) = 0,
         NEW t \in 1 .. Len(schedule)
  PROVE  /\ liveInterval[e][1] \in Int /\ liveInterval[e][2] \in Int
         /\ Occupancy(schedule, e, t - 1) > 0 =>
              liveInterval[e][1] < t - 1 /\ t - 1 <= liveInterval[e][2]
         /\ schedule[t] = e.src =>
              liveInterval[e][1] <= t - 1 /\ t <= liveInterval[e][2]
         /\ schedule[t] = e.dst => t - 1 <= liveInterval[e][2]
<1> DEFINE i == liveInterval[e][1]
           j == liveInterval[e][2]
<1>1. /\ i \in Int /\ j \in Int
      /\ \A k \in 1 .. Len(schedule) : /\ schedule[k] = e.src => 0 <= i /\ i < k
                                       /\ schedule[k] = e.dst => k <= j + 1
  BY DEF LiveAt
<1>2. Len(schedule) \in Nat /\ e.delay = 0
  BY ArrayIs DEF Plans
<1> HIDE DEF i, j
<1>3. ASSUME Occupancy(schedule, e, t - 1) > 0 PROVE i < t - 1 /\ t - 1 <= j
  <2>1. t - 1 \in 0 .. Len(schedule)
    BY <1>2
  <2>2. PICK k \in 1 .. t - 1 : schedule[k] = e.src
    BY <1>2, <1>3, <2>1, WrittenBefore
  <2>3. PICK m \in t - 1 + 1 .. Len(schedule) : schedule[m] = e.dst
    BY <1>3, <2>1, ReadAfter
  <2>4. k \in 1 .. Len(schedule) /\ m \in 1 .. Len(schedule) /\ t <= m
    BY <1>2, <2>2, <2>3
  <2>5. i < k /\ m <= j + 1
    BY <1>1, <2>2, <2>3, <2>4
  <2>6. QED
    BY <1>1, <1>2, <2>2, <2>4, <2>5
<1>4. ASSUME schedule[t] = e.src PROVE i <= t - 1 /\ t <= j
  <2>1. Occupancy(schedule, e, t) > 0
    <3>1. t - 1 \in Nat /\ t - 1 + 1 = t /\ t - 1 \in 0 .. Len(schedule)
      BY <1>2
    <3>2. e.src # e.dst /\ IsSchedulable(graph)
      BY DEF Plans
    <3>3. Count(schedule, e.src, t - 1) \in Nat
      BY <3>1, CountIs
    <3>4. CycleValue(e.prod, Count(schedule, e.src, t - 1)) \in Nat \ {0}
      BY <3>3, ArrayIs
    <3>5. /\ Occupancy(schedule, e, t - 1) \in Int
          /\ Occupancy(schedule, e, t - 1 + 1)
               = Occupancy(schedule, e, t - 1)
                 + (IF schedule[t - 1 + 1] = e.src
                    THEN CycleValue(e.prod, Count(schedule, e.src, t - 1)) ELSE 0)
                 - (IF schedule[t - 1 + 1] = e.dst
                    THEN CycleValue(e.cons, Count(schedule, e.dst, t - 1)) ELSE 0)
      BY ONLY <3>1, <3>2, OccupancyIs, e \in graph.edges
    <3>6. 0 <= Occupancy(schedule, e, t - 1)
      BY <3>1 DEF Plans, Within
    <3>7. QED
      BY <1>4, <3>1, <3>2, <3>4, <3>5, <3>6
  <2>2. PICK m \in t + 1 .. Len(schedule) : schedule[m] = e.dst
    <3>1. t \in 0 .. Len(schedule)
      BY <1>2
    <3>2. QED
      BY <2>1, <3>1, ReadAfter
  <2>3. m \in 1 .. Len(schedule) /\ t + 1 <= m
    BY <1>2, <2>2
  <2>4. i < t /\ m <= j + 1
    BY <1>1, <1>4, <2>2, <2>3
  <2>5. QED
    BY <1>1, <1>2, <2>3, <2>4
<1>5. ASSUME schedule[t] = e.dst PROVE t - 1 <= j
  <2>1. t <= j + 1
    BY <1>1, <1>5
  <2>2. QED
    BY <1>1, <1>2, <2>1
<1>6. QED
  BY <1>1, <1>3, <1>4, <1>5 DEF i, j

(* FIFOs that share a buffer are arrays, and while the one holds samples    *)
(* the other is written only by the Duplicate that is reading them.         *)
Skips(x) == IsDuplicate(x) /\ ~config.disableDuplicateOptimization

Apart(e, f) ==
  /\ IsArray(e) /\ IsArray(f)
  /\ e.src = f.src => Skips(f.src)
  /\ \A t \in 1 .. Len(schedule) :
       schedule[t] = f.src /\ Occupancy(schedule, e, t - 1) > 0 =>
         Skips(f.src) /\ e.dst = f.src

SharingInv ==
  phase \in {"allocated", "running", "left"} =>
    \A e, f \in graph.edges : e # f /\ buffer[e] = buffer[f] => Apart(e, f)

LEMMA ColoursDiffer ==
  ASSUME NEW c \in OptimalColourings, NEW e \in Arrays, NEW f \in Arrays,
         c[e] = c[f]
  PROVE  ~Interfere(e, f)
<1>1. SUFFICES ASSUME Interfere(e, f) PROVE FALSE
  OBVIOUS
<1>2. \A p \in InterferenceEdges : \E x, y \in p : c[x] # c[y]
  BY DEF OptimalColourings, Colourings
<1>3. <<e, f>> \in {q \in Arrays \X Arrays : Interfere(q[1], q[2])}
  BY <1>1
<1>4. {<<e, f>>[1], <<e, f>>[2]} \in InterferenceEdges
  BY <1>3 DEF InterferenceEdges
<1>5. {e, f} \in InterferenceEdges
  BY <1>4
<1>6. QED
  BY <1>2, <1>5

(* When the interference graph lets two arrays have the same buffer.        *)
LEMMA SharersAreApart ==
  ASSUME ScheduleInv, LiveInv, AllocInv, phase = "scheduled",
         NEW e \in Arrays, NEW f \in Arrays, e # f, ~Interfere(e, f)
  PROVE  Apart(e, f)
<1>1. /\ Plans /\ Simulates /\ Finished
      /\ \A x \in graph.edges : Plain(x) => LiveAt(x)
  BY DEF ScheduleInv, LiveInv, Planned, Simulating, Recording
<1>2. e \in graph.edges /\ f \in graph.edges /\ IsArray(e) /\ IsArray(f)
  BY DEF Arrays
<1>3. ASSUME NEW x \in graph.edges, IsArray(x)
      PROVE  LiveAt(x) /\ Occupancy(schedule, x, Len(schedule)) = 0
  <2>1. Plain(x) /\ x.delay = 0
    BY <1>1, <1>3, ArrayIs
  <2>2. QED
    BY <1>1, <2>1, FinishedIsPeriodic
<1>4. \A x \in graph.edges : x.src # x.dst
  BY <1>1 DEF Plans
<1>5. ASSUME LiveTogether(e, f)
      PROVE  DuplicateException(e, f)
  BY <1>5 DEF Interfere
<1>6. ASSUME NEW t \in 1 .. Len(schedule), schedule[t] = f.src,
             Occupancy(schedule, e, t - 1) > 0
      PROVE  Skips(f.src) /\ e.dst = f.src
  <2>1. /\ liveInterval[e][1] \in Int /\ liveInterval[e][2] \in Int
        /\ liveInterval[f][1] \in Int /\ liveInterval[f][2] \in Int
        /\ liveInterval[e][1] < t - 1 /\ t - 1 <= liveInterval[e][2]
        /\ liveInterval[f][1] <= t - 1 /\ t <= liveInterval[f][2]
    BY <1>1, <1>2, <1>3, <1>6, IntervalIs
  <2>2. LiveTogether(e, f)
    BY <2>1 DEF LiveTogether
  <2>3. DuplicateException(e, f)
    BY <1>5, <2>2
  <2>4. CASE /\ e.src = f.src /\ IsDuplicate(e.src)
             /\ IsArray(InputOf(e.src)) /\ ReadBefore(InputOf(e.src), e)
    <3> DEFINE i == InputOf(e.src)
    <3>1. i \in graph.edges /\ i.dst = e.src
      <4>1. PICK g \in InputGraphs : graph = InsertDuplicates(g)
        BY DEF AllocInv, Planned, Simulating
      <4>2. \E h \in graph.edges : h.dst = e.src
        BY <1>2, <2>4, <4>1, DuplicatesAreFed
      <4>3. QED
        BY <4>2 DEF InputOf
    <3>2. IsArray(i) /\ liveInterval[i][2] <= liveInterval[e][1]
      BY <2>4 DEF ReadBefore
    <3> HIDE DEF i
    <3>3. LiveAt(i) /\ Occupancy(schedule, i, Len(schedule)) = 0
      BY <1>3, <3>1, <3>2
    <3>4. liveInterval[i][2] \in Int /\ t - 1 <= liveInterval[i][2]
      BY <1>1, <1>6, <2>4, <3>1, <3>2, <3>3, IntervalIs
    <3>5. FALSE
      BY <2>1, <3>2, <3>4
    <3>6. QED
      BY <3>5
  <2>5. CASE e.dst = f.src /\ IsDuplicate(e.dst)
    BY <2>3, <2>5 DEF DuplicateException, Skips
  <2>6. CASE ReadBefore(f, e)
    BY <2>1, <2>6 DEF ReadBefore
  <2>7. QED
    BY <2>3, <2>4, <2>5, <2>6 DEF DuplicateException
<1>7. PICK t \in 1 .. Len(schedule) : schedule[t] = f.src
  <2>1. f.src \in Nodes(graph) /\ Len(schedule) \in Nat
    BY <1>1, <1>2, EndsAreNodes DEF Plans
  <2>2. Count(schedule, f.src, Len(schedule)) # 0
    BY <1>1, <2>1, DoneIs, FinishedIsPeriodic DEF Done
  <2>3. Count(schedule, f.src, 0) = 0
    BY CountIs
  <2>4. \E k \in 0 + 1 .. Len(schedule) : schedule[k] = f.src
    BY <2>1, <2>2, <2>3, CountedOnce
  <2>5. QED
    BY <2>4
<1>8. ASSUME e.src = f.src
      PROVE  Skips(f.src)
  <2>1. /\ liveInterval[e][1] \in Int /\ liveInterval[e][2] \in Int
        /\ liveInterval[f][1] \in Int /\ liveInterval[f][2] \in Int
        /\ liveInterval[e][1] <= t - 1 /\ t <= liveInterval[e][2]
        /\ liveInterval[f][1] <= t - 1 /\ t <= liveInterval[f][2]
    BY <1>1, <1>2, <1>3, <1>7, <1>8, IntervalIs
  <2>2. LiveTogether(e, f)
    BY <2>1 DEF LiveTogether
  <2>3. DuplicateException(e, f)
    BY <1>5, <2>2
  <2>4. QED
    BY <1>2, <1>4, <1>8, <2>3 DEF DuplicateException, Skips
<1>9. QED
  BY <1>2, <1>6, <1>8 DEF Apart

LEMMA SharingNext ==
  ASSUME ScheduleInv, LiveInv, AllocInv, SharingInv, [Next]_vars
  PROVE  SharingInv'
<1>1. ASSUME UNCHANGED <<config, graph, schedule, bMax>>,
             NEW e \in graph.edges, NEW f \in graph.edges
      PROVE  Apart(e, f)' = Apart(e, f)
  <2>1. /\ IsArray(e)' = IsArray(e) /\ IsArray(f)' = IsArray(f)
        /\ Skips(f.src)' = Skips(f.src)
    BY <1>1 DEF IsArray, FifoLength, Skips
  <2>2. QED
    BY <1>1, <2>1 DEF Apart
<1>2. CASE initializeFIFODescriptions
  <2>1. /\ UNCHANGED <<config, graph, schedule, bMax>> /\ phase = "scheduled"
    BY <1>2 DEF initializeFIFODescriptions
  <2>2. ASSUME NEW e \in graph.edges, NEW f \in graph.edges, e # f,
               buffer'[e] = buffer'[f]
        PROVE  Apart(e, f)
    <3>1. PICK c \in OptimalColourings : buffer' = BuffersOf(c)
      <4>1. CASE ~config.memoryOptimization
        <5>1. buffer' = [x \in graph.edges |-> {x}]
          BY <1>2, <4>1 DEF initializeFIFODescriptions
        <5>2. FALSE
          BY <2>2, <5>1
        <5>3. QED
          BY <5>2
      <4>2. QED
        BY <1>2, <4>1 DEF initializeFIFODescriptions
    <3>2. \A x \in graph.edges :
            buffer'[x] = IF x \in Arrays THEN {y \in Arrays : c[y] = c[x]} ELSE {x}
      BY <3>1 DEF BuffersOf
    <3>3. \A x \in graph.edges : x \in buffer'[x]
      BY <3>2
    <3>4. e \in Arrays /\ f \in Arrays /\ c[e] = c[f]
      BY <2>2, <3>2, <3>3
    <3>5. ~Interfere(e, f)
      BY <3>4, ColoursDiffer
    <3>6. QED
      BY <2>1, <2>2, <3>4, <3>5, SharersAreApart
  <2>3. QED
    BY <1>1, <2>1, <2>2 DEF SharingInv
<1>3. CASE startScheduler \/ readInputs \/ writeOutputs \/ nextNode
           \/ errorHandling \/ resume \/ UNCHANGED vars
  <2>1. /\ UNCHANGED <<config, graph, schedule, bMax, buffer>>
        /\ phase' = phase \/ phase \in {"allocated", "running", "left"}
    BY <1>3 DEF startScheduler, readInputs, writeOutputs, nextNode,
                errorHandling, resume, vars, schedVars, allocVars
  <2>2. QED
    BY <1>1, <2>1 DEF SharingInv
<1>4. CASE computeSchedule \/ refuseConstraints
  <2>1. phase' \notin {"allocated", "running", "left"}
    BY <1>4 DEF computeSchedule, insertDuplicates, topologyMatrix, selectGreedy,
                finishGreedy, selectSinks, finishSinks, raiseException, Raise,
                refuseConstraints
  <2>2. QED
    BY <2>1 DEF SharingInv
<1>5. QED
  BY <1>2, <1>3, <1>4 DEF Next
-----------------------------------------------------------------------------
(* The executions since the FIFOs were last reset.                          *)

LEMMA MovedShift ==
  ASSUME NEW s, IsRates(s), NEW m \in Nat, NEW k \in Nat
  PROVE  Moved(s, m * Len(s) + k) = Moved(s, m * Len(s)) + Moved(s, k)
<1> DEFINE a == m * Len(s)
           P == {j \in Nat : Moved(s, a + j) = Moved(s, a) + Moved(s, j)}
<1>1. a \in Nat
  <2>1. Len(s) \in Nat
    BY DEF IsRates
  <2>2. QED
    BY <2>1
<1>2. \A j \in Nat : CycleValue(s, a + j) = CycleValue(s, j)
  BY CycleValueShift
<1> HIDE DEF a
<1>3. /\ Moved(s, 0) = 0 /\ Moved(s, a) \in Nat
      /\ \A j \in Nat : /\ Moved(s, j) \in Nat /\ CycleValue(s, j) \in Nat
                        /\ Moved(s, j + 1) = Moved(s, j) + CycleValue(s, j)
  BY <1>1, MovedIs, CycleValueIs
<1>4. 0 \in P
  <2>1. a + 0 = a
    BY <1>1
  <2>2. QED
    BY <1>3, <2>1
<1>5. \A j \in Nat : j \in P => j + 1 \in P
  <2>1. SUFFICES ASSUME NEW j \in Nat, Moved(s, a + j) = Moved(s, a) + Moved(s, j)
                 PROVE  Moved(s, a + (j + 1)) = Moved(s, a) + Moved(s, j + 1)
    OBVIOUS
  <2>2. a + (j + 1) = a + j + 1 /\ a + j \in Nat
    BY <1>1
  <2>3. Moved(s, a + j + 1) = Moved(s, a + j) + CycleValue(s, a + j)
    BY <1>3, <2>2
  <2>4. QED
    BY <1>2, <1>3, <2>1, <2>2, <2>3
<1>6. \A j \in Nat : j \in P
  <2> HIDE DEF P
  <2>1. QED
    BY <1>4, <1>5, Induction
<1>7. QED
  BY <1>6 DEF a

Multiple(q, s) == \E p \in Nat : q = p * Len(s)

LEMMA MovedInPeriods ==
  ASSUME NEW s, IsRates(s), NEW m \in Nat, NEW q \in Nat, NEW k \in Nat,
         Multiple(q, s)
  PROVE  Moved(s, m * q + k) = m * Moved(s, q) + Moved(s, k)
<1>0. PICK p \in Nat : q = p * Len(s)
  BY DEF Multiple
<1>1. Len(s) \in Nat /\ Total(s) \in Nat
  BY TotalIsPositive DEF IsRates
<1>2. m * (p * Len(s)) = (m * p) * Len(s) /\ m * p \in Nat
  BY <1>1, Regroup
<1>3. m * (p * Total(s)) = (m * p) * Total(s)
  BY <1>1, Regroup
<1> DEFINE mp == m * p
<1>4. mp \in Nat /\ m * (p * Len(s)) = mp * Len(s) /\ m * (p * Total(s)) = mp * Total(s)
  BY <1>2, <1>3
<1> HIDE DEF mp
<1>5. Moved(s, mp * Len(s) + k) = Moved(s, mp * Len(s)) + Moved(s, k)
  BY <1>4, MovedShift
<1>6. Moved(s, mp * Len(s)) = mp * Total(s) /\ Moved(s, p * Len(s)) = p * Total(s)
  BY <1>4, MovedInCycles
<1>7. QED
  BY <1>0, <1>4, <1>5, <1>6

(* What has entered a FIFO, the delay included, and not left it is what it  *)
(* holds.                                                                   *)
LEMMA Balance ==
  ASSUME Plans, Repeats, nbSchedule \in Nat, id \in 1 .. Len(schedule),
         NEW e \in graph.edges
  PROVE  /\ Runs(e.src) \in Nat /\ Runs(e.dst) \in Nat
         /\ Moved(e.prod, Runs(e.src)) \in Nat
         /\ Moved(e.cons, Runs(e.dst)) \in Nat
         /\ e.delay + Moved(e.prod, Runs(e.src))
              = Moved(e.cons, Runs(e.dst)) + Occupancy(schedule, e, id - 1)
<1> DEFINE L  == Len(schedule)
           i  == Count(schedule, e.src, id - 1)
           j  == Count(schedule, e.dst, id - 1)
           ii == Count(schedule, e.src, L)
           jj == Count(schedule, e.dst, L)
<1>1. /\ IsRates(e.prod) /\ IsRates(e.cons) /\ e.delay \in Nat
      /\ id - 1 \in Nat /\ L \in Nat
  BY DEF Plans, IsSchedulable
<1>2. i \in Nat /\ j \in Nat /\ ii \in Nat /\ jj \in Nat
  BY <1>1, CountIs
<1>3. Runs(e.src) = nbSchedule * ii + i /\ Runs(e.dst) = nbSchedule * jj + j
  BY DEF Runs, Count
<1>4. Multiple(ii, e.prod) /\ Multiple(jj, e.cons)
  BY DEF Repeats, Multiple
<1>5. /\ Occupancy(schedule, e, L) = e.delay
      /\ Occupancy(schedule, e, L) = e.delay + Moved(e.prod, ii) - Moved(e.cons, jj)
      /\ Occupancy(schedule, e, id - 1)
           = e.delay + Moved(e.prod, i) - Moved(e.cons, j)
  BY DEF Repeats, Occupancy
<1> HIDE DEF L, i, j, ii, jj
<1>6. /\ Moved(e.prod, nbSchedule * ii + i)
           = nbSchedule * Moved(e.prod, ii) + Moved(e.prod, i)
      /\ Moved(e.cons, nbSchedule * jj + j)
           = nbSchedule * Moved(e.cons, jj) + Moved(e.cons, j)
  <2>1. nbSchedule \in Nat
    OBVIOUS
  <2>2. Moved(e.prod, nbSchedule * ii + i)
          = nbSchedule * Moved(e.prod, ii) + Moved(e.prod, i)
    BY ONLY <1>1, <1>2, <1>4, <2>1, MovedInPeriods
  <2>3. Moved(e.cons, nbSchedule * jj + j)
          = nbSchedule * Moved(e.cons, jj) + Moved(e.cons, j)
    BY ONLY <1>1, <1>2, <1>4, <2>1, MovedInPeriods
  <2>4. QED
    BY <2>2, <2>3
<1>7. /\ Moved(e.prod, ii) \in Nat /\ Moved(e.prod, i) \in Nat
      /\ Moved(e.cons, jj) \in Nat /\ Moved(e.cons, j) \in Nat
  BY <1>1, <1>2, MovedIs
<1>8. Moved(e.prod, ii) = Moved(e.cons, jj)
  BY <1>1, <1>5, <1>7
<1>9. nbSchedule * ii \in Nat /\ nbSchedule * jj \in Nat
  BY <1>2
<1>10. Runs(e.src) \in Nat /\ Runs(e.dst) \in Nat
  BY <1>2, <1>3, <1>9
<1> DEFINE once == nbSchedule * Moved(e.prod, ii)
<1>11. once \in Nat /\ once = nbSchedule * Moved(e.cons, jj)
  BY <1>7, <1>8
<1> HIDE DEF once
<1>12. /\ Moved(e.prod, Runs(e.src)) = once + Moved(e.prod, i)
       /\ Moved(e.cons, Runs(e.dst)) = once + Moved(e.cons, j)
  BY <1>3, <1>6, <1>11 DEF once
<1>13. e.delay + (once + Moved(e.prod, i))
         = once + Moved(e.cons, j) + (e.delay + Moved(e.prod, i) - Moved(e.cons, j))
  BY ONLY <1>1, <1>7, <1>11
<1>14. once + Moved(e.prod, i) \in Nat /\ once + Moved(e.cons, j) \in Nat
  BY <1>7, <1>11
<1>15. QED
  BY <1>5, <1>10, <1>12, <1>13, <1>14

LEMMA RunsNext ==
  ASSUME Plans, nbSchedule \in Nat, id \in 1 .. Len(schedule), nextNode, NEW x
  PROVE  Runs(x)' = Runs(x) + (IF x = Node THEN 1 ELSE 0)
<1> DEFINE L  == Len(schedule)
           i  == Count(schedule, x, id - 1)
           C  == Count(schedule, x, L)
<1>1. /\ L \in Nat /\ id - 1 \in Nat /\ id - 1 + 1 = id
      /\ UNCHANGED schedule
  BY DEF Plans, nextNode
<1>2. i \in Nat /\ C \in Nat
  BY <1>1, CountIs
<1>3. /\ Runs(x) = nbSchedule * C + i
      /\ Runs(x)' = nbSchedule' * C + Count(schedule, x, id' - 1)
  BY <1>1 DEF Runs, Count
<1>4. /\ Count(schedule, x, id) = i + (IF Node = x THEN 1 ELSE 0)
      /\ Count(schedule, x, 0) = 0
  <2> DEFINE k == id - 1
  <2>1. k \in Nat /\ k + 1 = id
    BY <1>1
  <2> HIDE DEF L, i, C, k
  <2>2. /\ Count(schedule, x, k + 1)
             = Count(schedule, x, k) + (IF schedule[k + 1] = x THEN 1 ELSE 0)
        /\ Count(schedule, x, 0) = 0
    BY ONLY <2>1, CountIs
  <2>3. QED
    BY <2>1, <2>2 DEF i, k, Node
<1> HIDE DEF i, C
<1>5. nbSchedule * C \in Nat /\ (nbSchedule + 1) * C = nbSchedule * C + C
  BY <1>2
<1>6. CASE id < Len(schedule)
  <2>1. id' - 1 = id /\ nbSchedule' = nbSchedule
    BY <1>6 DEF nextNode
  <2>2. QED
    BY <1>2, <1>3, <1>4, <1>5, <2>1
<1>7. CASE ~(id < Len(schedule))
  <2>1. id' - 1 = 0 /\ nbSchedule' = nbSchedule + 1 /\ id = L
    BY <1>1, <1>7 DEF nextNode
  <2>2. C = i + (IF Node = x THEN 1 ELSE 0)
    BY <1>4, <2>1 DEF C
  <2>3. QED
    BY <1>2, <1>3, <1>4, <1>5, <2>1, <2>2
<1>8. QED
  BY <1>6, <1>7
-----------------------------------------------------------------------------
(* What the memory holds.                                                   *)

(* All the buffers that are imposed around a Duplicate are one:             *)
(* description.py:1193 takes them for it.                                   *)
ImposedTogether ==
  \A e, f \in graph.edges :
    /\ IsDuplicate(e.src) /\ e.src \in {f.src, f.dst}
    /\ Imposed(e) /\ Imposed(f)
    => buffer[e] = buffer[f]

(* The program does not clear a buffer that the user brings.                *)
NoImposedDelay == \A e \in graph.edges : IsCustom(e) => e.delay = 0

Supported == ImposedTogether /\ NoImposedDelay

Origin(g, e) ==
  IF IsDuplicate(e.src) THEN CHOOSE f \in g.edges : f.dst = e.src ELSE e

ExpectedIn(g, e, i) ==
  IF i < e.delay THEN Silence ELSE <<Origin(g, e).src, Origin(g, e).out, i - e.delay>>

(* From some place on, memory m holds the next samples of a FIFO.           *)
Shows(g, m, place, e, first, nb) ==
  \A k \in Nat : k < nb => m[place + k] = ExpectedIn(g, e, first + k)

(* The samples that the reader of a FIFO has taken, those that it works on  *)
(* included.                                                                *)
Taken(e) ==
  Moved(e.cons, Runs(e.dst))
    + (IF step # "before" /\ e.dst = Node THEN CycleValue(e.cons, Runs(e.dst)) ELSE 0)

Holds(e) ==
  Shows(graph, mem[buffer[e]], readPos[e], e, Taken(e), Contents(e))

Shown(e) ==
  /\ held[e] \in Nat /\ held[e] + CycleValue(e.cons, Runs(e.dst)) <= bMax[e]
  /\ IsArray(e) => held[e] = 0
  /\ Shows(graph, mem[buffer[e]], held[e], e, Moved(e.cons, Runs(e.dst)),
           CycleValue(e.cons, Runs(e.dst)))

Room(e) ==
  /\ buffer[e] \in DOMAIN mem
  /\ \A k \in Nat : k < bMax[e] => k \in DOMAIN mem[buffer[e]]

DataInv ==
  /\ phase \in {"running", "left"} => \A e \in graph.edges : Room(e)
  /\ phase = "running" =>
       /\ \A e \in graph.edges : Holds(e)
       /\ step # "before" => \A e \in InputsOf(Node) : Shown(e)

LEMMA ExpectedIs ==
  ASSUME NEW e, NEW i
  PROVE  Expected(e, i) = ExpectedIn(graph, e, i)
BY DEF Expected, ExpectedIn, Origin, InputOf

LEMMA ShowsLess ==
  ASSUME NEW g, NEW m, NEW place \in Nat, NEW e, NEW first \in Nat,
         NEW nb \in Int, NEW c \in Nat, c <= nb, Shows(g, m, place, e, first, nb)
  PROVE  /\ Shows(g, m, place, e, first, c)
         /\ Shows(g, m, place + c, e, first + c, nb - c)
<1>1. \A k \in Nat : k < nb => m[place + k] = ExpectedIn(g, e, first + k)
  BY DEF Shows
<1>2. ASSUME NEW k \in Nat, k < c
      PROVE  m[place + k] = ExpectedIn(g, e, first + k)
  <2>1. k < nb
    BY <1>2
  <2>2. QED
    BY <1>1, <2>1
<1>3. ASSUME NEW k \in Nat, k < nb - c
      PROVE  m[place + c + k] = ExpectedIn(g, e, first + c + k)
  <2>1. c + k \in Nat /\ c + k < nb
    BY <1>3
  <2>2. m[place + (c + k)] = ExpectedIn(g, e, first + (c + k))
    BY <1>1, <2>1
  <2>3. place + (c + k) = place + c + k /\ first + (c + k) = first + c + k
    OBVIOUS
  <2>4. QED
    BY <2>2, <2>3
<1>4. QED
  BY <1>2, <1>3 DEF Shows

LEMMA ShowsNone ==
  ASSUME NEW g, NEW m, NEW place, NEW e, NEW first, NEW nb \in Int, nb <= 0
  PROVE  Shows(g, m, place, e, first, nb)
<1>1. \A k \in Nat : ~(k < nb)
  OBVIOUS
<1>2. QED
  BY <1>1 DEF Shows

LEMMA SupportedIsApart ==
  ASSUME AllocInv, phase \in {"allocated", "running", "left"}, ImposedTogether
  PROVE  ImposedApart
<1>1. \A e \in graph.edges : e \in buffer[e] /\ (~IsArray(e) => buffer[e] = {e})
  BY DEF AllocInv
<1>2. QED
  BY <1>1 DEF ImposedTogether, ImposedApart

DataContext ==
  /\ ScheduleInv /\ LoopInv /\ AllocInv /\ SharingInv /\ Supported

(* What a running loop keeps to.                                            *)
LEMMA RunningIs ==
  ASSUME DataContext, phase \in {"running", "left"}
  PROVE  /\ Plans /\ Repeats /\ nbSchedule \in Nat /\ id \in 1 .. Len(schedule)
         /\ skip \subseteq Arrays /\ skip = SkippedBy(buffer)
         /\ \A e \in graph.edges : Positioned(e)
         /\ \A e, f \in graph.edges : e # f /\ buffer[e] = buffer[f] => Apart(e, f)
<1>1. ScheduleInv /\ LoopInv /\ AllocInv /\ SharingInv /\ ImposedTogether
  BY DEF DataContext, Supported
<1>2. skip \subseteq Arrays
  BY <1>1, SupportedIsApart, SkippedAreArrays
<1>3. QED
  BY <1>1, <1>2, Running DEF SharingInv, AllocInv

(* The samples around one element of the schedule.                          *)
LEMMA AroundNode ==
  ASSUME Plans, Repeats, nbSchedule \in Nat, id \in 1 .. Len(schedule),
         NEW e \in graph.edges
  PROVE  LET p == CycleValue(e.prod, Runs(e.src))
             c == CycleValue(e.cons, Runs(e.dst))
             o == Occupancy(schedule, e, id - 1) IN
         /\ p \in Nat /\ c \in Nat /\ o \in Nat /\ o <= bMax[e] /\ bMax[e] \in Nat
         /\ e.src # e.dst /\ e.delay \in Nat
         /\ CycleValue(e.cons, Count(schedule, e.dst, id - 1)) = c
         /\ Occupancy(schedule, e, id)
              = o + (IF e.src = Node THEN p ELSE 0) - (IF e.dst = Node THEN c ELSE 0)
         /\ e.src = Node => o + p <= bMax[e]
         /\ e.dst = Node => c <= o
         /\ IsArray(e) => p = bMax[e] /\ c = bMax[e] /\ bMax[e] > 0
<1> DEFINE p == CycleValue(e.prod, Runs(e.src))
           c == CycleValue(e.cons, Runs(e.dst))
           o == Occupancy(schedule, e, id - 1)
<1>1. /\ p = CycleValue(e.prod, Count(schedule, e.src, id - 1)) /\ p \in Nat
      /\ c = CycleValue(e.cons, Count(schedule, e.dst, id - 1)) /\ c \in Nat
  BY RunsIs
<1>2. /\ Occupancy(schedule, e, id)
           = o + (IF Node = e.src THEN p ELSE 0) - (IF Node = e.dst THEN c ELSE 0)
      /\ o \in Int /\ 0 <= o /\ o <= bMax[e]
      /\ 0 <= Occupancy(schedule, e, id) /\ Occupancy(schedule, e, id) <= bMax[e]
      /\ bMax[e] \in Nat /\ e.src # e.dst
  <2> HIDE DEF p, c
  <2>1. QED
    BY <1>1, ElementIs DEF p, c
<1>3. e.delay \in Nat
  BY DEF Plans, IsSchedulable
<1>4. IsArray(e) => p = bMax[e] /\ c = bMax[e] /\ bMax[e] > 0
  <2>1. Runs(e.src) \in Nat /\ Runs(e.dst) \in Nat
    BY Balance
  <2>2. QED
    BY <1>2, <2>1, ArrayIs
<1> HIDE DEF p, c, o
<1>5. QED
  BY <1>1, <1>2, <1>3, <1>4 DEF p, c, o

LEMMA ReadKeepsData ==
  ASSUME DataContext, DataInv, readInputs
  PROVE  DataInv'
<1>1. /\ phase = "running" /\ step = "before" /\ step' = "reading"
      /\ held' = [e \in InputsOf(Node) |-> readPos[e]]
      /\ readPos' = ReadPosAfter(Node)
      /\ UNCHANGED <<graph, phase, schedule, bMax, buffer, mem, id, nbSchedule>>
  BY DEF readInputs, schedVars, allocVars
<1>2. /\ Plans /\ Repeats /\ nbSchedule \in Nat /\ id \in 1 .. Len(schedule)
      /\ \A e \in graph.edges : Positioned(e)
  BY <1>1, RunningIs
<1>3. /\ \A e \in graph.edges : Room(e)
      /\ \A e \in graph.edges : Holds(e)
  BY <1>1 DEF DataInv
<1>4. /\ Node' = Node /\ InputsOf(Node)' = InputsOf(Node)
      /\ \A x : Runs(x)' = Runs(x)
      /\ \A e \in graph.edges : IsArray(e)' = IsArray(e)
      /\ \A e \in graph.edges : Room(e)' = Room(e)
  BY <1>1 DEF Node, InputsOf, Runs, IsArray, FifoLength, Room
<1>5. ASSUME NEW e \in graph.edges
      PROVE  Holds(e)' /\ (e.dst = Node => Shown(e)')
  <2> DEFINE c == CycleValue(e.cons, Runs(e.dst))
             o == Occupancy(schedule, e, id - 1)
             t == Moved(e.cons, Runs(e.dst))
             r == readPos[e]
             m == mem[buffer[e]]
  <2>1. /\ c \in Nat /\ o \in Nat /\ o <= bMax[e] /\ bMax[e] \in Nat
        /\ CycleValue(e.cons, Count(schedule, e.dst, id - 1)) = c
        /\ e.dst = Node => c <= o
        /\ IsArray(e) => c = bMax[e]
    BY <1>2, AroundNode
  <2>2. t \in Nat
    BY <1>2, Balance
  <2>3. Contents(e) = o /\ Taken(e) = t
    <3>1. Taken(e) = t + 0
      BY <1>1 DEF Taken
    <3>2. QED
      BY <1>1, <2>2, <3>1 DEF Contents
  <2>4. r \in Nat /\ (IsArray(e) => r = 0) /\ (~IsArray(e) => r + o <= bMax[e])
    <3>1. Positioned(e)
      BY <1>2
    <3>2. CASE IsArray(e)
      BY <3>1, <3>2 DEF Positioned
    <3>3. CASE ~IsArray(e)
      <4>1. /\ readPos[e] \in Nat /\ writePos[e] \in Nat /\ writePos[e] <= bMax[e]
            /\ writePos[e] - readPos[e] = o
        BY <1>1, <2>3, <3>1, <3>3 DEF Positioned
      <4>2. QED
        BY <2>1, <3>3, <4>1
    <3>4. QED
      BY <3>2, <3>3
  <2>5. Shows(graph, m, r, e, t, o)
    BY <1>3, <2>3 DEF Holds
  <2>6. /\ Contents(e)' = o - (IF e.dst = Node THEN c ELSE 0)
        /\ Taken(e)' = t + (IF e.dst = Node THEN c ELSE 0)
        /\ readPos'[e] = IF e.dst = Node /\ ~IsArray(e) THEN r + c ELSE r
        /\ graph' = graph /\ mem'[buffer'[e]] = m
    <3>1. Contents(e)' = o - (IF e.dst = Node THEN c ELSE 0)
      BY <1>1, <1>4, <2>1 DEF Contents
    <3>2. Taken(e)' = t + (IF e.dst = Node THEN c ELSE 0)
      BY <1>1, <1>4 DEF Taken
    <3>3. readPos'[e] = IF e.dst = Node /\ ~IsArray(e) THEN r + c ELSE r
      BY <1>1 DEF ReadPosAfter
    <3>4. QED
      BY <1>1, <3>1, <3>2, <3>3
  <2>7. Shows(graph', mem'[buffer'[e]], readPos'[e], e, Taken(e)', Contents(e)')
    <3> HIDE DEF c, o, t, r, m
    <3>1. CASE e.dst # Node
      <4>1. Contents(e)' = o /\ Taken(e)' = t /\ readPos'[e] = r
        BY <2>1, <2>2, <2>6, <3>1
      <4>2. QED
        BY <2>5, <2>6, <4>1
    <3>2. CASE e.dst = Node /\ ~IsArray(e)
      <4>1. Shows(graph, m, r + c, e, t + c, o - c)
        BY <2>1, <2>2, <2>4, <2>5, <3>2, ShowsLess
      <4>2. QED
        BY <2>6, <3>2, <4>1
    <3>3. CASE e.dst = Node /\ IsArray(e)
      <4>1. Contents(e)' \in Int /\ Contents(e)' <= 0
        BY <2>1, <2>6, <3>3
      <4>2. QED
        BY <4>1, ShowsNone
    <3>4. QED
      BY <3>1, <3>2, <3>3
  <2>8. Holds(e)'
    BY <2>7 DEF Holds
  <2>9. ASSUME e.dst = Node PROVE Shown(e)'
    <3>1. held'[e] = r
      BY <1>1, <2>9 DEF InputsOf
    <3>2. /\ CycleValue(e.cons, Runs(e.dst))' = c
          /\ Moved(e.cons, Runs(e.dst))' = t
          /\ bMax' = bMax
      BY <1>1, <1>4
    <3> HIDE DEF c, o, t, r, m
    <3>3. Shows(graph, m, r, e, t, c)
      BY <2>1, <2>2, <2>4, <2>5, <2>9, ShowsLess
    <3>4. r + c <= bMax[e]
      BY <2>1, <2>4, <2>9
    <3>5. QED
      BY <1>4, <2>4, <2>6, <3>1, <3>2, <3>3, <3>4 DEF Shown
  <2>10. QED
    BY <2>8, <2>9
<1>6. QED
  BY <1>1, <1>3, <1>4, <1>5 DEF DataInv, InputsOf
-----------------------------------------------------------------------------
(* The size of a buffer.                                                    *)

LEMMA LargestIs ==
  ASSUME NEW S, IsFiniteSet(S), S # {}, S \subseteq Nat
  PROVE  Max(S) \in S /\ \A k \in S : k <= Max(S)
<1> DEFINE nb == Cardinality(S)
<1>1. nb \in Nat /\ \E h : h \in Bijection(1 .. nb, S)
  BY FS_CardinalityType DEF ExistsBijection
<1>2. PICK f : f \in Bijection(1 .. nb, S)
  BY <1>1
<1>3. /\ f \in [1 .. nb -> S]
      /\ \A k \in S : \E i \in 1 .. nb : f[i] = k
  BY <1>2 DEF Bijection, Surjection
<1> HIDE DEF nb
<1> DEFINE P == {j \in Nat : \E m \in S : \A i \in 1 .. j : i <= nb => f[i] <= m}
<1>4. 0 \in P
  <2>1. PICK m \in S : TRUE
    OBVIOUS
  <2>2. \A i \in 1 .. 0 : FALSE
    OBVIOUS
  <2>3. QED
    BY <2>1, <2>2
<1>5. ASSUME NEW j \in Nat, j \in P PROVE j + 1 \in P
  <2>1. PICK m \in S : \A i \in 1 .. j : i <= nb => f[i] <= m
    BY <1>5
  <2>2. CASE j + 1 <= nb
    <3>1. j + 1 \in 1 .. nb /\ f[j + 1] \in S
      BY <1>3, <2>2
    <3>2. m \in Nat /\ f[j + 1] \in Nat
      BY <3>1
    <3>3. \A i \in 1 .. j + 1 : i \in 1 .. j \/ i = j + 1
      OBVIOUS
    <3>4. \A i \in 1 .. nb : f[i] \in Nat
      BY <1>3
    <3>5. CASE m <= f[j + 1]
      <4>1. ASSUME NEW i \in 1 .. j + 1, i <= nb PROVE f[i] <= f[j + 1]
        <5>1. i \in 1 .. nb
          BY <4>1
        <5>2. CASE i \in 1 .. j
          <6>1. f[i] <= m /\ f[i] \in Nat
            BY <2>1, <3>4, <4>1, <5>1, <5>2
          <6>2. QED
            BY <3>2, <3>5, <6>1
        <5>3. CASE i = j + 1
          BY <3>2, <5>3
        <5>4. QED
          BY <3>3, <5>2, <5>3
      <4>2. \A i \in 1 .. j + 1 : i <= nb => f[i] <= f[j + 1]
        BY <4>1
      <4>3. \E h \in S : \A i \in 1 .. j + 1 : i <= nb => f[i] <= h
        BY <3>1, <4>2
      <4>4. QED
        BY <4>3
    <3>6. CASE ~(m <= f[j + 1])
      <4>1. f[j + 1] <= m
        BY <3>2, <3>6
      <4>2. \A i \in 1 .. j + 1 : i <= nb => f[i] <= m
        BY <2>1, <3>3, <4>1
      <4>3. QED
        BY <4>2
    <3>7. QED
      BY <3>5, <3>6
  <2>3. CASE ~(j + 1 <= nb)
    <3>1. \A i \in 1 .. j + 1 : i <= nb => i \in 1 .. j
      BY <2>3
    <3>2. \A i \in 1 .. j + 1 : i <= nb => f[i] <= m
      BY <2>1, <3>1
    <3>3. QED
      BY <3>2
  <2>4. QED
    BY <2>2, <2>3
<1> HIDE DEF P
<1>6. nb \in P
  BY <1>1, <1>4, <1>5, Induction
<1>7. PICK m \in S : \A i \in 1 .. nb : i <= nb => f[i] <= m
  BY <1>6 DEF P
<1>8. \A k \in S : m >= k
  BY <1>3, <1>7
<1>9. Max(S) \in S /\ \A k \in S : Max(S) >= k
  BY <1>8 DEF Max
<1>10. QED
  BY <1>9

LEMMA SizeIs ==
  ASSUME Plans, IsFiniteSet(graph.edges), NEW buf \in SUBSET graph.edges,
         NEW e \in buf
  PROVE  Size(buf) \in Nat /\ bMax[e] <= Size(buf) /\ bMax[e] \in Nat
<1> DEFINE length == [f \in buf |-> FifoLength(f)]
           S == {FifoLength(f) : f \in buf}
<1>1. \A f \in buf : FifoLength(f) = bMax[f] /\ bMax[f] \in Nat
  BY DEF Plans, FifoLength
<1>2. IsFiniteSet(S)
  <2>1. IsFiniteSet(buf) /\ DOMAIN length = buf
    BY FS_Subset
  <2>2. {length[f] : f \in buf} = S
    OBVIOUS
  <2> HIDE DEF length, S
  <2>3. QED
    BY <2>1, <2>2, FiniteImage
<1>3. bMax[e] \in S /\ S \subseteq Nat
  BY <1>1
<1> HIDE DEF S
<1>4. Max(S) \in S /\ \A k \in S : k <= Max(S)
  BY <1>2, <1>3, LargestIs
<1>5. QED
  BY <1>3, <1>4 DEF Size, S

LEMMA NextKeepsData ==
  ASSUME DataContext, DataInv, nextNode
  PROVE  DataInv'
<1>1. /\ phase = "running" /\ step = "after" /\ step' = "before"
      /\ UNCHANGED <<graph, schedule, bMax, buffer, mem, readPos>>
      /\ id' = IF id < Len(schedule) THEN id + 1 ELSE 1
  BY DEF nextNode, allocVars
<1>2. /\ Plans /\ Repeats /\ nbSchedule \in Nat /\ id \in 1 .. Len(schedule)
  BY <1>1, RunningIs
<1>3. /\ \A e \in graph.edges : Room(e)
      /\ \A e \in graph.edges : Holds(e)
  BY <1>1 DEF DataInv
<1>4. \A e \in graph.edges : Room(e)' = Room(e)
  BY <1>1 DEF Room
<1>5. ASSUME NEW e \in graph.edges
      PROVE  Holds(e)'
  <2>1. Contents(e)' = Contents(e)
    <3>1. Contents(e)' = Occupancy(schedule, e, id' - 1)
      BY <1>1 DEF Contents
    <3>2. Contents(e) = Occupancy(schedule, e, id)
      BY <1>1 DEF Contents
    <3>3. CASE id < Len(schedule)
      <4>1. id' - 1 = id
        BY <1>1, <1>2, <3>3
      <4>2. QED
        BY <3>1, <3>2, <4>1
    <3>4. CASE ~(id < Len(schedule))
      <4>1. id = Len(schedule) /\ id' - 1 = 0
        BY <1>1, <1>2, <3>4 DEF Plans
      <4>2. Occupancy(schedule, e, Len(schedule)) = e.delay
        BY <1>2 DEF Repeats
      <4>3. Occupancy(schedule, e, 0) = e.delay
        BY <1>2, OccupancyIs DEF Plans
      <4>4. QED
        BY <3>1, <3>2, <4>1, <4>2, <4>3
    <3>5. QED
      BY <3>3, <3>4
  <2>2. Taken(e)' = Taken(e)
    <3>1. Runs(e.dst)' = Runs(e.dst) + (IF e.dst = Node THEN 1 ELSE 0)
      BY <1>2, RunsNext
    <3>2. Runs(e.dst) \in Nat /\ IsRates(e.cons)
      BY <1>2, Balance DEF Plans, IsSchedulable
    <3> DEFINE R == Runs(e.dst)
               t == Moved(e.cons, R)
               c == CycleValue(e.cons, R)
    <3>3. R \in Nat /\ t \in Nat /\ c \in Nat /\ Moved(e.cons, R + 1) = t + c
      BY <3>2, MovedIs, CycleValueIs
    <3>4. Taken(e) = t + (IF e.dst = Node THEN c ELSE 0)
      BY <1>1 DEF Taken
    <3>5. Taken(e)' = Moved(e.cons, Runs(e.dst)') + 0
      BY <1>1 DEF Taken
    <3> HIDE DEF t, c
    <3>6. CASE e.dst = Node
      <4>1. Runs(e.dst)' = R + 1
        BY <3>1, <3>6
      <4>2. QED
        BY <3>3, <3>4, <3>5, <3>6, <4>1
    <3>7. CASE e.dst # Node
      <4>1. Runs(e.dst)' = R
        BY <3>1, <3>3, <3>7
      <4>2. QED
        BY <3>3, <3>4, <3>5, <3>7, <4>1 DEF t
    <3>8. QED
      BY <3>6, <3>7
  <2>3. QED
    BY <1>1, <1>3, <2>1, <2>2 DEF Holds
<1>6. QED
  BY <1>1, <1>3, <1>4, <1>5 DEF DataInv

(* An empty array, and a FIFO that holds its delay.                         *)
LEMMA FreshHolds ==
  ASSUME Plans, Repeats, UNCHANGED <<graph, schedule, bMax, buffer>>,
         id' = 1, nbSchedule' = 0, step' = "before", NEW e \in graph.edges,
         ~IsArray(e) => readPos'[e] = 0,
         ~IsArray(e) => \A k \in Nat : k < e.delay => mem'[buffer[e]][k] = Silence
  PROVE  Holds(e)'
<1>1. IsSchedulable(graph) /\ e.delay \in Nat /\ IsRates(e.cons)
  BY DEF Plans, IsSchedulable
<1>2. Contents(e)' = e.delay
  <2>1. Contents(e)' = Occupancy(schedule', e, id' - 1)
    BY DEF Contents
  <2>2. id' - 1 = 0 /\ schedule' = schedule
    OBVIOUS
  <2>3. Occupancy(schedule, e, 0) = e.delay
    BY <1>1, OccupancyIs
  <2>4. QED
    BY <2>1, <2>2, <2>3
<1>3. Taken(e)' = 0
  <2> DEFINE C == Count(schedule, e.dst, Len(schedule))
  <2>1. C \in Nat /\ Count(schedule, e.dst, 0) = 0
    <3>1. Len(schedule) \in Nat
      BY DEF Plans
    <3>2. QED
      BY <3>1, CountIs
  <2>2. Runs(e.dst)' = nbSchedule' * C + Count(schedule, e.dst, id' - 1)
    BY DEF Runs, Count
  <2> HIDE DEF C
  <2>3. nbSchedule' * C = 0 /\ id' - 1 = 0
    BY <2>1
  <2>4. Runs(e.dst)' = 0
    BY <2>1, <2>2, <2>3
  <2>5. Taken(e)' = Moved(e.cons, Runs(e.dst)') + 0
    BY DEF Taken
  <2>6. Moved(e.cons, 0) = 0
    BY <1>1, MovedIs
  <2>7. QED
    BY <2>4, <2>5, <2>6
<1>4. CASE IsArray(e)
  <2>1. e.delay <= 0 /\ e.delay \in Int
    BY <1>4 DEF IsArray
  <2>2. Shows(graph', mem'[buffer'[e]], readPos'[e], e, Taken(e)', Contents(e)')
    BY <1>2, <2>1, ShowsNone
  <2>3. QED
    BY <2>2 DEF Holds
<1>5. CASE ~IsArray(e)
  <2>1. ASSUME NEW k \in Nat, k < e.delay
        PROVE  mem'[buffer'[e]][0 + k] = ExpectedIn(graph', e, 0 + k)
    <3>1. mem'[buffer'[e]][k] = Silence
      BY <1>5, <2>1
    <3>2. 0 + k = k
      OBVIOUS
    <3>3. ExpectedIn(graph', e, k) = Silence
      BY <2>1 DEF ExpectedIn
    <3>4. QED
      BY <3>1, <3>2, <3>3
  <2>2. Shows(graph', mem'[buffer'[e]], 0, e, 0, e.delay)
    BY <2>1 DEF Shows
  <2>3. QED
    BY <1>2, <1>3, <1>5, <2>2 DEF Holds
<1>6. QED
  BY <1>4, <1>5

(* A FIFO that is not an array has a buffer for itself, which is the user's *)
(* when one is imposed.                                                     *)
LEMMA OwnBuffer ==
  ASSUME DataContext, phase \in {"allocated", "running", "left"},
         NEW e \in graph.edges, ~IsArray(e), e.delay > 0
  PROVE  ~IsForeign(buffer[e])
<1>1. buffer[e] = {e} /\ ~IsCustom(e)
  <2>1. AllocInv /\ NoImposedDelay
    BY DEF DataContext, Supported
  <2>2. buffer[e] = {e}
    BY <2>1 DEF AllocInv
  <2>3. e.delay # 0
    OBVIOUS
  <2>4. QED
    BY <2>1, <2>2, <2>3 DEF NoImposedDelay
<1>2. QED
  BY <1>1 DEF IsForeign

LEMMA ResumeKeepsData ==
  ASSUME DataContext, DataInv, resume
  PROVE  DataInv'
<1>1. /\ phase = "left" /\ phase' = "running"
      /\ mem' = ResetMemory
      /\ readPos' = [e \in graph.edges |-> IF IsArray(e) THEN readPos[e] ELSE 0]
      /\ id' = 1 /\ nbSchedule' = 0
      /\ UNCHANGED <<graph, schedule, bMax, buffer, step>>
  BY DEF resume, allocVars
<1>2. Plans /\ Repeats /\ step' = "before"
  <2>1. step = "before"
    BY <1>1 DEF DataContext, LoopInv
  <2>2. QED
    BY <1>1, <2>1, RunningIs
<1>3. \A e \in graph.edges : Room(e)
  BY <1>1 DEF DataInv
<1>4. ASSUME NEW e \in graph.edges
      PROVE  Room(e)' /\ Holds(e)'
  <2>1. Room(e)
    BY <1>3
  <2>2. mem'[buffer[e]] = IF IsForeign(buffer[e]) THEN mem[buffer[e]]
                          ELSE [i \in DOMAIN mem[buffer[e]] |-> Silence]
    BY <1>1, <2>1 DEF Room, ResetMemory
  <2>3. DOMAIN mem' = DOMAIN mem /\ DOMAIN mem'[buffer[e]] = DOMAIN mem[buffer[e]]
    BY <1>1, <2>2 DEF ResetMemory
  <2>4. Room(e)'
    BY <1>1, <2>1, <2>3 DEF Room
  <2>5. ASSUME ~IsArray(e), NEW k \in Nat, k < e.delay
        PROVE  mem'[buffer[e]][k] = Silence
    <3>1. ~IsForeign(buffer[e])
      <4>1. e.delay \in Nat
        BY <1>2 DEF Plans, IsSchedulable
      <4>2. e.delay > 0
        BY <2>5, <4>1
      <4>3. QED
        BY <1>1, <2>5, <4>2, OwnBuffer
    <3>2. k \in DOMAIN mem[buffer[e]]
      <4>1. e.delay \in Nat /\ e.delay <= bMax[e] /\ bMax[e] \in Nat
        <5>1. Occupancy(schedule, e, 0) = e.delay /\ e.delay \in Nat
          BY <1>2, OccupancyIs DEF Plans, IsSchedulable
        <5>2. 0 \in 0 .. Len(schedule)
          BY <1>2 DEF Plans
        <5>3. QED
          BY <1>2, <5>1, <5>2 DEF Plans, Within
      <4>2. k < bMax[e]
        BY <2>5, <4>1
      <4>3. QED
        BY <2>1, <4>2 DEF Room
    <3>3. QED
      BY <2>2, <3>1, <3>2
  <2>6. Holds(e)'
    <3>1. ~IsArray(e) => readPos'[e] = 0
      BY <1>1
    <3>2. QED
      BY <1>1, <1>2, <2>5, <3>1, FreshHolds
  <2>7. QED
    BY <2>4, <2>6
<1>5. QED
  BY <1>1, <1>2, <1>4 DEF DataInv

LEMMA StartKeepsData ==
  ASSUME DataContext, startScheduler
  PROVE  DataInv'
<1>1. /\ phase = "allocated" /\ phase' = "running" /\ step' = "before"
      /\ mem' = [buf \in Range(buffer) |->
                   [i \in 0 .. Size(buf) - 1 |->
                      IF IsForeign(buf) THEN Foreign ELSE Silence]]
      /\ readPos' = [e \in graph.edges |-> 0]
      /\ id' = 1 /\ nbSchedule' = 0
      /\ UNCHANGED <<graph, schedule, bMax, buffer>>
  BY DEF startScheduler, allocVars
<1>2. Plans /\ Repeats
  BY <1>1 DEF DataContext, ScheduleInv, Planned
<1>3. /\ DOMAIN buffer = graph.edges
      /\ \A e \in graph.edges : e \in buffer[e] /\ buffer[e] \subseteq graph.edges
  BY <1>1 DEF DataContext, AllocInv
<1>4. IsFiniteSet(graph.edges)
  <2>1. PICK g \in InputGraphs : graph = InsertDuplicates(g)
    BY <1>1 DEF DataContext, AllocInv, Planned
  <2>2. QED
    BY <2>1, ExpandedIsFinite
<1>5. ASSUME NEW e \in graph.edges
      PROVE  Room(e)' /\ Holds(e)'
  <2>1. buffer[e] \in Range(buffer)
    BY <1>3 DEF Range
  <2>2. Size(buffer[e]) \in Nat /\ bMax[e] <= Size(buffer[e]) /\ bMax[e] \in Nat
    BY <1>2, <1>3, <1>4, SizeIs
  <2>3. mem'[buffer[e]] = [i \in 0 .. Size(buffer[e]) - 1 |->
                             IF IsForeign(buffer[e]) THEN Foreign ELSE Silence]
    BY <1>1, <2>1
  <2>4. \A k \in Nat : k < bMax[e] => k \in 0 .. Size(buffer[e]) - 1
    BY <2>2
  <2>5. Room(e)'
    BY <1>1, <2>1, <2>3, <2>4 DEF Room
  <2>6. ASSUME ~IsArray(e), NEW k \in Nat, k < e.delay
        PROVE  mem'[buffer[e]][k] = Silence
    <3>1. ~IsForeign(buffer[e])
      <4>1. e.delay \in Nat
        BY <1>2 DEF Plans, IsSchedulable
      <4>2. e.delay > 0
        BY <2>6, <4>1
      <4>3. QED
        BY <1>1, <2>6, <4>2, OwnBuffer
    <3>2. k \in 0 .. Size(buffer[e]) - 1
      <4>1. e.delay <= bMax[e] /\ e.delay \in Nat
        <5>1. Occupancy(schedule, e, 0) = e.delay /\ e.delay \in Nat
          BY <1>2, OccupancyIs DEF Plans, IsSchedulable
        <5>2. 0 \in 0 .. Len(schedule)
          BY <1>2 DEF Plans
        <5>3. QED
          BY <1>2, <5>1, <5>2 DEF Plans, Within
      <4>2. QED
        BY <2>2, <2>4, <2>6, <4>1
    <3>3. QED
      BY <2>3, <3>1, <3>2
  <2>7. Holds(e)'
    BY <1>1, <1>2, <2>6, FreshHolds
  <2>8. QED
    BY <2>5, <2>7
<1>6. QED
  BY <1>1, <1>5 DEF DataInv

LEMMA ErrorKeepsData ==
  ASSUME DataInv, errorHandling
  PROVE  DataInv'
<1>1. /\ phase = "running" /\ phase' = "left"
      /\ UNCHANGED <<graph, bMax, buffer, mem>>
  BY DEF errorHandling, allocVars
<1>2. \A e \in graph.edges : Room(e)' = Room(e)
  BY <1>1 DEF Room
<1>3. QED
  BY <1>1, <1>2 DEF DataInv
-----------------------------------------------------------------------------
(* What a node writes.                                                      *)

Filled == OutputsOf(Node) \ skip

LEMMA InputIs ==
  ASSUME DataContext, phase \in {"running", "left"},
         NEW e \in graph.edges, IsDuplicate(e.src)
  PROVE  LET i == InputOf(e.src) IN
         /\ i \in graph.edges /\ i.dst = e.src
         /\ \A h \in graph.edges : h.dst = e.src => h = i
         /\ i.delay = 0 /\ i.cons = e.prod
         /\ Origin(graph, e) = i /\ Origin(graph, i) = i
<1>1. PICK g \in InputGraphs : graph = InsertDuplicates(g)
  BY DEF DataContext, AllocInv, Planned
<1>2. PICK i \in graph.edges :
        /\ i.dst = e.src
        /\ \A h \in graph.edges : h.dst = e.src => h = i
        /\ ~IsDuplicate(i.src)
        /\ i.delay = 0 /\ i.cons = i.prod /\ i.prod = e.prod
  BY <1>1, DuplicatesHaveOneInput
<1>3. InputOf(e.src) = i
  BY <1>2 DEF InputOf
<1>4. Origin(graph, e) = i /\ Origin(graph, i) = i
  BY <1>2 DEF Origin
<1>5. QED
  BY <1>2, <1>3, <1>4

LEMMA SameBuffer ==
  ASSUME DataContext, phase \in {"running", "left"},
         NEW e \in graph.edges, NEW f \in graph.edges, IsDuplicate(e.src),
         e.src \in {f.src, f.dst},
         BufferAttribute(buffer, e) = BufferAttribute(buffer, f)
  PROVE  buffer[e] = buffer[f]
<1>1. PICK g \in InputGraphs : graph = InsertDuplicates(g)
  BY DEF DataContext, AllocInv, Planned
<1>2. buffer[e] # NoBuffer /\ buffer[f] # NoBuffer
  <2>1. buffer[e] \subseteq graph.edges /\ buffer[f] \subseteq graph.edges
    BY DEF DataContext, AllocInv
  <2>2. QED
    BY <1>1, <2>1, NoBufferAssumption
<1>3. /\ BufferAttribute(buffer, e) = IF Imposed(e) THEN NoBuffer ELSE buffer[e]
      /\ BufferAttribute(buffer, f) = IF Imposed(f) THEN NoBuffer ELSE buffer[f]
  BY DEF BufferAttribute, Imposed
<1>4. CASE Imposed(e) /\ Imposed(f)
  BY <1>4 DEF DataContext, Supported, ImposedTogether
<1>5. QED
  BY <1>2, <1>3, <1>4

(* The samples of an execution, where the reader expects them.              *)
LEMMA ProducedIs ==
  ASSUME DataContext, DataInv, phase = "running", step # "before",
         NEW e \in graph.edges, e.src = Node,
         NEW k \in Nat, k < CycleValue(e.prod, Runs(e.src))
  PROVE  Produced(e, k)
           = ExpectedIn(graph, e, e.delay + Moved(e.prod, Runs(e.src)) + k)
<1> DEFINE moved == Moved(e.prod, Runs(e.src))
<1>1. /\ Plans /\ Repeats /\ nbSchedule \in Nat /\ id \in 1 .. Len(schedule)
  BY RunningIs
<1>2. moved \in Nat /\ e.delay \in Nat
  BY <1>1, Balance DEF Plans, IsSchedulable
<1>3. ExpectedIn(graph, e, e.delay + moved + k)
        = <<Origin(graph, e).src, Origin(graph, e).out, moved + k>>
  <2> DEFINE place == e.delay + moved + k
  <2> HIDE DEF moved
  <2>1. ~(place < e.delay) /\ place - e.delay = moved + k
    BY <1>2
  <2> HIDE DEF place
  <2>2. ExpectedIn(graph, e, place)
          = <<Origin(graph, e).src, Origin(graph, e).out, moved + k>>
    BY <2>1 DEF ExpectedIn
  <2>3. QED
    BY <2>2 DEF place
<1>4. CASE ~IsDuplicate(e.src)
  <2>1. Origin(graph, e) = e
    BY <1>4 DEF Origin
  <2>2. Produced(e, k) = <<e.src, e.out, moved + k>>
    BY <1>4 DEF Produced
  <2>3. QED
    BY <1>3, <2>1, <2>2
<1>5. CASE IsDuplicate(e.src)
  <2> DEFINE i == InputOf(e.src)
  <2>1. /\ i \in graph.edges /\ i.dst = e.src
        /\ i.delay = 0 /\ i.cons = e.prod
        /\ Origin(graph, e) = i /\ Origin(graph, i) = i
    BY <1>5, InputIs
  <2>2. Produced(e, k) = mem[buffer[i]][held[i] + k]
    BY <1>5 DEF Produced
  <2> HIDE DEF i
  <2>3. Shown(i)
    BY <2>1 DEF DataInv, InputsOf
  <2>4. Shows(graph, mem[buffer[i]], held[i], i, moved, CycleValue(e.prod, Runs(e.src)))
    BY <2>1, <2>3 DEF Shown
  <2>5. mem[buffer[i]][held[i] + k] = ExpectedIn(graph, i, moved + k)
    BY <2>4 DEF Shows
  <2> HIDE DEF moved
  <2> DEFINE place == moved + k
  <2>6. ~(place < i.delay) /\ place - i.delay = place
    BY <1>2, <2>1
  <2> HIDE DEF place
  <2>7. ExpectedIn(graph, i, place) = <<i.src, i.out, place>>
    BY <2>1, <2>6 DEF ExpectedIn
  <2>8. QED
    BY <1>3, <2>1, <2>2, <2>5, <2>7 DEF moved, place
<1>6. QED
  BY <1>4, <1>5

(* FIFOs that a node fills in the same memory are outputs of a Duplicate    *)
(* with the same number.                                                    *)
LEMMA FilledTogether ==
  ASSUME DataContext, phase = "running",
         NEW e \in Filled, NEW f \in Filled, buffer[e] = buffer[f]
  PROVE  e.out \in Nat /\ f.out = e.out
<1>1. PICK g \in InputGraphs : graph = InsertDuplicates(g)
  BY DEF DataContext, AllocInv, Planned
<1>2. /\ e \in graph.edges /\ e.src = Node /\ e \notin skip
      /\ f \in graph.edges /\ f.src = Node /\ f \notin skip
  BY DEF Filled, OutputsOf
<1>3. e.out \in Nat /\ f.out \in Nat
  BY <1>1, <1>2, OutputsAreNumbered
<1>4. CASE e = f
  BY <1>3, <1>4
<1>5. CASE e # f
  <2>1. Skips(Node)
    BY <1>2, <1>5, RunningIs DEF Apart
  <2>2. skip = SkippedBy(buffer)
    BY RunningIs
  <2>3. BufferAttribute(buffer, e) = BufferAttribute(buffer, f)
    BY DEF BufferAttribute
  <2>4. ~(f.out < e.out) /\ ~(e.out < f.out)
    BY <1>2, <2>1, <2>2, <2>3 DEF SkippedBy, Skips
  <2>5. QED
    BY <1>3, <2>4
<1>6. QED
  BY <1>4, <1>5

LEMMA MemoryIs ==
  ASSUME DataContext, writeOutputs, NEW e \in graph.edges, Room(e)
  PROVE  /\ (\A f \in Filled : buffer[f] # buffer[e]) =>
              mem'[buffer[e]] = mem[buffer[e]]
         /\ (\E f \in Filled : buffer[f] = buffer[e]) =>
              \E f \in Filled : buffer[f] = buffer[e] /\ mem'[buffer[e]] = Written(f)
<1> DEFINE here(buf) == {f \in Filled : buffer[f] = buf}
           last(buf) == CHOOSE x \in here(buf) : \A f \in here(buf) : f.out <= x.out
<1>1. /\ phase = "running"
      /\ mem' = [buf \in DOMAIN mem |-> IF here(buf) = {} THEN mem[buf]
                                        ELSE Written(last(buf))]
  BY DEF writeOutputs, Filled
<1>2. buffer[e] \in DOMAIN mem
  BY DEF Room
<1>3. mem'[buffer[e]] = IF here(buffer[e]) = {} THEN mem[buffer[e]]
                        ELSE Written(last(buffer[e]))
  BY <1>1, <1>2
<1>4. ASSUME here(buffer[e]) # {}
      PROVE  last(buffer[e]) \in here(buffer[e])
  <2>1. PICK x \in here(buffer[e]) : TRUE
    BY <1>4
  <2>2. ASSUME NEW f \in here(buffer[e]) PROVE f.out <= x.out
    <3>1. x.out \in Nat /\ f.out = x.out
      BY <1>1, FilledTogether
    <3>2. QED
      BY <3>1
  <2>3. QED
    BY <2>1, <2>2
<1>5. QED
  BY <1>3, <1>4

LEMMA RoomStays ==
  ASSUME DataContext, writeOutputs, NEW e \in graph.edges, Room(e)
  PROVE  Room(e)'
<1>1. /\ UNCHANGED <<buffer, bMax>> /\ DOMAIN mem' = DOMAIN mem
  BY DEF writeOutputs, schedVars, allocVars
<1>2. DOMAIN mem'[buffer[e]] = DOMAIN mem[buffer[e]]
  <2>1. ASSUME NEW f \in Filled, buffer[f] = buffer[e]
        PROVE  DOMAIN Written(f) = DOMAIN mem[buffer[e]]
    BY <2>1 DEF Written
  <2>2. QED
    BY <2>1, MemoryIs
<1>3. QED
  BY <1>1, <1>2 DEF Room

(* Only a Duplicate fills the memory of what it is reading, and it does not *)
(* then.                                                                    *)
LEMMA InputStays ==
  ASSUME DataContext, DataInv, writeOutputs, NEW e \in graph.edges, e.dst = Node
  PROVE  mem'[buffer[e]] = mem[buffer[e]]
<1>1. phase = "running" /\ Room(e)
  BY DEF writeOutputs, DataInv
<1>2. /\ Plans /\ Repeats /\ nbSchedule \in Nat /\ id \in 1 .. Len(schedule)
      /\ skip = SkippedBy(buffer)
  BY <1>1, RunningIs
<1>3. ASSUME NEW f \in Filled, buffer[f] = buffer[e]
      PROVE  FALSE
  <2>1. f \in graph.edges /\ f.src = Node /\ f \notin skip
    BY DEF Filled, OutputsOf
  <2>2. f # e
    BY <1>2, <2>1 DEF Plans
  <2>3. Apart(e, f)
    BY <1>1, <1>3, <2>1, <2>2, RunningIs
  <2>4. Occupancy(schedule, e, id - 1) > 0
    <3> DEFINE c == CycleValue(e.cons, Runs(e.dst))
               o == Occupancy(schedule, e, id - 1)
    <3>1. o \in Nat /\ c \in Nat /\ c <= o /\ c > 0
      <4>1. /\ o \in Nat /\ c \in Nat /\ bMax[e] \in Nat
            /\ c <= o
            /\ IsArray(e) => c = bMax[e] /\ bMax[e] > 0
        BY <1>2, AroundNode
      <4>2. QED
        BY <2>3, <4>1 DEF Apart
    <3> HIDE DEF c, o
    <3>2. o > 0
      BY <3>1
    <3>3. QED
      BY <3>2 DEF o
  <2>5. Skips(f.src)
    BY <1>2, <2>1, <2>3, <2>4 DEF Apart, Node
  <2>6. InputOf(f.src) = e
    BY <1>1, <2>1, <2>5, InputIs DEF Skips
  <2>7. BufferAttribute(buffer, f) = BufferAttribute(buffer, InputOf(f.src))
    BY <1>3, <2>6 DEF BufferAttribute
  <2>8. QED
    BY <1>2, <2>1, <2>5, <2>7 DEF SkippedBy, Skips
<1>4. QED
  BY <1>1, <1>3, MemoryIs

(* A FIFO that the node does not write.                                     *)
LEMMA OthersHold ==
  ASSUME DataContext, DataInv, writeOutputs, NEW e \in graph.edges, e.src # Node
  PROVE  Shows(graph, mem'[buffer[e]], readPos[e], e, Taken(e), Contents(e))
<1>1. phase = "running" /\ step = "reading" /\ Room(e) /\ Holds(e)
  BY DEF writeOutputs, DataInv
<1>2. /\ Plans /\ Repeats /\ nbSchedule \in Nat /\ id \in 1 .. Len(schedule)
  BY <1>1, RunningIs
<1>3. CASE \A f \in Filled : buffer[f] # buffer[e]
  BY <1>1, <1>3, MemoryIs DEF Holds
<1>4. CASE \E f \in Filled : buffer[f] = buffer[e]
  <2>1. PICK f \in Filled : buffer[f] = buffer[e]
    BY <1>4
  <2>2. f \in graph.edges /\ f.src = Node /\ f # e
    BY DEF Filled, OutputsOf
  <2>3. Apart(e, f)
    BY <1>1, <2>1, <2>2, RunningIs
  <2> DEFINE c == CycleValue(e.cons, Runs(e.dst))
             o == Occupancy(schedule, e, id - 1)
  <2>4. /\ o \in Nat /\ c \in Nat /\ o <= bMax[e] /\ c = bMax[e]
        /\ CycleValue(e.cons, Count(schedule, e.dst, id - 1)) = c
    <3>1. /\ o \in Nat /\ c \in Nat /\ o <= bMax[e]
          /\ CycleValue(e.cons, Count(schedule, e.dst, id - 1)) = c
          /\ IsArray(e) => c = bMax[e]
      BY <1>2, AroundNode
    <3>2. QED
      BY <2>3, <3>1 DEF Apart
  <2>5. Contents(e) = o - (IF e.dst = Node THEN c ELSE 0)
    BY <1>1, <2>4 DEF Contents
  <2>6. o > 0 => e.dst = Node
    BY <1>2, <2>2, <2>3 DEF Apart, Node
  <2> HIDE DEF c, o
  <2>7. Contents(e) \in Int /\ Contents(e) <= 0
    BY <2>4, <2>5, <2>6
  <2>8. QED
    BY <2>7, ShowsNone
<1>5. QED
  BY <1>3, <1>4

(* A FIFO that is not an array: what is left of it, and the new samples.    *)
LEMMA FIFOHolds ==
  ASSUME DataContext, DataInv, writeOutputs, NEW e \in graph.edges,
         e.src = Node, ~IsArray(e)
  PROVE  Shows(graph, mem'[buffer[e]], 0, e, Taken(e),
               Contents(e) + CycleValue(e.prod, Runs(e.src)))
<1> DEFINE p == CycleValue(e.prod, Runs(e.src))
           o == Occupancy(schedule, e, id - 1)
           t == Moved(e.cons, Runs(e.dst))
           moved == Moved(e.prod, Runs(e.src))
           r == readPos[e]
           m == mem[buffer[e]]
<1>1. phase = "running" /\ step = "reading" /\ Room(e) /\ Holds(e)
  BY DEF writeOutputs, DataInv
<1>2. /\ Plans /\ Repeats /\ nbSchedule \in Nat /\ id \in 1 .. Len(schedule)
      /\ Positioned(e) /\ skip \subseteq Arrays
  BY <1>1, RunningIs
<1>3. /\ p \in Nat /\ o \in Nat /\ bMax[e] \in Nat /\ e.dst # Node
      /\ e.delay \in Nat /\ o + p <= bMax[e]
  BY <1>2, AroundNode
<1>4. t \in Nat /\ moved \in Nat /\ e.delay + moved = t + o
  BY <1>2, Balance
<1>5. Contents(e) = o /\ Taken(e) = t
  <2>1. Contents(e) = o - 0
    BY <1>1, <1>3 DEF Contents
  <2>2. Taken(e) = t + 0
    BY <1>3 DEF Taken
  <2>3. QED
    BY <1>3, <1>4, <2>1, <2>2
<1>6. Kept(e) = o /\ r \in Nat
  BY <1>1, <1>2, <1>5 DEF Kept, Positioned
<1>7. Shows(graph, m, r, e, t, o)
  BY <1>1, <1>5 DEF Holds
<1>8. mem'[buffer[e]] = Written(e)
  <2>1. e \in Filled
    BY <1>2 DEF Filled, OutputsOf, Arrays
  <2>2. PICK f \in Filled : buffer[f] = buffer[e] /\ mem'[buffer[e]] = Written(f)
    BY <1>1, <2>1, MemoryIs
  <2>3. f = e
    <3>1. f \in graph.edges
      BY DEF Filled, OutputsOf
    <3>2. QED
      BY <1>1, <2>2, <3>1, RunningIs DEF Apart
  <2>4. QED
    BY <2>2, <2>3
<1>9. ASSUME NEW k \in Nat, k < o + p
      PROVE  Written(e)[0 + k] = ExpectedIn(graph, e, t + k)
  <2>1. k \in DOMAIN m
    <3>1. k < bMax[e]
      <4> HIDE DEF p, o
      <4>1. QED
        BY <1>3, <1>9
    <3>2. QED
      BY <1>1, <3>1 DEF Room
  <2>2. Written(e)[k] = IF k - o \in 0 .. p - 1 THEN Produced(e, k - o)
                        ELSE IF k < o THEN m[k + r] ELSE m[k]
    BY <1>6, <2>1 DEF Written, Realigned
  <2>3. CASE k < o
    <3>1. m[r + k] = ExpectedIn(graph, e, t + k)
      BY <1>7, <2>3 DEF Shows
    <3> HIDE DEF p, o, t, r, m
    <3>2. ~(k - o \in 0 .. p - 1) /\ k + r = r + k /\ 0 + k = k
      BY <1>3, <1>6, <2>3
    <3>3. QED
      BY <2>2, <2>3, <3>1, <3>2
  <2>4. CASE ~(k < o)
    <3>1. /\ k - o \in Nat /\ k - o < p /\ k - o \in 0 .. p - 1 /\ 0 + k = k
          /\ e.delay + moved + (k - o) = t + k
      <4> HIDE DEF p, o, t, moved
      <4>1. QED
        BY <1>3, <1>4, <1>9, <2>4
    <3>2. Produced(e, k - o)
            = ExpectedIn(graph, e, e.delay + moved + (k - o))
      <4> DEFINE j == k - o
      <4>1. j \in Nat /\ j < CycleValue(e.prod, Runs(e.src)) /\ step # "before"
        BY <1>1, <3>1
      <4> HIDE DEF j
      <4>2. Produced(e, j) = ExpectedIn(graph, e, e.delay + moved + j)
        BY <1>1, <4>1, ProducedIs
      <4>3. QED
        BY <4>2 DEF j
    <3> HIDE DEF p, o, t, moved, m, r
    <3>3. QED
      BY <2>2, <3>1, <3>2
  <2>5. QED
    BY <2>3, <2>4
<1>10. Shows(graph, Written(e), 0, e, t, o + p)
  BY <1>9 DEF Shows
<1>11. QED
  BY <1>5, <1>8, <1>10

(* An array that the node writes, or that its Duplicate leaves out because  *)
(* the samples are there already.                                           *)
LEMMA ArrayHolds ==
  ASSUME DataContext, DataInv, writeOutputs, NEW e \in graph.edges,
         e.src = Node, IsArray(e)
  PROVE  Shows(graph, mem'[buffer[e]], 0, e, Taken(e),
               Contents(e) + CycleValue(e.prod, Runs(e.src)))
<1> DEFINE p == CycleValue(e.prod, Runs(e.src))
           o == Occupancy(schedule, e, id - 1)
           t == Moved(e.cons, Runs(e.dst))
           moved == Moved(e.prod, Runs(e.src))
           m == mem'[buffer[e]]
<1>1. /\ phase = "running" /\ step = "reading"
      /\ \A f \in graph.edges : Room(f)
      /\ \A f \in InputsOf(Node) : Shown(f)
  BY DEF writeOutputs, DataInv
<1>2. /\ Plans /\ Repeats /\ nbSchedule \in Nat /\ id \in 1 .. Len(schedule)
      /\ skip = SkippedBy(buffer)
  BY <1>1, RunningIs
<1>3. /\ p \in Nat /\ o \in Nat /\ bMax[e] \in Nat /\ e.dst # Node
      /\ o + p <= bMax[e] /\ p = bMax[e]
  BY <1>2, AroundNode
<1>4. o = 0 /\ e.delay = 0
  <2>1. o = 0
    <3> HIDE DEF p, o
    <3>1. QED
      BY <1>3
  <2>2. QED
    BY <1>2, <2>1, ArrayIs
<1>5. t \in Nat /\ moved \in Nat /\ moved = t
  <2>1. t \in Nat /\ moved \in Nat /\ 0 + moved = t + 0
    BY <1>2, <1>4, Balance
  <2> HIDE DEF t, moved
  <2>2. QED
    BY <2>1
<1>6. Contents(e) = 0 /\ Taken(e) = t
  <2>1. Contents(e) = o - 0
    BY <1>1, <1>3 DEF Contents
  <2>2. Taken(e) = t + 0
    BY <1>3 DEF Taken
  <2>3. QED
    BY <1>4, <1>5, <2>1, <2>2
<1>7. ASSUME NEW f \in graph.edges, f.src = Node,
             buffer[f] = buffer[e]
      PROVE  /\ IsArray(f) /\ CycleValue(f.prod, Runs(f.src)) = p
             /\ f.delay = 0 /\ Moved(f.prod, Runs(f.src)) = t
             /\ Origin(graph, f) = Origin(graph, e)
  <2>1. CASE f = e
    BY <1>4, <1>5, <2>1
  <2>2. CASE f # e
    <3>1. Apart(e, f)
      BY <1>1, <1>7, <2>2, RunningIs
    <3>2. IsArray(f) /\ IsDuplicate(e.src) /\ IsDuplicate(f.src)
      BY <1>7, <3>1 DEF Apart, Skips
    <3>3. f.delay = 0
      BY <1>2, <3>2, ArrayIs
    <3>4. f.prod = e.prod
      BY <1>1, <1>7, <3>2, InputIs
    <3>5. Origin(graph, f) = Origin(graph, e)
      BY <1>1, <1>7, <3>2, InputIs
    <3>6. QED
      BY <1>5, <1>7, <3>2, <3>3, <3>4, <3>5
  <2>3. QED
    BY <2>1, <2>2
<1>8. ASSUME NEW k \in Nat, k < p
      PROVE  /\ k \in DOMAIN mem[buffer[e]]
             /\ ExpectedIn(graph, e, t + k)
                  = <<Origin(graph, e).src, Origin(graph, e).out, t + k>>
  <2>1. k \in DOMAIN mem[buffer[e]]
    BY <1>1, <1>3, <1>8 DEF Room
  <2> DEFINE place == t + k
  <2>2. ~(place < e.delay) /\ place - e.delay = place
    <3> HIDE DEF t
    <3>1. QED
      BY <1>4, <1>5
  <2> HIDE DEF place
  <2>3. ExpectedIn(graph, e, place)
          = <<Origin(graph, e).src, Origin(graph, e).out, place>>
    BY <2>2 DEF ExpectedIn
  <2>4. QED
    BY <2>1, <2>3 DEF place
<1>9. CASE \E f \in Filled : buffer[f] = buffer[e]
  <2>1. PICK f \in Filled : buffer[f] = buffer[e] /\ m = Written(f)
    BY <1>1, <1>9, MemoryIs
  <2>2. f \in graph.edges /\ f.src = Node
    BY DEF Filled, OutputsOf
  <2>3. /\ Kept(f) = 0 /\ CycleValue(f.prod, Runs(f.src)) = p
        /\ f.delay = 0 /\ Moved(f.prod, Runs(f.src)) = t
        /\ Origin(graph, f) = Origin(graph, e)
    BY <1>7, <2>1, <2>2 DEF Kept
  <2>4. ASSUME NEW k \in Nat, k < p
        PROVE  m[0 + k] = ExpectedIn(graph, e, t + k)
    <3>1. k - 0 = k /\ 0 + k = k /\ k \in 0 .. p - 1
      BY <1>3, <2>4
    <3>2. Written(f)[k] = Produced(f, k)
      <4>1. k \in DOMAIN mem[buffer[f]]
        BY <1>8, <2>1, <2>4
      <4>2. Written(f)[k] = IF k - 0 \in 0 .. p - 1 THEN Produced(f, k - 0)
                            ELSE Realigned(f, k)
        BY <2>3, <4>1 DEF Written
      <4>3. QED
        BY <3>1, <4>2
    <3>3. Produced(f, k) = ExpectedIn(graph, f, f.delay + t + k)
      BY <1>1, <2>2, <2>3, <2>4, ProducedIs
    <3> DEFINE place == f.delay + t + k
    <3>4. /\ ~(place < f.delay) /\ place - f.delay = t + k
      <4> HIDE DEF t
      <4>1. QED
        BY <1>5, <2>3
    <3> HIDE DEF place
    <3>5. ExpectedIn(graph, f, place)
            = <<Origin(graph, e).src, Origin(graph, e).out, t + k>>
      BY <2>3, <3>4 DEF ExpectedIn
    <3>6. QED
      BY <1>8, <2>1, <2>4, <3>1, <3>2, <3>3, <3>5 DEF place
  <2>5. Shows(graph, m, 0, e, t, p)
    BY <2>4 DEF Shows
  <2>6. Contents(e) + p = p
    BY <1>3, <1>6
  <2>7. QED
    BY <1>6, <2>5, <2>6
<1>10. CASE ~\E f \in Filled : buffer[f] = buffer[e]
  <2> DEFINE i == InputOf(e.src)
  <2>1. m = mem[buffer[e]]
    BY <1>1, <1>10, MemoryIs
  <2>2. e \in skip
    BY <1>10 DEF Filled, OutputsOf
  <2>3. Skips(e.src) /\ IsDuplicate(e.src)
    BY <1>2, <2>2 DEF SkippedBy, Skips
  <2>4. buffer[e] = buffer[i]
    <3> DEFINE same == {f \in graph.edges :
                          /\ f.src = e.src
                          /\ BufferAttribute(buffer, f) = BufferAttribute(buffer, e)}
               numbers == {f.out : f \in same}
    <3>1. PICK g \in InputGraphs : graph = InsertDuplicates(g)
      BY <1>1 DEF DataContext, AllocInv, Planned
    <3>2. \A f \in same : f.out \in Nat
      BY <3>1, OutputsAreNumbered
    <3>3. numbers \subseteq Nat /\ e.out \in numbers
      BY <3>2
    <3>4. PICK nb \in numbers : \A j \in numbers : nb <= j
      BY <3>3, Least
    <3>5. PICK f \in same : f.out = nb
      OBVIOUS
    <3>6. \A h \in same : ~(h.out < f.out)
      BY <3>2, <3>4, <3>5
    <3>7. f \in graph.edges /\ f.src = e.src
      OBVIOUS
    <3>8. buffer[f] = buffer[e]
      BY <1>1, <2>3, <3>7, SameBuffer
    <3>9. f \in skip
      BY <1>10, <3>7, <3>8 DEF Filled, OutputsOf
    <3>10. BufferAttribute(buffer, f) = BufferAttribute(buffer, InputOf(f.src))
      <4>1. ~\E h \in graph.edges :
               /\ h.src = f.src /\ h.out < f.out
               /\ BufferAttribute(buffer, h) = BufferAttribute(buffer, f)
        BY <3>5, <3>6
      <4>2. QED
        BY <1>2, <3>9, <4>1 DEF SkippedBy
    <3>11. BufferAttribute(buffer, e) = BufferAttribute(buffer, i)
      BY <3>5, <3>10
    <3>12. i \in graph.edges /\ i.dst = e.src
      BY <1>1, <2>3, InputIs
    <3>13. QED
      BY <1>1, <2>3, <3>11, <3>12, SameBuffer
  <2>5. /\ i \in graph.edges /\ i.dst = e.src
        /\ i.delay = 0 /\ i.cons = e.prod
        /\ Origin(graph, e) = i /\ Origin(graph, i) = i
    BY <1>1, <2>3, InputIs
  <2> HIDE DEF i
  <2>6. IsArray(i)
    <3>1. i # e
      BY <1>3, <2>5
    <3>2. QED
      BY <1>1, <2>4, <2>5, <3>1, RunningIs DEF Apart
  <2>7. Shows(graph, mem[buffer[e]], 0, i, moved, p)
    BY <1>1, <2>4, <2>5, <2>6 DEF Shown, InputsOf
  <2>8. ASSUME NEW k \in Nat, k < p
        PROVE  m[0 + k] = ExpectedIn(graph, e, t + k)
    <3>1. m[0 + k] = ExpectedIn(graph, i, t + k)
      BY <1>5, <2>1, <2>7, <2>8 DEF Shows
    <3> DEFINE place == t + k
    <3>2. ~(place < i.delay) /\ place - i.delay = place
      <4> HIDE DEF t
      <4>1. QED
        BY <1>5, <2>5
    <3> HIDE DEF place
    <3>3. ExpectedIn(graph, i, place) = <<i.src, i.out, place>>
      BY <2>5, <3>2 DEF ExpectedIn
    <3>4. ExpectedIn(graph, e, t + k) = <<i.src, i.out, t + k>>
      BY <1>8, <2>5, <2>8
    <3>5. QED
      BY <3>1, <3>3, <3>4 DEF place
  <2>9. Shows(graph, m, 0, e, t, p)
    BY <2>8 DEF Shows
  <2>10. Contents(e) + p = p
    BY <1>3, <1>6
  <2>11. QED
    BY <1>6, <2>9, <2>10
<1>11. QED
  BY <1>9, <1>10

LEMMA WriteKeepsData ==
  ASSUME DataContext, DataInv, writeOutputs
  PROVE  DataInv'
<1>1. /\ phase = "running" /\ step = "reading" /\ step' = "after"
      /\ readPos' = [e \in graph.edges |->
                       IF e \in Filled /\ ~IsArray(e) THEN 0 ELSE readPos[e]]
      /\ UNCHANGED <<graph, phase, schedule, bMax, buffer, held, id, nbSchedule>>
  BY DEF writeOutputs, Filled, schedVars, allocVars
<1>2. /\ \A e \in graph.edges : Room(e)
      /\ \A e \in InputsOf(Node) : Shown(e)
  BY <1>1 DEF DataInv
<1>3. /\ Plans /\ Repeats /\ nbSchedule \in Nat /\ id \in 1 .. Len(schedule)
      /\ \A e \in graph.edges : Positioned(e)
      /\ skip \subseteq Arrays
  BY <1>1, RunningIs
<1>4. /\ Node' = Node /\ InputsOf(Node)' = InputsOf(Node)
      /\ \A x : Runs(x)' = Runs(x)
      /\ \A e \in graph.edges : IsArray(e)' = IsArray(e)
  BY <1>1 DEF Node, InputsOf, Runs, IsArray, FifoLength
<1>5. ASSUME NEW e \in graph.edges
      PROVE  Holds(e)'
  <2> DEFINE p == CycleValue(e.prod, Runs(e.src))
             c == CycleValue(e.cons, Runs(e.dst))
             o == Occupancy(schedule, e, id - 1)
  <2>1. /\ p \in Nat /\ c \in Nat /\ o \in Nat
        /\ CycleValue(e.cons, Count(schedule, e.dst, id - 1)) = c
        /\ Occupancy(schedule, e, id)
             = o + (IF e.src = Node THEN p ELSE 0) - (IF e.dst = Node THEN c ELSE 0)
    BY <1>3, AroundNode
  <2>2. Contents(e) = o - (IF e.dst = Node THEN c ELSE 0)
    BY <1>1, <2>1 DEF Contents
  <2>3. Contents(e)' = Occupancy(schedule, e, id)
    BY <1>1 DEF Contents
  <2>4. Taken(e)' = Taken(e)
    BY <1>1, <1>4 DEF Taken
  <2>5. CASE e.src # Node
    <3>1. Contents(e)' = Contents(e)
      <4> HIDE DEF p, c, o
      <4>1. QED
        BY <2>1, <2>2, <2>3, <2>5
    <3>2. readPos'[e] = readPos[e]
      BY <1>1, <2>5 DEF Filled, OutputsOf
    <3>3. Shows(graph, mem'[buffer[e]], readPos[e], e, Taken(e), Contents(e))
      BY <2>5, OthersHold
    <3>4. QED
      BY <1>1, <2>4, <3>1, <3>2, <3>3 DEF Holds
  <2>6. CASE e.src = Node
    <3>1. Contents(e)' = Contents(e) + p
      <4> HIDE DEF p, c, o
      <4>1. QED
        BY <2>1, <2>2, <2>3, <2>6
    <3>2. readPos'[e] = 0
      <4>1. CASE IsArray(e)
        BY <1>1, <1>3, <4>1 DEF Positioned
      <4>2. CASE ~IsArray(e)
        BY <1>1, <1>3, <2>6, <4>2 DEF Filled, OutputsOf, Arrays
      <4>3. QED
        BY <4>1, <4>2
    <3>3. Shows(graph, mem'[buffer[e]], 0, e, Taken(e), Contents(e) + p)
      BY <2>6, ArrayHolds, FIFOHolds
    <3> HIDE DEF p
    <3>4. QED
      BY <1>1, <2>4, <3>1, <3>2, <3>3 DEF Holds
  <2>7. QED
    BY <2>5, <2>6
<1>6. ASSUME NEW e \in InputsOf(Node)
      PROVE  Shown(e)'
  <2>1. e \in graph.edges /\ e.dst = Node /\ Shown(e)
    BY <1>2 DEF InputsOf
  <2>2. mem'[buffer[e]] = mem[buffer[e]]
    BY <2>1, InputStays
  <2>3. QED
    BY <1>1, <1>4, <2>1, <2>2 DEF Shown
<1>7. \A e \in graph.edges : Room(e)'
  BY <1>2, RoomStays
<1>8. QED
  BY <1>1, <1>4, <1>5, <1>6, <1>7 DEF DataInv

LEMMA DataNext ==
  ASSUME ScheduleInv, LoopInv, AllocInv, SharingInv, Supported => DataInv,
         Supported', [Next]_vars
  PROVE  DataInv'
<1>1. CASE startScheduler \/ readInputs \/ writeOutputs \/ nextNode
           \/ errorHandling \/ resume \/ UNCHANGED vars
  <2>1. UNCHANGED <<graph, buffer>>
    BY <1>1 DEF startScheduler, readInputs, writeOutputs, nextNode,
                errorHandling, resume, vars, schedVars, allocVars
  <2>2. Supported
    BY <2>1 DEF Supported, ImposedTogether, NoImposedDelay, Imposed
  <2>3. DataContext /\ DataInv
    BY <2>2 DEF DataContext
  <2>4. CASE startScheduler
    BY <2>3, <2>4, StartKeepsData
  <2>5. CASE readInputs
    BY <2>3, <2>5, ReadKeepsData
  <2>6. CASE writeOutputs
    BY <2>3, <2>6, WriteKeepsData
  <2>7. CASE nextNode
    BY <2>3, <2>7, NextKeepsData
  <2>8. CASE errorHandling
    BY <2>3, <2>8, ErrorKeepsData
  <2>9. CASE resume
    BY <2>3, <2>9, ResumeKeepsData
  <2>10. CASE UNCHANGED vars
    <3>1. UNCHANGED <<graph, schedule, phase, bMax, buffer, mem, readPos, held,
                      step, id, nbSchedule>>
      BY <2>10 DEF vars, schedVars, allocVars, runVars
    <3>2. /\ \A e : Room(e)' = Room(e) /\ IsArray(e)' = IsArray(e)
          /\ \A x : Runs(x)' = Runs(x)
          /\ Node' = Node /\ InputsOf(Node)' = InputsOf(Node)
      BY <3>1 DEF Room, IsArray, FifoLength, Runs, Node, InputsOf
    <3>3. \A e : Shown(e)' = Shown(e)
      BY <3>1, <3>2 DEF Shown
    <3>4. \A e : Holds(e)' = Holds(e)
      BY <3>1, <3>2 DEF Holds, Taken, Contents
    <3>5. QED
      BY <2>3, <3>1, <3>2, <3>3, <3>4 DEF DataInv
  <2>11. QED
    BY <1>1, <2>4, <2>5, <2>6, <2>7, <2>8, <2>9, <2>10
<1>2. CASE computeSchedule \/ initializeFIFODescriptions \/ refuseConstraints
  <2>1. phase' \notin {"running", "left"}
    BY <1>2 DEF computeSchedule, insertDuplicates, topologyMatrix, selectGreedy,
                finishGreedy, selectSinks, finishSinks, raiseException, Raise,
                initializeFIFODescriptions, refuseConstraints
  <2>2. QED
    BY <2>1 DEF DataInv
<1>3. QED
  BY <1>1, <1>2 DEF Next

(* Theorem: whatever the graph and the order that the scheduler chooses, a  *)
(* node finds the samples that are meant for it, and keeps them while it    *)
(* writes: neither an array that the interference graph has put into the    *)
(* same memory (initializeFIFODescriptions() of description.py), nor a copy *)
(* that Duplicate::run() leaves out, nor the move of getWriteBuffer() in    *)
(* GenericNodes.hpp, nor reset_fifos() spoils them.  Excluded are different *)
(* buffers imposed around one Duplicate, which description.py:1193 takes    *)
(* for one, and a delay in an imposed buffer, which the program leaves to   *)
(* the user to clear.                                                       *)
THEOREM InputsStayIntact == Spec => [](Supported => InputIntact)
<1>1. Init => LiveInv /\ SharingInv /\ AllocInv /\ (Supported => DataInv)
  BY DEF Init, SchedInit, LiveInv, Recording, SharingInv, AllocInv, DataInv,
         Planned, Simulating
<1>2. /\ ScheduleInv /\ LoopInv /\ LiveInv /\ AllocInv /\ SharingInv
      /\ (Supported => DataInv) /\ [Next]_vars
      => LiveInv' /\ AllocInv' /\ SharingInv' /\ (Supported => DataInv)'
  BY LiveNext, AllocNext, SharingNext, DataNext
<1>3. ScheduleInv /\ LoopInv /\ AllocInv /\ SharingInv /\ (Supported => DataInv)
      => (Supported => InputIntact)
  <2>1. SUFFICES ASSUME DataContext, DataInv, phase = "running", step # "before",
                        NEW e \in InputsOf(Node),
                        NEW k \in 0 .. CycleValue(e.cons, Runs(Node)) - 1
                 PROVE  /\ held[e] + k \in DOMAIN mem[buffer[e]]
                        /\ mem[buffer[e]][held[e] + k]
                             = Expected(e, Moved(e.cons, Runs(Node)) + k)
    BY DEF InputIntact, DataContext
  <2> DEFINE c == CycleValue(e.cons, Runs(e.dst))
  <2>2. e \in graph.edges /\ e.dst = Node
    BY DEF InputsOf
  <2>3. Plans /\ Repeats /\ nbSchedule \in Nat /\ id \in 1 .. Len(schedule)
    BY <2>1, RunningIs
  <2>4. c \in Nat /\ bMax[e] \in Nat
    BY <2>2, <2>3, AroundNode
  <2>5. Shown(e) /\ Room(e)
    BY <2>1, <2>2 DEF DataInv
  <2>6. k \in Nat /\ k < c
    BY <2>2, <2>4
  <2>7. held[e] \in Nat /\ held[e] + c <= bMax[e]
    BY <2>5 DEF Shown
  <2>8. held[e] + k \in Nat /\ held[e] + k < bMax[e]
    <3> HIDE DEF c
    <3>1. QED
      BY <2>4, <2>6, <2>7
  <2>9. held[e] + k \in DOMAIN mem[buffer[e]]
    BY <2>5, <2>8 DEF Room
  <2>10. mem[buffer[e]][held[e] + k]
           = ExpectedIn(graph, e, Moved(e.cons, Runs(e.dst)) + k)
    BY <2>5, <2>6 DEF Shown, Shows
  <2>11. QED
    BY <2>2, <2>9, <2>10, ExpectedIs
<1>4. QED
  BY <1>1, <1>2, <1>3, ScheduleInvariant, LoopInvariant, PTL DEF Spec
=============================================================================
