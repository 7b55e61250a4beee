--------------------------- MODULE LearningProofs ---------------------------
(***************************************************************************)
(* Proofs about Learning, for any number of processes, any rewards and any *)
(* runs: every average of the bandit is the mean of what was observed, an  *)
(* exploited arm has the best one, and every line of the calibration is    *)
(* the least-squares fit of its observations, whatever is saved, loaded,   *)
(* cut or lost between processes.  What the argument takes of the texts in *)
(* the files is TextsRead.                                                 *)
(***************************************************************************)
EXTENDS Learning, FiniteSetTheorems, SequenceTheorems, WellFoundedInduction, TLAPS

-----------------------------------------------------------------------------
(* Sums over sets of positions: one more position adds its number. *)

LEMMA LeastOf ==
  ASSUME NEW S, S \subseteq Nat, S # {}
  PROVE  \E x \in S : \A y \in S : x <= y
<1>1. PICK x \in S : \A y \in S : ~(<<y, x>> \in OpToRel(<, Nat))
  BY NatLessThanWellFounded, WFMin
<1>2. \A y \in S : x <= y
  <2> SUFFICES ASSUME NEW y \in S PROVE x <= y
    OBVIOUS
  <2>1. x \in Nat /\ y \in Nat
    OBVIOUS
  <2>2. ~(<<y, x>> \in {ss \in Nat \X Nat : ss[1] < ss[2]})
    BY <1>1 DEF OpToRel
  <2>3. ~(y < x)
    BY <2>1, <2>2
  <2> QED BY <2>1, <2>3
<1> QED BY <1>1, <1>2

Additive(n, v, T) ==
  /\ T[{}] = 0
  /\ \A s \in SUBSET (1..n) : T[s] \in Int /\ \A x \in s : T[s] = v[x] + T[s \ {x}]

LEMMA AdditiveNext ==
  ASSUME NEW n \in Nat, NEW v, v[n + 1] \in Int, \A x \in 1..n : v[x] \in Int, NEW T, Additive(n, v, T)
  PROVE  \E U : Additive(n + 1, v, U)
<1> DEFINE m == n + 1
<1>1. PICK U : U = [s \in SUBSET (1..m) |-> T[s \ {m}] + (IF m \in s THEN v[m] ELSE 0)]
  OBVIOUS
<1>2. \A s \in SUBSET (1..m) : s \ {m} \in SUBSET (1..n)
  <2>1. \A x \in 1..m : x # m => x \in 1..n
    OBVIOUS
  <2> QED BY <2>1
<1>3. m \in Nat /\ v[m] \in Int
  OBVIOUS
<1> HIDE DEF m
<1>4. \A s \in SUBSET (1..m) : T[s \ {m}] \in Int /\ U[s] \in Int
  BY <1>1, <1>2, <1>3 DEF Additive
<1>5. U[{}] = 0
  <2>1. {} \ {m} = {} /\ {} \in SUBSET (1..m)
    OBVIOUS
  <2> QED BY <1>1, <2>1 DEF Additive
<1>6. ASSUME NEW s \in SUBSET (1..m), NEW x \in s
      PROVE  U[s] = v[x] + U[s \ {x}]
  <2>1. s \ {x} \in SUBSET (1..m)
    OBVIOUS
  <2>2. /\ U[s] = T[s \ {m}] + (IF m \in s THEN v[m] ELSE 0)
        /\ U[s \ {x}] = T[(s \ {x}) \ {m}] + (IF m \in s \ {x} THEN v[m] ELSE 0)
        /\ T[s \ {m}] \in Int /\ T[(s \ {x}) \ {m}] \in Int
    BY <1>1, <1>4, <2>1
  <2>3. CASE x = m
    <3>1. (s \ {x}) \ {m} = s \ {m}
      BY <2>3
    <3>2. U[s] = T[s \ {m}] + v[m] /\ U[s \ {x}] = T[s \ {m}]
      <4>1. m \in s /\ ~(m \in s \ {x})
        BY <2>3
      <4>2. U[s] = T[s \ {m}] + v[m] /\ U[s \ {x}] = T[s \ {m}] + 0
        BY <2>2, <3>1, <4>1
      <4> QED BY <2>2, <4>2
    <3> QED BY <1>3, <2>2, <2>3, <3>2
  <2>4. CASE x # m
    <3>1. s \ {m} \in SUBSET (1..n) /\ x \in s \ {m} /\ (s \ {x}) \ {m} = (s \ {m}) \ {x}
      BY <1>2, <2>4
    <3>2. T[s \ {m}] = v[x] + T[(s \ {m}) \ {x}] /\ v[x] \in Int
      BY <3>1 DEF Additive
    <3>3. m \in s \ {x} <=> m \in s
      BY <2>4
    <3>4. T[s \ {m}] = v[x] + T[(s \ {x}) \ {m}]
      BY <3>1, <3>2
    <3>5. PICK e : e \in Int /\ e = IF m \in s THEN v[m] ELSE 0
      BY <1>3
    <3>6. U[s] = T[s \ {m}] + e /\ U[s \ {x}] = T[(s \ {x}) \ {m}] + e
      BY <2>2, <3>3, <3>5
    <3> QED BY <2>2, <3>2, <3>4, <3>5, <3>6
  <2> QED BY <2>3, <2>4
<1>7. Additive(m, v, U)
  BY <1>4, <1>5, <1>6 DEF Additive
<1> QED BY <1>7 DEF m

LEMMA AdditiveExists ==
  ASSUME NEW n \in Nat, NEW v, \A x \in 1..n : v[x] \in Int
  PROVE  \E T : Additive(n, v, T)
<1> DEFINE P(k) == \E T : Additive(k, v, T)
           S == {k \in 0..n : ~P(k)}
<1>1. P(0)
  <2>1. PICK T : T = [s \in {{}} |-> 0]
    OBVIOUS
  <2>2. \A s \in SUBSET (1..0) : s = {}
    OBVIOUS
  <2>3. Additive(0, v, T)
    BY <2>1, <2>2 DEF Additive
  <2> QED BY <2>3
<1>2. ASSUME NEW k \in Nat, k + 1 <= n, P(k) PROVE P(k + 1)
  <2>1. PICK T : Additive(k, v, T)
    BY <1>2
  <2>2. v[k + 1] \in Int /\ \A x \in 1..k : v[x] \in Int
    BY <1>2
  <2> QED BY <2>1, <2>2, AdditiveNext
<1>3. S \subseteq Nat
  OBVIOUS
<1> HIDE DEF P
<1>4. CASE S # {}
  <2>1. PICK k \in S : \A j \in S : k <= j
    BY <1>3, <1>4, LeastOf
  <2>2. k \in 1..n /\ ~P(k)
    BY <1>1, <2>1
  <2>3. k - 1 \in Nat /\ k - 1 \notin S /\ k - 1 + 1 = k /\ k - 1 \in 0..n
    BY <2>1, <2>2
  <2> QED BY <1>2, <2>2, <2>3
<1>5. CASE S = {}
  BY <1>5 DEF P
<1> QED BY <1>4, <1>5

\* MapThenSumSet, which takes the elements in some order, is that sum.
LEMMA SumIs ==
  ASSUME NEW n \in Nat, NEW v, NEW T, Additive(n, v, T), NEW w,
         NEW S \in SUBSET (1..n), \A x \in S : v[x] = w[x] /\ v[x] \in Int
  PROVE  Sum(w, S) = T[S]
<1> DEFINE F(h) == [s \in SUBSET S |->
             IF s = {} THEN 0
             ELSE LET x == CHOOSE x \in s : TRUE IN w[x] + h[s \ {x}]]
<1>1. Sum(w, S) = (CHOOSE h : h = F(h))[S]
  BY DEF Sum, MapThenSumSet, MapThenFoldSet
<1> DEFINE First(s) == CHOOSE x \in s : TRUE
<1>2. ASSUME NEW h
      PROVE  F(h) = [s \in SUBSET S |-> IF s = {} THEN 0 ELSE w[First(s)] + h[s \ {First(s)}]]
  OBVIOUS
<1>3. \A s \in SUBSET S : s # {} => First(s) \in s
  OBVIOUS
<1> HIDE DEF F, First
<1>4. \A s \in SUBSET S : s # {} => /\ w[First(s)] = v[First(s)]
                                   /\ s \ {First(s)} \in SUBSET S
  BY <1>3
<1>5. \A s \in SUBSET S : s \in SUBSET (1..n)
  OBVIOUS
<1>6. \A s \in SUBSET S : T[s] \in Int /\ (s # {} => T[s] = v[First(s)] + T[s \ {First(s)}])
  BY <1>3, <1>5 DEF Additive
<1>7. PICK g : g = [s \in SUBSET S |-> T[s]]
  OBVIOUS
<1>8. g = F(g)
  <2>1. ASSUME NEW s \in SUBSET S
        PROVE  g[s] = IF s = {} THEN 0 ELSE w[First(s)] + g[s \ {First(s)}]
    <3>1. CASE s = {}
      BY <1>7, <3>1 DEF Additive
    <3>2. CASE s # {}
      <4>1. g[s] = T[s] /\ g[s \ {First(s)}] = T[s \ {First(s)}]
        BY <1>4, <1>7, <3>2
      <4> QED BY <1>4, <1>6, <3>2, <4>1
    <3> QED BY <3>1, <3>2
  <2> QED BY <1>2, <1>7, <2>1
<1>9. PICK h : h = F(h) /\ h = CHOOSE f : f = F(f)
  BY <1>8, Zenon
<1>10. \A s \in SUBSET S : h[s] = IF s = {} THEN 0 ELSE v[First(s)] + h[s \ {First(s)}]
  <2>1. h = [s \in SUBSET S |-> IF s = {} THEN 0 ELSE w[First(s)] + h[s \ {First(s)}]]
    BY <1>2, <1>9
  <2> SUFFICES ASSUME NEW s \in SUBSET S
               PROVE  h[s] = IF s = {} THEN 0 ELSE v[First(s)] + h[s \ {First(s)}]
    OBVIOUS
  <2>2. h[s] = IF s = {} THEN 0 ELSE w[First(s)] + h[s \ {First(s)}]
    BY <2>1
  <2> QED BY <1>4, <2>2
<1>11. \A s \in SUBSET S : IsFiniteSet(s) /\ Cardinality(s) \in Nat
  <2>1. IsFiniteSet(1..n)
    BY FS_Interval
  <2> QED BY <1>5, <2>1, FS_Subset, FS_CardinalityType
<1> DEFINE B == {Cardinality(s) : s \in {u \in SUBSET S : h[u] # T[u]}}
<1>12. CASE B # {}
  <2>1. B \subseteq Nat
    BY <1>11
  <2>2. PICK c \in B : \A d \in B : c <= d
    BY <1>12, <2>1, LeastOf
  <2>3. PICK s \in SUBSET S : h[s] # T[s] /\ Cardinality(s) = c
    BY <2>2
  <2>4. s # {}
    BY <1>10, <2>3 DEF Additive
  <2>5. First(s) \in s /\ s \ {First(s)} \in SUBSET S
    BY <1>3, <1>4, <2>4
  <2>6. Cardinality(s \ {First(s)}) < c
    <3>1. Cardinality(s \ {First(s)}) = Cardinality(s) - 1
      BY <1>11, <2>5, FS_RemoveElement
    <3> QED BY <1>11, <2>3, <3>1
  <2>7. h[s \ {First(s)}] = T[s \ {First(s)}]
    <3> SUFFICES ASSUME h[s \ {First(s)}] # T[s \ {First(s)}] PROVE FALSE
      OBVIOUS
    <3>1. Cardinality(s \ {First(s)}) \in B
      BY <2>5
    <3>2. c \in Nat /\ Cardinality(s \ {First(s)}) \in Nat
      BY <2>1, <3>1
    <3> QED BY <2>2, <2>6, <3>1, <3>2
  <2> QED BY <1>6, <1>10, <2>3, <2>4, <2>7
<1>13. CASE B = {}
  <2>1. S \in SUBSET S
    OBVIOUS
  <2>2. h[S] = T[S]
    BY <1>13, <2>1
  <2> QED BY <1>1, <1>9, <2>2
<1> QED BY <1>12, <1>13

Ints(v, n) == \A x \in 1..n : v[x] \in Int

\* A sum is an integer, nothing adds up to zero, and each position adds its number.
LEMMA SumOf ==
  ASSUME NEW n \in Nat, NEW v, Ints(v, n), NEW S \in SUBSET (1..n)
  PROVE  Sum(v, S) \in Int /\ (S = {} => Sum(v, S) = 0)
<1>1. PICK T : Additive(n, v, T)
  BY AdditiveExists DEF Ints
<1>2. S \in SUBSET (1..n) /\ \A x \in S : v[x] = v[x] /\ v[x] \in Int
  BY DEF Ints
<1>3. Sum(v, S) = T[S]
  BY <1>1, <1>2, SumIs
<1> QED BY <1>1, <1>2, <1>3 DEF Additive

LEMMA SumTakes ==
  ASSUME NEW n \in Nat, NEW v, Ints(v, n), NEW S \in SUBSET (1..n), NEW x \in S
  PROVE  Sum(v, S) = v[x] + Sum(v, S \ {x})
<1>1. PICK T : Additive(n, v, T)
  BY AdditiveExists DEF Ints
<1>2. ASSUME NEW s \in SUBSET (1..n) PROVE Sum(v, s) = T[s]
  <2>1. s \in SUBSET (1..n) /\ \A y \in s : v[y] = v[y] /\ v[y] \in Int
    BY <1>2 DEF Ints
  <2> QED BY <1>1, <2>1, SumIs
<1>3. S \ {x} \in SUBSET (1..n) /\ S \in SUBSET (1..n)
  OBVIOUS
<1>4. T[S] = v[x] + T[S \ {x}]
  BY <1>1, <1>3 DEF Additive
<1> QED BY <1>2, <1>3, <1>4

\* It depends on the numbers at its positions only.
LEMMA SumSame ==
  ASSUME NEW n \in Nat, NEW S \in SUBSET (1..n), NEW v, NEW w,
         \A x \in S : v[x] = w[x] /\ v[x] \in Int
  PROVE  Sum(v, S) = Sum(w, S)
<1>1. PICK u : u = [x \in 1..n |-> IF x \in S THEN v[x] ELSE 0]
  OBVIOUS
<1>2. \A x \in 1..n : u[x] \in Int
  BY <1>1
<1>3. PICK T : Additive(n, u, T)
  BY <1>2, AdditiveExists
<1>4. S \in SUBSET (1..n) /\ \A x \in S : u[x] = v[x] /\ u[x] = w[x] /\ u[x] \in Int
  BY <1>1
<1>5. Sum(v, S) = T[S]
  BY <1>3, <1>4, SumIs
<1>6. Sum(w, S) = T[S]
  BY <1>3, <1>4, SumIs
<1> QED BY <1>5, <1>6

\* A new position.
LEMMA SumNext ==
  ASSUME NEW n \in Nat, NEW v, Ints(v, n + 1), NEW S \in SUBSET (1..n)
  PROVE  Sum(v, S \cup {n + 1}) = Sum(v, S) + v[n + 1]
<1>1. PICK m : m = n + 1
  OBVIOUS
<1>2. m \in Nat /\ S \cup {m} \in SUBSET (1..m) /\ m \in S \cup {m} /\ (S \cup {m}) \ {m} = S /\ S \in SUBSET (1..m)
  <2>1. \A x \in S : x \in 1..m /\ x # m
    BY <1>1
  <2>2. m \in Nat /\ m \in 1..m
    BY <1>1
  <2> QED BY <2>1, <2>2
<1>3. Sum(v, S \cup {m}) = v[m] + Sum(v, (S \cup {m}) \ {m})
  <2>1. PICK R : R = S \cup {m}
    OBVIOUS
  <2>2. R \in SUBSET (1..m) /\ m \in R /\ Ints(v, m)
    BY <1>1, <1>2, <2>1
  <2>3. Sum(v, R) = v[m] + Sum(v, R \ {m})
    BY <1>2, <2>2, SumTakes
  <2> QED BY <2>1, <2>2, <2>3
<1>4. Sum(v, S) \in Int /\ v[m] \in Int
  BY <1>1, <1>2, SumOf DEF Ints
<1> QED BY <1>1, <1>2, <1>3, <1>4

LEMMA Distributes ==
  ASSUME NEW a \in Int, NEW x \in Int, NEW y \in Int
  PROVE  a * (x + y) = a * x + a * y /\ a * x \in Int /\ a * y \in Int
OBVIOUS

Combines(z, a, u, b, v, c, w, S) == \A x \in S : z[x] = a * u[x] + b * v[x] + c * w[x]
Combined(z, a, u, b, v, c, w, S) == Sum(z, S) = a * Sum(u, S) + b * Sum(v, S) + c * Sum(w, S)

\* A sum of multiples is the multiples of the sums.
LEMMA SumLinear ==
  ASSUME NEW n \in Nat, NEW u, NEW v, NEW w, Ints(u, n), Ints(v, n), Ints(w, n),
         NEW a \in Int, NEW b \in Int, NEW c \in Int, NEW S \in SUBSET (1..n),
         NEW z, Combines(z, a, u, b, v, c, w, S)
  PROVE  Combined(z, a, u, b, v, c, w, S)
<1>1. PICK U : Additive(n, u, U)
  BY AdditiveExists DEF Ints
<1>2. PICK V : Additive(n, v, V)
  BY AdditiveExists DEF Ints
<1>3. PICK W : Additive(n, w, W)
  BY AdditiveExists DEF Ints
<1>4. PICK T : T = [s \in SUBSET (1..n) |-> a * U[s] + b * V[s] + c * W[s]]
  OBVIOUS
<1>5. PICK y : y = [x \in 1..n |-> a * u[x] + b * v[x] + c * w[x]]
  OBVIOUS
<1>6. ASSUME NEW s \in SUBSET (1..n)
      PROVE  T[s] \in Int /\ \A x \in s : T[s] = y[x] + T[s \ {x}]
  <2>1. U[s] \in Int /\ V[s] \in Int /\ W[s] \in Int
    BY <1>1, <1>2, <1>3 DEF Additive
  <2>2. T[s] \in Int
    BY <1>4, <2>1
  <2>3. ASSUME NEW x \in s PROVE T[s] = y[x] + T[s \ {x}]
    <3>1. s \ {x} \in SUBSET (1..n) /\ x \in 1..n
      OBVIOUS
    <3>2. PICK p, q, r : p = U[s \ {x}] /\ q = V[s \ {x}] /\ r = W[s \ {x}]
      OBVIOUS
    <3>3. PICK d, e, f : d = u[x] /\ e = v[x] /\ f = w[x]
      OBVIOUS
    <3>4. p \in Int /\ q \in Int /\ r \in Int
      BY <1>1, <1>2, <1>3, <3>1, <3>2 DEF Additive
    <3>5. d \in Int /\ e \in Int /\ f \in Int
      BY <3>1, <3>3 DEF Ints
    <3>6. U[s] = d + p /\ V[s] = e + q /\ W[s] = f + r
      BY <1>1, <1>2, <1>3, <3>2, <3>3 DEF Additive
    <3>7. T[s] = a * (d + p) + b * (e + q) + c * (f + r)
      BY <1>4, <3>6
    <3>8. T[s \ {x}] = a * p + b * q + c * r
      BY <1>4, <3>1, <3>2
    <3>9. y[x] = a * d + b * e + c * f
      BY <1>5, <3>1, <3>3
    <3>10. a * (d + p) + b * (e + q) + c * (f + r) = (a * d + b * e + c * f) + (a * p + b * q + c * r)
      BY <3>4, <3>5, Distributes
    <3> QED BY <3>7, <3>8, <3>9, <3>10
  <2> QED BY <2>2, <2>3
<1>7. T[{}] = 0
  BY <1>1, <1>2, <1>3, <1>4 DEF Additive
<1>8. Additive(n, y, T)
  BY <1>6, <1>7 DEF Additive
<1>9. S \in SUBSET (1..n)
  OBVIOUS
<1>10. ASSUME NEW x \in S PROVE y[x] = z[x] /\ y[x] \in Int
  <2>1. u[x] \in Int /\ v[x] \in Int /\ w[x] \in Int
    BY DEF Ints
  <2>2. y[x] = a * u[x] + b * v[x] + c * w[x]
    BY <1>5
  <2> QED BY <2>1, <2>2 DEF Combines
<1>11. Sum(z, S) = T[S]
  BY <1>8, <1>9, <1>10, SumIs
<1>12. Sum(u, S) = U[S]
  BY <1>1, <1>9, SumIs DEF Ints
<1>13. Sum(v, S) = V[S]
  BY <1>2, <1>9, SumIs DEF Ints
<1>14. Sum(w, S) = W[S]
  BY <1>3, <1>9, SumIs DEF Ints
<1> QED BY <1>4, <1>9, <1>11, <1>12, <1>13, <1>14 DEF Combined

\* A cardinality is a sum.
LEMMA PositionsFinite ==
  ASSUME NEW n \in Nat, NEW s \in SUBSET (1..n)
  PROVE  IsFiniteSet(s) /\ Cardinality(s) \in Nat
<1>1. IsFiniteSet(1..n)
  BY FS_Interval
<1>2. IsFiniteSet(s)
  BY <1>1, FS_Subset
<1> QED BY <1>2, FS_CardinalityType

Ones(one, n) == \A x \in 1..n : one[x] = 1

LEMMA SumCounts ==
  ASSUME NEW n \in Nat, NEW S \in SUBSET (1..n), NEW one, Ones(one, n)
  PROVE  Cardinality(S) \in Nat /\ Sum(one, S) = Cardinality(S)
<1>1. ASSUME NEW s \in SUBSET (1..n) PROVE IsFiniteSet(s) /\ Cardinality(s) \in Nat
  BY PositionsFinite
<1>2. PICK T : T = [s \in SUBSET (1..n) |-> Cardinality(s)]
  OBVIOUS
<1>3. T[{}] = 0
  BY <1>2, FS_EmptySet
<1>4. ASSUME NEW s \in SUBSET (1..n)
      PROVE  T[s] \in Int /\ \A x \in s : T[s] = one[x] + T[s \ {x}]
  <2>1. T[s] \in Int
    BY <1>1, <1>2
  <2>2. ASSUME NEW x \in s PROVE T[s] = one[x] + T[s \ {x}]
    <3>1. s \ {x} \in SUBSET (1..n) /\ one[x] = 1
      BY DEF Ones
    <3>2. Cardinality(s \ {x}) = Cardinality(s) - 1
      BY <1>1, FS_RemoveElement
    <3> QED BY <1>1, <1>2, <3>1, <3>2
  <2> QED BY <2>1, <2>2
<1>5. Additive(n, one, T)
  BY <1>3, <1>4 DEF Additive
<1>6. S \in SUBSET (1..n) /\ \A x \in S : one[x] = one[x] /\ one[x] \in Int
  BY DEF Ones
<1>7. Sum(one, S) = T[S]
  BY <1>5, <1>6, SumIs
<1> QED BY <1>1, <1>2, <1>6, <1>7

\* Numbers that are not negative and add up to zero are zero.
LEMMA SumZero ==
  ASSUME NEW n \in Nat, NEW v, \A x \in 1..n : v[x] \in Nat, NEW S \in SUBSET (1..n), Sum(v, S) = 0
  PROVE  \A x \in S : v[x] = 0
<1>1. PICK T : Additive(n, v, T)
  BY AdditiveExists
<1>2. ASSUME NEW s \in SUBSET (1..n) PROVE IsFiniteSet(s) /\ Cardinality(s) \in Nat /\ T[s] \in Int
  BY <1>1, PositionsFinite DEF Additive
<1> DEFINE B == {Cardinality(s) : s \in {u \in SUBSET (1..n) : T[u] < 0}}
<1>3. B = {}
  <2> SUFFICES ASSUME B # {} PROVE FALSE
    OBVIOUS
  <2>1. B \subseteq Nat
    BY <1>2
  <2>2. PICK c \in B : \A d \in B : c <= d
    BY <2>1, LeastOf
  <2>3. PICK s \in SUBSET (1..n) : T[s] < 0 /\ Cardinality(s) = c
    BY <2>2
  <2>4. PICK x \in s : TRUE
    <3>1. T[{}] = 0
      BY <1>1 DEF Additive
    <3>2. s # {}
      BY <2>3, <3>1
    <3> QED BY <3>2
  <2>5. s \ {x} \in SUBSET (1..n) /\ x \in 1..n
    OBVIOUS
  <2>6. T[s] = v[x] + T[s \ {x}] /\ T[s \ {x}] \in Int /\ v[x] \in Nat
    BY <1>1, <1>2, <2>5 DEF Additive
  <2>7. Cardinality(s \ {x}) \in B
    BY <1>2, <2>3, <2>5, <2>6
  <2>8. Cardinality(s \ {x}) = Cardinality(s) - 1
    BY <1>2, FS_RemoveElement
  <2>9. c \in Nat /\ c = Cardinality(s) /\ c <= Cardinality(s \ {x})
    BY <2>1, <2>2, <2>3, <2>7
  <2> HIDE DEF B
  <2> QED BY <2>8, <2>9
<1>4. S \in SUBSET (1..n) /\ \A x \in S : v[x] = v[x] /\ v[x] \in Int
  OBVIOUS
<1>5. T[S] = 0
  <2>1. Sum(v, S) = T[S]
    BY <1>1, <1>4, SumIs
  <2> QED BY <2>1
<1>6. ASSUME NEW x \in S PROVE v[x] = 0
  <2>1. S \ {x} \in SUBSET (1..n)
    OBVIOUS
  <2>2. T[S] = v[x] + T[S \ {x}] /\ T[S \ {x}] \in Int /\ v[x] \in Nat
    BY <1>1, <1>2, <1>4, <2>1 DEF Additive
  <2>3. ~(T[S \ {x}] < 0)
    BY <1>3, <2>1
  <2> QED BY <1>5, <2>2, <2>3
<1> QED BY <1>6

-----------------------------------------------------------------------------
(* The bandit's model: what it stands for, and how an answer changes it. *)

ArmStats == [count : Nat, average_reward : Int \X (Nat \ {0})]
IsArms(arms) == arms \in [DOMAIN arms -> ArmStats] /\ DOMAIN arms \subseteq ArmSet
IsBandit(m) ==
  /\ m = [c \in DOMAIN m |-> m[c]] /\ IsFiniteSet(DOMAIN m) /\ DOMAIN m \subseteq Contexts
  /\ \A c \in DOMAIN m : IsArms(m[c])

Has(m, c, arm) == c \in DOMAIN m /\ arm \in DOMAIN m[c]
Mean(s, n, total) == s.count = n /\ s.average_reward[1] * n = total * s.average_reward[2]
ArmStands(m, obs, c, arm) ==
  LET of == OfArm(obs, c, arm)
  IN  /\ Has(m, c, arm) <=> Cardinality(of) > 0
      /\ Has(m, c, arm) => Mean(m[c][arm], Cardinality(of), Sum(Rewarded(obs), of))

Answers == Contexts \X ArmSet \X Int
BanditStands(m, obs) ==
  /\ IsBandit(m) /\ obs \in Seq(Answers)
  /\ \A c \in Contexts : \A arm \in ArmSet : ArmStands(m, obs, c, arm)

\* The positions of an arm, and the sum of its rewards.
LEMMA ArmSums ==
  ASSUME NEW obs \in Seq(Answers), NEW c, NEW arm
  PROVE  /\ OfArm(obs, c, arm) \in SUBSET (1..Len(obs)) /\ Len(obs) \in Nat
         /\ Ints(Rewarded(obs), Len(obs))
         /\ Cardinality(OfArm(obs, c, arm)) \in Nat /\ Sum(Rewarded(obs), OfArm(obs, c, arm)) \in Int
         /\ Cardinality(OfArm(obs, c, arm)) = 0 => Sum(Rewarded(obs), OfArm(obs, c, arm)) = 0
<1>1. PICK of : of = OfArm(obs, c, arm)
  OBVIOUS
<1>2. of \in SUBSET (1..Len(obs)) /\ Len(obs) \in Nat
  BY <1>1 DEF OfArm
<1>3. Ints(Rewarded(obs), Len(obs))
  <2> SUFFICES ASSUME NEW k \in 1..Len(obs) PROVE Rewarded(obs)[k] \in Int
    BY DEF Ints
  <2>1. k \in DOMAIN obs /\ obs[k] \in Answers
    OBVIOUS
  <2> QED BY <2>1 DEF Rewarded, Answers
<1>4. IsFiniteSet(of) /\ Cardinality(of) \in Nat
  BY <1>2, PositionsFinite
<1>5. Cardinality(of) = 0 => of = {}
  BY <1>4, FS_EmptySet
<1>6. Sum(Rewarded(obs), of) \in Int /\ (of = {} => Sum(Rewarded(obs), of) = 0)
  BY <1>2, <1>3, SumOf
<1> QED BY <1>1, <1>2, <1>3, <1>4, <1>5, <1>6

\* One more observation adds to its own arm and to no other.
LEMMA ArmNext ==
  ASSUME NEW obs \in Seq(Answers), NEW o \in Answers, NEW c, NEW arm
  PROVE  LET all == Append(obs, o)
             n == Cardinality(OfArm(obs, c, arm))
             t == Sum(Rewarded(obs), OfArm(obs, c, arm))
         IN  /\ all \in Seq(Answers)
             /\ ~(o[1] = c /\ o[2] = arm) =>
                  Cardinality(OfArm(all, c, arm)) = n /\ Sum(Rewarded(all), OfArm(all, c, arm)) = t
             /\ o[1] = c /\ o[2] = arm =>
                  /\ Cardinality(OfArm(all, c, arm)) = n + 1
                  /\ Sum(Rewarded(all), OfArm(all, c, arm)) = t + o[3]
<1>1. PICK all, L, of : all = Append(obs, o) /\ L = Len(obs) /\ of = OfArm(obs, c, arm)
  OBVIOUS
<1>2. /\ all \in Seq(Answers) /\ Len(all) = L + 1 /\ L \in Nat /\ DOMAIN all = 1..(L + 1) /\ DOMAIN obs = 1..L
      /\ all[L + 1] = o /\ \A k \in 1..L : all[k] = obs[k]
  BY <1>1
<1>3. of \in SUBSET (1..L) /\ Ints(Rewarded(obs), L)
  BY <1>1, ArmSums
<1>4. Ints(Rewarded(all), L + 1)
  BY <1>2, ArmSums
<1>5. \A k \in of : Rewarded(obs)[k] = Rewarded(all)[k] /\ Rewarded(obs)[k] \in Int
  <2> SUFFICES ASSUME NEW k \in of PROVE Rewarded(obs)[k] = Rewarded(all)[k] /\ Rewarded(obs)[k] \in Int
    OBVIOUS
  <2>1. k \in 1..L /\ k \in 1..(L + 1)
    BY <1>2, <1>3
  <2> QED BY <1>2, <1>3, <2>1 DEF Rewarded, Ints
<1>6. Sum(Rewarded(obs), of) = Sum(Rewarded(all), of)
  BY <1>2, <1>3, <1>5, SumSame
<1>7. \A k : k \in OfArm(all, c, arm) <=> k \in of \/ (k = L + 1 /\ o[1] = c /\ o[2] = arm)
  <2>1. \A k : k \in OfArm(all, c, arm) <=> k \in 1..(L + 1) /\ all[k][1] = c /\ all[k][2] = arm
    BY <1>2 DEF OfArm
  <2>2. \A k : k \in of <=> k \in 1..L /\ obs[k][1] = c /\ obs[k][2] = arm
    BY <1>1, <1>2 DEF OfArm
  <2>3. \A k : k \in 1..(L + 1) <=> k \in 1..L \/ k = L + 1
    BY <1>2
  <2> QED BY <1>2, <2>1, <2>2, <2>3
<1>8. CASE ~(o[1] = c /\ o[2] = arm)
  <2>1. OfArm(all, c, arm) = of
    BY <1>7, <1>8
  <2> QED BY <1>1, <1>2, <1>6, <1>8, <2>1
<1>9. CASE o[1] = c /\ o[2] = arm
  <2>1. OfArm(all, c, arm) = of \cup {L + 1}
    BY <1>7, <1>9
  <2>2. Cardinality(of \cup {L + 1}) = Cardinality(of) + 1
    <3>1. IsFiniteSet(of)
      BY <1>2, <1>3, PositionsFinite
    <3>2. L + 1 \notin 1..L
      BY <1>2
    <3>3. L + 1 \notin of
      BY <1>3, <3>2
    <3> QED BY <3>1, <3>3, FS_AddElement
  <2>3. Sum(Rewarded(all), of \cup {L + 1}) = Sum(Rewarded(all), of) + Rewarded(all)[L + 1]
    BY <1>2, <1>3, <1>4, SumNext
  <2>4. Rewarded(all)[L + 1] = o[3]
    BY <1>2 DEF Rewarded
  <2> QED BY <1>1, <1>2, <1>6, <1>9, <2>1, <2>2, <2>3, <2>4
<1> QED BY <1>8, <1>9

\* The running average, as bandit.cpp computes it, of one reward more.
LEMMA MeanNext ==
  ASSUME NEW s \in ArmStats, NEW n \in Nat, NEW t \in Int, Mean(s, n, t), NEW r \in Int
  PROVE  LET avg == s.average_reward
             new == [count |-> s.count + 1,
                     average_reward |-> << avg[1] * s.count + r * avg[2], avg[2] * (s.count + 1) >>]
         IN  new \in ArmStats /\ Mean(new, n + 1, t + r)
<1>1. PICK a, b : s.average_reward = <<a, b>> /\ a \in Int /\ b \in Nat \ {0}
  BY DEF ArmStats
<1>2. s.count = n /\ a * n = t * b
  BY <1>1 DEF Mean
<1>3. a * n + r * b = (t + r) * b
  BY <1>1, <1>2
<1>4. ((t + r) * b) * (n + 1) = (t + r) * (b * (n + 1))
  BY <1>1
<1>5. a * n + r * b \in Int /\ b * (n + 1) \in Nat \ {0}
  <2>1. a * n + r * b \in Int
    BY <1>1
  <2>2. b * (n + 1) \in Int /\ b * (n + 1) > 0
    BY <1>1
  <2> QED BY <2>1, <2>2
<1>6. (a * n + r * b) * (n + 1) = (t + r) * (b * (n + 1))
  BY <1>3, <1>4
<1>7. PICK p, q : p = a * n + r * b /\ q = b * (n + 1)
  OBVIOUS
<1>8. PICK new : new = [count |-> n + 1, average_reward |-> <<p, q>>]
  OBVIOUS
<1>9. new \in ArmStats
  BY <1>5, <1>7, <1>8 DEF ArmStats
<1>10. Mean(new, n + 1, t + r)
  BY <1>6, <1>7, <1>8 DEF Mean
<1> QED BY <1>1, <1>2, <1>7, <1>8, <1>9, <1>10

IsAssigned(u, m, key, val) ==
  /\ DOMAIN u = DOMAIN m \cup {key} /\ u = [k \in DOMAIN u |-> u[k]]
  /\ u[key] = val
  /\ \A k \in DOMAIN m : k # key => u[k] = m[k]

LEMMA AssignedIs ==
  ASSUME NEW m, NEW key, NEW val
  PROVE  IsAssigned(Assigned(m, key, val), m, key, val)
BY DEF Assigned, IsAssigned

\* choose, for a context that has no entry yet.
LEMMA TouchStands ==
  ASSUME NEW m, NEW obs, BanditStands(m, obs), NEW c \in Contexts
  PROVE  /\ BanditStands(Touched(m, c), obs)
         /\ c \in DOMAIN Touched(m, c)
<1>1. CASE c \in DOMAIN m
  BY <1>1 DEF Touched
<1>2. CASE c \notin DOMAIN m
  <2>1. PICK a : a = Touched(m, c)
    OBVIOUS
  <2>2. /\ DOMAIN a = DOMAIN m \cup {c} /\ a = [k \in DOMAIN a |-> a[k]] /\ a[c] = <<>>
        /\ \A k \in DOMAIN m : a[k] = m[k]
    <3>1. a = Assigned(m, c, <<>>)
      BY <1>2, <2>1 DEF Touched
    <3>2. \A k \in DOMAIN m : k # c
      BY <1>2
    <3>3. /\ DOMAIN a = DOMAIN m \cup {c} /\ a = [k \in DOMAIN a |-> a[k]] /\ a[c] = <<>>
          /\ \A k \in DOMAIN m : k # c => a[k] = m[k]
      <4>1. IsAssigned(a, m, c, <<>>)
        BY <3>1, AssignedIs
      <4> QED BY <4>1 DEF IsAssigned
    <3> QED BY <3>2, <3>3, Zenon
  <2>3. IsBandit(a)
    <3>1. IsFiniteSet(DOMAIN a)
      BY <2>2, FS_AddElement DEF BanditStands, IsBandit
    <3>2. IsArms(<<>>)
      <4>1. DOMAIN <<>> = {}
        OBVIOUS
      <4>2. <<>> \in [DOMAIN <<>> -> ArmStats]
        OBVIOUS
      <4> QED BY <4>1, <4>2 DEF IsArms
    <3>3. \A k \in DOMAIN a : IsArms(a[k])
      BY <2>2, <3>2 DEF BanditStands, IsBandit
    <3> QED BY <2>2, <3>1, <3>3 DEF BanditStands, IsBandit
  <2>4. ASSUME NEW d \in Contexts, NEW arm \in ArmSet
        PROVE  ArmStands(a, obs, d, arm)
    <3>1. ArmStands(m, obs, d, arm)
      BY DEF BanditStands
    <3>2. Has(a, d, arm) <=> Has(m, d, arm)
      <4>1. DOMAIN <<>> = {}
        OBVIOUS
      <4> QED BY <1>2, <2>2, <4>1 DEF Has
    <3>3. Has(m, d, arm) => a[d][arm] = m[d][arm]
      BY <2>2 DEF Has
    <3> QED BY <3>1, <3>2, <3>3 DEF ArmStands
  <2> QED BY <2>1, <2>2, <2>3, <2>4 DEF BanditStands
<1> QED BY <1>1, <1>2

\* update: the model stands for one observation more.
LEMMA UpdateStands ==
  ASSUME NEW m, NEW obs, BanditStands(m, obs), NEW c \in Contexts, NEW arm \in ArmSet, NEW r \in Int
  PROVE  BanditStands(update(m, c, arm, r), Append(obs, <<c, arm, r>>))
<1>1. PICK t : t = Touched(m, c)
  OBVIOUS
<1>2. BanditStands(t, obs) /\ c \in DOMAIN t
  BY <1>1, TouchStands
<1>3. PICK s : s = IF arm \in DOMAIN t[c] THEN t[c][arm] ELSE NewArm
  OBVIOUS
<1>4. PICK new : new = [count |-> s.count + 1,
                        average_reward |-> << s.average_reward[1] * s.count + r * s.average_reward[2],
                                              s.average_reward[2] * (s.count + 1) >>]
  OBVIOUS
<1>5. PICK arms : arms = Assigned(t[c], arm, new)
  OBVIOUS
<1>6. PICK u : u = Assigned(m, c, arms)
  OBVIOUS
<1>7. update(m, c, arm, r) = u
  BY <1>1, <1>3, <1>4, <1>5, <1>6 DEF update
<1>8. PICK o, all : o = <<c, arm, r>> /\ all = Append(obs, o)
  OBVIOUS
<1>9. o \in Answers /\ obs \in Seq(Answers) /\ o[1] = c /\ o[2] = arm /\ o[3] = r
  BY <1>2, <1>8 DEF Answers, BanditStands
<1>10. PICK n, total : n = Cardinality(OfArm(obs, c, arm)) /\ total = Sum(Rewarded(obs), OfArm(obs, c, arm))
  OBVIOUS
<1>11. n \in Nat /\ total \in Int /\ (n = 0 => total = 0)
  BY <1>9, <1>10, ArmSums
<1>12. s \in ArmStats /\ Mean(s, n, total)
  <2>1. ArmStands(t, obs, c, arm)
    BY <1>2 DEF BanditStands
  <2>2. CASE arm \in DOMAIN t[c]
    <3>1. Has(t, c, arm)
      BY <1>2, <2>2 DEF Has
    <3>2. t[c][arm] \in ArmStats
      BY <1>2, <2>2 DEF BanditStands, IsBandit, IsArms
    <3> QED BY <1>3, <1>10, <2>1, <2>2, <3>1, <3>2 DEF ArmStands
  <2>3. CASE arm \notin DOMAIN t[c]
    <3>1. ~Has(t, c, arm)
      BY <2>3 DEF Has
    <3>2. n = 0 /\ total = 0
      BY <1>10, <1>11, <2>1, <3>1 DEF ArmStands
    <3> QED BY <1>3, <2>3, <3>2 DEF NewArm, ArmStats, Mean
  <2> QED BY <2>2, <2>3
<1>13. new \in ArmStats /\ Mean(new, n + 1, total + r)
  BY <1>4, <1>11, <1>12, MeanNext
<1>14. /\ DOMAIN arms = DOMAIN t[c] \cup {arm} /\ arms = [k \in DOMAIN arms |-> arms[k]] /\ arms[arm] = new
       /\ \A k \in DOMAIN t[c] : k # arm => arms[k] = t[c][k]
  <2>1. IsAssigned(arms, t[c], arm, new)
    BY <1>5, AssignedIs
  <2> QED BY <2>1 DEF IsAssigned
<1>15. /\ DOMAIN u = DOMAIN m \cup {c} /\ u = [k \in DOMAIN u |-> u[k]] /\ u[c] = arms
       /\ \A k \in DOMAIN m : k # c => u[k] = m[k]
  <2>1. IsAssigned(u, m, c, arms)
    BY <1>6, AssignedIs
  <2> QED BY <2>1 DEF IsAssigned
<1>16. IsBandit(u)
  <2>1. IsArms(t[c])
    BY <1>2 DEF BanditStands, IsBandit
  <2>2. \A k \in DOMAIN arms : arms[k] \in ArmStats
    BY <1>13, <1>14, <2>1 DEF IsArms
  <2>3. IsArms(arms)
    <3>1. arms \in [DOMAIN arms -> ArmStats]
      BY <1>14, <2>2
    <3>2. DOMAIN arms \subseteq ArmSet
      BY <1>14, <2>1 DEF IsArms
    <3> QED BY <3>1, <3>2 DEF IsArms
  <2>4. IsFiniteSet(DOMAIN u)
    BY <1>15, FS_AddElement DEF BanditStands, IsBandit
  <2>5. \A k \in DOMAIN u : IsArms(u[k])
    BY <1>15, <2>3 DEF BanditStands, IsBandit
  <2> QED BY <1>15, <2>4, <2>5 DEF BanditStands, IsBandit
<1>17. all \in Seq(Answers)
  BY <1>8, <1>9, ArmNext
<1>18. ASSUME NEW d \in Contexts, NEW x \in ArmSet
       PROVE  ArmStands(u, all, d, x)
  <2>1. CASE d = c /\ x = arm
    <3>1. Cardinality(OfArm(all, d, x)) = n + 1 /\ Sum(Rewarded(all), OfArm(all, d, x)) = total + r
      BY <1>8, <1>9, <1>10, <2>1, ArmNext
    <3>2. Has(u, d, x) /\ u[d][x] = new
      BY <1>14, <1>15, <2>1 DEF Has
    <3>3. n + 1 > 0
      BY <1>11
    <3> QED BY <1>13, <3>1, <3>2, <3>3 DEF ArmStands
  <2>2. CASE ~(d = c /\ x = arm)
    <3>1. /\ Cardinality(OfArm(all, d, x)) = Cardinality(OfArm(obs, d, x))
          /\ Sum(Rewarded(all), OfArm(all, d, x)) = Sum(Rewarded(obs), OfArm(obs, d, x))
      BY <1>8, <1>9, <2>2, ArmNext
    <3>2. ArmStands(t, obs, d, x)
      BY <1>2 DEF BanditStands
    <3>3. (Has(u, d, x) <=> Has(t, d, x)) /\ (Has(t, d, x) => u[d][x] = t[d][x])
      <4>1. CASE d = c
        BY <1>2, <1>14, <1>15, <2>2, <4>1 DEF Has
      <4>2. CASE d # c
        <5>1. (d \in DOMAIN u <=> d \in DOMAIN m) /\ (d \in DOMAIN m => u[d] = m[d])
          BY <1>15, <4>2
        <5>2. (d \in DOMAIN t <=> d \in DOMAIN m) /\ (d \in DOMAIN m => t[d] = m[d])
          <6>1. CASE c \in DOMAIN m
            BY <1>1, <6>1 DEF Touched
          <6>2. CASE c \notin DOMAIN m
            <7>1. t = Assigned(m, c, <<>>)
              BY <1>1, <6>2 DEF Touched
            <7>2. DOMAIN t = DOMAIN m \cup {c} /\ \A k \in DOMAIN m : k # c => t[k] = m[k]
              <8>1. IsAssigned(t, m, c, <<>>)
                BY <7>1, AssignedIs
              <8> QED BY <8>1 DEF IsAssigned
            <7> QED BY <4>2, <7>2
          <6> QED BY <6>1, <6>2
        <5> QED BY <5>1, <5>2 DEF Has
      <4> QED BY <4>1, <4>2
    <3> QED BY <3>1, <3>2, <3>3 DEF ArmStands
  <2> QED BY <2>1, <2>2
<1> QED BY <1>7, <1>8, <1>16, <1>17, <1>18 DEF BanditStands

LEMMA Cancels ==
  ASSUME NEW x \in Int, NEW y \in Int, NEW z \in Nat \ {0}, x * z <= y * z
  PROVE  x <= y
<1> SUFFICES ASSUME y + 1 <= x PROVE FALSE
  OBVIOUS
<1>1. PICK d \in Nat \ {0} : x = y + d
  <2>1. x - y \in Nat \ {0} /\ x = y + (x - y)
    OBVIOUS
  <2> QED BY <2>1
<1>2. x * z = y * z + d * z
  BY <1>1
<1>3. d * z > 0 /\ d * z \in Int /\ y * z \in Int
  BY <1>1
<1> QED BY <1>2, <1>3

LEMMA Scales ==
  ASSUME NEW x \in Int, NEW y \in Int, NEW z \in Nat, x <= y
  PROVE  x * z <= y * z
<1>1. PICK d \in Nat : y = x + d
  <2>1. y - x \in Nat /\ y = x + (y - x)
    OBVIOUS
  <2> QED BY <2>1
<1>2. y * z = x * z + d * z
  BY <1>1
<1>3. d * z >= 0 /\ d * z \in Int /\ x * z \in Int
  BY <1>1
<1> QED BY <1>2, <1>3

\* Means compare as the averages that are their fractions.
LEMMA MeansCompare ==
  ASSUME NEW a \in Int, NEW b \in Nat \ {0}, NEW k \in Nat, NEW u \in Int, a * k = u * b,
         NEW p \in Int, NEW q \in Nat \ {0}, NEW n \in Nat, NEW t \in Int, p * n = t * q,
         a * q <= p * b
  PROVE  u * n <= t * k
<1>1. PICK z, w : z = b * q /\ w = k * n
  OBVIOUS
<1>2. z \in Nat \ {0} /\ w \in Nat
  <2>1. b * q \in Int /\ b * q > 0
    OBVIOUS
  <2>2. k * n \in Nat
    OBVIOUS
  <2> QED BY <1>1, <2>1, <2>2
<1>3. (a * q) * w <= (p * b) * w
  <2>1. a * q \in Int /\ p * b \in Int
    OBVIOUS
  <2> QED BY <1>2, <2>1, Scales
<1>4. (a * q) * w = (u * n) * z
  <2>1. (a * q) * (k * n) = (a * k) * (q * n)
    OBVIOUS
  <2>2. (u * b) * (q * n) = (u * n) * (b * q)
    OBVIOUS
  <2> QED BY <1>1, <2>1, <2>2
<1>5. (p * b) * w = (t * k) * z
  <2>1. (p * b) * (k * n) = (p * n) * (b * k)
    OBVIOUS
  <2>2. (t * q) * (b * k) = (t * k) * (b * q)
    OBVIOUS
  <2> QED BY <1>1, <2>1, <2>2
<1>6. u * n \in Int /\ t * k \in Int
  OBVIOUS
<1> QED BY <1>2, <1>3, <1>4, <1>5, <1>6, Cancels

\* What choose exploits has the best mean of the observations.
LEMMA BestIsBest ==
  ASSUME NEW m, NEW obs, BanditStands(m, obs), NEW c \in Contexts, NEW i \in Best(m, c), NEW arm \in ArmSet
  PROVE  LET N(x) == Cardinality(OfArm(obs, c, x))
             T(x) == Sum(Rewarded(obs), OfArm(obs, c, x))
         IN  Arms[i] \in ArmSet /\ N(Arms[i]) > 0 /\ T(arm) * N(Arms[i]) <= T(Arms[i]) * N(arm)
<1> DEFINE N(x) == Cardinality(OfArm(obs, c, x))
           T(x) == Sum(Rewarded(obs), OfArm(obs, c, x))
<1>1. PICK j \in DOMAIN Arms : Arms[j] = arm
  BY DEF ArmSet
<1>2. PICK x : x = Arms[i]
  OBVIOUS
<1>3. /\ x \in ArmSet /\ Has(m, c, x)
      /\ Has(m, c, arm) /\ m[c][arm].count > 0 => ~Greater(m[c][arm].average_reward, m[c][x].average_reward)
  BY <1>1, <1>2 DEF Best, Has, ArmSet
<1>4. ArmStands(m, obs, c, x) /\ ArmStands(m, obs, c, arm) /\ obs \in Seq(Answers)
  BY <1>3 DEF BanditStands
<1>5. N(x) \in Nat /\ T(x) \in Int /\ N(arm) \in Nat /\ T(arm) \in Int /\ (N(arm) = 0 => T(arm) = 0)
  BY <1>4, ArmSums
<1>6. ASSUME NEW y \in ArmSet, Has(m, c, y) PROVE m[c][y] \in ArmStats
  BY <1>6 DEF BanditStands, IsBandit, IsArms, Has
<1>7. N(x) > 0 /\ Mean(m[c][x], N(x), T(x))
  BY <1>3, <1>4 DEF ArmStands
<1>8. Has(m, c, arm) => N(arm) > 0 /\ Mean(m[c][arm], N(arm), T(arm))
  BY <1>4 DEF ArmStands
<1>9. ~Has(m, c, arm) => N(arm) = 0
  BY <1>4, <1>5 DEF ArmStands
<1>10. PICK n, t, k, u : n = N(x) /\ t = T(x) /\ k = N(arm) /\ u = T(arm)
  OBVIOUS
<1> HIDE DEF N, T
<1>11. u * n <= t * k
  <2>1. CASE ~Has(m, c, arm)
    <3>1. k = 0 /\ u = 0
      BY <1>5, <1>9, <1>10, <2>1
    <3> QED BY <1>5, <1>10, <3>1
  <2>2. CASE Has(m, c, arm)
    <3>1. PICK p, q : m[c][x].average_reward = <<p, q>> /\ p \in Int /\ q \in Nat \ {0}
      BY <1>3, <1>6 DEF ArmStats
    <3>2. PICK a, b : m[c][arm].average_reward = <<a, b>> /\ a \in Int /\ b \in Nat \ {0}
      BY <1>6, <2>2 DEF ArmStats
    <3>3. p * n = t * q /\ n \in Nat /\ t \in Int
      BY <1>5, <1>7, <1>10, <3>1 DEF Mean
    <3>4. a * k = u * b /\ k \in Nat /\ u \in Int /\ m[c][arm].count > 0
      BY <1>5, <1>8, <1>10, <2>2, <3>2 DEF Mean
    <3>5. ~(a * q > p * b)
      BY <1>3, <2>2, <3>1, <3>2, <3>4 DEF Greater
    <3>6. a * q <= p * b
      <4>1. a * q \in Int /\ p * b \in Int
        BY <3>1, <3>2
      <4> QED BY <3>5, <4>1
    <3> QED BY <3>1, <3>2, <3>3, <3>4, <3>6, MeansCompare
  <2> QED BY <2>1, <2>2
<1> QED BY <1>2, <1>3, <1>7, <1>10, <1>11 DEF N, T

-----------------------------------------------------------------------------
(* The calibration's model: per operator kind, the sums of its observations. *)

Kinds == UNION {{run[k][1] : k \in DOMAIN run} : run \in Runs}
Nodes == Kinds \X Int \X Int
Fit == [n : Nat, sum_x : Int, sum_y : Int, sum_xx : Int, sum_xy : Int]
IsFits(m) ==
  /\ m = [kind \in DOMAIN m |-> m[kind]] /\ IsFiniteSet(DOMAIN m) /\ DOMAIN m \subseteq Kinds
  /\ \A kind \in DOMAIN m : m[kind] \in Fit

Costs(obs)    == [k \in DOMAIN obs |-> obs[k][2]]
Times(obs)    == [k \in DOMAIN obs |-> obs[k][3]]
Squares(obs)  == [k \in DOMAIN obs |-> obs[k][2] * obs[k][2]]
Products(obs) == [k \in DOMAIN obs |-> obs[k][2] * obs[k][3]]
FitOf(obs, S) ==
  [n |-> Cardinality(S), sum_x |-> Sum(Costs(obs), S), sum_y |-> Sum(Times(obs), S),
   sum_xx |-> Sum(Squares(obs), S), sum_xy |-> Sum(Products(obs), S)]

FitStands(m, obs, kind) ==
  /\ kind \in DOMAIN m => m[kind] = FitOf(obs, OfKind(obs, kind))
  /\ kind \notin DOMAIN m => OfKind(obs, kind) = {}
FitsStand(m, obs) ==
  /\ IsFits(m) /\ obs \in Seq(Nodes)
  /\ \A kind \in Kinds : FitStands(m, obs, kind)

LEMMA NodeColumns ==
  ASSUME NEW obs \in Seq(Nodes)
  PROVE  /\ Len(obs) \in Nat /\ DOMAIN obs = 1..Len(obs)
         /\ Ints(Costs(obs), Len(obs)) /\ Ints(Times(obs), Len(obs))
         /\ Ints(Squares(obs), Len(obs)) /\ Ints(Products(obs), Len(obs))
         /\ \A k \in 1..Len(obs) : obs[k][2] \in Int /\ obs[k][3] \in Int
<1>1. Len(obs) \in Nat /\ DOMAIN obs = 1..Len(obs)
  OBVIOUS
<1>2. \A k \in 1..Len(obs) : obs[k][2] \in Int /\ obs[k][3] \in Int
  <2> SUFFICES ASSUME NEW k \in 1..Len(obs) PROVE obs[k][2] \in Int /\ obs[k][3] \in Int
    OBVIOUS
  <2>1. obs[k] \in Nodes
    OBVIOUS
  <2> QED BY <2>1 DEF Nodes
<1>3. Ints(Costs(obs), Len(obs)) /\ Ints(Times(obs), Len(obs))
  BY <1>1, <1>2 DEF Ints, Costs, Times
<1>4. Ints(Squares(obs), Len(obs)) /\ Ints(Products(obs), Len(obs))
  <2> SUFFICES ASSUME NEW k \in 1..Len(obs) PROVE Squares(obs)[k] \in Int /\ Products(obs)[k] \in Int
    BY DEF Ints
  <2>1. PICK x, y : x = obs[k][2] /\ y = obs[k][3] /\ x \in Int /\ y \in Int
    BY <1>2
  <2>2. x * x \in Int /\ x * y \in Int
    BY <2>1
  <2> QED BY <1>1, <2>1, <2>2 DEF Squares, Products
<1> QED BY <1>1, <1>2, <1>3, <1>4

\* A column with one more number, and its sums.
Longer(v, w, L, x) == Ints(w, L + 1) /\ w[L + 1] = x /\ \A k \in 1..L : v[k] = w[k]

Adds(v, w, L, x, S) ==
  Sum(w, S) = Sum(v, S) /\ Sum(w, S \cup {L + 1}) = Sum(v, S) + x /\ Sum(v, S) \in Int

LEMMA SumLonger ==
  ASSUME NEW L \in Nat, NEW v, NEW w, NEW x, Longer(v, w, L, x), NEW S \in SUBSET (1..L)
  PROVE  Adds(v, w, L, x, S)
<1>1. Ints(w, L) /\ Ints(w, L + 1)
  <2>1. \A k \in 1..L : k \in 1..(L + 1)
    OBVIOUS
  <2> QED BY <2>1 DEF Ints, Longer
<1>2. \A k \in S : v[k] = w[k] /\ v[k] \in Int
  BY <1>1 DEF Ints, Longer
<1>3. Sum(v, S) = Sum(w, S)
  BY <1>2, SumSame
<1>4. Sum(w, S \cup {L + 1}) = Sum(w, S) + w[L + 1]
  BY <1>1, SumNext
<1>5. Sum(w, S) \in Int
  BY <1>1, SumOf
<1> QED BY <1>3, <1>4, <1>5 DEF Longer, Adds

OneMore(obs, o, all, L) ==
  /\ all \in Seq(Nodes) /\ L \in Nat /\ DOMAIN obs = 1..L /\ DOMAIN all = 1..(L + 1) /\ all[L + 1] = o
  /\ \A k \in 1..L : all[k] = obs[k]
  /\ Longer(Costs(obs), Costs(all), L, o[2]) /\ Longer(Times(obs), Times(all), L, o[3])
  /\ Longer(Squares(obs), Squares(all), L, o[2] * o[2])
  /\ Longer(Products(obs), Products(all), L, o[2] * o[3])

LEMMA ColumnsNext ==
  ASSUME NEW obs \in Seq(Nodes), NEW o \in Nodes, NEW all, all = Append(obs, o), NEW L, L = Len(obs)
  PROVE  OneMore(obs, o, all, L)
<1>1. /\ all \in Seq(Nodes) /\ L \in Nat /\ DOMAIN obs = 1..L /\ DOMAIN all = 1..(L + 1) /\ all[L + 1] = o
      /\ Len(all) = L + 1
      /\ \A k \in 1..L : all[k] = obs[k]
  OBVIOUS
<1>2. /\ Ints(Costs(all), L + 1) /\ Ints(Times(all), L + 1)
      /\ Ints(Squares(all), L + 1) /\ Ints(Products(all), L + 1)
  BY <1>1, NodeColumns
<1>3. L + 1 \in 1..(L + 1) /\ \A k \in 1..L : k \in 1..(L + 1)
  BY <1>1
<1>4. Longer(Costs(obs), Costs(all), L, o[2]) /\ Longer(Times(obs), Times(all), L, o[3])
  BY <1>1, <1>2, <1>3 DEF Longer, Costs, Times
<1>5. Longer(Squares(obs), Squares(all), L, o[2] * o[2])
  BY <1>1, <1>2, <1>3 DEF Longer, Squares
<1>6. Longer(Products(obs), Products(all), L, o[2] * o[3])
  BY <1>1, <1>2, <1>3 DEF Longer, Products
<1> QED BY <1>1, <1>4, <1>5, <1>6 DEF OneMore

\* record_observation: the model stands for one observation more.
LEMMA RecordStands ==
  ASSUME NEW m, NEW obs, FitsStand(m, obs), NEW o \in Nodes
  PROVE  FitsStand(record_observation(m, o[1], o[2], o[3]), Append(obs, o))
<1>1. PICK all, L, key : all = Append(obs, o) /\ L = Len(obs) /\ key = o[1]
  OBVIOUS
<1>2. PICK x, y : x = o[2] /\ y = o[3]
  OBVIOUS
<1>3. key \in Kinds /\ x \in Int /\ y \in Int /\ x * x \in Int /\ x * y \in Int
  <2>1. key \in Kinds /\ x \in Int /\ y \in Int
    BY <1>1, <1>2 DEF Nodes
  <2>2. x * x \in Int /\ x * y \in Int
    BY <2>1
  <2> QED BY <2>1, <2>2
<1>4. obs \in Seq(Nodes)
  BY DEF FitsStand
<1>5. /\ all \in Seq(Nodes) /\ L \in Nat /\ DOMAIN obs = 1..L /\ DOMAIN all = 1..(L + 1) /\ all[L + 1] = o
      /\ \A k \in 1..L : all[k] = obs[k]
      /\ Longer(Costs(obs), Costs(all), L, x) /\ Longer(Times(obs), Times(all), L, y)
      /\ Longer(Squares(obs), Squares(all), L, x * x)
      /\ Longer(Products(obs), Products(all), L, x * y)
  <2>1. OneMore(obs, o, all, L)
    BY <1>1, <1>4, ColumnsNext
  <2> QED BY <1>2, <2>1 DEF OneMore
<1>6. PICK f : f = IF key \in DOMAIN m THEN m[key] ELSE NewFit
  OBVIOUS
<1>7. PICK new : new = [n |-> f.n + 1, sum_x |-> f.sum_x + x, sum_y |-> f.sum_y + y,
                        sum_xx |-> f.sum_xx + x * x, sum_xy |-> f.sum_xy + x * y]
  OBVIOUS
<1>8. PICK u : u = Assigned(m, key, new)
  OBVIOUS
<1>9. record_observation(m, o[1], o[2], o[3]) = u
  BY <1>1, <1>2, <1>6, <1>7, <1>8 DEF record_observation
<1>10. /\ DOMAIN u = DOMAIN m \cup {key} /\ u = [k \in DOMAIN u |-> u[k]] /\ u[key] = new
       /\ \A k \in DOMAIN m : k # key => u[k] = m[k]
  <2>1. IsAssigned(u, m, key, new)
    BY <1>8, AssignedIs
  <2> QED BY <2>1 DEF IsAssigned
<1>11. ASSUME NEW kind
       PROVE  /\ OfKind(obs, kind) \in SUBSET (1..L)
              /\ OfKind(all, kind) = IF kind = key THEN OfKind(obs, kind) \cup {L + 1} ELSE OfKind(obs, kind)
  <2>1. \A k : k \in OfKind(all, kind) <=> k \in 1..(L + 1) /\ all[k][1] = kind
    BY <1>5 DEF OfKind
  <2>2. \A k : k \in OfKind(obs, kind) <=> k \in 1..L /\ obs[k][1] = kind
    BY <1>5 DEF OfKind
  <2>3. \A k : k \in 1..(L + 1) <=> k \in 1..L \/ k = L + 1
    BY <1>5
  <2>4. OfKind(obs, kind) \in SUBSET (1..L)
    BY <2>2
  <2>5. \A k : k \in OfKind(all, kind) <=> k \in OfKind(obs, kind) \/ (k = L + 1 /\ key = kind)
    BY <1>1, <1>5, <2>1, <2>2, <2>3
  <2>6. kind = key => OfKind(all, kind) = OfKind(obs, kind) \cup {L + 1}
    BY <2>5
  <2>7. kind # key => OfKind(all, kind) = OfKind(obs, kind)
    BY <2>5
  <2> QED BY <2>4, <2>6, <2>7
<1>12. PICK of : of = OfKind(obs, key)
  OBVIOUS
<1>13. of \in SUBSET (1..L) /\ OfKind(all, key) = of \cup {L + 1}
  BY <1>11, <1>12
<1>14. f = FitOf(obs, of)
  <2>1. FitStands(m, obs, key)
    BY <1>3 DEF FitsStand
  <2>2. CASE key \in DOMAIN m
    BY <1>6, <1>12, <2>1, <2>2 DEF FitStands
  <2>3. CASE key \notin DOMAIN m
    <3>1. of = {}
      BY <1>12, <2>1, <2>3 DEF FitStands
    <3>2. Cardinality({}) = 0
      BY FS_EmptySet
    <3>3. /\ Sum(Costs(obs), {}) = 0 /\ Sum(Times(obs), {}) = 0
          /\ Sum(Squares(obs), {}) = 0 /\ Sum(Products(obs), {}) = 0
      <4>1. {} \in SUBSET (1..L) /\ L = Len(obs) /\ L \in Nat
        BY <1>1, <1>5
      <4>2. /\ Ints(Costs(obs), L) /\ Ints(Times(obs), L) /\ Ints(Squares(obs), L) /\ Ints(Products(obs), L)
        BY <1>1, <1>4, NodeColumns
      <4> QED BY <4>1, <4>2, SumOf
    <3>4. f = NewFit
      BY <1>6, <2>3
    <3> QED BY <3>1, <3>2, <3>3, <3>4 DEF FitOf, NewFit
  <2> QED BY <2>2, <2>3
<1>15. new = FitOf(all, of \cup {L + 1}) /\ new \in Fit
  <2>0. L \in Nat /\ of \in SUBSET (1..L)
    BY <1>5, <1>13
  <2>1. Sum(Costs(all), of \cup {L + 1}) = Sum(Costs(obs), of) + x /\ Sum(Costs(obs), of) \in Int
    <3>1. Longer(Costs(obs), Costs(all), L, x)
      BY <1>5
    <3>2. Adds(Costs(obs), Costs(all), L, x, of)
      BY <2>0, <3>1, SumLonger
    <3> QED BY <3>2 DEF Adds
  <2>2. Sum(Times(all), of \cup {L + 1}) = Sum(Times(obs), of) + y /\ Sum(Times(obs), of) \in Int
    <3>1. Longer(Times(obs), Times(all), L, y)
      BY <1>5
    <3>2. Adds(Times(obs), Times(all), L, y, of)
      BY <2>0, <3>1, SumLonger
    <3> QED BY <3>2 DEF Adds
  <2>3. Sum(Squares(all), of \cup {L + 1}) = Sum(Squares(obs), of) + x * x /\ Sum(Squares(obs), of) \in Int
    <3>1. Longer(Squares(obs), Squares(all), L, x * x)
      BY <1>5
    <3>2. Adds(Squares(obs), Squares(all), L, x * x, of)
      BY <2>0, <3>1, SumLonger
    <3> QED BY <3>2 DEF Adds
  <2>4. Sum(Products(all), of \cup {L + 1}) = Sum(Products(obs), of) + x * y /\ Sum(Products(obs), of) \in Int
    <3>1. Longer(Products(obs), Products(all), L, x * y)
      BY <1>5
    <3>2. Adds(Products(obs), Products(all), L, x * y, of)
      BY <2>0, <3>1, SumLonger
    <3> QED BY <3>2 DEF Adds
  <2>5. Cardinality(of \cup {L + 1}) = Cardinality(of) + 1 /\ Cardinality(of) \in Nat
    <3>1. IsFiniteSet(of) /\ Cardinality(of) \in Nat
      BY <1>5, <1>13, PositionsFinite
    <3>2. L + 1 \notin 1..L
      BY <1>5
    <3>3. L + 1 \notin of
      BY <1>13, <3>2
    <3> QED BY <3>1, <3>3, FS_AddElement
  <2>6. PICK n, sx, sy, sxx, sxy : /\ n = Cardinality(of) /\ sx = Sum(Costs(obs), of) /\ sy = Sum(Times(obs), of)
                                   /\ sxx = Sum(Squares(obs), of) /\ sxy = Sum(Products(obs), of)
    OBVIOUS
  <2>7. PICK xx, xy : xx = x * x /\ xy = x * y
    OBVIOUS
  <2>8. new = [n |-> n + 1, sum_x |-> sx + x, sum_y |-> sy + y, sum_xx |-> sxx + xx, sum_xy |-> sxy + xy]
    BY <1>7, <1>14, <2>6, <2>7 DEF FitOf
  <2>9. new \in Fit
    BY <1>3, <2>1, <2>2, <2>3, <2>4, <2>5, <2>6, <2>7, <2>8 DEF Fit
  <2>10. FitOf(all, of \cup {L + 1}) = [n |-> n + 1, sum_x |-> sx + x, sum_y |-> sy + y, sum_xx |-> sxx + xx, sum_xy |-> sxy + xy]
    BY <2>1, <2>2, <2>3, <2>4, <2>5, <2>6, <2>7 DEF FitOf
  <2> QED BY <2>8, <2>9, <2>10
<1>16. IsFits(u)
  <2>1. IsFits(m)
    BY DEF FitsStand
  <2>2. IsFiniteSet(DOMAIN u)
    BY <1>10, <2>1, FS_AddElement DEF IsFits
  <2>3. \A k \in DOMAIN u : u[k] \in Fit
    BY <1>10, <1>15, <2>1 DEF IsFits
  <2>4. DOMAIN u \subseteq Kinds
    BY <1>3, <1>10, <2>1 DEF IsFits
  <2> QED BY <1>10, <2>2, <2>3, <2>4 DEF IsFits
<1>17. ASSUME NEW kind \in Kinds PROVE FitStands(u, all, kind)
  <2>1. CASE kind = key
    BY <1>10, <1>13, <1>15, <2>1 DEF FitStands
  <2>2. CASE kind # key
    <3>1. FitStands(m, obs, kind)
      BY DEF FitsStand
    <3>2. (kind \in DOMAIN u <=> kind \in DOMAIN m) /\ (kind \in DOMAIN m => u[kind] = m[kind])
      BY <1>10, <2>2
    <3>3. PICK S : S = OfKind(obs, kind) /\ S = OfKind(all, kind) /\ S \in SUBSET (1..L)
      BY <1>11, <2>2
    <3>4. /\ Sum(Costs(all), S) = Sum(Costs(obs), S) /\ Sum(Times(all), S) = Sum(Times(obs), S)
          /\ Sum(Squares(all), S) = Sum(Squares(obs), S) /\ Sum(Products(all), S) = Sum(Products(obs), S)
      <4>1. L \in Nat /\ S \in SUBSET (1..L)
        BY <1>5, <3>3
      <4>2. /\ Longer(Costs(obs), Costs(all), L, x) /\ Longer(Times(obs), Times(all), L, y)
            /\ Longer(Squares(obs), Squares(all), L, x * x) /\ Longer(Products(obs), Products(all), L, x * y)
        BY <1>5
      <4>3. /\ Adds(Costs(obs), Costs(all), L, x, S) /\ Adds(Times(obs), Times(all), L, y, S)
            /\ Adds(Squares(obs), Squares(all), L, x * x, S) /\ Adds(Products(obs), Products(all), L, x * y, S)
        BY <4>1, <4>2, SumLonger
      <4> QED BY <4>3 DEF Adds
    <3>5. FitOf(all, S) = FitOf(obs, S)
      BY <3>4 DEF FitOf
    <3> QED BY <3>1, <3>2, <3>3, <3>5 DEF FitStands
  <2> QED BY <2>1, <2>2
<1> QED BY <1>1, <1>5, <1>9, <1>16, <1>17 DEF FitsStand

\* record_plan_observations, which folds the nodes of a run, is a sequence of models.
Folds(h, m, run) == h[0] = m /\ \A i \in 1..Len(run) : h[i] = record_observation(h[i - 1], run[i][1], run[i][2], run[i][3])

LEMMA PlanFolds ==
  ASSUME NEW m, NEW run, Len(run) \in Nat
  PROVE  \E h : Folds(h, m, run) /\ record_plan_observations(m, run) = h[Len(run)]
<1> DEFINE n == Len(run)
           Step(b, i) == record_observation(b, run[i][1], run[i][2], run[i][3])
           F(h) == [i \in 0..n |-> IF i = 0 THEN m ELSE Step(h[i - 1], i)]
           P(j) == \E g : g[0] = m /\ \A i \in 1..j : g[i] = Step(g[i - 1], i)
           S == {j \in 0..n : ~P(j)}
<1>1. record_plan_observations(m, run) = (CHOOSE h : h = F(h))[n]
  BY DEF record_plan_observations
<1> HIDE DEF Step
<1>2. P(0)
  <2>1. PICK g : g = [i \in {0} |-> m]
    OBVIOUS
  <2>2. g[0] = m /\ \A i \in 1..0 : g[i] = Step(g[i - 1], i)
    BY <2>1
  <2> QED BY <2>2
<1>3. ASSUME NEW j \in Nat, P(j) PROVE P(j + 1)
  <2>1. PICK g : g[0] = m /\ \A i \in 1..j : g[i] = Step(g[i - 1], i)
    BY <1>3
  <2>2. PICK e : e = [i \in 0..(j + 1) |-> IF i = j + 1 THEN Step(g[j], j + 1) ELSE g[i]]
    OBVIOUS
  <2>3. e[0] = m
    BY <2>1, <2>2
  <2>4. ASSUME NEW i \in 1..(j + 1) PROVE e[i] = Step(e[i - 1], i)
    <3>1. i - 1 \in 0..(j + 1) /\ i - 1 # j + 1 /\ i \in 0..(j + 1)
      OBVIOUS
    <3>2. e[i - 1] = g[i - 1]
      BY <2>2, <3>1
    <3>3. CASE i = j + 1
      <4>1. e[i] = Step(g[j], i) /\ i - 1 = j
        BY <2>2, <3>1, <3>3
      <4> QED BY <3>2, <4>1
    <3>4. CASE i # j + 1
      <4>1. i \in 1..j /\ e[i] = g[i]
        BY <2>2, <3>1, <3>4
      <4> QED BY <2>1, <3>2, <4>1
    <3> QED BY <3>3, <3>4
  <2> QED BY <2>3, <2>4
<1>4. S \subseteq Nat
  OBVIOUS
<1>5. P(n)
  <2> HIDE DEF P
  <2>1. CASE S # {}
    <3>1. PICK j \in S : \A i \in S : j <= i
      BY <1>4, <2>1, LeastOf
    <3>2. j \in 1..n /\ ~P(j)
      BY <1>2, <3>1
    <3>3. j - 1 \in Nat /\ j - 1 \notin S /\ j - 1 + 1 = j /\ j - 1 \in 0..n
      BY <3>1, <3>2
    <3> QED BY <1>3, <3>2, <3>3
  <2>2. CASE S = {}
    BY <2>2
  <2> QED BY <2>1, <2>2
<1>6. PICK g : g[0] = m /\ \A i \in 1..n : g[i] = Step(g[i - 1], i)
  BY <1>5
<1>7. PICK f : f = [i \in 0..n |-> g[i]]
  OBVIOUS
<1>8. f = F(f)
  <2>1. ASSUME NEW i \in 0..n PROVE f[i] = IF i = 0 THEN m ELSE Step(f[i - 1], i)
    <3>1. CASE i = 0
      BY <1>6, <1>7, <3>1
    <3>2. CASE i # 0
      <4>1. i \in 1..n /\ i - 1 \in 0..n
        BY <3>2
      <4>2. f[i] = g[i] /\ f[i - 1] = g[i - 1]
        BY <1>7, <4>1
      <4> QED BY <1>6, <3>2, <4>1, <4>2
    <3> QED BY <3>1, <3>2
  <2> QED BY <1>7, <2>1
<1> HIDE DEF F
<1>9. PICK h : h = F(h) /\ h = CHOOSE x : x = F(x)
  BY <1>8, Zenon
<1>10. h = [i \in 0..n |-> IF i = 0 THEN m ELSE Step(h[i - 1], i)]
  BY <1>9 DEF F
<1>11. h[0] = m
  <2>1. 0 \in 0..n
    OBVIOUS
  <2> QED BY <1>10, <2>1
<1>12. ASSUME NEW i \in 1..n PROVE h[i] = Step(h[i - 1], i)
  <2>1. i \in 0..n /\ i # 0
    OBVIOUS
  <2> QED BY <1>10, <2>1
<1>13. Folds(h, m, run)
  BY <1>11, <1>12 DEF Folds, Step
<1>14. record_plan_observations(m, run) = h[n]
  BY <1>1, <1>9
<1> QED BY <1>13, <1>14

LEMMA RunNodes ==
  ASSUME NEW run \in Runs
  PROVE  run \in Seq(Nodes)
<1>1. run \in Seq(STRING \X Int \X Int)
  BY LearningAssumption
<1>2. ASSUME NEW k \in 1..Len(run) PROVE run[k] \in Nodes
  <2>1. run[k] \in STRING \X Int \X Int /\ k \in DOMAIN run
    BY <1>1
  <2>2. run[k][1] \in Kinds
    BY <2>1 DEF Kinds
  <2> QED BY <2>1, <2>2 DEF Nodes
<1>3. run = [k \in 1..Len(run) |-> run[k]] /\ Len(run) \in Nat
  BY <1>1
<1>4. \E n \in Nat : run \in [1..n -> Nodes]
  BY <1>2, <1>3
<1> QED BY <1>4, SeqDef

\* A run: the model stands for its nodes too.
LEMMA PlanStands ==
  ASSUME NEW m, NEW obs, FitsStand(m, obs), NEW run \in Runs
  PROVE  FitsStand(record_plan_observations(m, run), obs \o run)
<1>1. run \in Seq(Nodes) /\ obs \in Seq(Nodes)
  BY RunNodes DEF FitsStand
<1>2. PICK n, L, all : n = Len(run) /\ L = Len(obs) /\ all = obs \o run
  OBVIOUS
<1>3. /\ n \in Nat /\ L \in Nat /\ all \in Seq(Nodes) /\ Len(all) = L + n
      /\ \A i \in 1..n : all[L + i] = run[i] /\ run[i] \in Nodes
      /\ \A k \in 1..L : all[k] = obs[k]
  BY <1>1, <1>2
<1>4. PICK h : Folds(h, m, run) /\ record_plan_observations(m, run) = h[n]
  BY <1>2, <1>3, PlanFolds
<1> DEFINE Part(i) == [k \in 1..(L + i) |-> all[k]]
           S == {i \in 0..n : ~FitsStand(h[i], Part(i))}
<1>5. FitsStand(h[0], Part(0))
  <2>1. Part(0) = obs
    BY <1>1, <1>2, <1>3
  <2> QED BY <1>4, <2>1 DEF Folds
<1>6. ASSUME NEW i \in 1..n, FitsStand(h[i - 1], Part(i - 1)) PROVE FitsStand(h[i], Part(i))
  <2>1. PICK o, p : o = run[i] /\ p = Part(i - 1)
    OBVIOUS
  <2>2. o \in Nodes /\ o = all[L + i]
    BY <1>3, <2>1
  <2>3. FitsStand(record_observation(h[i - 1], o[1], o[2], o[3]), Append(p, o))
    BY <1>6, <2>1, <2>2, RecordStands
  <2>4. h[i] = record_observation(h[i - 1], o[1], o[2], o[3])
    BY <1>2, <1>4, <2>1 DEF Folds
  <2>5. Append(p, o) = Part(i)
    <3>1. L + (i - 1) \in Nat /\ L + (i - 1) + 1 = L + i /\ L + i \in Nat /\ L + i <= Len(all)
      BY <1>3
    <3>2. p \in Seq(Nodes) /\ Len(p) = L + (i - 1)
      <4>1. p \in Seq(Nodes)
        BY <1>6, <2>1 DEF FitsStand
      <4>2. DOMAIN p = 1..(L + (i - 1))
        BY <2>1
      <4> QED BY <3>1, <4>1, <4>2
    <3>3. PICK c : c = Append(p, o)
      OBVIOUS
    <3>4. c \in Seq(Nodes) /\ Len(c) = L + i
      BY <2>2, <3>1, <3>2, <3>3
    <3>5. ASSUME NEW k \in 1..(L + i) PROVE c[k] = all[k]
      <4>1. CASE k = L + i
        BY <2>2, <3>1, <3>2, <3>3, <4>1
      <4>2. CASE k # L + i
        <5>1. k \in 1..(L + (i - 1))
          BY <3>1, <4>2
        <5>2. c[k] = p[k]
          BY <3>2, <3>3, <5>1
        <5>3. p[k] = all[k]
          BY <2>1, <5>1
        <5> QED BY <5>2, <5>3
      <4> QED BY <4>1, <4>2
    <3>6. c = [k \in 1..(L + i) |-> c[k]]
      BY <3>4
    <3> QED BY <3>3, <3>5, <3>6
  <2> QED BY <2>3, <2>4, <2>5
<1>7. FitsStand(h[n], Part(n))
  <2>1. S \subseteq Nat
    OBVIOUS
  <2>2. CASE S # {}
    <3>1. PICK i \in S : \A j \in S : i <= j
      BY <2>1, <2>2, LeastOf
    <3>2. i \in 0..n /\ ~FitsStand(h[i], Part(i))
      BY <3>1
    <3> HIDE DEF Part
    <3>3. i \in 1..n
      BY <1>5, <3>2
    <3>4. i - 1 \notin S /\ i - 1 \in 0..n
      BY <1>3, <3>1, <3>3
    <3> QED BY <1>6, <3>2, <3>3, <3>4
  <2>3. CASE S = {}
    <3>1. n \in 0..n
      BY <1>3
    <3> HIDE DEF Part
    <3> QED BY <2>3, <3>1
  <2> QED BY <2>2, <2>3
<1>8. Part(n) = all
  BY <1>3
<1> QED BY <1>2, <1>4, <1>7, <1>8

-----------------------------------------------------------------------------
(* The line of a fit is the least-squares line of its observations. *)

LEMMA SquareZero ==
  ASSUME NEW d \in Int, d * d = 0
  PROVE  d = 0
OBVIOUS

LEMMA Associates ==
  ASSUME NEW a \in Int, NEW b \in Int, NEW c \in Int
  PROVE  a * (b * c) = (a * b) * c /\ a * b \in Int
OBVIOUS

SpreadIs(n, x, X, XX) ==
  /\ n * n \in Int /\ -(2 * n * X) \in Int /\ X * X \in Int /\ n * x \in Int /\ n * x - X \in Int
  /\ (n * x - X) * (n * x - X) = (n * n) * (x * x) + (-(2 * n * X)) * x + (X * X) * 1
  /\ (n * n) * XX + (-(2 * n * X)) * X + (X * X) * n = n * (n * XX - X * X)

LEMMA Spread ==
  ASSUME NEW n \in Int, NEW x \in Int, NEW X \in Int, NEW XX \in Int
  PROVE  SpreadIs(n, x, X, XX)
BY DEF SpreadIs

Agree(obs, S, n, X) == \A k \in S : n * obs[k][2] = X

\* When the spread of the costs is zero, each times their number is their sum.
LEMMA CostsAgree ==
  ASSUME NEW obs \in Seq(Nodes), NEW S \in SUBSET (1..Len(obs)),
         NEW n, NEW X, NEW XX, n = Cardinality(S), X = Sum(Costs(obs), S), XX = Sum(Squares(obs), S),
         n * XX - X * X = 0
  PROVE  Agree(obs, S, n, X)
<1>1. PICK L : L = Len(obs) /\ L \in Nat /\ DOMAIN obs = 1..L
  OBVIOUS
<1>2. Ints(Costs(obs), L) /\ Ints(Squares(obs), L) /\ \A k \in 1..L : obs[k][2] \in Int
  BY <1>1, NodeColumns
<1>3. PICK one : one = [k \in 1..L |-> 1]
  OBVIOUS
<1>4. Ints(one, L) /\ \A k \in 1..L : one[k] = 1
  BY <1>3 DEF Ints
<1>5. n \in Nat /\ Sum(one, S) = n
  <2>1. Ones(one, L) /\ S \in SUBSET (1..L) /\ L \in Nat
    BY <1>1, <1>4 DEF Ones
  <2>2. Cardinality(S) \in Nat /\ Sum(one, S) = Cardinality(S)
    BY <2>1, SumCounts
  <2> QED BY <2>2
<1>6. X \in Int /\ XX \in Int
  BY <1>1, <1>2, SumOf
<1>7. PICK v : v = [k \in 1..L |-> (n * obs[k][2] - X) * (n * obs[k][2] - X)]
  OBVIOUS
<1>8. ASSUME NEW k \in 1..L PROVE v[k] \in Nat
  <2>1. PICK d : d = n * obs[k][2] - X
    OBVIOUS
  <2>2. d \in Int
    <3>1. PICK x : x = obs[k][2] /\ x \in Int
      BY <1>2
    <3>2. n * x \in Int
      BY <1>5, <3>1
    <3> QED BY <1>6, <2>1, <3>1, <3>2
  <2>3. d * d \in Int /\ d * d >= 0
    BY <2>2
  <2> QED BY <1>7, <2>1, <2>3
<1>9. PICK a, b, c : a = n * n /\ b = -(2 * n * X) /\ c = X * X
  OBVIOUS
<1>10. a \in Int /\ b \in Int /\ c \in Int
  <2>1. n \in Int
    BY <1>5
  <2>2. SpreadIs(n, 0, X, XX)
    BY <1>6, <2>1, Spread
  <2> QED BY <1>9, <2>2 DEF SpreadIs
<1>11. ASSUME NEW k \in S PROVE v[k] = a * Squares(obs)[k] + b * Costs(obs)[k] + c * one[k]
  <2>1. k \in 1..L
    BY <1>1
  <2>2. PICK x : x = obs[k][2] /\ x \in Int
    BY <1>2, <2>1
  <2>3. Squares(obs)[k] = x * x /\ Costs(obs)[k] = x /\ one[k] = 1
    BY <1>1, <1>4, <2>1, <2>2 DEF Squares, Costs
  <2>4. (n * x - X) * (n * x - X) = (n * n) * (x * x) + (-(2 * n * X)) * x + (X * X) * 1
    <3>1. n \in Int
      BY <1>5
    <3>2. SpreadIs(n, x, X, XX)
      BY <1>6, <2>2, <3>1, Spread
    <3> QED BY <3>2 DEF SpreadIs
  <2> QED BY <1>7, <1>9, <2>1, <2>2, <2>3, <2>4
<1>12. Sum(v, S) = a * XX + b * X + c * n
  <2>1. S \in SUBSET (1..L)
    BY <1>1
  <2>2. Sum(v, S) = a * Sum(Squares(obs), S) + b * Sum(Costs(obs), S) + c * Sum(one, S)
    <3>1. Combines(v, a, Squares(obs), b, Costs(obs), c, one, S)
      BY <1>11 DEF Combines
    <3>2. Combined(v, a, Squares(obs), b, Costs(obs), c, one, S)
      BY <1>1, <1>2, <1>4, <1>10, <2>1, <3>1, SumLinear
    <3> QED BY <3>2 DEF Combined
  <2> QED BY <1>5, <2>2
<1>13. a * XX + b * X + c * n = n * (n * XX - X * X)
  <2>1. n \in Int
    BY <1>5
  <2>2. SpreadIs(n, 0, X, XX)
    BY <1>6, <2>1, Spread
  <2> QED BY <1>9, <2>2 DEF SpreadIs
<1>14. Sum(v, S) = 0
  BY <1>5, <1>12, <1>13
<1>15. \A k \in S : v[k] = 0
  BY <1>1, <1>8, <1>14, SumZero
<1>16. ASSUME NEW k \in S PROVE n * obs[k][2] = X
  <2>1. k \in 1..L
    BY <1>1
  <2>2. PICK x : x = obs[k][2] /\ x \in Int
    BY <1>2, <2>1
  <2>3. (n * x - X) * (n * x - X) = 0
    BY <1>7, <1>15, <2>1, <2>2
  <2>4. PICK d : d = n * x - X
    OBVIOUS
  <2>5. d \in Int /\ d * d = 0 /\ n * x \in Int
    <3>1. n \in Int
      BY <1>5
    <3>2. n * x \in Int /\ n * x - X \in Int
      <4>1. SpreadIs(n, x, X, XX)
        BY <1>6, <2>2, <3>1, Spread
      <4> QED BY <4>1 DEF SpreadIs
    <3> QED BY <2>3, <2>4, <3>2
  <2>6. d = 0
    BY <2>5, SquareZero
  <2> QED BY <1>6, <2>2, <2>4, <2>5, <2>6
<1> QED BY <1>16 DEF Agree

TermsOf(x, y, D, P, e, q) ==
  /\ y * D * e - P * x * e - q * D = (D * e) * y + (-(P * e)) * x + (-(q * D)) * 1
  /\ x * (y * D * e - P * x * e - q * D) = (D * e) * (x * y) + (-(P * e)) * (x * x) + (-(q * D)) * x

LEMMA ErrorTerms ==
  ASSUME NEW x \in Int, NEW y \in Int, NEW D \in Int, NEW P \in Int, NEW e \in Int, NEW q \in Int
  PROVE  TermsOf(x, y, D, P, e, q)
<1>1. y * D * e = (D * e) * y /\ P * x * e = (P * e) * x /\ y * D * e \in Int /\ P * x * e \in Int /\ q * D \in Int
  OBVIOUS
<1>2. (-(P * e)) * x = -((P * e) * x) /\ (-(q * D)) * 1 = -(q * D) /\ (-(q * D)) * x = -((q * D) * x)
  OBVIOUS
<1>3. (-(P * e)) * (x * x) = -((P * e) * (x * x))
  OBVIOUS
<1>4. x * (y * D * e - P * x * e - q * D) = x * (y * D * e) - x * (P * x * e) - x * (q * D)
  OBVIOUS
<1>5. /\ x * (y * D * e) = (D * e) * (x * y) /\ x * (P * x * e) = (P * e) * (x * x) /\ x * (q * D) = (q * D) * x
      /\ x * (y * D * e) \in Int /\ x * (P * x * e) \in Int /\ x * (q * D) \in Int
  OBVIOUS
<1>6. y * D * e - P * x * e - q * D = (D * e) * y + (-(P * e)) * x + (-(q * D)) * 1
  BY <1>1, <1>2
<1>7. x * (y * D * e - P * x * e - q * D) = (D * e) * (x * y) + (-(P * e)) * (x * x) + (-(q * D)) * x
  BY <1>2, <1>3, <1>4, <1>5
<1> QED BY <1>6, <1>7 DEF TermsOf

\* Two identities of the line, with D its denominator and P its numerator.
LEMMA LineResiduals ==
  ASSUME NEW n \in Int, NEW X \in Int, NEW Y \in Int, NEW XX \in Int, NEW XY \in Int,
         NEW D, NEW P, D = n * XX - X * X, P = n * XY - X * Y
  PROVE  /\ (D * (n * D)) * Y + (-(P * (n * D))) * X + (-((Y * D - P * X) * D)) * n = 0
         /\ (D * (n * D)) * XY + (-(P * (n * D))) * XX + (-((Y * D - P * X) * D)) * X = 0
<1>1. D \in Int /\ P \in Int
  OBVIOUS
<1>2. (D * (n * D)) * Y + (-(P * (n * D))) * X + (-((Y * D - P * X) * D)) * n = 0
  BY <1>1
<1>3. (D * (n * D)) * XY + (-(P * (n * D))) * XX + (-((Y * D - P * X) * D)) * X
        = D * (D * (n * XY - X * Y) - P * (n * XX - X * X))
  BY <1>1
<1>4. D * (D * P - P * D) = 0
  BY <1>1
<1> QED BY <1>2, <1>3, <1>4

LEMMA FitsAll ==
  ASSUME NEW obs \in Seq(Nodes), NEW S \in SUBSET (1..Len(obs)), NEW f, f = FitOf(obs, S), ~(Cardinality(S) < kMinSamples)
  PROVE  /\ Sum(Errors(f, obs), S) = 0
         /\ Sum([k \in DOMAIN Errors(f, obs) |-> obs[k][2] * Errors(f, obs)[k]], S) = 0
<1>1. PICK L : L = Len(obs) /\ L \in Nat /\ DOMAIN obs = 1..L /\ S \in SUBSET (1..L)
  OBVIOUS
<1>2. /\ Ints(Costs(obs), L) /\ Ints(Times(obs), L) /\ Ints(Squares(obs), L) /\ Ints(Products(obs), L)
      /\ \A k \in 1..L : obs[k][2] \in Int /\ obs[k][3] \in Int
  BY <1>1, NodeColumns
<1>3. PICK one : one = [k \in 1..L |-> 1]
  OBVIOUS
<1>4. Ints(one, L) /\ \A k \in 1..L : one[k] = 1
  BY <1>3 DEF Ints
<1>5. PICK n, X, Y, XX, XY : /\ n = f.n /\ X = f.sum_x /\ Y = f.sum_y /\ XX = f.sum_xx /\ XY = f.sum_xy
  OBVIOUS
<1>6. /\ n = Cardinality(S) /\ X = Sum(Costs(obs), S) /\ Y = Sum(Times(obs), S)
      /\ XX = Sum(Squares(obs), S) /\ XY = Sum(Products(obs), S)
  BY <1>5 DEF FitOf
<1>7. n \in Nat /\ Sum(one, S) = n
  <2>1. Ones(one, L) /\ S \in SUBSET (1..L) /\ L \in Nat
    BY <1>1, <1>4 DEF Ones
  <2>2. Cardinality(S) \in Nat /\ Sum(one, S) = Cardinality(S)
    BY <2>1, SumCounts
  <2> QED BY <1>6, <2>2
<1>8. X \in Int /\ Y \in Int /\ XX \in Int /\ XY \in Int
  BY <1>1, <1>2, <1>6, SumOf
<1>9. n >= 3 /\ ~(n < kMinSamples)
  BY <1>6, <1>7 DEF kMinSamples
<1>10. PICK D, P : D = n * XX - X * X /\ P = n * XY - X * Y
  OBVIOUS
<1>11. D \in Int /\ P \in Int
  BY <1>7, <1>8, <1>10
<1>12. PICK err : err = Errors(f, obs)
  OBVIOUS
<1>13. PICK wgt : wgt = [k \in DOMAIN err |-> obs[k][2] * err[k]]
  OBVIOUS
<1>14. CASE D = 0
  <2>1. scale(f) = <<0, 1>> /\ bias(f) = <<Y, n>>
    <3>1. f.n * f.sum_xx - f.sum_x * f.sum_x = 0 /\ f.n >= kMinSamples /\ ~(f.n < kMinSamples)
      BY <1>5, <1>7, <1>9, <1>10, <1>14 DEF kMinSamples
    <3>2. scale(f) = <<0, 1>>
      BY <3>1 DEF scale
    <3>3. bias(f) = <<f.sum_y, f.n>>
      BY <3>1 DEF bias
    <3> QED BY <1>5, <3>2, <3>3
  <2>2. DOMAIN err = 1..L
    BY <1>1, <1>12 DEF Errors
  <2>3. ASSUME NEW k \in 1..L
        PROVE  /\ err[k] = n * Times(obs)[k] + (-Y) * one[k] + 0 * one[k] /\ err[k] \in Int
               /\ wgt[k] = obs[k][2] * err[k]
    <3>1. PICK x, y : x = obs[k][2] /\ y = obs[k][3] /\ x \in Int /\ y \in Int
      BY <1>2
    <3>2. err[k] = y * 1 * n - 0 * x * n - Y * 1
      BY <1>1, <1>12, <2>1, <3>1 DEF Errors
    <3>3. Times(obs)[k] = y /\ one[k] = 1
      BY <1>1, <1>4, <3>1 DEF Times
    <3>4. y * 1 * n - 0 * x * n - Y * 1 = n * y + (-Y) * 1 + 0 * 1 /\ n * y \in Int
      <4>1. y * 1 * n = n * y /\ 0 * x * n = 0 /\ n * y \in Int
        BY <1>7, <3>1
      <4> QED BY <1>8, <4>1
    <3>5. n * y + (-Y) * 1 + 0 * 1 \in Int
      BY <1>8, <3>4
    <3>6. wgt[k] = obs[k][2] * err[k]
      BY <1>13, <2>2
    <3> QED BY <3>2, <3>3, <3>4, <3>5, <3>6
  <2>4. Sum(err, S) = 0
    <3>1. -Y \in Int /\ 0 \in Int /\ n \in Int
      BY <1>7, <1>8
    <3>2. \A k \in S : err[k] = n * Times(obs)[k] + (-Y) * one[k] + 0 * one[k]
      BY <1>1, <2>3
    <3>3. Sum(err, S) = n * Sum(Times(obs), S) + (-Y) * Sum(one, S) + 0 * Sum(one, S)
      <4>1. Combines(err, n, Times(obs), -Y, one, 0, one, S)
        BY <3>2 DEF Combines
      <4>2. Combined(err, n, Times(obs), -Y, one, 0, one, S)
        BY <1>1, <1>2, <1>4, <3>1, <4>1, SumLinear
      <4> QED BY <4>2 DEF Combined
    <3>4. n * Y + (-Y) * n + 0 * n = 0
      BY <1>7, <1>8
    <3> QED BY <1>6, <1>7, <3>3, <3>4
  <2>5. Ints(err, L) /\ Ints(wgt, L)
    <3>1. ASSUME NEW k \in 1..L PROVE wgt[k] \in Int
      <4>1. PICK x, e : x = obs[k][2] /\ e = err[k] /\ x \in Int /\ e \in Int
        BY <1>2, <2>3
      <4>2. x * e \in Int
        BY <4>1
      <4> QED BY <2>3, <4>1, <4>2
    <3> QED BY <2>3, <3>1 DEF Ints
  <2>6. \A k \in S : n * obs[k][2] = X
    <3>1. n * XX - X * X = 0
      BY <1>10, <1>14
    <3>2. Agree(obs, S, n, X)
      BY <1>6, <3>1, CostsAgree
    <3> QED BY <3>2 DEF Agree
  <2>7. PICK z : z = [k \in 1..L |-> n * wgt[k]]
    OBVIOUS
  <2>8. Sum(z, S) = n * Sum(wgt, S)
    <3>1. ASSUME NEW k \in S PROVE z[k] = n * wgt[k] + 0 * one[k] + 0 * one[k]
      <4>1. k \in 1..L /\ z[k] = n * wgt[k] /\ wgt[k] \in Int
        BY <1>1, <2>5, <2>7 DEF Ints
      <4>2. n * wgt[k] \in Int
        BY <1>7, <4>1
      <4> QED BY <1>4, <4>1, <4>2
    <3>2. Sum(z, S) = n * Sum(wgt, S) + 0 * Sum(one, S) + 0 * Sum(one, S)
      <4>1. n \in Int /\ 0 \in Int
        BY <1>7
      <4>2. Combines(z, n, wgt, 0, one, 0, one, S)
        BY <3>1 DEF Combines
      <4>3. Combined(z, n, wgt, 0, one, 0, one, S)
        BY <1>1, <1>4, <2>5, <4>1, <4>2, SumLinear
      <4> QED BY <4>3 DEF Combined
    <3>3. Sum(wgt, S) \in Int
      BY <1>1, <2>5, SumOf
    <3>4. n * Sum(wgt, S) \in Int
      BY <1>7, <3>3
    <3> QED BY <1>7, <3>2, <3>4
  <2>9. Sum(z, S) = X * Sum(err, S)
    <3>1. ASSUME NEW k \in S PROVE z[k] = X * err[k] + 0 * one[k] + 0 * one[k]
      <4>1. k \in 1..L
        BY <1>1
      <4>2. PICK x, e : x = obs[k][2] /\ e = err[k] /\ x \in Int /\ e \in Int
        BY <1>2, <2>3, <4>1
      <4>3. z[k] = n * (x * e) /\ n * x = X
        BY <2>3, <2>6, <2>7, <4>1, <4>2
      <4>4. n * (x * e) = (n * x) * e
        <5>1. n \in Int
          BY <1>7
        <5> QED BY <4>2, <5>1, Associates
      <4>5. z[k] = X * e /\ X * e \in Int
        BY <1>8, <4>2, <4>3, <4>4
      <4> QED BY <1>4, <4>1, <4>2, <4>5
    <3>2. Sum(z, S) = X * Sum(err, S) + 0 * Sum(one, S) + 0 * Sum(one, S)
      <4>1. 0 \in Int
        OBVIOUS
      <4>2. Combines(z, X, err, 0, one, 0, one, S)
        BY <3>1 DEF Combines
      <4>3. Combined(z, X, err, 0, one, 0, one, S)
        BY <1>1, <1>4, <1>8, <2>5, <4>1, <4>2, SumLinear
      <4> QED BY <4>3 DEF Combined
    <3> QED BY <1>7, <1>8, <2>4, <3>2
  <2>10. Sum(wgt, S) = 0
    <3>1. PICK w : w = Sum(wgt, S) /\ w \in Int
      BY <1>1, <2>5, SumOf
    <3>2. n * w = 0
      BY <1>8, <2>4, <2>8, <2>9, <3>1
    <3>3. w = 0
      BY <1>7, <1>9, <3>1, <3>2
    <3> QED BY <3>1, <3>3
  <2> QED BY <1>12, <1>13, <2>4, <2>10
<1>15. CASE D # 0
  <2>1. scale(f) = <<P, D>>
    BY <1>5, <1>7, <1>9, <1>10, <1>15 DEF scale
  <2>2. bias(f) = <<Y * D - P * X, n * D>>
    BY <1>5, <1>7, <1>9, <1>10, <1>15, <2>1 DEF bias
  <2>3. PICK a, b, c : a = D * (n * D) /\ b = -(P * (n * D)) /\ c = -((Y * D - P * X) * D)
    OBVIOUS
  <2>4. a \in Int /\ b \in Int /\ c \in Int
    <3>1. n * D \in Int /\ Y * D \in Int /\ P * X \in Int
      <4>1. n \in Int
        BY <1>7
      <4> QED BY <1>8, <1>11, <4>1, Associates
    <3>2. D * (n * D) \in Int /\ P * (n * D) \in Int /\ Y * D - P * X \in Int
      BY <1>11, <3>1
    <3>3. (Y * D - P * X) * D \in Int
      BY <1>11, <3>2
    <3> QED BY <2>3, <3>2, <3>3
  <2>5. DOMAIN err = 1..L
    BY <1>1, <1>12 DEF Errors
  <2>6. ASSUME NEW k \in S
        PROVE  /\ err[k] = a * Times(obs)[k] + b * Costs(obs)[k] + c * one[k]
               /\ wgt[k] = a * Products(obs)[k] + b * Squares(obs)[k] + c * Costs(obs)[k]
    <3>0. k \in 1..L
      BY <1>1
    <3>1. PICK x, y : x = obs[k][2] /\ y = obs[k][3] /\ x \in Int /\ y \in Int
      BY <1>2, <3>0
    <3>2. PICK e, q : e = n * D /\ q = Y * D - P * X /\ e \in Int /\ q \in Int
      BY <1>7, <1>8, <1>11
    <3>3. err[k] = y * D * e - P * x * e - q * D
      BY <1>1, <1>12, <2>1, <2>2, <3>0, <3>1, <3>2 DEF Errors
    <3>4. a = D * e /\ b = -(P * e) /\ c = -(q * D)
      BY <2>3, <3>2
    <3>5. y * D * e - P * x * e - q * D = (D * e) * y + (-(P * e)) * x + (-(q * D)) * 1
      <4>1. TermsOf(x, y, D, P, e, q)
        BY <1>11, <3>1, <3>2, ErrorTerms
      <4> QED BY <4>1 DEF TermsOf
    <3>6. x * (y * D * e - P * x * e - q * D) = (D * e) * (x * y) + (-(P * e)) * (x * x) + (-(q * D)) * x
      <4>1. TermsOf(x, y, D, P, e, q)
        BY <1>11, <3>1, <3>2, ErrorTerms
      <4> QED BY <4>1 DEF TermsOf
    <3>7. /\ Times(obs)[k] = y /\ Costs(obs)[k] = x /\ one[k] = 1
          /\ Products(obs)[k] = x * y /\ Squares(obs)[k] = x * x
      BY <1>1, <1>4, <3>0, <3>1 DEF Times, Costs, Products, Squares
    <3>8. wgt[k] = x * err[k]
      BY <1>13, <2>5, <3>0, <3>1
    <3> QED BY <3>3, <3>4, <3>5, <3>6, <3>7, <3>8
  <2>7. Sum(err, S) = a * Y + b * X + c * n
    <3>1. Sum(err, S) = a * Sum(Times(obs), S) + b * Sum(Costs(obs), S) + c * Sum(one, S)
      <4>1. Combines(err, a, Times(obs), b, Costs(obs), c, one, S)
        BY <2>6 DEF Combines
      <4>2. Combined(err, a, Times(obs), b, Costs(obs), c, one, S)
        BY <1>1, <1>2, <1>4, <2>4, <4>1, SumLinear
      <4> QED BY <4>2 DEF Combined
    <3> QED BY <1>6, <1>7, <3>1
  <2>8. Sum(wgt, S) = a * XY + b * XX + c * X
    <3>1. Sum(wgt, S) = a * Sum(Products(obs), S) + b * Sum(Squares(obs), S) + c * Sum(Costs(obs), S)
      <4>1. Combines(wgt, a, Products(obs), b, Squares(obs), c, Costs(obs), S)
        BY <2>6 DEF Combines
      <4>2. Combined(wgt, a, Products(obs), b, Squares(obs), c, Costs(obs), S)
        BY <1>1, <1>2, <2>4, <4>1, SumLinear
      <4> QED BY <4>2 DEF Combined
    <3> QED BY <1>6, <3>1
  <2>9. a * Y + b * X + c * n = 0 /\ a * XY + b * XX + c * X = 0
    <3>1. n \in Int
      BY <1>7
    <3> QED BY <1>8, <1>10, <2>3, <3>1, LineResiduals
  <2> QED BY <1>12, <1>13, <2>7, <2>8, <2>9
<1> QED BY <1>14, <1>15

-----------------------------------------------------------------------------
(* The processes and their files. *)

Programs == {"bandit", "calibration"}
IsModel(program, m) == IF program = "bandit" THEN IsBandit(m) ELSE IsFits(m)
Stands(program, m, obs) == IF program = "bandit" THEN BanditStands(m, obs) ELSE FitsStand(m, obs)

\* What the proofs take of the texts, which are sequences of lexemes: the text
\* of a model is read as that model whatever follows it, and neither an empty
\* file nor a text that was cut short holds a model.  (MCLearning has TLC
\* evaluate this for models with the texts of LearningText.)
TextsRead(Lexemes) ==
  \A program \in Programs :
    /\ Loads(program, <<>>) = NoModel
    /\ \A m : IsModel(program, m) =>
         Text(program, m) \in Seq(Lexemes) /\ ReadsBack(program, m, Seq(Lexemes), Cuts)

Shape ==
  /\ pc \in [Processes -> {"down", "idle", "open", "write"}]
  /\ DOMAIN model = Processes /\ DOMAIN seen = Processes /\ DOMAIN choice = Processes
  /\ DOMAIN file = Programs /\ DOMAIN kept = Programs
Bounded == queries \in 0 .. MaxQueries /\ crashes \in 0 .. MaxCrashes /\ shorts \in 0 .. MaxShort
ModelsStand == \A p \in Processes : Stands(ProgramOf(p), model[p], seen[p])
FilesStand(Lexemes) ==
  \A program \in Programs :
    /\ file[program] \in Seq(Lexemes)
    /\ Stands(program, Loads(program, file[program]), kept[program])
IsBest(ch) ==
  LET N(arm) == Cardinality(OfArm(ch.known, ch.context, arm))
      T(arm) == Sum(Rewarded(ch.known), OfArm(ch.known, ch.context, arm))
  IN  /\ N(ch.arm) > 0
      /\ \A arm \in ArmSet : T(arm) * N(ch.arm) <= T(ch.arm) * N(arm)
ChoicesBest == \A p \in Coordinators : choice[p] # <<>> => IsBest(choice[p][1])

\* Every model stands for the observations of its process, and every file,
\* as the next process will read it, for those that were kept.
LearningInv(Lexemes) == Shape /\ Bounded /\ ModelsStand /\ FilesStand(Lexemes) /\ ChoicesBest

LEMMA NothingStands ==
  ASSUME NEW program \in Programs
  PROVE  Stands(program, NoModel, <<>>)
<1>1. DOMAIN NoModel = {} /\ NoModel = [k \in DOMAIN NoModel |-> NoModel[k]] /\ IsFiniteSet(DOMAIN NoModel)
  BY FS_EmptySet DEF NoModel
<1>2. DOMAIN <<>> = {}
  OBVIOUS
<1>3. BanditStands(NoModel, <<>>)
  <2>1. IsBandit(NoModel)
    BY <1>1 DEF IsBandit
  <2>2. ASSUME NEW c \in Contexts, NEW arm \in ArmSet PROVE ArmStands(NoModel, <<>>, c, arm)
    <3>1. OfArm(<<>>, c, arm) = {}
      BY <1>2 DEF OfArm
    <3>2. Cardinality(OfArm(<<>>, c, arm)) = 0
      BY <3>1, FS_EmptySet
    <3>3. ~Has(NoModel, c, arm)
      BY <1>1 DEF Has
    <3> QED BY <3>2, <3>3 DEF ArmStands
  <2>3. <<>> \in Seq(Answers)
    OBVIOUS
  <2> QED BY <2>1, <2>2, <2>3 DEF BanditStands
<1>4. FitsStand(NoModel, <<>>)
  <2>1. IsFits(NoModel)
    BY <1>1 DEF IsFits
  <2>2. ASSUME NEW kind \in Kinds PROVE FitStands(NoModel, <<>>, kind)
    BY <1>1, <1>2 DEF FitStands, OfKind
  <2>3. <<>> \in Seq(Nodes)
    OBVIOUS
  <2> QED BY <2>1, <2>2, <2>3 DEF FitsStand
<1> QED BY <1>3, <1>4 DEF Stands

LEMMA RestoredStands ==
  ASSUME NEW program \in Programs, NEW m, NEW obs, Stands(program, m, obs)
  PROVE  Stands(program, Restored(program, m), obs) /\ IsModel(program, m)
<1>1. CASE program # "bandit"
  BY <1>1 DEF Stands, Restored, IsModel, FitsStand
<1>2. CASE program = "bandit"
  <2>1. BanditStands(m, obs)
    BY <1>2 DEF Stands
  <2>2. PICK D : D = {k \in DOMAIN m : DOMAIN m[k] # {}}
    OBVIOUS
  <2>3. PICK r : r = [c \in D |-> m[c]]
    OBVIOUS
  <2>4. Restored(program, m) = r
    BY <1>2, <2>2, <2>3 DEF Restored
  <2>5. DOMAIN r = D /\ D \in SUBSET DOMAIN m /\ \A c \in D : r[c] = m[c]
    BY <2>2, <2>3
  <2>6. IsBandit(r)
    <3>1. r = [c \in DOMAIN r |-> r[c]]
      BY <2>3
    <3>2. IsFiniteSet(DOMAIN m) /\ DOMAIN m \subseteq Contexts /\ \A c \in DOMAIN m : IsArms(m[c])
      BY <2>1 DEF BanditStands, IsBandit
    <3>3. IsFiniteSet(DOMAIN r)
      BY <2>5, <3>2, FS_Subset
    <3> QED BY <2>5, <3>1, <3>2, <3>3 DEF IsBandit
  <2>7. ASSUME NEW c \in Contexts, NEW arm \in ArmSet PROVE ArmStands(r, obs, c, arm)
    <3>1. ArmStands(m, obs, c, arm)
      BY <2>1 DEF BanditStands
    <3>2. (Has(r, c, arm) <=> Has(m, c, arm)) /\ (Has(m, c, arm) => r[c][arm] = m[c][arm])
      BY <2>2, <2>5 DEF Has
    <3> QED BY <3>1, <3>2 DEF ArmStands
  <2>8. BanditStands(r, obs) /\ IsBandit(m)
    BY <2>1, <2>6, <2>7 DEF BanditStands
  <2> QED BY <1>2, <2>4, <2>8 DEF Stands, IsModel
<1> QED BY <1>1, <1>2

LEMMA ProgramsOf ==
  /\ \A p \in Processes : ProgramOf(p) \in Programs
  /\ \A p \in Coordinators : p \in Processes /\ ProgramOf(p) = "bandit"
  /\ \A p \in CLIs : p \in Processes /\ p \notin Coordinators /\ ProgramOf(p) = "calibration"
BY LearningAssumption DEF Processes, ProgramOf, Programs

LEMMA LearningInit ==
  ASSUME NEW Lexemes, TextsRead(Lexemes), Init
  PROVE  LearningInv(Lexemes)
<1>1. Shape
  BY DEF Init, Shape, Programs
<1>2. Bounded
  BY LearningAssumption DEF Init, Bounded
<1>3. ModelsStand
  <2> SUFFICES ASSUME NEW p \in Processes PROVE Stands(ProgramOf(p), model[p], seen[p])
    BY DEF ModelsStand
  <2>1. model[p] = NoModel /\ seen[p] = <<>>
    BY DEF Init
  <2> QED BY <2>1, ProgramsOf, NothingStands
<1>4. FilesStand(Lexemes)
  <2> SUFFICES ASSUME NEW program \in Programs
               PROVE  file[program] \in Seq(Lexemes) /\ Stands(program, Loads(program, file[program]), kept[program])
    BY DEF FilesStand
  <2>1. file[program] = <<>> /\ kept[program] = <<>>
    BY DEF Init, Programs
  <2>2. Loads(program, <<>>) = NoModel
    BY DEF TextsRead
  <2> QED BY <2>1, <2>2, NothingStands
<1>5. ChoicesBest
  BY ProgramsOf DEF Init, ChoicesBest
<1> QED BY <1>1, <1>2, <1>3, <1>4, <1>5 DEF LearningInv

\* A step that gives one process another model.
LEMMA ModelStep ==
  ASSUME Shape, ModelsStand, NEW p \in Processes, NEW m, NEW obs,
         model' = [model EXCEPT ![p] = m], seen' = [seen EXCEPT ![p] = obs],
         Stands(ProgramOf(p), m, obs)
  PROVE  ModelsStand'
<1> SUFFICES ASSUME NEW q \in Processes PROVE Stands(ProgramOf(q), model'[q], seen'[q])
  BY DEF ModelsStand
<1>1. CASE q = p
  BY <1>1 DEF Shape
<1>2. CASE q # p
  BY <1>2 DEF Shape, ModelsStand
<1> QED BY <1>1, <1>2

\* A step that gives one file another text.
LEMMA FileStep ==
  ASSUME NEW Lexemes, Shape, FilesStand(Lexemes), NEW program \in Programs, NEW text \in Seq(Lexemes), NEW obs,
         file' = [file EXCEPT ![program] = text], kept' = [kept EXCEPT ![program] = obs],
         Stands(program, Loads(program, text), obs)
  PROVE  FilesStand(Lexemes)'
<1> SUFFICES ASSUME NEW q \in Programs
             PROVE  file'[q] \in Seq(Lexemes) /\ Stands(q, Loads(q, file'[q]), kept'[q])
  BY DEF FilesStand
<1>1. CASE q = program
  BY <1>1 DEF Shape
<1>2. CASE q # program
  BY <1>2 DEF Shape, FilesStand
<1> QED BY <1>1, <1>2

\* A step that forgets the choice of a process or makes one of the best.
LEMMA ChoiceStep ==
  ASSUME Shape, ChoicesBest, NEW p \in Processes, NEW ch,
         choice' = [choice EXCEPT ![p] = ch], ch # <<>> => IsBest(ch[1])
  PROVE  ChoicesBest'
<1> SUFFICES ASSUME NEW q \in Coordinators, choice'[q] # <<>> PROVE IsBest(choice'[q][1])
  BY DEF ChoicesBest
<1>1. CASE q = p
  BY <1>1 DEF Shape
<1>2. CASE q # p
  BY <1>2, ProgramsOf DEF Shape, ChoicesBest
<1> QED BY <1>1, <1>2

LEMMA StartStep ==
  ASSUME NEW Lexemes, TextsRead(Lexemes), LearningInv(Lexemes), NEW p \in Processes, NEW env, Start(p, env)
  PROVE  LearningInv(Lexemes)'
<1> USE DEF LearningInv
<1>1. Shape'
  BY DEF Shape, Start
<1>2. Bounded' /\ FilesStand(Lexemes)' /\ ChoicesBest'
  BY DEF Start, Bounded, FilesStand, ChoicesBest
<1>3. PICK program : program = ProgramOf(p) /\ program \in Programs
  BY ProgramsOf
<1>4. Stands(ProgramOf(p), Loads(program, file[program]), kept[program])
  BY <1>3 DEF FilesStand
<1>5. /\ model' = [model EXCEPT ![p] = Loads(program, file[program])]
      /\ seen' = [seen EXCEPT ![p] = kept[program]]
  BY <1>3 DEF Start
<1>6. ModelsStand'
  BY <1>4, <1>5, ModelStep
<1> QED BY <1>1, <1>2, <1>6

LEMMA RunJoinStep ==
  ASSUME NEW Lexemes, LearningInv(Lexemes), NEW p \in Coordinators, NEW c \in Contexts,
         NEW eligible \in BOOLEAN, NEW explore \in BOOLEAN, NEW reward \in Rewards,
         RunJoin(p, c, eligible, explore, reward)
  PROVE  LearningInv(Lexemes)'
<1> USE DEF LearningInv
<1>1. PICK best, random, after :
        /\ best = Best(model[p], c) /\ random = (explore \/ best = {})
        /\ after = IF eligible THEN Touched(model[p], c) ELSE model[p]
  OBVIOUS
<1>2. PICK picks : picks = CASE ~eligible         -> {"shuffle"}
                             [] eligible /\ random -> ArmSet
                             [] OTHER              -> {Arms[i] : i \in best}
  OBVIOUS
<1>3. PICK learns : learns = (~eligible \/ forced[p] = <<>>)
  OBVIOUS
<1>4. PICK pick \in picks :
        /\ Query(p)
        /\ model' = [model EXCEPT ![p] = IF learns THEN update(after, c, pick, reward) ELSE after]
        /\ seen' = [seen EXCEPT ![p] = IF learns THEN Append(seen[p], <<c, pick, reward>>) ELSE seen[p]]
        /\ choice' = [choice EXCEPT ![p] = IF eligible /\ ~random /\ learns
                                              THEN << [context |-> c, arm |-> pick, known |-> seen[p]] >>
                                              ELSE <<>>]
        /\ pc' = [pc EXCEPT ![p] = "open"]
  BY <1>1, <1>2, <1>3 DEF RunJoin
<1>5. p \in Processes /\ ProgramOf(p) = "bandit"
  BY ProgramsOf
<1>6. Shape'
  BY <1>4, <1>5 DEF Shape, Query
<1>7. Bounded' /\ FilesStand(Lexemes)'
  BY <1>4, LearningAssumption DEF Query, Bounded, FilesStand
<1>8. PICK m, obs : m = model[p] /\ obs = seen[p]
  OBVIOUS
<1>9. BanditStands(m, obs)
  BY <1>5, <1>8 DEF ModelsStand, Stands
<1>10. BanditStands(after, obs)
  BY <1>1, <1>8, <1>9, TouchStands
<1>11. ASSUME NEW i \in best
       PROVE  Arms[i] \in ArmSet /\ IsBest([context |-> c, arm |-> Arms[i], known |-> obs])
  <2>1. i \in Best(m, c)
    BY <1>1, <1>8
  <2>2. "shuffle" \in ArmSet
    BY DEF ArmSet, Arms
  <2> DEFINE N(x) == Cardinality(OfArm(obs, c, x))
             T(x) == Sum(Rewarded(obs), OfArm(obs, c, x))
  <2>3. ASSUME NEW arm \in ArmSet
        PROVE  Arms[i] \in ArmSet /\ N(Arms[i]) > 0 /\ T(arm) * N(Arms[i]) <= T(Arms[i]) * N(arm)
    BY <1>9, <2>1, BestIsBest
  <2>4. PICK ch : ch = [context |-> c, arm |-> Arms[i], known |-> obs]
    OBVIOUS
  <2>5. ch.context = c /\ ch.arm = Arms[i] /\ ch.known = obs
    BY <2>4
  <2> HIDE DEF N, T
  <2>6. Arms[i] \in ArmSet /\ N(Arms[i]) > 0 /\ \A arm \in ArmSet : T(arm) * N(Arms[i]) <= T(Arms[i]) * N(arm)
    BY <2>2, <2>3
  <2>7. IsBest(ch)
    BY <2>5, <2>6 DEF IsBest, N, T
  <2> QED BY <2>4, <2>6, <2>7
<1>12. pick \in ArmSet
  <2>1. "shuffle" \in ArmSet
    BY DEF ArmSet, Arms
  <2>2. CASE ~eligible
    BY <1>2, <1>4, <2>1, <2>2
  <2>3. CASE eligible /\ random
    BY <1>2, <1>4, <2>3
  <2>4. CASE eligible /\ ~random
    <3>1. picks = {Arms[i] : i \in best}
      BY <1>2, <2>4
    <3> QED BY <1>4, <1>11, <3>1
  <2>5. eligible \in BOOLEAN /\ random \in BOOLEAN
    BY <1>1
  <2> QED BY <2>2, <2>3, <2>4, <2>5
<1>13. ModelsStand'
  <2>1. CASE learns
    <3>1. reward \in Int
      BY LearningAssumption
    <3>2. BanditStands(update(after, c, pick, reward), Append(obs, <<c, pick, reward>>))
      BY <1>10, <1>12, <3>1, UpdateStands
    <3>3. Stands(ProgramOf(p), update(after, c, pick, reward), Append(obs, <<c, pick, reward>>))
      BY <1>5, <3>2 DEF Stands
    <3>4. /\ model' = [model EXCEPT ![p] = update(after, c, pick, reward)]
          /\ seen' = [seen EXCEPT ![p] = Append(obs, <<c, pick, reward>>)]
      BY <1>4, <1>8, <2>1
    <3> QED BY <1>5, <3>3, <3>4, ModelStep
  <2>2. CASE ~learns
    <3>1. model' = [model EXCEPT ![p] = after] /\ seen' = [seen EXCEPT ![p] = obs]
      BY <1>4, <1>8, <2>2
    <3>2. Stands(ProgramOf(p), after, obs)
      BY <1>5, <1>10 DEF Stands
    <3> QED BY <1>5, <3>1, <3>2, ModelStep
  <2> QED BY <2>1, <2>2
<1>14. ChoicesBest'
  <2>1. CASE eligible /\ ~random /\ learns
    <3>1. PICK ch : ch = << [context |-> c, arm |-> pick, known |-> obs] >>
      OBVIOUS
    <3>2. choice' = [choice EXCEPT ![p] = ch]
      BY <1>4, <1>8, <2>1, <3>1
    <3>3. PICK i \in best : pick = Arms[i]
      BY <1>2, <1>4, <2>1
    <3>4. IsBest(ch[1])
      BY <1>11, <3>1, <3>3
    <3> QED BY <1>5, <3>2, <3>4, ChoiceStep
  <2>2. CASE ~(eligible /\ ~random /\ learns)
    <3>1. choice' = [choice EXCEPT ![p] = <<>>]
      BY <1>4, <2>2
    <3> QED BY <1>5, <3>1, ChoiceStep
  <2> QED BY <2>1, <2>2
<1> QED BY <1>6, <1>7, <1>13, <1>14

LEMMA RunOtherStep ==
  ASSUME NEW Lexemes, LearningInv(Lexemes), NEW p \in Processes, RunOther(p)
  PROVE  LearningInv(Lexemes)'
<1> USE DEF LearningInv
<1>1. Shape'
  BY DEF Shape, RunOther, Query
<1>2. Bounded'
  BY LearningAssumption DEF RunOther, Query, Bounded
<1>3. ModelsStand' /\ FilesStand(Lexemes)' /\ ChoicesBest'
  BY DEF RunOther, Query, ModelsStand, FilesStand, ChoicesBest
<1> QED BY <1>1, <1>2, <1>3

LEMMA RunThrowsStep ==
  ASSUME NEW Lexemes, LearningInv(Lexemes), NEW p \in Coordinators, NEW c \in Contexts, RunThrows(p, c)
  PROVE  LearningInv(Lexemes)'
<1> USE DEF LearningInv
<1>1. p \in Processes /\ ProgramOf(p) = "bandit"
  BY ProgramsOf
<1>2. Shape'
  BY <1>1 DEF Shape, RunThrows, Query
<1>3. Bounded' /\ FilesStand(Lexemes)' /\ ChoicesBest'
  BY LearningAssumption DEF RunThrows, Query, Bounded, FilesStand, ChoicesBest
<1>4. BanditStands(model[p], seen[p])
  BY <1>1 DEF ModelsStand, Stands
<1>5. Stands(ProgramOf(p), Touched(model[p], c), seen[p])
  BY <1>1, <1>4, TouchStands DEF Stands
<1>6. model' = [model EXCEPT ![p] = Touched(model[p], c)]
  BY DEF RunThrows
<1>7. ModelsStand'
  <2> SUFFICES ASSUME NEW q \in Processes PROVE Stands(ProgramOf(q), model'[q], seen'[q])
    BY DEF ModelsStand
  <2>1. seen'[q] = seen[q]
    BY DEF RunThrows
  <2>2. CASE q = p
    BY <1>5, <1>6, <2>1, <2>2 DEF Shape
  <2>3. CASE q # p
    BY <1>6, <2>1, <2>3 DEF Shape, ModelsStand
  <2> QED BY <2>2, <2>3
<1> QED BY <1>2, <1>3, <1>7

LEMMA RunAnalyzeStep ==
  ASSUME NEW Lexemes, LearningInv(Lexemes), NEW p \in CLIs, NEW run \in Runs, RunAnalyze(p, run)
  PROVE  LearningInv(Lexemes)'
<1> USE DEF LearningInv
<1>1. p \in Processes /\ ProgramOf(p) = "calibration"
  BY ProgramsOf
<1>2. Shape'
  BY <1>1 DEF Shape, RunAnalyze, Query
<1>3. Bounded' /\ FilesStand(Lexemes)' /\ ChoicesBest'
  BY LearningAssumption DEF RunAnalyze, Query, Bounded, FilesStand, ChoicesBest
<1>4. FitsStand(model[p], seen[p])
  BY <1>1 DEF ModelsStand, Stands
<1>5. FitsStand(record_plan_observations(model[p], run), seen[p] \o run)
  BY <1>4, PlanStands
<1>6. Stands(ProgramOf(p), record_plan_observations(model[p], run), seen[p] \o run)
  BY <1>1, <1>5 DEF Stands
<1>7. /\ model' = [model EXCEPT ![p] = record_plan_observations(model[p], run)]
      /\ seen' = [seen EXCEPT ![p] = seen[p] \o run]
  BY DEF RunAnalyze
<1>8. ModelsStand'
  BY <1>1, <1>6, <1>7, ModelStep
<1> QED BY <1>2, <1>3, <1>8

LEMMA OpenFileStep ==
  ASSUME NEW Lexemes, TextsRead(Lexemes), LearningInv(Lexemes), NEW p \in Processes, OpenFile(p)
  PROVE  LearningInv(Lexemes)'
<1> USE DEF LearningInv
<1>1. PICK program : program = ProgramOf(p) /\ program \in Programs
  BY ProgramsOf
<1>2. Shape'
  BY <1>1 DEF Shape, OpenFile
<1>3. Bounded' /\ ModelsStand'
  BY DEF OpenFile, Bounded, ModelsStand
<1>4. Loads(program, <<>>) = NoModel /\ <<>> \in Seq(Lexemes)
  BY <1>1 DEF TextsRead
<1>5. Stands(program, Loads(program, <<>>), <<>>)
  BY <1>1, <1>4, NothingStands
<1>6. file' = [file EXCEPT ![program] = <<>>] /\ kept' = [kept EXCEPT ![program] = <<>>]
  BY <1>1 DEF OpenFile
<1>7. FilesStand(Lexemes)'
  BY <1>1, <1>4, <1>5, <1>6, FileStep
<1>8. ChoicesBest'
  <2>1. choice' = [choice EXCEPT ![p] = <<>>]
    BY DEF OpenFile
  <2> QED BY <2>1, ChoiceStep
<1> QED BY <1>2, <1>3, <1>7, <1>8

LEMMA OpenFailsStep ==
  ASSUME NEW Lexemes, LearningInv(Lexemes), NEW p \in Processes, OpenFails(p)
  PROVE  LearningInv(Lexemes)'
<1> USE DEF LearningInv
<1>1. Shape'
  BY DEF Shape, OpenFails
<1>2. Bounded' /\ ModelsStand' /\ FilesStand(Lexemes)'
  BY DEF OpenFails, Bounded, ModelsStand, FilesStand
<1>3. ChoicesBest'
  <2>1. choice' = [choice EXCEPT ![p] = <<>>]
    BY DEF OpenFails
  <2> QED BY <2>1, ChoiceStep
<1> QED BY <1>1, <1>2, <1>3

LEMMA WriteFileStep ==
  ASSUME NEW Lexemes, TextsRead(Lexemes), LearningInv(Lexemes), NEW p \in Processes, WriteFile(p)
  PROVE  LearningInv(Lexemes)'
<1> USE DEF LearningInv
<1>1. PICK program : program = ProgramOf(p) /\ program \in Programs
  BY ProgramsOf
<1>2. PICK text, old : text = Text(program, model[p]) /\ old = file[program]
  OBVIOUS
<1>3. Stands(program, model[p], seen[p])
  BY <1>1 DEF ModelsStand
<1>4. IsModel(program, model[p]) /\ Stands(program, Restored(program, model[p]), seen[p])
  BY <1>1, <1>3, RestoredStands
<1>5. text \in Seq(Lexemes) /\ \A rest \in Seq(Lexemes) : Loads(program, text \o rest) = Restored(program, model[p])
  BY <1>1, <1>2, <1>4 DEF TextsRead, ReadsBack
<1>6. PICK rest : rest = SubSeq(old, Len(text) + 1, Len(old))
  OBVIOUS
<1>7. rest \in Seq(Lexemes)
  <2>1. old \in Seq(Lexemes)
    BY <1>1, <1>2 DEF FilesStand
  <2>2. Len(text) \in Nat /\ Len(old) \in Nat
    BY <1>5, <2>1
  <2>3. \A i \in (Len(text) + 1) .. Len(old) : old[i] \in Lexemes
    BY <2>1, <2>2
  <2> QED BY <1>6, <2>2, <2>3, SubSeqProperties
<1>8. PICK new : new = text \o rest
  OBVIOUS
<1>9. new \in Seq(Lexemes) /\ Stands(program, Loads(program, new), seen[p])
  BY <1>4, <1>5, <1>7, <1>8
<1>10. file' = [file EXCEPT ![program] = new] /\ kept' = [kept EXCEPT ![program] = seen[p]]
  BY <1>1, <1>2, <1>6, <1>8 DEF WriteFile
<1>11. FilesStand(Lexemes)'
  BY <1>1, <1>9, <1>10, FileStep
<1>12. Shape'
  BY <1>1, <1>10 DEF Shape, WriteFile
<1>13. Bounded' /\ ModelsStand' /\ ChoicesBest'
  BY DEF WriteFile, Bounded, ModelsStand, ChoicesBest
<1> QED BY <1>11, <1>12, <1>13

LEMMA WriteShortStep ==
  ASSUME NEW Lexemes, TextsRead(Lexemes), LearningInv(Lexemes), NEW p \in Processes, NEW cut \in Cuts, WriteShort(p, cut)
  PROVE  LearningInv(Lexemes)'
<1> USE DEF LearningInv
<1>1. PICK program : program = ProgramOf(p) /\ program \in Programs
  BY ProgramsOf
<1>2. PICK text : text = Text(program, model[p])
  OBVIOUS
<1>3. Stands(program, model[p], seen[p])
  BY <1>1 DEF ModelsStand
<1>4. IsModel(program, model[p])
  BY <1>1, <1>3, RestoredStands
<1>5. PICK new : new = SubSeq(text, 1, Len(text) - cut)
  OBVIOUS
<1>6. text \in Seq(Lexemes) /\ Loads(program, new) = NoModel
  BY <1>1, <1>2, <1>4, <1>5 DEF TextsRead, ReadsBack
<1>7. new \in Seq(Lexemes)
  <2>1. Len(text) \in Nat /\ cut \in Nat
    BY <1>6, LearningAssumption
  <2>2. Len(text) - cut \in Int /\ \A i \in 1 .. (Len(text) - cut) : text[i] \in Lexemes
    BY <1>6, <2>1
  <2> QED BY <1>5, <2>2, SubSeqProperties
<1>8. Stands(program, Loads(program, new), <<>>)
  BY <1>1, <1>6, NothingStands
<1>9. file' = [file EXCEPT ![program] = new] /\ kept' = [kept EXCEPT ![program] = <<>>]
  BY <1>1, <1>2, <1>5 DEF WriteShort
<1>10. FilesStand(Lexemes)'
  BY <1>1, <1>7, <1>8, <1>9, FileStep
<1>11. Shape'
  BY <1>1, <1>9 DEF Shape, WriteShort
<1>12. Bounded'
  BY LearningAssumption DEF WriteShort, Bounded
<1>13. ModelsStand' /\ ChoicesBest'
  BY DEF WriteShort, ModelsStand, ChoicesBest
<1> QED BY <1>10, <1>11, <1>12, <1>13

LEMMA StopStep ==
  ASSUME NEW Lexemes, LearningInv(Lexemes), NEW p \in Processes, Stop(p)
  PROVE  LearningInv(Lexemes)'
<1> USE DEF LearningInv
<1>1. Shape'
  BY DEF Shape, Stop
<1>2. Bounded'
  BY LearningAssumption DEF Stop, Bounded
<1>3. FilesStand(Lexemes)'
  BY DEF Stop, FilesStand
<1>4. ModelsStand'
  <2>1. model' = [model EXCEPT ![p] = NoModel] /\ seen' = [seen EXCEPT ![p] = <<>>]
    BY DEF Stop
  <2>2. Stands(ProgramOf(p), NoModel, <<>>)
    BY ProgramsOf, NothingStands
  <2> QED BY <2>1, <2>2, ModelStep
<1>5. ChoicesBest'
  <2>1. choice' = [choice EXCEPT ![p] = <<>>]
    BY DEF Stop
  <2> QED BY <2>1, ChoiceStep
<1> QED BY <1>1, <1>2, <1>3, <1>4, <1>5

LEMMA LearningNext ==
  ASSUME NEW Lexemes, TextsRead(Lexemes), LearningInv(Lexemes), [Next]_vars
  PROVE  LearningInv(Lexemes)'
<1>1. CASE UNCHANGED vars
  BY <1>1 DEF vars, LearningInv, Shape, Bounded, ModelsStand, FilesStand, ChoicesBest
<1>2. ASSUME NEW p \in Coordinators, NEW env \in Strategies, Start(p, env) PROVE LearningInv(Lexemes)'
  BY <1>2, ProgramsOf, StartStep
<1>3. ASSUME NEW p \in CLIs, Start(p, <<>>) PROVE LearningInv(Lexemes)'
  BY <1>3, ProgramsOf, StartStep
<1>4. ASSUME NEW p \in Coordinators, NEW c \in Contexts, NEW eligible \in BOOLEAN, NEW explore \in BOOLEAN,
             NEW reward \in Rewards, RunJoin(p, c, eligible, explore, reward)
      PROVE  LearningInv(Lexemes)'
  BY <1>4, RunJoinStep
<1>5. ASSUME NEW p \in Coordinators, RunOther(p) PROVE LearningInv(Lexemes)'
  BY <1>5, ProgramsOf, RunOtherStep
<1>6. ASSUME NEW p \in Coordinators, NEW c \in Contexts, RunThrows(p, c) PROVE LearningInv(Lexemes)'
  BY <1>6, RunThrowsStep
<1>7. ASSUME NEW p \in CLIs, NEW run \in Runs, RunAnalyze(p, run) PROVE LearningInv(Lexemes)'
  BY <1>7, RunAnalyzeStep
<1>8. ASSUME NEW p \in Processes, OpenFile(p) \/ OpenFails(p) \/ WriteFile(p) \/ Stop(p)
      PROVE  LearningInv(Lexemes)'
  BY <1>8, OpenFileStep, OpenFailsStep, WriteFileStep, StopStep
<1>9. ASSUME NEW p \in Processes, NEW cut \in Cuts, WriteShort(p, cut) PROVE LearningInv(Lexemes)'
  BY <1>9, WriteShortStep
<1> QED BY <1>1, <1>2, <1>3, <1>4, <1>5, <1>6, <1>7, <1>8, <1>9 DEF Next

-----------------------------------------------------------------------------
(* The theorems, for texts that are read as TextsRead says. *)

\* Whatever the processes do, their models and files stand for observations
\* made once: the inductive invariant behind the theorems that follow.
THEOREM LearningCorrect ==
  ASSUME NEW Lexemes, TextsRead(Lexemes)
  PROVE  Spec => []LearningInv(Lexemes)
<1>1. Init => LearningInv(Lexemes)
  BY LearningInit
<1>2. LearningInv(Lexemes) /\ [Next]_vars => LearningInv(Lexemes)'
  BY LearningNext
<1> QED BY <1>1, <1>2, PTL DEF Spec

\* The models are maps of the shapes that bandit.cpp and calibration.cpp keep.
THEOREM LearningTypeCorrect ==
  ASSUME NEW Lexemes, TextsRead(Lexemes)
  PROVE  Spec => []TypeOK
<1>1. ASSUME LearningInv(Lexemes) PROVE TypeOK
  <2>1. pc \in [Processes -> {"down", "idle", "open", "write"}]
    BY <1>1 DEF LearningInv, Shape
  <2>2. queries \in 0 .. MaxQueries /\ crashes \in 0 .. MaxCrashes /\ shorts \in 0 .. MaxShort
    BY <1>1 DEF LearningInv, Bounded
  <2>3. ASSUME NEW p \in Coordinators, NEW c \in DOMAIN model[p]
        PROVE  c \in Contexts /\ \A arm \in DOMAIN model[p][c] : arm \in ArmSet /\ model[p][c][arm].count \in Nat
    <3>1. IsBandit(model[p])
      BY <1>1, ProgramsOf DEF LearningInv, ModelsStand, Stands, BanditStands
    <3>2. c \in Contexts /\ IsArms(model[p][c])
      BY <3>1 DEF IsBandit
    <3> QED BY <3>2 DEF IsArms, ArmStats
  <2>4. ASSUME NEW p \in CLIs, NEW kind \in DOMAIN model[p] PROVE DOMAIN model[p][kind] = DOMAIN NewFit
    <3>1. IsFits(model[p])
      BY <1>1, ProgramsOf DEF LearningInv, ModelsStand, Stands, FitsStand
    <3>2. model[p][kind] \in Fit
      BY <3>1 DEF IsFits
    <3> QED BY <3>2 DEF Fit, NewFit
  <2> QED BY <2>1, <2>2, <2>3, <2>4 DEF TypeOK
<1> QED BY <1>1, LearningCorrect, PTL

\* The bandit's averages are the means of what was observed.
THEOREM LearningMeans ==
  ASSUME NEW Lexemes, TextsRead(Lexemes)
  PROVE  Spec => []AverageIsMean
<1>1. ASSUME LearningInv(Lexemes) PROVE AverageIsMean
  <2> SUFFICES ASSUME NEW p \in Coordinators, NEW c \in Contexts, NEW arm \in ArmSet
               PROVE  LET of  == OfArm(seen[p], c, arm)
                          n   == Cardinality(of)
                          has == c \in DOMAIN model[p] /\ arm \in DOMAIN model[p][c]
                          s   == model[p][c][arm]
                      IN  /\ has <=> n > 0
                          /\ has => /\ s.count = n
                                    /\ s.average_reward[1] * n = Sum(Rewarded(seen[p]), of) * s.average_reward[2]
    BY DEF AverageIsMean
  <2>1. ArmStands(model[p], seen[p], c, arm)
    BY <1>1, ProgramsOf DEF LearningInv, ModelsStand, Stands, BanditStands
  <2> QED BY <2>1 DEF ArmStands, Has, Mean
<1> QED BY <1>1, LearningCorrect, PTL

\* choose exploits the arm with the best mean.
THEOREM LearningExploits ==
  ASSUME NEW Lexemes, TextsRead(Lexemes)
  PROVE  Spec => []ExploitsBestMean
<1>1. ASSUME LearningInv(Lexemes) PROVE ExploitsBestMean
  BY <1>1 DEF LearningInv, ChoicesBest, IsBest, ExploitsBestMean
<1> QED BY <1>1, LearningCorrect, PTL

\* The calibration's lines are the least-squares fits of all observations.
THEOREM LearningFits ==
  ASSUME NEW Lexemes, TextsRead(Lexemes)
  PROVE  Spec => []CalibrationFitsAll
<1>1. ASSUME LearningInv(Lexemes) PROVE CalibrationFitsAll
  <2> SUFFICES ASSUME NEW p \in CLIs, NEW kind \in DOMAIN model[p]
               PROVE  LET f   == model[p][kind]
                          of  == OfKind(seen[p], kind)
                          err == Errors(f, seen[p])
                      IN  IF Cardinality(of) < kMinSamples THEN scale(f) = <<1, 1>> /\ bias(f) = <<0, 1>>
                          ELSE /\ Sum(err, of) = 0
                               /\ Sum([k \in DOMAIN err |-> seen[p][k][2] * err[k]], of) = 0
    BY DEF CalibrationFitsAll
  <2>1. PICK obs, f, of : obs = seen[p] /\ f = model[p][kind] /\ of = OfKind(seen[p], kind)
    OBVIOUS
  <2>2. FitsStand(model[p], obs)
    BY <1>1, <2>1, ProgramsOf DEF LearningInv, ModelsStand, Stands
  <2>3. obs \in Seq(Nodes) /\ kind \in Kinds
    BY <2>2 DEF FitsStand, IsFits
  <2>4. f = FitOf(obs, of)
    BY <2>1, <2>2, <2>3 DEF FitsStand, FitStands
  <2>5. of \in SUBSET (1..Len(obs))
    BY <2>1, <2>3 DEF OfKind
  <2>6. CASE Cardinality(of) < kMinSamples
    <3>1. f.n < kMinSamples /\ ~(f.n >= kMinSamples)
      <4>1. Cardinality(of) \in Nat
        <5>1. Len(obs) \in Nat
          BY <2>3
        <5> QED BY <2>5, <5>1, PositionsFinite
      <4>2. f.n = Cardinality(of)
        BY <2>4 DEF FitOf
      <4> QED BY <2>6, <4>1, <4>2 DEF kMinSamples
    <3>2. scale(f) = <<1, 1>>
      BY <3>1 DEF scale
    <3>3. bias(f) = <<0, 1>>
      BY <3>1 DEF bias
    <3> QED BY <2>1, <2>6, <3>2, <3>3
  <2>7. CASE ~(Cardinality(of) < kMinSamples)
    <3>1. /\ Sum(Errors(f, obs), of) = 0
          /\ Sum([k \in DOMAIN Errors(f, obs) |-> obs[k][2] * Errors(f, obs)[k]], of) = 0
      BY <2>3, <2>4, <2>5, <2>7, FitsAll
    <3> QED BY <2>1, <2>7, <3>1
  <2> QED BY <2>6, <2>7
<1> QED BY <1>1, LearningCorrect, PTL
=============================================================================
