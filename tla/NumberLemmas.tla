---------------------------- MODULE NumberLemmas ----------------------------
(***************************************************************************)
(* What the proofs about lists and about fixed-point arithmetic need to    *)
(* know of the natural numbers.  Induction is stated of a set of numbers,  *)
(* and recursion of a function that makes a step, for no prover here finds *)
(* the predicate or the operator that the theorems of the library want.    *)
(***************************************************************************)
EXTENDS Integers, WellFoundedInduction, TLAPS

\* A set of natural numbers has a least one.
LEMMA LeastOf ==
  ASSUME NEW T, T \subseteq Nat, T # {}
  PROVE  \E n \in T : \A m \in T : n <= m
<1> DEFINE R == OpToRel(<, Nat)
<1>1. \A n, m \in Nat : n < m => <<n, m>> \in R
  BY DEF OpToRel
<1>2. IsWellFoundedOn(R, Nat)
  BY NatLessThanWellFounded
<1> HIDE DEF R
<1>3. PICK n \in T : \A m \in T : <<m, n>> \notin R
  BY WFMin, <1>2
<1>4. ASSUME NEW m \in T PROVE n <= m
  <2>1. n \in Nat /\ m \in Nat /\ ~(m < n)
    BY <1>1, <1>3
  <2> QED BY <2>1
<1> QED BY <1>4

\* A set of numbers with a bound has a greatest one.
LEMMA GreatestOf ==
  ASSUME NEW n \in Nat, NEW T, T \subseteq 0..n, T # {}
  PROVE  \E g \in T : \A m \in T : g >= m
<1> DEFINE U == {n - m : m \in T}
<1>1. \A m \in T : m \in 0..n /\ n - m \in Nat
  OBVIOUS
<1>2. U \subseteq Nat /\ U # {}
  BY <1>1
<1>3. PICK u \in U : \A v \in U : u <= v
  <2> HIDE DEF U
  <2> QED BY <1>2, LeastOf
<1>4. PICK g \in T : u = n - g
  BY <1>3
<1>5. ASSUME NEW m \in T PROVE g >= m
  <2>1. n - g <= n - m /\ g \in Nat /\ m \in Nat
    BY <1>1, <1>3, <1>4
  <2> QED BY <2>1
<1> QED BY <1>5

\* Induction: a set that has zero, and with each number the next one, has them all.
LEMMA SetInduction ==
  ASSUME NEW S, 0 \in S, \A n \in Nat : n \in S => n + 1 \in S
  PROVE  Nat \subseteq S
<1> SUFFICES ASSUME Nat \ S # {} PROVE FALSE
  OBVIOUS
<1>1. PICK n \in Nat \ S : \A m \in Nat \ S : n <= m
  BY LeastOf
<1>2. n # 0 /\ n - 1 \in Nat /\ ~(n <= n - 1)
  BY <1>1
<1>3. n - 1 \in S
  BY <1>1, <1>2
<1> QED BY <1>2, <1>3, n - 1 + 1 = n

\* A finite induction.
LEMMA UptoInduction ==
  ASSUME NEW n \in Nat, NEW T, 0 \in T, \A i \in 1..n : i - 1 \in T => i \in T
  PROVE  0..n \subseteq T
<1> DEFINE S == {i \in Nat : i <= n => i \in T}
<1>1. 0 \in S
  OBVIOUS
<1>2. ASSUME NEW i \in Nat, i \in S PROVE i + 1 \in S
  <2>1. i + 1 <= n => i + 1 \in 1..n /\ i + 1 - 1 = i /\ i <= n
    OBVIOUS
  <2> QED BY <1>2, <2>1
<1> HIDE DEF S
<1>3. Nat \subseteq S
  BY <1>1, <1>2, SetInduction
<1> QED BY <1>3 DEF S

\* A step makes a value of a value and a position; a recursion begins with the base and
\* makes each of its values from the one before.
IsStep(step, S) == step \in [S \X Nat -> S]
IsRecursion(f, S, base, step, n) ==
  f \in [0..n -> S] /\ f[0] = base /\ \A i \in 1..n : f[i] = step[<<f[i - 1], i>>]

\* There is a recursion for every step.
LEMMA RecursionDefines ==
  ASSUME NEW S, NEW base \in S, NEW step, IsStep(step, S), NEW n \in Nat
  PROVE  \E f : IsRecursion(f, S, base, step, n)
<1> DEFINE T == {k \in Nat : \E f : IsRecursion(f, S, base, step, k)}
<1> USE DEF IsStep, IsRecursion
<1>1. 0 \in T
  <2>1. IsRecursion([i \in 0..0 |-> base], S, base, step, 0)
    OBVIOUS
  <2> QED BY <2>1
<1>2. ASSUME NEW k \in Nat, k \in T PROVE k + 1 \in T
  <2>1. PICK f : IsRecursion(f, S, base, step, k)
    BY <1>2
  <2> DEFINE g == [i \in 0..(k + 1) |-> IF i <= k THEN f[i] ELSE step[<<f[k], k + 1>>]]
  <2>2. f[k] \in S /\ step[<<f[k], k + 1>>] \in S
    BY <2>1
  <2>3. g \in [0..(k + 1) -> S]
    BY <2>1, <2>2
  <2>4. g[0] = base /\ \A i \in 1..k : g[i] = f[i] /\ g[i - 1] = f[i - 1]
    BY <2>1
  <2>5. g[k + 1] = step[<<g[k], k + 1>>] /\ k + 1 - 1 = k
    <3>1. k \in 0..(k + 1) /\ k + 1 \in 0..(k + 1) /\ k <= k /\ ~(k + 1 <= k) /\ k + 1 - 1 = k
      OBVIOUS
    <3> QED BY <3>1
  <2>6. ASSUME NEW i \in 1..(k + 1) PROVE g[i] = step[<<g[i - 1], i>>]
    <3>1. CASE i = k + 1
      BY <2>5, <3>1
    <3>2. CASE i \in 1..k
      BY <2>1, <2>4, <3>2
    <3> HIDE DEF g
    <3> QED BY <3>1, <3>2
  <2> HIDE DEF g
  <2>7. IsRecursion(g, S, base, step, k + 1)
    BY <2>3, <2>4, <2>6
  <2> QED BY <2>7
<1> HIDE DEF T
<1>3. Nat \subseteq T
  BY <1>1, <1>2, SetInduction
<1> QED BY <1>3 DEF T

\* What a division by n leaves.
LEMMA DivisionLeaves ==
  ASSUME NEW a \in Nat, NEW n \in Nat \ {0}
  PROVE  /\ a \div n \in Nat
         /\ n * (a \div n) <= a
         /\ a < n * (a \div n) + n
OBVIOUS

\* A factor can be cancelled.
LEMMA FactorCancels ==
  ASSUME NEW n \in Nat \ {0}, NEW x \in Int, NEW y \in Int, n * x < n * y
  PROVE  x < y
OBVIOUS

\* A division by n of what is at most n times k apart gives what is k apart.
LEMMA QuotientsApart ==
  ASSUME NEW a \in Nat, NEW b \in Nat, NEW n \in Nat \ {0}, NEW k \in Nat, a <= b + n * k
  PROVE  a \div n - b \div n <= k
<1> DEFINE p == a \div n
           q == b \div n
<1>1. p \in Nat /\ q \in Nat /\ n * p <= a /\ b < n * q + n
  BY DivisionLeaves
<1> HIDE DEF p, q
<1>2. n * p < n * q + n + n * k
  BY <1>1
<1>3. n * q + n + n * k = n * (q + 1 + k)
  BY <1>1
<1>4. p < q + 1 + k
  BY <1>1, <1>2, <1>3, FactorCancels
<1>5. p - q <= k
  BY <1>1, <1>4
<1> QED BY <1>5 DEF p, q

\* A division keeps the order.
LEMMA DivisionKeepsOrder ==
  ASSUME NEW a \in Nat, NEW b \in Nat, a <= b, NEW n \in Nat \ {0}
  PROVE  a \div n <= b \div n
OBVIOUS

=============================================================================
