----------------------------- MODULE Recursion -----------------------------
(***************************************************************************)
(* Induction and recursion over the natural numbers, stated with sets and  *)
(* functions so that any prover can use them, and division with a divisor  *)
(* that is not a literal.  The models' loops are functions defined by      *)
(* recursion over 0..n; these lemmas say that such a function exists, that *)
(* it is the only one, and what holds of its values.                       *)
(***************************************************************************)
EXTENDS Integers, WellFoundedInduction, TLAPS

\* The order of the natural numbers, as the library's theorems take it.
Less == {p \in Nat \X Nat : p[1] < p[2]}

LEMMA LessWellFounded == IsWellFoundedOn(Less, Nat)
<1>1. IsWellFoundedOn(OpToRel(<, Nat), Nat)
  BY NatLessThanWellFounded
<1>2. OpToRel(<, Nat) = Less
  BY DEF OpToRel, Less
<1> QED
  BY <1>1, <1>2

\* Some natural numbers have a least among them.
LEMMA HasMin ==
    ASSUME NEW T, T \subseteq Nat, T # {}
    PROVE \E x \in T : \A y \in T : x <= y
<1>1. PICK x \in T : \A y \in T : ~ (<<y, x>> \in Less)
  <2>1. \E x \in T : \A y \in T : ~ (<<y, x>> \in Less)
    BY LessWellFounded, WFMin
  <2> QED
    BY <2>1
<1>2. ASSUME NEW y \in T PROVE x <= y
  <2>1. x \in Nat /\ y \in Nat
    OBVIOUS
  <2>2. <<y, x>> \in Less <=> y < x
    BY <2>1 DEF Less
  <2> QED
    BY <1>1, <2>1, <2>2
<1> QED
  BY <1>2

\* A set that has 0, and with each number the next, has all of them.
LEMMA Induction ==
    ASSUME NEW S, 0 \in S, \A n \in Nat : n \in S => n + 1 \in S
    PROVE  \A n \in Nat : n \in S
<1> SUFFICES ASSUME NEW m \in Nat, m \notin S PROVE FALSE
  OBVIOUS
<1> DEFINE T == {n \in Nat : n \notin S}
<1>1. PICK x \in T : \A y \in T : x <= y
  <2>1. T \subseteq Nat /\ T # {}
    OBVIOUS
  <2> HIDE DEF T
  <2> QED
    BY <2>1, HasMin
<1>2. x \in Nat /\ x # 0
  OBVIOUS
<1>3. x - 1 \in Nat /\ x - 1 \notin T
  BY <1>1, <1>2
<1>4. x - 1 \in S
  BY <1>3
<1>5. (x - 1) + 1 \in S
  BY <1>3, <1>4
<1> QED
  BY <1>2, <1>5

\* f and g start alike and, where they agree, agree one further.
Alike(f, g, n) ==
    f[0] = g[0] /\ \A i \in 1..n : f[i - 1] = g[i - 1] => f[i] = g[i]

Agree(f, g, n) == \A i \in 0..n : f[i] = g[i]

\* Such functions agree up to n.
LEMMA Agreement ==
    ASSUME NEW n \in Nat, NEW f, NEW g, Alike(f, g, n)
    PROVE  Agree(f, g, n)
<1> DEFINE S == {i \in Nat : i <= n => f[i] = g[i]}
<1>1. 0 \in S
  BY DEF Alike
<1>2. ASSUME NEW i \in Nat, i \in S PROVE i + 1 \in S
  <2>1. CASE i + 1 <= n
    <3>1. i + 1 \in 1..n /\ (i + 1) - 1 = i /\ i <= n
      BY <2>1
    <3>2. f[(i + 1) - 1] = g[(i + 1) - 1]
      BY <1>2, <3>1
    <3> QED
      BY <3>1, <3>2 DEF Alike
  <2>2. CASE ~(i + 1 <= n)
    BY <2>2
  <2> QED
    BY <2>1, <2>2
<1>3. \A i \in Nat : i \in S
  <2> HIDE DEF S
  <2> QED
    BY <1>1, <1>2, Induction
<1> QED
  BY <1>3 DEF Agree

\* f starts with a, and F gives each value from the one before.
Follows(f, n, a, F) == f[0] = a /\ \A i \in 1..n : f[i] = F[<<i, f[i - 1]>>]

\* There is such a function of 0..n with values in V.
LEMMA RecursionExists ==
    ASSUME NEW V, NEW n \in Nat, NEW a \in V, NEW F \in [(1..n) \X V -> V]
    PROVE  \E f \in [0..n -> V] : Follows(f, n, a, F)
<1> DEFINE Good(f, m) == f[0] = a /\ \A i \in 1..m : f[i] = F[<<i, f[i - 1]>>]
           S == {m \in Nat : m <= n => \E f \in [0..m -> V] : Good(f, m)}
<1>1. 0 \in S
  <2> DEFINE f == [i \in 0..0 |-> a]
  <2>1. f \in [0..0 -> V] /\ f[0] = a
    OBVIOUS
  <2>2. Good(f, 0)
    BY <2>1
  <2> QED
    BY <2>1, <2>2
<1>2. ASSUME NEW m \in Nat, m \in S PROVE m + 1 \in S
  <2> SUFFICES ASSUME m + 1 <= n PROVE \E f \in [0..(m + 1) -> V] : Good(f, m + 1)
    OBVIOUS
  <2>1. PICK f \in [0..m -> V] : Good(f, m)
    BY <1>2
  <2> DEFINE g == [i \in 0..(m + 1) |-> IF i = m + 1 THEN F[<<m + 1, f[m]>>] ELSE f[i]]
  <2>2. f[m] \in V /\ <<m + 1, f[m]>> \in (1..n) \X V
    OBVIOUS
  <2>3. F[<<m + 1, f[m]>>] \in V
    BY <2>2
  <2>4. g \in [0..(m + 1) -> V]
    BY <2>3
  <2>5. g[0] = a
    BY <2>1
  <2>6. ASSUME NEW i \in 1..(m + 1) PROVE g[i] = F[<<i, g[i - 1]>>]
    <3>1. CASE i = m + 1
      <4>1. g[i] = F[<<m + 1, f[m]>>] /\ i - 1 = m
        BY <3>1
      <4>2. g[m] = f[m]
        OBVIOUS
      <4> QED
        BY <3>1, <4>1, <4>2
    <3>2. CASE i # m + 1
      <4>1. i \in 1..m /\ i - 1 \in 0..m
        BY <3>2
      <4>2. g[i] = f[i] /\ g[i - 1] = f[i - 1]
        BY <3>2, <4>1
      <4> QED
        BY <2>1, <4>1, <4>2
    <3> QED
      BY <3>1, <3>2
  <2> HIDE DEF g
  <2> QED
    BY <2>4, <2>5, <2>6
<1>3. n \in S
  <2> HIDE DEF S
  <2> QED
    BY <1>1, <1>2, Induction
<1> QED
  BY <1>3 DEF Follows

\* Quotient and remainder of a natural number.
LEMMA Division ==
    ASSUME NEW v \in Nat, NEW m \in Nat \ {0}
    PROVE  \E q \in Nat, r \in 0..(m - 1) : v = q * m + r
<1> DEFINE S == {w \in Nat : \E q \in Nat, r \in 0..(m - 1) : w = q * m + r}
<1>1. 0 \in S
  <2>1. 0 = 0 * m + 0 /\ 0 \in 0..(m - 1)
    OBVIOUS
  <2> QED
    BY <2>1
<1>2. ASSUME NEW w \in Nat, w \in S PROVE w + 1 \in S
  <2>1. PICK q \in Nat, r \in 0..(m - 1) : w = q * m + r
    BY <1>2
  <2>2. CASE r = m - 1
    <3>1. (q + 1) * m = q * m + m
      OBVIOUS
    <3>2. w + 1 = (q + 1) * m + 0 /\ 0 \in 0..(m - 1) /\ q + 1 \in Nat
      BY <2>1, <2>2, <3>1
    <3>3. \E p \in Nat, s \in 0..(m - 1) : w + 1 = p * m + s
      BY <3>2, Zenon
    <3> QED
      BY <3>3
  <2>3. CASE r # m - 1
    <3>1. w + 1 = q * m + (r + 1) /\ r + 1 \in 0..(m - 1)
      BY <2>1, <2>3
    <3> QED
      BY <3>1
  <2> QED
    BY <2>2, <2>3
<1>3. v \in S
  <2> HIDE DEF S
  <2> QED
    BY <1>1, <1>2, Induction
<1> QED
  BY <1>3

\* They are what the operators give.
LEMMA QuotientRemainder ==
    ASSUME NEW m \in Nat \ {0}, NEW q \in Nat, NEW r \in 0..(m - 1)
    PROVE  (q * m + r) \div m = q /\ (q * m + r) % m = r
OBVIOUS
=============================================================================
