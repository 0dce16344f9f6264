----------------------------- MODULE NumberFacts -----------------------------
(***************************************************************************)
(* Facts about numbers and finite sets that the proofs share: the least    *)
(* number principle and induction, stated over sets instead of predicates. *)
(* They rest on the library's theorem that strict inclusion is well founded*)
(* on finite sets.                                                         *)
(***************************************************************************)
EXTENDS Integers, FiniteSetTheorems, TLAPS

\* A set of natural numbers that is not empty has a least element.
LEMMA Least ==
    ASSUME NEW T \in SUBSET Nat, T # {}
    PROVE  \E x \in T : \A y \in T : x <= y
<1> DEFINE Below == {0..x : x \in T}
           R == StrictSubsetOrdering(Nat)
<1>1. Below \subseteq FiniteSubsetsOf(Nat)
  <2>1. \A x \in T : IsFiniteSet(0..x)
    BY FS_Interval
  <2>2. \A x \in T : 0..x \in SUBSET Nat
    OBVIOUS
  <2> QED BY <2>1, <2>2 DEF FiniteSubsetsOf
<1>2. IsWellFoundedOn(R, FiniteSubsetsOf(Nat))
  BY FS_StrictSubsetOrderingWellFounded
<1>3. Below # {}
  OBVIOUS
<1>4. PICK B \in Below : \A C \in Below : <<C, B>> \notin R
  <2> HIDE DEF Below, R
  <2> QED BY <1>1, <1>2, <1>3, WFMin
<1>5. PICK x \in T : B = 0..x
  OBVIOUS
<1>6. ASSUME NEW y \in T, y < x PROVE FALSE
  <2>1. 0..y \in Below
    OBVIOUS
  <2>2. 0..y \subseteq 0..x /\ x \notin 0..y /\ x \in 0..x
    BY <1>6
  <2>3. 0..y \in SUBSET Nat /\ 0..x \in SUBSET Nat /\ 0..y # 0..x
    BY <2>2
  <2>4. <<0..y, 0..x>> \in R
    BY <2>2, <2>3 DEF StrictSubsetOrdering
  <2> QED BY <1>4, <1>5, <2>1, <2>4
<1> QED BY <1>6

\* A set of numbers of an interval that is not empty has a greatest element.
LEMMA Greatest ==
    ASSUME NEW n \in Int, NEW T \in SUBSET (0..n), T # {}
    PROVE  \E x \in T : \A y \in T : x >= y
<1> DEFINE U == {k \in Nat : n - k \in T}
<1>1. U \in SUBSET Nat
  OBVIOUS
<1>2. \A x \in T : x \in Nat /\ x <= n /\ n - x \in Nat /\ n - (n - x) = x
  OBVIOUS
<1>3. \A x \in T : n - x \in U
  BY <1>2
<1>4. U # {}
  BY <1>3
<1>5. PICK u \in U : \A y \in U : u <= y
  <2> HIDE DEF U
  <2> QED BY <1>1, <1>4, Least
<1>6. n - u \in T /\ u \in Nat
  BY DEF U
<1>7. \A y \in T : n - u >= y
  <2> SUFFICES ASSUME NEW y \in T PROVE n - u >= y
    OBVIOUS
  <2>1. u <= n - y
    BY <1>3, <1>5
  <2> QED BY <2>1, <1>2, <1>6
<1> QED BY <1>6, <1>7

\* Induction: a set of numbers with 0 and with the successor of each of its
\* elements has all of them.
LEMMA Induction ==
    ASSUME NEW T \in SUBSET Nat, 0 \in T, \A n \in T : n + 1 \in T
    PROVE  T = Nat
<1> SUFFICES ASSUME Nat \ T # {} PROVE FALSE
  OBVIOUS
<1> DEFINE U == Nat \ T
<1>1. U \in SUBSET Nat /\ U # {}
  OBVIOUS
<1>2. PICK u \in U : \A y \in U : u <= y
  <2> HIDE DEF U
  <2> QED BY <1>1, Least
<1>3. u \in Nat /\ u \notin T /\ u # 0
  BY DEF U
<1>4. u - 1 \in Nat
  BY <1>3
<1>5. u - 1 \in T
  <2>1. u - 1 \in U => u <= u - 1
    BY <1>2
  <2> QED BY <2>1, <1>3, <1>4 DEF U
<1>6. (u - 1) + 1 \in T
  BY <1>5
<1> QED BY <1>3, <1>6

\* f is computed step by step: f[0] is base, and f[i] is what step[i] makes of
\* the value before.
Computes(f, T, base, step, n) ==
    f \in [0..n -> T] /\ f[0] = base /\ \A i \in 1..n : f[i] = step[i][f[i - 1]]

\* Recursion: such a function exists.
LEMMA Recursion ==
    ASSUME NEW T, NEW base \in T, NEW n \in Nat, NEW step \in [1..n -> [T -> T]]
    PROVE  \E f : Computes(f, T, base, step, n)
<1> DEFINE P == {m \in Nat : m <= n => \E f : Computes(f, T, base, step, m)}
<1>1. 0 \in P
  <2>1. Computes([i \in 0..0 |-> base], T, base, step, 0)
    BY DEF Computes
  <2> QED BY <2>1
<1>2. ASSUME NEW m \in P PROVE m + 1 \in P
  <2> SUFFICES ASSUME m + 1 <= n PROVE \E f : Computes(f, T, base, step, m + 1)
    OBVIOUS
  <2>1. PICK h : Computes(h, T, base, step, m)
    OBVIOUS
  <2>2. PICK v : v = step[m + 1][h[m]]
    OBVIOUS
  <2>3. v \in T
    <3>1. h[m] \in T /\ m + 1 \in 1..n
      BY <2>1 DEF Computes
    <3> QED BY <3>1, <2>2
  <2>4. PICK g : g = [i \in 0..(m + 1) |-> IF i <= m THEN h[i] ELSE v]
    OBVIOUS
  <2>5. g \in [0..(m + 1) -> T] /\ g[0] = base
    BY <2>1, <2>3, <2>4 DEF Computes
  <2>6. ASSUME NEW i \in 1..(m + 1) PROVE g[i] = step[i][g[i - 1]]
    <3>1. i - 1 \in 0..m /\ g[i - 1] = h[i - 1]
      BY <2>4
    <3>2. CASE i <= m
      <4>1. i \in 1..m /\ g[i] = h[i]
        BY <2>4, <3>2
      <4> QED BY <4>1, <3>1, <2>1 DEF Computes
    <3>3. CASE i = m + 1
      <4>1. g[i] = v /\ i - 1 = m
        BY <2>4, <3>3
      <4> QED BY <4>1, <3>1, <2>2, <3>3
    <3> QED BY <3>2, <3>3
  <2> QED BY <2>5, <2>6 DEF Computes
<1>3. P \subseteq Nat
  OBVIOUS
<1> HIDE DEF P
<1>4. Nat \subseteq P
  BY <1>1, <1>2, <1>3, Induction
<1> QED BY <1>4 DEF P

=============================================================================
