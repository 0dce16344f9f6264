--------------------------- MODULE ListSortProofs ---------------------------
(***************************************************************************)
(* rm_header__sort sorts every list, of whatever length and with whatever  *)
(* addresses in it: it loses no header on the way, every pass finds sorted *)
(* runs, and the list it returns is sorted, equal headers in their order.  *)
(***************************************************************************)
EXTENDS ListSort, NumberFacts, SequenceTheorems

-----------------------------------------------------------------------------
(* Lists in memory *)

\* V are the m headers that follow h, no more than k of them.
Follows(V, m, k, h) ==
    /\ m \in Nat /\ k \in Nat /\ m <= k
    /\ V \in [1..m -> 1..n]
    /\ h = IF m = 0 THEN NULL ELSE V[1]
    /\ \A i \in 1..(m - 1) : next[V[i]] = V[i + 1]
    /\ 0 < m /\ m < k => next[V[m]] = NULL

\* Walking the next pointers finds them.
LEMMA ChainIs ==
    ASSUME n \in Nat, NEW V, NEW m, NEW k, NEW h,
           Follows(V, m, k, h) \/ (k = 0 /\ m = 0 /\ V \in [1..0 -> 1..n])
    PROVE  Chain(k, h) = V
<1> DEFINE Is(f) == f = [i \in 1..k |-> IF i = 1 THEN h ELSE Follow(f[i - 1])]
           walk == CHOOSE f : Is(f)
<1>0. m \in Nat /\ k \in Nat /\ m <= k /\ V \in [1..m -> 1..n]
  BY DEF Follows
<1>1. Chain(k, h) = [i \in {j \in 1..k : walk[j] # NULL} |-> walk[i]]
  BY DEF Chain
<1>2. PICK g : g = [i \in 1..k |-> IF i <= m THEN V[i] ELSE NULL]
  OBVIOUS
<1>3. ASSUME NEW i \in 1..k PROVE g[i] = IF i = 1 THEN h ELSE Follow(g[i - 1])
  <2>0. Follows(V, m, k, h)
    BY <1>0
  <2>1. CASE i = 1
    BY <2>0, <2>1, <1>0, <1>2 DEF Follows
  <2>2. CASE i # 1 /\ i <= m
    <3>1. i - 1 \in 1..(m - 1) /\ i - 1 \in 1..k /\ i - 1 <= m /\ (i - 1) + 1 = i
      BY <2>2, <1>0
    <3>2. g[i - 1] = V[i - 1] /\ g[i] = V[i] /\ V[i - 1] \in 1..n
      BY <3>1, <2>2, <1>0, <1>2
    <3>3. next[V[i - 1]] = V[i]
      BY <3>1, <2>0 DEF Follows
    <3> QED BY <3>2, <3>3, <2>2 DEF Follow, NULL
  <2>3. CASE i # 1 /\ i = m + 1
    <3>1. 0 < m /\ m < k /\ m \in 1..k /\ i - 1 = m /\ ~(i <= m)
      BY <2>3, <1>0
    <3>2. g[i - 1] = V[m] /\ g[i] = NULL
      BY <3>1, <1>0, <1>2
    <3>3. next[V[m]] = NULL
      BY <3>1, <2>0 DEF Follows
    <3> QED BY <3>2, <3>3, <2>3 DEF Follow
  <2>4. CASE i # 1 /\ i > m + 1
    <3>1. i - 1 \in 1..k /\ ~(i - 1 <= m) /\ ~(i <= m)
      BY <2>4, <1>0
    <3> QED BY <3>1, <2>4, <1>2 DEF Follow
  <2> QED BY <2>1, <2>2, <2>3, <2>4, <1>0
<1>4. Is(g)
  <2>1. PICK f : f = [i \in 1..k |-> IF i = 1 THEN h ELSE Follow(g[i - 1])]
    OBVIOUS
  <2>2. \A i \in 1..k : f[i] = g[i]
    BY <2>1, <1>3
  <2>3. f = [i \in 1..k |-> f[i]] /\ g = [i \in 1..k |-> g[i]]
    BY <2>1, <1>2
  <2>4. f = g
    BY <2>2, <2>3
  <2> QED BY <2>1, <2>4
<1>5. Is(walk)
  <2> HIDE DEF Is
  <2> QED BY <1>4
<1>6. PICK w : w = walk
  OBVIOUS
<1>7. w = [i \in 1..k |-> IF i = 1 THEN h ELSE Follow(w[i - 1])]
  BY <1>5, <1>6
<1>8. \A i \in 1..k : w[i] = g[i]
  <2> DEFINE T == {i \in Nat : i + 1 <= k => w[i + 1] = g[i + 1]}
  <2>1. 0 \in T
    <3>1. ASSUME 0 + 1 <= k PROVE w[0 + 1] = g[0 + 1]
      <4>1. 1 \in 1..k /\ 0 + 1 = 1
        BY <3>1, <1>0
      <4>2. w[1] = h
        BY <4>1, <1>7
      <4>3. g[1] = h
        BY <4>1, <1>3
      <4> QED BY <4>1, <4>2, <4>3
    <3> QED BY <3>1
  <2>2. ASSUME NEW i \in T PROVE i + 1 \in T
    <3>1. ASSUME (i + 1) + 1 <= k PROVE w[(i + 1) + 1] = g[(i + 1) + 1]
      <4>0. i \in Nat /\ (i + 1 <= k => w[i + 1] = g[i + 1])
        OBVIOUS
      <4>1. PICK x : x = (i + 1) + 1
        OBVIOUS
      <4>2. x \in 1..k /\ x # 1 /\ x - 1 = i + 1 /\ i + 1 <= k
        BY <3>1, <4>0, <4>1, <1>0
      <4>3. w[x] = Follow(w[x - 1])
        BY <4>2, <1>7
      <4>4. g[x] = Follow(g[x - 1])
        BY <4>2, <1>3
      <4>5. w[x - 1] = g[x - 1]
        BY <4>0, <4>2
      <4> QED BY <4>1, <4>3, <4>4, <4>5
    <3> QED BY <3>1
  <2>3. T \in SUBSET Nat
    OBVIOUS
  <2>4. T = Nat
    <3> HIDE DEF T
    <3> QED BY <2>1, <2>2, <2>3, Induction
  <2>5. ASSUME NEW i \in 1..k PROVE w[i] = g[i]
    <3>1. i - 1 \in Nat /\ (i - 1) + 1 = i /\ i <= k
      BY <1>0
    <3>2. i - 1 \in T
      BY <3>1, <2>4
    <3>3. (i - 1) + 1 <= k => w[(i - 1) + 1] = g[(i - 1) + 1]
      BY <3>2
    <3> QED BY <3>1, <3>3
  <2> QED BY <2>5
<1>9. {j \in 1..k : w[j] # NULL} = 1..m
  <2>1. ASSUME NEW j \in 1..k PROVE w[j] # NULL <=> j <= m
    <3>1. w[j] = IF j <= m THEN V[j] ELSE NULL
      BY <1>2, <1>8
    <3>2. j <= m => V[j] \in 1..n
      BY <1>0
    <3> QED BY <3>1, <3>2 DEF NULL
  <2> QED BY <2>1, <1>0
<1>10. \A i \in 1..m : w[i] = V[i]
  BY <1>0, <1>2, <1>8
<1>11. V = [i \in 1..m |-> V[i]]
  BY <1>0
<1>12. Chain(k, h) = [i \in {j \in 1..k : w[j] # NULL} |-> w[i]]
  BY <1>1, <1>6
<1> QED BY <1>9, <1>10, <1>11, <1>12

-----------------------------------------------------------------------------
(* Where runs begin *)

Multiples(w) == {c * w : c \in Nat}

LEMMA MultipleFacts ==
    ASSUME NEW w \in Nat \ {0}
    PROVE  /\ 0 \in Multiples(w)
           /\ \A x \in Multiples(w) : x \in Nat /\ x + w \in Multiples(w)
           /\ \A x \in Multiples(2 * w) : x \in Multiples(w) /\ x + w \in Multiples(w)
<1>1. 0 \in Multiples(w)
  <2>1. 0 * w = 0 /\ 0 \in Nat
    OBVIOUS
  <2> QED BY <2>1 DEF Multiples
<1>2. ASSUME NEW x \in Multiples(w) PROVE x \in Nat /\ x + w \in Multiples(w)
  <2>1. PICK c \in Nat : x = c * w
    BY DEF Multiples
  <2>2. x \in Nat /\ x + w = (c + 1) * w /\ c + 1 \in Nat
    BY <2>1
  <2> QED BY <2>2 DEF Multiples
<1>3. ASSUME NEW x \in Multiples(2 * w) PROVE x \in Multiples(w)
  <2>1. PICK c \in Nat : x = c * (2 * w)
    BY DEF Multiples
  <2>2. x = (2 * c) * w /\ 2 * c \in Nat
    BY <2>1
  <2> QED BY <2>2 DEF Multiples
<1> QED BY <1>1, <1>2, <1>3

LEMMA MultiplesApart ==
    ASSUME NEW w \in Nat \ {0}, NEW x \in Multiples(w), NEW y \in Multiples(w), x < y
    PROVE  x + w <= y
<1>1. PICK c \in Nat : x = c * w
  BY DEF Multiples
<1>2. PICK e \in Nat : y = e * w
  BY DEF Multiples
<1>3. c < e
  <2> SUFFICES ASSUME e <= c PROVE FALSE
    OBVIOUS
  <2>1. PICK f \in Nat : c = e + f
    <3>1. c - e \in Nat /\ c = e + (c - e)
      OBVIOUS
    <3> QED BY <3>1
  <2>2. c * w = e * w + f * w /\ f * w \in Nat /\ e * w \in Nat
    BY <2>1
  <2> QED BY <2>2, <1>1, <1>2
<1>4. PICK f \in Nat : e = c + 1 + f
  <2>1. e - c - 1 \in Nat /\ e = c + 1 + (e - c - 1)
    BY <1>3
  <2> QED BY <2>1
<1>5. e * w = c * w + w + f * w /\ f * w \in Nat /\ c * w \in Nat
  BY <1>4
<1> QED BY <1>1, <1>2, <1>5

-----------------------------------------------------------------------------
(* The inductive invariant.  W lists the headers: first the d that have been  *)
(* merged in this pass, then the psize that are left of the first run, then   *)
(* q and what follows it                                                     *)

Perm(W) ==
    /\ W \in [1..n -> 1..n]
    /\ \A i, j \in 1..n : W[i] = W[j] => i = j
    /\ \A h \in 1..n : \E i \in 1..n : W[i] = h

\* Headers with the same address are in the order they were passed in.
Stable(W) == \A i, j \in 1..n : i < j /\ Key(W[i]) = Key(W[j]) => W[i] < W[j]

Sorted(W, lo, hi) ==
    \A i, j \in 1..n : lo < i /\ i < j /\ j <= hi => Key(W[i]) <= Key(W[j])

\* Next pointers lead along W, except at the cuts.
Linked(W, cuts) == \A i \in 1..(n - 1) : i \notin cuts => next[W[i]] = W[i + 1]
Ended(W) == next[W[n]] = NULL

Merged(W, d) == /\ list = IF d = 0 THEN NULL ELSE W[1]
                /\ tail = IF d = 0 THEN NULL ELSE W[d]

\* Runs before d are merged, runs from d on are not.
Before(W, d) == \A x \in Multiples(2 * insize) : x < d => Sorted(W, x, x + 2 * insize)
After(W, d) == \A x \in Multiples(insize) : x >= d => Sorted(W, x, x + insize)

\* All of the two runs at t is in order but what is left of them.
Region(W, d, t) ==
    \A i, j \in 1..n :
        /\ t < i /\ i < j /\ j <= t + 2 * insize
        /\ ~(d < i /\ i <= d + psize /\ d + psize < j)
        => Key(W[i]) <= Key(W[j])

AtPass(W) == list = W[1] /\ Linked(W, {}) /\ Ended(W) /\ After(W, 0)

AtRuns(W, d) ==
    /\ d \in 0..n /\ Merged(W, d) /\ p = IF d < n THEN W[d + 1] ELSE NULL
    /\ Linked(W, {d}) /\ (d < n => Ended(W) /\ d \in Multiples(2 * insize))
    /\ Before(W, d) /\ After(W, d)
    /\ (nmerges = 0 => d = 0) /\ (nmerges = 1 => d <= 2 * insize)

AtStep(W, d) ==
    /\ d \in 0..n /\ Merged(W, d) /\ p = W[d + 1]
    /\ psize \in Nat /\ psize < insize /\ d + psize < n /\ q = W[d + psize + 1]
    /\ Linked(W, {d}) /\ Ended(W) /\ d \in Multiples(2 * insize)
    /\ Before(W, d) /\ After(W, d)
    /\ nmerges # 0 /\ (nmerges = 1 => d = 0)

AtMerge(W, d, t) ==
    /\ d \in 0..n /\ t \in Multiples(2 * insize) /\ t <= d
    /\ psize \in Nat /\ qsize \in Nat /\ d + psize <= n /\ d + psize <= t + 2 * insize
    /\ Merged(W, d) /\ (psize > 0 => p = W[d + 1])
    /\ q = IF d + psize < n THEN W[d + psize + 1] ELSE NULL
    /\ d + psize < n => qsize = t + 2 * insize - d - psize /\ Ended(W)
    /\ Linked(W, {d, d + psize})
    /\ Before(W, t) /\ After(W, t + 2 * insize) /\ Region(W, d, t)
    /\ nmerges # 0 /\ (nmerges = 1 => t = 0)

AtDone(W) == list = W[1] /\ Linked(W, {}) /\ Ended(W) /\ Sorted(W, 0, n)

Types ==
    /\ n \in Nat \ {0} /\ memory \in [1..n -> 0..MaxAddress] /\ next \in [1..n -> 0..n]
    /\ insize \in Nat \ {0} /\ nmerges \in Nat
    /\ pc \in {"pass", "runs", "step", "merge", "done"}

Shape(W) ==
    /\ Perm(W) /\ Stable(W)
    /\ pc = "pass" => AtPass(W)
    /\ pc = "runs" => \E d \in 0..n : AtRuns(W, d)
    /\ pc = "step" => \E d \in 0..n : AtStep(W, d)
    /\ pc = "merge" => \E d \in 0..n : \E t \in Nat : AtMerge(W, d, t)
    /\ pc = "done" => AtDone(W)

IInv == Types /\ \E W \in [1..n -> 1..n] : Shape(W)

\* Addresses can be compared.
LEMMA KeyFacts ==
    ASSUME Types, NEW h \in 1..n
    PROVE  Key(h) \in Int
<1>1. memory[h] \in 0..MaxAddress /\ MaxAddress \in Nat
  BY LimitsAssumption DEF Types
<1> QED BY <1>1 DEF Key

\* The input stays what it is.
LEMMA SameInput ==
    ASSUME UNCHANGED input, NEW W
    PROVE  /\ n' = n /\ memory' = memory
           /\ Perm(W)' <=> Perm(W)
           /\ Stable(W)' <=> Stable(W)
           /\ \A lo, hi : Sorted(W, lo, hi)' <=> Sorted(W, lo, hi)
<1>1. n' = n /\ memory' = memory
  BY DEF input
<1>2. \A h : Key(h)' = Key(h)
  BY <1>1 DEF Key
<1>3. Perm(W)' <=> Perm(W)
  BY <1>1 DEF Perm
<1>4. Stable(W)' <=> Stable(W)
  BY <1>1, <1>2 DEF Stable
<1>5. \A lo, hi : Sorted(W, lo, hi)' <=> Sorted(W, lo, hi)
  BY <1>1, <1>2 DEF Sorted
<1> QED BY <1>1, <1>3, <1>4, <1>5

LEMMA InitInv == Init => IInv
<1> SUFFICES ASSUME Init PROVE IInv
  OBVIOUS
<1>1. n \in Nat \ {0} /\ insize = 1 /\ nmerges = 0 /\ pc = "pass" /\ list = 1
  BY LimitsAssumption DEF Init
<1>2. Types
  <2>1. next \in [1..n -> 0..n]
    BY <1>1 DEF Init, NULL
  <2>2. memory \in [1..n -> 0..MaxAddress]
    BY DEF Init
  <2> QED BY <1>1, <2>1, <2>2 DEF Types
<1>3. PICK W : W = [i \in 1..n |-> i]
  OBVIOUS
<1>4. Perm(W) /\ Stable(W)
  BY <1>1, <1>3 DEF Perm, Stable
<1>5. Linked(W, {}) /\ Ended(W) /\ list = W[1]
  BY <1>1, <1>3 DEF Linked, Ended, Init
<1>6. After(W, 0)
  <2> SUFFICES ASSUME NEW x \in Multiples(insize) PROVE Sorted(W, x, x + insize)
    BY DEF After
  <2>1. x \in Nat
    BY <1>1, MultipleFacts
  <2> QED BY <2>1, <1>1 DEF Sorted
<1> QED BY <1>1, <1>2, <1>4, <1>5, <1>6 DEF IInv, Shape, AtPass, Perm

-----------------------------------------------------------------------------
(* The steps *)

LEMMA PassBeginsInv ==
    ASSUME IInv, PassBegins
    PROVE  IInv'
<1>1. PICK W \in [1..n -> 1..n] : Shape(W)
  BY DEF IInv
<1>2. /\ pc = "pass" /\ pc' = "runs" /\ p' = list /\ list' = NULL /\ tail' = NULL /\ nmerges' = 0
      /\ UNCHANGED input /\ UNCHANGED <<next, insize>>
  BY DEF PassBegins
<1>3. Types /\ Perm(W) /\ Stable(W) /\ AtPass(W) /\ n \in Nat \ {0} /\ insize \in Nat \ {0}
  BY <1>1, <1>2 DEF IInv, Shape, Types
<1>4. /\ n' = n /\ memory' = memory /\ Perm(W)' /\ Stable(W)'
      /\ \A lo, hi : Sorted(W, lo, hi)' <=> Sorted(W, lo, hi)
  BY <1>2, <1>3, SameInput
<1>5. AtRuns(W, 0)'
  <2>1. Linked(W, {0})' /\ Ended(W)'
    BY <1>2, <1>3, <1>4 DEF AtPass, Linked, Ended
  <2>2. After(W, 0)'
    BY <1>2, <1>3, <1>4 DEF AtPass, After
  <2>3. Before(W, 0)'
    <3> SUFFICES ASSUME NEW x \in Multiples(2 * insize), x < 0 PROVE FALSE
      BY <1>2 DEF Before
    <3>1. 2 * insize \in Nat \ {0}
      BY <1>3
    <3>2. x \in Nat
      BY <3>1, MultipleFacts
    <3> QED BY <3>2
  <2>4. 0 \in Multiples(2 * insize)
    <3>1. 2 * insize \in Nat \ {0}
      BY <1>3
    <3> QED BY <3>1, MultipleFacts
  <2>5. p' = (IF 0 < n THEN W[0 + 1] ELSE NULL)
    BY <1>2, <1>3 DEF AtPass
  <2>6. 0 \in 0..n /\ Merged(W, 0)'
    BY <1>2, <1>3 DEF Merged
  <2>7. nmerges' = 1 => 0 <= 2 * insize
    BY <1>2
  <2> QED BY <2>1, <2>2, <2>3, <2>4, <2>5, <2>6, <2>7, <1>2, <1>4 DEF AtRuns
<1>6. Types'
  BY <1>2, <1>3, <1>4 DEF Types
<1>7. 0 \in 0..n'
  BY <1>3, <1>4
<1> QED BY <1>1, <1>2, <1>4, <1>5, <1>6, <1>7 DEF IInv, Shape

LEMMA MergeBeginsInv ==
    ASSUME IInv, MergeBegins
    PROVE  IInv'
<1>1. PICK W \in [1..n -> 1..n] : Shape(W)
  BY DEF IInv
<1>2. /\ pc = "runs" /\ pc' = "step" /\ p # NULL /\ nmerges' = nmerges + 1 /\ q' = p /\ psize' = 0
      /\ UNCHANGED input /\ UNCHANGED <<next, list, tail, p, insize>>
  BY DEF MergeBegins
<1>3. /\ Types /\ Perm(W) /\ Stable(W) /\ n \in Nat \ {0} /\ insize \in Nat \ {0}
      /\ nmerges \in Nat
  BY <1>1 DEF IInv, Shape, Types
<1>4. /\ n' = n /\ memory' = memory /\ Perm(W)' /\ Stable(W)'
      /\ \A lo, hi : Sorted(W, lo, hi)' <=> Sorted(W, lo, hi)
  BY <1>2, <1>3, SameInput
<1>5. PICK d \in 0..n : AtRuns(W, d)
  BY <1>1, <1>2 DEF Shape
<1>6. d < n /\ p = W[d + 1] /\ d \in Multiples(2 * insize)
  BY <1>2, <1>5 DEF AtRuns
<1>7. AtStep(W, d)'
  <2>1. Linked(W, {d})' /\ Ended(W)' /\ Merged(W, d)'
    BY <1>2, <1>4, <1>5, <1>6 DEF AtRuns, Linked, Ended, Merged
  <2>2. After(W, d)' /\ Before(W, d)'
    BY <1>2, <1>4, <1>5 DEF AtRuns, After, Before
  <2>3. nmerges' # 0 /\ (nmerges' = 1 => d = 0)
    BY <1>2, <1>3, <1>5 DEF AtRuns
  <2>4. psize' \in Nat /\ psize' < insize' /\ d + psize' < n' /\ q' = W[d + psize' + 1]
    <3>1. d + 0 = d
      OBVIOUS
    <3> QED BY <3>1, <1>2, <1>3, <1>4, <1>6
  <2>5. p' = W[d + 1] /\ d \in 0..n' /\ d \in Multiples(2 * insize')
    BY <1>2, <1>4, <1>6
  <2> QED BY <2>1, <2>2, <2>3, <2>4, <2>5 DEF AtStep
<1>8. Types'
  <2>1. nmerges' \in Nat
    BY <1>2, <1>3
  <2> QED BY <2>1, <1>2, <1>3, <1>4 DEF Types
<1> QED BY <1>1, <1>2, <1>4, <1>7, <1>8 DEF IInv, Shape

LEMMA StepAlongInv ==
    ASSUME IInv, StepAlong
    PROVE  IInv'
<1>1. PICK W \in [1..n -> 1..n] : Shape(W)
  BY DEF IInv
<1>2. /\ pc = "step" /\ psize' = psize + 1 /\ q' = next[q]
      /\ IF q' = NULL \/ psize' = insize THEN pc' = "merge" /\ qsize' = insize
                                         ELSE UNCHANGED <<pc, qsize>>
      /\ UNCHANGED input /\ UNCHANGED <<next, list, tail, p, insize, nmerges>>
  BY DEF StepAlong
<1>3. /\ Types /\ Perm(W) /\ Stable(W) /\ n \in Nat \ {0} /\ insize \in Nat \ {0}
      /\ nmerges \in Nat
  BY <1>1 DEF IInv, Shape, Types
<1>4. /\ n' = n /\ memory' = memory /\ Perm(W)' /\ Stable(W)'
      /\ \A lo, hi : Sorted(W, lo, hi)' <=> Sorted(W, lo, hi)
  BY <1>2, <1>3, SameInput
<1>5. PICK d \in 0..n : AtStep(W, d)
  BY <1>1, <1>2 DEF Shape
<1>6. PICK m, w : m = psize /\ w = insize
  OBVIOUS
<1>7. /\ m \in Nat /\ m < w /\ d + m < n /\ q = W[d + m + 1] /\ d \in Multiples(2 * w)
      /\ w \in Nat \ {0} /\ p = W[d + 1] /\ Linked(W, {d}) /\ Ended(W) /\ Merged(W, d)
      /\ Before(W, d) /\ After(W, d) /\ nmerges # 0 /\ (nmerges = 1 => d = 0)
  BY <1>3, <1>5, <1>6 DEF AtStep
<1>8. q' = IF d + m + 1 < n THEN W[d + m + 2] ELSE NULL
  <2>1. CASE d + m + 1 < n
    <3>1. d + m + 1 \in 1..(n - 1) /\ d + m + 1 # d /\ (d + m + 1) + 1 = d + m + 2
      BY <2>1, <1>3, <1>7
    <3>2. next[W[d + m + 1]] = W[d + m + 2]
      BY <3>1, <1>7 DEF Linked
    <3> QED BY <3>2, <2>1, <1>2, <1>7
  <2>2. CASE ~(d + m + 1 < n)
    <3>1. d + m + 1 = n
      BY <2>2, <1>3, <1>7
    <3> QED BY <3>1, <2>2, <1>2, <1>7 DEF Ended
  <2> QED BY <2>1, <2>2
<1>9. q' = NULL <=> ~(d + m + 1 < n)
  <2>1. d + m + 1 < n => W[d + m + 2] \in 1..n
    <3>1. d + m + 1 < n => d + m + 2 \in 1..n
      BY <1>3, <1>7
    <3> QED BY <3>1
  <2> QED BY <2>1, <1>3, <1>8 DEF NULL
<1>10. Linked(W, {d})' /\ Ended(W)' /\ Merged(W, d)' /\ After(W, d)' /\ Before(W, d)'
  BY <1>2, <1>4, <1>7 DEF Linked, Ended, Merged, After, Before
<1>11. Types'
  BY <1>2, <1>3, <1>4 DEF Types
<1>12. CASE ~(q' = NULL \/ psize' = insize)
  <2>1. /\ pc' = "step" /\ psize' = m + 1 /\ m + 1 \in Nat /\ m + 1 < w /\ d + (m + 1) < n
        /\ d + (m + 1) + 1 = d + m + 2 /\ d + m + 1 < n
    <3>1. pc' = "step" /\ psize' = m + 1 /\ m + 1 # w /\ d + m + 1 < n
      BY <1>2, <1>6, <1>9, <1>12
    <3> QED BY <3>1, <1>3, <1>7
  <2>2. q' = W[d + psize' + 1]
    BY <2>1, <1>8
  <2>3. AtStep(W, d)'
    BY <2>1, <2>2, <1>2, <1>4, <1>6, <1>7, <1>10 DEF AtStep
  <2> QED BY <2>1, <2>3, <1>4, <1>11 DEF IInv, Shape
<1>13. CASE q' = NULL \/ psize' = insize
  <2>1. pc' = "merge" /\ qsize' = w /\ psize' = m + 1
    BY <1>2, <1>6, <1>13
  <2>2. d + m + 1 = n \/ m + 1 = w
    BY <2>1, <1>3, <1>6, <1>7, <1>9, <1>13
  <2>3. /\ d \in Multiples(w) /\ d + w \in Multiples(w) /\ d \in Nat
        /\ \A x \in Multiples(w) : x \in Nat
    BY <1>3, <1>7, MultipleFacts
  <2>4. After(W, d + 2 * w)'
    <3> SUFFICES ASSUME NEW x \in Multiples(w), x >= d + 2 * w PROVE Sorted(W, x, x + w)
      BY <1>2, <1>4, <1>6 DEF After
    <3>1. x >= d
      BY <2>3, <1>7
    <3> QED BY <3>1, <1>6, <1>7 DEF After
  <2>5. Region(W, d, d)'
    <3> SUFFICES ASSUME NEW i \in 1..n, NEW j \in 1..n, d < i, i < j, j <= d + 2 * w,
                        ~(d < i /\ i <= d + (m + 1) /\ d + (m + 1) < j)
                 PROVE  Key(W[i]) <= Key(W[j])
      <4>1. \A h : Key(h)' = Key(h)
        BY <1>4 DEF Key
      <4> QED BY <4>1, <2>1, <1>2, <1>4, <1>6 DEF Region
    <3>1. CASE j <= d + m + 1
      <4>1. j <= d + w
        BY <3>1, <1>7
      <4>2. Sorted(W, d, d + w)
        BY <2>3, <1>6, <1>7 DEF After
      <4> QED BY <4>1, <4>2 DEF Sorted
    <3>2. CASE ~(j <= d + m + 1)
      <4>1. d + m + 1 < i /\ m + 1 = w
        BY <3>2, <2>2, <1>3, <1>7
      <4>2. d + w < i /\ j <= (d + w) + w /\ d + w >= d
        BY <4>1, <1>7
      <4>3. Sorted(W, d + w, (d + w) + w)
        BY <4>2, <2>3, <1>6, <1>7 DEF After
      <4> QED BY <4>2, <4>3 DEF Sorted
    <3> QED BY <3>1, <3>2
  <2>6. AtMerge(W, d, d)'
    <3>1. /\ m + 1 \in Nat /\ d + (m + 1) <= n /\ d + (m + 1) <= d + 2 * w
          /\ d + (m + 1) + 1 = d + m + 2 /\ d + (m + 1) = d + m + 1
          /\ (d + m + 1 < n => w = d + 2 * w - d - (m + 1))
      BY <2>2, <1>3, <1>7
    <3>2. q' = IF d + psize' < n THEN W[d + psize' + 1] ELSE NULL
      BY <3>1, <2>1, <1>8
    <3>3. Linked(W, {d, d + psize})'
      BY <1>10 DEF Linked
    <3>4. d + psize' < n' => qsize' = d + 2 * insize' - d - psize'
      BY <3>1, <2>1, <1>2, <1>4, <1>6
    <3>5. d \in 0..n' /\ d \in Multiples(2 * insize') /\ d <= d /\ psize' \in Nat /\ qsize' \in Nat
          /\ d + psize' <= n' /\ d + psize' <= d + 2 * insize'
      BY <3>1, <2>1, <1>2, <1>4, <1>6, <1>7
    <3>6. p' = W[d + 1] /\ nmerges' # 0 /\ (nmerges' = 1 => d = 0)
      BY <1>2, <1>7
    <3>7. After(W, d + 2 * insize)'
      BY <2>4, <1>2, <1>6 DEF After
    <3> QED BY <3>2, <3>3, <3>4, <3>5, <3>6, <3>7, <2>5, <1>4, <1>10 DEF AtMerge
  <2>7. d \in Nat
    OBVIOUS
  <2> QED BY <2>1, <2>6, <2>7, <1>4, <1>11 DEF IInv, Shape
<1> QED BY <1>12, <1>13

\* Linking the next header in after tail leaves all other next pointers alone.
LEMMA LinkFacts ==
    ASSUME Types, NEW W, Perm(W), NEW d \in 0..n, Merged(W, d), NEW e \in 1..n, Link(e)
    PROVE  /\ list' = (IF d = 0 THEN e ELSE W[1]) /\ tail' = e
           /\ next' \in [1..n -> 0..n]
           /\ d # 0 => next'[W[d]] = e
           /\ \A i \in 1..n : i # d => next'[W[i]] = next[W[i]]
           /\ UNCHANGED input /\ UNCHANGED <<insize, nmerges, pc>>
<1>1. n \in Nat \ {0} /\ next \in [1..n -> 0..n] /\ W \in [1..n -> 1..n]
      /\ \A i, j \in 1..n : W[i] = W[j] => i = j
  BY DEF Types, Perm
<1>2. CASE d = 0
  <2>1. tail = NULL
    BY <1>2 DEF Merged
  <2>2. list' = e /\ next' = next /\ tail' = e
    BY <2>1 DEF Link
  <2> QED BY <2>2, <1>1, <1>2 DEF Link
<1>3. CASE d # 0
  <2>1. d \in 1..n
    BY <1>1, <1>3
  <2>2. tail = W[d] /\ W[d] \in 1..n /\ W[d] # NULL /\ list = W[1]
    <3>1. tail = W[d] /\ list = W[1]
      BY <1>3 DEF Merged
    <3>2. W[d] \in 1..n
      BY <2>1, <1>1
    <3>3. \A x \in 1..n : x # NULL
      BY <1>1 DEF NULL
    <3> QED BY <3>1, <3>2, <3>3
  <2>3. next' = [next EXCEPT ![W[d]] = e] /\ list' = W[1] /\ tail' = e
    BY <2>2 DEF Link
  <2>4. next' \in [1..n -> 0..n] /\ next'[W[d]] = e
    <3>1. e \in 0..n
      BY <1>1
    <3> QED BY <3>1, <2>2, <2>3, <1>1
  <2>5. ASSUME NEW i \in 1..n, i # d PROVE next'[W[i]] = next[W[i]]
    <3>1. W[i] # W[d] /\ W[i] \in 1..n
      BY <2>1, <2>5, <1>1
    <3> QED BY <3>1, <2>3, <1>1
  <2> QED BY <2>3, <2>4, <2>5, <1>3 DEF Link
<1> QED BY <1>2, <1>3

LEMMA TakePInv ==
    ASSUME IInv, TakeP
    PROVE  IInv'
<1>1. PICK W \in [1..n -> 1..n] : Shape(W)
  BY DEF IInv
<1>2. /\ pc = "merge" /\ psize > 0 /\ (QLeft => rm_header__cmp(p, q))
      /\ p' = next[p] /\ psize' = psize - 1 /\ Link(p) /\ UNCHANGED <<q, qsize>>
  BY DEF TakeP
<1>3. /\ Types /\ Perm(W) /\ Stable(W) /\ n \in Nat \ {0} /\ insize \in Nat \ {0}
      /\ nmerges \in Nat
  BY <1>1 DEF IInv, Shape, Types
<1>4. PICK d \in 0..n, t \in Nat : AtMerge(W, d, t)
  BY <1>1, <1>2 DEF Shape
<1>5. PICK m, w : m = psize /\ w = insize
  OBVIOUS
<1>6. /\ t \in Multiples(2 * w) /\ t <= d /\ m \in Nat /\ qsize \in Nat /\ d + m <= n
      /\ d + m <= t + 2 * w /\ Merged(W, d) /\ (m > 0 => p = W[d + 1])
      /\ q = (IF d + m < n THEN W[d + m + 1] ELSE NULL)
      /\ (d + m < n => qsize = t + 2 * w - d - m /\ Ended(W))
      /\ Linked(W, {d, d + m}) /\ Before(W, t) /\ After(W, t + 2 * w) /\ Region(W, d, t)
      /\ nmerges # 0 /\ (nmerges = 1 => t = 0)
  BY <1>4, <1>5 DEF AtMerge
<1>7. m > 0 /\ p = W[d + 1] /\ d + 1 \in 1..n /\ p \in 1..n
  <2>1. m > 0 /\ p = W[d + 1]
    BY <1>2, <1>5, <1>6
  <2>2. d + 1 \in 1..n
    BY <2>1, <1>3, <1>6
  <2> QED BY <2>1, <2>2
<1>8. /\ list' = (IF d = 0 THEN p ELSE W[1]) /\ tail' = p
      /\ next' \in [1..n -> 0..n] /\ (d # 0 => next'[W[d]] = p)
      /\ \A i \in 1..n : i # d => next'[W[i]] = next[W[i]]
      /\ UNCHANGED input /\ UNCHANGED <<insize, nmerges, pc>>
  <2>1. Types /\ Perm(W) /\ Merged(W, d) /\ p \in 1..n /\ Link(p)
    BY <1>2, <1>3, <1>6, <1>7
  <2> QED BY <2>1, LinkFacts
<1>9. /\ n' = n /\ memory' = memory /\ Perm(W)' /\ Stable(W)'
      /\ \A lo, hi : Sorted(W, lo, hi)' <=> Sorted(W, lo, hi)
  BY <1>3, <1>8, SameInput
<1>10. Types'
  BY <1>3, <1>8, <1>9 DEF Types
<1>11. PICK e, k : e = d + 1 /\ k = m - 1
  OBVIOUS
<1>12. /\ e \in 1..n /\ e \in Nat /\ k \in Nat /\ e + k = d + m /\ psize' = k /\ t <= e /\ e # 0
       /\ e \in 0..n
  BY <1>2, <1>3, <1>5, <1>6, <1>7, <1>11
<1>13. Merged(W, e)'
  <2>1. list' = W[1]
    BY <1>7, <1>8
  <2> QED BY <2>1, <1>7, <1>8, <1>11, <1>12 DEF Merged
<1>14. k > 0 => p' = W[e + 1]
  <2> SUFFICES ASSUME k > 0 PROVE p' = W[e + 1]
    OBVIOUS
  <2>1. e \in 1..(n - 1) /\ e # d /\ e # d + m
    BY <1>3, <1>6, <1>11, <1>12
  <2> QED BY <2>1, <1>2, <1>6, <1>7, <1>11 DEF Linked
<1>15. Linked(W, {e, e + k})'
  <2> SUFFICES ASSUME NEW i \in 1..(n - 1), i \notin {e, e + k}
               PROVE  next'[W[i]] = W[i + 1]
    BY <1>9, <1>12 DEF Linked
  <2>1. CASE i = d
    BY <2>1, <1>3, <1>7, <1>8
  <2>2. CASE i # d
    <3>1. i \in 1..n /\ i \notin {d, d + m}
      BY <2>2, <1>3, <1>12
    <3> QED BY <3>1, <2>2, <1>6, <1>8 DEF Linked
  <2> QED BY <2>1, <2>2
<1>16. d + m < n => Ended(W)'
  <2> SUFFICES ASSUME d + m < n PROVE Ended(W)'
    OBVIOUS
  <2>1. n \in 1..n /\ n # d
    BY <1>3, <1>6
  <2> QED BY <2>1, <1>6, <1>8, <1>9 DEF Ended
<1>17. Before(W, t)' /\ After(W, t + 2 * insize)'
  BY <1>5, <1>6, <1>8, <1>9 DEF Before, After
<1>18. Region(W, e, t)'
  <2>0. \A h : Key(h)' = Key(h)
    BY <1>9 DEF Key
  <2> SUFFICES ASSUME NEW i \in 1..n, NEW j \in 1..n, t < i, i < j, j <= t + 2 * w,
                      ~(e < i /\ i <= e + k /\ e + k < j)
               PROVE  Key(W[i]) <= Key(W[j])
    BY <2>0, <1>5, <1>8, <1>9, <1>12 DEF Region
  <2>1. CASE ~(d < i /\ i <= d + m /\ d + m < j)
    BY <2>1, <1>5, <1>6 DEF Region
  <2>2. CASE d < i /\ i <= d + m /\ d + m < j
    <3>1. i = d + 1
      BY <2>2, <1>11, <1>12
    <3>2. d + m < n /\ d + m + 1 \in 1..n /\ qsize > 0
      <4>1. d + m < n /\ d + m + 1 \in 1..n
        BY <2>2, <1>3, <1>6, SMTT(30)
      <4>2. PICK y : y = qsize
        OBVIOUS
      <4>3. y = t + 2 * w - d - m /\ w \in Nat /\ m \in Nat
        BY <4>1, <4>2, <1>3, <1>5, <1>6
      <4>4. y > 0
        BY <4>3, <2>2
      <4> QED BY <4>1, <4>2, <4>4
    <3>3. q = W[d + m + 1] /\ q \in 1..n
      BY <3>2, <1>6
    <3>4. QLeft
      BY <3>2, <3>3, <1>3 DEF QLeft, NULL
    <3>5. Key(W[i]) <= Key(W[d + m + 1])
      BY <3>1, <3>3, <3>4, <1>2, <1>7 DEF rm_header__cmp
    <3>6. Key(W[d + m + 1]) <= Key(W[j])
      <4>1. CASE j = d + m + 1
        <5>1. Key(W[j]) \in Int
          BY <1>3, KeyFacts
        <5> QED BY <4>1, <5>1
      <4>2. CASE j # d + m + 1
        <5>1. t < d + m + 1 /\ d + m + 1 < j
          BY <4>2, <2>2, <1>6
        <5>2. ~(d + m + 1 <= d + m)
          BY <1>6
        <5> QED BY <5>1, <5>2, <3>2, <1>5, <1>6 DEF Region
      <4> QED BY <4>1, <4>2
    <3>7. Key(W[i]) \in Int /\ Key(W[j]) \in Int /\ Key(W[d + m + 1]) \in Int
      BY <3>2, <1>3, KeyFacts
    <3> QED BY <3>5, <3>6, <3>7
  <2> QED BY <2>1, <2>2
<1>19. AtMerge(W, e, t)'
  <2>1. /\ e \in 0..n' /\ t \in Multiples(2 * insize') /\ t <= e /\ psize' \in Nat /\ qsize' \in Nat
        /\ e + psize' <= n' /\ e + psize' <= t + 2 * insize'
    BY <1>2, <1>5, <1>6, <1>8, <1>9, <1>12
  <2>2. psize' > 0 => p' = W[e + 1]
    BY <1>12, <1>14
  <2>3. q' = IF e + psize' < n' THEN W[e + psize' + 1] ELSE NULL
    BY <1>2, <1>6, <1>9, <1>12
  <2>4. e + psize' < n' => qsize' = t + 2 * insize' - e - psize' /\ Ended(W)'
    <3>1. d + m < n => qsize = t + 2 * w - e - k
      <4> SUFFICES ASSUME d + m < n PROVE qsize = t + 2 * w - e - k
        OBVIOUS
      <4>1. qsize = t + 2 * w - d - m
        BY <1>6
      <4> QED BY <4>1, <1>3, <1>5, <1>6, <1>11
    <3> QED BY <3>1, <1>2, <1>5, <1>8, <1>9, <1>12, <1>16
  <2>5. Linked(W, {e, e + psize})'
    BY <1>12, <1>15
  <2>6. nmerges' # 0 /\ (nmerges' = 1 => t = 0)
    BY <1>6, <1>8
  <2> QED BY <2>1, <2>2, <2>3, <2>4, <2>5, <2>6, <1>13, <1>17, <1>18 DEF AtMerge
<1>20. pc' = "merge" /\ e \in 0..n'
  BY <1>2, <1>8, <1>9, <1>12
<1> QED BY <1>9, <1>10, <1>19, <1>20 DEF IInv, Shape

\* Header m of the list is moved to place d + 1.
From(d, m, i) == IF i = d + 1 THEN m ELSE IF d + 1 < i /\ i <= m THEN i - 1 ELSE i
Moved(W, d, m) == [i \in 1..n |-> W[From(d, m, i)]]

LEMMA FromFacts ==
    ASSUME n \in Nat, NEW d \in 0..n, NEW m \in 1..n, d < m
    PROVE  /\ \A i \in 1..n : From(d, m, i) \in 1..n
           /\ \A i, j \in 1..n : From(d, m, i) = From(d, m, j) => i = j
           /\ \A j \in 1..n : \E i \in 1..n : From(d, m, i) = j
<1>1. ASSUME NEW i \in 1..n PROVE From(d, m, i) \in 1..n
  BY DEF From
<1>2. ASSUME NEW i \in 1..n, NEW j \in 1..n, From(d, m, i) = From(d, m, j) PROVE i = j
  BY <1>2 DEF From
<1>3. ASSUME NEW j \in 1..n PROVE \E i \in 1..n : From(d, m, i) = j
  <2>1. CASE j = m
    <3>1. d + 1 \in 1..n /\ From(d, m, d + 1) = j
      BY <2>1 DEF From
    <3> QED BY <3>1
  <2>2. CASE d < j /\ j < m
    <3>1. j + 1 \in 1..n /\ From(d, m, j + 1) = j
      BY <2>2 DEF From
    <3> QED BY <3>1
  <2>3. CASE j <= d \/ m < j
    <3>1. From(d, m, j) = j
      BY <2>3 DEF From
    <3> QED BY <3>1
  <2> QED BY <2>1, <2>2, <2>3
<1> QED BY <1>1, <1>2, <1>3

LEMMA MovedPerm ==
    ASSUME n \in Nat, NEW W, Perm(W), NEW d \in 0..n, NEW m \in 1..n, d < m
    PROVE  /\ Moved(W, d, m) \in [1..n -> 1..n] /\ Perm(Moved(W, d, m))
           /\ \A i \in 1..n : Moved(W, d, m)[i] = W[From(d, m, i)]
<1> DEFINE V == Moved(W, d, m)
<1>1. \A i \in 1..n : V[i] = W[From(d, m, i)]
  BY DEF Moved
<1>2. W \in [1..n -> 1..n] /\ \A i \in 1..n : From(d, m, i) \in 1..n
  BY FromFacts DEF Perm
<1>3. V \in [1..n -> 1..n]
  BY <1>2 DEF Moved
<1>4. ASSUME NEW i \in 1..n, NEW j \in 1..n, V[i] = V[j] PROVE i = j
  <2>1. From(d, m, i) = From(d, m, j)
    <3>1. PICK a, b : a = From(d, m, i) /\ b = From(d, m, j)
      OBVIOUS
    <3>2. a \in 1..n /\ b \in 1..n /\ W[a] = W[b]
      BY <3>1, <1>1, <1>2, <1>4
    <3>3. a = b
      BY <3>2 DEF Perm
    <3> QED BY <3>1, <3>3
  <2> QED BY <2>1, FromFacts
<1>5. ASSUME NEW h \in 1..n PROVE \E i \in 1..n : V[i] = h
  <2>1. PICK j \in 1..n : W[j] = h
    BY DEF Perm
  <2>2. PICK i \in 1..n : From(d, m, i) = j
    BY FromFacts
  <2> QED BY <2>1, <2>2, <1>1
<1> HIDE DEF V
<1>6. Perm(V)
  BY <1>3, <1>4, <1>5 DEF Perm
<1> QED BY <1>1, <1>3, <1>6 DEF V

LEMMA TakeQInv ==
    ASSUME IInv, TakeQ
    PROVE  IInv'
<1>1. PICK W \in [1..n -> 1..n] : Shape(W)
  BY DEF IInv
<1>2. /\ pc = "merge" /\ QLeft /\ (psize > 0 => ~rm_header__cmp(p, q))
      /\ q' = next[q] /\ qsize' = qsize - 1 /\ Link(q) /\ UNCHANGED <<p, psize>>
  BY DEF TakeQ
<1>3. /\ Types /\ Perm(W) /\ Stable(W) /\ n \in Nat \ {0} /\ n \in Nat /\ insize \in Nat \ {0}
      /\ nmerges \in Nat
  BY <1>1 DEF IInv, Shape, Types
<1>4. PICK d \in 0..n, t \in Nat : AtMerge(W, d, t)
  BY <1>1, <1>2 DEF Shape
<1>5. PICK k, w, m, e, V : k = psize /\ w = insize /\ m = d + k + 1 /\ e = d + 1 /\ V = Moved(W, d, m)
  OBVIOUS
<1>6. /\ t \in Multiples(2 * w) /\ t <= d /\ k \in Nat /\ qsize \in Nat /\ d + k <= n
      /\ d + k <= t + 2 * w /\ Merged(W, d) /\ (k > 0 => p = W[e])
      /\ q = (IF d + k < n THEN W[m] ELSE NULL)
      /\ (d + k < n => qsize = t + 2 * w - d - k /\ Ended(W))
      /\ Linked(W, {d, d + k}) /\ Before(W, t) /\ After(W, t + 2 * w) /\ Region(W, d, t)
      /\ nmerges # 0 /\ (nmerges = 1 => t = 0) /\ w \in Nat \ {0}
  BY <1>3, <1>4, <1>5 DEF AtMerge
<1>7. /\ d + k < n /\ q = W[m] /\ qsize = t + 2 * w - d - k /\ Ended(W) /\ qsize > 0
  BY <1>2, <1>6 DEF QLeft
<1>8. m \in 1..n /\ d < m /\ e \in 1..n /\ q \in 1..n /\ m <= t + 2 * w /\ e <= m /\ m \in Nat /\ e \in Nat
  <2>1. m \in 1..n /\ d < m /\ e \in 1..n /\ e <= m /\ m \in Nat /\ e \in Nat
    BY <1>3, <1>5, <1>6, <1>7
  <2>2. m <= t + 2 * w
    <3>1. PICK y : y = qsize
      OBVIOUS
    <3>2. y > 0 /\ y = t + 2 * w - d - k
      BY <3>1, <1>7
    <3> QED BY <3>2, <1>5, <1>6
  <2> QED BY <2>1, <2>2, <1>7
<1>9. /\ V \in [1..n -> 1..n] /\ Perm(V) /\ \A i \in 1..n : V[i] = W[From(d, m, i)]
  <2>1. Perm(W) /\ n \in Nat /\ m \in 1..n /\ d < m
    BY <1>3, <1>8
  <2>2. /\ Moved(W, d, m) \in [1..n -> 1..n] /\ Perm(Moved(W, d, m))
        /\ \A i \in 1..n : Moved(W, d, m)[i] = W[From(d, m, i)]
    BY <2>1, MovedPerm
  <2> QED BY <2>2, <1>5
<1>10. /\ V[e] = W[m]
       /\ \A i \in 1..n : i <= d \/ m < i => V[i] = W[i]
       /\ \A i \in 1..n : e < i /\ i <= m => V[i] = W[i - 1]
  <2>1. From(d, m, e) = m
    BY <1>5, <1>8 DEF From
  <2>2. ASSUME NEW i \in 1..n, i <= d \/ m < i PROVE From(d, m, i) = i
    BY <2>2, <1>5, <1>8 DEF From
  <2>3. ASSUME NEW i \in 1..n, e < i, i <= m PROVE From(d, m, i) = i - 1
    BY <2>3, <1>5, <1>8 DEF From
  <2> QED BY <2>1, <2>2, <2>3, <1>8, <1>9
<1>11. /\ list' = (IF d = 0 THEN q ELSE W[1]) /\ tail' = q
       /\ next' \in [1..n -> 0..n] /\ (d # 0 => next'[W[d]] = q)
       /\ \A i \in 1..n : i # d => next'[W[i]] = next[W[i]]
       /\ UNCHANGED input /\ UNCHANGED <<insize, nmerges, pc>>
  <2>1. Types /\ Perm(W) /\ Merged(W, d) /\ q \in 1..n /\ Link(q)
    BY <1>2, <1>3, <1>6, <1>8
  <2> QED BY <2>1, LinkFacts
<1>12. /\ n' = n /\ memory' = memory /\ Perm(V)' /\ (Stable(V)' <=> Stable(V))
       /\ \A lo, hi : Sorted(V, lo, hi)' <=> Sorted(V, lo, hi)
  BY <1>9, <1>11, SameInput
<1>13. Types'
  BY <1>3, <1>11, <1>12 DEF Types
<1>14. \A i \in 1..n : Key(W[i]) \in Int /\ Key(V[i]) \in Int
  BY <1>3, <1>9, KeyFacts
\* The q header is smaller than all that is left of the first run
<1>15. ASSUME NEW j \in 1..n, d < j, j <= d + k PROVE Key(W[m]) < Key(W[j])
  <2>1. k > 0 /\ e \in 1..n /\ p = W[e]
    BY <1>15, <1>6, <1>8
  <2>2. ~(Key(W[e]) <= Key(W[m]))
    BY <2>1, <1>2, <1>5, <1>7 DEF rm_header__cmp
  <2>3. Key(W[e]) <= Key(W[j])
    <3>1. CASE j = e
      BY <3>1, <1>14
    <3>2. CASE j # e
      <4>1. t < e /\ e < j /\ j <= t + 2 * w /\ ~(d + k < j)
        BY <3>2, <1>5, <1>6, <1>15
      <4> QED BY <4>1, <2>1, <1>5, <1>6 DEF Region
    <3> QED BY <3>1, <3>2
  <2> QED BY <2>1, <2>2, <2>3, <1>8, <1>14
<1>16. Stable(V)
  <2> SUFFICES ASSUME NEW i \in 1..n, NEW j \in 1..n, i < j, Key(V[i]) = Key(V[j])
               PROVE  V[i] < V[j]
    BY DEF Stable
  <2>0. PICK a, b : a = From(d, m, i) /\ b = From(d, m, j)
    OBVIOUS
  <2>1. a \in 1..n /\ b \in 1..n /\ V[i] = W[a] /\ V[j] = W[b]
    BY <2>0, <1>3, <1>8, <1>9, FromFacts
  <2>2. CASE i = e /\ j <= m
    <3>1. V[i] = W[m] /\ V[j] = W[j - 1] /\ j - 1 \in 1..n /\ d < j - 1 /\ j - 1 <= d + k
      <4>1. e < j /\ j <= m
        BY <2>2
      <4>2. V[i] = W[m] /\ V[j] = W[j - 1]
        BY <4>1, <2>2, <1>10
      <4>3. j - 1 \in 1..n /\ d < j - 1 /\ j - 1 <= d + k
        BY <4>1, <1>3, <1>5, <1>6
      <4> QED BY <4>2, <4>3
    <3>2. Key(W[m]) < Key(W[j - 1])
      BY <3>1, <1>15
    <3> QED BY <3>1, <3>2, <1>8, <1>14
  <2>3. CASE ~(i = e /\ j <= m)
    <3>1. a < b
      BY <2>0, <2>3, <1>5, <1>8 DEF From
    <3> QED BY <3>1, <2>1, <1>3 DEF Stable
  <2> QED BY <2>2, <2>3
<1>17. Merged(V, e)'
  <2>1. e # 0 /\ 1 \in 1..n /\ tail' = V[e]
    BY <1>3, <1>7, <1>8, <1>10, <1>11
  <2>2. list' = V[1]
    <3>1. CASE d = 0
      BY <3>1, <1>5, <1>7, <1>10, <1>11
    <3>2. CASE d # 0
      <4>1. 1 <= d
        BY <3>2
      <4> QED BY <4>1, <3>2, <2>1, <1>10, <1>11
    <3> QED BY <3>1, <3>2
  <2> QED BY <2>1, <2>2 DEF Merged
<1>18. k > 0 => p' = V[e + 1]
  <2> SUFFICES ASSUME k > 0 PROVE p' = V[e + 1]
    OBVIOUS
  <2>1. e + 1 \in 1..n /\ e < e + 1 /\ e + 1 <= m /\ (e + 1) - 1 = e
    BY <1>3, <1>5, <1>6, <1>7, <1>8
  <2> QED BY <2>1, <1>2, <1>6, <1>10
<1>19. q' = IF m < n THEN V[m + 1] ELSE NULL
  <2>1. CASE m < n
    <3>1. m \in 1..(n - 1) /\ m \notin {d, d + k} /\ m + 1 \in 1..n /\ m < m + 1
      BY <2>1, <1>3, <1>5, <1>6, <1>8
    <3>2. next[W[m]] = W[m + 1]
      BY <3>1, <1>6 DEF Linked
    <3> QED BY <3>1, <3>2, <2>1, <1>2, <1>7, <1>10
  <2>2. CASE ~(m < n)
    <3>1. m = n
      BY <2>2, <1>3, <1>8
    <3> QED BY <3>1, <2>2, <1>2, <1>7 DEF Ended
  <2> QED BY <2>1, <2>2
<1>20. Linked(V, {e, m})'
  <2> SUFFICES ASSUME NEW i \in 1..(n - 1), i \notin {e, m} PROVE next'[V[i]] = V[i + 1]
    BY <1>12 DEF Linked
  <2>0. i \in 1..n /\ i + 1 \in 1..n
    BY <1>3
  <2>1. CASE i = d
    <3>1. V[i] = W[d] /\ i + 1 = e /\ d # 0
      BY <2>0, <2>1, <1>5, <1>10
    <3> QED BY <3>1, <1>7, <1>10, <1>11
  <2>2. CASE i < d
    <3>1. V[i] = W[i] /\ V[i + 1] = W[i + 1] /\ i \notin {d, d + k}
      BY <2>0, <2>2, <1>6, <1>10
    <3> QED BY <3>1, <2>0, <2>2, <1>6, <1>11 DEF Linked
  <2>3. CASE e < i /\ i < m
    <3>1. PICK a : a = i - 1
      OBVIOUS
    <3>2. a \in 1..(n - 1) /\ a \in 1..n /\ a \notin {d, d + k} /\ a + 1 = i
      BY <3>1, <2>3, <1>3, <1>5, <1>6, <1>8
    <3>3. V[i] = W[a] /\ V[i + 1] = W[i]
      <4>1. e < i + 1 /\ i + 1 <= m /\ (i + 1) - 1 = i /\ i <= m
        BY <2>3, <1>8
      <4> QED BY <4>1, <3>1, <2>0, <2>3, <1>10
    <3>4. next[W[a]] = W[i] /\ next'[W[a]] = next[W[a]]
      BY <3>2, <1>6, <1>11 DEF Linked
    <3> QED BY <3>3, <3>4
  <2>4. CASE m < i
    <3>1. V[i] = W[i] /\ V[i + 1] = W[i + 1] /\ i \notin {d, d + k}
      <4>1. m < i + 1
        BY <2>4, <1>8
      <4> QED BY <4>1, <2>0, <2>4, <1>5, <1>6, <1>8, <1>10
    <3> QED BY <3>1, <2>0, <2>4, <1>6, <1>11 DEF Linked
  <2> QED BY <2>1, <2>2, <2>3, <2>4, <1>5, <1>8
<1>21. m < n => Ended(V)'
  <2> SUFFICES ASSUME m < n PROVE Ended(V)'
    OBVIOUS
  <2>1. n \in 1..n /\ n # d
    BY <1>3, <1>8
  <2>2. V[n] = W[n]
    BY <2>1, <1>10
  <2> QED BY <2>1, <2>2, <1>7, <1>11, <1>12 DEF Ended
<1>22. Before(V, t)'
  <2> SUFFICES ASSUME NEW x \in Multiples(2 * w), x < t PROVE Sorted(V, x, x + 2 * w)
    BY <1>5, <1>11, <1>12 DEF Before
  <2>1. 2 * w \in Nat \ {0}
    BY <1>6
  <2>2. x \in Nat /\ x + 2 * w <= t
    BY <2>1, <1>6, MultipleFacts, MultiplesApart
  <2>3. Sorted(W, x, x + 2 * w)
    BY <1>5, <1>6 DEF Before
  <2> SUFFICES ASSUME NEW i \in 1..n, NEW j \in 1..n, x < i, i < j, j <= x + 2 * w
               PROVE  Key(V[i]) <= Key(V[j])
    BY DEF Sorted
  <2>4. V[i] = W[i] /\ V[j] = W[j]
    <3>1. i <= d /\ j <= d
      BY <2>2, <1>6
    <3> QED BY <3>1, <1>10
  <2> QED BY <2>3, <2>4 DEF Sorted
<1>23. After(V, t + 2 * insize)'
  <2> SUFFICES ASSUME NEW x \in Multiples(w), x >= t + 2 * w PROVE Sorted(V, x, x + w)
    BY <1>5, <1>11, <1>12 DEF After
  <2>1. x \in Nat
    BY <1>6, MultipleFacts
  <2>2. Sorted(W, x, x + w)
    BY <1>5, <1>6 DEF After
  <2> SUFFICES ASSUME NEW i \in 1..n, NEW j \in 1..n, x < i, i < j, j <= x + w
               PROVE  Key(V[i]) <= Key(V[j])
    BY DEF Sorted
  <2>3. V[i] = W[i] /\ V[j] = W[j]
    <3>1. m < i /\ m < j
      BY <2>1, <1>6, <1>8
    <3> QED BY <3>1, <1>10
  <2> QED BY <2>2, <2>3 DEF Sorted
<1>24. Region(V, e, t)'
  <2>0. \A h : Key(h)' = Key(h)
    BY <1>12 DEF Key
  <2> SUFFICES ASSUME NEW i \in 1..n, NEW j \in 1..n, t < i, i < j, j <= t + 2 * w,
                      ~(e < i /\ i <= e + k /\ e + k < j)
               PROVE  Key(V[i]) <= Key(V[j])
    BY <2>0, <1>2, <1>5, <1>11, <1>12 DEF Region
  <2>1. PICK a, b : a = From(d, m, i) /\ b = From(d, m, j)
    OBVIOUS
  <2>2. a \in 1..n /\ b \in 1..n /\ V[i] = W[a] /\ V[j] = W[b] /\ e + k = m
    <3>1. e + k = m
      BY <1>5, <1>6
    <3> QED BY <3>1, <2>1, <1>3, <1>8, <1>9, FromFacts
  <2>3. CASE i = e /\ j <= m
    <3>1. V[i] = W[m] /\ V[j] = W[j - 1] /\ j - 1 \in 1..n /\ d < j - 1 /\ j - 1 <= d + k
      <4>1. e < j /\ j <= m
        BY <2>3
      <4>2. V[i] = W[m] /\ V[j] = W[j - 1]
        BY <4>1, <2>3, <1>10
      <4>3. j - 1 \in 1..n /\ d < j - 1 /\ j - 1 <= d + k
        BY <4>1, <1>3, <1>5, <1>6
      <4> QED BY <4>2, <4>3
    <3>2. Key(W[m]) < Key(W[j - 1])
      BY <3>1, <1>15
    <3> QED BY <3>1, <3>2, <1>8, <1>14, SMTT(30)
  <2>4. CASE ~(i = e /\ j <= m)
    <3>1. a < b /\ t < a /\ b <= t + 2 * w
      BY <2>1, <2>4, <1>5, <1>6, <1>8 DEF From
    <3>2. ~(d < a /\ a <= d + k /\ d + k < b)
      BY <2>1, <2>2, <2>4, <1>5, <1>6, <1>8 DEF From
    <3>3. Key(W[a]) <= Key(W[b])
      BY <3>1, <3>2, <2>2, <1>5, <1>6 DEF Region
    <3> QED BY <3>3, <2>2
  <2> QED BY <2>3, <2>4
<1>25. AtMerge(V, e, t)'
  <2>0. e + k = m /\ psize' = k
    BY <1>2, <1>5, <1>6
  <2>1. /\ e \in 0..n' /\ t \in Multiples(2 * insize') /\ t <= e /\ psize' \in Nat
        /\ e + psize' <= n' /\ e + psize' <= t + 2 * insize'
    BY <2>0, <1>5, <1>6, <1>8, <1>11, <1>12
  <2>2. psize' > 0 => p' = V[e + 1]
    BY <2>0, <1>18
  <2>3. q' = IF e + psize' < n' THEN V[e + psize' + 1] ELSE NULL
    BY <2>0, <1>12, <1>19
  <2>4. qsize' \in Nat /\ qsize' = t + 2 * insize' - e - psize'
    <3>1. PICK y : y = qsize
      OBVIOUS
    <3>2. y \in Nat /\ y > 0 /\ y = t + 2 * w - d - k
      BY <3>1, <1>6, <1>7
    <3>3. y - 1 \in Nat /\ y - 1 = t + 2 * w - e - k
      BY <3>2, <1>5, <1>6
    <3> QED BY <3>1, <3>3, <2>0, <1>2, <1>5, <1>11
  <2>5. Linked(V, {e, e + psize})'
    BY <2>0, <1>20
  <2>6. nmerges' # 0 /\ (nmerges' = 1 => t = 0)
    BY <1>6, <1>11
  <2>7. e + psize' < n' => Ended(V)'
    BY <2>0, <1>12, <1>21
  <2> QED BY <2>1, <2>2, <2>3, <2>4, <2>5, <2>6, <2>7, <1>17, <1>22, <1>23, <1>24 DEF AtMerge
<1>26. pc' = "merge" /\ e \in 0..n' /\ V \in [1..n' -> 1..n']
  BY <1>2, <1>8, <1>9, <1>11, <1>12
<1> QED BY <1>12, <1>13, <1>16, <1>25, <1>26 DEF IInv, Shape

LEMMA MergeEndsInv ==
    ASSUME IInv, MergeEnds
    PROVE  IInv'
<1>1. PICK W \in [1..n -> 1..n] : Shape(W)
  BY DEF IInv
<1>2. /\ pc = "merge" /\ pc' = "runs" /\ psize = 0 /\ ~QLeft /\ p' = q
      /\ UNCHANGED input /\ UNCHANGED <<next, list, tail, insize, nmerges>>
  BY DEF MergeEnds
<1>3. /\ Types /\ Perm(W) /\ Stable(W) /\ n \in Nat \ {0} /\ insize \in Nat \ {0}
      /\ nmerges \in Nat
  BY <1>1 DEF IInv, Shape, Types
<1>4. /\ n' = n /\ memory' = memory /\ Perm(W)' /\ Stable(W)'
      /\ \A lo, hi : Sorted(W, lo, hi)' <=> Sorted(W, lo, hi)
  BY <1>2, <1>3, SameInput
<1>5. PICK d \in 0..n, t \in Nat : AtMerge(W, d, t)
  BY <1>1, <1>2 DEF Shape
<1>6. PICK w, y : w = insize /\ y = qsize
  OBVIOUS
<1>7. d \in Nat /\ d + 0 = d /\ d - 0 = d
  OBVIOUS
<1>8. /\ t \in Multiples(2 * w) /\ t <= d /\ y \in Nat /\ d <= n
      /\ d <= t + 2 * w /\ Merged(W, d)
      /\ q = (IF d < n THEN W[d + 1] ELSE NULL)
      /\ (d < n => y = t + 2 * w - d - 0 /\ Ended(W))
      /\ Linked(W, {d}) /\ Before(W, t) /\ After(W, t + 2 * w) /\ Region(W, d, t)
      /\ nmerges # 0 /\ (nmerges = 1 => t = 0)
  <2>1. {d, d} = {d}
    OBVIOUS
  <2> QED BY <2>1, <1>2, <1>5, <1>6, <1>7 DEF AtMerge
<1>9. w \in Nat \ {0} /\ 2 * w \in Nat \ {0}
  BY <1>3, <1>6
<1>10. d < n => d = t + 2 * w
  <2> SUFFICES ASSUME d < n PROVE d = t + 2 * w
    OBVIOUS
  <2>1. d + 1 \in 1..n
    BY <1>3
  <2>2. q \in 1..n
    BY <2>1, <1>8
  <2>3. ~(y > 0)
    BY <2>2, <1>2, <1>3, <1>6 DEF QLeft, NULL
  <2>4. y = t + 2 * w - d - 0
    BY <1>8
  <2> QED BY <2>3, <2>4, <1>7, <1>8, <1>9
<1>11. \A x \in Multiples(2 * w) : x \in Nat
  BY <1>9, MultipleFacts
<1>12. Sorted(W, t, t + 2 * w)
  <2> SUFFICES ASSUME NEW i \in 1..n, NEW j \in 1..n, t < i, i < j, j <= t + 2 * w
               PROVE  Key(W[i]) <= Key(W[j])
    BY DEF Sorted
  <2>1. ~(d < i /\ i <= d + psize /\ d + psize < j)
    BY <1>2, <1>7
  <2> QED BY <2>1, <1>6, <1>8 DEF Region
<1>13. Before(W, d)'
  <2> SUFFICES ASSUME NEW x \in Multiples(2 * w), x < d PROVE Sorted(W, x, x + 2 * w)
    BY <1>2, <1>4, <1>6 DEF Before
  <2>1. CASE x < t
    BY <2>1, <1>6, <1>8 DEF Before
  <2>2. CASE x = t
    BY <2>2, <1>12
  <2>3. CASE t < x
    <3>1. t + 2 * w <= x
      BY <2>3, <1>8, <1>9, MultiplesApart
    <3> QED BY <3>1, <1>7, <1>8, <1>9, <1>11
  <2> QED BY <2>1, <2>2, <2>3, <1>11
<1>14. After(W, d)'
  <2> SUFFICES ASSUME NEW x \in Multiples(w), x >= d PROVE Sorted(W, x, x + w)
    BY <1>2, <1>4, <1>6 DEF After
  <2>1. CASE d < n
    BY <2>1, <1>6, <1>8, <1>10 DEF After
  <2>2. CASE d = n
    <3>1. x \in Nat
      BY <1>9, MultipleFacts
    <3> QED BY <2>2, <3>1, <1>3 DEF Sorted
  <2> QED BY <2>1, <2>2, <1>3, <1>8
<1>15. t + 2 * w \in Multiples(2 * w)
  BY <1>8, <1>9, MultipleFacts
<1>16. AtRuns(W, d)'
  <2>1. Linked(W, {d})' /\ Merged(W, d)' /\ (d < n => Ended(W)')
    BY <1>2, <1>4, <1>8 DEF Linked, Merged, Ended
  <2>2. d < n => d \in Multiples(2 * w)
    BY <1>10, <1>15
  <2>3. nmerges' # 0 /\ (nmerges' = 1 => d <= 2 * w)
    BY <1>2, <1>7, <1>8, <1>9
  <2>4. p' = (IF d < n THEN W[d + 1] ELSE NULL) /\ d \in 0..n'
    BY <1>2, <1>4, <1>8
  <2> QED BY <2>1, <2>2, <2>3, <2>4, <1>2, <1>4, <1>6, <1>13, <1>14 DEF AtRuns
<1>17. Types'
  BY <1>2, <1>3, <1>4 DEF Types
<1>18. d \in 0..n'
  BY <1>4
<1> QED BY <1>1, <1>2, <1>4, <1>16, <1>17, <1>18 DEF IInv, Shape

LEMMA PassEndsInv ==
    ASSUME IInv, PassEnds
    PROVE  IInv'
<1>1. PICK W \in [1..n -> 1..n] : Shape(W)
  BY DEF IInv
<1>2. /\ pc = "runs" /\ p = NULL /\ next' = [next EXCEPT ![tail] = NULL]
      /\ IF nmerges <= 1 THEN pc' = "done" /\ UNCHANGED insize
                         ELSE pc' = "pass" /\ insize' = 2 * insize
      /\ UNCHANGED input /\ UNCHANGED <<list, nmerges>>
  BY DEF PassEnds, Doubled
<1>3. /\ Types /\ Perm(W) /\ Stable(W) /\ n \in Nat \ {0} /\ insize \in Nat \ {0}
      /\ nmerges \in Nat /\ next \in [1..n -> 0..n]
  BY <1>1 DEF IInv, Shape, Types
<1>4. /\ n' = n /\ memory' = memory /\ Perm(W)' /\ Stable(W)'
      /\ \A lo, hi : Sorted(W, lo, hi)' <=> Sorted(W, lo, hi)
  BY <1>2, <1>3, SameInput
<1>5. PICK d \in 0..n : AtRuns(W, d)
  BY <1>1, <1>2 DEF Shape
<1>6. d = n
  <2> SUFFICES ASSUME d < n PROVE FALSE
    BY <1>3
  <2>1. d + 1 \in 1..n
    BY <1>3
  <2>2. p = W[d + 1]
    BY <1>5 DEF AtRuns
  <2>3. p \in 1..n
    BY <2>1, <2>2
  <2> QED BY <2>3, <1>2, <1>3 DEF NULL
<1>7. PICK w : w = insize
  OBVIOUS
<1>8. w \in Nat \ {0} /\ 2 * w \in Nat \ {0}
  BY <1>3, <1>7
<1>9. /\ list = W[1] /\ tail = W[n] /\ Linked(W, {n})
      /\ Before(W, n) /\ (nmerges = 0 => n = 0) /\ (nmerges = 1 => n <= 2 * w)
  BY <1>3, <1>5, <1>6, <1>7 DEF AtRuns, Merged
<1>10. W[n] \in 1..n /\ \A i \in 1..(n - 1) : W[i] \in 1..n /\ W[i] # W[n]
  <2>1. n \in 1..n /\ \A i \in 1..(n - 1) : i \in 1..n /\ i # n
    BY <1>3
  <2> QED BY <2>1, <1>3 DEF Perm
<1>11. Ended(W)' /\ next' \in [1..n -> 0..n]
  <2>1. next' = [next EXCEPT ![W[n]] = 0]
    BY <1>2, <1>9 DEF NULL
  <2>2. 0 \in 0..n
    BY <1>3
  <2>3. next'[W[n]] = 0 /\ next' \in [1..n -> 0..n]
    BY <2>1, <2>2, <1>3, <1>10
  <2> QED BY <2>3, <1>4 DEF Ended, NULL
<1>12. Linked(W, {})'
  <2> SUFFICES ASSUME NEW i \in 1..(n - 1) PROVE next'[W[i]] = W[i + 1]
    BY <1>4 DEF Linked
  <2>1. i \notin {n}
    BY <1>3
  <2>2. next[W[i]] = W[i + 1]
    BY <2>1, <1>9 DEF Linked
  <2>3. next' = [next EXCEPT ![W[n]] = NULL]
    BY <1>2, <1>9
  <2> QED BY <2>2, <2>3, <1>3, <1>10
<1>13. list' = W[1]
  BY <1>2, <1>9
<1>14. CASE nmerges <= 1
  <2>1. pc' = "done" /\ insize' = insize /\ n <= 2 * w
    BY <1>2, <1>3, <1>9, <1>14
  <2>2. 0 \in Multiples(2 * w) /\ 0 < n /\ 0 + 2 * w = 2 * w
    BY <1>3, <1>8, MultipleFacts
  <2>3. Sorted(W, 0, 2 * w)
    BY <2>2, <1>7, <1>9 DEF Before
  <2>4. Sorted(W, 0, n)
    BY <2>1, <2>3, <1>3, <1>8 DEF Sorted
  <2>5. Sorted(W, 0, n)'
    BY <2>4, <1>4 DEF Sorted
  <2>6. Types'
    BY <2>1, <1>2, <1>3, <1>4, <1>11 DEF Types
  <2>7. AtDone(W)'
    BY <2>5, <1>11, <1>12, <1>13 DEF AtDone
  <2> QED BY <2>1, <2>6, <2>7, <1>4 DEF IInv, Shape
<1>15. CASE ~(nmerges <= 1)
  <2>1. pc' = "pass" /\ insize' = 2 * w
    BY <1>2, <1>7, <1>15
  <2>2. After(W, 0)'
    <3> SUFFICES ASSUME NEW x \in Multiples(2 * w) PROVE Sorted(W, x, x + 2 * w)
      BY <2>1, <1>4 DEF After
    <3>1. CASE x < n
      BY <3>1, <1>7, <1>9 DEF Before
    <3>2. CASE ~(x < n)
      <4>1. x \in Nat
        BY <1>8, MultipleFacts
      <4> QED BY <4>1, <3>2, <1>3 DEF Sorted
    <3> QED BY <3>1, <3>2
  <2>3. Types'
    BY <2>1, <1>2, <1>3, <1>4, <1>8, <1>11 DEF Types
  <2>4. AtPass(W)'
    BY <2>2, <1>11, <1>12, <1>13 DEF AtPass
  <2> QED BY <2>1, <2>3, <2>4, <1>4 DEF IInv, Shape
<1> QED BY <1>14, <1>15

LEMMA Inductive ==
    ASSUME IInv, [Next]_vars
    PROVE  IInv'
<1>1. CASE Next
  BY <1>1, PassBeginsInv, MergeBeginsInv, StepAlongInv, TakePInv, TakeQInv,
     MergeEndsInv, PassEndsInv DEF Next
<1>2. CASE UNCHANGED vars
  <2>1. /\ UNCHANGED <<n, memory>>
        /\ UNCHANGED <<next, list, tail, p, q, psize, qsize, insize, nmerges, pc>>
    BY <1>2 DEF vars, input
  <2>2. Types'
    BY <2>1 DEF IInv, Types
  <2>3. PICK W \in [1..n -> 1..n] : Shape(W)
    BY DEF IInv
  <2>4. Shape(W)'
    <3>1. /\ Perm(W)' <=> Perm(W)
          /\ Stable(W)' <=> Stable(W)
          /\ \A lo, hi : Sorted(W, lo, hi)' <=> Sorted(W, lo, hi)
      BY <2>1, SameInput DEF input
    <3>2. \A h : Key(h)' = Key(h)
      BY <2>1 DEF Key
    <3>3. /\ \A c : Linked(W, c)' <=> Linked(W, c)
          /\ Ended(W)' <=> Ended(W)
          /\ \A d : Merged(W, d)' <=> Merged(W, d)
      BY <2>1 DEF Linked, Ended, Merged
    <3>4. \A d : (Before(W, d)' <=> Before(W, d)) /\ (After(W, d)' <=> After(W, d))
      BY <2>1, <3>1 DEF Before, After
    <3>5. \A d, t : Region(W, d, t)' <=> Region(W, d, t)
      BY <2>1, <3>2 DEF Region
    <3>6. (pc = "pass" => AtPass(W)) => (pc = "pass" => AtPass(W))'
      BY <2>1, <3>3, <3>4 DEF AtPass
    <3>7. (pc = "done" => AtDone(W)) => (pc = "done" => AtDone(W))'
      BY <2>1, <3>1, <3>3 DEF AtDone
    <3>8. \A d : (AtRuns(W, d) => AtRuns(W, d)') /\ (AtStep(W, d) => AtStep(W, d)')
      BY <2>1, <3>3, <3>4 DEF AtRuns, AtStep
    <3>9. \A d, t : AtMerge(W, d, t) => AtMerge(W, d, t)'
      <4> SUFFICES ASSUME NEW d, NEW t, AtMerge(W, d, t) PROVE AtMerge(W, d, t)'
        OBVIOUS
      <4>1. /\ Linked(W, {d, d + psize})' /\ After(W, t + 2 * insize)' /\ Before(W, t)'
            /\ Region(W, d, t)' /\ Merged(W, d)'
        BY <2>1, <3>3, <3>4, <3>5 DEF AtMerge
      <4> QED BY <2>1, <3>3, <4>1 DEF AtMerge
    <3> QED BY <2>1, <2>3, <3>1, <3>6, <3>7, <3>8, <3>9 DEF Shape
  <2> QED BY <2>1, <2>2, <2>3, <2>4 DEF IInv
<1> QED BY <1>1, <1>2

LEMMA Always == Spec => []IInv
<1>1. Init => IInv
  BY InitInv
<1>2. IInv /\ [Next]_vars => IInv'
  BY Inductive
<1> QED BY <1>1, <1>2, PTL DEF Spec

-----------------------------------------------------------------------------
(* What the sort does *)

\* A function on 1..m is a sequence of length m.
LEMMA SeqFacts ==
    ASSUME NEW m \in Nat, NEW S, NEW V \in [1..m -> S]
    PROVE  V \in Seq(S) /\ Len(V) = m /\ DOMAIN V = 1..m
<1>1. V \in Seq(S)
  BY SeqDef
<1>2. Len(V) \in Nat /\ DOMAIN V = 1..Len(V)
  BY <1>1, LenProperties
<1>3. 1..Len(V) = 1..m
  BY <1>2
<1>4. Len(V) = m
  <2>1. Len(V) <= m
    <3>1. CASE Len(V) = 0
      BY <3>1
    <3>2. CASE Len(V) # 0
      <4>1. Len(V) \in 1..Len(V)
        BY <3>2, <1>2
      <4> QED BY <4>1, <1>2, <1>3
    <3> QED BY <3>1, <3>2
  <2>2. m <= Len(V)
    <3>1. CASE m = 0
      BY <3>1, <1>2
    <3>2. CASE m # 0
      <4>1. m \in 1..m
        BY <3>2
      <4> QED BY <4>1, <1>2, <1>3
    <3> QED BY <3>1, <3>2
  <2> QED BY <2>1, <2>2, <1>2
<1> QED BY <1>1, <1>2, <1>4

\* The next pointers hold three lists that together are W.
ThreeLists(W, d) ==
    /\ psize \in Nat /\ d + psize <= n
    /\ Chain(d, list) = [i \in 1..d |-> W[i]]
    /\ Chain(psize, p) = [i \in 1..psize |-> W[d + i]]
    /\ Chain(n, q) = [i \in 1..(n - d - psize) |-> W[d + psize + i]]

\* They do while two runs are merged.
LEMMA MergeLists ==
    ASSUME Types, NEW W, Perm(W), NEW d \in 0..n, NEW t, AtMerge(W, d, t)
    PROVE  ThreeLists(W, d)
<1>1. n \in Nat \ {0} /\ W \in [1..n -> 1..n]
  BY DEF Types, Perm
<1>2. PICK m : m = psize
  OBVIOUS
<1>3. /\ m \in Nat /\ d \in Nat /\ d + m <= n /\ Merged(W, d) /\ (m > 0 => p = W[d + 1])
      /\ q = (IF d + m < n THEN W[d + m + 1] ELSE NULL)
      /\ (d + m < n => Ended(W)) /\ Linked(W, {d, d + m})
  BY <1>2 DEF AtMerge
<1>4. Chain(d, list) = [i \in 1..d |-> W[i]]
  <2>1. PICK V : V = [i \in 1..d |-> W[i]]
    OBVIOUS
  <2>2. V \in [1..d -> 1..n]
    BY <2>1, <1>1, <1>3
  <2>3. list = IF d = 0 THEN NULL ELSE V[1]
    BY <2>1, <1>3 DEF Merged
  <2>4. \A i \in 1..(d - 1) : next[V[i]] = V[i + 1]
    <3> SUFFICES ASSUME NEW i \in 1..(d - 1) PROVE next[V[i]] = V[i + 1]
      OBVIOUS
    <3>1. i \in 1..(n - 1) /\ i \notin {d, d + m} /\ i \in 1..d /\ i + 1 \in 1..d
      BY <1>1, <1>3
    <3> QED BY <3>1, <2>1, <1>3 DEF Linked
  <2>5. Follows(V, d, d, list)
    BY <2>2, <2>3, <2>4, <1>3 DEF Follows
  <2> QED BY <2>1, <2>5, <1>1, ChainIs
<1>5. Chain(m, p) = [i \in 1..m |-> W[d + i]]
  <2>1. PICK V : V = [i \in 1..m |-> W[d + i]]
    OBVIOUS
  <2>2. V \in [1..m -> 1..n]
    <3>1. \A i \in 1..m : d + i \in 1..n
      BY <1>1, <1>3
    <3> QED BY <3>1, <2>1, <1>1
  <2>3. CASE m = 0
    <3>1. V \in [1..0 -> 1..n]
      BY <2>2, <2>3
    <3>2. Chain(0, p) = V
      BY <3>1, <1>1, ChainIs
    <3> QED BY <3>2, <2>1, <2>3
  <2>4. CASE m # 0
    <3>1. m > 0 /\ p = V[1]
      <4>1. m > 0 /\ 1 \in 1..m
        BY <2>4, <1>3
      <4> QED BY <4>1, <2>1, <1>3
    <3>2. \A i \in 1..(m - 1) : next[V[i]] = V[i + 1]
      <4> SUFFICES ASSUME NEW i \in 1..(m - 1) PROVE next[V[i]] = V[i + 1]
        OBVIOUS
      <4>1. /\ d + i \in 1..(n - 1) /\ d + i \notin {d, d + m} /\ i \in 1..m /\ i + 1 \in 1..m
            /\ d + (i + 1) = (d + i) + 1
        BY <1>1, <1>3
      <4>2. next[W[d + i]] = W[(d + i) + 1]
        BY <4>1, <1>3 DEF Linked
      <4> QED BY <4>1, <4>2, <2>1
    <3>3. Follows(V, m, m, p)
      BY <3>1, <3>2, <2>2, <2>4, <1>3 DEF Follows
    <3> QED BY <3>3, <2>1, <1>1, ChainIs
  <2> QED BY <2>3, <2>4
<1>6. Chain(n, q) = [i \in 1..(n - d - m) |-> W[d + m + i]]
  <2>0. PICK c : c = n - d - m
    OBVIOUS
  <2>1. PICK V : V = [i \in 1..c |-> W[d + m + i]]
    OBVIOUS
  <2>2. c \in Nat /\ c <= n /\ d + m + c = n
    BY <2>0, <1>1, <1>3
  <2>3. V \in [1..c -> 1..n]
    <3>1. \A i \in 1..c : d + m + i \in 1..n
      BY <2>2, <1>1, <1>3
    <3> QED BY <3>1, <2>1, <1>1
  <2>4. q = IF c = 0 THEN NULL ELSE V[1]
    <3>1. d + m < n <=> c # 0
      BY <2>2, <1>1, <1>3
    <3>2. c # 0 => 1 \in 1..c
      BY <2>2
    <3> QED BY <3>1, <3>2, <2>1, <1>3
  <2>5. \A i \in 1..(c - 1) : next[V[i]] = V[i + 1]
    <3> SUFFICES ASSUME NEW i \in 1..(c - 1) PROVE next[V[i]] = V[i + 1]
      OBVIOUS
    <3>1. /\ d + m + i \in 1..(n - 1) /\ d + m + i \notin {d, d + m} /\ i \in 1..c /\ i + 1 \in 1..c
          /\ d + m + (i + 1) = (d + m + i) + 1
      BY <2>2, <1>1, <1>3
    <3>2. next[W[d + m + i]] = W[(d + m + i) + 1]
      BY <3>1, <1>3 DEF Linked
    <3> QED BY <3>1, <3>2, <2>1
  <2>6. 0 < c /\ c < n => next[V[c]] = NULL
    <3> SUFFICES ASSUME 0 < c PROVE next[V[c]] = NULL
      OBVIOUS
    <3>1. c \in 1..c /\ d + m < n
      BY <2>2, <1>1, <1>3
    <3>2. V[c] = W[n]
      BY <3>1, <2>1, <2>2
    <3> QED BY <3>1, <3>2, <1>3 DEF Ended
  <2>7. Follows(V, c, n, q)
    BY <2>2, <2>3, <2>4, <2>5, <2>6, <1>1 DEF Follows
  <2> QED BY <2>0, <2>1, <2>7, <1>1, ChainIs
<1> QED BY <1>2, <1>3, <1>4, <1>5, <1>6 DEF ThreeLists

\* rm_header__sort relinks the list in place (listsort.c 121-162); at every step of
\* a merge the merged list, the rest of the first run and all that follows q are
\* the whole list, each header once, for lists of any length.
THEOREM NothingLost == Spec => []NoneLost
<1>1. IInv => NoneLost
  <2> SUFFICES ASSUME IInv, pc = "merge"
               PROVE \E d \in 0..n :
                        LET done == Chain(d, list)
                            all == done \o Chain(psize, p) \o Chain(n, q)
                        IN  /\ Len(done) = d
                            /\ tail = IF d = 0 THEN NULL ELSE done[d]
                            /\ Len(all) = n /\ Members(all) = 1..n
    BY DEF NoneLost
  <2>1. PICK W \in [1..n -> 1..n] : Shape(W)
    BY DEF IInv
  <2>2. n \in Nat \ {0} /\ Perm(W) /\ Types
    BY <2>1 DEF IInv, Types, Shape
  <2>3. PICK d \in 0..n, t \in Nat : AtMerge(W, d, t)
    BY <2>1 DEF Shape
  <2>4. PICK m, A, B, C : /\ m = psize /\ A = Chain(d, list) /\ B = Chain(psize, p)
                          /\ C = Chain(n, q)
    OBVIOUS
  <2>5. /\ m \in Nat /\ d \in Nat /\ d + m <= n /\ n - d - m \in Nat
        /\ A = [i \in 1..d |-> W[i]]
        /\ B = [i \in 1..m |-> W[d + i]]
        /\ C = [i \in 1..(n - d - m) |-> W[d + m + i]]
    <3>1. ThreeLists(W, d)
      BY <2>2, <2>3, MergeLists
    <3>2. /\ m \in Nat /\ d + m <= n
          /\ A = [i \in 1..d |-> W[i]]
          /\ B = [i \in 1..m |-> W[d + i]]
          /\ C = [i \in 1..(n - d - m) |-> W[d + m + i]]
      BY <3>1, <2>4 DEF ThreeLists
    <3>3. n - d - m \in Nat /\ d \in Nat
      BY <3>2, <2>2
    <3> QED BY <3>2, <3>3
  <2>6. /\ A \in [1..d -> 1..n] /\ B \in [1..m -> 1..n] /\ C \in [1..(n - d - m) -> 1..n]
    <3>1. /\ \A i \in 1..d : i \in 1..n
          /\ \A i \in 1..m : d + i \in 1..n
          /\ \A i \in 1..(n - d - m) : d + m + i \in 1..n
      BY <2>2, <2>5
    <3> QED BY <3>1, <2>5
  <2>7. /\ A \in Seq(1..n) /\ B \in Seq(1..n) /\ C \in Seq(1..n)
        /\ Len(A) = d /\ Len(B) = m /\ Len(C) = n - d - m
    BY <2>5, <2>6, SeqFacts
  <2>8. PICK D : D = A \o B
    OBVIOUS
  <2>9. /\ D \in Seq(1..n) /\ Len(D) = d + m
        /\ \A i \in 1..(d + m) : D[i] = W[i]
    <3>1. /\ D \in Seq(1..n) /\ Len(D) = d + m
          /\ \A i \in 1..(d + m) : D[i] = IF i <= d THEN A[i] ELSE B[i - d]
      BY <2>7, <2>8, ConcatProperties
    <3>2. ASSUME NEW i \in 1..(d + m) PROVE D[i] = W[i]
      <4>1. CASE i <= d
        <5>1. i \in 1..d
          BY <4>1, <2>5
        <5> QED BY <5>1, <4>1, <3>1, <2>5
      <4>2. CASE ~(i <= d)
        <5>1. i - d \in 1..m /\ d + (i - d) = i
          BY <4>2, <2>5
        <5> QED BY <5>1, <4>2, <3>1, <2>5
      <4> QED BY <4>1, <4>2
    <3> QED BY <3>1, <3>2
  <2>10. PICK all : all = D \o C
    OBVIOUS
  <2>11. /\ all \in Seq(1..n) /\ Len(all) = n
         /\ \A i \in 1..n : all[i] = W[i]
    <3>0. (d + m) + (n - d - m) = n
      BY <2>2, <2>5
    <3>1. /\ all \in Seq(1..n) /\ Len(all) = n
          /\ \A i \in 1..n : all[i] = IF i <= d + m THEN D[i] ELSE C[i - (d + m)]
      BY <3>0, <2>7, <2>9, <2>10, ConcatProperties, SMTT(30)
    <3>2. ASSUME NEW i \in 1..n PROVE all[i] = W[i]
      <4>1. CASE i <= d + m
        <5>1. i \in 1..(d + m)
          BY <4>1, <2>5
        <5> QED BY <5>1, <4>1, <3>1, <2>9
      <4>2. CASE ~(i <= d + m)
        <5>1. i - (d + m) \in 1..(n - d - m) /\ d + m + (i - (d + m)) = i
          BY <4>2, <2>2, <2>5
        <5> QED BY <5>1, <4>2, <3>1, <2>5
      <4> QED BY <4>1, <4>2
    <3> QED BY <3>1, <3>2
  <2>12. Members(all) = 1..n
    <3>1. DOMAIN all = 1..n
      BY <2>11, LenProperties
    <3>2. \A i \in 1..n : W[i] \in 1..n
      OBVIOUS
    <3>3. \A h \in 1..n : \E i \in 1..n : W[i] = h
      BY <2>2 DEF Perm
    <3> QED BY <3>1, <3>2, <3>3, <2>11 DEF Members
  <2>13. tail = IF d = 0 THEN NULL ELSE A[d]
    <3>1. tail = IF d = 0 THEN NULL ELSE W[d]
      BY <2>3 DEF AtMerge, Merged
    <3>2. d # 0 => d \in 1..d
      BY <2>5
    <3> QED BY <3>1, <3>2, <2>5
  <2> QED BY <2>4, <2>7, <2>8, <2>10, <2>11, <2>12, <2>13
<1> QED BY <1>1, Always, PTL

\* Of two headers in order, the first sorts before the second and not the other
\* way round.
LEMMA InOrder ==
    ASSUME Types, NEW W, Perm(W), Stable(W), NEW i \in 1..n, NEW j \in 1..n,
           i < j, Key(W[i]) <= Key(W[j])
    PROVE  SortsBefore(W[i], W[j]) /\ ~SortsBefore(W[j], W[i])
<1>1. W[i] \in 1..n /\ W[j] \in 1..n
  BY DEF Perm
<1>2. PICK a, b : a = Key(W[i]) /\ b = Key(W[j])
  OBVIOUS
<1>3. a \in Int /\ b \in Int
  BY <1>1, <1>2, KeyFacts
<1>4. a = b => W[i] < W[j]
  BY <1>2 DEF Stable
<1>5. PICK x \in 1..n, y \in 1..n : x = W[i] /\ y = W[j]
  BY <1>1
<1>6. x \in Int /\ y \in Int
  BY DEF Types
<1>7. a <= b /\ (a = b => x < y)
  BY <1>2, <1>4, <1>5
<1>8. (a < b \/ (a = b /\ x < y)) /\ ~(b < a \/ (b = a /\ y < x))
  BY <1>3, <1>6, <1>7
<1> QED BY <1>2, <1>5, <1>8 DEF SortsBefore

\* A list that is linked and ended is W, followed for n headers or more.
LEMMA WholeList ==
    ASSUME Types, NEW W, Perm(W), list = W[1], Linked(W, {}), Ended(W),
           NEW k \in {n, n + 1}
    PROVE  Chain(k, list) = W /\ Len(W) = n
<1>1. n \in Nat \ {0} /\ W \in [1..n -> 1..n]
  BY DEF Types, Perm
<1>2. k \in Nat /\ n <= k
  BY <1>1
<1>3. \A i \in 1..(n - 1) : next[W[i]] = W[i + 1]
  BY DEF Linked
<1>4. next[W[n]] = NULL /\ list = IF n = 0 THEN NULL ELSE W[1]
  BY <1>1 DEF Ended
<1>5. Follows(W, n, k, list)
  BY <1>1, <1>2, <1>3, <1>4 DEF Follows
<1>6. Chain(k, list) = W
  BY <1>1, <1>5, ChainIs
<1>7. Len(W) = n
  BY <1>1, SeqFacts
<1> QED BY <1>6, <1>7

\* Each pass of rm_header__sort takes runs of insize headers for sorted
\* (listsort.c 95-121); at the beginning of every pass of every sort they are.
THEOREM EveryRunSorted == Spec => []RunsSorted
<1>1. IInv => RunsSorted
  <2> SUFFICES ASSUME IInv, pc = "pass"
               PROVE  LET s == Chain(n, list)
                      IN  /\ Len(s) = n
                          /\ \A run \in 0..n : \A i, j \in 1..n :
                               run * insize < i /\ i < j /\ j <= (run + 1) * insize
                                   => SortsBefore(s[i], s[j])
    BY DEF RunsSorted
  <2>1. PICK W \in [1..n -> 1..n] : Shape(W)
    BY DEF IInv
  <2>2. /\ Types /\ Perm(W) /\ Stable(W) /\ AtPass(W)
        /\ n \in Nat \ {0} /\ insize \in Nat \ {0}
    BY <2>1 DEF IInv, Types, Shape
  <2>3. Chain(n, list) = W /\ Len(W) = n
    <3>1. list = W[1] /\ Linked(W, {}) /\ Ended(W) /\ n \in {n, n + 1}
      BY <2>2 DEF AtPass
    <3> QED BY <3>1, <2>2, WholeList
  <2>4. ASSUME NEW run \in 0..n, NEW i \in 1..n, NEW j \in 1..n,
               run * insize < i, i < j, j <= (run + 1) * insize
        PROVE  SortsBefore(W[i], W[j])
    <3>1. PICK x, w : w = insize /\ x = run * w
      OBVIOUS
    <3>2. run \in Nat /\ w \in Nat \ {0} /\ x \in Nat
      BY <3>1, <2>2
    <3>3. x \in Multiples(w)
      BY <3>1, <3>2 DEF Multiples
    <3>4. (run + 1) * w = x + w
      BY <3>1, <3>2
    <3>5. Sorted(W, x, x + w)
      BY <3>1, <3>2, <3>3, <2>2 DEF AtPass, After
    <3>6. x < i /\ j <= x + w
      BY <3>1, <3>4, <2>4
    <3>7. Key(W[i]) <= Key(W[j])
      BY <3>5, <3>6, <2>4 DEF Sorted
    <3> QED BY <3>7, <2>2, <2>4, InOrder
  <2> QED BY <2>3, <2>4
<1> QED BY <1>1, Always, PTL

\* rm_header__sort returns all headers by ascending address, NULL last, equal
\* ones in the order in which they were passed in, and the list ends there:
\* rm_compact's walks over the sorted headers see every block once, in order.
THEOREM SortsStably == Spec => []SortedStable
<1>1. IInv => SortedStable
  <2> SUFFICES ASSUME IInv, pc = "done"
               PROVE  LET s == Chain(n + 1, list)
                      IN  /\ Len(s) = n
                          /\ \A i \in 1..n :
                               i = 1 + Cardinality({h \in 1..n : SortsBefore(h, s[i])})
    BY DEF SortedStable
  <2>1. PICK W \in [1..n -> 1..n] : Shape(W)
    BY DEF IInv
  <2>2. Types /\ Perm(W) /\ Stable(W) /\ AtDone(W) /\ n \in Nat \ {0}
    BY <2>1 DEF IInv, Types, Shape
  <2>3. Chain(n + 1, list) = W /\ Len(W) = n
    <3>1. list = W[1] /\ Linked(W, {}) /\ Ended(W) /\ n + 1 \in {n, n + 1}
      BY <2>2 DEF AtDone
    <3> QED BY <3>1, <2>2, WholeList
  <2>4. \A i, j \in 1..n : i < j => SortsBefore(W[i], W[j]) /\ ~SortsBefore(W[j], W[i])
    <3> SUFFICES ASSUME NEW i \in 1..n, NEW j \in 1..n, i < j
                 PROVE  SortsBefore(W[i], W[j]) /\ ~SortsBefore(W[j], W[i])
      OBVIOUS
    <3>1. 0 < i /\ j <= n
      BY <2>2
    <3>2. Key(W[i]) <= Key(W[j])
      BY <3>1, <2>2 DEF AtDone, Sorted
    <3> QED BY <3>2, <2>2, InOrder
  <2>5. \A i \in 1..n : ~SortsBefore(W[i], W[i])
    <3> SUFFICES ASSUME NEW i \in 1..n PROVE ~SortsBefore(W[i], W[i])
      OBVIOUS
    <3>1. W[i] \in Int /\ Key(W[i]) \in Int
      BY <2>2, KeyFacts, SMTT(30)
    <3>2. \A x \in Int : ~(x < x)
      OBVIOUS
    <3> QED BY <3>1, <3>2 DEF SortsBefore
  <2>6. ASSUME NEW i \in 1..n
        PROVE  i = 1 + Cardinality({h \in 1..n : SortsBefore(h, W[i])})
    <3>1. PICK H : H = {h \in 1..n : SortsBefore(h, W[i])}
      OBVIOUS
    <3>2. PICK f : f = [j \in 1..(i - 1) |-> W[j]]
      OBVIOUS
    <3>3. \A j \in 1..(i - 1) : j \in 1..n /\ j < i
      BY <2>2
    <3>4. f \in [1..(i - 1) -> H]
      BY <3>1, <3>2, <3>3, <2>4
    <3>5. \A j, k \in 1..(i - 1) : f[j] = f[k] => j = k
      BY <3>2, <3>3, <2>2 DEF Perm
    <3>6. \A h \in H : \E j \in 1..(i - 1) : f[j] = h
      <4> SUFFICES ASSUME NEW h \in H PROVE \E j \in 1..(i - 1) : f[j] = h
        OBVIOUS
      <4>1. h \in 1..n /\ SortsBefore(h, W[i])
        BY <3>1
      <4>2. PICK j \in 1..n : W[j] = h
        BY <4>1, <2>2 DEF Perm
      <4>3. ~(i < j) /\ i # j
        BY <4>1, <4>2, <2>4, <2>5
      <4>4. j \in 1..(i - 1)
        BY <4>3, <2>2
      <4> QED BY <4>2, <4>4, <3>2
    <3>7. f \in Bijection(1..(i - 1), H)
      BY <3>4, <3>5, <3>6 DEF Bijection, Injection, Surjection, IsInjective
    <3>8. ExistsBijection(1..(i - 1), H)
      BY <3>7 DEF ExistsBijection
    <3>9. IsFiniteSet(1..(i - 1)) /\ Cardinality(1..(i - 1)) = i - 1
      <4>1. 1 \in Int /\ i - 1 \in Int /\ i \in 1..n
        BY <2>2
      <4>2. /\ IsFiniteSet(1..(i - 1))
            /\ Cardinality(1..(i - 1)) = IF 1 > i - 1 THEN 0 ELSE (i - 1) - 1 + 1
        BY <4>1, FS_Interval
      <4>3. (IF 1 > i - 1 THEN 0 ELSE (i - 1) - 1 + 1) = i - 1
        BY <4>1
      <4> QED BY <4>2, <4>3
    <3>10. Cardinality(H) = i - 1
      BY <3>8, <3>9, FS_Bijection
    <3>11. i = 1 + (i - 1)
      BY <2>2
    <3> QED BY <3>1, <3>10, <3>11
  <2> QED BY <2>3, <2>6
<1> QED BY <1>1, Always, PTL

=============================================================================
