---------------------------- MODULE BuddyProofs ----------------------------
(***************************************************************************)
(* The buddy allocator keeps its memory in one piece, for every size of    *)
(* the heap and every number of chunks, as long as no merge does what it   *)
(* should not (fault = "none").                                            *)
(***************************************************************************)
EXTENDS Buddy, NumberFacts

-----------------------------------------------------------------------------
(* Powers of two *)

\* h is the beginning of the powers of two.
Powers(h, n) == h \in [0..n -> Nat] /\ h[0] = 1 /\ \A k \in 1..n : h[k] = 2 * h[k - 1]

LEMMA PowersExist == \A n \in Nat : \E h : Powers(h, n)
<1> DEFINE P == {n \in Nat : \E h : Powers(h, n)}
<1>1. 0 \in P
  <2>1. Powers([i \in 0..0 |-> 1], 0)
    BY DEF Powers
  <2> QED BY <2>1
<1>2. ASSUME NEW n \in P PROVE n + 1 \in P
  <2>1. PICK h : Powers(h, n)
    OBVIOUS
  <2>2. PICK g : g = [i \in 0..(n + 1) |-> IF i <= n THEN h[i] ELSE 2 * h[n]]
    OBVIOUS
  <2>3. Powers(g, n + 1)
    BY <2>1, <2>2, SMTT(30) DEF Powers
  <2> QED BY <2>3
<1>3. P \subseteq Nat
  OBVIOUS
<1> HIDE DEF P
<1>4. Nat \subseteq P
  BY <1>1, <1>2, <1>3, Induction
<1> QED BY <1>4 DEF P

LEMMA PowersAgree ==
    ASSUME NEW n \in Nat, NEW m \in Nat, n <= m, NEW h, NEW g, Powers(h, n), Powers(g, m)
    PROVE  h[n] = g[n]
<1> DEFINE P == {i \in Nat : i <= n => h[i] = g[i]}
<1>1. 0 \in P
  BY DEF Powers
<1>2. ASSUME NEW i \in P PROVE i + 1 \in P
  <2>1. CASE i + 1 <= n
    <3>1. i + 1 \in 1..n /\ i + 1 \in 1..m /\ (i + 1) - 1 = i /\ h[i] = g[i] /\ i \in Nat
      BY <2>1
    <3>2. h[i + 1] = 2 * h[i] /\ g[i + 1] = 2 * g[i]
      BY <3>1 DEF Powers
    <3> QED BY <3>1, <3>2
  <2>2. CASE ~(i + 1 <= n)
    BY <2>2
  <2> QED BY <2>1, <2>2
<1>3. P \subseteq Nat
  OBVIOUS
<1> HIDE DEF P
<1>4. Nat \subseteq P
  BY <1>1, <1>2, <1>3, Induction
<1> QED BY <1>4 DEF P

\* chunk_size is what its definition says: such a function exists.
LEMMA ChunkSizeDef ==
    chunk_size = [k \in Nat |-> IF k = 0 THEN 1 ELSE 2 * chunk_size[k - 1]]
<1> DEFINE pick(k) == CHOOSE h : Powers(h, k)
           F == [k \in Nat |-> pick(k)[k]]
<1>1. \A k \in Nat : Powers(pick(k), k)
  BY PowersExist
<1>2. ASSUME NEW k \in Nat PROVE F[k] = IF k = 0 THEN 1 ELSE 2 * F[k - 1]
  <2>1. CASE k = 0
    BY <1>1, <2>1 DEF Powers
  <2>2. CASE k # 0
    <3>1. k - 1 \in Nat /\ k - 1 <= k /\ k \in 1..k
      BY <2>2
    <3>2. PICK h, g : h = pick(k) /\ g = pick(k - 1)
      OBVIOUS
    <3>3. Powers(h, k) /\ Powers(g, k - 1)
      BY <1>1, <3>1, <3>2
    <3>4. g[k - 1] = h[k - 1]
      BY <3>1, <3>3, PowersAgree
    <3>5. h[k] = 2 * h[k - 1]
      BY <3>1, <3>3 DEF Powers
    <3>6. F[k] = h[k] /\ F[k - 1] = g[k - 1]
      BY <3>1, <3>2
    <3> QED BY <2>2, <3>4, <3>5, <3>6
  <2> QED BY <2>1, <2>2
<1>0. F = [k \in Nat |-> F[k]]
  OBVIOUS
<1> HIDE DEF F
<1>3. PICK f : f = F
  OBVIOUS
<1>4. f = [k \in Nat |-> IF k = 0 THEN 1 ELSE 2 * f[k - 1]]
  <2>1. f = [k \in Nat |-> f[k]]
    BY <1>0, <1>3
  <2>2. \A k \in Nat : f[k] = IF k = 0 THEN 1 ELSE 2 * f[k - 1]
    BY <1>2, <1>3
  <2>3. PICK g : g = [k \in Nat |-> IF k = 0 THEN 1 ELSE 2 * f[k - 1]]
    OBVIOUS
  <2>4. \A k \in Nat : g[k] = f[k]
    BY <2>2, <2>3
  <2>5. g = [k \in Nat |-> g[k]]
    BY <2>3
  <2>6. g = f
    BY <2>1, <2>4, <2>5
  <2> QED BY <2>3, <2>6
<1> QED BY <1>4 DEF chunk_size

LEMMA ChunkSizes ==
    /\ chunk_size[0] = 1
    /\ \A k \in Nat : chunk_size[k] \in Nat \ {0} /\ chunk_size[k + 1] = 2 * chunk_size[k]
<1>1. chunk_size[0] = 1 /\ \A k \in Nat : chunk_size[k + 1] = 2 * chunk_size[k]
  <2>1. PICK f : f = chunk_size
    OBVIOUS
  <2>2. f = [k \in Nat |-> IF k = 0 THEN 1 ELSE 2 * f[k - 1]]
    BY <2>1, ChunkSizeDef
  <2>3. f[0] = 1
    BY <2>2
  <2>4. ASSUME NEW k \in Nat PROVE f[k + 1] = 2 * f[k]
    <3>1. k + 1 \in Nat /\ k + 1 # 0 /\ (k + 1) - 1 = k
      OBVIOUS
    <3> QED BY <2>2, <3>1
  <2> QED BY <2>1, <2>3, <2>4
<1> DEFINE P == {k \in Nat : chunk_size[k] \in Nat \ {0}}
<1>2. 0 \in P
  BY <1>1
<1>3. ASSUME NEW k \in P PROVE k + 1 \in P
  BY <1>1
<1>4. P \in SUBSET Nat
  OBVIOUS
<1> HIDE DEF P
<1>5. P = Nat
  BY <1>2, <1>3, <1>4, Induction
<1> QED BY <1>1, <1>5 DEF P

\* A nibble of a lower line fits twice in one of a higher line.
LEMMA SizesGrow ==
    ASSUME NEW j \in Nat, NEW k \in Nat, j < k
    PROVE  2 * chunk_size[j] <= chunk_size[k]
<1> DEFINE P == {d \in Nat : 2 * chunk_size[j] <= chunk_size[j + d + 1]}
<1>1. 0 \in P
  BY ChunkSizes
<1>2. ASSUME NEW d \in P PROVE d + 1 \in P
  <2>1. j + d + 1 \in Nat /\ j + (d + 1) + 1 = (j + d + 1) + 1
    OBVIOUS
  <2>2. PICK x, y, z : /\ x = chunk_size[j] /\ y = chunk_size[j + d + 1]
                       /\ z = chunk_size[j + (d + 1) + 1]
    OBVIOUS
  <2>3. x \in Nat /\ y \in Nat /\ z = 2 * y /\ 2 * x <= y
    BY <2>1, <2>2, ChunkSizes
  <2>4. 2 * x <= z
    BY <2>3
  <2> QED BY <2>2, <2>4
<1>3. P \in SUBSET Nat
  OBVIOUS
<1> HIDE DEF P
<1>4. P = Nat
  BY <1>1, <1>2, <1>3, Induction
<1>5. k - j - 1 \in Nat /\ j + (k - j - 1) + 1 = k
  OBVIOUS
<1> QED BY <1>4, <1>5 DEF P

\* A distance below 2^k is below 2^t or lies between two powers from t on.
LEMMA PowerBelow ==
    ASSUME NEW t \in Nat, NEW k \in Nat, NEW x \in Nat, x < chunk_size[k], ~(x < chunk_size[t])
    PROVE  \E j \in t..(k - 1) : chunk_size[j] <= x /\ x < chunk_size[j + 1]
<1> DEFINE T == {j \in Nat : x < chunk_size[j]}
<1>1. T \in SUBSET Nat /\ k \in T
  OBVIOUS
<1>2. PICK m \in T : \A y \in T : m <= y
  <2> HIDE DEF T
  <2> QED BY <1>1, Least
<1>3. m \in Nat /\ x < chunk_size[m] /\ m <= k
  BY <1>1, <1>2
<1>4. t < m
  <2> SUFFICES ASSUME m <= t PROVE FALSE
    BY <1>3
  <2>1. CASE m = t
    BY <2>1, <1>3
  <2>2. CASE m < t
    <3>1. 2 * chunk_size[m] <= chunk_size[t]
      BY <2>2, <1>3, SizesGrow
    <3> QED BY <3>1, <1>3, ChunkSizes
  <2> QED BY <2>1, <2>2, <1>3
<1>5. m - 1 \in t..(k - 1) /\ m - 1 \in Nat /\ (m - 1) + 1 = m
  BY <1>3, <1>4
<1>6. m - 1 \notin T
  BY <1>2, <1>5
<1>7. chunk_size[m - 1] <= x
  <2>1. ~(x < chunk_size[m - 1]) /\ chunk_size[m - 1] \in Nat
    BY <1>5, <1>6, ChunkSizes
  <2> QED BY <2>1
<1> QED BY <1>3, <1>5, <1>7

-----------------------------------------------------------------------------
(* Trees of nibbles: N are the nibbles <<k, i, n>> with memory, S those that  *)
(* are split, A their addresses                                              *)

Size(l) == chunk_size[l[1]]
Covers(A, l, u) == A[l] <= u /\ u < A[l] + Size(l)
Disjoint(A, l, g) == A[l] + Size(l) <= A[g] \/ A[g] + Size(g) <= A[l]
Inside(A, l, g) == l[1] < g[1] /\ A[g] <= A[l] /\ A[l] + Size(l) <= A[g] + Size(g)

\* Two nibbles are disjoint or one is inside the other, there is nothing inside
\* a nibble that is not split, and every unit is in one that is not.
Tree(N, S, A) ==
    /\ \A l \in N : l[1] \in Nat /\ A[l] \in Nat
    /\ S \subseteq N
    /\ \A l, g \in N : l # g => Disjoint(A, l, g) \/ Inside(A, l, g) \/ Inside(A, g, l)
    /\ \A l \in N \ S, g \in N : ~Inside(A, g, l)
    /\ \A u \in Units : \E l \in N \ S : Covers(A, l, u)

\* The nibbles of a chunk that is split off on line j with index ix[j].
Grown(ix, t, k) == {<<j, ix[j], n>> : j \in t..(k - 1), n \in Nibbles}

\* The addresses A2 after nibble r of a tree has been split down to line t.
Splitting(N, S, A, A2, ix, t, r) ==
    /\ Tree(N, S, A) /\ r \in N /\ t \in Nat
    /\ \A l \in N : A2[l] = A[l]
    /\ \A j \in t..(r[1] - 1) : /\ A2[<<j, ix[j], "a">>] = A[r]
                                /\ A2[<<j, ix[j], "b">>] = A[r] + chunk_size[j]

SplitOff(S, ix, t, r) == S \cup {r} \cup {<<j, ix[j], "a">> : j \in (t + 1)..(r[1] - 1)}

\* What a nibble split off looks like.
LEMMA GrownFacts ==
    ASSUME NEW N, NEW S, NEW A, NEW A2, NEW ix, NEW r, NEW t,
           Splitting(N, S, A, A2, ix, t, r), NEW l \in Grown(ix, t, r[1])
    PROVE  /\ l[1] \in Nat /\ t <= l[1] /\ l[1] < r[1] /\ A2[l] \in Nat
           /\ l = <<l[1], ix[l[1]], l[3]>> /\ l[3] \in Nibbles
           /\ Size(l) \in Nat \ {0} /\ 2 * Size(l) <= Size(r)
           /\ l[3] = "a" => A2[l] = A[r]
           /\ l[3] = "b" => A2[l] = A[r] + Size(l)
<1>1. r[1] \in Nat /\ A[r] \in Nat /\ t \in Nat
  BY DEF Tree, Splitting
<1>2. PICK j \in t..(r[1] - 1), n \in Nibbles : l = <<j, ix[j], n>>
  BY DEF Grown
<1>3. l[1] = j /\ l[3] = n /\ j \in Nat /\ t <= j /\ j < r[1] /\ l = <<l[1], ix[l[1]], l[3]>>
  BY <1>1, <1>2
<1>4. chunk_size[j] \in Nat \ {0} /\ 2 * chunk_size[j] <= chunk_size[r[1]]
  BY <1>1, <1>3, ChunkSizes, SizesGrow
<1>5. n = "a" \/ n = "b"
  BY DEF Nibbles
<1>6. /\ n = "a" => A2[l] = A[r]
      /\ n = "b" => A2[l] = A[r] + chunk_size[j]
  BY <1>2 DEF Splitting
<1>7. A2[l] \in Nat
  BY <1>1, <1>4, <1>5, <1>6
<1> QED BY <1>2, <1>3, <1>4, <1>6, <1>7 DEF Size

\* Two nibbles that are split off together.
LEMMA GrownTogether ==
    ASSUME NEW N, NEW S, NEW A, NEW A2, NEW ix, NEW r, NEW t,
           Splitting(N, S, A, A2, ix, t, r), NEW l \in Grown(ix, t, r[1]),
           NEW g \in Grown(ix, t, r[1]), l # g, l[1] <= g[1]
    PROVE  \/ Disjoint(A2, l, g)
           \/ g[3] = "a" /\ l[1] < g[1] /\ Inside(A2, l, g)
<1>1. /\ l[1] \in Nat /\ t <= l[1] /\ A2[l] \in Nat
      /\ l = <<l[1], ix[l[1]], l[3]>> /\ l[3] \in Nibbles /\ Size(l) \in Nat \ {0}
      /\ l[3] = "a" => A2[l] = A[r]
      /\ l[3] = "b" => A2[l] = A[r] + Size(l)
  BY GrownFacts
<1>2. /\ g[1] \in Nat /\ t <= g[1] /\ A2[g] \in Nat
      /\ g = <<g[1], ix[g[1]], g[3]>> /\ g[3] \in Nibbles /\ Size(g) \in Nat \ {0}
      /\ g[3] = "a" => A2[g] = A[r]
      /\ g[3] = "b" => A2[g] = A[r] + Size(g)
  BY GrownFacts
<1>3. A[r] \in Nat /\ t \in Nat
  BY DEF Tree, Splitting
<1>4. CASE l[1] = g[1]
  <2>0. l = <<l[1], ix[l[1]], l[3]>> /\ g = <<g[1], ix[g[1]], g[3]>>
    BY <1>1, <1>2
  <2>1. l[3] # g[3] /\ Size(l) = Size(g)
    <3>1. PICK x, y, z : x = l[1] /\ y = l[3] /\ z = g[3]
      OBVIOUS
    <3>2. l = <<x, ix[x], y>> /\ g = <<x, ix[x], z>>
      BY <2>0, <3>1, <1>4
    <3>3. y # z
      BY <3>2, Zenon
    <3> QED BY <3>1, <3>3, <1>4 DEF Size
  <2>2. (l[3] = "a" /\ g[3] = "b") \/ (l[3] = "b" /\ g[3] = "a")
    <3>1. PICK y, z : y = l[3] /\ z = g[3]
      OBVIOUS
    <3>2. y \in Nibbles /\ z \in Nibbles /\ y # z
      BY <3>1, <2>1, <1>1, <1>2, Zenon
    <3>3. (y = "a" /\ z = "b") \/ (y = "b" /\ z = "a")
      BY <3>2 DEF Nibbles
    <3> QED BY <3>1, <3>3
  <2> QED BY <2>1, <2>2, <1>1, <1>2, <1>3 DEF Disjoint
<1>5. CASE l[1] < g[1]
  <2>1. 2 * Size(l) <= Size(g)
    BY <1>1, <1>2, <1>5, SizesGrow DEF Size
  <2>2. A2[l] >= A[r] /\ A2[l] + Size(l) <= A[r] + 2 * Size(l)
    BY <1>1, <1>3 DEF Nibbles
  <2>3. CASE g[3] = "a"
    <3>1. A2[g] <= A2[l] /\ A2[l] + Size(l) <= A2[g] + Size(g)
      BY <2>1, <2>2, <2>3, <1>1, <1>2, <1>3
    <3> QED BY <2>3, <3>1, <1>5 DEF Inside
  <2>4. CASE g[3] = "b"
    <3>1. A2[l] + Size(l) <= A2[g]
      BY <2>1, <2>2, <2>4, <1>1, <1>2, <1>3
    <3> QED BY <3>1 DEF Disjoint
  <2> QED BY <2>3, <2>4, <1>2 DEF Nibbles
<1> QED BY <1>1, <1>2, <1>4, <1>5

\* A nibble that was there before, and one that is split off r.
LEMMA GrownApart ==
    ASSUME NEW N, NEW S, NEW A, NEW A2, NEW ix, NEW r, NEW t,
           Splitting(N, S, A, A2, ix, t, r), r \notin S, NEW l \in N,
           NEW g \in Grown(ix, t, r[1])
    PROVE  \/ Disjoint(A2, l, g)
           \/ Inside(A2, g, l) /\ (l = r \/ l \in S)
<1>1. /\ g[1] \in Nat /\ g[1] < r[1] /\ A2[g] \in Nat
      /\ g[3] \in Nibbles /\ Size(g) \in Nat \ {0} /\ 2 * Size(g) <= Size(r)
      /\ g[3] = "a" => A2[g] = A[r]
      /\ g[3] = "b" => A2[g] = A[r] + Size(g)
  BY GrownFacts
<1>2. /\ r \in N /\ l[1] \in Nat /\ r[1] \in Nat /\ A[r] \in Nat /\ A[l] \in Nat
      /\ A2[l] = A[l] /\ A2[r] = A[r]
  BY DEF Tree, Splitting
<1>3. Size(l) \in Nat /\ Size(r) \in Nat
  BY <1>2, ChunkSizes DEF Size
<1>4. A2[g] >= A[r] /\ A2[g] + Size(g) <= A[r] + Size(r)
  BY <1>1, <1>2, <1>3 DEF Nibbles
<1>5. CASE l = r
  BY <1>1, <1>2, <1>4, <1>5 DEF Inside
<1>6. CASE l # r
  <2>1. Disjoint(A, l, r) \/ Inside(A, r, l)
    <3>1. Disjoint(A, l, r) \/ Inside(A, l, r) \/ Inside(A, r, l)
      BY <1>2, <1>6 DEF Tree, Splitting
    <3>2. ~Inside(A, l, r)
      BY <1>2 DEF Tree, Splitting
    <3> QED BY <3>1, <3>2
  <2>2. CASE Disjoint(A, l, r)
    <3>1. A[l] + Size(l) <= A[r] \/ A[r] + Size(r) <= A[l]
      BY <2>2 DEF Disjoint
    <3>2. A2[l] + Size(l) <= A2[g] \/ A2[g] + Size(g) <= A2[l]
      BY <3>1, <1>1, <1>2, <1>3, <1>4
    <3> QED BY <3>2 DEF Disjoint
  <2>3. CASE Inside(A, r, l)
    <3>1. r[1] < l[1] /\ A[l] <= A[r] /\ A[r] + Size(r) <= A[l] + Size(l)
      BY <2>3 DEF Inside
    <3>2. g[1] < l[1] /\ A2[l] <= A2[g] /\ A2[g] + Size(g) <= A2[l] + Size(l)
      BY <3>1, <1>1, <1>2, <1>3, <1>4
    <3>3. l \in S
      BY <2>3, <1>2 DEF Tree, Splitting
    <3> QED BY <3>2, <3>3 DEF Inside
  <2> QED BY <2>1, <2>2, <2>3
<1> QED BY <1>5, <1>6

\* A split nibble is a tree again: each unit of r is in the b nibble of one of
\* the new chunks or in the a nibble of the last one (split_chunk_item).
LEMMA SplitTree ==
    ASSUME NEW N, NEW S, NEW A, NEW A2, NEW ix, NEW r, NEW t,
           Splitting(N, S, A, A2, ix, t, r), r \notin S, t < r[1],
           Grown(ix, t, r[1]) \cap N = {}
    PROVE  Tree(N \cup Grown(ix, t, r[1]), SplitOff(S, ix, t, r), A2)
<1>0. PICK G, S2, k : G = Grown(ix, t, r[1]) /\ S2 = SplitOff(S, ix, t, r) /\ k = r[1]
  OBVIOUS
<1>1. /\ Tree(N, S, A) /\ r \in N /\ t \in Nat /\ k \in Nat /\ A[r] \in Nat /\ S \subseteq N
      /\ \A l \in N : l[1] \in Nat /\ A2[l] = A[l] /\ A[l] \in Nat /\ Size(l) \in Nat
  BY <1>0, ChunkSizes DEF Splitting, Tree, Size
<1>2. \A l \in G : /\ l[1] \in Nat /\ A2[l] \in Nat /\ t <= l[1] /\ l[1] < k
                   /\ l = <<l[1], ix[l[1]], l[3]>> /\ l[3] \in Nibbles
                   /\ Size(l) \in Nat \ {0}
  BY <1>0, GrownFacts
<1>3. S2 = S \cup {r} \cup {<<j, ix[j], "a">> : j \in (t + 1)..(k - 1)}
  BY <1>0 DEF SplitOff
<1>4. S2 \subseteq N \cup G
  <2>1. ASSUME NEW j \in (t + 1)..(k - 1) PROVE <<j, ix[j], "a">> \in G
    <3>1. j \in t..(k - 1) /\ "a" \in Nibbles
      BY <1>1 DEF Nibbles
    <3> QED BY <3>1, <1>0 DEF Grown
  <2> QED BY <2>1, <1>1, <1>3
<1>5. ASSUME NEW l \in G, l[3] = "a", l[1] # t PROVE l \in S2
  <2>1. PICK j : j = l[1]
    OBVIOUS
  <2>2. j \in (t + 1)..(k - 1) /\ l = <<j, ix[j], "a">>
    BY <1>1, <1>2, <1>5, <2>1
  <2> QED BY <2>2, <1>3
<1>6. ASSUME NEW l \in N \cup G, NEW g \in N \cup G, l # g
      PROVE  Disjoint(A2, l, g) \/ Inside(A2, l, g) \/ Inside(A2, g, l)
  <2>1. CASE l \in N /\ g \in N
    <3>1. Disjoint(A, l, g) \/ Inside(A, l, g) \/ Inside(A, g, l)
      BY <2>1, <1>1, <1>6 DEF Tree
    <3> QED BY <3>1, <2>1, <1>1 DEF Disjoint, Inside
  <2>2. CASE l \in N /\ g \in G
    BY <2>2, <1>0, GrownApart
  <2>3. CASE l \in G /\ g \in N
    <3>1. Disjoint(A2, g, l) \/ Inside(A2, l, g)
      BY <2>3, <1>0, GrownApart
    <3> QED BY <3>1 DEF Disjoint
  <2>4. CASE l \in G /\ g \in G
    <3>1. l[1] \in Nat /\ g[1] \in Nat
      BY <2>4, <1>2
    <3>2. CASE l[1] <= g[1]
      BY <2>4, <3>2, <1>0, <1>6, GrownTogether
    <3>3. CASE g[1] <= l[1]
      <4>1. Disjoint(A2, g, l) \/ Inside(A2, g, l)
        BY <2>4, <3>3, <1>0, <1>6, GrownTogether
      <4> QED BY <4>1 DEF Disjoint
    <3> QED BY <3>1, <3>2, <3>3
  <2> QED BY <1>6, <2>1, <2>2, <2>3, <2>4
<1>7. ASSUME NEW l \in (N \cup G) \ S2, NEW g \in N \cup G, Inside(A2, g, l)
      PROVE  FALSE
  <2>1. CASE l \in N /\ g \in N
    <3>1. l \in N \ S
      BY <2>1, <1>3
    <3>2. Inside(A, g, l)
      BY <2>1, <1>1, <1>7 DEF Inside
    <3> QED BY <2>1, <3>1, <3>2, <1>1 DEF Tree
  <2>2. CASE l \in N /\ g \in G
    <3>1. Disjoint(A2, l, g)
      BY <2>2, <1>0, <1>3, GrownApart
    <3> QED BY <3>1, <2>2, <1>1, <1>2, <1>7 DEF Disjoint, Inside
  <2>3. CASE l \in G /\ g \in N
    <3>1. Disjoint(A2, g, l) \/ Inside(A2, l, g)
      BY <2>3, <1>0, GrownApart
    <3>2. CASE Inside(A2, l, g)
      BY <3>2, <2>3, <1>1, <1>2, <1>7 DEF Inside
    <3>3. CASE Disjoint(A2, g, l)
      <4>1. Size(g) > 0
        BY <2>3, <1>1, ChunkSizes DEF Size
      <4> QED BY <4>1, <3>3, <2>3, <1>1, <1>2, <1>7 DEF Disjoint, Inside
    <3> QED BY <3>1, <3>2, <3>3
  <2>4. CASE l \in G /\ g \in G
    <3>1. g[1] < l[1] /\ g # l
      BY <2>4, <1>2, <1>7 DEF Inside
    <3>2. g[1] <= l[1]
      BY <3>1, <2>4, <1>2
    <3>3. Disjoint(A2, g, l) \/ l[3] = "a"
      BY <2>4, <3>1, <3>2, <1>0, GrownTogether
    <3>4. CASE Disjoint(A2, g, l)
      BY <3>4, <2>4, <1>2, <1>7 DEF Disjoint, Inside
    <3>5. CASE l[3] = "a"
      <4>1. l[1] # t
        BY <3>1, <2>4, <1>1, <1>2
      <4> QED BY <4>1, <3>5, <2>4, <1>5, <1>7
    <3> QED BY <3>3, <3>4, <3>5
  <2> QED BY <1>7, <2>1, <2>2, <2>3, <2>4
<1>8. ASSUME NEW j \in t..(k - 1), NEW n \in Nibbles, n = "b" \/ j = t
      PROVE  <<j, ix[j], n>> \in (N \cup G) \ S2
  <2>1. <<j, ix[j], n>> \in G
    BY <1>0 DEF Grown
  <2>2. <<j, ix[j], n>> \notin S \cup {r}
    BY <2>1, <1>0, <1>1
  <2>3. ASSUME NEW i \in (t + 1)..(k - 1), <<j, ix[j], n>> = <<i, ix[i], "a">> PROVE FALSE
    BY <2>3, <1>1, <1>8
  <2> QED BY <2>1, <2>2, <2>3, <1>3
<1>9. ASSUME NEW u \in Units PROVE \E l \in (N \cup G) \ S2 : Covers(A2, l, u)
  <2>1. PICK l \in N \ S : Covers(A, l, u)
    BY <1>1 DEF Tree
  <2>2. Covers(A2, l, u)
    BY <2>1, <1>1 DEF Covers
  <2>3. CASE l # r
    <3>1. l \notin G
      BY <2>1, <1>0
    <3>2. l \notin S2
      <4>1. ASSUME NEW j \in (t + 1)..(k - 1), l = <<j, ix[j], "a">> PROVE FALSE
        <5>1. j \in t..(k - 1) /\ "a" \in Nibbles
          BY <1>1 DEF Nibbles
        <5> QED BY <3>1, <4>1, <5>1, <1>0 DEF Grown
      <4> QED BY <4>1, <2>1, <2>3, <1>3
    <3> QED BY <2>1, <2>2, <3>2
  <2>4. CASE l = r
    <3>1. u \in Int /\ A[r] <= u /\ u < A[r] + chunk_size[k]
      <4>1. RootK \in Nat
        BY RootKNat
      <4>2. u \in Int
        BY <4>1, ChunkSizes DEF Units
      <4> QED BY <4>2, <2>1, <2>4, <1>0 DEF Covers, Size
    <3>2. PICK x : x = u - A[r]
      OBVIOUS
    <3>3. x \in Nat /\ x < chunk_size[k] /\ u = A[r] + x
      <4>1. chunk_size[k] \in Nat
        BY <1>1, ChunkSizes
      <4> QED BY <4>1, <3>1, <3>2, <1>1
    <3>4. t \in t..(k - 1) /\ "a" \in Nibbles /\ "b" \in Nibbles
      BY <1>0, <1>1 DEF Nibbles
    <3>5. CASE x < chunk_size[t]
      <4>1. PICK w : w = <<t, ix[t], "a">>
        OBVIOUS
      <4>2. w \in (N \cup G) \ S2 /\ A2[w] = A[r] /\ Size(w) = chunk_size[t]
        BY <4>1, <3>4, <1>0, <1>8 DEF Splitting, Size
      <4>3. Covers(A2, w, u)
        BY <4>2, <3>3, <3>5, <1>1, ChunkSizes DEF Covers
      <4> QED BY <4>2, <4>3
    <3>6. CASE ~(x < chunk_size[t])
      <4>1. PICK j \in t..(k - 1) : chunk_size[j] <= x /\ x < chunk_size[j + 1]
        BY <3>3, <3>6, <1>1, PowerBelow
      <4>2. j \in Nat
        BY <1>1
      <4>3. chunk_size[j] \in Nat /\ x < 2 * chunk_size[j]
        BY <4>1, <4>2, ChunkSizes
      <4>4. PICK w : w = <<j, ix[j], "b">>
        OBVIOUS
      <4>5. w \in (N \cup G) \ S2 /\ A2[w] = A[r] + chunk_size[j] /\ Size(w) = chunk_size[j]
        BY <4>4, <3>4, <1>0, <1>8 DEF Splitting, Size
      <4>6. Covers(A2, w, u)
        BY <4>1, <4>3, <4>5, <3>3, <1>1 DEF Covers
      <4> QED BY <4>5, <4>6
    <3> QED BY <3>5, <3>6
  <2> QED BY <2>3, <2>4
<1>10. \A l \in N \cup G : l[1] \in Nat /\ A2[l] \in Nat
  BY <1>1, <1>2
<1> QED BY <1>0, <1>4, <1>6, <1>7, <1>9, <1>10 DEF Tree

\* Two nibbles of one line at one address are the same, and of two nibbles that
\* begin at one address that of the lower line is inside the other.
LEMMA SameAddress ==
    ASSUME NEW N, NEW S, NEW A, Tree(N, S, A), NEW l \in N, NEW g \in N, A[l] = A[g]
    PROVE  /\ l[1] = g[1] => l = g
           /\ l[1] < g[1] => Inside(A, l, g) /\ g \in S
<1>1. /\ l[1] \in Nat /\ g[1] \in Nat /\ A[l] \in Nat
      /\ Size(l) \in Nat \ {0} /\ Size(g) \in Nat \ {0}
  BY ChunkSizes DEF Tree, Size
<1>2. ASSUME l # g PROVE Inside(A, l, g) \/ Inside(A, g, l)
  <2>1. ~Disjoint(A, l, g)
    BY <1>1 DEF Disjoint
  <2> QED BY <2>1, <1>2 DEF Tree
<1>3. l[1] = g[1] => l = g
  BY <1>1, <1>2 DEF Inside
<1>4. l[1] < g[1] => Inside(A, l, g)
  BY <1>1, <1>2 DEF Inside
<1> QED BY <1>3, <1>4 DEF Tree

\* Two nibbles that are not split do not overlap.
LEMMA LeavesDisjoint ==
    ASSUME NEW N, NEW S, NEW A, Tree(N, S, A), NEW l \in N \ S, NEW g \in N \ S, l # g
    PROVE  Disjoint(A, l, g)
BY DEF Tree

\* Two nibbles of line k that follow each other, and neither is split, are given
\* back to the nibble g of line k + 1 that begins where they do (merge_nibbles).
LEMMA MergeTree ==
    ASSUME NEW N, NEW S, NEW A, NEW A2, Tree(N, S, A), NEW la \in N \ S, NEW lb \in N \ S,
           NEW g \in N, lb[1] = la[1], g[1] = la[1] + 1, A[lb] = A[la] + Size(la),
           A[g] = A[la], \A l \in N \ {la, lb} : A2[l] = A[l]
    PROVE  Tree(N \ {la, lb}, S \ {g}, A2) /\ g \in S
<1>0. PICK k, c : k = la[1] /\ c = chunk_size[k]
  OBVIOUS
<1>1. /\ k \in Nat /\ c \in Nat \ {0} /\ A[la] \in Nat /\ A[lb] = A[la] + c
      /\ Size(la) = c /\ Size(lb) = c /\ Size(g) = 2 * c /\ A[g] = A[la] /\ S \subseteq N
  BY <1>0, ChunkSizes DEF Tree, Size
<1>2. g \in S /\ g # la /\ g # lb
  BY <1>0, <1>1, SameAddress
<1>3. ASSUME NEW h \in N \ {la, lb}, Inside(A, h, g) PROVE FALSE
  <2>1. /\ h[1] < k + 1 /\ A[la] <= A[h] /\ A[h] + Size(h) <= A[la] + 2 * c
        /\ h[1] \in Nat /\ A[h] \in Nat /\ Size(h) \in Nat \ {0}
    BY <1>0, <1>1, <1>3, ChunkSizes DEF Inside, Tree, Size
  <2>2. ~Inside(A, la, h) /\ ~Inside(A, lb, h)
    BY <2>1, <1>0, <1>1 DEF Inside
  <2>3. ~Inside(A, h, la) /\ ~Inside(A, h, lb)
    BY DEF Tree
  <2>4. Disjoint(A, h, la) /\ Disjoint(A, h, lb)
    BY <2>2, <2>3, <1>3 DEF Tree
  <2> QED BY <2>1, <2>4, <1>1 DEF Disjoint
<1>4. ASSUME NEW u \in Units PROVE \E l \in (N \ {la, lb}) \ (S \ {g}) : Covers(A2, l, u)
  <2>1. PICK l \in N \ S : Covers(A, l, u)
    BY DEF Tree
  <2>2. CASE l \notin {la, lb}
    BY <2>1, <2>2 DEF Covers
  <2>3. CASE l \in {la, lb}
    <3>1. u \in Int
      BY RootKNat, ChunkSizes DEF Units
    <3>2. A[la] <= u /\ u < A[la] + 2 * c
      BY <3>1, <2>1, <2>3, <1>1 DEF Covers
    <3>3. Covers(A2, g, u)
      BY <3>2, <1>1, <1>2 DEF Covers
    <3> QED BY <3>3, <1>2
  <2> QED BY <2>2, <2>3
<1>5. ASSUME NEW l \in (N \ {la, lb}) \ (S \ {g}), NEW h \in N \ {la, lb}, Inside(A2, h, l)
      PROVE  FALSE
  <2>1. Inside(A, h, l)
    BY <1>5 DEF Inside
  <2>2. CASE l = g
    BY <2>1, <2>2, <1>3
  <2>3. CASE l # g
    BY <2>1, <2>3 DEF Tree
  <2> QED BY <2>2, <2>3
<1>6. ASSUME NEW l \in N \ {la, lb}, NEW h \in N \ {la, lb}, l # h
      PROVE  Disjoint(A2, l, h) \/ Inside(A2, l, h) \/ Inside(A2, h, l)
  <2>1. Disjoint(A, l, h) \/ Inside(A, l, h) \/ Inside(A, h, l)
    BY <1>6 DEF Tree
  <2> QED BY <2>1 DEF Disjoint, Inside
<1>7. /\ \A l \in N \ {la, lb} : l[1] \in Nat /\ A2[l] \in Nat
      /\ S \ {g} \subseteq N \ {la, lb}
  BY <1>1 DEF Tree
<1> QED BY <1>2, <1>4, <1>5, <1>6, <1>7 DEF Tree

\* Nibble n of the chunk of l.
Kin(l, n) == <<l[1], l[2], n>>

\* Below the root line chunks have two nibbles, one after the other, and a
\* parent nibble that begins where they do.  A split nibble has a chunk below.
Family(N, S, A) ==
    /\ \A l \in N : l[1] < RootK =>
          /\ Kin(l, "a") \in N /\ Kin(l, "b") \in N
          /\ A[Kin(l, "b")] = A[Kin(l, "a")] + Size(l)
          /\ \E g \in N : g[1] = l[1] + 1 /\ A[g] = A[Kin(l, "a")]
    /\ \A g \in S : \E l \in N : l[1] = g[1] - 1 /\ l[3] = "a" /\ A[l] = A[g]
    /\ \A l \in N : l = Kin(l, l[3]) /\ l[3] \in Nibbles
    /\ \A l \in N : l[1] <= RootK /\ (l[1] = RootK => l = <<RootK, 1, "a">>)

LEMMA SplitFamily ==
    ASSUME NEW N, NEW S, NEW A, NEW A2, NEW ix, NEW r, NEW t,
           Splitting(N, S, A, A2, ix, t, r), Family(N, S, A), t < r[1]
    PROVE  Family(N \cup Grown(ix, t, r[1]), SplitOff(S, ix, t, r), A2)
<1>0. PICK G, S2, k : G = Grown(ix, t, r[1]) /\ S2 = SplitOff(S, ix, t, r) /\ k = r[1]
  OBVIOUS
<1>1. /\ r \in N /\ t \in Nat /\ k \in Nat /\ k <= RootK /\ RootK \in Nat /\ S \subseteq N /\ t < k
      /\ \A l \in N : A2[l] = A[l]
  BY <1>0, RootKNat DEF Splitting, Tree, Family
<1>2. ASSUME NEW j \in t..(k - 1)
      PROVE  /\ <<j, ix[j], "a">> \in G /\ <<j, ix[j], "b">> \in G
             /\ A2[<<j, ix[j], "a">>] = A[r] /\ A2[<<j, ix[j], "b">>] = A[r] + chunk_size[j]
  <2>1. "a" \in Nibbles /\ "b" \in Nibbles
    BY DEF Nibbles
  <2> QED BY <2>1, <1>0 DEF Grown, Splitting
<1>3. ASSUME NEW l \in G
      PROVE  /\ l[1] < RootK /\ l[1] <= RootK
             /\ Kin(l, "a") \in G /\ Kin(l, "b") \in G
             /\ A2[Kin(l, "b")] = A2[Kin(l, "a")] + Size(l)
             /\ \E g \in N \cup G : g[1] = l[1] + 1 /\ A2[g] = A2[Kin(l, "a")]
  <2>1. PICK j \in t..(k - 1), n \in Nibbles : l = <<j, ix[j], n>>
    BY <1>0 DEF Grown
  <2>2. l[1] = j /\ j \in Nat /\ j < RootK /\ Size(l) = chunk_size[j]
    BY <2>1, <1>1 DEF Size
  <2>3. Kin(l, "a") = <<j, ix[j], "a">> /\ Kin(l, "b") = <<j, ix[j], "b">>
    BY <2>1 DEF Kin
  <2>4. \E g \in N \cup G : g[1] = j + 1 /\ A2[g] = A[r]
    <3>1. CASE j = k - 1
      BY <3>1, <1>0, <1>1
    <3>2. CASE j # k - 1
      <4>1. PICK g : g = <<j + 1, ix[j + 1], "a">>
        OBVIOUS
      <4>2. j + 1 \in t..(k - 1)
        BY <3>2, <2>2, <1>1
      <4> QED BY <4>1, <4>2, <1>2
    <3> QED BY <3>1, <3>2
  <2> QED BY <2>2, <2>3, <2>4, <1>1, <1>2
<1>4. ASSUME NEW l \in N, l[1] < RootK
      PROVE  /\ Kin(l, "a") \in N /\ Kin(l, "b") \in N
             /\ A2[Kin(l, "b")] = A2[Kin(l, "a")] + Size(l)
             /\ \E g \in N : g[1] = l[1] + 1 /\ A2[g] = A2[Kin(l, "a")]
  BY <1>1, <1>4 DEF Family
<1>5. ASSUME NEW g \in S2
      PROVE  \E l \in N \cup G : l[1] = g[1] - 1 /\ l[3] = "a" /\ A2[l] = A2[g]
  <2>1. CASE g \in S
    BY <2>1, <1>1 DEF Family
  <2>2. ASSUME NEW j \in (t + 1)..k, g[1] = j, A2[g] = A[r]
        PROVE  \E l \in N \cup G : l[1] = g[1] - 1 /\ l[3] = "a" /\ A2[l] = A2[g]
    <3>1. PICK i : i = j - 1
      OBVIOUS
    <3>2. i \in t..(k - 1)
      BY <3>1, <1>1
    <3>3. PICK l : l = <<i, ix[i], "a">>
      OBVIOUS
    <3> QED BY <3>1, <3>2, <3>3, <2>2, <1>2
  <2>3. CASE g = r
    BY <2>2, <2>3, <1>0, <1>1
  <2>4. ASSUME NEW j \in (t + 1)..(k - 1), g = <<j, ix[j], "a">>
        PROVE  \E l \in N \cup G : l[1] = g[1] - 1 /\ l[3] = "a" /\ A2[l] = A2[g]
    <3>1. j \in t..(k - 1) /\ j \in (t + 1)..k
      BY <1>1
    <3>2. g[1] = j /\ A2[g] = A[r]
      BY <2>4, <3>1, <1>2
    <3> QED BY <3>1, <3>2, <2>2
  <2> QED BY <2>1, <2>3, <2>4, <1>0 DEF SplitOff
<1>6. \A l \in N \cup G : l[1] <= RootK /\ (l[1] = RootK => l = <<RootK, 1, "a">>)
  <2>1. \A l \in G : l[1] <= RootK /\ l[1] # RootK
    <3>1. ASSUME NEW l \in G PROVE l[1] <= RootK /\ l[1] # RootK
      <4>1. PICK j \in t..(k - 1), n \in Nibbles : l = <<j, ix[j], n>>
        BY <1>0 DEF Grown
      <4> QED BY <4>1, <1>1
    <3> QED BY <3>1
  <2> QED BY <2>1 DEF Family
<1>7. \A l \in N \cup G : l = Kin(l, l[3]) /\ l[3] \in Nibbles
  <2>1. ASSUME NEW l \in G PROVE l = Kin(l, l[3]) /\ l[3] \in Nibbles
    <3>1. PICK j \in t..(k - 1), n \in Nibbles : l = <<j, ix[j], n>>
      BY <1>0 DEF Grown
    <3> QED BY <3>1 DEF Kin
  <2> QED BY <2>1 DEF Family
<1> QED BY <1>0, <1>3, <1>4, <1>5, <1>6, <1>7 DEF Family

LEMMA MergeFamily ==
    ASSUME NEW N, NEW S, NEW A, NEW A2, Tree(N, S, A), Family(N, S, A), NEW k \in Nat, NEW i,
           NEW la, NEW lb, la = <<k, i, "a">>, lb = <<k, i, "b">>, la \in N \ S, lb \in N \ S,
           NEW g \in N, g[1] = k + 1, A[g] = A[la], A[lb] = A[la] + Size(la),
           \A l \in N \ {la, lb} : A2[l] = A[l]
    PROVE  Family(N \ {la, lb}, S \ {g}, A2)
<1>1. la[1] = k /\ lb[1] = k /\ la[3] = "a" /\ lb[3] = "b" /\ S \subseteq N
  BY DEF Tree
<1>2. ASSUME NEW l \in N \ {la, lb}, l[1] < RootK
      PROVE  /\ Kin(l, "a") \in N \ {la, lb} /\ Kin(l, "b") \in N \ {la, lb}
             /\ A2[Kin(l, "b")] = A2[Kin(l, "a")] + Size(l)
             /\ \E h \in N \ {la, lb} : h[1] = l[1] + 1 /\ A2[h] = A2[Kin(l, "a")]
  <2>1. /\ Kin(l, "a") \in N /\ Kin(l, "b") \in N
        /\ A[Kin(l, "b")] = A[Kin(l, "a")] + Size(l)
    BY <1>2 DEF Family
  <2>2. PICK h \in N : h[1] = l[1] + 1 /\ A[h] = A[Kin(l, "a")]
    BY <1>2 DEF Family
  <2>3. Kin(l, "a") \notin {la, lb} /\ Kin(l, "b") \notin {la, lb}
    <3>1. PICK x, y, z : x = l[1] /\ y = l[2] /\ z = l[3]
      OBVIOUS
    <3>2. l = <<x, y, z>> /\ z \in {"a", "b"}
      BY <3>1 DEF Family, Kin, Nibbles
    <3>3. ~(x = k /\ y = i)
      BY <3>2, <1>2
    <3>4. Kin(l, "a") = <<x, y, "a">> /\ Kin(l, "b") = <<x, y, "b">>
      BY <3>1 DEF Kin
    <3> QED BY <3>3, <3>4
  <2>4. h \notin {la, lb}
    <3>1. Kin(l, "a")[1] = l[1] /\ l[1] \in Nat
      BY DEF Kin, Tree
    <3>2. Kin(l, "a")[1] < h[1]
      BY <3>1, <2>2
    <3>3. h \in S
      BY <2>1, <2>2, <3>2, SameAddress
    <3> QED BY <3>3
  <2> QED BY <2>1, <2>2, <2>3, <2>4
<1>3. ASSUME NEW h \in S \ {g}
      PROVE  \E l \in N \ {la, lb} : l[1] = h[1] - 1 /\ l[3] = "a" /\ A2[l] = A2[h]
  <2>1. PICK l \in N : l[1] = h[1] - 1 /\ l[3] = "a" /\ A[l] = A[h]
    BY DEF Family
  <2>2. h \notin {la, lb} /\ l # lb
    BY <2>1, <1>1
  <2>3. l # la
    <3> SUFFICES ASSUME l = la PROVE FALSE
      OBVIOUS
    <3>1. h \in N /\ h[1] \in Nat /\ A[h] = A[g]
      BY <2>1, <1>1 DEF Tree
    <3>2. h[1] = g[1]
      BY <3>1, <2>1, <1>1
    <3> QED BY <3>1, <3>2, SameAddress
  <2> QED BY <2>1, <2>2, <2>3, <1>1
<1> QED BY <1>2, <1>3 DEF Family

-----------------------------------------------------------------------------
(* The inductive invariant *)

\* The nibbles with memory, the split ones, the used ones, and their addresses.
Places == UNION {{k} \X (DOMAIN lines[k]) \X Nibbles : k \in Ks}
Nodes == {l \in Places : lines[l[1]][l[2]][l[3]] # NULL}
Where == [l \in Nodes |-> lines[l[1]][l[2]][l[3]]]
Flagged(flag) == {l \in Nodes : flag[l[3]] \in lines[l[1]][l[2]].flags}

\* No nibble ends beyond the heap, not even after a merge that went wrong.
InHeap == \A l \in Nodes : Where[l] + Size(l) <= chunk_size[RootK]

\* The client holds the used nibbles, and these are not split.
HeldOK == /\ Flagged(UsedFlag) \cap Flagged(SplitFlag) = {}
          /\ held = {<<l[1], Where[l]>> : l \in Flagged(UsedFlag)}

IInv == /\ TypeOK /\ InHeap
        /\ fault = "none" => /\ Tree(Nodes, Flagged(SplitFlag), Where)
                             /\ Family(Nodes, Flagged(SplitFlag), Where)
                             /\ HeldOK

\* Which triples are nibbles with memory.
LEMMA NodeFacts ==
    /\ \A l \in Places : /\ l[1] \in Ks /\ l[2] \in DOMAIN lines[l[1]] /\ l[3] \in Nibbles
                         /\ l = <<l[1], l[2], l[3]>>
    /\ \A k \in Ks, n \in Nibbles : \A i \in DOMAIN lines[k] : <<k, i, n>> \in Places
<1>1. ASSUME NEW l \in Places
      PROVE  /\ l[1] \in Ks /\ l[2] \in DOMAIN lines[l[1]] /\ l[3] \in Nibbles
             /\ l = <<l[1], l[2], l[3]>>
  <2>1. PICK k \in Ks : l \in {k} \X (DOMAIN lines[k]) \X Nibbles
    BY DEF Places
  <2> QED BY <2>1
<1>2. ASSUME NEW k \in Ks, NEW n \in Nibbles, NEW i \in DOMAIN lines[k]
      PROVE  <<k, i, n>> \in Places
  <2>1. <<k, i, n>> \in {k} \X (DOMAIN lines[k]) \X Nibbles
    OBVIOUS
  <2> QED BY <2>1 DEF Places
<1> QED BY <1>1, <1>2

LEMMA LeavesAre == Leaves = Nodes \ Flagged(SplitFlag)
BY DEF Leaves, Nodes, Flagged, Places

\* What the types say of a chunk.
LEMMA ChunkFacts ==
    ASSUME TypeOK, NEW k \in Ks, NEW i \in DOMAIN lines[k]
    PROVE  /\ lines[k][i] \in Chunk /\ k \in Nat /\ i \in Nat
           /\ lines[k][i].flags \subseteq Flags
           /\ \A n \in Nibbles : lines[k][i][n] \in Units \cup {NULL}
<1>1. lines[k] \in Seq(Chunk)
  BY DEF TypeOK
<1>2. lines[k][i] \in Chunk /\ i \in Nat
  BY <1>1
<1>3. k \in Nat
  BY RootKNat DEF Ks
<1>4. PICK c : c = lines[k][i]
  OBVIOUS
<1>5. c.a \in Units \cup {NULL} /\ c.b \in Units \cup {NULL} /\ c.flags \subseteq Flags
  BY <1>2, <1>4 DEF Chunk
<1>6. \A n \in Nibbles : c[n] \in Units \cup {NULL}
  BY <1>5 DEF Nibbles
<1> QED BY <1>2, <1>3, <1>4, <1>5, <1>6

LEMMA UnitsFacts == Units \subseteq Nat /\ chunk_size[RootK] \in Nat \ {0} /\ NULL \notin Units
                    /\ \A u \in Nat : u \in Units <=> u < chunk_size[RootK]
BY RootKNat, ChunkSizes DEF Units, NULL

LEMMA WhereFacts ==
    ASSUME TypeOK
    PROVE  \A l \in Nodes : Where[l] \in Units /\ l[1] \in Ks /\ l[1] \in Nat
<1> SUFFICES ASSUME NEW l \in Nodes PROVE Where[l] \in Units /\ l[1] \in Ks /\ l[1] \in Nat
  OBVIOUS
<1>1. l[1] \in Ks /\ l[2] \in DOMAIN lines[l[1]] /\ l[3] \in Nibbles
  BY NodeFacts DEF Nodes
<1>2. lines[l[1]][l[2]][l[3]] \in Units \cup {NULL} /\ l[1] \in Nat
  BY <1>1, ChunkFacts
<1> QED BY <1>1, <1>2 DEF Nodes, Where

\* binit
LEMMA InitInv == Init => IInv
<1> SUFFICES ASSUME Init PROVE IInv
  OBVIOUS
<1>1. PICK r : r = <<RootK, 1, "a">>
  OBVIOUS
<1>2. /\ lines = [k \in Ks |-> IF k = RootK THEN <<ChunkItem(0, NULL, {})>> ELSE <<>>]
      /\ RootK \in Ks /\ RootK \in Nat
  BY RootKNat DEF Init, Ks
<1>3. PICK c : c = ChunkItem(0, NULL, {})
  OBVIOUS
<1>4. c.a = 0 /\ c.b = NULL /\ c.flags = {} /\ c \in Chunk /\ c["a"] = 0 /\ c["b"] = NULL
  BY <1>3, UnitsFacts DEF ChunkItem, Chunk
<1>5. /\ lines[RootK] = <<c>> /\ \A k \in Ks \ {RootK} : lines[k] = <<>>
      /\ DOMAIN lines[RootK] = {1} /\ lines[RootK][1] = c
  BY <1>2, <1>3
<1>6. TypeOK
  <2>1. lines \in [Ks -> Seq(Chunk)]
    BY <1>2, <1>3, <1>4
  <2>2. \A k \in Ks : Len(lines[k]) <= MaxChunks
    <3>1. Len(lines[RootK]) = 1 /\ \A k \in Ks \ {RootK} : Len(lines[k]) = 0
      BY <1>5
    <3>2. ASSUME NEW k \in Ks PROVE Len(lines[k]) <= MaxChunks
      <4>1. PICK x : x = Len(lines[k])
        OBVIOUS
      <4>2. x = 1 \/ x = 0
        BY <3>1, <4>1
      <4>3. x <= MaxChunks
        BY <4>2, MaxChunksPos
      <4> QED BY <4>1, <4>3
    <3> QED BY <3>2
  <2> QED BY <2>1, <2>2 DEF Init, TypeOK
<1>7. Nodes = {r}
  <2>1. r \in Nodes
    <3>1. r \in Places
      BY <1>1, <1>2, <1>5, NodeFacts DEF Nibbles
    <3>2. lines[r[1]][r[2]][r[3]] = 0
      BY <1>1, <1>4, <1>5
    <3> QED BY <3>1, <3>2 DEF Nodes, NULL
  <2>2. ASSUME NEW l \in Nodes PROVE l = r
    <3>1. PICK k, i, n : l = <<k, i, n>> /\ k \in Ks /\ i \in DOMAIN lines[k] /\ n \in Nibbles
      BY NodeFacts DEF Nodes
    <3>2. lines[k][i][n] # NULL
      BY <3>1 DEF Nodes
    <3>3. k = RootK /\ i = 1
      BY <3>1, <1>5
    <3>4. n = "a"
      BY <3>1, <3>2, <3>3, <1>4, <1>5 DEF Nibbles
    <3> QED BY <3>1, <3>3, <3>4, <1>1
  <2> QED BY <2>1, <2>2
<1>8. Where[r] = 0 /\ Flagged(SplitFlag) = {} /\ Flagged(UsedFlag) = {}
  BY <1>1, <1>4, <1>5, <1>7 DEF Where, Flagged
<1>9. r[1] = RootK /\ r[3] = "a" /\ r[3] \in Nibbles /\ r = Kin(r, r[3]) /\ Size(r) = chunk_size[RootK]
  BY <1>1 DEF Kin, Size, Nibbles
<1>10. InHeap
  BY <1>7, <1>8, <1>9, UnitsFacts DEF InHeap
<1>11. Tree(Nodes, Flagged(SplitFlag), Where)
  <2>1. \A u \in Units : Covers(Where, r, u)
    BY <1>8, <1>9, UnitsFacts DEF Covers
  <2>2. ~Inside(Where, r, r)
    BY <1>2, <1>9 DEF Inside
  <2> QED BY <2>1, <2>2, <1>2, <1>7, <1>8, <1>9 DEF Tree
<1>12. Family(Nodes, Flagged(SplitFlag), Where)
  BY <1>1, <1>2, <1>7, <1>8, <1>9 DEF Family
<1>13. HeldOK
  BY <1>8 DEF HeldOK, Init
<1> QED BY <1>6, <1>10, <1>11, <1>12, <1>13 DEF IInv

-----------------------------------------------------------------------------
(* Flags *)

LEMMA FlagFacts ==
    /\ \A n \in Nibbles : UsedFlag[n] \in Flags /\ SplitFlag[n] \in Flags
                          /\ LeftFlag[n] \in Flags /\ RightFlag[n] \in Flags
    /\ \A n, m \in Nibbles : /\ UsedFlag[n] # SplitFlag[m]
                             /\ n # m => UsedFlag[n] # UsedFlag[m] /\ SplitFlag[n] # SplitFlag[m]
<1>1. /\ UsedFlag["a"] = "A_USED" /\ UsedFlag["b"] = "B_USED"
      /\ SplitFlag["a"] = "A_SPLIT" /\ SplitFlag["b"] = "B_SPLIT"
      /\ LeftFlag["a"] = "A1_ELSEWHERE" /\ LeftFlag["b"] = "B1_ELSEWHERE"
      /\ RightFlag["a"] = "A2_ELSEWHERE" /\ RightFlag["b"] = "B2_ELSEWHERE"
  BY DEF UsedFlag, SplitFlag, LeftFlag, RightFlag
<1>2. ASSUME NEW f \in {UsedFlag, SplitFlag, LeftFlag, RightFlag}, NEW n \in Nibbles
      PROVE  f[n] \in Flags
  <2>1. f[n] \in {f.a, f.b}
    BY DEF Nibbles
  <2> QED BY <2>1 DEF Flags
<1> QED BY <1>1, <1>2 DEF Nibbles

\* The flags of chunk i of line k are set anew.
SetFlags(k, i, F) ==
    lines' = [lines EXCEPT ![k] = [lines[k] EXCEPT ![i] = [lines[k][i] EXCEPT !.flags = F]]]

LEMMA Reflagged ==
    ASSUME TypeOK, NEW k \in Ks, NEW i \in DOMAIN lines[k], NEW F \in SUBSET Flags,
           SetFlags(k, i, F)
    PROVE  /\ lines' \in [Ks -> Seq(Chunk)]
           /\ \A j \in Ks : Len(lines'[j]) = Len(lines[j]) /\ DOMAIN lines'[j] = DOMAIN lines[j]
           /\ \A j \in Ks : \A x \in DOMAIN lines[j] :
                 /\ \A n \in Nibbles : lines'[j][x][n] = lines[j][x][n]
                 /\ lines'[j][x].flags = IF j = k /\ x = i THEN F ELSE lines[j][x].flags
           /\ Nodes' = Nodes /\ Where' = Where
<1>0. PICK c, d, s : /\ c = lines[k][i] /\ d = [c EXCEPT !.flags = F]
                     /\ s = [lines[k] EXCEPT ![i] = d]
  OBVIOUS
<1>1. c \in Chunk /\ lines \in [Ks -> Seq(Chunk)] /\ lines[k] \in Seq(Chunk)
  BY <1>0, ChunkFacts DEF TypeOK
<1>2. d \in Chunk /\ d.a = c.a /\ d.b = c.b /\ d.flags = F
  BY <1>0, <1>1 DEF Chunk
<1>3. \A n \in Nibbles : d[n] = c[n]
  BY <1>2 DEF Nibbles
<1>4. /\ s \in Seq(Chunk) /\ Len(s) = Len(lines[k]) /\ DOMAIN s = DOMAIN lines[k] /\ s[i] = d
      /\ \A x \in DOMAIN lines[k] : x # i => s[x] = lines[k][x]
  BY <1>0, <1>1, <1>2
<1>5. lines' = [lines EXCEPT ![k] = s]
  BY <1>0 DEF SetFlags
<1>6. lines' \in [Ks -> Seq(Chunk)] /\ lines'[k] = s /\ \A j \in Ks \ {k} : lines'[j] = lines[j]
  BY <1>1, <1>4, <1>5
<1>7. \A j \in Ks : Len(lines'[j]) = Len(lines[j]) /\ DOMAIN lines'[j] = DOMAIN lines[j]
  BY <1>4, <1>6
<1>8. \A j \in Ks : \A x \in DOMAIN lines[j] :
                 /\ \A n \in Nibbles : lines'[j][x][n] = lines[j][x][n]
                 /\ lines'[j][x].flags = IF j = k /\ x = i THEN F ELSE lines[j][x].flags
  <2> SUFFICES ASSUME NEW j \in Ks, NEW x \in DOMAIN lines[j]
               PROVE  /\ \A n \in Nibbles : lines'[j][x][n] = lines[j][x][n]
                      /\ lines'[j][x].flags = IF j = k /\ x = i THEN F ELSE lines[j][x].flags
    OBVIOUS
  <2>1. CASE j = k /\ x = i
    <3>1. lines'[j][x] = d /\ lines[j][x] = c
      BY <2>1, <1>0, <1>4, <1>6
    <3> QED BY <2>1, <3>1, <1>2, <1>3
  <2>2. CASE ~(j = k /\ x = i)
    <3>1. lines'[j][x] = lines[j][x]
      BY <2>2, <1>4, <1>6
    <3> QED BY <2>2, <3>1
  <2> QED BY <2>1, <2>2
<1>9. Places' = Places
  BY <1>7 DEF Places
<1>10. \A l \in Places : lines'[l[1]][l[2]][l[3]] = lines[l[1]][l[2]][l[3]]
  BY <1>8, NodeFacts
<1>11. Nodes' = Nodes
  BY <1>9, <1>10 DEF Nodes
<1>12. Where' = Where
  <2>1. \A l \in Nodes : lines'[l[1]][l[2]][l[3]] = lines[l[1]][l[2]][l[3]]
    BY <1>10 DEF Nodes
  <2> QED BY <1>11, <2>1 DEF Where
<1> QED BY <1>6, <1>7, <1>8, <1>11, <1>12

\* The nibbles with a flag, after the flags of one chunk are set anew.
LEMMA FlaggedAnew ==
    ASSUME TypeOK, NEW k \in Ks, NEW i \in DOMAIN lines[k], NEW F \in SUBSET Flags,
           SetFlags(k, i, F),
           NEW flag
    PROVE  \A l \in Nodes : l \in Flagged(flag)' <=>
               IF l[1] = k /\ l[2] = i THEN flag[l[3]] \in F ELSE l \in Flagged(flag)
<1>1. /\ Nodes' = Nodes
      /\ \A j \in Ks : \A x \in DOMAIN lines[j] :
            lines'[j][x].flags = IF j = k /\ x = i THEN F ELSE lines[j][x].flags
  BY Reflagged
<1> SUFFICES ASSUME NEW l \in Nodes
             PROVE  l \in Flagged(flag)' <=>
                       IF l[1] = k /\ l[2] = i THEN flag[l[3]] \in F ELSE l \in Flagged(flag)
  OBVIOUS
<1>2. l[1] \in Ks /\ l[2] \in DOMAIN lines[l[1]]
  BY NodeFacts DEF Nodes
<1>3. lines'[l[1]][l[2]].flags = IF l[1] = k /\ l[2] = i THEN F ELSE lines[l[1]][l[2]].flags
  BY <1>1, <1>2
<1> QED BY <1>1, <1>3 DEF Flagged

\* ci_set_flag and ci_clear_flag by the client.
LEMMA UseInv ==
    ASSUME IInv, NEW n \in Nibbles, Use(n)
    PROVE  IInv'
<1>0. PICK k, i, F, r : /\ k = got[1] /\ i = got[2] /\ F = lines[k][i].flags \cup {UsedFlag[n]}
                        /\ r = <<k, i, n>>
  OBVIOUS
<1>1. /\ ci_free(lines[k][i], n) /\ UNCHANGED <<got, fault>>
      /\ SetFlags(k, i, F)
      /\ held' = held \cup {<<k, lines[k][i][n]>>}
  BY <1>0 DEF Use, SetFlags
<1>2. TypeOK /\ k \in Ks /\ i \in DOMAIN lines[k]
  BY <1>0 DEF Use, IInv, TypeOK
<1>3. F \in SUBSET Flags
  BY <1>0, <1>2, ChunkFacts, FlagFacts
<1>4. /\ lines' \in [Ks -> Seq(Chunk)] /\ Nodes' = Nodes /\ Where' = Where
      /\ \A j \in Ks : Len(lines'[j]) = Len(lines[j]) /\ DOMAIN lines'[j] = DOMAIN lines[j]
  BY <1>1, <1>2, <1>3, Reflagged
<1>5. r \in Nodes /\ Where[r] = lines[k][i][n] /\ r \notin Flagged(SplitFlag)
      /\ r[1] = k /\ r[2] = i /\ r[3] = n
  BY <1>0, <1>1, <1>2, NodeFacts DEF Nodes, Where, Flagged, ci_free
<1>6. Flagged(SplitFlag)' = Flagged(SplitFlag)
  <2>1. \A l \in Nodes : l \in Flagged(SplitFlag)' <=>
               IF l[1] = k /\ l[2] = i THEN SplitFlag[l[3]] \in F ELSE l \in Flagged(SplitFlag)
    BY <1>1, <1>2, <1>3, FlaggedAnew
  <2>2. ASSUME NEW l \in Nodes PROVE l \in Flagged(SplitFlag)' <=> l \in Flagged(SplitFlag)
    <3>1. l[3] \in Nibbles
      BY NodeFacts DEF Nodes
    <3>2. SplitFlag[l[3]] # UsedFlag[n]
      BY <3>1, FlagFacts
    <3> QED BY <2>1, <3>2, <1>0 DEF Flagged
  <2> QED BY <2>2, <1>4 DEF Flagged
<1>7. Flagged(UsedFlag)' = Flagged(UsedFlag) \cup {r}
  <2>1. \A l \in Nodes : l \in Flagged(UsedFlag)' <=>
               IF l[1] = k /\ l[2] = i THEN UsedFlag[l[3]] \in F ELSE l \in Flagged(UsedFlag)
    BY <1>1, <1>2, <1>3, FlaggedAnew
  <2>2. ASSUME NEW l \in Nodes
        PROVE  l \in Flagged(UsedFlag)' <=> l \in Flagged(UsedFlag) \cup {r}
    <3>1. l[3] \in Nibbles /\ l = <<l[1], l[2], l[3]>>
      BY NodeFacts DEF Nodes
    <3>2. l = r <=> l[1] = k /\ l[2] = i /\ l[3] = n
      BY <3>1, <1>0
    <3>3. l[3] # n => UsedFlag[l[3]] # UsedFlag[n]
      BY <3>1, FlagFacts
    <3> QED BY <2>1, <3>2, <3>3, <1>0 DEF Flagged
  <2> QED BY <2>2, <1>4, <1>5 DEF Flagged
<1>8. TypeOK'
  <2>1. held' \subseteq Ks \X Units
    <3>1. Where[r] \in Units
      BY <1>2, <1>5, WhereFacts
    <3>2. PICK u : u = lines[k][i][n]
      OBVIOUS
    <3>3. u \in Units /\ held' = held \cup {<<k, u>>} /\ held \subseteq Ks \X Units
      BY <3>1, <3>2, <1>1, <1>2, <1>5 DEF TypeOK
    <3> QED BY <3>3, <1>2
  <2> QED BY <2>1, <1>1, <1>2, <1>4 DEF TypeOK
<1>9. InHeap'
  BY <1>4 DEF IInv, InHeap
<1>10. fault = "none" => HeldOK'
  BY <1>1, <1>4, <1>5, <1>6, <1>7 DEF IInv, HeldOK
<1> QED BY <1>1, <1>4, <1>6, <1>8, <1>9, <1>10 DEF IInv

LEMMA UnuseInv ==
    ASSUME IInv, NEW k \in Ks, NEW i, NEW n \in Nibbles, Unuse(k, i, n)
    PROVE  IInv'
<1>0. PICK F, r : F = lines[k][i].flags \ {UsedFlag[n]} /\ r = <<k, i, n>>
  OBVIOUS
<1>1. /\ UsedFlag[n] \in lines[k][i].flags /\ UNCHANGED <<got, fault>> /\ SetFlags(k, i, F)
      /\ held' = held \ {<<k, lines[k][i][n]>>} /\ <<k, lines[k][i][n]>> \in held
  BY <1>0 DEF Unuse, SetFlags
<1>2. TypeOK /\ i \in DOMAIN lines[k]
  BY <1>0 DEF Unuse, IInv
<1>3. F \in SUBSET Flags
  BY <1>0, <1>2, ChunkFacts
<1>4. /\ lines' \in [Ks -> Seq(Chunk)] /\ Nodes' = Nodes /\ Where' = Where
      /\ \A j \in Ks : Len(lines'[j]) = Len(lines[j]) /\ DOMAIN lines'[j] = DOMAIN lines[j]
  BY <1>1, <1>2, <1>3, Reflagged
<1>5. r \in Nodes /\ Where[r] = lines[k][i][n] /\ r \in Flagged(UsedFlag)
      /\ r[1] = k /\ r[2] = i /\ r[3] = n
  <2>1. lines[k][i][n] \in Units
    <3>1. PICK u : u = lines[k][i][n]
      OBVIOUS
    <3>2. <<k, u>> \in held /\ held \subseteq Ks \X Units
      BY <3>1, <1>1, <1>2 DEF TypeOK
    <3> QED BY <3>1, <3>2
  <2>2. lines[k][i][n] # NULL
    BY <2>1, UnitsFacts
  <2> QED BY <1>0, <1>1, <1>2, <2>2, NodeFacts DEF Nodes, Where, Flagged
<1>6. Flagged(SplitFlag)' = Flagged(SplitFlag)
  <2>1. \A l \in Nodes : l \in Flagged(SplitFlag)' <=>
               IF l[1] = k /\ l[2] = i THEN SplitFlag[l[3]] \in F ELSE l \in Flagged(SplitFlag)
    BY <1>1, <1>2, <1>3, FlaggedAnew
  <2>2. ASSUME NEW l \in Nodes PROVE l \in Flagged(SplitFlag)' <=> l \in Flagged(SplitFlag)
    <3>1. l[3] \in Nibbles
      BY NodeFacts DEF Nodes
    <3>2. SplitFlag[l[3]] # UsedFlag[n]
      BY <3>1, FlagFacts
    <3> QED BY <2>1, <3>2, <1>0 DEF Flagged
  <2> QED BY <2>2, <1>4 DEF Flagged
<1>7. Flagged(UsedFlag)' = Flagged(UsedFlag) \ {r}
  <2>1. \A l \in Nodes : l \in Flagged(UsedFlag)' <=>
               IF l[1] = k /\ l[2] = i THEN UsedFlag[l[3]] \in F ELSE l \in Flagged(UsedFlag)
    BY <1>1, <1>2, <1>3, FlaggedAnew
  <2>2. ASSUME NEW l \in Nodes
        PROVE  l \in Flagged(UsedFlag)' <=> l \in Flagged(UsedFlag) \ {r}
    <3>1. l[3] \in Nibbles /\ l = <<l[1], l[2], l[3]>>
      BY NodeFacts DEF Nodes
    <3>2. l = r <=> l[1] = k /\ l[2] = i /\ l[3] = n
      BY <3>1, <1>0
    <3>3. l[3] # n => UsedFlag[l[3]] # UsedFlag[n]
      BY <3>1, FlagFacts
    <3> QED BY <2>1, <3>2, <3>3, <1>0 DEF Flagged
  <2> QED BY <2>2, <1>4, <1>5 DEF Flagged
<1>8. TypeOK'
  <2>1. held' \subseteq Ks \X Units
    BY <1>1, <1>2 DEF TypeOK
  <2> QED BY <2>1, <1>1, <1>2, <1>4 DEF TypeOK
<1>9. InHeap'
  BY <1>4 DEF IInv, InHeap
<1>10. ASSUME fault = "none" PROVE HeldOK'
  <2>1. /\ Tree(Nodes, Flagged(SplitFlag), Where)
        /\ Flagged(UsedFlag) \cap Flagged(SplitFlag) = {}
        /\ held = {<<l[1], Where[l]>> : l \in Flagged(UsedFlag)}
    BY <1>10 DEF IInv, HeldOK
  <2>2. ASSUME NEW l \in Flagged(UsedFlag), <<l[1], Where[l]>> = <<k, Where[r]>> PROVE l = r
    <3>1. l \in Nodes /\ l[1] = r[1] /\ Where[l] = Where[r]
      BY <2>2, <1>5 DEF Flagged
    <3> QED BY <3>1, <2>1, <1>5, SameAddress
  <2>3. held' = {<<l[1], Where[l]>> : l \in Flagged(UsedFlag) \ {r}}
    <3>1. held' = held \ {<<r[1], Where[r]>>}
      BY <1>1, <1>5
    <3> QED BY <3>1, <2>1, <2>2, <1>5
  <2> QED BY <2>1, <2>3, <1>4, <1>6, <1>7 DEF HeldOK
<1> QED BY <1>1, <1>4, <1>6, <1>8, <1>9, <1>10 DEF IInv

-----------------------------------------------------------------------------
(* Searches *)

\* The least number of a set, as find_free_chunk and parent_chunk return it.
LEMMA MinFacts ==
    ASSUME NEW T \in SUBSET Nat, T # {}
    PROVE  Min(T) \in T
<1>1. \E x \in T : \A y \in T : x =< y
  BY Least
<1> QED BY <1>1 DEF Min

LEMMA FreeFacts ==
    ASSUME TypeOK, NEW k \in Ks, find_free_chunk(k) # 0
    PROVE  /\ find_free_chunk(k) \in DOMAIN lines[k]
           /\ HasFree(lines[k][find_free_chunk(k)])
<1>1. FreeChunks(k) # {} /\ find_free_chunk(k) = Min(FreeChunks(k))
  BY DEF find_free_chunk
<1>2. lines[k] \in Seq(Chunk)
  BY DEF TypeOK
<1>3. FreeChunks(k) \in SUBSET Nat
  BY <1>2 DEF FreeChunks
<1>4. find_free_chunk(k) \in FreeChunks(k)
  BY <1>1, <1>3, MinFacts
<1> QED BY <1>4 DEF FreeChunks

LEMMA ParentFacts ==
    ASSUME TypeOK, NEW k \in Ks, NEW c
    PROVE  /\ parent_chunk(k, c) # 0 =>
                 /\ parent_chunk(k, c) \in DOMAIN lines[k]
                 /\ \E n \in Nibbles : lines[k][parent_chunk(k, c)][n] = c.a
           /\ \A i \in DOMAIN lines[k], n \in Nibbles :
                 lines[k][i][n] = c.a => parent_chunk(k, c) # 0
<1> DEFINE I == {i \in 1..Len(lines[k]) : c.a = lines[k][i].a \/ c.a = lines[k][i].b}
<1>1. lines[k] \in Seq(Chunk)
  BY DEF TypeOK
<1>2. Len(lines[k]) \in Nat /\ DOMAIN lines[k] = 1..Len(lines[k])
  BY <1>1
<1>3. parent_chunk(k, c) = IF I # {} THEN Min(I) ELSE 0
  BY DEF parent_chunk, SelectInSeq
<1>4. I \in SUBSET Nat /\ 0 \notin I
  BY <1>2
<1>5. I # {} => Min(I) \in I
  <2> HIDE DEF I
  <2> QED BY <1>4, MinFacts
<1>6. I # {} => parent_chunk(k, c) \in I /\ parent_chunk(k, c) # 0
  BY <1>3, <1>4, <1>5
<1>7. ASSUME parent_chunk(k, c) # 0
      PROVE  /\ parent_chunk(k, c) \in DOMAIN lines[k]
             /\ \E n \in Nibbles : lines[k][parent_chunk(k, c)][n] = c.a
  <2>1. PICK p : p = parent_chunk(k, c)
    OBVIOUS
  <2>2. p \in I
    BY <1>3, <1>5, <1>7, <2>1
  <2>3. "a" \in Nibbles /\ "b" \in Nibbles
    BY DEF Nibbles
  <2>4. p \in DOMAIN lines[k] /\ (lines[k][p].a = c.a \/ lines[k][p].b = c.a)
    BY <2>2, <1>2
  <2> QED BY <2>1, <2>3, <2>4
<1>8. ASSUME NEW i \in DOMAIN lines[k], NEW n \in Nibbles, lines[k][i][n] = c.a
      PROVE  parent_chunk(k, c) # 0
  <2>1. n = "a" \/ n = "b"
    BY DEF Nibbles
  <2>2. i \in I
    BY <2>1, <1>2, <1>8
  <2> QED BY <2>2, <1>6
<1> QED BY <1>7, <1>8

\* The nibble a split takes is free.
LEMMA SplitNibbleFacts ==
    ASSUME NEW c, HasFree(c)
    PROVE  SplitNibble(c) \in Nibbles /\ ci_free(c, SplitNibble(c))
BY DEF SplitNibble, HasFree, Nibbles

\* request_chunk finds a chunk.
LEMMA FoundInv ==
    ASSUME IInv, NEW targetk \in Ks, RequestFound(targetk)
    PROVE  IInv'
<1>1. /\ UNCHANGED <<lines, held, fault>> /\ got' = <<targetk, find_free_chunk(targetk)>>
      /\ find_free_chunk(targetk) \in DOMAIN lines[targetk]
  BY FreeFacts DEF RequestFound, IInv
<1>2. PICK x : x = find_free_chunk(targetk)
  OBVIOUS
<1>3. got' = <<targetk, x>> /\ x \in DOMAIN lines[targetk]
  BY <1>1, <1>2
<1>4. TypeOK'
  <2>1. got'[1] = targetk /\ got'[2] = x
    BY <1>3
  <2>2. got'[1] \in Ks /\ got'[2] \in DOMAIN lines'[got'[1]]
    BY <1>1, <1>3, <2>1
  <2> QED BY <1>1, <2>2 DEF IInv, TypeOK
<1>5. Nodes' = Nodes /\ Where' = Where
  BY <1>1 DEF Nodes, Where, Places
<1>6. Flagged(SplitFlag)' = Flagged(SplitFlag) /\ Flagged(UsedFlag)' = Flagged(UsedFlag)
  BY <1>1, <1>5 DEF Flagged
<1> QED BY <1>1, <1>4, <1>5, <1>6 DEF IInv, InHeap, HeldOK

\* Nibble n of chunk i of line k, at address m, is split down to line t.
SplitStep(k, i, t, n, m) ==
    /\ i \in DOMAIN lines[k] /\ t < k /\ n = SplitNibble(lines[k][i])
    /\ m = lines[k][i][n] /\ m # NULL /\ lines' = SplitDown(k, i, t)

\* The lines after that, chunk by chunk.
AfterSplit(k, i, t, n, m) ==
    /\ lines' \in [Ks -> Seq(Chunk)] /\ m \in Nat /\ m + chunk_size[k] <= chunk_size[RootK]
    /\ \A j \in Ks : Len(lines'[j]) = IF j \in t..(k - 1) THEN Len(lines[j]) + 1
                                                        ELSE Len(lines[j])
    /\ \A j \in Ks : \A x \in DOMAIN lines[j] :
          /\ \A y \in Nibbles : lines'[j][x][y] = lines[j][x][y]
          /\ lines'[j][x].flags = IF j = k /\ x = i
                                  THEN lines[j][x].flags \cup {SplitFlag[n]}
                                  ELSE lines[j][x].flags
    /\ \A j \in t..(k - 1) :
          lines'[j][Len(lines[j]) + 1] =
             ChunkItem(m, m + chunk_size[j], IF j > t THEN {"A_SPLIT"} ELSE {})

\* split_chunk_item and request_chunk.
LEMMA SplitLines ==
    ASSUME TypeOK, InHeap, NEW k \in Ks, NEW i, NEW t \in Ks, NEW n \in Nibbles, NEW m,
           SplitStep(k, i, t, n, m)
    PROVE  AfterSplit(k, i, t, n, m)
<1>0. PICK c, d, s, F : /\ c = lines[k][i] /\ F = c.flags \cup {SplitFlag[n]}
                        /\ d = [c EXCEPT !.flags = F] /\ s = [lines[k] EXCEPT ![i] = d]
  OBVIOUS
<1> USE DEF SplitStep
<1>1. /\ c \in Chunk /\ lines \in [Ks -> Seq(Chunk)] /\ lines[k] \in Seq(Chunk)
      /\ k \in Nat /\ t \in Nat /\ k <= RootK /\ RootK \in Nat
  <2>1. c \in Chunk /\ lines \in [Ks -> Seq(Chunk)]
    BY <1>0, ChunkFacts DEF TypeOK
  <2>2. k \in Nat /\ t \in Nat /\ k <= RootK /\ RootK \in Nat
    BY RootKNat DEF Ks
  <2> QED BY <2>1, <2>2
<1>2. d \in Chunk /\ d.a = c.a /\ d.b = c.b /\ d.flags = F
  <2>1. F \in SUBSET Flags
    BY <1>0, <1>1, ChunkFacts, FlagFacts
  <2> QED BY <2>1, <1>0, <1>1 DEF Chunk
<1>3. \A y \in Nibbles : d[y] = c[y]
  BY <1>2 DEF Nibbles
<1>4. /\ s \in Seq(Chunk) /\ Len(s) = Len(lines[k]) /\ DOMAIN s = DOMAIN lines[k] /\ s[i] = d
      /\ \A x \in DOMAIN lines[k] : x # i => s[x] = lines[k][x]
  BY <1>0, <1>1, <1>2
<1>5. m \in Nat /\ m + chunk_size[k] <= chunk_size[RootK]
  <2>1. PICK l : l = <<k, i, n>>
    OBVIOUS
  <2>2. l \in Nodes /\ Where[l] = m /\ Size(l) = chunk_size[k]
    BY <2>1, NodeFacts DEF Nodes, Where, Size
  <2> QED BY <2>2, WhereFacts, UnitsFacts DEF InHeap
<1>6. ASSUME NEW j \in t..(k - 1)
      PROVE  /\ ChunkItem(m, m + chunk_size[j], IF j > t THEN {"A_SPLIT"} ELSE {}) \in Chunk
             /\ j \in Ks /\ j # k
  <2>1. j \in Nat /\ j < k /\ j \in Ks /\ j # k
    BY <1>1 DEF Ks
  <2>2. /\ 2 * chunk_size[j] <= chunk_size[k] /\ chunk_size[j] \in Nat \ {0}
        /\ chunk_size[k] \in Nat /\ chunk_size[RootK] \in Nat
    BY <2>1, <1>1, SizesGrow, ChunkSizes
  <2>3. m \in Units /\ m + chunk_size[j] \in Units
    BY <2>2, <1>5, UnitsFacts
  <2>4. "A_SPLIT" \in Flags
    <3>1. SplitFlag["a"] = "A_SPLIT" /\ "a" \in Nibbles
      BY DEF SplitFlag, Nibbles
    <3> QED BY <3>1, FlagFacts
  <2>5. PICK f : f = IF j > t THEN {"A_SPLIT"} ELSE {}
    OBVIOUS
  <2>6. f \in SUBSET Flags
    BY <2>4, <2>5
  <2> QED BY <2>1, <2>3, <2>5, <2>6 DEF ChunkItem, Chunk
<1>7. lines' = [j \in Ks |->
            CASE j = k -> s
              [] j \in t..(k - 1) ->
                    Append(lines[j], ChunkItem(m, m + chunk_size[j],
                                               IF j > t THEN {"A_SPLIT"} ELSE {}))
              [] OTHER -> lines[j]]
  BY <1>0 DEF SplitDown
<1>8. /\ lines'[k] = s
      /\ \A j \in t..(k - 1) : lines'[j] =
            Append(lines[j], ChunkItem(m, m + chunk_size[j], IF j > t THEN {"A_SPLIT"} ELSE {}))
      /\ \A j \in Ks : j # k /\ j \notin t..(k - 1) => lines'[j] = lines[j]
      /\ DOMAIN lines' = Ks /\ lines' = [j \in Ks |-> lines'[j]]
  <2>1. k \notin t..(k - 1) /\ k \in Ks
    BY <1>1
  <2>2. \A j \in t..(k - 1) : j \in Ks /\ j # k
    BY <1>6
  <2> QED BY <1>7, <2>1, <2>2
<1>9. ASSUME NEW j \in t..(k - 1)
      PROVE  /\ lines'[j] \in Seq(Chunk) /\ Len(lines'[j]) = Len(lines[j]) + 1
             /\ lines'[j][Len(lines[j]) + 1] =
                   ChunkItem(m, m + chunk_size[j], IF j > t THEN {"A_SPLIT"} ELSE {})
             /\ \A x \in DOMAIN lines[j] : lines'[j][x] = lines[j][x]
  <2>1. PICK e : e = ChunkItem(m, m + chunk_size[j], IF j > t THEN {"A_SPLIT"} ELSE {})
    OBVIOUS
  <2>2. e \in Chunk /\ lines'[j] = Append(lines[j], e) /\ lines[j] \in Seq(Chunk)
    BY <2>1, <1>1, <1>6, <1>8
  <2>3. /\ Append(lines[j], e) \in Seq(Chunk) /\ Len(Append(lines[j], e)) = Len(lines[j]) + 1
        /\ Append(lines[j], e)[Len(lines[j]) + 1] = e
        /\ \A x \in DOMAIN lines[j] : Append(lines[j], e)[x] = lines[j][x]
    BY <2>2
  <2> QED BY <2>1, <2>2, <2>3
<1>10. lines' \in [Ks -> Seq(Chunk)]
  <2>1. \A j \in Ks : lines'[j] \in Seq(Chunk)
    BY <1>1, <1>4, <1>8, <1>9
  <2> QED BY <2>1, <1>8
<1>11. \A j \in Ks : Len(lines'[j]) = IF j \in t..(k - 1) THEN Len(lines[j]) + 1
                                                          ELSE Len(lines[j])
  BY <1>4, <1>8, <1>9
<1>12. ASSUME NEW j \in Ks, NEW x \in DOMAIN lines[j]
       PROVE  /\ \A y \in Nibbles : lines'[j][x][y] = lines[j][x][y]
              /\ lines'[j][x].flags = IF j = k /\ x = i
                                      THEN lines[j][x].flags \cup {SplitFlag[n]}
                                      ELSE lines[j][x].flags
  <2>1. CASE j = k /\ x = i
    <3>1. lines'[j][x] = d /\ lines[j][x] = c
      BY <2>1, <1>0, <1>4, <1>8
    <3> QED BY <2>1, <3>1, <1>0, <1>2, <1>3
  <2>2. CASE ~(j = k /\ x = i)
    <3>1. lines'[j][x] = lines[j][x]
      BY <2>2, <1>4, <1>8, <1>9
    <3> QED BY <2>2, <3>1
  <2> QED BY <2>1, <2>2
<1> QED BY <1>5, <1>9, <1>10, <1>11, <1>12 DEF AfterSplit

\* A split seen as one of trees.
SplitSeen(k, t, ix, r) ==
    /\ r \in Nodes /\ r \notin Flagged(SplitFlag) /\ r[1] = k
    /\ Nodes' = Nodes \cup Grown(ix, t, k) /\ Grown(ix, t, k) \cap Nodes = {}
    /\ Flagged(SplitFlag)' = SplitOff(Flagged(SplitFlag), ix, t, r)
    /\ Flagged(UsedFlag)' = Flagged(UsedFlag)
    /\ \A l \in Nodes : Where'[l] = Where[l]
    /\ \A j \in t..(k - 1) : /\ Where'[<<j, ix[j], "a">>] = Where[r]
                             /\ Where'[<<j, ix[j], "b">>] = Where[r] + chunk_size[j]
    /\ InHeap'

\* A free nibble is split, and every line below gets a chunk at its end.
FreeSplit(k, i, t, n, ix, r) ==
    /\ i \in DOMAIN lines[k] /\ t < k /\ n = SplitNibble(lines[k][i]) /\ ci_free(lines[k][i], n)
    /\ lines' = SplitDown(k, i, t) /\ ix = [j \in Ks |-> Len(lines[j]) + 1] /\ r = <<k, i, n>>

LEMMA SplitView ==
    ASSUME TypeOK, InHeap, NEW k \in Ks, NEW i, NEW t \in Ks, NEW n \in Nibbles, NEW ix, NEW r,
           FreeSplit(k, i, t, n, ix, r)
    PROVE  SplitSeen(k, t, ix, r)
<1> USE DEF FreeSplit
<1>0. PICK m : m = lines[k][i][n]
  OBVIOUS
<1>1. m # NULL /\ SplitFlag[n] \notin lines[k][i].flags
  BY <1>0 DEF ci_free
<1>2. /\ lines' \in [Ks -> Seq(Chunk)] /\ m \in Nat /\ m + chunk_size[k] <= chunk_size[RootK]
      /\ \A j \in Ks : Len(lines'[j]) = IF j \in t..(k - 1) THEN Len(lines[j]) + 1
                                                            ELSE Len(lines[j])
      /\ \A j \in Ks : \A x \in DOMAIN lines[j] :
            /\ \A y \in Nibbles : lines'[j][x][y] = lines[j][x][y]
            /\ lines'[j][x].flags = IF j = k /\ x = i
                                    THEN lines[j][x].flags \cup {SplitFlag[n]}
                                    ELSE lines[j][x].flags
      /\ \A j \in t..(k - 1) :
            lines'[j][Len(lines[j]) + 1] =
               ChunkItem(m, m + chunk_size[j], IF j > t THEN {"A_SPLIT"} ELSE {})
  <2>1. SplitStep(k, i, t, n, m)
    BY <1>0, <1>1 DEF SplitStep
  <2>2. AfterSplit(k, i, t, n, m)
    BY <2>1, SplitLines
  <2> QED BY <2>2 DEF AfterSplit
<1>3. /\ k \in Nat /\ t \in Nat /\ k <= RootK /\ RootK \in Nat
      /\ \A j \in t..(k - 1) : j \in Ks /\ j \in Nat /\ j < k
  <2>1. k \in Nat /\ t \in Nat /\ k <= RootK /\ RootK \in Nat
    BY RootKNat DEF Ks
  <2>2. ASSUME NEW j \in t..(k - 1) PROVE j \in Ks /\ j \in Nat /\ j < k
    BY <2>1 DEF Ks
  <2> QED BY <2>1, <2>2
<1>4. \A j \in Ks : lines[j] \in Seq(Chunk) /\ Len(lines[j]) \in Nat
                    /\ DOMAIN lines[j] = 1..Len(lines[j]) /\ ix[j] = Len(lines[j]) + 1
  <2> SUFFICES ASSUME NEW j \in Ks
               PROVE  lines[j] \in Seq(Chunk) /\ Len(lines[j]) \in Nat
                      /\ DOMAIN lines[j] = 1..Len(lines[j]) /\ ix[j] = Len(lines[j]) + 1
    OBVIOUS
  <2>1. lines[j] \in Seq(Chunk)
    BY DEF TypeOK
  <2>2. Len(lines[j]) \in Nat /\ DOMAIN lines[j] = 1..Len(lines[j])
    BY <2>1
  <2>3. ix[j] = Len(lines[j]) + 1
    OBVIOUS
  <2> QED BY <2>1, <2>2, <2>3
<1>5. \A j \in Ks : DOMAIN lines'[j] = IF j \in t..(k - 1) THEN DOMAIN lines[j] \cup {ix[j]}
                                                           ELSE DOMAIN lines[j]
  <2> SUFFICES ASSUME NEW j \in Ks
               PROVE  DOMAIN lines'[j] = IF j \in t..(k - 1) THEN DOMAIN lines[j] \cup {ix[j]}
                                                             ELSE DOMAIN lines[j]
    OBVIOUS
  <2>1. PICK x, s : x = Len(lines[j]) /\ s = lines'[j]
    OBVIOUS
  <2>2. x \in Nat /\ DOMAIN lines[j] = 1..x /\ ix[j] = x + 1 /\ s \in Seq(Chunk)
    BY <2>1, <1>2, <1>4
  <2>3. DOMAIN s = 1..Len(s) /\ Len(s) = IF j \in t..(k - 1) THEN x + 1 ELSE x
    BY <2>1, <2>2, <1>2
  <2>4. 1..(x + 1) = (1..x) \cup {x + 1}
    BY <2>2
  <2> QED BY <2>1, <2>2, <2>3, <2>4
<1>6. /\ r \in Nodes /\ r \notin Flagged(SplitFlag) /\ r[1] = k /\ r[2] = i /\ r[3] = n
      /\ Where[r] = m
  BY <1>0, <1>1, NodeFacts DEF Nodes, Where, Flagged
<1>7. \A l \in Places : /\ lines'[l[1]][l[2]][l[3]] = lines[l[1]][l[2]][l[3]]
                        /\ lines'[l[1]][l[2]].flags =
                              IF l[1] = k /\ l[2] = i
                              THEN lines[l[1]][l[2]].flags \cup {SplitFlag[n]}
                              ELSE lines[l[1]][l[2]].flags
  BY <1>2, NodeFacts, ZenonT(60)
<1>8. ASSUME NEW j \in t..(k - 1)
      PROVE  /\ lines'[j][ix[j]]["a"] = m /\ lines'[j][ix[j]]["b"] = m + chunk_size[j]
             /\ lines'[j][ix[j]].flags = (IF j > t THEN {"A_SPLIT"} ELSE {})
             /\ m + chunk_size[j] \in Nat /\ m + chunk_size[j] # NULL
             /\ m + chunk_size[j] + chunk_size[j] <= chunk_size[RootK]
             /\ ix[j] \notin DOMAIN lines[j]
  <2>1. PICK f : f = IF j > t THEN {"A_SPLIT"} ELSE {}
    OBVIOUS
  <2>0. j \in Ks /\ j \in Nat /\ j < k /\ k \in Nat
    BY <1>3
  <2>2. lines'[j][ix[j]] = ChunkItem(m, m + chunk_size[j], f) /\ ix[j] \notin DOMAIN lines[j]
    <3>1. PICK x : x = Len(lines[j])
      OBVIOUS
    <3>2. x \in Nat /\ DOMAIN lines[j] = 1..x /\ ix[j] = x + 1
      BY <3>1, <2>0, <1>4
    <3>3. x + 1 \notin 1..x
      BY <3>2
    <3>4. lines'[j][x + 1] = ChunkItem(m, m + chunk_size[j], f)
      BY <3>1, <2>1, <1>2
    <3> QED BY <3>2, <3>3, <3>4
  <2>3. /\ ChunkItem(m, m + chunk_size[j], f)["a"] = m
        /\ ChunkItem(m, m + chunk_size[j], f)["b"] = m + chunk_size[j]
        /\ ChunkItem(m, m + chunk_size[j], f).flags = f
    BY DEF ChunkItem
  <2>4. /\ chunk_size[j] \in Nat \ {0} /\ 2 * chunk_size[j] <= chunk_size[k]
        /\ chunk_size[k] \in Nat /\ chunk_size[RootK] \in Nat
    BY <2>0, <1>3, ChunkSizes, SizesGrow
  <2>5. /\ m + chunk_size[j] \in Nat /\ m + chunk_size[j] # NULL
        /\ m + chunk_size[j] + chunk_size[j] <= chunk_size[RootK]
    <3>1. PICK x, y, z : x = chunk_size[j] /\ y = chunk_size[k] /\ z = chunk_size[RootK]
      OBVIOUS
    <3>2. m \in Nat /\ m + y <= z
      BY <3>1, <1>2
    <3> QED BY <3>1, <3>2, <2>4, SMTT(30) DEF NULL
  <2> QED BY <2>1, <2>2, <2>3, <2>5
<1>9. Places' = Places \cup Grown(ix, t, k)
  <2>1. ASSUME NEW l \in Places' PROVE l \in Places \cup Grown(ix, t, k)
    <3>1. PICK j \in Ks : l \in {j} \X (DOMAIN lines'[j]) \X Nibbles
      BY DEF Places
    <3>2. PICK x \in DOMAIN lines'[j], y \in Nibbles : l = <<j, x, y>>
      BY <3>1
    <3>3. CASE x \in DOMAIN lines[j]
      BY <3>2, <3>3, NodeFacts
    <3>4. CASE x \notin DOMAIN lines[j]
      <4>1. j \in t..(k - 1) /\ x = ix[j]
        BY <3>4, <1>5
      <4> QED BY <3>2, <4>1 DEF Grown
    <3> QED BY <3>3, <3>4
  <2>2. ASSUME NEW j \in Ks, NEW x \in DOMAIN lines'[j], NEW y \in Nibbles
        PROVE  <<j, x, y>> \in Places'
    <3>1. <<j, x, y>> \in {j} \X (DOMAIN lines'[j]) \X Nibbles
      OBVIOUS
    <3> QED BY <3>1 DEF Places
  <2>3. ASSUME NEW l \in Places PROVE l \in Places'
    <3>1. PICK j, x, y : l = <<j, x, y>> /\ j \in Ks /\ x \in DOMAIN lines[j] /\ y \in Nibbles
      BY NodeFacts
    <3>2. x \in DOMAIN lines'[j]
      BY <3>1, <1>5
    <3> QED BY <3>1, <3>2, <2>2
  <2>4. ASSUME NEW l \in Grown(ix, t, k) PROVE l \in Places'
    <3>1. PICK j \in t..(k - 1), y \in Nibbles : l = <<j, ix[j], y>>
      BY DEF Grown
    <3>2. j \in Ks /\ ix[j] \in DOMAIN lines'[j]
      BY <1>3, <1>5
    <3> QED BY <3>1, <3>2, <2>2
  <2> QED BY <2>1, <2>3, <2>4
<1>10. ASSUME NEW l \in Grown(ix, t, k)
       PROVE  /\ l \notin Places /\ l \in Nodes'
              /\ l[1] \in t..(k - 1) /\ l = <<l[1], ix[l[1]], l[3]>>
              /\ l[3] = "a" => Where'[l] = m
              /\ l[3] = "b" => Where'[l] = m + chunk_size[l[1]]
              /\ l[3] \in Nibbles
              /\ lines'[l[1]][l[2]].flags = (IF l[1] > t THEN {"A_SPLIT"} ELSE {})
  <2>1. PICK j \in t..(k - 1), y \in Nibbles : l = <<j, ix[j], y>>
    BY DEF Grown
  <2>2. l[1] = j /\ l[2] = ix[j] /\ l[3] = y
    BY <2>1
  <2>3. l \notin Places
    BY <2>2, <1>8, NodeFacts
  <2>4. y = "a" \/ y = "b"
    BY DEF Nibbles
  <2>5. lines'[l[1]][l[2]][l[3]] = IF y = "a" THEN m ELSE m + chunk_size[j]
    <3>1. lines'[j][ix[j]]["a"] = m /\ lines'[j][ix[j]]["b"] = m + chunk_size[j]
      BY <1>8
    <3>2. lines'[j][ix[j]][y] = IF y = "a" THEN m ELSE m + chunk_size[j]
      BY <3>1, <2>4
    <3> QED BY <3>2, <2>2
  <2>6. l \in Nodes'
    <3>1. lines'[l[1]][l[2]][l[3]] # NULL
      BY <2>5, <1>1, <1>8
    <3> QED BY <3>1, <1>9 DEF Nodes
  <2>7. Where'[l] = lines'[l[1]][l[2]][l[3]]
    BY <2>6 DEF Where
  <2>8. lines'[l[1]][l[2]].flags = (IF j > t THEN {"A_SPLIT"} ELSE {})
    BY <2>2, <1>8, ZenonT(60)
  <2>9. /\ y = "a" => Where'[l] = m
        /\ y = "b" => Where'[l] = m + chunk_size[j]
    BY <2>5, <2>7
  <2> QED BY <2>1, <2>2, <2>3, <2>6, <2>8, <2>9
<1>11. Nodes' = Nodes \cup Grown(ix, t, k) /\ Grown(ix, t, k) \cap Nodes = {}
  <2>1. \A l \in Places : l \in Nodes' <=> l \in Nodes
    BY <1>7, <1>9 DEF Nodes
  <2>2. Nodes' \subseteq Places \cup Grown(ix, t, k) /\ Nodes \subseteq Places
    BY <1>9 DEF Nodes
  <2> QED BY <2>1, <2>2, <1>10
<1>12. \A l \in Nodes : Where'[l] = Where[l]
  BY <1>7, <1>11 DEF Where, Nodes
<1>13. Flagged(SplitFlag)' = SplitOff(Flagged(SplitFlag), ix, t, r)
  <2>1. ASSUME NEW l \in Nodes
        PROVE  l \in Flagged(SplitFlag)' <=> l \in Flagged(SplitFlag) \cup {r}
    <3>1. l \in Places /\ l[3] \in Nibbles /\ l = <<l[1], l[2], l[3]>>
      BY NodeFacts DEF Nodes
    <3>2. l = r <=> l[1] = k /\ l[2] = i /\ l[3] = n
      BY <3>1
    <3>3. l[3] # n => SplitFlag[l[3]] # SplitFlag[n]
      BY <3>1, FlagFacts
    <3>4. l \in Flagged(SplitFlag)' <=> SplitFlag[l[3]] \in lines'[l[1]][l[2]].flags
      BY <1>11 DEF Flagged
    <3>5. l \in Flagged(SplitFlag) <=> SplitFlag[l[3]] \in lines[l[1]][l[2]].flags
      BY DEF Flagged
    <3> QED BY <3>1, <3>2, <3>3, <3>4, <3>5, <1>7
  <2>2. ASSUME NEW l \in Grown(ix, t, k)
        PROVE  l \in Flagged(SplitFlag)' <=>
                  l \in {<<j, ix[j], "a">> : j \in (t + 1)..(k - 1)}
    <3>1. PICK j : j = l[1]
      OBVIOUS
    <3>2. /\ l \in Nodes' /\ j \in t..(k - 1) /\ l = <<j, ix[j], l[3]>> /\ l[3] \in Nibbles
          /\ lines'[l[1]][l[2]].flags = (IF j > t THEN {"A_SPLIT"} ELSE {})
      BY <3>1, <1>10
    <3>3. l \in Flagged(SplitFlag)' <=> l[3] = "a" /\ j > t
      <4>1. SplitFlag["a"] = "A_SPLIT" /\ SplitFlag["b"] = "B_SPLIT"
        BY DEF SplitFlag
      <4>2. SplitFlag[l[3]] = "A_SPLIT" <=> l[3] = "a"
        BY <4>1, <3>2 DEF Nibbles
      <4>3. l \in Flagged(SplitFlag)' <=> SplitFlag[l[3]] \in lines'[l[1]][l[2]].flags
        BY <3>2 DEF Flagged
      <4> QED BY <4>2, <4>3, <3>2
    <3>4. ASSUME l[3] = "a", j > t
          PROVE  l \in {<<q, ix[q], "a">> : q \in (t + 1)..(k - 1)}
      <4>1. j \in (t + 1)..(k - 1)
        BY <3>2, <3>4, <1>3
      <4>2. l = <<j, ix[j], "a">>
        BY <3>2, <3>4
      <4> QED BY <4>1, <4>2
    <3>5. ASSUME NEW q \in (t + 1)..(k - 1), l = <<q, ix[q], "a">>
          PROVE  l[3] = "a" /\ j > t
      <4>1. l[3] = "a" /\ l[1] = q
        BY <3>5
      <4> QED BY <4>1, <3>1, <1>3
    <3> QED BY <3>3, <3>4, <3>5
  <2>3. {<<j, ix[j], "a">> : j \in (t + 1)..(k - 1)} \subseteq Grown(ix, t, k)
    <3>1. ASSUME NEW j \in (t + 1)..(k - 1) PROVE <<j, ix[j], "a">> \in Grown(ix, t, k)
      <4>1. j \in t..(k - 1) /\ "a" \in Nibbles
        BY <1>3 DEF Nibbles
      <4> QED BY <4>1 DEF Grown
    <3> QED BY <3>1
  <2>4. Flagged(SplitFlag)' \subseteq Nodes' /\ Flagged(SplitFlag) \subseteq Nodes
    BY DEF Flagged
  <2>5. SplitOff(Flagged(SplitFlag), ix, t, r) =
          Flagged(SplitFlag) \cup {r} \cup {<<j, ix[j], "a">> : j \in (t + 1)..(k - 1)}
    BY <1>6 DEF SplitOff
  <2> QED BY <2>1, <2>2, <2>3, <2>4, <2>5, <1>6, <1>11, ZenonT(60)
<1>14. Flagged(UsedFlag)' = Flagged(UsedFlag)
  <2>1. ASSUME NEW l \in Nodes PROVE l \in Flagged(UsedFlag)' <=> l \in Flagged(UsedFlag)
    <3>1. l \in Places /\ l[3] \in Nibbles
      BY NodeFacts DEF Nodes
    <3>2. UsedFlag[l[3]] # SplitFlag[n]
      BY <3>1, FlagFacts
    <3>3. l \in Flagged(UsedFlag)' <=> UsedFlag[l[3]] \in lines'[l[1]][l[2]].flags
      BY <1>11 DEF Flagged
    <3>4. l \in Flagged(UsedFlag) <=> UsedFlag[l[3]] \in lines[l[1]][l[2]].flags
      BY DEF Flagged
    <3> QED BY <3>1, <3>2, <3>3, <3>4, <1>7
  <2>2. ASSUME NEW l \in Grown(ix, t, k) PROVE l \notin Flagged(UsedFlag)'
    <3>1. /\ l[3] \in Nibbles /\ "a" \in Nibbles
          /\ lines'[l[1]][l[2]].flags = (IF l[1] > t THEN {"A_SPLIT"} ELSE {})
      BY <1>10 DEF Nibbles
    <3>2. UsedFlag[l[3]] # SplitFlag["a"] /\ SplitFlag["a"] = "A_SPLIT"
      BY <3>1, FlagFacts DEF SplitFlag
    <3>3. l \in Flagged(UsedFlag)' => UsedFlag[l[3]] \in lines'[l[1]][l[2]].flags
      BY DEF Flagged
    <3> QED BY <3>1, <3>2, <3>3
  <2>3. Flagged(UsedFlag)' \subseteq Nodes' /\ Flagged(UsedFlag) \subseteq Nodes
    BY DEF Flagged
  <2> QED BY <2>1, <2>2, <2>3, <1>11
<1>15. ASSUME NEW j \in t..(k - 1)
       PROVE  /\ Where'[<<j, ix[j], "a">>] = Where[r]
              /\ Where'[<<j, ix[j], "b">>] = Where[r] + chunk_size[j]
  <2>1. "a" \in Nibbles /\ "b" \in Nibbles
    BY DEF Nibbles
  <2>2. PICK x, y : x = <<j, ix[j], "a">> /\ y = <<j, ix[j], "b">>
    OBVIOUS
  <2>3. x \in Grown(ix, t, k) /\ y \in Grown(ix, t, k) /\ x[3] = "a" /\ y[3] = "b" /\ y[1] = j
    BY <2>1, <2>2 DEF Grown
  <2> QED BY <2>2, <2>3, <1>6, <1>10
<1>16. InHeap'
  <2> SUFFICES ASSUME NEW l \in Nodes' PROVE Where'[l] + Size(l) <= chunk_size[RootK]
    BY DEF InHeap
  <2>1. CASE l \in Nodes
    BY <2>1, <1>12 DEF InHeap
  <2>2. CASE l \in Grown(ix, t, k)
    <3>1. PICK j, w : j = l[1] /\ w = Where'[l]
      OBVIOUS
    <3>2. j \in t..(k - 1) /\ (w = m \/ w = m + chunk_size[j])
      BY <3>1, <2>2, <1>10 DEF Nibbles
    <3>3. /\ m + chunk_size[j] + chunk_size[j] <= chunk_size[RootK]
          /\ chunk_size[j] \in Nat /\ chunk_size[RootK] \in Nat /\ m \in Nat
      BY <3>2, <1>2, <1>3, <1>8, ChunkSizes
    <3>4. w + chunk_size[j] <= chunk_size[RootK]
      BY <3>2, <3>3
    <3> QED BY <3>1, <3>4 DEF Size
  <2> QED BY <2>1, <2>2, <1>11
<1> QED BY <1>6, <1>11, <1>12, <1>13, <1>14, <1>15, <1>16 DEF SplitSeen

\* request_chunk splits a chunk of the lowest line that has one, or returns NULL.
LEMMA SplitInv ==
    ASSUME IInv, NEW t \in Ks, RequestSplit(t)
    PROVE  IInv'
<1>0. PICK above, k : /\ above = {q \in Ks : q > t /\ find_free_chunk(q) # 0}
                      /\ k = Min(above)
  OBVIOUS
<1>1. /\ IF above = {}
           THEN got' = <<>> /\ UNCHANGED lines
           ELSE /\ \A j \in t..(k - 1) : HasRoom(j)
                /\ lines' = SplitDown(k, find_free_chunk(k), t)
                /\ got' = <<t, Len(lines[t]) + 1>>
      /\ UNCHANGED <<held, fault>>
  BY <1>0 DEF RequestSplit
<1>2. CASE above = {}
  <2>1. got' = <<>> /\ UNCHANGED <<lines, held, fault>>
    BY <1>1, <1>2
  <2>2. TypeOK'
    BY <2>1 DEF IInv, TypeOK
  <2>3. Nodes' = Nodes /\ Where' = Where
    BY <2>1 DEF Nodes, Where, Places
  <2>4. Flagged(SplitFlag)' = Flagged(SplitFlag) /\ Flagged(UsedFlag)' = Flagged(UsedFlag)
    BY <2>1, <2>3 DEF Flagged
  <2> QED BY <2>1, <2>2, <2>3, <2>4 DEF IInv, InHeap, HeldOK
<1>3. CASE above # {}
  <2>0. PICK i, n, r, ix : /\ i = find_free_chunk(k) /\ n = SplitNibble(lines[k][i])
                           /\ r = <<k, i, n>> /\ ix = [j \in Ks |-> Len(lines[j]) + 1]
    OBVIOUS
  <2>1. TypeOK /\ InHeap
    BY DEF IInv
  <2>2. k \in Ks /\ k > t /\ i # 0
    <3>1. above \in SUBSET Nat
      BY <1>0, RootKNat DEF Ks
    <3>2. k \in above
      BY <3>1, <1>0, <1>3, MinFacts
    <3> QED BY <3>2, <1>0, <2>0
  <2>3. i \in DOMAIN lines[k] /\ HasFree(lines[k][i])
    BY <2>0, <2>1, <2>2, FreeFacts
  <2>4. n \in Nibbles /\ ci_free(lines[k][i], n)
    BY <2>0, <2>3, SplitNibbleFacts
  <2>5. k \in Nat /\ t \in Nat /\ RootK \in Nat /\ t < k /\ k <= RootK
    <3>1. k \in Nat /\ t \in Nat /\ RootK \in Nat /\ k <= RootK
      BY <2>2, RootKNat DEF Ks
    <3> QED BY <3>1, <2>2
  <2>6. /\ lines' = SplitDown(k, i, t) /\ got' = <<t, Len(lines[t]) + 1>>
        /\ \A j \in t..(k - 1) : HasRoom(j)
    BY <1>1, <1>3, <2>0
  <2>7. FreeSplit(k, i, t, n, ix, r)
    BY <2>0, <2>3, <2>4, <2>5, <2>6 DEF FreeSplit
  <2>8. SplitSeen(k, t, ix, r)
    BY <2>1, <2>2, <2>4, <2>7, SplitView
  <2>9. TypeOK'
    <3>0. PICK m : m = lines[k][i][n]
      OBVIOUS
    <3>1. SplitStep(k, i, t, n, m)
      BY <3>0, <2>0, <2>3, <2>4, <2>5, <2>6 DEF SplitStep, ci_free
    <3>2. AfterSplit(k, i, t, n, m)
      BY <3>1, <2>1, <2>2, <2>4, SplitLines
    <3>3. /\ lines' \in [Ks -> Seq(Chunk)]
          /\ \A j \in Ks : Len(lines'[j]) = IF j \in t..(k - 1) THEN Len(lines[j]) + 1
                                                                ELSE Len(lines[j])
      BY <3>2 DEF AfterSplit
    <3>4. ASSUME NEW j \in Ks PROVE Len(lines'[j]) <= MaxChunks
      <4>1. PICK x, y : x = Len(lines[j]) /\ y = Len(lines'[j])
        OBVIOUS
      <4>2. x \in Nat /\ x <= MaxChunks /\ MaxChunks \in Nat
        <5>1. lines[j] \in Seq(Chunk) /\ Len(lines[j]) <= MaxChunks
          BY <2>1 DEF TypeOK
        <5> QED BY <5>1, <4>1, MaxChunksPos
      <4>3. y = IF j \in t..(k - 1) THEN x + 1 ELSE x
        BY <4>1, <3>3
      <4>4. j \in t..(k - 1) => x < MaxChunks
        BY <4>1, <2>6 DEF HasRoom
      <4>5. y <= MaxChunks
        BY <4>2, <4>3, <4>4
      <4> QED BY <4>1, <4>5
    <3>5. got'[1] = t /\ got'[2] \in DOMAIN lines'[t]
      <4>1. PICK x, s : x = Len(lines[t]) /\ s = lines'[t]
        OBVIOUS
      <4>2. t \in t..(k - 1)
        BY <2>5
      <4>3. x \in Nat
        <5>1. lines[t] \in Seq(Chunk)
          BY <2>1 DEF TypeOK
        <5> QED BY <5>1, <4>1
      <4>4. s \in Seq(Chunk) /\ Len(s) = x + 1
        BY <4>1, <4>2, <3>3
      <4>5. x + 1 \in DOMAIN s
        BY <4>3, <4>4
      <4>6. got' = <<t, x + 1>>
        BY <4>1, <2>6
      <4> QED BY <4>1, <4>5, <4>6
    <3>6. held' \subseteq Ks \X Units /\ fault' \in {"none", "sibling flags lost", "free on two lines"}
      BY <1>1, <2>1 DEF TypeOK
    <3> QED BY <3>3, <3>4, <3>5, <3>6 DEF TypeOK
  <2>10. ASSUME fault = "none"
         PROVE  /\ Tree(Nodes', Flagged(SplitFlag)', Where')
                /\ Family(Nodes', Flagged(SplitFlag)', Where')
                /\ HeldOK'
    <3>0. PICK N, S, A, A2 : N = Nodes /\ S = Flagged(SplitFlag) /\ A = Where /\ A2 = Where'
      OBVIOUS
    <3>1. Tree(N, S, A) /\ Family(N, S, A)
      BY <3>0, <2>10 DEF IInv
    <3>2. /\ r \in N /\ r \notin S /\ r[1] = k /\ Grown(ix, t, r[1]) \cap N = {}
          /\ Nodes' = N \cup Grown(ix, t, r[1]) /\ Flagged(SplitFlag)' = SplitOff(S, ix, t, r)
      BY <2>8, <3>0 DEF SplitSeen
    <3>3. Splitting(N, S, A, A2, ix, t, r)
      BY <2>5, <2>8, <3>0, <3>1, <3>2 DEF SplitSeen, Splitting
    <3>4. Tree(Nodes', Flagged(SplitFlag)', Where')
      BY <2>5, <3>0, <3>2, <3>3, SplitTree
    <3>5. Family(Nodes', Flagged(SplitFlag)', Where')
      BY <2>5, <3>0, <3>1, <3>2, <3>3, SplitFamily
    <3>6. HeldOK'
      <4>1. /\ Flagged(UsedFlag)' = Flagged(UsedFlag) /\ Flagged(UsedFlag) \subseteq N
            /\ Flagged(UsedFlag) \cap S = {}
            /\ held' = {<<l[1], Where[l]>> : l \in Flagged(UsedFlag)}
            /\ \A l \in N : Where'[l] = Where[l]
        BY <1>1, <2>8, <2>10, <3>0 DEF IInv, HeldOK, SplitSeen, Flagged
      <4>2. r \notin Flagged(UsedFlag)
        BY <2>0, <2>4 DEF Flagged, ci_free
      <4>3. Flagged(UsedFlag) \cap SplitOff(S, ix, t, r) = {}
        <5>1. ASSUME NEW j \in (t + 1)..(k - 1) PROVE <<j, ix[j], "a">> \notin N
          <6>1. j \in t..(k - 1) /\ "a" \in Nibbles
            BY <2>5 DEF Nibbles
          <6>2. <<j, ix[j], "a">> \in Grown(ix, t, r[1])
            BY <6>1, <3>2 DEF Grown
          <6> QED BY <6>2, <3>2
        <5>2. SplitOff(S, ix, t, r) = S \cup {r} \cup {<<j, ix[j], "a">> : j \in (t + 1)..(k - 1)}
          BY <3>2 DEF SplitOff
        <5> QED BY <5>1, <5>2, <4>1, <4>2
      <4>4. held' = {<<l[1], Where'[l]>> : l \in Flagged(UsedFlag)}
        BY <4>1
      <4> QED BY <4>1, <4>3, <4>4, <3>2 DEF HeldOK
    <3> QED BY <3>4, <3>5, <3>6
  <2>11. InHeap'
    BY <2>8 DEF SplitSeen
  <2> QED BY <1>1, <2>9, <2>10, <2>11 DEF IInv
<1> QED BY <1>2, <1>3

-----------------------------------------------------------------------------
(* Merges *)

\* Chunk i of line k is given back to chunk p of line k + 1.
MergeStep(k, i, p) ==
    /\ k \in Ks /\ k + 1 \in Ks /\ i \in DOMAIN lines[k] /\ p \in DOMAIN lines[k + 1]
    /\ lines' = [lines EXCEPT ![k + 1][p].flags = {}, ![k][i] = destroyed_chunk_item]

\* The lines after that: one chunk has lost its memory, one its flags.
MergeSeen(k, i, p) ==
    /\ lines' \in [Ks -> Seq(Chunk)]
    /\ \A j \in Ks : Len(lines'[j]) = Len(lines[j]) /\ DOMAIN lines'[j] = DOMAIN lines[j]
    /\ Nodes' = Nodes \ {<<k, i, "a">>, <<k, i, "b">>}
    /\ \A l \in Nodes' : Where'[l] = Where[l]
    /\ \A l \in Nodes' : l \in Flagged(SplitFlag)' <=>
                            l \in Flagged(SplitFlag) /\ ~(l[1] = k + 1 /\ l[2] = p)
    /\ \A l \in Nodes' : l \in Flagged(UsedFlag)' <=>
                            l \in Flagged(UsedFlag) /\ ~(l[1] = k + 1 /\ l[2] = p)

LEMMA MergeView ==
    ASSUME TypeOK, NEW k, NEW i, NEW p, MergeStep(k, i, p)
    PROVE  MergeSeen(k, i, p)
<1>0. PICK c, d, s, e, q : /\ c = lines[k + 1][p] /\ d = [c EXCEPT !.flags = {}]
                           /\ s = [lines[k + 1] EXCEPT ![p] = d] /\ e = destroyed_chunk_item
                           /\ q = [lines[k] EXCEPT ![i] = e]
  OBVIOUS
<1>1. /\ k \in Ks /\ k + 1 \in Ks /\ i \in DOMAIN lines[k] /\ p \in DOMAIN lines[k + 1]
      /\ k \in Nat /\ k # k + 1
  BY RootKNat DEF MergeStep, Ks
<1>2. c \in Chunk /\ lines \in [Ks -> Seq(Chunk)]
  BY <1>0, <1>1, ChunkFacts DEF TypeOK
<1>3. d \in Chunk /\ d.a = c.a /\ d.b = c.b /\ d.flags = {}
  BY <1>0, <1>2 DEF Chunk
<1>4. \A y \in Nibbles : d[y] = c[y]
  BY <1>3 DEF Nibbles
<1>5. e \in Chunk /\ e.flags = {} /\ \A y \in Nibbles : e[y] = NULL
  BY <1>0 DEF destroyed_chunk_item, ChunkItem, Chunk, Nibbles
<1>6. lines[k] \in Seq(Chunk) /\ lines[k + 1] \in Seq(Chunk)
  BY <1>1, <1>2
<1>7. /\ s \in Seq(Chunk) /\ Len(s) = Len(lines[k + 1]) /\ DOMAIN s = DOMAIN lines[k + 1]
      /\ s[p] = d /\ \A x \in DOMAIN lines[k + 1] : x # p => s[x] = lines[k + 1][x]
  BY <1>0, <1>1, <1>3, <1>6
<1>8. /\ q \in Seq(Chunk) /\ Len(q) = Len(lines[k]) /\ DOMAIN q = DOMAIN lines[k]
      /\ q[i] = e /\ \A x \in DOMAIN lines[k] : x # i => q[x] = lines[k][x]
  BY <1>0, <1>1, <1>5, <1>6
<1>9. lines' = [[lines EXCEPT ![k + 1] = s] EXCEPT ![k] = q]
  <2>1. lines' = [lines EXCEPT ![k + 1] = [lines[k + 1] EXCEPT ![p] = [lines[k + 1][p] EXCEPT !.flags = {}]],
                               ![k] = [lines[k] EXCEPT ![i] = destroyed_chunk_item]]
    BY <1>1, <1>2 DEF MergeStep
  <2> QED BY <2>1, <1>0
<1>10. /\ lines' \in [Ks -> Seq(Chunk)] /\ lines'[k] = q /\ lines'[k + 1] = s
       /\ \A j \in Ks \ {k, k + 1} : lines'[j] = lines[j]
  BY <1>1, <1>2, <1>7, <1>8, <1>9
<1>11. \A j \in Ks : Len(lines'[j]) = Len(lines[j]) /\ DOMAIN lines'[j] = DOMAIN lines[j]
  BY <1>7, <1>8, <1>10
<1>12. Places' = Places
  BY <1>11 DEF Places
<1>13. ASSUME NEW l \in Places, ~(l[1] = k /\ l[2] = i)
       PROVE  /\ lines'[l[1]][l[2]][l[3]] = lines[l[1]][l[2]][l[3]]
              /\ lines'[l[1]][l[2]].flags = IF l[1] = k + 1 /\ l[2] = p THEN {}
                                            ELSE lines[l[1]][l[2]].flags
  <2>1. l[1] \in Ks /\ l[2] \in DOMAIN lines[l[1]] /\ l[3] \in Nibbles
    BY NodeFacts
  <2>2. CASE l[1] = k + 1 /\ l[2] = p
    <3>1. lines'[l[1]][l[2]] = d /\ lines[l[1]][l[2]] = c
      BY <2>2, <1>0, <1>7, <1>10
    <3> QED BY <3>1, <2>1, <2>2, <1>3, <1>4
  <2>3. CASE ~(l[1] = k + 1 /\ l[2] = p)
    <3>1. lines'[l[1]][l[2]] = lines[l[1]][l[2]]
      BY <2>1, <2>3, <1>7, <1>8, <1>10, <1>13
    <3> QED BY <3>1, <2>3
  <2> QED BY <2>2, <2>3
<1>14. ASSUME NEW l \in Places
       PROVE  l \in Nodes' <=> l \in Nodes /\ ~(l[1] = k /\ l[2] = i)
  <2>1. l[1] \in Ks /\ l[2] \in DOMAIN lines[l[1]] /\ l[3] \in Nibbles
    BY NodeFacts
  <2>2. CASE l[1] = k /\ l[2] = i
    <3>1. lines'[l[1]][l[2]] = e
      BY <2>2, <1>8, <1>10
    <3> QED BY <3>1, <2>1, <2>2, <1>5 DEF Nodes
  <2>3. CASE ~(l[1] = k /\ l[2] = i)
    BY <2>3, <1>12, <1>13 DEF Nodes
  <2> QED BY <2>2, <2>3
<1>15. Nodes' = Nodes \ {<<k, i, "a">>, <<k, i, "b">>}
  <2>1. ASSUME NEW l \in Places
        PROVE  l[1] = k /\ l[2] = i <=> l \in {<<k, i, "a">>, <<k, i, "b">>}
    <3>1. PICK x, y, z : l = <<x, y, z>> /\ x = l[1] /\ y = l[2] /\ z \in Nibbles
      BY NodeFacts
    <3> QED BY <3>1 DEF Nibbles
  <2>2. Nodes' \subseteq Places /\ Nodes \subseteq Places
    BY <1>12 DEF Nodes
  <2> QED BY <2>1, <2>2, <1>14
<1>16. ASSUME NEW l \in Nodes'
       PROVE  /\ l \in Nodes /\ l \in Places /\ ~(l[1] = k /\ l[2] = i)
              /\ Where'[l] = Where[l]
              /\ lines'[l[1]][l[2]].flags = IF l[1] = k + 1 /\ l[2] = p THEN {}
                                            ELSE lines[l[1]][l[2]].flags
  <2>1. l \in Places
    BY <1>12 DEF Nodes
  <2>2. l \in Nodes /\ ~(l[1] = k /\ l[2] = i)
    BY <2>1, <1>14
  <2>3. Where'[l] = lines'[l[1]][l[2]][l[3]] /\ Where[l] = lines[l[1]][l[2]][l[3]]
    BY <2>2 DEF Where
  <2> QED BY <2>1, <2>2, <2>3, <1>13
<1>17. \A l \in Nodes' : l \in Flagged(SplitFlag)' <=>
                            l \in Flagged(SplitFlag) /\ ~(l[1] = k + 1 /\ l[2] = p)
  BY <1>16 DEF Flagged
<1>18. \A l \in Nodes' : l \in Flagged(UsedFlag)' <=>
                            l \in Flagged(UsedFlag) /\ ~(l[1] = k + 1 /\ l[2] = p)
  BY <1>16 DEF Flagged
<1> QED BY <1>10, <1>11, <1>15, <1>16, <1>17, <1>18 DEF MergeSeen

\* merge_nibbles(parent, c, c).
LEMMA WithinInv ==
    ASSUME IInv, NEW k \in 0..(RootK - 1), NEW i, MergeWithin(k, i)
    PROVE  IInv'
<1>0. PICK c, p, nib, other, lost, la, lb, g :
        /\ c = lines[k][i] /\ p = parent_chunk(k + 1, c)
        /\ nib = IF lines[k + 1][p].a = c.a THEN "a" ELSE "b"
        /\ other = IF lines[k + 1][p].a = c.a THEN "b" ELSE "a"
        /\ lost = lines[k + 1][p].flags \cap {UsedFlag[other], SplitFlag[other]}
        /\ la = <<k, i, "a">> /\ lb = <<k, i, "b">> /\ g = <<k + 1, p, nib>>
  OBVIOUS
<1>1. /\ Mergeable(k, i)
      /\ lines' = [lines EXCEPT ![k + 1][p].flags = {}, ![k][i] = destroyed_chunk_item]
      /\ got' = <<k + 1, p>>
      /\ fault' = IF lost = {} THEN fault ELSE "sibling flags lost"
      /\ UNCHANGED held
  BY <1>0 DEF MergeWithin
<1>2. /\ TypeOK /\ InHeap /\ i \in DOMAIN lines[k] /\ p # 0
      /\ ci_free(c, "a") /\ ci_free(c, "b") /\ c.a + chunk_size[k] = c.b
  BY <1>0, <1>1 DEF IInv, Mergeable, Nibbles
<1>3. k \in Ks /\ k + 1 \in Ks /\ k \in Nat
  BY RootKNat DEF Ks
<1>4. p \in DOMAIN lines[k + 1] /\ \E n \in Nibbles : lines[k + 1][p][n] = c.a
  BY <1>0, <1>2, <1>3, ParentFacts
<1>5. lines[k + 1][p][nib] = c.a /\ nib \in Nibbles /\ other \in Nibbles /\ nib # other
      /\ Nibbles = {nib, other}
  BY <1>0, <1>4 DEF Nibbles
<1>6. MergeStep(k, i, p)
  BY <1>1, <1>2, <1>3, <1>4 DEF MergeStep
<1>7. MergeSeen(k, i, p)
  BY <1>2, <1>6, MergeView
<1>8. /\ lines' \in [Ks -> Seq(Chunk)]
      /\ \A j \in Ks : Len(lines'[j]) = Len(lines[j]) /\ DOMAIN lines'[j] = DOMAIN lines[j]
      /\ Nodes' = Nodes \ {la, lb}
      /\ \A l \in Nodes' : Where'[l] = Where[l]
      /\ \A l \in Nodes' : l \in Flagged(SplitFlag)' <=>
                              l \in Flagged(SplitFlag) /\ ~(l[1] = k + 1 /\ l[2] = p)
      /\ \A l \in Nodes' : l \in Flagged(UsedFlag)' <=>
                              l \in Flagged(UsedFlag) /\ ~(l[1] = k + 1 /\ l[2] = p)
  BY <1>0, <1>7 DEF MergeSeen
<1>9. TypeOK'
  <2>1. got'[1] = k + 1 /\ got'[2] = p
    BY <1>1
  <2>2. got'[1] \in Ks /\ got'[2] \in DOMAIN lines'[got'[1]]
    BY <2>1, <1>3, <1>4, <1>8
  <2>3. \A j \in Ks : Len(lines'[j]) <= MaxChunks
    BY <1>2, <1>8 DEF TypeOK
  <2>4. fault' \in {"none", "sibling flags lost", "free on two lines"} /\ held' \subseteq Ks \X Units
    BY <1>1, <1>2 DEF TypeOK
  <2> QED BY <2>2, <2>3, <2>4, <1>8 DEF TypeOK
<1>10. InHeap'
  BY <1>2, <1>8 DEF InHeap
<1>11. /\ la \in Nodes /\ la \notin Flagged(SplitFlag) /\ la \notin Flagged(UsedFlag)
       /\ lb \in Nodes /\ lb \notin Flagged(SplitFlag) /\ lb \notin Flagged(UsedFlag)
       /\ Where[la] = c.a /\ Where[lb] = c.b
  <2>1. la[1] = k /\ la[2] = i /\ la[3] = "a" /\ lb[1] = k /\ lb[2] = i /\ lb[3] = "b"
    BY <1>0
  <2>2. la \in Places /\ lb \in Places
    BY <1>0, <1>2, <1>3, NodeFacts DEF Nibbles
  <2> QED BY <2>1, <2>2, <1>0, <1>2 DEF Nodes, Flagged, Where, ci_free
<1>12. g \in Nodes /\ Where[g] = c.a /\ g[1] = k + 1 /\ g[2] = p /\ g[3] = nib
  <2>1. g \in Places
    BY <1>0, <1>3, <1>4, <1>5, NodeFacts
  <2>2. g[1] = k + 1 /\ g[2] = p /\ g[3] = nib
    BY <1>0
  <2> QED BY <2>1, <2>2, <1>2, <1>5 DEF Nodes, Where, ci_free
<1>13. ASSUME fault = "none", lost = {}
       PROVE  /\ Tree(Nodes', Flagged(SplitFlag)', Where')
              /\ Family(Nodes', Flagged(SplitFlag)', Where')
              /\ HeldOK'
  <2>0. PICK N, S, A, A2 : N = Nodes /\ S = Flagged(SplitFlag) /\ A = Where /\ A2 = Where'
    OBVIOUS
  <2>1. Tree(N, S, A) /\ Family(N, S, A) /\ HeldOK
    BY <1>13, <2>0 DEF IInv
  <2>2. /\ la \in N \ S /\ lb \in N \ S /\ g \in N /\ la[1] = k /\ lb[1] = la[1] /\ g[1] = la[1] + 1
        /\ A[lb] = A[la] + Size(la) /\ A[g] = A[la]
    BY <2>0, <1>0, <1>2, <1>11, <1>12 DEF Size
  <2>3. \A l \in N \ {la, lb} : A2[l] = A[l]
    BY <2>0, <1>8
  <2>4. Tree(N \ {la, lb}, S \ {g}, A2) /\ g \in S
    BY <2>1, <2>2, <2>3, MergeTree
  <2>5. Family(N \ {la, lb}, S \ {g}, A2)
    <3>1. /\ la = <<k, i, "a">> /\ lb = <<k, i, "b">> /\ k \in Nat /\ g[1] = k + 1
          /\ A[g] = A[la] /\ A[lb] = A[la] + Size(la)
      BY <2>2, <1>0, <1>3
    <3> QED BY <3>1, <2>1, <2>2, <2>3, MergeFamily
  <2>6. ASSUME NEW l \in Nodes, l[1] = k + 1, l[2] = p, l # g
        PROVE  l \notin Flagged(SplitFlag) /\ l \notin Flagged(UsedFlag)
    <3>1. l[3] \in Nibbles /\ l = <<l[1], l[2], l[3]>>
      BY NodeFacts DEF Nodes
    <3>2. l[3] # nib
      BY <3>1, <2>6, <1>0
    <3>3. l[3] = other
      BY <3>1, <3>2, <1>5
    <3>4. UsedFlag[other] \notin lines[k + 1][p].flags /\ SplitFlag[other] \notin lines[k + 1][p].flags
      BY <1>0, <1>13
    <3> QED BY <3>3, <3>4, <2>6 DEF Flagged
  <2>7. g \notin Flagged(UsedFlag)
    BY <2>0, <2>1, <2>4 DEF HeldOK
  <2>8. /\ Flagged(SplitFlag) \subseteq Nodes /\ Flagged(UsedFlag) \subseteq Nodes
        /\ Flagged(SplitFlag)' \subseteq Nodes' /\ Flagged(UsedFlag)' \subseteq Nodes'
    BY DEF Flagged
  <2>9. Flagged(SplitFlag)' = S \ {g}
    BY <2>0, <2>6, <2>8, <1>8, <1>11, <1>12
  <2>10. Flagged(UsedFlag)' = Flagged(UsedFlag)
    BY <2>6, <2>7, <2>8, <1>8, <1>11, <1>12
  <2>11. HeldOK'
    <3>1. held' = {<<l[1], Where[l]>> : l \in Flagged(UsedFlag)}
      BY <1>1, <2>1 DEF HeldOK
    <3>2. \A l \in Flagged(UsedFlag) : Where'[l] = Where[l]
      BY <2>8, <2>10, <1>8
    <3>3. held' = {<<l[1], Where'[l]>> : l \in Flagged(UsedFlag)'}
      BY <3>1, <3>2, <2>10
    <3>4. Flagged(UsedFlag)' \cap Flagged(SplitFlag)' = {}
      BY <2>0, <2>1, <2>9, <2>10 DEF HeldOK
    <3> QED BY <3>3, <3>4 DEF HeldOK
  <2> QED BY <2>0, <2>4, <2>5, <2>9, <2>11, <1>8
<1>14. fault' = "none" => fault = "none" /\ lost = {}
  BY <1>1
<1> QED BY <1>9, <1>10, <1>13, <1>14 DEF IInv

\* merge_nibbles(parent, c1, c2): whatever else it does, the chunk it makes is in
\* the heap and has the shape of one.
LEMMA AcrossInv ==
    ASSUME IInv, NEW k \in 0..(RootK - 1), NEW l, NEW r, NEW swapped,
           MergeAcross(k, l, r, swapped)
    PROVE  IInv'
<1>0. PICK left, right, pl, pr, lflag, rflag, s, e :
        /\ left = lines[k][l] /\ right = lines[k][r]
        /\ pl = parent_chunk(k + 1, left) /\ pr = parent_chunk(k + 1, right)
        /\ lflag = ElsewhereFlag(left, lines[k + 1][pl],
                                 lines[k + 1][IF swapped THEN pr ELSE pl], RightFlag)
        /\ rflag = ElsewhereFlag(right, lines[k + 1][pr],
                                 lines[k + 1][IF swapped THEN pr ELSE pl], LeftFlag)
        /\ s = [p \in DOMAIN lines[k + 1] |->
                  ci_set_flag(lines[k + 1][p], (IF p = pl THEN lflag ELSE {})
                                               \cup (IF p = pr THEN rflag ELSE {}))]
        /\ e = ChunkItem(left.b, NULL, {})
  OBVIOUS
<1>1. /\ l \in DOMAIN lines[k] /\ r \in DOMAIN lines[k]
      /\ ci_free(left, "b") /\ ci_free(right, "a") /\ left.b + chunk_size[k] = right.a
      /\ HasRoom(k + 1) /\ got' = <<k + 1, Len(lines[k + 1]) + 1>>
      /\ fault' = "free on two lines" /\ UNCHANGED held
      /\ lines' = [lines EXCEPT ![k + 1] = Append(s, e)]
  BY <1>0 DEF MergeAcross
<1>2. k \in Ks /\ k + 1 \in Ks /\ k \in Nat /\ RootK \in Nat
  BY RootKNat DEF Ks
<1>3. TypeOK /\ InHeap /\ lines \in [Ks -> Seq(Chunk)] /\ lines[k + 1] \in Seq(Chunk)
  BY <1>2 DEF IInv, TypeOK
<1>4. lflag \in SUBSET Flags /\ rflag \in SUBSET Flags
  <2>1. "a" \in Nibbles /\ "b" \in Nibbles
    BY DEF Nibbles
  <2>2. {RightFlag["a"], RightFlag["b"], LeftFlag["a"], LeftFlag["b"]} \subseteq Flags
    BY <2>1, FlagFacts
  <2> QED BY <1>0, <2>2 DEF ElsewhereFlag
<1>5. left.b \in Units /\ right.a \in Units /\ right.a + chunk_size[k] <= chunk_size[RootK]
  <2>1. PICK x : x = <<k, r, "a">>
    OBVIOUS
  <2>2. x[1] = k /\ x[2] = r /\ x[3] = "a" /\ "a" \in Nibbles /\ "b" \in Nibbles
    BY <2>1 DEF Nibbles
  <2>3. right.a # NULL /\ left.b # NULL
    BY <1>1 DEF ci_free
  <2>4. x \in Nodes
    BY <2>1, <2>2, <2>3, <1>0, <1>1, <1>2, NodeFacts DEF Nodes
  <2>5. Where[x] = right.a /\ Size(x) = chunk_size[k]
    BY <2>2, <2>4, <1>0 DEF Where, Size
  <2>6. left.b \in Units \cup {NULL}
    BY <2>2, <1>0, <1>1, <1>2, <1>3, ChunkFacts
  <2>7. right.a \in Units
    BY <2>4, <2>5, <1>3, WhereFacts
  <2> QED BY <2>3, <2>4, <2>5, <2>6, <2>7, <1>3 DEF InHeap
<1>6. left.b + chunk_size[k + 1] <= chunk_size[RootK] /\ left.b \in Nat
  <2>1. PICK x, y, z, w, v : /\ x = left.b /\ y = right.a /\ z = chunk_size[k]
                             /\ w = chunk_size[k + 1] /\ v = chunk_size[RootK]
    OBVIOUS
  <2>2. /\ x \in Nat /\ y \in Nat /\ z \in Nat /\ w = 2 * z /\ v \in Nat
        /\ x + z = y /\ y + z <= v
    BY <2>1, <1>1, <1>2, <1>5, UnitsFacts, ChunkSizes
  <2>3. x + w <= v
    BY <2>2
  <2> QED BY <2>1, <2>2, <2>3
<1>7. e \in Chunk /\ e["a"] = left.b /\ e["b"] = NULL
  BY <1>0, <1>5 DEF ChunkItem, Chunk
<1>8. /\ s \in Seq(Chunk) /\ Len(s) = Len(lines[k + 1]) /\ DOMAIN s = DOMAIN lines[k + 1]
      /\ \A p \in DOMAIN lines[k + 1], n \in Nibbles : s[p][n] = lines[k + 1][p][n]
  <2>1. ASSUME NEW p \in DOMAIN lines[k + 1]
        PROVE  s[p] \in Chunk /\ \A n \in Nibbles : s[p][n] = lines[k + 1][p][n]
    <3>0. PICK c, D, F : /\ c = lines[k + 1][p] /\ F = c.flags \cup D
                         /\ D = (IF p = pl THEN lflag ELSE {}) \cup (IF p = pr THEN rflag ELSE {})
      OBVIOUS
    <3>1. s[p] = [c EXCEPT !.flags = F]
      <4>1. s[p] = ci_set_flag(c, D)
        BY <3>0, <1>0
      <4> QED BY <4>1, <3>0 DEF ci_set_flag
    <3>2. c \in Chunk /\ c.flags \subseteq Flags
      BY <3>0, <1>2, <1>3, ChunkFacts
    <3>3. F \in SUBSET Flags
      BY <3>0, <3>2, <1>4
    <3> QED BY <3>0, <3>1, <3>2, <3>3 DEF Chunk, Nibbles
  <2>2. DOMAIN s = DOMAIN lines[k + 1] /\ s = [p \in DOMAIN lines[k + 1] |-> s[p]]
    BY <1>0
  <2>3. PICK x : x = Len(lines[k + 1])
    OBVIOUS
  <2>4. x \in Nat /\ DOMAIN lines[k + 1] = 1..x
    BY <2>3, <1>3
  <2>5. s \in [1..x -> Chunk]
    BY <2>1, <2>2, <2>4
  <2>6. s \in Seq(Chunk) /\ Len(s) = x
    BY <2>4, <2>5
  <2> QED BY <2>1, <2>2, <2>3, <2>6
<1>9. PICK x, s2 : x = Len(lines[k + 1]) /\ s2 = Append(s, e)
  OBVIOUS
<1>10. /\ x \in Nat /\ s2 \in Seq(Chunk) /\ Len(s2) = x + 1 /\ DOMAIN s2 = 1..(x + 1)
       /\ DOMAIN lines[k + 1] = 1..x /\ s2[x + 1] = e /\ \A p \in 1..x : s2[p] = s[p]
  <2>1. x \in Nat /\ DOMAIN lines[k + 1] = 1..x /\ Len(s) = x
    BY <1>3, <1>8, <1>9
  <2> QED BY <2>1, <1>7, <1>8, <1>9
<1>11. /\ lines' \in [Ks -> Seq(Chunk)] /\ lines'[k + 1] = s2
       /\ \A j \in Ks \ {k + 1} : lines'[j] = lines[j]
  BY <1>1, <1>2, <1>3, <1>9, <1>10
<1>12. TypeOK'
  <2>1. ASSUME NEW j \in Ks PROVE Len(lines'[j]) <= MaxChunks
    <3>1. CASE j = k + 1
      <4>1. x < MaxChunks /\ MaxChunks \in Nat
        BY <1>1, <1>9, MaxChunksPos DEF HasRoom
      <4>2. x + 1 <= MaxChunks
        BY <4>1, <1>10
      <4> QED BY <4>2, <3>1, <1>10, <1>11
    <3>2. CASE j # k + 1
      BY <3>2, <1>3, <1>11 DEF TypeOK
    <3> QED BY <3>1, <3>2
  <2>2. got'[1] = k + 1 /\ got'[2] \in DOMAIN lines'[k + 1]
    <3>1. got' = <<k + 1, x + 1>>
      BY <1>1, <1>9
    <3>2. x + 1 \in 1..(x + 1)
      BY <1>10
    <3> QED BY <3>1, <3>2, <1>10, <1>11
  <2>3. fault' \in {"none", "sibling flags lost", "free on two lines"} /\ held' \subseteq Ks \X Units
    BY <1>1, <1>3 DEF TypeOK
  <2> QED BY <2>1, <2>2, <2>3, <1>2, <1>11 DEF TypeOK
<1>13. InHeap'
  <2> SUFFICES ASSUME NEW g \in Nodes' PROVE Where'[g] + Size(g) <= chunk_size[RootK]
    BY DEF InHeap
  <2>1. PICK j \in Ks : g \in {j} \X (DOMAIN lines'[j]) \X Nibbles
    BY DEF Nodes, Places
  <2>2. PICK q \in DOMAIN lines'[j], n \in Nibbles : g = <<j, q, n>>
    BY <2>1
  <2>3. lines'[j][q][n] # NULL /\ Where'[g] = lines'[j][q][n] /\ Size(g) = chunk_size[j]
    BY <2>2 DEF Nodes, Where, Size
  <2>4. ASSUME q \in DOMAIN lines[j], lines'[j][q][n] = lines[j][q][n]
        PROVE  Where'[g] + Size(g) <= chunk_size[RootK]
    <3>1. g \in Nodes /\ Where[g] = lines[j][q][n]
      BY <2>2, <2>3, <2>4, NodeFacts DEF Nodes, Where
    <3> QED BY <3>1, <2>3, <2>4, <1>3 DEF InHeap
  <2>5. CASE j # k + 1
    BY <2>4, <2>5, <1>11
  <2>6. CASE j = k + 1 /\ q \in 1..x
    BY <2>4, <2>6, <1>8, <1>10, <1>11
  <2>7. CASE j = k + 1 /\ q \notin 1..x
    <3>1. q = x + 1
      BY <2>7, <1>10, <1>11
    <3>2. lines'[j][q] = e
      BY <3>1, <2>7, <1>10, <1>11
    <3>3. n = "a"
      BY <3>2, <2>3, <1>7 DEF Nibbles
    <3> QED BY <3>2, <3>3, <2>3, <2>7, <1>6, <1>7
  <2> QED BY <2>5, <2>6, <2>7
<1>14. fault' # "none"
  BY <1>1
<1> QED BY <1>12, <1>13, <1>14 DEF IInv

LEMMA Inductive == IInv /\ [Next]_vars => IInv'
<1> SUFFICES ASSUME IInv, [Next]_vars PROVE IInv'
  OBVIOUS
<1>1. ASSUME NEW k \in Ks, request_chunk(k) PROVE IInv'
  BY <1>1, FoundInv, SplitInv DEF request_chunk
<1>2. ASSUME NEW n \in Nibbles, Use(n) PROVE IInv'
  BY <1>2, UseInv
<1>3. ASSUME NEW k \in Ks, NEW i \in 1..MaxChunks, NEW n \in Nibbles, Unuse(k, i, n) PROVE IInv'
  BY <1>3, UnuseInv
<1>4. ASSUME NEW k \in 0..(RootK - 1), NEW i \in 1..MaxChunks, NEW j \in 1..MaxChunks,
             merge_nibbles(k, i, j)
      PROVE  IInv'
  <2>1. CASE MergeWithin(k, i)
    BY <2>1, WithinInv
  <2>2. CASE MergeAcross(k, i, j, FALSE)
    BY <2>2, AcrossInv
  <2>3. CASE MergeAcross(k, j, i, TRUE)
    BY <2>3, AcrossInv
  <2> QED BY <1>4, <2>1, <2>2, <2>3 DEF merge_nibbles
<1>5. CASE UNCHANGED vars
  <2>1. UNCHANGED <<lines, got, held, fault>>
    BY <1>5 DEF vars
  <2>2. TypeOK'
    BY <2>1 DEF IInv, TypeOK
  <2>3. Nodes' = Nodes /\ Where' = Where
    BY <2>1 DEF Nodes, Where, Places
  <2>4. Flagged(SplitFlag)' = Flagged(SplitFlag) /\ Flagged(UsedFlag)' = Flagged(UsedFlag)
    BY <2>1, <2>3 DEF Flagged
  <2> QED BY <2>1, <2>2, <2>3, <2>4 DEF IInv, InHeap, HeldOK
<1> QED BY <1>1, <1>2, <1>3, <1>4, <1>5 DEF Next

-----------------------------------------------------------------------------
(* The theorems *)

LEMMA Always == Spec => []IInv
<1>1. Init => IInv
  BY InitInv
<1>2. IInv /\ [Next]_vars => IInv'
  BY Inductive
<1> QED BY <1>1, <1>2, PTL DEF Spec

\* Chunks, flags and the chunk returned last have the shapes the C types give
\* them, after every request and every merge, the wrong ones included.
THEOREM BuddyTypes == Spec => []TypeOK
<1>1. IInv => TypeOK
  BY DEF IInv
<1> QED BY <1>1, Always, PTL

\* A leaf's memory is what it covers.
LEMMA LeafCovers ==
    ASSUME TypeOK, NEW l \in Leaves
    PROVE  /\ l \in Nodes \ Flagged(SplitFlag)
           /\ LeafMemory(l) = Where[l]..(Where[l] + Size(l) - 1)
           /\ Where[l] \in Nat /\ Size(l) \in Nat \ {0}
           /\ \A u \in Int : u \in LeafMemory(l) <=> Covers(Where, l, u)
<1>1. l \in Nodes \ Flagged(SplitFlag)
  BY LeavesAre
<1>2. Where[l] \in Nat /\ Size(l) \in Nat \ {0}
  BY <1>1, WhereFacts, UnitsFacts, ChunkSizes DEF Size
<1>3. LeafMemory(l) = Where[l]..(Where[l] + Size(l) - 1)
  BY <1>1 DEF LeafMemory, Memory, Where, Size
<1>4. ASSUME NEW u \in Int PROVE u \in LeafMemory(l) <=> Covers(Where, l, u)
  BY <1>2, <1>3 DEF Covers
<1> QED BY <1>1, <1>2, <1>3, <1>4

\* Splits and merges lose no memory and hand none out twice: every unit of the
\* heap is in exactly one nibble that is free or used (split_chunk_item,
\* merge_nibbles), for every heap size and every number of chunks.
THEOREM MemoryTiled == Spec => []LeavesTile
<1>1. ASSUME IInv PROVE LeavesTile
  <2> SUFFICES ASSUME fault = "none", NEW u \in Units
               PROVE  Cardinality({l \in Leaves : u \in LeafMemory(l)}) = 1
    BY DEF LeavesTile
  <2>1. TypeOK /\ Tree(Nodes, Flagged(SplitFlag), Where) /\ u \in Int
    BY <1>1, UnitsFacts DEF IInv
  <2>2. PICK g \in Nodes \ Flagged(SplitFlag) : Covers(Where, g, u)
    BY <2>1 DEF Tree
  <2>3. g \in Leaves /\ u \in LeafMemory(g)
    BY <2>1, <2>2, LeavesAre, LeafCovers
  <2>4. ASSUME NEW l \in Leaves, u \in LeafMemory(l) PROVE l = g
    <3>1. /\ l \in Nodes \ Flagged(SplitFlag) /\ Where[l] \in Nat /\ Size(l) \in Nat
          /\ Covers(Where, l, u)
      BY <2>1, <2>4, LeafCovers
    <3>2. Where[g] \in Nat /\ Size(g) \in Nat
      BY <2>1, <2>3, LeafCovers
    <3>3. ~Disjoint(Where, l, g)
      BY <3>1, <3>2, <2>1, <2>2 DEF Disjoint, Covers
    <3> QED BY <3>1, <3>3, <2>1, <2>2, LeavesDisjoint
  <2>5. {l \in Leaves : u \in LeafMemory(l)} = {g}
    BY <2>3, <2>4
  <2> QED BY <2>5, FS_Singleton
<1> QED BY <1>1, Always, PTL

\* As long as no merge joined nibbles of two chunks or cleared the flags of a
\* nibble it did not merge (buddy.c:179), what the client has marked used
\* overlaps nothing else it has marked and no nibble request_chunk would hand
\* out.  Without that condition it is false of the code: HeldSafe.
THEOREM HeldApart == Spec => []HeldSafeIfClean
<1>1. ASSUME IInv PROVE HeldSafeIfClean
  <2> SUFFICES ASSUME fault = "none", NEW h \in held
               PROVE  /\ \A g \in held \ {h} : Memory(h[1], h[2]) \cap Memory(g[1], g[2]) = {}
                      /\ \A l \in FreeLeaves : Memory(h[1], h[2]) \cap LeafMemory(l) = {}
    BY DEF HeldSafeIfClean, CleanMerges, HeldSafe
  <2>1. TypeOK /\ Tree(Nodes, Flagged(SplitFlag), Where) /\ HeldOK
    BY <1>1 DEF IInv
  <2>2. ASSUME NEW g \in held
        PROVE  \E l \in Flagged(UsedFlag) : /\ g = <<l[1], Where[l]>> /\ l \in Leaves
                                            /\ Memory(g[1], g[2]) = LeafMemory(l)
    <3>1. PICK l \in Flagged(UsedFlag) : g = <<l[1], Where[l]>>
      BY <2>1 DEF HeldOK
    <3>2. l \in Nodes \ Flagged(SplitFlag)
      BY <2>1 DEF HeldOK, Flagged
    <3>3. l \in Leaves
      BY <3>2, LeavesAre
    <3>4. Memory(g[1], g[2]) = LeafMemory(l)
      BY <3>1, <3>2 DEF Memory, LeafMemory, Where
    <3> QED BY <3>1, <3>3, <3>4
  <2>3. ASSUME NEW l \in Leaves, NEW g \in Leaves, l # g
        PROVE  LeafMemory(l) \cap LeafMemory(g) = {}
    <3>1. Disjoint(Where, l, g)
      BY <2>1, <2>3, LeavesAre, LeavesDisjoint
    <3>2. /\ Where[l] \in Nat /\ Size(l) \in Nat /\ Where[g] \in Nat /\ Size(g) \in Nat
          /\ LeafMemory(l) = Where[l]..(Where[l] + Size(l) - 1)
          /\ LeafMemory(g) = Where[g]..(Where[g] + Size(g) - 1)
      BY <2>1, LeafCovers
    <3>3. PICK a, b, c, d : a = Where[l] /\ b = Size(l) /\ c = Where[g] /\ d = Size(g)
      OBVIOUS
    <3>4. (a..(a + b - 1)) \cap (c..(c + d - 1)) = {}
      BY <3>1, <3>2, <3>3 DEF Disjoint
    <3> QED BY <3>2, <3>3, <3>4
  <2>4. PICK lh \in Flagged(UsedFlag) : /\ h = <<lh[1], Where[lh]>> /\ lh \in Leaves
                                        /\ Memory(h[1], h[2]) = LeafMemory(lh)
    BY <2>2
  <2>5. ASSUME NEW g \in held \ {h} PROVE Memory(h[1], h[2]) \cap Memory(g[1], g[2]) = {}
    <3>1. PICK l \in Flagged(UsedFlag) : /\ g = <<l[1], Where[l]>> /\ l \in Leaves
                                         /\ Memory(g[1], g[2]) = LeafMemory(l)
      BY <2>2
    <3>2. l # lh
      BY <3>1, <2>4
    <3> QED BY <3>1, <3>2, <2>3, <2>4
  <2>6. ASSUME NEW l \in FreeLeaves PROVE Memory(h[1], h[2]) \cap LeafMemory(l) = {}
    <3>1. l \in Leaves /\ l # lh
      BY <2>4 DEF FreeLeaves, ci_free, Flagged
    <3> QED BY <3>1, <2>3, <2>4
  <2> QED BY <2>5, <2>6
<1> QED BY <1>1, Always, PTL

\* The lowest chunk can be given back to its parent when nothing is in use.
LEMMA LowestMergeable ==
    ASSUME IInv, fault = "none", held = {}, NEW l0 \in Nodes, l0[1] < RootK,
           \A l \in Nodes : l0[1] <= l[1]
    PROVE  \E k \in 0..(RootK - 1), i \in 1..MaxChunks : Mergeable(k, i)
<1>0. PICK k, i, la, lb, c : /\ k = l0[1] /\ i = l0[2] /\ la = <<k, i, "a">> /\ lb = <<k, i, "b">>
                             /\ c = lines[k][i]
  OBVIOUS
<1>1. /\ TypeOK /\ Tree(Nodes, Flagged(SplitFlag), Where)
      /\ Family(Nodes, Flagged(SplitFlag), Where) /\ HeldOK
  BY DEF IInv
<1>2. k \in Ks /\ k \in Nat /\ i \in DOMAIN lines[k] /\ k + 1 \in Ks /\ k \in 0..(RootK - 1)
  <2>1. k \in Ks /\ i \in DOMAIN lines[k]
    BY <1>0, NodeFacts DEF Nodes
  <2>2. k \in Nat /\ k < RootK /\ RootK \in Nat
    BY <2>1, <1>0, RootKNat DEF Ks
  <2> QED BY <2>1, <2>2 DEF Ks
<1>3. /\ la \in Nodes /\ lb \in Nodes /\ Where[lb] = Where[la] + chunk_size[k]
      /\ \E g \in Nodes : g[1] = k + 1 /\ Where[g] = Where[la]
  <2>1. la = Kin(l0, "a") /\ lb = Kin(l0, "b") /\ Size(l0) = chunk_size[k]
    BY <1>0 DEF Kin, Size
  <2> QED BY <2>1, <1>0, <1>1 DEF Family
<1>4. la[1] = k /\ la[2] = i /\ la[3] = "a" /\ lb[1] = k /\ lb[2] = i /\ lb[3] = "b"
  BY <1>0
<1>5. Where[la] = c.a /\ Where[lb] = c.b /\ c.a # NULL /\ c.b # NULL
  BY <1>0, <1>3, <1>4 DEF Where, Nodes
<1>6. ASSUME NEW l \in Flagged(SplitFlag), l[1] = k PROVE FALSE
  <2>1. PICK g \in Nodes : g[1] = l[1] - 1
    BY <1>1 DEF Family
  <2> QED BY <2>1, <1>0, <1>2, <1>6
<1>7. Flagged(UsedFlag) = {}
  BY <1>1 DEF HeldOK
<1>8. \A n \in Nibbles : ci_free(c, n)
  <2>1. la \notin Flagged(SplitFlag) /\ lb \notin Flagged(SplitFlag)
    BY <1>4, <1>6
  <2>2. SplitFlag["a"] \notin c.flags /\ SplitFlag["b"] \notin c.flags
    BY <2>1, <1>0, <1>3, <1>4 DEF Flagged
  <2>3. UsedFlag["a"] \notin c.flags /\ UsedFlag["b"] \notin c.flags
    BY <1>0, <1>3, <1>4, <1>7 DEF Flagged
  <2> QED BY <2>2, <2>3, <1>5 DEF ci_free, Nibbles
<1>9. parent_chunk(k + 1, c) # 0
  <2>1. PICK g \in Nodes : g[1] = k + 1 /\ Where[g] = c.a
    BY <1>3, <1>5
  <2>2. g[2] \in DOMAIN lines[k + 1] /\ g[3] \in Nibbles /\ lines[k + 1][g[2]][g[3]] = c.a
    BY <2>1, NodeFacts DEF Nodes, Where
  <2> QED BY <2>2, <1>1, <1>2, ParentFacts
<1>10. i \in 1..MaxChunks
  <2>1. PICK x : x = Len(lines[k])
    OBVIOUS
  <2>2. x \in Nat /\ DOMAIN lines[k] = 1..x /\ x <= MaxChunks
    <3>1. lines[k] \in Seq(Chunk) /\ Len(lines[k]) <= MaxChunks
      BY <1>1, <1>2 DEF TypeOK
    <3> QED BY <3>1, <2>1
  <2> QED BY <2>2, <1>2, MaxChunksPos
<1>11. Mergeable(k, i)
  BY <1>0, <1>2, <1>3, <1>5, <1>8, <1>9 DEF Mergeable
<1> QED BY <1>2, <1>10, <1>11

\* As long as no merge joined nibbles of two chunks or cleared the flags of a
\* nibble it did not merge (buddy.c:179): when nothing is in use and no chunk can
\* be merged into its parent any more, the heap is one free chunk again, since
\* parent_chunk finds the way back.  Without that condition it is false of the
\* code: MergedBack.
THEOREM SplitsUndone == Spec => []MergedBackIfClean
<1>1. ASSUME IInv PROVE MergedBackIfClean
  <2> SUFFICES ASSUME fault = "none", held = {},
                      \A k \in 0..(RootK - 1), i \in 1..MaxChunks : ~Mergeable(k, i)
               PROVE  Leaves = {<<RootK, 1, "a">>} /\ FreeLeaves = Leaves
    BY DEF MergedBackIfClean, CleanMerges, MergedBack
  <2>1. /\ TypeOK /\ Tree(Nodes, Flagged(SplitFlag), Where)
        /\ Family(Nodes, Flagged(SplitFlag), Where) /\ HeldOK
    BY <1>1 DEF IInv
  <2>2. ASSUME NEW l \in Nodes PROVE l = <<RootK, 1, "a">>
    <3>1. PICK L : L = {g[1] : g \in Nodes}
      OBVIOUS
    <3>2. L \in SUBSET Nat /\ l[1] \in L /\ L # {}
      BY <3>1, <2>1, WhereFacts
    <3>3. PICK x \in L : \A y \in L : x <= y
      BY <3>2, Least
    <3>4. PICK l0 \in Nodes : x = l0[1]
      BY <3>1, <3>3
    <3>5. \A g \in Nodes : l0[1] <= g[1]
      BY <3>1, <3>3, <3>4
    <3>6. ~(l0[1] < RootK)
      BY <3>5, <1>1, LowestMergeable
    <3>7. l0[1] <= l[1] /\ l[1] <= RootK /\ l0[1] \in Nat /\ l[1] \in Nat /\ RootK \in Nat
      BY <3>5, <2>1, WhereFacts, RootKNat DEF Family
    <3>8. l[1] = RootK
      BY <3>6, <3>7
    <3> QED BY <3>8, <2>1 DEF Family
  <2>3. Leaves # {}
    <3>1. 0 \in Units
      BY UnitsFacts
    <3> QED BY <3>1, <2>1, LeavesAre DEF Tree
  <2>4. Leaves = {<<RootK, 1, "a">>}
    BY <2>2, <2>3, LeavesAre
  <2>5. ASSUME NEW l \in Leaves PROVE l \in FreeLeaves
    <3>1. l \in Nodes /\ l \notin Flagged(SplitFlag) /\ l \notin Flagged(UsedFlag)
      BY <2>1, LeavesAre DEF HeldOK
    <3> QED BY <3>1 DEF FreeLeaves, Flagged, Nodes, ci_free
  <2> QED BY <2>4, <2>5 DEF FreeLeaves
<1> QED BY <1>1, Always, PTL

=============================================================================
