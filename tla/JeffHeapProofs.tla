--------------------------- MODULE JeffHeapProofs ---------------------------
(***************************************************************************)
(* The blocks of jeff cover the heap and no handle is lost, for heaps of   *)
(* any size, through every step of rm_compact.                             *)
(***************************************************************************)
EXTENDS JeffProofs, NumberFacts

-----------------------------------------------------------------------------
(* The inductive invariant *)

\* A sequence without repetition.
Injective(s) == \A i, j \in 1..Len(s) : s[i] = s[j] => i = j

\* Where the block at position i of the list was when the pass began: the blocks
\* from u1 to cur - 1 have been moved down by used_offset.
At(i) == memory[list[i]] + (IF pc = "move" /\ u1 <= i /\ i < cur THEN used_offset ELSE 0)
EndAt(i) == At(i) + size[list[i]]

\* Every block in the list can hold a free_memory_block_t.  A header without
\* memory is in the list only when it is alone there, and then it is unused.
BlocksOK ==
    \A h \in ToSet(list) :
        /\ memory[h] # NULL => size[h] >= FreeBlockSize
        /\ memory[h] = NULL => /\ list = <<h>> /\ unused = <<h>> /\ type[h] = FREE
                               /\ size[h] = 0 /\ memory_top = memory_bottom

\* There is one unused header at most, and it has no memory.
UnusedOK ==
    /\ Len(unused) <= 1
    /\ \A h \in ToSet(unused) : h \in ToSet(list) => memory[h] = NULL

\* In rm_compact the list is sorted: every block ends where the next one begins.
SortedTile ==
    pc # "idle" /\ memory[list[1]] # NULL =>
        /\ At(1) = memory_bottom /\ EndAt(Len(list)) = memory_top
        /\ \A i \in 1..(Len(list) - 1) : EndAt(i) = At(i + 1)

\* What free_size, unlocked_size and used_offset are.
SizesOK ==
    /\ pc \in {"free", "unlocked", "move"} =>
          /\ \A i \in f1..f2 : type[list[i]] = FREE
          /\ free_size = IF f2 < f1 THEN 0 ELSE EndAt(f2) - At(f1)
    /\ pc \notin {"free", "unlocked", "move"} => free_size = 0
    /\ pc \in {"unlocked", "move"} =>
          /\ unlocked_size = IF u2 < u1 THEN 0 ELSE EndAt(u2) - At(u1)
          /\ u1 = f2 + 1 \/ (unlocked_size <= free_size /\ ~Adjacent)
    /\ pc = "move" => used_offset = At(u1) - At(f1) /\ cur <= u2 + 1

\* The slots have the headers in Linked, each once and in its size class: all
\* blocks outside rm_compact, those it has been at in rebuild_free_block_slots.
SlotOK(s, k, B, t, z) ==
    /\ Injective(s)
    /\ \A h \in ToSet(s) : h \in B /\ t[h] = FREE /\ rm_log2(z[h]) = k
Linked == IF pc = "rebuild" THEN ListedBlocks \cap {list[j] : j \in 1..(cur - 1)}
          ELSE ListedBlocks
SlotsOK ==
    pc \in {"idle", "rebuild"} =>
        \A k \in Slots : SlotOK(slots[k], k, Linked, type, size)

HInv == /\ Inv /\ HandlesListed /\ BlocksOK /\ UnusedOK /\ SortedTile /\ SizesOK
        /\ pc = "idle" => BlocksTile
        /\ SlotsOK

-----------------------------------------------------------------------------
(* Sequences without repetition, their parts and their concatenation *)

LEMMA ConcatParts ==
    ASSUME NEW S, NEW s \in Seq(S), NEW t \in Seq(S)
    PROVE  /\ s \o t \in Seq(S) /\ Len(s \o t) = Len(s) + Len(t)
           /\ ToSet(s \o t) = ToSet(s) \cup ToSet(t)
           /\ Injective(s) /\ Injective(t) /\ ToSet(s) \cap ToSet(t) = {}
                => Injective(s \o t)
  <1> DEFINE st == s \o t
  <1>1. st \in Seq(S) /\ Len(st) = Len(s) + Len(t) /\ Len(s) \in Nat /\ Len(t) \in Nat
    OBVIOUS
  <1>2. \A i \in 1..Len(s) : st[i] = s[i]
    OBVIOUS
  <1>3. \A i \in 1..Len(t) : st[Len(s) + i] = t[i]
    OBVIOUS
  <1>d. DOMAIN st = 1..Len(st) /\ DOMAIN s = 1..Len(s) /\ DOMAIN t = 1..Len(t)
    OBVIOUS
  <1>4. ASSUME NEW i \in 1..Len(st)
        PROVE  \/ i \in 1..Len(s) /\ st[i] = s[i]
               \/ i - Len(s) \in 1..Len(t) /\ st[i] = t[i - Len(s)]
    <2>1. CASE i <= Len(s)
      BY <1>2, <2>1
    <2>2. CASE i > Len(s)
      <3>1. i - Len(s) \in 1..Len(t) /\ Len(s) + (i - Len(s)) = i
        BY <1>1, <2>2
      <3> QED BY <1>3, <3>1
    <2> QED BY <1>1, <2>1, <2>2
  <1> HIDE DEF st
  <1>5. ToSet(st) = ToSet(s) \cup ToSet(t)
    <2>1. ASSUME NEW x \in ToSet(st) PROVE x \in ToSet(s) \cup ToSet(t)
      BY <1>4, <1>d DEF ToSet
    <2>2. ASSUME NEW x \in ToSet(s) PROVE x \in ToSet(st)
      <3>1. PICK i \in 1..Len(s) : x = s[i]
        BY <1>d DEF ToSet
      <3>2. i \in 1..Len(st) /\ st[i] = x
        BY <3>1, <1>1, <1>2
      <3> QED BY <3>2, <1>d DEF ToSet
    <2>3. ASSUME NEW x \in ToSet(t) PROVE x \in ToSet(st)
      <3>1. PICK i \in 1..Len(t) : x = t[i]
        BY <1>d DEF ToSet
      <3>2. Len(s) + i \in 1..Len(st) /\ st[Len(s) + i] = x
        BY <3>1, <1>1, <1>3
      <3> QED BY <3>2, <1>d DEF ToSet
    <2> QED BY <2>1, <2>2, <2>3
  <1>6. ASSUME Injective(s), Injective(t), ToSet(s) \cap ToSet(t) = {}
        PROVE  Injective(st)
    <2> SUFFICES ASSUME NEW i \in 1..Len(st), NEW j \in 1..Len(st), st[i] = st[j]
                 PROVE  i = j
      BY DEF Injective
    <2>1. ASSUME NEW a \in 1..Len(s), NEW b \in 1..Len(t) PROVE s[a] # t[b]
      <3>1. s[a] \in ToSet(s) /\ t[b] \in ToSet(t)
        BY <1>d DEF ToSet
      <3> QED BY <3>1, <1>6
    <2>2. CASE i \in 1..Len(s) /\ j \in 1..Len(s)
      <3>1. s[i] = s[j]
        BY <2>2, <1>2
      <3> QED BY <3>1, <2>2, <1>6 DEF Injective
    <2>3. CASE i \notin 1..Len(s) /\ j \notin 1..Len(s)
      <3>1. i - Len(s) \in 1..Len(t) /\ j - Len(s) \in 1..Len(t)
            /\ t[i - Len(s)] = t[j - Len(s)]
        BY <2>3, <1>4
      <3>2. i - Len(s) = j - Len(s)
        BY <3>1, <1>6 DEF Injective
      <3> QED BY <3>2, <1>1
    <2>4. CASE i \in 1..Len(s) /\ j \notin 1..Len(s)
      BY <2>1, <2>4, <1>4, <1>2
    <2>5. CASE i \notin 1..Len(s) /\ j \in 1..Len(s)
      BY <2>1, <2>5, <1>4, <1>2
    <2> QED BY <2>2, <2>3, <2>4, <2>5
  <1> QED BY <1>1, <1>5, <1>6 DEF st

LEMMA SubSeqParts ==
    ASSUME NEW S, NEW s \in Seq(S), NEW p \in Nat \ {0}, NEW q \in Int, q <= Len(s)
    PROVE  /\ SubSeq(s, p, q) \in Seq(S)
           /\ ToSet(SubSeq(s, p, q)) = {s[i] : i \in p..q}
           /\ Len(SubSeq(s, p, q)) = IF p <= q THEN q - p + 1 ELSE 0
           /\ \A i \in 1..Len(SubSeq(s, p, q)) : SubSeq(s, p, q)[i] = s[p + i - 1]
           /\ Injective(s) => Injective(SubSeq(s, p, q))
  <1> DEFINE t == SubSeq(s, p, q)
  <1>1. t \in Seq(S) /\ DOMAIN t = 1..Len(t) /\ Len(s) \in Nat
    OBVIOUS
  <1>2. Len(t) = IF p <= q THEN q - p + 1 ELSE 0
    OBVIOUS
  <1>3. \A i \in 1..Len(t) : t[i] = s[p + i - 1]
    OBVIOUS
  <1> HIDE DEF t
  <1>4. ToSet(t) = {s[i] : i \in p..q}
    <2>1. ASSUME NEW x \in ToSet(t) PROVE x \in {s[i] : i \in p..q}
      <3>1. PICK i \in 1..Len(t) : x = t[i]
        BY <1>1 DEF ToSet
      <3>2. p + i - 1 \in p..q
        BY <3>1, <1>2
      <3> QED BY <3>1, <3>2, <1>3
    <2>2. ASSUME NEW i \in p..q PROVE s[i] \in ToSet(t)
      <3>1. i - p + 1 \in 1..Len(t) /\ p + (i - p + 1) - 1 = i
        BY <2>2, <1>2
      <3>2. t[i - p + 1] = s[i]
        BY <3>1, <1>3
      <3> QED BY <3>1, <3>2, <1>1 DEF ToSet
    <2> QED BY <2>1, <2>2
  <1>5. ASSUME Injective(s) PROVE Injective(t)
    <2> SUFFICES ASSUME NEW i \in 1..Len(t), NEW j \in 1..Len(t), t[i] = t[j]
                 PROVE  i = j
      BY DEF Injective
    <2>1. p + i - 1 \in 1..Len(s) /\ p + j - 1 \in 1..Len(s)
      BY <1>1, <1>2
    <2>2. s[p + i - 1] = s[p + j - 1]
      BY <1>3
    <2>3. p + i - 1 = p + j - 1
      BY <2>1, <2>2, <1>5 DEF Injective
    <2> QED BY <2>3
  <1> QED BY <1>1, <1>2, <1>3, <1>4, <1>5 DEF t

\* Positions of one range and of another hold different headers.
LEMMA RangesDisjoint ==
    ASSUME NEW s, Len(s) \in Nat, Injective(s), NEW P \in SUBSET (1..Len(s)),
           NEW Q \in SUBSET (1..Len(s)), P \cap Q = {}
    PROVE  {s[i] : i \in P} \cap {s[i] : i \in Q} = {}
  BY DEF Injective

LEMMA ConsParts ==
    ASSUME NEW S, NEW s \in Seq(S), NEW e \in S
    PROVE  /\ Cons(e, s) \in Seq(S) /\ ToSet(Cons(e, s)) = {e} \cup ToSet(s)
           /\ Injective(s) /\ e \notin ToSet(s) => Injective(Cons(e, s))
  <1>1. <<e>> \in Seq(S) /\ Len(<<e>>) = 1 /\ <<e>>[1] = e
    OBVIOUS
  <1>2. ToSet(<<e>>) = {e}
    BY <1>1 DEF ToSet
  <1>3. Injective(<<e>>)
    BY <1>1 DEF Injective
  <1> QED BY <1>1, <1>2, <1>3, ConcatParts, SMTT(30) DEF Cons

LEMMA RemoveAtParts ==
    ASSUME NEW S, NEW s \in Seq(S), NEW p \in DOMAIN s, Injective(s)
    PROVE  /\ RemoveAt(s, p) \in Seq(S) /\ Injective(RemoveAt(s, p))
           /\ ToSet(RemoveAt(s, p)) = ToSet(s) \ {s[p]}
  <1>1. p \in 1..Len(s) /\ Len(s) \in Nat /\ DOMAIN s = 1..Len(s)
    OBVIOUS
  <1> DEFINE a == SubSeq(s, 1, p - 1)
             b == SubSeq(s, p + 1, Len(s))
  <1>2. a \in Seq(S) /\ Injective(a) /\ ToSet(a) = {s[i] : i \in 1..(p - 1)}
    BY <1>1, SubSeqParts
  <1>3. b \in Seq(S) /\ Injective(b) /\ ToSet(b) = {s[i] : i \in (p + 1)..Len(s)}
    BY <1>1, SubSeqParts
  <1>4. ToSet(a) \cap ToSet(b) = {}
    <2>1. 1..(p - 1) \in SUBSET (1..Len(s)) /\ (p + 1)..Len(s) \in SUBSET (1..Len(s))
          /\ (1..(p - 1)) \cap ((p + 1)..Len(s)) = {}
      BY <1>1
    <2> QED BY <2>1, <1>1, <1>2, <1>3, RangesDisjoint
  <1>5. ToSet(a) \cup ToSet(b) = ToSet(s) \ {s[p]}
    <2>1. ASSUME NEW i \in 1..Len(s), i # p PROVE s[i] # s[p]
      BY <1>1, <2>1 DEF Injective
    <2>2. 1..Len(s) = (1..(p - 1)) \cup {p} \cup ((p + 1)..Len(s))
      BY <1>1
    <2>3. ToSet(s) = {s[i] : i \in 1..Len(s)}
      BY <1>1 DEF ToSet
    <2>4. \A i \in (1..(p - 1)) \cup ((p + 1)..Len(s)) : i \in 1..Len(s) /\ i # p
      BY <1>1
    <2>5. ASSUME NEW x \in ToSet(a) \cup ToSet(b) PROVE x \in ToSet(s) \ {s[p]}
      BY <1>2, <1>3, <2>1, <2>3, <2>4
    <2>6. ASSUME NEW x \in ToSet(s) \ {s[p]} PROVE x \in ToSet(a) \cup ToSet(b)
      <3>1. PICK i \in 1..Len(s) : x = s[i]
        BY <2>3
      <3>2. i # p
        BY <3>1
      <3> QED BY <3>1, <3>2, <2>2, <1>2, <1>3
    <2> QED BY <2>5, <2>6
  <1> HIDE DEF a, b
  <1>6. a \o b \in Seq(S) /\ Injective(a \o b) /\ ToSet(a \o b) = ToSet(s) \ {s[p]}
    <2>1. /\ a \o b \in Seq(S) /\ ToSet(a \o b) = ToSet(a) \cup ToSet(b)
          /\ Injective(a \o b)
      <3>1. a \in Seq(S) /\ b \in Seq(S)
        BY <1>2, <1>3
      <3>2. /\ a \o b \in Seq(S)
            /\ ToSet(a \o b) = ToSet(a) \cup ToSet(b)
            /\ Injective(a) /\ Injective(b) /\ ToSet(a) \cap ToSet(b) = {}
                => Injective(a \o b)
        BY ONLY <3>1, ConcatParts, Zenon
      <3> QED BY <3>2, <1>2, <1>3, <1>4
    <2> QED BY <2>1, <1>5
  <1> QED BY <1>6 DEF RemoveAt, a, b

-----------------------------------------------------------------------------
(* Blocks that cover a part of the heap *)

\* With addresses m and sizes z, the blocks of the headers in s cover the bytes
\* from a to e, each beginning where the one before it ends.
Tiles(s, m, z, a, e) ==
    /\ s = <<>> => a = e
    /\ s # <<>> => /\ m[s[1]] = a /\ m[s[Len(s)]] + z[s[Len(s)]] = e
                   /\ \A i \in 1..(Len(s) - 1) : m[s[i]] + z[s[i]] = m[s[i + 1]]

LEMMA TilesConcat ==
    ASSUME NEW S, NEW s \in Seq(S), NEW t \in Seq(S), NEW m, NEW z,
           NEW a, NEW b, NEW e, Tiles(s, m, z, a, b), Tiles(t, m, z, b, e)
    PROVE  Tiles(s \o t, m, z, a, e)
  <1> DEFINE st == s \o t
  <1>1. st \in Seq(S) /\ Len(st) = Len(s) + Len(t) /\ Len(s) \in Nat /\ Len(t) \in Nat
    OBVIOUS
  <1>2. \A i \in 1..Len(s) : st[i] = s[i]
    OBVIOUS
  <1>3. \A i \in 1..Len(t) : st[Len(s) + i] = t[i]
    OBVIOUS
  <1>4. CASE s = <<>>
    <2>1. st = t /\ a = b
      BY <1>4 DEF Tiles
    <2> QED BY <2>1
  <1>5. CASE t = <<>>
    <2>1. st = s /\ b = e
      BY <1>5 DEF Tiles
    <2> QED BY <2>1
  <1>6. CASE s # <<>> /\ t # <<>>
    <2>1. Len(s) >= 1 /\ Len(t) >= 1
      BY <1>6
    <2> HIDE DEF st
    <2>2. st # <<>> /\ st[1] = s[1] /\ st[Len(s)] = s[Len(s)] /\ st[Len(s) + 1] = t[1]
          /\ st[Len(st)] = t[Len(t)]
      <3>1. Len(st) = Len(s) + Len(t) /\ Len(t) \in 1..Len(t) /\ 1 \in 1..Len(t)
            /\ Len(s) \in 1..Len(s) /\ 1 \in 1..Len(s)
        BY <1>1, <2>1
      <3>2. st # <<>>
        BY <1>1, <2>1
      <3> QED BY <3>1, <3>2, <1>2, <1>3
    <2>3. /\ m[s[1]] = a /\ m[s[Len(s)]] + z[s[Len(s)]] = b
          /\ m[t[1]] = b /\ m[t[Len(t)]] + z[t[Len(t)]] = e
          /\ \A i \in 1..(Len(s) - 1) : m[s[i]] + z[s[i]] = m[s[i + 1]]
          /\ \A i \in 1..(Len(t) - 1) : m[t[i]] + z[t[i]] = m[t[i + 1]]
      BY <1>6 DEF Tiles
    <2>4. ASSUME NEW i \in 1..(Len(st) - 1)
          PROVE  m[st[i]] + z[st[i]] = m[st[i + 1]]
      <3>1. CASE i < Len(s)
        <4>1. i \in 1..(Len(s) - 1) /\ i \in 1..Len(s) /\ i + 1 \in 1..Len(s)
          BY <3>1, <1>1
        <4> QED BY <4>1, <1>2, <2>3
      <3>2. CASE i = Len(s)
        BY <3>2, <2>2, <2>3
      <3>3. CASE i > Len(s)
        <4> DEFINE j == i - Len(s)
        <4>1. j \in 1..(Len(t) - 1) /\ j \in 1..Len(t) /\ j + 1 \in 1..Len(t)
              /\ Len(s) + j = i /\ Len(s) + (j + 1) = i + 1
          BY <3>3, <1>1
        <4> HIDE DEF j
        <4>2. st[i] = t[j] /\ st[i + 1] = t[j + 1]
          BY <4>1, <1>3
        <4> QED BY <4>1, <4>2, <2>3
      <3> QED BY <3>1, <3>2, <3>3, <1>1
    <2>5. Tiles(st, m, z, a, e)
      BY <2>2, <2>3, <2>4 DEF Tiles
    <2> QED BY <2>5 DEF st
  <1> QED BY <1>4, <1>5, <1>6

LEMMA TilesOne ==
    ASSUME NEW h, NEW m, NEW z, NEW a, NEW e, m[h] = a, m[h] + z[h] = e
    PROVE  Tiles(<<h>>, m, z, a, e)
  BY DEF Tiles

\* The part p..q of s: its blocks lay at g, each next to the one before, have all
\* been moved by the same distance c and now lie between a and e.
Laid(S, s, p, q, m, z, g, w, c, a, e) ==
    /\ s \in Seq(S) /\ p \in Nat \ {0} /\ q \in Int /\ q <= Len(s)
    /\ g \in [1..Len(s) -> Int] /\ w \in [1..Len(s) -> Int] /\ c \in Int
    /\ \A i \in p..q : m[s[i]] = g[i] + c /\ z[s[i]] = w[i]
    /\ \A i \in p..(q - 1) : g[i] + w[i] = g[i + 1]
    /\ p <= q => a = g[p] + c /\ e = g[q] + w[q] + c
    /\ p > q => a = e

\* A part laid out like that tiles its piece of the heap.
LEMMA TilesPart ==
    ASSUME NEW S, NEW s, NEW p, NEW q, NEW m, NEW z, NEW g, NEW w, NEW c, NEW a, NEW e,
           Laid(S, s, p, q, m, z, g, w, c, a, e)
    PROVE  Tiles(SubSeq(s, p, q), m, z, a, e)
  <1>0. /\ s \in Seq(S) /\ p \in Nat \ {0} /\ q \in Int /\ q <= Len(s)
        /\ g \in [1..Len(s) -> Int] /\ w \in [1..Len(s) -> Int] /\ c \in Int
    BY DEF Laid
  <1>a. /\ \A i \in p..q : m[s[i]] = g[i] + c /\ z[s[i]] = w[i]
        /\ \A i \in p..(q - 1) : g[i] + w[i] = g[i + 1]
        /\ p <= q => a = g[p] + c /\ e = g[q] + w[q] + c
        /\ p > q => a = e
    BY DEF Laid
  <1> USE <1>0, <1>a
  <1> DEFINE t == SubSeq(s, p, q)
  <1>1. /\ t \in Seq(S) /\ Len(t) = IF p <= q THEN q - p + 1 ELSE 0
        /\ \A i \in 1..Len(t) : t[i] = s[p + i - 1]
    BY SubSeqParts
  <1> HIDE DEF t
  <1>2. CASE p > q
    <2>1. t = <<>>
      BY <1>1, <1>2
    <2> QED BY <2>1, <1>2 DEF Tiles, t
  <1>3. CASE p <= q
    <2>0. q \in 1..Len(s) /\ Len(s) \in Nat /\ p \in 1..Len(s)
      BY <1>3
    <2>1. t # <<>> /\ Len(t) = q - p + 1 /\ Len(t) \in Nat /\ Len(t) >= 1
      BY <1>1, <1>3
    <2>2. t[1] = s[p] /\ t[Len(t)] = s[q]
      <3>1. 1 \in 1..Len(t) /\ Len(t) \in 1..Len(t) /\ p + 1 - 1 = p /\ p + Len(t) - 1 = q
        BY <2>1, SMTT(30)
      <3> QED BY <3>1, <1>1
    <2>3. m[t[1]] = a /\ m[t[Len(t)]] + z[t[Len(t)]] = e
      <3>0. p \in p..q /\ q \in p..q
        BY <1>3
      <3>1. m[s[p]] = g[p] + c /\ m[s[q]] = g[q] + c /\ z[s[q]] = w[q]
        BY <3>0, Zenon
      <3>2. g[p] \in Int /\ g[q] \in Int /\ w[q] \in Int
        BY <2>0
      <3> QED BY <3>1, <3>2, <2>2, <1>3, SMTT(30)
    <2>4. ASSUME NEW i \in 1..(Len(t) - 1) PROVE m[t[i]] + z[t[i]] = m[t[i + 1]]
      <3> DEFINE j == p + i - 1
      <3>1. j \in p..(q - 1) /\ j \in p..q /\ j + 1 \in p..q /\ i \in 1..Len(t)
            /\ i + 1 \in 1..Len(t) /\ p + (i + 1) - 1 = j + 1
            /\ j \in 1..Len(s) /\ j + 1 \in 1..Len(s)
        BY <2>0, <2>1
      <3>2. t[i] = s[j] /\ t[i + 1] = s[j + 1]
        BY <3>1, <1>1
      <3> HIDE DEF j
      <3>3. m[s[j]] = g[j] + c /\ z[s[j]] = w[j] /\ m[s[j + 1]] = g[j + 1] + c
            /\ g[j] + w[j] = g[j + 1]
        BY <3>1
      <3>4. g[j] \in Int /\ w[j] \in Int /\ g[j + 1] \in Int
        BY <3>1
      <3> QED BY <3>2, <3>3, <3>4
    <2> QED BY <2>1, <2>3, <2>4 DEF Tiles, t
  <1> QED BY <1>2, <1>3

\* Blocks that follow each other do not overlap.
LEMMA TilesApart ==
    ASSUME NEW n \in Nat, NEW g \in [1..n -> Int], NEW w \in [1..n -> Int],
           \A i \in 1..n : w[i] >= 0,
           \A i \in 1..(n - 1) : g[i] + w[i] = g[i + 1]
    PROVE  \A i, j \in 1..n : i < j => g[i] + w[i] <= g[j]
  <1> DEFINE T == {d \in Nat : \A i \in 1..n : i + d + 1 \in 1..n
                                   => g[i] + w[i] <= g[i + d + 1]}
  <1>1. T \in SUBSET Nat
    OBVIOUS
  <1>2. 0 \in T
    <2> SUFFICES ASSUME NEW i \in 1..n, i + 0 + 1 \in 1..n
                 PROVE  g[i] + w[i] <= g[i + 0 + 1]
      OBVIOUS
    <2>1. i \in 1..(n - 1) /\ i + 0 + 1 = i + 1
      OBVIOUS
    <2>2. g[i] + w[i] = g[i + 1] /\ g[i + 1] \in Int
      BY <2>1
    <2> QED BY <2>1, <2>2
  <1>3. ASSUME NEW d \in T PROVE d + 1 \in T
    <2>0. d \in Nat
      BY <1>3
    <2> SUFFICES ASSUME NEW i \in 1..n, i + (d + 1) + 1 \in 1..n
                 PROVE  g[i] + w[i] <= g[i + (d + 1) + 1]
      BY <2>0
    <2> DEFINE k == i + d + 1
    <2>1. k \in 1..n /\ k \in 1..(n - 1) /\ k + 1 = i + (d + 1) + 1
      BY <2>0
    <2>2. g[i] + w[i] <= g[k]
      BY <2>1, <1>3
    <2> HIDE DEF k
    <2>3. g[k] + w[k] = g[k + 1] /\ w[k] >= 0 /\ g[k] \in Int /\ w[k] \in Int
          /\ g[i] \in Int /\ w[i] \in Int
      BY <2>1
    <2>4. g[i] + w[i] <= g[k + 1]
      BY <2>2, <2>3
    <2> QED BY <2>1, <2>4
  <1>4. T = Nat
    <2> HIDE DEF T
    <2> QED BY <1>1, <1>2, <1>3, Induction
  <1> SUFFICES ASSUME NEW i \in 1..n, NEW j \in 1..n, i < j PROVE g[i] + w[i] <= g[j]
    OBVIOUS
  <1>5. j - i - 1 \in Nat /\ i + (j - i - 1) + 1 = j
    OBVIOUS
  <1>6. \A d \in Nat : i + d + 1 \in 1..n => g[i] + w[i] <= g[i + d + 1]
    BY <1>4
  <1> QED BY <1>5, <1>6

-----------------------------------------------------------------------------
(* What the invariant says of one state *)

LEMMA ListFacts ==
    ASSUME HInv
    PROVE  /\ TypeOK /\ list \in Seq(Headers) /\ Len(list) \in Nat /\ Len(list) >= 1
           /\ DOMAIN list = 1..Len(list) /\ Injective(list)
           /\ ToSet(list) = {list[i] : i \in 1..Len(list)}
           /\ \A i \in 1..Len(list) : list[i] \in ToSet(list) /\ list[i] \in Headers
           /\ memory \in [Headers -> Int] /\ size \in [Headers -> Int]
           /\ type \in [Headers -> BlockTypes] /\ memory_top \in Nat
           /\ ToSet(list) \subseteq Headers
  <1>1. TypeOK
    BY DEF HInv, Inv
  <1>2. list \in Seq(Headers) /\ Len(list) \in Nat /\ Len(list) >= 1 /\ DOMAIN list = 1..Len(list)
    BY <1>1, ListType
  <1>3. Injective(list)
    BY <1>2 DEF HInv, HandlesListed, Injective
  <1>4. ToSet(list) = {list[i] : i \in 1..Len(list)}
    BY <1>2 DEF ToSet
  <1>5. \A i \in 1..Len(list) : list[i] \in Headers
    BY <1>2
  <1>6. /\ memory \in [Headers -> Int] /\ size \in [Headers -> Int]
        /\ type \in [Headers -> BlockTypes] /\ memory_top \in Nat
    BY <1>1 DEF TypeOK
  <1> QED BY <1>1, <1>2, <1>3, <1>4, <1>5, <1>6

\* A list of more than one header has no header without memory.
LEMMA AllBlocks ==
    ASSUME HInv, memory[list[1]] # NULL \/ Len(list) > 1
    PROVE  /\ \A h \in ToSet(list) : memory[h] # NULL /\ size[h] >= FreeBlockSize
           /\ ListedBlocks = ToSet(list)
  <1>1. ASSUME NEW h \in ToSet(list) PROVE memory[h] # NULL
    <2> SUFFICES ASSUME memory[h] = NULL PROVE FALSE
      OBVIOUS
    <2>1. list = <<h>>
      BY <1>1 DEF HInv, BlocksOK
    <2> QED BY <2>1
  <1>2. \A h \in ToSet(list) : memory[h] # NULL => size[h] >= FreeBlockSize
    BY DEF HInv, BlocksOK
  <1> QED BY <1>1, <1>2 DEF ListedBlocks

LEMMA AtType ==
    ASSUME HInv, NEW i \in 1..Len(list)
    PROVE  /\ At(i) \in Int /\ EndAt(i) \in Int /\ size[list[i]] \in Int
           /\ memory[list[i]] \in Int
           /\ pc # "move" => At(i) = memory[list[i]] /\ EndAt(i) = End(list[i])
  <1>1. memory[list[i]] \in Int /\ size[list[i]] \in Int /\ used_offset \in Int /\ TypeOK
    BY ListFacts DEF TypeOK
  <1> QED BY <1>1 DEF At, EndAt, End

\* In rm_compact the blocks lie one after the other, in the order of the list.
LEMMA SortedFacts ==
    ASSUME HInv, pc # "idle", memory[list[1]] # NULL \/ Len(list) > 1
    PROVE  /\ \A i \in 1..Len(list) :
                /\ At(i) \in Int /\ EndAt(i) = At(i) + size[list[i]]
                /\ size[list[i]] \in Int /\ size[list[i]] >= FreeBlockSize
                /\ At(i) >= memory_bottom /\ EndAt(i) <= memory_top
                /\ memory[list[i]] # NULL
           /\ \A i, j \in 1..Len(list) : i < j => EndAt(i) <= At(j)
           /\ \A i \in 1..(Len(list) - 1) : EndAt(i) = At(i + 1)
           /\ At(1) = memory_bottom /\ EndAt(Len(list)) = memory_top
  <1> DEFINE n == Len(list)
             g == [i \in 1..n |-> At(i)]
             w == [i \in 1..n |-> size[list[i]]]
  <1>1. n \in Nat /\ n >= 1 /\ FreeBlockSize \in Nat \ {0}
    BY ListFacts, SizesAssumption
  <1>2. \A i \in 1..n : /\ At(i) \in Int /\ size[list[i]] \in Int
                        /\ EndAt(i) = At(i) + size[list[i]]
    BY AtType DEF EndAt
  <1>3. \A i \in 1..n : size[list[i]] >= FreeBlockSize /\ memory[list[i]] # NULL
    BY AllBlocks, ListFacts
  <1>4. /\ At(1) = memory_bottom /\ EndAt(n) = memory_top
        /\ \A i \in 1..(n - 1) : EndAt(i) = At(i + 1)
    <2>1. memory[list[1]] # NULL
      BY <1>1, <1>3
    <2> QED BY <2>1 DEF HInv, SortedTile
  <1> HIDE DEF n
  <1>5. \A i, j \in 1..n : i < j => EndAt(i) <= At(j)
    <2>1. g \in [1..n -> Int] /\ w \in [1..n -> Int]
      BY <1>2
    <2>2. \A i \in 1..n : w[i] >= 0
      BY <1>1, <1>2, <1>3
    <2>3. ASSUME NEW i \in 1..(n - 1) PROVE g[i] + w[i] = g[i + 1]
      <3>1. i \in 1..n /\ i + 1 \in 1..n
        BY <1>1
      <3>2. g[i] = At(i) /\ w[i] = size[list[i]] /\ g[i + 1] = At(i + 1)
        BY <3>1
      <3> QED BY <3>1, <3>2, <1>2, <1>4
    <2>4. \A i, j \in 1..n : i < j => g[i] + w[i] <= g[j]
      <3> HIDE DEF g, w
      <3> QED BY <2>1, <2>2, <2>3, <1>1, TilesApart
    <2> QED BY <2>4, <1>2
  <1>6. ASSUME NEW i \in 1..n PROVE At(i) >= memory_bottom /\ EndAt(i) <= memory_top
    <2>1. 1 \in 1..n /\ n \in 1..n
      BY <1>1
    <2>2. At(i) \in Int /\ size[list[i]] \in Int /\ EndAt(i) = At(i) + size[list[i]]
          /\ size[list[i]] >= FreeBlockSize
      BY <1>2, <1>3
    <2>3. At(1) \in Int /\ size[list[1]] \in Int /\ EndAt(1) = At(1) + size[list[1]]
          /\ size[list[1]] >= FreeBlockSize
      BY <1>2, <1>3, <2>1
    <2>4. At(n) \in Int /\ size[list[n]] \in Int /\ EndAt(n) = At(n) + size[list[n]]
          /\ size[list[n]] >= FreeBlockSize
      BY <1>2, <1>3, <2>1
    <2>5. At(i) >= memory_bottom
      <3>1. CASE i = 1
        BY <3>1, <1>4, <2>2
      <3>2. CASE i # 1
        <4>1. EndAt(1) <= At(i)
          BY <3>2, <2>1, <1>5, <1>1
        <4> QED BY <4>1, <2>2, <2>3, <1>4, <1>1
      <3> QED BY <3>1, <3>2
    <2>6. EndAt(i) <= memory_top
      <3>1. CASE i = n
        BY <3>1, <1>4, <2>2
      <3>2. CASE i # n
        <4>1. EndAt(i) <= At(n)
          BY <3>2, <2>1, <1>5, <1>1
        <4> QED BY <4>1, <2>2, <2>4, <1>4, <1>1
      <3> QED BY <3>1, <3>2
    <2> QED BY <2>5, <2>6
  <1> QED BY <1>2, <1>3, <1>4, <1>5, <1>6 DEF n

\* The blocks of a list that is sorted this way cover the heap up to memory_top.
LEMMA SortedCovers ==
    ASSUME HInv, pc # "move"
    PROVE  BlocksTile
  <1>1. CASE pc = "idle"
    BY <1>1 DEF HInv
  <1>2. CASE pc # "idle" /\ memory[list[1]] = NULL
    <2>1. list = <<list[1]>> /\ memory_top = memory_bottom
      BY <1>2, ListFacts DEF HInv, BlocksOK
    <2>2. ToSet(list) = {list[1]}
      <3>1. Len(list) = 1
        BY <2>1
      <3> QED BY <3>1, ListFacts
    <2>3. ListedBlocks = {}
      BY <2>2, <1>2 DEF ListedBlocks
    <2> QED BY <2>1, <2>3 DEF BlocksTile
  <1>3. CASE pc # "idle" /\ memory[list[1]] # NULL
    <2> DEFINE n == Len(list)
    <2>0. n \in Nat /\ n >= 1 /\ FreeBlockSize \in Nat \ {0} /\ memory_top \in Nat
          /\ memory_bottom \in Nat \ {0}
      BY ListFacts, SizesAssumption, SlotCount
    <2>1. /\ \A i \in 1..n :
                /\ At(i) \in Int /\ EndAt(i) = At(i) + size[list[i]]
                /\ size[list[i]] \in Int /\ size[list[i]] >= FreeBlockSize
                /\ At(i) >= memory_bottom /\ EndAt(i) <= memory_top
                /\ memory[list[i]] # NULL
          /\ \A i, j \in 1..n : i < j => EndAt(i) <= At(j)
          /\ \A i \in 1..(n - 1) : EndAt(i) = At(i + 1)
          /\ At(1) = memory_bottom /\ EndAt(n) = memory_top
      BY <1>3, SortedFacts
    <2>2. \A i \in 1..n : At(i) = memory[list[i]] /\ EndAt(i) = End(list[i])
      BY AtType
    <2>3. ListedBlocks = {list[i] : i \in 1..n}
      BY <1>3, AllBlocks, ListFacts
    <2> HIDE DEF n
    <2>4. ASSUME NEW a \in ListedBlocks, NEW b \in ListedBlocks, a # b
          PROVE  End(a) <= memory[b] \/ End(b) <= memory[a]
      <3>1. PICK i \in 1..n, j \in 1..n : a = list[i] /\ b = list[j]
        BY <2>3
      <3>2. i < j \/ j < i
        BY <3>1, <2>4
      <3> QED BY <3>1, <3>2, <2>1, <2>2
    <2>5. ASSUME NEW a \in ListedBlocks PROVE size[a] > 0 /\ End(a) <= memory_top
      <3>1. PICK i \in 1..n : a = list[i]
        BY <2>3
      <3>2. size[a] \in Int /\ size[a] >= FreeBlockSize
        BY <3>1, <2>1
      <3>3. End(a) <= memory_top
        BY <3>1, <2>1, <2>2
      <3> QED BY <3>2, <3>3, <2>0
    <2>6. {memory[a] : a \in ListedBlocks} \cup {memory_top}
             = {End(a) : a \in ListedBlocks} \cup {memory_bottom}
      <3>1. ASSUME NEW i \in 1..n
            PROVE  memory[list[i]] \in {End(a) : a \in ListedBlocks} \cup {memory_bottom}
        <4>1. CASE i = 1
          BY <4>1, <2>1, <2>2
        <4>2. CASE i # 1
          <5>1. i - 1 \in 1..n /\ i - 1 \in 1..(n - 1) /\ (i - 1) + 1 = i
            BY <2>0, <4>2
          <5>2. End(list[i - 1]) = memory[list[i]]
            BY <5>1, <2>1, <2>2
          <5> QED BY <5>1, <5>2, <2>3
        <4> QED BY <4>1, <4>2
      <3>2. ASSUME NEW i \in 1..n
            PROVE  End(list[i]) \in {memory[a] : a \in ListedBlocks} \cup {memory_top}
        <4>1. CASE i = n
          BY <4>1, <2>1, <2>2
        <4>2. CASE i # n
          <5>1. i + 1 \in 1..n /\ i \in 1..(n - 1)
            BY <2>0, <4>2
          <5>2. End(list[i]) = memory[list[i + 1]]
            BY <5>1, <2>1, <2>2
          <5> QED BY <5>1, <5>2, <2>3
        <4> QED BY <4>1, <4>2
      <3>3. memory_top \in {End(a) : a \in ListedBlocks}
        <4>1. n \in 1..n
          BY <2>0
        <4> QED BY <4>1, <2>1, <2>2, <2>3
      <3>4. memory_bottom \in {memory[a] : a \in ListedBlocks}
        <4>1. 1 \in 1..n
          BY <2>0
        <4> QED BY <4>1, <2>1, <2>2, <2>3
      <3>5. ASSUME NEW x \in {memory[a] : a \in ListedBlocks}
            PROVE  x \in {End(a) : a \in ListedBlocks} \cup {memory_bottom}
        BY <3>1, <2>3
      <3>6. ASSUME NEW x \in {End(a) : a \in ListedBlocks}
            PROVE  x \in {memory[a] : a \in ListedBlocks} \cup {memory_top}
        BY <3>2, <2>3
      <3> QED BY <3>3, <3>4, <3>5, <3>6
    <2> QED BY <2>4, <2>5, <2>6 DEF BlocksTile
  <1> QED BY <1>1, <1>2, <1>3

-----------------------------------------------------------------------------
(* The steps of a pass that only look for blocks *)

\* What holds in every step that leaves the heap alone.
LEMMA HeapKept ==
    ASSUME HInv, UNCHANGED heapVars
    PROVE  HandlesListed' /\ BlocksOK' /\ UnusedOK'
  BY DEF HInv, HandlesListed, Held, BlocksOK, UnusedOK, heapVars, headerVars,
         statVars, clientVars

LEMMA SortedKept ==
    ASSUME HInv, UNCHANGED heapVars, pc \notin {"idle", "move"},
           pc' \in {"pass", "free", "unlocked", "finish"}
    PROVE  /\ SortedTile'
           /\ \A i \in 1..Len(list) : At(i)' = At(i) /\ EndAt(i)' = EndAt(i)
  <1>1. UNCHANGED <<memory, size, list, memory_top>>
    BY DEF heapVars, headerVars
  <1>2. ASSUME NEW i \in 1..Len(list) PROVE At(i)' = At(i) /\ EndAt(i)' = EndAt(i)
    <2>1. At(i)' = At(i)
      BY <1>1 DEF At
    <2> QED BY <2>1, <1>1 DEF EndAt
  <1>5. SortedTile'
    <2>1. SortedTile
      BY DEF HInv
    <2> QED BY <2>1, <1>1 DEF SortedTile, At, EndAt
  <1> QED BY <1>2, <1>5

LEMMA PassHeap ==
    ASSUME HInv, PassEnds \/ PassBegins
    PROVE  HInv'
  <1>1. Inv'
    BY PassInv DEF HInv
  <1>2. UNCHANGED heapVars /\ pc = "pass" /\ pc' \in {"free", "finish"}
    BY DEF PassEnds, PassBegins
  <1>3. HandlesListed' /\ BlocksOK' /\ UnusedOK' /\ SortedTile'
    BY <1>2, HeapKept, SortedKept
  <1>4. SizesOK'
    <2>1. CASE PassEnds
      BY <2>1, <1>2 DEF HInv, SizesOK, PassEnds, rangeVars
    <2>2. CASE PassBegins
      <3>0. PICK i \in root..Len(list) : f1' = i /\ f2' = i - 1
        BY <2>2 DEF PassBegins
      <3>1. i \in Int /\ free_size' = 0 /\ pc' = "free"
        BY <2>2, ListFacts DEF TypeOK, PassBegins, HInv, SizesOK
      <3>2. f2' < f1'
        BY <3>0, <3>1
      <3>3. ASSUME NEW j \in f1'..f2' PROVE type'[list'[j]] = FREE
        BY <3>0, <3>1
      <3> QED BY <3>1, <3>2, <3>3 DEF SizesOK
    <2> QED BY <2>1, <2>2
  <1> QED BY <1>1, <1>2, <1>3, <1>4 DEF HInv, SlotsOK

LEMMA FreeRangeHeap ==
    ASSUME HInv, FreeRange
    PROVE  HInv'
  <1>1. Inv' /\ Inv
    BY FreeRangeInv DEF HInv
  <1>2. /\ UNCHANGED heapVars /\ pc = "free" /\ pc' = "free"
        /\ f1' = f1 /\ f2' = f2 + 1 /\ f2 < Len(list) /\ type[list[f2 + 1]] = FREE
        /\ free_size' = free_size + size[list[f2 + 1]]
    BY DEF FreeRange, FreeFollows, TypeAt
  <1>3. HandlesListed' /\ BlocksOK' /\ UnusedOK' /\ SortedTile'
        /\ \A i \in 1..Len(list) : At(i)' = At(i) /\ EndAt(i)' = EndAt(i)
    BY <1>2, HeapKept, SortedKept
  <1>4. /\ f1 \in Int /\ f2 \in Int /\ f1 >= 1 /\ f1 <= Len(list) /\ f2 >= f1 - 1
        /\ Len(list) \in Nat
        /\ \A i \in f1..f2 : type[list[i]] = FREE
        /\ free_size = IF f2 < f1 THEN 0 ELSE EndAt(f2) - At(f1)
    BY <1>2, ListFacts DEF HInv, Inv, TypeOK, RangesOK, SizesOK
  <1>5. /\ UNCHANGED <<list, type, size, memory>>
        /\ f2 + 1 \in 1..Len(list) /\ f1 \in 1..Len(list)
    BY <1>2, <1>4 DEF heapVars, headerVars
  <1>6. ASSUME NEW i \in f1'..f2' PROVE type'[list'[i]] = FREE
    <2>1. i \in f1..f2 \/ i = f2 + 1
      BY <1>2, <1>4
    <2> QED BY <2>1, <1>2, <1>4, <1>5
  <1>7. free_size' = EndAt(f2 + 1) - At(f1)
    <2>1. /\ At(f2 + 1) \in Int /\ EndAt(f2 + 1) = At(f2 + 1) + size[list[f2 + 1]]
          /\ size[list[f2 + 1]] \in Int /\ At(f1) \in Int
      BY <1>5, AtType DEF EndAt
    <2>2. CASE f2 < f1
      <3>1. f2 + 1 = f1
        BY <2>2, <1>4
      <3> QED BY <3>1, <2>1, <2>2, <1>2, <1>4
    <2>3. CASE f2 >= f1
      <3>1. f2 \in 1..(Len(list) - 1) /\ Len(list) > 1
        BY <2>3, <1>2, <1>4
      <3>2. EndAt(f2) = At(f2 + 1)
        BY <3>1, <1>2, SortedFacts
      <3> QED BY <3>2, <2>1, <2>3, <1>2, <1>4
    <2> QED BY <2>2, <2>3, <1>4
  <1>8. free_size' = EndAt(f2)' - At(f1)' /\ ~(f2' < f1')
    <2>1. PICK p \in 1..Len(list), q \in 1..Len(list) : p = f1 /\ q = f2 + 1
      BY <1>5
    <2>2. EndAt(q)' = EndAt(q) /\ At(p)' = At(p)
      BY <1>3
    <2>3. EndAt(f2)' = EndAt(q)' /\ At(f1)' = At(p)'
      BY <1>2, <2>1 DEF At, EndAt
    <2> QED BY <2>1, <2>2, <2>3, <1>2, <1>4, <1>7
  <1>9. SizesOK'
    BY <1>2, <1>6, <1>8 DEF SizesOK
  <1> QED BY <1>1, <1>2, <1>3, <1>9 DEF HInv, SlotsOK

LEMMA NothingToMoveHeap ==
    ASSUME HInv, NothingToMove \/ NextFreeRange
    PROVE  HInv'
  <1>1. Inv'
    BY NothingToMoveInv DEF HInv
  <1>2. UNCHANGED heapVars /\ pc = "free" /\ pc' \in {"pass", "finish"} /\ free_size' = 0
    BY DEF NothingToMove, NextFreeRange, FreeRangeDone, NoRange
  <1>3. HandlesListed' /\ BlocksOK' /\ UnusedOK' /\ SortedTile'
    BY <1>2, HeapKept, SortedKept
  <1>4. SizesOK'
    BY <1>2 DEF SizesOK
  <1> QED BY <1>1, <1>2, <1>3, <1>4 DEF HInv, SlotsOK

\* The free range stays what it was while the unlocked range is collected.
LEMMA FreePartKept ==
    ASSUME HInv, UNCHANGED <<heapVars, f1, f2, free_size>>,
           pc \in {"free", "unlocked"}, pc' = "unlocked"
    PROVE  /\ \A i \in f1'..f2' : type'[list'[i]] = FREE
           /\ free_size' = IF f2' < f1' THEN 0 ELSE EndAt(f2)' - At(f1)'
  <1>1. /\ \A i \in f1..f2 : type[list[i]] = FREE
        /\ free_size = IF f2 < f1 THEN 0 ELSE EndAt(f2) - At(f1)
    BY DEF HInv, SizesOK
  <1>2. UNCHANGED <<memory, size, type, list>>
    BY DEF heapVars, headerVars
  <1> QED BY <1>1, <1>2 DEF At, EndAt

LEMMA UnlockedBeginsHeap ==
    ASSUME HInv, UnlockedBegins
    PROVE  HInv'
  <1>1. Inv' /\ Inv
    BY UnlockedBeginsInv DEF HInv
  <1>2. /\ UNCHANGED <<heapVars, f1, f2, free_size>> /\ pc = "free" /\ pc' = "unlocked"
        /\ free_size > 0 /\ unlocked_size' = 0 /\ f2 \in Int /\ Len(list) \in Nat
    BY <1>1, ListFacts DEF UnlockedBegins, FreeRangeDone, Inv, RangesOK, TypeOK
  <1>3. PICK i \in Movable : u1' = i /\ u2' = i - 1
    BY DEF UnlockedBegins
  <1>4. i \in (f2 + 1)..Len(list) /\ SearchEnds(i) /\ i \in Int
    BY <1>2 DEF Movable, AfterFree
  <1>5. HandlesListed' /\ BlocksOK' /\ UnusedOK' /\ SortedTile'
    BY <1>2, HeapKept, SortedKept
  <1>6. u1' = f2' + 1 \/ (unlocked_size' <= free_size' /\ ~Adjacent')
    <2>1. CASE i = f2 + 1
      BY <2>1, <1>2, <1>3
    <2>2. CASE i # f2 + 1
      <3>1. f2 + 1 \in (f2 + 1)..(i - 1) /\ f2 + 1 \in (f2 + 1)..(f2 + 1)
        BY <2>2, <1>2, <1>4
      <3>2. ~Adjacent
        BY <3>1, <1>4 DEF SearchEnds, Fits, Adjacent
      <3>3. ~Adjacent'
        BY <3>2, <1>2 DEF Adjacent, TypeAt, heapVars, headerVars
      <3>4. free_size \in Int
        BY <1>1 DEF Inv, TypeOK
      <3> QED BY <3>3, <3>4, <1>2
    <2> QED BY <2>1, <2>2
  <1>7. SizesOK'
    <2>1. u2' < u1'
      BY <1>3, <1>4
    <2>2. /\ \A j \in f1'..f2' : type'[list'[j]] = FREE
          /\ free_size' = IF f2' < f1' THEN 0 ELSE EndAt(f2)' - At(f1)'
      BY <1>2, FreePartKept
    <2> QED BY <2>1, <2>2, <1>2, <1>6 DEF SizesOK
  <1> QED BY <1>1, <1>2, <1>5, <1>7 DEF HInv, SlotsOK

LEMMA UnlockedRangeHeap ==
    ASSUME HInv, UnlockedRange
    PROVE  HInv'
  <1>1. Inv' /\ Inv
    BY UnlockedRangeInv DEF HInv
  <1>2. /\ UNCHANGED <<heapVars, f1, f2, free_size, u1>> /\ pc = "unlocked" /\ pc' = "unlocked"
        /\ u2' = u2 + 1 /\ u2 < Len(list) /\ Fits(u2 + 1, unlocked_size)
        /\ unlocked_size' = unlocked_size + size[list[u2 + 1]]
    BY DEF UnlockedRange, UnlockedFollows
  <1>3. HandlesListed' /\ BlocksOK' /\ UnusedOK' /\ SortedTile'
        /\ \A i \in 1..Len(list) : At(i)' = At(i) /\ EndAt(i)' = EndAt(i)
    BY <1>2, HeapKept, SortedKept
  <1>4. /\ u1 \in Int /\ u2 \in Int /\ f2 \in Int /\ f1 \in Int
        /\ u1 > f2 /\ f2 >= f1 /\ f1 >= 1 /\ u1 <= Len(list)
        /\ u2 >= u1 - 1 /\ Len(list) \in Nat
        /\ unlocked_size = IF u2 < u1 THEN 0 ELSE EndAt(u2) - At(u1)
        /\ u1 = f2 + 1 \/ (unlocked_size <= free_size /\ ~Adjacent)
    BY <1>2, ListFacts DEF HInv, Inv, TypeOK, RangesOK, SizesOK
  <1>5. u2 + 1 \in 1..Len(list) /\ u1 \in 1..Len(list)
    BY <1>2, <1>4
  <1>6. unlocked_size' = EndAt(u2 + 1) - At(u1)
    <2>1. /\ At(u2 + 1) \in Int /\ EndAt(u2 + 1) = At(u2 + 1) + size[list[u2 + 1]]
          /\ size[list[u2 + 1]] \in Int /\ At(u1) \in Int
      BY <1>5, AtType DEF EndAt
    <2>2. CASE u2 < u1
      <3>1. u2 + 1 = u1
        BY <2>2, <1>4
      <3> QED BY <3>1, <2>1, <2>2, <1>2, <1>4
    <2>3. CASE u2 >= u1
      <3>1. u2 \in 1..(Len(list) - 1) /\ Len(list) > 1
        BY <2>3, <1>2, <1>4
      <3>2. EndAt(u2) = At(u2 + 1)
        BY <3>1, <1>2, SortedFacts
      <3> QED BY <3>2, <2>1, <2>3, <1>2, <1>4
    <2> QED BY <2>2, <2>3, <1>4
  <1>7. unlocked_size' = EndAt(u2)' - At(u1)' /\ ~(u2' < u1')
    <2>1. PICK p \in 1..Len(list), q \in 1..Len(list) : p = u1 /\ q = u2 + 1
      BY <1>5
    <2>2. EndAt(q)' = EndAt(q) /\ At(p)' = At(p)
      BY <1>3
    <2>3. EndAt(u2)' = EndAt(q)' /\ At(u1)' = At(p)'
      BY <1>2, <2>1 DEF At, EndAt
    <2> QED BY <2>1, <2>2, <2>3, <1>2, <1>4, <1>6
  <1>8. u1' = f2' + 1 \/ (unlocked_size' <= free_size' /\ ~Adjacent')
    <2>1. Adjacent' = Adjacent
      BY <1>2 DEF Adjacent, TypeAt, heapVars, headerVars
    <2>2. ~Adjacent => unlocked_size' <= free_size
      BY <1>2 DEF Fits
    <2> QED BY <2>1, <2>2, <1>2, <1>4
  <1>9. SizesOK'
    <2>2. /\ \A j \in f1'..f2' : type'[list'[j]] = FREE
          /\ free_size' = IF f2' < f1' THEN 0 ELSE EndAt(f2)' - At(f1)'
      BY <1>2, FreePartKept
    <2> QED BY <2>2, <1>2, <1>7, <1>8 DEF SizesOK
  <1> QED BY <1>1, <1>2, <1>3, <1>9 DEF HInv, SlotsOK

LEMMA UnlockedRangeDoneHeap ==
    ASSUME HInv, UnlockedRangeDone
    PROVE  HInv'
  <1>1. Inv' /\ Inv
    BY UnlockedRangeDoneInv DEF HInv
  <1>2. /\ UNCHANGED <<heapVars, f1, f2, free_size, u1, u2, unlocked_size>>
        /\ pc = "unlocked" /\ pc' = "move" /\ cur' = u1
        /\ used_offset' = memory[list[u1]] - memory[list[f1]]
    BY DEF UnlockedRangeDone, header_memory_offset
  <1>3. HandlesListed' /\ BlocksOK' /\ UnusedOK'
    BY <1>2, HeapKept
  <1>4. UNCHANGED <<memory, size, type, list, memory_top>>
    BY <1>2 DEF heapVars, headerVars
  <1>5. /\ u1 \in Int /\ u2 \in Int /\ f2 \in Int /\ f1 \in Int
        /\ u1 > f2 /\ f2 >= f1 /\ f1 >= 1 /\ u1 <= Len(list) /\ f1 <= Len(list)
        /\ u2 <= Len(list) /\ f2 <= Len(list)
        /\ Len(list) \in Nat /\ Len(list) >= 1
    BY <1>2, ListFacts DEF HInv, Inv, TypeOK, RangesOK
  <1>6. u2 >= u1
    BY <1>1, <1>2 DEF Inv, RangesOK
  <1>7. ASSUME NEW i \in 1..Len(list) PROVE At(i)' = At(i) /\ EndAt(i)' = EndAt(i)
    <2>1. ~(u1 <= i /\ i < u1)
      BY <1>5
    <2>2. At(i)' = At(i)
      BY <2>1, <1>2, <1>4 DEF At
    <2> QED BY <2>2, <1>4 DEF EndAt
  <1>8. SortedTile'
    <2>1. ASSUME memory[list[1]] # NULL
          PROVE  /\ At(1)' = memory_bottom /\ EndAt(Len(list))' = memory_top
                 /\ \A i \in 1..(Len(list) - 1) : EndAt(i)' = At(i + 1)'
      <3>1. /\ At(1) = memory_bottom /\ EndAt(Len(list)) = memory_top
            /\ \A i \in 1..(Len(list) - 1) : EndAt(i) = At(i + 1)
        BY <2>1, <1>2 DEF HInv, SortedTile
      <3>2. PICK n \in 1..Len(list) : n = Len(list)
        BY <1>5
      <3>3. EndAt(Len(list))' = EndAt(n)'
        BY <3>2, <1>4 DEF At, EndAt
      <3>4. 1 \in 1..Len(list)
        BY <1>5
      <3>5. \A i \in 1..(Len(list) - 1) : i \in 1..Len(list) /\ i + 1 \in 1..Len(list)
        BY <1>5
      <3>6. ASSUME NEW i \in 1..(Len(list) - 1) PROVE EndAt(i)' = At(i + 1)'
        <4>1. EndAt(i)' = EndAt(i) /\ At(i + 1)' = At(i + 1)
          BY <3>5, <1>7
        <4> QED BY <4>1, <3>1
      <3> QED BY <3>1, <3>2, <3>3, <3>4, <3>6, <1>7
    <2> QED BY <2>1, <1>4 DEF SortedTile
  <1>9. PICK p \in 1..Len(list), q \in 1..Len(list), r \in 1..Len(list),
             s \in 1..Len(list) : p = f1 /\ q = f2 /\ r = u1 /\ s = u2
    BY <1>5, <1>6
  <1>10. EndAt(f2)' = EndAt(f2) /\ At(f1)' = At(f1) /\ EndAt(u2)' = EndAt(u2)
         /\ At(u1)' = At(u1)
    <2>1. EndAt(f2)' = EndAt(q)' /\ At(f1)' = At(p)' /\ EndAt(u2)' = EndAt(s)'
          /\ At(u1)' = At(r)'
      BY <1>9, <1>2 DEF At, EndAt
    <2> QED BY <2>1, <1>9, <1>7
  <1>11. SizesOK'
    <2>1. /\ \A i \in f1..f2 : type[list[i]] = FREE
          /\ free_size = IF f2 < f1 THEN 0 ELSE EndAt(f2) - At(f1)
          /\ unlocked_size = IF u2 < u1 THEN 0 ELSE EndAt(u2) - At(u1)
          /\ u1 = f2 + 1 \/ (unlocked_size <= free_size /\ ~Adjacent)
      BY <1>2 DEF HInv, SizesOK
    <2>2. \A i \in f1'..f2' : type'[list'[i]] = FREE
      BY <2>1, <1>2, <1>4
    <2>3. /\ free_size' = IF f2' < f1' THEN 0 ELSE EndAt(f2)' - At(f1)'
          /\ unlocked_size' = IF u2' < u1' THEN 0 ELSE EndAt(u2)' - At(u1)'
      BY <2>1, <1>2, <1>10
    <2>4. u1' = f2' + 1 \/ (unlocked_size' <= free_size' /\ ~Adjacent')
      BY <2>1, <1>2, <1>4 DEF Adjacent, TypeAt
    <2>5. used_offset' = At(u1)' - At(f1)' /\ cur' <= u2' + 1
      <3>1. At(u1) = memory[list[u1]] /\ At(f1) = memory[list[f1]]
        BY <1>9, <1>2, AtType
      <3>2. cur' <= u2' + 1
        BY <1>2, <1>5, <1>6
      <3> QED BY <3>1, <3>2, <1>2, <1>10
    <2> QED BY <2>2, <2>3, <2>4, <2>5, <1>2 DEF SizesOK
  <1> QED BY <1>1, <1>2, <1>3, <1>8, <1>11 DEF HInv, SlotsOK

-----------------------------------------------------------------------------
(* Moving blocks *)

LEMMA MoveFacts ==
    ASSUME HInv, pc = "move"
    PROVE  /\ f1 \in 1..Len(list) /\ f2 \in 1..Len(list) /\ u1 \in 1..Len(list)
           /\ u2 \in 1..Len(list) /\ Len(list) \in Nat /\ Len(list) > 1
           /\ f1 <= f2 /\ f2 < u1 /\ u1 <= u2 /\ cur \in u1..(u2 + 1)
           /\ \A i \in f1..f2 : type[list[i]] = FREE
           /\ \A i \in u1..u2 : type[list[i]] = UNLOCKED
           /\ free_size = EndAt(f2) - At(f1) /\ unlocked_size = EndAt(u2) - At(u1)
           /\ used_offset = At(u1) - At(f1)
           /\ u1 # f2 + 1 => unlocked_size <= free_size
           /\ used_offset \in Int /\ free_size \in Int /\ unlocked_size \in Int
           /\ Inv
  <1>1. Inv
    BY DEF HInv
  <1>2. /\ f1 \in Int /\ f2 \in Int /\ u1 \in Int /\ u2 \in Int
        /\ cur \in Int /\ Len(list) \in Nat
        /\ f1 >= 1 /\ f1 <= Len(list)
        /\ f2 >= f1 /\ f2 <= Len(list)
        /\ u1 > f2 /\ u1 <= Len(list) /\ u2 >= u1 /\ u2 <= Len(list)
    BY <1>1, RangesInMove
  <1>3. used_offset \in Int /\ free_size \in Int /\ unlocked_size \in Int /\ cur >= u1
        /\ \A i \in u1..u2 : type[list[i]] = UNLOCKED
    BY <1>1, LocalTypes DEF Inv, RangesOK
  <1>4. /\ \A i \in f1..f2 : type[list[i]] = FREE
        /\ free_size = IF f2 < f1 THEN 0 ELSE EndAt(f2) - At(f1)
        /\ unlocked_size = IF u2 < u1 THEN 0 ELSE EndAt(u2) - At(u1)
        /\ u1 = f2 + 1 \/ (unlocked_size <= free_size /\ ~Adjacent)
        /\ used_offset = At(u1) - At(f1) /\ cur <= u2 + 1
    BY DEF HInv, SizesOK
  <1>5. Len(list) > 1 /\ f1 \in 1..Len(list) /\ f2 \in 1..Len(list) /\ u1 \in 1..Len(list)
        /\ u2 \in 1..Len(list) /\ cur \in u1..(u2 + 1) /\ ~(f2 < f1) /\ ~(u2 < u1)
        /\ f1 <= f2 /\ f2 < u1 /\ u1 <= u2
    BY <1>2, <1>3, <1>4
  <1> QED BY <1>1, <1>2, <1>3, <1>4, <1>5

LEMMA MoveBlockHeap ==
    ASSUME HInv, MoveBlock
    PROVE  HInv'
  <1> DEFINE h == list[cur]
             dest == memory[h] - used_offset
  <1>1. Inv'
    BY MoveBlockInv DEF HInv
  <1>2. /\ UNCHANGED <<size, type, list, unused, memory_top, header_used_count, req,
                       f1, f2, u1, u2, free_size, unlocked_size, used_offset>>
        /\ pc = "move" /\ pc' = "move" /\ cur' = cur + 1 /\ cur <= u2
        /\ memory' = [memory EXCEPT ![h] = dest]
    BY DEF MoveBlock, rangeVars, statVars
  <1>3. /\ f1 \in 1..Len(list) /\ f2 \in 1..Len(list) /\ u1 \in 1..Len(list)
        /\ u2 \in 1..Len(list) /\ Len(list) \in Nat /\ Len(list) > 1
        /\ f1 <= f2 /\ f2 < u1 /\ u1 <= u2 /\ cur \in u1..(u2 + 1)
        /\ used_offset = At(u1) - At(f1) /\ used_offset \in Int
    BY <1>2, MoveFacts
  <1>4. /\ cur \in 1..Len(list) /\ Injective(list) /\ h \in Headers
        /\ memory \in [Headers -> Int] /\ size \in [Headers -> Int]
        /\ ToSet(list) = {list[i] : i \in 1..Len(list)}
        /\ \A i \in 1..Len(list) : list[i] \in Headers
    <2>1. cur \in 1..Len(list)
      BY <1>2, <1>3
    <2> QED BY <2>1, ListFacts
  <1>5. ASSUME NEW i \in 1..Len(list) PROVE At(i)' = At(i) /\ EndAt(i)' = EndAt(i)
    <2>1. CASE i = cur
      <3>1. At(i) = memory[h] + 0
        BY <2>1, <1>2, <1>3 DEF At
      <3>2. At(i)' = memory'[h] + used_offset
        <4>1. u1 <= i /\ i < cur + 1
          BY <2>1, <1>3
        <4> QED BY <4>1, <2>1, <1>2 DEF At
      <3>3. memory'[h] = memory[h] - used_offset /\ memory[h] \in Int
        BY <1>2, <1>4
      <3>4. At(i)' = At(i)
        BY <3>1, <3>2, <3>3, <1>3
      <3> QED BY <3>4, <1>2 DEF EndAt
    <2>2. CASE i # cur
      <3>1. list[i] # h
        BY <2>2, <1>4 DEF Injective
      <3>2. memory'[list[i]] = memory[list[i]]
        BY <3>1, <1>2, <1>4
      <3>3. (u1 <= i /\ i < cur) <=> (u1 <= i /\ i < cur + 1)
        BY <2>2, <1>3
      <3>4. At(i)' = At(i)
        BY <3>2, <3>3, <1>2 DEF At
      <3> QED BY <3>4, <1>2 DEF EndAt
    <2> QED BY <2>1, <2>2
  <1>6. \A g \in ToSet(list) : memory[g] # NULL /\ size[g] >= FreeBlockSize
    BY <1>3, AllBlocks
  <1>7. \A g \in ToSet(list) : memory'[g] # NULL
    <2>1. /\ At(u1) \in Int /\ At(cur) \in Int /\ At(f1) \in Int
          /\ At(f1) >= memory_bottom /\ memory_bottom \in Nat \ {0}
      BY <1>2, <1>3, <1>4, SortedFacts, SlotCount
    <2>2. At(u1) <= At(cur)
      <3>1. CASE cur = u1
        BY <3>1, <2>1
      <3>2. CASE cur # u1
        <4>1. u1 < cur
          BY <3>2, <1>3
        <4>2. EndAt(u1) <= At(cur) /\ EndAt(u1) = At(u1) + size[list[u1]]
              /\ size[list[u1]] \in Int /\ size[list[u1]] >= FreeBlockSize
          BY <4>1, <1>2, <1>3, <1>4, SortedFacts
        <4> QED BY <4>2, <2>1, SizesAssumption
      <3> QED BY <3>1, <3>2
    <2>3. At(cur) = memory[h] + 0 /\ memory[h] \in Int
      BY <1>2, <1>3, <1>4 DEF At
    <2>4. dest >= memory_bottom /\ dest \in Int
      BY <2>1, <2>2, <2>3, <1>3, SMTT(30)
    <2>5. memory'[h] = dest
      BY <1>2, <1>4
    <2>6. memory'[h] # NULL
      BY <2>1, <2>4, <2>5 DEF NULL
    <2>7. ASSUME NEW g \in ToSet(list), g # h PROVE memory'[g] = memory[g]
      BY <2>7, <1>2, <1>4
    <2> QED BY <2>6, <2>7, <1>6
  <1> HIDE DEF dest, h
  <1>8. HandlesListed' /\ BlocksOK' /\ UnusedOK'
    <2>1. HandlesListed'
      BY <1>2 DEF HInv, HandlesListed, Held
    <2>2. BlocksOK'
      BY <1>2, <1>6, <1>7 DEF BlocksOK
    <2>3. UnusedOK'
      BY <1>2, <1>6 DEF HInv, UnusedOK
    <2> QED BY <2>1, <2>2, <2>3
  <1>9. SortedTile'
    <2>1. /\ At(1) = memory_bottom /\ EndAt(Len(list)) = memory_top
          /\ \A i \in 1..(Len(list) - 1) : EndAt(i) = At(i + 1)
      BY <1>2, <1>3, SortedFacts
    <2>2. PICK n \in 1..Len(list) : n = Len(list)
      BY <1>3
    <2>3. EndAt(Len(list))' = EndAt(n)'
      BY <2>2, <1>2 DEF At, EndAt
    <2>4. 1 \in 1..Len(list)
      BY <1>3
    <2>5. \A i \in 1..(Len(list) - 1) : i \in 1..Len(list) /\ i + 1 \in 1..Len(list)
      BY <1>3
    <2>6. ASSUME NEW i \in 1..(Len(list) - 1) PROVE EndAt(i)' = At(i + 1)'
      <3>1. EndAt(i)' = EndAt(i) /\ At(i + 1)' = At(i + 1)
        BY <2>5, <1>5
      <3> QED BY <3>1, <2>1
    <2>7. /\ At(1)' = memory_bottom /\ EndAt(Len(list))' = memory_top
          /\ \A i \in 1..(Len(list) - 1) : EndAt(i)' = At(i + 1)'
      BY <2>1, <2>2, <2>3, <2>4, <2>6, <1>5
    <2> QED BY <2>7, <1>2 DEF SortedTile
  <1>10. SizesOK'
    <2>1. PICK p \in 1..Len(list), q \in 1..Len(list), r \in 1..Len(list),
               s \in 1..Len(list) : p = f1 /\ q = f2 /\ r = u1 /\ s = u2
      BY <1>3
    <2>2. EndAt(f2)' = EndAt(f2) /\ At(f1)' = At(f1) /\ EndAt(u2)' = EndAt(u2)
           /\ At(u1)' = At(u1)
      <3>1. EndAt(f2)' = EndAt(q)' /\ At(f1)' = At(p)' /\ EndAt(u2)' = EndAt(s)'
            /\ At(u1)' = At(r)'
        BY <2>1, <1>2 DEF At, EndAt
      <3> QED BY <3>1, <2>1, <1>5
    <2>3. /\ \A i \in f1..f2 : type[list[i]] = FREE
          /\ free_size = IF f2 < f1 THEN 0 ELSE EndAt(f2) - At(f1)
          /\ unlocked_size = IF u2 < u1 THEN 0 ELSE EndAt(u2) - At(u1)
          /\ u1 = f2 + 1 \/ (unlocked_size <= free_size /\ ~Adjacent)
      BY <1>2 DEF HInv, SizesOK
    <2>4. \A i \in f1'..f2' : type'[list'[i]] = FREE
      BY <2>3, <1>2
    <2>5. /\ free_size' = IF f2' < f1' THEN 0 ELSE EndAt(f2)' - At(f1)'
          /\ unlocked_size' = IF u2' < u1' THEN 0 ELSE EndAt(u2)' - At(u1)'
          /\ used_offset' = At(u1)' - At(f1)'
      BY <2>2, <2>3, <1>2, <1>3
    <2>6. u1' = f2' + 1 \/ (unlocked_size' <= free_size' /\ ~Adjacent')
      BY <2>3, <1>2 DEF Adjacent, TypeAt
    <2>7. cur' <= u2' + 1
      BY <1>2, <1>3
    <2> QED BY <2>4, <2>5, <2>6, <2>7, <1>2 DEF SizesOK
  <1> QED BY <1>1, <1>2, <1>8, <1>9, <1>10 DEF HInv, SlotsOK

-----------------------------------------------------------------------------
(* Relinking the list after a move *)

LEMMA TilesSame ==
    ASSUME NEW S, NEW s \in Seq(S), NEW m, NEW z, NEW mm, NEW zz, NEW a, NEW e,
           Tiles(s, m, z, a, e), \A h \in ToSet(s) : mm[h] = m[h] /\ zz[h] = z[h]
    PROVE  Tiles(s, mm, zz, a, e)
  <1>1. CASE s = <<>>
    BY <1>1 DEF Tiles
  <1>2. CASE s # <<>>
    <2>1. \A i \in 1..Len(s) : s[i] \in ToSet(s)
      BY DEF ToSet
    <2>2. Len(s) \in Nat /\ Len(s) >= 1
      BY <1>2
    <2>3. \A i \in 1..Len(s) : mm[s[i]] = m[s[i]] /\ zz[s[i]] = z[s[i]]
      BY <2>1
    <2>4. 1 \in 1..Len(s) /\ Len(s) \in 1..Len(s)
          /\ \A i \in 1..(Len(s) - 1) : i \in 1..Len(s) /\ i + 1 \in 1..Len(s)
      BY <2>2
    <2> QED BY <1>2, <2>3, <2>4 DEF Tiles
  <1> QED BY <1>1, <1>2

\* The five parts of the list have no header in common.
LEMMA PartsHeap ==
    ASSUME HInv, pc = "move"
    PROVE  /\ Before \in Seq(Headers) /\ Between \in Seq(Headers)
           /\ Unlocked \in Seq(Headers) /\ After \in Seq(Headers)
           /\ Injective(Before) /\ Injective(Between) /\ Injective(Unlocked)
           /\ Injective(After)
           /\ ToSet(Before) = {list[i] : i \in 1..(f1 - 1)}
           /\ ToSet(Between) = {list[i] : i \in (f2 + 1)..(u1 - 1)}
           /\ ToSet(Unlocked) = {list[i] : i \in u1..u2}
           /\ ToSet(After) = {list[i] : i \in (u2 + 1)..Len(list)}
           /\ ToSet(Before) \cap ToSet(Unlocked) = {}
           /\ ToSet(Before) \cap ToSet(Between) = {}
           /\ ToSet(Before) \cap ToSet(After) = {}
           /\ ToSet(Unlocked) \cap ToSet(Between) = {}
           /\ ToSet(Unlocked) \cap ToSet(After) = {}
           /\ ToSet(Between) \cap ToSet(After) = {}
           /\ list[f1] \notin ToSet(Before) \cup ToSet(Unlocked) \cup ToSet(Between)
                               \cup ToSet(After)
           /\ ToSet(list) = ToSet(Before) \cup {list[i] : i \in f1..f2} \cup ToSet(Between)
                               \cup ToSet(Unlocked) \cup ToSet(After)
           /\ u1 = f2 + 1 => ToSet(Between) = {}
           /\ list[u2] \in ToSet(Unlocked)
  <1>1. /\ f1 \in 1..Len(list) /\ f2 \in 1..Len(list) /\ u1 \in 1..Len(list)
        /\ u2 \in 1..Len(list) /\ Len(list) \in Nat /\ Len(list) > 1
        /\ f1 <= f2 /\ f2 < u1 /\ u1 <= u2
    BY MoveFacts
  <1>2. list \in Seq(Headers) /\ Injective(list) /\ ToSet(list) = {list[i] : i \in 1..Len(list)}
    BY ListFacts
  <1>3. Before \in Seq(Headers) /\ Injective(Before)
        /\ ToSet(Before) = {list[i] : i \in 1..(f1 - 1)}
    <2>1. 1 \in Nat \ {0} /\ f1 - 1 \in Int /\ f1 - 1 <= Len(list)
      BY <1>1
    <2>2. PICK p \in Nat \ {0}, q \in Int : p = 1 /\ q = f1 - 1 /\ q <= Len(list)
      BY <2>1
    <2>3. /\ SubSeq(list, p, q) \in Seq(Headers) /\ Injective(SubSeq(list, p, q))
          /\ ToSet(SubSeq(list, p, q)) = {list[i] : i \in p..q}
      BY <2>2, <1>2, SubSeqParts
    <2> QED BY <2>2, <2>3 DEF Before
  <1>4. Between \in Seq(Headers) /\ Injective(Between)
        /\ ToSet(Between) = {list[i] : i \in (f2 + 1)..(u1 - 1)}
    BY <1>1, <1>2, SubSeqParts DEF Between
  <1>5. Unlocked \in Seq(Headers) /\ Injective(Unlocked)
        /\ ToSet(Unlocked) = {list[i] : i \in u1..u2}
    BY <1>1, <1>2, SubSeqParts DEF Unlocked
  <1>6. After \in Seq(Headers) /\ Injective(After)
        /\ ToSet(After) = {list[i] : i \in (u2 + 1)..Len(list)}
    BY <1>1, <1>2, SubSeqParts DEF After
  <1> DEFINE b == 1..(f1 - 1)
             f == f1..f2
             m == (f2 + 1)..(u1 - 1)
             u == u1..u2
             a == (u2 + 1)..Len(list)
  <1>7. /\ b \in SUBSET (1..Len(list)) /\ f \in SUBSET (1..Len(list))
        /\ m \in SUBSET (1..Len(list)) /\ u \in SUBSET (1..Len(list))
        /\ a \in SUBSET (1..Len(list))
        /\ b \cap u = {} /\ b \cap m = {} /\ b \cap a = {} /\ u \cap m = {}
        /\ u \cap a = {} /\ m \cap a = {} /\ b \cap f = {} /\ u \cap f = {}
        /\ m \cap f = {} /\ a \cap f = {} /\ f1 \in f /\ u2 \in u
    BY <1>1
  <1>8. 1..Len(list) = b \cup f \cup m \cup u \cup a
    BY <1>1
  <1>9. u1 = f2 + 1 => m = {}
    BY <1>1
  <1> HIDE DEF b, f, m, u, a
  <1>10. /\ ToSet(Before) = {list[i] : i \in b} /\ ToSet(Between) = {list[i] : i \in m}
         /\ ToSet(Unlocked) = {list[i] : i \in u} /\ ToSet(After) = {list[i] : i \in a}
    BY <1>3, <1>4, <1>5, <1>6 DEF b, m, u, a
  <1>11. /\ ToSet(Before) \cap ToSet(Unlocked) = {}
         /\ ToSet(Before) \cap ToSet(Between) = {}
         /\ ToSet(Before) \cap ToSet(After) = {}
         /\ ToSet(Unlocked) \cap ToSet(Between) = {}
         /\ ToSet(Unlocked) \cap ToSet(After) = {}
         /\ ToSet(Between) \cap ToSet(After) = {}
    BY <1>1, <1>2, <1>7, <1>10, RangesDisjoint
  <1>12. list[f1] \notin ToSet(Before) \cup ToSet(Unlocked) \cup ToSet(Between)
                              \cup ToSet(After)
    <2>1. {list[i] : i \in b} \cap {list[i] : i \in f} = {}
      BY <1>1, <1>2, <1>7, RangesDisjoint
    <2>2. {list[i] : i \in u} \cap {list[i] : i \in f} = {}
      BY <1>1, <1>2, <1>7, RangesDisjoint
    <2>3. {list[i] : i \in m} \cap {list[i] : i \in f} = {}
      BY <1>1, <1>2, <1>7, RangesDisjoint
    <2>4. {list[i] : i \in a} \cap {list[i] : i \in f} = {}
      BY <1>1, <1>2, <1>7, RangesDisjoint
    <2>5. list[f1] \in {list[i] : i \in f}
      BY <1>7
    <2> QED BY <2>1, <2>2, <2>3, <2>4, <2>5, <1>10
  <1>13. ToSet(list) = ToSet(Before) \cup {list[i] : i \in f} \cup ToSet(Between)
                               \cup ToSet(Unlocked) \cup ToSet(After)
    BY <1>2, <1>8, <1>10
  <1>14. list[u2] \in ToSet(Unlocked) /\ (u1 = f2 + 1 => ToSet(Between) = {})
    BY <1>7, <1>9, <1>10
  <1> QED BY <1>3, <1>4, <1>5, <1>6, <1>11, <1>12, <1>13, <1>14 DEF f

\* When the move is done, each part covers its piece of the heap.
LEMMA PartsTile ==
    ASSUME HInv, MoveDone
    PROVE  /\ Tiles(Before, memory, size, memory_bottom, At(f1))
           /\ Tiles(Unlocked, memory, size, At(f1), At(f1) + unlocked_size)
           /\ Tiles(Between, memory, size, EndAt(f2), At(u1))
           /\ Tiles(After, memory, size, EndAt(u2), memory_top)
           /\ memory[list[u1]] = At(f1) /\ memory[list[f1]] = At(f1)
           /\ \A i \in u1..u2 : memory[list[i]] = At(i) - used_offset
           /\ At(f1) >= memory_bottom /\ At(f1) \in Int /\ At(u1) \in Int
           /\ EndAt(f2) \in Int /\ EndAt(u2) \in Int
           /\ free_size >= FreeBlockSize /\ unlocked_size >= FreeBlockSize
           /\ At(f1) + free_size = EndAt(f2) /\ At(u1) + unlocked_size = EndAt(u2)
           /\ EndAt(f2) = At(f2 + 1) /\ At(u1) >= EndAt(f2)
  <1> DEFINE n == Len(list)
             g == [i \in 1..n |-> At(i)]
             w == [i \in 1..n |-> size[list[i]]]
  <1>1. /\ f1 \in 1..n /\ f2 \in 1..n /\ u1 \in 1..n
        /\ u2 \in 1..n /\ n \in Nat /\ n > 1
        /\ f1 <= f2 /\ f2 < u1 /\ u1 <= u2 /\ cur \in u1..(u2 + 1)
        /\ free_size = EndAt(f2) - At(f1) /\ unlocked_size = EndAt(u2) - At(u1)
        /\ used_offset = At(u1) - At(f1) /\ used_offset \in Int
        /\ pc = "move" /\ cur = u2 + 1
        /\ list \in Seq(Headers)
    <2>1. pc = "move" /\ cur > u2
      BY DEF MoveDone
    <2>2. u2 \in Int /\ cur \in u1..(u2 + 1) /\ u1 \in Int
      BY <2>1, MoveFacts
    <2>3. cur = u2 + 1
      BY <2>1, <2>2
    <2> QED BY <2>1, <2>3, MoveFacts, ListFacts
  <1>2. /\ \A i \in 1..n :
                /\ At(i) \in Int /\ EndAt(i) = At(i) + size[list[i]]
                /\ size[list[i]] \in Int /\ size[list[i]] >= FreeBlockSize
                /\ At(i) >= memory_bottom /\ EndAt(i) <= memory_top
                /\ memory[list[i]] # NULL
        /\ \A i, j \in 1..n : i < j => EndAt(i) <= At(j)
        /\ \A i \in 1..(n - 1) : EndAt(i) = At(i + 1)
        /\ At(1) = memory_bottom /\ EndAt(n) = memory_top
    BY <1>1, SortedFacts
  <1>3. g \in [1..n -> Int] /\ w \in [1..n -> Int]
        /\ \A i \in 1..n : g[i] = At(i) /\ w[i] = size[list[i]] /\ EndAt(i) = g[i] + w[i]
    BY <1>2
  <1>4. \A i \in 1..n : memory[list[i]] \in Int
    BY ListFacts
  <1>5. ASSUME NEW i \in 1..n, i < u1 \/ i > u2 PROVE memory[list[i]] = g[i] + 0
    <2>1. ~(u1 <= i /\ i < cur)
      BY <1>1, <1>5
    <2> QED BY <2>1, <1>3, <1>4 DEF At
  <1>6. ASSUME NEW i \in u1..u2 PROVE memory[list[i]] = g[i] + (-used_offset) /\ i \in 1..n
    <2>1. u1 <= i /\ i < cur /\ i \in 1..n
      BY <1>1
    <2>2. At(i) = memory[list[i]] + used_offset
      BY <2>1, <1>1 DEF At
    <2> QED BY <2>1, <2>2, <1>1, <1>3, <1>4, SMTT(30)
  <1>7. ASSUME NEW i \in 1..(n - 1) PROVE g[i] + w[i] = g[i + 1]
    <2>1. i \in 1..n /\ i + 1 \in 1..n
      BY <1>1
    <2> QED BY <2>1, <1>2, <1>3
  <1> HIDE DEF n, g, w
  <1>8. Tiles(Before, memory, size, memory_bottom, At(f1))
    <2>1. \A i \in 1..(f1 - 1) : memory[list[i]] = g[i] + 0 /\ size[list[i]] = w[i]
      <3> SUFFICES ASSUME NEW i \in 1..(f1 - 1)
                   PROVE  memory[list[i]] = g[i] + 0 /\ size[list[i]] = w[i]
        OBVIOUS
      <3>1. i \in 1..n /\ i < u1
        BY <1>1
      <3> QED BY <3>1, <1>3, <1>5
    <2>2. \A i \in 1..((f1 - 1) - 1) : g[i] + w[i] = g[i + 1]
      BY <1>1, <1>7
    <2>3. 1 <= f1 - 1 => memory_bottom = g[1] + 0 /\ At(f1) = g[f1 - 1] + w[f1 - 1] + 0
      <3> SUFFICES ASSUME 1 <= f1 - 1
                   PROVE  memory_bottom = g[1] + 0 /\ At(f1) = g[f1 - 1] + w[f1 - 1] + 0
        OBVIOUS
      <3>1. f1 - 1 \in 1..(n - 1) /\ f1 - 1 \in 1..n /\ (f1 - 1) + 1 = f1 /\ 1 \in 1..n
        BY <1>1
      <3>2. g[f1 - 1] + w[f1 - 1] = g[f1] /\ g[1] = memory_bottom /\ g[f1] = At(f1)
            /\ g[f1] \in Int /\ g[1] \in Int
        BY <3>1, <1>1, <1>2, <1>3, <1>7
      <3> QED BY <3>1, <3>2
    <2>4. 1 > f1 - 1 => memory_bottom = At(f1)
      <3> SUFFICES ASSUME 1 > f1 - 1 PROVE memory_bottom = At(f1)
        OBVIOUS
      <3>1. f1 = 1
        BY <1>1
      <3> QED BY <3>1, <1>2
    <2>5. f1 - 1 \in Int /\ f1 - 1 <= Len(list) /\ 1 \in Nat \ {0} /\ 0 \in Int
      BY <1>1 DEF n
    <2>9. Laid(Headers, list, 1, f1 - 1, memory, size, g, w, 0, memory_bottom, At(f1))
      BY <1>1, <1>3, <2>1, <2>2, <2>3, <2>4, <2>5 DEF Laid, n
    <2> QED BY <2>9, TilesPart DEF Before, n
  <1>9. Tiles(Unlocked, memory, size, At(f1), At(f1) + unlocked_size)
    <2>1. \A i \in u1..u2 : memory[list[i]] = g[i] + (-used_offset) /\ size[list[i]] = w[i]
      BY <1>3, <1>6
    <2>2. \A i \in u1..(u2 - 1) : g[i] + w[i] = g[i + 1]
      BY <1>1, <1>7
    <2>3. At(f1) = g[u1] + (-used_offset)
          /\ At(f1) + unlocked_size = g[u2] + w[u2] + (-used_offset)
      <3>1. At(u1) = g[u1] /\ EndAt(u2) = g[u2] + w[u2] /\ At(f1) = g[f1]
            /\ g[u1] \in Int /\ g[u2] \in Int /\ w[u2] \in Int /\ g[f1] \in Int
        BY <1>1, <1>3
      <3>2. used_offset = g[u1] - g[f1] /\ unlocked_size = g[u2] + w[u2] - g[u1]
        BY <3>1, <1>1
      <3> QED BY <3>1, <3>2
    <2>5. u1 \in Nat \ {0} /\ u2 \in Int /\ u2 <= Len(list) /\ -used_offset \in Int
          /\ ~(u1 > u2)
      BY <1>1 DEF n
    <2>9. Laid(Headers, list, u1, u2, memory, size, g, w, -used_offset,
              At(f1), At(f1) + unlocked_size)
      BY <1>1, <1>3, <2>1, <2>2, <2>3, <2>5 DEF Laid, n
    <2> QED BY <2>9, TilesPart DEF Unlocked, n
  <1>10. Tiles(Between, memory, size, EndAt(f2), At(u1))
    <2>1. \A i \in (f2 + 1)..(u1 - 1) : memory[list[i]] = g[i] + 0 /\ size[list[i]] = w[i]
      <3> SUFFICES ASSUME NEW i \in (f2 + 1)..(u1 - 1)
                   PROVE  memory[list[i]] = g[i] + 0 /\ size[list[i]] = w[i]
        OBVIOUS
      <3>1. i \in 1..n /\ i < u1
        BY <1>1
      <3> QED BY <3>1, <1>3, <1>5
    <2>2. \A i \in (f2 + 1)..((u1 - 1) - 1) : g[i] + w[i] = g[i + 1]
      BY <1>1, <1>7
    <2>3. f2 \in 1..(n - 1) /\ u1 - 1 \in 1..(n - 1) /\ (u1 - 1) + 1 = u1
          /\ f2 + 1 \in 1..n /\ u1 - 1 \in 1..n
      BY <1>1
    <2>4. /\ EndAt(f2) = g[f2 + 1] + 0 /\ At(u1) = g[u1 - 1] + w[u1 - 1] + 0
      <3>1. g[f2] + w[f2] = g[f2 + 1] /\ g[u1 - 1] + w[u1 - 1] = g[u1]
            /\ EndAt(f2) = g[f2] + w[f2] /\ At(u1) = g[u1]
            /\ g[f2 + 1] \in Int /\ g[u1] \in Int
        BY <2>3, <1>1, <1>3, <1>7
      <3> QED BY <3>1
    <2>5. f2 + 1 > u1 - 1 => EndAt(f2) = At(u1)
      <3> SUFFICES ASSUME f2 + 1 > u1 - 1 PROVE EndAt(f2) = At(u1)
        OBVIOUS
      <3>1. u1 = f2 + 1
        BY <1>1
      <3> QED BY <3>1, <2>3, <1>2
    <2>6. f2 + 1 \in Nat \ {0} /\ u1 - 1 \in Int /\ u1 - 1 <= Len(list) /\ 0 \in Int
      BY <1>1 DEF n
    <2>9. Laid(Headers, list, f2 + 1, u1 - 1, memory, size, g, w, 0, EndAt(f2), At(u1))
      BY <1>1, <1>3, <2>1, <2>2, <2>4, <2>5, <2>6 DEF Laid, n
    <2> QED BY <2>9, TilesPart DEF Between, n
  <1>11. Tiles(After, memory, size, EndAt(u2), memory_top)
    <2>1. \A i \in (u2 + 1)..n : memory[list[i]] = g[i] + 0 /\ size[list[i]] = w[i]
      <3> SUFFICES ASSUME NEW i \in (u2 + 1)..n
                   PROVE  memory[list[i]] = g[i] + 0 /\ size[list[i]] = w[i]
        OBVIOUS
      <3>1. i \in 1..n /\ i > u2
        BY <1>1
      <3> QED BY <3>1, <1>3, <1>5
    <2>2. \A i \in (u2 + 1)..(n - 1) : g[i] + w[i] = g[i + 1]
      BY <1>1, <1>7
    <2>3. u2 + 1 <= n => EndAt(u2) = g[u2 + 1] + 0 /\ memory_top = g[n] + w[n] + 0
      <3> SUFFICES ASSUME u2 + 1 <= n
                   PROVE  EndAt(u2) = g[u2 + 1] + 0 /\ memory_top = g[n] + w[n] + 0
        OBVIOUS
      <3>1. u2 \in 1..(n - 1) /\ n \in 1..n /\ u2 + 1 \in 1..n
        BY <1>1
      <3>2. g[u2] + w[u2] = g[u2 + 1] /\ EndAt(u2) = g[u2] + w[u2] /\ EndAt(n) = g[n] + w[n]
            /\ g[u2 + 1] \in Int /\ EndAt(n) = memory_top
            /\ g[n] \in Int /\ w[n] \in Int
        BY <3>1, <1>1, <1>2, <1>3, <1>7
      <3> QED BY <3>2
    <2>4. u2 + 1 > n => EndAt(u2) = memory_top
      <3> SUFFICES ASSUME u2 + 1 > n PROVE EndAt(u2) = memory_top
        OBVIOUS
      <3>1. u2 = n
        BY <1>1
      <3> QED BY <3>1, <1>2
    <2>5. u2 + 1 \in Nat \ {0} /\ n \in Int /\ n <= Len(list) /\ 0 \in Int
      BY <1>1 DEF n
    <2>9. Laid(Headers, list, u2 + 1, n, memory, size, g, w, 0, EndAt(u2), memory_top)
      BY <1>1, <1>3, <2>1, <2>2, <2>3, <2>4, <2>5 DEF Laid, n
    <2> QED BY <2>9, TilesPart DEF After, n
  <1>12. /\ At(f1) \in Int /\ At(u1) \in Int /\ EndAt(f2) \in Int /\ EndAt(u2) \in Int
         /\ At(f1) >= memory_bottom /\ EndAt(f2) <= At(u1)
    <2>1. /\ At(f1) \in Int /\ At(u1) \in Int /\ At(f2) \in Int /\ At(u2) \in Int
          /\ size[list[f2]] \in Int /\ size[list[u2]] \in Int /\ At(f1) >= memory_bottom
          /\ EndAt(f2) = At(f2) + size[list[f2]] /\ EndAt(u2) = At(u2) + size[list[u2]]
          /\ EndAt(f2) <= At(u1)
      BY <1>1, <1>2
    <2> QED BY <2>1
  <1>13. memory[list[u1]] = At(f1) /\ memory[list[f1]] = At(f1)
    <2>1. u1 \in u1..u2 /\ f1 < u1
      BY <1>1
    <2>2. memory[list[u1]] = g[u1] + (-used_offset) /\ memory[list[f1]] = g[f1] + 0
      BY <2>1, <1>1, <1>5, <1>6
    <2>3. g[u1] = At(u1) /\ g[f1] = At(f1) /\ used_offset = At(u1) - At(f1)
      BY <1>1, <1>3
    <2> QED BY <2>2, <2>3, <1>12
  <1>14. free_size >= FreeBlockSize /\ unlocked_size >= FreeBlockSize
    <2>1. ASSUME NEW i \in 1..n, NEW j \in 1..n, i <= j
          PROVE  EndAt(j) - At(i) >= FreeBlockSize
      <3>1. /\ At(i) \in Int /\ At(j) \in Int /\ size[list[j]] \in Int
            /\ size[list[i]] \in Int /\ size[list[j]] >= FreeBlockSize
            /\ size[list[i]] >= FreeBlockSize /\ FreeBlockSize \in Nat
            /\ EndAt(i) = At(i) + size[list[i]] /\ EndAt(j) = At(j) + size[list[j]]
        BY <1>2, SizesAssumption
      <3>2. CASE i = j
        BY <3>1, <3>2
      <3>3. CASE i # j
        <4>1. EndAt(i) <= At(j)
          BY <3>3, <2>1, <1>2, <1>1
        <4> QED BY <3>1, <4>1
      <3> QED BY <3>2, <3>3
    <2> QED BY <2>1, <1>1
  <1>15. \A i \in u1..u2 : memory[list[i]] = At(i) - used_offset
    <2> SUFFICES ASSUME NEW i \in u1..u2 PROVE memory[list[i]] = At(i) - used_offset
      OBVIOUS
    <2>1. memory[list[i]] = g[i] + (-used_offset) /\ i \in 1..n
      BY <1>6
    <2>2. g[i] = At(i) /\ At(i) \in Int
      BY <2>1, <1>2, <1>3
    <2> QED BY <2>1, <2>2, <1>1
  <1>16. At(f1) + free_size = EndAt(f2) /\ At(u1) + unlocked_size = EndAt(u2)
         /\ EndAt(f2) = At(f2 + 1)
    <2>1. f2 \in 1..(n - 1)
      BY <1>1
    <2>2. EndAt(f2) = At(f2 + 1)
      BY <2>1, <1>2
    <2>3. free_size = EndAt(f2) - At(f1) /\ unlocked_size = EndAt(u2) - At(u1)
      BY <1>1
    <2> QED BY <2>2, <2>3, <1>12
  <1> QED BY <1>8, <1>9, <1>10, <1>11, <1>12, <1>13, <1>14, <1>15, <1>16

\* Two lists that follow each other in the heap, and a list and one more header.
LEMMA Join ==
    ASSUME NEW s \in Seq(Headers), NEW t \in Seq(Headers), NEW m, NEW z,
           NEW a, NEW b, NEW e, Tiles(s, m, z, a, b), Tiles(t, m, z, b, e),
           Injective(s), Injective(t), ToSet(s) \cap ToSet(t) = {}
    PROVE  /\ s \o t \in Seq(Headers) /\ Injective(s \o t)
           /\ ToSet(s \o t) = ToSet(s) \cup ToSet(t)
           /\ Tiles(s \o t, m, z, a, e)
  BY ConcatParts, TilesConcat, ZenonT(60)

LEMMA JoinOne ==
    ASSUME NEW s \in Seq(Headers), NEW h \in Headers, NEW m, NEW z,
           NEW a, NEW b, NEW e, Tiles(s, m, z, a, b), m[h] = b, m[h] + z[h] = e,
           Injective(s), h \notin ToSet(s)
    PROVE  /\ s \o <<h>> \in Seq(Headers) /\ Injective(s \o <<h>>)
           /\ ToSet(s \o <<h>>) = ToSet(s) \cup {h}
           /\ Tiles(s \o <<h>>, m, z, a, e)
  <1> DEFINE t == <<h>>
  <1>1. t \in Seq(Headers) /\ Len(t) = 1 /\ t[1] = h
    OBVIOUS
  <1>2. ToSet(t) = {h} /\ Injective(t)
    BY <1>1 DEF ToSet, Injective
  <1>3. Tiles(t, m, z, b, e)
    BY TilesOne
  <1>4. ToSet(s) \cap ToSet(t) = {}
    BY <1>2
  <1> HIDE DEF t
  <1>5. /\ s \o t \in Seq(Headers) /\ Injective(s \o t)
        /\ ToSet(s \o t) = ToSet(s) \cup ToSet(t)
        /\ Tiles(s \o t, m, z, a, e)
    BY <1>1, <1>2, <1>3, <1>4, Join, Zenon
  <1> QED BY <1>2, <1>5 DEF t

\* What is left to show of a relinked list.
LEMMA RelinkHeap ==
    ASSUME HInv, pc = "move", NextPass, Recycle, Inv', Injective(list'),
           {h \in ToSet(list') : type'[h] # FREE} = {h \in ToSet(list) : type[h] # FREE},
           \A h \in ToSet(list') : memory'[h] # NULL /\ size'[h] >= FreeBlockSize,
           Tiles(list', memory', size', memory_bottom, memory_top)
    PROVE  HInv'
  <1>1. /\ pc' = "pass" /\ free_size' = 0
        /\ UNCHANGED <<header_used_count, memory_top, req>>
    BY DEF NextPass, NoRange, clientVars
  <1>2. unused' = <<>>
    BY DEF Recycle, SetUnused
  <1>3. /\ memory' \in [Headers -> Int] /\ size' \in [Headers -> Int]
        /\ list' \in Seq(Headers) /\ list' # <<>>
    BY DEF Inv, TypeOK
  <1>4. HandlesListed'
    <2>1. {h \in ToSet(list') : type'[h] # FREE} = Held'
          /\ header_used_count' = Cardinality(Held')
      <3>1. Held' = Held
        BY <1>1 DEF Held
      <3>2. {h \in ToSet(list) : type[h] # FREE} = Held
            /\ header_used_count = Cardinality(Held)
        BY DEF HInv, HandlesListed
      <3> QED BY <3>1, <3>2, <1>1
    <2>2. \A i, j \in DOMAIN list' : list'[i] = list'[j] => i = j
      <3>1. DOMAIN list' = 1..Len(list')
        BY <1>3
      <3> QED BY <3>1 DEF Injective
    <2> QED BY <2>1, <2>2 DEF HandlesListed
  <1>5. BlocksOK' /\ UnusedOK'
    <2>1. BlocksOK'
      BY DEF BlocksOK
    <2>2. Len(unused') <= 1 /\ ToSet(unused') = {}
      BY <1>2 DEF ToSet
    <2> QED BY <2>1, <2>2 DEF UnusedOK
  <1>6. SortedTile'
    <2>1. Len(list') \in Nat /\ Len(list') >= 1
      BY <1>3
    <2>2. \A i \in 1..Len(list') : list'[i] \in Headers
      BY <1>3
    <2>3. \A i \in 1..Len(list') : memory'[list'[i]] + 0 = memory'[list'[i]]
      BY <2>2, <1>3
    <2>4. /\ memory'[list'[1]] = memory_bottom
          /\ memory'[list'[Len(list')]] + size'[list'[Len(list')]] = memory_top
          /\ \A i \in 1..(Len(list') - 1) :
                memory'[list'[i]] + size'[list'[i]] = memory'[list'[i + 1]]
      BY <1>3 DEF Tiles
    <2>5. 1 \in 1..Len(list') /\ Len(list') \in 1..Len(list')
          /\ \A i \in 1..(Len(list') - 1) : i \in 1..Len(list') /\ i + 1 \in 1..Len(list')
      BY <2>1
    <2> QED BY <2>3, <2>4, <2>5, <1>1 DEF SortedTile, At, EndAt
  <1>7. SizesOK'
    BY <1>1 DEF SizesOK
  <1> QED BY <1>1, <1>4, <1>5, <1>6, <1>7 DEF HInv, SlotsOK

LEMMA RelinkAdjacentHeap ==
    ASSUME HInv, RelinkAdjacent
    PROVE  HInv'
  <1> DEFINE f == list[f1]
             c1 == Before \o Unlocked
             c2 == c1 \o <<f>>
             c3 == c2 \o After
  <1>1. /\ MoveDone /\ pc = "move" /\ u1 = f2 + 1 /\ Recycle /\ NextPass
        /\ memory' = [memory EXCEPT ![f] = memory[f] + unlocked_size]
        /\ size' = [size EXCEPT ![f] = free_size]
        /\ list' = c3 /\ type' = type
    BY DEF RelinkAdjacent, MoveDone
  <1>2. Inv'
    BY RelinkAdjacentInv DEF HInv
  <1>3. /\ Before \in Seq(Headers) /\ Unlocked \in Seq(Headers) /\ After \in Seq(Headers)
        /\ Injective(Before) /\ Injective(Unlocked) /\ Injective(After)
        /\ ToSet(Before) \cap ToSet(Unlocked) = {} /\ ToSet(Before) \cap ToSet(After) = {}
        /\ ToSet(Unlocked) \cap ToSet(After) = {}
        /\ f \notin ToSet(Before) \cup ToSet(Unlocked) \cup ToSet(After)
        /\ ToSet(list) = ToSet(Before) \cup {list[i] : i \in f1..f2}
                            \cup ToSet(Unlocked) \cup ToSet(After)
    BY <1>1, PartsHeap
  <1>4. /\ Tiles(Before, memory, size, memory_bottom, At(f1))
        /\ Tiles(Unlocked, memory, size, At(f1), At(f1) + unlocked_size)
        /\ Tiles(After, memory, size, EndAt(u2), memory_top)
        /\ memory[f] = At(f1) /\ At(f1) >= memory_bottom
        /\ At(f1) \in Int /\ At(u1) \in Int /\ EndAt(f2) \in Int /\ EndAt(u2) \in Int
        /\ free_size >= FreeBlockSize /\ unlocked_size >= FreeBlockSize
        /\ At(f1) + free_size = EndAt(f2) /\ At(u1) + unlocked_size = EndAt(u2)
        /\ EndAt(f2) = At(u1)
    BY <1>1, PartsTile
  <1>5. /\ f1 \in 1..Len(list) /\ f1 <= f2 /\ \A i \in f1..f2 : type[list[i]] = FREE
        /\ free_size \in Int /\ unlocked_size \in Int /\ Len(list) > 1
        /\ f1 \in Int /\ f2 \in Int
    BY <1>1, MoveFacts
  <1>6. f \in Headers /\ memory \in [Headers -> Int] /\ size \in [Headers -> Int]
        /\ ToSet(list) \subseteq Headers
    BY <1>5, ListFacts
  <1>7. \A h \in ToSet(list) : memory[h] # NULL /\ size[h] >= FreeBlockSize
    BY <1>5, AllBlocks
  <1> HIDE DEF f, c1, c2, c3
  <1>8. /\ memory'[f] = At(f1) + unlocked_size /\ size'[f] = free_size
        /\ memory'[f] + size'[f] = EndAt(u2)
    <2>1. memory'[f] = At(f1) + unlocked_size /\ size'[f] = free_size
      BY <1>1, <1>4, <1>6
    <2> QED BY <2>1, <1>4, <1>5
  <1>9. \A h \in ToSet(Before) \cup ToSet(Unlocked) \cup ToSet(After) :
            h # f /\ h \in Headers /\ memory'[h] = memory[h] /\ size'[h] = size[h]
    BY <1>1, <1>3, <1>6
  <1>10. /\ Tiles(Before, memory', size', memory_bottom, At(f1))
         /\ Tiles(Unlocked, memory', size', At(f1), At(f1) + unlocked_size)
         /\ Tiles(After, memory', size', EndAt(u2), memory_top)
    BY <1>3, <1>4, <1>9, TilesSame
  <1>11. /\ c1 \in Seq(Headers) /\ Injective(c1)
         /\ ToSet(c1) = ToSet(Before) \cup ToSet(Unlocked)
         /\ Tiles(c1, memory', size', memory_bottom, At(f1) + unlocked_size)
    BY <1>3, <1>10, Join, Zenon DEF c1
  <1>12. /\ c2 \in Seq(Headers) /\ Injective(c2) /\ ToSet(c2) = ToSet(c1) \cup {f}
         /\ Tiles(c2, memory', size', memory_bottom, EndAt(u2))
    <2>1. f \notin ToSet(c1)
      BY <1>3, <1>11
    <2> QED BY <2>1, <1>6, <1>8, <1>11, JoinOne, Zenon DEF c2
  <1>13. /\ c3 \in Seq(Headers) /\ Injective(c3) /\ ToSet(c3) = ToSet(c2) \cup ToSet(After)
         /\ Tiles(c3, memory', size', memory_bottom, memory_top)
    <2>1. ToSet(c2) \cap ToSet(After) = {}
      BY <1>3, <1>11, <1>12
    <2> QED BY <2>1, <1>3, <1>10, <1>12, Join, Zenon DEF c3
  <1>14. ToSet(list') = ToSet(Before) \cup ToSet(Unlocked) \cup {f} \cup ToSet(After)
    BY <1>1, <1>11, <1>12, <1>13
  <1>15. {h \in ToSet(list') : type'[h] # FREE} = {h \in ToSet(list) : type[h] # FREE}
    <2>1. type[f] = FREE /\ \A h \in {list[i] : i \in f1..f2} : type[h] = FREE
      BY <1>5 DEF f
    <2> QED BY <2>1, <1>1, <1>3, <1>14
  <1>16. \A h \in ToSet(list') : memory'[h] # NULL /\ size'[h] >= FreeBlockSize
    <2>1. memory'[f] # NULL /\ size'[f] >= FreeBlockSize
      BY <1>4, <1>5, <1>8, SlotCount, SizesAssumption DEF NULL
    <2> QED BY <2>1, <1>3, <1>7, <1>9, <1>14
  <1> QED BY <1>1, <1>2, <1>13, <1>15, <1>16, RelinkHeap

\* The spare header is none of those that stay in the list.
LEMMA SpareFresh ==
    ASSUME HInv, pc = "move", ~SpareAliased
    PROVE  LET spare == header_bottom + 1
           IN  /\ spare \notin ToSet(Before) \cup ToSet(Unlocked) \cup ToSet(Between)
                                  \cup ToSet(After)
               /\ spare # list[f1]
               /\ spare \in ToSet(list) => type[spare] = FREE
  <1>1. /\ f1 \in Int /\ f2 \in Int /\ u1 \in Int /\ u2 \in Int /\ Len(list) \in Nat
        /\ f1 >= 1 /\ f1 <= Len(list) /\ f2 >= f1 /\ f2 <= Len(list)
        /\ u1 > f2 /\ u1 <= Len(list) /\ u2 >= u1 /\ u2 <= Len(list)
    BY RangesInMove DEF HInv
  <1>2. list \in Seq(Headers) /\ DOMAIN list = 1..Len(list)
    BY ListType DEF HInv, Inv
  <1>3. ASSUME NEW m \in Int, NEW n \in Int, m >= 1, n <= Len(list), m <= n + 1,
               \A i \in m..n : i \notin (f1 + 1)..f2
        PROVE  header_bottom + 1 \notin ToSet(SubSeq(list, m, n))
    <2>1. ASSUME NEW g \in ToSet(SubSeq(list, m, n)) PROVE \E i \in m..n : g = list[i]
      <3>1. PICK j \in DOMAIN SubSeq(list, m, n) : g = SubSeq(list, m, n)[j]
        BY DEF ToSet
      <3>2. j \in 1..(n - m + 1) /\ SubSeq(list, m, n)[j] = list[m + j - 1]
        BY <1>1, <1>2, <1>3, <3>1
      <3>3. m + j - 1 \in m..n
        BY <3>2
      <3> QED BY <3>1, <3>2, <3>3
    <2>2. ASSUME NEW i \in m..n PROVE list[i] # header_bottom + 1
      <3>1. i \in DOMAIN list
        BY <1>1, <1>2, <1>3
      <3>2. i \in DOMAIN list \ ((f1 + 1)..f2)
        BY <1>3, <3>1
      <3> QED BY <3>2 DEF SpareAliased
    <2> QED BY <2>1, <2>2
  <1>4. header_bottom + 1 \notin ToSet(Before)
    BY <1>1, <1>3 DEF Before
  <1>5. header_bottom + 1 \notin ToSet(Unlocked)
    BY <1>1, <1>3 DEF Unlocked
  <1>6. header_bottom + 1 \notin ToSet(Between)
    BY <1>1, <1>3 DEF Between
  <1>7. header_bottom + 1 \notin ToSet(After)
    BY <1>1, <1>3 DEF After
  <1>8. header_bottom + 1 # list[f1]
    BY <1>1, <1>2 DEF SpareAliased
  <1>9. ASSUME header_bottom + 1 \in ToSet(list) PROVE type[header_bottom + 1] = FREE
    <2>1. PICK i \in DOMAIN list : header_bottom + 1 = list[i]
      BY <1>9 DEF ToSet
    <2>2. i \in (f1 + 1)..f2
      BY <2>1 DEF SpareAliased
    <2>3. i \in f1..f2
      BY <2>2, <1>1
    <2> QED BY <2>1, <2>3, RangesInMove DEF HInv
  <1> QED BY <1>4, <1>5, <1>6, <1>7, <1>8, <1>9

LEMMA RelinkSpareHeap ==
    ASSUME HInv, RelinkSpare
    PROVE  HInv'
  <1> DEFINE f == list[f1]
             spare == header_bottom + 1
             c1 == Before \o Unlocked
             c2 == c1 \o <<spare>>
             c3 == c2 \o Between
             c4 == c3 \o <<f>>
             c5 == c4 \o After
  <1>1. /\ MoveDone /\ pc = "move" /\ u1 # f2 + 1 /\ Recycle /\ NextPass
        /\ SpareNeeded /\ ~SpareAliased /\ header_bottom' = spare
        /\ memory' = [memory EXCEPT ![f] = memory[list[u1]] + used_offset,
                                    ![spare] = memory[list[u1]] + unlocked_size]
        /\ size' = [size EXCEPT ![f] = unlocked_size,
                                ![spare] = free_size - unlocked_size]
        /\ type' = [type EXCEPT ![spare] = FREE]
        /\ list' = c5
    BY DEF RelinkSpare, MoveDone
  <1>2. Inv'
    BY RelinkSpareInv DEF HInv
  <1>3. /\ Before \in Seq(Headers) /\ Unlocked \in Seq(Headers) /\ After \in Seq(Headers)
        /\ Between \in Seq(Headers)
        /\ Injective(Before) /\ Injective(Unlocked) /\ Injective(After) /\ Injective(Between)
        /\ ToSet(Before) \cap ToSet(Unlocked) = {} /\ ToSet(Before) \cap ToSet(After) = {}
        /\ ToSet(Unlocked) \cap ToSet(After) = {} /\ ToSet(Before) \cap ToSet(Between) = {}
        /\ ToSet(Unlocked) \cap ToSet(Between) = {} /\ ToSet(Between) \cap ToSet(After) = {}
        /\ f \notin ToSet(Before) \cup ToSet(Unlocked) \cup ToSet(Between) \cup ToSet(After)
        /\ ToSet(list) = ToSet(Before) \cup {list[i] : i \in f1..f2} \cup ToSet(Between)
                            \cup ToSet(Unlocked) \cup ToSet(After)
    BY <1>1, PartsHeap
  <1>4. /\ Tiles(Before, memory, size, memory_bottom, At(f1))
        /\ Tiles(Unlocked, memory, size, At(f1), At(f1) + unlocked_size)
        /\ Tiles(Between, memory, size, EndAt(f2), At(u1))
        /\ Tiles(After, memory, size, EndAt(u2), memory_top)
        /\ memory[list[u1]] = At(f1) /\ At(f1) >= memory_bottom /\ At(u1) >= EndAt(f2)
        /\ At(f1) \in Int /\ At(u1) \in Int /\ EndAt(f2) \in Int /\ EndAt(u2) \in Int
        /\ free_size >= FreeBlockSize /\ unlocked_size >= FreeBlockSize
        /\ At(f1) + free_size = EndAt(f2) /\ At(u1) + unlocked_size = EndAt(u2)
    BY <1>1, PartsTile
  <1>5. /\ f1 \in 1..Len(list) /\ f1 <= f2 /\ \A i \in f1..f2 : type[list[i]] = FREE
        /\ free_size \in Int /\ unlocked_size \in Int /\ Len(list) > 1
        /\ used_offset = At(u1) - At(f1) /\ f1 \in Int /\ f2 \in Int
    BY <1>1, MoveFacts
  <1>6. f \in Headers /\ memory \in [Headers -> Int] /\ size \in [Headers -> Int]
        /\ ToSet(list) \subseteq Headers /\ f \in ToSet(list) /\ type \in [Headers -> BlockTypes]
    BY <1>5, ListFacts
  <1>7. \A h \in ToSet(list) : memory[h] # NULL /\ size[h] >= FreeBlockSize
    BY <1>5, AllBlocks
  <1>a. /\ spare \notin ToSet(Before) \cup ToSet(Unlocked) \cup ToSet(Between) \cup ToSet(After)
        /\ spare # f
    BY <1>1, SpareFresh
  <1>s. spare \in Headers /\ spare # f
    BY <1>1, <1>2, <1>a DEF Inv, TypeOK
  <1> HIDE DEF f, spare, c1, c2, c3, c4, c5
  <1>8. /\ memory'[f] = At(u1) /\ memory'[f] + size'[f] = EndAt(u2)
        /\ size'[f] = unlocked_size
        /\ memory'[spare] = At(f1) + unlocked_size
        /\ memory'[spare] + size'[spare] = EndAt(f2)
        /\ size'[spare] = free_size - unlocked_size
    <2>1. /\ memory'[f] = memory[list[u1]] + used_offset /\ size'[f] = unlocked_size
          /\ memory'[spare] = memory[list[u1]] + unlocked_size
          /\ size'[spare] = free_size - unlocked_size
      BY <1>1, <1>6, <1>s
    <2> QED BY <2>1, <1>4, <1>5
  <1>9. \A h \in ToSet(Before) \cup ToSet(Unlocked) \cup ToSet(Between) \cup ToSet(After) :
            /\ h # f /\ h # spare /\ h \in Headers
            /\ memory'[h] = memory[h] /\ size'[h] = size[h]
    BY <1>1, <1>3, <1>6, <1>a
  <1>10. /\ Tiles(Before, memory', size', memory_bottom, At(f1))
         /\ Tiles(Unlocked, memory', size', At(f1), At(f1) + unlocked_size)
         /\ Tiles(Between, memory', size', EndAt(f2), At(u1))
         /\ Tiles(After, memory', size', EndAt(u2), memory_top)
    BY <1>3, <1>4, <1>9, TilesSame
  <1>11. /\ c1 \in Seq(Headers) /\ Injective(c1)
         /\ ToSet(c1) = ToSet(Before) \cup ToSet(Unlocked)
         /\ Tiles(c1, memory', size', memory_bottom, At(f1) + unlocked_size)
    BY <1>3, <1>10, Join, Zenon DEF c1
  <1>12. /\ c2 \in Seq(Headers) /\ Injective(c2) /\ ToSet(c2) = ToSet(c1) \cup {spare}
         /\ Tiles(c2, memory', size', memory_bottom, EndAt(f2))
    <2>1. spare \notin ToSet(c1)
      BY <1>a, <1>11
    <2> QED BY <2>1, <1>s, <1>8, <1>11, JoinOne, Zenon DEF c2
  <1>13. /\ c3 \in Seq(Headers) /\ Injective(c3) /\ ToSet(c3) = ToSet(c2) \cup ToSet(Between)
         /\ Tiles(c3, memory', size', memory_bottom, At(u1))
    <2>1. ToSet(c2) \cap ToSet(Between) = {}
      BY <1>3, <1>9, <1>11, <1>12
    <2> QED BY <2>1, <1>3, <1>10, <1>12, Join, Zenon DEF c3
  <1>14. /\ c4 \in Seq(Headers) /\ Injective(c4) /\ ToSet(c4) = ToSet(c3) \cup {f}
         /\ Tiles(c4, memory', size', memory_bottom, EndAt(u2))
    <2>1. f \notin ToSet(c3)
      BY <1>s, <1>3, <1>11, <1>12, <1>13
    <2> QED BY <2>1, <1>6, <1>8, <1>13, JoinOne, Zenon DEF c4
  <1>15. /\ c5 \in Seq(Headers) /\ Injective(c5) /\ ToSet(c5) = ToSet(c4) \cup ToSet(After)
         /\ Tiles(c5, memory', size', memory_bottom, memory_top)
    <2>1. ToSet(c4) \cap ToSet(After) = {}
      BY <1>3, <1>9, <1>11, <1>12, <1>13, <1>14
    <2> QED BY <2>1, <1>3, <1>10, <1>14, Join, Zenon DEF c5
  <1>16. ToSet(list') = ToSet(Before) \cup ToSet(Unlocked) \cup {spare} \cup ToSet(Between)
                           \cup {f} \cup ToSet(After)
    BY <1>1, <1>11, <1>12, <1>13, <1>14, <1>15
  <1>17. {h \in ToSet(list') : type'[h] # FREE} = {h \in ToSet(list) : type[h] # FREE}
    <2>1. type[f] = FREE /\ \A h \in {list[i] : i \in f1..f2} : type[h] = FREE
      BY <1>5 DEF f
    <2>2. type'[spare] = FREE /\ \A h \in Headers : h # spare => type'[h] = type[h]
      BY <1>1, <1>6, <1>s
    <2>3. spare \in ToSet(list) => type[spare] = FREE
      BY <2>1, <1>3, <1>a
    <2> QED BY <2>1, <2>2, <2>3, <1>3, <1>6, <1>16
  <1>18. \A h \in ToSet(list') : memory'[h] # NULL /\ size'[h] >= FreeBlockSize
    <2>1. memory'[f] # NULL /\ size'[f] >= FreeBlockSize
      <3>1. At(u1) > 0
        BY <1>4, <1>5, SlotCount, SizesAssumption
      <3> QED BY <3>1, <1>4, <1>8 DEF NULL
    <2>2. memory'[spare] # NULL /\ size'[spare] >= FreeBlockSize
      <3>1. At(f1) + unlocked_size > 0 /\ free_size - unlocked_size >= FreeBlockSize
        BY <1>1, <1>4, <1>5, SlotCount, SizesAssumption DEF SpareNeeded
      <3> QED BY <3>1, <1>4, <1>5, <1>8 DEF NULL
    <2> QED BY <2>1, <2>2, <1>3, <1>7, <1>9, <1>16
  <1> QED BY <1>1, <1>2, <1>15, <1>17, <1>18, RelinkHeap

LEMMA RelinkExtendHeap ==
    ASSUME HInv, RelinkExtend
    PROVE  HInv'
  <1> DEFINE f == list[f1]
             last == list[u2]
             n == Len(list)
             c1 == Before \o Unlocked
             c3 == c1 \o Between
             c4 == c3 \o <<f>>
             c5 == c4 \o After
  <1>1. /\ MoveDone /\ pc = "move" /\ u1 # f2 + 1 /\ Recycle /\ NextPass
        /\ memory' = [memory EXCEPT ![f] = memory[list[u1]] + used_offset]
        /\ size' = [size EXCEPT ![f] = unlocked_size,
                                ![last] = @ + (free_size - unlocked_size)]
        /\ type' = type /\ list' = c5
    BY DEF RelinkExtend, MoveDone
  <1>2. Inv'
    BY RelinkExtendInv DEF HInv
  <1>3. /\ Before \in Seq(Headers) /\ Unlocked \in Seq(Headers) /\ After \in Seq(Headers)
        /\ Between \in Seq(Headers)
        /\ Injective(Before) /\ Injective(Unlocked) /\ Injective(After) /\ Injective(Between)
        /\ ToSet(Before) \cap ToSet(Unlocked) = {} /\ ToSet(Before) \cap ToSet(After) = {}
        /\ ToSet(Unlocked) \cap ToSet(After) = {} /\ ToSet(Before) \cap ToSet(Between) = {}
        /\ ToSet(Unlocked) \cap ToSet(Between) = {} /\ ToSet(Between) \cap ToSet(After) = {}
        /\ f \notin ToSet(Before) \cup ToSet(Unlocked) \cup ToSet(Between) \cup ToSet(After)
        /\ ToSet(list) = ToSet(Before) \cup {list[i] : i \in f1..f2} \cup ToSet(Between)
                            \cup ToSet(Unlocked) \cup ToSet(After)
        /\ last \in ToSet(Unlocked)
    BY <1>1, PartsHeap
  <1>4. /\ Tiles(Before, memory, size, memory_bottom, At(f1))
        /\ Tiles(Between, memory, size, EndAt(f2), At(u1))
        /\ Tiles(After, memory, size, EndAt(u2), memory_top)
        /\ memory[list[u1]] = At(f1) /\ At(f1) >= memory_bottom /\ At(u1) >= EndAt(f2)
        /\ \A i \in u1..u2 : memory[list[i]] = At(i) - used_offset
        /\ At(f1) \in Int /\ At(u1) \in Int /\ EndAt(f2) \in Int /\ EndAt(u2) \in Int
        /\ free_size >= FreeBlockSize /\ unlocked_size >= FreeBlockSize
        /\ At(f1) + free_size = EndAt(f2) /\ At(u1) + unlocked_size = EndAt(u2)
    BY <1>1, PartsTile
  <1>5. /\ f1 \in 1..n /\ f1 <= f2 /\ \A i \in f1..f2 : type[list[i]] = FREE
        /\ free_size \in Int /\ unlocked_size \in Int /\ n > 1 /\ n \in Nat
        /\ used_offset = At(u1) - At(f1) /\ f1 \in Int /\ f2 \in Int /\ used_offset \in Int
        /\ u1 \in 1..n /\ u2 \in 1..n /\ u1 <= u2
        /\ unlocked_size <= free_size
    BY <1>1, MoveFacts
  <1>6. f \in Headers /\ memory \in [Headers -> Int] /\ size \in [Headers -> Int]
        /\ ToSet(list) \subseteq Headers /\ f \in ToSet(list) /\ last \in Headers
        /\ list \in Seq(Headers) /\ Injective(list) /\ \A i \in 1..n : list[i] \in Headers
    BY <1>5, ListFacts
  <1>7. \A h \in ToSet(list) : memory[h] # NULL /\ size[h] >= FreeBlockSize
    BY <1>5, AllBlocks
  <1>s. last # f
    BY <1>3
  <1> HIDE DEF f, last, n, c1, c3, c4, c5
  <1>8. /\ memory'[f] = At(u1) /\ memory'[f] + size'[f] = EndAt(u2)
        /\ size'[f] = unlocked_size
        /\ size'[last] = size[last] + (free_size - unlocked_size)
    <2>1. /\ memory'[f] = memory[list[u1]] + used_offset /\ size'[f] = unlocked_size
          /\ size'[last] = size[last] + (free_size - unlocked_size)
      BY <1>1, <1>6, <1>s
    <2> QED BY <2>1, <1>4, <1>5
  <1>9. \A h \in ToSet(Before) \cup ToSet(Unlocked) \cup ToSet(Between) \cup ToSet(After) :
            /\ h # f /\ h \in Headers /\ memory'[h] = memory[h]
            /\ h # last => size'[h] = size[h]
    BY <1>1, <1>3, <1>6
  <1>10. /\ Tiles(Before, memory', size', memory_bottom, At(f1))
         /\ Tiles(Between, memory', size', EndAt(f2), At(u1))
         /\ Tiles(After, memory', size', EndAt(u2), memory_top)
    <2>1. \A h \in ToSet(Before) \cup ToSet(Between) \cup ToSet(After) :
             memory'[h] = memory[h] /\ size'[h] = size[h]
      BY <1>3, <1>9
    <2> QED BY <2>1, <1>3, <1>4, TilesSame
  <1>u. Tiles(Unlocked, memory', size', At(f1), EndAt(f2))
    <2> DEFINE g == [i \in 1..n |-> At(i)]
               w == [i \in 1..n |-> size'[list[i]]]
    <2>1. /\ \A i \in 1..n : /\ At(i) \in Int /\ EndAt(i) = At(i) + size[list[i]]
                             /\ size[list[i]] \in Int
          /\ \A i \in 1..(n - 1) : EndAt(i) = At(i + 1)
      BY <1>1, <1>5, SortedFacts DEF n
    <2>2. size' \in [Headers -> Int]
      BY <1>2 DEF Inv, TypeOK
    <2>3. g \in [1..n -> Int] /\ w \in [1..n -> Int]
          /\ \A i \in 1..n : g[i] = At(i) /\ w[i] = size'[list[i]]
      BY <2>1, <2>2, <1>6
    <2> HIDE DEF g, w
    <2>4. \A i \in u1..u2 : list[i] \in ToSet(Unlocked) /\ i \in 1..n
      BY <1>1, <1>5, PartsHeap
    <2>5. ASSUME NEW i \in u1..u2
          PROVE  memory'[list[i]] = g[i] + (-used_offset) /\ size'[list[i]] = w[i]
      <3>1. memory'[list[i]] = At(i) - used_offset /\ g[i] = At(i) /\ At(i) \in Int
        BY <2>1, <2>3, <2>4, <1>4, <1>9
      <3> QED BY <3>1, <2>3, <2>4, <1>5
    <2>6. ASSUME NEW i \in u1..(u2 - 1) PROVE g[i] + w[i] = g[i + 1]
      <3>1. i \in u1..u2 /\ i \in 1..(n - 1) /\ i \in 1..n /\ i + 1 \in 1..n /\ i # u2
        BY <1>5
      <3>2. list[i] # last
        BY <3>1, <1>5, <1>6 DEF Injective, last, n
      <3>3. w[i] = size[list[i]]
        BY <3>1, <3>2, <2>3, <2>4, <1>9
      <3> QED BY <3>1, <3>3, <2>1, <2>3
    <2>7. /\ At(f1) = g[u1] + (-used_offset)
          /\ EndAt(f2) = g[u2] + w[u2] + (-used_offset)
      <3>1. g[u1] = At(u1) /\ g[u2] = At(u2) /\ At(u2) \in Int /\ size[list[u2]] \in Int
            /\ EndAt(u2) = At(u2) + size[list[u2]]
            /\ w[u2] = size[list[u2]] + (free_size - unlocked_size)
        BY <2>1, <2>3, <1>5, <1>8 DEF last
      <3> QED BY <3>1, <1>4, <1>5
    <2>8. u1 \in Nat \ {0} /\ u2 \in Int /\ u2 <= n /\ -used_offset \in Int /\ ~(u1 > u2)
      BY <1>5
    <2>9. Laid(Headers, list, u1, u2, memory', size', g, w, -used_offset, At(f1), EndAt(f2))
      BY <1>6, <2>3, <2>5, <2>6, <2>7, <2>8 DEF Laid, n
    <2> QED BY <2>9, TilesPart DEF Unlocked, n
  <1>11. /\ c1 \in Seq(Headers) /\ Injective(c1)
         /\ ToSet(c1) = ToSet(Before) \cup ToSet(Unlocked)
         /\ Tiles(c1, memory', size', memory_bottom, EndAt(f2))
    BY <1>3, <1>10, <1>u, Join, Zenon DEF c1
  <1>13. /\ c3 \in Seq(Headers) /\ Injective(c3) /\ ToSet(c3) = ToSet(c1) \cup ToSet(Between)
         /\ Tiles(c3, memory', size', memory_bottom, At(u1))
    <2>1. ToSet(c1) \cap ToSet(Between) = {}
      BY <1>3, <1>11
    <2> QED BY <2>1, <1>3, <1>10, <1>11, Join, Zenon DEF c3
  <1>14. /\ c4 \in Seq(Headers) /\ Injective(c4) /\ ToSet(c4) = ToSet(c3) \cup {f}
         /\ Tiles(c4, memory', size', memory_bottom, EndAt(u2))
    <2>1. f \notin ToSet(c3)
      BY <1>3, <1>11, <1>13
    <2> QED BY <2>1, <1>6, <1>8, <1>13, JoinOne, Zenon DEF c4
  <1>15. /\ c5 \in Seq(Headers) /\ Injective(c5) /\ ToSet(c5) = ToSet(c4) \cup ToSet(After)
         /\ Tiles(c5, memory', size', memory_bottom, memory_top)
    <2>1. ToSet(c4) \cap ToSet(After) = {}
      BY <1>3, <1>11, <1>13, <1>14
    <2> QED BY <2>1, <1>3, <1>10, <1>14, Join, Zenon DEF c5
  <1>16. ToSet(list') = ToSet(Before) \cup ToSet(Unlocked) \cup ToSet(Between)
                           \cup {f} \cup ToSet(After)
    BY <1>1, <1>11, <1>13, <1>14, <1>15
  <1>17. {h \in ToSet(list') : type'[h] # FREE} = {h \in ToSet(list) : type[h] # FREE}
    <2>1. type[f] = FREE /\ \A h \in {list[i] : i \in f1..f2} : type[h] = FREE
      BY <1>5 DEF f
    <2> QED BY <2>1, <1>1, <1>3, <1>16
  <1>18. \A h \in ToSet(list') : memory'[h] # NULL /\ size'[h] >= FreeBlockSize
    <2>1. memory'[f] # NULL /\ size'[f] >= FreeBlockSize
      <3>1. At(u1) > 0
        BY <1>4, <1>5, SlotCount, SizesAssumption
      <3> QED BY <3>1, <1>4, <1>8 DEF NULL
    <2>2. memory'[last] # NULL /\ size'[last] >= FreeBlockSize
      <3>1. memory[last] # NULL /\ size[last] >= FreeBlockSize /\ size[last] \in Int
            /\ memory'[last] = memory[last]
        BY <1>3, <1>6, <1>7, <1>9
      <3> QED BY <3>1, <1>5, <1>8, SizesAssumption
    <2> QED BY <2>1, <2>2, <1>3, <1>7, <1>9, <1>16
  <1> QED BY <1>1, <1>2, <1>15, <1>17, <1>18, RelinkHeap

LEMMA FaultHeap ==
    ASSUME HInv, UNCHANGED <<heapVars, compactVars>>, Inv'
    PROVE  HInv'
  <1>1. HandlesListed' /\ BlocksOK' /\ UnusedOK'
    BY HeapKept
  <1>2. UNCHANGED <<memory, size, type, list, memory_top, slots, pc, cur, f1, f2, u1, u2,
                    free_size, unlocked_size, used_offset>>
    BY DEF heapVars, headerVars, compactVars, rangeVars
  <1>3. SortedTile'
    BY <1>2 DEF HInv, SortedTile, At, EndAt
  <1>4. SizesOK'
    BY <1>2 DEF HInv, SizesOK, At, EndAt, Adjacent, TypeAt
  <1>5. (pc = "idle" => BlocksTile)'
    BY <1>2 DEF HInv, BlocksTile, ListedBlocks, End
  <1>6. SlotsOK'
    BY <1>2 DEF HInv, SlotsOK, Linked, ListedBlocks
  <1> QED BY <1>1, <1>3, <1>4, <1>5, <1>6 DEF HInv

-----------------------------------------------------------------------------
(* The end of rm_compact *)

\* Pruning a header and cutting the list.
LEMMA FinishHeap ==
    ASSUME HInv, Finish
    PROVE  HInv'
  <1>1. PICK highest \in memory_bottom..HeapSize, n \in DOMAIN list :
          /\ HighestUsed(highest) /\ LargestAt(highest, n)
          /\ memory' = Cleared(memory, highest, NULL)
          /\ size' = Cleared(size, highest, 0)
          /\ unused' = IF Pruned(highest) = {} THEN unused
                       ELSE SetUnused(CHOOSE h \in Pruned(highest) : TRUE)
          /\ list' = SubSeq(list, 1, n)
          /\ memory_top' = highest
    BY DEF Finish
  <1>2. /\ pc = "finish" /\ pc' = "rebuild" /\ slots' = EmptySlots
        /\ UNCHANGED <<type, header_used_count, free_size, req>>
    BY DEF Finish, statVars, rangeVars, clientVars
  <1>3. Inv'
    BY FinishInv DEF HInv
  <1>4. /\ list \in Seq(Headers) /\ Len(list) \in Nat /\ n \in 1..Len(list)
        /\ Injective(list) /\ ToSet(list) = {list[i] : i \in 1..Len(list)}
        /\ \A i \in 1..Len(list) : list[i] \in ToSet(list) /\ list[i] \in Headers
        /\ memory \in [Headers -> Int] /\ size \in [Headers -> Int]
        /\ ToSet(list) \subseteq Headers /\ DOMAIN list = 1..Len(list)
    BY ListFacts
  <1>n. /\ n \in Nat /\ n >= 1 /\ n <= Len(list) /\ n \in 1..n /\ 1 \in 1..n
        /\ \A i \in 1..n : i \in 1..Len(list)
        /\ \A i \in 1..(n - 1) : i \in 1..n /\ i + 1 \in 1..n /\ i \in 1..(Len(list) - 1)
        /\ \A i \in 1..Len(list) : i <= n => i \in 1..n
    <2>1. n \in 1..Len(list) /\ Len(list) \in Nat
      BY <1>4
    <2> QED BY <2>1
  <1>5. /\ Injective(list') /\ ToSet(list') = {list[i] : i \in 1..n} /\ Len(list') = n
        /\ \A i \in 1..n : list'[i] = list[i]
        /\ list' \in Seq(Headers)
    <2>1. 1 \in Nat \ {0} /\ n \in Int /\ n <= Len(list) /\ 1 <= n
      BY <1>4
    <2>2. PICK p \in Nat \ {0}, q \in Int : p = 1 /\ q = n /\ q <= Len(list)
      BY <2>1
    <2>s. list \in Seq(Headers) /\ Injective(list)
      BY <1>4
    <2>a. /\ SubSeq(list, p, q) \in Seq(Headers) /\ Injective(SubSeq(list, p, q))
          /\ ToSet(SubSeq(list, p, q)) = {list[i] : i \in p..q}
      BY <2>2, <2>s, SubSeqParts
    <2>b. /\ Len(SubSeq(list, p, q)) = IF p <= q THEN q - p + 1 ELSE 0
          /\ \A i \in 1..Len(SubSeq(list, p, q)) : SubSeq(list, p, q)[i] = list[p + i - 1]
      BY <2>2, <2>s, SubSeqParts
    <2>c. list' = SubSeq(list, p, q)
      BY <2>2, <1>1
    <2>3. Len(list') = n
      BY <2>1, <2>2, <2>b, <2>c
    <2>4. ASSUME NEW i \in 1..n PROVE list'[i] = list[i]
      <3>1. p + i - 1 = i
        BY <2>2
      <3> QED BY <3>1, <2>3, <2>b, <2>c
    <2> QED BY <2>a, <2>c, <2>2, <2>3, <2>4
  <1>6. \A h \in Headers : /\ h \in Pruned(highest) => memory'[h] = NULL /\ size'[h] = 0
                           /\ h \notin Pruned(highest) => memory'[h] = memory[h]
                                                          /\ size'[h] = size[h]
    BY <1>1 DEF Cleared
  <1>7. \A h \in Pruned(highest) : \E i \in 1..Len(list) :
            h = list[i] /\ memory[h] >= highest /\ type[h] = FREE
    BY <1>4 DEF Pruned, TypeAt
  <1>8. SlotsOK'
    <2>1. \A k \in Slots : slots'[k] = <<>>
      BY <1>2 DEF EmptySlots
    <2>2. Injective(<<>>) /\ ToSet(<<>>) = {}
      BY DEF Injective, ToSet
    <2> QED BY <2>1, <2>2 DEF SlotsOK, SlotOK
  <1>9. SizesOK'
    BY <1>2 DEF HInv, SizesOK
  <1>10. ASSUME {h \in ToSet(list') : type[h] # FREE} = {h \in ToSet(list) : type[h] # FREE}
         PROVE  HandlesListed'
    <2>1. Held' = Held
      BY <1>2 DEF Held
    <2>2. {h \in ToSet(list) : type[h] # FREE} = Held /\ header_used_count = Cardinality(Held)
      BY DEF HInv, HandlesListed
    <2>3. \A i, j \in DOMAIN list' : list'[i] = list'[j] => i = j
      <3>1. DOMAIN list' = 1..Len(list')
        BY <1>5
      <3> QED BY <3>1, <1>5 DEF Injective
    <2> QED BY <2>1, <2>2, <2>3, <1>2, <1>10 DEF HandlesListed
  <1>11. ASSUME HandlesListed', BlocksOK', UnusedOK', SortedTile' PROVE HInv'
    BY <1>2, <1>3, <1>8, <1>9, <1>11 DEF HInv
  <1>12. CASE memory[list[1]] = NULL
    <2>1. /\ list = <<list[1]>> /\ unused = <<list[1]>> /\ type[list[1]] = FREE
          /\ size[list[1]] = 0 /\ memory_top = memory_bottom
      <3>1. list[1] \in ToSet(list)
        BY <1>4
      <3> QED BY <3>1, <1>12 DEF HInv, BlocksOK
    <2>2. Len(list) = 1 /\ n = 1
      BY <2>1, <1>4
    <2>3. ToSet(list) = {list[1]} /\ ToSet(list') = {list[1]}
      BY <2>2, <1>4, <1>5
    <2>4. Pruned(highest) = {}
      <3>1. \A j \in DOMAIN list : j = 1
        BY <2>2, <1>4
      <3> QED BY <3>1, <1>12 DEF Pruned, rm_header_is_unused
    <2>5. UsedEnds = {}
      <3>1. \A j \in DOMAIN list : j = 1
        BY <2>2, <1>4
      <3> QED BY <3>1, <1>12 DEF UsedEnds, rm_header_is_unused
    <2>6. highest = memory_bottom
      BY <2>5, <1>1 DEF HighestUsed
    <2>7. list' = list
      BY <2>2, <1>1, <1>4
    <2>8. memory' = memory /\ size' = size
      BY <2>4, <1>1, <1>4 DEF Cleared
    <2>9. HandlesListed'
      BY <1>10, <2>7
    <2>10. unused' = unused /\ memory_top' = memory_top
      BY <1>1, <2>1, <2>4, <2>6
    <2>11. BlocksOK' /\ UnusedOK'
      BY <1>2, <2>7, <2>8, <2>10 DEF HInv, BlocksOK, UnusedOK
    <2>12. SortedTile'
      BY <2>7, <2>8, <1>12 DEF SortedTile
    <2> QED BY <1>11, <2>9, <2>11, <2>12
  <1>13. CASE memory[list[1]] # NULL
    <2>1. /\ \A i \in 1..Len(list) :
                /\ At(i) \in Int /\ EndAt(i) = At(i) + size[list[i]]
                /\ size[list[i]] \in Int /\ size[list[i]] >= FreeBlockSize
                /\ At(i) >= memory_bottom /\ EndAt(i) <= memory_top
                /\ memory[list[i]] # NULL
          /\ \A i, j \in 1..Len(list) : i < j => EndAt(i) <= At(j)
          /\ \A i \in 1..(Len(list) - 1) : EndAt(i) = At(i + 1)
          /\ At(1) = memory_bottom /\ EndAt(Len(list)) = memory_top
      BY <1>2, <1>13, SortedFacts
    <2>2. \A i \in 1..Len(list) : At(i) = memory[list[i]] /\ EndAt(i) = End(list[i])
      BY <1>2, AtType
    <2>3. FreeBlockSize \in Nat \ {0} /\ memory_bottom \in Nat \ {0}
      BY SizesAssumption, SlotCount
    <2>4. \A h \in ToSet(list) : memory[h] # NULL /\ size[h] >= FreeBlockSize
      BY <1>13, AllBlocks
    <2>5. \A h \in ToSet(unused) : h \notin ToSet(list)
      BY <2>4 DEF HInv, UnusedOK
    <2>6. \A i \in 1..Len(list) : type[list[i]] # FREE => End(list[i]) \in UsedEnds
      BY <1>4, <2>4 DEF UsedEnds, TypeAt, rm_header_is_unused
    <2>7. CASE UsedEnds = {}
      <3>1. n = 1 /\ highest = memory_bottom
        BY <2>7, <1>1 DEF HighestUsed, LargestAt
      <3>2. \A h \in ToSet(list) : type[h] = FREE
        BY <2>6, <2>7, <1>4
      <3>3. ToSet(list') = {list[1]} /\ list' = <<list[1]>>
        <4>1. ToSet(list') = {list[i] : i \in 1..1} /\ Len(list') = 1 /\ list'[1] = list[1]
          BY <3>1, <1>n, <1>5
        <4>2. list' = <<list[1]>>
          BY <4>1, <1>5
        <4> QED BY <4>1, <4>2
      <3>4. Pruned(highest) = {list[1]}
        <4>1. 1 \in DOMAIN list
          BY <1>4
        <4>2. memory[list[1]] >= highest
          BY <4>1, <2>1, <2>2, <2>3, <3>1
        <4>3. type[list[1]] = FREE
          BY <3>2, <4>1, <1>4
        <4>4. ASSUME NEW j \in DOMAIN list, j # 1 PROVE 1 \in 1..(j - 1)
          BY <4>4, <1>4
        <4>5. \A m \in 1..(1 - 1) : FALSE
          OBVIOUS
        <4> QED BY <4>1, <4>2, <4>3, <4>4, <4>5, <1>13 DEF Pruned, TypeAt, rm_header_is_unused
      <3>5. unused' = <<list[1]>>
        BY <3>4, <1>1 DEF SetUnused
      <3>6. memory'[list[1]] = NULL /\ size'[list[1]] = 0
        <4>1. list[1] \in Headers
          BY <1>4
        <4> QED BY <4>1, <3>4, <1>6
      <3>7. HandlesListed'
        <4>1. list[1] \in ToSet(list)
          BY <1>n, <1>4
        <4> QED BY <4>1, <1>10, <3>2, <3>3
      <3>8. BlocksOK' /\ UnusedOK'
        <4>1. BlocksOK'
          BY <3>1, <3>2, <3>3, <3>5, <3>6, <1>1, <1>2, <1>4 DEF BlocksOK
        <4>2. Len(unused') <= 1 /\ ToSet(unused') = {list[1]}
          BY <3>5 DEF ToSet
        <4> QED BY <4>1, <4>2, <3>6 DEF UnusedOK
      <3>9. SortedTile'
        BY <3>3, <3>6 DEF SortedTile
      <3> QED BY <1>11, <3>7, <3>8, <3>9
    <2>8. CASE UsedEnds # {}
      <3>1. End(list[n]) = highest /\ type[list[n]] # FREE /\ \A e \in UsedEnds : e <= highest
        BY <2>8, <1>1 DEF HighestUsed, LargestAt, TypeAt
      <3>2. ASSUME NEW i \in 1..Len(list), i > n PROVE type[list[i]] = FREE
        <4> SUFFICES ASSUME type[list[i]] # FREE PROVE FALSE
          OBVIOUS
        <4>1. EndAt(i) <= EndAt(n)
          BY <2>2, <2>6, <3>1, <1>4
        <4>2. EndAt(n) <= At(i) /\ At(i) \in Int /\ EndAt(i) = At(i) + size[list[i]]
              /\ size[list[i]] \in Int /\ size[list[i]] >= FreeBlockSize
              /\ EndAt(n) = At(n) + size[list[n]] /\ At(n) \in Int /\ size[list[n]] \in Int
          BY <2>1, <3>2, <1>4
        <4> QED BY <4>1, <4>2, <2>3
      <3>3. ASSUME NEW i \in 1..n PROVE list[i] \notin Pruned(highest)
        <4> SUFFICES ASSUME list[i] \in Pruned(highest) PROVE FALSE
          OBVIOUS
        <4>1. i \in 1..Len(list) /\ i <= n
          BY <1>4
        <4>2. memory[list[i]] >= highest
          BY <1>7
        <4>3. At(i) >= EndAt(n)
          BY <4>1, <4>2, <2>2, <3>1, <1>4
        <4>4. /\ At(i) \in Int /\ EndAt(i) = At(i) + size[list[i]]
              /\ size[list[i]] \in Int /\ size[list[i]] >= FreeBlockSize
              /\ EndAt(n) = At(n) + size[list[n]] /\ At(n) \in Int /\ size[list[n]] \in Int
              /\ size[list[n]] >= FreeBlockSize
          BY <2>1, <4>1, <1>4
        <4>5. CASE i = n
          BY <4>3, <4>4, <4>5, <2>3
        <4>6. CASE i # n
          <5>1. EndAt(i) <= At(n)
            BY <4>1, <4>6, <2>1, <1>4
          <5> QED BY <5>1, <4>3, <4>4, <2>3
        <4> QED BY <4>5, <4>6
      <3>4. \A i \in 1..n : memory'[list[i]] = memory[list[i]] /\ size'[list[i]] = size[list[i]]
                            /\ i \in 1..Len(list)
        <4> SUFFICES ASSUME NEW i \in 1..n
                     PROVE  /\ memory'[list[i]] = memory[list[i]]
                            /\ size'[list[i]] = size[list[i]] /\ i \in 1..Len(list)
          OBVIOUS
        <4>1. i \in 1..Len(list) /\ list[i] \in Headers
          BY <1>n, <1>4
        <4> QED BY <4>1, <3>3, <1>6
      <3>5. HandlesListed'
        <4>1. ASSUME NEW h \in ToSet(list), type[h] # FREE PROVE h \in ToSet(list')
          <5>1. PICK i \in 1..Len(list) : h = list[i]
            BY <1>4
          <5>2. i <= n
            BY <5>1, <4>1, <3>2, <1>n
          <5> QED BY <5>1, <5>2, <1>n, <1>5
        <4>2. ToSet(list') \subseteq ToSet(list)
          BY <1>n, <1>4, <1>5
        <4> QED BY <4>1, <4>2, <1>10
      <3>6. BlocksOK'
        <4>1. \A h \in ToSet(list') : memory'[h] # NULL /\ size'[h] >= FreeBlockSize
          <5> SUFFICES ASSUME NEW i \in 1..n
                       PROVE  memory'[list[i]] # NULL /\ size'[list[i]] >= FreeBlockSize
            BY <1>5
          <5>1. list[i] \in ToSet(list)
            BY <1>n, <1>4
          <5> QED BY <5>1, <3>4, <2>4
        <4> QED BY <4>1 DEF BlocksOK
      <3>7. UnusedOK'
        <4>1. CASE Pruned(highest) = {}
          <5>1. unused' = unused
            BY <4>1, <1>1
          <5>2. \A h \in ToSet(unused) : h \notin ToSet(list')
            BY <2>5, <1>n, <1>4, <1>5
          <5> QED BY <5>1, <5>2 DEF HInv, UnusedOK
        <4>2. CASE Pruned(highest) # {}
          <5>1. PICK p \in Pruned(highest) : unused' = <<p>>
            BY <4>2, <1>1 DEF SetUnused
          <5>2. Len(unused') <= 1 /\ ToSet(unused') = {p}
            BY <5>1 DEF ToSet
          <5>3. p \notin ToSet(list')
            BY <3>3, <1>5
          <5> QED BY <5>2, <5>3 DEF UnusedOK
        <4> QED BY <4>1, <4>2
      <3>8. SortedTile'
        <4>1. /\ memory'[list'[1]] = memory_bottom
              /\ memory'[list'[n]] + size'[list'[n]] = highest
          <5>1. 1 \in 1..n /\ n \in 1..n
            BY <1>n
          <5>2. memory'[list'[1]] = At(1) /\ memory'[list'[n]] = memory[list[n]]
                /\ size'[list'[n]] = size[list[n]]
            BY <5>1, <3>4, <1>5, <2>2
          <5> QED BY <5>1, <5>2, <3>1, <2>1 DEF End
        <4>2. ASSUME NEW i \in 1..(n - 1)
              PROVE  memory'[list'[i]] + size'[list'[i]] = memory'[list'[i + 1]]
          <5>1. i \in 1..n /\ i + 1 \in 1..n /\ i \in 1..(Len(list) - 1)
            BY <1>n
          <5>2. EndAt(i) = At(i + 1) /\ i \in 1..Len(list) /\ i + 1 \in 1..Len(list)
            BY <5>1, <2>1, <1>n
          <5>3. memory[list[i]] + size[list[i]] = memory[list[i + 1]]
            BY <5>2, <2>2 DEF End
          <5> QED BY <5>1, <5>3, <3>4, <1>5
        <4>3. \A i \in 1..n : memory'[list'[i]] + 0 = memory'[list'[i]]
          <5> SUFFICES ASSUME NEW i \in 1..n
                       PROVE  memory'[list[i]] + 0 = memory'[list[i]]
            BY <1>5
          <5>1. memory[list[i]] \in Int
            BY <1>n, <1>4
          <5> QED BY <5>1, <3>4
        <4>4. 1 \in 1..n /\ n \in 1..n /\ \A i \in 1..(n - 1) : i \in 1..n /\ i + 1 \in 1..n
          BY <1>n
        <4> QED BY <4>1, <4>2, <4>3, <4>4, <1>1, <1>2, <1>5 DEF SortedTile, At, EndAt
      <3> QED BY <1>11, <3>5, <3>6, <3>7, <3>8
    <2> QED BY <2>7, <2>8
  <1> QED BY <1>12, <1>13

\* One more header goes through rebuild_free_block_slots.
LEMMA RebuildHeap ==
    ASSUME HInv, Rebuild
    PROVE  HInv'
  <1> DEFINE h == list[cur]
  <1>1. /\ pc = "rebuild" /\ cur <= Len(list) /\ cur' = cur + 1
        /\ UNCHANGED <<memory, size, type, list, unused, memory_top, header_used_count,
                       pc, f1, f2, u1, u2, free_size, unlocked_size, used_offset, req>>
    BY DEF Rebuild, headerVars, statVars, rangeVars
  <1>2. Inv'
    BY RebuildInv DEF HInv
  <1>3. HandlesListed' /\ BlocksOK' /\ UnusedOK'
    BY <1>1 DEF HInv, HandlesListed, Held, BlocksOK, UnusedOK
  <1>4. SortedTile' /\ SizesOK'
    BY <1>1 DEF HInv, SortedTile, SizesOK, At, EndAt
  <1>5. /\ cur \in 1..Len(list) /\ cur \in Int /\ Len(list) \in Nat /\ h \in Headers
        /\ h \in ToSet(list) /\ Injective(list)
        /\ slots \in [Slots -> Seq(Headers)]
    <2>1. cur \in Int /\ cur >= 1 /\ slots \in [Slots -> Seq(Headers)]
      BY <1>1 DEF HInv, Inv, RangesOK, TypeOK
    <2>2. cur \in 1..Len(list)
      BY <2>1, <1>1, ListFacts
    <2> QED BY <2>1, <2>2, ListFacts
  <1>6. ListedBlocks' = ListedBlocks
    BY <1>1 DEF ListedBlocks
  <1> DEFINE old == {list[j] : j \in 1..(cur - 1)}
             new == {list[j] : j \in 1..cur}
  <1>7. old \subseteq new /\ h \in new /\ h \notin old
    <2>1. \A j \in 1..(cur - 1) : j \in 1..cur /\ j \in 1..Len(list) /\ j # cur
      BY <1>5
    <2>2. cur \in 1..cur
      BY <1>5
    <2>3. \A j \in 1..(cur - 1) : list[j] # list[cur]
      BY <2>1, <1>5 DEF Injective
    <2> QED BY <2>1, <2>2, <2>3
  <1>8. Linked = ListedBlocks \cap old /\ Linked' = ListedBlocks \cap new
    <2>1. cur' - 1 = cur
      BY <1>1, <1>5
    <2> QED BY <2>1, <1>1, <1>6 DEF Linked
  <1>9. \A k \in Slots : SlotOK(slots[k], k, Linked, type, size)
    BY <1>1 DEF HInv, SlotsOK
  <1> HIDE DEF h, old, new
  <1>10. ASSUME NEW k \in Slots PROVE SlotOK(slots'[k], k, Linked', type, size)
    <2>1. SlotOK(slots[k], k, Linked', type, size)
      BY <1>7, <1>8, <1>9 DEF SlotOK
    <2>2. CASE UNCHANGED slots
      BY <2>1, <2>2
    <2>3. CASE ~UNCHANGED slots
      <3>1. PICK c \in Slots : /\ memory[h] # NULL /\ type[h] = FREE /\ c = rm_log2(size[h])
                               /\ slots' = Push(slots, c, h)
        BY <2>3 DEF Rebuild, rm_header_is_unused, h
      <3>2. CASE k # c
        <4>1. slots'[k] = slots[k]
          BY <3>1, <3>2, <1>5 DEF Push
        <4> QED BY <4>1, <2>1
      <3>3. CASE k = c
        <4>1. slots'[k] = Cons(h, slots[k]) /\ slots[k] \in Seq(Headers)
          BY <3>1, <3>3, <1>5 DEF Push
        <4>2. h \notin ToSet(slots[k]) /\ Injective(slots[k])
          BY <1>7, <1>8, <1>9 DEF SlotOK
        <4>3. Injective(slots'[k]) /\ ToSet(slots'[k]) = {h} \cup ToSet(slots[k])
          BY <4>1, <4>2, <1>5, ConsParts
        <4>4. h \in Linked'
          BY <3>1, <1>5, <1>7, <1>8 DEF ListedBlocks
        <4> QED BY <4>3, <4>4, <3>1, <3>3, <2>1 DEF SlotOK
      <3> QED BY <3>2, <3>3
    <2> QED BY <2>2, <2>3
  <1>11. SlotsOK'
    BY <1>1, <1>10 DEF SlotsOK
  <1> QED BY <1>1, <1>2, <1>3, <1>4, <1>11 DEF HInv

LEMMA CompactReturnsHeap ==
    ASSUME HInv, CompactReturns
    PROVE  HInv'
  <1>1. /\ UNCHANGED <<heapVars, free_size>> /\ pc = "rebuild" /\ pc' = "idle"
        /\ UNCHANGED <<memory, size, type, list, memory_top, slots>>
    BY DEF CompactReturns, rangeVars, heapVars, headerVars
  <1>2. Inv'
    BY CompactReturnsInv DEF HInv
  <1>3. HandlesListed' /\ BlocksOK' /\ UnusedOK'
    BY <1>1, HeapKept
  <1>4. SortedTile' /\ SizesOK'
    BY <1>1 DEF HInv, SortedTile, SizesOK
  <1>5. BlocksTile'
    <2>1. BlocksTile
      BY <1>1, SortedCovers
    <2> QED BY <2>1, <1>1 DEF BlocksTile, ListedBlocks, End
  <1>6. SlotsOK'
    <2>1. \A k \in Slots : SlotOK(slots[k], k, Linked, type, size)
      BY <1>1 DEF HInv, SlotsOK
    <2>2. Linked \subseteq Linked'
      BY <1>1 DEF Linked, ListedBlocks
    <2>3. ASSUME NEW k \in Slots PROVE SlotOK(slots[k], k, Linked', type, size)
      BY <2>1, <2>2 DEF SlotOK
    <2> QED BY <2>3, <1>1 DEF SlotsOK
  <1> QED BY <1>2, <1>3, <1>4, <1>5, <1>6 DEF HInv

-----------------------------------------------------------------------------
(* Sorting the list *)

\* The sorted list has the same headers, each once, in the order of their keys.
LEMMA SortedOrder ==
    ASSUME TypeOK, Injective(list)
    PROVE  /\ Injective(SortedList) /\ ToSet(SortedList) = ToSet(list)
           /\ \A r, s \in 1..Len(list) :
                 r < s => SortKey(SortedList[r]) <= SortKey(SortedList[s])
           /\ \A r \in 1..Len(list) : SortedList[r] \in ToSet(list)
  <1> DEFINE n == Len(list)
             At0(r) == CHOOSE i \in DOMAIN list : SortedPosition(i) = r
             Less(i) == {j \in DOMAIN list : SortsBefore(j, i)}
  <1>1. n \in Nat /\ DOMAIN list = 1..n /\ list \in Seq(Headers)
    BY ListType
  <1>2. SortedList \in Seq(Headers) /\ Len(SortedList) = n /\ DOMAIN SortedList = 1..n
    BY SortedListType
  <1>3. ASSUME NEW r \in 1..n
        PROVE  /\ At0(r) \in 1..n /\ SortedPosition(At0(r)) = r
               /\ SortedList[r] = list[At0(r)]
    <2>1. \E i \in DOMAIN list : SortedPosition(i) = r
      BY <1>1, <1>3, SortedOnto
    <2>2. SortedList[r] = list[At0(r)]
      BY <1>1, <1>3 DEF SortedList
    <2> QED BY <2>1, <2>2, <1>1
  <1>4. ASSUME NEW i \in 1..n PROVE SortsBefore(i, i) = FALSE /\ SortKey(list[i]) \in Int
    <2>1. SortKey(list[i]) \in Int
      BY <1>4, SortKeyType
    <2> QED BY <2>1 DEF SortsBefore
  <1>5. ASSUME NEW i \in 1..n
        PROVE  IsFiniteSet(Less(i)) /\ Cardinality(Less(i)) \in Nat /\ SortedPosition(i) \in Nat
               /\ SortedPosition(i) = 1 + Cardinality(Less(i))
    <2>1. Less(i) \subseteq 1..n
      BY <1>1
    <2>2. IsFiniteSet(1..n)
      BY <1>1, FS_Interval
    <2>3. IsFiniteSet(Less(i))
      BY <2>1, <2>2, FS_Subset
    <2>4. Cardinality(Less(i)) \in Nat
      BY <2>3, FS_CardinalityType
    <2>5. SortedPosition(i) = 1 + Cardinality(Less(i))
      BY DEF SortedPosition
    <2> HIDE DEF Less
    <2> QED BY <2>3, <2>4, <2>5
  <1>6. ASSUME NEW i \in 1..n, NEW j \in 1..n, SortsBefore(i, j)
        PROVE  SortedPosition(i) < SortedPosition(j)
    <2>1. SortKey(list[i]) \in Int /\ SortKey(list[j]) \in Int
      BY <1>4, <1>6
    <2>2. Less(i) \subseteq Less(j)
      <3> SUFFICES ASSUME NEW m \in 1..n, SortsBefore(m, i)
                   PROVE  SortsBefore(m, j)
        BY <1>1
      <3>1. SortKey(list[m]) \in Int
        BY <1>4
      <3> QED BY <1>1, <1>6, <2>1, <3>1 DEF SortsBefore
    <2>3. i \in Less(j) /\ i \notin Less(i)
      BY <1>1, <1>4, <1>6
    <2>4. Less(i) \in SUBSET Less(j) /\ Less(i) # Less(j)
      BY <2>2, <2>3
    <2>5. Cardinality(Less(i)) < Cardinality(Less(j))
      <3>1. IsFiniteSet(Less(j)) /\ Cardinality(Less(i)) \in Nat /\ Cardinality(Less(j)) \in Nat
        BY <1>5, <1>6
      <3>2. Cardinality(Less(i)) <= Cardinality(Less(j))
            /\ Cardinality(Less(i)) # Cardinality(Less(j))
        BY <3>1, <2>4, FS_Subset
      <3> HIDE DEF Less
      <3> QED BY <3>1, <3>2
    <2>6. SortedPosition(i) = 1 + Cardinality(Less(i)) /\ Cardinality(Less(i)) \in Nat
          /\ SortedPosition(j) = 1 + Cardinality(Less(j)) /\ Cardinality(Less(j)) \in Nat
      BY <1>5, <1>6
    <2> HIDE DEF Less
    <2> QED BY <2>5, <2>6
  <1>7. ASSUME NEW i \in 1..n, NEW j \in 1..n, i # j
        PROVE  SortsBefore(i, j) \/ SortsBefore(j, i)
    BY <1>4, <1>7 DEF SortsBefore
  <1> HIDE DEF n, At0, Less
  <1>8. ASSUME NEW r \in 1..n, NEW s \in 1..n, r < s
        PROVE  SortKey(SortedList[r]) <= SortKey(SortedList[s])
    <2>1. At0(r) \in 1..n /\ At0(s) \in 1..n /\ SortedPosition(At0(r)) = r
          /\ SortedPosition(At0(s)) = s
          /\ SortedList[r] = list[At0(r)] /\ SortedList[s] = list[At0(s)]
      BY <1>3, <1>8
    <2>2. At0(r) # At0(s)
      BY <2>1, <1>8
    <2>3. ~SortsBefore(At0(s), At0(r))
      <3>1. SortsBefore(At0(s), At0(r)) => s < r
        BY <2>1, <1>6
      <3> QED BY <3>1, <1>8, <1>1
    <2>4. SortsBefore(At0(r), At0(s))
      BY <2>1, <2>2, <2>3, <1>7
    <2>5. SortKey(list[At0(r)]) \in Int /\ SortKey(list[At0(s)]) \in Int
      BY <2>1, <1>4
    <2> QED BY <2>1, <2>4, <2>5 DEF SortsBefore
  <1>9. ASSUME NEW r \in 1..n, NEW s \in 1..n, SortedList[r] = SortedList[s]
        PROVE  r = s
    <2>1. At0(r) \in 1..n /\ At0(s) \in 1..n /\ SortedPosition(At0(r)) = r
          /\ SortedPosition(At0(s)) = s
          /\ SortedList[r] = list[At0(r)] /\ SortedList[s] = list[At0(s)]
      BY <1>3, <1>9
    <2>2. At0(r) = At0(s)
      BY <2>1, <1>9 DEF Injective, n
    <2> QED BY <2>1, <2>2
  <1>10. ToSet(list) = {list[i] : i \in 1..n} /\ ToSet(SortedList) = {SortedList[r] : r \in 1..n}
    BY <1>1, <1>2 DEF ToSet
  <1>11. ASSUME NEW i \in 1..n PROVE \E r \in 1..n : SortedList[r] = list[i]
    <2> DEFINE r == SortedPosition(i)
    <2>1. r \in 1..n
      <3>1. Less(i) \in SUBSET ((1..n) \ {i})
        BY <1>1, <1>4 DEF Less
      <3>2. IsFiniteSet((1..n) \ {i}) /\ Cardinality((1..n) \ {i}) = n - 1
        <4>1. IsFiniteSet(1..n) /\ Cardinality(1..n) = IF 1 > n THEN 0 ELSE n - 1 + 1
          BY <1>1, FS_Interval
        <4>2. Cardinality(1..n) = n
          BY <4>1, <1>1
        <4> QED BY <4>1, <4>2, <1>11, FS_RemoveElement
      <3>3. Cardinality(Less(i)) <= n - 1
        BY <3>1, <3>2, FS_Subset
      <3> QED BY <3>3, <1>1, <1>5
    <2> HIDE DEF r
    <2>2. At0(r) \in 1..n /\ SortedPosition(At0(r)) = r /\ SortedList[r] = list[At0(r)]
      BY <2>1, <1>3
    <2>3. At0(r) = i
      <3> SUFFICES ASSUME At0(r) # i PROVE FALSE
        OBVIOUS
      <3>1. SortedPosition(At0(r)) < SortedPosition(i) \/ SortedPosition(i) < SortedPosition(At0(r))
        BY <2>2, <1>6, <1>7
      <3>2. SortedPosition(At0(r)) = SortedPosition(i) /\ SortedPosition(i) \in Nat
        BY <2>2, <1>5 DEF r
      <3> QED BY <3>1, <3>2
    <2> QED BY <2>1, <2>2, <2>3
  <1>12. ToSet(SortedList) = ToSet(list)
    <2>1. \A r \in 1..n : SortedList[r] \in {list[i] : i \in 1..n}
      BY <1>3
    <2> QED BY <2>1, <1>10, <1>11
  <1>13. Injective(SortedList)
    BY <1>2, <1>9 DEF Injective
  <1>14. \A r \in 1..n : SortedList[r] \in ToSet(list)
    BY <1>3, <1>10
  <1> QED BY <1>8, <1>12, <1>13, <1>14 DEF n

\* Blocks that cover the heap, sorted by address, lie one after the other.
LEMMA CompactHeap ==
    ASSUME HInv, NEW limit \in {0, 1}, rm_compact(limit)
    PROVE  HInv'
  <1> DEFINE n == Len(list)
             L == SortedList
  <1>1. /\ pc = "idle" /\ pc' = "pass" /\ list' = L
        /\ UNCHANGED <<memory, size, type, unused, memory_top, header_used_count, free_size,
                       req>>
    BY DEF rm_compact, Running, statVars, rangeVars, clientVars
  <1>2. Inv'
    BY CompactInv DEF HInv
  <1>3. /\ TypeOK /\ Injective(list) /\ n \in Nat /\ n >= 1
        /\ ToSet(list) \subseteq Headers /\ memory_top \in Nat
        /\ memory \in [Headers -> Int] /\ size \in [Headers -> Int]
    BY ListFacts
  <1>4. /\ L \in Seq(Headers) /\ Len(L) = n /\ DOMAIN L = 1..n
    BY <1>3, SortedListType
  <1>5. /\ Injective(L) /\ ToSet(L) = ToSet(list)
        /\ \A r, s \in 1..n : r < s => SortKey(L[r]) <= SortKey(L[s])
        /\ \A r \in 1..n : L[r] \in ToSet(list)
    BY <1>3, SortedOrder
  <1> HIDE DEF n, L
  <1>6. HandlesListed'
    <2>1. Held' = Held
      BY <1>1 DEF Held
    <2>2. {h \in ToSet(list) : type[h] # FREE} = Held /\ header_used_count = Cardinality(Held)
      BY DEF HInv, HandlesListed
    <2>3. \A i, j \in DOMAIN L : L[i] = L[j] => i = j
      BY <1>4, <1>5 DEF Injective
    <2> QED BY <2>1, <2>2, <2>3, <1>1, <1>5 DEF HandlesListed
  <1>7. BlocksOK'
    <2>1. ASSUME NEW h \in ToSet(list), memory[h] = NULL PROVE L = <<h>>
      <3>1. list = <<h>>
        BY <2>1 DEF HInv, BlocksOK
      <3>2. n = 1
        BY <3>1 DEF n
      <3>3. ToSet(list) = {h}
        BY <3>1 DEF ToSet
      <3>4. L[1] = h
        BY <3>2, <3>3, <1>5
      <3> QED BY <3>2, <3>4, <1>4
    <2> QED BY <2>1, <1>1, <1>5 DEF HInv, BlocksOK
  <1>8. UnusedOK'
    BY <1>1, <1>5 DEF HInv, UnusedOK
  <1>9. SizesOK'
    BY <1>1 DEF HInv, SizesOK
  <1>10. SortedTile'
    <2> SUFFICES ASSUME memory[L[1]] # NULL
                 PROVE  /\ memory[L[1]] = memory_bottom
                        /\ End(L[n]) = memory_top
                        /\ \A i \in 1..(n - 1) : End(L[i]) = memory[L[i + 1]]
      <3>1. \A i \in 1..n : memory[L[i]] + 0 = memory[L[i]]
        BY <1>3, <1>5
      <3>2. 1 \in 1..n /\ n \in 1..n
            /\ \A i \in 1..(n - 1) : i \in 1..n /\ i + 1 \in 1..n
        BY <1>3
      <3> QED BY <3>1, <3>2, <1>1, <1>4 DEF SortedTile, At, EndAt, End
    <2>1. 1 \in 1..n /\ n \in 1..n
      BY <1>3
    <2>2. \A h \in ToSet(list) : memory[h] # NULL /\ size[h] >= FreeBlockSize
      <3>1. L[1] \in ToSet(list)
        BY <2>1, <1>5
      <3>2. ASSUME NEW h \in ToSet(list) PROVE memory[h] # NULL
        <4> SUFFICES ASSUME memory[h] = NULL PROVE FALSE
          OBVIOUS
        <4>1. list = <<h>>
          BY DEF HInv, BlocksOK
        <4>2. ToSet(list) = {h}
          BY <4>1 DEF ToSet
        <4> QED BY <4>2, <3>1
      <3> QED BY <3>2 DEF HInv, BlocksOK
    <2>3. ListedBlocks = ToSet(list) /\ ListedBlocks = {L[r] : r \in 1..n}
      <3>1. ToSet(L) = {L[r] : r \in 1..n}
        BY <1>4 DEF ToSet
      <3> QED BY <3>1, <2>2, <1>5 DEF ListedBlocks
    <2>4. /\ \A g, h \in ListedBlocks :
                g # h => End(g) <= memory[h] \/ End(h) <= memory[g]
          /\ \A h \in ListedBlocks : size[h] > 0 /\ End(h) <= memory_top
          /\ {memory[h] : h \in ListedBlocks} \cup {memory_top}
               = {End(h) : h \in ListedBlocks} \cup {memory_bottom}
      BY <1>1 DEF HInv, BlocksTile
    <2>5. ASSUME NEW r \in 1..n
          PROVE  /\ L[r] \in ListedBlocks /\ memory[L[r]] \in Int /\ size[L[r]] \in Int
                 /\ size[L[r]] > 0 /\ End(L[r]) = memory[L[r]] + size[L[r]]
                 /\ End(L[r]) <= memory_top /\ SortKey(L[r]) = memory[L[r]]
      BY <2>2, <2>3, <2>4, <1>3, <1>5 DEF End, SortKey
    <2>6. ASSUME NEW r \in 1..n, NEW s \in 1..n, r < s
          PROVE  End(L[r]) <= memory[L[s]]
      <3>1. memory[L[r]] <= memory[L[s]]
        BY <2>5, <2>6, <1>5
      <3>2. L[r] # L[s]
        BY <2>6, <1>4, <1>5 DEF Injective
      <3>3. End(L[r]) <= memory[L[s]] \/ End(L[s]) <= memory[L[r]]
        BY <3>2, <2>4, <2>5
      <3> QED BY <3>1, <3>3, <2>5
    <2>7. ASSUME NEW r \in 1..n
          PROVE  \/ memory[L[r]] = memory_bottom
                 \/ \E s \in 1..n : memory[L[r]] = End(L[s])
      BY <2>3, <2>4
    <2>8. memory_top = memory_bottom \/ \E s \in 1..n : memory_top = End(L[s])
      BY <2>3, <2>4
    <2>9. memory[L[1]] = memory_bottom
      <3> SUFFICES ASSUME NEW s \in 1..n, memory[L[1]] = End(L[s]) PROVE FALSE
        BY <2>1, <2>7
      <3>1. s = 1 \/ End(L[1]) <= memory[L[s]]
        BY <2>1, <2>6, <1>3
      <3> QED BY <3>1, <2>1, <2>5
    <2>10. ASSUME NEW i \in 1..(n - 1) PROVE End(L[i]) = memory[L[i + 1]]
      <3>1. i \in 1..n /\ i + 1 \in 1..n
        BY <1>3
      <3>2. End(L[i]) <= memory[L[i + 1]]
        BY <3>1, <2>6
      <3>3. memory[L[i + 1]] # memory_bottom
        <4>1. memory[L[1]] <= memory[L[i]]
          <5>1. CASE i = 1
            BY <5>1, <2>1, <2>5
          <5>2. CASE i # 1
            <6>1. End(L[1]) <= memory[L[i]]
              BY <5>2, <3>1, <2>1, <2>6, <1>3
            <6> QED BY <6>1, <3>1, <2>1, <2>5
          <5> QED BY <5>1, <5>2
        <4> QED BY <4>1, <3>1, <3>2, <2>1, <2>5, <2>9
      <3>4. PICK s \in 1..n : memory[L[i + 1]] = End(L[s])
        BY <3>1, <3>3, <2>7
      <3>5. ~(s < i)
        <4>1. s < i => End(L[s]) <= memory[L[i]]
          BY <3>1, <2>6
        <4> QED BY <4>1, <3>1, <3>2, <3>4, <2>5
      <3>6. ~(s > i)
        <4>1. s > i + 1 => End(L[i + 1]) <= memory[L[s]]
          BY <3>1, <2>6
        <4>2. s = i + 1 \/ s > i + 1 \/ s <= i
          BY <3>1
        <4>3. s # i + 1
          BY <3>1, <3>4, <2>5
        <4>4. ~(s > i + 1)
          BY <4>1, <3>1, <3>4, <2>5
        <4> QED BY <4>2, <4>3, <4>4, <3>1
      <3> QED BY <3>1, <3>4, <3>5, <3>6
    <2>11. End(L[n]) = memory_top
      <3>1. memory_top # memory_bottom
        BY <2>1, <2>5, <2>9, <1>3
      <3>2. PICK s \in 1..n : memory_top = End(L[s])
        BY <3>1, <2>8
      <3>3. CASE s = n
        BY <3>2, <3>3
      <3>4. CASE s # n
        <4>1. End(L[s]) <= memory[L[n]]
          BY <3>4, <2>1, <2>6, <1>3
        <4> QED BY <4>1, <3>2, <2>1, <2>5, <1>3
      <3> QED BY <3>3, <3>4
    <2> QED BY <2>9, <2>10, <2>11
  <1> QED BY <1>1, <1>2, <1>6, <1>7, <1>8, <1>9, <1>10 DEF HInv, SlotsOK

-----------------------------------------------------------------------------
(* rm_malloc *)

LEMMA HeldFinite ==
    ASSUME TypeOK
    PROVE  IsFiniteSet(Held) /\ Cardinality(Held) \in Nat /\ Held \subseteq Headers
           /\ req \in [Headers -> Nat]
  <1>1. Held \subseteq Headers
    BY DEF Held
  <1>2. IsFiniteSet(Headers)
    BY FS_Interval, MaxHeaderAssumption DEF Headers
  <1>3. IsFiniteSet(Held)
    BY <1>1, <1>2, FS_Subset
  <1> QED BY <1>1, <1>3, FS_CardinalityType DEF TypeOK

\* The client gets one more handle.
LEMMA MoreHeld ==
    ASSUME HInv, NEW h \in Headers, h \notin Held, NEW a, NEW n \in Sizes, HandOut(h, a, n)
    PROVE  Held' = Held \cup {h} /\ header_used_count' = Cardinality(Held')
  <1>1. TypeOK /\ header_used_count = Cardinality(Held)
    BY DEF HInv, Inv, HandlesListed
  <1>2. IsFiniteSet(Held) /\ Cardinality(Held) \in Nat /\ req \in [Headers -> Nat]
    BY <1>1, HeldFinite
  <1>3. n \in Nat /\ n > 0
    BY SizesAssumption
  <1>4. Held' = Held \cup {h}
    <2>1. req' = [req EXCEPT ![h] = n]
      BY DEF HandOut
    <2>2. \A g \in Headers : req'[g] = IF g = h THEN n ELSE req[g]
      BY <2>1, <1>2
    <2> QED BY <2>2, <1>3 DEF Held
  <1>5. Cardinality(Held \cup {h}) = Cardinality(Held) + 1
    BY <1>2, FS_AddElement
  <1> QED BY <1>1, <1>4, <1>5 DEF HandOut

\* The header rm_header_find_free takes is not that of a block.
LEMMA TakenHeader ==
    ASSUME HInv, NEW h, h = rm_header_find_free, h # NoHeader, ~Aliased, TakeHeader
    PROVE  /\ h \in Headers /\ unused' = <<>>
           /\ Inserted(h) \in Seq(Headers) /\ Injective(Inserted(h))
           /\ ToSet(Inserted(h)) = ToSet(list) \cup {h}
           /\ \A g \in ToSet(list) : g # h => memory[g] # NULL
           /\ h \notin ListedBlocks /\ h \notin Held
           /\ h \in ToSet(list) => list = <<h>> /\ memory[h] = NULL
  <1>1. TypeOK /\ list \in Seq(Headers) /\ Injective(list) /\ Len(list) >= 1 /\ Len(list) \in Nat
        /\ unused \in Seq(Headers)
    BY ListFacts DEF TypeOK
  <1>2. h \in Headers
    BY <1>1, TakeHeaderType
  <1>3. Len(unused) <= 1 /\ \A g \in ToSet(unused) : g \in ToSet(list) => memory[g] = NULL
    BY DEF HInv, UnusedOK
  <1>4. unused' = <<>> /\ (unused # <<>> => unused = <<h>>)
    <2>1. CASE unused = <<>>
      BY <2>1 DEF TakeHeader
    <2>2. CASE unused # <<>>
      <3>0. Len(unused) \in Nat /\ Len(unused) # 0
        BY <2>2, <1>1
      <3>1. Len(unused) = 1 /\ h = Head(unused) /\ unused' = Tail(unused)
        <4>0. PICK l : l = Len(unused)
          OBVIOUS
        <4>1. Len(unused) = 1
          <5>1. l \in Nat /\ l # 0 /\ l <= 1
            BY <4>0, <3>0, <1>3
          <5>2. l = 1
            BY <5>1
          <5> QED BY <5>2, <4>0
        <4>2. unused' = Tail(unused)
          BY <2>2 DEF TakeHeader
        <4>3. h = Head(unused)
          BY <2>2 DEF rm_header_find_free
        <4> QED BY <4>1, <4>2, <4>3
      <3> QED BY <3>1, <1>1
    <2> QED BY <2>1, <2>2
  <1>5. ASSUME NEW g \in ToSet(list), memory[g] = NULL
        PROVE  list = <<g>> /\ unused = <<g>> /\ type[g] = FREE
    BY <1>5 DEF HInv, BlocksOK
  <1>6. ASSUME h \in ToSet(list) PROVE list = <<h>> /\ memory[h] = NULL /\ type[h] = FREE
    <2>1. unused # <<>>
      <3> SUFFICES ASSUME unused = <<>> PROVE FALSE
        OBVIOUS
      <3>1. h = header_bottom + 1
        BY DEF rm_header_find_free
      <3> QED BY <3>1, <1>6 DEF Aliased
    <2>2. h \in ToSet(unused)
      BY <2>1, <1>4 DEF ToSet
    <2>3. memory[h] = NULL
      BY <2>2, <1>3, <1>6
    <2> QED BY <2>3, <1>5, <1>6
  <1>7. ASSUME NEW g \in ToSet(list), g # h PROVE memory[g] # NULL
    <2> SUFFICES ASSUME memory[g] = NULL PROVE FALSE
      OBVIOUS
    <2>1. unused = <<g>>
      BY <1>5
    <2>2. unused = <<h>>
      BY <2>1, <1>4
    <2> QED BY <2>1, <2>2, <1>7
  <1>8. h \notin ListedBlocks
    BY <1>6 DEF ListedBlocks
  <1>9. h \notin Held
    <2>1. Held = {g \in ToSet(list) : type[g] # FREE}
      BY DEF HInv, HandlesListed
    <2> QED BY <2>1, <1>6
  <1>10. /\ Inserted(h) \in Seq(Headers) /\ Injective(Inserted(h))
         /\ ToSet(Inserted(h)) = ToSet(list) \cup {h}
    <2>1. Head(list) = list[1] /\ list[1] \in ToSet(list)
      BY <1>1 DEF ToSet
    <2>2. CASE h \in ToSet(list)
      <3>1. list = <<h>>
        BY <2>2, <1>6
      <3>2. Inserted(h) = list
        BY <3>1 DEF Inserted
      <3> QED BY <3>2, <2>2, <1>1
    <2>3. CASE h \notin ToSet(list)
      <3>1. Inserted(h) = Cons(h, list)
        BY <2>1, <2>3 DEF Inserted
      <3>2. /\ Cons(h, list) \in Seq(Headers) /\ ToSet(Cons(h, list)) = {h} \cup ToSet(list)
            /\ Injective(Cons(h, list))
        BY <2>3, <1>1, <1>2, ConsParts, Zenon
      <3> QED BY <3>1, <3>2
    <2> QED BY <2>2, <2>3
  <1> QED BY <1>2, <1>4, <1>6, <1>7, <1>8, <1>9, <1>10

\* The locals of rm_compact are left alone.
LEMMA IdleSizes ==
    ASSUME HInv, pc = "idle", UNCHANGED compactVars
    PROVE  SizesOK' /\ SortedTile'
  BY DEF HInv, SizesOK, SortedTile, compactVars, rangeVars

LEMMA MallocTopHeap ==
    ASSUME HInv, NEW n \in Sizes, MallocTop(n)
    PROVE  HInv'
  <1> DEFINE s == BlockSize(n)
  <1>0. PICK h : h = rm_header_find_free
    OBVIOUS
  <1>1. /\ pc = "idle" /\ pc' = "idle" /\ UNCHANGED compactVars /\ slots' = slots
        /\ h # NoHeader /\ ~Aliased /\ TakeHeader /\ list' = Inserted(h)
        /\ memory' = [memory EXCEPT ![h] = memory_top]
        /\ size' = [size EXCEPT ![h] = s]
        /\ type' = [type EXCEPT ![h] = UNLOCKED]
        /\ memory_top' = memory_top + s
        /\ HandOut(h, memory_top, n)
    BY <1>0 DEF MallocTop, Running, compactVars
  <1>2. Inv'
    BY MallocTopInv DEF HInv
  <1>3. /\ TypeOK /\ memory \in [Headers -> Int] /\ size \in [Headers -> Int]
        /\ type \in [Headers -> BlockTypes] /\ memory_top \in Nat
        /\ ToSet(list) \subseteq Headers
    BY ListFacts
  <1>4. s \in Nat /\ s >= FreeBlockSize /\ FreeBlockSize > 0
    BY SizesAssumption DEF BlockSize
  <1>5. /\ h \in Headers /\ unused' = <<>>
        /\ Inserted(h) \in Seq(Headers) /\ Injective(Inserted(h))
        /\ ToSet(Inserted(h)) = ToSet(list) \cup {h}
        /\ \A g \in ToSet(list) : g # h => memory[g] # NULL
        /\ h \notin ListedBlocks /\ h \notin Held
    BY <1>0, <1>1, TakenHeader
  <1>6. SizesOK' /\ SortedTile'
    BY <1>1, IdleSizes
  <1> HIDE DEF s
  <1>7. /\ memory'[h] = memory_top /\ size'[h] = s /\ type'[h] = UNLOCKED
        /\ \A g \in Headers : g # h => memory'[g] = memory[g] /\ size'[g] = size[g]
                                       /\ type'[g] = type[g]
    BY <1>1, <1>3, <1>5
  <1>8. memory_top >= memory_bottom /\ memory_bottom > 0 /\ memory_top > 0
    <2>1. BlocksTile
      BY <1>1 DEF HInv
    <2>2. CASE ListedBlocks = {}
      <3>1. memory_top = memory_bottom
        BY <2>1, <2>2, <1>1 DEF BlocksTile
      <3> QED BY <3>1, SlotCount
    <2>3. CASE ListedBlocks # {}
      <3>1. memory_bottom \in Nat \ {0} /\ ListedBlocks \subseteq Headers
        BY SlotCount, <1>3 DEF ListedBlocks
      <3>2. memory_bottom \in {memory[g] : g \in ListedBlocks} \cup {memory_top}
        BY <2>1, <1>1 DEF BlocksTile
      <3>3. CASE memory_bottom = memory_top
        BY <3>3, <3>1
      <3>4. CASE memory_bottom # memory_top
        <4>1. PICK g \in ListedBlocks : memory_bottom = memory[g]
          BY <3>2, <3>4
        <4>2. size[g] > 0 /\ memory[g] + size[g] <= memory_top
          BY <2>1, <1>1 DEF BlocksTile, End
        <4> QED BY <4>1, <4>2, <3>1, <1>3
      <3> QED BY <3>3, <3>4
    <2> QED BY <2>2, <2>3
  <1>9. ToSet(list') = ToSet(list) \cup {h} /\ ListedBlocks' = ListedBlocks \cup {h}
    <2>1. ToSet(list') = ToSet(list) \cup {h}
      BY <1>1, <1>5
    <2>2. memory'[h] # NULL
      BY <1>7, <1>8, <1>3 DEF NULL
    <2> QED BY <2>1, <2>2, <1>3, <1>5, <1>7 DEF ListedBlocks
  <1>10. HandlesListed'
    <2>1. Held' = Held \cup {h} /\ header_used_count' = Cardinality(Held')
      BY <1>1, <1>5, MoreHeld
    <2>2. Held = {g \in ToSet(list) : type[g] # FREE}
      BY DEF HInv, HandlesListed
    <2>3. {g \in ToSet(list') : type'[g] # FREE} = Held'
      BY <2>1, <2>2, <1>3, <1>7, <1>9 DEF FREE, UNLOCKED
    <2>4. \A i, j \in DOMAIN list' : list'[i] = list'[j] => i = j
      BY <1>1, <1>5 DEF Injective
    <2> QED BY <2>1, <2>3, <2>4 DEF HandlesListed
  <1>11. BlocksOK' /\ UnusedOK'
    <2>1. ASSUME NEW g \in ToSet(list') PROVE memory'[g] # NULL /\ size'[g] >= FreeBlockSize
      <3>1. CASE g = h
        BY <3>1, <1>3, <1>4, <1>7, <1>8 DEF NULL
      <3>2. CASE g # h
        <4>1. g \in ToSet(list) /\ memory[g] # NULL
          BY <3>2, <2>1, <1>5, <1>9
        <4>2. size[g] >= FreeBlockSize
          BY <4>1 DEF HInv, BlocksOK
        <4> QED BY <4>1, <4>2, <3>2, <1>3, <1>7
      <3> QED BY <3>1, <3>2
    <2>2. Len(unused') <= 1 /\ ToSet(unused') = {}
      BY <1>5 DEF ToSet
    <2> QED BY <2>1, <2>2 DEF BlocksOK, UnusedOK
  <1>12. BlocksTile'
    <2>1. /\ \A g, k \in ListedBlocks :
                g # k => End(g) <= memory[k] \/ End(k) <= memory[g]
          /\ \A g \in ListedBlocks : size[g] > 0 /\ End(g) <= memory_top
          /\ {memory[g] : g \in ListedBlocks} \cup {memory_top}
               = {End(g) : g \in ListedBlocks} \cup {memory_bottom}
      BY <1>1 DEF HInv, BlocksTile
    <2>2. \A g \in ListedBlocks : /\ memory'[g] = memory[g] /\ size'[g] = size[g]
                                  /\ End(g)' = End(g) /\ End(g) \in Int /\ g # h
      BY <1>3, <1>5, <1>7 DEF End, ListedBlocks
    <2>3. memory'[h] = memory_top /\ End(h)' = memory_top + s /\ size'[h] > 0
      <3>1. End(h)' = memory'[h] + size'[h]
        BY DEF End
      <3>2. memory'[h] = memory_top /\ size'[h] = s
        BY <1>7
      <3>3. s > 0
        BY <1>4, SizesAssumption
      <3>4. End(h)' = memory_top + s
        BY <3>1, <3>2, Zenon
      <3> QED BY <3>2, <3>3, <3>4
    <2>4. ASSUME NEW g \in ListedBlocks', NEW k \in ListedBlocks', g # k
          PROVE  End(g)' <= memory'[k] \/ End(k)' <= memory'[g]
      BY <2>1, <2>2, <2>3, <2>4, <1>9
    <2>5. ASSUME NEW g \in ListedBlocks' PROVE size'[g] > 0 /\ End(g)' <= memory_top'
      BY <2>1, <2>2, <2>3, <1>1, <1>3, <1>4, <1>9
    <2>6. {memory'[g] : g \in ListedBlocks'} \cup {memory_top'}
             = {End(g)' : g \in ListedBlocks'} \cup {memory_bottom}
      <3>1. {memory'[g] : g \in ListedBlocks'} = {memory[g] : g \in ListedBlocks} \cup {memory_top}
        BY <2>2, <2>3, <1>9
      <3>2. {End(g)' : g \in ListedBlocks'} = {End(g) : g \in ListedBlocks} \cup {memory_top + s}
        BY <2>2, <2>3, <1>9
      <3> QED BY <3>1, <3>2, <2>1, <1>1
    <2> QED BY <2>4, <2>5, <2>6 DEF BlocksTile
  <1>13. SlotsOK'
    <2>1. \A k \in Slots : SlotOK(slots[k], k, ListedBlocks, type, size)
      BY <1>1 DEF HInv, SlotsOK, Linked
    <2>2. \A g \in ListedBlocks : type'[g] = type[g] /\ size'[g] = size[g]
      BY <1>3, <1>5, <1>7 DEF ListedBlocks
    <2>3. ASSUME NEW k \in Slots PROVE SlotOK(slots'[k], k, ListedBlocks', type', size')
      BY <2>1, <2>2, <1>1, <1>9 DEF SlotOK
    <2> QED BY <2>3, <1>1 DEF SlotsOK, Linked
  <1> QED BY <1>2, <1>6, <1>10, <1>11, <1>12, <1>13 DEF HInv

\* No block lies below memory_bottom.
LEMMA BlocksAbove ==
    ASSUME HInv, pc = "idle", NEW h \in ListedBlocks
    PROVE  /\ memory[h] >= memory_bottom /\ size[h] >= FreeBlockSize
           /\ memory[h] \in Int /\ size[h] \in Int /\ memory_bottom \in Nat \ {0}
           /\ h \in ToSet(list) /\ h \in Headers
  <1>1. /\ TypeOK /\ Injective(list) /\ Len(list) \in Nat /\ Len(list) >= 1
        /\ memory \in [Headers -> Int] /\ size \in [Headers -> Int]
        /\ ToSet(list) \subseteq Headers
    BY ListFacts
  <1>2. h \in ToSet(list) /\ memory[h] # NULL /\ h \in Headers
    BY <1>1 DEF ListedBlocks
  <1>3. \A g \in ToSet(list) : memory[g] # NULL /\ size[g] >= FreeBlockSize
    <2>1. ASSUME NEW g \in ToSet(list) PROVE memory[g] # NULL
      <3> SUFFICES ASSUME memory[g] = NULL PROVE FALSE
        OBVIOUS
      <3>1. list = <<g>>
        BY <2>1 DEF HInv, BlocksOK
      <3>2. ToSet(list) = {g}
        BY <3>1 DEF ToSet
      <3> QED BY <3>2, <1>2
    <2> QED BY <2>1 DEF HInv, BlocksOK
  <1>4. ListedBlocks = ToSet(list)
    BY <1>3 DEF ListedBlocks
  <1>5. /\ ToSet(SortedList) = ToSet(list)
        /\ \A r, s \in 1..Len(list) :
              r < s => SortKey(SortedList[r]) <= SortKey(SortedList[s])
        /\ \A r \in 1..Len(list) : SortedList[r] \in ToSet(list)
    BY <1>1, SortedOrder
  <1>6. SortedList \in Seq(Headers) /\ DOMAIN SortedList = 1..Len(list)
    BY <1>1, SortedListType
  <1>7. PICK l : l = SortedList[1]
    OBVIOUS
  <1>8. l \in ToSet(list) /\ \A g \in ToSet(list) : memory[l] <= memory[g]
    <2>1. l \in ToSet(list)
      BY <1>1, <1>5, <1>7
    <2>2. ASSUME NEW g \in ToSet(list) PROVE memory[l] <= memory[g]
      <3>1. PICK r \in 1..Len(list) : g = SortedList[r]
        BY <1>5, <1>6 DEF ToSet
      <3>2. \A x \in ToSet(list) : SortKey(x) = memory[x] /\ memory[x] \in Int
        BY <1>1, <1>3 DEF SortKey
      <3>3. CASE r = 1
        BY <3>1, <3>2, <3>3, <1>7
      <3>4. CASE r # 1
        <4>1. SortKey(l) <= SortKey(g)
          BY <3>1, <3>4, <1>1, <1>5, <1>7
        <4> QED BY <4>1, <3>2, <2>1
      <3> QED BY <3>3, <3>4
    <2> QED BY <2>1, <2>2
  <1>9. /\ \A g \in ListedBlocks : size[g] > 0
        /\ {memory[g] : g \in ListedBlocks} \cup {memory_top}
             = {End(g) : g \in ListedBlocks} \cup {memory_bottom}
    BY DEF HInv, BlocksTile
  <1>10. memory[l] = memory_bottom
    <2> SUFFICES ASSUME memory[l] # memory_bottom PROVE FALSE
      OBVIOUS
    <2>1. PICK g \in ListedBlocks : memory[l] = End(g)
      BY <1>4, <1>8, <1>9
    <2>2. memory[l] <= memory[g] /\ memory[g] \in Int /\ size[g] \in Int /\ size[g] > 0
      BY <1>1, <1>4, <1>8, <1>9
    <2> QED BY <2>1, <2>2 DEF End
  <1>11. memory_bottom <= memory[h] /\ size[h] >= FreeBlockSize
    BY <1>2, <1>3, <1>8, <1>10
  <1>12. memory[h] \in Int /\ size[h] \in Int /\ memory_bottom \in Nat \ {0}
    BY <1>1, <1>2, SlotCount
  <1> QED BY <1>2, <1>11, <1>12

\* What freeblock_find finds in a slot.
LEMMA SlotFacts ==
    ASSUME HInv, pc = "idle", NEW k \in Slots, NEW p \in DOMAIN slots[k], NEW b,
           b = slots[k][p]
    PROVE  /\ b \in ListedBlocks /\ type[b] = FREE /\ b \notin Held
           /\ \A j \in Slots : j # k => b \notin ToSet(slots[j])
           /\ RemoveAt(slots[k], p) \in Seq(Headers)
           /\ Injective(RemoveAt(slots[k], p))
           /\ ToSet(RemoveAt(slots[k], p)) = ToSet(slots[k]) \ {b}
           /\ \A j \in Slots : SlotOK(slots[j], j, ListedBlocks, type, size)
  <1>1. \A j \in Slots : SlotOK(slots[j], j, ListedBlocks, type, size)
    BY DEF HInv, SlotsOK, Linked
  <1>2. b \in ToSet(slots[k])
    BY DEF ToSet
  <1>3. b \in ListedBlocks /\ type[b] = FREE /\ rm_log2(size[b]) = k
    BY <1>1, <1>2 DEF SlotOK
  <1>4. b \notin Held
    BY <1>3 DEF HInv, HandlesListed
  <1>5. \A j \in Slots : b \in ToSet(slots[j]) => j = k
    BY <1>1, <1>3 DEF SlotOK
  <1>6. slots[k] \in Seq(Headers) /\ Injective(slots[k])
    BY <1>1 DEF SlotOK, HInv, Inv, TypeOK
  <1>7. /\ RemoveAt(slots[k], p) \in Seq(Headers)
        /\ Injective(RemoveAt(slots[k], p))
        /\ ToSet(RemoveAt(slots[k], p)) = ToSet(slots[k]) \ {b}
    BY <1>6, RemoveAtParts
  <1> QED BY <1>1, <1>3, <1>4, <1>5, <1>7

LEMMA MallocLosesBlockHeap ==
    ASSUME HInv, NEW n \in Sizes, MallocLosesBlock(n)
    PROVE  HInv'
  <1>1. PICK k \in Slots : \E p \in DOMAIN slots[k] :
            slots' = [slots EXCEPT ![k] = RemoveAt(@, p)]
    BY DEF MallocLosesBlock
  <1>2. PICK p \in DOMAIN slots[k] : slots' = [slots EXCEPT ![k] = RemoveAt(@, p)]
    BY <1>1
  <1>3. /\ pc = "idle"
        /\ UNCHANGED <<memory, size, type, list, unused, header_bottom, memory_top,
                       header_used_count, compactVars, req>>
    BY DEF MallocLosesBlock, Running, headerVars, statVars, clientVars
  <1>4. Inv'
    BY MallocNullInv DEF HInv
  <1>5. HandlesListed' /\ BlocksOK' /\ UnusedOK' /\ BlocksTile'
    <2>1. pc' = pc /\ ListedBlocks' = ListedBlocks /\ Held' = Held
      BY <1>3 DEF ListedBlocks, Held, compactVars
    <2>2. \A h : End(h)' = End(h)
      BY <1>3 DEF End
    <2>3. HandlesListed' /\ BlocksOK' /\ UnusedOK'
      BY <1>3, <2>1 DEF HInv, HandlesListed, BlocksOK, UnusedOK
    <2>4. BlocksTile'
      BY <1>3, <2>1, <2>2 DEF HInv, BlocksTile
    <2> QED BY <2>3, <2>4
  <1>6. SizesOK' /\ SortedTile'
    BY <1>3, IdleSizes
  <1>7. SlotsOK'
    <2>1. PICK b : b = slots[k][p]
      OBVIOUS
    <2>2. /\ Injective(RemoveAt(slots[k], p))
          /\ ToSet(RemoveAt(slots[k], p)) = ToSet(slots[k]) \ {b}
          /\ \A j \in Slots : SlotOK(slots[j], j, ListedBlocks, type, size)
      BY <1>3, <2>1, SlotFacts
    <2>3. slots \in [Slots -> Seq(Headers)]
      BY DEF HInv, Inv, TypeOK
    <2>4. \A j \in Slots : slots'[j] = IF j = k THEN RemoveAt(slots[k], p) ELSE slots[j]
      BY <1>2, <2>3
    <2>5. ASSUME NEW j \in Slots PROVE SlotOK(slots'[j], j, ListedBlocks, type, size)
      BY <2>2, <2>4 DEF SlotOK
    <2>6. pc' = pc /\ ListedBlocks' = ListedBlocks /\ type' = type /\ size' = size
      BY <1>3 DEF ListedBlocks, compactVars
    <2> QED BY <2>5, <2>6, <1>3 DEF SlotsOK, Linked
  <1> QED BY <1>4, <1>5, <1>6, <1>7 DEF HInv

LEMMA MallocFreeBlockHeap ==
    ASSUME HInv, NEW n \in Sizes, MallocFreeBlock(n)
    PROVE  HInv'
  <1>0. PICK k \in Slots, r \in Slots : \E p \in DOMAIN slots[k] :
            SplitFreeBlock(n, k, p, r)
    BY DEF MallocFreeBlock
  <1>p. PICK p \in DOMAIN slots[k] : SplitFreeBlock(n, k, p, r)
    BY <1>0
  <1>c. PICK h, b, s, d, m : /\ h = rm_header_find_free /\ b = slots[k][p]
                             /\ s = BlockSize(n) /\ d = size[b] - s /\ m = memory[b]
    OBVIOUS
  <1>1. /\ pc = "idle" /\ pc' = "idle" /\ UNCHANGED compactVars /\ memory_top' = memory_top
        /\ h # NoHeader /\ ~Aliased /\ TakeHeader /\ list' = Inserted(h)
        /\ d >= FreeBlockSize /\ r = rm_log2(d)
        /\ memory' = [memory EXCEPT ![h] = m, ![b] = m + d]
        /\ size' = [size EXCEPT ![h] = d, ![b] = s]
        /\ type' = [type EXCEPT ![h] = FREE, ![b] = UNLOCKED]
        /\ slots' = Push([slots EXCEPT ![k] = RemoveAt(@, p)], r, h)
        /\ HandOut(b, m + d, n)
    BY <1>p, <1>c DEF SplitFreeBlock, CanShrink, Running, compactVars
  <1>2. Inv'
    BY MallocFreeBlockInv DEF HInv
  <1>3. /\ TypeOK /\ memory \in [Headers -> Int] /\ size \in [Headers -> Int]
        /\ type \in [Headers -> BlockTypes] /\ memory_top \in Nat
        /\ ToSet(list) \subseteq Headers
    BY ListFacts
  <1>4. s \in Nat /\ s >= FreeBlockSize /\ FreeBlockSize \in Nat /\ FreeBlockSize > 0
    BY <1>c, SizesAssumption DEF BlockSize
  <1>5. /\ h \in Headers /\ unused' = <<>>
        /\ Inserted(h) \in Seq(Headers) /\ Injective(Inserted(h))
        /\ ToSet(Inserted(h)) = ToSet(list) \cup {h}
        /\ \A g \in ToSet(list) : g # h => memory[g] # NULL
        /\ h \notin ListedBlocks /\ h \notin Held
        /\ h \in ToSet(list) => list = <<h>> /\ memory[h] = NULL
    BY <1>c, <1>1, TakenHeader
  <1>6. /\ b \in ListedBlocks /\ type[b] = FREE /\ b \notin Held
        /\ \A j \in Slots : j # k => b \notin ToSet(slots[j])
        /\ RemoveAt(slots[k], p) \in Seq(Headers)
        /\ Injective(RemoveAt(slots[k], p))
        /\ ToSet(RemoveAt(slots[k], p)) = ToSet(slots[k]) \ {b}
        /\ \A j \in Slots : SlotOK(slots[j], j, ListedBlocks, type, size)
    <2>1. pc = "idle" /\ b = slots[k][p]
      BY <1>1, <1>c
    <2> QED BY <2>1, SlotFacts, Zenon
  <1>7. /\ m >= memory_bottom /\ m \in Int /\ memory_bottom \in Nat \ {0}
        /\ b \in ToSet(list) /\ b \in Headers /\ size[b] \in Int /\ memory[b] # NULL
    BY <1>1, <1>6, <1>c, BlocksAbove DEF ListedBlocks
  <1>8. h # b /\ h \notin ToSet(list)
    <2>1. h # b
      BY <1>5, <1>6
    <2>2. h \in ToSet(list) => ToSet(list) = {h}
      BY <1>5 DEF ToSet
    <2> QED BY <2>1, <2>2, <1>7
  <1>9. d \in Int /\ d > 0 /\ size[b] = d + s /\ m > 0 /\ m + d > 0
    <2>1. d \in Int /\ size[b] = d + s
      BY <1>c, <1>4, <1>7
    <2> QED BY <2>1, <1>1, <1>4, <1>7
  <1>10. /\ memory'[h] = m /\ size'[h] = d /\ type'[h] = FREE
         /\ memory'[b] = m + d /\ size'[b] = s /\ type'[b] = UNLOCKED
         /\ \A g \in Headers : g # h /\ g # b =>
               memory'[g] = memory[g] /\ size'[g] = size[g] /\ type'[g] = type[g]
    BY <1>1, <1>3, <1>5, <1>7, <1>8
  <1>11. ToSet(list') = ToSet(list) \cup {h} /\ ListedBlocks' = ListedBlocks \cup {h}
    <2>1. ToSet(list') = ToSet(list) \cup {h}
      BY <1>1, <1>5
    <2>2. memory'[h] # NULL /\ memory'[b] # NULL
      BY <1>9, <1>10 DEF NULL
    <2>3. \A g \in ToSet(list) : memory'[g] # NULL <=> memory[g] # NULL
      BY <2>2, <1>3, <1>7, <1>8, <1>10
    <2> QED BY <2>1, <2>2, <2>3 DEF ListedBlocks
  <1>12. HandlesListed'
    <2>1. Held' = Held \cup {b} /\ header_used_count' = Cardinality(Held')
      BY <1>1, <1>6, <1>7, MoreHeld
    <2>2. Held = {g \in ToSet(list) : type[g] # FREE}
      BY DEF HInv, HandlesListed
    <2>3. {g \in ToSet(list') : type'[g] # FREE} = Held'
      BY <2>1, <2>2, <1>3, <1>7, <1>8, <1>10, <1>11 DEF FREE, UNLOCKED
    <2>4. \A i, j \in DOMAIN list' : list'[i] = list'[j] => i = j
      BY <1>1, <1>5 DEF Injective
    <2> QED BY <2>1, <2>3, <2>4 DEF HandlesListed
  <1>13. BlocksOK' /\ UnusedOK'
    <2>1. ASSUME NEW g \in ToSet(list') PROVE memory'[g] # NULL /\ size'[g] >= FreeBlockSize
      <3>1. CASE g = h
        BY <3>1, <1>1, <1>9, <1>10 DEF NULL
      <3>2. CASE g = b
        BY <3>2, <1>4, <1>9, <1>10 DEF NULL
      <3>3. CASE g # h /\ g # b
        <4>1. g \in ToSet(list) /\ memory[g] # NULL
          BY <3>3, <2>1, <1>5, <1>11
        <4>2. size[g] >= FreeBlockSize
          BY <4>1 DEF HInv, BlocksOK
        <4> QED BY <4>1, <4>2, <3>3, <1>3, <1>10
      <3> QED BY <3>1, <3>2, <3>3
    <2>2. Len(unused') <= 1 /\ ToSet(unused') = {}
      BY <1>5 DEF ToSet
    <2> QED BY <2>1, <2>2 DEF BlocksOK, UnusedOK
  <1>14. BlocksTile'
    <2>1. /\ \A g, x \in ListedBlocks :
                g # x => End(g) <= memory[x] \/ End(x) <= memory[g]
          /\ \A g \in ListedBlocks : size[g] > 0 /\ End(g) <= memory_top
          /\ {memory[g] : g \in ListedBlocks} \cup {memory_top}
               = {End(g) : g \in ListedBlocks} \cup {memory_bottom}
      BY <1>1 DEF HInv, BlocksTile
    <2>2. \A g \in ListedBlocks : g # b => /\ memory'[g] = memory[g] /\ size'[g] = size[g]
                                           /\ End(g)' = End(g)
      BY <1>3, <1>5, <1>10 DEF End, ListedBlocks
    <2>3. \A g \in ListedBlocks : End(g) \in Int /\ memory[g] \in Int /\ g # h
      BY <1>3, <1>5 DEF End, ListedBlocks
    <2>4. End(h)' = m + d /\ memory'[h] = m /\ size'[h] > 0
      <3>1. End(h)' = memory'[h] + size'[h]
        BY DEF End
      <3> QED BY <3>1, <1>9, <1>10
    <2>5. End(b)' = End(b) /\ End(b) = m + d + s /\ memory'[b] = m + d /\ size'[b] > 0
      <3>1. End(b)' = memory'[b] + size'[b] /\ End(b) = memory[b] + size[b]
        BY DEF End
      <3>2. m + (d + s) = m + d + s /\ s > 0
        BY <1>4, <1>7, <1>9
      <3>3. End(b) = m + (d + s)
        BY <3>1, <1>c, <1>9
      <3>4. End(b)' = (m + d) + s
        BY <3>1, <1>10
      <3> QED BY <3>2, <3>3, <3>4, <1>10
    <2>6. ASSUME NEW g \in ListedBlocks, g # b
          PROVE  End(g) <= m \/ m + d + s <= memory[g]
      BY <2>1, <2>5, <2>6, <1>6, <1>c
    <2>7. ASSUME NEW g \in ListedBlocks', NEW x \in ListedBlocks', g # x
          PROVE  End(g)' <= memory'[x] \/ End(x)' <= memory'[g]
      <3>1. ASSUME NEW y \in ListedBlocks, y # b
            PROVE  /\ End(y)' <= memory'[h] \/ End(h)' <= memory'[y]
                   /\ End(y)' <= memory'[b] \/ End(b)' <= memory'[y]
        <4>1. End(y) <= m \/ m + d + s <= memory[y]
          BY <3>1, <2>6
        <4>2. End(y) \in Int /\ memory[y] \in Int
          BY <2>3
        <4>3. End(y) <= m \/ m + d <= memory[y]
          BY <4>1, <4>2, <1>4, <1>7, <1>9
        <4>4. End(y) <= m + d \/ m + d + s <= memory[y]
          BY <4>1, <4>2, <1>4, <1>7, <1>9
        <4> QED BY <4>3, <4>4, <3>1, <2>2, <2>4, <2>5
      <3>2. End(h)' <= memory'[b]
        BY <2>4, <2>5, <1>7, <1>9
      <3>3. CASE g \in ListedBlocks \ {b} /\ x \in ListedBlocks \ {b}
        BY <3>3, <2>1, <2>2, <2>7
      <3>4. CASE g \in ListedBlocks \ {b} /\ x \in {b, h}
        BY <3>1, <3>4
      <3>5. CASE x \in ListedBlocks \ {b} /\ g \in {b, h}
        BY <3>1, <3>5
      <3>6. CASE x \in {b, h} /\ g \in {b, h}
        BY <3>2, <3>6, <2>7
      <3> QED BY <3>3, <3>4, <3>5, <3>6, <1>6, <1>11
    <2>8. ASSUME NEW g \in ListedBlocks' PROVE size'[g] > 0 /\ End(g)' <= memory_top'
      <3>1. CASE g = h
        <4>1. m + d + s <= memory_top
          BY <2>1, <2>5, <1>6
        <4>2. m + d <= memory_top
          BY <4>1, <1>3, <1>4, <1>7, <1>9
        <4> QED BY <3>1, <4>2, <2>4, <1>1
      <3>2. CASE g = b
        BY <3>2, <2>1, <2>5, <1>1, <1>6
      <3>3. CASE g # h /\ g # b
        BY <3>3, <2>1, <2>2, <1>1, <1>11
      <3> QED BY <3>1, <3>2, <3>3
    <2>9. {memory'[g] : g \in ListedBlocks'} \cup {memory_top'}
             = {End(g)' : g \in ListedBlocks'} \cup {memory_bottom}
      <3>1. {memory'[g] : g \in ListedBlocks'} = {memory[g] : g \in ListedBlocks} \cup {m + d}
        BY <2>2, <2>4, <2>5, <1>6, <1>11, <1>c
      <3>2. {End(g)' : g \in ListedBlocks'} = {End(g) : g \in ListedBlocks} \cup {m + d}
        <4>1. \A g \in ListedBlocks : End(g)' = End(g)
          BY <2>2, <2>5
        <4> QED BY <4>1, <2>4, <1>11
      <3> QED BY <3>1, <3>2, <2>1, <1>1
    <2> QED BY <2>7, <2>8, <2>9 DEF BlocksTile
  <1>15. SlotsOK'
    <2>1. PICK t : t = [slots EXCEPT ![k] = RemoveAt(@, p)]
      OBVIOUS
    <2>2. slots \in [Slots -> Seq(Headers)]
      BY <1>3 DEF TypeOK
    <2>3. \A j \in Slots : t[j] = IF j = k THEN RemoveAt(slots[k], p) ELSE slots[j]
      BY <2>1, <2>2
    <2>4. t \in [Slots -> Seq(Headers)]
      BY <2>1, <2>2, <1>6
    <2>5. \A g \in ListedBlocks : g # b => type'[g] = type[g] /\ size'[g] = size[g]
      BY <1>3, <1>5, <1>10 DEF ListedBlocks
    <2>6. ASSUME NEW j \in Slots
          PROVE  /\ Injective(t[j])
                 /\ \A g \in ToSet(t[j]) : /\ g \in ListedBlocks /\ g # b /\ g # h
                                           /\ type[g] = FREE /\ rm_log2(size[g]) = j
      BY <2>3, <1>5, <1>6 DEF SlotOK
    <2>7. ASSUME NEW j \in Slots PROVE SlotOK(t[j], j, ListedBlocks', type', size')
      BY <2>5, <2>6, <1>11 DEF SlotOK
    <2>8. slots' = [t EXCEPT ![r] = Cons(h, t[r])]
      BY <2>1, <1>1 DEF Push
    <2>9. SlotOK(Cons(h, t[r]), r, ListedBlocks', type', size')
      <3>1. t[r] \in Seq(Headers) /\ Injective(t[r]) /\ h \notin ToSet(t[r]) /\ h \in Headers
        BY <2>4, <2>6, <1>5
      <3>2. Injective(Cons(h, t[r])) /\ ToSet(Cons(h, t[r])) = {h} \cup ToSet(t[r])
        BY <3>1, ConsParts, Zenon
      <3> QED BY <3>2, <2>7, <1>1, <1>10, <1>11 DEF SlotOK
    <2>10. ASSUME NEW j \in Slots PROVE SlotOK(slots'[j], j, ListedBlocks', type', size')
      <3>1. slots'[j] = IF j = r THEN Cons(h, t[r]) ELSE t[j]
        BY <2>4, <2>8
      <3> QED BY <3>1, <2>7, <2>9
    <2> QED BY <2>10, <1>1 DEF SlotsOK, Linked
  <1>16. SizesOK' /\ SortedTile'
    BY <1>1, IdleSizes
  <1> QED BY <1>2, <1>12, <1>13, <1>14, <1>15, <1>16 DEF HInv

-----------------------------------------------------------------------------
(* rm_free and the locks *)

\* The handles the client holds are listed blocks, not free, in no slot.
LEMMA HeldFacts ==
    ASSUME HInv, NEW h \in Held
    PROVE  /\ h \in ToSet(list) /\ h \in Headers /\ type[h] # FREE /\ memory[h] # NULL
           /\ h \in ListedBlocks
  <1>1. h \in ToSet(list) /\ type[h] # FREE
    BY DEF HInv, HandlesListed
  <1>2. memory[h] # NULL
    BY <1>1 DEF HInv, BlocksOK
  <1> QED BY <1>1, <1>2, ListFacts DEF ListedBlocks

LEMMA FreeHeap ==
    ASSUME HInv, NEW h \in Headers, rm_free(h)
    PROVE  HInv'
  <1>1. /\ pc = "idle" /\ h \in Held /\ UNCHANGED compactVars
        /\ type' = [type EXCEPT ![h] = FREE] /\ req' = [req EXCEPT ![h] = 0]
        /\ header_used_count' = header_used_count - 1
        /\ UNCHANGED <<memory, size, list, unused, memory_top>>
    BY DEF rm_free, Running
  <1>2. PICK k \in Slots : k = rm_log2(size[h]) /\ slots' = Push(slots, k, h)
    BY DEF rm_free
  <1>3. Inv'
    BY FreeInv DEF HInv
  <1>4. /\ TypeOK /\ type \in [Headers -> BlockTypes] /\ ToSet(list) \subseteq Headers
    BY ListFacts
  <1>5. /\ h \in ToSet(list) /\ type[h] # FREE /\ memory[h] # NULL /\ h \in ListedBlocks
    BY <1>1, HeldFacts
  <1>6. /\ pc' = pc /\ ListedBlocks' = ListedBlocks /\ \A g : End(g)' = End(g)
        /\ \A g \in Headers : type'[g] = IF g = h THEN FREE ELSE type[g]
    BY <1>1, <1>4 DEF ListedBlocks, compactVars, End
  <1>7. HandlesListed'
    <2>1. /\ {g \in ToSet(list) : type[g] # FREE} = Held
          /\ header_used_count = Cardinality(Held)
          /\ \A i, j \in DOMAIN list : list[i] = list[j] => i = j
      BY DEF HInv, HandlesListed
    <2>2. IsFiniteSet(Held) /\ Cardinality(Held) \in Nat /\ Held \subseteq Headers
          /\ req \in [Headers -> Nat]
      BY <1>4, HeldFinite
    <2>3. \A g \in Headers : req'[g] = IF g = h THEN 0 ELSE req[g]
      BY <1>1, <2>2
    <2>4. Held' = Held \ {h}
      BY <2>3 DEF Held
    <2>5. Cardinality(Held \ {h}) = Cardinality(Held) - 1
      BY <2>2, <1>1, FS_RemoveElement
    <2>6. {g \in ToSet(list') : type'[g] # FREE} = Held'
      BY <2>1, <2>4, <1>1, <1>4, <1>6
    <2> QED BY <2>1, <2>4, <2>5, <2>6, <1>1 DEF HandlesListed
  <1>8. BlocksOK' /\ UnusedOK' /\ BlocksTile'
    <2>1. BlocksOK'
      <3>1. \A g \in ToSet(list) : memory[g] = NULL => type'[g] = FREE
        BY <1>4, <1>5, <1>6 DEF HInv, BlocksOK
      <3> QED BY <3>1, <1>1 DEF HInv, BlocksOK
    <2>2. UnusedOK'
      BY <1>1 DEF HInv, UnusedOK
    <2>3. BlocksTile'
      BY <1>1, <1>6 DEF HInv, BlocksTile
    <2> QED BY <2>1, <2>2, <2>3
  <1>9. SizesOK' /\ SortedTile'
    BY <1>1, IdleSizes
  <1>10. SlotsOK'
    <2>1. \A j \in Slots : SlotOK(slots[j], j, ListedBlocks, type, size)
      BY <1>1 DEF HInv, SlotsOK, Linked
    <2>2. slots \in [Slots -> Seq(Headers)]
      BY <1>4 DEF TypeOK
    <2>3. ASSUME NEW j \in Slots
          PROVE  h \notin ToSet(slots[j]) /\ SlotOK(slots[j], j, ListedBlocks, type', size)
      BY <2>1, <1>4, <1>5, <1>6 DEF SlotOK, ListedBlocks
    <2>4. SlotOK(Cons(h, slots[k]), k, ListedBlocks, type', size)
      <3>1. slots[k] \in Seq(Headers) /\ Injective(slots[k]) /\ h \notin ToSet(slots[k])
        BY <2>2, <2>3 DEF SlotOK
      <3>2. Injective(Cons(h, slots[k])) /\ ToSet(Cons(h, slots[k])) = {h} \cup ToSet(slots[k])
        BY <3>1, ConsParts, Zenon
      <3> QED BY <3>2, <2>3, <1>2, <1>5, <1>6 DEF SlotOK
    <2>5. \A j \in Slots : slots'[j] = IF j = k THEN Cons(h, slots[k]) ELSE slots[j]
      BY <1>2, <2>2 DEF Push
    <2>6. \A j \in Slots : SlotOK(slots'[j], j, ListedBlocks, type', size)
      BY <2>3, <2>4, <2>5
    <2> QED BY <2>6, <1>1, <1>6 DEF SlotsOK, Linked
  <1> QED BY <1>3, <1>7, <1>8, <1>9, <1>10 DEF HInv

LEMMA LockHeap ==
    ASSUME HInv, NEW h \in Headers, rm_lock(h) \/ rm_weaklock(h) \/ rm_unlock(h)
    PROVE  HInv'
  <1>1. PICK t, p : t \in BlockTypes /\ SetLock(h, t, p) /\ t # FREE
    BY DEF rm_lock, rm_weaklock, rm_unlock, BlockTypes, FREE, LOCKED, WEAK_LOCKED, UNLOCKED
  <1>2. /\ pc = "idle" /\ h \in Held /\ type' = [type EXCEPT ![h] = t]
        /\ UNCHANGED <<memory, size, list, unused, memory_top, slots, header_used_count,
                       compactVars, req>>
    BY <1>1 DEF SetLock, Running, statVars
  <1>3. Inv'
    BY LockInv DEF HInv
  <1>4. type \in [Headers -> BlockTypes] /\ ToSet(list) \subseteq Headers
    BY ListFacts
  <1>5. type[h] # FREE /\ memory[h] # NULL
    BY <1>2, HeldFacts
  <1>6. /\ pc' = pc /\ ListedBlocks' = ListedBlocks /\ Held' = Held
        /\ \A g : End(g)' = End(g)
        /\ \A g \in Headers : type'[g] = FREE <=> type[g] = FREE
    BY <1>1, <1>2, <1>4, <1>5 DEF ListedBlocks, compactVars, End, Held
  <1>7. HandlesListed'
    <2>1. {g \in ToSet(list) : type'[g] # FREE} = {g \in ToSet(list) : type[g] # FREE}
      BY <1>4, <1>6
    <2> QED BY <2>1, <1>2, <1>6 DEF HInv, HandlesListed
  <1>8. BlocksOK' /\ UnusedOK' /\ BlocksTile'
    <2>1. BlocksOK'
      <3>1. \A g \in ToSet(list) : memory[g] = NULL => type'[g] = FREE
        BY <1>4, <1>6 DEF HInv, BlocksOK
      <3> QED BY <3>1, <1>2 DEF HInv, BlocksOK
    <2>2. UnusedOK'
      BY <1>2 DEF HInv, UnusedOK
    <2>3. BlocksTile'
      BY <1>2, <1>6 DEF HInv, BlocksTile
    <2> QED BY <2>1, <2>2, <2>3
  <1>9. SizesOK' /\ SortedTile'
    BY <1>2, IdleSizes
  <1>10. SlotsOK'
    <2>1. \A j \in Slots : SlotOK(slots[j], j, ListedBlocks, type, size)
      BY <1>2 DEF HInv, SlotsOK, Linked
    <2>2. \A j \in Slots : SlotOK(slots[j], j, ListedBlocks, type', size)
      BY <2>1, <1>4, <1>6 DEF SlotOK, ListedBlocks
    <2> QED BY <2>2, <1>2, <1>6 DEF SlotsOK, Linked
  <1> QED BY <1>3, <1>7, <1>8, <1>9, <1>10 DEF HInv

-----------------------------------------------------------------------------
(* The theorems *)

LEMMA InitHeap == Init => HInv
  <1> SUFFICES ASSUME Init PROVE HInv
    OBVIOUS
  <1>1. Inv
    BY InitInv
  <1>2. /\ list = <<0>> /\ unused = <<0>> /\ memory_top = memory_bottom /\ pc = "idle"
        /\ slots = [k \in Slots |-> <<>>] /\ header_used_count = 0 /\ free_size = 0
        /\ 0 \in Headers /\ memory[0] = NULL /\ size[0] = 0 /\ type[0] = FREE
        /\ req = [h \in Headers |-> 0]
    BY MaxHeaderAssumption DEF Init, Headers
  <1>3. ToSet(list) = {0} /\ Len(list) = 1 /\ Len(unused) = 1 /\ ListedBlocks = {}
    BY <1>2 DEF ToSet, ListedBlocks
  <1>4. Held = {} /\ Cardinality(Held) = 0
    <2>1. \A h \in Headers : req[h] = 0
      BY <1>2
    <2>2. Held = {}
      BY <2>1 DEF Held
    <2> QED BY <2>2, FS_EmptySet
  <1>5. HandlesListed
    BY <1>2, <1>3, <1>4 DEF HandlesListed
  <1>6. BlocksOK /\ UnusedOK
    BY <1>2, <1>3 DEF BlocksOK, UnusedOK, ToSet
  <1>7. SortedTile /\ SizesOK
    BY <1>2 DEF SortedTile, SizesOK
  <1>8. BlocksTile
    BY <1>2, <1>3 DEF BlocksTile
  <1>9. SlotsOK
    <2>1. ASSUME NEW k \in Slots PROVE SlotOK(slots[k], k, Linked, type, size)
      <3>1. slots[k] = <<>> /\ ToSet(slots[k]) = {} /\ Len(slots[k]) = 0
        BY <1>2 DEF ToSet
      <3> QED BY <3>1 DEF SlotOK, Injective
    <2> QED BY <2>1 DEF SlotsOK
  <1> QED BY <1>1, <1>5, <1>6, <1>7, <1>8, <1>9 DEF HInv

LEMMA NextHeap == HInv /\ [Next]_vars => HInv'
  <1> SUFFICES ASSUME HInv, [Next]_vars PROVE HInv'
    OBVIOUS
  <1>0. Inv /\ Inv'
    BY NextInv DEF HInv
  <1>1. CASE UNCHANGED vars
    <2>1. UNCHANGED <<heapVars, compactVars>>
      BY <1>1 DEF vars, heapVars
    <2> QED BY <2>1, <1>0, FaultHeap
  <1>2. CASE Next
    <2>1. ASSUME NEW n \in Sizes,
                 \/ MallocTop(n) \/ MallocFreeBlock(n) \/ MallocLosesBlock(n)
                 \/ MallocFails(n) \/ MallocFault(n)
          PROVE  HInv'
      <3>1. CASE MallocFails(n) \/ MallocFault(n)
        <4>1. UNCHANGED <<heapVars, compactVars>>
          BY <3>1 DEF MallocFails, MallocFault, vars, heapVars
        <4> QED BY <4>1, <1>0, FaultHeap
      <3> QED BY <2>1, <3>1, MallocTopHeap, MallocFreeBlockHeap, MallocLosesBlockHeap
    <2>2. ASSUME NEW h \in Headers,
                 rm_free(h) \/ rm_lock(h) \/ rm_weaklock(h) \/ rm_unlock(h)
          PROVE  HInv'
      BY <2>2, FreeHeap, LockHeap
    <2>3. ASSUME NEW limit \in {0, 1}, rm_compact(limit)
          PROVE  HInv'
      BY <2>3, CompactHeap
    <2>4. CASE CompactStep
      <3>1. CASE RelinkFault \/ FinishFault
        <4>1. UNCHANGED <<heapVars, compactVars>>
          BY <3>1 DEF RelinkFault, FinishFault
        <4> QED BY <4>1, <1>0, FaultHeap
      <3> QED BY <2>4, <3>1, PassHeap, FreeRangeHeap, NothingToMoveHeap, UnlockedBeginsHeap,
           UnlockedRangeHeap, UnlockedRangeDoneHeap, MoveBlockHeap,
           RelinkAdjacentHeap, RelinkSpareHeap, RelinkExtendHeap,
           FinishHeap, RebuildHeap, CompactReturnsHeap DEF CompactStep
    <2> QED BY <1>2, <2>1, <2>2, <2>3, <2>4 DEF Next
  <1> QED BY <1>1, <1>2

\* The invariant of the heap holds in every state that can be reached.
THEOREM HeapInvariant == Spec => []HInv
  BY InitHeap, NextHeap, PTL DEF Spec

\* Whatever is allocated, freed, split, moved, squished, pruned or cut off, the
\* blocks in the header list never overlap and leave no byte between
\* memory_bottom and memory_top uncovered, for a heap of any size.
THEOREM BlocksCoverHeap == Spec => []BlocksTile
  <1>1. HInv => BlocksTile
    <2>1. HInv /\ pc # "move" => BlocksTile
      BY SortedCovers
    <2> QED BY <2>1 DEF BlocksTile
  <1> QED BY <1>1, HeapInvariant, PTL

\* rm_compact relinks and cuts the header list without losing or doubling a
\* handle the client holds, and header_used_count counts them.
THEOREM NoHandleLost == Spec => []HandlesListed
  <1>1. HInv => HandlesListed
    BY DEF HInv
  <1> QED BY <1>1, HeapInvariant, PTL

\* Between the passes of rm_compact the list is sorted and without gaps, for
\* any number of blocks: header_memory_offset is then the distance by which the
\* unlocked blocks have to move.
THEOREM SortedBetweenPasses == Spec => []SortedInPass
  <1>1. HInv => SortedInPass
    <2> SUFFICES ASSUME HInv, pc \in {"pass", "free", "unlocked", "finish"},
                        NEW i \in 1..(Len(list) - 1)
                 PROVE  End(list[i]) = memory[list[i + 1]]
      BY DEF SortedInPass
    <2>1. Len(list) \in Nat
      BY ListFacts
    <2>2. i \in 1..Len(list) /\ i + 1 \in 1..Len(list) /\ 1 \in 1..Len(list) /\ Len(list) > 1
      BY <2>1
    <2>3. memory[list[1]] # NULL
      <3>1. \A h \in ToSet(list) : memory[h] # NULL
        BY <2>2, AllBlocks
      <3> QED BY <2>2, <3>1, ListFacts
    <2>4. EndAt(i) = At(i + 1)
      BY <2>3 DEF HInv, SortedTile
    <2> QED BY <2>2, <2>4, AtType
  <1> QED BY <1>1, HeapInvariant, PTL

\* freeblock_find takes the first block of a slot without looking at its size:
\* it may, whatever was freed, split, lost or compacted before, since every
\* slot has free blocks of its own size class only, each once.
THEOREM SlotsStayExact == Spec => []SlotsExact
  <1>1. HInv => SlotsExact
    <2> SUFFICES ASSUME HInv, pc = "idle", NEW k \in Slots, NEW i \in DOMAIN slots[k]
                 PROVE  /\ slots[k][i] \in ListedBlocks /\ type[slots[k][i]] = FREE
                        /\ rm_log2(size[slots[k][i]]) = k
                        /\ \A j \in DOMAIN slots[k] : slots[k][j] = slots[k][i] => i = j
      BY DEF SlotsExact
    <2>1. SlotOK(slots[k], k, ListedBlocks, type, size)
      BY DEF HInv, SlotsOK, Linked
    <2>2. slots[k] \in Seq(Headers)
      BY DEF HInv, Inv, TypeOK
    <2>3. DOMAIN slots[k] = 1..Len(slots[k])
      BY <2>2
    <2> QED BY <2>1, <2>3 DEF SlotOK, Injective, ToSet
  <1> QED BY <1>1, HeapInvariant, PTL

-----------------------------------------------------------------------------
(* What rm_compact achieves *)

\* No unlocked block lies directly above a free one among the first n blocks.
Squeezed(n) == \A i \in 1..(n - 1) : ~(TypeAt(i) = FREE /\ TypeAt(i + 1) = UNLOCKED)

\* What rm_compact has left when it returns.
Compacted ==
    /\ Squeezed(Len(list))
    /\ (\A h \in Held : type[h] = UNLOCKED) => \A h \in ListedBlocks : type[h] # FREE

\* A pass does not have to look at what is below root again, nor below the free
\* range.  Only a block that is not free may be below the range: the blocks that
\* are moved into it are then not directly above a free one.
PassOK ==
    maxtime = 0 =>
        /\ pc = "pass" => /\ root <= Len(list) /\ Squeezed(root)
                          /\ root > 1 => TypeAt(root - 1) # FREE \/ TypeAt(root) # FREE
        /\ pc \in {"free", "unlocked", "move"} =>
              Squeezed(f1) /\ (f1 > 1 => TypeAt(f1 - 1) # FREE)
        /\ pc = "finish" => Squeezed(Len(list))
        /\ pc = "rebuild" => Compacted

LEMMA PassPasses ==
    ASSUME HInv, PassOK, PassEnds \/ PassBegins
    PROVE  PassOK'
  <1> SUFFICES ASSUME maxtime' = 0 PROVE PassOK'
    BY DEF PassOK
  <1>1. pc = "pass" /\ maxtime = 0 /\ UNCHANGED <<list, type>>
    BY DEF PassEnds, PassBegins, heapVars, headerVars
  <1>2. /\ root <= Len(list) /\ Squeezed(root) /\ root >= 1
        /\ root > 1 => TypeAt(root - 1) # FREE \/ TypeAt(root) # FREE
    BY <1>1 DEF PassOK, HInv, Inv, RangesOK
  <1>3. root \in Int /\ Len(list) \in Nat
    BY ListFacts, LocalTypes DEF HInv, Inv
  <1>4. \A i : TypeAt(i)' = TypeAt(i)
    BY <1>1 DEF TypeAt
  <1>5. CASE PassEnds
    <2>1. pc' = "finish" /\ \A i \in root..Len(list) : TypeAt(i) # FREE
      BY <1>1, <1>5 DEF PassEnds
    <2>2. ASSUME NEW i \in 1..(Len(list) - 1)
          PROVE  ~(TypeAt(i) = FREE /\ TypeAt(i + 1) = UNLOCKED)
      <3>1. CASE i < root
        <4>1. i \in 1..(root - 1)
          BY <3>1, <1>3
        <4> QED BY <4>1, <1>2 DEF Squeezed
      <3>2. CASE ~(i < root)
        <4>1. i \in root..Len(list)
          BY <3>2, <1>3
        <4> QED BY <4>1, <2>1
      <3> QED BY <3>1, <3>2
    <2>3. Squeezed(Len(list))'
      BY <2>2, <1>1, <1>4 DEF Squeezed
    <2> QED BY <2>1, <2>3 DEF PassOK
  <1>6. CASE PassBegins
    <2>1. PICK f \in root..Len(list) : /\ TypeAt(f) = FREE
                                       /\ \A j \in root..(f - 1) : TypeAt(j) # FREE
                                       /\ f1' = f
      BY <1>6 DEF PassBegins
    <2>2. pc' = "free" /\ f \in Int /\ f >= root
      BY <1>3, <1>6 DEF PassBegins
    <2>3. ASSUME NEW i \in 1..(f - 1)
          PROVE  ~(TypeAt(i) = FREE /\ TypeAt(i + 1) = UNLOCKED)
      <3>1. CASE i < root
        <4>1. i \in 1..(root - 1)
          BY <3>1, <1>3
        <4> QED BY <4>1, <1>2 DEF Squeezed
      <3>2. CASE ~(i < root)
        <4>1. i \in root..(f - 1)
          BY <3>2, <2>2, <1>3
        <4> QED BY <4>1, <2>1
      <3> QED BY <3>1, <3>2
    <2>4. f > 1 => TypeAt(f - 1) # FREE
      <3>1. CASE f = root
        BY <3>1, <2>1, <1>2
      <3>2. CASE f # root
        <4>1. f - 1 \in root..(f - 1)
          BY <3>2, <2>2, <1>3
        <4> QED BY <4>1, <2>1
      <3> QED BY <3>1, <3>2
    <2>5. Squeezed(f1)' /\ (f1' > 1 => TypeAt(f1 - 1)' # FREE)
      <3>1. \A i \in 1..(f1' - 1) : ~(TypeAt(i)' = FREE /\ TypeAt(i + 1)' = UNLOCKED)
        BY <2>1, <2>3, <1>4
      <3>2. f1' > 1 => type'[list'[f1' - 1]] # FREE
        BY <2>1, <2>4, <1>1 DEF TypeAt
      <3> QED BY <3>1, <3>2 DEF Squeezed, TypeAt
    <2> QED BY <2>2, <2>5 DEF PassOK
  <1> QED BY <1>5, <1>6

\* Where the search for a block to move gives up, there is none next to the
\* free range.
LEMMA RangePassed ==
    ASSUME HInv, PassOK, maxtime = 0, FreeRangeDone, Movable = {} \/ f2 = Len(list)
    PROVE  /\ f2 \in Int /\ f2 >= 1 /\ f2 <= Len(list) /\ Len(list) \in Nat
           /\ \A i \in 1..(Len(list) - 1) :
                 i <= f2 => ~(TypeAt(i) = FREE /\ TypeAt(i + 1) = UNLOCKED)
  <1>1. /\ f2 >= f1 /\ f1 >= 1 /\ f1 \in Int /\ f2 \in Int /\ f2 <= Len(list)
        /\ Len(list) \in Nat /\ pc = "free"
    BY FreeRangeNotEmpty, ListFacts DEF HInv, Inv, RangesOK, FreeRangeDone
  <1>2. Squeezed(f1) /\ \A i \in f1..f2 : TypeAt(i) = FREE
    BY <1>1 DEF PassOK, HInv, SizesOK, TypeAt
  <1>3. ASSUME NEW i \in 1..(Len(list) - 1), i <= f2
        PROVE  ~(TypeAt(i) = FREE /\ TypeAt(i + 1) = UNLOCKED)
    <2>1. CASE i < f1
      <3>1. i \in 1..(f1 - 1)
        BY <2>1, <1>1
      <3> QED BY <3>1, <1>2 DEF Squeezed
    <2>2. CASE f1 <= i /\ i < f2
      <3>1. i + 1 \in f1..f2
        BY <2>2, <1>1
      <3> QED BY <3>1, <1>2 DEF FREE, UNLOCKED
    <2>3. CASE i = f2
      <3> SUFFICES ASSUME TypeAt(i + 1) = UNLOCKED PROVE FALSE
        OBVIOUS
      <3>1. i < Len(list) /\ Movable = {} /\ i + 1 \in AfterFree
        BY <2>3, <1>1, <1>3 DEF AfterFree
      <3>2. PICK k : k = f2 + 1
        OBVIOUS
      <3>3. k \in Int /\ k \in (f2 + 1)..k /\ (f2 + 1)..(k - 1) = {}
        BY <3>2, <1>1
      <3>4. TypeAt(k) = UNLOCKED /\ k \in AfterFree /\ Fits(k, 0)
        BY <3>1, <3>2, <2>3 DEF Fits, Adjacent
      <3>5. SearchEnds(k)
        BY <3>3, <3>4 DEF SearchEnds
      <3> QED BY <3>1, <3>4, <3>5 DEF Movable
    <2> QED BY <2>1, <2>2, <2>3, <1>1, <1>3
  <1> QED BY <1>1, <1>3

LEMMA GivingUpPasses ==
    ASSUME HInv, PassOK, NothingToMove \/ NextFreeRange
    PROVE  PassOK'
  <1> SUFFICES ASSUME maxtime' = 0 PROVE PassOK'
    BY DEF PassOK
  <1>1. FreeRangeDone /\ maxtime = 0 /\ UNCHANGED <<list, type>> /\ pc = "free"
    BY DEF NothingToMove, NextFreeRange, heapVars, headerVars, FreeRangeDone
  <1>2. \A i : TypeAt(i)' = TypeAt(i)
    BY <1>1 DEF TypeAt
  <1>3. Len(list) \in Nat
    BY ListFacts
  <1>4. CASE NothingToMove
    <2>1. ASSUME NEW i \in 1..(Len(list) - 1)
          PROVE  ~(TypeAt(i) = FREE /\ TypeAt(i + 1) = UNLOCKED)
      <3>1. free_size # 0
        <4>1. Len(list) > 1
          BY <1>3
        <4>2. /\ f2 >= f1 /\ f1 >= 1 /\ f1 \in Int /\ f2 \in Int /\ f2 <= Len(list)
          BY <1>1, FreeRangeNotEmpty DEF HInv, Inv, RangesOK
        <4>3. free_size = EndAt(f2) - At(f1)
          <5>1. free_size = IF f2 < f1 THEN 0 ELSE EndAt(f2) - At(f1)
            BY <1>1 DEF HInv, SizesOK
          <5>2. ~(f2 < f1)
            BY <4>2
          <5> QED BY <5>1, <5>2
        <4>4. f1 \in 1..Len(list) /\ f2 \in 1..Len(list)
          BY <4>2, <1>3
        <4>5. /\ \A k \in 1..Len(list) :
                   /\ At(k) \in Int /\ EndAt(k) = At(k) + size[list[k]]
                   /\ size[list[k]] \in Int /\ size[list[k]] >= FreeBlockSize
              /\ \A k, j \in 1..Len(list) : k < j => EndAt(k) <= At(j)
          BY <4>1, <1>1, SortedFacts
        <4>6. PICK a, b, z, y, x : /\ a = At(f1) /\ b = At(f2) /\ z = size[list[f2]]
                                   /\ y = size[list[f1]] /\ x = FreeBlockSize
          OBVIOUS
        <4>7. /\ a \in Int /\ b \in Int /\ z \in Int /\ y \in Int /\ x \in Nat \ {0}
              /\ z >= x /\ y >= x /\ EndAt(f2) = b + z /\ EndAt(f1) = a + y
              /\ f1 < f2 => a + y <= b
          BY <4>4, <4>5, <4>6, SizesAssumption
        <4>8. f1 = f2 => a = b
          BY <4>6
        <4>9. a <= b
          BY <4>2, <4>7, <4>8
        <4>10. (b + z) - a # 0
          BY <4>7, <4>9
        <4> QED BY <4>3, <4>6, <4>7, <4>10
      <3>2. f2 = Len(list) \/ (Movable = {} /\ ~passed_free_blocks)
        BY <3>1, <1>4 DEF NothingToMove
      <3>3. /\ f2 \in Int /\ f2 >= 1 /\ f2 <= Len(list)
            /\ i <= f2 => ~(TypeAt(i) = FREE /\ TypeAt(i + 1) = UNLOCKED)
        BY <3>2, <1>1, RangePassed
      <3>4. CASE i <= f2
        BY <3>3, <3>4
      <3>5. CASE ~(i <= f2)
        <4>1. i \in AfterFree /\ f2 # Len(list)
          BY <3>3, <3>5, <1>3 DEF AfterFree
        <4> QED BY <4>1, <3>2 DEF passed_free_blocks
      <3> QED BY <3>4, <3>5
    <2>2. Squeezed(Len(list))'
      BY <2>1, <1>1, <1>2 DEF Squeezed
    <2> QED BY <2>2, <1>4 DEF PassOK, NothingToMove
  <1>5. CASE NextFreeRange
    <2>1. PICK r : r = f2 + 1
      OBVIOUS
    <2>2. pc' = "pass" /\ root' = r /\ f2 < Len(list) /\ Movable = {} /\ ~FreeFollows
      BY <2>1, <1>5 DEF NextFreeRange, RetryRoot, FreeRangeDone
    <2>3. /\ f2 \in Int /\ f2 >= 1
          /\ \A i \in 1..(Len(list) - 1) :
                i <= f2 => ~(TypeAt(i) = FREE /\ TypeAt(i + 1) = UNLOCKED)
      BY <2>2, <1>1, RangePassed
    <2>4. \A i \in 1..(r - 1) : ~(TypeAt(i) = FREE /\ TypeAt(i + 1) = UNLOCKED)
      <3>1. \A i \in 1..(r - 1) : i \in 1..(Len(list) - 1) /\ i <= f2
        BY <2>1, <2>2, <2>3, <1>3
      <3> QED BY <3>1, <2>3
    <2>5. TypeAt(r) # FREE
      BY <2>1, <2>2 DEF FreeFollows
    <2>6. r <= Len(list)
      BY <2>1, <2>2, <2>3, <1>3
    <2>7. root' <= Len(list') /\ Squeezed(root)' /\ type'[list'[root']] # FREE
      <3>1. \A i \in 1..(root' - 1) : ~(TypeAt(i)' = FREE /\ TypeAt(i + 1)' = UNLOCKED)
        BY <2>2, <2>4, <1>2
      <3>2. type'[list'[root']] # FREE
        BY <2>2, <2>5, <1>1 DEF TypeAt
      <3> QED BY <3>1, <3>2, <2>2, <2>6, <1>1 DEF Squeezed
    <2> QED BY <2>2, <2>7 DEF PassOK, TypeAt
  <1> QED BY <1>4, <1>5

\* The ranges grow and the blocks move without a change to what is below them.
LEMMA CollectingPasses ==
    ASSUME HInv, PassOK,
           FreeRange \/ UnlockedBegins \/ UnlockedRange \/ UnlockedRangeDone \/ MoveBlock
    PROVE  PassOK'
  <1>1. /\ pc \in {"free", "unlocked", "move"} /\ pc' \in {"free", "unlocked", "move"}
        /\ UNCHANGED <<list, type, f1, maxtime>>
    BY DEF FreeRange, UnlockedBegins, UnlockedRange, UnlockedRangeDone, MoveBlock,
       FreeRangeDone, heapVars, headerVars, rangeVars
  <1> QED BY <1>1 DEF PassOK, Squeezed, TypeAt

\* What comes first in a concatenation.
LEMMA ConcatFirst ==
    ASSUME NEW S, NEW s \in Seq(S), NEW t \in Seq(S)
    PROVE  /\ s \o t \in Seq(S) /\ Len(s \o t) = Len(s) + Len(t)
           /\ Len(s) \in Nat /\ Len(t) \in Nat
           /\ \A i \in 1..Len(s) : (s \o t)[i] = s[i]
           /\ \A i \in 1..Len(t) : (s \o t)[Len(s) + i] = t[i]
  OBVIOUS

\* s begins with l, and goes on.
Starts(s, l) == Len(l) <= Len(s) /\ \A i \in 1..Len(l) : s[i] = l[i]

LEMMA StartsOn ==
    ASSUME NEW S, NEW s \in Seq(S), NEW l \in Seq(S), NEW t \in Seq(S), Starts(s, l)
    PROVE  s \o t \in Seq(S) /\ Starts(s \o t, l)
  <1>1. PICK st : st = s \o t
    OBVIOUS
  <1>2. /\ st \in Seq(S) /\ Len(st) = Len(s) + Len(t)
        /\ \A i \in 1..Len(s) : st[i] = s[i]
    BY <1>1, ConcatFirst
  <1>3. Len(s) \in Nat /\ Len(t) \in Nat /\ Len(l) \in Nat
    OBVIOUS
  <1>4. Len(l) <= Len(st) /\ \A i \in 1..Len(l) : i \in 1..Len(s)
    BY <1>2, <1>3 DEF Starts
  <1> QED BY <1>1, <1>2, <1>4 DEF Starts

\* The blocks below the free range, and then the ones moved into it.
LEMMA MovedFirst ==
    ASSUME HInv, pc = "move"
    PROVE  /\ Before \o Unlocked \in Seq(Headers)
           /\ Len(Before \o Unlocked) = f1 + (u2 - u1)
           /\ \A i \in 1..(f1 - 1) : (Before \o Unlocked)[i] = list[i]
           /\ \A i \in f1..(f1 + (u2 - u1)) :
                 \E j \in u1..u2 : (Before \o Unlocked)[i] = list[j]
  <1>1. /\ f1 \in 1..Len(list) /\ u1 \in 1..Len(list) /\ u2 \in 1..Len(list)
        /\ Len(list) \in Nat /\ u1 <= u2
    BY MoveFacts
  <1>2. list \in Seq(Headers)
    BY ListFacts
  <1>3. PICK s, t, a, b, c : /\ s = Before /\ t = Unlocked /\ a = f1 /\ b = u1 /\ c = u2
    OBVIOUS
  <1>4. a \in Nat \ {0} /\ b \in Nat \ {0} /\ c \in Nat /\ b <= c
    BY <1>1, <1>3
  <1>5. /\ s \in Seq(Headers) /\ Len(s) = a - 1
        /\ \A i \in 1..(a - 1) : s[i] = list[i]
    <2>1. PICK x \in Nat \ {0}, y \in Int : x = 1 /\ y = a - 1 /\ y <= Len(list)
      BY <1>1, <1>3, <1>4
    <2>2. /\ SubSeq(list, x, y) \in Seq(Headers)
          /\ Len(SubSeq(list, x, y)) = IF x <= y THEN y - x + 1 ELSE 0
          /\ \A i \in 1..Len(SubSeq(list, x, y)) : SubSeq(list, x, y)[i] = list[x + i - 1]
      BY <2>1, <1>2, SubSeqParts
    <2>3. s = SubSeq(list, x, y)
      BY <2>1, <1>3 DEF Before
    <2>4. (IF x <= y THEN y - x + 1 ELSE 0) = a - 1
      BY <2>1, <1>4
    <2>5. \A i \in 1..(a - 1) : x + i - 1 = i
      BY <2>1, <1>4
    <2> QED BY <2>2, <2>3, <2>4, <2>5
  <1>6. /\ t \in Seq(Headers) /\ Len(t) = c - b + 1
        /\ \A i \in 1..(c - b + 1) : t[i] = list[b + i - 1]
    <2>1. c \in Int /\ c <= Len(list)
      BY <1>1, <1>3, <1>4
    <2>2. /\ SubSeq(list, b, c) \in Seq(Headers)
          /\ Len(SubSeq(list, b, c)) = IF b <= c THEN c - b + 1 ELSE 0
          /\ \A i \in 1..Len(SubSeq(list, b, c)) : SubSeq(list, b, c)[i] = list[b + i - 1]
      BY <2>1, <1>2, <1>4, SubSeqParts
    <2>3. t = SubSeq(list, b, c)
      BY <1>3 DEF Unlocked
    <2> QED BY <2>2, <2>3, <1>4
  <1>7. /\ s \o t \in Seq(Headers) /\ Len(s \o t) = Len(s) + Len(t)
        /\ \A i \in 1..Len(s) : (s \o t)[i] = s[i]
        /\ \A i \in 1..Len(t) : (s \o t)[Len(s) + i] = t[i]
    <2>1. s \in Seq(Headers) /\ t \in Seq(Headers)
      BY <1>5, <1>6
    <2> QED BY <2>1, ConcatFirst
  <1>8. Len(s) + Len(t) = a + (c - b)
    BY <1>4, <1>5, <1>6
  <1>9. ASSUME NEW i \in a..(a + (c - b))
        PROVE  \E j \in b..c : (s \o t)[i] = list[j]
    <2>1. PICK k : k = i - (a - 1)
      OBVIOUS
    <2>2. k \in 1..(c - b + 1) /\ (a - 1) + k = i /\ b + k - 1 \in b..c
      BY <2>1, <1>4
    <2>3. (s \o t)[i] = t[k] /\ t[k] = list[b + k - 1]
      BY <2>2, <1>5, <1>6, <1>7
    <2> QED BY <2>2, <2>3
  <1>10. \A i \in 1..(a - 1) : (s \o t)[i] = list[i]
    BY <1>5, <1>7
  <1> QED BY <1>3, <1>7, <1>8, <1>9, <1>10

\* What the three ways to relink the list have in common: it begins with the
\* blocks below the free range and the ones moved into it, and the next pass
\* begins at the last of these.
LEMMA NextPassPasses ==
    ASSUME HInv, PassOK, pc = "move", NextPass,
           \A h \in ToSet(list) : type'[h] = type[h],
           Starts(list', Before \o Unlocked)
    PROVE  PassOK'
  <1> SUFFICES ASSUME maxtime' = 0 PROVE PassOK'
    BY DEF PassOK
  <1>1. PICK l, a, b, c, e : /\ l = Before \o Unlocked /\ a = f1 /\ b = u1 /\ c = u2
                             /\ e = f1 + (u2 - u1)
    OBVIOUS
  <1>2. pc' = "pass" /\ root' = e /\ maxtime = 0
    BY <1>1 DEF NextPass
  <1>3. /\ a \in 1..Len(list) /\ b \in 1..Len(list) /\ c \in 1..Len(list)
        /\ Len(list) \in Nat /\ b <= c /\ \A i \in b..c : type[list[i]] = UNLOCKED
    BY <1>1, MoveFacts
  <1>4. e \in Nat /\ e >= a /\ e >= 1 /\ e = a + (c - b)
    BY <1>1, <1>3
  <1>5. /\ l \in Seq(Headers) /\ Len(l) = e
        /\ \A i \in 1..(a - 1) : l[i] = list[i]
        /\ \A i \in a..e : \E j \in b..c : l[i] = list[j]
    BY <1>1, MovedFirst
  <1>6. e <= Len(list') /\ \A i \in 1..e : list'[i] = l[i]
    BY <1>1, <1>5 DEF Starts
  <1>7. \A i \in 1..Len(list) : list[i] \in ToSet(list)
    BY ListFacts
  <1>8. ASSUME NEW i \in 1..(a - 1) PROVE list'[i] = list[i] /\ type'[list'[i]] = type[list[i]]
    <2>1. i \in 1..e /\ i \in 1..Len(list)
      BY <1>3, <1>4
    <2> QED BY <2>1, <1>5, <1>6, <1>7
  <1>9. ASSUME NEW i \in a..e PROVE type'[list'[i]] = UNLOCKED
    <2>1. i \in 1..e
      BY <1>3, <1>4
    <2>2. PICK j \in b..c : l[i] = list[j]
      BY <1>5
    <2>3. j \in 1..Len(list) /\ type[list[j]] = UNLOCKED
      BY <1>3
    <2>4. list[j] \in ToSet(list) /\ list'[i] = list[j]
      BY <2>1, <2>2, <2>3, <1>6, <1>7
    <2> QED BY <2>3, <2>4
  <1>10. Squeezed(a) /\ (a > 1 => type[list[a - 1]] # FREE)
    BY <1>1, <1>2 DEF PassOK, TypeAt
  <1>11. ASSUME NEW i \in 1..(e - 1)
         PROVE  ~(type'[list'[i]] = FREE /\ type'[list'[i + 1]] = UNLOCKED)
    <2>1. CASE i < a - 1
      <3>1. i \in 1..(a - 1) /\ i + 1 \in 1..(a - 1)
        BY <2>1, <1>3
      <3> QED BY <3>1, <1>8, <1>10 DEF Squeezed, TypeAt
    <2>2. CASE i = a - 1
      <3>1. i \in 1..(a - 1) /\ a > 1
        BY <2>2, <1>3
      <3> QED BY <3>1, <2>2, <1>8, <1>10
    <2>3. CASE i > a - 1
      <3>1. i \in a..e
        BY <2>3, <1>3, <1>4
      <3> QED BY <3>1, <1>9 DEF FREE, UNLOCKED
    <2> QED BY <2>1, <2>2, <2>3, <1>3, <1>4
  <1>12. type'[list'[e]] # FREE
    <2>1. e \in a..e
      BY <1>3, <1>4
    <2> QED BY <2>1, <1>9 DEF FREE, UNLOCKED
  <1>13. root' <= Len(list')
    BY <1>2, <1>6
  <1>14. Squeezed(root)'
    BY <1>2, <1>11 DEF Squeezed, TypeAt
  <1>15. type'[list'[root']] # FREE
    BY <1>2, <1>12
  <1> QED BY <1>2, <1>13, <1>14, <1>15 DEF PassOK, TypeAt

LEMMA RelinkPasses ==
    ASSUME HInv, PassOK, RelinkAdjacent \/ RelinkSpare \/ RelinkExtend
    PROVE  PassOK'
  <1>1. pc = "move" /\ NextPass
    BY DEF RelinkAdjacent, RelinkSpare, RelinkExtend, MoveDone
  <1>2. /\ Before \in Seq(Headers) /\ Unlocked \in Seq(Headers) /\ Between \in Seq(Headers)
        /\ After \in Seq(Headers) /\ list[f1] \in Headers
    BY <1>1, PartsType DEF HInv
  <1>3. PICK l, m, z, f : l = Before \o Unlocked /\ m = Between /\ z = After /\ f = list[f1]
    OBVIOUS
  <1>4. /\ l \in Seq(Headers) /\ m \in Seq(Headers) /\ z \in Seq(Headers)
        /\ <<f>> \in Seq(Headers) /\ Starts(l, l)
    BY <1>2, <1>3 DEF Starts
  <1>5. CASE RelinkAdjacent
    <2>1. list' = (l \o <<f>>) \o z /\ type' = type
      BY <1>3, <1>5 DEF RelinkAdjacent
    <2>2. PICK r : r = l \o <<f>>
      OBVIOUS
    <2>3. r \in Seq(Headers) /\ Starts(r, l)
      BY <2>2, <1>4, StartsOn
    <2>4. Starts(list', l)
      BY <2>1, <2>2, <2>3, <1>4, StartsOn
    <2> QED BY <2>1, <2>4, <1>1, <1>3, NextPassPasses
  <1>6. CASE RelinkSpare
    <2>0. PICK s : s = header_bottom + 1
      OBVIOUS
    <2>1. /\ list' = (((l \o <<s>>) \o m) \o <<f>>) \o z
          /\ type' = [type EXCEPT ![s] = FREE] /\ ~SpareAliased /\ HeaderRoom
      BY <2>0, <1>3, <1>6 DEF RelinkSpare
    <2>2. s \in Headers
      <3>1. header_bottom \in Headers /\ memory_top \in Nat
        BY DEF HInv, Inv, TypeOK
      <3>2. HeaderAddr(header_bottom + 2) > 0 /\ header_bottom \in Nat
        BY <3>1, <2>1, SizesAssumption DEF HeaderRoom, HeaderAddr, Headers
      <3> QED BY <3>2, <2>0, HeaderFits
    <2>3. <<s>> \in Seq(Headers)
      BY <2>2
    <2>4. PICK r1 : r1 = l \o <<s>>
      OBVIOUS
    <2>5. r1 \in Seq(Headers) /\ Starts(r1, l)
      BY <2>3, <2>4, <1>4, StartsOn
    <2>6. PICK r2 : r2 = r1 \o m
      OBVIOUS
    <2>7. r2 \in Seq(Headers) /\ Starts(r2, l)
      BY <2>5, <2>6, <1>4, StartsOn
    <2>8. PICK r3 : r3 = r2 \o <<f>>
      OBVIOUS
    <2>9. r3 \in Seq(Headers) /\ Starts(r3, l)
      BY <2>7, <2>8, <1>4, StartsOn
    <2>10. list' = r3 \o z
      BY <2>1, <2>4, <2>6, <2>8
    <2>11. Starts(list', l)
      BY <2>9, <2>10, <1>4, StartsOn
    <2>12. \A h \in ToSet(list) : type'[h] = type[h]
      <3>1. s \in ToSet(list) => type[s] = FREE
        BY <2>0, <2>1, <1>1, SpareFresh
      <3> QED BY <2>1, <3>1, ListFacts
    <2> QED BY <2>11, <2>12, <1>1, <1>3, NextPassPasses
  <1>7. CASE RelinkExtend
    <2>1. list' = ((l \o m) \o <<f>>) \o z /\ type' = type
      BY <1>3, <1>7 DEF RelinkExtend
    <2>2. PICK r1 : r1 = l \o m
      OBVIOUS
    <2>3. r1 \in Seq(Headers) /\ Starts(r1, l)
      BY <2>2, <1>4, StartsOn
    <2>4. PICK r2 : r2 = r1 \o <<f>>
      OBVIOUS
    <2>5. r2 \in Seq(Headers) /\ Starts(r2, l)
      BY <2>3, <2>4, <1>4, StartsOn
    <2>6. list' = r2 \o z
      BY <2>1, <2>2, <2>4
    <2>7. Starts(list', l)
      BY <2>5, <2>6, <1>4, StartsOn
    <2> QED BY <2>1, <2>7, <1>1, <1>3, NextPassPasses
  <1> QED BY <1>5, <1>6, <1>7

\* The list is cut behind the last used block.  If nothing is locked, there is
\* no free block below it: the first used block above one would be unlocked and
\* directly above a free block.  If there is no used block at all, the only
\* block left in the list is the one that was pruned.
LEMMA FinishPasses ==
    ASSUME HInv, PassOK, Finish
    PROVE  PassOK'
  <1> SUFFICES ASSUME maxtime' = 0 PROVE PassOK'
    BY DEF PassOK
  <1>1. PICK highest \in memory_bottom..HeapSize, n \in DOMAIN list :
          /\ HighestUsed(highest) /\ LargestAt(highest, n)
          /\ memory' = Cleared(memory, highest, NULL)
          /\ list' = SubSeq(list, 1, n)
    BY DEF Finish
  <1>2. pc = "finish" /\ pc' = "rebuild" /\ UNCHANGED <<type, req, maxtime>>
    BY DEF Finish, clientVars
  <1>3. Squeezed(Len(list)) /\ maxtime = 0
    BY <1>2 DEF PassOK
  <1>4. /\ list \in Seq(Headers) /\ Len(list) \in Nat /\ n \in 1..Len(list)
        /\ \A i \in 1..Len(list) : list[i] \in ToSet(list) /\ list[i] \in Headers
        /\ memory \in [Headers -> Int] /\ DOMAIN list = 1..Len(list)
    BY ListFacts
  <1>5. Len(list') = n /\ \A i \in 1..n : list'[i] = list[i]
    <2>0. 1 \in Nat \ {0} /\ n \in Int /\ n <= Len(list) /\ 1 <= n
      BY <1>4
    <2>1. PICK x \in Nat \ {0}, y \in Int : x = 1 /\ y = n /\ y <= Len(list) /\ x <= y
      BY <2>0
    <2>2. /\ Len(SubSeq(list, x, y)) = IF x <= y THEN y - x + 1 ELSE 0
          /\ \A i \in 1..Len(SubSeq(list, x, y)) : SubSeq(list, x, y)[i] = list[x + i - 1]
      BY <2>1, <1>4, SubSeqParts
    <2>3. list' = SubSeq(list, x, y)
      BY <2>1, <1>1
    <2>4. y - x + 1 = n /\ \A i \in 1..n : x + i - 1 = i
      BY <2>1, <1>4
    <2> QED BY <2>1, <2>2, <2>3, <2>4
  <1>6. ASSUME NEW i \in 1..(n - 1) PROVE ~(TypeAt(i)' = FREE /\ TypeAt(i + 1)' = UNLOCKED)
    <2>1. i \in 1..n /\ i + 1 \in 1..n /\ i \in 1..(Len(list) - 1)
      BY <1>4
    <2> QED BY <2>1, <1>2, <1>3, <1>5 DEF Squeezed, TypeAt
  <1>7. ASSUME \A h \in Held' : type'[h] = UNLOCKED, NEW h \in ListedBlocks', type'[h] = FREE
        PROVE  FALSE
    <2>1. \A g \in Held : type[g] = UNLOCKED
      BY <1>2, <1>7 DEF Held
    <2>2. PICK i \in 1..n : h = list[i]
      <3>1. list' \in Seq(Headers) /\ h \in ToSet(list')
        BY <1>1, <1>4, <1>7 DEF ListedBlocks
      <3> QED BY <3>1, <1>5 DEF ToSet
    <2>3. i \in 1..Len(list) /\ h \in Headers /\ type[h] = FREE /\ memory'[h] # NULL
      BY <2>2, <1>2, <1>4, <1>7 DEF ListedBlocks
    <2>4. memory[h] # NULL /\ h \notin Pruned(highest)
      BY <2>3, <1>1 DEF Cleared
    <2>5. CASE UsedEnds = {}
      <3>1. n = 1 /\ highest = memory_bottom
        BY <2>5, <1>1 DEF LargestAt, HighestUsed
      <3>2. i = 1 /\ h = list[1]
        BY <3>1, <2>2
      <3>3. memory[h] = memory_bottom
        <4>1. At(1) = memory_bottom
          BY <3>2, <2>4, <1>2 DEF HInv, SortedTile
        <4>2. 1 \in 1..Len(list)
          BY <3>2, <2>3
        <4>3. At(1) = memory[list[1]]
          BY <4>2, <1>2, AtType
        <4> QED BY <4>1, <4>3, <3>2
      <3>4. memory[list[1]] >= highest /\ TypeAt(1) = FREE /\ ~rm_header_is_unused(list[1])
        <4>1. memory_bottom >= memory_bottom
          BY SlotCount
        <4> QED BY <4>1, <3>1, <3>2, <3>3, <2>3, <2>4 DEF TypeAt, rm_header_is_unused
      <3>5. list[1] \in Pruned(highest)
        <4>1. 1 \in DOMAIN list /\ 1..(1 - 1) = {}
          BY <1>4, <3>2, <2>3
        <4> QED BY <4>1, <3>4 DEF Pruned
      <3> QED BY <3>2, <3>5, <2>4
    <2>6. CASE UsedEnds # {}
      <3>1. TypeAt(n) # FREE
        BY <2>6, <1>1 DEF LargestAt
      <3> DEFINE T == {j \in Nat : i < j /\ j <= n /\ TypeAt(j) # FREE}
      <3>2. n \in T
        <4>1. n \in Nat /\ i # n /\ i <= n /\ i \in Nat
          BY <3>1, <2>2, <2>3, <1>4 DEF TypeAt
        <4> QED BY <4>1, <3>1
      <3>3. PICK j \in T : \A k \in T : j <= k
        <4>1. T \in SUBSET Nat /\ T # {}
          BY <3>2
        <4> HIDE DEF T
        <4> QED BY <4>1, Least
      <3>4. j \in Nat /\ i < j /\ j <= n /\ TypeAt(j) # FREE
        OBVIOUS
      <3>5. PICK k : k = j - 1
        OBVIOUS
      <3>6. k \in 1..(Len(list) - 1) /\ k + 1 = j /\ j \in 1..Len(list) /\ k \in Nat /\ k < j
        BY <3>4, <3>5, <2>2, <1>4
      <3>7. TypeAt(k) = FREE
        <4>1. CASE k = i
          BY <4>1, <2>2, <2>3 DEF TypeAt
        <4>2. CASE k # i
          <5>1. i < k /\ k <= n /\ k \notin T
            BY <4>2, <3>3, <3>4, <3>5, <3>6, <2>2, <1>4
          <5> QED BY <5>1, <3>6
        <4> QED BY <4>1, <4>2
      <3>8. list[j] \in Held
        <4>1. list[j] \in ToSet(list) /\ type[list[j]] # FREE
          BY <3>4, <3>6, <1>4 DEF TypeAt
        <4> QED BY <4>1 DEF HInv, HandlesListed
      <3>9. TypeAt(k + 1) = UNLOCKED
        BY <3>6, <3>8, <2>1 DEF TypeAt
      <3> QED BY <3>6, <3>7, <3>9, <1>3 DEF Squeezed
    <2> QED BY <2>5, <2>6
  <1>8. Squeezed(Len(list))'
    BY <1>5, <1>6 DEF Squeezed
  <1>9. Compacted'
    BY <1>7, <1>8 DEF Compacted
  <1> QED BY <1>2, <1>9 DEF PassOK

LEMMA NextPasses == HInv /\ HInv' /\ PassOK /\ [Next]_vars => PassOK'
  <1> SUFFICES ASSUME HInv, HInv', PassOK, [Next]_vars PROVE PassOK'
    OBVIOUS
  <1>1. ASSUME pc' = "idle" PROVE PassOK'
    BY <1>1 DEF PassOK
  <1>2. ASSUME UNCHANGED <<memory, type, list, pc, maxtime, root, f1, req>> PROVE PassOK'
    BY <1>2 DEF PassOK, Squeezed, TypeAt, Compacted, Held, ListedBlocks
  <1>3. CASE UNCHANGED vars
    BY <1>2, <1>3 DEF vars, headerVars, compactVars, rangeVars, clientVars
  <1>4. ASSUME NEW n \in Sizes,
               \/ MallocTop(n) \/ MallocFreeBlock(n) \/ MallocLosesBlock(n)
               \/ MallocFails(n) \/ MallocFault(n)
        PROVE  PassOK'
    <2>1. pc = "idle" /\ pc' = pc
      <3>1. CASE MallocTop(n)
        BY <3>1 DEF MallocTop, Running, compactVars
      <3>2. CASE MallocFreeBlock(n)
        BY <3>2 DEF MallocFreeBlock, SplitFreeBlock, Running, compactVars
      <3>3. CASE MallocLosesBlock(n)
        BY <3>3 DEF MallocLosesBlock, Running, compactVars
      <3>4. CASE MallocFails(n) \/ MallocFault(n)
        BY <3>4 DEF MallocFails, MallocFault, Running, vars, compactVars
      <3> QED BY <1>4, <3>1, <3>2, <3>3, <3>4
    <2> QED BY <2>1, <1>1
  <1>5. ASSUME NEW h \in Headers,
               rm_free(h) \/ rm_lock(h) \/ rm_weaklock(h) \/ rm_unlock(h)
        PROVE  PassOK'
    <2>1. pc = "idle" /\ pc' = pc
      BY <1>5 DEF rm_free, rm_lock, rm_weaklock, rm_unlock, SetLock, Running, compactVars
    <2> QED BY <2>1, <1>1
  <1>6. ASSUME NEW limit \in {0, 1}, rm_compact(limit) PROVE PassOK'
    <2>1. pc' = "pass" /\ root' = 1
      BY <1>6 DEF rm_compact
    <2>2. list' # <<>> /\ list' \in Seq(Headers)
      BY DEF HInv, Inv, TypeOK
    <2>3. root' <= Len(list') /\ ~(root' > 1) /\ 1..(root' - 1) = {}
      BY <2>1, <2>2
    <2> QED BY <2>1, <2>3 DEF PassOK, Squeezed
  <1>7. CASE CompactStep
    <2>1. CASE RelinkFault \/ FinishFault \/ Rebuild
      <3>1. UNCHANGED <<memory, type, list, pc, maxtime, root, f1, req>>
        BY <2>1 DEF RelinkFault, FinishFault, Rebuild, heapVars, headerVars, compactVars,
           rangeVars, clientVars
      <3> QED BY <3>1, <1>2
    <2>2. CASE CompactReturns
      BY <2>2, <1>1 DEF CompactReturns
    <2> QED BY <1>7, <2>1, <2>2, PassPasses, GivingUpPasses, CollectingPasses, RelinkPasses,
         FinishPasses DEF CompactStep
  <1> QED BY <1>3, <1>4, <1>5, <1>6, <1>7 DEF Next

\* A call of rm_compact without a time limit leaves no free block directly below
\* an unlocked one, and none at all if nothing is locked, however many blocks
\* there are and whichever are locked: giving up a free range that nothing fits
\* in, starting the next pass at unlocked_last and cutting the list behind the
\* last used block leave nothing undone.
THEOREM NothingLeftUndone == Spec => CompactedFully
  <1>1. Init => PassOK
    BY DEF Init, PassOK
  <1>2. PassOK => [pc = "rebuild" /\ pc' = "idle" /\ maxtime = 0 =>
                     /\ \A i \in 1..(Len(list) - 1) :
                           ~(TypeAt(i) = FREE /\ TypeAt(i + 1) = UNLOCKED)
                     /\ (\A h \in Held : type[h] = UNLOCKED) =>
                           \A h \in ListedBlocks : type[h] # FREE]_vars
    BY DEF PassOK, Compacted, Squeezed
  <1>3. HInv /\ HInv' /\ PassOK /\ [Next]_vars => PassOK'
    BY NextPasses
  <1> QED BY <1>1, <1>2, <1>3, HeapInvariant, PTL DEF Spec, CompactedFully

=============================================================================
