-------------------------- MODULE JeffClientProofs --------------------------
(***************************************************************************)
(* What the client of jeff can rely on, for heaps of any size: its bytes   *)
(* stay what they were, the pointers of its locks stay valid, and blocks   *)
(* and headers stay apart.                                                 *)
(***************************************************************************)
EXTENDS JeffHeapProofs, JeffImplements

-----------------------------------------------------------------------------
(* The inductive invariant *)

\* The bytes of the heap, up to memory_top.
SpaceOK == /\ DOMAIN cells = 0..(HeapSize - 1)
           /\ memory_top <= HeapSize \/ memory_top = memory_bottom

\* Also between two memmoves every block has the bytes of its handle.
DataOK == \A h \in Held : /\ size[h] >= req[h]
                          /\ \A i \in 0..(req[h] - 1) : cells[memory[h] + i] = <<h, i>>

\* A pointer the client has is that of a block rm_compact sees locked.
PinsOK == \A h \in Held : ptr[h] # NULL =>
              ptr[h] = memory[h] /\ type[h] \in {LOCKED, WEAK_LOCKED}

CInv == HInv /\ SpaceOK /\ DataOK /\ PinsOK

-----------------------------------------------------------------------------
(* Where the blocks are *)

\* The blocks are between memory_bottom and memory_top.
LEMMA BlocksInside ==
    ASSUME HInv, pc # "move", NEW h \in ListedBlocks
    PROVE  /\ memory[h] >= memory_bottom /\ End(h) <= memory_top
           /\ End(h) = memory[h] + size[h] /\ size[h] >= FreeBlockSize
           /\ memory[h] \in Int /\ size[h] \in Int /\ h \in ToSet(list) /\ h \in Headers
  <1>1. /\ h \in ToSet(list) /\ memory[h] # NULL /\ h \in Headers
        /\ memory[h] \in Int /\ size[h] \in Int /\ Len(list) \in Nat /\ Len(list) >= 1
    BY ListFacts DEF ListedBlocks
  <1>2. End(h) = memory[h] + size[h]
    BY DEF End
  <1>3. CASE pc = "idle"
    <2>1. memory[h] >= memory_bottom /\ size[h] >= FreeBlockSize
      BY <1>3, BlocksAbove
    <2>2. End(h) <= memory_top
      BY <1>3 DEF HInv, BlocksTile
    <2> QED BY <1>1, <1>2, <2>1, <2>2
  <1>4. CASE pc # "idle"
    <2>1. PICK i \in 1..Len(list) : h = list[i]
      BY <1>1, ListFacts
    <2>2. memory[list[1]] # NULL
      <3> SUFFICES ASSUME memory[list[1]] = NULL PROVE FALSE
        OBVIOUS
      <3>1. list[1] \in ToSet(list)
        <4>1. 1 \in 1..Len(list)
          BY <1>1
        <4> QED BY <4>1, ListFacts
      <3>2. list = <<list[1]>>
        BY <3>1 DEF HInv, BlocksOK
      <3>3. Len(list) = 1
        BY <3>2
      <3>4. i = 1
        BY <3>3, <2>1
      <3> QED BY <3>4, <2>1, <1>1
    <2>3. /\ At(i) >= memory_bottom /\ EndAt(i) <= memory_top /\ size[list[i]] >= FreeBlockSize
      BY <2>2, <1>4, SortedFacts
    <2>4. At(i) = memory[h] /\ EndAt(i) = End(h)
      BY <2>1, AtType
    <2> QED BY <2>1, <2>3, <2>4, <1>1, <1>2
  <1> QED BY <1>3, <1>4

\* The block that is moved goes where no other block in use is.
LEMMA MoveApart ==
    ASSUME HInv, MoveBlock, NEW h, h = list[cur], NEW d, d = memory[h] - used_offset
    PROVE  /\ h \in ToSet(list) /\ h \in Headers /\ type[h] = UNLOCKED
           /\ d >= memory_bottom /\ d + size[h] <= memory_top /\ d \in Int
           /\ used_offset \in Int /\ used_offset >= 0
           /\ memory[h] \in Int /\ size[h] \in Int
           /\ \A g \in ToSet(list) : g # h /\ type[g] # FREE =>
                 /\ End(g) <= d \/ d + size[h] <= memory[g]
                 /\ End(g) <= memory[h] \/ memory[h] + size[h] <= memory[g]
  <1>1. pc = "move" /\ cur <= u2
    BY DEF MoveBlock
  <1>2. /\ f1 \in 1..Len(list) /\ f2 \in 1..Len(list) /\ u1 \in 1..Len(list)
        /\ u2 \in 1..Len(list) /\ Len(list) \in Nat /\ Len(list) > 1
        /\ f1 <= f2 /\ f2 < u1 /\ u1 <= u2 /\ cur \in u1..(u2 + 1)
        /\ \A i \in f1..f2 : type[list[i]] = FREE
        /\ \A i \in u1..u2 : type[list[i]] = UNLOCKED
        /\ free_size = EndAt(f2) - At(f1) /\ unlocked_size = EndAt(u2) - At(u1)
        /\ used_offset = At(u1) - At(f1)
        /\ u1 # f2 + 1 => unlocked_size <= free_size
    BY <1>1, MoveFacts
  <1>c. cur \in 1..Len(list) /\ cur \in u1..u2
    BY <1>1, <1>2
  <1>3. /\ \A i \in 1..Len(list) :
             /\ At(i) \in Int /\ EndAt(i) = At(i) + size[list[i]]
             /\ size[list[i]] \in Int /\ size[list[i]] >= FreeBlockSize
             /\ At(i) >= memory_bottom /\ EndAt(i) <= memory_top
        /\ \A i, j \in 1..Len(list) : i < j => EndAt(i) <= At(j)
    BY <1>1, <1>2, SortedFacts
  <1>4. FreeBlockSize \in Nat \ {0} /\ memory_bottom \in Nat \ {0} /\ memory_top \in Nat
    BY SlotCount, SizesAssumption, ListFacts
  <1>5. ToSet(list) = {list[i] : i \in 1..Len(list)} /\ h \in ToSet(list) /\ h \in Headers
        /\ memory[h] \in Int /\ size[h] \in Int /\ type[h] = UNLOCKED
    BY <1>c, <1>2, ListFacts
  <1>6. PICK o, a, b, e, x, y, z : /\ o = used_offset /\ a = At(f1) /\ b = EndAt(f2)
                                   /\ e = At(u1) /\ x = At(cur) /\ y = EndAt(cur)
                                   /\ z = EndAt(u2)
    OBVIOUS
  <1>7. /\ o = e - a /\ o \in Int /\ a \in Int /\ b \in Int /\ e \in Int /\ x \in Int
        /\ y \in Int /\ z \in Int /\ a < b /\ b <= e /\ e <= x /\ x < y /\ y <= z
        /\ a >= memory_bottom /\ z <= memory_top /\ y = x + size[h]
    <2>1. \A i \in 1..Len(list) : At(i) < EndAt(i) /\ EndAt(i) \in Int
      BY <1>3, <1>4, SMTT(30)
    <2>2. ASSUME NEW i \in 1..Len(list), NEW j \in 1..Len(list), i <= j
          PROVE  At(i) <= At(j) /\ EndAt(i) <= EndAt(j)
      <3>1. CASE i = j
        BY <3>1, <2>1, <1>3
      <3>2. CASE i < j
        <4>1. EndAt(i) <= At(j)
          BY <3>2, <1>3
        <4> QED BY <4>1, <2>1, <1>3
      <3> QED BY <3>1, <3>2, <2>2
    <2>3. a < b /\ b <= e /\ e <= x /\ y <= z /\ x < y
      <3>1. a <= At(f2) /\ At(f2) < b
        BY <2>1, <2>2, <1>2, <1>6
      <3>2. b <= e
        BY <1>2, <1>3, <1>6
      <3>3. e <= x /\ y <= z
        BY <2>2, <1>2, <1>c, <1>6
      <3>4. x < y
        BY <2>1, <1>c, <1>6
      <3>5. a \in Int /\ At(f2) \in Int /\ b \in Int
        BY <2>1, <1>2, <1>3, <1>6
      <3> QED BY <3>1, <3>2, <3>3, <3>4, <3>5
    <2>4. o = e - a /\ y = x + size[h]
      BY <1>2, <1>3, <1>6, <1>c
    <2>5. /\ a \in Int /\ b \in Int /\ e \in Int /\ x \in Int /\ y \in Int /\ z \in Int
          /\ a >= memory_bottom /\ z <= memory_top
      BY <2>1, <1>2, <1>3, <1>6, <1>c
    <2> QED BY <2>3, <2>4, <2>5
  <1>8. memory[h] = x /\ d = x - o /\ d \in Int
    <2>1. At(cur) = memory[list[cur]] + 0
      BY <1>1, <1>c DEF At
    <2>2. memory[h] = x
      BY <2>1, <1>5, <1>6
    <2>3. d = x - o
      BY <2>2, <1>6
    <2> QED BY <2>2, <2>3, <1>7
  <1>s. size[h] > 0 /\ size[h] = y - x
    BY <1>5, <1>7
  <1>w. memory[h] + size[h] = y /\ d + size[h] = y - o
    <2>1. x + (y - x) = y /\ (x - o) + (y - x) = y - o
      BY <1>7
    <2> QED BY <2>1, <1>8, <1>s
  <1>9. d >= memory_bottom /\ d + size[h] <= memory_top /\ o >= 0
    BY <1>4, <1>5, <1>7, <1>8
  <1>10. ASSUME NEW g \in ToSet(list), g # h, type[g] # FREE
         PROVE  /\ End(g) <= d \/ d + size[h] <= memory[g]
                /\ End(g) <= memory[h] \/ memory[h] + size[h] <= memory[g]
    <2>1. PICK j \in 1..Len(list) : g = list[j]
      BY <1>5
    <2>2. PICK p, q, s : p = At(j) /\ q = EndAt(j) /\ s = size[g]
      OBVIOUS
    <2>3. p \in Int /\ s \in Int /\ q = p + s /\ s >= FreeBlockSize /\ j # cur
          /\ memory[g] \in Int
      BY <2>1, <2>2, <1>3, <1>10, ListFacts
    <2>4. memory[g] = (IF u1 <= j /\ j < cur THEN p - o ELSE p) /\ End(g) = memory[g] + s
      <3>1. End(g) = memory[g] + s
        BY <2>2 DEF End
      <3>2. CASE u1 <= j /\ j < cur
        <4>1. p = memory[g] + o
          BY <3>2, <2>1, <2>2, <1>1, <1>6 DEF At
        <4> QED BY <3>1, <3>2, <4>1, <2>3, <1>7
      <3>3. CASE ~(u1 <= j /\ j < cur)
        <4>1. p = memory[g] + 0
          BY <3>3, <2>1, <2>2 DEF At
        <4> QED BY <3>1, <3>3, <4>1, <2>3
      <3> QED BY <3>2, <3>3
    <2>5. CASE j < f1
      <3>1. q <= a
        BY <2>2, <2>5, <1>2, <1>3, <1>6
      <3>2. memory[g] = p
        BY <2>4, <2>5, <1>2
      <3>3. End(g) = q /\ q <= d /\ q <= x
        BY <3>1, <3>2, <2>3, <2>4, <1>7, <1>8
      <3> QED BY <3>3, <1>8
    <2>6. CASE f1 <= j /\ j <= f2
      BY <2>1, <2>6, <1>2, <1>10
    <2>7. CASE f2 < j /\ j < u1
      <3>1. b <= p /\ q <= e
        BY <2>2, <2>7, <1>2, <1>3, <1>6
      <3>2. u1 # f2 + 1
        BY <2>7, <1>2
      <3>3. z - e <= b - a
        BY <3>2, <1>2, <1>6
      <3>4. memory[g] = p
        BY <2>4, <2>7, <1>2
      <3>5. End(g) = q /\ q <= x
        BY <3>1, <3>4, <2>3, <2>4, <1>7
      <3>7. y - o <= p
        BY <3>1, <3>3, <2>3, <1>7, SMTT(30)
      <3> QED BY <3>4, <3>5, <3>7, <1>8, <1>w
    <2>8. CASE u1 <= j /\ j < cur
      <3>1. q <= x
        BY <2>2, <2>8, <1>3, <1>6, <1>c
      <3>2. memory[g] = p - o
        BY <2>4, <2>8
      <3>3. End(g) = q - o
        BY <3>2, <2>3, <2>4, <1>7
      <3>4. q - o <= x - o /\ q - o <= x
        BY <3>1, <2>3, <1>7, <1>9
      <3> QED BY <3>3, <3>4, <1>8
    <2>9. CASE cur < j
      <3>1. y <= p
        BY <2>2, <2>9, <1>3, <1>6, <1>c
      <3>2. memory[g] = p
        BY <2>4, <2>9, <1>2, <1>c
      <3>4. y <= p /\ y - o <= p
        BY <3>1, <2>3, <1>7, <1>9, SMTT(30)
      <3> QED BY <3>2, <3>4, <1>w
    <2> QED BY <2>3, <2>5, <2>6, <2>7, <2>8, <2>9, <1>2, <1>c
  <1>11. used_offset \in Int /\ used_offset >= 0
    BY <1>6, <1>7, <1>9
  <1> QED BY <1>5, <1>8, <1>9, <1>10, <1>11

-----------------------------------------------------------------------------
(* Steps the client does not see *)

\* The step leaves the handle g, its block and its bytes alone.
Keeps(g) ==
    /\ memory'[g] = memory[g] /\ type'[g] = type[g] /\ size'[g] >= size[g]
    /\ req'[g] = req[g] /\ ptr'[g] = ptr[g]
    /\ \A i \in 0..(req[g] - 1) : cells'[memory[g] + i] = cells[memory[g] + i]

Quiet == UNCHANGED req /\ \A g \in Held : Keeps(g)

LEMMA HeldTypes ==
    ASSUME HInv, NEW g \in Held
    PROVE  /\ g \in Headers /\ g \in ToSet(list) /\ g \in ListedBlocks /\ type[g] # FREE
           /\ memory[g] \in Int /\ size[g] \in Int /\ req[g] \in Nat /\ req[g] > 0
           /\ ptr[g] \in Int
  <1>1. TypeOK
    BY ListFacts
  <1> QED BY <1>1, HeldFacts DEF TypeOK, Held

\* A block keeps its bytes and its pointer.
LEMMA KeepsFacts ==
    ASSUME CInv, HInv', NEW g \in Held, Keeps(g)
    PROVE  /\ size'[g] >= req'[g]
           /\ \A i \in 0..(req'[g] - 1) : cells'[memory'[g] + i] = <<g, i>>
           /\ ptr'[g] # NULL => ptr'[g] = memory'[g] /\ type'[g] \in {LOCKED, WEAK_LOCKED}
  <1>1. /\ g \in Headers /\ size[g] \in Int /\ req[g] \in Nat
    BY HeldTypes DEF CInv
  <1>2. /\ size[g] >= req[g] /\ \A i \in 0..(req[g] - 1) : cells[memory[g] + i] = <<g, i>>
        /\ ptr[g] # NULL => ptr[g] = memory[g] /\ type[g] \in {LOCKED, WEAK_LOCKED}
    BY DEF CInv, DataOK, PinsOK
  <1>3. PICK z : z = size'[g]
    OBVIOUS
  <1>4. z \in Int /\ z >= size[g]
    BY <1>1, <1>3 DEF Keeps, HInv, Inv, TypeOK
  <1>5. z >= req[g]
    BY <1>1, <1>2, <1>4
  <1>6. /\ memory'[g] = memory[g] /\ req'[g] = req[g] /\ ptr'[g] = ptr[g]
        /\ type'[g] = type[g]
        /\ \A i \in 0..(req[g] - 1) : cells'[memory[g] + i] = cells[memory[g] + i]
    BY DEF Keeps
  <1> QED BY <1>2, <1>3, <1>5, <1>6

LEMMA QuietKeeps ==
    ASSUME CInv, HInv', SpaceOK', Quiet
    PROVE  CInv'
  <1>1. Held' = Held
    BY DEF Quiet, Held
  <1>2. \A g \in Held : /\ size'[g] >= req'[g]
                        /\ \A i \in 0..(req'[g] - 1) : cells'[memory'[g] + i] = <<g, i>>
                        /\ ptr'[g] # NULL =>
                              ptr'[g] = memory'[g] /\ type'[g] \in {LOCKED, WEAK_LOCKED}
    BY KeepsFacts DEF Quiet
  <1> QED BY <1>1, <1>2 DEF CInv, DataOK, PinsOK

\* Most steps leave the headers and the bytes alone.
LEMMA UnseenQuiet ==
    ASSUME CInv, UNCHANGED <<memory, size, type, memory_top, req, ptr, cells>>
    PROVE  Quiet /\ SpaceOK'
  <1>1. SpaceOK'
    BY DEF CInv, SpaceOK
  <1>2. ASSUME NEW g \in Held PROVE Keeps(g)
    <2>1. size[g] \in Int
      BY HeldTypes DEF CInv
    <2> QED BY <2>1 DEF Keeps
  <1> QED BY <1>1, <1>2 DEF Quiet

\* Relinking changes free headers, and makes the last moved block longer.
LEMMA RelinkQuiet ==
    ASSUME CInv, RelinkAdjacent \/ RelinkSpare \/ RelinkExtend
    PROVE  Quiet /\ SpaceOK'
  <1>1. HInv /\ pc = "move" /\ UNCHANGED <<req, ptr, cells, memory_top>>
    BY DEF CInv, RelinkAdjacent, RelinkSpare, RelinkExtend, MoveDone, NextPass, clientVars
  <1>2. /\ f1 \in 1..Len(list) /\ f2 \in 1..Len(list) /\ u2 \in 1..Len(list)
        /\ f1 <= f2 /\ \A i \in f1..f2 : type[list[i]] = FREE
        /\ u1 # f2 + 1 => unlocked_size <= free_size
        /\ free_size \in Int /\ unlocked_size \in Int
    BY <1>1, MoveFacts
  <1>3. PICK f : f = list[f1] /\ f \in Headers /\ type[f] = FREE
    BY <1>1, <1>2, ListFacts
  <1>4. /\ memory \in [Headers -> Int] /\ size \in [Headers -> Int]
        /\ type \in [Headers -> BlockTypes] /\ list[u2] \in Headers
    BY <1>1, <1>2, ListFacts
  <1>5. SpaceOK'
    BY <1>1 DEF CInv, SpaceOK
  <1>6. ASSUME NEW g \in Held PROVE memory'[g] = memory[g] /\ type'[g] = type[g] /\ size'[g] >= size[g]
    <2>1. g \in Headers /\ g # f /\ size[g] \in Int /\ g \in ToSet(list)
      BY <1>1, <1>3, HeldTypes
    <2>2. CASE RelinkAdjacent
      BY <2>1, <2>2, <1>3, <1>4 DEF RelinkAdjacent
    <2>3. CASE RelinkSpare
      <3>1. g # header_bottom + 1
        <4>1. type[g] # FREE
          BY <1>1, HeldTypes
        <4>2. ~SpareAliased
          BY <2>3 DEF RelinkSpare
        <4> QED BY <4>1, <4>2, <2>1, <1>1, SpareFresh
      <3>2. memory'[g] = memory[g]
        BY <3>1, <2>1, <2>3, <1>3, <1>4 DEF RelinkSpare
      <3>3. size'[g] = size[g]
        BY <3>1, <2>1, <2>3, <1>3, <1>4 DEF RelinkSpare
      <3>4. type'[g] = type[g]
        BY <3>1, <2>1, <2>3, <1>3, <1>4 DEF RelinkSpare
      <3> QED BY <3>2, <3>3, <3>4, <2>1
    <2>4. CASE RelinkExtend
      <3>1. memory'[g] = memory[g] /\ type'[g] = type[g]
        BY <2>1, <2>4, <1>3, <1>4 DEF RelinkExtend
      <3>2. PICK w : w = free_size - unlocked_size
        OBVIOUS
      <3>3. w \in Int /\ w >= 0
        BY <3>2, <2>4, <1>2 DEF RelinkExtend
      <3>4. size' = [size EXCEPT ![f] = unlocked_size, ![list[u2]] = @ + w]
        BY <3>2, <2>4, <1>3 DEF RelinkExtend
      <3>5. size'[g] = size[g] \/ size'[g] = size[g] + w
        BY <3>4, <2>1, <1>4
      <3>6. size[g] + w >= size[g] /\ size[g] >= size[g]
        BY <3>3, <2>1
      <3> QED BY <3>1, <3>5, <3>6
    <2> QED BY <2>2, <2>3, <2>4
  <1> QED BY <1>1, <1>5, <1>6 DEF Quiet, Keeps

LEMMA FinishQuiet ==
    ASSUME CInv, Finish
    PROVE  Quiet /\ SpaceOK'
  <1>1. UNCHANGED <<type, req, ptr, cells>> /\ HInv
    BY DEF Finish, clientVars, CInv
  <1>2. PICK a \in memory_bottom..HeapSize :
            /\ memory' = Cleared(memory, a, NULL) /\ size' = Cleared(size, a, 0)
            /\ memory_top' = a
    BY DEF Finish
  <1>3. a <= HeapSize
    BY SlotCount, SizesAssumption
  <1>4. SpaceOK'
    BY <1>1, <1>2, <1>3 DEF CInv, SpaceOK
  <1>5. ASSUME NEW g \in Held PROVE memory'[g] = memory[g] /\ size'[g] >= size[g]
    <2>1. g \in Headers /\ type[g] # FREE /\ size[g] \in Int
      BY <1>1, HeldTypes
    <2>2. g \notin Pruned(a)
      BY <2>1 DEF Pruned, TypeAt
    <2>3. memory'[g] = memory[g] /\ size'[g] = size[g]
      BY <1>2, <2>1, <2>2 DEF Cleared
    <2> QED BY <2>1, <2>3
  <1> QED BY <1>1, <1>4, <1>5 DEF Quiet, Keeps

\* Two listed blocks are apart.
LEMMA BlocksApart ==
    ASSUME HInv, pc # "move", NEW g \in ListedBlocks, NEW b \in ListedBlocks, g # b
    PROVE  End(g) <= memory[b] \/ End(b) <= memory[g]
  <1>1. BlocksTile
    BY SortedCovers
  <1> QED BY <1>1 DEF BlocksTile

\* The bytes of a handle are in the heap, and in no other block.
LEMMA BytesApart ==
    ASSUME CInv, pc # "move", NEW g \in Held, NEW i \in 0..(req[g] - 1)
    PROVE  /\ memory[g] + i \in DOMAIN cells /\ memory[g] + i \in Int
           /\ memory[g] + i >= memory_bottom /\ memory[g] + i < End(g) /\ End(g) <= HeapSize
           /\ \A b \in ListedBlocks : b # g => memory[g] + i \notin Bytes(memory[b], size[b])
  <1>1. /\ g \in ListedBlocks /\ memory[g] \in Int /\ size[g] \in Int /\ req[g] \in Nat
        /\ i \in Int /\ i >= 0 /\ i < req[g] /\ i < size[g]
    <2>1. g \in ListedBlocks /\ memory[g] \in Int /\ size[g] \in Int /\ req[g] \in Nat
      BY HeldTypes DEF CInv
    <2>2. size[g] >= req[g]
      BY DEF CInv, DataOK
    <2> QED BY <2>1, <2>2
  <1>2. memory[g] >= memory_bottom /\ End(g) <= memory_top /\ End(g) = memory[g] + size[g]
    BY <1>1, BlocksInside DEF CInv
  <1>3. HeapSize \in Nat /\ memory_bottom \in Nat \ {0} /\ memory_top \in Nat
    BY SizesAssumption, SlotCount, ListFacts DEF CInv
  <1>4. memory[g] + i >= memory_bottom /\ memory[g] + i < End(g)
    BY <1>1, <1>2, <1>3
  <1>5. End(g) <= HeapSize
    <2>1. memory_top # memory_bottom
      BY <1>1, <1>2, <1>3
    <2>2. memory_top <= HeapSize
      BY <2>1 DEF CInv, SpaceOK
    <2> QED BY <2>2, <1>1, <1>2, <1>3
  <1>6. memory[g] + i \in DOMAIN cells
    <2>1. memory[g] + i \in 0..(HeapSize - 1)
      BY <1>1, <1>2, <1>3, <1>4, <1>5
    <2> QED BY <2>1 DEF CInv, SpaceOK
  <1>7. ASSUME NEW b \in ListedBlocks, b # g
        PROVE  memory[g] + i \notin Bytes(memory[b], size[b])
    <2>1. End(g) <= memory[b] \/ End(b) <= memory[g]
      BY <1>1, <1>7, BlocksApart DEF CInv
    <2>2. memory[b] \in Int /\ size[b] \in Int /\ End(b) = memory[b] + size[b]
      BY BlocksInside DEF CInv
    <2>3. PICK p, q, x, y : p = memory[b] /\ q = size[b] /\ x = memory[g] /\ y = size[g]
      OBVIOUS
    <2>4. x + y <= p \/ p + q <= x
      BY <2>1, <2>2, <2>3, <1>2
    <2>5. p \in Int /\ q \in Int /\ x \in Int /\ y \in Int /\ i < y
      BY <2>2, <2>3, <1>1
    <2>6. x + i \notin p..(p + q - 1)
      BY <2>4, <2>5, <1>1
    <2> QED BY <2>3, <2>6 DEF Bytes
  <1> QED BY <1>1, <1>4, <1>5, <1>6, <1>7

\* A free_memory_block_t is written inside its block.
LEMMA FreeBlockInside ==
    ASSUME HInv, pc # "move", NEW b \in ListedBlocks
    PROVE  rm_block_from_header(memory[b], size[b]) \subseteq Bytes(memory[b], size[b])
  <1>1. /\ size[b] >= FreeBlockSize /\ memory[b] \in Int /\ size[b] \in Int
        /\ FreeBlockSize \in Nat
    BY BlocksInside, SizesAssumption
  <1>2. PICK p, q : p = memory[b] /\ q = size[b]
    OBVIOUS
  <1>3. \A x \in (p + q - FreeBlockSize)..(p + q - FreeBlockSize + FreeBlockSize - 1) :
            x \in p..(p + q - 1)
    BY <1>1, <1>2
  <1> QED BY <1>2, <1>3 DEF rm_block_from_header, Bytes

LEMMA RebuildQuiet ==
    ASSUME CInv, Rebuild
    PROVE  Quiet /\ SpaceOK'
  <1>1. /\ HInv /\ pc = "rebuild" /\ cur <= Len(list)
        /\ UNCHANGED <<memory, size, type, memory_top, req, ptr>>
    BY DEF CInv, Rebuild, headerVars
  <1>2. CASE UNCHANGED cells
    BY <1>1, <1>2, UnseenQuiet
  <1>3. CASE cells' # cells
    <2>1. PICK b : b = list[cur]
      OBVIOUS
    <2>2. /\ memory[b] # NULL /\ type[b] = FREE
          /\ cells' = Overwrite(rm_block_from_header(memory[b], size[b]))
      BY <2>1, <1>3 DEF Rebuild, rm_header_is_unused
    <2>3. cur \in 1..Len(list)
      <3>1. cur \in Int /\ cur >= 1 /\ Len(list) \in Nat
        BY <1>1, ListFacts, LocalTypes DEF HInv, Inv, RangesOK
      <3> QED BY <3>1, <1>1
    <2>4. b \in ListedBlocks
      BY <2>1, <2>2, <2>3, <1>1, ListFacts DEF ListedBlocks
    <2>5. rm_block_from_header(memory[b], size[b]) \subseteq Bytes(memory[b], size[b])
      BY <2>4, <1>1, FreeBlockInside
    <2>6. ASSUME NEW g \in Held PROVE Keeps(g)
      <3>1. g # b /\ size[g] \in Int
        BY <2>2, <1>1, HeldTypes
      <3>2. ASSUME NEW i \in 0..(req[g] - 1)
            PROVE  cells'[memory[g] + i] = cells[memory[g] + i]
        <4>1. memory[g] + i \in DOMAIN cells /\ memory[g] + i \notin Bytes(memory[b], size[b])
          BY <3>1, <2>4, <1>1, BytesApart
        <4>2. memory[g] + i \notin rm_block_from_header(memory[b], size[b])
          BY <4>1, <2>5
        <4> QED BY <4>1, <4>2, <2>2 DEF Overwrite
      <3> QED BY <3>1, <3>2, <1>1 DEF Keeps
    <2>7. DOMAIN cells' = DOMAIN cells
      BY <2>2 DEF Overwrite
    <2> QED BY <2>6, <2>7, <1>1 DEF Quiet, CInv, SpaceOK
  <1> QED BY <1>2, <1>3

\* All steps of rm_compact but the memmove.
LEMMA CompactQuiet ==
    ASSUME CInv, CompactStep, ~MoveBlock
    PROVE  Quiet /\ SpaceOK'
  <1>1. CASE RelinkAdjacent \/ RelinkSpare \/ RelinkExtend
    BY <1>1, RelinkQuiet
  <1>2. CASE Finish
    BY <1>2, FinishQuiet
  <1>3. CASE Rebuild
    BY <1>3, RebuildQuiet
  <1>4. CASE UNCHANGED heapVars
    BY <1>4, UnseenQuiet DEF heapVars, headerVars, clientVars
  <1>5. \/ RelinkAdjacent \/ RelinkSpare \/ RelinkExtend \/ Finish \/ Rebuild
        \/ UNCHANGED heapVars
    BY DEF CompactStep, PassEnds, PassBegins, FreeRange, NothingToMove, NextFreeRange,
       UnlockedBegins, UnlockedRange, UnlockedRangeDone, RelinkFault, FinishFault,
       CompactReturns
  <1> QED BY <1>1, <1>2, <1>3, <1>4, <1>5

-----------------------------------------------------------------------------
(* rm_malloc *)

\* Headers grow down.
LEMMA HeaderOrder ==
    /\ \A i \in Nat : HeaderAddr(i) \in Int /\ HeaderAddr(i) < HeapSize
                      /\ HeaderAddr(i + 1) = HeaderAddr(i) - HeaderSize
    /\ \A i, j \in Nat : i <= j => HeaderAddr(j) <= HeaderAddr(i)
  <1>1. HeaderSize \in Nat \ {0} /\ HeapSize \in Nat
    BY SizesAssumption
  <1>2. ASSUME NEW i \in Nat, NEW j \in Nat, i <= j
        PROVE  (i + 1) * HeaderSize <= (j + 1) * HeaderSize
    BY <1>1, <1>2
  <1>3. ASSUME NEW i \in Nat
        PROVE  /\ (i + 1) * HeaderSize \in Nat /\ (i + 1) * HeaderSize > 0
               /\ (i + 1 + 1) * HeaderSize = (i + 1) * HeaderSize + HeaderSize
    BY <1>1
  <1>4. ASSUME NEW i \in Nat
        PROVE  HeaderAddr(i) \in Int /\ HeaderAddr(i) < HeapSize
               /\ HeaderAddr(i + 1) = HeaderAddr(i) - HeaderSize
    <2>1. PICK p : p = (i + 1) * HeaderSize
      OBVIOUS
    <2>2. HeaderAddr(i) = HeapSize - p /\ HeaderAddr(i + 1) = HeapSize - (p + HeaderSize)
      BY <2>1, <1>3 DEF HeaderAddr
    <2>3. p \in Nat /\ p > 0
      BY <2>1, <1>3
    <2> QED BY <2>2, <2>3, <1>1
  <1>5. ASSUME NEW i \in Nat, NEW j \in Nat, i <= j
        PROVE  HeaderAddr(j) <= HeaderAddr(i)
    <2>1. PICK p, q : p = (i + 1) * HeaderSize /\ q = (j + 1) * HeaderSize
      OBVIOUS
    <2>2. p <= q /\ p \in Nat /\ q \in Nat
      BY <2>1, <1>2, <1>3, <1>5
    <2>3. HeapSize - q <= HeapSize - p
      BY <2>2, <1>1
    <2> QED BY <2>1, <2>3 DEF HeaderAddr
  <1> QED BY <1>4, <1>5

\* The client gets the handle h to n bytes apart from all others.
Obtains(h, n) ==
    /\ h \in Headers \ Held /\ req' = [req EXCEPT ![h] = n] /\ Held' = Held \cup {h}
    /\ \A g \in Held : Keeps(g)
    /\ type'[h] = UNLOCKED /\ ptr'[h] = NULL /\ size'[h] >= n
    /\ memory'[h] >= memory_bottom /\ memory'[h] + n <= HeapSize
    /\ \A i \in 0..(n - 1) : cells'[memory'[h] + i] = <<h, i>>
    /\ \A g \in Held : End(g) <= memory'[h] \/ memory'[h] + n <= memory[g]

LEMMA HandOutObtains ==
    ASSUME CInv, pc = "idle", NEW h \in Headers, h \notin Held, NEW n \in Sizes,
           NEW a \in Int, a >= memory_bottom, a + n <= HeapSize, HandOut(h, a, n),
           memory'[h] = a, type'[h] = UNLOCKED, size'[h] >= n,
           \A g \in Held : memory'[g] = memory[g] /\ type'[g] = type[g] /\ size'[g] = size[g],
           \A g \in Held : End(g) <= a \/ a + n <= memory[g]
    PROVE  Obtains(h, n) /\ DOMAIN cells' = DOMAIN cells
  <1>1. n \in Nat /\ n > 0 /\ HeapSize \in Nat /\ memory_bottom \in Nat \ {0}
    BY SizesAssumption, SlotCount
  <1>2. /\ req' = [req EXCEPT ![h] = n] /\ ptr' = [ptr EXCEPT ![h] = NULL]
        /\ cells' = [x \in DOMAIN cells |->
                        IF x \in Bytes(a, n) THEN <<h, x - a>> ELSE cells[x]]
    BY DEF HandOut
  <1>3. req \in [Headers -> Nat] /\ ptr \in [Headers -> Int]
    BY DEF CInv, HInv, Inv, TypeOK
  <1>4. Held' = Held \cup {h}
    BY MoreHeld DEF CInv
  <1>5. DOMAIN cells = 0..(HeapSize - 1)
    BY DEF CInv, SpaceOK
  <1>6. ASSUME NEW i \in 0..(n - 1) PROVE cells'[a + i] = <<h, i>>
    <2>1. a + i \in 0..(HeapSize - 1) /\ a + i \in a..(a + n - 1) /\ (a + i) - a = i
      BY <1>1
    <2> QED BY <2>1, <1>2, <1>5 DEF Bytes
  <1>7. ASSUME NEW g \in Held PROVE Keeps(g)
    <2>1. g \in Headers /\ g # h /\ size[g] \in Int /\ memory[g] \in Int
      BY HeldTypes DEF CInv
    <2>2. req'[g] = req[g] /\ ptr'[g] = ptr[g]
      BY <2>1, <1>2, <1>3
    <2>3. ASSUME NEW i \in 0..(req[g] - 1)
          PROVE  cells'[memory[g] + i] = cells[memory[g] + i]
      <3>1. /\ memory[g] + i \in DOMAIN cells /\ memory[g] + i < End(g)
            /\ memory[g] + i \in Int /\ End(g) \in Int
        BY <2>1, BytesApart DEF End
      <3>2. i >= 0 /\ i \in Int
        BY <2>1, <1>3
      <3>3. PICK x, y, e : x = memory[g] + i /\ y = memory[g] /\ e = End(g)
        OBVIOUS
      <3>4. x \notin a..(a + n - 1)
        <4>1. e <= a \/ a + n <= y
          BY <3>3
        <4>2. x < e /\ y <= x /\ x \in Int /\ y \in Int /\ e \in Int
          BY <3>1, <3>2, <3>3, <2>1
        <4> QED BY <4>1, <4>2, <1>1
      <3> QED BY <3>1, <3>3, <3>4, <1>2 DEF Bytes
    <2>4. size'[g] >= size[g]
      BY <2>1
    <2> QED BY <2>2, <2>3, <2>4 DEF Keeps
  <1>8. ptr'[h] = NULL
    BY <1>2, <1>3
  <1> QED BY <1>2, <1>4, <1>6, <1>7, <1>8 DEF Obtains

LEMMA MallocTopObtains ==
    ASSUME CInv, NEW n \in Sizes, MallocTop(n)
    PROVE  (\E h \in Headers : Obtains(h, n)) /\ SpaceOK'
  <1>0. PICK h, s : h = rm_header_find_free /\ s = BlockSize(n)
    OBVIOUS
  <1>1. /\ pc = "idle" /\ TopRoom(s)
        /\ h # NoHeader /\ ~Aliased /\ TakeHeader
        /\ memory' = [memory EXCEPT ![h] = memory_top]
        /\ size' = [size EXCEPT ![h] = s]
        /\ type' = [type EXCEPT ![h] = UNLOCKED]
        /\ memory_top' = memory_top + s
        /\ HandOut(h, memory_top, n)
    BY <1>0 DEF MallocTop, Running
  <1>2. h \in Headers /\ h \notin Held
    BY <1>0, <1>1, TakenHeader DEF CInv
  <1>3. /\ memory \in [Headers -> Int] /\ size \in [Headers -> Int]
        /\ type \in [Headers -> BlockTypes] /\ memory_top \in Nat /\ HInv
    BY ListFacts DEF CInv
  <1>4. s \in Nat /\ s >= n /\ n \in Nat /\ HeaderSize \in Nat /\ HeapSize \in Nat
    BY <1>0, SizesAssumption DEF BlockSize
  <1>5. memory_top + s < HeapSize
    <2>1. header_bottom \in Nat
      BY DEF CInv, HInv, Inv, TypeOK, Headers
    <2>2. PICK x : x = HeaderAddr(header_bottom)
      OBVIOUS
    <2>3. x \in Int /\ x < HeapSize
      BY <2>1, <2>2, HeaderOrder
    <2>4. memory_top + s + HeaderSize < x
      BY <2>2, <1>1 DEF TopRoom
    <2> QED BY <2>3, <2>4, <1>3, <1>4
  <1>6. memory_top >= memory_bottom
    <2>1. BlocksTile
      BY <1>1, <1>3, SortedCovers
    <2>2. memory_bottom \in {memory[g] : g \in ListedBlocks} \cup {memory_top}
      BY <2>1, <1>1 DEF BlocksTile
    <2>3. CASE memory_bottom = memory_top
      BY <2>3, <1>3
    <2>4. ASSUME NEW g \in ListedBlocks, memory_bottom = memory[g] PROVE memory_top >= memory_bottom
      <3>1. /\ End(g) <= memory_top /\ End(g) = memory[g] + size[g]
            /\ size[g] >= FreeBlockSize /\ memory[g] \in Int /\ size[g] \in Int
        BY <1>1, <1>3, BlocksInside
      <3> QED BY <3>1, <2>4, <1>3, SizesAssumption
    <2> QED BY <2>2, <2>3, <2>4
  <1>7. ASSUME NEW g \in Held
        PROVE  /\ memory'[g] = memory[g] /\ type'[g] = type[g] /\ size'[g] = size[g]
               /\ End(g) <= memory_top
    <2>1. g \in Headers /\ g # h /\ g \in ListedBlocks
      BY <1>2, <1>3, HeldTypes
    <2>2. End(g) <= memory_top
      BY <2>1, <1>1, <1>3, BlocksInside
    <2> QED BY <2>1, <2>2, <1>1, <1>3
  <1>8. memory'[h] = memory_top /\ type'[h] = UNLOCKED /\ size'[h] >= n
    BY <1>1, <1>2, <1>3, <1>4
  <1>9. memory_top + n <= HeapSize
    BY <1>3, <1>4, <1>5
  <1>10. Obtains(h, n) /\ DOMAIN cells' = DOMAIN cells
    BY <1>1, <1>2, <1>3, <1>6, <1>7, <1>8, <1>9, HandOutObtains
  <1>11. memory_top' <= HeapSize
    BY <1>1, <1>3, <1>4, <1>5
  <1> QED BY <1>2, <1>10, <1>11 DEF CInv, SpaceOK

LEMMA MallocFreeBlockObtains ==
    ASSUME CInv, NEW n \in Sizes, MallocFreeBlock(n)
    PROVE  (\E h \in Headers : Obtains(h, n)) /\ SpaceOK'
  <1>0. PICK k \in Slots, r \in Slots : \E p \in DOMAIN slots[k] :
            SplitFreeBlock(n, k, p, r)
    BY DEF MallocFreeBlock
  <1>p. PICK p \in DOMAIN slots[k] : SplitFreeBlock(n, k, p, r)
    BY <1>0
  <1>c. PICK h, b, s, d, m : /\ h = rm_header_find_free /\ b = slots[k][p]
                             /\ s = BlockSize(n) /\ d = size[b] - s /\ m = memory[b]
    OBVIOUS
  <1>1. /\ pc = "idle" /\ memory_top' = memory_top
        /\ h # NoHeader /\ ~Aliased /\ TakeHeader /\ d >= FreeBlockSize
        /\ memory' = [memory EXCEPT ![h] = m, ![b] = m + d]
        /\ size' = [size EXCEPT ![h] = d, ![b] = s]
        /\ type' = [type EXCEPT ![h] = FREE, ![b] = UNLOCKED]
        /\ HandOut(b, m + d, n)
    BY <1>p, <1>c DEF SplitFreeBlock, CanShrink, Running
  <1>2. h \in Headers /\ h \notin Held /\ h \notin ListedBlocks
    BY <1>c, <1>1, TakenHeader DEF CInv
  <1>3. /\ memory \in [Headers -> Int] /\ size \in [Headers -> Int]
        /\ type \in [Headers -> BlockTypes] /\ memory_top \in Nat /\ HInv
    BY ListFacts DEF CInv
  <1>4. s \in Nat /\ s >= n /\ n \in Nat /\ HeapSize \in Nat /\ FreeBlockSize \in Nat \ {0}
        /\ s > 0
    BY <1>c, SizesAssumption DEF BlockSize
  <1>5. b \in ListedBlocks /\ b \notin Held
    BY <1>c, <1>1, <1>3, SlotFacts
  <1>6. /\ memory[b] >= memory_bottom /\ End(b) <= memory_top
        /\ End(b) = memory[b] + size[b] /\ memory[b] \in Int /\ size[b] \in Int
        /\ b \in Headers /\ memory_bottom \in Nat
    BY <1>1, <1>3, <1>5, BlocksInside, SlotCount
  <1>7. m \in Int /\ d \in Int /\ d > 0 /\ m >= memory_bottom /\ End(b) = m + d + s
    BY <1>c, <1>1, <1>4, <1>6
  <1>8. m + d + s <= HeapSize
    <2>1. m + d + s <= memory_top
      BY <1>6, <1>7
    <2>2. memory_top # memory_bottom
      BY <2>1, <1>3, <1>4, <1>6, <1>7
    <2>3. memory_top <= HeapSize
      BY <2>2 DEF CInv, SpaceOK
    <2> QED BY <2>1, <2>3, <1>3, <1>4, <1>7
  <1>9. h # b
    BY <1>2, <1>5
  <1>10. ASSUME NEW g \in Held
         PROVE  /\ memory'[g] = memory[g] /\ type'[g] = type[g] /\ size'[g] = size[g]
                /\ End(g) <= m + d \/ m + d + n <= memory[g]
    <2>1. g \in Headers /\ g # h /\ g # b /\ g \in ListedBlocks
      BY <1>2, <1>3, <1>5, HeldTypes
    <2>2. End(g) <= memory[b] \/ End(b) <= memory[g]
      BY <2>1, <1>1, <1>3, <1>5, BlocksApart
    <2>3. memory[g] \in Int /\ End(g) \in Int
      BY <2>1, <1>3 DEF End
    <2>4. End(g) <= m \/ m + d + s <= memory[g]
      BY <2>2, <1>7, <1>c
    <2>5. End(g) <= m + d \/ m + d + n <= memory[g]
      BY <2>3, <2>4, <1>4, <1>7
    <2>6. memory'[g] = memory[g] /\ type'[g] = type[g] /\ size'[g] = size[g]
      BY <2>1, <1>1, <1>3
    <2> QED BY <2>5, <2>6
  <1>11. memory'[b] = m + d /\ type'[b] = UNLOCKED /\ size'[b] >= n
    BY <1>1, <1>2, <1>3, <1>4, <1>6, <1>9
  <1>12. m + d \in Int /\ m + d >= memory_bottom /\ (m + d) + n <= HeapSize
    BY <1>4, <1>6, <1>7, <1>8
  <1>13. Obtains(b, n) /\ DOMAIN cells' = DOMAIN cells
    <2>1. PICK a : a = m + d
      OBVIOUS
    <2>2. /\ pc = "idle" /\ b \in Headers /\ b \notin Held /\ n \in Sizes
          /\ a \in Int /\ a >= memory_bottom /\ a + n <= HeapSize /\ HandOut(b, a, n)
          /\ memory'[b] = a /\ type'[b] = UNLOCKED /\ size'[b] >= n
      BY <2>1, <1>1, <1>5, <1>6, <1>11, <1>12
    <2>3. \A g \in Held : /\ memory'[g] = memory[g] /\ type'[g] = type[g] /\ size'[g] = size[g]
                          /\ End(g) <= a \/ a + n <= memory[g]
      BY <2>1, <1>10
    <2> QED BY <2>2, <2>3, HandOutObtains
  <1> QED BY <1>1, <1>6, <1>13 DEF CInv, SpaceOK

LEMMA ObtainsKeeps ==
    ASSUME CInv, HInv', SpaceOK', NEW h \in Headers, NEW n \in Sizes, Obtains(h, n)
    PROVE  CInv'
  <1>1. /\ Held' = Held \cup {h} /\ \A g \in Held : Keeps(g)
        /\ ptr'[h] = NULL /\ size'[h] >= n
        /\ \A i \in 0..(n - 1) : cells'[memory'[h] + i] = <<h, i>>
    BY DEF Obtains
  <1>2. req'[h] = n
    BY DEF Obtains, CInv, HInv, Inv, TypeOK
  <1>3. ASSUME NEW g \in Held
        PROVE  /\ size'[g] >= req'[g]
               /\ \A i \in 0..(req'[g] - 1) : cells'[memory'[g] + i] = <<g, i>>
               /\ ptr'[g] # NULL => ptr'[g] = memory'[g] /\ type'[g] \in {LOCKED, WEAK_LOCKED}
    BY <1>1, KeepsFacts
  <1> QED BY <1>1, <1>2, <1>3 DEF CInv, DataOK, PinsOK

-----------------------------------------------------------------------------
(* rm_free, the locks, and the memmove *)

\* The client gives h back.
Returns(h) == /\ h \in Held /\ req' = [req EXCEPT ![h] = 0] /\ Held' = Held \ {h}
              /\ \A g \in Held \ {h} : Keeps(g)

LEMMA FreeReturns ==
    ASSUME CInv, NEW h \in Headers, rm_free(h)
    PROVE  Returns(h) /\ SpaceOK'
  <1>1. /\ HInv /\ pc = "idle" /\ h \in Held /\ UNCHANGED <<memory, size, memory_top>>
        /\ type' = [type EXCEPT ![h] = FREE] /\ req' = [req EXCEPT ![h] = 0]
        /\ ptr' = [ptr EXCEPT ![h] = NULL]
        /\ cells' = Overwrite({a \in DOMAIN cells : cells[a][1] = h}
                                \cup rm_block_from_header(memory[h], size[h]))
    BY DEF rm_free, Running, CInv
  <1>2. req \in [Headers -> Nat] /\ ptr \in [Headers -> Int] /\ type \in [Headers -> BlockTypes]
    BY DEF CInv, HInv, Inv, TypeOK
  <1>3. Held' = Held \ {h}
    <2>1. \A g \in Headers : req'[g] = IF g = h THEN 0 ELSE req[g]
      BY <1>1, <1>2
    <2> QED BY <2>1 DEF Held
  <1>4. h \in ListedBlocks
    BY <1>1, HeldTypes
  <1>5. rm_block_from_header(memory[h], size[h]) \subseteq Bytes(memory[h], size[h])
    BY <1>1, <1>4, FreeBlockInside
  <1>6. ASSUME NEW g \in Held \ {h} PROVE Keeps(g)
    <2>1. g \in Headers /\ size[g] \in Int
      BY <1>1, HeldTypes
    <2>2. req'[g] = req[g] /\ ptr'[g] = ptr[g] /\ type'[g] = type[g]
      BY <2>1, <1>1, <1>2
    <2>3. ASSUME NEW i \in 0..(req[g] - 1)
          PROVE  cells'[memory[g] + i] = cells[memory[g] + i]
      <3>1. memory[g] + i \in DOMAIN cells /\ memory[g] + i \notin Bytes(memory[h], size[h])
        BY <1>1, <1>4, BytesApart
      <3>2. cells[memory[g] + i] = <<g, i>>
        BY DEF CInv, DataOK
      <3>3. cells[memory[g] + i][1] # h
        BY <3>2
      <3>4. memory[g] + i \notin {a \in DOMAIN cells : cells[a][1] = h}
                                    \cup rm_block_from_header(memory[h], size[h])
        BY <3>1, <3>3, <1>5
      <3> QED BY <3>1, <3>4, <1>1 DEF Overwrite
    <2> QED BY <2>1, <2>2, <2>3, <1>1 DEF Keeps
  <1>7. DOMAIN cells' = DOMAIN cells
    BY <1>1 DEF Overwrite
  <1> QED BY <1>1, <1>3, <1>6, <1>7 DEF Returns, CInv, SpaceOK

LEMMA ReturnsKeeps ==
    ASSUME CInv, HInv', SpaceOK', NEW h \in Headers, Returns(h)
    PROVE  CInv'
  <1>1. Held' = Held \ {h} /\ \A g \in Held \ {h} : Keeps(g)
    BY DEF Returns
  <1>2. ASSUME NEW g \in Held \ {h}
        PROVE  /\ size'[g] >= req'[g]
               /\ \A i \in 0..(req'[g] - 1) : cells'[memory'[g] + i] = <<g, i>>
               /\ ptr'[g] # NULL => ptr'[g] = memory'[g] /\ type'[g] \in {LOCKED, WEAK_LOCKED}
    BY <1>1, KeepsFacts
  <1> QED BY <1>1, <1>2 DEF CInv, DataOK, PinsOK

LEMMA LockKeeps ==
    ASSUME CInv, HInv', NEW h \in Headers, rm_lock(h) \/ rm_weaklock(h) \/ rm_unlock(h)
    PROVE  CInv'
  <1>1. PICK t, p : /\ SetLock(h, t, p)
                    /\ p # NULL => p = memory[h] /\ t \in {LOCKED, WEAK_LOCKED}
    BY DEF rm_lock, rm_weaklock, rm_unlock
  <1>2. /\ h \in Held /\ type' = [type EXCEPT ![h] = t] /\ ptr' = [ptr EXCEPT ![h] = p]
        /\ UNCHANGED <<memory, size, memory_top, req, cells>>
    BY <1>1 DEF SetLock
  <1>3. type \in [Headers -> BlockTypes] /\ ptr \in [Headers -> Int] /\ Held' = Held
    BY <1>2 DEF CInv, HInv, Inv, TypeOK, Held
  <1>4. SpaceOK' /\ DataOK'
    BY <1>2, <1>3 DEF CInv, SpaceOK, DataOK
  <1>5. PinsOK'
    <2>1. \A g \in Headers : /\ type'[g] = IF g = h THEN t ELSE type[g]
                             /\ ptr'[g] = IF g = h THEN p ELSE ptr[g]
      BY <1>2, <1>3
    <2>2. Held \subseteq Headers
      BY DEF Held
    <2> QED BY <2>1, <2>2, <1>1, <1>2, <1>3 DEF CInv, PinsOK
  <1> QED BY <1>4, <1>5 DEF CInv

\* While blocks are moved they are all between memory_bottom and memory_top.
LEMMA MoveInside ==
    ASSUME HInv, pc = "move", NEW g \in ToSet(list)
    PROVE  memory[g] >= memory_bottom /\ memory[g] + size[g] <= memory_top
  <1>1. /\ f1 \in 1..Len(list) /\ u1 \in 1..Len(list) /\ f1 < u1
        /\ Len(list) \in Nat /\ Len(list) > 1 /\ cur \in Int
        /\ used_offset = At(u1) - At(f1) /\ used_offset \in Int
    <2>1. /\ f1 \in 1..Len(list) /\ u1 \in 1..Len(list) /\ f2 \in 1..Len(list)
          /\ f1 <= f2 /\ f2 < u1
          /\ Len(list) \in Nat /\ Len(list) > 1 /\ cur \in u1..(u2 + 1)
          /\ used_offset = At(u1) - At(f1) /\ used_offset \in Int
      BY MoveFacts
    <2> QED BY <2>1
  <1>2. /\ \A i \in 1..Len(list) :
             /\ At(i) \in Int /\ EndAt(i) = At(i) + size[list[i]]
             /\ size[list[i]] \in Int /\ size[list[i]] >= FreeBlockSize
             /\ At(i) >= memory_bottom /\ EndAt(i) <= memory_top
        /\ \A i, j \in 1..Len(list) : i < j => EndAt(i) <= At(j)
    BY <1>1, SortedFacts
  <1>3. FreeBlockSize \in Nat \ {0} /\ memory_bottom \in Nat \ {0} /\ memory_top \in Nat
    BY SlotCount, SizesAssumption, ListFacts
  <1>4. PICK i \in 1..Len(list) : g = list[i]
    BY ListFacts
  <1>5. memory[g] \in Int
    BY ListFacts
  <1>6. PICK a, x, p, s, o : /\ a = At(f1) /\ x = At(u1) /\ p = At(i) /\ s = size[g]
                             /\ o = used_offset
    OBVIOUS
  <1>7. /\ a \in Int /\ x \in Int /\ p \in Int /\ s \in Int /\ o = x - a
        /\ a >= memory_bottom /\ p >= memory_bottom /\ p + s <= memory_top
    BY <1>1, <1>2, <1>4, <1>6
  <1>8. a <= x
    <2>1. EndAt(f1) <= x /\ EndAt(f1) = a + size[list[f1]]
      BY <1>1, <1>2, <1>6
    <2>2. size[list[f1]] \in Int /\ size[list[f1]] >= FreeBlockSize
      BY <1>1, <1>2
    <2> QED BY <2>1, <2>2, <1>3, <1>7
  <1>9. CASE u1 <= i /\ i < cur
    <2>1. p = memory[g] + o
      BY <1>4, <1>6, <1>9 DEF At
    <2>2. x <= p
      <3>1. CASE i = u1
        BY <3>1, <1>6, <1>7
      <3>2. CASE i # u1
        <4>1. EndAt(u1) <= p /\ EndAt(u1) = x + size[list[u1]]
          BY <3>2, <1>1, <1>2, <1>6, <1>9
        <4>2. size[list[u1]] \in Int /\ size[list[u1]] >= FreeBlockSize
          BY <1>1, <1>2
        <4> QED BY <4>1, <4>2, <1>3, <1>7
      <3> QED BY <3>1, <3>2
    <2>3. PICK m : m = memory[g]
      OBVIOUS
    <2>4. m >= memory_bottom /\ m + s <= memory_top
      BY <2>1, <2>2, <2>3, <1>3, <1>5, <1>7, <1>8
    <2> QED BY <2>3, <2>4, <1>6
  <1>10. CASE ~(u1 <= i /\ i < cur)
    <2>1. p = memory[g] + 0
      BY <1>4, <1>6, <1>10 DEF At
    <2> QED BY <2>1, <1>5, <1>6, <1>7
  <1> QED BY <1>9, <1>10

\* The block of h, which is not locked, goes to another place in the heap,
\* apart from all others.
Moves(h) ==
    /\ UNCHANGED <<req, ptr>>
    /\ type[h] = UNLOCKED /\ type'[h] = UNLOCKED /\ size'[h] = size[h]
    /\ \A g \in Held \ {h} : Keeps(g)
    /\ memory'[h] >= memory_bottom /\ memory'[h] + size[h] <= memory_top
    /\ \A i \in 0..(req[h] - 1) : cells'[memory'[h] + i] = cells[memory[h] + i]
    /\ \A g \in Held \ {h} : End(g) <= memory'[h] \/ memory'[h] + size[h] <= memory[g]

LEMMA MoveBlockMoves ==
    ASSUME CInv, MoveBlock
    PROVE  /\ SpaceOK'
           /\ \E h \in Held : Moves(h)
  <1>0. PICK h, d, o : h = list[cur] /\ d = memory[h] - used_offset /\ o = used_offset
    OBVIOUS
  <1>1. /\ HInv /\ pc = "move" /\ memory' = [memory EXCEPT ![h] = d]
        /\ cells' = [a \in DOMAIN cells |->
                        IF a \in Bytes(d, size[h]) THEN cells[a + o]
                        ELSE IF a \in Bytes(memory[h], size[h]) THEN Junk
                        ELSE cells[a]]
        /\ UNCHANGED <<size, type, memory_top, req, ptr>>
    BY <1>0 DEF MoveBlock, CInv
  <1>2. /\ h \in ToSet(list) /\ h \in Headers /\ type[h] = UNLOCKED
        /\ d >= memory_bottom /\ d + size[h] <= memory_top /\ d \in Int
        /\ used_offset \in Int /\ used_offset >= 0
        /\ memory[h] \in Int /\ size[h] \in Int
        /\ \A g \in ToSet(list) : g # h /\ type[g] # FREE =>
              /\ End(g) <= d \/ d + size[h] <= memory[g]
              /\ End(g) <= memory[h] \/ memory[h] + size[h] <= memory[g]
    BY <1>0, <1>1, MoveApart
  <1>3. h \in Held
    BY <1>1, <1>2 DEF HInv, HandlesListed, UNLOCKED, FREE
  <1>4. memory \in [Headers -> Int] /\ memory'[h] = d
    BY <1>1, <1>2, ListFacts
  <1>5. SpaceOK'
    BY <1>1 DEF CInv, SpaceOK
  <1>6. /\ HeapSize \in Nat /\ memory_bottom \in Nat \ {0} /\ memory_top \in Nat
        /\ DOMAIN cells = 0..(HeapSize - 1) /\ FreeBlockSize \in Nat \ {0}
    BY <1>1, ListFacts, SizesAssumption, SlotCount DEF CInv, SpaceOK
  <1>7. size[h] > 0 /\ memory_top <= HeapSize /\ req[h] \in Nat /\ req[h] <= size[h]
    <2>1. size[h] >= req[h] /\ req[h] \in Nat /\ req[h] > 0
      BY <1>1, <1>3, HeldTypes DEF CInv, DataOK
    <2>2. memory_top # memory_bottom
      BY <2>1, <1>2, <1>6
    <2>3. memory_top <= HeapSize
      BY <2>2 DEF CInv, SpaceOK
    <2> QED BY <2>1, <2>3, <1>2
  <1>8. ASSUME NEW i \in 0..(req[h] - 1) PROVE cells'[d + i] = cells[memory[h] + i]
    <2>1. d + i \in 0..(HeapSize - 1) /\ d + i \in d..(d + size[h] - 1)
      BY <1>2, <1>6, <1>7
    <2>2. (d + i) + o = memory[h] + i
      BY <1>0, <1>2, <1>7
    <2>3. cells'[d + i] = cells[(d + i) + o]
      BY <2>1, <1>1, <1>6 DEF Bytes
    <2> QED BY <2>2, <2>3
  <1>9. ASSUME NEW g \in Held \ {h}
        PROVE  Keeps(g) /\ (End(g) <= d \/ d + size[h] <= memory[g])
    <2>1. /\ g \in Headers /\ g \in ToSet(list) /\ type[g] # FREE /\ g # h
          /\ memory[g] \in Int /\ size[g] \in Int /\ req[g] \in Nat
      BY <1>1, HeldTypes
    <2>2. PICK x, y, e, z, m : /\ x = memory[g] /\ y = size[g] /\ e = End(g)
                               /\ z = size[h] /\ m = memory[h]
      OBVIOUS
    <2>3. /\ e <= d \/ d + z <= x
          /\ e <= m \/ m + z <= x
          /\ e = x + y
      BY <2>1, <2>2, <1>2 DEF End
    <2>4. y >= req[g]
      BY <2>2 DEF CInv, DataOK
    <2>5. ASSUME NEW i \in 0..(req[g] - 1) PROVE cells'[x + i] = cells[x + i]
      <3>1. i \in Int /\ i >= 0 /\ i < y /\ x \in Int /\ y \in Int /\ z \in Int /\ m \in Int
        BY <2>1, <2>2, <2>4, <1>2
      <3>2. x + i \notin d..(d + z - 1) /\ x + i \notin m..(m + z - 1)
        BY <3>1, <2>3, <1>2
      <3>3. cells' = [a \in DOMAIN cells |->
                        IF a \in d..(d + z - 1) THEN cells[a + o]
                        ELSE IF a \in m..(m + z - 1) THEN Junk
                        ELSE cells[a]]
        BY <2>2, <1>1 DEF Bytes
      <3>4. x + i \in DOMAIN cells
        <4>1. x >= memory_bottom /\ x + y <= memory_top
          BY <2>1, <2>2, <1>1, MoveInside
        <4>2. x + i \in 0..(HeapSize - 1)
          BY <4>1, <3>1, <1>6, <1>7
        <4> QED BY <4>2, <1>6
      <3> QED BY <3>2, <3>3, <3>4
    <2>6. memory'[g] = memory[g] /\ size'[g] >= size[g]
      BY <2>1, <1>1, <1>4
    <2> QED BY <2>2, <2>3, <2>5, <2>6, <1>1 DEF Keeps
  <1>10. Moves(h)
    BY <1>1, <1>2, <1>4, <1>8, <1>9 DEF Moves
  <1> QED BY <1>3, <1>5, <1>10

LEMMA MovesKeeps ==
    ASSUME CInv, HInv', SpaceOK', NEW h \in Held, Moves(h)
    PROVE  CInv'
  <1>1. /\ UNCHANGED <<req, ptr>> /\ type[h] = UNLOCKED /\ size'[h] = size[h]
        /\ \A i \in 0..(req[h] - 1) : cells'[memory'[h] + i] = cells[memory[h] + i]
        /\ \A g \in Held \ {h} : Keeps(g)
    BY DEF Moves
  <1>2. Held' = Held
    BY <1>1 DEF Held
  <1>3. /\ size[h] >= req[h] /\ \A i \in 0..(req[h] - 1) : cells[memory[h] + i] = <<h, i>>
        /\ ptr[h] = NULL
    BY <1>1 DEF CInv, DataOK, PinsOK, UNLOCKED, LOCKED, WEAK_LOCKED
  <1>4. ASSUME NEW g \in Held \ {h}
        PROVE  /\ size'[g] >= req'[g]
               /\ \A i \in 0..(req'[g] - 1) : cells'[memory'[g] + i] = <<g, i>>
               /\ ptr'[g] # NULL => ptr'[g] = memory'[g] /\ type'[g] \in {LOCKED, WEAK_LOCKED}
    BY <1>1, KeepsFacts
  <1> QED BY <1>1, <1>2, <1>3, <1>4 DEF CInv, DataOK, PinsOK

-----------------------------------------------------------------------------
(* The theorems *)

LEMMA InitClient == Init => CInv
  <1> SUFFICES ASSUME Init PROVE CInv
    OBVIOUS
  <1>1. HInv
    BY InitHeap
  <1>2. SpaceOK
    BY DEF Init, SpaceOK
  <1>3. Held = {}
    BY DEF Init, Held
  <1> QED BY <1>1, <1>2, <1>3 DEF CInv, DataOK, PinsOK

\* What the client sees of a step.
LEMMA StepView ==
    ASSUME CInv, [Next]_vars
    PROVE  \/ Quiet /\ SpaceOK'
           \/ SpaceOK' /\ \E n \in Sizes, h \in Headers : Obtains(h, n)
           \/ SpaceOK' /\ \E h \in Headers : Returns(h)
                                             /\ type' = [type EXCEPT ![h] = FREE]
           \/ SpaceOK' /\ \E h \in Held : Moves(h)
           \/ \E h \in Headers : rm_lock(h) \/ rm_weaklock(h) \/ rm_unlock(h)
  <1>1. CASE UNCHANGED vars
    BY <1>1, UnseenQuiet DEF vars, headerVars, clientVars
  <1>2. ASSUME NEW n \in Sizes,
               \/ MallocTop(n) \/ MallocFreeBlock(n) \/ MallocLosesBlock(n)
               \/ MallocFails(n) \/ MallocFault(n)
        PROVE  \/ Quiet /\ SpaceOK'
               \/ SpaceOK' /\ \E h \in Headers : Obtains(h, n)
    <2>1. CASE MallocTop(n) \/ MallocFreeBlock(n)
      BY <2>1, MallocTopObtains, MallocFreeBlockObtains
    <2>2. CASE MallocLosesBlock(n) \/ MallocFails(n) \/ MallocFault(n)
      <3>1. UNCHANGED <<memory, size, type, memory_top, req, ptr, cells>>
        BY <2>2 DEF MallocLosesBlock, MallocFails, MallocFault, vars, headerVars, clientVars
      <3> QED BY <3>1, UnseenQuiet
    <2> QED BY <1>2, <2>1, <2>2
  <1>3. ASSUME NEW h \in Headers, rm_free(h)
        PROVE  SpaceOK' /\ Returns(h) /\ type' = [type EXCEPT ![h] = FREE]
    <2>1. type' = [type EXCEPT ![h] = FREE]
      BY <1>3 DEF rm_free
    <2> QED BY <1>3, <2>1, FreeReturns
  <1>4. ASSUME NEW limit \in {0, 1}, rm_compact(limit)
        PROVE  Quiet /\ SpaceOK'
    <2>1. UNCHANGED <<memory, size, type, memory_top, req, ptr, cells>>
      BY <1>4 DEF rm_compact, clientVars
    <2> QED BY <2>1, UnseenQuiet
  <1>5. CASE MoveBlock
    BY <1>5, MoveBlockMoves
  <1>6. CASE CompactStep /\ ~MoveBlock
    BY <1>6, CompactQuiet
  <1>7. CASE Next
    BY <1>2, <1>3, <1>4, <1>5, <1>6, <1>7 DEF Next
  <1> QED BY <1>1, <1>7

LEMMA NextClient == CInv /\ [Next]_vars => CInv'
  <1> SUFFICES ASSUME CInv, [Next]_vars PROVE CInv'
    OBVIOUS
  <1>1. HInv'
    BY NextHeap DEF CInv
  <1>2. CASE Quiet /\ SpaceOK'
    BY <1>1, <1>2, QuietKeeps
  <1>3. ASSUME SpaceOK', NEW n \in Sizes, NEW h \in Headers, Obtains(h, n) PROVE CInv'
    BY <1>1, <1>3, ObtainsKeeps
  <1>4. ASSUME SpaceOK', NEW h \in Headers, Returns(h) PROVE CInv'
    BY <1>1, <1>4, ReturnsKeeps
  <1>5. ASSUME SpaceOK', NEW h \in Held, Moves(h) PROVE CInv'
    BY <1>1, <1>5, MovesKeeps
  <1>6. ASSUME NEW h \in Headers, rm_lock(h) \/ rm_weaklock(h) \/ rm_unlock(h) PROVE CInv'
    BY <1>1, <1>6, LockKeeps
  <1> QED BY <1>2, <1>3, <1>4, <1>5, <1>6, StepView

\* The invariant of what the client sees holds in every state that can be reached.
THEOREM ClientInvariant == Spec => []CInv
  BY InitClient, NextClient, PTL DEF Spec

\* However often a block is moved, whatever is freed and split around it and
\* wherever free_memory_block_t are written, the block has the bytes the client
\* asked for and they are the client's.
THEOREM BytesStay == Spec => []ContentsKept
  <1>1. CInv => ContentsKept
    BY DEF CInv, DataOK, ContentsKept
  <1> QED BY <1>1, ClientInvariant, PTL

\* A pointer from rm_lock or rm_weaklock is the address of the block until the
\* client unlocks or frees it, in every state of rm_compact.
THEOREM PointersStay == Spec => []LockedPinned
  <1>1. CInv => LockedPinned
    BY DEF CInv, PinsOK, LockedPinned
  <1> QED BY <1>1, ClientInvariant, PTL

-----------------------------------------------------------------------------
(* jeff implements a relocating heap *)

\* What the client sees: the values the refinement gives addr, data and pinned.
Addr == [h \in Headers |-> IF h \in Held THEN memory[h] ELSE NULL]
Data == [h \in Headers |-> Contents(h)]
Pinned == {h \in Held : type[h] # UNLOCKED}

SameView(g) == req'[g] = req[g] /\ Addr'[g] = Addr[g] /\ Data'[g] = Data[g]
PlacedView(h) ==
    /\ DOMAIN req' = Headers
    /\ \A g \in Headers \ {h} : SameView(g)
    /\ Addr'[h]..(Addr'[h] + req'[h] - 1) \subseteq memory_bottom..(HeapSize - 1)
    /\ \A g \in Held \ {h} :
          (Addr'[h]..(Addr'[h] + req'[h] - 1)) \cap (Addr[g]..(Addr[g] + req[g] - 1)) = {}

LEMMA PlacedIs ==
    ASSUME NEW h, PlacedView(h)
    PROVE  Promise!Placed(h)
  <1>1. DOMAIN Addr' = Headers /\ DOMAIN Data' = Headers
    BY DEF Addr, Data
  <1>2. \A g \in Headers \ {h} : Promise!Same(g)
    BY DEF PlacedView, SameView, Promise!Same, Addr, Data
  <1>3. Promise!Range(h)' \subseteq memory_bottom..(HeapSize - 1)
    BY DEF PlacedView, Promise!Range, Addr
  <1>4. \A g \in Promise!Live \ {h} : Promise!Range(h)' \cap Promise!Range(g) = {}
    BY DEF PlacedView, Promise!Range, Promise!Live, Held, Addr
  <1> QED BY <1>1, <1>2, <1>3, <1>4 DEF Promise!Placed, PlacedView, Addr, Data

\* Handles the step leaves alone look the same.
LEMMA ViewKept ==
    ASSUME CInv, HInv', NEW g \in Headers, g \in Held => Keeps(g), req'[g] = req[g]
    PROVE  SameView(g) /\ (g \in Held' <=> g \in Held)
  <1>1. g \in Held' <=> g \in Held
    BY DEF Held
  <1>2. Addr'[g] = Addr[g]
    BY <1>1 DEF Addr, Keeps
  <1>3. Contents(g)' = Contents(g)
    <2>1. CASE g \in Held
      BY <2>1 DEF Contents, Keeps
    <2>2. CASE g \notin Held
      <3>1. req \in [Headers -> Nat]
        BY DEF CInv, HInv, Inv, TypeOK
      <3>2. req[g] = 0 /\ req'[g] = 0
        BY <2>2, <3>1 DEF Held
      <3>3. 0..(0 - 1) = {}
        OBVIOUS
      <3>4. /\ Contents(g) = [i \in 0..(0 - 1) |-> cells[memory[g] + i]]
            /\ Contents(g)' = [i \in 0..(0 - 1) |-> cells'[memory'[g] + i]]
        BY <3>2 DEF Contents
      <3> QED BY <3>3, <3>4
    <2> QED BY <2>1, <2>2
  <1>4. Data'[g] = Data[g]
    BY <1>3 DEF Data
  <1> QED BY <1>1, <1>2, <1>4 DEF SameView

\* The view does not change at all.
LEMMA QuietView ==
    ASSUME CInv, HInv', Quiet
    PROVE  UNCHANGED Promise!vars
  <1>1. \A g \in Headers : SameView(g) /\ (g \in Held' <=> g \in Held)
    BY ViewKept DEF Quiet
  <1>2. Held' = Held /\ UNCHANGED req
    BY DEF Quiet, Held
  <1>3. Addr' = Addr
    BY <1>1 DEF SameView, Addr
  <1>4. Data' = Data
    <2>1. \A g \in Headers : Contents(g)' = Contents(g)
      BY <1>1 DEF SameView, Data
    <2> QED BY <2>1 DEF Data
  <1>5. Pinned' = Pinned
    BY <1>2 DEF Pinned, Quiet, Keeps
  <1> QED BY <1>2, <1>3, <1>4, <1>5 DEF Promise!vars, Addr, Data, Pinned

LEMMA RangesApart ==
    ASSUME NEW a \in Int, NEW n \in Int, NEW b \in Int, NEW m \in Int,
           a + n <= b \/ b + m <= a
    PROVE  (a..(a + n - 1)) \cap (b..(b + m - 1)) = {}
  OBVIOUS

LEMMA ObtainsView ==
    ASSUME CInv, HInv', NEW h \in Headers, NEW n \in Sizes, Obtains(h, n)
    PROVE  Promise!Alloc(h)
  <1>1. /\ h \notin Held /\ req' = [req EXCEPT ![h] = n] /\ Held' = Held \cup {h}
        /\ \A g \in Held : Keeps(g)
        /\ type'[h] = UNLOCKED
        /\ memory'[h] >= memory_bottom /\ memory'[h] + n <= HeapSize
        /\ \A g \in Held : End(g) <= memory'[h] \/ memory'[h] + n <= memory[g]
    BY DEF Obtains
  <1>2. req \in [Headers -> Nat] /\ n \in Nat /\ n > 0 /\ HeapSize \in Nat
        /\ memory_bottom \in Nat
    <2>1. req \in [Headers -> Nat]
      BY DEF CInv, HInv, Inv, TypeOK
    <2> QED BY <2>1, SizesAssumption, SlotCount
  <1>3. req'[h] = n /\ DOMAIN req' = Headers /\ \A g \in Headers \ {h} : req'[g] = req[g]
    BY <1>1, <1>2
  <1>4. PICK a : a = memory'[h]
    OBVIOUS
  <1>5. a \in Int /\ Addr'[h] = a
    BY <1>1, <1>4 DEF Addr, HInv, Inv, TypeOK
  <1>6. \A g \in Headers \ {h} : SameView(g)
    BY <1>1, <1>3, ViewKept
  <1>7. a..(a + n - 1) \subseteq memory_bottom..(HeapSize - 1)
    BY <1>1, <1>2, <1>4, <1>5
  <1>8. ASSUME NEW g \in Held \ {h}
        PROVE  (a..(a + n - 1)) \cap (Addr[g]..(Addr[g] + req[g] - 1)) = {}
    <2>1. PICK x, y, r : x = memory[g] /\ y = size[g] /\ r = req[g]
      OBVIOUS
    <2>2. x \in Int /\ y \in Int /\ r \in Nat /\ Addr[g] = x
      BY <2>1, HeldTypes DEF CInv, Addr
    <2>3. y >= r
      BY <2>1 DEF CInv, DataOK
    <2>4. x + y <= a \/ a + n <= x
      BY <2>1, <1>1, <1>4 DEF End
    <2>5. x + r <= a \/ a + n <= x
      BY <2>2, <2>3, <2>4, <1>5
    <2> QED BY <2>1, <2>2, <2>5, <1>2, <1>5, RangesApart
  <1>9. Promise!Placed(h)
    BY <1>3, <1>5, <1>6, <1>7, <1>8, PlacedIs DEF PlacedView
  <1>10. Pinned' = Pinned
    BY <1>1 DEF Pinned, Keeps
  <1> QED BY <1>1, <1>2, <1>3, <1>9, <1>10 DEF Promise!Alloc, Promise!Live, Pinned, Held

LEMMA ReturnsView ==
    ASSUME CInv, HInv', NEW h \in Headers, Returns(h)
    PROVE  Promise!Free(h)
  <1>1. h \in Held /\ req' = [req EXCEPT ![h] = 0] /\ Held' = Held \ {h}
        /\ \A g \in Held \ {h} : Keeps(g)
    BY DEF Returns
  <1>2. req \in [Headers -> Nat]
    BY DEF CInv, HInv, Inv, TypeOK
  <1>3. req'[h] = 0 /\ DOMAIN req' = Headers /\ \A g \in Headers \ {h} : req'[g] = req[g]
    BY <1>1, <1>2
  <1>4. \A g \in Headers \ {h} : SameView(g)
    BY <1>1, <1>3, ViewKept
  <1>5. \A g \in Headers \ {h} : Promise!Same(g)
    BY <1>4 DEF SameView, Promise!Same, Addr, Data
  <1>6. DOMAIN Addr' = Headers /\ DOMAIN Data' = Headers
    BY DEF Addr, Data
  <1>7. Pinned' = Pinned \ {h}
    BY <1>1 DEF Pinned, Keeps
  <1> QED BY <1>1, <1>3, <1>5, <1>6, <1>7 DEF Promise!Free, Promise!Live, Pinned, Held, Addr, Data

LEMMA MovesView ==
    ASSUME CInv, HInv', NEW h \in Held, Moves(h)
    PROVE  Promise!Move(h)
  <1>1. /\ UNCHANGED <<req, ptr>> /\ type[h] = UNLOCKED /\ type'[h] = UNLOCKED
        /\ \A g \in Held \ {h} : Keeps(g)
        /\ memory'[h] >= memory_bottom /\ memory'[h] + size[h] <= memory_top
        /\ \A i \in 0..(req[h] - 1) : cells'[memory'[h] + i] = cells[memory[h] + i]
        /\ \A g \in Held \ {h} : End(g) <= memory'[h] \/ memory'[h] + size[h] <= memory[g]
    BY DEF Moves
  <1>2. /\ h \in Headers /\ size[h] \in Int /\ req[h] \in Nat /\ req[h] > 0
        /\ req[h] <= size[h] /\ HeapSize \in Nat /\ memory_bottom \in Nat
        /\ memory_top \in Nat /\ req \in [Headers -> Nat]
    <2>1. size[h] >= req[h]
      BY DEF CInv, DataOK
    <2>2. h \in Headers /\ size[h] \in Int /\ req[h] \in Nat /\ req[h] > 0
      BY HeldTypes DEF CInv
    <2> QED BY <2>1, <2>2, SizesAssumption, SlotCount, ListFacts DEF CInv, HInv, Inv, TypeOK
  <1>3. Held' = Held
    BY <1>1 DEF Held
  <1>4. PICK a, z, n : a = memory'[h] /\ z = size[h] /\ n = req[h]
    OBVIOUS
  <1>5. a \in Int /\ Addr'[h] = a /\ req'[h] = n /\ z \in Int /\ n \in Nat /\ n > 0 /\ n <= z
    BY <1>1, <1>2, <1>3, <1>4 DEF Addr, HInv, Inv, TypeOK
  <1>6. a..(a + n - 1) \subseteq memory_bottom..(HeapSize - 1)
    <2>1. a >= memory_bottom /\ a + z <= memory_top
      BY <1>1, <1>4
    <2>2. memory_top # memory_bottom
      BY <2>1, <1>2, <1>5
    <2>3. memory_top <= HeapSize
      BY <2>2 DEF CInv, SpaceOK
    <2> QED BY <2>1, <2>3, <1>2, <1>5
  <1>7. \A g \in Headers \ {h} : SameView(g)
    BY <1>1, ViewKept
  <1>8. ASSUME NEW g \in Held \ {h}
        PROVE  (a..(a + n - 1)) \cap (Addr[g]..(Addr[g] + req[g] - 1)) = {}
    <2>1. PICK x, y, r : x = memory[g] /\ y = size[g] /\ r = req[g]
      OBVIOUS
    <2>2. x \in Int /\ y \in Int /\ r \in Nat /\ Addr[g] = x
      BY <2>1, HeldTypes DEF CInv, Addr
    <2>3. y >= r
      BY <2>1 DEF CInv, DataOK
    <2>4. x + y <= a \/ a + z <= x
      BY <2>1, <1>1, <1>4 DEF End
    <2>5. x + r <= a \/ a + n <= x
      BY <2>2, <2>3, <2>4, <1>5
    <2> QED BY <2>1, <2>2, <2>5, <1>5, RangesApart
  <1>9. DOMAIN req' = Headers
    BY <1>1, <1>2
  <1>10. Promise!Placed(h)
    BY <1>5, <1>6, <1>7, <1>8, <1>9, PlacedIs DEF PlacedView
  <1>11. Data'[h] = Data[h]
    <2>1. Contents(h)' = Contents(h)
      BY <1>1 DEF Contents
    <2> QED BY <2>1, <1>2 DEF Data
  <1>12. Pinned' = Pinned
    BY <1>1, <1>3 DEF Pinned, Keeps
  <1>13. h \in Held /\ h \notin Pinned
    BY <1>1 DEF Pinned
  <1> QED BY <1>1, <1>10, <1>11, <1>12, <1>13 DEF Promise!Move, Promise!Live, Pinned, Held, Data

LEMMA LockView ==
    ASSUME CInv, HInv', NEW h \in Headers, rm_lock(h) \/ rm_weaklock(h) \/ rm_unlock(h)
    PROVE  Promise!Pin(h) \/ Promise!Unpin(h)
  <1>1. PICK t, p : SetLock(h, t, p)
    BY DEF rm_lock, rm_weaklock, rm_unlock
  <1>2. /\ h \in Held /\ type' = [type EXCEPT ![h] = t]
        /\ UNCHANGED <<memory, req, cells>>
    BY <1>1 DEF SetLock
  <1>3. type \in [Headers -> BlockTypes] /\ Held' = Held
    BY <1>2 DEF CInv, HInv, Inv, TypeOK, Held
  <1>4. Addr' = Addr /\ Data' = Data
    BY <1>2, <1>3 DEF Addr, Data, Contents
  <1>5. \A g \in Headers : type'[g] = IF g = h THEN t ELSE type[g]
    BY <1>2, <1>3
  <1>6. IF t = UNLOCKED THEN Pinned' = Pinned \ {h} ELSE Pinned' = Pinned \cup {h}
    BY <1>2, <1>3, <1>5 DEF Pinned, Held
  <1> QED BY <1>2, <1>4, <1>6 DEF Promise!Pin, Promise!Unpin, Promise!Live, Held, Addr, Data, Pinned

\* For heaps of any size: to its client jeff is a relocating heap.  Every call and
\* every step of rm_compact is one of its steps or is not seen at all.
THEOREM JeffIsRelocHeap == Spec => ImplementsRelocHeap
  <1>1. Init => Promise!Init
    <2> SUFFICES ASSUME Init PROVE Promise!Init
      OBVIOUS
    <2>1. req = [h \in Headers |-> 0] /\ Held = {}
      BY DEF Init, Held
    <2>2. Addr \in [Headers -> Int] /\ DOMAIN Data = Headers /\ Pinned = {}
      BY <2>1 DEF Addr, Data, Pinned, NULL
    <2> QED BY <2>1, <2>2 DEF Promise!Init, Addr, Data, Pinned
  <1>2. CInv /\ HInv' /\ [Next]_vars => [Promise!Next]_(Promise!vars)
    <2> SUFFICES ASSUME CInv, HInv', [Next]_vars PROVE [Promise!Next]_(Promise!vars)
      OBVIOUS
    <2>1. CASE Quiet
      BY <2>1, QuietView
    <2>2. ASSUME NEW n \in Sizes, NEW h \in Headers, Obtains(h, n) PROVE Promise!Next
      BY <2>2, ObtainsView DEF Promise!Next
    <2>3. ASSUME NEW h \in Headers, Returns(h) PROVE Promise!Next
      BY <2>3, ReturnsView DEF Promise!Next
    <2>4. ASSUME NEW h \in Held, Moves(h) PROVE Promise!Next
      BY <2>4, MovesView DEF Promise!Next, Held
    <2>5. ASSUME NEW h \in Headers, rm_lock(h) \/ rm_weaklock(h) \/ rm_unlock(h)
          PROVE  Promise!Next
      BY <2>5, LockView DEF Promise!Next
    <2> QED BY <2>1, <2>2, <2>3, <2>4, <2>5, StepView
  <1>3. CInv => HInv
    BY DEF CInv
  <1> QED BY <1>1, <1>2, <1>3, ClientInvariant, PTL DEF Spec, ImplementsRelocHeap, Promise!Spec

-----------------------------------------------------------------------------
(* What RelocHeap is good for *)

\* What a client makes of the promise: the ranges of two handles in use share no
\* byte and are in the heap, and a pinned handle is in use.
Relied(len, addr, pinned) ==
    /\ \A h \in Headers : len[h] > 0 =>
          addr[h]..(addr[h] + len[h] - 1) \subseteq memory_bottom..(HeapSize - 1)
    /\ \A g, h \in Headers : g # h /\ len[g] > 0 /\ len[h] > 0 =>
          (addr[g]..(addr[g] + len[g] - 1)) \cap (addr[h]..(addr[h] + len[h] - 1)) = {}
    /\ \A h \in pinned : h \in Headers /\ len[h] > 0

\* What a step may not change: the bytes of a handle in use, and where a pinned
\* one is.
Left(len, addr, data, pinned, len2, addr2, data2, pinned2) ==
    /\ \A h \in Headers : len[h] > 0 /\ len2[h] > 0 => len2[h] = len[h] /\ data2[h] = data[h]
    /\ \A h \in pinned \cap pinned2 : addr2[h] = addr[h]

\* One handle changes as Placed says.
LEMMA PlacedRelied ==
    ASSUME NEW len, NEW addr, NEW pinned, Relied(len, addr, pinned),
           NEW len2, NEW addr2, NEW pinned2, NEW h \in Headers,
           \A g \in Headers \ {h} : len2[g] = len[g] /\ addr2[g] = addr[g],
           len2[h] > 0 =>
              /\ addr2[h]..(addr2[h] + len2[h] - 1) \subseteq memory_bottom..(HeapSize - 1)
              /\ \A g \in Headers \ {h} : len[g] > 0 =>
                    (addr2[h]..(addr2[h] + len2[h] - 1)) \cap (addr[g]..(addr[g] + len[g] - 1)) = {},
           pinned2 \subseteq pinned, h \in pinned2 => len2[h] > 0
    PROVE  Relied(len2, addr2, pinned2)
<1> DEFINE R(g) == addr[g]..(addr[g] + len[g] - 1)
           R2(g) == addr2[g]..(addr2[g] + len2[g] - 1)
<1>1. \A g \in Headers \ {h} : len2[g] = len[g] /\ R2(g) = R(g)
  OBVIOUS
<1>2. len2[h] > 0 => /\ R2(h) \subseteq memory_bottom..(HeapSize - 1)
                     /\ \A g \in Headers \ {h} : len[g] > 0 => R2(h) \cap R(g) = {}
  OBVIOUS
<1>3. /\ \A g \in Headers : len[g] > 0 => R(g) \subseteq memory_bottom..(HeapSize - 1)
      /\ \A g, k \in Headers : g # k /\ len[g] > 0 /\ len[k] > 0 => R(g) \cap R(k) = {}
      /\ \A g \in pinned : g \in Headers /\ len[g] > 0
  BY DEF Relied
<1> HIDE DEF R, R2
<1>4. \A g \in Headers : len2[g] > 0 => R2(g) \subseteq memory_bottom..(HeapSize - 1)
  <2> SUFFICES ASSUME NEW g \in Headers, len2[g] > 0
               PROVE  R2(g) \subseteq memory_bottom..(HeapSize - 1)
    OBVIOUS
  <2> QED BY <1>1, <1>2, <1>3
<1>5. ASSUME NEW g \in Headers, NEW k \in Headers, g # k, len2[g] > 0, len2[k] > 0
      PROVE  R2(g) \cap R2(k) = {}
  <2>1. CASE g = h
    BY <2>1, <1>1, <1>2, <1>5
  <2>2. CASE k = h
    BY <2>2, <1>1, <1>2, <1>5
  <2>3. CASE g # h /\ k # h
    BY <2>3, <1>1, <1>3, <1>5
  <2> QED BY <2>1, <2>2, <2>3
<1>6. \A g \in pinned2 : g \in Headers /\ len2[g] > 0
  BY <1>1, <1>3
<1> QED BY <1>4, <1>5, <1>6 DEF Relied, R, R2

\* Both, of what the client sees of rm_malloc, rm_free, the locks and rm_compact.
ClientRelies == Relied(req, Addr, Pinned)
ClientKeeps == Left(req, Addr, Data, Pinned, req', Addr', Data', Pinned')

\* RelocHeap promises enough: in whatever implements it, handles in use never
\* share a byte, keep their contents, and stay where they are while pinned.
THEOREM PromiseSuffices == Promise!Spec => []ClientRelies /\ [][ClientKeeps]_(Promise!vars)
<1>1. Promise!Init => ClientRelies
  <2> SUFFICES ASSUME Promise!Init PROVE ClientRelies
    OBVIOUS
  <2>1. req = [h \in Headers |-> 0] /\ Pinned = {}
    BY DEF Promise!Init, Pinned
  <2>2. \A h \in Headers : ~(req[h] > 0)
    BY <2>1
  <2> QED BY <2>1, <2>2 DEF ClientRelies, Relied
<1>2. ClientRelies /\ [Promise!Next]_(Promise!vars) => ClientRelies' /\ [ClientKeeps]_(Promise!vars)
  <2> SUFFICES ASSUME ClientRelies, [Promise!Next]_(Promise!vars)
               PROVE  ClientRelies' /\ [ClientKeeps]_(Promise!vars)
    OBVIOUS
  <2>1. PICK addr, pinned, len, len2, addr2, pinned2, data, data2 :
            /\ len = req /\ addr = Addr /\ pinned = Pinned /\ data = Data
            /\ len2 = req' /\ addr2 = Addr' /\ pinned2 = Pinned' /\ data2 = Data'
    OBVIOUS
  <2>2. Relied(len, addr, pinned)
    BY <2>1 DEF ClientRelies
  <2>3. SUFFICES /\ Relied(len2, addr2, pinned2)
                 /\ \/ Left(len, addr, data, pinned, len2, addr2, data2, pinned2)
                    \/ UNCHANGED Promise!vars
    BY <2>1 DEF ClientRelies, ClientKeeps
  <2>4. CASE UNCHANGED Promise!vars
    <3>1. len2 = len /\ addr2 = addr /\ pinned2 = pinned
      BY <2>1, <2>4 DEF Promise!vars, Addr, Pinned
    <3> QED BY <3>1, <2>2, <2>4
  <2>5. ASSUME NEW h \in Headers, Promise!Alloc(h) \/ Promise!Free(h) \/ Promise!Move(h)
        PROVE  /\ Relied(len2, addr2, pinned2)
               /\ Left(len, addr, data, pinned, len2, addr2, data2, pinned2)
    <3>1. /\ \A g \in Headers \ {h} : len2[g] = len[g] /\ addr2[g] = addr[g] /\ data2[g] = data[g]
          /\ \/ ~(len[h] > 0) /\ pinned2 = pinned
             \/ ~(len2[h] > 0) /\ pinned2 = pinned \ {h}
             \/ len2[h] = len[h] /\ data2[h] = data[h] /\ h \notin pinned /\ pinned2 = pinned
          /\ len2[h] > 0 =>
                /\ addr2[h]..(addr2[h] + len2[h] - 1) \subseteq memory_bottom..(HeapSize - 1)
                /\ \A g \in Headers \ {h} : len[g] > 0 =>
                      (addr2[h]..(addr2[h] + len2[h] - 1)) \cap (addr[g]..(addr[g] + len[g] - 1)) = {}
      <4>1. CASE Promise!Alloc(h)
        BY <2>1, <4>1 DEF Promise!Alloc, Promise!Placed, Promise!Same, Promise!Live,
             Promise!Range, Addr, Data, Pinned
      <4>2. CASE Promise!Free(h)
        BY <2>1, <4>2 DEF Promise!Free, Promise!Same, Promise!Live, Addr, Data, Pinned
      <4>3. CASE Promise!Move(h)
        BY <2>1, <4>3 DEF Promise!Move, Promise!Placed, Promise!Same, Promise!Live,
             Promise!Range, Addr, Data, Pinned
      <4> QED BY <2>5, <4>1, <4>2, <4>3
    <3>2. \A g \in pinned : g \in Headers /\ len[g] > 0
      BY <2>2 DEF Relied
    <3>3. pinned2 \subseteq pinned /\ (h \in pinned2 => len2[h] > 0)
      BY <3>1, <3>2
    <3>4. Relied(len2, addr2, pinned2)
      BY <3>1, <3>3, <2>2, PlacedRelied
    <3>5. Left(len, addr, data, pinned, len2, addr2, data2, pinned2)
      BY <3>1, <3>2 DEF Left
    <3> QED BY <3>4, <3>5
  <2>6. ASSUME NEW h \in Headers, Promise!Pin(h) \/ Promise!Unpin(h)
        PROVE  /\ Relied(len2, addr2, pinned2)
               /\ Left(len, addr, data, pinned, len2, addr2, data2, pinned2)
    <3>1. /\ len2 = len /\ addr2 = addr /\ data2 = data /\ len[h] > 0
          /\ pinned2 \subseteq pinned \cup {h}
      BY <2>1, <2>6 DEF Promise!Pin, Promise!Unpin, Promise!Live, Addr, Data, Pinned
    <3> QED BY <3>1, <2>2 DEF Relied, Left
  <2> QED BY <2>4, <2>5, <2>6 DEF Promise!Next
<1> QED BY <1>1, <1>2, PTL DEF Promise!Spec

\* So does jeff, since it implements RelocHeap.
COROLLARY JeffSuffices == Spec => []ClientRelies /\ [][ClientKeeps]_(Promise!vars)
<1> QED BY JeffIsRelocHeap, PromiseSuffices DEF ImplementsRelocHeap

-----------------------------------------------------------------------------
(* Blocks and headers stay apart *)

\* The headers a step adds to the list or to the unused chain.
HeaderPart == ToSet(list) \cup ToSet(unused)

LEMMA HeaderFacts ==
    ASSUME HInv
    PROVE  /\ header_bottom \in Nat /\ memory_top \in Nat /\ HeaderPart \subseteq Headers
           /\ Headers \subseteq Nat /\ HeaderSize \in Nat \ {0}
  <1>1. /\ header_bottom \in Headers /\ memory_top \in Nat /\ unused \in Seq(Headers)
        /\ ToSet(list) \subseteq Headers
    BY ListFacts DEF TypeOK
  <1>2. ToSet(unused) \subseteq Headers
    BY <1>1 DEF ToSet
  <1>3. Headers \subseteq Nat
    BY DEF Headers
  <1> QED BY <1>1, <1>2, <1>3, SizesAssumption DEF HeaderPart

\* rm_header_find_free takes an unused header or the one below header_bottom.
LEMMA TakenPart ==
    ASSUME HInv, NEW h, h = rm_header_find_free, h # NoHeader, ~Aliased, TakeHeader,
           list' = Inserted(h)
    PROVE  /\ h \in Headers /\ HeaderPart' \subseteq HeaderPart \cup {h}
           /\ \/ h \in HeaderPart /\ header_bottom' = header_bottom
              \/ h = header_bottom + 1 /\ header_bottom' = header_bottom + 1 /\ HeaderRoom
  <1>1. /\ h \in Headers /\ unused' = <<>> /\ ToSet(Inserted(h)) = ToSet(list) \cup {h}
    BY TakenHeader
  <1>2. HeaderPart' \subseteq HeaderPart \cup {h}
    BY <1>1 DEF HeaderPart, ToSet
  <1>3. CASE unused # <<>>
    <2>1. h = Head(unused) /\ header_bottom' = header_bottom
      BY <1>3 DEF rm_header_find_free, TakeHeader
    <2>2. unused \in Seq(Headers)
      BY DEF HInv, Inv, TypeOK
    <2>3. h \in ToSet(unused)
      BY <1>3, <2>1, <2>2 DEF ToSet
    <2> QED BY <2>1, <2>3, <1>1, <1>2 DEF HeaderPart
  <1>4. CASE unused = <<>>
    <2>1. h = header_bottom + 1 /\ header_bottom' = header_bottom + 1 /\ HeaderRoom
      BY <1>4 DEF rm_header_find_free, TakeHeader
    <2> QED BY <2>1, <1>1, <1>2
  <1> QED BY <1>3, <1>4

\* A new header below header_bottom is above memory_top.
LEMMA RoomBelow ==
    ASSUME HInv, HeaderRoom
    PROVE  memory_top < HeaderAddr(header_bottom + 1)
  <1>1. header_bottom \in Nat /\ memory_top \in Nat /\ HeaderSize \in Nat
    BY HeaderFacts
  <1>2. HeaderAddr(header_bottom + 2) <= HeaderAddr(header_bottom + 1)
        /\ HeaderAddr(header_bottom + 2) \in Int /\ HeaderAddr(header_bottom + 1) \in Int
    BY <1>1, HeaderOrder
  <1> QED BY <1>1, <1>2 DEF HeaderRoom

LEMMA MallocTopAbove ==
    ASSUME HInv, HeadersAboveBlocks, NEW n \in Sizes, MallocTop(n)
    PROVE  HeadersAboveBlocks'
  <1>0. PICK h, s : h = rm_header_find_free /\ s = BlockSize(n)
    OBVIOUS
  <1>1. /\ TopRoom(s) /\ h # NoHeader /\ ~Aliased /\ TakeHeader /\ list' = Inserted(h)
        /\ memory_top' = memory_top + s
    BY <1>0 DEF MallocTop
  <1>2. /\ h \in Headers /\ HeaderPart' \subseteq HeaderPart \cup {h}
        /\ \/ h \in HeaderPart /\ header_bottom' = header_bottom
           \/ h = header_bottom + 1 /\ header_bottom' = header_bottom + 1 /\ HeaderRoom
    BY <1>0, <1>1, TakenPart
  <1>3. /\ header_bottom \in Nat /\ memory_top \in Nat /\ HeaderPart \subseteq Headers
        /\ Headers \subseteq Nat /\ HeaderSize \in Nat \ {0}
    BY HeaderFacts
  <1>4. s \in Nat
    BY <1>0, SizesAssumption DEF BlockSize
  <1>5. memory_top' < HeaderAddr(header_bottom')
    <2>1. PICK x, y : x = HeaderAddr(header_bottom) /\ y = HeaderAddr(header_bottom + 1)
      OBVIOUS
    <2>2. x \in Int /\ y = x - HeaderSize
      BY <2>1, <1>3, HeaderOrder
    <2>3. memory_top + s + HeaderSize < x
      BY <2>1, <1>1 DEF TopRoom
    <2>4. memory_top + s < x /\ memory_top + s < y
      BY <2>2, <2>3, <1>3, <1>4
    <2> QED BY <2>1, <2>4, <1>1, <1>2
  <1> QED BY <1>5 DEF HeadersAboveBlocks

\* A header is taken, memory_top does not change.
LEMMA PartAbove ==
    ASSUME HInv, HeadersAboveBlocks, memory_top' = memory_top,
           \/ header_bottom' = header_bottom
           \/ header_bottom' = header_bottom + 1 /\ HeaderRoom
    PROVE  HeadersAboveBlocks'
  <1>1. HeaderRoom => memory_top < HeaderAddr(header_bottom + 1)
    BY RoomBelow
  <1> QED BY <1>1 DEF HeadersAboveBlocks

\* Relinking takes at most one header.
LEMMA RelinkPart ==
    ASSUME RelinkAdjacent \/ RelinkSpare \/ RelinkExtend
    PROVE  /\ memory_top' = memory_top
           /\ \/ header_bottom' = header_bottom
              \/ header_bottom' = header_bottom + 1 /\ HeaderRoom
  BY DEF RelinkAdjacent, RelinkSpare, RelinkExtend, NextPass

LEMMA FinishAbove ==
    ASSUME HInv, HeadersAboveBlocks, Finish, memory_bottom <= memory_top
    PROVE  HeadersAboveBlocks'
  <1>1. PICK a \in memory_bottom..HeapSize, n \in DOMAIN list :
          /\ HighestUsed(a)
          /\ memory_top' = a
          /\ \E b \in 0..header_bottom : header_bottom' = b
    BY DEF Finish
  <1>2. pc = "finish"
    BY DEF Finish
  <1>3. PICK b \in 0..header_bottom : header_bottom' = b
    BY <1>1
  <1>4. /\ header_bottom \in Nat /\ memory_top \in Nat /\ HeaderPart \subseteq Headers
        /\ Headers \subseteq Nat /\ memory_bottom \in Nat /\ HeapSize \in Nat
    BY HeaderFacts, SlotCount, SizesAssumption
  <1>5. a \in Int /\ a <= memory_top
    <2>1. a \in UsedEnds \cup {memory_bottom}
      BY <1>1 DEF HighestUsed
    <2>2. ASSUME a \in UsedEnds PROVE a <= memory_top
      <3>1. PICK j \in DOMAIN list : a = End(list[j]) /\ memory[list[j]] # NULL
        BY <2>2 DEF UsedEnds, rm_header_is_unused
      <3>2. list[j] \in ListedBlocks
        BY <3>1 DEF ListedBlocks, ToSet
      <3> QED BY <3>1, <3>2, <1>2, BlocksInside
    <2> QED BY <2>1, <2>2, <1>4
  <1>7. a < HeaderAddr(b)
    <2>1. b \in Nat /\ b <= header_bottom
      BY <1>4
    <2>2. PICK x, y : x = HeaderAddr(header_bottom) /\ y = HeaderAddr(b)
      OBVIOUS
    <2>3. x <= y /\ x \in Int /\ y \in Int
      BY <2>1, <2>2, <1>4, HeaderOrder
    <2>4. memory_top < x
      BY <2>2 DEF HeadersAboveBlocks
    <2>5. a < y
      BY <2>3, <2>4, <1>4, <1>5
    <2> QED BY <2>2, <2>5
  <1> QED BY <1>1, <1>3, <1>7 DEF HeadersAboveBlocks

\* memory_top never comes below memory_bottom.
LEMMA TopAboveBottom ==
    ASSUME HInv, pc # "move"
    PROVE  memory_bottom <= memory_top
  <1>1. BlocksTile /\ memory_top \in Nat /\ memory_bottom \in Nat
    BY SortedCovers, ListFacts, SlotCount
  <1>2. memory_bottom \in {memory[g] : g \in ListedBlocks} \cup {memory_top}
    BY <1>1 DEF BlocksTile
  <1>3. ASSUME NEW g \in ListedBlocks, memory_bottom = memory[g]
        PROVE  memory_bottom <= memory_top
    <2>1. /\ End(g) <= memory_top /\ End(g) = memory[g] + size[g]
          /\ size[g] >= FreeBlockSize /\ memory[g] \in Int /\ size[g] \in Int
      BY BlocksInside
    <2> QED BY <2>1, <1>1, <1>3, SizesAssumption
  <1> QED BY <1>1, <1>2, <1>3

LEMMA NextAbove ==
    ASSUME HInv, HeadersAboveBlocks, [Next]_vars
    PROVE  HeadersAboveBlocks'
  <1>1. CASE UNCHANGED <<header_bottom, memory_top>>
    BY <1>1 DEF HeadersAboveBlocks
  <1>2. ASSUME NEW n \in Sizes,
               \/ MallocTop(n) \/ MallocFreeBlock(n) \/ MallocLosesBlock(n)
               \/ MallocFails(n) \/ MallocFault(n)
        PROVE  HeadersAboveBlocks'
    <2>1. CASE MallocTop(n)
      BY <2>1, MallocTopAbove
    <2>2. CASE MallocFreeBlock(n)
      <3>1. PICK k \in Slots, r \in Slots : \E p \in DOMAIN slots[k] :
                SplitFreeBlock(n, k, p, r)
        BY <2>2 DEF MallocFreeBlock
      <3>2. PICK p \in DOMAIN slots[k] : SplitFreeBlock(n, k, p, r)
        BY <3>1
      <3>3. PICK h : h = rm_header_find_free
        OBVIOUS
      <3>4. /\ h # NoHeader /\ ~Aliased /\ TakeHeader /\ list' = Inserted(h)
            /\ memory_top' = memory_top
        BY <3>2, <3>3 DEF SplitFreeBlock, CanShrink
      <3>5. /\ h \in Headers /\ HeaderPart' \subseteq HeaderPart \cup {h}
            /\ \/ h \in HeaderPart /\ header_bottom' = header_bottom
               \/ h = header_bottom + 1 /\ header_bottom' = header_bottom + 1 /\ HeaderRoom
        BY <3>3, <3>4, TakenPart
      <3> QED BY <3>4, <3>5, PartAbove
    <2>3. CASE MallocLosesBlock(n) \/ MallocFails(n) \/ MallocFault(n)
      BY <2>3, <1>1 DEF MallocLosesBlock, MallocFails, MallocFault, vars, headerVars
    <2> QED BY <1>2, <2>1, <2>2, <2>3
  <1>3. ASSUME NEW h \in Headers, rm_free(h) \/ rm_lock(h) \/ rm_weaklock(h) \/ rm_unlock(h)
        PROVE  HeadersAboveBlocks'
    BY <1>1, <1>3 DEF rm_free, rm_lock, rm_weaklock, rm_unlock, SetLock
  <1>4. ASSUME NEW limit \in {0, 1}, rm_compact(limit) PROVE HeadersAboveBlocks'
    BY <1>1, <1>4 DEF rm_compact
  <1>5. CASE CompactStep
    <2>1. CASE RelinkAdjacent \/ RelinkSpare \/ RelinkExtend
      BY <2>1, RelinkPart, PartAbove
    <2>2. CASE Finish
      <3>1. pc # "move"
        BY <2>2 DEF Finish
      <3> QED BY <2>2, <3>1, TopAboveBottom, FinishAbove
    <2>3. \/ RelinkAdjacent \/ RelinkSpare \/ RelinkExtend \/ Finish
          \/ UNCHANGED <<header_bottom, memory_top>>
      BY <1>5 DEF CompactStep, PassEnds, PassBegins, FreeRange, NothingToMove, NextFreeRange,
         UnlockedBegins, UnlockedRange, UnlockedRangeDone, MoveBlock, RelinkFault,
         FinishFault, Rebuild, CompactReturns, heapVars, headerVars
    <2> QED BY <2>1, <2>2, <2>3, <1>1
  <1>6. CASE UNCHANGED vars
    BY <1>1, <1>6 DEF vars, headerVars
  <1> QED BY <1>2, <1>3, <1>4, <1>5, <1>6 DEF Next

\* If there is room for the slots and two headers at first, which rm_init takes
\* for granted, the blocks never reach header_bottom, however rm_malloc and
\* rm_compact lower and raise both.  Headers that rm_compact has left below
\* header_bottom are another matter: BlocksClearOfHeaders is false of the code.
THEOREM HeadersApart ==
    ASSUME memory_bottom < HeaderAddr(1)
    PROVE  Spec => []HeadersAboveBlocks
  <1>1. Init => HeadersAboveBlocks
    BY DEF Init, HeadersAboveBlocks
  <1>2. HInv /\ HeadersAboveBlocks /\ [Next]_vars => HeadersAboveBlocks'
    BY NextAbove
  <1> QED BY <1>1, <1>2, HeapInvariant, PTL DEF Spec

-----------------------------------------------------------------------------
(* Without rm_compact, nothing goes wrong *)

\* Only rm_compact raises header_bottom: until it is called, every header in
\* the list or in the unused chain is at header_bottom or above it.
Calm == /\ pc = "idle" /\ fault = "none"
        /\ \A g \in HeaderPart : g <= header_bottom

\* The next header is a fresh one.
LEMMA CalmFresh ==
    ASSUME HInv, Calm
    PROVE  ~Aliased
  <1>1. header_bottom \in Nat
    BY HeaderFacts
  <1>2. header_bottom + 1 \notin HeaderPart
    BY <1>1 DEF Calm
  <1> QED BY <1>2 DEF Aliased, HeaderPart

\* The new block and one more header fit below every header.
LEMMA CalmClear ==
    ASSUME HInv, Calm, NEW s \in Nat, TopRoom(s), NEW h, h = rm_header_find_free,
           h # NoHeader
    PROVE  ~OverlapsHeader(HeaderPart \cup {h}, memory_top, s)
  <1>1. /\ header_bottom \in Nat /\ memory_top \in Nat /\ HeaderPart \subseteq Nat
        /\ HeaderSize \in Nat
    BY HeaderFacts
  <1>2. h \in HeaderPart \cup {header_bottom + 1}
    <2>1. unused # <<>> => Head(unused) \in ToSet(unused)
      <3>1. unused \in Seq(Headers)
        BY ListFacts DEF TypeOK
      <3> QED BY <3>1 DEF ToSet
    <2> QED BY <2>1 DEF rm_header_find_free, HeaderPart
  <1>3. SUFFICES ASSUME NEW g \in HeaderPart \cup {h}
                 PROVE  ~(HeaderAddr(g) < memory_top + s)
    BY DEF OverlapsHeader
  <1>4. g \in Nat /\ g <= header_bottom + 1
    BY <1>1, <1>2 DEF Calm
  <1>5. PICK x, y, z : /\ x = HeaderAddr(header_bottom) /\ y = HeaderAddr(header_bottom + 1)
                       /\ z = HeaderAddr(g)
    OBVIOUS
  <1>6. x \in Int /\ y = x - HeaderSize /\ z \in Int
    BY <1>1, <1>4, <1>5, HeaderOrder
  <1>7. y <= z
    BY <1>1, <1>4, <1>5, HeaderOrder
  <1>8. memory_top + s + HeaderSize < x
    BY <1>5 DEF TopRoom
  <1>9. ~(z < memory_top + s)
    BY <1>1, <1>6, <1>7, <1>8
  <1> QED BY <1>5, <1>9

\* A header taken for a block keeps the others above header_bottom.
LEMMA CalmTaken ==
    ASSUME HInv, Calm, NEW h, h = rm_header_find_free, h # NoHeader, ~Aliased, TakeHeader,
           list' = Inserted(h), UNCHANGED <<pc, fault>>
    PROVE  Calm'
  <1>1. /\ header_bottom \in Nat /\ HeaderPart \subseteq Nat
    BY HeaderFacts
  <1>2. /\ HeaderPart' \subseteq HeaderPart \cup {h}
        /\ \/ h \in HeaderPart /\ header_bottom' = header_bottom
           \/ h = header_bottom + 1 /\ header_bottom' = header_bottom + 1
    BY TakenPart
  <1>3. ASSUME NEW g \in HeaderPart' PROVE g <= header_bottom'
    <2>1. g \in HeaderPart \/ g = h
      BY <1>2
    <2> QED BY <2>1, <1>1, <1>2 DEF Calm
  <1> QED BY <1>3 DEF Calm

LEMMA CalmMalloc ==
    ASSUME HInv, Calm, NEW n \in Sizes, rm_log2(BlockSize(n)) < free_block_slot_count,
           \/ MallocTop(n) \/ MallocFreeBlock(n) \/ MallocLosesBlock(n)
           \/ MallocFails(n) \/ MallocFault(n)
    PROVE  Calm'
  <1>1. CASE MallocTop(n)
    <2>1. PICK h, s : h = rm_header_find_free /\ s = BlockSize(n)
      OBVIOUS
    <2>2. /\ h # NoHeader /\ ~Aliased /\ TakeHeader /\ list' = Inserted(h)
          /\ TopRoom(s) /\ UNCHANGED pc
          /\ fault' = IF OverlapsHeader(HeaderPart', memory_top, s) THEN "overlap" ELSE fault
      BY <1>1, <2>1 DEF MallocTop, compactVars, HeaderPart
    <2>3. s \in Nat
      BY <2>1, SizesAssumption DEF BlockSize
    <2>4. ~OverlapsHeader(HeaderPart \cup {h}, memory_top, s)
      BY <2>1, <2>2, <2>3, CalmClear
    <2>5. HeaderPart' \subseteq HeaderPart \cup {h}
      BY <2>1, <2>2, TakenPart
    <2>6. ~OverlapsHeader(HeaderPart', memory_top, s)
      BY <2>4, <2>5 DEF OverlapsHeader
    <2>7. UNCHANGED <<pc, fault>>
      BY <2>2, <2>6
    <2> QED BY <2>1, <2>2, <2>7, CalmTaken
  <1>2. CASE MallocFreeBlock(n)
    <2>1. PICK k \in Slots, r \in Slots : \E p \in DOMAIN slots[k] :
              SplitFreeBlock(n, k, p, r)
      BY <1>2 DEF MallocFreeBlock
    <2>2. PICK p \in DOMAIN slots[k] : SplitFreeBlock(n, k, p, r)
      BY <2>1
    <2>3. PICK h : h = rm_header_find_free
      OBVIOUS
    <2>4. /\ h # NoHeader /\ ~Aliased /\ TakeHeader /\ list' = Inserted(h)
          /\ UNCHANGED <<pc, fault>>
      BY <2>2, <2>3 DEF SplitFreeBlock, CanShrink, compactVars
    <2> QED BY <2>3, <2>4, CalmTaken
  <1>3. CASE MallocLosesBlock(n) \/ MallocFails(n)
    BY <1>3 DEF MallocLosesBlock, MallocFails, vars, headerVars, compactVars, Calm, HeaderPart
  <1>4. CASE MallocFault(n)
    <2>1. ~Aliased
      BY CalmFresh
    <2>2. TopRoom(BlockSize(n)) \/ SearchesSlots(BlockSize(n))
      BY DEF SearchesSlots
    <2> QED BY <1>4, <2>1, <2>2 DEF MallocFault
  <1> QED BY <1>1, <1>2, <1>3, <1>4

\* If rm_compact is never called and no request is as large as
\* 2^free_block_slot_count, rm_malloc hands out no header twice and no block
\* that covers one, and freeblock_find stays within the slots: however large the
\* heap, however often the client allocates and frees.
THEOREM NothingGoesWrong ==
    ASSUME \A n \in Sizes : rm_log2(BlockSize(n)) < free_block_slot_count
    PROVE  Spec => NoFaultWithoutCompact
  <1>1. Init => Calm
    <2> SUFFICES ASSUME Init PROVE Calm
      OBVIOUS
    <2>1. HeaderPart = {0} /\ header_bottom = 1
      BY DEF Init, ToSet, HeaderPart
    <2> QED BY <2>1 DEF Init, Calm
  <1>2. HInv /\ Calm /\ (pc = "idle")' /\ [Next]_vars => Calm'
    <2> SUFFICES ASSUME HInv, Calm, pc' = "idle", [Next]_vars PROVE Calm'
      OBVIOUS
    <2>1. ASSUME NEW n \in Sizes,
                 \/ MallocTop(n) \/ MallocFreeBlock(n) \/ MallocLosesBlock(n)
                 \/ MallocFails(n) \/ MallocFault(n)
          PROVE  Calm'
      BY <2>1, CalmMalloc
    <2>2. ASSUME NEW h \in Headers,
                 rm_free(h) \/ rm_lock(h) \/ rm_weaklock(h) \/ rm_unlock(h)
          PROVE  Calm'
      BY <2>2 DEF rm_free, rm_lock, rm_weaklock, rm_unlock, SetLock, compactVars, Calm,
         HeaderPart
    <2>3. \A limit \in {0, 1} : ~rm_compact(limit)
      BY DEF rm_compact
    <2>4. ~CompactStep
      BY DEF Calm, CompactStep, PassEnds, PassBegins, FreeRange, FreeRangeDone, MoveDone,
         NothingToMove, NextFreeRange, UnlockedBegins, UnlockedRange, UnlockedRangeDone,
         MoveBlock, RelinkAdjacent, RelinkSpare, RelinkExtend, RelinkFault, Finish,
         FinishFault, Rebuild, CompactReturns
    <2>5. CASE UNCHANGED vars
      BY <2>5 DEF vars, headerVars, compactVars, Calm, HeaderPart
    <2> QED BY <2>1, <2>2, <2>3, <2>4, <2>5 DEF Next
  <1>3. Calm => fault = "none"
    BY DEF Calm
  <1> QED BY <1>1, <1>2, <1>3, HeapInvariant, PTL DEF Spec, NoFaultWithoutCompact

=============================================================================
