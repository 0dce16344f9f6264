----------------------------- MODULE JeffProofs -----------------------------
(***************************************************************************)
(* Theorems about jeff, for heaps of any size.                             *)
(***************************************************************************)
EXTENDS Jeff, FiniteSetTheorems, TLAPS

\* What the proofs need of a sequence.
LEMMA ConcatType ==
    ASSUME NEW S, NEW s \in Seq(S), NEW t \in Seq(S)
    PROVE  s \o t \in Seq(S)
  OBVIOUS

LEMMA SubSeqType ==
    ASSUME NEW S, NEW s \in Seq(S), NEW a \in Nat \ {0}, NEW b \in Int, b <= Len(s)
    PROVE  SubSeq(s, a, b) \in Seq(S)
  OBVIOUS

LEMMA RemoveAtType ==
    ASSUME NEW S, NEW s \in Seq(S), NEW p \in DOMAIN s
    PROVE  RemoveAt(s, p) \in Seq(S)
  BY SubSeqType, ConcatType DEF RemoveAt

LEMMA ConsType ==
    ASSUME NEW S, NEW s \in Seq(S), NEW e \in S
    PROVE  Cons(e, s) \in Seq(S) /\ Cons(e, s) # <<>>
  BY DEF Cons

\* The constants rm_init computes.
LEMMA SlotCount == free_block_slot_count \in Nat \ {0} /\ memory_bottom \in Nat \ {0}
  <1>1. rm_log2(HeapSize) \in 0..31
    BY HeapSizeAssumption DEF rm_log2
  <1>2. free_block_slot_count \in Nat \ {0}
    BY <1>1 DEF free_block_slot_count
  <1> QED BY <1>2, SizesAssumption DEF memory_bottom

\* A header that fits above memory_top has a number up to MaxHeader.
LEMMA HeaderFits ==
    ASSUME NEW i \in Nat, HeaderAddr(i + 2) > 0
    PROVE  i + 1 \in Headers
  <1>1. (i + 3) * HeaderSize < (MaxHeader + 1) * HeaderSize
    BY SizesAssumption, MaxHeaderAssumption DEF HeaderAddr
  <1>2. ASSUME i + 3 >= MaxHeader + 1
        PROVE  (i + 3) * HeaderSize >= (MaxHeader + 1) * HeaderSize
    BY <1>2, SizesAssumption, MaxHeaderAssumption
  <1> QED BY <1>1, <1>2, SizesAssumption, MaxHeaderAssumption DEF Headers

-----------------------------------------------------------------------------
(* The inductive invariant: types, and what the locals of rm_compact mean.  *)

\* The free range is a range of free blocks, the unlocked range is a range of
\* unlocked blocks behind it.
RangesOK ==
    /\ pc = "pass" => root >= 1
    /\ pc = "rebuild" => cur >= 1
    /\ pc \notin {"unlocked", "move"} => unlocked_size = 0
    /\ pc \in {"free", "unlocked", "move"} =>
          /\ f1 >= 1 /\ f1 <= Len(list) /\ type[list[f1]] = FREE
          /\ f2 >= f1 - 1 /\ f2 <= Len(list)
          /\ \A i \in f1..f2 : type[list[i]] = FREE
    /\ pc \in {"unlocked", "move"} =>
          /\ f2 >= f1 /\ u1 > f2 /\ u1 <= Len(list)
          /\ u2 >= u1 - 1 /\ u2 <= Len(list)
          /\ \A i \in u1..u2 : type[list[i]] = UNLOCKED
    /\ pc = "unlocked" /\ u2 = u1 - 1 =>
          unlocked_size = 0 /\ type[list[u1]] = UNLOCKED /\ Fits(u1, 0)
    /\ pc = "move" => cur >= u1 /\ u2 >= u1

Inv == TypeOK /\ RangesOK

LEMMA InitInv == Init => Inv
  <1> SUFFICES ASSUME Init PROVE Inv OBVIOUS
  <1>1. 0 \in Headers /\ 1 \in Headers
    BY MaxHeaderAssumption DEF Headers
  <1>2. <<0>> \in Seq(Headers) /\ <<0>> # <<>>
    BY <1>1
  <1>3. TypeOK
    BY <1>1, <1>2, SlotCount DEF Init, TypeOK, Slots, NULL, FREE, BlockTypes, Faults
  <1> QED BY <1>3 DEF Init, Inv, RangesOK

\* The part of TypeOK about the locals of rm_compact.
LEMMA LocalTypes ==
    ASSUME TypeOK
    PROVE  /\ root \in Int /\ f1 \in Int /\ f2 \in Int /\ u1 \in Int /\ u2 \in Int
           /\ free_size \in Int /\ unlocked_size \in Int /\ used_offset \in Int
           /\ cur \in Int /\ maxtime \in {0, 1} /\ fault \in Faults
  BY DEF TypeOK

\* The list has a header at every position.
LEMMA ListType ==
    ASSUME TypeOK
    PROVE  /\ list \in Seq(Headers) /\ Len(list) \in Nat /\ Len(list) >= 1
           /\ DOMAIN list = 1..Len(list)
  <1>1. list \in Seq(Headers) /\ list # <<>>
    BY DEF TypeOK
  <1> QED BY <1>1

LEMMA HeaderAt ==
    ASSUME TypeOK, NEW i \in 1..Len(list)
    PROVE  list[i] \in Headers /\ memory[list[i]] \in Int /\ size[list[i]] \in Int
  <1>1. list[i] \in Headers
    BY ListType
  <1>2. memory \in [Headers -> Int] /\ size \in [Headers -> Int]
    BY DEF TypeOK
  <1> QED BY <1>1, <1>2

LEMMA SortKeyType ==
    ASSUME TypeOK, NEW i \in 1..Len(list)
    PROVE  SortKey(list[i]) \in Int
  BY HeaderAt, SizesAssumption DEF SortKey

\* Taking a header: rm_header_find_free.
LEMMA TakeHeaderType ==
    ASSUME TypeOK, TakeHeader, rm_header_find_free # NoHeader
    PROVE  /\ rm_header_find_free \in Headers
           /\ unused' \in Seq(Headers) /\ header_bottom' \in Headers
  <1>1. CASE unused # <<>>
    <2>1. Head(unused) \in Headers /\ Tail(unused) \in Seq(Headers)
      BY <1>1 DEF TypeOK
    <2> QED BY <1>1, <2>1 DEF TakeHeader, rm_header_find_free, TypeOK
  <1>2. CASE unused = <<>>
    <2>1. HeaderRoom
      BY <1>2 DEF rm_header_find_free
    <2>2. header_bottom + 1 \in Headers
      <3>1. HeaderAddr(header_bottom + 2) > 0
        BY <2>1, SizesAssumption DEF HeaderRoom, TypeOK, HeaderAddr, Headers
      <3>2. header_bottom \in Nat
        BY DEF TypeOK, Headers
      <3> QED BY <3>1, <3>2, HeaderFits
    <2> QED BY <1>2, <2>1, <2>2 DEF TakeHeader, rm_header_find_free, TypeOK
  <1> QED BY <1>1, <1>2

-----------------------------------------------------------------------------
(* The calls of the client *)

LEMMA InsertedType ==
    ASSUME TypeOK, NEW h \in Headers
    PROVE  Inserted(h) \in Seq(Headers) /\ Inserted(h) # <<>>
  BY ConsType DEF Inserted, TypeOK

LEMMA PushType ==
    ASSUME NEW s \in [Slots -> Seq(Headers)], NEW k \in Slots, NEW h \in Headers
    PROVE  Push(s, k, h) \in [Slots -> Seq(Headers)]
  <1>1. Cons(h, s[k]) \in Seq(Headers)
    BY ConsType
  <1> QED BY <1>1 DEF Push

\* Outside rm_compact, RangesOK only says that unlocked_size is 0.
LEMMA IdleRanges ==
    ASSUME Inv, pc = "idle", UNCHANGED compactVars
    PROVE  RangesOK'
  BY DEF Inv, RangesOK, compactVars, rangeVars

LEMMA HandOutType ==
    ASSUME TypeOK, NEW h \in Headers, NEW a, NEW n \in Sizes, HandOut(h, a, n)
    PROVE  /\ header_used_count' \in Int /\ highest_address_header' \in Headers
           /\ mallocs' \in Nat /\ req' \in [Headers -> Nat]
           /\ ptr' \in [Headers -> Int]
  <1>1. mallocs' \in Nat /\ header_used_count' \in Int
    BY DEF HandOut, TypeOK
  <1>2. req' \in [Headers -> Nat] /\ ptr' \in [Headers -> Int]
    <2>1. req' = [req EXCEPT ![h] = n] /\ ptr' = [ptr EXCEPT ![h] = 0]
      BY DEF HandOut, NULL
    <2>2. req \in [Headers -> Nat] /\ ptr \in [Headers -> Int] /\ n \in Nat
      BY SizesAssumption DEF TypeOK
    <2> QED BY <2>1, <2>2
  <1> QED BY <1>1, <1>2 DEF HandOut

LEMMA MallocTopInv ==
    ASSUME Inv, NEW n \in Sizes, MallocTop(n)
    PROVE  Inv'
  <1> DEFINE s == BlockSize(n)
             h == rm_header_find_free
  <1>1. TypeOK /\ pc = "idle" /\ s \in Nat /\ memory_top \in Nat
    BY SizesAssumption DEF Inv, TypeOK, MallocTop, Running, BlockSize
  <1>2. h \in Headers /\ unused' \in Seq(Headers) /\ header_bottom' \in Headers
    BY <1>1, TakeHeaderType DEF MallocTop
  <1>3. list' \in Seq(Headers) /\ list' # <<>>
    BY <1>1, <1>2, InsertedType DEF MallocTop
  <1>4. /\ memory' \in [Headers -> Int] /\ size' \in [Headers -> Int]
        /\ type' \in [Headers -> BlockTypes] /\ memory_top' \in Nat
    <2>1. /\ memory' = [memory EXCEPT ![h] = memory_top]
          /\ size' = [size EXCEPT ![h] = s]
          /\ type' = [type EXCEPT ![h] = UNLOCKED]
          /\ memory_top' = memory_top + s
      BY DEF MallocTop
    <2>2. /\ memory \in [Headers -> Int] /\ size \in [Headers -> Int]
          /\ type \in [Headers -> BlockTypes] /\ UNLOCKED \in BlockTypes
      BY <1>1 DEF TypeOK, BlockTypes
    <2>3. memory' \in [Headers -> Int] /\ size' \in [Headers -> Int]
      BY <1>1, <1>2, <2>1, <2>2
    <2> QED BY <1>1, <1>2, <2>1, <2>2, <2>3
  <1>5. /\ header_used_count' \in Int /\ highest_address_header' \in Headers
        /\ mallocs' \in Nat /\ req' \in [Headers -> Nat]
        /\ ptr' \in [Headers -> Int]
    <2>1. HandOut(h, memory_top, n)
      BY DEF MallocTop
    <2> QED BY <1>1, <1>2, <2>1, HandOutType
  <1>6. UNCHANGED <<slots, compactVars>> /\ fault' \in Faults
    <2>1. fault' \in {"overlap", fault} /\ UNCHANGED <<slots, compactVars>>
      BY DEF MallocTop
    <2> QED BY <1>1, <2>1 DEF TypeOK, Faults
  <1>7. TypeOK'
    BY <1>1, <1>2, <1>3, <1>4, <1>5, <1>6 DEF TypeOK, compactVars, rangeVars
  <1> QED BY <1>1, <1>6, <1>7, IdleRanges DEF Inv

LEMMA MallocFreeBlockInv ==
    ASSUME Inv, NEW n \in Sizes, MallocFreeBlock(n)
    PROVE  Inv'
  <1>0. PICK k \in Slots, r \in Slots : \E p \in DOMAIN slots[k] :
            SplitFreeBlock(n, k, p, r)
    BY DEF MallocFreeBlock
  <1>p. PICK p \in DOMAIN slots[k] : SplitFreeBlock(n, k, p, r)
    BY <1>0
  <1> DEFINE s == BlockSize(n)
             h == rm_header_find_free
             b == slots[k][p]
             diff == size[b] - s
  <1>1. TypeOK /\ pc = "idle" /\ s \in Nat
    BY <1>p, SizesAssumption DEF Inv, TypeOK, SplitFreeBlock, Running, BlockSize
  <1>2. h \in Headers /\ unused' \in Seq(Headers) /\ header_bottom' \in Headers
    BY <1>p, <1>1, TakeHeaderType DEF SplitFreeBlock, CanShrink
  <1>3. list' \in Seq(Headers) /\ list' # <<>>
    BY <1>p, <1>1, <1>2, InsertedType DEF SplitFreeBlock
  <1>b. b \in Headers /\ memory[b] \in Int /\ diff \in Int
    <2>1. slots[k] \in Seq(Headers)
      BY <1>1 DEF TypeOK
    <2>2. b \in Headers
      BY <2>1
    <2> QED BY <1>1, <2>2 DEF TypeOK
  <1>4. memory' \in [Headers -> Int] /\ size' \in [Headers -> Int]
    <2>1. /\ memory' = [memory EXCEPT ![h] = memory[b], ![b] = memory[b] + diff]
          /\ size' = [size EXCEPT ![h] = diff, ![b] = s]
      BY <1>p DEF SplitFreeBlock
    <2>2. memory \in [Headers -> Int] /\ size \in [Headers -> Int]
      BY <1>1 DEF TypeOK
    <2> HIDE DEF h, b, diff, s
    <2>3. memory[b] + diff \in Int
      BY <1>b
    <2>4. memory' \in [Headers -> Int]
      BY <1>2, <1>b, <2>1, <2>2, <2>3
    <2>5. size' \in [Headers -> Int]
      BY <1>1, <1>2, <1>b, <2>1, <2>2
    <2> QED BY <2>4, <2>5
  <1>5. type' \in [Headers -> BlockTypes]
    <2>1. type' = [type EXCEPT ![h] = FREE, ![b] = UNLOCKED]
      BY <1>p DEF SplitFreeBlock
    <2>2. /\ type \in [Headers -> BlockTypes]
          /\ FREE \in BlockTypes /\ UNLOCKED \in BlockTypes
      BY <1>1 DEF TypeOK, BlockTypes
    <2> HIDE DEF h, b
    <2> QED BY <1>2, <1>b, <2>1, <2>2
  <1>6. slots' \in [Slots -> Seq(Headers)]
    <2>1. slots[k] \in Seq(Headers) /\ slots \in [Slots -> Seq(Headers)]
      BY <1>1 DEF TypeOK
    <2>2. RemoveAt(slots[k], p) \in Seq(Headers)
      BY <2>1, RemoveAtType
    <2>3. [slots EXCEPT ![k] = RemoveAt(@, p)] \in [Slots -> Seq(Headers)]
      BY <2>1, <2>2
    <2>4. slots' = Push([slots EXCEPT ![k] = RemoveAt(@, p)], r, h)
      BY <1>p DEF SplitFreeBlock
    <2> QED BY <1>2, <2>3, <2>4, PushType
  <1>7. /\ header_used_count' \in Int /\ highest_address_header' \in Headers
        /\ mallocs' \in Nat /\ req' \in [Headers -> Nat]
        /\ ptr' \in [Headers -> Int]
    <2>1. HandOut(b, memory[b] + diff, n)
      BY <1>p DEF SplitFreeBlock
    <2> QED BY <1>1, <1>b, <2>1, HandOutType
  <1>8. UNCHANGED <<memory_top, compactVars, fault>>
    BY <1>p DEF SplitFreeBlock
  <1>9. TypeOK'
    BY <1>1, <1>2, <1>3, <1>4, <1>5, <1>6, <1>7, <1>8
    DEF TypeOK, compactVars, rangeVars
  <1> QED BY <1>1, <1>8, <1>9, IdleRanges DEF Inv

LEMMA MallocNullInv ==
    ASSUME Inv, NEW n \in Sizes,
           MallocLosesBlock(n) \/ MallocFails(n) \/ MallocFault(n)
    PROVE  Inv'
  <1>1. CASE MallocLosesBlock(n)
    <2>1. PICK k \in Slots : \E p \in DOMAIN slots[k] :
              slots' = [slots EXCEPT ![k] = RemoveAt(@, p)]
      BY <1>1 DEF MallocLosesBlock
    <2>2. PICK p \in DOMAIN slots[k] :
              slots' = [slots EXCEPT ![k] = RemoveAt(@, p)]
      BY <2>1
    <2>3. slots \in [Slots -> Seq(Headers)] /\ slots[k] \in Seq(Headers)
      BY DEF Inv, TypeOK
    <2>4. slots' \in [Slots -> Seq(Headers)]
      BY <2>2, <2>3, RemoveAtType
    <2>5. /\ UNCHANGED <<headerVars, memory_top, statVars, compactVars,
                         clientVars, fault>>
          /\ pc = "idle"
      BY <1>1 DEF MallocLosesBlock, Running
    <2>6. TypeOK'
      BY <2>4, <2>5 DEF Inv, TypeOK, headerVars, statVars, compactVars,
         rangeVars, clientVars
    <2>7. RangesOK'
      BY <2>5, IdleRanges
    <2> QED BY <2>6, <2>7 DEF Inv
  <1>2. CASE MallocFails(n)
    <2>1. UNCHANGED vars
      BY <1>2 DEF MallocFails
    <2> QED BY <2>1 DEF Inv, TypeOK, RangesOK, Fits, Adjacent, TypeAt, vars,
         headerVars, statVars, compactVars, rangeVars, clientVars
  <1>3. CASE MallocFault(n)
    <2>1. /\ UNCHANGED <<headerVars, memory_top, slots, statVars, compactVars,
                         clientVars>>
          /\ pc = "idle" /\ fault' \in Faults
      BY <1>3 DEF MallocFault, Running, Faults
    <2>2. TypeOK'
      BY <2>1 DEF Inv, TypeOK, headerVars, statVars, compactVars,
         rangeVars, clientVars
    <2>3. RangesOK'
      BY <2>1, IdleRanges
    <2> QED BY <2>2, <2>3 DEF Inv
  <1> QED BY <1>1, <1>2, <1>3

LEMMA FreeInv ==
    ASSUME Inv, NEW h \in Headers, rm_free(h)
    PROVE  Inv'
  <1>1. TypeOK /\ pc = "idle"
    BY DEF Inv, rm_free, Running
  <1>2. PICK k \in Slots : slots' = Push(slots, k, h)
    BY DEF rm_free
  <1>3. slots' \in [Slots -> Seq(Headers)]
    BY <1>1, <1>2, PushType DEF TypeOK
  <1>4. /\ type' \in [Headers -> BlockTypes] /\ header_used_count' \in Int
        /\ req' \in [Headers -> Nat] /\ ptr' \in [Headers -> Int]
    <2>1. /\ type' = [type EXCEPT ![h] = FREE]
          /\ req' = [req EXCEPT ![h] = 0]
          /\ ptr' = [ptr EXCEPT ![h] = NULL]
          /\ header_used_count' = header_used_count - 1
      BY DEF rm_free
    <2>2. /\ type \in [Headers -> BlockTypes] /\ FREE \in BlockTypes
          /\ req \in [Headers -> Nat] /\ ptr \in [Headers -> Int]
          /\ header_used_count \in Int
      BY <1>1 DEF TypeOK, BlockTypes
    <2>3. req' \in [Headers -> Nat] /\ ptr' \in [Headers -> Int]
      BY <2>1, <2>2 DEF NULL
    <2> QED BY <2>1, <2>2, <2>3
  <1>5. UNCHANGED <<memory, size, list, unused, header_bottom, memory_top,
                    highest_address_header, compactVars, mallocs, fault>>
    BY DEF rm_free
  <1>6. TypeOK'
    BY <1>1, <1>3, <1>4, <1>5 DEF TypeOK, compactVars, rangeVars
  <1> QED BY <1>1, <1>5, <1>6, IdleRanges DEF Inv

LEMMA LockInv ==
    ASSUME Inv, NEW h \in Headers, rm_lock(h) \/ rm_weaklock(h) \/ rm_unlock(h)
    PROVE  Inv'
  <1>1. PICK t \in BlockTypes, p \in Int : SetLock(h, t, p)
    BY DEF rm_lock, rm_weaklock, rm_unlock, BlockTypes, Inv, TypeOK, NULL
  <1>2. TypeOK /\ pc = "idle"
    BY <1>1 DEF Inv, SetLock, Running
  <1>3. type' \in [Headers -> BlockTypes] /\ ptr' \in [Headers -> Int]
    BY <1>1, <1>2 DEF SetLock, TypeOK
  <1>4. UNCHANGED <<memory, size, list, unused, header_bottom, memory_top, slots,
                    statVars, compactVars, mallocs, req, cells, fault>>
    BY <1>1 DEF SetLock
  <1>5. TypeOK'
    BY <1>2, <1>3, <1>4 DEF TypeOK, statVars, compactVars, rangeVars
  <1> QED BY <1>2, <1>4, <1>5, IdleRanges DEF Inv

-----------------------------------------------------------------------------
(* rm_compact: choosing the two ranges *)

\* Every position of the sorted list is the position of one header.
LEMMA SortedOnto ==
    ASSUME TypeOK, NEW r \in DOMAIN list
    PROVE  \E i \in DOMAIN list : SortedPosition(i) = r
  <1> DEFINE n == Len(list)
             Less(i) == {j \in DOMAIN list : SortsBefore(j, i)}
             pos == [i \in 1..n |-> SortedPosition(i)]
  <1>1. n \in Nat /\ DOMAIN list = 1..n
    BY ListType
  <1>2. IsFiniteSet(1..n) /\ Cardinality(1..n) = n
    <2>1. /\ IsFiniteSet(1..n)
          /\ Cardinality(1..n) = IF 1 > n THEN 0 ELSE n - 1 + 1
      BY <1>1, FS_Interval
    <2> HIDE DEF n
    <2> QED BY <1>1, <2>1
  <1>3. ASSUME NEW i \in 1..n
        PROVE  /\ Less(i) \subseteq 1..n /\ i \notin Less(i)
               /\ IsFiniteSet(Less(i)) /\ Cardinality(Less(i)) \in 0..(n - 1)
    <2>1. Less(i) \subseteq 1..n /\ i \notin Less(i)
      <3>2. SortKey(list[i]) \in Int
        BY <1>3, SortKeyType
      <3>3. ~SortsBefore(i, i)
        BY <1>3, <3>2 DEF SortsBefore
      <3> QED BY <1>1, <3>3
    <2>2. Less(i) \in SUBSET ((1..n) \ {i})
      BY <2>1
    <2>3. IsFiniteSet((1..n) \ {i}) /\ Cardinality((1..n) \ {i}) = n - 1
      BY <1>2, <1>3, FS_RemoveElement
    <2>4. IsFiniteSet(Less(i)) /\ Cardinality(Less(i)) <= n - 1
      BY <2>2, <2>3, FS_Subset
    <2>5. Cardinality(Less(i)) \in Nat
      BY <2>4, FS_CardinalityType
    <2> QED BY <1>1, <2>1, <2>4, <2>5
  <1>4. ASSUME NEW i \in 1..n, NEW j \in 1..n, SortsBefore(i, j)
        PROVE  SortedPosition(i) # SortedPosition(j)
    <2>1. SortKey(list[i]) \in Int /\ SortKey(list[j]) \in Int
      BY <1>4, SortKeyType
    <2>2. Less(i) \subseteq Less(j)
      <3> SUFFICES ASSUME NEW m \in 1..n, SortsBefore(m, i)
                   PROVE  SortsBefore(m, j)
        BY <1>1
      <3>1. SortKey(list[m]) \in Int
        BY SortKeyType
      <3> QED BY <1>1, <1>4, <2>1, <3>1 DEF SortsBefore
    <2>3. i \in Less(j) /\ i \notin Less(i)
      BY <1>1, <1>3, <1>4
    <2>4. Less(i) \in SUBSET Less(j) /\ Less(i) # Less(j)
      BY <2>2, <2>3
    <2>5. IsFiniteSet(Less(j))
      BY <1>3, <1>4
    <2>6. Cardinality(Less(i)) # Cardinality(Less(j))
      BY <2>4, <2>5, FS_Subset
    <2>7. /\ Cardinality(Less(i)) \in 0..(n - 1)
          /\ Cardinality(Less(j)) \in 0..(n - 1)
      BY <1>3, <1>4
    <2> HIDE DEF Less
    <2>8. 1 + Cardinality(Less(i)) # 1 + Cardinality(Less(j))
      BY <2>6, <2>7
    <2> QED BY <2>8 DEF SortedPosition, Less
  <1>5. pos \in Injection(1..n, 1..n)
    <2>1. ASSUME NEW i \in 1..n PROVE SortedPosition(i) \in 1..n
      <3>1. Cardinality(Less(i)) \in 0..(n - 1)
        BY <1>3, <2>1
      <3> HIDE DEF Less
      <3>2. 1 + Cardinality(Less(i)) \in 1..n
        BY <1>1, <3>1
      <3> QED BY <3>2 DEF SortedPosition, Less
    <2>2. pos \in [1..n -> 1..n]
      BY <2>1
    <2>3. ASSUME NEW i \in 1..n, NEW j \in 1..n, i # j
          PROVE  SortedPosition(i) # SortedPosition(j)
      <3>1. SortKey(list[i]) \in Int /\ SortKey(list[j]) \in Int
        BY <2>3, SortKeyType
      <3>2. SortsBefore(i, j) \/ SortsBefore(j, i)
        BY <1>1, <2>3, <3>1 DEF SortsBefore
      <3> QED BY <1>4, <2>3, <3>2
    <2>4. \A i, j \in 1..n : pos[i] = pos[j] => i = j
      BY <2>3
    <2> HIDE DEF pos
    <2> QED BY <2>2, <2>4 DEF Injection, IsInjective
  <1>6. pos \in Surjection(1..n, 1..n)
    BY <1>2, <1>5, FS_Injection
  <1> QED BY <1>1, <1>6 DEF Surjection

\* Sorting the list only changes the order of its headers.
LEMMA SortedListType ==
    ASSUME TypeOK
    PROVE  /\ SortedList \in Seq(Headers) /\ SortedList # <<>>
           /\ Len(SortedList) = Len(list)
  <1>1. /\ list \in Seq(Headers) /\ Len(list) \in Nat /\ Len(list) >= 1
        /\ DOMAIN list = 1..Len(list)
    BY ListType
  <1>2. ASSUME NEW r \in DOMAIN list
        PROVE  list[CHOOSE i \in DOMAIN list : SortedPosition(i) = r] \in Headers
    <2>1. (CHOOSE i \in DOMAIN list : SortedPosition(i) = r) \in DOMAIN list
      BY <1>2, SortedOnto
    <2> QED BY <1>1, <2>1
  <1>3. SortedList \in [1..Len(list) -> Headers]
    <2>1. SortedList \in [DOMAIN list -> Headers]
      BY <1>2, Zenon DEF SortedList
    <2> QED BY <1>1, <2>1
  <1>4. SortedList \in Seq(Headers) /\ Len(SortedList) = Len(list)
    BY <1>1, <1>3
  <1> QED BY <1>1, <1>4

LEMMA CompactInv ==
    ASSUME Inv, NEW limit \in {0, 1}, rm_compact(limit)
    PROVE  Inv'
  <1>1. TypeOK /\ unlocked_size = 0
    BY DEF Inv, rm_compact, Running, RangesOK
  <1>4. list' \in Seq(Headers) /\ list' # <<>>
    BY <1>1, SortedListType DEF rm_compact
  <1>5. /\ UNCHANGED <<memory, size, type, unused, header_bottom, memory_top,
                       slots, statVars, rangeVars, cur, clientVars, fault>>
        /\ pc' = "pass" /\ root' = 1 /\ maxtime' = limit
    BY DEF rm_compact
  <1>6. TypeOK'
    <2>1. root' \in Int /\ maxtime' \in {0, 1}
      BY <1>5
    <2>2. pc' \in {"idle", "pass", "free", "unlocked", "move", "finish", "rebuild"}
      BY <1>5
    <2>3. UNCHANGED <<memory, size, type, unused, header_bottom, memory_top,
                      slots, statVars, rangeVars, cur, clientVars, fault>>
      BY <1>5
    <2> QED BY <1>1, <1>4, <2>1, <2>2, <2>3 DEF TypeOK, statVars, rangeVars, clientVars
  <1>7. RangesOK'
    BY <1>1, <1>5 DEF RangesOK, rangeVars
  <1> QED BY <1>6, <1>7 DEF Inv

\* The steps that only set the locals of rm_compact.
LEMMA LocalsType ==
    ASSUME TypeOK, UNCHANGED heapVars, fault' \in Faults,
           pc' \in {"idle", "pass", "free", "unlocked", "move", "finish", "rebuild"},
           maxtime' \in {0, 1}, root' \in Int, f1' \in Int, f2' \in Int,
           u1' \in Int, u2' \in Int, free_size' \in Int,
           unlocked_size' \in Int, used_offset' \in Int, cur' \in Int
    PROVE  TypeOK'
  BY DEF TypeOK, heapVars, headerVars, statVars, clientVars

LEMMA PassInv ==
    ASSUME Inv, PassEnds \/ PassBegins
    PROVE  Inv'
  <1>1. CASE PassEnds
    <2>0. UNCHANGED <<heapVars, maxtime, root, rangeVars, cur, fault>>
          /\ pc' = "finish" /\ TypeOK
      BY <1>1 DEF Inv, PassEnds
    <2>1. TypeOK'
      BY <2>0, LocalTypes, LocalsType DEF rangeVars
    <2>2. RangesOK'
      BY <1>1 DEF Inv, RangesOK, PassEnds, rangeVars
    <2> QED BY <2>1, <2>2 DEF Inv
  <1>2. CASE PassBegins
    <2>1. PICK i \in root..Len(list) :
              TypeAt(i) = FREE /\ f1' = i /\ f2' = i - 1
      BY <1>2 DEF PassBegins
    <2>2. /\ UNCHANGED <<heapVars, maxtime, root, free_size, u1, u2,
                         unlocked_size, used_offset, cur, fault>>
          /\ pc = "pass" /\ pc' = "free"
      BY <1>2 DEF PassBegins
    <2>3. TypeOK /\ root >= 1
      BY <2>2 DEF Inv, RangesOK
    <2>4. i \in Int /\ i >= 1 /\ i <= Len(list)
      BY <2>1, <2>3, LocalTypes, ListType
    <2>5. TypeOK'
      BY <2>1, <2>2, <2>3, <2>4, LocalTypes, LocalsType
    <2>6. list' = list /\ type' = type
      BY <2>2 DEF heapVars, headerVars
    <2>7. RangesOK'
      BY <2>1, <2>2, <2>4, <2>6 DEF Inv, RangesOK, TypeAt
    <2> QED BY <2>5, <2>7 DEF Inv
  <1> QED BY <1>1, <1>2

LEMMA FreeRangeInv ==
    ASSUME Inv, FreeRange
    PROVE  Inv'
  <1>1. /\ UNCHANGED <<heapVars, pc, maxtime, root, f1, u1, u2, unlocked_size,
                       used_offset, cur, fault>>
        /\ pc = "free" /\ f2' = f2 + 1 /\ f2 < Len(list)
        /\ free_size' = free_size + size[list[f2 + 1]]
        /\ type[list[f2 + 1]] = FREE
    BY DEF FreeRange, FreeFollows, TypeAt
  <1>2. TypeOK /\ f1 >= 1 /\ f2 >= f1 - 1 /\ \A i \in f1..f2 : type[list[i]] = FREE
    BY <1>1 DEF Inv, RangesOK
  <1>0. f1 \in Int /\ f2 \in Int /\ Len(list) \in Nat
    BY <1>2, LocalTypes, ListType
  <1>3. f2 + 1 \in 1..Len(list)
    BY <1>0, <1>1, <1>2
  <1>5. free_size' \in Int
    BY <1>1, <1>2, <1>3, HeaderAt, LocalTypes
  <1>6. TypeOK'
    BY <1>1, <1>2, <1>5, LocalTypes, LocalsType
  <1>7. list' = list /\ type' = type
    BY <1>1 DEF heapVars, headerVars
  <1>9. \A i \in f1'..f2' : type'[list'[i]] = FREE
    <2>1. \A i \in f1..(f2 + 1) : i \in f1..f2 \/ i = f2 + 1
      BY <1>0
    <2> QED BY <1>1, <1>2, <1>7, <2>1
  <1>8. RangesOK'
    BY <1>0, <1>1, <1>2, <1>7, <1>9 DEF Inv, RangesOK
  <1> QED BY <1>6, <1>8 DEF Inv

\* get_free_header_range returns at least one block.
LEMMA FreeRangeNotEmpty ==
    ASSUME Inv, FreeRangeDone
    PROVE  f2 >= f1 /\ f1 >= 1 /\ f1 \in Int /\ f2 \in Int
  <1>1. /\ f1 \in Int /\ f2 \in Int /\ Len(list) \in Nat
        /\ f1 >= 1 /\ f1 <= Len(list) /\ f2 >= f1 - 1
        /\ type[list[f1]] = FREE
    BY DEF FreeRangeDone, Inv, TypeOK, RangesOK
  <1>2. ~(f2 < Len(list) /\ type[list[f2 + 1]] = FREE)
    BY DEF FreeRangeDone, FreeFollows, TypeAt
  <1>3. f2 # f1 - 1
    <2>1. ASSUME f2 = f1 - 1 PROVE FALSE
      <3>1. f2 + 1 = f1
        BY <1>1, <2>1
      <3> QED BY <1>1, <1>2, <3>1
    <2> QED BY <2>1
  <1> QED BY <1>1, <1>3

LEMMA NothingToMoveInv ==
    ASSUME Inv, NothingToMove \/ NextFreeRange
    PROVE  Inv'
  <1>1. f2 >= f1 /\ f1 >= 1 /\ f1 \in Int /\ f2 \in Int /\ TypeOK
    BY FreeRangeNotEmpty DEF NothingToMove, NextFreeRange, Inv
  <1>2. CASE NothingToMove
    <2>1. /\ UNCHANGED <<heapVars, maxtime, root, cur, fault>>
          /\ pc' = "finish" /\ NoRange
      BY <1>2 DEF NothingToMove
    <2>2. TypeOK'
      BY <1>1, <2>1, LocalTypes, LocalsType DEF NoRange
    <2> QED BY <2>1, <2>2 DEF Inv, RangesOK, NoRange
  <1>3. CASE NextFreeRange
    <2>1. /\ UNCHANGED <<heapVars, maxtime, cur, fault>>
          /\ pc' = "pass" /\ root' = f2 + 1 /\ NoRange
      BY <1>3 DEF NextFreeRange, RetryRoot
    <2>2. TypeOK'
      BY <1>1, <2>1, LocalTypes, LocalsType DEF NoRange
    <2> QED BY <1>1, <2>1, <2>2 DEF Inv, RangesOK, NoRange
  <1> QED BY <1>2, <1>3

\* get_unlocked_header_range finds an unlocked block behind the free range
\* that fits in it, or lies next to it.
LEMMA UnlockedBeginsInv ==
    ASSUME Inv, UnlockedBegins
    PROVE  Inv'
  <1>1. /\ UNCHANGED <<heapVars, maxtime, root, f1, f2, free_size,
                       unlocked_size, used_offset, cur, fault>>
        /\ FreeRangeDone /\ pc' = "unlocked"
    BY DEF UnlockedBegins
  <1>2. PICK i \in Movable : u1' = i /\ u2' = i - 1
    BY DEF UnlockedBegins
  <1>3. f2 >= f1 /\ f1 >= 1 /\ f1 \in Int /\ f2 \in Int /\ TypeOK
    BY <1>1, FreeRangeNotEmpty DEF Inv
  <1>4. i \in (f2 + 1)..Len(list) /\ SearchEnds(i) /\ TypeAt(i) = UNLOCKED
    BY <1>2 DEF Movable, AfterFree
  <1>5. Fits(i, 0)
    BY <1>4 DEF SearchEnds, UNLOCKED, FREE
  <1>6. i \in Int /\ i > f2 /\ i <= Len(list)
    BY <1>3, <1>4, ListType
  <1>7. TypeOK'
    BY <1>1, <1>2, <1>3, <1>6, LocalTypes, LocalsType
  <1>8. list' = list /\ type' = type /\ size' = size
    BY <1>1 DEF heapVars, headerVars
  <1>9. pc = "free"
    BY <1>1 DEF FreeRangeDone
  <1>10. /\ unlocked_size' = 0
         /\ f1' >= 1 /\ f1' <= Len(list') /\ type'[list'[f1']] = FREE
         /\ f2' >= f1' - 1 /\ f2' >= f1' /\ f2' <= Len(list')
         /\ \A j \in f1'..f2' : type'[list'[j]] = FREE
    BY <1>1, <1>3, <1>8, <1>9 DEF Inv, RangesOK
  <1>11. u1' > f2' /\ u1' <= Len(list') /\ u2' >= u1' - 1 /\ u2' <= Len(list')
    BY <1>1, <1>2, <1>3, <1>6, <1>8, ListType
  <1>12. type'[list'[u1']] = UNLOCKED /\ Fits(u1, 0)'
    BY <1>1, <1>2, <1>4, <1>5, <1>8 DEF TypeAt, Fits, Adjacent
  <1>13. \A j \in u1'..u2' : type'[list'[j]] = UNLOCKED
    <2>1. \A j \in i..(i - 1) : FALSE
      BY <1>6
    <2> QED BY <1>2, <2>1
  <1>14. RangesOK'
    BY <1>1, <1>10, <1>11, <1>12, <1>13 DEF RangesOK
  <1> QED BY <1>7, <1>14 DEF Inv

LEMMA UnlockedRangeInv ==
    ASSUME Inv, UnlockedRange
    PROVE  Inv'
  <1>1. /\ UNCHANGED <<heapVars, pc, maxtime, root, f1, f2, free_size, u1,
                       used_offset, cur, fault>>
        /\ pc = "unlocked" /\ u2' = u2 + 1 /\ u2 < Len(list)
        /\ type[list[u2 + 1]] = UNLOCKED
        /\ unlocked_size' = unlocked_size + size[list[u2 + 1]]
    BY DEF UnlockedRange, UnlockedFollows, TypeAt
  <1>2. TypeOK
    BY DEF Inv
  <1>3. /\ f1 >= 1 /\ f1 <= Len(list) /\ type[list[f1]] = FREE
        /\ f2 >= f1 /\ f2 <= Len(list)
        /\ u1 > f2 /\ u1 <= Len(list) /\ u2 >= u1 - 1
        /\ \A i \in u1..u2 : type[list[i]] = UNLOCKED
        /\ \A i \in f1..f2 : type[list[i]] = FREE
    BY <1>1 DEF Inv, RangesOK
  <1>4. /\ f1 \in Int /\ f2 \in Int /\ u1 \in Int /\ u2 \in Int
        /\ Len(list) \in Nat
    BY <1>2, LocalTypes, ListType
  <1>5. u2 + 1 \in 1..Len(list)
    BY <1>1, <1>3, <1>4
  <1>6. unlocked_size' \in Int
    BY <1>1, <1>2, <1>5, HeaderAt, LocalTypes
  <1>7. TypeOK'
    BY <1>1, <1>2, <1>4, <1>6, LocalTypes, LocalsType
  <1>8. list' = list /\ type' = type
    BY <1>1 DEF heapVars, headerVars
  <1>9. \A i \in u1..(u2 + 1) : type[list[i]] = UNLOCKED
    <2>1. \A i \in u1..(u2 + 1) : i \in u1..u2 \/ i = u2 + 1
      BY <1>4
    <2> QED BY <1>1, <1>3, <2>1
  <1>10. \A i \in u1'..u2' : type'[list'[i]] = UNLOCKED
    BY <1>1, <1>8, <1>9
  <1>11. /\ u2' # u1' - 1 /\ u2' >= u1' - 1 /\ u2' <= Len(list')
         /\ f1' >= 1 /\ f1' <= Len(list') /\ f2' >= f1' /\ f2' <= Len(list')
         /\ f2' >= f1' - 1 /\ u1' > f2' /\ u1' <= Len(list')
         /\ type'[list'[f1']] = FREE /\ \A i \in f1'..f2' : type'[list'[i]] = FREE
    BY <1>1, <1>3, <1>4, <1>8
  <1>12. RangesOK'
    BY <1>1, <1>10, <1>11 DEF RangesOK
  <1> QED BY <1>7, <1>12 DEF Inv

\* The unlocked range has at least one block.
LEMMA UnlockedRangeDoneInv ==
    ASSUME Inv, UnlockedRangeDone
    PROVE  Inv'
  <1>1. /\ UNCHANGED <<heapVars, maxtime, root, f1, f2, free_size, u1, u2,
                       unlocked_size, fault>>
        /\ pc = "unlocked" /\ pc' = "move" /\ cur' = u1
        /\ used_offset' = memory[list[u1]] - memory[list[f1]]
        /\ ~UnlockedFollows
    BY DEF UnlockedRangeDone, header_memory_offset
  <1>2. TypeOK
    BY DEF Inv
  <1>3. /\ f1 >= 1 /\ f1 <= Len(list) /\ type[list[f1]] = FREE
        /\ f2 >= f1 /\ f2 <= Len(list)
        /\ u1 > f2 /\ u1 <= Len(list) /\ u2 >= u1 - 1 /\ u2 <= Len(list)
        /\ \A i \in u1..u2 : type[list[i]] = UNLOCKED
        /\ \A i \in f1..f2 : type[list[i]] = FREE
        /\ u2 = u1 - 1 => /\ unlocked_size = 0 /\ type[list[u1]] = UNLOCKED
                          /\ Fits(u1, 0)
    BY <1>1 DEF Inv, RangesOK
  <1>4. /\ f1 \in Int /\ f2 \in Int /\ u1 \in Int /\ u2 \in Int
        /\ Len(list) \in Nat
    BY <1>2, LocalTypes, ListType
  <1>5. u2 >= u1
    <2>1. ASSUME u2 = u1 - 1 PROVE FALSE
      <3>1. u2 + 1 = u1 /\ u2 < Len(list)
        BY <1>3, <1>4, <2>1
      <3>2. TypeAt(u2 + 1) = UNLOCKED /\ Fits(u2 + 1, unlocked_size)
        BY <1>3, <2>1, <3>1 DEF TypeAt
      <3> QED BY <1>1, <3>1, <3>2 DEF UnlockedFollows
    <2> QED BY <1>3, <1>4, <2>1
  <1>6. u1 \in 1..Len(list) /\ f1 \in 1..Len(list)
    BY <1>3, <1>4
  <1>7. used_offset' \in Int
    BY <1>1, <1>2, <1>6, HeaderAt
  <1>8. TypeOK'
    BY <1>1, <1>2, <1>4, <1>7, LocalTypes, LocalsType
  <1>9. list' = list /\ type' = type
    BY <1>1 DEF heapVars, headerVars
  <1>10. RangesOK'
    BY <1>1, <1>3, <1>4, <1>5, <1>9 DEF RangesOK
  <1> QED BY <1>8, <1>10 DEF Inv

-----------------------------------------------------------------------------
(* rm_compact: moving the blocks and relinking the list *)

\* What the ranges are once both are chosen.
LEMMA RangesInMove ==
    ASSUME Inv, pc = "move"
    PROVE  /\ TypeOK
           /\ f1 \in Int /\ f2 \in Int /\ u1 \in Int /\ u2 \in Int
           /\ cur \in Int /\ Len(list) \in Nat
           /\ f1 >= 1 /\ f1 <= Len(list) /\ type[list[f1]] = FREE
           /\ f2 >= f1 /\ f2 <= Len(list)
           /\ \A i \in f1..f2 : type[list[i]] = FREE
           /\ u1 > f2 /\ u1 <= Len(list) /\ u2 >= u1 /\ u2 <= Len(list)
           /\ cur >= u1
           /\ \A i \in u1..u2 : type[list[i]] = UNLOCKED
  <1>1. TypeOK
    BY DEF Inv
  <1>2. /\ f1 \in Int /\ f2 \in Int /\ u1 \in Int /\ u2 \in Int
        /\ cur \in Int /\ Len(list) \in Nat
    BY <1>1, LocalTypes, ListType
  <1> QED BY <1>1, <1>2 DEF Inv, RangesOK

LEMMA MoveBlockInv ==
    ASSUME Inv, MoveBlock
    PROVE  Inv'
  <1> DEFINE h == list[cur]
             dest == memory[h] - used_offset
  <1>1. /\ UNCHANGED <<size, type, list, unused, header_bottom, memory_top,
                       slots, statVars, pc, maxtime, root, rangeVars, mallocs,
                       req, ptr, fault>>
        /\ pc = "move" /\ cur <= u2 /\ cur' = cur + 1
        /\ memory' = [memory EXCEPT ![h] = dest]
    BY DEF MoveBlock
  <1>2. /\ TypeOK /\ cur \in 1..Len(list) /\ cur \in Int
    BY <1>1, RangesInMove
  <1>3. h \in Headers /\ dest \in Int
    BY <1>2, HeaderAt, LocalTypes
  <1>4. memory \in [Headers -> Int]
    BY <1>2 DEF TypeOK
  <1>5. memory' \in [Headers -> Int]
    <2> HIDE DEF h, dest
    <2> QED BY <1>1, <1>3, <1>4
  <1>6. cur' \in Int
    BY <1>1, <1>2
  <1>7. TypeOK'
    BY <1>1, <1>2, <1>5, <1>6 DEF TypeOK, statVars, rangeVars
  <1>8. RangesOK'
    BY <1>1, <1>2, RangesInMove DEF RangesOK, rangeVars
  <1> QED BY <1>7, <1>8 DEF Inv

\* The parts a relinked list is made of.
LEMMA PartsType ==
    ASSUME Inv, pc = "move"
    PROVE  /\ Before \in Seq(Headers) /\ Between \in Seq(Headers)
           /\ Unlocked \in Seq(Headers) /\ After \in Seq(Headers)
           /\ list[f1] \in Headers /\ list[u1] \in Headers /\ list[u2] \in Headers
  <1>1. /\ TypeOK /\ f1 \in Int /\ f2 \in Int /\ u1 \in Int /\ u2 \in Int
        /\ Len(list) \in Nat
        /\ f1 >= 1 /\ f1 <= Len(list) /\ f2 >= f1 /\ f2 <= Len(list)
        /\ u1 > f2 /\ u1 <= Len(list) /\ u2 >= u1 /\ u2 <= Len(list)
    BY RangesInMove
  <1>2. list \in Seq(Headers)
    BY <1>1, ListType
  <1>3. Before \in Seq(Headers)
    <2>1. f1 - 1 \in Int /\ f1 - 1 <= Len(list)
      BY <1>1
    <2> QED BY <1>2, <2>1, SubSeqType DEF Before
  <1>4. Between \in Seq(Headers)
    <2>1. f2 + 1 \in Nat \ {0} /\ u1 - 1 \in Int /\ u1 - 1 <= Len(list)
      BY <1>1
    <2> QED BY <1>2, <2>1, SubSeqType DEF Between
  <1>5. Unlocked \in Seq(Headers)
    <2>1. u1 \in Nat \ {0} /\ u2 \in Int /\ u2 <= Len(list)
      BY <1>1
    <2> QED BY <1>2, <2>1, SubSeqType DEF Unlocked
  <1>6. After \in Seq(Headers)
    <2>1. u2 + 1 \in Nat \ {0} /\ Len(list) \in Int /\ Len(list) <= Len(list)
      BY <1>1
    <2> QED BY <1>2, <2>1, SubSeqType DEF After
  <1>7. f1 \in 1..Len(list) /\ u1 \in 1..Len(list) /\ u2 \in 1..Len(list)
    BY <1>1
  <1>8. list[f1] \in Headers /\ list[u1] \in Headers /\ list[u2] \in Headers
    BY <1>1, <1>7, HeaderAt
  <1> QED BY <1>3, <1>4, <1>5, <1>6, <1>8

\* What the relinking steps have in common.
LEMMA NextPassInv ==
    ASSUME Inv, pc = "move", NextPass, Recycle, UNCHANGED fault,
           memory' \in [Headers -> Int], size' \in [Headers -> Int],
           type' \in [Headers -> BlockTypes], header_bottom' \in Headers,
           list' \in Seq(Headers), list' # <<>>
    PROVE  Inv'
  <1>1. /\ TypeOK /\ f1 \in Int /\ u1 \in Int /\ u2 \in Int
        /\ f1 >= 1 /\ u2 >= u1 /\ list[u2] \in Headers
    BY RangesInMove, PartsType
  <1>2. unused' \in Seq(Headers)
    BY DEF Recycle, SetUnused
  <1>3. root' \in Int /\ root' >= 1
    BY <1>1 DEF NextPass
  <1>4. /\ highest_address_header' \in Headers /\ cur' \in Int /\ pc' = "pass"
        /\ UNCHANGED <<header_used_count, memory_top, slots, maxtime, clientVars>>
    BY <1>1 DEF NextPass
  <1>5. /\ f1' = 0 /\ f2' = 0 /\ free_size' = 0 /\ u1' = 0 /\ u2' = 0
        /\ unlocked_size' = 0 /\ used_offset' = 0
    BY DEF NextPass, NoRange
  <1>6. TypeOK'
    <2>1. /\ f1' \in Int /\ f2' \in Int /\ free_size' \in Int /\ u1' \in Int
          /\ u2' \in Int /\ unlocked_size' \in Int /\ used_offset' \in Int
      BY <1>5
    <2>2. pc' \in {"idle", "pass", "free", "unlocked", "move", "finish", "rebuild"}
      BY <1>4
    <2>3. /\ header_used_count' \in Int /\ memory_top' \in Nat
          /\ slots' \in [Slots -> Seq(Headers)] /\ maxtime' \in {0, 1}
          /\ mallocs' \in Nat /\ req' \in [Headers -> Nat]
          /\ ptr' \in [Headers -> Int] /\ fault' \in Faults
      BY <1>1, <1>4 DEF TypeOK, clientVars
    <2> QED BY <1>2, <1>3, <1>4, <2>1, <2>2, <2>3 DEF TypeOK
  <1>7. RangesOK'
    BY <1>3, <1>4, <1>5 DEF RangesOK
  <1> QED BY <1>6, <1>7 DEF Inv

LEMMA RelinkAdjacentInv ==
    ASSUME Inv, RelinkAdjacent
    PROVE  Inv'
  <1> DEFINE f == list[f1]
  <1>1. /\ pc = "move" /\ Recycle /\ NextPass
        /\ memory' = [memory EXCEPT ![f] = memory[f] + unlocked_size]
        /\ size' = [size EXCEPT ![f] = free_size]
        /\ list' = Before \o Unlocked \o <<f>> \o After
        /\ UNCHANGED <<type, header_bottom, fault>>
    BY DEF RelinkAdjacent, MoveDone
  <1>2. /\ Before \in Seq(Headers) /\ Unlocked \in Seq(Headers)
        /\ After \in Seq(Headers) /\ f \in Headers /\ TypeOK
    BY <1>1, PartsType DEF Inv
  <1>3. /\ memory \in [Headers -> Int] /\ size \in [Headers -> Int]
        /\ type \in [Headers -> BlockTypes] /\ header_bottom \in Headers
        /\ unlocked_size \in Int /\ free_size \in Int
    BY <1>2 DEF TypeOK
  <1> HIDE DEF f
  <1>4. memory[f] + unlocked_size \in Int
    BY <1>2, <1>3
  <1>5. memory' \in [Headers -> Int] /\ size' \in [Headers -> Int]
    BY <1>1, <1>2, <1>3, <1>4
  <1>6. list' \in Seq(Headers) /\ list' # <<>>
    BY <1>1, <1>2
  <1> QED BY <1>1, <1>3, <1>5, <1>6, NextPassInv

LEMMA RelinkExtendInv ==
    ASSUME Inv, RelinkExtend
    PROVE  Inv'
  <1> DEFINE f == list[f1]
             g == list[u2]
             old == memory[list[u1]] + used_offset
             rest == free_size - unlocked_size
  <1>1. /\ pc = "move" /\ Recycle /\ NextPass
        /\ memory' = [memory EXCEPT ![f] = old]
        /\ size' = [size EXCEPT ![f] = unlocked_size, ![g] = @ + rest]
        /\ list' = Before \o Unlocked \o Between \o <<f>> \o After
        /\ UNCHANGED <<type, header_bottom, fault>>
    BY DEF RelinkExtend, MoveDone
  <1>2. /\ Before \in Seq(Headers) /\ Unlocked \in Seq(Headers)
        /\ Between \in Seq(Headers) /\ After \in Seq(Headers)
        /\ f \in Headers /\ g \in Headers /\ list[u1] \in Headers /\ TypeOK
    BY <1>1, PartsType DEF Inv
  <1>3. /\ memory \in [Headers -> Int] /\ size \in [Headers -> Int]
        /\ type \in [Headers -> BlockTypes] /\ header_bottom \in Headers
        /\ unlocked_size \in Int /\ free_size \in Int /\ used_offset \in Int
    BY <1>2 DEF TypeOK
  <1>4. old \in Int /\ rest \in Int
    BY <1>2, <1>3
  <1> HIDE DEF f, g, old, rest
  <1>5. memory' \in [Headers -> Int]
    BY <1>1, <1>2, <1>3, <1>4
  <1>6. size' \in [Headers -> Int]
    BY <1>1, <1>2, <1>3, <1>4, SMTT(30)
  <1>7. list' \in Seq(Headers) /\ list' # <<>>
    BY <1>1, <1>2
  <1> QED BY <1>1, <1>3, <1>5, <1>6, <1>7, NextPassInv

LEMMA RelinkSpareInv ==
    ASSUME Inv, RelinkSpare
    PROVE  Inv'
  <1> DEFINE f == list[f1]
             spare == header_bottom + 1
             old == memory[list[u1]] + used_offset
             top == memory[list[u1]] + unlocked_size
             rest == free_size - unlocked_size
  <1>1. /\ pc = "move" /\ Recycle /\ NextPass /\ HeaderRoom
        /\ header_bottom' = spare
        /\ memory' = [memory EXCEPT ![f] = old, ![spare] = top]
        /\ size' = [size EXCEPT ![f] = unlocked_size, ![spare] = rest]
        /\ type' = [type EXCEPT ![spare] = FREE]
        /\ list' = Before \o Unlocked \o <<spare>> \o Between \o <<f>> \o After
        /\ UNCHANGED fault
    BY DEF RelinkSpare, MoveDone
  <1>2. /\ Before \in Seq(Headers) /\ Unlocked \in Seq(Headers)
        /\ Between \in Seq(Headers) /\ After \in Seq(Headers)
        /\ f \in Headers /\ list[u1] \in Headers /\ TypeOK
    BY <1>1, PartsType DEF Inv
  <1>3. /\ memory \in [Headers -> Int] /\ size \in [Headers -> Int]
        /\ type \in [Headers -> BlockTypes] /\ header_bottom \in Headers
        /\ unlocked_size \in Int /\ free_size \in Int /\ used_offset \in Int
        /\ memory_top \in Nat
    BY <1>2 DEF TypeOK
  <1>4. old \in Int /\ top \in Int /\ rest \in Int
    BY <1>2, <1>3
  <1>5. spare \in Headers
    <2>1. HeaderAddr(header_bottom + 2) > 0 /\ header_bottom \in Nat
      BY <1>1, <1>3, SizesAssumption DEF HeaderRoom, HeaderAddr, Headers
    <2> QED BY <2>1, HeaderFits
  <1> HIDE DEF f, spare, old, top, rest
  <1>6. memory' \in [Headers -> Int]
    BY <1>1, <1>2, <1>3, <1>4, <1>5
  <1>7. size' \in [Headers -> Int]
    BY <1>1, <1>2, <1>3, <1>4, <1>5
  <1>8. type' \in [Headers -> BlockTypes]
    <2>1. FREE \in BlockTypes
      BY DEF BlockTypes
    <2> QED BY <1>1, <1>3, <1>5, <2>1
  <1>9. list' \in Seq(Headers) /\ list' # <<>>
    BY <1>1, <1>2, <1>5
  <1>10. header_bottom' \in Headers
    BY <1>1, <1>5
  <1> QED BY <1>1, <1>6, <1>7, <1>8, <1>9, <1>10, NextPassInv

-----------------------------------------------------------------------------
(* The end of rm_compact *)

\* The header that is pruned is one of the list.
LEMMA PrunedType ==
    ASSUME TypeOK, NEW highest
    PROVE  Pruned(highest) \subseteq Headers
  <1>1. \A i \in DOMAIN list : list[i] \in Headers
    BY ListType
  <1> QED BY <1>1 DEF Pruned

LEMMA FinishInv ==
    ASSUME Inv, Finish
    PROVE  Inv'
  <1>1. PICK highest \in memory_bottom..HeapSize, n \in DOMAIN list :
          /\ memory' = Cleared(memory, highest, NULL)
          /\ size' = Cleared(size, highest, 0)
          /\ unused' = IF Pruned(highest) = {} THEN unused
                       ELSE SetUnused(CHOOSE h \in Pruned(highest) : TRUE)
          /\ list' = SubSeq(list, 1, n)
          /\ memory_top' = highest
          /\ \E b \in 0..header_bottom : header_bottom' = b
    BY DEF Finish
  <1>2. /\ slots' = EmptySlots /\ pc = "finish" /\ pc' = "rebuild" /\ cur' = 1
        /\ UNCHANGED <<type, statVars, maxtime, root, rangeVars, clientVars, fault>>
    BY DEF Finish
  <1>3. /\ TypeOK /\ unlocked_size = 0
    BY <1>2 DEF Inv, RangesOK
  <1>4. /\ memory \in [Headers -> Int] /\ size \in [Headers -> Int]
        /\ unused \in Seq(Headers) /\ header_bottom \in Headers
    BY <1>3 DEF TypeOK
  <1>5. memory' \in [Headers -> Int] /\ size' \in [Headers -> Int]
    <2>1. memory' \in [Headers -> Int]
      BY <1>1, <1>4 DEF Cleared, NULL
    <2>2. size' \in [Headers -> Int]
      BY <1>1, <1>4 DEF Cleared
    <2> QED BY <2>1, <2>2
  <1>6. unused' \in Seq(Headers)
    <2>1. CASE Pruned(highest) = {}
      BY <1>1, <1>4, <2>1
    <2>2. CASE Pruned(highest) # {}
      <3>1. (CHOOSE h \in Pruned(highest) : TRUE) \in Headers
        BY <1>3, <2>2, PrunedType
      <3> QED BY <1>1, <2>2, <3>1 DEF SetUnused
    <2> QED BY <2>1, <2>2
  <1>7. list' \in Seq(Headers) /\ list' # <<>>
    <2>1. /\ list \in Seq(Headers) /\ n \in Nat \ {0} /\ n <= Len(list)
      BY <1>3, ListType
    <2> QED BY <1>1, <2>1
  <1>8. memory_top' \in Nat
    BY <1>1, SlotCount, SizesAssumption
  <1>9. header_bottom' \in Headers
    BY <1>1, <1>4, MaxHeaderAssumption DEF Headers
  <1>10. slots' \in [Slots -> Seq(Headers)]
    BY <1>2 DEF EmptySlots
  <1>11. TypeOK'
    <2>1. pc' \in {"idle", "pass", "free", "unlocked", "move", "finish", "rebuild"}
      BY <1>2
    <2>2. cur' \in Int
      BY <1>2
    <2>3. UNCHANGED <<type, statVars, maxtime, root, rangeVars, clientVars, fault>>
      BY <1>2
    <2> QED BY <1>3, <1>5, <1>6, <1>7, <1>8, <1>9, <1>10, <2>1, <2>2, <2>3
        DEF TypeOK, statVars, rangeVars, clientVars
  <1>12. RangesOK'
    BY <1>2, <1>3 DEF RangesOK, rangeVars
  <1> QED BY <1>11, <1>12 DEF Inv

LEMMA FaultInv ==
    ASSUME Inv, RelinkFault \/ FinishFault
    PROVE  Inv'
  <1>1. UNCHANGED <<heapVars, compactVars>> /\ fault' \in Faults
    BY DEF RelinkFault, FinishFault, Faults
  <1>2. TypeOK
    BY DEF Inv
  <1>3. pc \in {"idle", "pass", "free", "unlocked", "move", "finish", "rebuild"}
    BY <1>2 DEF TypeOK
  <1>4. TypeOK'
    BY <1>1, <1>2, <1>3, LocalTypes, LocalsType DEF compactVars, rangeVars
  <1>5. RangesOK'
    BY <1>1 DEF Inv, RangesOK, Fits, Adjacent, TypeAt, heapVars, headerVars,
       compactVars, rangeVars
  <1> QED BY <1>4, <1>5 DEF Inv

LEMMA RebuildInv ==
    ASSUME Inv, Rebuild
    PROVE  Inv'
  <1>1. /\ UNCHANGED <<headerVars, memory_top, statVars, pc, maxtime, root,
                       rangeVars, mallocs, req, ptr, fault>>
        /\ pc = "rebuild" /\ cur <= Len(list) /\ cur' = cur + 1
    BY DEF Rebuild
  <1>2. /\ TypeOK /\ unlocked_size = 0 /\ cur >= 1
    BY <1>1 DEF Inv, RangesOK
  <1>3. cur \in 1..Len(list) /\ cur' \in Int /\ cur' >= 1
    BY <1>1, <1>2, LocalTypes, ListType
  <1>4. slots' = slots \/ \E k \in Slots : slots' = Push(slots, k, list[cur])
    BY DEF Rebuild
  <1>5. slots' \in [Slots -> Seq(Headers)]
    <2>1. slots \in [Slots -> Seq(Headers)]
      BY <1>2 DEF TypeOK
    <2>2. list[cur] \in Headers
      BY <1>2, <1>3, HeaderAt
    <2> QED BY <1>4, <2>1, <2>2, PushType
  <1>6. TypeOK'
    BY <1>1, <1>2, <1>3, <1>5 DEF TypeOK, headerVars, statVars, rangeVars
  <1>7. RangesOK'
    BY <1>1, <1>2, <1>3 DEF RangesOK, rangeVars
  <1> QED BY <1>6, <1>7 DEF Inv

LEMMA CompactReturnsInv ==
    ASSUME Inv, CompactReturns
    PROVE  Inv'
  <1>1. /\ UNCHANGED <<heapVars, rangeVars, fault>>
        /\ pc = "rebuild" /\ pc' = "idle" /\ cur' = 0 /\ root' = 0 /\ maxtime' = 0
    BY DEF CompactReturns
  <1>2. TypeOK /\ unlocked_size = 0
    BY <1>1 DEF Inv, RangesOK
  <1>3. TypeOK'
    BY <1>1, <1>2, LocalTypes, LocalsType DEF rangeVars
  <1>4. RangesOK'
    BY <1>1, <1>2 DEF RangesOK, rangeVars
  <1> QED BY <1>3, <1>4 DEF Inv

-----------------------------------------------------------------------------
(* The theorems *)

LEMMA NextInv == Inv /\ [Next]_vars => Inv'
  <1> SUFFICES ASSUME Inv, [Next]_vars PROVE Inv'
    OBVIOUS
  <1>1. CASE UNCHANGED vars
    BY <1>1 DEF Inv, TypeOK, RangesOK, Fits, Adjacent, TypeAt, vars,
       headerVars, statVars, compactVars, rangeVars, clientVars
  <1>2. CASE Next
    <2>1. ASSUME NEW n \in Sizes,
                 \/ MallocTop(n) \/ MallocFreeBlock(n) \/ MallocLosesBlock(n)
                 \/ MallocFails(n) \/ MallocFault(n)
          PROVE  Inv'
      BY <2>1, MallocTopInv, MallocFreeBlockInv, MallocNullInv
    <2>2. ASSUME NEW h \in Headers,
                 rm_free(h) \/ rm_lock(h) \/ rm_weaklock(h) \/ rm_unlock(h)
          PROVE  Inv'
      BY <2>2, FreeInv, LockInv
    <2>3. ASSUME NEW limit \in {0, 1}, rm_compact(limit)
          PROVE  Inv'
      BY <2>3, CompactInv
    <2>4. CASE CompactStep
      BY <2>4, PassInv, FreeRangeInv, NothingToMoveInv, UnlockedBeginsInv,
         UnlockedRangeInv, UnlockedRangeDoneInv, MoveBlockInv,
         RelinkAdjacentInv, RelinkSpareInv, RelinkExtendInv, FaultInv,
         FinishInv, RebuildInv, CompactReturnsInv DEF CompactStep
    <2> QED BY <1>2, <2>1, <2>2, <2>3, <2>4 DEF Next
  <1> QED BY <1>1, <1>2

\* For every heap size and every sequence of calls, the lists hold headers
\* only, every position rm_compact follows is a position of the list, and
\* header_bottom is a header: up to the first fault no call leaves the
\* header area.
THEOREM TypeCorrect == Spec => []TypeOK
  <1>1. Init => Inv
    BY InitInv
  <1>2. Inv /\ [Next]_vars => Inv'
    BY NextInv
  <1>3. Inv => TypeOK
    BY DEF Inv
  <1> QED BY <1>1, <1>2, <1>3, PTL DEF Spec

\* What a step of rm_compact may not change.
Kept(h) == memory'[h] = memory[h] /\ size'[h] = size[h] /\ type'[h] = type[h]

\* The blocks rm_compact moves, resizes, relabels or clears are unlocked or
\* free, or their header is not in the list yet.
LEMMA StepKeepsLocked ==
    ASSUME Inv, CompactStep, NEW h \in ToSet(list),
           type[h] \in {LOCKED, WEAK_LOCKED}
    PROVE  Kept(h)
  <1>1. TypeOK /\ type[h] # FREE /\ type[h] # UNLOCKED
    BY DEF Inv, LOCKED, WEAK_LOCKED, FREE, UNLOCKED
  <1>2. /\ memory \in [Headers -> Int] /\ size \in [Headers -> Int]
        /\ type \in [Headers -> BlockTypes]
    BY <1>1 DEF TypeOK
  <1>3. h \in Headers
    BY <1>1, ListType DEF ToSet
  <1>4. ASSUME UNCHANGED <<memory, size, type>> PROVE Kept(h)
    BY <1>4 DEF Kept
  <1>5. CASE \/ PassEnds \/ PassBegins \/ FreeRange \/ NothingToMove
             \/ NextFreeRange \/ UnlockedBegins \/ UnlockedRange
             \/ UnlockedRangeDone \/ RelinkFault \/ FinishFault
             \/ CompactReturns \/ Rebuild
    <2>1. UNCHANGED <<memory, size, type>>
      BY <1>5 DEF PassEnds, PassBegins, FreeRange, NothingToMove,
         NextFreeRange, UnlockedBegins, UnlockedRange, UnlockedRangeDone,
         RelinkFault, FinishFault, CompactReturns, Rebuild, heapVars, headerVars
    <2> QED BY <1>4, <2>1
  <1>6. ASSUME pc = "move"
        PROVE  h # list[f1] /\ h # list[u2] /\ \A i \in u1..u2 : h # list[i]
    <2>1. /\ type[list[f1]] = FREE /\ u1 \in Int /\ u2 \in Int /\ u2 >= u1
          /\ \A i \in u1..u2 : type[list[i]] = UNLOCKED
      BY <1>6, RangesInMove
    <2> QED BY <1>1, <2>1
  <1>7. CASE MoveBlock
    <2>1. /\ memory' = [memory EXCEPT ![list[cur]] = memory[list[cur]] - used_offset]
          /\ UNCHANGED <<size, type>> /\ pc = "move" /\ cur <= u2
      BY <1>7 DEF MoveBlock
    <2>2. cur \in u1..u2
      BY <2>1, RangesInMove
    <2>3. h # list[cur]
      BY <1>6, <2>1, <2>2
    <2> QED BY <1>2, <1>3, <2>1, <2>3 DEF Kept
  <1>8. CASE RelinkAdjacent
    <2>1. /\ memory' = [memory EXCEPT ![list[f1]] = memory[list[f1]] + unlocked_size]
          /\ size' = [size EXCEPT ![list[f1]] = free_size]
          /\ UNCHANGED type /\ pc = "move"
      BY <1>8 DEF RelinkAdjacent, MoveDone
    <2> QED BY <1>2, <1>3, <1>6, <2>1 DEF Kept
  <1>9. CASE RelinkExtend
    <2>1. /\ memory' = [memory EXCEPT ![list[f1]] = memory[list[u1]] + used_offset]
          /\ size' = [size EXCEPT ![list[f1]] = unlocked_size,
                                  ![list[u2]] = @ + (free_size - unlocked_size)]
          /\ UNCHANGED type /\ pc = "move"
      BY <1>9 DEF RelinkExtend, MoveDone
    <2> QED BY <1>2, <1>3, <1>6, <2>1 DEF Kept
  <1>10. CASE RelinkSpare
    <2> DEFINE spare == header_bottom + 1
    <2>1. /\ memory' = [memory EXCEPT ![list[f1]] = memory[list[u1]] + used_offset,
                                      ![spare] = memory[list[u1]] + unlocked_size]
          /\ size' = [size EXCEPT ![list[f1]] = unlocked_size,
                                  ![spare] = free_size - unlocked_size]
          /\ type' = [type EXCEPT ![spare] = FREE]
          /\ pc = "move" /\ ~SpareAliased
      BY <1>10 DEF RelinkSpare, MoveDone
    <2>2. h # spare
      <3>1. PICK i \in DOMAIN list : h = list[i]
        BY DEF ToSet
      <3>2. /\ \A j \in f1..f2 : type[list[j]] = FREE
            /\ f1 \in Int /\ f2 \in Int
        BY <2>1, RangesInMove
      <3>3. i \notin (f1 + 1)..f2
        BY <1>1, <3>1, <3>2
      <3> QED BY <2>1, <3>1, <3>3 DEF SpareAliased
    <2> HIDE DEF spare
    <2> QED BY <1>2, <1>3, <1>6, <2>1, <2>2 DEF Kept
  <1>11. CASE Finish
    <2>1. PICK highest :
              /\ memory' = Cleared(memory, highest, NULL)
              /\ size' = Cleared(size, highest, 0)
      BY <1>11 DEF Finish
    <2>2. h \notin Pruned(highest)
      BY <1>1 DEF Pruned, TypeAt
    <2>3. UNCHANGED type
      BY <1>11 DEF Finish
    <2> QED BY <1>3, <2>1, <2>2, <2>3 DEF Cleared, Kept
  <1> QED BY <1>5, <1>7, <1>8, <1>9, <1>10, <1>11 DEF CompactStep

\* For every heap, every set of locks and every time limit: while rm_compact
\* runs, a locked or weakly locked block keeps its address, its size and its
\* lock in every single step, so a pointer from rm_lock is never stale.
THEOREM LockedStay == Spec => CompactKeepsLocked
  <1>1. ASSUME Inv, [Next]_vars, pc # "idle", NEW h \in ToSet(list),
               type[h] \in {LOCKED, WEAK_LOCKED}
        PROVE  memory'[h] = memory[h] /\ size'[h] = size[h] /\ type'[h] = type[h]
    <2>1. CASE UNCHANGED vars
      BY <2>1 DEF vars, headerVars
    <2>2. CASE Next
      <3>1. \A n \in Sizes : ~\/ MallocTop(n) \/ MallocFreeBlock(n)
                              \/ MallocLosesBlock(n) \/ MallocFails(n)
                              \/ MallocFault(n)
        <4>1. \A n \in Sizes : ~MallocTop(n) /\ ~MallocFails(n) /\ ~MallocFault(n)
          BY <1>1 DEF MallocTop, MallocFails, MallocFault, Running
        <4>2. \A n \in Sizes : ~MallocFreeBlock(n)
          BY <1>1, ZenonT(60) DEF MallocFreeBlock, SplitFreeBlock, Running
        <4>3. \A n \in Sizes : ~MallocLosesBlock(n)
          BY <1>1 DEF MallocLosesBlock, Running
        <4> QED BY <4>1, <4>2, <4>3
      <3>2. \A g \in Headers : ~\/ rm_free(g) \/ rm_lock(g) \/ rm_weaklock(g)
                                \/ rm_unlock(g)
        BY <1>1 DEF rm_free, rm_lock, rm_weaklock, rm_unlock, SetLock, Running
      <3>3. \A limit \in {0, 1} : ~rm_compact(limit)
        BY <1>1 DEF rm_compact, Running
      <3>4. CompactStep
        BY <2>2, <3>1, <3>2, <3>3 DEF Next
      <3> QED BY <1>1, <3>4, StepKeepsLocked DEF Kept
    <2> QED BY <1>1, <2>1, <2>2
  <1>2. Inv /\ [Next]_vars =>
            [pc # "idle" =>
                \A h \in ToSet(list) : type[h] \in {LOCKED, WEAK_LOCKED} =>
                    /\ memory'[h] = memory[h] /\ size'[h] = size[h]
                    /\ type'[h] = type[h]]_vars
    BY <1>1
  <1>3. Init => Inv
    BY InitInv
  <1>4. Inv /\ [Next]_vars => Inv'
    BY NextInv
  <1> QED BY <1>2, <1>3, <1>4, PTL DEF Spec, CompactKeepsLocked

=============================================================================
