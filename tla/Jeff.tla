-------------------------------- MODULE Jeff --------------------------------
(***************************************************************************)
(* The compacting allocator "jeff" (src/jeff/compact.c).                   *)
(*                                                                         *)
(* The heap is one array of HeapSize bytes: the free-block slots at the    *)
(* bottom, the blocks above them growing up to memory_top, and the headers *)
(* growing down from the top of the heap to header_bottom.  A handle is    *)
(* the address of a header.  The client program calls rm_malloc, rm_free,  *)
(* rm_lock, rm_weaklock, rm_unlock and rm_compact one after the other;     *)
(* rm_compact is modelled one loop iteration at a time.                    *)
(*                                                                         *)
(* Addresses are offsets from the start of the heap, so 0 (a slot) is      *)
(* never the address of a block and stands for NULL.  Headers are numbered *)
(* downwards from header_top, which is 0.  The chain header_root, next,    *)
(* next->next ... is the sequence "list", the chain of unused headers the  *)
(* sequence "unused", the chain of slot k the sequence slots[k].           *)
(*                                                                         *)
(* When the code leaves the heap, follows a NULL pointer, hands out a      *)
(* header that is in use, or puts a block over one, the variable "fault"   *)
(* says so and nothing happens any more: what follows in C is undefined.   *)
(***************************************************************************)
EXTENDS Integers, FiniteSets, SequencesExt

CONSTANTS
    HeapSize,        \* the size given to rm_init
    HeaderSize,      \* sizeof(rm_header_t)
    FreeBlockSize,   \* sizeof(free_memory_block_t)
    PtrSize,         \* sizeof(free_memory_block_t *)
    MaxHeader,       \* number of the lowest header that fits in the heap
    Sizes,           \* the sizes the client asks for
    MaxMallocs,      \* bound: how often rm_malloc returns a block
    Calls            \* what it calls besides rm_malloc and rm_free

ASSUME SizesAssumption ==
    /\ HeapSize \in Nat \ {0} /\ HeaderSize \in Nat \ {0}
    /\ FreeBlockSize \in Nat \ {0} /\ PtrSize \in Nat \ {0}
    /\ Sizes \subseteq Nat \ {0}
    /\ MaxMallocs \in Nat
    /\ Calls \subseteq {"lock", "weaklock", "compact"}

\* rm_init takes the size as a uint32_t.
ASSUME HeapSizeAssumption ==
    \E k \in 0..31 : 2^k <= HeapSize /\ HeapSize < 2^(k + 1)

ASSUME MaxHeaderAssumption ==
    /\ MaxHeader \in Nat \ {0}
    /\ (MaxHeader + 1) * HeaderSize >= HeapSize

NULL == 0                       \* no memory; also: no position in a list
NoHeader == MaxHeader + 1       \* a NULL rm_header_t pointer
Headers == 0..MaxHeader
Junk == <<NoHeader, 0>>         \* a byte that is no part of a live block

FREE == "free"
UNLOCKED == "unlocked"
LOCKED == "locked"
WEAK_LOCKED == "weak_locked"
BlockTypes == {FREE, UNLOCKED, LOCKED, WEAK_LOCKED}

Faults == {"none", "alias", "overlap", "null", "overrun", "bounds"}

\* floor(log2(n)), 32 - 1 - clz(n)
rm_log2(n) == CHOOSE k \in 0..31 : 2^k <= n /\ n < 2^(k + 1)

free_block_slot_count == rm_log2(HeapSize) + 1
Slots == 0..(free_block_slot_count - 1)
memory_bottom == free_block_slot_count * PtrSize

\* Address of header i: header_top is header 0, header_top - 1 is header 1.
HeaderAddr(i) == HeapSize - (i + 1) * HeaderSize

VARIABLES
    (* rmalloc_meta_t and the headers in the heap *)
    memory, size, type,        \* the fields of every header
    list,                      \* header_root and the next pointers
    unused,                    \* unused_header_root and next_unused
    header_bottom,             \* number of the lowest header handed out
    memory_top,                \* first byte above the blocks
    slots,                     \* free_block_slots
    header_used_count,
    highest_address_header,
    (* the locals of rm_compact; positions are positions in "list" *)
    pc,                        \* where rm_compact is, "idle" outside it
    maxtime,                   \* 0: no time limit, 1: some time limit
    root,                      \* position of root
    f1, f2, free_size,         \* free_first, free_last
    u1, u2, unlocked_size,     \* unlocked_first, unlocked_last
    used_offset,
    cur,                       \* position of h in the loops over the list
    (* the client, and ghost state *)
    mallocs,                   \* how often rm_malloc has returned a block
    req,                       \* bytes asked for, 0 for a handle not held
    ptr,                       \* pointer returned by the last lock, or NULL
    cells,                     \* <<h, i>>: this is byte i of handle h's block
    fault

headerVars == <<memory, size, type, list, unused, header_bottom>>
statVars == <<header_used_count, highest_address_header>>
rangeVars == <<f1, f2, free_size, u1, u2, unlocked_size, used_offset>>
compactVars == <<pc, maxtime, root, rangeVars, cur>>
clientVars == <<mallocs, req, ptr, cells>>
vars == <<headerVars, memory_top, slots, statVars, compactVars, clientVars,
          fault>>

-----------------------------------------------------------------------------
(* Helpers *)

Running == pc = "idle" /\ fault = "none"
Held == {h \in Headers : req[h] > 0}
Bytes(a, n) == a..(a + n - 1)
End(h) == memory[h] + size[h]
rm_header_is_unused(h) == memory[h] = NULL

\* Bytes of the free_memory_block_t at the end of a free block.
rm_block_from_header(a, n) == Bytes(a + n - FreeBlockSize, FreeBlockSize)

\* The contents of the heap after the bytes in S have been overwritten.
Overwrite(S) == [a \in DOMAIN cells |-> IF a \in S THEN Junk ELSE cells[a]]

\* Push h on slot k.
Push(s, k, h) == [s EXCEPT ![k] = Cons(h, @)]

-----------------------------------------------------------------------------
(* Finding a header *)

\* Mutant: no reserve, and the header may reach into the blocks.
HeaderRoomNoReserve == HeaderAddr(header_bottom) > memory_top

\* There is room below header_bottom, minus the reserve for compaction.
HeaderRoom == HeaderAddr(header_bottom + 2) > memory_top

\* The header rm_header_find_free returns.
rm_header_find_free ==
    IF unused # <<>> THEN Head(unused)
    ELSE IF HeaderRoom THEN header_bottom + 1
    ELSE NoHeader

\* Mutant: header_bottom goes up instead of down.
TakeHeaderUpwards ==
    IF unused # <<>>
    THEN unused' = Tail(unused) /\ UNCHANGED header_bottom
    ELSE header_bottom' = header_bottom - 1 /\ UNCHANGED unused

\* Mutant: header_bottom stays where it is.
TakeHeaderTwice ==
    unused' = (IF unused # <<>> THEN Tail(unused) ELSE unused)
        /\ UNCHANGED header_bottom

\* ... and what it does to the unused chain and to header_bottom.
TakeHeader ==
    IF unused # <<>>
    THEN unused' = Tail(unused) /\ UNCHANGED header_bottom
    ELSE header_bottom' = header_bottom + 1 /\ UNCHANGED unused

\* header_bottom moves onto a header that is still in the list.  The code
\* clears it, next pointer included: a handle in use is handed out again and
\* the list is cut, or made circular.
Aliased == unused = <<>> /\ header_bottom + 1 \in ToSet(list)

\* Mutant: the new header_root does not point to the old one.
InsertedAlone(h) == IF h = Head(list) THEN list ELSE <<h>>

\* header_new(true): the header becomes header_root, unless it is already.
Inserted(h) == IF h = Head(list) THEN list ELSE Cons(h, list)

\* header_set_unused ends with unused_header_root->next_unused = NULL.
SetUnused(h) == <<h>>

-----------------------------------------------------------------------------
(* rm_init *)

Init ==
    /\ memory = [h \in Headers |-> NULL]
    /\ size = [h \in Headers |-> 0]
    /\ type = [h \in Headers |-> FREE]
    /\ list = <<0>>
    /\ unused = <<0>>
    /\ header_bottom = 1
    /\ memory_top = memory_bottom
    /\ slots = [k \in Slots |-> <<>>]
    /\ header_used_count = 0
    /\ highest_address_header = 0
    /\ pc = "idle" /\ maxtime = 0 /\ root = 0
    /\ f1 = 0 /\ f2 = 0 /\ free_size = 0
    /\ u1 = 0 /\ u2 = 0 /\ unlocked_size = 0 /\ used_offset = 0 /\ cur = 0
    /\ mallocs = 0
    /\ req = [h \in Headers |-> 0]
    /\ ptr = [h \in Headers |-> NULL]
    /\ cells = [a \in 0..(HeapSize - 1) |-> Junk]
    /\ fault = "none"

-----------------------------------------------------------------------------
(* rm_malloc *)

\* Mutant: no minimum size.
BlockSizeUnchecked(n) == n

\* A block must be able to hold a free_memory_block_t later.
BlockSize(n) == IF n < FreeBlockSize THEN FreeBlockSize ELSE n

\* block_new: is there room for the block and for one more header?
TopRoom(s) == memory_top + s + HeaderSize < HeaderAddr(header_bottom)

\* The client holds handle h to n bytes, which are at address a.
HandOut(h, a, n) ==
    /\ mallocs < MaxMallocs /\ mallocs' = mallocs + 1
    /\ req' = [req EXCEPT ![h] = n]
    /\ ptr' = [ptr EXCEPT ![h] = NULL]
    /\ cells' = [x \in DOMAIN cells |->
                    IF x \in Bytes(a, n) THEN <<h, x - a>> ELSE cells[x]]
    /\ header_used_count' = header_used_count + 1
    /\ highest_address_header' = h

\* The bytes of a header that is in use are inside the block [a, a + s).
OverlapsHeader(inuse, a, s) ==
    \E g \in inuse : HeaderAddr(g) < a + s /\ a < HeaderAddr(g) + HeaderSize

\* block_new takes the block from memory_top.  It looks at header_bottom only:
\* when the block covers a header that rm_compact has left below header_bottom,
\* it is handed out all the same, and what the client writes destroys a header.
MallocTop(n) ==
    LET s == BlockSize(n)
        h == rm_header_find_free
    IN  /\ Running /\ TopRoom(s)
        /\ h # NoHeader /\ ~Aliased
        /\ TakeHeader
        /\ list' = Inserted(h)
        /\ memory' = [memory EXCEPT ![h] = memory_top]
        /\ size' = [size EXCEPT ![h] = s]
        /\ type' = [type EXCEPT ![h] = UNLOCKED]
        /\ memory_top' = memory_top + s
        /\ HandOut(h, memory_top, n)
        /\ fault' = IF OverlapsHeader(ToSet(list') \cup ToSet(unused'),
                                      memory_top, s)
                    THEN "overlap" ELSE fault
        /\ UNCHANGED <<slots, compactVars>>

\* freeblock_find: the block at position p of slot k is the one it settles
\* on for size s.  It takes the first block of the first slot whose blocks
\* all fit; if these slots are empty, the first block that fits in the slot
\* of s itself.
FoundBlock(s, k, p) ==
    LET fitting == (rm_log2(s) + 1)..(free_block_slot_count - 1)
    IN  \/ /\ k \in fitting /\ p = 1 /\ slots[k] # <<>>
           /\ \A j \in fitting : j < k => slots[j] = <<>>
        \/ /\ \A j \in fitting : slots[j] = <<>>
           /\ k = rm_log2(s)
           /\ size[slots[k][p]] >= s
           /\ \A q \in 1..(p - 1) : size[slots[k][q]] < s

\* freeblock_find is called, and stays within the slots.
SearchesSlots(s) == ~TopRoom(s) /\ rm_log2(s) < free_block_slot_count

\* freeblock_shrink splits b: the rest gets a header of its own, the block
\* the client gets is the upper part.
CanShrink(b, s) ==
    size[b] - s >= FreeBlockSize /\ rm_header_find_free # NoHeader

SplitFreeBlock(n, k, p, r) ==
    LET s == BlockSize(n)
        h == rm_header_find_free
        b == slots[k][p]
        diff == size[b] - s
    IN  /\ Running /\ SearchesSlots(s) /\ FoundBlock(s, k, p)
        /\ CanShrink(b, s) /\ ~Aliased
        /\ r = rm_log2(diff)
        /\ TakeHeader
        /\ list' = Inserted(h)
        /\ memory' = [memory EXCEPT ![h] = memory[b], ![b] = memory[b] + diff]
        /\ size' = [size EXCEPT ![h] = diff, ![b] = s]
        /\ type' = [type EXCEPT ![h] = FREE, ![b] = UNLOCKED]
        /\ slots' = Push([slots EXCEPT ![k] = RemoveAt(@, p)], r, h)
        /\ HandOut(b, memory[b] + diff, n)
        /\ UNCHANGED <<memory_top, compactVars, fault>>

\* block_new takes a free block.
MallocFreeBlock(n) ==
    \E k \in Slots, r \in Slots : \E p \in DOMAIN slots[k] :
        SplitFreeBlock(n, k, p, r)

\* freeblock_shrink returns NULL when the block fits (almost) exactly or no
\* header is left.  Then freeblock_find has already unlinked the block, and
\* rm_malloc returns NULL.
MallocLosesBlock(n) ==
    LET s == BlockSize(n)
    IN  \E k \in Slots : \E p \in DOMAIN slots[k] :
        /\ Running /\ SearchesSlots(s) /\ FoundBlock(s, k, p)
        /\ ~CanShrink(slots[k][p], s)
        /\ slots' = [slots EXCEPT ![k] = RemoveAt(@, p)]
        /\ UNCHANGED <<headerVars, memory_top, statVars, compactVars,
                       clientVars, fault>>

\* rm_malloc returns NULL and leaves everything as it was.
MallocFails(n) ==
    LET s == BlockSize(n)
    IN  /\ Running
        /\ \/ TopRoom(s) /\ rm_header_find_free = NoHeader
           \/ SearchesSlots(s)
              /\ ~\E k \in Slots : \E p \in DOMAIN slots[k] :
                      FoundBlock(s, k, p)
        /\ UNCHANGED vars

\* The call goes wrong: a header in use is handed out a second time, or slots
\* beyond the last one are read.
MallocFault(n) ==
    LET s == BlockSize(n)
    IN  /\ Running
        /\ \/ /\ Aliased /\ HeaderRoom
              /\ \/ TopRoom(s)
                 \/ SearchesSlots(s) /\ \E k \in Slots : \E p \in DOMAIN slots[k] :
                        FoundBlock(s, k, p) /\ CanShrink(slots[k][p], s)
              /\ fault' = "alias"
           \/ /\ ~TopRoom(s) /\ ~SearchesSlots(s)
              /\ fault' = "bounds"
        /\ UNCHANGED <<headerVars, memory_top, slots, statVars, compactVars,
                       clientVars>>

-----------------------------------------------------------------------------
(* rm_free, rm_lock, rm_weaklock, rm_unlock *)

rm_free(h) ==
    /\ Running /\ h \in Held
    /\ type' = [type EXCEPT ![h] = FREE]
    /\ \E k \in Slots : k = rm_log2(size[h]) /\ slots' = Push(slots, k, h)
    /\ header_used_count' = header_used_count - 1
    /\ req' = [req EXCEPT ![h] = 0]
    /\ ptr' = [ptr EXCEPT ![h] = NULL]
    /\ cells' = Overwrite({a \in DOMAIN cells : cells[a][1] = h}
                            \cup rm_block_from_header(memory[h], size[h]))
    /\ UNCHANGED <<memory, size, list, unused, header_bottom, memory_top,
                   highest_address_header, compactVars, mallocs, fault>>

SetLock(h, t, p) ==
    /\ Running /\ h \in Held
    /\ type' = [type EXCEPT ![h] = t]
    /\ ptr' = [ptr EXCEPT ![h] = p]
    /\ UNCHANGED <<memory, size, list, unused, header_bottom, memory_top, slots,
                   statVars, compactVars, mallocs, req, cells, fault>>

rm_lock(h) == "lock" \in Calls /\ SetLock(h, LOCKED, memory[h])
rm_weaklock(h) == "weaklock" \in Calls /\ SetLock(h, WEAK_LOCKED, memory[h])
rm_unlock(h) == SetLock(h, UNLOCKED, NULL)

-----------------------------------------------------------------------------
(* rm_compact *)

\* NULL sinks to the end of the list, rm_header__cmp.
SortKey(h) == IF memory[h] = NULL THEN HeapSize + 1 ELSE memory[h]

\* The stable order rm_header_sort_all sorts the list by: the header at
\* position i comes before the one at position j.
SortsBefore(i, j) ==
    \/ SortKey(list[i]) < SortKey(list[j])
    \/ SortKey(list[i]) = SortKey(list[j]) /\ i < j

\* The position in the sorted list of the header at position i.
SortedPosition(i) == 1 + Cardinality({j \in DOMAIN list : SortsBefore(j, i)})

\* The list after rm_header_sort_all.
SortedList ==
    [r \in DOMAIN list |-> list[CHOOSE i \in DOMAIN list : SortedPosition(i) = r]]

\* rm_compact is called, with or without a time limit.
rm_compact(limit) ==
    /\ Running /\ "compact" \in Calls
    /\ list' = SortedList
    /\ pc' = "pass" /\ root' = 1 /\ maxtime' = limit
    /\ UNCHANGED <<memory, size, type, unused, header_bottom, memory_top, slots,
                   statVars, rangeVars, cur, clientVars, fault>>

TypeAt(i) == type[list[i]]
NoRange ==
    /\ f1' = 0 /\ f2' = 0 /\ free_size' = 0
    /\ u1' = 0 /\ u2' = 0 /\ unlocked_size' = 0 /\ used_offset' = 0
heapVars == <<headerVars, memory_top, slots, statVars, clientVars>>

\* The time is up, or get_free_header_range finds no free block.
PassEnds ==
    /\ pc = "pass" /\ fault = "none"
    /\ maxtime > 0 \/ \A i \in root..Len(list) : TypeAt(i) # FREE
    /\ pc' = "finish"
    /\ UNCHANGED <<heapVars, maxtime, root, rangeVars, cur, fault>>

\* get_free_header_range: the first free block from root on.
PassBegins ==
    /\ pc = "pass" /\ fault = "none"
    /\ \E i \in root..Len(list) :
          /\ TypeAt(i) = FREE
          /\ \A j \in root..(i - 1) : TypeAt(j) # FREE
          /\ f1' = i /\ f2' = i - 1
    /\ pc' = "free"
    /\ UNCHANGED <<heapVars, maxtime, root, free_size, u1, u2, unlocked_size,
                   used_offset, cur, fault>>

FreeFollows == f2 < Len(list) /\ TypeAt(f2 + 1) = FREE

\* get_free_header_range: one more free block.
FreeRange ==
    /\ pc = "free" /\ FreeFollows
    /\ f2' = f2 + 1
    /\ free_size' = free_size + size[list[f2 + 1]]
    /\ UNCHANGED <<heapVars, pc, maxtime, root, f1, u1, u2, unlocked_size,
                   used_offset, cur, fault>>

\* Mutant: blocks next to the free range must fit in it, too.
AdjacentNever == FALSE

\* Blocks next to the free range need not fit in it, others must.
Adjacent == TypeAt(f2 + 1) = UNLOCKED

\* Mutant: the limit on the size is forgotten.
FitsAlways(i, n) == TRUE

Fits(i, n) == Adjacent \/ n + size[list[i]] <= free_size

\* get_unlocked_header_range: position i is where the search for the first
\* unlocked block ends.  It skips to the first unlocked block, and from there
\* to one that fits or to a free block.
SearchEnds(i) ==
    LET stops(j) == \E q \in (f2 + 1)..j :
                       /\ TypeAt(q) = UNLOCKED
                       /\ \/ TypeAt(j) = FREE
                          \/ TypeAt(j) = UNLOCKED /\ Fits(j, 0)
    IN  stops(i) /\ \A j \in (f2 + 1)..(i - 1) : ~stops(j)

\* Mutant: the search begins again at the same place.
RetrySame == root

\* Where the next pass begins when nothing fits in the range.
RetryRoot == f2 + 1

AfterFree == (f2 + 1)..Len(list)
passed_free_blocks == \E i \in AfterFree : TypeAt(i) = FREE
FreeRangeDone == pc = "free" /\ ~FreeFollows
Movable == {i \in AfterFree : SearchEnds(i) /\ TypeAt(i) = UNLOCKED}

\* There is nothing to move, or nothing above the range to move into it.
NothingToMove ==
    /\ FreeRangeDone
    /\ \/ free_size = 0
       \/ f2 = Len(list)
       \/ Movable = {} /\ ~passed_free_blocks
    /\ pc' = "finish" /\ NoRange
    /\ UNCHANGED <<heapVars, maxtime, root, cur, fault>>

\* Nothing fits in this range, but the search has met another free block: try
\* again behind the range.
NextFreeRange ==
    /\ FreeRangeDone /\ free_size > 0 /\ f2 < Len(list)
    /\ Movable = {} /\ passed_free_blocks
    /\ pc' = "pass" /\ root' = RetryRoot /\ NoRange
    /\ UNCHANGED <<heapVars, maxtime, cur, fault>>

\* The first unlocked block to move.
UnlockedBegins ==
    /\ FreeRangeDone /\ free_size > 0 /\ f2 < Len(list)
    /\ \E i \in Movable : u1' = i /\ u2' = i - 1
    /\ pc' = "unlocked"
    /\ UNCHANGED <<heapVars, maxtime, root, f1, f2, free_size, unlocked_size,
                   used_offset, cur, fault>>

\* Mutant: a locked block behind an unlocked one moves, too.
LockedFollows ==
    /\ u2 < Len(list)
    /\ TypeAt(u2 + 1) \in {UNLOCKED, LOCKED}
    /\ Fits(u2 + 1, unlocked_size)

UnlockedFollows ==
    /\ u2 < Len(list)
    /\ TypeAt(u2 + 1) = UNLOCKED
    /\ Fits(u2 + 1, unlocked_size)

\* get_unlocked_header_range: one more unlocked block.
UnlockedRange ==
    /\ pc = "unlocked" /\ UnlockedFollows
    /\ u2' = u2 + 1
    /\ unlocked_size' = unlocked_size + size[list[u2 + 1]]
    /\ UNCHANGED <<heapVars, pc, maxtime, root, f1, f2, free_size, u1,
                   used_offset, cur, fault>>

\* Mutant: only the last block of the free range is used.
OffsetFromLast == memory[list[u1]] - memory[list[f2]]

header_memory_offset == memory[list[u1]] - memory[list[f1]]

UnlockedRangeDone ==
    /\ pc = "unlocked" /\ ~UnlockedFollows
    /\ used_offset' = header_memory_offset
    /\ pc' = "move" /\ cur' = u1
    /\ UNCHANGED <<heapVars, maxtime, root, f1, f2, free_size, u1, u2,
                   unlocked_size, fault>>

\* memmove of one block down by used_offset.
MoveBlock ==
    LET h == list[cur]
        dest == memory[h] - used_offset
    IN  /\ pc = "move" /\ cur <= u2
        /\ memory' = [memory EXCEPT ![h] = dest]
        /\ cells' = [a \in DOMAIN cells |->
                        IF a \in Bytes(dest, size[h]) THEN cells[a + used_offset]
                        ELSE IF a \in Bytes(memory[h], size[h]) THEN Junk
                        ELSE cells[a]]
        /\ cur' = cur + 1
        /\ UNCHANGED <<size, type, list, unused, header_bottom, memory_top,
                       slots, statVars, pc, maxtime, root, rangeVars, mallocs,
                       req, ptr, fault>>

\* The parts of the list around the two ranges.
Before == SubSeq(list, 1, f1 - 1)
Between == SubSeq(list, f2 + 1, u1 - 1)
Unlocked == SubSeq(list, u1, u2)
After == SubSeq(list, u2 + 1, Len(list))

\* The next pass starts at unlocked_last.
NextPass ==
    /\ highest_address_header' = list[u2]
    /\ pc' = "pass" /\ root' = f1 + (u2 - u1) /\ cur' = 0 /\ NoRange
    /\ UNCHANGED <<header_used_count, memory_top, slots, maxtime, clientVars>>

MoveDone == pc = "move" /\ cur > u2

\* free_first is set unused and immediately taken again for the space the
\* unlocked blocks left; the unused header there was before is forgotten.
Recycle == unused' = Tail(SetUnused(list[f1]))

\* The free range and the unlocked range have changed places.
RelinkAdjacent ==
    LET f == list[f1]
    IN  /\ MoveDone /\ u1 = f2 + 1
        /\ Recycle
        /\ memory' = [memory EXCEPT ![f] = memory[f] + unlocked_size]
        /\ size' = [size EXCEPT ![f] = free_size]
        /\ list' = Before \o Unlocked \o <<f>> \o After
        /\ UNCHANGED <<type, header_bottom, fault>>
        /\ NextPass

SpareNeeded == free_size >= unlocked_size + FreeBlockSize

\* header_bottom moves onto a header that stays in the list.  The free headers
\* behind free_first do not: they are not linked again.
SpareAliased ==
    \E i \in DOMAIN list \ ((f1 + 1)..f2) : list[i] = header_bottom + 1

\* The unlocked range went into a free range further down.  What is left of
\* that range becomes a free block with a new header, ...
RelinkSpare ==
    LET f == list[f1]
        spare == header_bottom + 1
        old == memory[list[u1]] + used_offset
    IN  /\ MoveDone /\ u1 # f2 + 1 /\ SpareNeeded
        /\ HeaderRoom /\ ~SpareAliased
        /\ Recycle /\ header_bottom' = spare
        /\ memory' = [memory EXCEPT ![f] = old,
                                    ![spare] = memory[list[u1]] + unlocked_size]
        /\ size' = [size EXCEPT ![f] = unlocked_size,
                                ![spare] = free_size - unlocked_size]
        /\ type' = [type EXCEPT ![spare] = FREE]
        /\ list' = Before \o Unlocked \o <<spare>> \o Between \o <<f>> \o After
        /\ UNCHANGED fault
        /\ NextPass

\* ... or is too small for one, and is added to the last moved block.
RelinkExtend ==
    LET f == list[f1]
        old == memory[list[u1]] + used_offset
    IN  /\ MoveDone /\ u1 # f2 + 1 /\ ~SpareNeeded
        /\ Recycle
        /\ memory' = [memory EXCEPT ![f] = old]
        /\ size' = [size EXCEPT ![f] = unlocked_size,
                                ![list[u2]] = @ + (free_size - unlocked_size)]
        /\ list' = Before \o Unlocked \o Between \o <<f>> \o After
        /\ UNCHANGED <<type, header_bottom, fault>>
        /\ NextPass

\* header_new returns NULL, or a header in use, for the spare block.
RelinkFault ==
    /\ MoveDone /\ fault = "none" /\ u1 # f2 + 1 /\ SpareNeeded
    /\ \/ ~HeaderRoom /\ fault' = "null"
       \/ HeaderRoom /\ SpareAliased /\ fault' = "alias"
    /\ UNCHANGED <<heapVars, compactVars>>

-----------------------------------------------------------------------------
(* The end of rm_compact *)

UsedEnds == {End(list[i]) : i \in {j \in DOMAIN list :
                ~rm_header_is_unused(list[j]) /\ TypeAt(j) # FREE}}

\* The header to prune: the loop over the free blocks above "highest" ends
\* with the first of them, since its next pointer has just been cleared.
Pruned(highest) ==
    {list[i] : i \in {j \in DOMAIN list :
        LET above(n) == /\ ~rm_header_is_unused(list[n]) /\ TypeAt(n) = FREE
                        /\ memory[list[n]] >= highest
        IN  above(j) /\ \A n \in 1..(j - 1) : ~above(n)}}

HighestUsed(a) ==
    /\ a \in UsedEnds \cup {memory_bottom}
    /\ \A e \in UsedEnds : e <= a

\* Position of largest_header, header_root if there is no used block.
LargestAt(highest, n) ==
    IF UsedEnds = {} THEN n = 1 ELSE End(list[n]) = highest /\ TypeAt(n) # FREE

Cleared(f, highest, value) ==
    [h \in Headers |-> IF h \in Pruned(highest) THEN value ELSE f[h]]

\* header_bottom is raised to the first header from there that is not unused.
RaisedTo(b, mem) ==
    /\ mem[b] # NULL
    /\ \A j \in (b + 1)..header_bottom : mem[j] = NULL

\* Mutant: the slots are not emptied before they are rebuilt.
SlotsKept == slots

\* rebuild_free_block_slots begins with a memset.
EmptySlots == [k \in Slots |-> <<>>]

\* The list is cut behind largest_header, memory_top is lowered.
Finish ==
    /\ pc = "finish" /\ fault = "none"
    /\ \E highest \in memory_bottom..HeapSize : \E n \in DOMAIN list :
          /\ HighestUsed(highest) /\ LargestAt(highest, n)
          /\ memory' = Cleared(memory, highest, NULL)
          /\ size' = Cleared(size, highest, 0)
          /\ unused' = IF Pruned(highest) = {} THEN unused
                       ELSE SetUnused(CHOOSE h \in Pruned(highest) : TRUE)
          /\ list' = SubSeq(list, 1, n)
          /\ memory_top' = highest
          /\ \E b \in 0..header_bottom : RaisedTo(b, memory') /\ header_bottom' = b
    /\ slots' = EmptySlots
    /\ pc' = "rebuild" /\ cur' = 1
    /\ UNCHANGED <<type, statVars, maxtime, root, rangeVars, clientVars, fault>>

\* Every header up to header_top is unused: header_bottom leaves the heap.
FinishFault ==
    /\ pc = "finish" /\ fault = "none"
    /\ \E highest \in memory_bottom..HeapSize :
          /\ HighestUsed(highest)
          /\ \A b \in 0..header_bottom : Cleared(memory, highest, NULL)[b] = NULL
    /\ fault' = "overrun"
    /\ UNCHANGED <<heapVars, compactVars>>

\* rebuild_free_block_slots: one more header of the list.
Rebuild ==
    LET h == list[cur]
        linked == ~rm_header_is_unused(h) /\ type[h] = FREE
                      /\ size[h] >= FreeBlockSize
    IN  /\ pc = "rebuild" /\ cur <= Len(list)
        /\ \/ /\ linked
              /\ \E k \in Slots :
                    k = rm_log2(size[h]) /\ slots' = Push(slots, k, h)
              /\ cells' = Overwrite(rm_block_from_header(memory[h], size[h]))
           \/ ~linked /\ UNCHANGED <<slots, cells>>
        /\ cur' = cur + 1
        /\ UNCHANGED <<headerVars, memory_top, statVars, pc, maxtime, root,
                       rangeVars, mallocs, req, ptr, fault>>

\* rm_compact returns.
CompactReturns ==
    /\ pc = "rebuild" /\ cur > Len(list)
    /\ pc' = "idle" /\ cur' = 0 /\ root' = 0 /\ maxtime' = 0
    /\ UNCHANGED <<heapVars, rangeVars, fault>>

-----------------------------------------------------------------------------
CompactStep ==
    \/ PassEnds \/ PassBegins
    \/ FreeRange \/ NothingToMove \/ NextFreeRange
    \/ UnlockedBegins \/ UnlockedRange \/ UnlockedRangeDone
    \/ MoveBlock
    \/ RelinkAdjacent \/ RelinkSpare \/ RelinkExtend \/ RelinkFault
    \/ Finish \/ FinishFault \/ Rebuild \/ CompactReturns

Next ==
    \/ \E n \in Sizes : \/ MallocTop(n) \/ MallocFreeBlock(n)
                        \/ MallocLosesBlock(n) \/ MallocFails(n)
                        \/ MallocFault(n)
    \/ \E h \in Headers : \/ rm_free(h)
                          \/ rm_lock(h) \/ rm_weaklock(h) \/ rm_unlock(h)
    \/ \E limit \in {0, 1} : rm_compact(limit)
    \/ CompactStep

\* A call of rm_compact, once begun, runs: there is one thread.
Spec == Init /\ [][Next]_vars /\ WF_vars(CompactStep)

-----------------------------------------------------------------------------
(* Properties *)

\* Types.  Lists only hold headers, header_bottom is the number of a header.
TypeOK ==
    /\ memory \in [Headers -> Int]
    /\ size \in [Headers -> Int]
    /\ type \in [Headers -> BlockTypes]
    /\ list \in Seq(Headers) /\ list # <<>>
    /\ unused \in Seq(Headers)
    /\ header_bottom \in Headers
    /\ memory_top \in Nat
    /\ slots \in [Slots -> Seq(Headers)]
    /\ header_used_count \in Int
    /\ highest_address_header \in Headers
    /\ pc \in {"idle", "pass", "free", "unlocked", "move", "finish", "rebuild"}
    /\ maxtime \in {0, 1}
    /\ root \in Int /\ f1 \in Int /\ f2 \in Int /\ u1 \in Int /\ u2 \in Int
    /\ free_size \in Int /\ unlocked_size \in Int /\ used_offset \in Int
    /\ cur \in Int
    /\ mallocs \in Nat
    /\ req \in [Headers -> Nat]
    /\ ptr \in [Headers -> Int]
    /\ fault \in Faults

\* The headers in the list that have memory.
ListedBlocks == {h \in ToSet(list) : memory[h] # NULL}

\* Between the steps that move blocks, the blocks in the header list are
\* disjoint and leave no byte between memory_bottom and memory_top uncovered:
\* no malloc, split, move, squish, prune or truncation loses or doubles memory.
BlocksTile ==
    pc # "move" =>
        /\ \A g, h \in ListedBlocks :
              g # h => End(g) <= memory[h] \/ End(h) <= memory[g]
        /\ \A h \in ListedBlocks : size[h] > 0 /\ End(h) <= memory_top
        /\ {memory[h] : h \in ListedBlocks} \cup {memory_top}
             = {End(h) : h \in ListedBlocks} \cup {memory_bottom}

\* The handles the client holds are exactly the headers in the list that are
\* not free, each once; relinking and cutting the list in rm_compact never
\* drops one.  header_used_count counts them.
HandlesListed ==
    /\ {h \in ToSet(list) : type[h] # FREE} = Held
    /\ header_used_count = Cardinality(Held)
    /\ \A i, j \in DOMAIN list : list[i] = list[j] => i = j

\* Outside rm_compact, what a slot holds is a free block of the list, of the
\* size class of the slot, once.  freeblock_find relies on it: it takes the
\* first block of a slot without looking at its size.
SlotsExact ==
    pc = "idle" =>
        \A k \in Slots : \A i \in DOMAIN slots[k] :
            LET h == slots[k][i]
            IN  /\ h \in ListedBlocks /\ type[h] = FREE
                /\ rm_log2(size[h]) = k
                /\ \A j \in DOMAIN slots[k] : slots[k][j] = h => i = j

\* The pointer rm_lock or rm_weaklock returned is the address of the block
\* until rm_unlock or rm_free: rm_compact does not move a locked block, not
\* even for a moment.  The code treats both locks alike, although
\* doc/paper/jeff.rst:146 allows rm_compact to move a weakly locked block.
LockedPinned == \A h \in Held : ptr[h] # NULL => ptr[h] = memory[h]

\* Every byte the client asked for is still in its block, after any number of
\* moves, splits and writes of free_memory_block_t into free memory.
ContentsKept ==
    pc # "move" =>
        \A h \in Held :
            /\ size[h] >= req[h]
            /\ \A i \in 0..(req[h] - 1) : cells[memory[h] + i] = <<h, i>>

\* Blocks and header_bottom, growing towards each other, never meet: not when
\* rm_malloc and rm_compact take headers, nor when rm_compact gives some back.
\* A header rm_compact has left below header_bottom is not protected by this:
\* see BlocksClearOfHeaders.
HeadersAboveBlocks == memory_top < HeaderAddr(header_bottom)

\* Every pass of rm_compact leaves the list sorted and without gaps; the
\* offset by which the next pass moves blocks is only right if it is.
SortedInPass ==
    pc \in {"pass", "free", "unlocked", "finish"} =>
        \A i \in 1..(Len(list) - 1) : End(list[i]) = memory[list[i + 1]]

\* When rm_compact returns without a time limit, no free block lies directly
\* below an unlocked one, and if nothing is locked there is no free block.
CompactedFully ==
    [][pc = "rebuild" /\ pc' = "idle" /\ maxtime = 0 =>
          /\ \A i \in 1..(Len(list) - 1) :
                ~(TypeAt(i) = FREE /\ TypeAt(i + 1) = UNLOCKED)
          /\ (\A h \in Held : type[h] = UNLOCKED) =>
                \A h \in ListedBlocks : type[h] # FREE]_vars

\* No step of rm_compact changes address, size or lock of a locked block.  A
\* weakly locked one is left alone, too: the freedom doc/paper/jeff.rst:146
\* gives the compacting phase is not used by get_unlocked_header_range.
CompactKeepsLocked ==
    [][pc # "idle" =>
          \A h \in ToSet(list) : type[h] \in {LOCKED, WEAK_LOCKED} =>
              /\ memory'[h] = memory[h] /\ size'[h] = size[h]
              /\ type'[h] = type[h]]_vars

\* rm_compact returns, whatever is locked: retries and moves come to an end.
CompactTerminates == pc # "idle" ~> pc = "idle" \/ fault # "none"

\* If rm_compact is never called and requests are smaller than
\* 2^free_block_slot_count, nothing goes wrong: no header is handed out twice,
\* no new block covers one, and the search stays within the slots.
NoFaultWithoutCompact == [](pc = "idle") => [](fault = "none")

-----------------------------------------------------------------------------
(* What the documentation, comments and tests say, and the code does not do *)

\* Two handles the client holds are different (test FreeOneMergeTwo).
HandlesDiffer == fault # "alias"

\* "there is always two headers left for compacting"
HeadersLeftForCompact == fault # "null"

\* "header bottom points to the bottom, including the last one!": it points
\* to a header of the heap.
HeaderBottomInHeap == fault # "overrun"

\* "there is no overlap between existing memory (including the newly requested
\* size in case of a malloc)": no block covers a header of the list or of the
\* unused chain, wherever header_bottom is.
BlocksClearOfHeaders ==
    \A h \in ToSet(list) \cup ToSet(unused) : memory_top <= HeaderAddr(h)

\* "Otherwise, the block is used as-is": a block freeblock_find takes out of
\* its slot is given to the client.
FoundBlockIsUsed ==
    [][pc = "idle" /\ pc' = "idle" =>
          \A k \in Slots : \A h \in ToSet(slots[k]) \ ToSet(slots'[k]) :
              req'[h] > 0]_vars

=============================================================================
