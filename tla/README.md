# rmalloc in TLA+

A verification project for rmalloc, a memory allocator whose blocks can be moved: the
client holds handles, locks a handle to get a pointer, and lets the allocator compact the
heap. It consists of TLA+ modules, TLC configurations for small instances and proofs
checked by TLAPS. `PROJECT.json` maps every definition to its source lines, and lists
runs, mutants, findings, hazards and theorems.

## 1. Inventory

| component | source | state | operations | hard parts |
|---|---|---|---|---|
| jeff, the compacting allocator | `src/jeff/compact.c`, `compact_internal.h` | one heap: free-block slots, blocks, headers; lists threaded through headers and free blocks | `rm_init`, `rm_malloc`, `rm_free`, `rm_lock`, `rm_weaklock`, `rm_unlock`, `rm_compact(maxtime)` | three lists in the memory they describe; blocks and headers grow towards each other; compaction in passes with a time limit; headers are recycled while clients hold their addresses |
| header list sort | `src/jeff/listsort.c` | the `next` pointers | `rm_header__sort` | in-place relinking while two cursors walk the old list |
| statistics | `compact.c:115-190` | `highest_address_header`, `header_used_count` | `rm_stat_*` | a cached answer |
| debugging aids | `src/jeff/compact_debug.c` | none | printing, assertions | only with `RMALLOC_DEBUG` |
| buddy allocator | `src/buddy/buddy.c` | lines of chunks per power of two, two "nibbles" and flags per chunk | split, request, merge; `balloc` and `bfree` are empty | merging across two parents, flags shared by two nibbles |
| steve, the benchmark | `src/steve/plot.cpp` | handle tables, colour map, counters | replay of a trace in three modes: new, free, lock, unlock, access | retry after out-of-memory, rewinding with shifted handles, tables that must agree with the allocator |
| allocator drivers | `src/steve/drivers/plot_*.cpp` | a map from trace handles to allocator handles | `user_malloc`, `user_free`, `user_handle_oom`, ... | stale map entries |
| memory tracer | `valgrind/memcheck/mc_malloc_wrappers.c`, `mc_translate.c` | the window of heap addresses | a line per allocation, free and access | `realloc` is silent, a boundary |
| memtrace translation | `src/steve/memtrace-to-ops/` | address-to-id dictionary, list of operations | one line of a trace; two translations to lock operations | reused addresses, indices from 0 and from 1 |
| graphs, scripts, dlmalloc, tcmalloc, jemalloc, the rest of valgrind | | | | not this project's logic |

How they interact: a driver of steve calls jeff through its handles; steve calls the
driver once per line of a trace, which the memtrace translation has written; `rm_compact`
calls the sort. The translation reads what the tracer, compiled into memcheck, printed
while another program ran. Everything is single-threaded (the pool of processes in
`translate-ops-to-locking-lifetime.py` computes one file per handle from shared, constant
input). What is hard is not concurrency but long
sequences of legal calls: a heap that is full, split, locked in patterns, half compacted
and filled again.

What makes jeff correct: blocks are disjoint and cover the heap up to `memory_top`;
handles the client holds stay in the list and keep their contents; locked blocks do not
move; slots only hold free blocks of their size class; blocks never reach `header_bottom`;
`rm_compact` returns, and has then compacted all it could. What makes the buddy allocator
correct: no unit of memory is lost, free twice, or free and in use, and splits can be undone.
What makes the benchmark's numbers mean something: its tables, counters and locks describe
the allocator's actual blocks, the trace it replays is well-formed, and it ends. What makes
the trace right: an access is attributed to the block it is in.

## 2. Modules

| module | what it is |
|---|---|
| `Jeff` | the allocator: state, one action per call or loop iteration, properties, mutants |
| `RelocHeap` | abstract specification: what a relocating allocator promises its client |
| `JeffImplements` | refinement mapping from `Jeff` to `RelocHeap` |
| `MCJeff` | the module TLC runs for jeff |
| `JeffProofs` | theorems about `Jeff`: types, and that `rm_compact` keeps locked blocks |
| `JeffHeapProofs` | extends `JeffProofs`: blocks, list, slots |
| `JeffClientProofs` | extends `JeffHeapProofs` and `JeffImplements`: contents, pointers, the refinement, faults |
| `ListSort`, `MCListSort` | the merge sort on `next` pointers, and the module TLC runs for it |
| `ListSortProofs` | theorems about `ListSort` |
| `Buddy` | the buddy allocator and a client as in its tests |
| `BuddyProofs` | theorems about `Buddy` |
| `Steve` | the benchmark, its rmalloc driver and, through `INSTANCE RelocHeap`, the allocator's promise |
| `SteveProofs` | theorems about `Steve` |
| `MemTrace` | the tracer, and the dictionary and operation list of `blocks.pyx` |
| `MemTraceProofs` | theorems about `MemTrace` |
| `LockOps` | extends `MemTrace`: the two translations of the operation list into files for steve |
| `NumberFacts` | least and greatest elements and induction, for the proofs |

The modules form two chains. `Jeff` implements `RelocHeap` and `Steve` is composed with
`RelocHeap`: what is shown of the benchmark holds for every allocator that keeps the promise
shown of jeff (up to jeff's faults). `LockOps` shows of the files the tools write what
`Steve` assumes of its input (`NextLines`): ids numbered by their N lines, nothing of a
handle before its N or after its F line (`FilesReplayable`).

### Jeff: state

Addresses are offsets from the start of the heap, headers are numbered downwards from
`header_top` (0); `NULL` is 0, which is the address of a slot and never of a block.

| variable | code |
|---|---|
| `memory`, `size`, `type` | the fields of every header |
| `list` | `header_root` and the `next` pointers, as a sequence |
| `unused` | `unused_header_root` and `next_unused` |
| `header_bottom`, `memory_top`, `slots`, `header_used_count`, `highest_address_header` | the fields of `rmalloc_meta_t` of that name |
| `pc`, `maxtime`, `root`, `f1`, `f2`, `free_size`, `u1`, `u2`, `unlocked_size`, `used_offset`, `cur` | where `rm_compact` is and its locals; the pointers `root`, `free_first`, `free_last`, `unlocked_first`, `unlocked_last`, `h` are positions in `list` |
| `req`, `ptr`, `mallocs` | the client: bytes asked for per handle (0: not held), the pointer the last lock returned, number of mallocs |
| `cells` | ghost: which byte of which handle's block every byte of the heap is |
| `fault` | ghost: see below |

### Jeff: actions

`rm_malloc` is split by outcome: `MallocTop` (block from `memory_top`), `MallocFreeBlock`
(a free block is split), `MallocLosesBlock` (a block is found, unlinked and not used: NULL
is returned), `MallocFails`, `MallocFault`. `rm_free`, `rm_lock`, `rm_weaklock`,
`rm_unlock` are one action each. `rm_compact` sorts the list (`SortedList`, a definition;
`ListSort` shows that the code computes it) and begins the first pass; after that every
action is one iteration of one of its loops: `PassBegins`/`PassEnds`, `FreeRange` (one more
free block), `NothingToMove`, `NextFreeRange`, `UnlockedBegins`, `UnlockedRange` (one more
unlocked block), `UnlockedRangeDone`, `MoveBlock` (one `memmove`), `RelinkAdjacent`,
`RelinkSpare`, `RelinkExtend` (three ways to relink the list after a move), `Finish`
(prune, cut the list, raise `header_bottom`, lower `memory_top`), `Rebuild` (one header),
`CompactReturns`. A time limit may end the call before any pass: time is a
nondeterministic choice when `maxtime > 0`.

The client is well-behaved: it frees, locks and unlocks only handles it holds, asks for at
least one byte, and calls nothing while `rm_compact` runs.

### Faults

Where the C code goes on with undefined behaviour, the model sets `fault` and stops: a
header that is in use is handed out again (`alias`), a new block covers a header in use
(`overlap`; the block is placed, and the model stops behind that step), a NULL header is
dereferenced (`null`), `header_bottom` leaves the heap (`overrun`), a slot beyond the last
one is read (`bounds`). Invariants then hold up to the first fault. The code can reach every
one of them: the runs of section 4 show the first four, and `bounds` takes a request of
2^`free_block_slot_count` bytes (end of section 4). Without `rm_compact` and such a request
none is reachable (`NoFaultWithoutCompact`). This keeps the passing run meaningful: it says
the heap is right in every state before that.

A spare header that `RelinkSpare` takes may be one the same step drops from the list (of the
recycled free range): the code reuses it and nothing is lost, so `SpareAliased` makes a fault
only of a header that stays in the list.

### ListSort

The list is the `next` function, `0` is NULL; `list`, `tail`, `p`, `q`, `psize`, `qsize`,
`insize` and `nmerges` are the locals of `rm_header__sort`. Each action is one iteration of
one of its loops. Headers are named by their place in the input, so the stable order is a
definition on names. The circular variant is never called and is left out.

### RelocHeap

Handles with a length, an address, contents and a set of pinned handles; `Alloc`, `Free`,
`Move`, `Pin`, `Unpin`. `JeffImplements` maps `len` to `req`, `addr` to `memory` (of held
handles), `data` to the bytes of the block and `pinned` to the held handles that are
locked. A `MoveBlock` is a `Move`; every other step of `rm_compact` is a stutter.

### Buddy

`lines[k]` is the `free_list` of the line for chunks of 2^k units, a sequence of chunks
with two nibble addresses and a set of flags; `got` is the chunk the last call returned.
`request_chunk(k)` is `RequestFound` or `RequestSplit`; the descent of the code through the
lines is one step (`SplitDown`), since each line in between gets one chunk at the same
address. `Use` and `Unuse` are the flag changes of the client, `MergeWithin` and
`MergeAcross` the two halves of `merge_nibbles`; the calls that return NULL change nothing.
`held` and `fault` are ghosts. A merge across two chunks (`free on two lines`: the joined
chunk is put on the line above while both nibbles stay free below, the ELSEWHERE flags are
never consulted, and one of the comparisons names the wrong parent) and one that clears a
sibling's flags (`sibling flags lost`: `pc->flags = 0`) are executed as the code does, and
recorded in `fault`. `LeavesTile`, `HeldSafeIfClean` and `MergedBackIfClean` are stated up to
then (`CleanMerges`); what they say is false afterwards, see section 4. In this commit the file does not
compile: `destroy_chunk_item` is not defined (taken to leave the item without memory) and
`destroy_chunk_items` is defined twice.

### Steve

The trace is made up while it is read (`ReadLine`), fixed once its end was seen, and read
again after a rewind. `line` is the buffer, which keeps its content at the end of the file.
`pc` is where the loop is: an operation, a compaction (`oom`: `MoveBlock` as often as the
allocator likes, then `CompactEnds`), the second attempt, the killing of handles, or
`calculate_maxmem` at the end. The tables have the names of the code. Allocator and driver:
a malloc may fail when nothing fits behind the highest block or no handle is left, and may
use any gap; `user_free` frees what the driver's map has. `RelocHeap!Alloc`, `Free` and
`Move` are conjuncts of the steps, so that the allocator does nothing its specification
forbids. `owner` (for whom a block was allocated) and `fault` are ghosts; the model stops
at a lock of NULL or of a free block and at `rand() % 0`. With a `KillPercent` of 100000 or
more allocstats does not rewind at the end of the file (`Rewinding`); the run takes 100, the
theorems hold of both. `user_lock` of the driver has no
return statement; the model takes the address `rmlock` leaves.

### MemTrace and LockOps

`live` are the traced program's blocks, with the id of their N line or none after `realloc`.
An action is one event of the program, with the line memcheck prints for it and what
`process_line` makes of it: `new_block`, `handle_free`, `access` (a load, store or modify at
any address of the heap), `realloc`. The program frees only blocks it has; accesses may go
anywhere. `Translate` runs both tools on the finished list. `Life` is the level of
`calculator` in half units (so that `SINK_SPEED` is 1); `opsdict` and the off-by-one between
its indices and the second pass are kept. Loads, stores and modifies are one kind: nothing
tells them apart.

## 3. Passing runs

In the small heaps a header is 3 units, a free-block record 2 and a pointer 1, which keeps
the proportions of the 64-bit build (29, 16 and 8 bytes). `MaxMallocs` bounds how often
`rm_malloc` succeeds; nothing else is bounded. `CHECK_DEADLOCK FALSE` is there because the
model stops at a fault and the client may stop calling.

| run | instance | shows |
|---|---|---|
| `jeff` | heap 29, sizes 1, 4 and 24, all calls, 4 mallocs | `TypeOK`, `BlocksTile`, `HandlesListed`, `SlotsExact`, `LockedPinned`, `ContentsKept`, `HeadersAboveBlocks`, `SortedInPass`, `ImplementsRelocHeap`, `CompactedFully`, `CompactKeepsLocked`, `CompactTerminates`, `NoFaultWithoutCompact` |
| `list_sort` | all lists of 1 to 6 headers with addresses NULL, 1, 2 | `NoneLost`, `RunsSorted` (the loop invariant), `SortedStable`, `Terminates` |
| `buddy` | a heap of 4 units, 3 chunks per line | `TypeOK`, `LeavesTile`, `HeldSafeIfClean`, `MergedBackIfClean` |
| `steve` | all three modes, heap 4, sizes 1 and 2, 3 allocator handles, traces of up to 4 lines with 3 handles, 2 rewinds of memplot, 4 operations of allocstats | `TypeOK`, `TablesAgree`, `UsedSpaceExact`, `LocksReachLive`, `LocksFollowTrace`, `ColorsExact`, `FreeOnlyOwn`, `Terminates` |
| `memtrace` | 3 addresses, blocks of 0 to 3 bytes, accesses of 1 and 2, 3 blocks, 1 realloc, 7 recorded operations | `TypeOK`, `LiveMapped`, `NothingStale`, `OpsTellLives`, `AccessesAttributed` of the trace; `FilesReplayable`, `ShortLivesLocked`, `AccessesLocked` of the files |

Why the bounds are enough to be interesting: in 29 units the first blocks come from
`memory_top` and, once it has met `header_bottom`, mallocs search, split and lose free blocks,
before and after compactions; a heap with small blocks still has room for the spare header of
a move that is not adjacent, so that each of the three ways of relinking happens (29 is the
least such heap). Up to four
blocks give every pattern of free, locked, weakly locked and unlocked around a free range,
and let headers be recycled after a compaction. A size below the minimum block size (1)
exercises rounding up, 4 leaves rests both too small and large enough to split, and 24 never
fits: its size class is the last slot, behind which the search of larger slots begins.
Six headers make the sort merge
full and partial runs of length 1, 2 and 4. Three chunks per line let a nibble be split,
merged and split again, and both nibbles of a chunk be split at once. Four lines make a
block be allocated, freed or moved and its handle number be handed out again in the next
round; the invariants of `steve` were also run with five lines (20 million states, too long
for a regular run). Seven operations are the least with which two blocks' lock operations
fall on the same index and both are freed; three bytes the least with which the stale entries
of a reallocated block can be cut in two.

Fairness: `Spec` of `Jeff` has weak fairness of `CompactStep` only. There is one thread; a
call of `rm_compact` that has begun is executed. Nothing is assumed about the client. `Spec`
of `ListSort` and of `Steve` have weak fairness of `Next` for the same reason: one thread,
which runs until it returns. In `Steve` compactions end because blocks only move down.
`Terminates` says that peakmem and allocstats end; memplot never does by itself.

Every property has a mutant in `PROJECT.json`: a plausible bug (a definition commented
"Mutant:" in the module) with which TLC finds the property violated.

## 4. Where the code and what is said of it differ

Each of these runs checks one statement from a comment, a document or a test, and TLC finds
a shortest counterexample. The alias case was replayed on the compiled C code as well.

| run | statement | what happens |
|---|---|---|
| `jeff_HandlesDiffer` | two live handles differ | three mallocs, free the third, compact, malloc twice: both return the same handle, because `header_bottom` was raised past a header that is also in the unused chain |
| `jeff_HeadersLeftForCompact` | "there is always two headers left for compacting" | a move that is not adjacent finds none and dereferences NULL |
| `jeff_HeaderBottomInHeap` | `header_bottom` points to a header | compacting a heap without blocks runs it beyond the heap |
| `jeff_FoundBlockIsUsed` | "the block is used as-is" | a block that fits exactly is unlinked and NULL returned |
| `jeff_BlocksClearOfHeaders` | a header is only handed out if "there is no overlap between existing memory (including the newly requested size in case of a malloc)" | two mallocs, free the second, compact: its header is pruned and `header_bottom` raised past it. A malloc takes that header from the unused chain, and the next one, whose end is only compared with `header_bottom` (`compact.c:330`), is placed over it |
| `buddy_HeldSafe` | "A and B used => new chunk" | with the second nibble of a chunk in use, the halves of the first one are merged: `pc->flags = 0` (`buddy.c:179`) clears the used flag too, and the nibble is free again to `request_chunk` |
| `steve_GreenIsFree` | green is "known free" | two blocks, the first freed, a third that only fits after a compaction: freeing the second paints its old address, where the third is now |

Met while modelling, without a run of their own:

- jeff: for a request of 2^`free_block_slot_count` bytes or more, `freeblock_find` reads
  behind the slots (`compact.c:755`; the model's fault `bounds`, outside the sizes of the
  runs). `header_set_unused` ends with `next_unused = NULL` (`compact.c:216`), so the chain
  of unused headers never has more than one element, against `doc/paper/jeff.rst:155`.
  `update_highest_address_if_needed` stores every header it is given (`compact.c:305`), so
  the cached highest address is that of the block touched last. "prune all free blocks above
  highest address" (`compact.c:1605`): only the first is, since `header_set_unused` clears
  the `next` pointer the loop follows.
- jeff, weak locks: `doc/paper/jeff.rst:146` says a weakly locked block "can be treated as
  unlocked in the compacting phase so it can be reclaimed", with the pointer invalidated;
  `rm_compact` moves only blocks whose type is exactly `HEADER_UNLOCKED`, so a weak lock pins
  a block as a lock does. The document marks the type "(currently unused)" (line 144). The
  project follows the code: `LockedPinned`, `CompactKeepsLocked` and the refinement (`pinned`)
  cover weak locks, and would have to be restated for locks only if `rm_compact` were changed
  to what the document allows.
- buddy: "When two buddy blocks are free, they can be joined. [...] This is repeated until the
  largest block" (`doc/paper/introduction.rst:55`) is false of merges that fault. `MergedBack`,
  the property without the condition, fails: split both nibbles of a chunk, release
  everything, and merge the halves of one; this clears the split flag of the other, whose two
  halves then have no parent and stay behind for ever. After a merge across two chunks, too,
  nibbles are left that nothing joins. Also, a request larger than the root line's size is
  answered with a chunk of the root line.
- steve: duplicate accesses are not discarded as `plot.cpp:13` says, since `old_handle` never
  changes. L is a lock to peakmem and a load to the other modes (`plot.cpp:564`, `1072`).
  `handle_offset` grows by the highest handle, so handle 0 of the next round takes the number
  of the highest of the last one, whose block is lost if it was not freed (the check for a
  double malloc in the driver is commented out). `rand() % 0` when all handles are freed
  before a rewind (`plot.cpp:770`). At a rewind memplot executes its last line again, with
  shifted handles, and spins if that line is a comment (`plot.cpp:553`).
- tracing: `realloc` prints no line, so accesses to the moved block are lost or attributed to
  whatever had that memory before, and an id may then have operations after its F line, or
  two F lines. A block of size 0 has an N and no F line. An access that ends at the end of the
  heap is dropped (`<` for `<=`, `mc_translate.c:5366`).
- locking: when two blocks' lock operations fall on the same index, only that of the highest
  handle survives (`translate-ops-to-locking-lifetime.py:251`); `AccessesLocked` is stated
  for blocks this does not happen to. A block without accesses has `own == 0`, of which
  `translate-memtrace-to-ops.py:251` says "this can't really happen though!"; it happens for
  each block freed unused, and is counted as one access. `doc/paper/steve.rst:89` defines
  the macro lifetime over "all ops"; the code counts accesses only, and `ShortLivesLocked`
  follows the code.

## 5. Proofs

Every theorem holds for all values of the constants that satisfy the `ASSUME`s of its module
(for jeff: positive sizes, a heap size below 2^32, `MaxHeader` large enough for the heap;
the other modules assume as little). Each proof has the same form: an inductive invariant,
one lemma per action (or group of alike actions) that it is kept, and theorems that follow
from it.

| module | theorem | property |
|---|---|---|
| `JeffProofs` | `TypeCorrect`, `LockedStay` | `TypeOK`, `CompactKeepsLocked` |
| `JeffHeapProofs` | `BlocksCoverHeap`, `NoHandleLost`, `SortedBetweenPasses`, `SlotsStayExact`, `NothingLeftUndone` | `BlocksTile`, `HandlesListed`, `SortedInPass`, `SlotsExact`, `CompactedFully` |
| `JeffClientProofs` | `BytesStay`, `PointersStay`, `JeffIsRelocHeap` | `ContentsKept`, `LockedPinned`, `ImplementsRelocHeap` |
| `JeffClientProofs` | `PromiseSuffices` | of `RelocHeap`: handles in use never share a byte, keep their contents, and stay where they are while pinned (`ClientRelies`, `ClientKeeps`) |
| `JeffClientProofs` | `HeadersApart`, `NothingGoesWrong` (with hypotheses) | `HeadersAboveBlocks`, `NoFaultWithoutCompact` |
| `ListSortProofs` | `NothingLost`, `EveryRunSorted`, `SortsStably` | `NoneLost`, `RunsSorted`, `SortedStable` |
| `BuddyProofs` | `BuddyTypes`, `MemoryTiled`, `HeldApart`, `SplitsUndone` | `TypeOK`, `LeavesTile`, `HeldSafeIfClean`, `MergedBackIfClean` |
| `SteveProofs` | `TypeCorrect`, `TablesStayTrue`, `FreesOwn`, `UsedSpace`, `LocksSafe`, `LocksAsTraced`, `ColorsRight` | `TypeOK`, `TablesAgree`, `FreeOnlyOwn`, `UsedSpaceExact`, `LocksReachLive`, `LocksFollowTrace`, `ColorsExact` |
| `MemTraceProofs` | `TypeCorrect`, `LiveBlocksFound`, `NoStaleEntries`, `AccessesRecorded`, `LivesTold` | `TypeOK`, `LiveMapped`, `NothingStale`, `AccessesAttributed`, `OpsTellLives` |
| `MemTraceProofs` | `FilesCanBeReplayed`, `AccessesAreLocked`, `ShortLivesAreLocked` (of `LockOps`) | `FilesReplayable`, `AccessesLocked`, `ShortLivesLocked` |

### Jeff

`JeffProofs`. `TypeOK` is not inductive: whether `list[f1]` or `list[cur]` is a header
depends on where the ranges lie. `Inv == TypeOK /\ RangesOK`, where `RangesOK` says, per
value of `pc`, that the free range is not empty and consists of free blocks, that the
unlocked range lies behind it, consists of unlocked blocks and is not empty once the move
begins. The two non-emptiness facts come from the guards of the steps before:
`get_free_header_range` accepts at least the block it stopped at (`FreeRangeNotEmpty`), and
the search for an unlocked block stops only at one that fits (`UnlockedBeginsInv`,
`UnlockedRangeDoneInv`). That sorting keeps the list a list of headers needs a counting
argument (`SortedOnto`). `LockedStay` follows: the headers `MoveBlock` and `RelinkExtend`
write are in the unlocked range, the one `Recycle` reuses is free, a spare header is not in
the list, and `Finish` clears free headers only.

`JeffHeapProofs` strengthens `Inv` to `HInv`:

- `HandlesListed`, and `BlocksTile` between calls. Inside `rm_compact` `SortedTile` takes its
  place: the list is sorted, and every block ends where the next one begins. `At(i)` is where
  block `i` was when the pass began: in the middle of a move, the blocks before `cur` have
  already been shifted by `used_offset` and the tiling only holds with the shift undone.
- `SizesOK`: `free_size`, `unlocked_size` and `used_offset` are the lengths and distances of
  the ranges. With it the three ways of relinking can be seen to give a tiling again.
- `BlocksOK`: a block can hold a `free_memory_block_t`; a header without memory is in the
  list only if it is alone there, which is how the heap looks at first and after everything
  was freed and compacted. `UnusedOK`: at most one unused header, without memory. This is
  what `header_set_unused` leaves, and why a header that is found free is not in the list.
- `SlotsOK`: a slot holds free blocks of the list, once and in their size class. A malloc that
  splits a free block depends on it for `BlocksTile`, so it cannot be left for later.

`NothingLeftUndone` needs, beside `HInv`, an invariant of the passes of a call without a time
limit (`PassOK`): up to `root`, and from the free range down, no unlocked block lies directly
above a free one (`Squeezed`), and the block directly below the free range is not free. The
second part is why a move does not undo an earlier pass: the blocks it brings down land above a
used one. A pass that gives up a free range keeps it because the block directly above the
range is then a locked one: an unlocked block there always fits, whatever its size. `Finish` cuts the list behind the last
used block; if nothing is locked and a free block were left, the least used block above it
would be an unlocked block directly above a free one (`FinishPasses`).

`JeffClientProofs` adds to `CInv`: the bytes of every held handle, also between two `memmove`s
(`DataOK`), the range of the heap (`SpaceOK`), and that a pointer the client has goes with a
lock type (`PinsOK`), since `rm_compact` looks at the type and not at who locked. Every step
is seen in one of four views (nothing the client sees changes; a handle is obtained; one is
returned; one block moves down); the views are used both for `CInv` and for the refinement,
where they are a stutter, `Alloc`, `Free` and `Move` of `RelocHeap`. That a `memmove` of
overlapping ranges downwards puts every byte in place rests on the tiling above.

`HeadersApart` has the hypothesis `memory_bottom < HeaderAddr(1)`: the heap given to `rm_init`
has room for the slots and two headers, which the code takes for granted. It is about
`memory_top` and `header_bottom` only; that blocks stay off headers below `header_bottom` is
false (`jeff_BlocksClearOfHeaders`). `NothingGoesWrong` is about behaviours in which
`rm_compact` is never called (section 4 shows what happens otherwise), and has the hypothesis
that no request is as large as 2^`free_block_slot_count` (`compact.c:755`). Its invariant
`Calm` says that all headers ever used are at `header_bottom` or above it, which only
`rm_compact` breaks.

### ListSort

The invariant says that there is a sequence `W` of all headers, each once (`Perm`), of which
the first `d` are merged in this pass, the next `psize` are what is left of the first run, and
the rest follows `q`; `next` leads along `W` except at the two cuts (`Linked`). `W` is fixed
while `p` is taken; taking `q` moves its header before what is left of the first run (`Moved`).
Order: runs before the current pair are merged (`Before`), runs after it are sorted (`After`),
and within the pair all is in order except that the rest of the first run may be larger than
the second (`Region`). `Stable` is kept apart from the order by address: equal addresses are
in their old order anywhere in the list, at any time, not only within runs. That is why ties
taken from `p` first suffice. That following `next` finds `W` (`ChainIs`) is an induction.
`SortsStably` counts: a header has as many headers before it as its position says.

### Buddy

A chunk is at most 2^`RootK` units; `chunk_size` is a recursive function, which the provers
know nothing of until it is shown to exist (`PowersExist`, `ChunkSizeDef`, by induction). The
invariant describes the lines, as long as no merge faulted (the condition `HeldApart` and
`SplitsUndone` state, and which they cannot do without), as a binary tree of nibbles
(`Tree`: a split nibble has two children on the line below that share a chunk, leaves do not
overlap; `Family`: every chunk but the root's has a split parent, which `parent_chunk` will
find) with the used leaves being those the client holds (`HeldOK`). Both are stated over
constants, and the lemmas about splitting a leaf and joining two siblings are about trees,
not lines; the actions are then shown to do that. `InHeap` is kept after faults as well:
`TypeOK` says addresses stay in the heap whatever happens.

### Steve

`IInv` has to say why tables, trace and allocator agree although the trace is read again
with shifted handles and killed at random:

- the trace is well-formed and `highest_handle_no` belongs to it (`TraceOK`, `HighestOK`),
  which part of the program runs in which mode (`ControlOK`), how large handle numbers get
  (`BoundsOK`), live blocks lie apart (`HeapOK`);
- the tables (`TablesOK`): numbers above those of this pass are fresh (`FreshOK`); what lines
  of this pass may still free is their own block or none (`ReuseOK`), with one exception: the
  number that two passes share may have a stale entry until its N line; the last handle opened
  (`LastOK`) is the one memplot's leftover line, executed again after a rewind, refers to;
  handles open in the trace have a block (`OpenOK`);
- counters and marks: `UsedOK` (the counter is raised before the malloc has succeeded, so it
  is ahead while the allocator compacts), `PeakOK` (blocks and owners correspond one to one,
  locks are those of the trace), `ColorsOK`.

`Handles` is bounded by a constant expression so that `TypeOK` is a statement about how fast
handle numbers grow; `UsedSpaceExact` counts occupied words instead of summing sizes, which
is the same while live blocks lie apart.

### MemTrace

One invariant, `IInv`, for four theorems. `LiveMapped` alone is not inductive: freeing an
empty block, or one that `realloc` has moved, deletes entries at an address the dictionary
may have for something else. `EntriesOwn` strengthens it to: the id of a live block is
entered at its bytes *and nowhere else*. Then, since live blocks lie apart (`Apart`), an entry
at the freed address is never of another live block, and `remove` deletes entries of one id
only. All entries are below a fresh id (`TypeOK`), so `append` disturbs no other block.
`WindowSpans` (the tracer's window spans the live blocks with an N line) is what
`AccessesRecorded` needs in addition. `LivesTold` has an invariant of its own, `LInv`: every
id has one N line, before its others, and its F line, if any, is the last one and tells
whether its block is gone. `SizesTold` (the N line tells the size of a live block) is there
because an empty block is freed without an F line.

### LockOps

`LockSpec` implements the `Spec` of `MemTrace`, so `LivesTold` holds of the list the tools
read; `Told` is what it says of a trace without `realloc`: one N line per block, in the order
of the ids, before all of the block's lines, and at most one F line, after them. The invariant
is that the two files are what the tools make of the list (`Outputs`). The rest is about what
that is:

- A file is a sequence of parts, one per operation, joined. `Written` relates a file to its
  parts: the k-th line of part i is at `at[i][k]`, each line of the file is one of these, and
  they are in the order of (i, k). `FlattenWritten` shows this of `FlattenSeq`, by induction
  over the number of parts. All that follows argues with positions only.
- `Copies` says what a part may hold: N and F lines are copied, and a lock or unlock is
  written during the block's life. Both translations satisfy it (`LockopsCopies`,
  `LockopsfullCopies`), and it implies both halves of `FilesReplayable` (`CopiesNumbered`, by
  a bijection between the N lines before a position and the smaller ids; `CopiesInLife`).
- `AccessesAreLocked`: `Turns` are the operations at which the level leaves or reaches 0.
  Between two turns it is 0 or positive throughout (`Steady`). At an access the level is
  positive, so the last turn before it is an L line; as the block is not overridden, each turn
  has its line (`TurnWritten`) and each L or U line its turn (`LineTurned`).
- `ShortLivesAreLocked`: the tally of `lifetime_ops` is `Right` after each operation, by
  induction over the list: it says whether the block is alive, and counts the accesses of the
  block (`OwnTo`) and of others (`OtherTo`) since its N line.

A block may be overridden (see `Overridden`); nothing is claimed of its locks, and
`FilesReplayable` holds of it all the same.

### How induction is done

The library's induction theorems have an operator as parameter, which the provers cannot
instantiate. `NumberFacts` derives the least-number principle and induction in the form "a
set of numbers with 0 and closed under successor is `Nat`" from the well-foundedness of
strict inclusion on finite sets; a set can be defined by comprehension where it is needed.
`Recursion` shows that a function computed step by step from 0 on exists, which is what the
recursive functions of `LockOps` (`Life`, `lifetime_ops`) need before anything can be said of
their values.

### Only model-checked

- `CompactTerminates`, `Terminates`: liveness under fairness is out of the prover's reach.

Every invariant and action property that a passing run checks is stated by a theorem,
`HeadersAboveBlocks` and `NoFaultWithoutCompact` under the hypotheses given above.

No module declares a RECURSIVE operator.


## 6. Not modelled

- jeff: code under `RMALLOC_DEBUG` and `#if 0`; `rm_get_state`, `rm_set_state` (switching
  between heaps); the `rm_stat_*` functions, which change nothing. Values stored by the
  client are not modelled, only which byte they belong to. Integer widths do not matter in
  jeff: all sizes are bounded by the heap size, and requests by `int`.
- buddy: `up2` and `log2` on the heap size (the constant `RootK` is their result);
  `bdestroy`.
- steve: timers and result files; `scan_block_sizes` and the fragmentation statistics;
  `scan_heap_update_colormap`, which finds the allocator's overhead by what is written in
  the heap; allocations of size 0; the drivers for other allocators.
- memtrace: the histogram tool and the plots.
- Third-party code. Two copies of valgrind, tcmalloc, jemalloc and dlmalloc are nearly all of
  the repository's 1.09 million lines. Only the code this repository added to
  memcheck is its own and is modelled; the project covers the allocators, the benchmark and
  its tools, which are a few thousand lines.

## 7. Plan

All invariants and action properties are proved (two under hypotheses); what is left to TLC is liveness. Parts that
could be modelled next are the ones listed as partly modelled in `PROJECT.json`: the
fragmentation statistics of jeff and of steve (`scan_block_sizes`), and the drivers of the
other allocators, which differ from jeff's in that nothing moves.
