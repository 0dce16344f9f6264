-------------------------------- MODULE Steve --------------------------------
(***************************************************************************)
(* steve, the trace-driven benchmark (src/src/steve/plot.cpp), on top of   *)
(* its driver for rmalloc (src/src/steve/drivers/plot_rmalloc.cpp) and an  *)
(* allocator of which only the promise RelocHeap is known.                 *)
(*                                                                         *)
(* A file of operations is replayed line by line.  peakmem reads it once;  *)
(* allocstats and memplot start over at its end, with the handles shifted  *)
(* by the highest handle number, allocstats until OpLimit operations are   *)
(* done and after it has freed some handles at random.                     *)
(*                                                                         *)
(* Sizes and addresses count words.  NULL pointers are -1.                 *)
(***************************************************************************)
EXTENDS Integers, Sequences, FiniteSets, FiniteSetsExt, SequencesExt

CONSTANTS
    Modes,          \* the operation modes to start in
    HeapSize,       \* words of the heap
    Sizes,          \* sizes of the blocks the trace asks for
    Blocks,         \* numbers of the allocator's handles
    TraceHandles,   \* bound on the handles of a trace
    MaxLines,       \* bound on the lines of a trace
    MaxRewinds,     \* bound on how often memplot, which never ends, starts over
    KillPercent,    \* g_killpercent in percent
    OpLimit         \* g_oplimit

AllModes == {"peakmem", "allocstats", "memplot"}

ASSUME ModesKnown == Modes \subseteq AllModes
ASSUME SizesFit == HeapSize \in Nat /\ Sizes \subseteq 1..HeapSize
ASSUME BlocksNumbered == Blocks \subseteq Nat
ASSUME BoundsNat == {TraceHandles, MaxLines, MaxRewinds, KillPercent, OpLimit} \subseteq Nat
ASSUME SomeHandle == TraceHandles # 0

NULL == -1
\* Every rewind shifts the handles by less than TraceHandles; memplot rewinds
\* MaxRewinds times and allocstats at most once per operation
Handles == 0..((MaxRewinds + OpLimit + 1) * TraceHandles)
Words == 0..(HeapSize - 1)
Colors == {"white", "red", "green"}

VARIABLES
    \* the operations file
    file,                \* its lines, as far as they have been read
    closed,              \* its end has been seen
    \* locals of the alloc_driver functions
    mode, pc,
    pos,                 \* lines read since the last rewind
    line,                \* the buffer, which keeps the last line read at the end
    handle, highest_handle_no, handle_offset, current_op,
    used,                \* current_used_space; in peakmem theo_used
    killed, rewinds,
    \* tables of plot.cpp: 0 and NULL stand for a missing entry
    g_handles, g_sizes, g_handle_to_address,
    colormap,
    \* table of the driver, and g_has_compacted
    g_handle_to_block, g_has_compacted,
    \* the allocator, see RelocHeap
    len, addr, pinned,
    top,                 \* end of the memory handed out since the last compaction
    owner,               \* ghost: the handle a block was allocated for
    fault                \* ghost: undefined behaviour the program has run into

fileVars == <<file, closed, pos, line>>
tableVars == <<g_handles, g_sizes, g_handle_to_address>>
heapVars == <<len, addr, pinned, top, owner>>
countVars == <<highest_handle_no, handle_offset, killed, rewinds>>
vars == <<fileVars, mode, pc, handle, countVars, current_op, used, tableVars, colormap,
          g_handle_to_block, g_has_compacted, heapVars, fault>>

Heap == INSTANCE RelocHeap WITH
            Handles <- Blocks, Space <- Words,
            data <- [b \in Blocks |-> owner[b]]

Live == {b \in Blocks : len[b] > 0}
BlockWords(a, size) == a..(a + size - 1)
Occupied == UNION {BlockWords(addr[b], len[b]) : b \in Live}

-----------------------------------------------------------------------------
(* The operations file: what the trace tools write.  Handles are numbered in *)
(* the order of their N lines and not used before it or after their F line.  *)

Line(op, h, size) == [op |-> op, h |-> h, size |-> size]

Opened == {l.h : l \in {k \in Range(file) : k.op = "N"}}
Alive == Opened \ {l.h : l \in {k \in Range(file) : k.op = "F"}}

\* The lines that may come next; S stands for S and M
NextLines ==
    {Line("N", Cardinality(Opened), size) :
        size \in {s \in Sizes : Cardinality(Opened) < TraceHandles}}
    \cup {Line(op, h, 0) : op \in {"F", "L", "U", "S"}, h \in Alive}
    \cup {Line("#", 0, 0)}

-----------------------------------------------------------------------------
(* Allocator and driver *)

\* Where a block of that size may be placed: at the top or in a gap below it
Places(size) ==
    {a \in 0..top : /\ BlockWords(a, size) \subseteq Words \ Occupied
                    /\ a = top \/ a + size <= top}

\* The allocator may fail when there is no room at the top or no handle left
MayFail(size) == top + size > HeapSize \/ Live = Blocks

\* The allocator's handles it may return; those never used are alike
FreeBlocks ==
    LET fresh == {b \in Blocks \ Live : owner[b] = NULL}
    IN  {b \in Blocks \ Live : owner[b] # NULL \/ b = Min(fresh)}

\* Mutant: the driver keeps the entry it has for a handle
user_malloc_keep(size, h, b, a) ==
    /\ len' = [len EXCEPT ![b] = size]
    /\ addr' = [addr EXCEPT ![b] = a]
    /\ owner' = [owner EXCEPT ![b] = h]
    /\ top' = Max({top, a + size})
    /\ UNCHANGED pinned
    /\ Heap!Alloc(b)
    /\ g_handle_to_block' = IF h \in Handles /\ g_handle_to_block[h] = NULL THEN [g_handle_to_block EXCEPT ![h] = b]
                            ELSE g_handle_to_block

\* user_malloc(size, handle): the allocator takes a block it has not handed out
user_malloc(size, h, b, a) ==
    /\ len' = [len EXCEPT ![b] = size]
    /\ addr' = [addr EXCEPT ![b] = a]
    /\ owner' = [owner EXCEPT ![b] = h]
    /\ top' = Max({top, a + size})
    /\ UNCHANGED pinned
    /\ Heap!Alloc(b)
    /\ g_handle_to_block' = IF h \in Handles THEN [g_handle_to_block EXCEPT ![h] = b]
                            ELSE g_handle_to_block

\* user_free(ptr, handle): frees the driver's block, whatever ptr is; the
\* allocator ignores NULL and blocks that are free already
user_free(h) ==
    LET b == g_handle_to_block[h] IN
    IF b = NULL \/ b \notin Live THEN UNCHANGED heapVars
    ELSE /\ len' = [len EXCEPT ![b] = 0]
         /\ pinned' = pinned \ {b}
         /\ UNCHANGED <<addr, top, owner>>
         /\ Heap!Free(b)

\* A lock or unlock through NULL or of a free block corrupts the allocator
BadBlock(b) == IF b = NULL THEN "null" ELSE IF b \notin Live THEN "freed" ELSE "none"

\* full_compact, one block at a time: a block that is not locked moves down
MoveBlock ==
    /\ pc \in {"oom", "oom_maxmem", "final"}
    /\ \E b \in Live \ pinned : \E a \in 0..(addr[b] - 1) :
        /\ addr' = [addr EXCEPT ![b] = a]
        /\ UNCHANGED <<len, pinned, top, owner>>
        /\ Heap!Move(b)
    /\ UNCHANGED <<fileVars, mode, pc, handle, countVars, current_op, used, tableVars,
                   colormap, g_handle_to_block, g_has_compacted, fault>>

\* user_handle_oom returns
CompactEnds ==
    /\ pc \in {"oom", "oom_maxmem", "final"}
    /\ pc' = CASE pc = "oom" -> "retry" [] pc = "oom_maxmem" -> "maxmem_again"
               [] pc = "final" -> "done"
    /\ top' = IF Occupied = {} THEN 0 ELSE Max(Occupied) + 1
    /\ g_has_compacted' = TRUE
    /\ UNCHANGED <<fileVars, mode, handle, countVars, current_op, used, tableVars, colormap,
                   g_handle_to_block, len, addr, pinned, owner, fault>>

-----------------------------------------------------------------------------
(* The colour map *)

\* register_op: words of the block are known used or known free
register_op(map, color, a, size) ==
    [w \in Words |-> IF a # NULL /\ w \in BlockWords(a, size) THEN color ELSE map[w]]

\* recalculate_colormap_from_current_live_handles, from the tables and the
\* addresses after the step
Recalculated ==
    [w \in Words |->
        IF \E h \in Handles : /\ g_sizes'[h] # 0
                              /\ w \in BlockWords(addr'[g_handles'[h]], g_sizes'[h])
          THEN "red" ELSE "white"]

-----------------------------------------------------------------------------
(* Reading *)

Init ==
    /\ file = <<>> /\ closed = FALSE
    /\ mode \in Modes /\ pc = "read"
    /\ pos = 0 /\ line = Line("#", 0, 0) /\ handle = 0
    /\ highest_handle_no = 0 /\ handle_offset = 0 /\ current_op = 0 /\ used = 0
    /\ killed = 0 /\ rewinds = 0
    /\ g_handles = [h \in Handles |-> NULL]
    /\ g_sizes = [h \in Handles |-> 0]
    /\ g_handle_to_address = [h \in Handles |-> NULL]
    /\ colormap = [w \in Words |-> "white"]
    /\ g_handle_to_block = [h \in Handles |-> NULL]
    /\ g_has_compacted = FALSE
    /\ len = [b \in Blocks |-> 0] /\ addr = [b \in Blocks |-> 0]
    /\ pinned = {} /\ top = 0 /\ owner = [b \in Blocks |-> NULL]
    /\ fault = "none"

\* Mutant: the highest handle grows with the offset
ReadLine_offset ==
    /\ pc = "read"
    /\ \/ /\ pos < Len(file)
          /\ line' = file[pos + 1]
          /\ UNCHANGED file
       \/ /\ pos = Len(file) /\ ~closed /\ Len(file) < MaxLines
          /\ line' \in NextLines
          /\ file' = Append(file, line')
    /\ pos' = pos + 1
    /\ IF line'.op = "#"
         THEN UNCHANGED <<pc, handle, highest_handle_no>>
         ELSE /\ pc' = "op"
              /\ handle' = line'.h + handle_offset
              /\ highest_handle_no' = Max({handle', highest_handle_no})
    /\ UNCHANGED <<closed, mode, handle_offset, killed, rewinds, current_op, used, tableVars,
                   colormap, g_handle_to_block, g_has_compacted, heapVars, fault>>

\* fgets and sscanf: the next line of the file, comments are skipped
ReadLine ==
    /\ pc = "read"
    /\ \/ /\ pos < Len(file)
          /\ line' = file[pos + 1]
          /\ UNCHANGED file
       \/ /\ pos = Len(file) /\ ~closed /\ Len(file) < MaxLines
          /\ line' \in NextLines
          /\ file' = Append(file, line')
    /\ pos' = pos + 1
    /\ IF line'.op = "#"
         THEN UNCHANGED <<pc, handle, highest_handle_no>>
         ELSE /\ pc' = "op"
              /\ handle' = line'.h + handle_offset
              /\ highest_handle_no' = IF handle_offset = 0 THEN Max({handle', highest_handle_no})
                                      ELSE highest_handle_no
    /\ UNCHANGED <<closed, mode, handle_offset, killed, rewinds, current_op, used, tableVars,
                   colormap, g_handle_to_block, g_has_compacted, heapVars, fault>>

AtEof == pc = "read" /\ pos = Len(file) /\ file # <<>>

\* peakmem stops at the end, after a last compaction
EofPeakmem ==
    /\ mode = "peakmem" /\ AtEof
    /\ closed' = TRUE
    /\ pc' = "final"
    /\ UNCHANGED <<file, pos, line, mode, handle, countVars, current_op, used, tableVars,
                   colormap, g_handle_to_block, g_has_compacted, heapVars, fault>>

\* A kill percentage of 100'000 stands for one round of the file; g_killpercent
\* is the percentage over 100
KILLPERCENT_FOR_NOT_REWINDING == 1000
Rewinding == KillPercent < 100 * KILLPERCENT_FOR_NOT_REWINDING

\* Mutant: the loop does not ask for the end of the file
EofAllocstats_spin ==
    /\ mode = "allocstats" /\ AtEof
    /\ closed' = TRUE
    /\ IF line.op = "#" \/ ~Rewinding THEN pc' = "spin" /\ UNCHANGED pos
       ELSE pc' = "kill" /\ pos' = 0
    /\ UNCHANGED <<file, line, mode, handle, countVars, current_op, used, tableVars,
                   colormap, g_handle_to_block, g_has_compacted, heapVars, fault>>

\* allocstats kills some handles and rewinds, unless it is told not to or the
\* buffer still holds a comment: the loop goes on to its condition, which ends it
EofAllocstats ==
    /\ mode = "allocstats" /\ AtEof
    /\ closed' = TRUE
    /\ IF line.op = "#" \/ ~Rewinding THEN pc' = "done" /\ UNCHANGED pos
       ELSE pc' = "kill" /\ pos' = 0
    /\ UNCHANGED <<file, line, mode, handle, countVars, current_op, used, tableVars,
                   colormap, g_handle_to_block, g_has_compacted, heapVars, fault>>

\* memplot rewinds, and executes the line left in the buffer with the new
\* offset; a comment left there is skipped for ever
EofMemplot ==
    /\ mode = "memplot" /\ AtEof
    /\ closed' = TRUE
    /\ IF line.op = "#"
         THEN pc' = "spin" /\ UNCHANGED <<pos, handle, handle_offset, rewinds>>
         ELSE /\ rewinds < MaxRewinds
              /\ rewinds' = rewinds + 1
              /\ pc' = "op" /\ pos' = 0
              /\ handle_offset' = handle_offset + highest_handle_no
              /\ handle' = line.h + handle_offset'
    /\ UNCHANGED <<file, line, mode, highest_handle_no, killed, current_op, used, tableVars,
                   colormap, g_handle_to_block, g_has_compacted, heapVars, fault>>

-----------------------------------------------------------------------------
(* Killing handles before allocstats rewinds *)

Sized == {h \in Handles : g_sizes[h] > 0}
KillCount == (handle * KillPercent) \div 100

\* Mutant: the size of a killed handle stays in its table
KillHandle_keepsize ==
    /\ pc = "kill" /\ killed < KillCount
    /\ \E h \in Sized : \E g \in Sized :
        /\ h < g
        /\ used' = used - g_sizes[h]
        /\ user_free(h)
        /\ UNCHANGED g_sizes
        /\ g_handles' = [g_handles EXCEPT ![h] = NULL]
        /\ g_handle_to_address' = [g_handle_to_address EXCEPT ![h] = NULL]
    /\ killed' = killed + 1
    /\ UNCHANGED <<fileVars, mode, pc, handle, highest_handle_no, handle_offset, rewinds,
                   current_op, colormap, g_handle_to_block, g_has_compacted, fault>>

\* Mutant: killed handles still count as used
KillHandle_used ==
    /\ pc = "kill" /\ killed < KillCount
    /\ \E h \in Sized : \E g \in Sized :
        /\ h < g
        /\ UNCHANGED used
        /\ user_free(h)
        /\ g_sizes' = [g_sizes EXCEPT ![h] = 0]
        /\ g_handles' = [g_handles EXCEPT ![h] = NULL]
        /\ g_handle_to_address' = [g_handle_to_address EXCEPT ![h] = NULL]
    /\ killed' = killed + 1
    /\ UNCHANGED <<fileVars, mode, pc, handle, highest_handle_no, handle_offset, rewinds,
                   current_op, colormap, g_handle_to_block, g_has_compacted, fault>>

\* One turn of the loop: rand() % (rand() % size) is never the last entry
KillHandle ==
    /\ pc = "kill" /\ killed < KillCount
    /\ \E h \in Sized : \E g \in Sized :
        /\ h < g
        /\ used' = used - g_sizes[h]
        /\ user_free(h)
        /\ g_sizes' = [g_sizes EXCEPT ![h] = 0]
        /\ g_handles' = [g_handles EXCEPT ![h] = NULL]
        /\ g_handle_to_address' = [g_handle_to_address EXCEPT ![h] = NULL]
    /\ killed' = killed + 1
    /\ UNCHANGED <<fileVars, mode, pc, handle, highest_handle_no, handle_offset, rewinds,
                   current_op, colormap, g_handle_to_block, g_has_compacted, fault>>

\* Enough are killed, or rand() % size is 0
KillEnds ==
    /\ pc = "kill"
    /\ killed >= KillCount \/ Sized # {}
    /\ pc' = "read"
    /\ handle_offset' = handle_offset + highest_handle_no
    /\ killed' = 0
    /\ UNCHANGED <<fileVars, mode, handle, highest_handle_no, rewinds, current_op, used,
                   tableVars, colormap, g_handle_to_block, g_has_compacted, heapVars, fault>>

\* rand() % 0 when every handle has been freed
KillDivides ==
    /\ pc = "kill" /\ killed < KillCount /\ Sized = {}
    /\ fault' = "div0"
    /\ UNCHANGED <<fileVars, mode, pc, handle, countVars, current_op, used, tableVars, colormap,
                   g_handle_to_block, g_has_compacted, heapVars>>

-----------------------------------------------------------------------------
(* Operations *)

\* allocstats has done its operations and goes on to measure
AfterOp == IF mode = "allocstats" /\ current_op + 1 > OpLimit THEN "maxmem" ELSE "read"

\* Mutant: outside memplot the pointer is not stored after a retry
Commit_retry(b, a, retried) ==
    /\ g_handles' = IF retried /\ mode # "memplot" THEN g_handles
                      ELSE [g_handles EXCEPT ![handle] = b]
    /\ g_sizes' = [g_sizes EXCEPT ![handle] = line.size]
    /\ g_handle_to_address' = [g_handle_to_address EXCEPT ![handle] =
                                  IF retried /\ mode = "allocstats" THEN NULL ELSE a]
    /\ colormap' = IF mode # "memplot" THEN colormap
                   ELSE IF retried THEN Recalculated
                   ELSE register_op(colormap, "red", a, line.size)
    /\ pc' = AfterOp
    /\ current_op' = current_op + 1

\* The tables and colours once a block is allocated; allocstats passes no
\* memaddress to the second attempt
Commit(b, a, retried) ==
    /\ g_handles' = [g_handles EXCEPT ![handle] = b]
    /\ g_sizes' = [g_sizes EXCEPT ![handle] = line.size]
    /\ g_handle_to_address' = [g_handle_to_address EXCEPT ![handle] =
                                  IF retried /\ mode = "allocstats" THEN NULL ELSE a]
    /\ colormap' = IF mode # "memplot" THEN colormap
                   ELSE IF retried THEN Recalculated
                   ELSE register_op(colormap, "red", a, line.size)
    /\ pc' = AfterOp
    /\ current_op' = current_op + 1

\* case 'N': the size is counted before the allocation is tried
OpNew ==
    /\ pc = "op" /\ line.op = "N"
    /\ used' = IF mode = "memplot" THEN used ELSE used + line.size
    /\ \/ \E b \in FreeBlocks, a \in Places(line.size) :
            /\ user_malloc(line.size, handle, b, a)
            /\ Commit(b, a, FALSE)
       \/ /\ MayFail(line.size)
          /\ pc' = "oom"
          /\ UNCHANGED <<current_op, tableVars, colormap, g_handle_to_block, heapVars>>
    /\ UNCHANGED <<fileVars, mode, handle, countVars, g_has_compacted, fault>>

\* the second attempt, after user_handle_oom; if it fails the program ends
Retry ==
    /\ pc = "retry"
    /\ \/ \E b \in FreeBlocks, a \in Places(line.size) :
            /\ user_malloc(line.size, handle, b, a)
            /\ Commit(b, a, TRUE)
       \/ /\ MayFail(line.size)
          /\ pc' = "exit"
          /\ UNCHANGED <<current_op, tableVars, colormap, g_handle_to_block, heapVars>>
    /\ UNCHANGED <<fileVars, mode, handle, countVars, used, g_has_compacted, fault>>

\* Mutant: the size is cleared before the block is painted
OpFree_order ==
    /\ pc = "op" /\ line.op = "F"
    /\ used' = IF mode = "allocstats" THEN used - g_sizes[handle] ELSE used
    /\ g_sizes' = [g_sizes EXCEPT ![handle] = 0]
    /\ colormap' = IF mode # "memplot" THEN colormap
                   ELSE register_op(colormap, "green", g_handle_to_address[handle], g_sizes'[handle])
    /\ user_free(handle)
    /\ g_handles' = IF mode = "memplot" THEN g_handles ELSE [g_handles EXCEPT ![handle] = NULL]
    /\ g_handle_to_address' = IF mode # "peakmem" THEN g_handle_to_address
                              ELSE [g_handle_to_address EXCEPT ![handle] = NULL]
    /\ pc' = AfterOp
    /\ current_op' = current_op + 1
    /\ UNCHANGED <<fileVars, mode, handle, countVars, g_handle_to_block, g_has_compacted, fault>>

\* case 'F': memplot keeps its pointer and paints what the table says the
\* address is; peakmem and allocstats clear the entry
OpFree ==
    /\ pc = "op" /\ line.op = "F"
    /\ used' = IF mode = "allocstats" THEN used - g_sizes[handle] ELSE used
    /\ colormap' = IF mode # "memplot" THEN colormap
                   ELSE register_op(colormap, "green", g_handle_to_address[handle], g_sizes[handle])
    /\ user_free(handle)
    /\ g_sizes' = [g_sizes EXCEPT ![handle] = 0]
    /\ g_handles' = IF mode = "memplot" THEN g_handles ELSE [g_handles EXCEPT ![handle] = NULL]
    /\ g_handle_to_address' = IF mode # "peakmem" THEN g_handle_to_address
                              ELSE [g_handle_to_address EXCEPT ![handle] = NULL]
    /\ pc' = AfterOp
    /\ current_op' = current_op + 1
    /\ UNCHANGED <<fileVars, mode, handle, countVars, g_handle_to_block, g_has_compacted, fault>>

\* Mutant: peakmem takes L for an access, too
OpLock_access ==
    /\ pc = "op" /\ line.op \in {"L", "U", "S"}
    /\ LET b == g_handles[handle]
           nothing == mode = "peakmem" /\ line.op = "S"
           locks == FALSE
       IN  /\ fault' = IF nothing THEN fault ELSE BadBlock(b)
           /\ pinned' = IF nothing THEN pinned
                        ELSE IF locks THEN pinned \cup {b} ELSE pinned \ {b}
    /\ pc' = "read"
    /\ UNCHANGED <<fileVars, mode, handle, countVars, current_op, used, tableVars, colormap,
                   g_handle_to_block, g_has_compacted, len, addr, top, owner>>

\* cases 'A', 'L' and 'U': memplot and allocstats take L, M and S for accesses,
\* which lock and unlock; to peakmem L is a lock, and M and S are nothing
OpLock ==
    /\ pc = "op" /\ line.op \in {"L", "U", "S"}
    /\ LET b == g_handles[handle]
           nothing == mode = "peakmem" /\ line.op = "S"
           locks == mode = "peakmem" /\ line.op = "L"
       IN  /\ fault' = IF nothing THEN fault ELSE BadBlock(b)
           /\ pinned' = IF nothing THEN pinned
                        ELSE IF locks THEN pinned \cup {b} ELSE pinned \ {b}
    /\ pc' = "read"
    /\ UNCHANGED <<fileVars, mode, handle, countVars, current_op, used, tableVars, colormap,
                   g_handle_to_block, g_has_compacted, len, addr, top, owner>>

-----------------------------------------------------------------------------
(* calculate_maxmem *)

MAXMEM_STEP == 2
g_theoretical_free_space == HeapSize - used

\* Ever smaller blocks are tried, each under a handle number of its own
MaxMemFound ==
    /\ pc \in {"maxmem", "maxmem_again"}
    /\ \E i \in 0..HeapSize :
        LET size == g_theoretical_free_space - i * MAXMEM_STEP IN
        /\ size > 0
        /\ \E b \in FreeBlocks, a \in Places(size) :
              user_malloc(size, g_theoretical_free_space - i, b, a)
    /\ pc' = "done"
    /\ UNCHANGED <<fileVars, mode, handle, countVars, current_op, used, tableVars, colormap,
                   g_has_compacted, fault>>

\* None fits; after an N there is a second try behind a compaction
MaxMemNone ==
    /\ pc \in {"maxmem", "maxmem_again"}
    /\ pc' = IF pc = "maxmem" /\ line.op = "N" THEN "oom_maxmem" ELSE "done"
    /\ \A i \in 0..HeapSize : g_theoretical_free_space - i * MAXMEM_STEP > 0
                              => MayFail(g_theoretical_free_space - i * MAXMEM_STEP)
    /\ UNCHANGED <<fileVars, mode, handle, countVars, current_op, used, tableVars, colormap,
                   g_handle_to_block, g_has_compacted, heapVars, fault>>

Next ==
    /\ fault = "none"
    /\ \/ ReadLine \/ EofPeakmem \/ EofAllocstats \/ EofMemplot
       \/ KillHandle \/ KillEnds \/ KillDivides
       \/ OpNew \/ MoveBlock \/ CompactEnds \/ Retry \/ OpFree \/ OpLock
       \/ MaxMemFound \/ MaxMemNone

\* The program is one thread, which runs until it ends
Spec == Init /\ [][Next]_vars /\ WF_vars(Next)

-----------------------------------------------------------------------------
(* Properties *)

\* Tables, counters and the allocator have the types the program gives them.
TypeOK ==
    /\ mode \in Modes
    /\ pc \in {"read", "op", "oom", "retry", "kill", "maxmem", "oom_maxmem", "maxmem_again",
               "final", "spin", "done", "exit"}
    /\ handle \in Handles /\ highest_handle_no \in 0..(TraceHandles - 1)
    /\ handle_offset \in Handles /\ current_op \in Nat
    /\ used \in Nat
    /\ g_handles \in [Handles -> Blocks \cup {NULL}]
    /\ g_handle_to_block \in [Handles -> Blocks \cup {NULL}]
    /\ g_sizes \in [Handles -> Sizes \cup {0}]
    /\ g_handle_to_address \in [Handles -> Words \cup {NULL}]
    /\ colormap \in [Words -> Colors]
    /\ top \in 0..HeapSize
    /\ fault \in {"none", "null", "freed", "div0"}

\* The three tables agree: a handle with a size has the same block in plot.cpp
\* and in the driver, and that block is live, of that size and was allocated
\* for this handle - through rewinds that hand out its number again, kills at
\* random, retries and reused blocks.  (calculate_maxmem overwrites driver
\* entries, but is the last thing the program does.)
TablesAgree ==
    pc # "done" =>
        \A h \in Sized : LET b == g_handles[h] IN
            /\ b = g_handle_to_block[h]
            /\ b \in Live /\ len[b] = g_sizes[h] /\ owner[b] = h

\* current_used_space, from which the free space in the result is computed, is
\* the number of words in live blocks - blocks lost to a handle number that was
\* handed out again included, since those still take space.
UsedSpaceExact ==
    mode = "allocstats" /\ pc \notin {"oom", "retry", "done", "exit"} =>
        used = Cardinality(Occupied)

\* Outside memplot no lock or unlock reaches a NULL pointer or a free block.
LocksReachLive == mode # "memplot" => fault \notin {"null", "freed"}

\* In peakmem the locks the allocator sees are those of the trace: a block is
\* pinned exactly if the last L or U line of its live handle is an L.
LocksFollowTrace ==
    mode = "peakmem" /\ pc \in {"read", "final"} =>
        pinned = {b \in Live :
            \E i \in 1..pos :
                /\ file[i].op = "L" /\ file[i].h = owner[b]
                /\ \A j \in (i + 1)..pos : ~(file[j].op = "U" /\ file[j].h = owner[b])}

\* Until the first compaction the colour map of memplot is exact: what is known
\* used is the memory of the live blocks, of those that lost their handle, too.
ColorsExact ==
    mode = "memplot" /\ ~g_has_compacted /\ pc # "oom" =>
        {w \in Words : colormap[w] = "red"} = Occupied

\* A block that goes from live to free was freed for the handle that owned it,
\* which had it in its table with that size and has not any more; a stale line
\* executed at a rewind or a stale driver entry never frees another's block.
FreeOnlyOwn ==
    [][\A b \in Live : len'[b] = 0 =>
            /\ g_sizes[owner[b]] = len[b] /\ g_sizes'[owner[b]] = 0
            /\ g_handle_to_block[owner[b]] = b]_vars

\* peakmem and allocstats come to an end for every trace: the loops over lines,
\* killed handles and rewinds all advance.
Terminates ==
    mode # "memplot" => <>(pc \in {"done", "exit"} \/ fault # "none")

\* "COLOR_GREEN = 0, // known free" (plot.h): after every line, no word of a live
\* block is painted free.  Violated: OpFree paints the address of the allocation.
GreenIsFree == pc = "read" => \A w \in Occupied : colormap[w] # "green"

=============================================================================
