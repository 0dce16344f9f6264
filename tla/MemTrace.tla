------------------------------ MODULE MemTrace ------------------------------
(***************************************************************************)
(* How a trace of a program's memory operations comes to be.  memcheck, as *)
(* changed by this repository (src/valgrind/memcheck), prints a line for   *)
(* every block the program allocates or frees and for every access it      *)
(* believes is inside the heap; process_line of blocks.pyx turns addresses *)
(* into memory ids and appends to the list of operations.                  *)
(*                                                                         *)
(* The printer and the reader are a pipe, so one action is one line        *)
(* printed and processed.  realloc prints nothing.                         *)
(***************************************************************************)
EXTENDS Integers, Sequences, FiniteSets

CONSTANTS
    MaxAddr,        \* highest address of the traced heap; 0 is NULL
    Sizes,          \* sizes the program asks for
    AccessSizes,    \* sizes of its loads and stores
    MaxMallocs,     \* bound on the blocks allocated
    MaxReallocs,    \* bound on the calls of realloc
    MaxOps          \* bound on the operations recorded

ASSUME MaxAddrNat == MaxAddr \in Nat
ASSUME SizesNat == Sizes \subseteq Nat /\ AccessSizes \subseteq Nat \ {0}
ASSUME BoundsNat == {MaxMallocs, MaxReallocs, MaxOps} \subseteq Nat

NoId == -1
Addrs == 1..MaxAddr

VARIABLES
    live,                   \* blocks of the program, with the id of the N line
    g_memory_start, g_memory_end,
    g_blocks,               \* NoId where the dictionary has no entry
    g_memoryid_counter,
    g_ops,                  \* S stands for L, S and M
    reallocs                \* calls of realloc so far

vars == <<live, g_memory_start, g_memory_end, g_blocks, g_memoryid_counter, g_ops, reallocs>>

Bytes(start, size) == start..(start + size - 1)
Op(mid, op, size) == [mid |-> mid, op |-> op, size |-> size]

-----------------------------------------------------------------------------
(* blocks.pyx *)

find_block(address) == IF address \in Addrs THEN g_blocks[address] ELSE NoId

\* Mutant: the last byte of the block is not entered
append_last(start, size) ==
    [a \in Addrs |-> IF a \in Bytes(start, size - 1) THEN g_memoryid_counter ELSE g_blocks[a]]

append(start, size) ==
    [a \in Addrs |-> IF a \in Bytes(start, size) THEN g_memoryid_counter ELSE g_blocks[a]]

\* Mutant: the entry of the first byte only is deleted
remove_first(add) ==
    [a \in Addrs |-> IF a = add THEN NoId ELSE g_blocks[a]]

\* The entries from add on, as long as they are of the same block
remove(add) ==
    [a \in Addrs |-> IF a >= add /\ \A b \in add..a : g_blocks[b] = g_blocks[add]
                     THEN NoId ELSE g_blocks[a]]

\* Mutant: an address outside of all blocks is not left out
add_op_any(address, op, size) ==
    g_ops' = Append(g_ops, Op(find_block(address), op, size))

\* The lines F, L, S and M are recorded when there is a block at the address
add_op(address, op, size) ==
    g_ops' = IF find_block(address) = NoId THEN g_ops
             ELSE Append(g_ops, Op(find_block(address), op, size))

-----------------------------------------------------------------------------
(* memcheck *)

\* A new block lies apart from the live ones.  One of size 0 has an address
\* of its own.
Footprint(start, size) == Bytes(start, size) \cup {start}
Room(start, size) ==
    /\ Footprint(start, size) \subseteq Addrs
    /\ \A b \in live : Footprint(start, size) \cap Footprint(b.start, b.size) = {}

Init ==
    /\ live = {}
    /\ g_memory_start = MaxAddr + 1
    /\ g_memory_end = 0
    /\ g_blocks = [a \in Addrs |-> NoId]
    /\ g_memoryid_counter = 0
    /\ g_ops = <<>>
    /\ reallocs = 0

\* Mutant: the end of the heap is that of the newest block
new_block_end(start, size) ==
    /\ Room(start, size)
    /\ live' = live \cup {[start |-> start, size |-> size, mid |-> g_memoryid_counter]}
    /\ g_memory_start' = IF g_memory_start > start THEN start ELSE g_memory_start
    /\ g_memory_end' = start + size
    /\ g_blocks' = append(start, size)
    /\ g_memoryid_counter' = g_memoryid_counter + 1
    /\ g_ops' = Append(g_ops, Op(g_memoryid_counter, "N", size))
    /\ UNCHANGED reallocs

\* MC_(new_block), and process_line for the N line
new_block(start, size) ==
    /\ Room(start, size)
    /\ live' = live \cup {[start |-> start, size |-> size, mid |-> g_memoryid_counter]}
    /\ g_memory_start' = IF g_memory_start > start THEN start ELSE g_memory_start
    /\ g_memory_end' = IF g_memory_end < start + size THEN start + size ELSE g_memory_end
    /\ g_blocks' = append(start, size)
    /\ g_memoryid_counter' = g_memoryid_counter + 1
    /\ g_ops' = Append(g_ops, Op(g_memoryid_counter, "N", size))
    /\ UNCHANGED reallocs

\* Mutant: the entries are deleted before the block is looked up
handle_free_order(b) ==
    /\ live' = live \ {b}
    /\ g_blocks' = remove(b.start)
    /\ UNCHANGED <<g_memory_start, g_memory_end, g_memoryid_counter, g_ops, reallocs>>

\* MC_(handle_free), and process_line for the F line
handle_free(b) ==
    /\ live' = live \ {b}
    /\ add_op(b.start, "F", 0)
    /\ g_blocks' = remove(b.start)
    /\ UNCHANGED <<g_memory_start, g_memory_end, g_memoryid_counter, reallocs>>

\* MC_(realloc): always a new place, and no line of the trace
realloc(b, start, size) ==
    /\ Room(start, size)
    /\ live' = (live \ {b}) \cup {[start |-> start, size |-> size, mid |-> NoId]}
    /\ reallocs' = reallocs + 1
    /\ UNCHANGED <<g_memory_start, g_memory_end, g_blocks, g_memoryid_counter, g_ops>>

\* trace_load, trace_store and trace_modify: the line is printed
Traced(addr, size) == addr >= g_memory_start /\ addr + size < g_memory_end

access(addr, size) ==
    /\ Traced(addr, size)
    /\ add_op(addr, "S", size)
    /\ UNCHANGED <<live, g_memory_start, g_memory_end, g_blocks, g_memoryid_counter, reallocs>>

Malloc == /\ g_memoryid_counter < MaxMallocs /\ Len(g_ops) < MaxOps
          /\ \E start \in Addrs, size \in Sizes : new_block(start, size)
Free == Len(g_ops) < MaxOps /\ \E b \in live : handle_free(b)
Realloc == /\ reallocs < MaxReallocs
           /\ \E b \in live, start \in Addrs, size \in Sizes \ {0} : realloc(b, start, size)
Access == Len(g_ops) < MaxOps /\ \E addr \in Addrs, size \in AccessSizes : access(addr, size)

Next == Malloc \/ Free \/ Realloc \/ Access
Spec == Init /\ [][Next]_vars

-----------------------------------------------------------------------------
(* Properties *)

Mids == 0..(g_memoryid_counter - 1)
Block == [start : Addrs, size : Sizes, mid : Mids \cup {NoId}]
OpLine == [mid : Mids, op : {"N", "F", "S"}, size : Sizes \cup AccessSizes \cup {0}]

\* The variables have their types: a memory id is one that was handed out.
TypeOK ==
    /\ live \subseteq Block
    /\ g_memory_start \in 1..(MaxAddr + 1)
    /\ g_memory_end \in 0..(MaxAddr + 1)
    /\ g_blocks \in [Addrs -> Mids \cup {NoId}]
    /\ g_memoryid_counter \in 0..MaxMallocs
    /\ g_ops \in Seq(OpLine)
    /\ reallocs \in 0..MaxReallocs

TracedLive == {b \in live : b.mid # NoId}

\* Whatever the program has moved with realloc behind the tracer's back, and
\* however freed memory was used again, every byte of a live block that has
\* an N line leads find_block to that block's id.
LiveMapped ==
    \A b \in TracedLive : \A a \in Bytes(b.start, b.size) : find_block(a) = b.mid

\* As long as realloc was not called no entry of g_blocks survives the block
\* it was made for: append and remove keep the dictionary exact.
NothingStale ==
    reallocs = 0 =>
        \A a \in Addrs : g_blocks[a] # NoId =>
            \E b \in live : a \in Bytes(b.start, b.size) /\ g_blocks[a] = b.mid

OpIndices(mid, op) == {i \in 1..Len(g_ops) : g_ops[i].mid = mid /\ g_ops[i].op = op}

\* The list of operations tells each block's life: one N line, before every
\* other line of the id, ids in the order of the N lines.  Without realloc
\* there is nothing after the F line, and an id of a block that was not empty
\* has its F line exactly when the block is gone.
OpsTellLives ==
    \A mid \in Mids :
        \E n \in OpIndices(mid, "N") :
            /\ OpIndices(mid, "N") = {n}
            /\ \A i \in 1..Len(g_ops) :
                  (i < n => g_ops[i].mid < mid) /\ (g_ops[i].mid = mid => i >= n)
            /\ reallocs = 0 =>
                  /\ \A i \in OpIndices(mid, "F"), j \in 1..Len(g_ops) :
                        g_ops[j].mid = mid => j <= i
                  /\ (OpIndices(mid, "F") # {}) =
                        (g_ops[n].size > 0 /\ \A b \in live : b.mid # mid)

\* The id an access would be recorded for
Recorded(addr, size) == IF Traced(addr, size) THEN find_block(addr) ELSE NoId

\* An access inside a live block that has an N line, and not up to the very
\* end of the traced heap, passes the window of the tracer and is recorded for
\* that block; without realloc an access outside of all live blocks is not
\* recorded, and no access for a block other than the one it is in.
AccessesAttributed ==
    \A addr \in Addrs, size \in AccessSizes :
        /\ \A b, c \in TracedLive :
              /\ Bytes(addr, size) \subseteq Bytes(b.start, b.size)
              /\ addr + size < c.start + c.size
              => Recorded(addr, size) = b.mid
        /\ reallocs = 0 /\ Recorded(addr, size) # NoId =>
              \E b \in live : addr \in Bytes(b.start, b.size) /\ Recorded(addr, size) = b.mid
=============================================================================
