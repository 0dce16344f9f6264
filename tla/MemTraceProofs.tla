--------------------------- MODULE MemTraceProofs ---------------------------
(***************************************************************************)
(* The dictionary of blocks.pyx is right for every heap, every size and    *)
(* every number of blocks and calls of realloc.  The files made of a trace *)
(* without realloc can be replayed, and lock what they are meant to lock.  *)
(***************************************************************************)
EXTENDS LockOps, NumberFacts, SequenceTheorems, TLAPS

-----------------------------------------------------------------------------
(* The inductive invariant *)

\* Live blocks lie apart.
Apart ==
    \A b, c \in live : b # c => Footprint(b.start, b.size) \cap Footprint(c.start, c.size) = {}

\* Live blocks lie in the heap.
InHeap == \A b \in live : Footprint(b.start, b.size) \subseteq Addrs

\* Live blocks with an N line have different ids.
IdsDiffer == \A b, c \in TracedLive : b.mid = c.mid => b = c

\* The id of a live block is found at its bytes and nowhere else.  LiveMapped
\* alone would not survive a free of an empty or reallocated block, whose
\* address might have an entry with the id of another block.
EntriesOwn ==
    \A b \in TracedLive : \A a \in Addrs : (g_blocks[a] = b.mid) <=> (a \in Bytes(b.start, b.size))

\* The window of the tracer spans the live blocks with an N line.
WindowSpans ==
    \A b \in TracedLive : g_memory_start <= b.start /\ b.start + b.size <= g_memory_end

\* Only realloc makes blocks without an N line.
AllTraced == reallocs = 0 => TracedLive = live

IInv == /\ TypeOK /\ Apart /\ InHeap /\ IdsDiffer /\ EntriesOwn
        /\ WindowSpans /\ AllTraced /\ NothingStale

-----------------------------------------------------------------------------
(* One lemma per action *)

\* The empty trace has no block and no entry.
LEMMA InitInv == Init => IInv
BY MaxAddrNat, BoundsNat, SizesNat
   DEF Init, IInv, TypeOK, Apart, InHeap, IdsDiffer, EntriesOwn, WindowSpans, AllTraced,
       NothingStale, TracedLive, Block, OpLine, Mids, Addrs, NoId

\* The fields of a live block are numbers, and its id has been handed out.
LEMMA LiveTyped ==
    ASSUME TypeOK, NEW b \in live
    PROVE  /\ b.start \in Nat /\ b.size \in Nat /\ b.mid \in Int
           /\ b.mid < g_memoryid_counter
<1>1. b \in Block
  BY DEF TypeOK
<1>2. b.start \in Addrs /\ b.size \in Sizes /\ b.mid \in Mids \cup {NoId}
  BY <1>1 DEF Block
<1>3. g_memoryid_counter \in Nat
  BY BoundsNat DEF TypeOK
<1>4. b.start \in Nat
  BY <1>2, MaxAddrNat DEF Addrs
<1>5. b.size \in Nat
  BY <1>2, SizesNat
<1>6. \A m \in Mids \cup {NoId} : m \in Int /\ m < g_memoryid_counter
  BY <1>3 DEF Mids, NoId
<1> QED BY <1>2, <1>4, <1>5, <1>6

\* A sequence of lines stays one when more ids are handed out and a line of a
\* known id is appended.
LEMMA OpsGrow ==
    ASSUME NEW S, NEW T, S \subseteq T, NEW seq \in Seq(S), NEW e \in T
    PROVE  Append(seq, e) \in Seq(T)
<1>1. seq \in Seq(T)
  BY SMT
<1> QED BY <1>1

\* A new block gets a fresh id, which is entered for its bytes only (new_block,
\* append).
LEMMA NewBlockInv ==
    ASSUME IInv, NEW start \in Addrs, NEW size \in Sizes,
           g_memoryid_counter < MaxMallocs, new_block(start, size)
    PROVE  IInv'
<1> DEFINE new == [start |-> start, size |-> size, mid |-> g_memoryid_counter]
<1> USE MaxAddrNat, BoundsNat, SizesNat
<1>0. /\ live' = live \cup {new}
      /\ g_memoryid_counter \in Nat /\ g_memoryid_counter' = g_memoryid_counter + 1
      /\ start \in Nat /\ size \in Nat /\ MaxAddr \in Nat
      /\ Footprint(start, size) \subseteq Addrs
      /\ \A b \in live : Footprint(start, size) \cap Footprint(b.start, b.size) = {}
      /\ g_blocks \in [Addrs -> Mids \cup {NoId}]
      /\ g_blocks' = [a \in Addrs |-> IF a \in Bytes(start, size) THEN g_memoryid_counter
                                      ELSE g_blocks[a]]
      /\ reallocs' = reallocs
  BY DEF new_block, Room, append, IInv, TypeOK, Addrs
<1>1. \A b \in live : b.start \in Nat /\ b.size \in Nat /\ b.mid \in Int
                      /\ b.mid < g_memoryid_counter /\ b.mid # g_memoryid_counter
  BY <1>0, LiveTyped DEF IInv
<1>2. TypeOK'
  <2>1. Mids \subseteq Mids' /\ g_memoryid_counter \in Mids'
    BY <1>0 DEF Mids
  <2>2. new \in Block' /\ Block \subseteq Block' /\ OpLine \subseteq OpLine'
    BY <1>0, <2>1 DEF Block, OpLine
  <2>3. live' \subseteq Block'
    BY <1>0, <2>2 DEF IInv, TypeOK
  <2>4. g_memory_start' \in 1..(MaxAddr + 1) /\ g_memory_end' \in 0..(MaxAddr + 1)
    <3>1. start + size \in 0..(MaxAddr + 1)
      BY <1>0 DEF Footprint, Bytes, Addrs
    <3> QED BY <3>1 DEF new_block, IInv, TypeOK, Addrs
  <2>5. g_blocks' \in [Addrs -> Mids' \cup {NoId}]
    BY <1>0, <2>1
  <2>6. g_ops' \in Seq(OpLine')
    <3>1. Op(g_memoryid_counter, "N", size) \in OpLine'
      BY <2>1 DEF Op, OpLine
    <3>2. g_ops \in Seq(OpLine) /\ g_ops' = Append(g_ops, Op(g_memoryid_counter, "N", size))
      BY DEF new_block, IInv, TypeOK
    <3> QED BY <3>1, <3>2, <2>2, OpsGrow
  <2>7. g_memoryid_counter' \in 0..MaxMallocs /\ reallocs' \in 0..MaxReallocs
    BY <1>0 DEF IInv, TypeOK
  <2> QED BY <2>3, <2>4, <2>5, <2>6, <2>7 DEF TypeOK
<1>3. Apart' /\ InHeap'
  BY <1>0 DEF IInv, Apart, InHeap, Footprint, Bytes
<1>4. TracedLive' = TracedLive \cup {new}
  BY <1>0 DEF TracedLive, NoId
<1>5. IdsDiffer'
  BY <1>1, <1>4 DEF IInv, IdsDiffer, TracedLive
<1>6. EntriesOwn'
  <2> SUFFICES ASSUME NEW b \in TracedLive', NEW a \in Addrs
               PROVE  (g_blocks'[a] = b.mid) <=> (a \in Bytes(b.start, b.size))
    BY DEF EntriesOwn
  <2>1. CASE b = new
    <3>1. g_blocks[a] # g_memoryid_counter
      BY <1>0 DEF Mids, NoId
    <3> QED BY <1>0, <2>1, <3>1
  <2>2. CASE b \in TracedLive
    <3>1. b \in live
      BY <2>2 DEF TracedLive
    <3>2. Bytes(start, size) \cap Bytes(b.start, b.size) = {}
      BY <3>1, <1>0 DEF Footprint
    <3>3. (g_blocks[a] = b.mid) <=> (a \in Bytes(b.start, b.size))
      BY <2>2 DEF IInv, EntriesOwn
    <3> QED BY <1>0, <1>1, <3>1, <3>2, <3>3
  <2> QED BY <2>1, <2>2, <1>4
<1>7. WindowSpans'
  <2> SUFFICES ASSUME NEW b \in TracedLive'
               PROVE  g_memory_start' <= b.start /\ b.start + b.size <= g_memory_end'
    BY DEF WindowSpans
  <2>1. g_memory_start \in Nat /\ g_memory_end \in Nat
    BY DEF IInv, TypeOK
  <2>2. CASE b = new
    BY <1>0, <2>1, <2>2 DEF new_block
  <2>3. CASE b \in TracedLive
    <3>1. g_memory_start <= b.start /\ b.start + b.size <= g_memory_end
      BY <2>3 DEF IInv, WindowSpans
    <3>2. b.start \in Nat /\ b.size \in Nat
      BY <2>3, <1>1 DEF TracedLive
    <3> QED BY <1>0, <2>1, <3>1, <3>2 DEF new_block
  <2> QED BY <2>2, <2>3, <1>4
<1>8. AllTraced'
  BY <1>0, <1>4 DEF IInv, AllTraced
<1>9. NothingStale'
  <2> SUFFICES ASSUME reallocs = 0, NEW a \in Addrs, g_blocks'[a] # NoId
               PROVE  \E b \in live' : a \in Bytes(b.start, b.size) /\ g_blocks'[a] = b.mid
    BY <1>0 DEF NothingStale
  <2>1. CASE a \in Bytes(start, size)
    <3>1. g_blocks'[a] = g_memoryid_counter
      BY <1>0, <2>1
    <3>2. new \in live' /\ new.start = start /\ new.size = size /\ new.mid = g_memoryid_counter
      BY <1>0
    <3> HIDE DEF new
    <3> QED BY <2>1, <3>1, <3>2
  <2>2. CASE a \notin Bytes(start, size)
    BY <1>0, <2>2 DEF IInv, NothingStale
  <2> QED BY <2>1, <2>2
<1> QED BY <1>2, <1>3, <1>5, <1>6, <1>7, <1>8, <1>9 DEF IInv

\* A free deletes entries of one id only: those of the block that goes, or of
\* none that is live (handle_free, remove).
LEMMA HandleFreeInv ==
    ASSUME IInv, NEW gone \in live, handle_free(gone)
    PROVE  IInv'
<1> USE MaxAddrNat, BoundsNat, SizesNat
<1>0. /\ live' = live \ {gone}
      /\ TracedLive' = TracedLive \ {gone}
      /\ UNCHANGED <<g_memory_start, g_memory_end, g_memoryid_counter, reallocs>>
      /\ Mids' = Mids /\ Block' = Block /\ OpLine' = OpLine
  BY DEF handle_free, TracedLive, Mids, Block, OpLine
<1>1. /\ g_blocks \in [Addrs -> Mids \cup {NoId}]
      /\ gone.start \in Addrs /\ gone.size \in Nat
  BY DEF IInv, TypeOK, Block
<1>2. g_blocks' = [a \in Addrs |-> IF a >= gone.start
                                      /\ \A b \in gone.start..a : g_blocks[b] = g_blocks[gone.start]
                                   THEN NoId ELSE g_blocks[a]]
  BY DEF handle_free, remove
<1>3. \A a \in Addrs : \/ g_blocks'[a] = g_blocks[a]
                       \/ g_blocks'[a] = NoId /\ g_blocks[a] = g_blocks[gone.start]
  <2> SUFFICES ASSUME NEW a \in Addrs, g_blocks'[a] # g_blocks[a]
               PROVE  g_blocks'[a] = NoId /\ g_blocks[a] = g_blocks[gone.start]
    OBVIOUS
  <2>1. a >= gone.start /\ \A b \in gone.start..a : g_blocks[b] = g_blocks[gone.start]
    BY <1>2
  <2>2. a \in gone.start..a
    BY <1>1, <2>1 DEF Addrs
  <2> QED BY <1>2, <2>1, <2>2
<1>4. TypeOK'
  <2>1. g_blocks' \in [Addrs -> Mids \cup {NoId}]
    BY <1>1, <1>2
  <2>2. g_ops' \in Seq(OpLine)
    <3>1. CASE find_block(gone.start) = NoId
      BY <3>1 DEF handle_free, add_op, IInv, TypeOK
    <3>2. CASE find_block(gone.start) # NoId
      <4>1. Op(find_block(gone.start), "F", 0) \in OpLine
        BY <1>1, <3>2 DEF find_block, Op, OpLine
      <4>2. g_ops \in Seq(OpLine) /\ g_ops' = Append(g_ops, Op(find_block(gone.start), "F", 0))
        BY <3>2 DEF handle_free, add_op, IInv, TypeOK
      <4> QED BY <4>1, <4>2, OpsGrow
    <3> QED BY <3>1, <3>2
  <2> QED BY <1>0, <2>1, <2>2 DEF IInv, TypeOK
<1>5. Apart' /\ InHeap' /\ IdsDiffer' /\ WindowSpans' /\ AllTraced'
  BY <1>0 DEF IInv, Apart, InHeap, IdsDiffer, WindowSpans, AllTraced
<1>6. ASSUME NEW b \in live, b # gone, b.mid # NoId
      PROVE  g_blocks[gone.start] # b.mid
  <2>1. b \in TracedLive
    BY <1>6 DEF TracedLive
  <2>2. gone.start \notin Bytes(b.start, b.size)
    BY <1>6 DEF IInv, Apart, Footprint
  <2> QED BY <1>1, <2>1, <2>2 DEF IInv, EntriesOwn
<1>7. EntriesOwn'
  <2> SUFFICES ASSUME NEW b \in TracedLive', NEW a \in Addrs
               PROVE  (g_blocks'[a] = b.mid) <=> (a \in Bytes(b.start, b.size))
    BY DEF EntriesOwn
  <2>1. b \in live /\ b # gone /\ b.mid # NoId /\ b \in TracedLive
    BY <1>0 DEF TracedLive
  <2>2. g_blocks[gone.start] # b.mid
    BY <1>6, <2>1
  <2>3. (g_blocks[a] = b.mid) <=> (a \in Bytes(b.start, b.size))
    BY <2>1 DEF IInv, EntriesOwn
  <2> QED BY <1>3, <2>1, <2>2, <2>3
<1>8. NothingStale'
  <2> SUFFICES ASSUME reallocs = 0, NEW a \in Addrs, g_blocks'[a] # NoId
               PROVE  \E b \in live' : a \in Bytes(b.start, b.size) /\ g_blocks'[a] = b.mid
    BY <1>0 DEF NothingStale
  <2>1. g_blocks'[a] = g_blocks[a]
    BY <1>3
  <2>2. PICK b \in live : a \in Bytes(b.start, b.size) /\ g_blocks[a] = b.mid
    BY <2>1 DEF IInv, NothingStale
  <2>3. b # gone
    <3> SUFFICES ASSUME b = gone PROVE FALSE
      OBVIOUS
    <3>1. a >= gone.start /\ a \in Nat /\ gone.start \in Nat
      BY <1>1, <2>2 DEF Bytes, Addrs
    <3>2. gone \in TracedLive
      BY <2>1, <2>2 DEF TracedLive
    <3>3. ASSUME NEW c \in gone.start..a PROVE g_blocks[c] = gone.mid
      <4>1. c \in Addrs /\ c \in Bytes(gone.start, gone.size)
        BY <1>1, <2>2, <3>1 DEF Bytes, Addrs
      <4> QED BY <3>2, <4>1 DEF IInv, EntriesOwn
    <3>4. gone.start \in gone.start..a
      BY <3>1
    <3>5. \A c \in gone.start..a : g_blocks[c] = g_blocks[gone.start]
      BY <3>3, <3>4
    <3> QED BY <1>2, <3>1, <3>5
  <2> QED BY <1>0, <2>1, <2>2, <2>3
<1> QED BY <1>4, <1>5, <1>7, <1>8 DEF IInv

\* realloc takes a block out of the tracer's sight and leaves the rest alone.
LEMMA ReallocInv ==
    ASSUME IInv, NEW old \in live, NEW start \in Addrs, NEW size \in Sizes,
           reallocs < MaxReallocs, realloc(old, start, size)
    PROVE  IInv'
<1> DEFINE new == [start |-> start, size |-> size, mid |-> NoId]
<1> USE MaxAddrNat, BoundsNat, SizesNat
<1>0. /\ live' = (live \ {old}) \cup {new}
      /\ TracedLive' = TracedLive \ {old}
      /\ Room(start, size)
      /\ reallocs \in Nat /\ reallocs' = reallocs + 1
      /\ UNCHANGED <<g_memory_start, g_memory_end, g_blocks, g_memoryid_counter, g_ops>>
      /\ Mids' = Mids /\ Block' = Block /\ OpLine' = OpLine
  BY DEF realloc, TracedLive, Mids, Block, OpLine, IInv, TypeOK
<1>1. TypeOK'
  <2>1. new \in Block
    BY DEF Block
  <2> QED BY <1>0, <2>1 DEF IInv, TypeOK
<1>2. Apart' /\ InHeap'
  BY <1>0 DEF IInv, Apart, InHeap, Room
<1>3. IdsDiffer' /\ EntriesOwn' /\ WindowSpans'
  BY <1>0 DEF IInv, IdsDiffer, EntriesOwn, WindowSpans
<1>4. AllTraced' /\ NothingStale'
  BY <1>0 DEF AllTraced, NothingStale
<1> QED BY <1>1, <1>2, <1>3, <1>4 DEF IInv

\* An access only adds a line.
LEMMA AccessInv ==
    ASSUME IInv, NEW addr \in Addrs, NEW size \in AccessSizes, access(addr, size)
    PROVE  IInv'
<1>0. /\ UNCHANGED <<live, g_memory_start, g_memory_end, g_blocks, g_memoryid_counter, reallocs>>
      /\ Mids' = Mids /\ Block' = Block /\ OpLine' = OpLine /\ TracedLive' = TracedLive
  BY DEF access, Mids, Block, OpLine, TracedLive
<1>1. g_ops' \in Seq(OpLine)
  <2>1. CASE find_block(addr) = NoId
    BY <2>1 DEF access, add_op, IInv, TypeOK
  <2>2. CASE find_block(addr) # NoId
    <3>1. Op(find_block(addr), "S", size) \in OpLine
      BY <2>2 DEF find_block, Op, OpLine, IInv, TypeOK
    <3>2. g_ops \in Seq(OpLine) /\ g_ops' = Append(g_ops, Op(find_block(addr), "S", size))
      BY <2>2 DEF access, add_op, IInv, TypeOK
    <3> QED BY <3>1, <3>2, OpsGrow
  <2> QED BY <2>1, <2>2
<1>2. TypeOK'
  BY <1>0, <1>1 DEF IInv, TypeOK
<1> QED BY <1>0, <1>2
       DEF IInv, Apart, InHeap, IdsDiffer, EntriesOwn, WindowSpans, AllTraced, NothingStale

-----------------------------------------------------------------------------
(* Theorems *)

\* The strengthening is an invariant.
LEMMA Inductive == Spec => []IInv
<1>1. IInv /\ [Next]_vars => IInv'
  <2> SUFFICES ASSUME IInv, [Next]_vars PROVE IInv'
    OBVIOUS
  <2>1. CASE Malloc
    BY <2>1, NewBlockInv DEF Malloc
  <2>2. CASE Free
    BY <2>2, HandleFreeInv DEF Free
  <2>3. CASE Realloc
    BY <2>3, ReallocInv DEF Realloc
  <2>4. CASE Access
    BY <2>4, AccessInv DEF Access
  <2>5. CASE UNCHANGED vars
    BY <2>5 DEF vars, IInv, TypeOK, Apart, InHeap, IdsDiffer, EntriesOwn, WindowSpans, AllTraced,
                NothingStale, TracedLive, Block, OpLine, Mids
  <2> QED BY <2>1, <2>2, <2>3, <2>4, <2>5 DEF Next
<1> QED BY <1>1, InitInv, PTL DEF Spec

\* The tracer and the reader keep their types: an id in the dictionary or in the
\* list of operations was handed out before.
THEOREM TypeCorrect == Spec => []TypeOK
<1>1. IInv => TypeOK
  BY DEF IInv
<1> QED BY <1>1, Inductive, PTL

\* Every byte of a live block with an N line leads to its id, for every
\* sequence of allocations, frees and reallocs.
THEOREM LiveBlocksFound == Spec => []LiveMapped
<1>1. IInv => LiveMapped
  <2> SUFFICES ASSUME IInv, NEW b \in TracedLive, NEW a \in Bytes(b.start, b.size)
               PROVE  find_block(a) = b.mid
    BY DEF LiveMapped
  <2>1. a \in Addrs
    BY DEF IInv, InHeap, TracedLive, Footprint
  <2> QED BY <2>1 DEF IInv, EntriesOwn, find_block
<1> QED BY <1>1, Inductive, PTL

\* Without realloc no entry of the dictionary outlives its block.
THEOREM NoStaleEntries == Spec => []NothingStale
<1>1. IInv => NothingStale
  BY DEF IInv
<1> QED BY <1>1, Inductive, PTL

\* Accesses inside live blocks with an N line, but for the very end of the heap,
\* are recorded for their block; without realloc, none is recorded for another.
THEOREM AccessesRecorded == Spec => []AccessesAttributed
<1>1. IInv => AccessesAttributed
  <2> USE MaxAddrNat, SizesNat
  <2> SUFFICES ASSUME IInv, NEW addr \in Addrs, NEW size \in AccessSizes
               PROVE  /\ \A b, c \in TracedLive :
                            /\ Bytes(addr, size) \subseteq Bytes(b.start, b.size)
                            /\ addr + size < c.start + c.size
                            => Recorded(addr, size) = b.mid
                      /\ reallocs = 0 /\ Recorded(addr, size) # NoId =>
                            \E b \in live : /\ addr \in Bytes(b.start, b.size)
                                            /\ Recorded(addr, size) = b.mid
    BY DEF AccessesAttributed
  <2>1. ASSUME NEW b \in TracedLive, NEW c \in TracedLive,
               Bytes(addr, size) \subseteq Bytes(b.start, b.size),
               addr + size < c.start + c.size
        PROVE  Recorded(addr, size) = b.mid
    <3>1. /\ addr \in Nat /\ size \in Nat \ {0}
          /\ b.start \in Nat /\ b.size \in Nat /\ c.start \in Nat /\ c.size \in Nat
          /\ g_memory_start \in Nat /\ g_memory_end \in Nat
      <4>1. b \in live /\ c \in live
        BY DEF TracedLive
      <4>2. b.start \in Nat /\ b.size \in Nat /\ c.start \in Nat /\ c.size \in Nat
        BY <4>1, LiveTyped DEF IInv
      <4>3. g_memory_start \in Nat /\ g_memory_end \in Nat
        BY DEF IInv, TypeOK
      <4> QED BY <4>2, <4>3 DEF Addrs
    <3>2. addr \in Bytes(b.start, b.size)
      BY <2>1, <3>1 DEF Bytes
    <3>3. Traced(addr, size)
      <4>1. g_memory_start <= b.start /\ c.start + c.size <= g_memory_end
        BY DEF IInv, WindowSpans
      <4> QED BY <2>1, <3>1, <3>2, <4>1 DEF Traced, Bytes
    <3> QED BY <3>2, <3>3 DEF Recorded, find_block, IInv, EntriesOwn
  <2>2. ASSUME reallocs = 0, Recorded(addr, size) # NoId
        PROVE  \E b \in live : addr \in Bytes(b.start, b.size) /\ Recorded(addr, size) = b.mid
    BY <2>2 DEF Recorded, find_block, IInv, NothingStale
  <2> QED BY <2>1, <2>2
<1> QED BY <1>1, Inductive, PTL

-----------------------------------------------------------------------------
(* The list of operations *)

\* The N line n of an id is the only one and comes first.
FirstLine(mid, n) ==
    /\ n \in OpIndices(mid, "N") /\ OpIndices(mid, "N") = {n}
    /\ \A i \in 1..Len(g_ops) :
          (i < n => g_ops[i].mid < mid) /\ (g_ops[i].mid = mid => i >= n)

\* The F line of an id is its last one ...
LastLine(mid) ==
    \A i \in OpIndices(mid, "F"), j \in 1..Len(g_ops) : g_ops[j].mid = mid => j <= i

\* ... and there is one exactly when a block that was not empty is gone.
GoneLine(mid, n) ==
    (OpIndices(mid, "F") # {}) = (g_ops[n].size > 0 /\ \A b \in live : b.mid # mid)

\* The N line of a live block tells its size.  Without this, it does not follow
\* that an empty block is the only one that is freed without an F line.
SizesTold ==
    reallocs = 0 => \A b \in live : \A i \in OpIndices(b.mid, "N") : g_ops[i].size = b.size

LInv == /\ SizesTold
        /\ \A mid \in Mids : \E n \in OpIndices(mid, "N") :
              FirstLine(mid, n) /\ (reallocs = 0 => LastLine(mid) /\ GoneLine(mid, n))

\* What is in a line.
LEMMA OpTyped ==
    ASSUME TypeOK
    PROVE  /\ Len(g_ops) \in Nat /\ g_memoryid_counter \in Nat
           /\ \A i \in 1..Len(g_ops) : g_ops[i].mid \in Nat /\ g_ops[i].mid < g_memoryid_counter
           /\ \A mid \in Mids : mid \in Nat /\ mid < g_memoryid_counter
<1>1. g_ops \in Seq(OpLine) /\ g_memoryid_counter \in Nat
  BY BoundsNat DEF TypeOK
<1>2. Len(g_ops) \in Nat /\ \A i \in 1..Len(g_ops) : g_ops[i].mid \in Mids
  <2>1. Len(g_ops) \in Nat /\ \A i \in 1..Len(g_ops) : g_ops[i] \in OpLine
    BY <1>1
  <2>2. \A l \in OpLine : l.mid \in Mids
    BY DEF OpLine
  <2> QED BY <2>1, <2>2
<1>3. \A mid \in Mids : mid \in Nat /\ mid < g_memoryid_counter
  BY <1>1 DEF Mids
<1> QED BY <1>1, <1>2, <1>3

\* A line is added at the end: only the lines of its id and kind are more.
LEMMA Appended ==
    ASSUME TypeOK, NEW e, g_ops' = Append(g_ops, e)
    PROVE  /\ Len(g_ops') = Len(g_ops) + 1 /\ g_ops'[Len(g_ops) + 1] = e
           /\ \A i \in 1..Len(g_ops) : g_ops'[i] = g_ops[i]
           /\ \A m, o : e.mid # m \/ e.op # o => OpIndices(m, o)' = OpIndices(m, o)
           /\ \A m, o : e.mid = m /\ e.op = o =>
                 OpIndices(m, o)' = OpIndices(m, o) \cup {Len(g_ops) + 1}
<1>1. Len(g_ops) \in Nat /\ g_ops \in Seq(OpLine)
  BY DEF TypeOK
<1>2. /\ Len(g_ops') = Len(g_ops) + 1 /\ g_ops'[Len(g_ops) + 1] = e
      /\ \A i \in 1..Len(g_ops) : g_ops'[i] = g_ops[i]
  BY <1>1
<1>3. 1..Len(g_ops') = 1..Len(g_ops) \cup {Len(g_ops) + 1}
  BY <1>1, <1>2
<1> QED BY <1>2, <1>3 DEF OpIndices

\* A line other than an N line of the id comes after its N line.
LEMMA FirstStays ==
    ASSUME TypeOK, NEW e, g_ops' = Append(g_ops, e), NEW mid \in Mids, NEW n,
           FirstLine(mid, n), e.mid # mid \/ e.op # "N"
    PROVE  FirstLine(mid, n)' /\ n \in 1..Len(g_ops) /\ g_ops'[n] = g_ops[n]
<1>1. /\ Len(g_ops) \in Nat /\ n \in 1..Len(g_ops)
  BY OpTyped DEF FirstLine, OpIndices
<1>2. OpIndices(mid, "N")' = OpIndices(mid, "N")
  BY Appended
<1>3. /\ Len(g_ops') = Len(g_ops) + 1
      /\ \A i \in 1..Len(g_ops) : g_ops'[i] = g_ops[i]
  BY Appended
<1>4. ASSUME NEW i \in 1..Len(g_ops')
      PROVE  (i < n => g_ops'[i].mid < mid) /\ (g_ops'[i].mid = mid => i >= n)
  <2>1. i \in 1..Len(g_ops) \/ i = Len(g_ops) + 1
    BY <1>1, <1>3
  <2>2. CASE i \in 1..Len(g_ops)
    BY <2>2, <1>3 DEF FirstLine
  <2>3. CASE i = Len(g_ops) + 1
    BY <2>3, <1>1
  <2> QED BY <2>1, <2>2, <2>3
<1> QED BY <1>1, <1>2, <1>3, <1>4 DEF FirstLine

\* A line of another id, or of one without an F line, leaves the F line last.
LEMMA LastStays ==
    ASSUME TypeOK, NEW e, g_ops' = Append(g_ops, e), NEW mid, LastLine(mid),
           e.mid # mid \/ OpIndices(mid, "F") = {}
    PROVE  LastLine(mid)'
<1>1. Len(g_ops) \in Nat
  BY OpTyped
<1>2. /\ Len(g_ops') = Len(g_ops) + 1 /\ g_ops'[Len(g_ops) + 1] = e
      /\ \A i \in 1..Len(g_ops) : g_ops'[i] = g_ops[i]
  BY Appended
<1>3. OpIndices(mid, "F")' \subseteq OpIndices(mid, "F") \cup {Len(g_ops) + 1}
  BY Appended
<1>4. ASSUME NEW i \in OpIndices(mid, "F")', NEW j \in 1..Len(g_ops'), g_ops'[j].mid = mid
      PROVE  j <= i
  <2>1. j \in 1..Len(g_ops) \/ j = Len(g_ops) + 1
    BY <1>1, <1>2
  <2>2. CASE i = Len(g_ops) + 1
    BY <2>2, <2>1, <1>1
  <2>3. CASE i \in OpIndices(mid, "F")
    <3>1. e.mid # mid
      BY <2>3
    <3>2. j \in 1..Len(g_ops) /\ g_ops[j].mid = mid
      BY <2>1, <3>1, <1>2, <1>4
    <3> QED BY <2>3, <3>2 DEF LastLine
  <2> QED BY <2>2, <2>3, <1>3, <1>4
<1> QED BY <1>4 DEF LastLine

\* A line of a live block, or of none, is no F line before.
LEMMA LiveNotGone ==
    ASSUME LInv, reallocs = 0, NEW b \in live, b.mid \in Mids
    PROVE  OpIndices(b.mid, "F") = {}
<1>1. PICK n \in OpIndices(b.mid, "N") : GoneLine(b.mid, n)
  BY DEF LInv
<1> QED BY <1>1 DEF GoneLine

\* The N line of a new id (new_block, process_line).
LEMMA NewBlockTold ==
    ASSUME IInv, LInv, NEW start \in Addrs, NEW size \in Sizes, new_block(start, size)
    PROVE  LInv'
<1>0. PICK c, e, new : /\ c = g_memoryid_counter /\ e = Op(c, "N", size)
                       /\ new = [start |-> start, size |-> size, mid |-> c]
  OBVIOUS
<1>1. /\ live' = live \cup {new} /\ g_ops' = Append(g_ops, e)
      /\ g_memoryid_counter' = c + 1 /\ reallocs' = reallocs
  BY <1>0 DEF new_block
<1>2. /\ e.mid = c /\ e.op = "N" /\ e.size = size /\ new.mid = c /\ new.size = size
  BY <1>0 DEF Op
<1>3. /\ Len(g_ops) \in Nat /\ c \in Nat /\ size \in Nat
      /\ \A i \in 1..Len(g_ops) : g_ops[i].mid \in Nat /\ g_ops[i].mid < c
      /\ \A mid \in Mids : mid \in Nat /\ mid < c
  BY <1>0, OpTyped, SizesNat DEF IInv
<1>4. /\ Len(g_ops') = Len(g_ops) + 1 /\ g_ops'[Len(g_ops) + 1] = e
      /\ \A i \in 1..Len(g_ops) : g_ops'[i] = g_ops[i]
      /\ \A m, o : e.mid # m \/ e.op # o => OpIndices(m, o)' = OpIndices(m, o)
      /\ \A m, o : e.mid = m /\ e.op = o =>
            OpIndices(m, o)' = OpIndices(m, o) \cup {Len(g_ops) + 1}
  BY <1>1, Appended DEF IInv
<1>5. \A o : OpIndices(c, o) = {}
  BY <1>3 DEF OpIndices
<1>6. Mids' = Mids \cup {c}
  BY <1>0, <1>1, <1>3 DEF Mids
<1>7. \A b \in live : b.mid # c
  BY <1>0, LiveTyped DEF IInv
<1>8. OpIndices(c, "N")' = {Len(g_ops) + 1} /\ OpIndices(c, "F")' = {}
  BY <1>2, <1>4, <1>5
<1>9. SizesTold'
  <2> SUFFICES ASSUME reallocs = 0, NEW b \in live', NEW i \in OpIndices(b.mid, "N")'
               PROVE  g_ops'[i].size = b.size
    BY <1>1 DEF SizesTold
  <2>1. CASE b = new
    BY <2>1, <1>2, <1>4, <1>8
  <2>2. CASE b \in live
    <3>1. i \in OpIndices(b.mid, "N")
      BY <2>2, <1>2, <1>4, <1>7
    <3>2. g_ops'[i] = g_ops[i]
      BY <3>1, <1>4 DEF OpIndices
    <3> QED BY <2>2, <3>1, <3>2 DEF LInv, SizesTold
  <2> QED BY <2>1, <2>2, <1>1
<1>10. ASSUME NEW mid \in Mids
       PROVE  \E n \in OpIndices(mid, "N")' :
                 /\ FirstLine(mid, n)'
                 /\ reallocs' = 0 => LastLine(mid)' /\ GoneLine(mid, n)'
  <2>1. PICK n \in OpIndices(mid, "N") :
            FirstLine(mid, n) /\ (reallocs = 0 => LastLine(mid) /\ GoneLine(mid, n))
    BY DEF LInv
  <2>2. mid # c
    BY <1>3
  <2>3. FirstLine(mid, n)' /\ n \in 1..Len(g_ops) /\ g_ops'[n] = g_ops[n]
    BY <2>1, <2>2, <1>1, <1>2, FirstStays DEF IInv
  <2>4. reallocs' = 0 => LastLine(mid)'
    BY <2>1, <2>2, <1>1, <1>2, LastStays DEF IInv
  <2>5. reallocs' = 0 => GoneLine(mid, n)'
    BY <2>1, <2>2, <2>3, <1>1, <1>2, <1>4 DEF GoneLine
  <2>6. n \in OpIndices(mid, "N")'
    BY <2>3 DEF FirstLine
  <2> QED BY <2>3, <2>4, <2>5, <2>6
<1>11. \E n \in OpIndices(c, "N")' :
          /\ FirstLine(c, n)'
          /\ reallocs' = 0 => LastLine(c)' /\ GoneLine(c, n)'
  <2>1. PICK n : n = Len(g_ops) + 1
    OBVIOUS
  <2>2. FirstLine(c, n)'
    <3>1. ASSUME NEW i \in 1..Len(g_ops')
          PROVE  (i < n => g_ops'[i].mid < c) /\ (g_ops'[i].mid = c => i >= n)
      BY <2>1, <1>3, <1>4
    <3> QED BY <2>1, <1>8, <3>1 DEF FirstLine
  <2>3. LastLine(c)'
    BY <1>8 DEF LastLine
  <2>4. GoneLine(c, n)'
    BY <1>1, <1>2, <1>8 DEF GoneLine
  <2> QED BY <2>1, <2>2, <2>3, <2>4, <1>8
<1> QED BY <1>6, <1>9, <1>10, <1>11 DEF LInv

\* What find_block finds where a block begins, as long as realloc was not called:
\* the block, unless it is empty.
LEMMA FoundAtStart ==
    ASSUME IInv, reallocs = 0, NEW b \in live
    PROVE  /\ b.mid \in Mids /\ b.size \in Nat
           /\ find_block(b.start) = IF b.size > 0 THEN b.mid ELSE NoId
<1>1. b \in TracedLive /\ b.mid # NoId
  BY DEF IInv, AllTraced, TracedLive
<1>2. b.mid \in Mids /\ b.start \in Addrs /\ b.size \in Nat
  BY <1>1, SizesNat DEF IInv, TypeOK, Block
<1>3. b.start \in Nat
  BY <1>2, MaxAddrNat DEF Addrs
<1>4. CASE b.size > 0
  <2>1. b.start \in Bytes(b.start, b.size)
    BY <1>2, <1>3, <1>4 DEF Bytes
  <2> QED BY <1>1, <1>2, <1>4, <2>1 DEF IInv, EntriesOwn, find_block
<1>5. CASE b.size = 0
  <2>1. b.start \notin Bytes(b.start, b.size)
    BY <1>3, <1>5 DEF Bytes
  <2>2. ASSUME NEW d \in live, b.start \in Bytes(d.start, d.size) PROVE FALSE
    BY <2>1, <2>2 DEF IInv, Apart, Footprint
  <2>3. g_blocks[b.start] = NoId
    BY <1>2, <2>2 DEF IInv, NothingStale
  <2> QED BY <1>2, <1>5, <2>3 DEF find_block
<1> QED BY <1>2, <1>4, <1>5

\* A line F or S is recorded of a live block that has no F line yet, or for an id
\* that realloc has made stale.
LEMMA OpTold ==
    ASSUME IInv, LInv, NEW e, g_ops' = Append(g_ops, e), e.op # "N", e.mid \in Mids,
           UNCHANGED <<g_memoryid_counter, reallocs>>, live' \subseteq live,
           reallocs = 0 => OpIndices(e.mid, "F") = {},
           reallocs = 0 => \/ e.op # "F" /\ live' = live
                           \/ /\ e.op = "F"
                              /\ \A b \in live : b.mid # e.mid => b \in live'
                              /\ \A i \in OpIndices(e.mid, "N") : g_ops[i].size > 0
                              /\ \A b \in live' : b.mid # e.mid
    PROVE  LInv'
<1>1. Mids' = Mids
  BY DEF Mids
<1>2. /\ \A i \in 1..Len(g_ops) : g_ops'[i] = g_ops[i]
      /\ \A m, o : e.mid # m \/ e.op # o => OpIndices(m, o)' = OpIndices(m, o)
      /\ \A m, o : e.mid = m /\ e.op = o =>
            OpIndices(m, o)' = OpIndices(m, o) \cup {Len(g_ops) + 1}
  BY Appended DEF IInv
<1>3. SizesTold'
  <2> SUFFICES ASSUME reallocs = 0, NEW b \in live', NEW i \in OpIndices(b.mid, "N")'
               PROVE  g_ops'[i].size = b.size
    BY DEF SizesTold
  <2>1. b \in live /\ i \in OpIndices(b.mid, "N")
    BY <1>2
  <2>2. g_ops'[i] = g_ops[i]
    BY <2>1, <1>2 DEF OpIndices
  <2> QED BY <2>1, <2>2 DEF LInv, SizesTold
<1>4. ASSUME NEW mid \in Mids
      PROVE  \E n \in OpIndices(mid, "N")' :
                 /\ FirstLine(mid, n)'
                 /\ reallocs' = 0 => LastLine(mid)' /\ GoneLine(mid, n)'
  <2>1. PICK n \in OpIndices(mid, "N") :
            FirstLine(mid, n) /\ (reallocs = 0 => LastLine(mid) /\ GoneLine(mid, n))
    BY DEF LInv
  <2>2. FirstLine(mid, n)' /\ n \in 1..Len(g_ops) /\ g_ops'[n] = g_ops[n]
    BY <2>1, FirstStays DEF IInv
  <2>3. reallocs = 0 => LastLine(mid)'
    BY <2>1, LastStays DEF IInv
  <2>4. ASSUME reallocs = 0 PROVE GoneLine(mid, n)'
    <3>1. CASE e.op # "F"
      BY <2>1, <2>2, <2>4, <3>1, <1>2 DEF GoneLine
    <3>2. CASE e.op = "F" /\ mid # e.mid
      <4>1. OpIndices(mid, "F")' = OpIndices(mid, "F")
        BY <3>2, <1>2
      <4>2. (\E b \in live : b.mid = mid) <=> (\E b \in live' : b.mid = mid)
        BY <2>4, <3>2
      <4> QED BY <2>1, <2>2, <2>4, <4>1, <4>2 DEF GoneLine
    <3>3. CASE e.op = "F" /\ mid = e.mid
      <4>1. OpIndices(mid, "F")' # {}
        BY <3>3, <1>2
      <4>2. g_ops'[n].size > 0 /\ \A b \in live' : b.mid # mid
        BY <2>1, <2>2, <2>4, <3>3
      <4> QED BY <4>1, <4>2 DEF GoneLine
    <3> QED BY <3>1, <3>2, <3>3
  <2>5. n \in OpIndices(mid, "N")'
    BY <2>2 DEF FirstLine
  <2> QED BY <2>2, <2>3, <2>4, <2>5
<1> QED BY <1>1, <1>3, <1>4 DEF LInv

\* handle_free: the F line is the last one, and an empty block has none.
LEMMA FreeTold ==
    ASSUME IInv, LInv, NEW gone \in live, handle_free(gone)
    PROVE  LInv'
<1>1. /\ live' = live \ {gone} /\ UNCHANGED <<g_memoryid_counter, reallocs>>
      /\ add_op(gone.start, "F", 0)
  BY DEF handle_free
<1>2. CASE find_block(gone.start) = NoId
  <2>1. g_ops' = g_ops /\ Mids' = Mids
    BY <1>1, <1>2 DEF add_op, Mids
  <2>2. \A m, o : OpIndices(m, o)' = OpIndices(m, o)
    BY <2>1 DEF OpIndices
  <2>3. SizesTold'
    BY <1>1, <2>1, <2>2 DEF LInv, SizesTold
  <2>4. ASSUME NEW mid \in Mids
        PROVE  \E n \in OpIndices(mid, "N")' :
                   /\ FirstLine(mid, n)'
                   /\ reallocs' = 0 => LastLine(mid)' /\ GoneLine(mid, n)'
    <3>1. PICK n \in OpIndices(mid, "N") :
              FirstLine(mid, n) /\ (reallocs = 0 => LastLine(mid) /\ GoneLine(mid, n))
      BY DEF LInv
    <3>2. FirstLine(mid, n)' /\ (reallocs = 0 => LastLine(mid)')
      BY <3>1, <2>1, <2>2 DEF FirstLine, LastLine
    <3>3. ASSUME reallocs = 0 PROVE GoneLine(mid, n)'
      <4>1. gone.size = 0 /\ gone.mid \in Mids
        BY <3>3, <1>2, FoundAtStart DEF Mids, NoId
      <4>2. CASE mid = gone.mid
        <5>1. g_ops[n].size = 0
          BY <3>1, <3>3, <4>1, <4>2 DEF LInv, SizesTold
        <5>2. OpIndices(mid, "F") = {}
          BY <4>1, <4>2, <3>3, LiveNotGone
        <5> QED BY <5>1, <5>2, <2>1, <2>2 DEF GoneLine
      <4>3. CASE mid # gone.mid
        BY <3>1, <3>3, <4>3, <1>1, <2>1, <2>2 DEF GoneLine
      <4> QED BY <4>2, <4>3
    <3> QED BY <3>1, <3>2, <3>3, <2>2, <1>1
  <2> QED BY <2>1, <2>3, <2>4 DEF LInv
<1>3. CASE find_block(gone.start) # NoId
  <2>1. PICK e : e = Op(find_block(gone.start), "F", 0)
    OBVIOUS
  <2>2. g_ops' = Append(g_ops, e) /\ e.mid = find_block(gone.start) /\ e.op = "F"
    BY <1>1, <1>3, <2>1 DEF add_op, Op
  <2>3. e.mid \in Mids
    BY <2>2, <1>3 DEF find_block, IInv, TypeOK
  <2>4. ASSUME reallocs = 0
        PROVE  /\ OpIndices(e.mid, "F") = {}
               /\ \A b \in live : b.mid # e.mid => b \in live'
               /\ \A i \in OpIndices(e.mid, "N") : g_ops[i].size > 0
               /\ \A b \in live' : b.mid # e.mid
    <3>1. gone.size \in Nat /\ gone.size > 0 /\ e.mid = gone.mid /\ gone.mid \in Mids
      BY <2>2, <2>4, <1>3, FoundAtStart
    <3>2. \A i \in OpIndices(e.mid, "N") : g_ops[i].size > 0
      BY <3>1, <2>4 DEF LInv, SizesTold
    <3>3. \A b \in live' : b.mid # e.mid
      <4>1. \A b \in live : b \in TracedLive
        BY <2>4 DEF IInv, AllTraced
      <4> QED BY <4>1, <3>1, <1>1 DEF IInv, IdsDiffer
    <3> QED BY <3>1, <3>2, <3>3, <2>4, <1>1, LiveNotGone
  <2>5. live' \subseteq live
    BY <1>1
  <2> QED BY <1>1, <2>2, <2>3, <2>4, <2>5, OpTold
<1> QED BY <1>2, <1>3

\* Once realloc was called, only the N lines are told of.
LEMMA ReallocTold ==
    ASSUME IInv, LInv, NEW old \in live, NEW start \in Addrs, NEW size \in Sizes,
           realloc(old, start, size)
    PROVE  LInv'
<1>1. reallocs' # 0 /\ g_ops' = g_ops /\ Mids' = Mids
  BY DEF realloc, IInv, TypeOK, Mids
<1> QED BY <1>1 DEF LInv, SizesTold, OpIndices, FirstLine

\* An access is recorded of a live block, or after realloc.
LEMMA AccessTold ==
    ASSUME IInv, LInv, NEW addr \in Addrs, NEW size \in AccessSizes, access(addr, size)
    PROVE  LInv'
<1>1. /\ UNCHANGED <<live, g_memoryid_counter, reallocs>> /\ add_op(addr, "S", size)
  BY DEF access
<1>2. CASE find_block(addr) = NoId
  <2>1. g_ops' = g_ops
    BY <1>1, <1>2 DEF add_op
  <2> QED BY <1>1, <2>1 DEF LInv, SizesTold, OpIndices, FirstLine, LastLine, GoneLine, Mids
<1>3. CASE find_block(addr) # NoId
  <2>1. PICK e : e = Op(find_block(addr), "S", size)
    OBVIOUS
  <2>2. /\ g_ops' = Append(g_ops, e) /\ e.mid = find_block(addr) /\ e.op = "S"
        /\ e.mid = g_blocks[addr]
    BY <1>1, <1>3, <2>1 DEF add_op, Op, find_block
  <2>3. e.mid \in Mids
    BY <2>2, <1>3 DEF find_block, IInv, TypeOK
  <2>4. ASSUME reallocs = 0 PROVE OpIndices(e.mid, "F") = {}
    <3>1. PICK b \in live : e.mid = b.mid
      BY <2>2, <2>4, <1>3 DEF IInv, NothingStale
    <3> QED BY <3>1, <2>3, <2>4, LiveNotGone
  <2>5. live' \subseteq live /\ e.op # "N" /\ e.op # "F"
    BY <1>1, <2>2
  <2> QED BY <1>1, <2>2, <2>3, <2>4, <2>5, OpTold
<1> QED BY <1>2, <1>3

\* The list of operations tells each block's life, for every sequence of
\* allocations, frees, reallocs and accesses: the N line of an id is the only
\* one and the first, without realloc the F line is the last, and it is there
\* when a block that was not empty is gone (process_line, add_op).
THEOREM LivesTold == Spec => []OpsTellLives
<1>1. Init => LInv
  BY DEF Init, LInv, SizesTold, Mids
<1>2. IInv /\ LInv /\ [Next]_vars => LInv'
  <2> SUFFICES ASSUME IInv, LInv, [Next]_vars PROVE LInv'
    OBVIOUS
  <2>1. CASE Malloc
    BY <2>1, NewBlockTold DEF Malloc
  <2>2. CASE Free
    BY <2>2, FreeTold DEF Free
  <2>3. CASE Realloc
    BY <2>3, ReallocTold DEF Realloc
  <2>4. CASE Access
    BY <2>4, AccessTold DEF Access
  <2>5. CASE UNCHANGED vars
    BY <2>5 DEF vars, LInv, SizesTold, OpIndices, FirstLine, LastLine, GoneLine, Mids
  <2> QED BY <2>1, <2>2, <2>3, <2>4, <2>5 DEF Next
<1>3. LInv => OpsTellLives
  BY DEF LInv, OpsTellLives, FirstLine, LastLine, GoneLine
<1> QED BY <1>1, <1>2, <1>3, Inductive, PTL DEF Spec

-----------------------------------------------------------------------------
(* LockOps: a file and the lines written for each operation *)

\* e[i] is where the i-th of the sequences in s ends when all are joined.
Ends(e, s) == /\ e \in [0..Len(s) -> Nat] /\ e[0] = 0
              /\ \A i \in 1..Len(s) : e[i] = e[i - 1] + Len(s[i])

\* Where the k-th element of the i-th sequence is then.
Place(e, i, k) == e[i - 1] + k

\* Every sequence of sequences has its ends.
LEMMA EndsExist ==
    ASSUME NEW S, NEW s \in Seq(Seq(S))
    PROVE  \E e : Ends(e, s)
<1> DEFINE step == [i \in 1..Len(s) |-> [x \in Nat |-> x + Len(s[i])]]
<1>1. Len(s) \in Nat /\ \A i \in 1..Len(s) : s[i] \in Seq(S) /\ Len(s[i]) \in Nat
  OBVIOUS
<1>2. step \in [1..Len(s) -> [Nat -> Nat]]
  BY <1>1
<1>3. \A i \in 1..Len(s), x \in Nat : step[i][x] = x + Len(s[i])
  OBVIOUS
<1> HIDE DEF step
<1>4. PICK e : Computes(e, Nat, 0, step, Len(s))
  BY <1>1, <1>2, Recursion
<1>5. e \in [0..Len(s) -> Nat] /\ e[0] = 0
  BY <1>4 DEF Computes
<1>6. ASSUME NEW i \in 1..Len(s) PROVE e[i] = e[i - 1] + Len(s[i])
  <2>1. i - 1 \in 0..Len(s)
    BY <1>1
  <2>2. e[i] = step[i][e[i - 1]]
    BY <1>4 DEF Computes
  <2> QED BY <2>1, <2>2, <1>3, <1>5
<1> QED BY <1>5, <1>6 DEF Ends

\* The ends rise from sequence to sequence.
LEMMA EndsRise ==
    ASSUME NEW S, NEW s \in Seq(Seq(S)), NEW e, Ends(e, s),
           NEW i \in 0..Len(s), NEW j \in 0..Len(s), i <= j
    PROVE  e[i] <= e[j]
<1> DEFINE P == {m \in Nat : i + m \in 0..Len(s) => e[i] <= e[i + m]}
<1>0. Len(s) \in Nat /\ \A k \in 1..Len(s) : s[k] \in Seq(S) /\ Len(s[k]) \in Nat
  OBVIOUS
<1>1. 0 \in P
  <2>1. i + 0 = i /\ e[i] \in Nat
    BY <1>0 DEF Ends
  <2> QED BY <2>1
<1>2. ASSUME NEW m \in P PROVE m + 1 \in P
  <2> SUFFICES ASSUME i + (m + 1) \in 0..Len(s) PROVE e[i] <= e[i + (m + 1)]
    OBVIOUS
  <2>1. PICK a, b : a = i + m /\ b = i + (m + 1)
    OBVIOUS
  <2>2. a \in 0..Len(s) /\ b \in 1..Len(s) /\ b - 1 = a /\ e[i] <= e[a]
    BY <2>1, <1>0
  <2>3. e[b] = e[a] + Len(s[b]) /\ e[a] \in Nat /\ e[i] \in Nat /\ Len(s[b]) \in Nat
    BY <2>2, <1>0 DEF Ends
  <2> QED BY <2>1, <2>2, <2>3
<1>3. P \subseteq Nat
  OBVIOUS
<1> HIDE DEF P
<1>4. Nat \subseteq P
  BY <1>1, <1>2, <1>3, Induction
<1>5. j - i \in P
  BY <1>0, <1>4
<1> QED BY <1>0, <1>5 DEF P

\* The first m sequences of s, joined, are file.
Joined(file, s, e, m) ==
    /\ Len(file) = e[m]
    /\ \A i \in 1..m : \A k \in 1..Len(s[i]) : file[Place(e, i, k)] = s[i][k]

\* Joining one more sequence.
LEMMA JoinNext ==
    ASSUME NEW S, NEW s \in Seq(Seq(S)), NEW e, Ends(e, s), NEW m \in 0..(Len(s) - 1),
           NEW file \in Seq(S), Joined(file, s, e, m), NEW next, next = file \o s[m + 1]
    PROVE  next \in Seq(S) /\ Joined(next, s, e, m + 1)
<1>0. Len(s) \in Nat /\ \A k \in 1..Len(s) : s[k] \in Seq(S) /\ Len(s[k]) \in Nat
  OBVIOUS
<1>1. m + 1 \in 1..Len(s) /\ m \in 0..Len(s) /\ (m + 1) - 1 = m
  BY <1>0
<1>2. PICK t : t = s[m + 1]
  OBVIOUS
<1>3. t \in Seq(S) /\ Len(t) \in Nat /\ Len(file) \in Nat /\ Len(file) = e[m]
  BY <1>0, <1>1, <1>2 DEF Joined
<1>4. /\ next \in Seq(S) /\ Len(next) = Len(file) + Len(t)
      /\ \A i \in 1..(Len(file) + Len(t)) :
            next[i] = IF i <= Len(file) THEN file[i] ELSE t[i - Len(file)]
  BY <1>2, <1>3, ConcatProperties
<1>5. Len(next) = e[m + 1]
  <2>1. e[m + 1] = e[m] + Len(t)
    BY <1>1, <1>2 DEF Ends
  <2> QED BY <2>1, <1>3, <1>4
<1>7. PICK lf, lt : lf = Len(file) /\ lt = Len(t) /\ lf \in Nat /\ lt \in Nat
  BY <1>3
<1>6. ASSUME NEW i \in 1..(m + 1), NEW k \in 1..Len(s[i]) PROVE next[Place(e, i, k)] = s[i][k]
  <2>1. PICK p : p = Place(e, i, k)
    OBVIOUS
  <2>2. i \in 1..Len(s) /\ i - 1 \in 0..Len(s) /\ Len(s[i]) \in Nat /\ k \in Nat /\ k >= 1
        /\ k <= Len(s[i])
    BY <1>0, <1>1
  <2>3. p = e[i - 1] + k /\ e[i - 1] \in Nat
    BY <2>1, <2>2 DEF Place, Ends
  <2>4. CASE i <= m
    <3>1. i \in 1..m /\ i \in 0..Len(s)
      BY <2>4, <1>1, <2>2
    <3>2. e[i] <= e[m] /\ e[i] = e[i - 1] + Len(s[i]) /\ e[i] \in Nat
      BY <3>1, <2>2, <2>4, <1>1, EndsRise DEF Ends
    <3>3. p \in 1..(lf + lt) /\ p <= lf
      <4>1. PICK a, b, c : a = e[i - 1] /\ b = Len(s[i]) /\ c = e[i]
        OBVIOUS
      <4>2. c <= lf /\ c = a + b /\ c \in Nat /\ a \in Nat /\ b \in Nat /\ k \in Nat
            /\ k >= 1 /\ k <= b /\ p = a + k
        BY <4>1, <3>2, <2>2, <2>3, <1>3, <1>7
      <4> QED BY <4>2, <1>7
    <3>4. file[p] = s[i][k]
      BY <3>1, <2>1 DEF Joined
    <3> QED BY <3>3, <3>4, <1>4, <1>7, <2>1
  <2>5. CASE i = m + 1
    <3>1. s[i] = t /\ i - 1 = m
      BY <2>5, <1>2, <1>1
    <3>2. p = lf + k /\ k <= lt /\ k \in Nat /\ k >= 1
      BY <3>1, <2>2, <2>3, <1>3, <1>7
    <3>3. p \in 1..(lf + lt) /\ ~(p <= lf) /\ p - lf = k
      <4>1. p \in Nat /\ p >= 1 /\ p <= lf + lt /\ p > lf
        BY <3>2, <1>7
      <4> QED BY <4>1, <3>2, <1>7
    <3> QED BY <3>1, <3>3, <1>4, <1>7, <2>1
  <2>6. i <= m \/ i = m + 1
    OBVIOUS
  <2> QED BY <2>4, <2>5, <2>6
<1> QED BY <1>4, <1>5, <1>6 DEF Joined

\* FlattenSeq joins the sequences.
LEMMA Flattened ==
    ASSUME NEW S, NEW s \in Seq(Seq(S)), NEW e, Ends(e, s)
    PROVE  FlattenSeq(s) \in Seq(S) /\ Joined(FlattenSeq(s), s, e, Len(s))
<1>0. Len(s) \in Nat /\ \A k \in 1..Len(s) : s[k] \in Seq(S) /\ Len(s[k]) \in Nat
  OBVIOUS
<1>1. CASE Len(s) = 0
  <2>1. FlattenSeq(s) = s /\ s = <<>>
    BY <1>1 DEF FlattenSeq
  <2>2. <<>> \in Seq(S) /\ Len(<<>>) = 0
    OBVIOUS
  <2>3. Joined(s, s, e, 0)
    BY <1>1 DEF Joined, Ends
  <2> QED BY <2>1, <2>2, <2>3, <1>1
<1>2. CASE Len(s) # 0
  <2>0. PICK n : n = Len(s) /\ n \in Nat \ {0}
    BY <1>0, <1>2
  <2> DEFINE step == [i \in 1..n |-> [x \in Seq(S) |-> x \o s[i]]]
             Body(f) == [i \in 1..n |-> IF i = 1 THEN s[i] ELSE f[i - 1] \o s[i]]
             F == CHOOSE f : f = Body(f)
  <2>1. FlattenSeq(s) = F[n]
    BY <1>2, <2>0 DEF FlattenSeq
  <2>2. step \in [1..n -> [Seq(S) -> Seq(S)]]
    BY <1>0, <2>0, ConcatProperties
  <2>3. \A i \in 1..n, x \in Seq(S) : step[i][x] = x \o s[i]
    OBVIOUS
  <2>4. PICK h : Computes(h, Seq(S), <<>>, step, n)
    <3> HIDE DEF step
    <3>1. <<>> \in Seq(S)
      OBVIOUS
    <3> QED BY <3>1, <2>0, <2>2, Recursion
  <2>5. h \in [0..n -> Seq(S)] /\ h[0] = <<>> /\ \A i \in 1..n : h[i] = h[i - 1] \o s[i]
    <3>1. h \in [0..n -> Seq(S)] /\ h[0] = <<>> /\ \A i \in 1..n : h[i] = step[i][h[i - 1]]
      BY <2>4 DEF Computes
    <3> HIDE DEF step
    <3>2. \A i \in 1..n : i - 1 \in 0..n
      BY <2>0
    <3> QED BY <3>1, <3>2, <2>3
  <2>6. PICK g : g = [i \in 1..n |-> h[i]]
    OBVIOUS
  <2>7. g = Body(g)
    <3>1. ASSUME NEW i \in 1..n PROVE g[i] = IF i = 1 THEN s[i] ELSE g[i - 1] \o s[i]
      <4>1. CASE i = 1
        <5>0. 1 \in 1..n /\ 1 - 1 = 0
          BY <4>1
        <5>1. h[1] = h[1 - 1] \o s[1] /\ g[1] = h[1] /\ h[1 - 1] = <<>>
          BY <5>0, <2>5, <2>6
        <5>2. s[1] \in Seq(S)
          BY <1>0, <2>0
        <5>3. <<>> \o s[1] = s[1]
          BY <5>2, ConcatEmptySeq
        <5> QED BY <5>1, <5>3, <4>1, Zenon
      <4>2. CASE i # 1
        <5>1. i - 1 \in 1..n
          BY <4>2, <2>0
        <5> QED BY <5>1, <4>2, <2>5, <2>6
      <4> QED BY <4>1, <4>2
    <3> QED BY <3>1, <2>6
  <2>8. F = Body(F)
    <3> HIDE DEF Body
    <3> QED BY <2>7
  <2>9. \A i \in 1..n : F[i] = IF i = 1 THEN s[i] ELSE F[i - 1] \o s[i]
    <3>1. \A i \in 1..n : Body(F)[i] = IF i = 1 THEN s[i] ELSE F[i - 1] \o s[i]
      <4> HIDE DEF F
      <4> QED OBVIOUS
    <3> HIDE DEF F, Body
    <3> QED BY <3>1, <2>8
  <2> HIDE DEF F, step, Body
  <2> DEFINE P == {m \in Nat : m + 1 <= n => F[m + 1] \in Seq(S) /\ Joined(F[m + 1], s, e, m + 1)}
  <2>10. 0 \in P
    <3>1. 1 \in 1..n /\ 0 \in 0..(Len(s) - 1) /\ 0 + 1 = 1
      BY <2>0
    <3>2. F[1] = s[1] /\ s[1] \in Seq(S)
      BY <3>1, <2>9, <1>0, <2>0
    <3>3. Joined(<<>>, s, e, 0) /\ <<>> \in Seq(S)
      BY DEF Joined, Ends
    <3>4. F[1] = <<>> \o s[1]
      BY <3>2, ConcatEmptySeq
    <3>5. F[1] \in Seq(S) /\ Joined(F[1], s, e, 0 + 1)
      BY <3>1, <3>3, <3>4, JoinNext
    <3> QED BY <3>1, <3>5
  <2>11. ASSUME NEW m \in P PROVE m + 1 \in P
    <3> SUFFICES ASSUME (m + 1) + 1 <= n
                 PROVE  F[(m + 1) + 1] \in Seq(S) /\ Joined(F[(m + 1) + 1], s, e, (m + 1) + 1)
      OBVIOUS
    <3>1. PICK j : j = m + 1
      OBVIOUS
    <3>6. m \in Nat /\ (m + 1 <= n => F[m + 1] \in Seq(S) /\ Joined(F[m + 1], s, e, m + 1))
      BY DEF P
    <3>7. m + 1 <= n
      BY <3>6, <2>0
    <3>2. j \in Nat /\ j + 1 <= n /\ j >= 1 /\ F[j] \in Seq(S) /\ Joined(F[j], s, e, j)
      BY <3>1, <3>6, <3>7
    <3>3. j \in 0..(Len(s) - 1) /\ j + 1 \in 1..n /\ j + 1 # 1 /\ (j + 1) - 1 = j
      BY <3>2, <2>0
    <3>4. F[j + 1] = F[j] \o s[j + 1]
      BY <3>3, <2>9
    <3>5. F[j + 1] \in Seq(S) /\ Joined(F[j + 1], s, e, j + 1)
      BY <3>2, <3>3, <3>4, JoinNext
    <3> QED BY <3>1, <3>5
  <2>12. P \subseteq Nat
    OBVIOUS
  <2>13. Nat \subseteq P
    <3> HIDE DEF P
    <3> QED BY <2>10, <2>11, <2>12, Induction
  <2>14. n - 1 \in P /\ (n - 1) + 1 = n
    <3> HIDE DEF P
    <3> QED BY <2>0, <2>13
  <2> QED BY <2>14, <2>1, <2>0
<1> QED BY <1>1, <1>2

\* file consists of the lines of s[1], s[2] and so on, in this order: the k-th
\* line of s[i] is at at[i][k].
Written(file, s, at) ==
    /\ \A i \in 1..Len(s) : \A k \in 1..Len(s[i]) :
          at[i][k] \in 1..Len(file) /\ file[at[i][k]] = s[i][k]
    /\ \A p \in 1..Len(file) : \E i \in 1..Len(s) : \E k \in 1..Len(s[i]) : p = at[i][k]
    /\ \A i, j \in 1..Len(s) : \A k \in 1..Len(s[i]), l \in 1..Len(s[j]) :
          at[i][k] < at[j][l] <=> i < j \/ (i = j /\ k < l)

\* FlattenSeq writes the lines of s[1], s[2] and so on in this order.
LEMMA FlattenWritten ==
    ASSUME NEW S, NEW s \in Seq(Seq(S))
    PROVE  FlattenSeq(s) \in Seq(S) /\ \E at : Written(FlattenSeq(s), s, at)
<1>1. PICK file : file = FlattenSeq(s)
  OBVIOUS
<1>2. PICK e : Ends(e, s)
  BY EndsExist
<1>3. file \in Seq(S) /\ Joined(file, s, e, Len(s))
  BY <1>1, <1>2, Flattened
<1>4. PICK n : n = Len(s)
  OBVIOUS
<1>5. n \in Nat /\ \A k \in 1..n : s[k] \in Seq(S) /\ Len(s[k]) \in Nat
  BY <1>4
<1>6. PICK at : at = [i \in 1..n |-> [k \in 1..Len(s[i]) |-> Place(e, i, k)]]
  OBVIOUS
<1>7. /\ e \in [0..n -> Nat] /\ e[0] = 0
      /\ \A i \in 1..n : e[i] = e[i - 1] + Len(s[i])
      /\ Len(file) = e[n]
  BY <1>2, <1>3, <1>4 DEF Ends, Joined
<1>8. ASSUME NEW i \in 1..n, NEW k \in 1..Len(s[i])
      PROVE  /\ at[i][k] = e[i - 1] + k /\ e[i - 1] \in Nat /\ k \in Nat /\ k >= 1
             /\ e[i] \in Nat /\ at[i][k] > e[i - 1] /\ at[i][k] <= e[i]
             /\ file[at[i][k]] = s[i][k]
  <2>1. i - 1 \in 0..n /\ i \in 0..n
    BY <1>5
  <2>2. at[i][k] = e[i - 1] + k
    BY <1>6 DEF Place
  <2>3. e[i - 1] \in Nat /\ e[i] \in Nat /\ e[i] = e[i - 1] + Len(s[i]) /\ Len(s[i]) \in Nat
    BY <2>1, <1>5, <1>7
  <2>4. k \in Nat /\ k >= 1 /\ k <= Len(s[i])
    BY <2>3
  <2>5. PICK a, b, c : a = e[i - 1] /\ b = e[i] /\ c = Len(s[i])
    OBVIOUS
  <2>6. a + k > a /\ a + k <= b
    BY <2>3, <2>4, <2>5
  <2>7. file[Place(e, i, k)] = s[i][k] /\ Place(e, i, k) = at[i][k]
    BY <1>3, <1>4, <2>2 DEF Joined, Place
  <2> QED BY <2>2, <2>3, <2>4, <2>5, <2>6, <2>7
<1>9. ASSUME NEW i \in 0..n, NEW j \in 0..n, i <= j PROVE e[i] <= e[j]
  BY <1>2, <1>4, <1>9, EndsRise
<1>10. ASSUME NEW i \in 1..n, NEW k \in 1..Len(s[i]) PROVE at[i][k] \in 1..Len(file)
  <2>1. e[i] <= e[n]
    BY <1>5, <1>9
  <2>2. PICK a, b, c, f : a = e[i - 1] /\ b = e[i] /\ c = at[i][k] /\ f = e[n]
    OBVIOUS
  <2>3. a \in Nat /\ b \in Nat /\ c = a + k /\ k \in Nat /\ c > a /\ c <= b /\ b <= f
        /\ f \in Nat
    BY <1>5, <1>7, <1>8, <2>1, <2>2
  <2>4. c \in 1..f
    BY <2>3
  <2> QED BY <2>2, <2>4, <1>7
<1>11. ASSUME NEW p \in 1..Len(file)
       PROVE  \E i \in 1..n : \E k \in 1..Len(s[i]) : p = at[i][k]
  <2> DEFINE T == {i \in Nat : i <= n /\ p <= e[i]}
  <2>1. Len(file) \in Nat /\ p \in Nat /\ p >= 1 /\ p <= e[n]
    BY <1>5, <1>7
  <2>2. n \in T /\ T \in SUBSET Nat
    BY <1>5, <2>1
  <2>3. PICK i \in T : \A j \in T : i <= j
    <3> HIDE DEF T
    <3> QED BY <2>2, Least
  <2>4. i \in Nat /\ i <= n /\ p <= e[i]
    BY <2>3
  <2>5. i # 0
    BY <1>7, <2>1, <2>4
  <2>6. i \in 1..n /\ i - 1 \in Nat /\ i - 1 <= n /\ i - 1 \in 0..n /\ i \in 0..n
    BY <2>4, <2>5, <1>5
  <2>7. i - 1 \notin T
    <3>1. ~(i <= i - 1)
      BY <2>4
    <3> HIDE DEF T
    <3> QED BY <3>1, <2>3
  <2>8. ~(p <= e[i - 1])
    BY <2>6, <2>7
  <2>9. PICK a, b, c : a = e[i - 1] /\ b = e[i] /\ c = Len(s[i])
    OBVIOUS
  <2>10. a \in Nat /\ b \in Nat /\ c \in Nat /\ b = a + c /\ p <= b /\ ~(p <= a)
    BY <2>4, <2>6, <2>8, <2>9, <1>5, <1>7
  <2>11. PICK k : k = p - a
    OBVIOUS
  <2>12. k \in 1..c /\ p = a + k
    BY <2>1, <2>10, <2>11
  <2>13. k \in 1..Len(s[i]) /\ p = at[i][k]
    BY <2>6, <2>9, <2>12, <1>8
  <2> QED BY <2>6, <2>13
<1>12. ASSUME NEW i \in 1..n, NEW j \in 1..n, NEW k \in 1..Len(s[i]), NEW l \in 1..Len(s[j])
       PROVE  at[i][k] < at[j][l] <=> i < j \/ (i = j /\ k < l)
  <2>1. /\ at[i][k] = e[i - 1] + k /\ e[i - 1] \in Nat /\ k \in Nat /\ k >= 1
        /\ e[i] \in Nat /\ at[i][k] > e[i - 1] /\ at[i][k] <= e[i]
    BY <1>8
  <2>2. /\ at[j][l] = e[j - 1] + l /\ e[j - 1] \in Nat /\ l \in Nat /\ l >= 1
        /\ e[j] \in Nat /\ at[j][l] > e[j - 1] /\ at[j][l] <= e[j]
    BY <1>8
  <2>3. PICK x, y, a, b, c, d : /\ x = at[i][k] /\ y = at[j][l]
                                /\ a = e[i - 1] /\ b = e[i] /\ c = e[j - 1] /\ d = e[j]
    OBVIOUS
  <2>4. /\ a \in Nat /\ b \in Nat /\ c \in Nat /\ d \in Nat /\ x = a + k /\ y = c + l
        /\ k \in Nat /\ l \in Nat /\ x > a /\ x <= b /\ y > c /\ y <= d
    BY <2>1, <2>2, <2>3
  <2>5. i < j => b <= c
    <3> SUFFICES ASSUME i < j PROVE b <= c
      OBVIOUS
    <3>1. i \in 0..n /\ j - 1 \in 0..n /\ i <= j - 1
      BY <1>5
    <3> QED BY <3>1, <1>9, <2>3
  <2>6. j < i => d <= a
    <3> SUFFICES ASSUME j < i PROVE d <= a
      OBVIOUS
    <3>1. j \in 0..n /\ i - 1 \in 0..n /\ j <= i - 1
      BY <1>5
    <3> QED BY <3>1, <1>9, <2>3
  <2>7. i = j => a = c
    BY <2>3
  <2>8. i < j => x < y
    BY <2>4, <2>5
  <2>9. j < i => y < x
    BY <2>4, <2>6
  <2>10. i = j => (x < y <=> k < l)
    BY <2>4, <2>7
  <2>11. i < j \/ j < i \/ i = j
    BY <1>5
  <2>12. ~(y < x /\ x < y) /\ ~(i < j /\ j < i) /\ ~(i < j /\ i = j)
    BY <2>4, <1>5
  <2> QED BY <2>3, <2>8, <2>9, <2>10, <2>11, <2>12
<1>13. Written(file, s, at)
  BY <1>4, <1>8, <1>10, <1>11, <1>12 DEF Written
<1> QED BY <1>1, <1>3, <1>13

-----------------------------------------------------------------------------
(* LockOps: what the translations are told *)

\* What the translations rely on: the list of operations tells each block's
\* life, from its one N line to its F line, if there is one.
Told ==
    /\ Len(g_ops) \in Nat /\ g_memoryid_counter \in Nat
    /\ \A i \in Lines : /\ g_ops[i] \in OpLine /\ g_ops[i].mid \in Mids
                        /\ g_ops[i].op \in {"N", "F", "S"}
    /\ \A mid \in Mids : /\ StartOf(mid) \in Lines /\ g_ops[StartOf(mid)].op = "N"
                         /\ g_ops[StartOf(mid)].mid = mid
                         /\ \A i \in Lines : i < StartOf(mid) => g_ops[i].mid < mid
    /\ \A i \in Lines : /\ i >= StartOf(g_ops[i].mid)
                        /\ g_ops[i].op = "N" => i = StartOf(g_ops[i].mid)
                        /\ g_ops[i].op = "F" => g_ops[i].mid \in g_stops
                                                /\ i = StopOf(g_ops[i].mid)
                        /\ g_ops[i].mid \in g_stops => i <= StopOf(g_ops[i].mid)
    /\ \A mid \in g_stops : /\ StopOf(mid) \in Lines /\ g_ops[StopOf(mid)].op = "F"
                            /\ g_ops[StopOf(mid)].mid = mid /\ mid \in Mids

\* That is what OpsTellLives says of a trace without realloc.
LEMMA LivesAreTold ==
    ASSUME TypeOK, OpsTellLives, reallocs = 0
    PROVE  Told
<1>0. /\ Len(g_ops) \in Nat /\ g_memoryid_counter \in Nat
      /\ \A mid \in Mids : mid \in Int
  BY OpTyped
<1>1. \A i \in Lines : /\ g_ops[i] \in OpLine /\ g_ops[i].mid \in Mids
                       /\ g_ops[i].op \in {"N", "F", "S"}
  <2>1. \A i \in Lines : g_ops[i] \in OpLine
    BY DEF TypeOK, Lines
  <2> QED BY <2>1 DEF OpLine
<1>2. ASSUME NEW mid \in Mids
      PROVE  /\ StartOf(mid) \in Lines /\ g_ops[StartOf(mid)].op = "N"
             /\ g_ops[StartOf(mid)].mid = mid
             /\ \A i \in Lines : i < StartOf(mid) => g_ops[i].mid < mid
             /\ \A i \in Lines : g_ops[i].mid = mid => i >= StartOf(mid)
             /\ \A i \in Lines : g_ops[i].mid = mid /\ g_ops[i].op = "N" => i = StartOf(mid)
             /\ \A i \in OpIndices(mid, "F"), j \in Lines : g_ops[j].mid = mid => j <= i
  <2>1. PICK n \in OpIndices(mid, "N") :
            /\ OpIndices(mid, "N") = {n}
            /\ \A i \in Lines : (i < n => g_ops[i].mid < mid) /\ (g_ops[i].mid = mid => i >= n)
            /\ \A i \in OpIndices(mid, "F"), j \in Lines : g_ops[j].mid = mid => j <= i
    BY DEF OpsTellLives, Lines
  <2>2. n \in Lines /\ g_ops[n].mid = mid /\ g_ops[n].op = "N" /\ n \in Int
    BY <1>0 DEF OpIndices, Lines
  <2>3. StartOf(mid) = n
    <3>1. n <= n
      BY <2>2
    <3> QED BY <3>1, <2>1 DEF StartOf, Min
  <2>4. \A i \in Lines : g_ops[i].mid = mid /\ g_ops[i].op = "N" => i = n
    BY <2>1 DEF OpIndices, Lines
  <2> QED BY <2>1, <2>2, <2>3, <2>4
<1>3. ASSUME NEW mid \in Mids, NEW f \in OpIndices(mid, "F")
      PROVE  mid \in g_stops /\ StopOf(mid) = f
  <2>1. f \in Lines /\ g_ops[f].mid = mid /\ f \in Int
    BY <1>0 DEF OpIndices, Lines
  <2>2. OpIndices(mid, "F") \subseteq {i \in Lines : g_ops[i].mid = mid}
    BY DEF OpIndices, Lines
  <2>3. \A i \in OpIndices(mid, "F") : f >= i /\ i >= f /\ i \in Int
    BY <1>0, <1>2, <2>1, <2>2 DEF Lines
  <2>4. \A i \in OpIndices(mid, "F") : i = f
    BY <2>3, <2>1
  <2>5. OpIndices(mid, "F") = {f}
    BY <2>4
  <2>6. f >= f
    BY <2>1
  <2> QED BY <2>5, <2>6 DEF StopOf, Max, g_stops
<1>4. ASSUME NEW mid \in g_stops
      PROVE  /\ StopOf(mid) \in Lines /\ g_ops[StopOf(mid)].op = "F"
             /\ g_ops[StopOf(mid)].mid = mid /\ mid \in Mids
             /\ StopOf(mid) \in OpIndices(mid, "F")
  <2>1. mid \in Mids /\ OpIndices(mid, "F") # {}
    BY DEF g_stops
  <2>2. PICK f : f \in OpIndices(mid, "F")
    BY <2>1
  <2> QED BY <2>1, <2>2, <1>3 DEF OpIndices, Lines
<1>5. ASSUME NEW i \in Lines
      PROVE  /\ i >= StartOf(g_ops[i].mid)
             /\ g_ops[i].op = "N" => i = StartOf(g_ops[i].mid)
             /\ g_ops[i].op = "F" => g_ops[i].mid \in g_stops /\ i = StopOf(g_ops[i].mid)
             /\ g_ops[i].mid \in g_stops => i <= StopOf(g_ops[i].mid)
  <2>1. g_ops[i].mid \in Mids
    BY <1>1
  <2>2. g_ops[i].op = "F" => i \in OpIndices(g_ops[i].mid, "F")
    BY DEF OpIndices, Lines
  <2>3. g_ops[i].mid \in g_stops => i <= StopOf(g_ops[i].mid)
    BY <2>1, <1>2, <1>4
  <2> QED BY <2>1, <2>2, <2>3, <1>2, <1>3
<1> QED BY <1>0, <1>1, <1>2, <1>4, <1>5 DEF Told

-----------------------------------------------------------------------------
(* LockOps: files that can be replayed *)

FileLine == [mid : Mids, op : {"N", "F", "L", "U"}, size : Sizes \cup AccessSizes \cup {0}]

\* s[i] are the lines written for operation i.  N and F lines are copied, and
\* a line that locks or unlocks a block is written during its life.
Copies(s) ==
    /\ s \in Seq(Seq(FileLine)) /\ Len(s) = Len(g_ops)
    /\ \A i \in Lines : g_ops[i].op \in {"N", "F"} => \E k \in 1..Len(s[i]) : s[i][k] = g_ops[i]
    /\ \A i \in Lines : \A k \in 1..Len(s[i]) : s[i][k].op \in {"N", "F"} =>
          s[i][k] = g_ops[i] /\ \A l \in 1..Len(s[i]) : s[i][l].op \in {"N", "F"} => l = k
    /\ \A i \in Lines : \A k \in 1..Len(s[i]) : s[i][k].op \in {"L", "U"} =>
          /\ \/ StartOf(s[i][k].mid) < i
             \/ \E l \in 1..(k - 1) : s[i][l].op = "N" /\ s[i][l].mid = s[i][k].mid
          /\ s[i][k].mid \in g_stops => i < StopOf(s[i][k].mid)

\* Both parts of FilesReplayable, of one file.
Numbered(file) ==
    \A p \in DOMAIN file : file[p].op = "N" =>
        file[p].mid = Cardinality({q \in 1..(p - 1) : file[q].op = "N"})
InLife(file) ==
    \A p \in DOMAIN file : file[p].op # "N" =>
        /\ \E q \in 1..(p - 1) : IsLine(file, q, file[p].mid, {"N"})
        /\ \A q \in 1..(p - 1) : ~IsLine(file, q, file[p].mid, {"F"})

\* Where a line of the file comes from.
LEMMA Source ==
    ASSUME Told, NEW s, Copies(s), NEW file \in Seq(FileLine), NEW at, Written(file, s, at),
           NEW p \in DOMAIN file
    PROVE  \E i \in Lines : \E k \in 1..Len(s[i]) :
              p = at[i][k] /\ file[p] = s[i][k] /\ file[p] \in FileLine
<1>1. p \in 1..Len(file) /\ file[p] \in FileLine
  OBVIOUS
<1>2. 1..Len(s) = Lines
  BY DEF Copies, Lines
<1>3. PICK i \in 1..Len(s) : \E k \in 1..Len(s[i]) : p = at[i][k]
  BY <1>1 DEF Written
<1>4. PICK k \in 1..Len(s[i]) : p = at[i][k]
  BY <1>3
<1>5. file[p] = s[i][k]
  BY <1>4 DEF Written
<1>6. i \in Lines
  BY <1>2
<1> QED BY <1>1, <1>4, <1>5, <1>6

\* Where a line of s is in the file, and in which order.
LEMMA Target ==
    ASSUME Told, NEW s, Copies(s), NEW file \in Seq(FileLine), NEW at, Written(file, s, at)
    PROVE  /\ \A i \in Lines : \A k \in 1..Len(s[i]) :
                 at[i][k] \in 1..Len(file) /\ at[i][k] \in Int /\ file[at[i][k]] = s[i][k]
           /\ \A i, j \in Lines : \A k \in 1..Len(s[i]), l \in 1..Len(s[j]) :
                 at[i][k] < at[j][l] <=> i < j \/ (i = j /\ k < l)
<1>1. 1..Len(s) = Lines
  BY DEF Copies, Lines
<1>2. Len(file) \in Nat
  OBVIOUS
<1>3. \A i \in Lines : \A k \in 1..Len(s[i]) :
          at[i][k] \in 1..Len(file) /\ file[at[i][k]] = s[i][k]
  BY <1>1, Zenon DEF Written
<1>4. \A i, j \in Lines : \A k \in 1..Len(s[i]), l \in 1..Len(s[j]) :
          at[i][k] < at[j][l] <=> i < j \/ (i = j /\ k < l)
  BY <1>1, Zenon DEF Written
<1>5. \A x \in 1..Len(file) : x \in Int
  BY <1>2
<1> QED BY <1>3, <1>4, <1>5, Zenon

\* The N line of a block is in the file, and where.
LEMMA NewLine ==
    ASSUME Told, NEW s, Copies(s), NEW file \in Seq(FileLine), NEW at, Written(file, s, at),
           NEW mid \in Mids
    PROVE  \E k \in 1..Len(s[StartOf(mid)]) :
              /\ s[StartOf(mid)][k].op = "N" /\ s[StartOf(mid)][k].mid = mid
              /\ at[StartOf(mid)][k] \in 1..Len(file)
              /\ IsLine(file, at[StartOf(mid)][k], mid, {"N"})
<1>1. PICK i : i = StartOf(mid)
  OBVIOUS
<1>2. i \in Lines /\ g_ops[i].op = "N" /\ g_ops[i].mid = mid
  BY <1>1 DEF Told
<1>3. PICK k \in 1..Len(s[i]) : s[i][k] = g_ops[i]
  BY <1>2 DEF Copies
<1>4. at[i][k] \in 1..Len(file) /\ file[at[i][k]] = s[i][k]
  BY <1>2, Target
<1>5. IsLine(file, at[i][k], mid, {"N"})
  BY <1>2, <1>3, <1>4 DEF IsLine
<1> QED BY <1>1, <1>2, <1>3, <1>4, <1>5

\* If the lines are copies, a handle is not used before its N or after its F line.
LEMMA CopiesInLife ==
    ASSUME Told, NEW s, Copies(s), NEW file \in Seq(FileLine), NEW at, Written(file, s, at)
    PROVE  InLife(file)
<1>a. \A q \in DOMAIN file : \E j \in Lines : \E l \in 1..Len(s[j]) :
          q = at[j][l] /\ file[q] = s[j][l]
  <2> SUFFICES ASSUME NEW q \in DOMAIN file
               PROVE  \E j \in Lines : \E l \in 1..Len(s[j]) : q = at[j][l] /\ file[q] = s[j][l]
    OBVIOUS
  <2>1. PICK j \in Lines : \E l \in 1..Len(s[j]) :
            q = at[j][l] /\ file[q] = s[j][l] /\ file[q] \in FileLine
    BY Source
  <2> QED BY <2>1
<1>b. \A i, j \in Lines : \A k \in 1..Len(s[i]), l \in 1..Len(s[j]) :
          at[i][k] < at[j][l] <=> i < j \/ (i = j /\ k < l)
  BY Target
<1> SUFFICES ASSUME NEW p \in DOMAIN file, file[p].op # "N"
             PROVE  /\ \E q \in 1..(p - 1) : IsLine(file, q, file[p].mid, {"N"})
                    /\ \A q \in 1..(p - 1) : ~IsLine(file, q, file[p].mid, {"F"})
  BY DEF InLife
<1>0. Len(file) \in Nat /\ p \in 1..Len(file) /\ p \in Int /\ Len(g_ops) \in Nat
      /\ \A i \in Lines : i \in Int
  BY DEF Told, Lines
<1>1. PICK i \in Lines : \E k \in 1..Len(s[i]) :
              p = at[i][k] /\ file[p] = s[i][k] /\ file[p] \in FileLine
  BY Source
<1>2. PICK k \in 1..Len(s[i]) : p = at[i][k] /\ file[p] = s[i][k] /\ file[p] \in FileLine
  BY <1>1
<1>3. PICK mid : mid = file[p].mid
  OBVIOUS
<1>4. mid \in Mids /\ mid = s[i][k].mid /\ s[i][k].op \in {"F", "L", "U"}
  BY <1>2, <1>3 DEF FileLine
<1>5. /\ StartOf(mid) < i \/ \E l \in 1..(k - 1) : s[i][l].op = "N" /\ s[i][l].mid = mid
      /\ \A j \in Lines : \A l \in 1..Len(s[j]) :
            s[j][l].op = "F" /\ s[j][l].mid = mid => i < j \/ (i = j /\ k = l)
  <2>1. CASE s[i][k].op = "F"
    <3>1. g_ops[i] = s[i][k]
      BY <2>1 DEF Copies
    <3>2. i >= StartOf(mid) /\ i = StopOf(mid) /\ i # StartOf(mid)
      BY <3>1, <2>1, <1>4 DEF Told
    <3>3. StartOf(mid) < i
      BY <3>2, <1>0, <1>4 DEF Told
    <3>4. ASSUME NEW j \in Lines, NEW l \in 1..Len(s[j]), s[j][l].op = "F", s[j][l].mid = mid
          PROVE  i = j /\ k = l
      <4>1. g_ops[j] = s[j][l]
        BY <3>4 DEF Copies
      <4>2. j = StopOf(mid)
        BY <4>1, <3>4 DEF Told
      <4>3. i = j
        BY <4>2, <3>2
      <4> QED BY <4>3, <3>4, <2>1 DEF Copies
    <3> QED BY <3>3, <3>4
  <2>2. CASE s[i][k].op \in {"L", "U"}
    <3>1. /\ StartOf(mid) < i \/ \E l \in 1..(k - 1) : s[i][l].op = "N" /\ s[i][l].mid = mid
          /\ mid \in g_stops => i < StopOf(mid)
      BY <2>2, <1>4 DEF Copies
    <3>2. ASSUME NEW j \in Lines, NEW l \in 1..Len(s[j]), s[j][l].op = "F", s[j][l].mid = mid
          PROVE  i < j
      <4>1. g_ops[j] = s[j][l]
        BY <3>2 DEF Copies
      <4>2. mid \in g_stops /\ j = StopOf(mid)
        BY <4>1, <3>2 DEF Told
      <4> QED BY <4>2, <3>1
    <3> QED BY <3>1, <3>2
  <2> QED BY <2>1, <2>2, <1>4
<1>6. \E q \in 1..(p - 1) : IsLine(file, q, mid, {"N"})
  <2>1. CASE StartOf(mid) < i
    <3>1. PICK j : j = StartOf(mid)
      OBVIOUS
    <3>2. PICK l \in 1..Len(s[j]) : at[j][l] \in 1..Len(file) /\ IsLine(file, at[j][l], mid, {"N"})
      BY <3>1, <1>4, NewLine
    <3>3. j \in Lines /\ j < i
      BY <3>1, <2>1, <1>4 DEF Told
    <3>4. at[j][l] < at[i][k]
      BY <3>3, <1>b
    <3>5. PICK q : q = at[j][l]
      OBVIOUS
    <3>6. q \in 1..(p - 1)
      BY <3>2, <3>4, <3>5, <1>0, <1>2
    <3> QED BY <3>2, <3>5, <3>6
  <2>2. CASE \E l \in 1..(k - 1) : s[i][l].op = "N" /\ s[i][l].mid = mid
    <3>0. Len(s[i]) \in Nat
      BY DEF Copies, Lines
    <3>1. PICK l \in 1..(k - 1) : s[i][l].op = "N" /\ s[i][l].mid = mid
      BY <2>2
    <3>2. l \in 1..Len(s[i]) /\ l < k
      BY <3>0
    <3>3. PICK q : q = at[i][l]
      OBVIOUS
    <3>4. q \in 1..Len(file) /\ q < p /\ file[q] = s[i][l]
      <4>1. q \in 1..Len(file) /\ file[q] = s[i][l]
        BY <3>2, <3>3, Target
      <4>2. at[i][l] < at[i][k]
        BY <3>2, <1>b
      <4> QED BY <4>1, <4>2, <3>3, <1>2
    <3>5. q \in 1..(p - 1)
      BY <3>4, <1>0
    <3>6. IsLine(file, q, mid, {"N"})
      BY <3>1, <3>4 DEF IsLine
    <3> QED BY <3>5, <3>6
  <2> QED BY <2>1, <2>2, <1>5
<1>7. ASSUME NEW q \in 1..(p - 1), IsLine(file, q, mid, {"F"}) PROVE FALSE
  <2>1. q \in DOMAIN file /\ q < p
    BY <1>0
  <2>2. PICK j \in Lines : \E l \in 1..Len(s[j]) : q = at[j][l] /\ file[q] = s[j][l]
    BY <2>1, <1>a
  <2>3. PICK l \in 1..Len(s[j]) : q = at[j][l] /\ file[q] = s[j][l]
    BY <2>2
  <2>4. s[j][l].op = "F" /\ s[j][l].mid = mid
    BY <2>3, <1>7 DEF IsLine
  <2>5. i < j \/ (i = j /\ k = l)
    BY <1>5, <2>4
  <2>6. j < i \/ (j = i /\ l < k)
    BY <2>1, <2>3, <1>2, <1>b
  <2>7. j \in Int /\ i \in Int /\ k \in Int /\ l \in Int
    BY <1>0 DEF Copies, Lines
  <2> QED BY <2>5, <2>6, <2>7
<1> QED BY <1>3, <1>6, <1>7

\* If the lines are copies, the N lines are numbered 0, 1, 2, ...
LEMMA CopiesNumbered ==
    ASSUME Told, NEW s, Copies(s), NEW file \in Seq(FileLine), NEW at, Written(file, s, at)
    PROVE  Numbered(file)
<1>a. \A q \in DOMAIN file : \E j \in Lines : \E l \in 1..Len(s[j]) :
          q = at[j][l] /\ file[q] = s[j][l]
  <2> SUFFICES ASSUME NEW q \in DOMAIN file
               PROVE  \E j \in Lines : \E l \in 1..Len(s[j]) : q = at[j][l] /\ file[q] = s[j][l]
    OBVIOUS
  <2>1. PICK j \in Lines : \E l \in 1..Len(s[j]) :
            q = at[j][l] /\ file[q] = s[j][l] /\ file[q] \in FileLine
    BY Source
  <2> QED BY <2>1
<1>b. \A i, j \in Lines : \A k \in 1..Len(s[i]), l \in 1..Len(s[j]) :
          at[i][k] < at[j][l] <=> i < j \/ (i = j /\ k < l)
  BY Target
<1> SUFFICES ASSUME NEW p \in DOMAIN file, file[p].op = "N"
             PROVE  file[p].mid = Cardinality({q \in 1..(p - 1) : file[q].op = "N"})
  BY DEF Numbered
<1>0. Len(file) \in Nat /\ p \in 1..Len(file) /\ p \in Int /\ Len(g_ops) \in Nat
      /\ (\A i \in Lines : i \in Int) /\ (\A mid \in Mids : mid \in Nat)
  BY DEF Told, Lines, Mids
<1>1. PICK i \in Lines : \E k \in 1..Len(s[i]) : p = at[i][k] /\ file[p] = s[i][k]
  BY <1>a
<1>2. PICK k \in 1..Len(s[i]) : p = at[i][k] /\ file[p] = s[i][k]
  BY <1>1
<1>3. PICK mid : mid = file[p].mid
  OBVIOUS
<1>4. g_ops[i] = s[i][k] /\ mid = g_ops[i].mid /\ g_ops[i].op = "N" /\ mid \in Mids /\ mid \in Nat
      /\ i = StartOf(mid)
  BY <1>0, <1>2, <1>3 DEF Copies, Told
<1> DEFINE Q == {q \in 1..(p - 1) : file[q].op = "N"}
           f == [q \in Q |-> file[q].mid]
\* Where an N line before p comes from.
<1>5. ASSUME NEW q \in Q
      PROVE  /\ file[q].mid \in Mids /\ StartOf(file[q].mid) \in Lines
             /\ StartOf(file[q].mid) < i
             /\ \E l \in 1..Len(s[StartOf(file[q].mid)]) :
                   /\ q = at[StartOf(file[q].mid)][l]
                   /\ s[StartOf(file[q].mid)][l].op = "N"
  <2>1. q \in DOMAIN file /\ q < p /\ file[q].op = "N"
    BY <1>0
  <2>2. PICK j \in Lines : \E l \in 1..Len(s[j]) : q = at[j][l] /\ file[q] = s[j][l]
    BY <2>1, <1>a
  <2>3. PICK l \in 1..Len(s[j]) : q = at[j][l] /\ file[q] = s[j][l]
    BY <2>2
  <2>4. g_ops[j] = s[j][l]
    BY <2>1, <2>3 DEF Copies
  <2>5. j = StartOf(file[q].mid) /\ file[q].mid \in Mids
    BY <2>1, <2>3, <2>4 DEF Told
  <2>6. j < i \/ (j = i /\ l < k)
    BY <2>1, <2>3, <1>2, <1>b
  <2>7. j = i => l = k
    <3>1. s[i][k].op = "N" /\ s[j][l].op = "N"
      BY <2>1, <2>3, <1>4
    <3>2. \A o \in 1..Len(s[i]) : s[i][o].op \in {"N", "F"} => o = k
      BY <3>1 DEF Copies
    <3> QED BY <3>1, <3>2
  <2>8. k \in Int /\ l \in Int
    BY DEF Copies, Lines
  <2>9. j < i
    BY <2>6, <2>7, <2>8
  <2> QED BY <2>1, <2>3, <2>5, <2>9
<1>6. ASSUME NEW q \in Q PROVE file[q].mid \in 0..(mid - 1)
  <2>1. PICK m, j : m = file[q].mid /\ j = StartOf(m)
    OBVIOUS
  <2>2. m \in Mids /\ j \in Lines /\ j < i
    BY <2>1, <1>5
  <2>3. \A x \in Lines : x < StartOf(mid) => g_ops[x].mid < mid
    BY <1>4 DEF Told
  <2>4. g_ops[j].mid = m
    BY <2>1, <2>2 DEF Told
  <2>5. m < mid /\ m \in Nat
    BY <2>2, <2>3, <2>4, <1>0, <1>4
  <2> QED BY <2>1, <2>5, <1>4
<1>7. f \in [Q -> 0..(mid - 1)]
  BY <1>6
<1>8. ASSUME NEW q \in Q, NEW r \in Q, f[q] = f[r] PROVE q = r
  <2>1. file[q].mid = file[r].mid
    BY <1>8
  <2>2. PICK j : j = StartOf(file[q].mid)
    OBVIOUS
  <2>3. PICK l \in 1..Len(s[j]) : q = at[j][l] /\ s[j][l].op = "N"
    BY <2>2, <1>5
  <2>4. PICK o \in 1..Len(s[j]) : r = at[j][o] /\ s[j][o].op = "N"
    <3>1. \E o \in 1..Len(s[StartOf(file[r].mid)]) :
              r = at[StartOf(file[r].mid)][o] /\ s[StartOf(file[r].mid)][o].op = "N"
      BY <1>5
    <3>2. j = StartOf(file[r].mid)
      BY <2>1, <2>2
    <3> QED BY <3>1, <3>2
  <2>5. j \in Lines
    BY <2>2, <1>5
  <2>6. l = o
    BY <2>3, <2>4, <2>5 DEF Copies
  <2> QED BY <2>3, <2>4, <2>6
<1>9. ASSUME NEW m \in 0..(mid - 1) PROVE \E q \in Q : f[q] = m
  <2>1. m \in Mids /\ m < mid /\ m \in Int
    BY <1>4 DEF Mids, Told
  <2>2. PICK j : j = StartOf(m)
    OBVIOUS
  <2>3. j \in Lines /\ g_ops[j].mid = m /\ \A x \in Lines : x < j => g_ops[x].mid < m
    BY <2>1, <2>2 DEF Told
  <2>4. j < i
    <3>1. ~(i < j)
      BY <2>1, <2>3, <1>0, <1>4
    <3>2. i # j
      BY <2>1, <2>3, <1>0, <1>4
    <3> QED BY <3>1, <3>2, <2>3, <1>0
  <2>5. PICK l \in 1..Len(s[j]) : at[j][l] \in 1..Len(file) /\ IsLine(file, at[j][l], m, {"N"})
    BY <2>1, <2>2, NewLine
  <2>6. PICK q : q = at[j][l]
    OBVIOUS
  <2>7. q < p
    BY <2>3, <2>4, <2>6, <1>2, <1>b
  <2>8. q \in 1..(p - 1) /\ file[q].op = "N" /\ file[q].mid = m
    BY <2>5, <2>6, <2>7, <1>0 DEF IsLine
  <2> QED BY <2>8
<1> HIDE DEF f, Q
<1>10. f \in Bijection(Q, 0..(mid - 1))
  BY <1>7, <1>8, <1>9 DEF Bijection, Injection, Surjection, IsInjective
<1>11. IsFiniteSet(Q)
  <2>1. IsFiniteSet(1..(p - 1))
    <3>1. 1 \in Int /\ p - 1 \in Int
      BY <1>0
    <3> QED BY <3>1, FS_Interval
  <2>2. Q \in SUBSET (1..(p - 1))
    BY DEF Q
  <2> QED BY <2>1, <2>2, FS_Subset
<1>12. Cardinality(0..(mid - 1)) = Cardinality(Q)
  <2>1. ExistsBijection(Q, 0..(mid - 1))
    BY <1>10 DEF ExistsBijection
  <2> QED BY <2>1, <1>11, FS_Bijection
<1>13. Cardinality(0..(mid - 1)) = mid
  <2>1. 0 \in Int /\ mid - 1 \in Int
    BY <1>4
  <2>2. Cardinality(0..(mid - 1)) = IF 0 > mid - 1 THEN 0 ELSE (mid - 1) - 0 + 1
    BY <2>1, FS_Interval
  <2> QED BY <2>2, <1>4
<1> QED BY <1>3, <1>12, <1>13 DEF Q

-----------------------------------------------------------------------------
(* LockOps: translate-memtrace-to-ops.py *)

\* The lines of -lockops and -lockopsfull, operation by operation.
LockopsParts == [i \in Lines |-> LockopsLines(g_ops[i])]
LockopsfullParts == [i \in Lines |-> LockopsfullLines(i)]

\* The N line of a block is before its F line.
LEMMA StartsFirst ==
    ASSUME Told, NEW mid \in g_stops
    PROVE  StartOf(mid) < StopOf(mid)
<1>1. /\ mid \in Mids /\ StartOf(mid) \in Lines /\ StopOf(mid) \in Lines
      /\ g_ops[StartOf(mid)].op = "N" /\ g_ops[StopOf(mid)].op = "F"
      /\ g_ops[StopOf(mid)].mid = mid
  BY DEF Told
<1>2. StopOf(mid) >= StartOf(mid)
  BY <1>1 DEF Told
<1>3. StartOf(mid) \in Int /\ StopOf(mid) \in Int
  BY <1>1 DEF Told, Lines
<1>4. StartOf(mid) # StopOf(mid)
  BY <1>1
<1> QED BY <1>2, <1>3, <1>4

\* What LockopsLines returns, line by line.
LEMMA LockopsPart ==
    ASSUME Told, NEW i \in Lines
    PROVE  /\ LockopsLines(g_ops[i]) \in Seq(FileLine)
           /\ g_ops[i].op = "S" => Len(LockopsLines(g_ops[i])) = 0
           /\ g_ops[i].op # "S" =>
                 /\ Len(LockopsLines(g_ops[i])) \in {1, 2}
                 /\ LockopsLines(g_ops[i])[1] = g_ops[i]
                 /\ (Len(LockopsLines(g_ops[i])) = 2) <=>
                        (g_ops[i].op = "N" /\ ShortLived(g_ops[i].mid))
                 /\ Len(LockopsLines(g_ops[i])) = 2 =>
                        /\ LockopsLines(g_ops[i])[2].mid = g_ops[i].mid
                        /\ LockopsLines(g_ops[i])[2].op = "L"
<1>1. PICK op : op = g_ops[i]
  OBVIOUS
<1>2. op \in OpLine /\ op.mid \in Mids /\ op.op \in {"N", "F", "S"}
  BY <1>1 DEF Told
<1>3. op.op # "S" => op \in FileLine
  BY <1>2 DEF OpLine, FileLine
<1>4. PICK lock : lock = Op(op.mid, "L", 0)
  OBVIOUS
<1>5. lock \in FileLine /\ lock.mid = op.mid /\ lock.op = "L"
  BY <1>2, <1>4 DEF Op, FileLine
<1>9. PICK part : part = LockopsLines(op)
  OBVIOUS
<1>6. CASE op.op = "S"
  <2>1. part = <<>>
    BY <1>6, <1>9 DEF LockopsLines
  <2>2. part \in Seq(FileLine) /\ Len(part) = 0
    BY <2>1
  <2> QED BY <2>2, <1>1, <1>6, <1>9
<1>7. CASE op.op # "S" /\ ~(op.op = "N" /\ ShortLived(op.mid))
  <2>1. part = <<op>>
    BY <1>7, <1>9 DEF LockopsLines
  <2>2. part \in Seq(FileLine) /\ Len(part) = 1 /\ part[1] = op
    BY <2>1, <1>3, <1>7
  <2> QED BY <2>2, <1>1, <1>7, <1>9
<1>8. CASE op.op # "S" /\ op.op = "N" /\ ShortLived(op.mid)
  <2>1. part = <<op, lock>>
    BY <1>4, <1>8, <1>9 DEF LockopsLines
  <2>2. part \in Seq(FileLine) /\ Len(part) = 2 /\ part[1] = op /\ part[2] = lock
    BY <2>1, <1>3, <1>5, <1>8
  <2> QED BY <2>2, <1>1, <1>5, <1>8, <1>9
<1> QED BY <1>6, <1>7, <1>8

\* translate-memtrace-to-ops.py copies, and locks right after the N line.
LEMMA LockopsCopies ==
    ASSUME Told
    PROVE  Copies(LockopsParts)
<1>1. PICK s : s = LockopsParts
  OBVIOUS
<1>2. Len(g_ops) \in Nat /\ Lines = 1..Len(g_ops)
  BY DEF Told, Lines
<1>3. \A i \in Lines : s[i] = LockopsLines(g_ops[i])
  BY <1>1 DEF LockopsParts
<1>4. s \in Seq(Seq(FileLine)) /\ Len(s) = Len(g_ops)
  <2>1. \A i \in Lines : s[i] \in Seq(FileLine)
    BY <1>3, LockopsPart
  <2>2. s = [i \in 1..Len(g_ops) |-> s[i]]
    BY <1>1, <1>2 DEF LockopsParts
  <2> QED BY <2>1, <2>2, <1>2
<1>5. ASSUME NEW i \in Lines, g_ops[i].op \in {"N", "F"}
      PROVE  \E k \in 1..Len(s[i]) : s[i][k] = g_ops[i]
  <2>1. s[i][1] = g_ops[i] /\ Len(s[i]) \in {1, 2}
    BY <1>3, <1>5, LockopsPart
  <2>2. 1 \in 1..Len(s[i])
    BY <2>1
  <2> QED BY <2>1, <2>2
<1>6. ASSUME NEW i \in Lines, NEW k \in 1..Len(s[i])
      PROVE  \/ k = 1 /\ s[i][k] = g_ops[i] /\ g_ops[i].op \in {"N", "F"}
             \/ /\ k = 2 /\ s[i][k].op = "L" /\ s[i][k].mid = g_ops[i].mid
                /\ g_ops[i].op = "N" /\ s[i][1] = g_ops[i]
  <2>1. g_ops[i].op \in {"N", "F", "S"}
    BY DEF Told
  <2>2. CASE g_ops[i].op = "S"
    <3>1. Len(s[i]) = 0
      BY <2>2, <1>3, LockopsPart
    <3> QED BY <3>1
  <2>3. CASE g_ops[i].op # "S"
    <3>1. Len(s[i]) \in {1, 2} /\ s[i][1] = g_ops[i]
          /\ (Len(s[i]) = 2 => /\ s[i][2].op = "L" /\ s[i][2].mid = g_ops[i].mid
                               /\ g_ops[i].op = "N")
      BY <2>3, <1>3, LockopsPart
    <3>3. PICK m : m = Len(s[i])
      OBVIOUS
    <3>4. m \in {1, 2} /\ k \in 1..m
      BY <3>1, <3>3
    <3>5. k = 1 \/ (k = 2 /\ m = 2)
      BY <3>4
    <3>2. k = 1 \/ (k = 2 /\ Len(s[i]) = 2)
      BY <3>3, <3>5
    <3> QED BY <3>1, <3>2, <2>1, <2>3
  <2> QED BY <2>2, <2>3
<1>7. ASSUME NEW i \in Lines, NEW k \in 1..Len(s[i]), s[i][k].op \in {"N", "F"}
      PROVE  s[i][k] = g_ops[i] /\ \A l \in 1..Len(s[i]) : s[i][l].op \in {"N", "F"} => l = k
  BY <1>6, <1>7
<1>8. ASSUME NEW i \in Lines, NEW k \in 1..Len(s[i]), s[i][k].op \in {"L", "U"}
      PROVE  /\ \E l \in 1..(k - 1) : s[i][l].op = "N" /\ s[i][l].mid = s[i][k].mid
             /\ s[i][k].mid \in g_stops => i < StopOf(s[i][k].mid)
  <2>1. /\ k = 2 /\ s[i][k].mid = g_ops[i].mid /\ g_ops[i].op = "N" /\ s[i][1] = g_ops[i]
    BY <1>6, <1>8
  <2>2. i = StartOf(g_ops[i].mid)
    BY <2>1 DEF Told
  <2>3. s[i][k].mid \in g_stops => i < StopOf(s[i][k].mid)
    BY <2>1, <2>2, StartsFirst
  <2>4. 1 \in 1..(k - 1)
    BY <2>1
  <2> QED BY <2>1, <2>3, <2>4
<1> QED BY <1>1, <1>4, <1>5, <1>7, <1>8 DEF Copies

-----------------------------------------------------------------------------
(* LockOps: translate-ops-to-locking-lifetime.py *)

\* A set of at most one element as a sequence.
LEMMA OneToSeq ==
    ASSUME NEW S, NEW x, S = {x}
    PROVE  SetToSeq(S) \in Seq(S) /\ Len(SetToSeq(S)) = 1 /\ SetToSeq(S)[1] = x
<1>1. Cardinality(S) = 1
  BY FS_Singleton
<1>2. PICK g : g = [i \in 1..1 |-> x]
  OBVIOUS
<1>3. g \in [1..Cardinality(S) -> S] /\ IsInjective(g)
  <2>1. \A i, j \in 1..1 : i = j
    OBVIOUS
  <2> QED BY <2>1, <1>1, <1>2 DEF IsInjective
<1>4. SetToSeq(S) \in [1..1 -> S]
  <2>1. SetToSeq(S) = CHOOSE f \in [1..1 -> S] : IsInjective(f)
    BY <1>1, Zenon DEF SetToSeq
  <2>2. \E f \in [1..1 -> S] : IsInjective(f)
    BY <1>1, <1>3, Zenon
  <2> QED BY <2>1, <2>2, Zenon
<1>5. PICK f : f = SetToSeq(S)
  OBVIOUS
<1>6. f \in Seq(S) /\ Len(f) = 1 /\ f[1] = x
  <2>1. f \in [1..1 -> S] /\ 1 \in 1..1
    BY <1>4, <1>5
  <2>2. f[1] = x
    <3>1. f[1] \in S
      BY <2>1, Zenon
    <3> QED BY <3>1
  <2>3. f \in Seq(S) /\ Len(f) = 1
    <3>1. f = [i \in 1..1 |-> f[i]] /\ 1 \in Nat /\ \A i \in 1..1 : f[i] \in S
      BY <2>1
    <3> QED BY <3>1
  <2> QED BY <2>2, <2>3
<1> QED BY <1>5, <1>6

\* The empty set as a sequence.
LEMMA NoneToSeq == SetToSeq({}) = <<>>
<1>1. Cardinality({}) = 0
  BY FS_EmptySet
<1>2. PICK g : g = [i \in 1..0 |-> 0]
  OBVIOUS
<1>3. g \in [1..0 -> {}] /\ IsInjective(g)
  BY <1>2 DEF IsInjective
<1>4. SetToSeq({}) \in [1..0 -> {}]
  BY <1>1, <1>3 DEF SetToSeq
<1>5. PICK f : f = SetToSeq({})
  OBVIOUS
<1>6. f \in Seq({}) /\ Len(f) = 0
  BY <1>4, <1>5
<1>7. f = <<>>
  BY <1>6
<1> QED BY <1>5, <1>7

\* The level of a block is 0 at its N line and more at its own operations.
LEMMA LifeFacts ==
    ASSUME Told, NEW mid \in g_stops
    PROVE  /\ Life(mid) \in [StartOf(mid)..StopOf(mid) -> Nat]
           /\ Life(mid)[StartOf(mid)] = 0
           /\ \A i \in (StartOf(mid) + 1)..StopOf(mid) : g_ops[i].mid = mid => Life(mid)[i] > 0
<1>1. PICK a, b : a = StartOf(mid) /\ b = StopOf(mid)
  OBVIOUS
<1>2. a \in Nat /\ b \in Nat /\ a < b
  BY <1>1, StartsFirst DEF Told, Lines
<1>3. PICK n : n = b - a
  OBVIOUS
<1>4. n \in Nat /\ a + n = b
  BY <1>2, <1>3
<1> DEFINE Up(i, x) == IF g_ops[i].mid = mid THEN x + 2 ELSE IF x >= 1 THEN x - 1 ELSE x
           Body(f) == [i \in a..b |-> IF i = a THEN 0 ELSE Up(i, f[i - 1])]
           F == CHOOSE f : f = Body(f)
           step == [k \in 1..n |-> [x \in Nat |-> Up(a + k, x)]]
<1>5. Life(mid) = F
  BY <1>1 DEF Life, FLOAT_SPEED, SINK_SPEED
<1>6. ASSUME NEW i, NEW x \in Nat PROVE Up(i, x) \in Nat /\ (g_ops[i].mid = mid => Up(i, x) > 0)
  OBVIOUS
<1>7. step \in [1..n -> [Nat -> Nat]]
  <2> HIDE DEF Up
  <2> QED BY <1>6
<1>8. \A k \in 1..n, x \in Nat : step[k][x] = Up(a + k, x)
  <2> HIDE DEF Up
  <2> QED OBVIOUS
<1> HIDE DEF Up
<1>9. PICK h : Computes(h, Nat, 0, step, n)
  <2> HIDE DEF step
  <2> QED BY <1>4, <1>7, Recursion
<1>10. h \in [0..n -> Nat] /\ h[0] = 0 /\ \A k \in 1..n : h[k] = Up(a + k, h[k - 1])
  <2>1. h \in [0..n -> Nat] /\ h[0] = 0 /\ \A k \in 1..n : h[k] = step[k][h[k - 1]]
    BY <1>9 DEF Computes
  <2> HIDE DEF step
  <2>2. \A k \in 1..n : k - 1 \in 0..n
    BY <1>4
  <2> QED BY <2>1, <2>2, <1>8
<1>11. PICK g : g = [i \in a..b |-> h[i - a]]
  OBVIOUS
<1>12. g = Body(g)
  <2>1. ASSUME NEW i \in a..b PROVE g[i] = IF i = a THEN 0 ELSE Up(i, g[i - 1])
    <3>1. CASE i = a
      <4>1. i - a = 0
        BY <3>1, <1>2
      <4> QED BY <4>1, <3>1, <1>10, <1>11
    <3>2. CASE i # a
      <4>1. i - 1 \in a..b /\ i - a \in 1..n /\ (i - 1) - a = (i - a) - 1 /\ a + (i - a) = i
        BY <3>2, <1>2, <1>3
      <4>2. g[i] = h[i - a] /\ g[i - 1] = h[(i - a) - 1]
        BY <4>1, <1>11
      <4>3. h[i - a] = Up(a + (i - a), h[(i - a) - 1])
        BY <4>1, <1>10
      <4> QED BY <4>1, <4>2, <4>3, <3>2
    <3> QED BY <3>1, <3>2
  <2> QED BY <2>1, <1>11
<1>13. F = Body(F)
  <2> HIDE DEF Body
  <2> QED BY <1>12
<1>14. F = [i \in a..b |-> F[i]] /\ \A i \in a..b : F[i] = IF i = a THEN 0 ELSE Up(i, F[i - 1])
  <2> HIDE DEF F
  <2> QED BY <1>13
<1> HIDE DEF F, step, Body
<1> DEFINE P == {k \in Nat : a + k <= b => F[a + k] \in Nat}
<1>15. 0 \in P
  <2>1. a + 0 = a /\ a \in a..b
    BY <1>2
  <2>2. F[a] = 0
    BY <2>1, <1>14
  <2> QED BY <2>1, <2>2
<1>16. ASSUME NEW k \in P PROVE k + 1 \in P
  <2> SUFFICES ASSUME a + (k + 1) <= b PROVE F[a + (k + 1)] \in Nat
    OBVIOUS
  <2>1. PICK i : i = a + (k + 1)
    OBVIOUS
  <2>2. k \in Nat /\ (a + k <= b => F[a + k] \in Nat)
    BY DEF P
  <2>3. i \in a..b /\ i # a /\ i - 1 = a + k /\ a + k <= b
    BY <2>1, <2>2, <1>2
  <2>4. F[i] = Up(i, F[a + k])
    BY <2>3, <1>14
  <2> QED BY <2>1, <2>2, <2>3, <2>4, <1>6
<1>17. P \subseteq Nat
  OBVIOUS
<1>18. Nat \subseteq P
  <2> HIDE DEF P
  <2> QED BY <1>15, <1>16, <1>17, Induction
<1>19. ASSUME NEW i \in a..b PROVE F[i] \in Nat
  <2>1. i - a \in Nat /\ a + (i - a) = i /\ i <= b
    BY <1>2
  <2>2. i - a \in P
    <3> HIDE DEF P
    <3> QED BY <2>1, <1>18
  <2> QED BY <2>1, <2>2
<1>20. F \in [a..b -> Nat]
  BY <1>14, <1>19
<1>21. F[a] = 0
  <2>1. a \in a..b
    BY <1>2
  <2> QED BY <2>1, <1>14
<1>22. ASSUME NEW i \in (a + 1)..b, g_ops[i].mid = mid PROVE F[i] > 0
  <2>1. i \in a..b /\ i # a /\ i - 1 \in a..b
    BY <1>2
  <2>2. F[i] = Up(i, F[i - 1]) /\ F[i - 1] \in Nat
    BY <2>1, <1>14, <1>19
  <2> QED BY <2>2, <1>6, <1>22
<1> QED BY <1>1, <1>5, <1>20, <1>21, <1>22

\* The level of the block leaves or reaches 0 at operation i, and the lock or
\* unlock that is computed for it.
Turns(mid, i) == /\ i \in (StartOf(mid) + 1)..(StopOf(mid) - 1)
                 /\ (Life(mid)[i] > 0) # (Life(mid)[i - 1] > 0)
Sign(mid, i) == IF Life(mid)[i] > 0 THEN "L" ELSE "U"
Change(mid, i) == [i |-> i, mid |-> mid, op |-> Sign(mid, i)]

\* The operations computed for a block are those where its level turns.
LEMMA LockChangesAre ==
    ASSUME NEW mid
    PROVE  /\ \A i : Turns(mid, i) => Change(mid, i) \in LockChanges(mid)
           /\ \A c \in LockChanges(mid) : \E i : Turns(mid, i) /\ c = Change(mid, i)
<1>1. LockChanges(mid) = {Change(mid, i) : i \in
          {j \in (StartOf(mid) + 1)..(StopOf(mid) - 1) :
              (Life(mid)[j] > 0) # (Life(mid)[j - 1] > 0)}}
  BY DEF LockChanges, Change, Sign
<1> QED BY <1>1, Zenon DEF Turns

\* What an entry of opsdict is.
LEMMA OpsdictEntry ==
    ASSUME Told, NEW i, NEW c \in opsdict(i)
    PROVE  /\ c.mid \in g_stops /\ c.mid \in Mids /\ c.mid \in Int /\ Turns(c.mid, i)
           /\ c = Change(c.mid, i) /\ c.op = Sign(c.mid, i) /\ c.op \in {"L", "U"}
           /\ \A d \in opsdict(i) : d = c
<1>1. ASSUME NEW x \in opsdict(i)
      PROVE  /\ x.mid \in g_stops /\ x.mid \in Mids /\ x.mid \in Int /\ Turns(x.mid, i)
             /\ x = Change(x.mid, i) /\ x.op = Sign(x.mid, i)
             /\ \A y \in opsdict(i) : y.mid <= x.mid
  <2>1. x \in AllChanges /\ x.i = i /\ \A y \in AllChanges : y.i = i => y.mid <= x.mid
    BY DEF opsdict
  <2>2. PICK mid \in g_stops : x \in LockChanges(mid)
    BY <2>1 DEF AllChanges
  <2>3. PICK j : Turns(mid, j) /\ x = Change(mid, j)
    BY <2>2, LockChangesAre
  <2>4. x.i = j /\ x.mid = mid /\ x.op = Sign(mid, j)
    BY <2>3 DEF Change
  <2>5. mid \in Mids /\ mid \in Int
    BY DEF Told, Mids
  <2>6. \A y \in opsdict(i) : y \in AllChanges /\ y.i = i
    BY DEF opsdict
  <2> QED BY <2>1, <2>3, <2>4, <2>5, <2>6
<1>2. ASSUME NEW d \in opsdict(i) PROVE d = c
  <2>1. d.mid <= c.mid /\ c.mid <= d.mid /\ d.mid \in Int /\ c.mid \in Int
    BY <1>1
  <2>2. d.mid = c.mid
    BY <2>1
  <2>3. d = Change(d.mid, i) /\ c = Change(c.mid, i)
    BY <1>1
  <2> QED BY <2>2, <2>3
<1>3. Sign(c.mid, i) \in {"L", "U"}
  BY DEF Sign
<1> QED BY <1>1, <1>2, <1>3

\* A change of a block that is not overridden is the entry at its index.
LEMMA ChangeKept ==
    ASSUME Told, NEW mid \in g_stops, ~Overridden(mid), NEW i, Turns(mid, i)
    PROVE  Change(mid, i) \in opsdict(i)
<1>1. Change(mid, i) \in LockChanges(mid) /\ Change(mid, i).i = i
  BY LockChangesAre DEF Change
<1> QED BY <1>1 DEF Overridden

\* What LockopsfullLines returns: the entry of opsdict, if there is one, and
\* the operation, unless it is an access.
Entry(c) == Op(c.mid, c.op, 0)

PartOf(part, i) ==
    /\ part \in Seq(FileLine)
    /\ \A k \in 1..Len(part) :
          \/ k = 1 /\ \E c \in opsdict(i) : part[k] = Entry(c)
          \/ k = Len(part) /\ g_ops[i].op # "S" /\ part[k] = g_ops[i]
    /\ g_ops[i].op # "S" => Len(part) \in 1..Len(part) /\ part[Len(part)] = g_ops[i]
    /\ \A c \in opsdict(i) : 1 \in 1..Len(part) /\ part[1] = Entry(c)

\* What LockopsfullLines writes for operation i: at most the one entry of
\* opsdict, then the operation itself unless it is an access.
LEMMA LockopsfullPart ==
    ASSUME Told, NEW i \in Lines
    PROVE  PartOf(LockopsfullLines(i), i)
<1>1. PICK S : S = {Entry(c) : c \in opsdict(i)}
  OBVIOUS
<1>2. PICK h, t, part : /\ h = SetToSeq(S) /\ part = h \o t
                        /\ t = (IF g_ops[i].op = "S" THEN <<>> ELSE <<g_ops[i]>>)
  OBVIOUS
<1>3. part = LockopsfullLines(i)
  BY <1>1, <1>2 DEF LockopsfullLines, Entry
<1>4. ASSUME NEW c \in opsdict(i) PROVE S = {Entry(c)} /\ Entry(c) \in FileLine
  <2>1. \A d \in opsdict(i) : d = c
    BY OpsdictEntry
  <2>2. S = {Entry(c)}
    BY <2>1, <1>1
  <2>3. c.mid \in Mids /\ c.op \in {"L", "U"}
    BY OpsdictEntry
  <2> QED BY <2>2, <2>3 DEF Entry, Op, FileLine
<1>5. /\ h \in Seq(FileLine) /\ Len(h) \in {0, 1}
      /\ (Len(h) = 1 => \E c \in opsdict(i) : h[1] = Entry(c))
      /\ \A c \in opsdict(i) : Len(h) = 1 /\ h[1] = Entry(c)
  <2>1. CASE opsdict(i) = {}
    <3>1. S = {}
      BY <2>1, <1>1
    <3>2. h = <<>>
      BY <3>1, <1>2, NoneToSeq
    <3>3. h \in Seq(FileLine) /\ Len(h) = 0
      BY <3>2
    <3> QED BY <3>3, <2>1
  <2>2. CASE opsdict(i) # {}
    <3>1. PICK c : c \in opsdict(i)
      BY <2>2
    <3>2. S = {Entry(c)} /\ Entry(c) \in FileLine /\ \A d \in opsdict(i) : d = c
      BY <3>1, <1>4, OpsdictEntry
    <3>3. h \in Seq(S) /\ Len(h) = 1 /\ h[1] = Entry(c)
      BY <3>2, <1>2, OneToSeq
    <3>4. S \subseteq FileLine
      BY <3>2
    <3>5. h \in Seq(FileLine)
      BY <3>3, <3>4, SeqMonotonic
    <3> QED BY <3>1, <3>2, <3>3, <3>5
  <2> QED BY <2>1, <2>2
<1>6. /\ t \in Seq(FileLine)
      /\ g_ops[i].op = "S" => Len(t) = 0
      /\ g_ops[i].op # "S" => Len(t) = 1 /\ t[1] = g_ops[i]
  <2>1. g_ops[i] \in OpLine /\ g_ops[i].op \in {"N", "F", "S"}
    BY DEF Told
  <2>2. CASE g_ops[i].op = "S"
    <3>1. t = <<>>
      BY <2>2, <1>2
    <3>2. t \in Seq(FileLine) /\ Len(t) = 0
      BY <3>1
    <3> QED BY <3>2, <2>2
  <2>3. CASE g_ops[i].op # "S"
    <3>1. g_ops[i] \in FileLine
      BY <2>1, <2>3 DEF OpLine, FileLine
    <3>2. PICK op : op = g_ops[i]
      OBVIOUS
    <3>3. t = <<op>>
      BY <2>3, <1>2, <3>2
    <3>4. t \in Seq(FileLine) /\ Len(t) = 1 /\ t[1] = op
      BY <3>1, <3>2, <3>3
    <3> QED BY <3>2, <3>4, <2>3
  <2> QED BY <2>2, <2>3
<1>7. /\ part \in Seq(FileLine) /\ Len(part) = Len(h) + Len(t)
      /\ \A k \in 1..(Len(h) + Len(t)) : part[k] = IF k <= Len(h) THEN h[k] ELSE t[k - Len(h)]
  BY <1>2, <1>5, <1>6, ConcatProperties
<1>8. PICK a, b : a = Len(h) /\ b = Len(t)
  OBVIOUS
<1>9. /\ a \in {0, 1} /\ b \in {0, 1} /\ Len(part) = a + b
      /\ \A k \in 1..(a + b) : part[k] = IF k <= a THEN h[k] ELSE t[k - a]
      /\ (g_ops[i].op # "S") <=> (b = 1)
  BY <1>5, <1>6, <1>7, <1>8
<1>10. a = 1 => 1 \in 1..(a + b) /\ part[1] = h[1]
  BY <1>9
<1>11. b = 1 => a + b \in 1..(a + b) /\ part[a + b] = g_ops[i]
  <2> SUFFICES ASSUME b = 1 PROVE a + b \in 1..(a + b) /\ part[a + b] = g_ops[i]
    OBVIOUS
  <2>1. a + b \in 1..(a + b) /\ ~(a + b <= a) /\ (a + b) - a = 1
    BY <1>9
  <2>2. t[1] = g_ops[i]
    BY <1>6, <1>9
  <2> QED BY <2>1, <2>2, <1>9
<1>12. ASSUME NEW k \in 1..(a + b)
       PROVE  (k = 1 /\ a = 1) \/ (k = a + b /\ b = 1)
  BY <1>9
<1>13. ASSUME NEW k \in 1..Len(part)
       PROVE  \/ k = 1 /\ \E c \in opsdict(i) : part[k] = Entry(c)
              \/ k = Len(part) /\ g_ops[i].op # "S" /\ part[k] = g_ops[i]
  <2>1. k \in 1..(a + b)
    BY <1>9
  <2>2. CASE k = 1 /\ a = 1
    BY <2>2, <1>5, <1>8, <1>10
  <2>3. CASE k = a + b /\ b = 1
    BY <2>3, <1>9, <1>11
  <2> QED BY <2>1, <2>2, <2>3, <1>12
<1>14. g_ops[i].op # "S" => Len(part) \in 1..Len(part) /\ part[Len(part)] = g_ops[i]
  BY <1>9, <1>11
<1>15. ASSUME NEW c \in opsdict(i) PROVE 1 \in 1..Len(part) /\ part[1] = Entry(c)
  BY <1>5, <1>8, <1>9, <1>10
<1>16. PartOf(part, i)
  BY <1>7, <1>13, <1>14, <1>15 DEF PartOf
<1> QED BY <1>3, <1>16

\* A lock or unlock in -lockopsfull is an entry of opsdict.
LEMMA ChangeLine ==
    ASSUME Told, NEW i \in Lines, NEW part, PartOf(part, i), NEW k \in 1..Len(part),
           part[k].op \in {"L", "U"}
    PROVE  /\ k = 1 /\ part[k].mid \in g_stops /\ Turns(part[k].mid, i)
           /\ part[k].op = Sign(part[k].mid, i)
           /\ StartOf(part[k].mid) < i /\ i < StopOf(part[k].mid)
<1>1. g_ops[i].op \notin {"L", "U"}
  BY DEF Told
<1>2. k = 1 /\ \E c \in opsdict(i) : part[k] = Entry(c)
  BY <1>1 DEF PartOf
<1>3. PICK c \in opsdict(i) : part[k] = Entry(c)
  BY <1>2
<1>4. part[k].mid = c.mid /\ part[k].op = c.op
  BY <1>3 DEF Entry, Op
<1>5. c.mid \in g_stops /\ Turns(c.mid, i) /\ c.op = Sign(c.mid, i)
  BY OpsdictEntry
<1>6. StartOf(c.mid) \in Int /\ StopOf(c.mid) \in Int
  BY <1>5 DEF Told, Lines
<1>7. StartOf(c.mid) < i /\ i < StopOf(c.mid)
  BY <1>5, <1>6 DEF Turns
<1> QED BY <1>2, <1>4, <1>5, <1>7

\* translate-ops-to-locking-lifetime.py copies, and adds L and U lines only
\* within the block's life.
LEMMA LockopsfullCopies ==
    ASSUME Told
    PROVE  Copies(LockopsfullParts)
<1>1. PICK s : s = LockopsfullParts
  OBVIOUS
<1>2. Len(g_ops) \in Nat /\ Lines = 1..Len(g_ops)
  BY DEF Told, Lines
<1>3. \A i \in Lines : PartOf(s[i], i)
  BY <1>1, LockopsfullPart DEF LockopsfullParts
<1>4. s \in Seq(Seq(FileLine)) /\ Len(s) = Len(g_ops)
  <2>1. \A i \in Lines : s[i] \in Seq(FileLine)
    BY <1>3 DEF PartOf
  <2>2. s = [i \in 1..Len(g_ops) |-> s[i]]
    BY <1>1, <1>2 DEF LockopsfullParts
  <2> QED BY <2>1, <2>2, <1>2
<1>5. ASSUME NEW i \in Lines, g_ops[i].op \in {"N", "F"}
      PROVE  \E k \in 1..Len(s[i]) : s[i][k] = g_ops[i]
  <2>1. Len(s[i]) \in 1..Len(s[i]) /\ s[i][Len(s[i])] = g_ops[i]
    BY <1>3, <1>5 DEF PartOf
  <2> QED BY <2>1
<1>6. ASSUME NEW i \in Lines, NEW k \in 1..Len(s[i]), s[i][k].op \in {"N", "F"}
      PROVE  k = Len(s[i]) /\ s[i][k] = g_ops[i]
  <2>1. \A c \in opsdict(i) : Entry(c).op \in {"L", "U"}
    BY OpsdictEntry DEF Entry, Op
  <2> QED BY <2>1, <1>3, <1>6 DEF PartOf
<1>7. ASSUME NEW i \in Lines, NEW k \in 1..Len(s[i]), s[i][k].op \in {"N", "F"}
      PROVE  s[i][k] = g_ops[i] /\ \A l \in 1..Len(s[i]) : s[i][l].op \in {"N", "F"} => l = k
  BY <1>6, <1>7
<1>8. ASSUME NEW i \in Lines, NEW k \in 1..Len(s[i]), s[i][k].op \in {"L", "U"}
      PROVE  StartOf(s[i][k].mid) < i /\ i < StopOf(s[i][k].mid)
  BY <1>3, <1>8, ChangeLine
<1> QED BY <1>1, <1>4, <1>5, <1>7, <1>8 DEF Copies

-----------------------------------------------------------------------------
(* LockOps: the two files *)

\* Once the tools have run, the files are what they have made of the list of
\* operations, and the list does not change any more.
Outputs ==
    translated => lockops = FlattenSeq(LockopsParts) /\ lockopsfull = FlattenSeq(LockopsfullParts)

\* The tools run once, over the whole list.
LEMMA OutputsKept ==
    ASSUME Outputs, [LockNext]_<<vars, lockVars>>
    PROVE  Outputs'
<1>1. CASE Trace
  BY <1>1 DEF Trace, lockVars, Outputs
<1>2. CASE Translate
  <2>1. g_ops' = g_ops /\ UNCHANGED vars
    BY <1>2 DEF Translate, vars
  <2>2. LockopsParts' = LockopsParts /\ LockopsfullParts' = LockopsfullParts
    BY <2>1 DEF LockopsParts, LockopsfullParts, vars, LockopsLines, LockopsfullLines, Lines,
         ShortLived, lifetime_ops, total_ops, opsdict, AllChanges, g_stops, LockChanges, Life,
         StartOf, StopOf, OpIndices, Mids
  <2>3. /\ lockops' = FlattenSeq(LockopsParts) /\ lockopsfull' = FlattenSeq(LockopsfullParts)
    BY <1>2 DEF Translate, LockopsParts, LockopsfullParts
  <2> QED BY <2>2, <2>3 DEF Outputs
<1>3. CASE UNCHANGED <<vars, lockVars>>
  <2>1. UNCHANGED <<vars, translated, lockops, lockopsfull>>
    BY <1>3 DEF lockVars
  <2>2. LockopsParts' = LockopsParts /\ LockopsfullParts' = LockopsfullParts
    BY <2>1 DEF LockopsParts, LockopsfullParts, vars, LockopsLines, LockopsfullLines, Lines,
         ShortLived, lifetime_ops, total_ops, opsdict, AllChanges, g_stops, LockChanges, Life,
         StartOf, StopOf, OpIndices, Mids
  <2> QED BY <2>1, <2>2 DEF Outputs
<1> QED BY <1>1, <1>2, <1>3 DEF LockNext

\* What a run of the tools is about.
LEMMA AboutLockSpec == LockSpec => [](TypeOK /\ OpsTellLives /\ Outputs)
<1>1. LockInit => Init /\ Outputs
  BY DEF LockInit, Outputs
<1>2. [LockNext]_<<vars, lockVars>> => [Next]_vars
  BY DEF LockNext, Trace, Translate
<1>3. LockSpec => Spec
  BY <1>1, <1>2, PTL DEF LockSpec, Spec
<1>4. LockSpec => []Outputs
  BY <1>1, OutputsKept, PTL DEF LockSpec
<1> QED BY <1>3, <1>4, TypeCorrect, LivesTold, PTL

\* Without realloc, steve can replay both files, for every trace: every lock
\* and unlock that the two translations add is written after the block's N
\* line and before its F line, and the N lines keep their order.
THEOREM FilesCanBeReplayed == LockSpec => []FilesReplayable
<1>1. TypeOK /\ OpsTellLives /\ Outputs => FilesReplayable
  <2> SUFFICES ASSUME TypeOK, OpsTellLives, Outputs, translated, reallocs = 0
               PROVE  \A file \in {lockops, lockopsfull} : Numbered(file) /\ InLife(file)
    BY DEF FilesReplayable, Numbered, InLife
  <2>1. Told
    BY LivesAreTold
  <2>2. ASSUME NEW s, Copies(s)
        PROVE  Numbered(FlattenSeq(s)) /\ InLife(FlattenSeq(s))
    <3>1. s \in Seq(Seq(FileLine))
      BY <2>2 DEF Copies
    <3>2. PICK file : file = FlattenSeq(s)
      OBVIOUS
    <3>3. file \in Seq(FileLine) /\ \E at : Written(file, s, at)
      BY <3>1, <3>2, FlattenWritten
    <3>4. PICK at : Written(file, s, at)
      BY <3>3
    <3>5. Numbered(file) /\ InLife(file)
      BY <2>1, <2>2, <3>3, <3>4, CopiesNumbered, CopiesInLife
    <3> QED BY <3>2, <3>5
  <2>3. Copies(LockopsParts) /\ Copies(LockopsfullParts)
    BY <2>1, LockopsCopies, LockopsfullCopies
  <2> QED BY <2>2, <2>3 DEF Outputs
<1> QED BY <1>1, AboutLockSpec, PTL

-----------------------------------------------------------------------------
(* LockOps: accesses are locked in -lockopsfull *)

\* As long as the level does not turn, the block stays locked or unlocked.
LEMMA Steady ==
    ASSUME Told, NEW mid \in g_stops, NEW a \in StartOf(mid)..(StopOf(mid) - 1),
           NEW b \in StartOf(mid)..(StopOf(mid) - 1), a <= b,
           \A j \in (a + 1)..b : ~Turns(mid, j)
    PROVE  Life(mid)[a] > 0 <=> Life(mid)[b] > 0
<1>1. PICK lo, hi, life : lo = StartOf(mid) /\ hi = StopOf(mid) /\ life = Life(mid)
  OBVIOUS
<1>2. lo \in Nat /\ hi \in Nat /\ lo < hi
  BY <1>1, StartsFirst DEF Told, Lines
<1>3. a \in Nat /\ b \in Nat /\ lo <= a /\ a <= b /\ b < hi
  BY <1>1, <1>2
<1> DEFINE T == {j \in Nat : a < j /\ j <= b /\ ~(life[j] > 0 <=> life[a] > 0)}
<1> SUFFICES ASSUME ~(life[a] > 0 <=> life[b] > 0) PROVE FALSE
  BY <1>1
<1>4. b \in T /\ T \in SUBSET Nat
  <2>1. a # b
    OBVIOUS
  <2>2. a < b
    BY <2>1, <1>3
  <2> QED BY <2>2, <1>3
<1>5. PICK j \in T : \A x \in T : j <= x
  <2> HIDE DEF T
  <2> QED BY <1>4, Least
<1>6. j \in Nat /\ a < j /\ j <= b /\ ~(life[j] > 0 <=> life[a] > 0)
  BY <1>5
<1>7. j - 1 \in Nat /\ ~(j <= j - 1) /\ (a < j - 1 \/ a = j - 1) /\ j - 1 <= b
  BY <1>3, <1>6
<1>8. life[j - 1] > 0 <=> life[a] > 0
  <2>1. j - 1 \notin T
    <3> HIDE DEF T
    <3> QED BY <1>5, <1>7
  <2> QED BY <2>1, <1>7
<1>9. j \in (lo + 1)..(hi - 1) /\ j \in (a + 1)..b
  BY <1>2, <1>3, <1>6
<1>10. (life[j] > 0) # (life[j - 1] > 0)
  BY <1>6, <1>8
<1>11. Turns(mid, j)
  BY <1>1, <1>9, <1>10 DEF Turns
<1> QED BY <1>9, <1>11

\* The lines written for the first operations.
Parts(s) == /\ s \in Seq(Seq(FileLine)) /\ 1..Len(s) \subseteq Lines /\ Len(s) \in Nat
            /\ \A i \in 1..Len(s) : PartOf(s[i], i)

\* The parts written when operation n has had its turn.
LEMMA FirstParts ==
    ASSUME Told, NEW n \in 0..Len(g_ops), NEW s, s = [i \in 1..n |-> LockopsfullLines(i)]
    PROVE  Parts(s) /\ Len(s) = n
<1>1. n \in Nat /\ n <= Len(g_ops) /\ Len(g_ops) \in Nat
  BY DEF Told
<1>2. 1..n \subseteq Lines
  BY <1>1 DEF Lines
<1>3. \A i \in 1..n : PartOf(s[i], i)
  BY <1>2, LockopsfullPart
<1>4. \A i \in 1..n : s[i] \in Seq(FileLine)
  BY <1>3 DEF PartOf
<1>5. s = [i \in 1..n |-> s[i]]
  OBVIOUS
<1>6. s \in Seq(Seq(FileLine)) /\ Len(s) = n
  BY <1>1, <1>4, <1>5
<1> QED BY <1>1, <1>2, <1>3, <1>6 DEF Parts

\* Where the level of a block turns, its lock or unlock is written, unless it
\* was overridden.
LEMMA TurnWritten ==
    ASSUME Told, NEW s, Parts(s), NEW file, NEW at, Written(file, s, at),
           NEW mid \in g_stops, ~Overridden(mid), NEW x \in 1..Len(s), Turns(mid, x)
    PROVE  /\ 1 \in 1..Len(s[x]) /\ at[x][1] \in 1..Len(file)
           /\ IsLine(file, at[x][1], mid, {Sign(mid, x)})
<1>1. PICK c : c = Change(mid, x)
  OBVIOUS
<1>2. c \in opsdict(x) /\ c.mid = mid /\ c.op = Sign(mid, x)
  BY <1>1, ChangeKept DEF Change
<1>3. 1 \in 1..Len(s[x]) /\ s[x][1] = Entry(c)
  BY <1>2 DEF Parts, PartOf
<1>4. at[x][1] \in 1..Len(file) /\ file[at[x][1]] = Entry(c)
  BY <1>3 DEF Written
<1>5. Entry(c).mid = mid /\ Entry(c).op = Sign(mid, x)
  BY <1>2 DEF Entry, Op
<1> QED BY <1>3, <1>4, <1>5 DEF IsLine

\* Every lock and unlock in the file is where the level of its block turns.
LEMMA LineTurned ==
    ASSUME Told, NEW s, Parts(s), NEW file, NEW at, Written(file, s, at),
           NEW mid, NEW q \in 1..Len(file), IsLine(file, q, mid, {"L", "U"})
    PROVE  \E x \in 1..Len(s) :
              /\ 1 \in 1..Len(s[x]) /\ q = at[x][1] /\ Turns(mid, x)
              /\ file[q].op = Sign(mid, x)
<1>1. PICK x \in 1..Len(s) : \E k \in 1..Len(s[x]) : q = at[x][k]
  BY DEF Written
<1>2. PICK k \in 1..Len(s[x]) : q = at[x][k]
  BY <1>1
<1>3. s[x][k] = file[q]
  BY <1>2 DEF Written
<1>4. s[x][k].op \in {"L", "U"} /\ s[x][k].mid = mid
  BY <1>3 DEF IsLine
<1>5. x \in Lines /\ PartOf(s[x], x)
  BY DEF Parts
<1>6. k = 1 /\ Turns(mid, x) /\ s[x][k].op = Sign(mid, x)
  BY <1>4, <1>5, ChangeLine
<1> QED BY <1>2, <1>3, <1>6

\* Lines are in the file in the order of their operations.
LEMMA WrittenInOrder ==
    ASSUME NEW s, NEW file, NEW at, Written(file, s, at),
           NEW i \in 1..Len(s), NEW j \in 1..Len(s), NEW k \in 1..Len(s[i]), NEW l \in 1..Len(s[j])
    PROVE  at[i][k] < at[j][l] <=> i < j \/ (i = j /\ k < l)
  BY DEF Written

\* At an access the level has risen, and since the last turn before it the
\* block is locked.
LEMMA AccessLocked ==
    ASSUME Told, NEW mid \in g_stops, ~Overridden(mid), NEW i \in OpIndices(mid, "S")
    PROVE  LockedIn(WrittenBy(i), mid)
<1>1. PICK lo, hi, life : lo = StartOf(mid) /\ hi = StopOf(mid) /\ life = Life(mid)
  OBVIOUS
<1>2. lo \in Nat /\ hi \in Nat /\ lo < hi /\ mid \in Mids
  BY <1>1, StartsFirst DEF Told, Lines
<1>3. i \in Lines /\ i \in Nat /\ i \in 0..Len(g_ops) /\ g_ops[i].mid = mid /\ g_ops[i].op = "S"
  BY DEF OpIndices, Lines, Told
<1>4. lo < i /\ i < hi
  <2>1. i >= lo /\ i <= hi
    BY <1>1, <1>3 DEF Told
  <2>2. g_ops[lo].op = "N" /\ g_ops[hi].op = "F"
    BY <1>1, <1>2 DEF Told
  <2>3. i # lo /\ i # hi
    BY <2>2, <1>3
  <2> QED BY <2>1, <2>3, <1>2, <1>3
<1>5. /\ life \in [lo..hi -> Nat] /\ life[lo] = 0
      /\ \A j \in (lo + 1)..hi : g_ops[j].mid = mid => life[j] > 0
  BY <1>1, LifeFacts
<1>6. life[i] > 0
  <2>1. i \in (lo + 1)..hi
    BY <1>2, <1>3, <1>4
  <2> QED BY <2>1, <1>3, <1>5
\* the last operation at which the level was 0
<1> DEFINE T == {j \in 0..i : lo <= j /\ j < i /\ ~(life[j] > 0)}
<1>7. lo \in T /\ T \in SUBSET (0..i)
  <2>1. ~(life[lo] > 0)
    BY <1>5
  <2> QED BY <2>1, <1>2, <1>3, <1>4
<1>8. PICK j \in T : \A x \in T : j >= x
  <2> HIDE DEF T
  <2>1. i \in Int
    BY <1>3
  <2> QED BY <2>1, <1>7, Greatest
<1>9. j \in Nat /\ lo <= j /\ j < i /\ ~(life[j] > 0)
  BY <1>8
<1>10. ASSUME NEW x \in (j + 1)..i PROVE life[x] > 0
  <2>1. x \in 0..i /\ lo <= x /\ x \in Nat /\ x > j /\ (x < i \/ x = i)
    BY <1>2, <1>3, <1>9
  <2>2. x \notin T
    <3>1. ~(j >= x)
      BY <2>1, <1>9
    <3> HIDE DEF T
    <3> QED BY <3>1, <1>8
  <2> QED BY <2>1, <2>2, <1>6
<1>11. PICK k : k = j + 1
  OBVIOUS
<1>12. k \in Nat /\ k \in 1..i /\ k \in (j + 1)..i /\ k - 1 = j /\ k \in (lo + 1)..(hi - 1)
  BY <1>2, <1>3, <1>4, <1>9, <1>11
<1>13. Turns(mid, k) /\ Sign(mid, k) = "L"
  <2>1. life[k] > 0 /\ ~(life[k - 1] > 0)
    BY <1>9, <1>10, <1>12
  <2> QED BY <2>1, <1>1, <1>12 DEF Turns, Sign
<1>14. PICK s, file : s = [x \in 1..i |-> LockopsfullLines(x)] /\ file = FlattenSeq(s)
  OBVIOUS
<1>15. Parts(s) /\ Len(s) = i
  BY <1>3, <1>14, FirstParts
<1>16. file \in Seq(FileLine) /\ \E at : Written(file, s, at)
  BY <1>14, <1>15, FlattenWritten DEF Parts
<1>17. PICK at : Written(file, s, at)
  BY <1>16
<1>18. PICK p : p = at[k][1]
  OBVIOUS
<1>19. 1 \in 1..Len(s[k]) /\ p \in 1..Len(file) /\ IsLine(file, p, mid, {"L"})
  BY <1>12, <1>13, <1>15, <1>17, <1>18, TurnWritten
<1>20. ASSUME NEW q \in (p + 1)..Len(file), IsLine(file, q, mid, {"U", "F"}) PROVE FALSE
  <2>1. Len(file) \in Nat /\ p \in Nat
    BY <1>16, <1>19
  <2>2. q \in 1..Len(file) /\ p < q
    BY <2>1, <1>19
  <2>3. CASE file[q].op = "U"
    <3>1. IsLine(file, q, mid, {"L", "U"})
      BY <2>3, <1>20 DEF IsLine
    <3>2. PICK x \in 1..Len(s) : /\ 1 \in 1..Len(s[x]) /\ q = at[x][1]
                                 /\ file[q].op = Sign(mid, x)
      BY <3>1, <2>2, <1>15, <1>17, LineTurned
    <3>3. k < x \/ (k = x /\ 1 < 1)
      BY <3>2, <2>2, <1>12, <1>15, <1>17, <1>18, <1>19, WrittenInOrder
    <3>4. x \in (j + 1)..i
      BY <3>3, <1>3, <1>9, <1>11, <1>15
    <3>5. life[x] > 0
      BY <3>4, <1>10
    <3>6. Sign(mid, x) = "L"
      BY <3>5, <1>1 DEF Sign
    <3> QED BY <3>2, <3>6, <2>3
  <2>4. CASE file[q].op = "F"
    <3>1. PICK x \in 1..Len(s) : \E l \in 1..Len(s[x]) : q = at[x][l]
      BY <2>2, <1>17 DEF Written
    <3>2. PICK l \in 1..Len(s[x]) : q = at[x][l]
      BY <3>1
    <3>3. s[x][l] = file[q] /\ x \in Lines /\ PartOf(s[x], x)
      BY <3>2, <1>15, <1>17 DEF Written, Parts
    <3>4. \A c \in opsdict(x) : Entry(c).op \in {"L", "U"}
      BY OpsdictEntry DEF Entry, Op
    <3>5. s[x][l] = g_ops[x]
      BY <3>3, <3>4, <2>4 DEF PartOf
    <3>6. g_ops[x].mid = mid /\ g_ops[x].op = "F"
      BY <3>3, <3>5, <2>4, <1>20 DEF IsLine
    <3>7. x = hi
      BY <3>3, <3>6, <1>1 DEF Told
    <3> QED BY <3>7, <1>2, <1>3, <1>4, <1>15
  <2> QED BY <2>3, <2>4, <1>20 DEF IsLine
<1>21. DOMAIN file = 1..Len(file)
  BY <1>16
<1>22. LockedIn(file, mid)
  BY <1>19, <1>20, <1>21 DEF LockedIn
<1>23. file = WrittenBy(i)
  BY <1>14 DEF WrittenBy
<1> QED BY <1>22, <1>23

\* The L and U lines of a block that is not overridden alternate.
LEMMA ChangesAlternate ==
    ASSUME Told, NEW mid \in g_stops, ~Overridden(mid), NEW file,
           file = FlattenSeq(LockopsfullParts), NEW p \in DOMAIN file,
           IsLine(file, p, mid, {"L", "U"}),
           NEW before, before = {q \in 1..(p - 1) : IsLine(file, q, mid, {"L", "U"})}
    PROVE  file[p].op = IF before # {} /\ file[Max(before)].op = "L" THEN "U" ELSE "L"
<1>1. PICK lo, hi, life : lo = StartOf(mid) /\ hi = StopOf(mid) /\ life = Life(mid)
  OBVIOUS
<1>2. lo \in Nat /\ hi \in Nat /\ lo < hi /\ Len(g_ops) \in Nat /\ life[lo] = 0
  <2>1. lo \in Nat /\ hi \in Nat /\ Len(g_ops) \in Nat
    BY <1>1 DEF Told, Lines
  <2>2. lo < hi
    BY <1>1, StartsFirst
  <2>3. life[lo] = 0
    BY <1>1, LifeFacts
  <2> QED BY <2>1, <2>2, <2>3
<1>3. PICK s : s = LockopsfullParts
  OBVIOUS
<1>4. Parts(s) /\ Len(s) = Len(g_ops)
  <2>1. s = [i \in 1..Len(g_ops) |-> LockopsfullLines(i)] /\ Len(g_ops) \in 0..Len(g_ops)
    BY <1>2, <1>3 DEF LockopsfullParts, Lines
  <2> QED BY <2>1, FirstParts
<1>5. file \in Seq(FileLine) /\ \E at : Written(file, s, at)
  BY <1>3, <1>4, FlattenWritten DEF Parts
<1>6. PICK at : Written(file, s, at)
  BY <1>5
<1>7. p \in 1..Len(file) /\ Len(file) \in Nat /\ p \in Nat
  BY <1>5
<1>8. PICK i \in 1..Len(s) : /\ 1 \in 1..Len(s[i]) /\ p = at[i][1] /\ Turns(mid, i)
                             /\ file[p].op = Sign(mid, i)
  BY <1>4, <1>6, <1>7, LineTurned
<1>9. /\ i \in Nat /\ lo < i /\ i < hi /\ i - 1 \in lo..(hi - 1) /\ i <= Len(s)
      /\ life[i] > 0 <=> ~(life[i - 1] > 0)
  BY <1>1, <1>2, <1>4, <1>8 DEF Turns
\* a turn before i has its line before p
<1>10. ASSUME NEW x \in Nat, x < i, Turns(mid, x)
       PROVE  /\ x \in 1..Len(s) /\ 1 \in 1..Len(s[x]) /\ at[x][1] \in before
              /\ at[x][1] \in Nat
  <2>1. x \in 1..Len(s)
    BY <1>1, <1>2, <1>9, <1>10 DEF Turns
  <2>2. /\ 1 \in 1..Len(s[x]) /\ at[x][1] \in 1..Len(file)
        /\ IsLine(file, at[x][1], mid, {Sign(mid, x)})
    BY <2>1, <1>4, <1>6, <1>10, TurnWritten
  <2>3. at[x][1] < p
    BY <2>1, <2>2, <1>6, <1>8, <1>10, WrittenInOrder
  <2>4. PICK q : q = at[x][1]
    OBVIOUS
  <2>5. q \in 1..(p - 1) /\ q \in Nat
    BY <2>2, <2>3, <2>4, <1>7
  <2>6. IsLine(file, q, mid, {"L", "U"})
    BY <2>2, <2>4 DEF IsLine, Sign
  <2> QED BY <2>1, <2>2, <2>4, <2>5, <2>6
<1>11. CASE before = {}
  <2>1. \A x \in (lo + 1)..(i - 1) : ~Turns(mid, x)
    <3> SUFFICES ASSUME NEW x \in (lo + 1)..(i - 1), Turns(mid, x) PROVE FALSE
      OBVIOUS
    <3>1. x \in Nat /\ x < i
      BY <1>2, <1>9
    <3> QED BY <3>1, <1>10, <1>11
  <2>2. lo \in lo..(hi - 1) /\ lo <= i - 1
    BY <1>2, <1>9
  <2>3. life[lo] > 0 <=> life[i - 1] > 0
    BY <2>1, <2>2, <1>1, <1>9, Steady
  <2>4. life[i] > 0
    BY <2>3, <1>2, <1>9
  <2> QED BY <2>4, <1>1, <1>8, <1>11 DEF Sign
<1>12. CASE before # {}
  <2>1. before \in SUBSET (0..p)
    BY <1>7
  <2>2. PICK m \in before : \A y \in before : m >= y
    <3>1. p \in Int
      BY <1>7
    <3> QED BY <3>1, <2>1, <1>12, Greatest
  <2>3. Max(before) \in before /\ \A y \in before : Max(before) >= y
    BY <2>2 DEF Max
  <2>4. PICK b : b = Max(before)
    OBVIOUS
  <2>5. b \in 1..Len(file) /\ b \in Nat /\ b < p /\ IsLine(file, b, mid, {"L", "U"})
    BY <2>3, <2>4, <1>7
  <2>6. PICK j \in 1..Len(s) : /\ 1 \in 1..Len(s[j]) /\ b = at[j][1] /\ Turns(mid, j)
                               /\ file[b].op = Sign(mid, j)
    BY <2>5, <1>4, <1>6, LineTurned
  <2>7. j < i
    <3>1. j < i \/ (j = i /\ 1 < 1)
      BY <2>5, <2>6, <1>6, <1>8, WrittenInOrder
    <3> QED BY <3>1
  <2>8. j \in Nat /\ lo < j
    BY <2>6, <1>1, <1>2 DEF Turns
  <2>9. \A x \in (j + 1)..(i - 1) : ~Turns(mid, x)
    <3> SUFFICES ASSUME NEW x \in (j + 1)..(i - 1), Turns(mid, x) PROVE FALSE
      OBVIOUS
    <3>1. x \in Nat /\ x < i /\ j < x
      BY <2>8, <1>9
    <3>2. x \in 1..Len(s) /\ 1 \in 1..Len(s[x]) /\ at[x][1] \in before /\ at[x][1] \in Nat
      BY <3>1, <1>10
    <3>3. at[j][1] < at[x][1]
      BY <3>1, <3>2, <2>6, <1>6, WrittenInOrder
    <3>4. b >= at[x][1]
      BY <3>2, <2>3, <2>4
    <3> QED BY <3>2, <3>3, <3>4, <2>5, <2>6
  <2>10. j \in lo..(hi - 1) /\ j <= i - 1
    BY <2>7, <2>8, <1>2, <1>9
  <2>11. life[j] > 0 <=> life[i - 1] > 0
    BY <2>9, <2>10, <1>1, <1>9, Steady
  <2>12. file[b].op = "L" <=> life[j] > 0
    BY <2>6, <1>1 DEF Sign
  <2>13. file[p].op = IF life[i] > 0 THEN "L" ELSE "U"
    BY <1>1, <1>8 DEF Sign
  <2> QED BY <2>4, <2>11, <2>12, <2>13, <1>9, <1>12
<1> QED BY <1>11, <1>12

\* Without realloc, for every trace: in -lockopsfull every access of a block
\* that is freed later comes while the block is locked, and its locks and
\* unlocks alternate, as long as none of its entries of opsdict was replaced by
\* another block's (calculator, translate-ops-to-locking-lifetime.py).
THEOREM AccessesAreLocked == LockSpec => []AccessesLocked
<1>1. TypeOK /\ OpsTellLives /\ Outputs => AccessesLocked
  <2> SUFFICES ASSUME TypeOK, OpsTellLives, Outputs, translated, reallocs = 0,
                      NEW mid \in g_stops, ~Overridden(mid)
               PROVE  /\ \A i \in OpIndices(mid, "S") : LockedIn(WrittenBy(i), mid)
                      /\ \A p \in DOMAIN lockopsfull : IsLine(lockopsfull, p, mid, {"L", "U"}) =>
                            LET before == {q \in 1..(p - 1) : IsLine(lockopsfull, q, mid, {"L", "U"})}
                                locked == before # {} /\ lockopsfull[Max(before)].op = "L"
                            IN  lockopsfull[p].op = IF locked THEN "U" ELSE "L"
    BY DEF AccessesLocked
  <2>1. Told
    BY LivesAreTold
  <2>2. \A i \in OpIndices(mid, "S") : LockedIn(WrittenBy(i), mid)
    BY <2>1, AccessLocked
  <2>3. PICK file : file = lockopsfull
    OBVIOUS
  <2>4. ASSUME NEW p \in DOMAIN file, IsLine(file, p, mid, {"L", "U"})
        PROVE  LET before == {q \in 1..(p - 1) : IsLine(file, q, mid, {"L", "U"})}
                   locked == before # {} /\ file[Max(before)].op = "L"
               IN  file[p].op = IF locked THEN "U" ELSE "L"
    <3>1. file = FlattenSeq(LockopsfullParts)
      BY <2>3 DEF Outputs
    <3>2. PICK before : before = {q \in 1..(p - 1) : IsLine(file, q, mid, {"L", "U"})}
      OBVIOUS
    <3>3. file[p].op = IF before # {} /\ file[Max(before)].op = "L" THEN "U" ELSE "L"
      BY <2>1, <2>4, <3>1, <3>2, ChangesAlternate
    <3> QED BY <3>2, <3>3
  <2> QED BY <2>2, <2>3, <2>4
<1> QED BY <1>1, AboutLockSpec, PTL

-----------------------------------------------------------------------------
(* LockOps: what -lockops counts *)

\* Where a block's life ends: at its F line, or after the last line.
EndOf(mid) == IF mid \in g_stops THEN StopOf(mid) ELSE Len(g_ops) + 1

\* The accesses in a block's life: of the block itself and of others, up to
\* operation i.
Held(mid) == {j \in Lines : StartOf(mid) <= j /\ j < EndOf(mid) /\ g_ops[j].op = "S"}
OwnTo(mid, i) == {j \in Held(mid) : j <= i /\ g_ops[j].mid = mid}
OtherTo(mid, i) == {j \in Held(mid) : j <= i /\ g_ops[j].mid # mid}

\* What lifetime_ops keeps of a block, and what it makes of it at operation i.
Tally == [live : BOOLEAN, own : Nat, other : Nat]
Zero(alive) == [live |-> alive, own |-> 0, other |-> 0]
Counted(mid, i, x) ==
    LET op == g_ops[i] IN
    CASE op.op = "N" -> IF op.mid = mid THEN Zero(TRUE) ELSE x
      [] op.op = "F" -> IF op.mid = mid THEN [x EXCEPT !.live = FALSE] ELSE x
      [] OTHER -> IF ~x.live THEN x
                  ELSE IF op.mid = mid THEN [x EXCEPT !.own = @ + 1]
                  ELSE [x EXCEPT !.other = @ + 1]

\* A tally stays a tally.
LEMMA CountedTyped ==
    ASSUME NEW mid, NEW i, NEW x \in Tally
    PROVE  Counted(mid, i, x) \in Tally
<1>1. Zero(TRUE) \in Tally
  BY DEF Zero, Tally
<1>2. [x EXCEPT !.live = FALSE] \in Tally
  BY DEF Tally
<1>3. [x EXCEPT !.own = @ + 1] \in Tally
  BY DEF Tally
<1>4. [x EXCEPT !.other = @ + 1] \in Tally
  BY DEF Tally
<1> QED BY <1>1, <1>2, <1>3, <1>4 DEF Counted

\* f[i] is the tally after the first i operations.
CountsBy(f, mid) ==
    /\ f[0] = Zero(FALSE) /\ \A i \in Lines : f[i] = Counted(mid, i, f[i - 1])
    /\ lifetime_ops(mid) = f[Len(g_ops)]

\* lifetime_ops counts line by line.
LEMMA LifetimeCounts ==
    ASSUME Len(g_ops) \in Nat, NEW mid
    PROVE  \E f : CountsBy(f, mid)
<1>0. PICK n : n = Len(g_ops) /\ n \in Nat
  OBVIOUS
<1> DEFINE Body(f) == [i \in 0..n |-> IF i = 0 THEN Zero(FALSE) ELSE Counted(mid, i, f[i - 1])]
           F == CHOOSE f : f = Body(f)
           step == [k \in 1..n |-> [x \in Tally |-> Counted(mid, k, x)]]
<1>1. lifetime_ops(mid) = F[n]
  BY <1>0 DEF lifetime_ops, Counted, Zero
<1>2. Zero(FALSE) \in Tally
  BY DEF Zero, Tally
<1>3. step \in [1..n -> [Tally -> Tally]]
  BY <1>0, CountedTyped
<1>4. \A k \in 1..n, x \in Tally : step[k][x] = Counted(mid, k, x)
  OBVIOUS
<1>5. PICK h : Computes(h, Tally, Zero(FALSE), step, n)
  <2> HIDE DEF step
  <2> QED BY <1>0, <1>2, <1>3, Recursion
<1>6. /\ h \in [0..n -> Tally] /\ h[0] = Zero(FALSE)
      /\ \A k \in 1..n : h[k] = Counted(mid, k, h[k - 1])
  <2>1. h \in [0..n -> Tally] /\ h[0] = Zero(FALSE) /\ \A k \in 1..n : h[k] = step[k][h[k - 1]]
    BY <1>5 DEF Computes
  <2> HIDE DEF step
  <2>2. \A k \in 1..n : k - 1 \in 0..n
    BY <1>0
  <2> QED BY <2>1, <2>2, <1>4
<1>7. h = Body(h)
  <2>1. \A i \in 0..n : i = 0 \/ i \in 1..n
    BY <1>0
  <2>2. \A i \in 0..n : h[i] = IF i = 0 THEN Zero(FALSE) ELSE Counted(mid, i, h[i - 1])
    BY <2>1, <1>6
  <2>3. h = [i \in 0..n |-> h[i]]
    BY <1>6
  <2> QED BY <2>2, <2>3
<1>8. F = Body(F)
  <2> HIDE DEF Body
  <2> QED BY <1>7
<1>9. F[0] = Zero(FALSE) /\ \A i \in 1..n : F[i] = Counted(mid, i, F[i - 1])
  <2> HIDE DEF F
  <2>1. \A i \in 0..n : F[i] = IF i = 0 THEN Zero(FALSE) ELSE Counted(mid, i, F[i - 1])
    BY <1>8
  <2>2. 0 \in 0..n /\ \A i \in 1..n : i \in 0..n /\ i # 0
    BY <1>0
  <2> QED BY <2>1, <2>2
<1> HIDE DEF F
<1>10. CountsBy(F, mid)
  BY <1>0, <1>1, <1>9 DEF CountsBy, Lines
<1> QED BY <1>10

\* Where a block's life lies.
LEMMA EndFacts ==
    ASSUME Told, NEW mid \in Mids
    PROVE  /\ StartOf(mid) \in Nat /\ EndOf(mid) \in Nat /\ StartOf(mid) < EndOf(mid)
           /\ \A i \in Lines : i = StartOf(mid) <=> (g_ops[i].op = "N" /\ g_ops[i].mid = mid)
           /\ \A i \in Lines : i = EndOf(mid) <=> (g_ops[i].op = "F" /\ g_ops[i].mid = mid)
<1>1. /\ Len(g_ops) \in Nat /\ StartOf(mid) \in Lines /\ StartOf(mid) \in Nat
      /\ StartOf(mid) <= Len(g_ops)
  BY DEF Told, Lines
<1>2. EndOf(mid) \in Nat /\ StartOf(mid) < EndOf(mid)
  <2>1. CASE mid \in g_stops
    <3>1. EndOf(mid) = StopOf(mid) /\ StopOf(mid) \in Nat
      BY <2>1 DEF Told, Lines, EndOf
    <3> QED BY <3>1, <2>1, StartsFirst
  <2>2. CASE mid \notin g_stops
    BY <2>2, <1>1 DEF EndOf
  <2> QED BY <2>1, <2>2
<1>3. \A i \in Lines : i = StartOf(mid) <=> (g_ops[i].op = "N" /\ g_ops[i].mid = mid)
  BY DEF Told
<1>4. ASSUME NEW i \in Lines PROVE i = EndOf(mid) <=> (g_ops[i].op = "F" /\ g_ops[i].mid = mid)
  <2>1. g_ops[i].op = "F" /\ g_ops[i].mid = mid => mid \in g_stops /\ i = StopOf(mid)
    BY DEF Told
  <2>2. mid \in g_stops => g_ops[StopOf(mid)].op = "F" /\ g_ops[StopOf(mid)].mid = mid
    BY DEF Told
  <2>3. i # Len(g_ops) + 1
    BY <1>1 DEF Lines
  <2> QED BY <2>1, <2>2, <2>3 DEF EndOf
<1> QED BY <1>1, <1>2, <1>3, <1>4

\* There are finitely many accesses.
LEMMA HeldFinite ==
    ASSUME Len(g_ops) \in Nat, NEW mid, NEW i
    PROVE  IsFiniteSet(Held(mid)) /\ IsFiniteSet(OwnTo(mid, i)) /\ IsFiniteSet(OtherTo(mid, i))
<1>1. IsFiniteSet(Lines)
  <2>1. 1 \in Int /\ Len(g_ops) \in Int
    OBVIOUS
  <2> QED BY <2>1, FS_Interval DEF Lines
<1>2. Held(mid) \subseteq Lines /\ OwnTo(mid, i) \subseteq Lines /\ OtherTo(mid, i) \subseteq Lines
  BY DEF Held, OwnTo, OtherTo
<1> QED BY <1>1, <1>2, FS_Subset

\* The sets the tally counts grow by the access made at operation k.
LEMMA Growth ==
    ASSUME Len(g_ops) \in Nat, NEW mid, NEW i \in Nat, NEW k, k = i + 1
    PROVE  /\ k \notin Held(mid) => OwnTo(mid, k) = OwnTo(mid, i) /\ OtherTo(mid, k) = OtherTo(mid, i)
           /\ k \in Held(mid) /\ g_ops[k].mid = mid =>
                 /\ Cardinality(OwnTo(mid, k)) = Cardinality(OwnTo(mid, i)) + 1
                 /\ OtherTo(mid, k) = OtherTo(mid, i)
           /\ k \in Held(mid) /\ g_ops[k].mid # mid =>
                 /\ Cardinality(OtherTo(mid, k)) = Cardinality(OtherTo(mid, i)) + 1
                 /\ OwnTo(mid, k) = OwnTo(mid, i)
<1>1. \A j \in Held(mid) : j \in Nat
  BY DEF Held, Lines
<1>2. \A j \in Held(mid) : j <= k <=> j <= i \/ j = k
  BY <1>1
<1>3. ~(k <= i)
  OBVIOUS
<1>4. k \notin OwnTo(mid, i) /\ k \notin OtherTo(mid, i)
  BY <1>3 DEF OwnTo, OtherTo
<1>5. CASE k \notin Held(mid)
  BY <1>2, <1>5, Zenon DEF OwnTo, OtherTo
<1>6. CASE k \in Held(mid) /\ g_ops[k].mid = mid
  <2>1. OwnTo(mid, k) = OwnTo(mid, i) \cup {k} /\ OtherTo(mid, k) = OtherTo(mid, i)
    BY <1>2, <1>6 DEF OwnTo, OtherTo
  <2> QED BY <2>1, <1>4, <1>6, HeldFinite, FS_AddElement
<1>7. CASE k \in Held(mid) /\ g_ops[k].mid # mid
  <2>1. OtherTo(mid, k) = OtherTo(mid, i) \cup {k} /\ OwnTo(mid, k) = OwnTo(mid, i)
    BY <1>2, <1>7 DEF OwnTo, OtherTo
  <2> QED BY <2>1, <1>4, <1>7, HeldFinite, FS_AddElement
<1> QED BY <1>5, <1>6, <1>7

\* A tally after operation i tells whether the block is alive, and how many
\* accesses fell in its life so far.
Right(mid, i, x) ==
    /\ x \in Tally
    /\ x.live <=> StartOf(mid) <= i /\ i < EndOf(mid)
    /\ StartOf(mid) <= i => /\ x.own = Cardinality(OwnTo(mid, i))
                            /\ x.other = Cardinality(OtherTo(mid, i))

\* Counting keeps the tally right.
LEMMA CountedRight ==
    ASSUME Told, NEW mid \in Mids, NEW i \in Nat, NEW k \in Lines, k = i + 1,
           NEW x, Right(mid, i, x)
    PROVE  Right(mid, k, Counted(mid, k, x))
<1>1. PICK lo, hi : lo = StartOf(mid) /\ hi = EndOf(mid)
  OBVIOUS
<1>2. /\ lo \in Nat /\ hi \in Nat /\ lo < hi /\ Len(g_ops) \in Nat /\ k \in Nat
      /\ k = lo <=> (g_ops[k].op = "N" /\ g_ops[k].mid = mid)
      /\ k = hi <=> (g_ops[k].op = "F" /\ g_ops[k].mid = mid)
  <2>1. Len(g_ops) \in Nat
    BY DEF Told
  <2> QED BY <2>1, <1>1, EndFacts
<1>3. PICK y : y = Counted(mid, k, x)
  OBVIOUS
<1>4. y \in Tally /\ x \in Tally /\ x.live \in BOOLEAN /\ x.own \in Nat /\ x.other \in Nat
  <2>1. x \in Tally
    BY DEF Right
  <2> QED BY <2>1, <1>3, CountedTyped DEF Tally
<1>5. /\ x.live <=> lo <= i /\ i < hi
      /\ lo <= i => x.own = Cardinality(OwnTo(mid, i)) /\ x.other = Cardinality(OtherTo(mid, i))
  BY <1>1 DEF Right
<1>6. k \in Held(mid) <=> lo <= k /\ k < hi /\ g_ops[k].op = "S"
  BY <1>1 DEF Held
<1>7. g_ops[k].op \in {"N", "F", "S"}
  BY DEF Told
\* a line that is not the block's N line or F line does not begin or end its life
<1>8. ASSUME k # lo, k # hi
      PROVE  (lo <= k <=> lo <= i) /\ (lo <= k /\ k < hi <=> lo <= i /\ i < hi)
  BY <1>2, <1>8
<1>9. CASE k = lo
  <2>1. y = Zero(TRUE)
    BY <1>2, <1>3, <1>9 DEF Counted
  <2>2. Held(mid) \cap 0..k = {}
    <3> SUFFICES ASSUME NEW j \in Held(mid), j \in 0..k PROVE FALSE
      OBVIOUS
    <3>1. lo <= j /\ g_ops[j].op = "S" /\ j \in Nat
      BY <1>1 DEF Held, Lines
    <3>2. j = k
      BY <3>1, <1>2, <1>9
    <3> QED BY <3>1, <3>2, <1>2, <1>9
  <2>3. \A j \in Held(mid) : j <= k => j \in 0..k
    BY <1>2 DEF Held, Lines
  <2>4. OwnTo(mid, k) = {} /\ OtherTo(mid, k) = {}
    BY <2>2, <2>3 DEF OwnTo, OtherTo
  <2>5. y.live /\ y.own = 0 /\ y.other = 0
    BY <2>1 DEF Zero
  <2>6. Cardinality(OwnTo(mid, k)) = 0 /\ Cardinality(OtherTo(mid, k)) = 0
    BY <2>4, FS_EmptySet
  <2>7. lo <= k /\ k < hi
    BY <1>2, <1>9
  <2> QED BY <2>5, <2>6, <2>7, <1>1, <1>3, <1>4 DEF Right
<1>10. CASE k = hi
  <2>1. y = [x EXCEPT !.live = FALSE]
    BY <1>2, <1>3, <1>10 DEF Counted
  <2>2. ~y.live /\ y.own = x.own /\ y.other = x.other
    BY <2>1, <1>4 DEF Tally
  <2>3. lo <= k /\ lo <= i /\ ~(k < hi)
    BY <1>2, <1>10
  <2>4. k \notin Held(mid)
    BY <2>3, <1>6
  <2>5. OwnTo(mid, k) = OwnTo(mid, i) /\ OtherTo(mid, k) = OtherTo(mid, i)
    BY <2>4, <1>2, Growth
  <2> QED BY <2>2, <2>3, <2>5, <1>1, <1>3, <1>4, <1>5 DEF Right
<1>11. CASE k # lo /\ k # hi /\ g_ops[k].op # "S"
  <2>1. y = x
    BY <1>2, <1>3, <1>7, <1>11 DEF Counted
  <2>2. k \notin Held(mid)
    BY <1>6, <1>11
  <2>3. OwnTo(mid, k) = OwnTo(mid, i) /\ OtherTo(mid, k) = OtherTo(mid, i)
    BY <2>2, <1>2, Growth
  <2> QED BY <2>1, <2>3, <1>1, <1>3, <1>4, <1>5, <1>8, <1>11 DEF Right
<1>12. CASE k # lo /\ k # hi /\ g_ops[k].op = "S" /\ ~x.live
  <2>1. y = x
    BY <1>3, <1>12 DEF Counted
  <2>2. k \notin Held(mid)
    BY <1>5, <1>6, <1>8, <1>12
  <2>3. OwnTo(mid, k) = OwnTo(mid, i) /\ OtherTo(mid, k) = OtherTo(mid, i)
    BY <2>2, <1>2, Growth
  <2> QED BY <2>1, <2>3, <1>1, <1>3, <1>4, <1>5, <1>8, <1>12 DEF Right
<1>13. CASE k # lo /\ k # hi /\ g_ops[k].op = "S" /\ x.live
  <2>1. lo <= i /\ lo <= k /\ k < hi /\ k \in Held(mid)
    BY <1>5, <1>6, <1>8, <1>13
  <2>2. CASE g_ops[k].mid = mid
    <3>1. y = [x EXCEPT !.own = @ + 1]
      BY <2>2, <1>3, <1>13 DEF Counted
    <3>2. y.live = x.live /\ y.own = x.own + 1 /\ y.other = x.other
      BY <3>1, <1>4 DEF Tally
    <3>3. /\ Cardinality(OwnTo(mid, k)) = Cardinality(OwnTo(mid, i)) + 1
          /\ OtherTo(mid, k) = OtherTo(mid, i)
      BY <2>1, <2>2, <1>2, Growth
    <3> QED BY <3>2, <3>3, <2>1, <1>1, <1>3, <1>4, <1>5, <1>13 DEF Right
  <2>3. CASE g_ops[k].mid # mid
    <3>1. y = [x EXCEPT !.other = @ + 1]
      BY <2>3, <1>3, <1>13 DEF Counted
    <3>2. y.live = x.live /\ y.own = x.own /\ y.other = x.other + 1
      BY <3>1, <1>4 DEF Tally
    <3>3. /\ Cardinality(OtherTo(mid, k)) = Cardinality(OtherTo(mid, i)) + 1
          /\ OwnTo(mid, k) = OwnTo(mid, i)
      BY <2>1, <2>3, <1>2, Growth
    <3> QED BY <3>2, <3>3, <2>1, <1>1, <1>3, <1>4, <1>5, <1>13 DEF Right
  <2> QED BY <2>2, <2>3
<1> QED BY <1>7, <1>9, <1>10, <1>11, <1>12, <1>13

\* At the end lifetime_ops has the number of accesses in the block's life.
LEMMA LifetimeRight ==
    ASSUME Told, NEW mid \in Mids
    PROVE  Right(mid, Len(g_ops), lifetime_ops(mid))
<1>1. PICK n : n = Len(g_ops)
  OBVIOUS
<1>2. n \in Nat /\ Len(g_ops) \in Nat
  BY <1>1 DEF Told
<1>3. PICK f : /\ lifetime_ops(mid) = f[n]
               /\ f[0] = Zero(FALSE) /\ \A i \in 1..n : f[i] = Counted(mid, i, f[i - 1])
  <2>1. PICK f : CountsBy(f, mid)
    BY <1>2, LifetimeCounts
  <2> QED BY <2>1, <1>1 DEF CountsBy, Lines
<1> DEFINE P == {i \in Nat : i <= n => Right(mid, i, f[i])}
<1>4. 0 \in P
  <2>1. StartOf(mid) \in Nat /\ ~(StartOf(mid) <= 0)
    BY DEF Told, Lines
  <2>2. Zero(FALSE) \in Tally /\ ~Zero(FALSE).live
    BY DEF Zero, Tally
  <2>3. Right(mid, 0, Zero(FALSE))
    BY <2>1, <2>2 DEF Right
  <2> QED BY <2>3, <1>3
<1>5. ASSUME NEW i \in P PROVE i + 1 \in P
  <2> SUFFICES ASSUME i + 1 <= n PROVE Right(mid, i + 1, f[i + 1])
    OBVIOUS
  <2>1. PICK k : k = i + 1
    OBVIOUS
  <2>2. i \in Nat /\ i <= n /\ k \in Lines /\ k \in 1..n /\ k - 1 = i
    BY <2>1, <1>1, <1>2 DEF Lines
  <2>3. Right(mid, i, f[i])
    BY <2>2
  <2>4. f[k] = Counted(mid, k, f[i])
    BY <2>2, <1>3
  <2>5. Right(mid, k, Counted(mid, k, f[i]))
    BY <2>1, <2>2, <2>3, CountedRight
  <2> QED BY <2>1, <2>4, <2>5
<1>6. P \subseteq Nat
  OBVIOUS
<1>7. n \in P
  <2> HIDE DEF P
  <2> QED BY <1>2, <1>4, <1>5, <1>6, Induction
<1>8. Right(mid, n, f[n])
  BY <1>2, <1>7
<1> QED BY <1>1, <1>3, <1>8

\* At least one: max(1, n) of the source.
LEMMA AtLeastOne ==
    ASSUME NEW n \in Nat
    PROVE  Max({1, n}) = IF n = 0 THEN 1 ELSE n
<1>1. PICK c : c = IF n = 0 THEN 1 ELSE n
  OBVIOUS
<1>2. c \in {1, n} /\ c >= 1 /\ c >= n
  BY <1>1
<1>3. \A d \in {1, n} : (\A e \in {1, n} : d >= e) => d = c
  BY <1>1
<1>4. Max({1, n}) = c
  BY <1>2, <1>3 DEF Max
<1> QED BY <1>1, <1>4

\* Less than half of all accesses fall in a block's life: what ShortLived says.
LEMMA ShortLivedMeans ==
    ASSUME Told, NEW mid \in Mids, NEW stop,
           stop = IF mid \in g_stops THEN StopOf(mid) ELSE Len(g_ops),
           NEW within, within = {i \in StartOf(mid)..stop : g_ops[i].op = "S"},
           NEW own, own = {i \in within : g_ops[i].mid = mid}
    PROVE  ShortLived(mid) <=>
              2 * (Cardinality(within) + (IF own = {} THEN 1 ELSE 0)) < Max({1, total_ops})
<1>1. PICK n : n = Len(g_ops)
  OBVIOUS
<1>2. /\ n \in Nat /\ Lines = 1..n /\ StartOf(mid) \in Nat /\ StartOf(mid) >= 1
      /\ mid \in g_stops => StopOf(mid) \in Lines /\ g_ops[StopOf(mid)].op = "F"
  BY <1>1 DEF Told, Lines
<1>3. within = Held(mid)
  <2>1. \A i \in within : i \in Held(mid)
    BY <1>1, <1>2 DEF Held, EndOf
  <2>2. \A i \in Held(mid) : i \in within
    BY <1>1, <1>2 DEF Held, EndOf
  <2> QED BY <2>1, <2>2
<1>4. PICK other : other = {i \in within : g_ops[i].mid # mid}
  OBVIOUS
<1>5. own = OwnTo(mid, n) /\ other = OtherTo(mid, n)
  <2>1. \A i \in Held(mid) : i <= n
    BY <1>2 DEF Held
  <2> QED BY <2>1, <1>3, <1>4 DEF OwnTo, OtherTo
<1>6. IsFiniteSet(own) /\ IsFiniteSet(other)
  <2>1. Len(g_ops) \in Nat
    BY <1>1, <1>2
  <2>2. IsFiniteSet(OwnTo(mid, n)) /\ IsFiniteSet(OtherTo(mid, n))
    BY <2>1, HeldFinite
  <2> QED BY <2>2, <1>5
<1>7. own \cup other = within /\ own \cap other = {}
  BY <1>4
<1>8. PICK a, b : a = Cardinality(own) /\ b = Cardinality(other)
  OBVIOUS
<1>9. a \in Nat /\ b \in Nat /\ Cardinality(within) = a + b
  <2>1. Cardinality(own) \in Nat /\ Cardinality(other) \in Nat
    BY <1>6, FS_CardinalityType
  <2>2. Cardinality(own \cup other) =
            Cardinality(own) + Cardinality(other) - Cardinality(own \cap other)
    BY <1>6, FS_Union
  <2>3. Cardinality(own \cap other) = 0
    BY <1>7, FS_EmptySet
  <2>4. Cardinality(within) = a + b - 0
    BY <2>2, <2>3, <1>7, <1>8
  <2> QED BY <2>1, <2>4, <1>8
<1>10. a = 0 <=> own = {}
  BY <1>6, <1>8, FS_EmptySet
<1>11. PICK l : l = lifetime_ops(mid)
  OBVIOUS
<1>12. l.own = a /\ l.other = b
  <2>1. Right(mid, n, l)
    BY <1>1, <1>11, LifetimeRight
  <2>2. StartOf(mid) <= n
    BY <1>1 DEF Told, Lines
  <2> QED BY <2>1, <2>2, <1>5, <1>8 DEF Right
<1>13. PICK m : m = Max({1, a})
  OBVIOUS
<1>14. m = IF a = 0 THEN 1 ELSE a
  BY <1>9, <1>13, AtLeastOne
<1>15. PICK t : t = Max({1, total_ops})
  OBVIOUS
<1>16. ShortLived(mid) <=> 2 * (m + b) < t
  BY <1>11, <1>12, <1>13, <1>15 DEF ShortLived
<1>17. m + b = a + b + (IF own = {} THEN 1 ELSE 0)
  BY <1>9, <1>10, <1>14
<1> QED BY <1>9, <1>15, <1>16, <1>17

\* -lockops has an L line of a block just if the block is short-lived.
LEMMA LockLine ==
    ASSUME Told, NEW mid \in Mids, NEW s, Copies(s), NEW file \in Seq(FileLine), NEW at,
           Written(file, s, at), \A i \in Lines : s[i] = LockopsLines(g_ops[i])
    PROVE  (\E p \in DOMAIN file : IsLine(file, p, mid, {"L"})) <=> ShortLived(mid)
<1>1. ASSUME NEW p \in DOMAIN file, IsLine(file, p, mid, {"L"}) PROVE ShortLived(mid)
  <2>1. PICK i \in Lines : \E k \in 1..Len(s[i]) :
            p = at[i][k] /\ file[p] = s[i][k] /\ file[p] \in FileLine
    BY <1>1, Source
  <2>2. PICK k \in 1..Len(s[i]) : file[p] = s[i][k]
    BY <2>1
  <2>3. s[i][k].op = "L" /\ s[i][k].mid = mid
    BY <2>2, <1>1 DEF IsLine
  <2>4. PICK part, len : part = s[i] /\ len = Len(part)
    OBVIOUS
  <2>5. /\ g_ops[i].op = "S" => len = 0
        /\ g_ops[i].op # "S" =>
              /\ len \in {1, 2} /\ part[1] = g_ops[i]
              /\ len = 2 => /\ g_ops[i].op = "N" /\ ShortLived(g_ops[i].mid)
                            /\ part[2].mid = g_ops[i].mid
    BY <2>4, LockopsPart
  <2>6. k \in 1..len /\ part[k].op = "L" /\ part[k].mid = mid /\ g_ops[i].op # "L"
    BY <2>3, <2>4 DEF Told
  <2>7. g_ops[i].op # "S" /\ len = 2 /\ k = 2
    BY <2>5, <2>6
  <2> QED BY <2>5, <2>6, <2>7
<1>2. ASSUME ShortLived(mid) PROVE \E p \in DOMAIN file : IsLine(file, p, mid, {"L"})
  <2>1. PICK i : i = StartOf(mid)
    OBVIOUS
  <2>2. i \in Lines /\ g_ops[i].op = "N" /\ g_ops[i].mid = mid
    BY <2>1 DEF Told
  <2>3. PICK part : part = s[i]
    OBVIOUS
  <2>4. Len(part) = 2 /\ part[2].mid = mid /\ part[2].op = "L"
    BY <2>2, <2>3, <1>2, LockopsPart
  <2>5. PICK p : p = at[i][2]
    OBVIOUS
  <2>6. p \in 1..Len(file) /\ file[p] = part[2]
    <3>1. 2 \in 1..Len(s[i])
      BY <2>3, <2>4
    <3> QED BY <3>1, <2>2, <2>3, <2>5, Target
  <2>7. p \in DOMAIN file
    BY <2>6
  <2> QED BY <2>4, <2>6, <2>7 DEF IsLine
<1> QED BY <1>1, <1>2

\* -lockops locks exactly the blocks in whose life less than half of all
\* accesses fall, for every trace: lifetime_ops, which counts while it reads
\* the list of operations once, counts what lies between N and F line.
THEOREM ShortLivesAreLocked == LockSpec => []ShortLivesLocked
<1>1. TypeOK /\ OpsTellLives /\ Outputs => ShortLivesLocked
  <2> SUFFICES ASSUME TypeOK, OpsTellLives, Outputs, translated, reallocs = 0, NEW mid \in Mids
               PROVE  LET stop == IF mid \in g_stops THEN StopOf(mid) ELSE Len(g_ops)
                          within == {i \in StartOf(mid)..stop : g_ops[i].op = "S"}
                          own == {i \in within : g_ops[i].mid = mid}
                          n == Cardinality(within) + (IF own = {} THEN 1 ELSE 0)
                      IN  (\E p \in DOMAIN lockops : IsLine(lockops, p, mid, {"L"}))
                              <=> 2 * n < Max({1, total_ops})
    BY DEF ShortLivesLocked
  <2> DEFINE stop == IF mid \in g_stops THEN StopOf(mid) ELSE Len(g_ops)
             within == {i \in StartOf(mid)..stop : g_ops[i].op = "S"}
             own == {i \in within : g_ops[i].mid = mid}
  <2>1. Told
    BY LivesAreTold
  <2>2. (\E p \in DOMAIN lockops : IsLine(lockops, p, mid, {"L"})) <=> ShortLived(mid)
    <3>1. PICK s : s = LockopsParts
      OBVIOUS
    <3>2. Copies(s) /\ s \in Seq(Seq(FileLine)) /\ \A i \in Lines : s[i] = LockopsLines(g_ops[i])
      <4>1. Copies(s)
        BY <2>1, <3>1, LockopsCopies
      <4>2. \A i \in Lines : s[i] = LockopsLines(g_ops[i])
        BY <3>1 DEF LockopsParts
      <4> QED BY <4>1, <4>2 DEF Copies
    <3>3. PICK file : file = lockops
      OBVIOUS
    <3>4. file = FlattenSeq(s)
      BY <3>1, <3>3 DEF Outputs
    <3>5. file \in Seq(FileLine) /\ \E at : Written(file, s, at)
      BY <3>2, <3>4, FlattenWritten
    <3>6. PICK at : Written(file, s, at)
      BY <3>5
    <3>7. (\E p \in DOMAIN file : IsLine(file, p, mid, {"L"})) <=> ShortLived(mid)
      BY <2>1, <3>2, <3>5, <3>6, LockLine
    <3> QED BY <3>3, <3>7
  <2>3. ShortLived(mid) <=>
            2 * (Cardinality(within) + (IF own = {} THEN 1 ELSE 0)) < Max({1, total_ops})
    BY <2>1, ShortLivedMeans
  <2>4. PICK e : e <=> \E p \in DOMAIN lockops : IsLine(lockops, p, mid, {"L"})
    OBVIOUS
  <2>5. e <=> 2 * (Cardinality(within) + (IF own = {} THEN 1 ELSE 0)) < Max({1, total_ops})
    BY <2>2, <2>3, <2>4
  <2> QED BY <2>4, <2>5
<1> QED BY <1>1, AboutLockSpec, PTL

=============================================================================
