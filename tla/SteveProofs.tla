----------------------------- MODULE SteveProofs -----------------------------
(***************************************************************************)
(* The tables of steve stay true to the allocator, for every trace, heap,  *)
(* number of handles and number of rewinds.                                *)
(***************************************************************************)
EXTENDS Steve, NumberFacts, TLAPS

-----------------------------------------------------------------------------
(* The inductive invariant *)

Ops == {"N", "F", "L", "U", "S", "#"}
LineType == [op : Ops, h : Nat, size : Nat]

\* A line is being executed, or the program has ended in the middle of one
InOp == pc \in {"op", "oom", "retry", "exit"}

\* memplot executes the line left in the buffer after a rewind
Leftover == InOp /\ pos = 0

\* The lines of this pass that have been executed
Past == 1..(IF InOp /\ pos > 0 THEN pos - 1 ELSE pos)
Did(op, h) == \E i \in Past : file[i].op = op /\ file[i].h = h
LockedBy(h) ==
    \E i \in Past : /\ file[i].op = "L" /\ file[i].h = h
                    /\ \A j \in Past : j > i => ~(file[j].op = "U" /\ file[j].h = h)
AnyNew == \E i \in Past : file[i].op = "N"

\* What the handles of the current pass are counted from; KillEnds catches up
Base == IF pc = "kill" THEN handle_offset + highest_handle_no ELSE handle_offset

\* Variables that TypeOK leaves open.
TypesMore ==
    /\ file \in Seq(LineType) /\ closed \in BOOLEAN /\ pos \in 0..Len(file)
    /\ line \in LineType /\ killed \in Nat /\ rewinds \in 0..MaxRewinds
    /\ g_has_compacted \in BOOLEAN
    /\ len \in [Blocks -> Nat] /\ addr \in [Blocks -> Nat] /\ owner \in [Blocks -> Int]
    /\ pinned \subseteq Blocks \cup {NULL}

\* The trace is well formed: handles are opened in order, in time and once,
\* and not used after they are freed.
TraceOK ==
    /\ \E n \in 0..TraceHandles : Opened = 0..(n - 1)
    /\ \A i \in DOMAIN file :
        /\ file[i].h < TraceHandles
        /\ file[i].op = "N" =>
              /\ file[i].size \in Sizes
              /\ \A j \in 1..(i - 1) : file[j].op = "N" => file[j].h < file[i].h
              /\ file[i].h > 0 => \E j \in 1..(i - 1) : file[j].op = "N" /\ file[j].h = 0
        /\ file[i].op \in {"F", "L", "U", "S"} =>
              /\ \E j \in 1..(i - 1) : file[j].op = "N" /\ file[j].h = file[i].h
              /\ \A j \in 1..(i - 1) : ~(file[j].op = "F" /\ file[j].h = file[i].h)

\* highest_handle_no is the highest handle of the trace.
HighestOK ==
    /\ \A i \in DOMAIN file : file[i].h <= highest_handle_no
    /\ \/ highest_handle_no = 0 /\ \A i \in DOMAIN file : file[i].op = "#"
       \/ \E i \in DOMAIN file : file[i].op = "N" /\ file[i].h = highest_handle_no

\* Which part of the program runs in which mode, and what the buffer holds.
ControlOK ==
    /\ pc \in {"kill", "maxmem", "oom_maxmem", "maxmem_again"} => mode = "allocstats"
    /\ pc = "final" => mode = "peakmem"
    /\ pc = "spin" => mode = "memplot"
    /\ (mode = "peakmem" \/ ~closed) => pos = Len(file) /\ handle_offset = 0
    /\ pc \in {"retry", "maxmem_again"} => g_has_compacted
    /\ pc = "kill" => pos = 0
    /\ pos > 0 => line = file[pos]
    /\ Leftover => mode = "memplot"
    /\ InOp => /\ line.op # "#" /\ line.h < TraceHandles /\ line.h <= highest_handle_no
               /\ line.op = "N" => line.size \in Sizes
               /\ handle = line.h + handle_offset
    /\ pc \in {"oom", "retry", "exit"} => line.op = "N"

\* Why handle numbers stay bounded: rewinds and operations are.
BoundsOK ==
    /\ mode = "memplot" => handle_offset <= rewinds * TraceHandles
    /\ mode = "allocstats" =>
        /\ handle_offset <= current_op * TraceHandles
        /\ (AnyNew \/ pc = "kill") => handle_offset + TraceHandles <= current_op * TraceHandles
        /\ (pc \in {"read", "kill"} \/ InOp) => current_op <= OpLimit

\* Live blocks lie apart and in the heap.
HeapOK ==
    /\ \A b \in Live : BlockWords(addr[b], len[b]) \subseteq Words
    /\ \A b, c \in Live : b # c => BlockWords(addr[b], len[b]) \cap BlockWords(addr[c], len[c]) = {}

\* A handle number above the ones of this pass has not been used yet.
FreshOK ==
    \A h \in Handles :
        h > handle_offset + highest_handle_no \/ (Leftover /\ h > handle_offset) =>
            g_handle_to_block[h] = NULL

\* A handle that lines of this pass may still free has its own live block or none.
\* The one handle number two passes share may have a stale entry, until its N
\* line, which is the first N line of the pass.
ReuseOK ==
    \A h \in Handles :
        h >= Base /\ ~Did("F", h - Base) =>
            \/ h \in Sized \/ g_handle_to_block[h] = NULL
            \/ /\ h = Base /\ ~AnyNew /\ ~(Leftover /\ line.op = "N")
               /\ g_handle_to_block[h] \notin Live

\* The block of the last handle that was opened is not handed out again in this
\* pass once it is freed.
LastOK ==
    \A h \in Handles :
        h = handle_offset + highest_handle_no /\ Did("N", highest_handle_no) =>
            h \in Sized \/ g_handle_to_block[h] \notin Live

\* A handle that is open in the trace has a block.
OpenOK ==
    \A h \in Handles :
        /\ h >= handle_offset
        /\ Did("N", h - handle_offset) /\ ~Did("F", h - handle_offset)
        => h \in Sized

UsedOK ==
    mode = "allocstats" /\ pc # "done" =>
        used = Cardinality(Occupied)
               + (IF pc \in {"oom", "retry", "exit"} THEN line.size ELSE 0)

\* peakmem never shares a handle number, so a block is the one of its owner, and
\* the locks are those of the trace.
PeakOK ==
    mode = "peakmem" /\ pc # "done" =>
        /\ \A b \in Live : owner[b] \in Sized /\ g_handle_to_block[owner[b]] = b
        /\ \A h \in Sized : Did("N", h)
        /\ pinned = {b \in Live : LockedBy(owner[b])}

\* Before the first compaction memplot knows the address of every block.
ColorsOK ==
    mode = "memplot" /\ ~g_has_compacted /\ pc # "oom" =>
        /\ {w \in Words : colormap[w] = "red"} = Occupied
        /\ \A h \in Sized : g_handle_to_address[h] = addr[g_handles[h]]

TablesOK == TablesAgree /\ (pc # "done" => FreshOK /\ ReuseOK /\ LastOK /\ OpenOK)

IInv == /\ TypeOK /\ TypesMore /\ TraceOK /\ HighestOK /\ ControlOK /\ BoundsOK
        /\ HeapOK /\ TablesOK /\ UsedOK /\ PeakOK /\ ColorsOK
        /\ LocksReachLive
        /\ mode # "peakmem" => pinned = {}

-----------------------------------------------------------------------------
(* Numbers *)

\* The constants are numbers.
LEMMA Consts ==
    /\ HeapSize \in Nat /\ \A s \in Sizes : s \in 1..HeapSize
    /\ TraceHandles \in Nat /\ TraceHandles > 0 /\ MaxLines \in Nat
    /\ MaxRewinds \in Nat /\ KillPercent \in Nat /\ OpLimit \in Nat
    /\ \A b \in Blocks : b \in Nat /\ b # NULL
    /\ NULL \in Int /\ NULL \notin Nat
BY SizesFit, BlocksNumbered, BoundsNat, SomeHandle DEF NULL

\* Products with TraceHandles grow with their factor.
LEMMA Scaled ==
    /\ \A m \in Nat : m * TraceHandles \in Nat
    /\ \A m \in Nat : (m + 1) * TraceHandles = m * TraceHandles + TraceHandles
    /\ \A m, n \in Nat : m <= n => m * TraceHandles <= n * TraceHandles
BY Consts

\* Handles are the numbers up to a product, and the highest stays in.
LEMMA HandleRange ==
    /\ \A h \in Handles : h \in Nat
    /\ 0 \in Handles
    /\ \A m, n \in Nat : m <= (MaxRewinds + OpLimit) * TraceHandles /\ n < TraceHandles
          => m \in Handles /\ m + n \in Handles
<1>1. (MaxRewinds + OpLimit + 1) * TraceHandles
        = (MaxRewinds + OpLimit) * TraceHandles + TraceHandles
  BY Scaled, Consts
<1>2. (MaxRewinds + OpLimit) * TraceHandles \in Nat
  BY Scaled, Consts
<1> DEFINE big == (MaxRewinds + OpLimit + 1) * TraceHandles
           small == (MaxRewinds + OpLimit) * TraceHandles
<1>3. big = small + TraceHandles /\ small \in Nat /\ Handles = 0..big
  BY <1>1, <1>2 DEF Handles
<1> HIDE DEF big, small
<1>4. \A m, n \in Nat : m <= small /\ n < TraceHandles => m \in Handles /\ m + n \in Handles
  BY <1>3, Consts
<1> QED BY <1>3, <1>4, Consts DEF small

\* In a state of the invariant every handle of this pass is in the tables.
LEMMA OffsetBound ==
    ASSUME IInv, pc \in {"read", "kill"} \/ InOp
    PROVE  /\ handle_offset \in Nat
           /\ handle_offset <= (MaxRewinds + OpLimit) * TraceHandles
<1>1. handle_offset \in Nat
  BY HandleRange DEF IInv, TypeOK
<1>2. rewinds \in Nat /\ rewinds <= MaxRewinds + OpLimit /\ current_op \in Nat
  BY Consts DEF IInv, TypeOK, TypesMore
<1>3. rewinds * TraceHandles <= (MaxRewinds + OpLimit) * TraceHandles
  BY <1>2, Scaled, Consts
<1>4. CASE mode = "memplot"
  <2>1. handle_offset <= rewinds * TraceHandles
    BY <1>4 DEF IInv, BoundsOK
  <2> QED BY <2>1, <1>1, <1>2, <1>3, Scaled, Consts
<1>5. CASE mode = "allocstats"
  <2>1. handle_offset <= current_op * TraceHandles /\ current_op <= OpLimit
    BY <1>5 DEF IInv, BoundsOK
  <2>2. current_op <= MaxRewinds + OpLimit
    BY <2>1, <1>2, Consts
  <2>3. current_op * TraceHandles <= (MaxRewinds + OpLimit) * TraceHandles
    BY <2>2, <1>2, Scaled, Consts
  <2> QED BY <2>1, <2>3, <1>1, <1>2, Scaled, Consts
<1>6. CASE mode = "peakmem"
  <2>1. handle_offset = 0
    BY <1>6 DEF IInv, ControlOK
  <2> QED BY <2>1, Scaled, Consts
<1> QED BY <1>4, <1>5, <1>6, ModesKnown DEF IInv, TypeOK, AllModes

-----------------------------------------------------------------------------
(* The beginning, and facts about the trace *)

\* Opened and Alive, by line number.
LEMMA OpenedLines ==
    /\ \A h : h \in Opened <=> \E i \in DOMAIN file : file[i].op = "N" /\ file[i].h = h
    /\ \A h : h \in Alive <=> /\ h \in Opened
                              /\ ~ \E i \in DOMAIN file : file[i].op = "F" /\ file[i].h = h
BY DEF Opened, Alive, Range

\* A program that starts has empty tables, an empty heap and nothing executed.
LEMMA InitInv == Init => IInv
<1> SUFFICES ASSUME Init PROVE IInv
  OBVIOUS
<1> USE Consts, HandleRange
<1>1. /\ file = <<>> /\ pos = 0 /\ pc = "read" /\ fault = "none" /\ Len(file) = 0 /\ DOMAIN file = {}
      /\ handle_offset = 0 /\ highest_handle_no = 0 /\ handle = 0 /\ current_op = 0 /\ used = 0
      /\ line = Line("#", 0, 0) /\ closed = FALSE /\ pinned = {} /\ rewinds = 0
  BY DEF Init
<1>2. TypeOK
  BY <1>1 DEF Init, TypeOK, Colors
<1>3. TypesMore
  <2>1. line \in LineType
    BY <1>1 DEF Line, LineType, Ops
  <2>2. file \in Seq(LineType)
    BY <1>1
  <2>3. closed \in BOOLEAN /\ g_has_compacted \in BOOLEAN
    BY DEF Init
  <2>4. /\ killed \in Nat /\ len \in [Blocks -> Nat]
        /\ addr \in [Blocks -> Nat] /\ owner \in [Blocks -> Int]
    BY DEF Init
  <2> QED BY <1>1, <2>1, <2>2, <2>3, <2>4 DEF TypesMore
<1>4. Past = {} /\ ~InOp /\ ~Leftover
  BY <1>1 DEF Past, InOp, Leftover
<1>5. TraceOK /\ HighestOK
  <2>1. Opened = 0..(0 - 1)
    BY <1>1, OpenedLines
  <2> QED BY <1>1, <2>1 DEF TraceOK, HighestOK
<1>6. ControlOK
  BY <1>1, <1>4 DEF ControlOK
<1>7. BoundsOK
  BY <1>1, <1>4, Scaled DEF BoundsOK, AnyNew
<1>8. Sized = {} /\ Live = {} /\ Occupied = {}
  <2>1. Sized = {}
    BY DEF Init, Sized
  <2>2. Live = {}
    BY DEF Init, Live
  <2> QED BY <2>1, <2>2 DEF Occupied
<1>9. HeapOK
  BY <1>8 DEF HeapOK
<1>10. \A h \in Handles : g_handle_to_block[h] = NULL
  BY DEF Init
<1>11. TablesOK
  BY <1>4, <1>8, <1>10 DEF TablesOK, TablesAgree, FreshOK, ReuseOK, LastOK, OpenOK, Did
<1>12. UsedOK
  BY <1>1, <1>8, FS_EmptySet DEF UsedOK
<1>13. PeakOK
  BY <1>1, <1>8 DEF PeakOK
<1>14. ColorsOK
  BY <1>8 DEF ColorsOK, Init
<1>15. LocksReachLive
  BY <1>1 DEF LocksReachLive
<1> QED BY <1>1, <1>2, <1>3, <1>5, <1>6, <1>7, <1>9, <1>11, <1>12, <1>13, <1>14, <1>15 DEF IInv

-----------------------------------------------------------------------------
(* What steps leave alone *)

\* The larger of two numbers.
LEMMA MaxPair ==
    ASSUME NEW m \in Int, NEW n \in Int
    PROVE  Max({m, n}) = IF m >= n THEN m ELSE n
<1>1. \E x \in {m, n} : \A y \in {m, n} : x >= y
  OBVIOUS
<1>2. /\ Max({m, n}) \in {m, n}
      /\ \A y \in {m, n} : Max({m, n}) >= y
  BY <1>1 DEF Max
<1> QED BY <1>2

\* A step that executes no line, or only comments, leaves what was done as it is.
LEMMA SamePast ==
    ASSUME Past \subseteq Past', \A i \in Past : file'[i] = file[i],
           \A i \in Past' \ Past : file'[i].op = "#"
    PROVE  /\ \A h : Did("N", h)' <=> Did("N", h)
           /\ \A h : Did("F", h)' <=> Did("F", h)
           /\ \A h : LockedBy(h)' <=> LockedBy(h)
           /\ AnyNew' <=> AnyNew
<1>1. \A i \in Past' : file'[i].op # "#" => i \in Past
  OBVIOUS
<1>2. ASSUME NEW op \in {"N", "F"}, NEW h PROVE Did(op, h)' <=> Did(op, h)
  BY <1>1 DEF Did
<1>3. \A h : LockedBy(h)' <=> LockedBy(h)
  BY <1>1 DEF LockedBy
<1>4. AnyNew' <=> AnyNew
  BY <1>1 DEF AnyNew
<1> QED BY <1>2, <1>3, <1>4

\* Without a change of sizes and addresses the heap is the same.
LEMMA SameHeap ==
    ASSUME UNCHANGED <<len, addr>>
    PROVE  Live' = Live /\ Occupied' = Occupied /\ (HeapOK => HeapOK')
<1>1. Live' = Live
  BY DEF Live
<1>2. Occupied' = Occupied
  BY <1>1 DEF Occupied, BlockWords
<1> QED BY <1>1, <1>2 DEF HeapOK, BlockWords, Words

\* The live blocks take finitely many words of the heap.
LEMMA OccupiedFinite ==
    ASSUME HeapOK
    PROVE  /\ Occupied \subseteq Words /\ IsFiniteSet(Occupied)
           /\ Cardinality(Occupied) \in Nat
<1>1. Occupied \subseteq Words
  BY DEF HeapOK, Occupied
<1>2. IsFiniteSet(Words)
  BY Consts, FS_Interval DEF Words
<1>3. IsFiniteSet(Occupied)
  BY <1>1, <1>2, FS_Subset
<1> QED BY <1>1, <1>3, FS_CardinalityType

\* Without a change of the tables as well, they agree as before.
LEMMA SameTables ==
    ASSUME UNCHANGED <<tableVars, g_handle_to_block, len, addr, owner>>,
           TablesAgree, pc # "done"
    PROVE  Sized' = Sized /\ TablesAgree'
<1>1. Sized' = Sized
  BY DEF Sized, tableVars
<1>2. Live' = Live
  BY SameHeap
<1> QED BY <1>1, <1>2 DEF TablesAgree, tableVars

\* The well-formed trace is not touched after it has been read.
LEMMA SameTrace ==
    ASSUME UNCHANGED file
    PROVE  /\ TraceOK => TraceOK'
           /\ highest_handle_no' = highest_handle_no /\ HighestOK => HighestOK'
<1>1. Opened' = Opened
  BY DEF Opened, Range
<1> QED BY <1>1 DEF TraceOK, HighestOK

\* A step that moves on in the program without executing a line, and leaves
\* heap and tables alone, keeps what the tables and the trace promise.
LEMMA QuietStep ==
    ASSUME IInv, pc # "done",
           UNCHANGED <<file, pos, line, mode, handle, handle_offset, highest_handle_no, rewinds,
                       current_op, tableVars, colormap, g_handle_to_block, len, addr, owner, pinned>>,
           InOp' <=> InOp, pc' = "kill" <=> pc = "kill", pc' # "read"
    PROVE  /\ Live' = Live /\ Occupied' = Occupied /\ Sized' = Sized
           /\ TraceOK' /\ HighestOK' /\ BoundsOK' /\ HeapOK' /\ TablesOK'
           /\ PeakOK' /\ (mode' # "peakmem" => pinned' = {})
<1>1. Past' = Past /\ Base' = Base /\ (Leftover' <=> Leftover)
  BY DEF Past, Base, Leftover
<1>2. /\ \A h : Did("N", h)' <=> Did("N", h)
      /\ \A h : Did("F", h)' <=> Did("F", h)
      /\ \A h : LockedBy(h)' <=> LockedBy(h)
      /\ AnyNew' <=> AnyNew
  BY <1>1, SamePast
<1>3. Live' = Live /\ Occupied' = Occupied /\ HeapOK'
  BY SameHeap DEF IInv
<1>4. Sized' = Sized /\ TablesAgree'
  BY SameTables DEF IInv, TablesOK
<1>5. TraceOK' /\ HighestOK'
  BY SameTrace DEF IInv
<1>6. BoundsOK'
  <2>1. BoundsOK
    BY DEF IInv
  <2> QED BY <2>1, <1>2 DEF BoundsOK, InOp
<1>7. FreshOK' /\ ReuseOK' /\ LastOK' /\ OpenOK'
  <2>1. FreshOK /\ ReuseOK /\ LastOK /\ OpenOK
    BY DEF IInv, TablesOK
  <2>2. FreshOK'
    BY <2>1, <1>1 DEF FreshOK
  <2>3. ReuseOK'
    BY <2>1, <1>1, <1>2, <1>3, <1>4 DEF ReuseOK
  <2>4. LastOK' /\ OpenOK'
    BY <2>1, <1>1, <1>2, <1>3, <1>4 DEF LastOK, OpenOK
  <2> QED BY <2>2, <2>3, <2>4
<1>8. PeakOK'
  BY <1>2, <1>3, <1>4 DEF IInv, PeakOK
<1> QED BY <1>3, <1>4, <1>5, <1>6, <1>7, <1>8 DEF TablesOK, IInv

-----------------------------------------------------------------------------
(* Reading a line *)

\* A line the trace may go on with keeps it well formed.
LEMMA GrowTrace ==
    ASSUME TypesMore, TraceOK, line' \in NextLines, file' = Append(file, line')
    PROVE  /\ line' \in LineType /\ file' \in Seq(LineType) /\ TraceOK'
           /\ line'.op \in {"F", "L", "U", "S"} =>
                 \E i \in DOMAIN file : file[i].op = "N" /\ file[i].h = line'.h
           /\ line'.op = "N" =>
                 \A i \in DOMAIN file : file[i].op = "N" => file[i].h < line'.h
           /\ line'.op = "#" => line'.h = 0
<1> USE Consts
<1>0. PICK n \in 0..TraceHandles : Opened = 0..(n - 1)
  BY DEF TraceOK
<1>1. Cardinality(Opened) = n
  BY <1>0, FS_Interval
<1>2. \/ \E size \in Sizes : n < TraceHandles /\ line' = Line("N", n, size)
      \/ \E op \in {"F", "L", "U", "S"}, h \in Alive : line' = Line(op, h, 0)
      \/ line' = Line("#", 0, 0)
  BY <1>1 DEF NextLines
<1>3. \A h \in Alive : h \in Nat /\ h < n
  BY <1>0, OpenedLines
<1>4. line' \in LineType /\ line'.h < TraceHandles /\ (line'.op = "N" => line'.size \in Sizes)
  <2>1. ASSUME NEW op \in Ops, NEW h \in Nat, NEW size \in Nat
        PROVE  Line(op, h, size) \in LineType
    BY DEF Line, LineType
  <2> QED BY <1>2, <1>3, <2>1 DEF Line, Ops
<1>5. /\ file \in Seq(LineType) /\ Len(file) \in Nat /\ DOMAIN file = 1..Len(file)
      /\ file' \in Seq(LineType) /\ DOMAIN file' = 1..(Len(file) + 1)
      /\ \A i \in 1..Len(file) : file'[i] = file[i]
      /\ file'[Len(file) + 1] = line'
  BY <1>4 DEF TypesMore
<1>6. /\ line'.op \in {"F", "L", "U", "S"} =>
            /\ \E i \in DOMAIN file : file[i].op = "N" /\ file[i].h = line'.h
            /\ \A i \in DOMAIN file : ~(file[i].op = "F" /\ file[i].h = line'.h)
      /\ line'.op = "N" =>
            /\ line'.h = n
            /\ \A i \in DOMAIN file : file[i].op = "N" => file[i].h < line'.h
            /\ line'.h > 0 => \E i \in DOMAIN file : file[i].op = "N" /\ file[i].h = 0
      /\ line'.op = "#" => line'.h = 0
  <2>1. CASE line'.op = "N"
    <3>1. line'.h = n
      BY <1>2, <2>1 DEF Line
    <3>2. \A i \in DOMAIN file : file[i].op = "N" => file[i].h \in 0..(n - 1)
      BY <1>0, OpenedLines
    <3>3. n > 0 => 0 \in Opened
      BY <1>0
    <3> QED BY <2>1, <3>1, <3>2, <3>3, OpenedLines
  <2>2. CASE line'.op \in {"F", "L", "U", "S"}
    <3>1. line'.h \in Alive
      BY <1>2, <2>2 DEF Line
    <3> QED BY <2>2, <3>1, OpenedLines
  <2>3. CASE line'.op = "#"
    BY <1>2, <2>3 DEF Line
  <2> QED BY <2>1, <2>2, <2>3
<1>7. \E m \in 0..TraceHandles : Opened' = 0..(m - 1)
  <2>1. \A h : h \in Opened' <=> \E i \in DOMAIN file' : file'[i].op = "N" /\ file'[i].h = h
    BY DEF Opened, Range
  <2>2. \A h : h \in Opened' <=> h \in Opened \/ (line'.op = "N" /\ h = line'.h)
    BY <2>1, <1>5, OpenedLines
  <2>3. CASE line'.op = "N"
    <3>1. n < TraceHandles
      BY <1>2, <2>3 DEF Line
    <3>2. \A h : h \in Opened' <=> h \in 0..(n - 1) \/ h = n
      <4>1. line'.h = n
        BY <1>6, <2>3
      <4> QED BY <4>1, <2>2, <2>3, <1>0, Zenon
    <3>3. Opened' = 0..((n + 1) - 1)
      <4> DEFINE O == Opened'
      <4>1. \A h : h \in O <=> h \in 0..(n - 1) \/ h = n
        BY <3>2
      <4> HIDE DEF O
      <4>2. n \in Nat
        OBVIOUS
      <4>3. \A h \in 0..((n + 1) - 1) : h \in 0..(n - 1) \/ h = n
        BY <4>2
      <4>4. \A h : h \in 0..(n - 1) \/ h = n => h \in 0..((n + 1) - 1)
        BY <4>2
      <4>5. O = 0..((n + 1) - 1)
        BY <4>1, <4>3, <4>4, Zenon
      <4> QED BY <4>5 DEF O
    <3> QED BY <3>1, <3>3
  <2>4. CASE line'.op # "N"
    BY <2>2, <2>4, <1>0
  <2> QED BY <2>3, <2>4
<1>8. TraceOK'
  <2> DEFINE Fine(f, i) ==
        /\ f[i].h < TraceHandles
        /\ f[i].op = "N" =>
              /\ f[i].size \in Sizes
              /\ \A j \in 1..(i - 1) : f[j].op = "N" => f[j].h < f[i].h
              /\ f[i].h > 0 => \E j \in 1..(i - 1) : f[j].op = "N" /\ f[j].h = 0
        /\ f[i].op \in {"F", "L", "U", "S"} =>
              /\ \E j \in 1..(i - 1) : f[j].op = "N" /\ f[j].h = f[i].h
              /\ \A j \in 1..(i - 1) : ~(f[j].op = "F" /\ f[j].h = f[i].h)
  <2>1. ASSUME NEW i \in DOMAIN file PROVE Fine(file', i)
    <3>1. Fine(file, i)
      BY DEF TraceOK
    <3>2. i \in 1..Len(file) /\ \A j \in 1..(i - 1) : j \in 1..Len(file)
      BY <1>5
    <3>3. file'[i] = file[i] /\ \A j \in 1..(i - 1) : file'[j] = file[j]
      BY <3>2, <1>5
    <3> QED BY <3>1, <3>3
  <2>2. Fine(file', Len(file) + 1)
    <3>1. 1..((Len(file) + 1) - 1) = DOMAIN file
      BY <1>5
    <3>2. \A j \in DOMAIN file : file'[j] = file[j]
      BY <1>5
    <3> QED BY <3>1, <3>2, <1>4, <1>5, <1>6
  <2>3. \A i \in DOMAIN file' : Fine(file', i)
    <3>1. \A i \in DOMAIN file' : i \in DOMAIN file \/ i = Len(file) + 1
      BY <1>5
    <3> QED BY <3>1, <2>1, <2>2
  <2> QED BY <2>3, <1>7 DEF TraceOK
<1> QED BY <1>4, <1>5, <1>6, <1>8

\* fgets returns a line of the trace and the highest handle stays the highest.
LEMMA ReadTrace ==
    ASSUME IInv, ReadLine
    PROVE  /\ line' \in LineType /\ file' \in Seq(LineType) /\ TraceOK' /\ HighestOK'
           /\ \A i \in 1..pos : file'[i] = file[i]
           /\ pos' \in 1..Len(file') /\ line' = file'[pos']
           /\ ~closed' => pos' = Len(file')
           /\ mode = "peakmem" => pos' = Len(file')
           /\ highest_handle_no' \in 0..(TraceHandles - 1)
           /\ highest_handle_no' >= highest_handle_no
           /\ highest_handle_no' > highest_handle_no =>
                 \A i \in DOMAIN file : file[i].h < highest_handle_no'
           /\ line'.h < TraceHandles /\ line'.h <= highest_handle_no'
           /\ line'.op = "N" => line'.size \in Sizes
<1> USE Consts
<1>1. /\ file \in Seq(LineType) /\ pos \in 0..Len(file) /\ Len(file) \in Nat
      /\ DOMAIN file = 1..Len(file) /\ closed \in BOOLEAN
      /\ \A i \in DOMAIN file : file[i] \in LineType /\ file[i].h \in Nat
  <2>1. file \in Seq(LineType) /\ pos \in 0..Len(file)
    BY DEF IInv, TypesMore
  <2>2. closed \in BOOLEAN
    BY DEF IInv, TypesMore
  <2>3. \A i \in DOMAIN file : file[i] \in LineType
    BY <2>1
  <2>4. \A l \in LineType : l.h \in Nat
    BY DEF LineType
  <2> QED BY <2>1, <2>2, <2>3, <2>4
<1>2. pos' = pos + 1 /\ closed' = closed /\ handle_offset' = handle_offset
  BY DEF ReadLine
<1>3. handle_offset \in Nat /\ highest_handle_no \in 0..(TraceHandles - 1)
  BY HandleRange DEF IInv, TypeOK
<1>4. \/ line'.op = "#" /\ highest_handle_no' = highest_handle_no
      \/ /\ line'.op # "#" /\ handle' = line'.h + handle_offset
         /\ highest_handle_no' = IF handle_offset = 0 THEN Max({handle', highest_handle_no})
                                 ELSE highest_handle_no
  BY DEF ReadLine
<1>5. CASE pos < Len(file) /\ line' = file[pos + 1] /\ UNCHANGED file
  <2>1. pos + 1 \in DOMAIN file
    BY <1>1, <1>5
  <2>2. line' \in LineType /\ line'.h \in Nat /\ line'.h <= highest_handle_no /\ line'.h < TraceHandles
    BY <1>1, <1>5, <2>1 DEF IInv, HighestOK, TraceOK
  <2>3. highest_handle_no' = highest_handle_no
    <3>1. CASE handle_offset = 0 /\ line'.op # "#"
      <4>1. handle' = line'.h
        BY <1>4, <3>1, <2>2
      <4>2. Max({handle', highest_handle_no}) = highest_handle_no
        BY <4>1, <2>2, <1>3, MaxPair
      <4> QED BY <4>2, <1>4, <3>1
    <3> QED BY <3>1, <1>4
  <2>4. TraceOK' /\ HighestOK'
    BY <1>5, <2>3, SameTrace DEF IInv
  <2>5. closed' /\ mode # "peakmem"
    <3> DEFINE n == Len(file)
    <3>0. pos \in Int /\ n \in Int /\ pos < n
      BY <1>1, <1>5
    <3> HIDE DEF n
    <3>1. pos # n
      BY <3>0
    <3>2. (mode = "peakmem" \/ ~closed) => pos = n
      BY DEF IInv, ControlOK, n
    <3> QED BY <3>1, <3>2, <1>2, Zenon
  <2>6. line'.op = "N" => line'.size \in Sizes
    BY <1>5, <2>1 DEF IInv, TraceOK
  <2>7. /\ pos' \in 1..Len(file') /\ line' = file'[pos'] /\ file' \in Seq(LineType)
        /\ \A i \in 1..pos : file'[i] = file[i]
    BY <1>1, <1>2, <1>5
  <2>8. /\ highest_handle_no' \in 0..(TraceHandles - 1) /\ highest_handle_no' >= highest_handle_no
        /\ ~(highest_handle_no' > highest_handle_no) /\ line'.h <= highest_handle_no'
    BY <1>3, <2>2, <2>3
  <2> QED BY <2>2, <2>4, <2>5, <2>6, <2>7, <2>8, Zenon
<1>6. CASE pos = Len(file) /\ ~closed /\ line' \in NextLines /\ file' = Append(file, line')
  <2>1. /\ line' \in LineType /\ file' \in Seq(LineType) /\ TraceOK'
        /\ line'.op \in {"F", "L", "U", "S"} =>
              \E i \in DOMAIN file : file[i].op = "N" /\ file[i].h = line'.h
        /\ line'.op = "N" =>
              \A i \in DOMAIN file : file[i].op = "N" => file[i].h < line'.h
        /\ line'.op = "#" => line'.h = 0
    BY <1>6, GrowTrace DEF IInv
  <2>2. /\ Len(file') = Len(file) + 1 /\ DOMAIN file' = 1..(Len(file) + 1)
        /\ \A i \in DOMAIN file : file'[i] = file[i]
        /\ file'[Len(file) + 1] = line'
    BY <1>1, <1>6, <2>1
  <2>3. line'.op \in Ops /\ line'.h \in Nat
    BY <2>1 DEF LineType
  <2>4. handle_offset = 0
    BY <1>6 DEF IInv, ControlOK
  <2>5. line'.h < TraceHandles /\ (line'.op = "N" => line'.size \in Sizes)
    <3>1. Len(file) + 1 \in DOMAIN file'
      BY <2>2, <1>1
    <3> QED BY <2>1, <2>2, <3>1 DEF TraceOK
  <2>6. line'.op # "#" => highest_handle_no' = IF line'.h >= highest_handle_no THEN line'.h
                                               ELSE highest_handle_no
    <3> SUFFICES ASSUME line'.op # "#"
                 PROVE highest_handle_no' = IF line'.h >= highest_handle_no THEN line'.h
                                            ELSE highest_handle_no
      OBVIOUS
    <3>1. handle' = line'.h
      BY <1>4, <2>3, <2>4
    <3> QED BY <3>1, <1>3, <1>4, <2>3, <2>4, MaxPair
  <2>7. \A i \in DOMAIN file : file[i].h <= highest_handle_no
    BY DEF IInv, HighestOK
  <2>8. \/ highest_handle_no = 0 /\ \A i \in DOMAIN file : file[i].op = "#"
        \/ \E i \in DOMAIN file : file[i].op = "N" /\ file[i].h = highest_handle_no
    BY DEF IInv, HighestOK
  <2>9. /\ highest_handle_no' \in 0..(TraceHandles - 1) /\ highest_handle_no' >= highest_handle_no
        /\ line'.h <= highest_handle_no'
    BY <2>1, <2>3, <2>5, <2>6, <1>3, <1>4
  <2>10. highest_handle_no' > highest_handle_no =>
                 \A i \in DOMAIN file : file[i].h < highest_handle_no'
    BY <1>1, <1>3, <2>7, <2>9
  <2>11. HighestOK'
    <3>1. \A i \in DOMAIN file' : file'[i].h <= highest_handle_no'
      <4>1. \A i \in DOMAIN file' : i \in DOMAIN file \/ i = Len(file) + 1
        BY <2>2, <1>1
      <4> QED BY <4>1, <2>2, <2>7, <2>9, <1>1, <1>3
    <3>2. CASE line'.op = "#"
      BY <3>1, <3>2, <2>2, <2>8, <1>1, <1>4 DEF HighestOK
    <3>3. CASE line'.op = "N"
      <4>1. line'.h >= highest_handle_no
        BY <2>1, <2>3, <2>8, <3>3, <1>3
      <4>2. Len(file) + 1 \in DOMAIN file'
        BY <2>2, <1>1
      <4> QED BY <3>1, <3>3, <4>1, <4>2, <2>2, <2>6 DEF HighestOK
    <3>4. CASE line'.op \in {"F", "L", "U", "S"}
      <4>1. PICK i \in DOMAIN file : file[i].op = "N" /\ file[i].h = line'.h
        BY <3>4, <2>1
      <4>2. PICK k \in DOMAIN file : file[k].op = "N" /\ file[k].h = highest_handle_no
        BY <4>1, <2>8
      <4>3. highest_handle_no' = highest_handle_no
        BY <4>1, <2>7, <2>6, <3>4, <2>3, <1>3
      <4>4. k \in DOMAIN file' /\ file'[k] = file[k]
        BY <2>2, <1>1
      <4> QED BY <3>1, <4>2, <4>3, <4>4 DEF HighestOK
    <3> QED BY <3>2, <3>3, <3>4, <2>3 DEF Ops
  <2> QED BY <1>1, <1>2, <1>6, <2>1, <2>2, <2>5, <2>9, <2>10, <2>11
<1> QED BY <1>5, <1>6 DEF ReadLine

\* Reading a line changes nothing but the place in the trace.
LEMMA ReadLineInv == ASSUME IInv, ReadLine PROVE IInv'
<1> USE Consts
<1>1. /\ pc = "read" /\ pos' = pos + 1 /\ pos \in Nat /\ mode' = mode /\ pc' \in {"read", "op"}
      /\ UNCHANGED <<handle_offset, tableVars, g_handle_to_block, len, addr, owner, fault, pinned,
                     colormap, used, current_op, rewinds, killed, g_has_compacted, closed, top>>
      /\ pc' = "read" => line'.op = "#" /\ handle' = handle /\ highest_handle_no' = highest_handle_no
      /\ pc' = "op" => line'.op # "#" /\ handle' = line'.h + handle_offset
  BY DEF ReadLine, heapVars, IInv, TypesMore
<1>2. /\ line' \in LineType /\ file' \in Seq(LineType) /\ TraceOK' /\ HighestOK'
      /\ \A i \in 1..pos : file'[i] = file[i]
      /\ pos' \in 1..Len(file') /\ line' = file'[pos']
      /\ ~closed' => pos' = Len(file')
      /\ mode = "peakmem" => pos' = Len(file')
      /\ highest_handle_no' \in 0..(TraceHandles - 1)
      /\ highest_handle_no' >= highest_handle_no
      /\ highest_handle_no' > highest_handle_no =>
            \A i \in DOMAIN file : file[i].h < highest_handle_no'
      /\ line'.h < TraceHandles /\ line'.h <= highest_handle_no'
      /\ line'.op = "N" => line'.size \in Sizes
  BY ReadTrace
<1>3. handle_offset \in Nat /\ handle_offset <= (MaxRewinds + OpLimit) * TraceHandles
  BY <1>1, OffsetBound
<1>4. line'.h \in Nat
  BY <1>2 DEF LineType
<1>5. handle' \in Handles
  <2>1. handle_offset + line'.h \in Handles
    BY <1>2, <1>3, <1>4, HandleRange
  <2>3. handle_offset + line'.h = line'.h + handle_offset
    BY <1>3, <1>4
  <2>2. handle \in Handles
    BY DEF IInv, TypeOK
  <2> QED BY <1>1, <2>1, <2>2, <2>3
<1>6. TypeOK'
  <2>1. TypeOK
    BY DEF IInv
  <2> QED BY <1>1, <1>2, <1>5, <2>1 DEF TypeOK, tableVars, Handles, Words
<1>7. TypesMore'
  <2>1. TypesMore
    BY DEF IInv
  <2>2. closed' \in BOOLEAN /\ g_has_compacted' \in BOOLEAN
    BY <1>1, <2>1 DEF TypesMore
  <2> QED BY <1>1, <1>2, <2>1, <2>2 DEF TypesMore
<1>8. /\ ~InOp /\ ~Leftover /\ Past = 1..pos /\ Base = handle_offset
      /\ InOp' <=> pc' = "op"
      /\ ~Leftover' /\ Base' = handle_offset
      /\ pc' = "op" => Past' = 1..pos
      /\ pc' = "read" => Past' = 1..(pos + 1)
  BY <1>1, <1>2 DEF InOp, Leftover, Past, Base
<1>9. /\ \A h : Did("N", h)' <=> Did("N", h)
      /\ \A h : Did("F", h)' <=> Did("F", h)
      /\ \A h : LockedBy(h)' <=> LockedBy(h)
      /\ AnyNew' <=> AnyNew
  <2>1. Past \subseteq Past' /\ \A i \in Past : file'[i] = file[i]
    BY <1>1, <1>2, <1>8
  <2>2. \A i \in Past' \ Past : file'[i].op = "#"
    BY <1>1, <1>2, <1>8
  <2> QED BY <2>1, <2>2, SamePast
<1>10. ControlOK'
  <2>1. (mode = "peakmem" \/ ~closed) => handle_offset = 0
    BY DEF IInv, ControlOK
  <2>2. ((mode = "peakmem" \/ ~closed) => pos = Len(file) /\ handle_offset = 0)'
    BY <1>1, <1>2, <2>1, Zenon
  <2> QED BY <1>1, <1>2, <1>8, <2>2 DEF ControlOK
<1>11. BoundsOK'
  <2>1. BoundsOK
    BY DEF IInv
  <2> QED BY <2>1, <1>1, <1>8, <1>9 DEF BoundsOK
<1>12. Live' = Live /\ Occupied' = Occupied /\ HeapOK'
  BY <1>1, SameHeap DEF IInv
<1>13. Sized' = Sized /\ TablesAgree'
  BY <1>1, SameTables DEF IInv, TablesOK
<1>14. FreshOK /\ ReuseOK /\ LastOK /\ OpenOK
  BY <1>1 DEF IInv, TablesOK
<1>15. FreshOK' /\ ReuseOK' /\ OpenOK'
  <2>1. FreshOK'
    <3>1. highest_handle_no \in Nat /\ highest_handle_no' \in Nat
      BY <1>2 DEF IInv, TypeOK
    <3>2. \A h \in Handles : h \in Nat
      BY HandleRange
    <3> QED BY <1>1, <1>2, <1>3, <1>8, <1>14, <3>1, <3>2 DEF FreshOK
  <2>2. ReuseOK'
    BY <1>1, <1>8, <1>9, <1>12, <1>13, <1>14 DEF ReuseOK
  <2>3. OpenOK'
    BY <1>1, <1>9, <1>13, <1>14 DEF OpenOK
  <2> QED BY <2>1, <2>2, <2>3
<1>16. LastOK'
  <2>1. ASSUME highest_handle_no' > highest_handle_no PROVE ~Did("N", highest_handle_no')
    <3>1. \A i \in Past : i \in DOMAIN file /\ file[i].h \in Nat
      <4>1. \A l \in LineType : l.h \in Nat
        BY DEF LineType
      <4> QED BY <4>1, <1>8 DEF IInv, TypesMore
    <3> QED BY <2>1, <3>1, <1>2 DEF Did
  <2>2. highest_handle_no' = highest_handle_no \/ highest_handle_no' > highest_handle_no
    BY <1>2 DEF IInv, TypeOK
  <2> QED BY <2>1, <2>2, <1>1, <1>9, <1>12, <1>13, <1>14 DEF LastOK
<1>17. TablesOK'
  BY <1>13, <1>15, <1>16 DEF TablesOK
<1>18. UsedOK'
  BY <1>1, <1>12 DEF IInv, UsedOK
<1>19. PeakOK'
  BY <1>1, <1>9, <1>12, <1>13 DEF IInv, PeakOK
<1>20. ColorsOK'
  BY <1>1, <1>12, <1>13 DEF IInv, ColorsOK, tableVars
<1>21. LocksReachLive' /\ (mode' # "peakmem" => pinned' = {})
  BY <1>1 DEF IInv, LocksReachLive
<1> QED BY <1>2, <1>6, <1>7, <1>10, <1>11, <1>12, <1>17, <1>18, <1>19, <1>20, <1>21 DEF IInv

-----------------------------------------------------------------------------
(* The end of the trace, and steps that move on without executing a line *)

\* A step that changes the program counter, the fault and the file's end only.
LEMMA SameTypes ==
    ASSUME IInv,
           UNCHANGED <<file, pos, line, mode, handle, countVars, current_op, used, tableVars,
                       colormap, g_handle_to_block, heapVars>>,
           pc' \in {"read", "op", "oom", "retry", "kill", "maxmem", "oom_maxmem", "maxmem_again",
                    "final", "spin", "done", "exit"},
           fault' \in {"none", "null", "freed", "div0"},
           closed' \in BOOLEAN, g_has_compacted' \in BOOLEAN
    PROVE  TypeOK' /\ TypesMore'
<1>1. TypeOK /\ TypesMore
  BY DEF IInv
<1>2. TypeOK'
  BY <1>1 DEF TypeOK, tableVars, countVars, heapVars, Handles, Words
<1>3. TypesMore'
  BY <1>1 DEF TypesMore, countVars, heapVars
<1> QED BY <1>2, <1>3

\* peakmem goes on to its last compaction.
LEMMA EofPeakmemInv == ASSUME IInv, EofPeakmem PROVE IInv'
<1>1. /\ pc = "read" /\ pc' = "final" /\ mode = "peakmem" /\ closed' = TRUE
      /\ UNCHANGED <<file, pos, line, mode, handle, countVars, current_op, used, tableVars,
                     colormap, g_handle_to_block, g_has_compacted, heapVars, fault>>
  BY DEF EofPeakmem, AtEof
<1>2. g_has_compacted' \in BOOLEAN /\ fault' \in {"none", "null", "freed", "div0"}
  BY <1>1 DEF IInv, TypesMore, TypeOK
<1>3. TypeOK' /\ TypesMore'
  BY <1>1, <1>2, SameTypes
<1>4. ~InOp /\ ~InOp' /\ ~Leftover'
  BY <1>1 DEF InOp, Leftover
<1>5. /\ TraceOK' /\ HighestOK' /\ BoundsOK' /\ HeapOK' /\ TablesOK'
      /\ PeakOK' /\ (mode' # "peakmem" => pinned' = {})
  BY <1>1, <1>4, QuietStep DEF countVars, heapVars
<1>6. ControlOK' /\ UsedOK' /\ ColorsOK' /\ LocksReachLive'
  BY <1>1, <1>4 DEF IInv, ControlOK, UsedOK, ColorsOK, LocksReachLive, countVars
<1> QED BY <1>3, <1>5, <1>6 DEF IInv

\* rand() % 0 stops the program.
LEMMA KillDividesInv == ASSUME IInv, KillDivides PROVE IInv'
<1>1. /\ pc = "kill" /\ pc' = "kill" /\ fault' = "div0"
      /\ UNCHANGED <<file, closed, pos, line, mode, handle, countVars, current_op, used, tableVars,
                     colormap, g_handle_to_block, g_has_compacted, heapVars>>
  BY DEF KillDivides, fileVars
<1>2. g_has_compacted' \in BOOLEAN /\ closed' \in BOOLEAN
  BY <1>1 DEF IInv, TypesMore
<1>3. TypeOK' /\ TypesMore'
  BY <1>1, <1>2, SameTypes
<1>4. ~InOp /\ ~InOp' /\ ~Leftover'
  BY <1>1 DEF InOp, Leftover
<1>5. /\ TraceOK' /\ HighestOK' /\ BoundsOK' /\ HeapOK' /\ TablesOK' /\ Occupied' = Occupied
      /\ PeakOK' /\ (mode' # "peakmem" => pinned' = {})
  BY <1>1, <1>4, QuietStep DEF countVars, heapVars
<1>6. ControlOK'
  BY <1>1, <1>4 DEF IInv, ControlOK, countVars
<1>7. UsedOK' /\ ColorsOK' /\ LocksReachLive'
  BY <1>1, <1>5 DEF IInv, ControlOK, UsedOK, ColorsOK, LocksReachLive
<1> QED BY <1>3, <1>5, <1>6, <1>7 DEF IInv

\* calculate_maxmem finds nothing.
LEMMA MaxMemNoneInv == ASSUME IInv, MaxMemNone PROVE IInv'
<1>1. /\ pc \in {"maxmem", "maxmem_again"} /\ pc' \in {"oom_maxmem", "done"}
      /\ UNCHANGED <<file, closed, pos, line, mode, handle, countVars, current_op, used, tableVars,
                     colormap, g_handle_to_block, g_has_compacted, heapVars, fault>>
  BY DEF MaxMemNone, fileVars
<1>2. /\ g_has_compacted' \in BOOLEAN /\ closed' \in BOOLEAN
      /\ fault' \in {"none", "null", "freed", "div0"}
  BY <1>1 DEF IInv, TypesMore, TypeOK
<1>3. TypeOK' /\ TypesMore'
  BY <1>1, <1>2, SameTypes
<1>4. ~InOp /\ ~InOp' /\ ~Leftover'
  BY <1>1 DEF InOp, Leftover
<1>5. /\ TraceOK' /\ HighestOK' /\ BoundsOK' /\ HeapOK' /\ TablesOK' /\ Occupied' = Occupied
      /\ PeakOK' /\ (mode' # "peakmem" => pinned' = {})
  BY <1>1, <1>4, QuietStep DEF countVars, heapVars
<1>6. ControlOK'
  BY <1>1, <1>4 DEF IInv, ControlOK, countVars
<1>7. UsedOK' /\ ColorsOK' /\ LocksReachLive'
  BY <1>1, <1>5 DEF IInv, ControlOK, UsedOK, ColorsOK, LocksReachLive
<1> QED BY <1>3, <1>5, <1>6, <1>7 DEF IInv

\* Once more, user_malloc returns NULL: the program compacts, or gives up.
LEMMA AllocFailsInv ==
    ASSUME IInv, \/ pc = "op" /\ line.op = "N" /\ pc' = "oom"
                    /\ used' = IF mode = "memplot" THEN used ELSE used + line.size
                 \/ pc = "retry" /\ pc' = "exit" /\ used' = used,
           UNCHANGED <<file, closed, pos, line, mode, handle, countVars, current_op, tableVars,
                       colormap, g_handle_to_block, g_has_compacted, heapVars, fault>>
    PROVE  IInv'
<1>2. /\ g_has_compacted' \in BOOLEAN /\ closed' \in BOOLEAN
      /\ fault' \in {"none", "null", "freed", "div0"}
  BY DEF IInv, TypesMore, TypeOK
<1>3. TypeOK' /\ TypesMore'
  <2>1. line.size \in Nat /\ used \in Nat
    BY DEF IInv, TypesMore, TypeOK, LineType
  <2>2. used' \in Nat
    BY <2>1
  <2>3. TypeOK /\ TypesMore
    BY DEF IInv
  <2>4. TypeOK'
    BY <2>2, <2>3 DEF TypeOK, tableVars, countVars, heapVars, Handles, Words
  <2>5. TypesMore'
    BY <1>2, <2>3 DEF TypesMore, countVars, heapVars
  <2> QED BY <2>4, <2>5
<1>4. InOp /\ InOp' /\ (Leftover' <=> Leftover)
  BY DEF InOp, Leftover
<1>5. /\ TraceOK' /\ HighestOK' /\ BoundsOK' /\ HeapOK' /\ TablesOK' /\ Occupied' = Occupied
      /\ PeakOK' /\ (mode' # "peakmem" => pinned' = {})
  BY <1>4, QuietStep DEF countVars, heapVars
<1>6. ControlOK'
  BY <1>4 DEF IInv, ControlOK, countVars
<1>7. UsedOK'
  <2>1. CASE pc = "op"
    <3>1. mode = "allocstats" => used = Cardinality(Occupied) + 0
      BY <2>1 DEF IInv, UsedOK
    <3>2. mode = "allocstats" => used' = used + line.size
      BY <2>1
    <3>3. line.size \in Nat /\ used \in Nat
      BY DEF IInv, TypesMore, TypeOK, LineType
    <3>4. mode' = "allocstats" => Cardinality(Occupied) = used
      BY <3>1, OccupiedFinite DEF IInv
    <3> QED BY <1>5, <2>1, <3>1, <3>2, <3>3, <3>4 DEF UsedOK
  <2>2. CASE pc = "retry"
    BY <1>5, <2>2 DEF IInv, UsedOK
  <2> QED BY <2>1, <2>2
<1>8. ColorsOK' /\ LocksReachLive'
  <2>1. pc = "retry" => g_has_compacted'
    BY DEF IInv, ControlOK
  <2> QED BY <2>1 DEF IInv, ColorsOK, LocksReachLive
<1> QED BY <1>3, <1>5, <1>6, <1>7, <1>8 DEF IInv

\* At the end of the trace its highest handle has been opened, and a last line
\* that opens a handle opens that one, which is not freed.
LEMMA EndOfTrace ==
    ASSUME IInv, AtEof, line.op # "#"
    PROVE  /\ Past = DOMAIN file /\ AnyNew /\ Did("N", highest_handle_no)
           /\ line.h \in Nat /\ line.h < TraceHandles /\ line.h <= highest_handle_no
           /\ line.op = "N" => ~Did("F", highest_handle_no) /\ line.size \in Sizes
<1> DEFINE n == Len(file)
<1>1. /\ file \in Seq(LineType) /\ n \in Nat /\ n > 0 /\ DOMAIN file = 1..n /\ n \in DOMAIN file
      /\ pos = n /\ pc = "read"
      /\ \A i \in DOMAIN file : file[i] \in LineType
  BY DEF IInv, TypesMore, AtEof
<1>2. \A i \in DOMAIN file : file[i].h \in Nat
  BY <1>1 DEF LineType
<1>3. line = file[n]
  BY <1>1 DEF IInv, ControlOK
<1>4. Past = DOMAIN file
  BY <1>1 DEF Past, InOp
<1>5. /\ \A i \in DOMAIN file : file[i].h <= highest_handle_no
      /\ \/ highest_handle_no = 0 /\ \A i \in DOMAIN file : file[i].op = "#"
         \/ \E i \in DOMAIN file : file[i].op = "N" /\ file[i].h = highest_handle_no
  BY DEF IInv, HighestOK
<1>6. PICK k \in DOMAIN file : file[k].op = "N" /\ file[k].h = highest_handle_no
  BY <1>1, <1>3, <1>5
<1>7. AnyNew /\ Did("N", highest_handle_no)
  BY <1>4, <1>6 DEF AnyNew, Did
<1>8. line.h \in Nat /\ line.h < TraceHandles /\ line.h <= highest_handle_no
  BY <1>1, <1>2, <1>3, <1>5 DEF IInv, TraceOK
<1>9. highest_handle_no \in Nat
  BY <1>2, <1>6
<1>10. ASSUME line.op = "N" PROVE ~Did("F", highest_handle_no) /\ line.size \in Sizes
  <2>1. \A j \in 1..(n - 1) : file[j].op = "N" => file[j].h < file[n].h
    BY <1>1, <1>3, <1>10 DEF IInv, TraceOK
  <2>2. k = n
    BY <2>1, <1>1, <1>2, <1>5, <1>6, <1>9
  <2>3. ASSUME NEW i \in DOMAIN file, file[i].op = "F", file[i].h = highest_handle_no PROVE FALSE
    <3>1. PICK j \in 1..(i - 1) : file[j].op = "N" /\ file[j].h = file[i].h
      BY <2>3 DEF IInv, TraceOK
    <3>2. j \in 1..(n - 1)
      BY <3>1, <1>1
    <3> QED BY <3>1, <3>2, <2>1, <2>2, <2>3, <1>6, <1>9
  <2>4. line.size \in Sizes
    BY <1>1, <1>3, <1>10 DEF IInv, TraceOK
  <2> QED BY <2>3, <2>4, <1>4 DEF Did
<1> QED BY <1>4, <1>7, <1>8, <1>10

\* After the last line, the tables are fit for the next pass: only the highest
\* handle of this one is shared, and its entry is its own or of a free block.
LEMMA NextPass ==
    ASSUME IInv, AtEof, line.op # "#", NEW h \in Handles, h >= handle_offset + highest_handle_no
    PROVE  /\ h # handle_offset + highest_handle_no => g_handle_to_block[h] = NULL
           /\ h = handle_offset + highest_handle_no =>
                 /\ h \in Sized \/ g_handle_to_block[h] \notin Live
                 /\ line.op = "N" => h \in Sized
<1>1. pc = "read" /\ handle_offset \in Nat /\ highest_handle_no \in Nat /\ h \in Nat
  BY HandleRange, Consts DEF AtEof, IInv, TypeOK
<1>2. FreshOK /\ LastOK /\ OpenOK
  BY <1>1 DEF IInv, TablesOK
<1>3. h # handle_offset + highest_handle_no => g_handle_to_block[h] = NULL
  BY <1>1, <1>2 DEF FreshOK
<1>4. ASSUME h = handle_offset + highest_handle_no
      PROVE  /\ h \in Sized \/ g_handle_to_block[h] \notin Live
             /\ line.op = "N" => h \in Sized
  <2>1. h >= handle_offset /\ h - handle_offset = highest_handle_no
    BY <1>1, <1>4
  <2>2. h \in Sized \/ g_handle_to_block[h] \notin Live
    BY <1>2, <1>4, EndOfTrace DEF LastOK
  <2>3. line.op = "N" => h \in Sized
    BY <1>2, <2>1, EndOfTrace DEF OpenOK
  <2> QED BY <2>2, <2>3
<1> QED BY <1>3, <1>4

\* allocstats ends, or goes on to kill handles.
LEMMA EofAllocstatsInv == ASSUME IInv, EofAllocstats PROVE IInv'
<1> USE Consts
<1>1. /\ pc = "read" /\ mode = "allocstats" /\ closed' = TRUE /\ AtEof
      /\ UNCHANGED <<file, line, mode, handle, countVars, current_op, used, tableVars,
                     colormap, g_handle_to_block, g_has_compacted, heapVars, fault>>
      /\ \/ (line.op = "#" \/ ~Rewinding) /\ pc' = "done" /\ pos' = pos
         \/ line.op # "#" /\ Rewinding /\ pc' = "kill" /\ pos' = 0
  BY DEF EofAllocstats, AtEof
<1>2. TypeOK' /\ TypesMore'
  <2>1. TypeOK /\ TypesMore
    BY DEF IInv
  <2>2. TypeOK'
    BY <1>1, <2>1 DEF TypeOK, tableVars, countVars, heapVars, Handles, Words
  <2>3. closed' \in BOOLEAN /\ g_has_compacted' \in BOOLEAN
    BY <1>1, <2>1 DEF TypesMore
  <2>4. TypesMore'
    BY <1>1, <2>1, <2>3 DEF TypesMore, countVars, heapVars
  <2> QED BY <2>2, <2>4
<1>3. TraceOK' /\ HighestOK'
  BY <1>1, SameTrace DEF IInv, countVars
<1>4. Live' = Live /\ Occupied' = Occupied /\ HeapOK'
  BY <1>1, SameHeap DEF IInv, heapVars
<1>5. Sized' = Sized /\ TablesAgree'
  BY <1>1, SameTables DEF IInv, TablesOK, heapVars
<1>6. ~InOp' /\ ~Leftover'
  BY <1>1 DEF InOp, Leftover
<1>7. ControlOK'
  BY <1>1, <1>6 DEF IInv, ControlOK
<1>8. UsedOK' /\ PeakOK' /\ ColorsOK' /\ LocksReachLive' /\ (mode' # "peakmem" => pinned' = {})
  BY <1>1, <1>4 DEF IInv, UsedOK, PeakOK, ColorsOK, LocksReachLive, heapVars
<1>9. CASE line.op = "#" \/ ~Rewinding
  <2>1. pc' = "done" /\ Past' = Past
    BY <1>1, <1>6, <1>9 DEF Past, InOp
  <2>2. AnyNew' <=> AnyNew
    BY <1>1, <2>1 DEF AnyNew
  <2>3. BoundsOK'
    BY <1>1, <1>6, <2>1, <2>2 DEF IInv, BoundsOK, countVars
  <2>4. TablesOK'
    BY <2>1, <1>5 DEF TablesOK
  <2> QED BY <1>2, <1>3, <1>4, <1>7, <1>8, <2>3, <2>4 DEF IInv
<1>10. CASE line.op # "#" /\ Rewinding
  <2>1. pc' = "kill" /\ pos' = 0 /\ Past' = {}
    BY <1>1, <1>6, <1>10 DEF Past
  <2>2. (\A op, h : ~Did(op, h)') /\ ~AnyNew'
    BY <2>1 DEF Did, AnyNew
  <2>3. BoundsOK'
    <3>1. handle_offset + TraceHandles <= current_op * TraceHandles
      BY <1>1, <1>10, EndOfTrace DEF IInv, BoundsOK
    <3> QED BY <1>1, <1>6, <3>1 DEF IInv, BoundsOK, countVars
  <2>4. Base' = handle_offset + highest_handle_no
    BY <1>1, <2>1 DEF Base, countVars
  <2>5. FreshOK' /\ LastOK' /\ OpenOK'
    <3>1. FreshOK
      BY <1>1 DEF IInv, TablesOK
    <3>2. FreshOK'
      BY <1>1, <1>6, <3>1 DEF FreshOK, countVars
    <3> QED BY <3>2, <2>2 DEF LastOK, OpenOK
  <2>6. ReuseOK'
    <3>1. ASSUME NEW h \in Handles, h >= Base'
          PROVE  \/ h \in Sized' \/ g_handle_to_block'[h] = NULL
                 \/ h = Base' /\ g_handle_to_block'[h] \notin Live'
      BY <1>1, <1>4, <1>5, <1>10, <2>4, <3>1, NextPass
    <3> QED BY <1>6, <2>2, <3>1 DEF ReuseOK
  <2>7. TablesOK'
    BY <1>5, <2>5, <2>6 DEF TablesOK
  <2> QED BY <1>2, <1>3, <1>4, <1>7, <1>8, <2>3, <2>7 DEF IInv
<1> QED BY <1>9, <1>10

\* memplot rewinds and executes the line left in the buffer, or is caught in its loop.
LEMMA EofMemplotInv == ASSUME IInv, EofMemplot PROVE IInv'
<1> USE Consts
<1>1. /\ pc = "read" /\ mode = "memplot" /\ closed' = TRUE /\ AtEof
      /\ UNCHANGED <<file, line, mode, highest_handle_no, killed, current_op, used, tableVars,
                     colormap, g_handle_to_block, g_has_compacted, heapVars, fault>>
      /\ \/ /\ line.op = "#" /\ pc' = "spin"
            /\ UNCHANGED <<pos, handle, handle_offset, rewinds>>
         \/ /\ line.op # "#" /\ pc' = "op" /\ pos' = 0
            /\ rewinds < MaxRewinds /\ rewinds' = rewinds + 1
            /\ handle_offset' = handle_offset + highest_handle_no
            /\ handle' = line.h + handle_offset'
  BY DEF EofMemplot, AtEof
<1>2. g_has_compacted' \in BOOLEAN /\ fault' \in {"none", "null", "freed", "div0"} /\ closed' \in BOOLEAN
  BY <1>1 DEF IInv, TypesMore, TypeOK
<1>3. CASE line.op = "#"
  <2>1. /\ pc' = "spin" /\ ~InOp /\ ~InOp' /\ ~Leftover'
        /\ UNCHANGED <<pos, handle, handle_offset, rewinds>>
    BY <1>1, <1>3 DEF InOp, Leftover
  <2>2. TypeOK' /\ TypesMore'
    BY <1>1, <1>2, <2>1, SameTypes DEF countVars
  <2>3. /\ TraceOK' /\ HighestOK' /\ BoundsOK' /\ HeapOK' /\ TablesOK' /\ Occupied' = Occupied
        /\ Sized' = Sized /\ PeakOK' /\ (mode' # "peakmem" => pinned' = {})
    BY <1>1, <2>1, QuietStep DEF countVars, heapVars
  <2>4. ControlOK'
    BY <1>1, <2>1 DEF IInv, ControlOK
  <2>5. UsedOK' /\ ColorsOK' /\ LocksReachLive'
    BY <1>1, <2>1, <2>3 DEF IInv, UsedOK, ColorsOK, LocksReachLive, tableVars, heapVars
  <2> QED BY <2>2, <2>3, <2>4, <2>5 DEF IInv
<1>4. CASE line.op # "#"
  <2>1. /\ pc' = "op" /\ pos' = 0 /\ rewinds < MaxRewinds /\ rewinds' = rewinds + 1
        /\ handle_offset' = handle_offset + highest_handle_no
        /\ handle' = line.h + handle_offset'
    BY <1>1, <1>4
  <2>2. /\ rewinds \in Nat /\ handle_offset \in Nat /\ highest_handle_no \in 0..(TraceHandles - 1)
        /\ handle_offset <= rewinds * TraceHandles
    BY <1>1, HandleRange DEF IInv, TypeOK, TypesMore, BoundsOK
  <2>3. line.h \in Nat /\ line.h < TraceHandles /\ line.h <= highest_handle_no
    BY <1>1, <1>4, EndOfTrace
  <2>4. /\ handle_offset' \in Nat /\ handle_offset' <= rewinds' * TraceHandles
        /\ rewinds' \in 0..MaxRewinds
    BY <2>1, <2>2, Scaled
  <2>5. handle_offset' \in Handles /\ handle' \in Handles
    <3>1. rewinds' \in Nat /\ MaxRewinds + OpLimit \in Nat /\ rewinds' <= MaxRewinds + OpLimit
      BY <2>4
    <3>4. rewinds' * TraceHandles <= (MaxRewinds + OpLimit) * TraceHandles
      BY <3>1, Scaled
    <3>5. rewinds' * TraceHandles \in Nat /\ (MaxRewinds + OpLimit) * TraceHandles \in Nat
      BY <3>1, Scaled
    <3>2. handle_offset' <= (MaxRewinds + OpLimit) * TraceHandles
      <4> DEFINE p == rewinds' * TraceHandles
                 q == (MaxRewinds + OpLimit) * TraceHandles
      <4>1. p \in Nat /\ q \in Nat /\ p <= q /\ handle_offset' <= p /\ handle_offset' \in Nat
        BY <3>4, <3>5, <2>4
      <4> HIDE DEF p, q
      <4>2. handle_offset' <= q
        BY <4>1
      <4> QED BY <4>2 DEF q
    <3>3. handle_offset' \in Handles /\ handle_offset' + line.h \in Handles
      BY <3>2, <2>3, <2>4, HandleRange
    <3> QED BY <3>3, <2>1, <2>3, <2>4
  <2>6. TypeOK' /\ TypesMore'
    <3>1. TypeOK /\ TypesMore
      BY DEF IInv
    <3>2. TypeOK'
      BY <1>1, <2>1, <2>5, <3>1 DEF TypeOK, tableVars, heapVars, Words
    <3>3. pos' \in 0..Len(file')
      BY <1>1, <2>1, <3>1 DEF TypesMore
    <3>4. TypesMore'
      BY <1>1, <1>2, <2>1, <2>4, <3>1, <3>3 DEF TypesMore, heapVars
    <3> QED BY <3>2, <3>4
  <2>7. TraceOK' /\ HighestOK'
    BY <1>1, SameTrace DEF IInv
  <2>8. Live' = Live /\ Occupied' = Occupied /\ HeapOK'
    BY <1>1, SameHeap DEF IInv, heapVars
  <2>9. Sized' = Sized /\ TablesAgree'
    BY <1>1, SameTables DEF IInv, TablesOK, heapVars
  <2>10. InOp' /\ Leftover' /\ Past' = {} /\ Base' = handle_offset'
    BY <2>1 DEF InOp, Leftover, Past, Base
  <2>11. (\A op, h : ~Did(op, h)') /\ ~AnyNew'
    BY <2>10 DEF Did, AnyNew
  <2>12. ControlOK'
    BY <1>1, <1>4, <2>1, <2>3, <2>10, EndOfTrace DEF IInv, ControlOK
  <2>13. BoundsOK'
    BY <1>1, <2>4 DEF BoundsOK
  <2>14. FreshOK' /\ LastOK' /\ OpenOK'
    <3>1. ASSUME NEW h \in Handles,
                 h > handle_offset' + highest_handle_no \/ h > handle_offset'
          PROVE  g_handle_to_block'[h] = NULL
      <4>1. h \in Nat /\ h > handle_offset + highest_handle_no
        BY <3>1, <2>1, <2>2, HandleRange
      <4> QED BY <4>1, <2>2, <1>1, <1>4, NextPass
    <3>2. FreshOK'
      BY <3>1, <1>1 DEF FreshOK
    <3> QED BY <3>2, <2>11 DEF LastOK, OpenOK
  <2>15. ReuseOK'
    <3>1. ASSUME NEW h \in Handles, h >= Base'
          PROVE  \/ h \in Sized' \/ g_handle_to_block'[h] = NULL
                 \/ h = Base' /\ line'.op # "N" /\ g_handle_to_block'[h] \notin Live'
      BY <1>1, <1>4, <2>1, <2>8, <2>9, <2>10, <3>1, NextPass
    <3> QED BY <2>11, <3>1 DEF ReuseOK
  <2>16. TablesOK'
    BY <2>9, <2>14, <2>15 DEF TablesOK
  <2>17. UsedOK' /\ PeakOK' /\ ColorsOK' /\ LocksReachLive' /\ (mode' # "peakmem" => pinned' = {})
    BY <1>1, <2>8, <2>9 DEF IInv, UsedOK, PeakOK, ColorsOK, LocksReachLive, tableVars, heapVars
  <2> QED BY <2>6, <2>7, <2>8, <2>12, <2>13, <2>16, <2>17 DEF IInv
<1> QED BY <1>3, <1>4

\* The handles of the next pass are counted from the highest of this one.
LEMMA KillEndsInv == ASSUME IInv, KillEnds PROVE IInv'
<1> USE Consts
<1>1. /\ pc = "kill" /\ pc' = "read" /\ killed' = 0
      /\ handle_offset' = handle_offset + highest_handle_no
      /\ UNCHANGED <<file, closed, pos, line, mode, handle, highest_handle_no, rewinds, current_op,
                     used, tableVars, colormap, g_handle_to_block, g_has_compacted, heapVars, fault>>
  BY DEF KillEnds, fileVars
<1>2. mode = "allocstats" /\ pos = 0
  BY <1>1 DEF IInv, ControlOK
<1>3. /\ handle_offset \in Nat /\ highest_handle_no \in 0..(TraceHandles - 1) /\ current_op \in Nat
      /\ handle_offset + TraceHandles <= current_op * TraceHandles /\ current_op <= OpLimit
  BY <1>1, <1>2, HandleRange DEF IInv, TypeOK, BoundsOK
<1>4. handle_offset' \in Nat /\ handle_offset' <= current_op * TraceHandles
  BY <1>1, <1>3, Scaled
<1>5. handle_offset' \in Handles
  <2> DEFINE p == current_op * TraceHandles
             q == (MaxRewinds + OpLimit) * TraceHandles
  <2>1. current_op \in Nat /\ MaxRewinds + OpLimit \in Nat /\ current_op <= MaxRewinds + OpLimit
    BY <1>3
  <2>2. p \in Nat /\ q \in Nat /\ p <= q /\ handle_offset' <= p
    BY <1>4, <2>1, Scaled
  <2> HIDE DEF p, q
  <2>3. handle_offset' <= q
    BY <1>4, <2>2
  <2>4. handle_offset' <= (MaxRewinds + OpLimit) * TraceHandles
    BY <2>3 DEF q
  <2> QED BY <1>4, <2>4, HandleRange
<1>6. TypeOK' /\ TypesMore'
  <2>1. TypeOK /\ TypesMore
    BY DEF IInv
  <2>2. TypeOK'
    BY <1>1, <1>5, <2>1 DEF TypeOK, tableVars, heapVars, Words
  <2>3. closed' \in BOOLEAN /\ g_has_compacted' \in BOOLEAN
    BY <1>1, <2>1 DEF TypesMore
  <2>4. TypesMore'
    BY <1>1, <2>1, <2>3 DEF TypesMore, heapVars
  <2> QED BY <2>2, <2>4
<1>7. TraceOK' /\ HighestOK'
  BY <1>1, SameTrace DEF IInv
<1>8. Live' = Live /\ Occupied' = Occupied /\ HeapOK'
  BY <1>1, SameHeap DEF IInv, heapVars
<1>9. Sized' = Sized /\ TablesAgree'
  BY <1>1, SameTables DEF IInv, TablesOK, heapVars
<1>10. /\ ~InOp /\ ~InOp' /\ ~Leftover /\ ~Leftover' /\ Past = {} /\ Past' = {}
       /\ Base = handle_offset' /\ Base' = handle_offset'
  BY <1>1, <1>2 DEF InOp, Leftover, Past, Base
<1>11. (\A op, h : ~Did(op, h)) /\ ~AnyNew /\ (\A op, h : ~Did(op, h)') /\ ~AnyNew'
  BY <1>10 DEF Did, AnyNew
<1>12. ControlOK'
  <2>1. ~(mode' = "peakmem" \/ ~closed') \/ handle_offset' = 0
    <3>1. (mode = "peakmem" \/ ~closed) => handle_offset = 0 /\ pos = Len(file)
      BY DEF IInv, ControlOK
    <3>2. CASE closed
      BY <1>1, <1>2, <3>2
    <3>3. CASE ~closed
      <4>1. Len(file) = 0
        BY <3>1, <3>3, <1>2
      <4>2. highest_handle_no = 0
        BY <4>1 DEF IInv, HighestOK, TypesMore
      <4> QED BY <3>1, <3>3, <4>2, <1>1
    <3> QED BY <3>2, <3>3
  <2>2. (mode = "peakmem" \/ ~closed) => pos = Len(file)
    BY DEF IInv, ControlOK
  <2>3. ((mode = "peakmem" \/ ~closed) => pos = Len(file) /\ handle_offset = 0)'
    BY <1>1, <2>1, <2>2
  <2> QED BY <1>1, <1>2, <1>10, <2>3 DEF IInv, ControlOK
<1>13. BoundsOK'
  BY <1>1, <1>2, <1>3, <1>4, <1>11 DEF BoundsOK
<1>14. FreshOK' /\ ReuseOK' /\ LastOK' /\ OpenOK'
  <2>1. FreshOK /\ ReuseOK
    BY <1>1 DEF IInv, TablesOK
  <2>2. FreshOK'
    BY <1>1, <1>3, <1>10, <2>1, HandleRange DEF FreshOK
  <2>3. ReuseOK'
    BY <1>1, <1>8, <1>9, <1>10, <1>11, <2>1 DEF ReuseOK
  <2> QED BY <2>2, <2>3, <1>11 DEF LastOK, OpenOK
<1>15. TablesOK'
  BY <1>9, <1>14 DEF TablesOK
<1>16. UsedOK' /\ PeakOK' /\ ColorsOK' /\ LocksReachLive' /\ (mode' # "peakmem" => pinned' = {})
  BY <1>1, <1>2, <1>8 DEF IInv, UsedOK, PeakOK, ColorsOK, LocksReachLive, heapVars
<1> QED BY <1>6, <1>7, <1>8, <1>12, <1>13, <1>15, <1>16 DEF IInv

\* user_handle_oom returns: the top is the end of the last live block.
LEMMA CompactEndsInv == ASSUME IInv, CompactEnds PROVE IInv'
<1> USE Consts
<1>1. /\ \/ pc = "oom" /\ pc' = "retry"
         \/ pc = "oom_maxmem" /\ pc' = "maxmem_again"
         \/ pc = "final" /\ pc' = "done"
      /\ top' = IF Occupied = {} THEN 0 ELSE Max(Occupied) + 1
      /\ g_has_compacted' = TRUE
      /\ UNCHANGED <<file, closed, pos, line, mode, handle, countVars, current_op, used, tableVars,
                     colormap, g_handle_to_block, len, addr, pinned, owner, fault>>
  BY DEF CompactEnds, fileVars
<1>2. top' \in 0..HeapSize
  <2>1. CASE Occupied = {}
    BY <1>1, <2>1
  <2>2. CASE Occupied # {}
    <3>1. Occupied \in SUBSET (0..(HeapSize - 1)) /\ HeapSize - 1 \in Int
      BY OccupiedFinite DEF IInv, Words
    <3>2. \E x \in Occupied : \A y \in Occupied : x >= y
      BY <2>2, <3>1, Greatest
    <3>3. Max(Occupied) \in Occupied
      BY <3>2 DEF Max
    <3>4. Max(Occupied) \in 0..(HeapSize - 1)
      BY <3>1, <3>3
    <3> QED BY <1>1, <2>2, <3>4
  <2> QED BY <2>1, <2>2
<1>3. TypeOK' /\ TypesMore'
  <2>1. TypeOK /\ TypesMore
    BY DEF IInv
  <2>2. TypeOK'
    BY <1>1, <1>2, <2>1 DEF TypeOK, tableVars, countVars, Handles, Words
  <2>3. closed' \in BOOLEAN /\ g_has_compacted' \in BOOLEAN
    BY <1>1, <2>1 DEF TypesMore
  <2>4. TypesMore'
    BY <1>1, <2>1, <2>3 DEF TypesMore, countVars
  <2> QED BY <2>2, <2>4
<1>4. (InOp' <=> InOp) /\ (Leftover' <=> Leftover)
  BY <1>1 DEF InOp, Leftover
<1>5. /\ TraceOK' /\ HighestOK' /\ BoundsOK' /\ HeapOK' /\ TablesOK' /\ Occupied' = Occupied
      /\ PeakOK' /\ (mode' # "peakmem" => pinned' = {})
  BY <1>1, <1>4, QuietStep DEF countVars
<1>6. ControlOK'
  BY <1>1, <1>4 DEF IInv, ControlOK, countVars
<1>7. UsedOK' /\ ColorsOK' /\ LocksReachLive'
  BY <1>1, <1>5 DEF IInv, UsedOK, ColorsOK, LocksReachLive
<1> QED BY <1>3, <1>5, <1>6, <1>7 DEF IInv

-----------------------------------------------------------------------------
(* Locks *)

\* A line of the trace that is executed for a handle finds that handle's block,
\* unless memplot executes it a second time.
LEMMA HandleFound ==
    ASSUME IInv, pc = "op", line.op \in {"F", "L", "U", "S"}, ~Leftover
    PROVE  /\ pos > 0 /\ pos \in DOMAIN file /\ line = file[pos] /\ Past = 1..(pos - 1)
           /\ handle \in Sized
           /\ g_handles[handle] = g_handle_to_block[handle] /\ g_handles[handle] \in Live
           /\ owner[g_handles[handle]] = handle
           /\ len[g_handles[handle]] = g_sizes[handle]
<1>1. pos \in Nat /\ pos > 0 /\ pos \in DOMAIN file /\ InOp
  BY DEF IInv, TypesMore, Leftover, InOp
<1>2. line = file[pos] /\ handle = line.h + handle_offset
  BY <1>1 DEF IInv, ControlOK
<1>3. Past = 1..(pos - 1)
  BY <1>1 DEF Past
<1>4. Did("N", line.h) /\ ~Did("F", line.h)
  BY <1>1, <1>2, <1>3 DEF IInv, TraceOK, Did
<1>5. handle \in Handles /\ handle_offset \in Nat /\ line.h \in Nat
  BY HandleRange DEF IInv, TypeOK, TypesMore, LineType
<1>6. handle >= handle_offset /\ handle - handle_offset = line.h
  BY <1>2, <1>5
<1>7. handle \in Sized
  BY <1>4, <1>5, <1>6 DEF IInv, TablesOK, OpenOK
<1> QED BY <1>1, <1>2, <1>3, <1>7 DEF IInv, TablesOK, TablesAgree

\* A lock or unlock is done to the block of the handle in the trace.
LEMMA OpLockInv == ASSUME IInv, OpLock PROVE IInv'
<1> USE Consts
<1> DEFINE b == g_handles[handle]
           nothing == mode = "peakmem" /\ line.op = "S"
           locks == mode = "peakmem" /\ line.op = "L"
<1>1. /\ pc = "op" /\ pc' = "read" /\ line.op \in {"L", "U", "S"}
      /\ fault' = IF nothing THEN fault ELSE BadBlock(b)
      /\ pinned' = IF nothing THEN pinned ELSE IF locks THEN pinned \cup {b} ELSE pinned \ {b}
      /\ UNCHANGED <<file, closed, pos, line, mode, handle, countVars, current_op, used, tableVars,
                     colormap, g_handle_to_block, g_has_compacted, len, addr, top, owner>>
  BY DEF OpLock, fileVars
<1>2. handle \in Handles /\ b \in Blocks \cup {NULL}
  BY DEF IInv, TypeOK
<1>3. fault' \in {"none", "null", "freed", "div0"} /\ (b \in Live /\ fault = "none" => fault' = "none")
  BY <1>1, <1>2 DEF BadBlock, IInv, TypeOK, Live
<1>4. TypeOK' /\ TypesMore'
  <2>1. TypeOK /\ TypesMore
    BY DEF IInv
  <2>2. TypeOK'
    BY <1>1, <1>3, <2>1 DEF TypeOK, tableVars, countVars, Handles, Words
  <2>3. closed' \in BOOLEAN /\ g_has_compacted' \in BOOLEAN
    BY <1>1, <2>1 DEF TypesMore
  <2>4. pinned' \subseteq Blocks \cup {NULL}
    BY <1>1, <1>2, <2>1 DEF TypesMore
  <2>5. TypesMore'
    BY <1>1, <2>1, <2>3, <2>4 DEF TypesMore, countVars
  <2> QED BY <2>2, <2>5
<1>5. TraceOK' /\ HighestOK'
  BY <1>1, SameTrace DEF IInv, countVars
<1>6. Live' = Live /\ Occupied' = Occupied /\ HeapOK'
  BY <1>1, SameHeap DEF IInv
<1>7. Sized' = Sized /\ TablesAgree'
  BY <1>1, SameTables DEF IInv, TablesOK
<1>8. /\ InOp /\ ~InOp' /\ ~Leftover' /\ Past' = 1..pos /\ pos \in Nat
      /\ Base = handle_offset /\ Base' = handle_offset
      /\ pos = 0 => Past = 1..pos
      /\ pos > 0 => Past = 1..(pos - 1) /\ line = file[pos] /\ ~Leftover
  BY <1>1 DEF InOp, Leftover, Past, Base, IInv, TypesMore, ControlOK, countVars
<1>9. /\ \A h : Did("N", h)' <=> Did("N", h)
      /\ \A h : Did("F", h)' <=> Did("F", h)
      /\ AnyNew' <=> AnyNew
  <2>1. \A i \in Past' : file'[i].op \in {"N", "F"} => i \in Past
    BY <1>1, <1>8
  <2>2. Past \subseteq Past'
    BY <1>8
  <2>3. ASSUME NEW op \in {"N", "F"}, NEW h PROVE Did(op, h)' <=> Did(op, h)
    BY <1>1, <2>1, <2>2 DEF Did
  <2>4. AnyNew' <=> AnyNew
    BY <1>1, <2>1, <2>2 DEF AnyNew
  <2> QED BY <2>3, <2>4
<1>10. ControlOK'
  BY <1>1, <1>8 DEF IInv, ControlOK, countVars
<1>11. BoundsOK'
  BY <1>1, <1>8, <1>9 DEF IInv, BoundsOK, countVars
<1>12. FreshOK /\ ReuseOK /\ LastOK /\ OpenOK
  BY <1>1 DEF IInv, TablesOK
<1>13. TablesOK'
  <2>1. FreshOK'
    BY <1>1, <1>8, <1>12 DEF FreshOK, countVars
  <2>2. ReuseOK'
    BY <1>1, <1>6, <1>7, <1>8, <1>9, <1>12 DEF ReuseOK
  <2>3. LastOK' /\ OpenOK'
    BY <1>1, <1>6, <1>7, <1>9, <1>12 DEF LastOK, OpenOK, countVars
  <2> QED BY <1>7, <2>1, <2>2, <2>3 DEF TablesOK
<1>14. UsedOK' /\ ColorsOK'
  BY <1>1, <1>6, <1>7 DEF IInv, UsedOK, ColorsOK, tableVars
<1>15. mode # "memplot" => ~Leftover
  BY DEF IInv, ControlOK
<1>16. LocksReachLive'
  <2> SUFFICES ASSUME mode # "memplot" PROVE fault' \notin {"null", "freed"}
    BY <1>1 DEF LocksReachLive
  <2>1. b \in Live
    BY <1>1, <1>15, HandleFound
  <2>2. fault \notin {"null", "freed"}
    BY DEF IInv, LocksReachLive
  <2>3. b # NULL
    BY <2>1 DEF Live
  <2> QED BY <1>1, <2>1, <2>2, <2>3 DEF BadBlock
<1>17. mode' # "peakmem" => pinned' = {}
  BY <1>1 DEF IInv
<1>18. PeakOK'
  <2> SUFFICES ASSUME mode = "peakmem" PROVE PeakOK'
    BY <1>1 DEF PeakOK
  <2>1. /\ \A c \in Live : owner[c] \in Sized /\ g_handle_to_block[owner[c]] = c
        /\ \A h \in Sized : Did("N", h)
        /\ pinned = {c \in Live : LockedBy(owner[c])}
    BY <1>1 DEF IInv, PeakOK
  <2>2. /\ pos > 0 /\ line = file[pos] /\ Past = 1..(pos - 1) /\ b \in Live /\ owner[b] = handle
        /\ g_handle_to_block[handle] = b
    BY <1>1, <1>15, HandleFound
  <2>3. handle = line.h /\ line.h \in Nat
    <3>1. handle_offset = 0 /\ handle = line.h + handle_offset /\ line.h \in Nat
      BY <1>8 DEF IInv, ControlOK, TypesMore, LineType
    <3> QED BY <3>1
  <2>4. \A c \in Live : owner[c] = line.h <=> c = b
    BY <2>1, <2>2, <2>3
  <2>5. Past' = Past \cup {pos} /\ pos \notin Past /\ \A i \in Past : i < pos
    BY <1>8, <2>2
  <2>6. ASSUME NEW h, h # line.h PROVE LockedBy(h)' <=> LockedBy(h)
    BY <1>1, <2>2, <2>5, <2>6 DEF LockedBy
  <2>7. CASE line.op = "S"
    <3>1. \A h : LockedBy(h)' <=> LockedBy(h)
      BY <1>1, <2>2, <2>5, <2>7 DEF LockedBy
    <3> QED BY <1>1, <1>6, <1>7, <1>9, <2>1, <2>7, <3>1 DEF PeakOK
  <2>8. CASE line.op = "L"
    <3>1. LockedBy(line.h)'
      <4>1. pos \in Past' /\ \A j \in Past' : ~(j > pos)
        BY <2>5, <1>8
      <4> QED BY <1>1, <2>2, <2>8, <4>1 DEF LockedBy
    <3>2. pinned' = {c \in Live : LockedBy(owner[c])'}
      BY <1>1, <2>1, <2>2, <2>4, <2>6, <2>8, <3>1
    <3> QED BY <1>1, <1>6, <1>7, <1>9, <2>1, <3>2 DEF PeakOK
  <2>9. CASE line.op = "U"
    <3>1. ~LockedBy(line.h)'
      <4>1. \A i \in Past' : file[i].op = "L" => i \in Past /\ pos > i
        BY <2>2, <2>5, <2>9, <1>8
      <4> QED BY <1>1, <2>2, <2>5, <2>9, <4>1 DEF LockedBy
    <3>2. pinned' = {c \in Live : LockedBy(owner[c])'}
      BY <1>1, <2>1, <2>2, <2>4, <2>6, <2>9, <3>1
    <3> QED BY <1>1, <1>6, <1>7, <1>9, <2>1, <3>2 DEF PeakOK
  <2> QED BY <1>1, <2>7, <2>8, <2>9
<1> QED BY <1>4, <1>5, <1>6, <1>10, <1>11, <1>13, <1>14, <1>16, <1>17, <1>18 DEF IInv

-----------------------------------------------------------------------------
(* The heap when a block is allocated, freed or moved *)

\* Words of a block count its length.
LEMMA WordCount ==
    ASSUME NEW a \in Int, NEW size \in Nat
    PROVE  IsFiniteSet(BlockWords(a, size)) /\ Cardinality(BlockWords(a, size)) = size
<1>1. a + size - 1 \in Int
  OBVIOUS
<1> QED BY <1>1, FS_Interval DEF BlockWords

\* Disjoint finite sets add up.
LEMMA DisjointUnion ==
    ASSUME NEW S, NEW T, IsFiniteSet(S), IsFiniteSet(T), S \cap T = {}
    PROVE  Cardinality(S \cup T) = Cardinality(S) + Cardinality(T)
<1>1. Cardinality(S) \in Nat /\ Cardinality(T) \in Nat /\ Cardinality(S \cap T) = 0
  BY FS_CardinalityType, FS_EmptySet
<1>2. Cardinality(S \cup T) = Cardinality(S) + Cardinality(T) - Cardinality(S \cap T)
  BY FS_Union
<1> QED BY <1>1, <1>2

\* A new block is put where there was none.
LEMMA AllocHeap ==
    ASSUME HeapOK, TypesMore, NEW b \in Blocks \ Live, NEW size \in Nat, size > 0, NEW a \in Nat,
           BlockWords(a, size) \subseteq Words \ Occupied,
           len' = [len EXCEPT ![b] = size], addr' = [addr EXCEPT ![b] = a]
    PROVE  /\ Live' = Live \cup {b} /\ HeapOK'
           /\ Occupied' = Occupied \cup BlockWords(a, size)
           /\ Cardinality(Occupied') = Cardinality(Occupied) + size
           /\ len' \in [Blocks -> Nat] /\ addr' \in [Blocks -> Nat]
           /\ len'[b] = size /\ addr'[b] = a
           /\ \A c \in Blocks \ {b} : len'[c] = len[c] /\ addr'[c] = addr[c]
<1>1. /\ len' \in [Blocks -> Nat] /\ addr' \in [Blocks -> Nat]
      /\ len'[b] = size /\ addr'[b] = a
      /\ \A c \in Blocks \ {b} : len'[c] = len[c] /\ addr'[c] = addr[c]
  BY DEF TypesMore
<1>2. Live' = Live \cup {b}
  BY <1>1 DEF Live
<1>3. \A c \in Live : BlockWords(addr'[c], len'[c]) = BlockWords(addr[c], len[c])
  BY <1>1 DEF Live
<1>4. BlockWords(addr'[b], len'[b]) = BlockWords(a, size)
  BY <1>1
<1>5. \A w : w \in Occupied <=> \E c \in Live : w \in BlockWords(addr[c], len[c])
  BY DEF Occupied
<1>6. \A w : w \in Occupied' <=> \E c \in Live' : w \in BlockWords(addr'[c], len'[c])
  BY DEF Occupied, BlockWords
<1>7. Occupied' = Occupied \cup BlockWords(a, size)
  BY <1>2, <1>3, <1>4, <1>5, <1>6
<1>8. HeapOK'
  <2>1. \A c \in Live' : BlockWords(addr'[c], len'[c]) \subseteq Words
    BY <1>2, <1>3, <1>4 DEF HeapOK
  <2>2. \A c \in Live : BlockWords(addr[c], len[c]) \cap BlockWords(a, size) = {}
    BY <1>5
  <2>3. \A c, d \in Live' : c # d =>
            BlockWords(addr'[c], len'[c]) \cap BlockWords(addr'[d], len'[d]) = {}
    BY <1>2, <1>3, <1>4, <2>2 DEF HeapOK
  <2> QED BY <2>1, <2>3 DEF HeapOK, BlockWords, Words
<1>9. Cardinality(Occupied') = Cardinality(Occupied) + size
  <2>1. Occupied \cap BlockWords(a, size) = {}
    OBVIOUS
  <2> QED BY <2>1, <1>7, OccupiedFinite, WordCount, DisjointUnion
<1> QED BY <1>1, <1>2, <1>7, <1>8, <1>9

\* The words of a freed block are no longer occupied.
LEMMA FreeHeap ==
    ASSUME HeapOK, TypesMore, NEW b \in Live,
           len' = [len EXCEPT ![b] = 0], addr' = addr
    PROVE  /\ Live' = Live \ {b} /\ HeapOK'
           /\ Occupied' = Occupied \ BlockWords(addr[b], len[b])
           /\ Cardinality(Occupied') = Cardinality(Occupied) - len[b]
           /\ len' \in [Blocks -> Nat]
           /\ \A c \in Blocks \ {b} : len'[c] = len[c]
<1> DEFINE W == BlockWords(addr[b], len[b])
<1>1. /\ len' \in [Blocks -> Nat] /\ len'[b] = 0
      /\ \A c \in Blocks \ {b} : len'[c] = len[c]
      /\ b \in Blocks /\ len[b] \in Nat /\ addr[b] \in Nat
  BY DEF TypesMore, Live
<1>2. Live' = Live \ {b}
  BY <1>1 DEF Live
<1>3. \A c \in Live' : BlockWords(addr'[c], len'[c]) = BlockWords(addr[c], len[c])
  BY <1>1, <1>2 DEF Live
<1>5. \A w : w \in Occupied <=> \E c \in Live : w \in BlockWords(addr[c], len[c])
  BY DEF Occupied
<1>6. \A w : w \in Occupied' <=> \E c \in Live' : w \in BlockWords(addr'[c], len'[c])
  BY DEF Occupied, BlockWords
<1>7. Occupied' = Occupied \ W
  <2>1. \A c \in Live' : BlockWords(addr[c], len[c]) \cap W = {}
    BY <1>2 DEF HeapOK
  <2> HIDE DEF W
  <2>2. \A w \in Occupied : w \in W \/ \E c \in Live' : w \in BlockWords(addr[c], len[c])
    BY <1>2, <1>5 DEF W
  <2>3. \A w \in Occupied' : w \in Occupied /\ w \notin W
    BY <1>2, <1>3, <1>5, <1>6, <2>1
  <2>4. \A w \in Occupied : w \notin W => w \in Occupied'
    BY <1>3, <1>6, <2>2
  <2> QED BY <2>3, <2>4
<1>8. HeapOK'
  <2>1. \A c \in Live' : BlockWords(addr'[c], len'[c]) \subseteq Words
    BY <1>2, <1>3 DEF HeapOK
  <2>3. \A c, d \in Live' : c # d =>
            BlockWords(addr'[c], len'[c]) \cap BlockWords(addr'[d], len'[d]) = {}
    BY <1>2, <1>3 DEF HeapOK
  <2> QED BY <2>1, <2>3 DEF HeapOK, BlockWords, Words
<1>9. Cardinality(Occupied') = Cardinality(Occupied) - len[b]
  <2>1. IsFiniteSet(Occupied) /\ IsFiniteSet(Occupied')
    BY <1>8, <1>7, OccupiedFinite, FS_Difference
  <2>2. Occupied = Occupied' \cup W /\ Occupied' \cap W = {}
    <3>1. W \subseteq Occupied
      BY <1>5
    <3> HIDE DEF W
    <3> QED BY <3>1, <1>7
  <2>3. Cardinality(Occupied) = Cardinality(Occupied') + Cardinality(W)
    <3>1. IsFiniteSet(W)
      BY <1>1, WordCount
    <3> HIDE DEF W
    <3>2. Cardinality(Occupied' \cup W) = Cardinality(Occupied') + Cardinality(W)
      BY <2>1, <2>2, <3>1, DisjointUnion
    <3> QED BY <2>2, <3>2
  <2>4. Cardinality(Occupied') \in Nat /\ Cardinality(W) = len[b]
    BY <2>1, <1>1, FS_CardinalityType, WordCount
  <2> QED BY <2>3, <2>4, <1>1
<1> QED BY <1>1, <1>2, <1>7, <1>8, <1>9

\* A block is moved to where there is none, and the number of words stays.
LEMMA MoveHeap ==
    ASSUME HeapOK, TypesMore, NEW b \in Live, NEW a \in Nat,
           addr' = [addr EXCEPT ![b] = a], len' = len,
           BlockWords(a, len[b]) \subseteq Words,
           \A c \in Live \ {b} : BlockWords(a, len[b]) \cap BlockWords(addr[c], len[c]) = {}
    PROVE  /\ Live' = Live /\ HeapOK' /\ addr' \in [Blocks -> Nat]
           /\ Cardinality(Occupied') = Cardinality(Occupied)
<1> DEFINE W == BlockWords(addr[b], len[b])
           V == BlockWords(a, len[b])
           Others == Occupied \ W
<1>1. /\ addr' \in [Blocks -> Nat] /\ addr'[b] = a
      /\ \A c \in Blocks \ {b} : addr'[c] = addr[c]
      /\ b \in Blocks /\ len[b] \in Nat /\ addr[b] \in Nat
  BY DEF TypesMore, Live
<1>2. Live' = Live /\ Live \subseteq Blocks
  BY DEF Live
<1>3. /\ \A c \in Live \ {b} : BlockWords(addr'[c], len'[c]) = BlockWords(addr[c], len[c])
      /\ BlockWords(addr'[b], len'[b]) = V
  BY <1>1, <1>2
<1>5. \A w : w \in Occupied <=> \E c \in Live : w \in BlockWords(addr[c], len[c])
  BY DEF Occupied
<1>6. \A w : w \in Occupied' <=> \E c \in Live' : w \in BlockWords(addr'[c], len'[c])
  BY DEF Occupied, BlockWords
<1>7. /\ \A c \in Live \ {b} : BlockWords(addr[c], len[c]) \cap W = {}
      /\ \A c \in Live \ {b} : BlockWords(addr[c], len[c]) \cap V = {}
  BY DEF HeapOK
<1>8. HeapOK'
  <2>1. \A c \in Live' : BlockWords(addr'[c], len'[c]) \subseteq Words
    BY <1>2, <1>3 DEF HeapOK
  <2>3. \A c, d \in Live' : c # d =>
            BlockWords(addr'[c], len'[c]) \cap BlockWords(addr'[d], len'[d]) = {}
    <3> SUFFICES ASSUME NEW c \in Live, NEW d \in Live, c # d
                 PROVE  BlockWords(addr'[c], len'[c]) \cap BlockWords(addr'[d], len'[d]) = {}
      BY <1>2
    <3>1. CASE c = b
      BY <1>3, <1>7, <3>1
    <3>2. CASE d = b
      BY <1>3, <1>7, <3>2
    <3>3. CASE c # b /\ d # b
      BY <1>3, <3>3 DEF HeapOK
    <3> QED BY <3>1, <3>2, <3>3
  <2> QED BY <2>1, <2>3 DEF HeapOK, BlockWords, Words
<1>9. \A w : w \in Others <=> \E c \in Live \ {b} : w \in BlockWords(addr[c], len[c])
  <2> HIDE DEF W
  <2>1. \A w : w \in Occupied <=> w \in W \/ \E c \in Live \ {b} : w \in BlockWords(addr[c], len[c])
    BY <1>5 DEF W
  <2> QED BY <2>1, <1>7
<1>10. Occupied = Others \cup W /\ Others \cap W = {}
  <2>1. W \subseteq Occupied
    BY <1>5
  <2> HIDE DEF W
  <2> QED BY <2>1
<1>11. Occupied' = Others \cup V /\ Others \cap V = {}
  <2> HIDE DEF W, V, Others
  <2>1. \A w : w \in Occupied' <=> w \in V \/ \E c \in Live \ {b} : w \in BlockWords(addr[c], len[c])
    BY <1>2, <1>3, <1>6
  <2> QED BY <2>1, <1>7, <1>9
<1>12. Cardinality(Occupied') = Cardinality(Occupied)
  <2>1. IsFiniteSet(W) /\ Cardinality(W) = len[b] /\ IsFiniteSet(V) /\ Cardinality(V) = len[b]
    BY <1>1, WordCount
  <2>2. IsFiniteSet(Others)
    BY OccupiedFinite, FS_Difference
  <2> HIDE DEF W, V, Others
  <2>3. Cardinality(Others \cup W) = Cardinality(Others) + len[b]
    BY <1>10, <2>1, <2>2, DisjointUnion
  <2>4. Cardinality(Others \cup V) = Cardinality(Others) + len[b]
    BY <1>11, <2>1, <2>2, DisjointUnion
  <2> QED BY <2>3, <2>4, <1>10, <1>11
<1> QED BY <1>1, <1>2, <1>8, <1>12

\* Compaction moves a block that is not locked; the tables do not know addresses.
LEMMA MoveBlockInv == ASSUME IInv, MoveBlock PROVE IInv'
<1> USE Consts
<1>0. PICK b \in Live \ pinned : \E a \in 0..(addr[b] - 1) :
          addr' = [addr EXCEPT ![b] = a] /\ UNCHANGED <<len, pinned, top, owner>> /\ Heap!Move(b)
  BY DEF MoveBlock
<1>1. PICK a \in 0..(addr[b] - 1) :
          addr' = [addr EXCEPT ![b] = a] /\ UNCHANGED <<len, pinned, top, owner>> /\ Heap!Move(b)
  BY <1>0
<1>2. /\ pc \in {"oom", "oom_maxmem", "final"}
      /\ UNCHANGED <<file, closed, pos, line, mode, pc, handle, countVars, current_op, used,
                     tableVars, colormap, g_handle_to_block, g_has_compacted, fault>>
  BY DEF MoveBlock, fileVars
<1>3. a \in Nat /\ addr[b] \in Nat /\ b \in Blocks /\ len[b] \in Nat
  BY DEF IInv, TypesMore, Live
<1>4. /\ BlockWords(a, len[b]) \subseteq Words
      /\ \A c \in Live \ {b} : BlockWords(a, len[b]) \cap BlockWords(addr[c], len[c]) = {}
  <2>1. /\ addr'[b]..(addr'[b] + len'[b] - 1) \subseteq Words
        /\ \A c \in Live \ {b} :
              (addr'[b]..(addr'[b] + len'[b] - 1)) \cap (addr[c]..(addr[c] + len[c] - 1)) = {}
    BY <1>1 DEF Heap!Move, Heap!Placed, Heap!Range, Heap!Live, Live
  <2>2. addr'[b] = a /\ len'[b] = len[b]
    BY <1>1, <1>3 DEF IInv, TypesMore
  <2> QED BY <2>1, <2>2 DEF BlockWords
<1>5. /\ Live' = Live /\ HeapOK' /\ addr' \in [Blocks -> Nat]
      /\ Cardinality(Occupied') = Cardinality(Occupied)
  BY <1>1, <1>3, <1>4, MoveHeap DEF IInv
<1>6. TypeOK' /\ TypesMore'
  <2>1. TypeOK /\ TypesMore
    BY DEF IInv
  <2>2. TypeOK'
    BY <1>1, <1>2, <2>1 DEF TypeOK, tableVars, countVars, Handles, Words
  <2>3. closed' \in BOOLEAN /\ g_has_compacted' \in BOOLEAN
    BY <1>2, <2>1 DEF TypesMore
  <2>4. TypesMore'
    BY <1>1, <1>2, <1>5, <2>1, <2>3 DEF TypesMore, countVars
  <2> QED BY <2>2, <2>4
<1>7. TraceOK' /\ HighestOK'
  BY <1>2, SameTrace DEF IInv, countVars
<1>8. /\ Past' = Past /\ Base' = Base /\ (Leftover' <=> Leftover) /\ (InOp' <=> InOp)
  BY <1>2 DEF Past, Base, Leftover, InOp, countVars
<1>9. /\ \A h : Did("N", h)' <=> Did("N", h)
      /\ \A h : Did("F", h)' <=> Did("F", h)
      /\ \A h : LockedBy(h)' <=> LockedBy(h)
      /\ AnyNew' <=> AnyNew
  BY <1>2, <1>8, SamePast
<1>10. ControlOK' /\ BoundsOK'
  BY <1>2, <1>8, <1>9 DEF IInv, ControlOK, BoundsOK, countVars
<1>11. Sized' = Sized
  BY <1>2 DEF Sized, tableVars
<1>12. TablesOK'
  <2>1. TablesAgree'
    BY <1>1, <1>2, <1>5, <1>11 DEF IInv, TablesOK, TablesAgree, tableVars
  <2>2. FreshOK /\ ReuseOK /\ LastOK /\ OpenOK
    BY <1>2 DEF IInv, TablesOK
  <2>3. FreshOK' /\ LastOK' /\ OpenOK'
    BY <1>2, <1>5, <1>8, <1>9, <1>11, <2>2 DEF FreshOK, LastOK, OpenOK, countVars
  <2>4. ReuseOK'
    BY <1>2, <1>5, <1>8, <1>9, <1>11, <2>2 DEF ReuseOK
  <2> QED BY <2>1, <2>3, <2>4 DEF TablesOK
<1>13. UsedOK'
  BY <1>2, <1>5 DEF IInv, UsedOK
<1>14. PeakOK'
  BY <1>1, <1>2, <1>5, <1>9, <1>11 DEF IInv, PeakOK
<1>15. ColorsOK' /\ LocksReachLive' /\ (mode' # "peakmem" => pinned' = {})
  BY <1>1, <1>2 DEF IInv, ColorsOK, LocksReachLive, ControlOK
<1> QED BY <1>5, <1>6, <1>7, <1>10, <1>12, <1>13, <1>14, <1>15 DEF IInv

-----------------------------------------------------------------------------
(* Allocation *)

\* What user_malloc does to the allocator.
LEMMA MallocHeap ==
    ASSUME IInv, NEW size \in Nat, size > 0, NEW h \in Int, NEW b \in FreeBlocks, NEW a \in Places(size),
           user_malloc(size, h, b, a)
    PROVE  /\ b \in Blocks /\ b \notin Live /\ a \in Words /\ top' \in 0..HeapSize
           /\ Live' = Live \cup {b} /\ HeapOK'
           /\ Occupied' = Occupied \cup BlockWords(a, size)
           /\ Cardinality(Occupied') = Cardinality(Occupied) + size
           /\ len' \in [Blocks -> Nat] /\ addr' \in [Blocks -> Nat] /\ owner' \in [Blocks -> Int]
           /\ len'[b] = size /\ addr'[b] = a /\ owner'[b] = h
           /\ \A c \in Live : len'[c] = len[c] /\ addr'[c] = addr[c] /\ owner'[c] = owner[c]
<1> USE Consts
<1>1. b \in Blocks /\ b \notin Live
  BY DEF FreeBlocks
<1>2. top \in 0..HeapSize
  BY DEF IInv, TypeOK
<1>3. a \in Nat /\ a <= top /\ BlockWords(a, size) \subseteq Words \ Occupied
  BY <1>2 DEF Places
<1>4. a \in Words /\ a + size <= HeapSize
  <2>1. a \in BlockWords(a, size) /\ a + size - 1 \in BlockWords(a, size)
    BY <1>3 DEF BlockWords
  <2>2. a \in Words /\ a + size - 1 \in Words
    BY <2>1, <1>3
  <2> QED BY <2>2, <1>3 DEF Words
<1>5. top' \in 0..HeapSize
  <2>1. top' = Max({top, a + size})
    BY DEF user_malloc
  <2> QED BY <2>1, <1>2, <1>3, <1>4, MaxPair
<1>6. /\ len' = [len EXCEPT ![b] = size] /\ addr' = [addr EXCEPT ![b] = a]
      /\ owner' = [owner EXCEPT ![b] = h]
  BY DEF user_malloc
<1>7. /\ Live' = Live \cup {b} /\ HeapOK'
      /\ Occupied' = Occupied \cup BlockWords(a, size)
      /\ Cardinality(Occupied') = Cardinality(Occupied) + size
      /\ len' \in [Blocks -> Nat] /\ addr' \in [Blocks -> Nat]
      /\ len'[b] = size /\ addr'[b] = a
      /\ \A c \in Blocks \ {b} : len'[c] = len[c] /\ addr'[c] = addr[c]
  BY <1>1, <1>3, <1>6, AllocHeap DEF IInv
<1>8. owner' \in [Blocks -> Int] /\ owner'[b] = h /\ \A c \in Blocks \ {b} : owner'[c] = owner[c]
  BY <1>1, <1>6 DEF IInv, TypesMore
<1>9. \A c \in Live : c \in Blocks \ {b}
  BY <1>1 DEF Live
<1> QED BY <1>1, <1>4, <1>5, <1>7, <1>8, <1>9

\* An N line is the first of its handle in a pass and comes after the N lines of
\* all lower handles.
LEMMA NewLine ==
    ASSUME IInv, InOp, line.op = "N", pos > 0
    PROVE  /\ pos \in DOMAIN file /\ line = file[pos] /\ Past = 1..(pos - 1)
           /\ \A i \in Past : i \in DOMAIN file /\ file[i].h \in Nat
           /\ \A i \in Past : file[i].op = "N" => file[i].h < line.h
           /\ \A i \in Past : file[i].op \in {"F", "L", "U", "S"} => file[i].h < line.h
           /\ line.h > 0 => AnyNew
           /\ ~AnyNew => handle = handle_offset
<1>1. pos \in DOMAIN file /\ Past = 1..(pos - 1) /\ line = file[pos]
  BY DEF IInv, TypesMore, ControlOK, Past
<1>2. \A i \in Past : i \in DOMAIN file /\ file[i].h \in Nat
  <2>1. \A l \in LineType : l.h \in Nat
    BY DEF LineType
  <2>2. \A i \in Past : i \in DOMAIN file
    BY <1>1 DEF IInv, TypesMore
  <2> QED BY <2>1, <2>2 DEF IInv, TypesMore
<1>3. \A i \in Past : file[i].op = "N" => file[i].h < line.h
  BY <1>1 DEF IInv, TraceOK
<1>4. ASSUME NEW i \in Past, file[i].op \in {"F", "L", "U", "S"} PROVE file[i].h < line.h
  <2>1. PICK j \in 1..(i - 1) : file[j].op = "N" /\ file[j].h = file[i].h
    BY <1>2, <1>4 DEF IInv, TraceOK
  <2>2. j \in Past
    BY <1>1, <2>1 DEF IInv, TypesMore
  <2> QED BY <2>1, <2>2, <1>3
<1>5. line.h > 0 => AnyNew
  BY <1>1 DEF IInv, TraceOK, AnyNew
<1>6. ~AnyNew => handle = handle_offset
  <2>1. handle = line.h + handle_offset /\ line.h \in Nat /\ handle_offset \in Nat
    BY HandleRange DEF IInv, ControlOK, TypesMore, LineType, TypeOK
  <2> QED BY <2>1, <1>5
<1> QED BY <1>1, <1>2, <1>3, <1>4, <1>5, <1>6

\* A block is allocated for the handle of the line, at the first or at the second
\* attempt.
LEMMA AllocInv ==
    ASSUME IInv, \/ pc = "op" /\ line.op = "N"
                    /\ used' = IF mode = "memplot" THEN used ELSE used + line.size
                 \/ pc = "retry" /\ used' = used,
           NEW b \in FreeBlocks, NEW a \in Places(line.size),
           user_malloc(line.size, handle, b, a), Commit(b, a, pc = "retry"),
           UNCHANGED <<fileVars, mode, handle, countVars, g_has_compacted, fault>>
    PROVE  IInv'
<1> USE Consts
<1> DEFINE size == line.size
<1>1. /\ InOp /\ line.op = "N" /\ size \in Sizes /\ size \in Nat /\ size > 0
      /\ line.h \in Nat /\ line.h < TraceHandles /\ line.h <= highest_handle_no
      /\ handle = line.h + handle_offset
  BY DEF InOp, IInv, ControlOK, TypesMore, LineType
<1>2. /\ handle \in Handles /\ handle \in Nat /\ handle_offset \in Nat /\ pos \in Nat
      /\ highest_handle_no \in Nat
  BY HandleRange DEF IInv, TypeOK, TypesMore
<1>3. /\ b \in Blocks /\ b \notin Live /\ a \in Words /\ top' \in 0..HeapSize
      /\ Live' = Live \cup {b} /\ HeapOK'
      /\ Occupied' = Occupied \cup BlockWords(a, size)
      /\ Cardinality(Occupied') = Cardinality(Occupied) + size
      /\ len' \in [Blocks -> Nat] /\ addr' \in [Blocks -> Nat] /\ owner' \in [Blocks -> Int]
      /\ len'[b] = size /\ addr'[b] = a /\ owner'[b] = handle
      /\ \A c \in Live : len'[c] = len[c] /\ addr'[c] = addr[c] /\ owner'[c] = owner[c]
  BY <1>1, <1>2, MallocHeap
<1>4. /\ g_handles' = [g_handles EXCEPT ![handle] = b]
      /\ g_sizes' = [g_sizes EXCEPT ![handle] = size]
      /\ g_handle_to_block' = [g_handle_to_block EXCEPT ![handle] = b]
      /\ g_handle_to_address' = [g_handle_to_address EXCEPT ![handle] =
                                    IF pc = "retry" /\ mode = "allocstats" THEN NULL ELSE a]
      /\ colormap' = IF mode # "memplot" THEN colormap
                     ELSE IF pc = "retry" THEN Recalculated
                     ELSE register_op(colormap, "red", a, size)
      /\ pc' = AfterOp /\ current_op' = current_op + 1 /\ pinned' = pinned
  BY <1>2 DEF Commit, user_malloc
<1>5. /\ g_handles'[handle] = b /\ g_sizes'[handle] = size /\ g_handle_to_block'[handle] = b
      /\ \A h \in Handles \ {handle} :
            /\ g_handles'[h] = g_handles[h] /\ g_sizes'[h] = g_sizes[h]
            /\ g_handle_to_block'[h] = g_handle_to_block[h]
            /\ g_handle_to_address'[h] = g_handle_to_address[h]
  BY <1>2, <1>4 DEF IInv, TypeOK
<1>6. /\ pc' \in {"read", "maxmem"} /\ pc' # "done" /\ pc # "done" /\ pc # "kill"
      /\ pc' = "maxmem" => mode = "allocstats"
      /\ pc' = "read" /\ mode = "allocstats" => current_op' <= OpLimit
  <2>1. current_op \in Nat
    BY DEF IInv, TypeOK
  <2> QED BY <1>4, <2>1 DEF AfterOp
<1>7. TypeOK'
  <2>1. TypeOK
    BY DEF IInv
  <2>2. colormap' \in [Words -> Colors]
    <3>1. Recalculated \in [Words -> Colors]
      BY DEF Recalculated, Colors
    <3>2. register_op(colormap, "red", a, size) \in [Words -> Colors]
      BY <2>1 DEF register_op, Colors, TypeOK
    <3> QED BY <1>4, <2>1, <3>1, <3>2 DEF TypeOK
  <2>3. used' \in Nat
    BY <1>1, <2>1 DEF TypeOK
  <2>4. /\ g_handles' \in [Handles -> Blocks \cup {NULL}]
        /\ g_handle_to_block' \in [Handles -> Blocks \cup {NULL}]
        /\ g_sizes' \in [Handles -> Sizes \cup {0}]
        /\ g_handle_to_address' \in [Handles -> Words \cup {NULL}]
    BY <1>1, <1>2, <1>3, <1>4, <2>1 DEF TypeOK
  <2>5. current_op' \in Nat
    BY <1>4, <2>1 DEF TypeOK
  <2> QED BY <1>3, <1>6, <2>1, <2>2, <2>3, <2>4, <2>5 DEF TypeOK, countVars
<1>8. TypesMore'
  <2>1. TypesMore
    BY DEF IInv
  <2>2. closed' \in BOOLEAN /\ g_has_compacted' \in BOOLEAN
    BY <2>1 DEF TypesMore, fileVars
  <2> QED BY <1>3, <1>4, <2>1, <2>2 DEF TypesMore, fileVars, countVars
<1>9. TraceOK' /\ HighestOK'
  BY SameTrace DEF IInv, fileVars, countVars
<1>10. /\ ~InOp' /\ ~Leftover' /\ Past' = 1..pos /\ Base = handle_offset /\ Base' = handle_offset
       /\ pos = 0 => Past = {} /\ Past' = {} /\ Leftover
       /\ pos > 0 => Past' = Past \cup {pos} /\ ~Leftover /\ file[pos] = line /\ Past = 1..(pos - 1)
  BY <1>1, <1>2, <1>6 DEF InOp, Leftover, Past, Base, fileVars, countVars, IInv, ControlOK
<1>11. /\ \A h : Did("N", h)' <=> Did("N", h) \/ (pos > 0 /\ h = line.h)
       /\ \A h : Did("F", h)' <=> Did("F", h)
       /\ \A h : LockedBy(h)' <=> LockedBy(h)
       /\ AnyNew' <=> AnyNew \/ pos > 0
  <2>1. CASE pos = 0
    BY <1>10, <2>1 DEF Did, LockedBy, AnyNew
  <2>2. CASE pos > 0
    BY <1>1, <1>10, <2>2, ZenonT(60) DEF Did, LockedBy, AnyNew, fileVars
  <2> QED BY <1>2, <2>1, <2>2
<1>12. ControlOK'
  BY <1>6, <1>10 DEF IInv, ControlOK, fileVars, countVars
<1>13. BoundsOK'
  <2>1. BoundsOK /\ current_op \in Nat
    BY DEF IInv, TypeOK
  <2>2. mode = "allocstats" => handle_offset + TraceHandles <= current_op' * TraceHandles
    <3> SUFFICES ASSUME mode = "allocstats"
                 PROVE handle_offset + TraceHandles <= current_op' * TraceHandles
      OBVIOUS
    <3> DEFINE p == current_op * TraceHandles
    <3>1. handle_offset <= p /\ p \in Nat /\ (current_op + 1) * TraceHandles = p + TraceHandles
      BY <2>1, Scaled DEF BoundsOK
    <3> HIDE DEF p
    <3> QED BY <3>1, <1>2, <1>4
  <2>3. mode = "allocstats" => handle_offset <= current_op' * TraceHandles
    <3> DEFINE p == current_op' * TraceHandles
    <3>1. p \in Nat
      BY <2>1, <1>4, Scaled
    <3>2. mode = "allocstats" => handle_offset + TraceHandles <= p
      BY <2>2
    <3> HIDE DEF p
    <3>3. mode = "allocstats" => handle_offset <= p
      BY <3>1, <3>2, <1>2
    <3> QED BY <3>3 DEF p
  <2> QED BY <2>1, <2>2, <2>3, <1>6, <1>10 DEF BoundsOK, countVars
<1>14. Sized' = Sized \cup {handle} /\ Sized \subseteq Handles
  <2>1. Sized' = {h \in Handles : g_sizes'[h] > 0}
    BY DEF Sized, Handles
  <2> QED BY <1>1, <1>2, <1>5, <2>1, ZenonT(60) DEF Sized
<1>15. /\ TablesAgree /\ FreshOK /\ ReuseOK /\ LastOK /\ OpenOK
  BY <1>6 DEF IInv, TablesOK
<1>16. \A h \in Sized : /\ g_handles[h] = g_handle_to_block[h]
                        /\ g_handles[h] \in Live /\ len[g_handles[h]] = g_sizes[h]
                        /\ owner[g_handles[h]] = h
  BY <1>6, <1>15 DEF TablesAgree
<1>17. TablesAgree'
  <2> SUFFICES ASSUME NEW h \in Sized'
               PROVE  /\ g_handles'[h] = g_handle_to_block'[h]
                      /\ g_handles'[h] \in Live' /\ len'[g_handles'[h]] = g_sizes'[h]
                      /\ owner'[g_handles'[h]] = h
    BY DEF TablesAgree
  <2>1. CASE h = handle
    BY <1>3, <1>5, <2>1
  <2>2. CASE h # handle
    BY <1>3, <1>5, <1>14, <1>16, <2>2
  <2> QED BY <2>1, <2>2
<1>18. FreshOK'
  <2> SUFFICES ASSUME NEW h \in Handles, h > handle_offset + highest_handle_no
               PROVE  g_handle_to_block'[h] = NULL
    BY <1>10 DEF FreshOK, countVars
  <2>1. h # handle
    BY <1>1, <1>2, HandleRange
  <2> QED BY <2>1, <1>5, <1>15 DEF FreshOK
<1>19. ReuseOK'
  <2> SUFFICES ASSUME NEW h \in Handles, h >= handle_offset, ~Did("F", h - handle_offset), h # handle
               PROVE  h \in Sized \/ g_handle_to_block[h] = NULL
    BY <1>5, <1>10, <1>11, <1>14 DEF ReuseOK
  <2>1. \/ h \in Sized \/ g_handle_to_block[h] = NULL
        \/ h = handle_offset /\ ~AnyNew /\ ~Leftover
    BY <1>1, <1>10, <1>15 DEF ReuseOK
  <2>2. ~AnyNew /\ ~Leftover => handle = handle_offset
    BY <1>1, <1>2, <1>10, NewLine
  <2> QED BY <2>1, <2>2
<1>20. LastOK'
  <2> SUFFICES ASSUME NEW h \in Handles, NEW n, n = highest_handle_no,
                      h = handle_offset + n, h # handle, Did("N", n)'
               PROVE  FALSE
    BY <1>14 DEF LastOK, countVars
  <2>1. n # line.h
    BY <1>1, <1>2
  <2>2. Did("N", highest_handle_no) /\ pos > 0
    <3>1. Did("N", n)
      BY <1>11, <2>1
    <3> QED BY <3>1, <1>2, <1>10 DEF Did
  <2>3. PICK i \in Past : file[i].op = "N" /\ file[i].h = highest_handle_no
    BY <2>2 DEF Did
  <2>4. file[i].h < line.h
    BY <1>1, <2>2, <2>3, NewLine
  <2> QED BY <1>1, <1>2, <2>3, <2>4
<1>21. OpenOK'
  <2> SUFFICES ASSUME NEW h \in Handles, NEW n, n = h - handle_offset, h >= handle_offset,
                      h # handle, Did("N", n)', ~Did("F", n)'
               PROVE  h \in Sized
    BY <1>14 DEF OpenOK, countVars
  <2>1. h \in Nat /\ n # line.h
    BY <1>1, <1>2, HandleRange
  <2>2. Did("N", n) /\ ~Did("F", n)
    BY <2>1, <1>11
  <2> QED BY <2>2, <1>15 DEF OpenOK
<1>22. TablesOK'
  BY <1>17, <1>18, <1>19, <1>20, <1>21 DEF TablesOK
<1>23. UsedOK'
  <2> SUFFICES ASSUME mode = "allocstats" PROVE used' = Cardinality(Occupied') + 0
    BY <1>6 DEF UsedOK
  <2>1. Cardinality(Occupied) \in Nat
    BY OccupiedFinite DEF IInv
  <2>2. CASE pc = "op"
    <3>1. used = Cardinality(Occupied) + 0
      BY <2>2 DEF IInv, UsedOK
    <3> QED BY <3>1, <2>1, <2>2, <1>1, <1>3
  <2>3. CASE pc = "retry"
    <3>1. used = Cardinality(Occupied) + size
      BY <2>3 DEF IInv, UsedOK
    <3> QED BY <3>1, <2>1, <2>3, <1>1, <1>3
  <2> QED BY <2>2, <2>3
<1>24. PeakOK'
  <2> SUFFICES ASSUME mode = "peakmem" PROVE PeakOK'
    BY DEF PeakOK
  <2>1. /\ \A c \in Live : owner[c] \in Sized /\ g_handle_to_block[owner[c]] = c
        /\ \A h \in Sized : Did("N", h)
        /\ pinned = {c \in Live : LockedBy(owner[c])}
    BY <1>6 DEF IInv, PeakOK
  <2>2. pos > 0 /\ handle = line.h
    BY <1>1, <1>2, <1>10 DEF IInv, ControlOK
  <2>3. /\ \A i \in Past : file[i].op = "N" => file[i].h < line.h
        /\ \A i \in Past : file[i].op \in {"F", "L", "U", "S"} => file[i].h < line.h
    BY <1>1, <2>2, NewLine
  <2>4. ~Did("N", handle) /\ ~LockedBy(handle)
    BY <2>2, <2>3, <1>1 DEF Did, LockedBy
  <2>5. handle \notin Sized
    BY <2>1, <2>4
  <2>6. \A c \in Live' : owner'[c] \in Sized' /\ g_handle_to_block'[owner'[c]] = c
    BY <1>3, <1>5, <1>14, <2>1, <2>5
  <2>7. \A h \in Sized' : Did("N", h)'
    BY <1>11, <1>14, <2>1, <2>2
  <2>8. pinned' = {c \in Live' : LockedBy(owner[c])'}
    BY <1>3, <1>4, <1>11, <2>1, <2>4
  <2> QED BY <2>6, <2>7, <2>8 DEF PeakOK
<1>25. ColorsOK'
  <2> SUFFICES ASSUME mode = "memplot", ~g_has_compacted
               PROVE  /\ {w \in Words : colormap'[w] = "red"} = Occupied'
                      /\ \A h \in Sized' : g_handle_to_address'[h] = addr'[g_handles'[h]]
    BY DEF ColorsOK, Words
  <2>1. pc = "op"
    BY DEF IInv, ControlOK
  <2>2. /\ {w \in Words : colormap[w] = "red"} = Occupied
        /\ \A h \in Sized : g_handle_to_address[h] = addr[g_handles[h]]
    BY <2>1 DEF IInv, ColorsOK
  <2>3. colormap' = register_op(colormap, "red", a, size) /\ g_handle_to_address'[handle] = a
    BY <1>2, <1>4, <2>1 DEF IInv, TypeOK
  <2>4. a # NULL /\ BlockWords(a, size) \subseteq Words
    BY <1>3 DEF Words, Places
  <2>5. \A w \in Words : colormap'[w] = IF w \in BlockWords(a, size) THEN "red" ELSE colormap[w]
    BY <2>3, <2>4 DEF register_op
  <2>6. {w \in Words : colormap'[w] = "red"} = Occupied'
    BY <1>3, <2>2, <2>4, <2>5
  <2>7. \A h \in Sized' : g_handle_to_address'[h] = addr'[g_handles'[h]]
    BY <1>3, <1>5, <1>14, <1>16, <2>2, <2>3
  <2> QED BY <2>6, <2>7
<1>26. LocksReachLive' /\ (mode' # "peakmem" => pinned' = {})
  BY <1>4 DEF IInv, LocksReachLive
<1> QED BY <1>3, <1>7, <1>8, <1>9, <1>12, <1>13, <1>22, <1>23, <1>24, <1>25, <1>26 DEF IInv

\* case 'N' of the line loop.
LEMMA OpNewInv == ASSUME IInv, OpNew PROVE IInv'
<1>1. /\ pc = "op" /\ line.op = "N" /\ (pc = "retry") = FALSE
      /\ used' = IF mode = "memplot" THEN used ELSE used + line.size
      /\ UNCHANGED <<fileVars, mode, handle, countVars, g_has_compacted, fault>>
  BY DEF OpNew
<1>2. CASE \E b \in FreeBlocks, a \in Places(line.size) :
              user_malloc(line.size, handle, b, a) /\ Commit(b, a, FALSE)
  <2>1. PICK b \in FreeBlocks, a \in Places(line.size) :
              user_malloc(line.size, handle, b, a) /\ Commit(b, a, FALSE)
    BY <1>2
  <2>2. Commit(b, a, pc = "retry")
    BY <1>1, <2>1 DEF Commit
  <2> QED BY <1>1, <2>1, <2>2, AllocInv
<1>3. CASE /\ pc' = "oom"
           /\ UNCHANGED <<current_op, tableVars, colormap, g_handle_to_block, heapVars>>
  <2>1. UNCHANGED <<file, closed, pos, line>>
    BY <1>1 DEF fileVars
  <2> QED BY <1>1, <1>3, <2>1, AllocFailsInv
<1> QED BY <1>2, <1>3 DEF OpNew

\* The second attempt, behind a compaction.
LEMMA RetryInv == ASSUME IInv, Retry PROVE IInv'
<1>1. /\ pc = "retry" /\ (pc = "retry") = TRUE /\ used' = used
      /\ UNCHANGED <<fileVars, mode, handle, countVars, g_has_compacted, fault>>
  BY DEF Retry
<1>2. CASE \E b \in FreeBlocks, a \in Places(line.size) :
              user_malloc(line.size, handle, b, a) /\ Commit(b, a, TRUE)
  <2>1. PICK b \in FreeBlocks, a \in Places(line.size) :
              user_malloc(line.size, handle, b, a) /\ Commit(b, a, TRUE)
    BY <1>2
  <2>2. Commit(b, a, pc = "retry")
    BY <1>1, <2>1 DEF Commit
  <2> QED BY <1>1, <2>1, <2>2, AllocInv
<1>3. CASE /\ pc' = "exit"
           /\ UNCHANGED <<current_op, tableVars, colormap, g_handle_to_block, heapVars>>
  <2>1. UNCHANGED <<file, closed, pos, line>>
    BY <1>1 DEF fileVars
  <2> QED BY <1>1, <1>3, <2>1, AllocFailsInv
<1> QED BY <1>2, <1>3 DEF Retry

\* calculate_maxmem overwrites an entry of the driver's table and ends the program.
LEMMA MaxMemFoundInv == ASSUME IInv, MaxMemFound PROVE IInv'
<1> USE Consts
<1>1. /\ pc \in {"maxmem", "maxmem_again"} /\ pc' = "done"
      /\ UNCHANGED <<file, closed, pos, line, mode, handle, countVars, current_op, used, tableVars,
                     colormap, g_has_compacted, fault>>
  BY DEF MaxMemFound, fileVars
<1>2. mode = "allocstats" /\ pinned = {} /\ used \in Nat
  BY <1>1 DEF IInv, ControlOK, TypeOK
<1>3. PICK i \in 0..HeapSize :
          /\ g_theoretical_free_space - i * MAXMEM_STEP > 0
          /\ \E b \in FreeBlocks, a \in Places(g_theoretical_free_space - i * MAXMEM_STEP) :
                user_malloc(g_theoretical_free_space - i * MAXMEM_STEP,
                            g_theoretical_free_space - i, b, a)
  BY DEF MaxMemFound
<1> DEFINE size == g_theoretical_free_space - i * MAXMEM_STEP
           h == g_theoretical_free_space - i
<1>4. PICK b \in FreeBlocks, a \in Places(size) : user_malloc(size, h, b, a)
  BY <1>3
<1>5. size \in Nat /\ size > 0 /\ h \in Int
  BY <1>2, <1>3 DEF g_theoretical_free_space, MAXMEM_STEP
<1> HIDE DEF size, h
<1>6. /\ b \in Blocks /\ top' \in 0..HeapSize /\ HeapOK'
      /\ len' \in [Blocks -> Nat] /\ addr' \in [Blocks -> Nat] /\ owner' \in [Blocks -> Int]
  BY <1>4, <1>5, MallocHeap
<1>7. pinned' = pinned /\ g_handle_to_block' \in [Handles -> Blocks \cup {NULL}]
  BY <1>4, <1>6 DEF user_malloc, IInv, TypeOK
<1>8. TypeOK'
  BY <1>1, <1>6, <1>7 DEF IInv, TypeOK, tableVars, countVars, Handles, Words
<1>9. closed' \in BOOLEAN /\ g_has_compacted' \in BOOLEAN
  BY <1>1 DEF IInv, TypesMore
<1>10. TypesMore'
  BY <1>1, <1>2, <1>6, <1>7, <1>9 DEF IInv, TypesMore, countVars
<1>11. TraceOK' /\ HighestOK'
  BY <1>1, SameTrace DEF IInv, countVars
<1>12. ~InOp /\ ~InOp' /\ ~Leftover' /\ Past' = Past
  BY <1>1 DEF InOp, Leftover, Past
<1>13. AnyNew' <=> AnyNew
  BY <1>1, <1>12, SamePast
<1>14. ControlOK' /\ BoundsOK'
  BY <1>1, <1>12, <1>13 DEF IInv, ControlOK, BoundsOK, countVars
<1>15. TablesOK' /\ UsedOK' /\ PeakOK' /\ ColorsOK' /\ LocksReachLive' /\ pinned' = {}
  BY <1>1, <1>2, <1>7 DEF IInv, TablesOK, TablesAgree, UsedOK, PeakOK, ColorsOK, LocksReachLive
<1> QED BY <1>6, <1>8, <1>10, <1>11, <1>14, <1>15 DEF IInv

-----------------------------------------------------------------------------
(* Free *)

\* What user_free does to the allocator.
Freed(h) ==
    LET b == g_handle_to_block[h] IN
    IF b \notin Live THEN UNCHANGED heapVars
    ELSE /\ len' = [len EXCEPT ![b] = 0] /\ pinned' = pinned \ {b}
         /\ UNCHANGED <<addr, top, owner>>

\* user_free on behalf of a handle that has its own block, or a stale entry of a
\* block that is free: no other handle loses its block.
LEMMA FreeTables ==
    ASSUME IInv, pc # "done", NEW h \in Handles, Freed(h),
           h \in Sized \/ g_handle_to_block[h] \notin Live,
           g_sizes' = [g_sizes EXCEPT ![h] = 0]
    PROVE  /\ HeapOK' /\ len' \in [Blocks -> Nat] /\ Live' \subseteq Live
           /\ UNCHANGED <<addr, top, owner>>
           /\ g_handle_to_block[h] \notin Live'
           /\ g_sizes' \in [Handles -> Sizes \cup {0}] /\ g_sizes[h] \in Nat
           /\ Sized' = Sized \ {h}
           /\ \A g \in Sized' : /\ g_sizes'[g] = g_sizes[g] /\ g_handles[g] = g_handle_to_block[g]
                                /\ g_handles[g] \in Live' /\ len'[g_handles[g]] = g_sizes[g]
                                /\ owner[g_handles[g]] = g
           /\ Cardinality(Occupied') = Cardinality(Occupied) - g_sizes[h]
           /\ Cardinality(Occupied') \in Nat
           /\ h \in Sized => LET b == g_handle_to_block[h] IN
                 /\ b \in Live /\ g_handles[h] = b /\ owner[b] = h /\ len[b] = g_sizes[h]
                 /\ Live' = Live \ {b} /\ pinned' = pinned \ {b}
                 /\ Occupied' = Occupied \ BlockWords(addr[b], g_sizes[h])
           /\ h \notin Sized => /\ g_sizes[h] = 0
                                /\ UNCHANGED <<Live, pinned, Occupied, len>>
<1> USE Consts
<1> DEFINE b == g_handle_to_block[h]
<1>1. g_sizes \in [Handles -> Sizes \cup {0}] /\ g_sizes' \in [Handles -> Sizes \cup {0}]
  BY DEF IInv, TypeOK
<1>2. g_sizes'[h] = 0 /\ g_sizes[h] \in Nat /\ \A g \in Handles \ {h} : g_sizes'[g] = g_sizes[g]
  BY <1>1
<1>3. Sized' = Sized \ {h} /\ Sized \subseteq Handles
  <2>1. Sized' = {g \in Handles : g_sizes'[g] > 0}
    BY DEF Sized, Handles
  <2> QED BY <1>2, <2>1 DEF Sized
<1>4. \A g \in Sized : /\ g_handles[g] = g_handle_to_block[g]
                       /\ g_handles[g] \in Live /\ len[g_handles[g]] = g_sizes[g]
                       /\ owner[g_handles[g]] = g
  BY DEF IInv, TablesOK, TablesAgree
<1>5. CASE h \in Sized
  <2>1. b \in Live /\ g_handles[h] = b /\ owner[b] = h /\ len[b] = g_sizes[h] /\ b # NULL /\ b \in Blocks
    BY <1>4, <1>5 DEF Live
  <2>2. /\ len' = [len EXCEPT ![b] = 0] /\ pinned' = pinned \ {b}
        /\ UNCHANGED <<addr, top, owner>>
    BY <2>1 DEF Freed
  <2>3. /\ Live' = Live \ {b} /\ HeapOK'
        /\ Occupied' = Occupied \ BlockWords(addr[b], len[b])
        /\ Cardinality(Occupied') = Cardinality(Occupied) - len[b]
        /\ len' \in [Blocks -> Nat]
        /\ \A c \in Blocks \ {b} : len'[c] = len[c]
    BY <2>1, <2>2, FreeHeap DEF IInv
  <2>4. \A g \in Sized' : g_handles[g] # b /\ g_handles[g] \in Blocks
    BY <1>3, <1>4, <2>1 DEF Live
  <2>5. \A g \in Sized' : /\ g_sizes'[g] = g_sizes[g] /\ g_handles[g] = g_handle_to_block[g]
                          /\ g_handles[g] \in Live' /\ len'[g_handles[g]] = g_sizes[g]
                          /\ owner[g_handles[g]] = g
    BY <1>2, <1>3, <1>4, <2>3, <2>4
  <2>6. IsFiniteSet(Occupied')
    BY <2>3, OccupiedFinite, FS_Difference DEF IInv
  <2>7. Cardinality(Occupied') \in Nat
    BY <2>6, FS_CardinalityType
  <2> QED BY <1>1, <1>2, <1>3, <1>5, <2>1, <2>2, <2>3, <2>5, <2>7
<1>6. CASE h \notin Sized
  <2>1. UNCHANGED heapVars
    BY <1>6 DEF Freed
  <2>2. UNCHANGED <<len, addr, pinned, top, owner>>
    BY <2>1 DEF heapVars
  <2>3. Live' = Live /\ Occupied' = Occupied /\ HeapOK'
    BY <2>2, SameHeap DEF IInv
  <2>4. g_sizes[h] = 0
    BY <1>2, <1>6 DEF Sized
  <2>5. Cardinality(Occupied) \in Nat
    BY OccupiedFinite DEF IInv
  <2>6. len' \in [Blocks -> Nat]
    BY <2>2 DEF IInv, TypesMore
  <2>7. \A g \in Sized' : /\ g_sizes'[g] = g_sizes[g] /\ g_handles[g] = g_handle_to_block[g]
                          /\ g_handles[g] \in Live' /\ len'[g_handles[g]] = g_sizes[g]
                          /\ owner[g_handles[g]] = g
    BY <1>2, <1>3, <1>4, <2>2, <2>3
  <2>8. Cardinality(Occupied') = Cardinality(Occupied) - g_sizes[h]
    BY <2>3, <2>4, <2>5
  <2> QED BY <1>1, <1>2, <1>3, <1>6, <2>2, <2>3, <2>4, <2>5, <2>6, <2>7, <2>8
<1> QED BY <1>5, <1>6

\* A handle is killed at random before a rewind.
LEMMA KillHandleInv == ASSUME IInv, KillHandle PROVE IInv'
<1> USE Consts
<1>1. /\ pc = "kill" /\ killed' = killed + 1
      /\ UNCHANGED <<file, closed, pos, line, mode, pc, handle, highest_handle_no, handle_offset,
                     rewinds, current_op, colormap, g_handle_to_block, g_has_compacted, fault>>
  BY DEF KillHandle, fileVars
<1>2. PICK h \in Sized :
        /\ used' = used - g_sizes[h]
        /\ Freed(h)
        /\ g_sizes' = [g_sizes EXCEPT ![h] = 0]
        /\ g_handles' = [g_handles EXCEPT ![h] = NULL]
        /\ g_handle_to_address' = [g_handle_to_address EXCEPT ![h] = NULL]
  BY DEF KillHandle, user_free, Freed, Live
<1> DEFINE b == g_handle_to_block[h]
<1>3. h \in Handles /\ mode = "allocstats" /\ pos = 0 /\ pinned = {}
  BY <1>1 DEF Sized, IInv, ControlOK
<1>4. /\ HeapOK' /\ len' \in [Blocks -> Nat] /\ Live' \subseteq Live
      /\ UNCHANGED <<addr, top, owner>> /\ b \notin Live'
      /\ g_sizes' \in [Handles -> Sizes \cup {0}] /\ g_sizes[h] \in Nat
      /\ Sized' = Sized \ {h}
      /\ \A g \in Sized' : /\ g_sizes'[g] = g_sizes[g] /\ g_handles[g] = g_handle_to_block[g]
                           /\ g_handles[g] \in Live' /\ len'[g_handles[g]] = g_sizes[g]
                           /\ owner[g_handles[g]] = g
      /\ Cardinality(Occupied') = Cardinality(Occupied) - g_sizes[h]
      /\ Cardinality(Occupied') \in Nat
      /\ b \in Live /\ pinned' = pinned \ {b}
  BY <1>1, <1>2, <1>3, FreeTables
<1>5. UsedOK' /\ used' \in Nat
  <2>1. used = Cardinality(Occupied) + 0 /\ used \in Nat
    BY <1>1, <1>3 DEF IInv, UsedOK, TypeOK
  <2>2. Cardinality(Occupied') \in Nat /\ Cardinality(Occupied) \in Nat
    BY <1>4, OccupiedFinite DEF IInv
  <2>3. used' = Cardinality(Occupied') + 0 /\ used' \in Nat
    BY <1>2, <1>4, <2>1, <2>2
  <2> QED BY <1>1, <2>3 DEF UsedOK
<1>6. TypeOK'
  <2>1. TypeOK
    BY DEF IInv
  <2>2. /\ g_handles' \in [Handles -> Blocks \cup {NULL}]
        /\ g_handle_to_address' \in [Handles -> Words \cup {NULL}]
    BY <1>2, <2>1 DEF TypeOK
  <2> QED BY <1>1, <1>4, <1>5, <2>1, <2>2 DEF TypeOK
<1>7. TypesMore'
  <2>1. TypesMore
    BY DEF IInv
  <2>2. closed' \in BOOLEAN /\ g_has_compacted' \in BOOLEAN
    BY <1>1, <2>1 DEF TypesMore
  <2> QED BY <1>1, <1>4, <2>1, <2>2 DEF TypesMore
<1>8. TraceOK' /\ HighestOK'
  BY <1>1, SameTrace DEF IInv
<1>9. /\ Past = {} /\ Past' = {} /\ ~InOp /\ ~InOp' /\ ~Leftover /\ ~Leftover'
      /\ Base = handle_offset + highest_handle_no /\ Base' = Base
  BY <1>1, <1>3 DEF Past, Base, Leftover, InOp
<1>10. (\A op, n : ~Did(op, n)) /\ ~AnyNew /\ (\A op, n : ~Did(op, n)') /\ ~AnyNew'
  BY <1>9 DEF Did, AnyNew
<1>11. ControlOK' /\ BoundsOK'
  BY <1>1, <1>9, <1>10 DEF IInv, ControlOK, BoundsOK
<1>12. TablesAgree'
  <2>1. \A g \in Sized' : g_handles'[g] = g_handles[g]
    BY <1>2, <1>3, <1>4 DEF IInv, TypeOK, Sized
  <2> QED BY <1>1, <1>4, <2>1 DEF TablesAgree
<1>13. FreshOK /\ ReuseOK
  BY <1>1 DEF IInv, TablesOK
<1>14. FreshOK'
  BY <1>1, <1>9, <1>13 DEF FreshOK
<1>15. ReuseOK'
  <2> SUFFICES ASSUME NEW g \in Handles, g >= Base
               PROVE  \/ g \in Sized' \/ g_handle_to_block[g] = NULL
                      \/ g = Base /\ g_handle_to_block[g] \notin Live'
    BY <1>1, <1>9, <1>10 DEF ReuseOK
  <2>1. CASE g = h
    <3>1. b # NULL
      BY <1>4 DEF Live
    <3>2. ~(h > handle_offset + highest_handle_no)
      BY <3>1, <1>3, <1>13 DEF FreshOK
    <3>3. Base \in Nat /\ h \in Nat
      BY <1>3, <1>9, HandleRange DEF IInv, TypeOK
    <3>4. h = Base
      BY <3>2, <3>3, <2>1, <1>9
    <3> QED BY <3>4, <2>1, <1>4
  <2>2. CASE g # h
    BY <2>2, <1>4, <1>9, <1>10, <1>13 DEF ReuseOK
  <2> QED BY <2>1, <2>2
<1>16. LastOK' /\ OpenOK'
  BY <1>10 DEF LastOK, OpenOK
<1>17. TablesOK'
  BY <1>12, <1>14, <1>15, <1>16 DEF TablesOK
<1>18. PeakOK' /\ ColorsOK' /\ LocksReachLive' /\ (mode' # "peakmem" => pinned' = {})
  BY <1>1, <1>3, <1>4 DEF IInv, PeakOK, ColorsOK, LocksReachLive
<1> QED BY <1>4, <1>5, <1>6, <1>7, <1>8, <1>11, <1>17, <1>18 DEF IInv

\* An F line finds the block of its handle; when memplot executes it once more, its
\* handle of the new pass has a block of its own, none, or one that is free.
LEMMA FreeFinds ==
    ASSUME IInv, pc = "op", line.op = "F"
    PROVE  handle \in Sized \/ (Leftover /\ g_handle_to_block[handle] \notin Live)
<1> USE Consts
<1>1. CASE ~Leftover
  BY <1>1, HandleFound
<1>2. CASE Leftover
  <2>1. pos = 0 /\ Past = {}
    BY <1>2 DEF Leftover, Past
  <2>2. /\ handle \in Handles /\ handle_offset \in Nat /\ line.h \in Nat
        /\ handle = line.h + handle_offset
    BY <1>2, HandleRange DEF IInv, TypeOK, TypesMore, LineType, ControlOK, Leftover
  <2>3. ~Did("F", handle - handle_offset) /\ Base = handle_offset /\ handle >= handle_offset
    BY <2>1, <2>2 DEF Did, Base
  <2>4. NULL \notin Live
    BY DEF Live
  <2> QED BY <1>2, <2>2, <2>3, <2>4 DEF IInv, TablesOK, ReuseOK
<1> QED BY <1>1, <1>2

\* case 'F', also when memplot executes it once more with the handle of the new pass.
LEMMA OpFreeInv == ASSUME IInv, OpFree PROVE IInv'
<1> USE Consts
<1> DEFINE b == g_handle_to_block[handle]
<1>1. /\ pc = "op" /\ line.op = "F" /\ pc' = AfterOp /\ current_op' = current_op + 1
      /\ used' = IF mode = "allocstats" THEN used - g_sizes[handle] ELSE used
      /\ colormap' = IF mode # "memplot" THEN colormap
                     ELSE register_op(colormap, "green", g_handle_to_address[handle], g_sizes[handle])
      /\ g_sizes' = [g_sizes EXCEPT ![handle] = 0]
      /\ g_handles' = IF mode = "memplot" THEN g_handles ELSE [g_handles EXCEPT ![handle] = NULL]
      /\ g_handle_to_address' = IF mode # "peakmem" THEN g_handle_to_address
                                ELSE [g_handle_to_address EXCEPT ![handle] = NULL]
      /\ UNCHANGED <<file, closed, pos, line, mode, handle, highest_handle_no, handle_offset, killed,
                     rewinds, g_handle_to_block, g_has_compacted, fault>>
  BY DEF OpFree, fileVars, countVars
<1>2. /\ handle \in Handles /\ handle \in Nat /\ handle_offset \in Nat /\ pos \in Nat
      /\ highest_handle_no \in Nat /\ line.h \in Nat /\ current_op \in Nat /\ used \in Nat
  BY HandleRange DEF IInv, TypeOK, TypesMore, LineType
<1>3. /\ InOp /\ line.h <= highest_handle_no /\ handle = line.h + handle_offset
      /\ pc # "done" /\ pc # "kill"
  BY <1>1 DEF InOp, IInv, ControlOK
<1>4. /\ pc' \in {"read", "maxmem"} /\ pc' # "done"
      /\ pc' = "maxmem" => mode = "allocstats"
      /\ pc' = "read" /\ mode = "allocstats" => current_op' <= OpLimit
  BY <1>1, <1>2 DEF AfterOp
<1>5. /\ ~InOp' /\ ~Leftover' /\ Past' = 1..pos /\ Base = handle_offset /\ Base' = handle_offset
      /\ pos = 0 => Past = {} /\ Past' = {} /\ Leftover
      /\ pos > 0 => Past' = Past \cup {pos} /\ ~Leftover /\ file[pos] = line /\ Past = 1..(pos - 1)
  BY <1>1, <1>2, <1>3, <1>4 DEF InOp, Leftover, Past, Base, IInv, ControlOK
<1>6. TablesAgree /\ FreshOK /\ ReuseOK /\ LastOK /\ OpenOK
  BY <1>3 DEF IInv, TablesOK
<1>7. handle \in Sized \/ (Leftover /\ b \notin Live)
  BY <1>1, FreeFinds
<1>8. /\ Freed(handle) /\ g_sizes' = [g_sizes EXCEPT ![handle] = 0] /\ handle \in Handles
      /\ handle \in Sized \/ b \notin Live
  BY <1>2, <1>7 DEF OpFree, user_free, Freed, Live
<1>9. /\ HeapOK' /\ len' \in [Blocks -> Nat] /\ Live' \subseteq Live
      /\ UNCHANGED <<addr, top, owner>> /\ b \notin Live'
      /\ g_sizes' \in [Handles -> Sizes \cup {0}] /\ g_sizes[handle] \in Nat
      /\ Sized' = Sized \ {handle}
      /\ Cardinality(Occupied') = Cardinality(Occupied) - g_sizes[handle]
      /\ Cardinality(Occupied') \in Nat
  BY <1>3, <1>8, FreeTables
<1>10. \A g \in Sized' : /\ g_sizes'[g] = g_sizes[g] /\ g_handles[g] = g_handle_to_block[g]
                         /\ g_handles[g] \in Live' /\ len'[g_handles[g]] = g_sizes[g]
                         /\ owner[g_handles[g]] = g
  BY <1>3, <1>8, FreeTables
<1>11. handle \in Sized =>
          /\ b \in Live /\ g_handles[handle] = b /\ owner[b] = handle /\ len[b] = g_sizes[handle]
          /\ Live' = Live \ {b} /\ pinned' = pinned \ {b}
          /\ Occupied' = Occupied \ BlockWords(addr[b], g_sizes[handle])
  BY <1>3, <1>8, FreeTables
<1>12. handle \notin Sized => g_sizes[handle] = 0 /\ UNCHANGED <<Live, pinned, Occupied, len>>
  BY <1>3, <1>8, FreeTables
<1>13. UsedOK' /\ used' \in Nat
  <2>1. CASE mode = "allocstats"
    <3>1. used = Cardinality(Occupied) + 0
      BY <1>1, <2>1 DEF IInv, UsedOK
    <3>2. Cardinality(Occupied) \in Nat
      BY OccupiedFinite DEF IInv
    <3>3. used' = Cardinality(Occupied') + 0 /\ used' \in Nat
      BY <1>1, <1>9, <2>1, <3>1, <3>2
    <3> QED BY <1>4, <3>3 DEF UsedOK
  <2>2. CASE mode # "allocstats"
    BY <1>1, <1>2, <2>2 DEF UsedOK
  <2> QED BY <2>1, <2>2
<1>14. TypeOK'
  <2>1. TypeOK
    BY DEF IInv
  <2>2. colormap' \in [Words -> Colors]
    <3>1. register_op(colormap, "green", g_handle_to_address[handle], g_sizes[handle])
            \in [Words -> Colors]
      BY <2>1 DEF register_op, Colors, TypeOK
    <3> QED BY <1>1, <2>1, <3>1 DEF TypeOK
  <2>3. /\ g_handles' \in [Handles -> Blocks \cup {NULL}]
        /\ g_handle_to_address' \in [Handles -> Words \cup {NULL}]
    BY <1>1, <2>1 DEF TypeOK
  <2>4. current_op' \in Nat
    BY <1>1, <1>2
  <2> QED BY <1>1, <1>4, <1>9, <1>13, <2>1, <2>2, <2>3, <2>4 DEF TypeOK
<1>15. TypesMore'
  <2>1. TypesMore
    BY DEF IInv
  <2>2. closed' \in BOOLEAN /\ g_has_compacted' \in BOOLEAN
    BY <1>1, <2>1 DEF TypesMore
  <2>3. pinned' \subseteq Blocks \cup {NULL}
    BY <1>11, <1>12, <2>1 DEF TypesMore
  <2> QED BY <1>1, <1>9, <2>1, <2>2, <2>3 DEF TypesMore
<1>16. TraceOK' /\ HighestOK'
  BY <1>1, SameTrace DEF IInv
<1>17. /\ \A n : Did("N", n)' <=> Did("N", n)
       /\ \A n : Did("F", n)' <=> Did("F", n) \/ (pos > 0 /\ n = line.h)
       /\ \A n : LockedBy(n)' <=> LockedBy(n)
       /\ AnyNew' <=> AnyNew
  <2>1. CASE pos = 0
    BY <1>5, <2>1 DEF Did, LockedBy, AnyNew
  <2>2. CASE pos > 0
    BY <1>1, <1>5, <2>2, ZenonT(60) DEF Did, LockedBy, AnyNew
  <2> QED BY <1>2, <2>1, <2>2
<1>18. ControlOK'
  BY <1>1, <1>4, <1>5 DEF IInv, ControlOK
<1>19. BoundsOK'
  <2> DEFINE p == current_op * TraceHandles
  <2>1. p \in Nat /\ current_op' * TraceHandles = p + TraceHandles
    BY <1>1, <1>2, Scaled
  <2>2. mode = "allocstats" => /\ handle_offset <= p
                               /\ AnyNew => handle_offset + TraceHandles <= p
    BY DEF IInv, BoundsOK
  <2> HIDE DEF p
  <2>3. mode = "allocstats" => /\ handle_offset <= current_op' * TraceHandles
                               /\ AnyNew' => handle_offset + TraceHandles <= current_op' * TraceHandles
    BY <2>1, <2>2, <1>2, <1>17
  <2> QED BY <2>3, <1>1, <1>4, <1>5 DEF IInv, BoundsOK
<1>20. TablesAgree'
  <2>1. \A g \in Sized' : g_handles'[g] = g_handles[g]
    BY <1>1, <1>2, <1>9 DEF IInv, TypeOK, Sized
  <2> QED BY <1>1, <1>9, <1>10, <2>1 DEF TablesAgree
<1>21. FreshOK'
  BY <1>1, <1>5, <1>6 DEF FreshOK
<1>22. ReuseOK'
  <2> SUFFICES ASSUME NEW g \in Handles, NEW n, n = g - handle_offset, g >= handle_offset,
                      ~Did("F", n)'
               PROVE  \/ g \in Sized' \/ g_handle_to_block[g] = NULL
                      \/ g = handle_offset /\ ~AnyNew' /\ g_handle_to_block[g] \notin Live'
    BY <1>1, <1>5 DEF ReuseOK
  <2>1. ~Did("F", n) /\ ~(pos > 0 /\ n = line.h)
    BY <1>17
  <2>2. CASE g = handle
    <3>1. n = line.h
      BY <2>2, <1>2, <1>3
    <3>2. pos = 0 /\ Leftover
      BY <2>1, <3>1, <1>2, <1>5
    <3>3. ~AnyNew'
      BY <3>2, <1>5 DEF AnyNew
    <3>4. b = NULL \/ handle = handle_offset
      <4>1. line.h > 0 => handle > handle_offset
        BY <1>2, <1>3
      <4>2. line.h > 0 => b = NULL
        BY <4>1, <3>2, <1>2, <1>6 DEF FreshOK
      <4> QED BY <4>2, <1>2, <1>3
    <3> QED BY <2>2, <3>3, <3>4, <1>9
  <2>3. CASE g # handle
    <3>1. \/ g \in Sized \/ g_handle_to_block[g] = NULL
          \/ g = handle_offset /\ ~AnyNew /\ g_handle_to_block[g] \notin Live
      BY <2>1, <1>5, <1>6 DEF ReuseOK
    <3> QED BY <3>1, <2>3, <1>9, <1>17
  <2> QED BY <2>2, <2>3
<1>23. LastOK'
  <2> SUFFICES ASSUME NEW g \in Handles, NEW n, n = highest_handle_no, g = handle_offset + n,
                      Did("N", n)'
               PROVE  g \in Sized' \/ g_handle_to_block[g] \notin Live'
    BY <1>1 DEF LastOK
  <2>1. Did("N", n)
    BY <1>17
  <2>2. g \in Sized \/ g_handle_to_block[g] \notin Live
    BY <2>1, <1>6 DEF LastOK
  <2> QED BY <2>2, <1>9
<1>24. OpenOK'
  <2> SUFFICES ASSUME NEW g \in Handles, NEW n, n = g - handle_offset, g >= handle_offset,
                      Did("N", n)', ~Did("F", n)'
               PROVE  g \in Sized'
    BY <1>1 DEF OpenOK
  <2>1. Did("N", n) /\ ~Did("F", n) /\ ~(pos > 0 /\ n = line.h)
    BY <1>17
  <2>2. g \in Sized
    BY <2>1, <1>6 DEF OpenOK
  <2>3. pos > 0
    BY <2>1, <1>2, <1>5 DEF Did
  <2>4. g # handle
    BY <2>1, <2>3, <1>2, <1>3
  <2> QED BY <2>2, <2>4, <1>9
<1>25. TablesOK'
  BY <1>20, <1>21, <1>22, <1>23, <1>24 DEF TablesOK
<1>26. PeakOK'
  <2> SUFFICES ASSUME mode = "peakmem" PROVE PeakOK'
    BY <1>1 DEF PeakOK
  <2>1. /\ \A c \in Live : owner[c] \in Sized /\ g_handle_to_block[owner[c]] = c
        /\ \A h \in Sized : Did("N", h)
        /\ pinned = {c \in Live : LockedBy(owner[c])}
    BY <1>3 DEF IInv, PeakOK
  <2>2. handle \in Sized
    BY <1>7 DEF IInv, ControlOK
  <2>3. \A c \in Live' : owner'[c] \in Sized' /\ g_handle_to_block'[owner'[c]] = c
    BY <1>1, <1>9, <1>11, <2>1, <2>2
  <2>4. \A h \in Sized' : Did("N", h)'
    BY <1>9, <1>17, <2>1
  <2>5. pinned' = {c \in Live' : LockedBy(owner[c])'}
    BY <1>9, <1>11, <1>17, <2>1, <2>2
  <2> QED BY <2>3, <2>4, <2>5 DEF PeakOK
<1>27. ColorsOK'
  <2> SUFFICES ASSUME mode = "memplot", ~g_has_compacted
               PROVE  /\ {w \in Words : colormap'[w] = "red"} = Occupied'
                      /\ \A h \in Sized' : g_handle_to_address'[h] = addr'[g_handles'[h]]
    BY <1>1 DEF ColorsOK, Words
  <2> DEFINE a == g_handle_to_address[handle]
             size == g_sizes[handle]
  <2>1. /\ {w \in Words : colormap[w] = "red"} = Occupied
        /\ \A h \in Sized : g_handle_to_address[h] = addr[g_handles[h]]
    BY <1>1 DEF IInv, ColorsOK
  <2>2. \A w \in Words : colormap'[w] = IF a # NULL /\ w \in BlockWords(a, size) THEN "green"
                                        ELSE colormap[w]
    BY <1>1 DEF register_op
  <2>3. \A h \in Sized' : g_handle_to_address'[h] = addr'[g_handles'[h]]
    BY <1>1, <1>9, <2>1
  <2>4. CASE handle \in Sized
    <3>1. a = addr[b] /\ a # NULL
      BY <1>11, <2>1, <2>4 DEF IInv, TypesMore, Live
    <3>2. Occupied' = Occupied \ BlockWords(a, size)
      BY <1>11, <2>4, <3>1
    <3> QED BY <2>1, <2>2, <2>3, <3>1, <3>2
  <2>5. CASE handle \notin Sized
    <3>1. a # NULL => a \in Nat
      BY <1>2 DEF IInv, TypeOK, Words
    <3>2. a # NULL => BlockWords(a, size) = {}
      BY <1>12, <2>5, <3>1 DEF BlockWords
    <3> QED BY <1>12, <2>1, <2>2, <2>3, <2>5, <3>2
  <2> QED BY <2>4, <2>5
<1>28. LocksReachLive' /\ (mode' # "peakmem" => pinned' = {})
  BY <1>1, <1>11, <1>12 DEF IInv, LocksReachLive
<1> QED BY <1>9, <1>13, <1>14, <1>15, <1>16, <1>18, <1>19, <1>25, <1>26, <1>27, <1>28 DEF IInv

-----------------------------------------------------------------------------
(* Results *)

\* Nothing happens.
LEMMA StutterInv == ASSUME IInv, UNCHANGED vars PROVE IInv'
<1>1. UNCHANGED <<file, closed, pos, line, mode, pc, handle, highest_handle_no, handle_offset, killed,
                  rewinds, current_op, used, g_handles, g_sizes, g_handle_to_address, colormap,
                  g_handle_to_block, g_has_compacted, len, addr, pinned, top, owner, fault>>
  BY DEF vars, fileVars, countVars, tableVars, heapVars
<1>2. TypeOK' /\ TypesMore'
  <2>1. g_has_compacted' \in BOOLEAN /\ closed' \in BOOLEAN
    BY <1>1 DEF IInv, TypesMore
  <2> QED BY <1>1, <2>1 DEF IInv, TypeOK, TypesMore, Handles, Words
<1>3. Past' = Past /\ Base' = Base /\ (Leftover' <=> Leftover) /\ (InOp' <=> InOp)
  BY <1>1 DEF Past, Base, Leftover, InOp
<1>4. /\ \A h : Did("N", h)' <=> Did("N", h)
      /\ \A h : Did("F", h)' <=> Did("F", h)
      /\ \A h : LockedBy(h)' <=> LockedBy(h)
      /\ AnyNew' <=> AnyNew
  BY <1>1, <1>3, SamePast
<1>5. Live' = Live /\ Occupied' = Occupied /\ HeapOK' /\ TraceOK' /\ HighestOK'
  BY <1>1, SameHeap, SameTrace DEF IInv
<1>6. Sized' = Sized
  BY <1>1 DEF Sized
<1>7. ControlOK' /\ BoundsOK'
  BY <1>1, <1>3, <1>4 DEF IInv, ControlOK, BoundsOK
<1>8. TablesOK'
  <2>1. TablesAgree'
    BY <1>1, <1>5, <1>6 DEF IInv, TablesOK, TablesAgree
  <2>2. pc # "done" => FreshOK' /\ LastOK' /\ OpenOK'
    BY <1>1, <1>3, <1>4, <1>5, <1>6 DEF IInv, TablesOK, FreshOK, LastOK, OpenOK
  <2>3. pc # "done" => ReuseOK'
    BY <1>1, <1>3, <1>4, <1>5, <1>6 DEF IInv, TablesOK, ReuseOK
  <2> QED BY <1>1, <2>1, <2>2, <2>3 DEF TablesOK
<1>9. UsedOK' /\ PeakOK'
  BY <1>1, <1>4, <1>5, <1>6 DEF IInv, UsedOK, PeakOK
<1>10. ColorsOK' /\ LocksReachLive' /\ (mode' # "peakmem" => pinned' = {})
  BY <1>1, <1>5, <1>6 DEF IInv, ColorsOK, LocksReachLive, Words
<1> QED BY <1>2, <1>5, <1>7, <1>8, <1>9, <1>10 DEF IInv

\* The invariant holds at the start, and every action and every pause keeps it.
THEOREM Inductive == Spec => []IInv
<1>1. Init => IInv
  BY InitInv
<1>2. IInv /\ [Next]_vars => IInv'
  <2> SUFFICES ASSUME IInv, [Next]_vars PROVE IInv'
    OBVIOUS
  <2>1. CASE UNCHANGED vars
    BY <2>1, StutterInv
  <2>2. CASE ReadLine \/ EofPeakmem \/ EofAllocstats \/ EofMemplot
    BY <2>2, ReadLineInv, EofPeakmemInv, EofAllocstatsInv, EofMemplotInv
  <2>3. CASE KillHandle \/ KillEnds \/ KillDivides
    BY <2>3, KillHandleInv, KillEndsInv, KillDividesInv
  <2>4. CASE OpNew \/ Retry \/ OpFree \/ OpLock
    BY <2>4, OpNewInv, RetryInv, OpFreeInv, OpLockInv
  <2>5. CASE MoveBlock \/ CompactEnds
    BY <2>5, MoveBlockInv, CompactEndsInv
  <2>6. CASE MaxMemFound \/ MaxMemNone
    BY <2>6, MaxMemFoundInv, MaxMemNoneInv
  <2> QED BY <2>1, <2>2, <2>3, <2>4, <2>5, <2>6 DEF Next
<1> QED BY <1>1, <1>2, PTL DEF Spec

\* Types: no handle number, address, size or counter leaves its range, however
\* often the trace starts over.
THEOREM TypeCorrect == Spec => []TypeOK
<1>1. IInv => TypeOK
  BY DEF IInv
<1> QED BY <1>1, Inductive, PTL

\* For every trace the tables of plot.cpp and of the driver agree with each other and
\* with the allocator until calculate_maxmem overwrites the driver's.
THEOREM TablesStayTrue == Spec => []TablesAgree
<1>1. IInv => TablesAgree
  BY DEF IInv, TablesOK
<1> QED BY <1>1, Inductive, PTL

\* current_used_space is the number of words in live blocks.
THEOREM UsedSpace == Spec => []UsedSpaceExact
<1>1. IInv => UsedSpaceExact
  <2> SUFFICES ASSUME IInv, mode = "allocstats", pc \notin {"oom", "retry", "done", "exit"}
               PROVE  used = Cardinality(Occupied)
    BY DEF UsedSpaceExact
  <2>1. used = Cardinality(Occupied) + 0
    BY DEF IInv, UsedOK
  <2>2. Cardinality(Occupied) \in Nat
    BY OccupiedFinite DEF IInv
  <2> QED BY <2>1, <2>2
<1> QED BY <1>1, Inductive, PTL

\* Outside memplot every lock and unlock reaches a live block.
THEOREM LocksSafe == Spec => []LocksReachLive
<1>1. IInv => LocksReachLive
  BY DEF IInv
<1> QED BY <1>1, Inductive, PTL

\* In peakmem the blocks the allocator must not move are those the trace has locked.
THEOREM LocksAsTraced == Spec => []LocksFollowTrace
<1>1. IInv => LocksFollowTrace
  <2> SUFFICES ASSUME IInv, mode = "peakmem", pc \in {"read", "final"}
               PROVE  pinned = {b \in Live :
                          \E i \in 1..pos :
                            /\ file[i].op = "L" /\ file[i].h = owner[b]
                            /\ \A j \in (i + 1)..pos : ~(file[j].op = "U" /\ file[j].h = owner[b])}
    BY DEF LocksFollowTrace
  <2>1. pinned = {b \in Live : LockedBy(owner[b])}
    BY DEF IInv, PeakOK
  <2>2. Past = 1..pos /\ pos \in Nat
    BY DEF Past, InOp, IInv, TypesMore
  <2>3. \A i \in 1..pos : \A j : j \in (i + 1)..pos <=> j \in 1..pos /\ j > i
    BY <2>2
  <2>4. \A h : LockedBy(h) <=>
            \E i \in 1..pos : /\ file[i].op = "L" /\ file[i].h = h
                              /\ \A j \in (i + 1)..pos : ~(file[j].op = "U" /\ file[j].h = h)
    BY <2>2, <2>3 DEF LockedBy
  <2> QED BY <2>1, <2>4
<1> QED BY <1>1, Inductive, PTL

\* Until the first compaction memplot paints exactly the words of live blocks red.
THEOREM ColorsRight == Spec => []ColorsExact
<1>1. IInv => ColorsExact
  BY DEF IInv, ColorsOK, ColorsExact
<1> QED BY <1>1, Inductive, PTL

\* A step that leaves the sizes of live blocks alone frees none.
LEMMA NoneFreed ==
    ASSUME IInv, \A b \in Live : len'[b] = len[b], NEW b \in Live
    PROVE  len'[b] # 0
BY DEF Live, IInv, TypesMore

\* A block that user_free frees for a handle is that handle's own.
LEMMA OwnFreed ==
    ASSUME IInv, pc # "done", NEW h \in Handles, Freed(h),
           h \in Sized \/ g_handle_to_block[h] \notin Live,
           g_sizes' = [g_sizes EXCEPT ![h] = 0],
           NEW b \in Live, len'[b] = 0
    PROVE  /\ g_sizes[owner[b]] = len[b] /\ g_sizes'[owner[b]] = 0
           /\ g_handle_to_block[owner[b]] = b
<1>1. /\ h \in Sized => LET c == g_handle_to_block[h] IN
                 /\ c \in Live /\ owner[c] = h /\ len[c] = g_sizes[h] /\ Live' = Live \ {c}
      /\ h \notin Sized => len' = len
      /\ g_sizes' \in [Handles -> Sizes \cup {0}]
  BY FreeTables
<1>2. h \in Sized
  BY <1>1, NoneFreed
<1>3. b \notin Live'
  BY DEF Live
<1>4. g_sizes'[h] = 0
  BY <1>1, <1>2 DEF IInv, TypeOK
<1> QED BY <1>1, <1>2, <1>3, <1>4

\* Only the free of a line and the kills before a rewind free blocks, each the block of
\* its handle.
LEMMA FreeStep ==
    ASSUME IInv, Next, NEW b \in Live, len'[b] = 0
    PROVE  /\ g_sizes[owner[b]] = len[b] /\ g_sizes'[owner[b]] = 0
           /\ g_handle_to_block[owner[b]] = b
<1> USE Consts
<1>1. CASE ReadLine \/ EofPeakmem \/ EofAllocstats \/ EofMemplot \/ KillEnds \/ KillDivides \/ MaxMemNone
  <2>1. len' = len
    BY <1>1 DEF ReadLine, EofPeakmem, EofAllocstats, EofMemplot, KillEnds, KillDivides, MaxMemNone,
                heapVars
  <2> QED BY <2>1, NoneFreed
<1>2. CASE MoveBlock \/ CompactEnds \/ OpLock
  <2>1. len' = len
    BY <1>2 DEF MoveBlock, CompactEnds, OpLock
  <2> QED BY <2>1, NoneFreed
<1>3. CASE OpNew \/ Retry
  <2>1. /\ line.size \in Nat /\ line.size > 0 /\ handle \in Int
    <3>1. pc \in {"op", "retry"} /\ line.op = "N"
      BY <1>3 DEF OpNew, Retry, IInv, ControlOK
    <3> QED BY <3>1, HandleRange DEF IInv, ControlOK, InOp, TypeOK
  <2>2. CASE UNCHANGED heapVars
    BY <2>2, NoneFreed DEF heapVars
  <2>3. CASE \E c \in FreeBlocks, a \in Places(line.size) : user_malloc(line.size, handle, c, a)
    <3>1. PICK c \in FreeBlocks, a \in Places(line.size) : user_malloc(line.size, handle, c, a)
      BY <2>3
    <3>2. \A d \in Live : len'[d] = len[d]
      BY <2>1, <3>1, MallocHeap
    <3> QED BY <3>2, NoneFreed
  <2> QED BY <1>3, <2>2, <2>3 DEF OpNew, Retry
<1>4. CASE MaxMemFound
  <2>1. PICK i \in 0..HeapSize :
          /\ g_theoretical_free_space - i * MAXMEM_STEP > 0
          /\ \E c \in FreeBlocks, a \in Places(g_theoretical_free_space - i * MAXMEM_STEP) :
                user_malloc(g_theoretical_free_space - i * MAXMEM_STEP,
                            g_theoretical_free_space - i, c, a)
    BY <1>4 DEF MaxMemFound
  <2> DEFINE size == g_theoretical_free_space - i * MAXMEM_STEP
             h == g_theoretical_free_space - i
  <2>2. PICK c \in FreeBlocks, a \in Places(size) : user_malloc(size, h, c, a)
    BY <2>1
  <2>3. size \in Nat /\ size > 0 /\ h \in Int
    BY <2>1 DEF g_theoretical_free_space, MAXMEM_STEP, IInv, TypeOK
  <2> HIDE DEF size, h
  <2>4. \A d \in Live : len'[d] = len[d]
    BY <2>2, <2>3, MallocHeap
  <2> QED BY <2>4, NoneFreed
<1>5. CASE KillHandle
  <2>1. PICK h \in Sized : Freed(h) /\ g_sizes' = [g_sizes EXCEPT ![h] = 0]
    BY <1>5 DEF KillHandle, user_free, Freed, Live
  <2>2. h \in Handles /\ pc # "done"
    BY <1>5 DEF Sized, KillHandle
  <2> QED BY <2>1, <2>2, OwnFreed
<1>6. CASE OpFree
  <2>1. /\ Freed(handle) /\ g_sizes' = [g_sizes EXCEPT ![handle] = 0] /\ handle \in Handles
        /\ handle \in Sized \/ g_handle_to_block[handle] \notin Live
    BY <1>6, FreeFinds DEF OpFree, user_free, Freed, Live, IInv, TypeOK
  <2>2. pc # "done"
    BY <1>6 DEF OpFree
  <2> QED BY <2>1, <2>2, OwnFreed
<1> QED BY <1>1, <1>2, <1>3, <1>4, <1>5, <1>6 DEF Next

\* No free, of a leftover line or by a kill, ever takes the block of another handle.
THEOREM FreesOwn == Spec => FreeOnlyOwn
<1>1. IInv /\ [Next]_vars =>
        [\A b \in Live : len'[b] = 0 =>
            /\ g_sizes[owner[b]] = len[b] /\ g_sizes'[owner[b]] = 0
            /\ g_handle_to_block[owner[b]] = b]_vars
  BY FreeStep
<1> QED BY <1>1, Inductive, PTL DEF Spec, FreeOnlyOwn

=============================================================================
