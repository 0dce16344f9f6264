--------------------------- MODULE JeffImplements ---------------------------
(***************************************************************************)
(* jeff keeps the promise of a relocating allocator, up to the first fault *)
(* (after which the model stands still).  A step of the memmove loop is a  *)
(* Move, all other steps of rm_compact are invisible to the client.        *)
(***************************************************************************)
EXTENDS Jeff

Contents(h) == [i \in 0..(req[h] - 1) |-> cells[memory[h] + i]]

Promise == INSTANCE RelocHeap WITH
    Handles <- Headers,
    Space <- memory_bottom..(HeapSize - 1),
    len <- req,
    addr <- [h \in Headers |-> IF h \in Held THEN memory[h] ELSE NULL],
    data <- [h \in Headers |-> Contents(h)],
    pinned <- {h \in Held : type[h] # UNLOCKED}

\* What the client sees of rm_malloc, rm_free, the locks and rm_compact is an
\* allocator that hands out disjoint ranges inside the heap, moves only ranges
\* that are not locked, one at a time and never onto another, and keeps their
\* contents.
ImplementsRelocHeap == Promise!Spec
=============================================================================
