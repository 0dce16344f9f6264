----------------------------- MODULE RelocHeap ------------------------------
(***************************************************************************)
(* What a relocating allocator promises its client, without headers, slots *)
(* or free blocks: a handle stands for a range of bytes that no other      *)
(* handle shares and that keeps its contents; the range may move, except   *)
(* while the handle is pinned.                                             *)
(***************************************************************************)
EXTENDS Integers

CONSTANTS Handles, Space     \* Space: the addresses of the bytes of the heap

VARIABLES
    len,       \* handle -> bytes asked for, 0 if the handle is not in use
    addr,      \* handle -> address of the first byte
    data,      \* handle -> what the bytes hold
    pinned     \* handles whose block must not move

vars == <<len, addr, data, pinned>>

Live == {h \in Handles : len[h] > 0}
Range(h) == addr[h]..(addr[h] + len[h] - 1)

Same(h) == len'[h] = len[h] /\ addr'[h] = addr[h] /\ data'[h] = data[h]

\* All handles but h are left alone, and h's new range is apart from theirs.
Placed(h) ==
    /\ DOMAIN len' = Handles /\ DOMAIN addr' = Handles /\ DOMAIN data' = Handles
    /\ \A g \in Handles \ {h} : Same(g)
    /\ Range(h)' \subseteq Space
    /\ \A g \in Live \ {h} : Range(h)' \cap Range(g) = {}

Init ==
    /\ len = [h \in Handles |-> 0]
    /\ addr \in [Handles -> Int]
    /\ DOMAIN data = Handles
    /\ pinned = {}

Alloc(h) ==
    /\ h \notin Live /\ len'[h] \in Nat /\ Placed(h)
    /\ UNCHANGED pinned

Free(h) ==
    /\ h \in Live /\ len'[h] = 0
    /\ DOMAIN len' = Handles /\ DOMAIN addr' = Handles /\ DOMAIN data' = Handles
    /\ \A g \in Handles \ {h} : Same(g)
    /\ pinned' = pinned \ {h}

Move(h) ==
    /\ h \in Live \ pinned
    /\ len'[h] = len[h] /\ data'[h] = data[h] /\ Placed(h)
    /\ UNCHANGED pinned

Pin(h) == h \in Live /\ pinned' = pinned \cup {h} /\ UNCHANGED <<len, addr, data>>
Unpin(h) == h \in Live /\ pinned' = pinned \ {h} /\ UNCHANGED <<len, addr, data>>

Next == \E h \in Handles : Alloc(h) \/ Free(h) \/ Move(h) \/ Pin(h) \/ Unpin(h)

Spec == Init /\ [][Next]_vars

=============================================================================
