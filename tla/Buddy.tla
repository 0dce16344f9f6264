-------------------------------- MODULE Buddy --------------------------------
(***************************************************************************)
(* The prototype buddy allocator (src/src/buddy/buddy.c).                  *)
(*                                                                         *)
(* groot heads a chain of lines, one per power of two; the line of size    *)
(* 2^k holds a list of chunks, each with two nibbles a and b of that size. *)
(* A nibble is NULL, free, used by the client or split into a chunk of the *)
(* line below.  balloc and bfree are empty in the source, so the client is *)
(* the one its tests are: request a chunk, flag one of its nibbles used,   *)
(* clear the flag again, and ask for merges.                               *)
(*                                                                         *)
(* Addresses count MIN_CHUNK_SIZE units from the start of the heap.        *)
(***************************************************************************)
EXTENDS Integers, Sequences, SequencesExt, FiniteSets, FiniteSetsExt

CONSTANTS
    RootK,      \* groot->k: the heap has 2^RootK units
    MaxChunks   \* bound on the chunks ever put on one line

ASSUME RootKNat == RootK \in Nat
ASSUME MaxChunksPos == MaxChunks \in Nat \ {0}

VARIABLES
    lines,  \* free_list of each line; a line that was never made is empty
    got,    \* <<k, i>>: the chunk the last call returned, or <<>> for NULL
    held,   \* ghost: the nibbles <<k, address>> the client has in use
    fault   \* ghost: what a merge did to memory that was not its own

vars == <<lines, got, held, fault>>

NULL == -1
Ks == 0..RootK

\* pow(2, k), in units of MIN_CHUNK_SIZE
chunk_size[k \in Nat] == IF k = 0 THEN 1 ELSE 2 * chunk_size[k - 1]

Units == 0..(chunk_size[RootK] - 1)

Nibbles == {"a", "b"}
UsedFlag == [a |-> "A_USED", b |-> "B_USED"]
SplitFlag == [a |-> "A_SPLIT", b |-> "B_SPLIT"]
LeftFlag == [a |-> "A1_ELSEWHERE", b |-> "B1_ELSEWHERE"]
RightFlag == [a |-> "A2_ELSEWHERE", b |-> "B2_ELSEWHERE"]
Flags == UNION {{f.a, f.b} : f \in {UsedFlag, SplitFlag, LeftFlag, RightFlag}}

Chunk == [a : Units \cup {NULL}, b : Units \cup {NULL}, flags : SUBSET Flags]

-----------------------------------------------------------------------------
(* Helpers *)

\* make_chunk_item, filled in
ChunkItem(a, b, flags) == [a |-> a, b |-> b, flags |-> flags]

\* destroy_chunk_item is called but not defined: as the tests have it, the item
\* stays on its line without memory
destroyed_chunk_item == ChunkItem(NULL, NULL, {})

\* Mutant: a nibble in use counts as free
ci_free_used(c, n) == c[n] # NULL /\ SplitFlag[n] \notin c.flags

\* ci_a_free and ci_b_free; the ELSEWHERE flags are not looked at
ci_free(c, n) == /\ c[n] # NULL
                 /\ UsedFlag[n] \notin c.flags
                 /\ SplitFlag[n] \notin c.flags

\* ci_set_flag, for each of a set of flags
ci_set_flag(c, flags) == [c EXCEPT !.flags = @ \cup flags]

HasFree(c) == \E n \in Nibbles : ci_free(c, n)

\* find_free_chunk: index of the first chunk of line k with a free nibble
FreeChunks(k) == {i \in DOMAIN lines[k] : HasFree(lines[k][i])}
find_free_chunk(k) == IF FreeChunks(k) = {} THEN 0 ELSE Min(FreeChunks(k))

\* Mutant: only the a nibbles of the parents are looked at
parent_chunk_a(k, c) == SelectInSeq(lines[k], LAMBDA p : c.a = p.a)

\* parent_chunk: the first chunk of line k one of whose nibbles starts where
\* c's a does, or 0
parent_chunk(k, c) ==
    SelectInSeq(lines[k], LAMBDA p : c.a = p.a \/ c.a = p.b)

\* The nibble split_chunk_item takes: a if it is free, else b
SplitNibble(c) == IF ci_free(c, "a") THEN "a" ELSE "b"

\* Mutant: the second nibble is placed by the size of the line above
SplitDown_size(k, i, targetk) ==
    LET n == SplitNibble(lines[k][i])
        m == lines[k][i][n]
    IN  [j \in Ks |->
            CASE j = k -> [lines[k] EXCEPT ![i].flags = @ \cup {SplitFlag[n]}]
              [] j \in targetk..(k - 1) ->
                    Append(lines[j],
                           ChunkItem(m, m + chunk_size[j + 1],
                                     IF j > targetk THEN {"A_SPLIT"} ELSE {}))
              [] OTHER -> lines[j]]

\* Mutant: the chunk that is split keeps its flags
SplitDown_noflag(k, i, targetk) ==
    LET m == lines[k][i][SplitNibble(lines[k][i])]
    IN  [j \in Ks |->
            IF j \in targetk..(k - 1)
              THEN Append(lines[j],
                          ChunkItem(m, m + chunk_size[j],
                                    IF j > targetk THEN {"A_SPLIT"} ELSE {}))
              ELSE lines[j]]

\* The lines after splitting down from chunk i of line k to line targetk:
\* every line in between gets a chunk at the same address, split in its turn
SplitDown(k, i, targetk) ==
    LET n == SplitNibble(lines[k][i])
        m == lines[k][i][n]
    IN  [j \in Ks |->
            CASE j = k -> [lines[k] EXCEPT ![i].flags = @ \cup {SplitFlag[n]}]
              [] j \in targetk..(k - 1) ->
                    Append(lines[j],
                           ChunkItem(m, m + chunk_size[j],
                                     IF j > targetk THEN {"A_SPLIT"} ELSE {}))
              [] OTHER -> lines[j]]

\* The line below k+1 a request may append to
HasRoom(k) == Len(lines[k]) < MaxChunks

-----------------------------------------------------------------------------
(* Operations *)

\* binit: the root line holds one chunk whose a is the heap and whose b is NULL
Init ==
    /\ lines = [k \in Ks |-> IF k = RootK THEN <<ChunkItem(0, NULL, {})>> ELSE <<>>]
    /\ got = <<>>
    /\ held = {}
    /\ fault = "none"

\* request_chunk when line targetk has a chunk to offer
RequestFound(targetk) ==
    /\ find_free_chunk(targetk) # 0
    /\ got' = <<targetk, find_free_chunk(targetk)>>
    /\ UNCHANGED <<lines, held, fault>>

\* request_chunk when the lowest line above targetk with a free chunk is split
\* down; without one the request fails
RequestSplit(targetk) ==
    LET above == {k \in Ks : k > targetk /\ find_free_chunk(k) # 0}
        k == Min(above)
    IN  /\ find_free_chunk(targetk) = 0
        /\ IF above = {}
             THEN got' = <<>> /\ UNCHANGED lines
             ELSE /\ \A j \in targetk..(k - 1) : HasRoom(j)
                  /\ lines' = SplitDown(k, find_free_chunk(k), targetk)
                  /\ got' = <<targetk, Len(lines[targetk]) + 1>>
        /\ UNCHANGED <<held, fault>>

request_chunk(targetk) == RequestFound(targetk) \/ RequestSplit(targetk)

\* ci_set_flag by the client: a free nibble of the chunk it was given is used
Use(n) ==
    /\ got # <<>>
    /\ LET k == got[1] i == got[2] IN
        /\ ci_free(lines[k][i], n)
        /\ lines' = [lines EXCEPT ![k][i].flags = @ \cup {UsedFlag[n]}]
        /\ held' = held \cup {<<k, lines[k][i][n]>>}
    /\ UNCHANGED <<got, fault>>

\* ci_clear_flag by the client, of a nibble it holds
Unuse(k, i, n) ==
    /\ i \in DOMAIN lines[k]
    /\ UsedFlag[n] \in lines[k][i].flags
    /\ <<k, lines[k][i][n]>> \in held
    /\ lines' = [lines EXCEPT ![k][i].flags = @ \ {UsedFlag[n]}]
    /\ held' = held \ {<<k, lines[k][i][n]>>}
    /\ UNCHANGED <<got, fault>>

\* merge_nibbles(parent, c, c) can give chunk i of line k back to its parent
Mergeable(k, i) ==
    /\ i \in DOMAIN lines[k]
    /\ \A n \in Nibbles : ci_free(lines[k][i], n)
    /\ lines[k][i].a + chunk_size[k] = lines[k][i].b
    /\ parent_chunk(k + 1, lines[k][i]) # 0

\* merge_nibbles(parent, c, c): the parent's chunk gets both nibbles back.  All
\* of its flags are cleared, those of its other nibble included.
MergeWithin(k, i) ==
    LET p == parent_chunk(k + 1, lines[k][i])
        other == IF lines[k + 1][p].a = lines[k][i].a THEN "b" ELSE "a"
        lost == lines[k + 1][p].flags \cap {UsedFlag[other], SplitFlag[other]}
    IN  /\ Mergeable(k, i)
        /\ lines' = [lines EXCEPT ![k + 1][p].flags = {},
                                  ![k][i] = destroyed_chunk_item]
        /\ got' = <<k + 1, p>>
        /\ fault' = IF lost = {} THEN fault ELSE "sibling flags lost"
        /\ UNCHANGED held

\* The ELSEWHERE flag a merge sets for chunk c in its parent p: the first
\* comparison is with the parent pc1 of the call's first chunk, whichever c is
ElsewhereFlag(c, p, pc1, flag) ==
    IF c.a = pc1.a THEN {flag["a"]} ELSE IF c.a = p.b THEN {flag["b"]} ELSE {}

\* merge_nibbles(parent, c1, c2) where the b of the left chunk l is followed by
\* the a of the right chunk r (c1 is l, or r if swapped): a chunk for the
\* joined memory is put on the parent's line.  The two nibbles stay free where
\* they are, only their parents are flagged.
MergeAcross(k, l, r, swapped) ==
    LET left == lines[k][l]
        right == lines[k][r]
        pl == parent_chunk(k + 1, left)
        pr == parent_chunk(k + 1, right)
        pc1 == lines[k + 1][IF swapped THEN pr ELSE pl]
        lflag == ElsewhereFlag(left, lines[k + 1][pl], pc1, RightFlag)
        rflag == ElsewhereFlag(right, lines[k + 1][pr], pc1, LeftFlag)
    IN  /\ {l, r} \subseteq DOMAIN lines[k] /\ l # r
        /\ ci_free(left, "b") /\ ci_free(right, "a")
        /\ left.b + chunk_size[k] = right.a
        /\ pl # 0 /\ pr # 0
        /\ HasRoom(k + 1)
        /\ lines' = [lines EXCEPT
                        ![k + 1] = Append([p \in DOMAIN @ |->
                            ci_set_flag(@[p], (IF p = pl THEN lflag ELSE {})
                                              \cup (IF p = pr THEN rflag ELSE {}))],
                            ChunkItem(left.b, NULL, {}))]
        /\ got' = <<k + 1, Len(lines[k + 1]) + 1>>
        /\ fault' = "free on two lines"
        /\ UNCHANGED held

\* merge_nibbles as a whole; a call that can merge nothing changes nothing
merge_nibbles(k, i1, i2) ==
    \/ i1 = i2 /\ MergeWithin(k, i1)
    \/ MergeAcross(k, i1, i2, FALSE)
    \/ MergeAcross(k, i2, i1, TRUE)

Next ==
    \/ \E k \in Ks : request_chunk(k)
    \/ \E n \in Nibbles : Use(n)
    \/ \E k \in Ks, i \in 1..MaxChunks, n \in Nibbles : Unuse(k, i, n)
    \/ \E k \in 0..(RootK - 1), i, j \in 1..MaxChunks : merge_nibbles(k, i, j)

Spec == Init /\ [][Next]_vars

-----------------------------------------------------------------------------
(* Properties *)

\* Chunks, flags and the chunk returned last have the shapes the C types give
\* them, on every line and after every merge.
TypeOK ==
    /\ lines \in [Ks -> Seq(Chunk)]
    /\ \A k \in Ks : Len(lines[k]) <= MaxChunks
    /\ got # <<>> => got[1] \in Ks /\ got[2] \in DOMAIN lines[got[1]]
    /\ held \subseteq Ks \X Units
    /\ fault \in {"none", "sibling flags lost", "free on two lines"}

\* The nibbles <<k, i, n>> with memory that is not split further
Leaves == {l \in UNION {{k} \X (DOMAIN lines[k]) \X Nibbles : k \in Ks} :
              LET c == lines[l[1]][l[2]] IN
                c[l[3]] # NULL /\ SplitFlag[l[3]] \notin c.flags}

Memory(k, address) == address..(address + chunk_size[k] - 1)
LeafMemory(l) == Memory(l[1], lines[l[1]][l[2]][l[3]])
FreeLeaves == {l \in Leaves : ci_free(lines[l[1]][l[2]], l[3])}

\* Splits and merges move memory between lines and lose none: every unit of
\* the heap is in exactly one nibble that is free or used (request_chunk,
\* split_chunk_item, merge_nibbles), as long as no merge joined nibbles of two
\* chunks or cleared the flags of a nibble it did not merge.
LeavesTile ==
    fault = "none" => \A u \in Units : Cardinality({l \in Leaves : u \in LeafMemory(l)}) = 1

\* Every merge so far joined the two nibbles of one chunk, and nothing was
\* flagged in the other nibble of the parent, whose flags merge_nibbles clears.
CleanMerges == fault = "none"

\* What the client has marked used is memory of its own: it overlaps nothing
\* else the client has marked and no nibble that request_chunk would still hand
\* out ("A and B used => new chunk").  merge_nibbles does not see to that: with
\* the flags of the parent it clears the mark of a nibble that is in use.
HeldSafe ==
    \A h \in held :
        /\ \A g \in held \ {h} : Memory(h[1], h[2]) \cap Memory(g[1], g[2]) = {}
        /\ \A l \in FreeLeaves : Memory(h[1], h[2]) \cap LeafMemory(l) = {}

\* When nothing is in use and no chunk can be merged into its parent any more,
\* the heap is one free chunk again.
MergedBack ==
    /\ held = {}
    /\ \A k \in 0..(RootK - 1), i \in 1..MaxChunks : ~Mergeable(k, i)
    => Leaves = {<<RootK, 1, "a">>} /\ FreeLeaves = Leaves

\* Requests, splits, marks and merges keep what the client has marked used
\* apart from the rest, as long as no merge joined nibbles of two chunks or
\* cleared the flags of a nibble it did not merge.  After such a merge memory
\* in use can be handed out again, see HeldSafe.
HeldSafeIfClean == CleanMerges => HeldSafe

\* Splits can be undone from the bottom up: parent_chunk finds the chunk that
\* was split.  Again only as long as no merge joined nibbles of two chunks or
\* cleared the flags of a nibble it did not merge.  When both nibbles of a chunk
\* are split, the first merge below one of them clears the split mark of the
\* other, and what is below that one stays behind.
MergedBackIfClean == CleanMerges => MergedBack

=============================================================================
