------------------------------ MODULE ListSort ------------------------------
(***************************************************************************)
(* The merge sort rm_compact begins with (src/jeff/listsort.c): bottom-up, *)
(* in place, on the next pointers of the headers.  One action is one       *)
(* iteration of a loop of rm_header__sort.                                 *)
(*                                                                         *)
(* The headers are numbered by their place in the list that is passed in,  *)
(* 0 is a NULL rm_header_t pointer.  rm_header_sort_all passes a list that *)
(* is neither circular nor doubly linked.                                  *)
(***************************************************************************)
EXTENDS Integers, Sequences, FiniteSets

CONSTANTS
    MaxLen,          \* bound: the longest list
    MaxAddress       \* bound: the highest value of a memory pointer

ASSUME LimitsAssumption == MaxLen \in Nat \ {0} /\ MaxAddress \in Nat

NULL == 0

VARIABLES
    n, memory,       \* the headers and their memory pointers: the input
    next,            \* the next pointers
    list, tail,      \* first and last header of the merged list
    p, q,            \* what is left of the two runs that are merged ...
    psize, qsize,    \* ... and how many headers are left of each
    insize,          \* the length of a run
    nmerges,
    pc

input == <<n, memory>>
vars == <<input, next, list, tail, p, q, psize, qsize, insize, nmerges, pc>>

Init ==
    /\ n \in 1..MaxLen
    /\ memory \in [1..n -> 0..MaxAddress]
    /\ next = [h \in 1..n |-> IF h < n THEN h + 1 ELSE NULL]
    /\ list = 1 /\ tail = NULL /\ p = NULL /\ q = NULL
    /\ psize = 0 /\ qsize = 0 /\ insize = 1 /\ nmerges = 0
    /\ pc = "pass"

-----------------------------------------------------------------------------
\* A NULL memory pointer is infinitely large.
Key(h) == IF memory[h] = NULL THEN MaxAddress + 1 ELSE memory[h]

\* Mutant: equal headers change places.
CmpStrict(x, y) == Key(x) < Key(y)

\* cmp(x, y) <= 0
rm_header__cmp(x, y) == Key(x) <= Key(y)

PassBegins ==
    /\ pc = "pass"
    /\ p' = list /\ list' = NULL /\ tail' = NULL /\ nmerges' = 0
    /\ pc' = "runs"
    /\ UNCHANGED <<input, next, q, psize, qsize, insize>>

MergeBegins ==
    /\ pc = "runs" /\ p # NULL
    /\ nmerges' = nmerges + 1 /\ q' = p /\ psize' = 0
    /\ pc' = "step"
    /\ UNCHANGED <<input, next, list, tail, p, qsize, insize>>

\* Step along from p, until q is at the second run or has fallen off the end.
StepAlong ==
    /\ pc = "step"
    /\ psize' = psize + 1 /\ q' = next[q]
    /\ IF q' = NULL \/ psize' = insize
       THEN pc' = "merge" /\ qsize' = insize
       ELSE UNCHANGED <<pc, qsize>>
    /\ UNCHANGED <<input, next, list, tail, p, insize, nmerges>>

QLeft == qsize > 0 /\ q # NULL

\* Mutant: tail stays at the first header of the merged list.
LinkTailStays(e) ==
    /\ IF tail = NULL
       THEN list' = e /\ tail' = e /\ UNCHANGED next
       ELSE next' = [next EXCEPT ![tail] = e] /\ UNCHANGED <<list, tail>>
    /\ UNCHANGED <<input, insize, nmerges, pc>>

\* Add e to the merged list.
Link(e) ==
    /\ IF tail = NULL
       THEN list' = e /\ UNCHANGED next
       ELSE next' = [next EXCEPT ![tail] = e] /\ UNCHANGED list
    /\ tail' = e
    /\ UNCHANGED <<input, insize, nmerges, pc>>

TakeP ==
    /\ pc = "merge" /\ psize > 0 /\ (QLeft => rm_header__cmp(p, q))
    /\ p' = next[p] /\ psize' = psize - 1
    /\ Link(p)
    /\ UNCHANGED <<q, qsize>>

TakeQ ==
    /\ pc = "merge" /\ QLeft /\ (psize > 0 => ~rm_header__cmp(p, q))
    /\ q' = next[q] /\ qsize' = qsize - 1
    /\ Link(q)
    /\ UNCHANGED <<p, psize>>

MergeEnds ==
    /\ pc = "merge" /\ psize = 0 /\ ~QLeft
    /\ p' = q /\ pc' = "runs"
    /\ UNCHANGED <<input, next, list, tail, q, psize, qsize, insize, nmerges>>

\* Mutant: runs of the wrong length are taken for sorted.
Tripled == 3 * insize

\* Mutant: every pass merges runs of the same length.
NotDoubled == insize

Doubled == 2 * insize

\* The sort ends when there was only one merge to be done.
PassEnds ==
    /\ pc = "runs" /\ p = NULL
    /\ next' = [next EXCEPT ![tail] = NULL]
    /\ IF nmerges <= 1 THEN pc' = "done" /\ UNCHANGED insize
                       ELSE pc' = "pass" /\ insize' = Doubled
    /\ UNCHANGED <<input, list, tail, p, q, psize, qsize, nmerges>>

Next == \/ PassBegins \/ MergeBegins \/ StepAlong
        \/ TakeP \/ TakeQ \/ MergeEnds \/ PassEnds

\* The function runs to its end.
Spec == Init /\ [][Next]_vars /\ WF_vars(Next)

-----------------------------------------------------------------------------
(* Properties *)

\* Where h's next pointer leads.
Follow(h) == IF h = NULL THEN NULL ELSE next[h]

\* The first k headers of the list that begins with h.
Chain(k, h) ==
    LET walk[i \in 1..k] == IF i = 1 THEN h ELSE Follow(walk[i - 1])
    IN  [i \in {j \in 1..k : walk[j] # NULL} |-> walk[i]]

Members(s) == {s[i] : i \in DOMAIN s}

\* x comes before y in the sorted list: a lower address, or the same and an
\* earlier place in the list passed in.
SortsBefore(x, y) == Key(x) < Key(y) \/ (Key(x) = Key(y) /\ x < y)

\* While runs are merged, the merged list up to tail, the rest of the first run
\* and all that follows q together still are the whole list: relinking it in
\* place loses no header and links none twice.
NoneLost ==
    pc = "merge" =>
        \E d \in 0..n :
            LET done == Chain(d, list)
                all == done \o Chain(psize, p) \o Chain(n, q)
            IN  /\ Len(done) = d
                /\ tail = IF d = 0 THEN NULL ELSE done[d]
                /\ Len(all) = n /\ Members(all) = 1..n

\* Every pass finds sorted runs of insize headers, the last one shorter.
RunsSorted ==
    pc = "pass" =>
        LET s == Chain(n, list)
        IN  /\ Len(s) = n
            /\ \A run \in 0..n : \A i, j \in 1..n :
                 run * insize < i /\ i < j /\ j <= (run + 1) * insize
                     => SortsBefore(s[i], s[j])

\* The list that is returned holds all headers by ascending address, NULL
\* last, equal ones in their old order, and ends there.
SortedStable ==
    pc = "done" =>
        LET s == Chain(n + 1, list)
        IN  /\ Len(s) = n
            /\ \A i \in 1..n :
                 i = 1 + Cardinality({h \in 1..n : SortsBefore(h, s[i])})

\* The sort comes to an end.
Terminates == <>(pc = "done")

=============================================================================
