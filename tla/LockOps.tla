------------------------------- MODULE LockOps -------------------------------
(***************************************************************************)
(* From the list of operations to the files steve replays: once the trace  *)
(* has been read, translate-memtrace-to-ops.py writes <trace>-lockops and  *)
(* translate-ops-to-locking-lifetime.py writes <trace>-lockopsfull.  Both  *)
(* keep the N and F lines and guess when the program holds a block's       *)
(* address: the first by a lock for all of the block's life, the second by *)
(* a level that rises with the block's own operations and sinks with those *)
(* of others.                                                              *)
(*                                                                         *)
(* Lines are counted from 1; the level in units of SINK_SPEED.             *)
(***************************************************************************)
EXTENDS MemTrace, SequencesExt, FiniteSetsExt

VARIABLES translated, lockops, lockopsfull

lockVars == <<translated, lockops, lockopsfull>>

Lines == 1..Len(g_ops)

-----------------------------------------------------------------------------
(* translate-memtrace-to-ops.py *)

\* lifetime_ops after the first i operations: alive, own count, other count
lifetime_ops(mid) ==
    LET at[i \in 0..Len(g_ops)] ==
          IF i = 0 THEN [live |-> FALSE, own |-> 0, other |-> 0]
          ELSE LET op == g_ops[i] IN
               CASE op.op = "N" -> IF op.mid = mid THEN [live |-> TRUE, own |-> 0, other |-> 0]
                                   ELSE at[i - 1]
                 [] op.op = "F" -> IF op.mid = mid THEN [at[i - 1] EXCEPT !.live = FALSE]
                                   ELSE at[i - 1]
                 [] OTHER -> IF ~at[i - 1].live THEN at[i - 1]
                             ELSE IF op.mid = mid THEN [at[i - 1] EXCEPT !.own = @ + 1]
                             ELSE [at[i - 1] EXCEPT !.other = @ + 1]
    IN at[Len(g_ops)]

total_ops == Cardinality({i \in Lines : g_ops[i].op = "S"})

\* Mutant: the operations of others are not counted
ShortLived_own(mid) == 2 * lifetime_ops(mid).own < Max({1, total_ops})

\* macro[mid] < 0.5
ShortLived(mid) ==
    LET l == lifetime_ops(mid)
    IN  2 * (Max({1, l.own}) + l.other) < Max({1, total_ops})

\* Mutant: the lock precedes the N line
LockopsLines_order(op) ==
    IF op.op = "S" THEN <<>>
    ELSE IF op.op = "N" /\ ShortLived(op.mid) THEN <<Op(op.mid, "L", 0), op>>
    ELSE <<op>>

\* The lines an operation leaves in -lockops
LockopsLines(op) ==
    IF op.op = "S" THEN <<>>
    ELSE IF op.op = "N" /\ ShortLived(op.mid) THEN <<op, Op(op.mid, "L", 0)>>
    ELSE <<op>>

-----------------------------------------------------------------------------
(* translate-ops-to-locking-lifetime.py *)

FLOAT_SPEED == 2
SINK_SPEED == 1

g_stops == {mid \in Mids : OpIndices(mid, "F") # {}}
StartOf(mid) == Min(OpIndices(mid, "N"))
StopOf(mid) == Max(OpIndices(mid, "F"))

\* calculator: the level of a block that is freed, at each operation of its life
Life(mid) ==
    LET life[i \in StartOf(mid)..StopOf(mid)] ==
          IF i = StartOf(mid) THEN 0
          ELSE IF g_ops[i].mid = mid THEN life[i - 1] + FLOAT_SPEED
          ELSE IF life[i - 1] >= SINK_SPEED THEN life[i - 1] - SINK_SPEED
          ELSE life[i - 1]
    IN life

\* calculator: the lock and unlock operations where the level leaves or reaches 0
LockChanges(mid) ==
    LET life == Life(mid) IN
    {[i |-> i, mid |-> mid, op |-> IF life[i] > 0 THEN "L" ELSE "U"] :
        i \in {j \in (StartOf(mid) + 1)..(StopOf(mid) - 1) : (life[j] > 0) # (life[j - 1] > 0)}}

\* The changes of all blocks.  opsdict has one entry per index: that of the
\* highest handle, which is read in last.
AllChanges == UNION {LockChanges(mid) : mid \in g_stops}
opsdict(i) ==
    LET here == {c \in AllChanges : c.i = i}
    IN  {c \in here : \A d \in here : d.mid <= c.mid}

\* Mutant: both passes count from the same number
LockopsfullLines_late(i) ==
    SetToSeq({Op(c.mid, c.op, 0) : c \in opsdict(i - 1)})
        \o (IF g_ops[i].op = "S" THEN <<>> ELSE <<g_ops[i]>>)

\* The lines written for operation i: the second pass counts lines from 1 and
\* opsdict from 0, so that an entry precedes the operation it was computed for
LockopsfullLines(i) ==
    SetToSeq({Op(c.mid, c.op, 0) : c \in opsdict(i)})
        \o (IF g_ops[i].op = "S" THEN <<>> ELSE <<g_ops[i]>>)

-----------------------------------------------------------------------------
LockInit == Init /\ translated = FALSE /\ lockops = <<>> /\ lockopsfull = <<>>

Trace == ~translated /\ Next /\ UNCHANGED lockVars

\* The tools run over the whole list of operations
Translate ==
    /\ ~translated
    /\ translated' = TRUE
    /\ lockops' = FlattenSeq([i \in Lines |-> LockopsLines(g_ops[i])])
    /\ lockopsfull' = FlattenSeq([i \in Lines |-> LockopsfullLines(i)])
    /\ UNCHANGED vars

LockNext == Trace \/ Translate
LockSpec == LockInit /\ [][LockNext]_<<vars, lockVars>>

-----------------------------------------------------------------------------
(* Properties *)

\* lines of a file before position p that are about a handle
IsLine(file, p, mid, ops) == file[p].mid = mid /\ file[p].op \in ops

\* Without realloc both files are what steve expects: the N lines are numbered
\* 0, 1, 2, ... and a handle is not locked, unlocked or freed before its N line
\* or after its F line.
FilesReplayable ==
    translated /\ reallocs = 0 =>
        \A file \in {lockops, lockopsfull} :
            /\ \A p \in DOMAIN file : file[p].op = "N" =>
                  file[p].mid = Cardinality({q \in 1..(p - 1) : file[q].op = "N"})
            /\ \A p \in DOMAIN file : file[p].op # "N" =>
                  /\ \E q \in 1..(p - 1) : IsLine(file, q, file[p].mid, {"N"})
                  /\ \A q \in 1..(p - 1) : ~IsLine(file, q, file[p].mid, {"F"})

\* -lockops locks exactly the blocks in whose life, from N line to F line or
\* the end, less than half of all accesses fall (a block without an access of
\* its own is taken to have one).
ShortLivesLocked ==
    translated /\ reallocs = 0 =>
        \A mid \in Mids :
            LET stop == IF mid \in g_stops THEN StopOf(mid) ELSE Len(g_ops)
                within == {i \in StartOf(mid)..stop : g_ops[i].op = "S"}
                own == {i \in within : g_ops[i].mid = mid}
                n == Cardinality(within) + (IF own = {} THEN 1 ELSE 0)
            IN  (\E p \in DOMAIN lockops : IsLine(lockops, p, mid, {"L"}))
                    <=> 2 * n < Max({1, total_ops})

\* The operations lost in opsdict: two blocks' at the same index
Overridden(mid) == \E c \in LockChanges(mid) : c \notin opsdict(c.i)

\* The lines of -lockopsfull written when operation i has its turn
WrittenBy(i) == FlattenSeq([j \in 1..i |-> LockopsfullLines(j)])
LockedIn(file, mid) ==
    \E p \in DOMAIN file : /\ IsLine(file, p, mid, {"L"})
                           /\ \A q \in (p + 1)..Len(file) : ~IsLine(file, q, mid, {"U", "F"})

\* In -lockopsfull every access of a block that is freed later comes while the
\* block is locked, unless one of its operations was overridden by another
\* block's at the same index; and such a block's L and U lines alternate, from
\* an L line on.
AccessesLocked ==
    translated /\ reallocs = 0 =>
        \A mid \in {m \in g_stops : ~Overridden(m)} :
            /\ \A i \in OpIndices(mid, "S") : LockedIn(WrittenBy(i), mid)
            /\ \A p \in DOMAIN lockopsfull : IsLine(lockopsfull, p, mid, {"L", "U"}) =>
                  LET before == {q \in 1..(p - 1) : IsLine(lockopsfull, q, mid, {"L", "U"})}
                      locked == before # {} /\ lockopsfull[Max(before)].op = "L"
                  IN  lockopsfull[p].op = IF locked THEN "U" ELSE "L"
=============================================================================
