------------------------------ MODULE KVCells ------------------------------
(***************************************************************************)
(* The metadata of the cells of one stream of the KV cache                 *)
(* (llama.cpp/src/llama-kv-cells.h): which position each cell holds, by    *)
(* how much it was moved since the keys were last rotated, the sequences   *)
(* that use it, and for each sequence a count of the positions present,    *)
(* which every operation keeps up to date by increments and decrements of  *)
(* its own.  An operator does at once what the C++ method does cell by     *)
(* cell for a set I of cells.  The set `used' is the cells with a position *)
(* and is computed from them.                                              *)
(***************************************************************************)
EXTENDS Integers, Sequences, FiniteSets, SequencesExt

CONSTANTS NCells,    \* cells of a stream
          NSeqs,     \* sequences
          PosMax     \* bound: largest position

ASSUME CellsAssumption == NCells \in Nat \ {0} /\ NSeqs \in Nat \ {0} /\ PosMax \in Nat

Cells == 0 .. NCells - 1
Seqs == 0 .. NSeqs - 1
Positions == 0 .. PosMax
None == -1

\* A stream: pos, shift and seq of each cell, seq_pos of each sequence, has_shift.
Streamed == [pos: [Cells -> Positions \cup {None}],
             shift: [Cells -> -PosMax .. PosMax],
             seq: [Cells -> SUBSET Seqs],
             seqPos: [Seqs -> [Positions -> Nat]],
             hasShift: BOOLEAN]

Blank == [pos |-> [i \in Cells |-> None],
          shift |-> [i \in Cells |-> 0],
          seq |-> [i \in Cells |-> {}],
          seqPos |-> [s \in Seqs |-> [p \in Positions |-> 0]],
          hasShift |-> FALSE]

ResetShift(c) == [c EXCEPT !.hasShift = FALSE, !.shift = [i \in Cells |-> 0]]

IsEmpty(c, i) == c.pos[i] = None
Occupied(c) == {i \in Cells : ~IsEmpty(c, i)}
Used(c) == Cardinality(Occupied(c))
PosIn(c, p0, p1) == {i \in Cells : c.pos[i] >= p0 /\ c.pos[i] < p1}
SeqHas(c, s) == {i \in Cells : s \in c.seq[i]}

Present(c, s) == {p \in Positions : c.seqPos[s][p] > 0}
SeqPosMin(c, s) == IF Present(c, s) = {} THEN None ELSE Min(Present(c, s))
SeqPosMax(c, s) == IF Present(c, s) = {} THEN None ELSE Max(Present(c, s))

-----------------------------------------------------------------------------
\* seq_pos_inc, seq_pos_dec, seq_pos_add and seq_pos_rm: each cell of I counts
\* once for each of its sequences that is in S.
At(c, I, S, s, p) == Cardinality({i \in I : s \in S \cap c.seq[i] /\ c.pos[i] = p})

Counted(c, I, S) ==
    [c EXCEPT !.seqPos = [s \in Seqs |-> [p \in Positions |-> @[s][p] + At(c, I, S, s, p)]]]

Uncounted(c, I, S) ==
    [c EXCEPT !.seqPos = [s \in Seqs |-> [p \in Positions |-> @[s][p] - At(c, I, S, s, p)]]]

Emptied(c, I) ==
    [c EXCEPT !.pos = [i \in Cells |-> IF i \in I THEN None ELSE @[i]],
              !.shift = [i \in Cells |-> IF i \in I THEN 0 ELSE @[i]],
              !.seq = [i \in Cells |-> IF i \in I THEN {} ELSE @[i]]]

\* rm: the cells of I, not empty, lose all their sequences.
Rm(c, I) == Emptied(Uncounted(c, I, Seqs), I)

\* As SeqRmCells, but every sequence of the cell is taken out of the count.
SeqRmCells_All(c, I, s) ==
    LET d == [Uncounted(c, I, Seqs) EXCEPT
                !.seq = [i \in Cells |-> IF i \in I THEN @[i] \ {s} ELSE @[i]]]
    IN  Emptied(d, {i \in I : d.seq[i] = {}})

\* seq_rm: the cells of I, which hold s, lose it.
SeqRmCells(c, I, s) ==
    LET d == [Uncounted(c, I, {s}) EXCEPT
                !.seq = [i \in Cells |-> IF i \in I THEN @[i] \ {s} ELSE @[i]]]
    IN  Emptied(d, {i \in I : d.seq[i] = {}})

\* As SeqKeepCells, but s is not counted again where it stays.
SeqKeepCells_Quiet(c, s) ==
    LET d == [Uncounted(c, Cells, Seqs) EXCEPT !.seq = [i \in Cells |-> @[i] \cap {s}]]
    IN  Emptied(d, {i \in Cells : d.seq[i] = {}})

\* seq_keep: every cell keeps s at most.
SeqKeepCells(c, s) ==
    LET d == [Uncounted(c, Cells, Seqs) EXCEPT !.seq = [i \in Cells |-> @[i] \cap {s}]]
    IN  Emptied(Counted(d, Cells, {s}), {i \in Cells : d.seq[i] = {}})

\* seq_add: the cells of I are used by s too.
SeqAddCells(c, I, s) ==
    Counted([c EXCEPT !.seq = [i \in Cells |-> IF i \in I THEN @[i] \cup {s} ELSE @[i]]], I, {s})

\* pos_add: the cells of I move by d; a cell that would get a negative
\* position is emptied.
PosAddCells(c, I, d) ==
    LET away == {i \in I : c.pos[i] + d < 0}
        moved == [Uncounted(c, I, Seqs) EXCEPT
                    !.pos = [i \in Cells |-> IF i \in I THEN @[i] + d ELSE @[i]],
                    !.shift = [i \in Cells |-> IF i \in I THEN @[i] + d ELSE @[i]],
                    !.hasShift = @ \/ I # {}]
    IN  Counted(Emptied(moved, away), I \ away, Seqs)

\* pos_div: the position is divided and the shift grows by the old position
\* less the new one.
PosDivCells(c, I, d) ==
    LET moved == [Uncounted(c, I, Seqs) EXCEPT
                    !.pos = [i \in Cells |-> IF i \in I THEN @[i] \div d ELSE @[i]],
                    !.shift = [i \in Cells |-> IF i \in I THEN @[i] + c.pos[i] - c.pos[i] \div d
                                                          ELSE @[i]],
                    !.hasShift = @ \/ I # {}]
    IN  Counted(moved, I, Seqs)

\* set: the cells of I get the position and the sequences they have in old.
SetCells(c, I, old) ==
    Counted([Uncounted(c, I, Seqs) EXCEPT
               !.pos = [i \in Cells |-> IF i \in I THEN old.pos[i] ELSE @[i]],
               !.seq = [i \in Cells |-> IF i \in I THEN old.seq[i] ELSE @[i]]], I, Seqs)

\* pos_set and seq_add for the k-th token in the k-th of the empty cells idxs.
Placed(c, idxs, toks) ==
    LET at(i) == CHOOSE k \in 1 .. Len(idxs) : idxs[k] = i
    IN  Counted([c EXCEPT
                   !.pos = [i \in Cells |-> IF i \in ToSet(idxs) THEN toks[at(i)].pos ELSE @[i]],
                   !.seq = [i \in Cells |-> IF i \in ToSet(idxs) THEN toks[at(i)].seqs ELSE @[i]]],
                ToSet(idxs), Seqs)
=============================================================================
