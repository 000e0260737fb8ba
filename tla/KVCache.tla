------------------------------ MODULE KVCache ------------------------------
(***************************************************************************)
(* The KV cache of a context (llama.cpp/src/llama-kv-cache.cpp) and the    *)
(* part of llama_context::decode that drives it (llama-context.cpp).  The  *)
(* cache keeps the keys and values of the tokens of several sequences in   *)
(* the cells of one stream that all share, or of one stream for each       *)
(* sequence.  What a sequence operation does to the metadata it does at    *)
(* once; rotating the keys and copying a stream wait for the next decode.  *)
(* A batch is first placed as a whole, one ubatch after the other, then    *)
(* taken back, then applied and computed ubatch by ubatch.                 *)
(*                                                                         *)
(* The client is one thread.  What it may ask is bounded by what the       *)
(* header, the asserts of the code and the callers of this repository      *)
(* require; these conditions are named Client...                           *)
(***************************************************************************)
EXTENDS KVCells

CONSTANTS NUbatch,    \* n_ubatch: most tokens computed at once
          NBatch,     \* bound: tokens of a batch
          Toks,       \* what a token can be
          MaxOps      \* bound: calls of the client

ASSUME CacheAssumption ==
    NUbatch \in Nat \ {0} /\ NBatch \in Nat /\ MaxOps \in Nat /\ "zero" \notin Toks

VARIABLES
    unified,   \* one stream for all the sequences, or one each
    nSwa,      \* width of the sliding window, 0 when attention sees everything
    cells,     \* v_cells: stream -> its metadata
    heads,     \* v_heads: stream -> where the next search begins
    copies,    \* sc_info: the pairs <<source, destination>> of streams to copy
    keys,      \* stream -> cell -> the token stored and the position its key is rotated to
    batch,     \* the ubatches to compute, each with the cells found for it
    refused,   \* the ubatches, if that was the last call, that decode had no place for
    saved,     \* a saved sequence: its cells in order
    want,      \* history: sequence -> the <<position, token, kept>> the client left in it;
               \* not kept are the positions up to the last that prepare has purged
    ops        \* calls made

conf == <<unified, nSwa>>
cache == <<cells, heads, copies, keys>>
vars == <<conf, cache, batch, refused, saved, want, ops>>

Streams == IF unified THEN {0} ELSE Seqs
StreamOf(s) == IF unified THEN 0 ELSE s
OfSeq(s) == cells[StreamOf(s)]
Infinity == PosMax + 1
Blanked == [tok |-> "zero", at |-> 0]

Start ==
    /\ cells = [st \in Streams |-> Blank]
    /\ heads = [st \in Streams |-> 0]
    /\ copies = <<>>
    /\ keys = [st \in Streams |-> [i \in Cells |-> Blanked]]
    /\ batch = <<>> /\ refused = <<>> /\ saved = <<>> /\ ops = 0
    /\ want = [s \in Seqs |-> {}]

Init == unified \in BOOLEAN /\ nSwa \in Nat /\ Start

-----------------------------------------------------------------------------
\* The operations on sequences.

\* The first cell that c has and d has no more becomes the head if it comes before it.
Freed(c, d) == Occupied(c) \ Occupied(d)
Lowered(head, c, d) ==
    IF Freed(c, d) # {} /\ Min(Freed(c, d)) < head THEN Min(Freed(c, d)) ELSE head

SeqRmOf(c, s, p0, p1) == SeqRmCells(c, PosIn(c, p0, p1) \cap SeqHas(c, s), s)

\* A call changes the metadata of stream st to c, and the head.
Becomes(st, c, head) ==
    /\ cells' = [cells EXCEPT ![st] = c]
    /\ heads' = [heads EXCEPT ![st] = head]
    /\ UNCHANGED <<copies, keys>>

Asked == batch = <<>> /\ ops < MaxOps /\ ops' = ops + 1 /\ UNCHANGED conf
Call == Asked /\ refused' = <<>> /\ UNCHANGED batch
Outside(W, p0, p1) == {w \in W : ~(w[1] >= p0 /\ w[1] < p1)}

Clear ==
    /\ Call
    /\ cells' = [st \in Streams |-> Blank]
    /\ heads' = [st \in Streams |-> 0]
    /\ keys' = [st \in Streams |-> [i \in Cells |-> Blanked]]
    /\ want' = [s \in Seqs |-> {}]
    /\ UNCHANGED <<copies, saved>>

\* A server rolls a sequence back, in a window, only while what the next token
\* sees is still there (server.cpp).
ClientMayRm(s, p0, p1) ==
    nSwa > 0 => /\ p1 = Infinity
                /\ p0 = 0 \/ SeqPosMin(OfSeq(s), s) <= (IF p0 > nSwa THEN p0 - nSwa ELSE 0)

SeqRm(s, p0, p1) ==
    /\ Call /\ ClientMayRm(s, p0, p1)
    /\ LET c == OfSeq(s)
           d == SeqRmOf(c, s, p0, p1)
       IN  Becomes(StreamOf(s), d, Lowered(heads[StreamOf(s)], c, d))
    /\ want' = [want EXCEPT ![s] = Outside(@, p0, p1)]
    /\ UNCHANGED saved

\* seq_rm for any sequence.
RmAll(p0, p1) ==
    /\ Call
    /\ \A s \in Seqs : ClientMayRm(s, p0, p1)
    /\ cells' = [st \in Streams |-> Rm(cells[st], PosIn(cells[st], p0, p1))]
    /\ heads' = [st \in Streams |-> Lowered(heads[st], cells[st], cells'[st])]
    /\ want' = [s \in Seqs |-> Outside(want[s], p0, p1)]
    /\ UNCHANGED <<copies, keys, saved>>

\* The assert of seq_add: the cells copied are not of the destination yet, and
\* no other of its cells has their positions.  In a window a sequence is copied
\* whole.
ClientMayCp(dst, I, p0, p1) ==
    LET c == OfSeq(dst)
    IN  /\ {c.pos[i] : i \in I} \cap {c.pos[i] : i \in SeqHas(c, dst)} = {}
        /\ nSwa > 0 => p0 = 0 /\ p1 = Infinity /\ SeqHas(c, dst) = {}

SeqCp(src, dst, p0, p1) ==
    /\ Call /\ StreamOf(src) = StreamOf(dst) /\ src # dst
    /\ LET c == OfSeq(src)
           I == PosIn(c, p0, p1) \cap SeqHas(c, src)
       IN  ClientMayCp(dst, I, p0, p1) /\ Becomes(StreamOf(dst), SeqAddCells(c, I, dst), heads[StreamOf(dst)])
    /\ want' = [want EXCEPT ![dst] = @ \cup (want[src] \ Outside(want[src], p0, p1))]
    /\ UNCHANGED saved

\* As Copied, but the cells are set where they are and the shift is forgotten.
Copied_Unshifted(c, src, dst) ==
    LET I == SeqHas(c, src)
    IN  SeqAddCells([Blank EXCEPT !.pos = [i \in Cells |-> IF i \in I THEN c.pos[i] ELSE None]], I, dst)

\* Between streams: the whole buffer, copied at the next update.  The cells are
\* set where the source's keys are and moved by its shift.
Copied(c, src, dst) ==
    LET I == SeqHas(c, src)
        there == [Blank EXCEPT !.pos = [i \in Cells |-> IF i \in I THEN c.pos[i] - c.shift[i] ELSE None]]
        placed == SeqAddCells(there, I, dst)
        moved == {i \in I : c.shift[i] # 0}
    IN  FoldSet(LAMBDA i, d : PosAddCells(d, {i}, c.shift[i]), placed, moved)

StreamCp(src, dst) ==
    /\ Call /\ StreamOf(src) # StreamOf(dst)
    /\ copies' = Append(copies, <<src, dst>>)
    /\ cells' = [cells EXCEPT ![dst] = Copied(cells[src], src, dst)]
    /\ heads' = [heads EXCEPT ![dst] = heads[src]]
    /\ want' = [want EXCEPT ![dst] = want[src]]
    /\ UNCHANGED <<keys, saved>>

SeqKeep(s) ==
    /\ Call
    /\ LET c == OfSeq(s)
           d == SeqKeepCells(c, s)
       IN  Becomes(StreamOf(s), d, Lowered(heads[StreamOf(s)], c, d))
    /\ want' = [t \in Seqs |-> IF t = s \/ StreamOf(t) # StreamOf(s) THEN want[t] ELSE {}]
    /\ UNCHANGED saved

\* The cells that move, to the positions to, are of no other sequence and meet no
\* other position.
ClientMayMove(s, to) ==
    LET c == OfSeq(s)
        stay == {c.pos[i] : i \in SeqHas(c, s) \ DOMAIN to}
    IN  /\ \A i \in DOMAIN to : c.seq[i] = {s} /\ to[i] <= PosMax /\ to[i] \notin stay
        /\ \A i, j \in DOMAIN to : i # j => to[i] # to[j]

SeqAdd(s, p0, p1, shift) ==
    /\ Call /\ shift # 0 /\ p0 # p1
    /\ LET c == OfSeq(s)
           I == PosIn(c, p0, p1) \cap SeqHas(c, s)
           d == PosAddCells(c, I, shift)
       IN  /\ ClientMayMove(s, [i \in I |-> c.pos[i] + shift])
           /\ Becomes(StreamOf(s), d, IF Freed(c, d) = {} THEN 0 ELSE Min(Freed(c, d)))
    /\ want' = [want EXCEPT ![s] = Outside(@, p0, p1)
                   \cup {<<w[1] + shift, w[2], w[3]>> : w \in {v \in @ \ Outside(@, p0, p1) : v[1] + shift >= 0}}]
    /\ UNCHANGED saved

SeqDiv(s, p0, p1, d) ==
    /\ Call /\ d # 1 /\ p0 # p1
    /\ LET c == OfSeq(s)
           I == PosIn(c, p0, p1) \cap SeqHas(c, s)
       IN  /\ ClientMayMove(s, [i \in I |-> c.pos[i] \div d])
           /\ Becomes(StreamOf(s), PosDivCells(c, I, d), heads[StreamOf(s)])
    /\ want' = [want EXCEPT ![s] = Outside(@, p0, p1)
                   \cup {<<w[1] \div d, w[2], w[3]>> : w \in @ \ Outside(@, p0, p1)}]
    /\ UNCHANGED saved

-----------------------------------------------------------------------------
\* Where a ubatch goes.

\* is_masked_swa of the standard window.
Masked(p0, p1) == nSwa > 0 /\ p1 - p0 >= nSwa

CanUse(c, i) ==
    \/ IsEmpty(c, i)
    \/ \E s \in Seqs : c.seq[i] = {s} /\ Masked(c.pos[i], SeqPosMax(c, s) + 1)

\* As FindSlot, but the search ends at the last cell.
FindSlot_Ahead(c, head, n, cont) ==
    LET first == IF head > Used(c) + 2 * n \/ head = NCells THEN 0 ELSE head
        order == [k \in 1 .. NCells - first |-> first + k - 1]
        free == SelectSeq(order, LAMBDA i : CanUse(c, i))
        runs == SelectSeq(order, LAMBDA i : i + n <= NCells /\ \A j \in i .. i + n - 1 : CanUse(c, j))
    IN  IF cont THEN IF runs = <<>> THEN <<>> ELSE [k \in 1 .. n |-> runs[1] + k - 1]
                ELSE IF Len(free) < n THEN <<>> ELSE SubSeq(free, 1, n)

\* find_slot in one stream: n cells, side by side if cont, from the head on and
\* around; <<>> when there are none.
FindSlot(c, head, n, cont) ==
    LET first == IF head > Used(c) + 2 * n \/ head = NCells THEN 0 ELSE head
        order == [k \in 1 .. NCells |-> (first + k - 1) % NCells]
        free == SelectSeq(order, LAMBDA i : CanUse(c, i))
        runs == SelectSeq(order, LAMBDA i : i + n <= NCells /\ \A j \in i .. i + n - 1 : CanUse(c, j))
    IN  IF cont THEN IF runs = <<>> THEN <<>> ELSE [k \in 1 .. n |-> runs[1] + k - 1]
                ELSE IF Len(free) < n THEN <<>> ELSE SubSeq(free, 1, n)

\* The largest position of s among the cells overwritten.
RmMax(c, taken, s) == Max({c.pos[i] : i \in {j \in taken : s \in c.seq[j]}} \cup {None})

\* The sequences whose cells were overwritten lose every lower position.
Purged(c, lost) ==
    FoldSet(LAMBDA s, d : SeqRmOf(d, s, 0, lost[s] + 1), c, {s \in Seqs : lost[s] # None})

\* As Applied, but only what was in the cells is gone.
Applied_Over(c, idxs, toks) == Placed(Rm(c, ToSet(idxs) \cap Occupied(c)), idxs, toks)

\* apply_ubatch in one stream, and the head after it.
Applied(c, idxs, toks) ==
    LET taken == ToSet(idxs) \cap Occupied(c)
    IN  Purged(Placed(Rm(c, taken), idxs, toks), [s \in Seqs |-> RmMax(c, taken, s)])

\* A ubatch is a sequence of parts [strm, toks], a slot the cells of each part;
\* k is the metadata and the heads of all streams.
Slot(k, ub) ==
    LET found == [j \in DOMAIN ub |-> FindSlot(k.cells[ub[j].strm], k.heads[ub[j].strm], Len(ub[j].toks), FALSE)]
    IN  IF \E j \in DOMAIN ub : found[j] = <<>> THEN <<>> ELSE found

Apply(k, ub, slot) ==
    FoldSet(LAMBDA j, m :
              [cells |-> [m.cells EXCEPT ![ub[j].strm] = Applied(@, slot[j], ub[j].toks)],
               heads |-> [m.heads EXCEPT ![ub[j].strm] = Last(slot[j]) + 1]],
            k, DOMAIN ub)

\* As Try, but the states are kept in the order they were left.
Try_InOrder(m, ub) ==
    LET slot == IF m.ok THEN Slot(m.k, ub) ELSE <<>>
    IN  IF slot = <<>> THEN [m EXCEPT !.ok = FALSE]
        ELSE [ok |-> TRUE,
              k |-> Apply(m.k, ub, slot),
              slots |-> Append(m.slots, slot),
              states |-> Append(m.states, [k |-> m.k, ub |-> ub, slot |-> slot])]

\* One ubatch of prepare: a place for it, what the place held, the ubatch put there.
Try(m, ub) ==
    LET slot == IF m.ok THEN Slot(m.k, ub) ELSE <<>>
    IN  IF slot = <<>> THEN [m EXCEPT !.ok = FALSE]
        ELSE [ok |-> TRUE,
              k |-> Apply(m.k, ub, slot),
              slots |-> Append(m.slots, slot),
              states |-> <<[k |-> m.k, ub |-> ub, slot |-> slot]>> \o m.states]

\* The cells of the slot as they were, and heads: v_heads_old is a copy of the heads of
\* all streams, and is read at the number of the part, not of its stream.
Restored(k, state) ==
    FoldSet(LAMBDA j, m :
              LET st == state.ub[j].strm
              IN  [cells |-> [m.cells EXCEPT ![st] = SetCells(@, ToSet(state.slot[j]), state.k.cells[st])],
                   heads |-> [m.heads EXCEPT ![st] = state.k.heads[j - 1]]],
            k, DOMAIN state.ub)

Prepare(k, ubs) ==
    LET m == FoldLeft(Try, [ok |-> TRUE, k |-> k, slots |-> <<>>, states |-> <<>>], ubs)
    IN  [ok |-> m.ok, slots |-> m.slots, k |-> FoldLeft(Restored, m.k, m.states)]

-----------------------------------------------------------------------------
\* Decoding a batch.

\* update: the streams are copied in the order asked for, then the keys rotated
\* by the shifts.
CopiedKeys == FoldLeft(LAMBDA d, c : [d EXCEPT ![c[2]] = d[c[1]]], keys, copies)
ShiftedKeys(d) ==
    [st \in Streams |-> [i \in Cells |-> [d[st][i] EXCEPT !.at = @ + cells[st].shift[i]]]]

\* What prepare takes from sequence s when it changes its stream from c to d: placing a
\* later ubatch in a window purges cells that the tokens before it still see.
LostUpTo(ubs, c, d, s) ==
    IF nSwa > 0 /\ Len(ubs) > 1 THEN Max((Present(c, s) \ Present(d, s)) \cup {None}) ELSE None

\* decode begins: the pending update, then prepare; without a place it returns 1.
Begin(ubs) ==
    LET k == [cells |-> [st \in Streams |-> ResetShift(cells[st])], heads |-> heads]
        found == Prepare(k, ubs)
    IN  /\ keys' = ShiftedKeys(CopiedKeys)
        /\ copies' = <<>>
        /\ cells' = found.k.cells /\ heads' = found.k.heads
        /\ batch' = IF found.ok THEN [j \in DOMAIN ubs |-> [ub |-> ubs[j], slot |-> found.slots[j]]]
                                ELSE <<>>
        /\ refused' = IF found.ok THEN <<>> ELSE ubs
        /\ want' = [s \in Seqs |->
                      {<<w[1], w[2], w[3] /\ w[1] > LostUpTo(ubs, OfSeq(s), cells'[StreamOf(s)], s)>> :
                          w \in want[s]}]
        /\ UNCHANGED saved

\* n tokens t for the sequences of S, after what they hold.
NextPos(s) == SeqPosMax(OfSeq(s), s) + 1
Tokens(S, n, t) == [k \in 1 .. n |-> [seqs |-> S, pos |-> NextPos(Min(S)) + k - 1, tok |-> t]]

\* split_simple, and split_equal for the streams of S.
SplitSimple(toks) ==
    LET n == Len(toks)
    IN  [j \in 1 .. (n + NUbatch - 1) \div NUbatch |->
           <<[strm |-> 0,
              toks |-> SubSeq(toks, (j - 1) * NUbatch + 1, IF j * NUbatch < n THEN j * NUbatch ELSE n)]>>]
SplitEqual(S, n, t) ==
    LET order == SetToSortSeq(S, LAMBDA a, b : a < b)
        each == NUbatch \div Cardinality(S)
    IN  [j \in 1 .. (n + each - 1) \div each |->
           [q \in 1 .. Len(order) |->
             [strm |-> order[q],
              toks |-> SubSeq(Tokens({order[q]}, n, t), (j - 1) * each + 1, IF j * each < n THEN j * each ELSE n)]]]

\* The positions of a batch follow those of the cache, and coupled sequences
\* have the same.
BatchOk(S, n) ==
    /\ \A s \in S : NextPos(s) + n - 1 <= PosMax
    /\ \A s, u \in S : SeqPosMin(OfSeq(s), s) = SeqPosMin(OfSeq(u), u) /\ NextPos(s) = NextPos(u)

\* One sequence, or several coupled, or one after the other in one batch.
DecodeSimple(S, n, t) ==
    Asked /\ unified /\ BatchOk(S, n) /\ Begin(SplitSimple(Tokens(S, n, t)))

DecodePair(s, n, u, m, t) ==
    /\ Asked /\ unified /\ s < u /\ n + m <= NBatch
    /\ BatchOk({s}, n) /\ BatchOk({u}, m)
    /\ Begin(SplitSimple(Tokens({s}, n, t) \o Tokens({u}, m, t)))

DecodeStreams(S, n, t) ==
    /\ Asked /\ ~unified
    /\ Cardinality(S) <= NUbatch /\ Cardinality(S) * n <= NBatch
    /\ \A a \in S, b \in S, c \in Seqs : a < c /\ c < b => c \in S
    /\ \A s \in S : BatchOk({s}, n)
    /\ Begin(SplitEqual(S, n, t))

Written(ub, slot) ==
    [st \in Streams |-> [i \in Cells |->
       IF \E j \in DOMAIN ub : ub[j].strm = st /\ i \in ToSet(slot[j])
       THEN LET j == CHOOSE j \in DOMAIN ub : ub[j].strm = st
                q == CHOOSE q \in DOMAIN slot[j] : slot[j][q] = i
            IN  [tok |-> ub[j].toks[q].tok, at |-> ub[j].toks[q].pos]
       ELSE keys[st][i]]]

TokensOf(ub) == UNION {ToSet(ub[j].toks) : j \in DOMAIN ub}

\* process_ubatch: applied and computed.
Process ==
    /\ batch # <<>>
    /\ LET ub == Head(batch).ub
           k == Apply([cells |-> cells, heads |-> heads], ub, Head(batch).slot)
       IN  /\ cells' = k.cells /\ heads' = k.heads
           /\ keys' = Written(ub, Head(batch).slot)
           /\ want' = [s \in Seqs |-> want[s]
                         \cup {<<t.pos, t.tok, TRUE>> : t \in {t \in TokensOf(ub) : s \in t.seqs}}]
    /\ batch' = Tail(batch)
    /\ UNCHANGED <<conf, copies, refused, saved, ops>>

\* The computation fails or is aborted: the first sequence of each token loses
\* its positions from the first of the ubatch on; the rest of the batch is given up.
FirstSeqs(ub) == {Min(t.seqs) : t \in TokensOf(ub)}
FromPos(ub, s) == Min({t.pos : t \in {t \in TokensOf(ub) : Min(t.seqs) = s}})
RolledBack(k, ub) ==
    FoldSet(LAMBDA s, m :
              LET st == StreamOf(s)
                  d == SeqRmOf(m.cells[st], s, FromPos(ub, s), Infinity)
              IN  [cells |-> [m.cells EXCEPT ![st] = d],
                   heads |-> [m.heads EXCEPT ![st] = Lowered(@, m.cells[st], d)]],
            k, FirstSeqs(ub))

ComputeFails ==
    /\ batch # <<>>
    /\ LET ub == Head(batch).ub
           k == RolledBack(Apply([cells |-> cells, heads |-> heads], ub, Head(batch).slot), ub)
       IN  /\ cells' = k.cells /\ heads' = k.heads
           /\ keys' \in {keys, Written(ub, Head(batch).slot)}
    /\ batch' = <<>>
    /\ UNCHANGED <<conf, copies, refused, saved, want, ops>>

-----------------------------------------------------------------------------
\* A sequence saved and brought back.

\* The callers of this repository save and restore with no update pending.
ClientUpToDate == copies = <<>> /\ \A st \in Streams : ~cells[st].hasShift

Save(s) ==
    /\ Call /\ ClientUpToDate /\ SeqHas(OfSeq(s), s) # {}
    /\ saved' = LET c == OfSeq(s)
                    idxs == SetToSortSeq(SeqHas(c, s), LAMBDA i, j : i < j)
                IN  [k \in DOMAIN idxs |-> [pos |-> c.pos[idxs[k]], key |-> keys[StreamOf(s)][idxs[k]]]]
    /\ UNCHANGED <<cache, want>>

\* state_read: the sequence is removed, a run of cells is found for what was
\* saved, the keys are read from the head on.  Without a run it stays removed.
Restore(s) ==
    /\ Call /\ ClientUpToDate /\ saved # <<>>
    /\ LET st == StreamOf(s)
           n == Len(saved)
           toks == [k \in 1 .. n |-> [seqs |-> {s}, pos |-> saved[k].pos]]
           c == SeqRmOf(cells[st], s, 0, Infinity)
           head == Lowered(heads[st], cells[st], c)
           idxs == FindSlot(c, head, n, TRUE)
       IN  IF idxs = <<>>
           THEN Becomes(st, c, head) /\ want' = [want EXCEPT ![s] = {}]
           ELSE /\ cells' = [cells EXCEPT ![st] = Applied(c, idxs, toks)]
                /\ heads' = [heads EXCEPT ![st] = idxs[1]]
                /\ keys' = [keys EXCEPT ![st] = [i \in Cells |->
                              IF i \in heads'[st] .. heads'[st] + n - 1 THEN saved[i - heads'[st] + 1].key
                              ELSE @[i]]]
                /\ want' = [want EXCEPT ![s] = {<<saved[k].pos, saved[k].key.tok, TRUE>> : k \in 1 .. n}]
                /\ UNCHANGED copies
    /\ UNCHANGED saved

-----------------------------------------------------------------------------
Ranges == {<<p0, p1>> \in (0 .. PosMax) \X (1 .. Infinity) : p0 < p1}

Edit ==
    \/ Clear
    \/ \E s \in Seqs, r \in Ranges : SeqRm(s, r[1], r[2])
    \/ \E r \in Ranges : RmAll(r[1], r[2])
    \/ \E s, u \in Seqs, r \in Ranges : SeqCp(s, u, r[1], r[2])
    \/ \E s, u \in Seqs : StreamCp(s, u)
    \/ \E s \in Seqs : SeqKeep(s)

Move == \E s \in Seqs, r \in Ranges, d \in {-1, 1, 2} : SeqAdd(s, r[1], r[2], d)

Divide == \E s \in Seqs, r \in Ranges : SeqDiv(s, r[1], r[2], 2)

Decode ==
    \E t \in Toks, n \in 1 .. NBatch :
        \/ \E S \in SUBSET Seqs \ {{}} : DecodeSimple(S, n, t) \/ DecodeStreams(S, n, t)
        \/ \E s, u \in Seqs, m \in 1 .. NBatch : DecodePair(s, n, u, m, t)

Exchange == \E s \in Seqs : Save(s) \/ Restore(s)

Next == Edit \/ Move \/ Divide \/ Decode \/ Exchange \/ Process \/ ComputeFails
Spec == Init /\ [][Next]_vars
-----------------------------------------------------------------------------
\* Types of the cache and of what waits for it.
TypeOK ==
    /\ unified \in BOOLEAN /\ nSwa \in Nat
    /\ cells \in [Streams -> Streamed] /\ heads \in [Streams -> 0 .. NCells]
    /\ copies \in Seq(Streams \X Streams)
    /\ keys \in [Streams -> [Cells -> [tok: Toks \cup {"zero"}, at: Positions]]]
    /\ want \in [Seqs -> SUBSET (Positions \X Toks \X BOOLEAN)]
    /\ ops \in 0 .. MaxOps

\* seq_pos counts, for every sequence and position, the cells that hold it
\* (llama-kv-cells.h:448-455): seq_pos_min and seq_pos_max, from which batches
\* are checked and cells recycled, are read from it and never from the cells.
PositionsCounted ==
    \A st \in Streams, s \in Seqs, p \in Positions :
        cells[st].seqPos[s][p] = Cardinality({i \in SeqHas(cells[st], s) : cells[st].pos[i] = p})

Left(W) == {<<w[1], w[2]>> : w \in W}

\* Once the pending copies and rotations are made, the key of every cell is
\* that of a token its sequences hold, rotated to the cell's position, for
\* whatever order of moves, copies, failures and restores.
KeysInPlace ==
    \A st \in Streams : \A i \in Occupied(cells[st]) :
        /\ CopiedKeys[st][i].at + cells[st].shift[i] = cells[st].pos[i]
        /\ \A s \in cells[st].seq[i] : <<cells[st].pos[i], CopiedKeys[st][i].tok>> \in Left(want[s])

\* The metadata is consistent in itself and with the keys.
CellsOK == TypeOK /\ PositionsCounted /\ KeysInPlace

\* The next token of a sequence attends to nothing but what the client left in it, each
\* once, and to all of that which the window does not mask (set_input_kq_mask); but where
\* placing the later ubatches of a batch has purged a token in a window (PrepareRestores),
\* that token and those before it may be missing.
AttentionComplete ==
    \A s \in Seqs :
        LET c == OfSeq(s)
            sees == {i \in SeqHas(c, s) : ~Masked(c.pos[i], NextPos(s))}
            seen == {<<c.pos[i], CopiedKeys[StreamOf(s)][i].tok>> : i \in sees}
        IN  /\ seen \subseteq Left(want[s])
            /\ Left({w \in want[s] : w[3] /\ ~Masked(w[1], NextPos(s))}) \subseteq seen
            /\ \A i, j \in sees : c.pos[i] = c.pos[j] => i = j

\* A step that has looked for places for a batch, and the ubatches of the batch.
Prepared == (batch = <<>> /\ batch' # <<>>) \/ refused' # <<>>
Ubatches == IF refused' # <<>> THEN refused' ELSE [j \in DOMAIN batch' |-> batch'[j].ub]
FirstStreams(ub) == {ub[j].strm : j \in DOMAIN ub} = 0 .. Len(ub) - 1

\* Finding places for a batch, found or not, leaves the cells as they were (prepare:
\* "restore the cells to their original state"), but for the shifts, which the update
\* before it applied; in a window it may empty cells and changes no other.  The heads
\* are as they were when the batch is for the first streams; otherwise a stream may
\* get the head of another, and no head is one that prepare itself has moved.
PrepareTransparent ==
    [][Prepared =>
         /\ nSwa = 0 => \A st \in Streams : cells'[st] = ResetShift(cells[st])
         /\ nSwa > 0 => \A st \in Streams, i \in Cells :
               /\ cells'[st].seq[i] \subseteq cells[st].seq[i]
               /\ cells'[st].seq[i] # {} => cells'[st].pos[i] = cells[st].pos[i]
         /\ FirstStreams(Ubatches[1]) => heads' = heads
         /\ \A st \in Streams : \E u \in Streams : heads'[st] = heads[u]]_vars

\* With a window the cells, too, are to be as they were (llama-kv-cache.cpp:571,
\* llama.h:858: "the memory state is restored to the state before this call").  The code
\* does not keep it: placing a ubatch also purges cells that are not in its slot, and only
\* the cells of the slots are put back.
PrepareRestores ==
    [][nSwa > 0 /\ Prepared =>
         heads' = heads /\ \A st \in Streams : cells'[st].pos = cells[st].pos]_vars

\* A batch is refused only when a stream has fewer cells to use than the batch
\* has tokens for it (llama.h, "could not find a KV slot for the batch"):
\* neither where the head is nor the split into ubatches makes it fail.
RefusedWhenFull ==
    [][refused' # <<>> =>
         \E j \in DOMAIN refused'[1] :
           LET c == cells[refused'[1][j].strm]
           IN  FoldFunction(+, 0, [u \in DOMAIN refused' |-> Len(refused'[u][j].toks)])
                 > Cardinality({i \in Cells : CanUse(c, i)})]_vars
=============================================================================
