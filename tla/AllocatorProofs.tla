-------------------------- MODULE AllocatorProofs ---------------------------
(***************************************************************************)
(* The allocator of ggml-alloc.c keeps exact track of memory, for every    *)
(* alignment, list of sizes and graph, and any number of graphs.           *)
(*                                                                         *)
(* The argument.  An operation on the free list is described by what it    *)
(* does to the set of free addresses (FreeAt), not by the list it makes:   *)
(* replacing, removing and inserting a block (BlockReplaced, BlockRemoved, *)
(* BlockInserted) and joining two blocks that touch (BlocksJoined).        *)
(* Allocating then moves addresses from the list to a tensor, freeing      *)
(* moves them back, and Memory, that every address is in exactly one block *)
(* or exactly one tensor, is kept by every call in any order.  The order   *)
(* of the list (Tidy) follows on its own: a tensor that touches no block   *)
(* is inserted where it belongs, one that touches a block extends it, and  *)
(* because the list had a gap between any two blocks, only the next one    *)
(* can touch the extended block.                                           *)
(*                                                                         *)
(* Above it, a plan is followed source by source (PlanGood).  At every     *)
(* point the counts of a tensor are the readings and the views that are    *)
(* still to come, so that it is released, or its place taken over by an    *)
(* operation in place, exactly when the last of them is done; what is held *)
(* are the tensors that were placed and are a result or still pending; and *)
(* a tensor is placed apart from whatever is alive then (Safe).  Nothing   *)
(* that is alive with it later can be given its addresses, because memory  *)
(* is exact.  A plan that is used for a graph of the same structure stays  *)
(* right because its tensors are not larger (SmallerIsSafe).               *)
(*                                                                         *)
(* Hypotheses.  The memory measured stays below SizeMax, which is          *)
(* SIZE_MAX/2: the code counts on it, for with all of it given out the     *)
(* list is empty and ggml_dyn_tallocr_alloc looks at free_blocks[-1].  The *)
(* order of the list, but not the rest, needs tensors that are not empty:  *)
(* an empty one freed inside a free block leaves a block of no size there. *)
(* That nothing is overwritten is for graphs the plan was made for, or     *)
(* that have its structure (Planned): the code compares numbers of tensors *)
(* and sizes only.  No theorem asks the client for more.                   *)
(***************************************************************************)
EXTENDS GraphAllocator, SequenceTheorems, FiniteSetTheorems, WellFoundedInduction, TLAPS

\* A bounded set of numbers that is not empty has a greatest one.
LEMMA MaxOfBounded ==
  ASSUME NEW N \in Nat, NEW S \in SUBSET (0 .. N), S # {}
  PROVE  Max(S) \in S /\ \A y \in S : y <= Max(S)
<1> DEFINE T == {N - s : s \in S}
<1>1. T \subseteq Nat /\ T # {}
  <2>1. \A s \in S : N - s \in Nat
    OBVIOUS
  <2> QED BY <2>1
<1>2. \E x \in T : \A y \in T : ~(<<y, x>> \in OpToRel(<, Nat))
  <2> HIDE DEF T
  <2> QED BY <1>1, NatLessThanWellFounded, WFMin
<1>3. PICK x \in T : \A y \in T : ~(y < x)
  BY <1>1, <1>2 DEF OpToRel
<1>4. PICK s \in S : x = N - s
  OBVIOUS
<1>5. \A y \in S : N - y \in T /\ ~(N - y < N - s)
  BY <1>3, <1>4
<1>6. \A y \in S : s >= y
  BY <1>5
<1> QED BY <1>6 DEF Max

\* A block of the free list, and what a tensor holds.
Block == [offset : Nat, size : Nat]

\* The list t is the list s without its block b: those above it move down by one.
IsRemoval(t, s, b) ==
  /\ t \in Seq(Block) /\ Len(t) = Len(s) - 1
  /\ \A i \in 1 .. Len(s) - 1 : t[i] = IF i < b THEN s[i] ELSE s[i + 1]

\* The list t is the list s with e as block p: those from p on move up by one.
IsInsertion(t, s, p, e) ==
  /\ t \in Seq(Block) /\ Len(t) = Len(s) + 1
  /\ \A i \in 1 .. Len(s) + 1 : t[i] = IF i < p THEN s[i] ELSE IF i = p THEN e ELSE s[i - 1]

\* What RemoveAt and InsertAt do.
LEMMA RemoveAtRemoves ==
  ASSUME NEW s \in Seq(Block), NEW b \in 1 .. Len(s)
  PROVE  IsRemoval(RemoveAt(s, b), s, b)
<1> DEFINE l == SubSeq(s, 1, b - 1)
           r == SubSeq(s, b + 1, Len(s))
<1>1. l \in Seq(Block) /\ Len(l) = b - 1 /\ \A i \in 1 .. b - 1 : l[i] = s[i]
  OBVIOUS
<1>2. r \in Seq(Block) /\ Len(r) = Len(s) - b /\ \A i \in 1 .. Len(s) - b : r[i] = s[b + i]
  OBVIOUS
<1>3. RemoveAt(s, b) = l \o r
  BY DEF RemoveAt
<1> HIDE DEF l, r
<1>4. l \o r \in Seq(Block) /\ Len(l \o r) = Len(s) - 1
  <2>1. Len(s) \in Nat /\ (b - 1) + (Len(s) - b) = Len(s) - 1
    OBVIOUS
  <2>2. l \o r \in Seq(Block) /\ Len(l \o r) = Len(l) + Len(r)
    BY <1>1, <1>2, ConcatProperties
  <2> QED BY <1>1, <1>2, <2>1, <2>2
<1>5. \A i \in 1 .. Len(s) - 1 : (l \o r)[i] = IF i < b THEN s[i] ELSE s[i + 1]
  BY <1>1, <1>2
<1> QED BY <1>3, <1>4, <1>5 DEF IsRemoval

LEMMA InsertAtInserts ==
  ASSUME NEW s \in Seq(Block), NEW p \in 1 .. Len(s) + 1, NEW e \in Block
  PROVE  IsInsertion(InsertAt(s, p, e), s, p, e)
<1> DEFINE l == SubSeq(s, 1, p - 1)
           r == SubSeq(s, p, Len(s))
<1>1. l \in Seq(Block) /\ Len(l) = p - 1 /\ \A i \in 1 .. p - 1 : l[i] = s[i]
  OBVIOUS
<1>2. r \in Seq(Block) /\ Len(r) = Len(s) - p + 1 /\ \A i \in 1 .. Len(s) - p + 1 : r[i] = s[p + i - 1]
  OBVIOUS
<1>3. InsertAt(s, p, e) = l \o <<e>> \o r
  BY DEF InsertAt
<1> HIDE DEF l, r
<1>4. /\ l \o <<e>> \in Seq(Block) /\ Len(l \o <<e>>) = p
      /\ \A i \in 1 .. p : (l \o <<e>>)[i] = IF i = p THEN e ELSE s[i]
  BY <1>1
<1> DEFINE q == l \o <<e>>
<1> HIDE DEF q
<1>5. q \in Seq(Block) /\ Len(q) = p /\ \A i \in 1 .. p : q[i] = IF i = p THEN e ELSE s[i]
  BY <1>4 DEF q
<1>6. q \o r \in Seq(Block) /\ Len(q \o r) = Len(s) + 1
  BY <1>2, <1>5, ConcatProperties
<1>7. \A i \in 1 .. Len(s) + 1 :
         (q \o r)[i] = IF i < p THEN s[i] ELSE IF i = p THEN e ELSE s[i - 1]
  BY <1>2, <1>5
<1>8. InsertAt(s, p, e) = q \o r
  BY <1>3 DEF q
<1> QED BY <1>6, <1>7, <1>8 DEF IsInsertion

\* A set of positions that is not empty has a first one.
LEMMA MinOfNaturals ==
  ASSUME NEW S \in SUBSET Nat, S # {}
  PROVE  Min(S) \in S /\ \A y \in S : Min(S) <= y
<1>1. \E x \in S : \A y \in S : ~(<<y, x>> \in OpToRel(<, Nat))
  BY NatLessThanWellFounded, WFMin
<1>2. PICK x \in S : \A y \in S : ~(y < x)
  BY <1>1 DEF OpToRel
<1>3. \A y \in S : x <= y
  BY <1>2
<1> QED BY <1>3 DEF Min

\* Rounding up to the alignment (aligned_offset) loses nothing of the tensor.
LEMMA AlignedIsNoLess ==
  ASSUME NEW bytes \in Nat
  PROVE  Aligned(bytes) \in Nat /\ Aligned(bytes) >= bytes
<1>1. Alignment \in Nat /\ Alignment > 0
  BY AllocatorAssumption
<1>2. bytes % Alignment \in 0 .. Alignment - 1
  BY <1>1
<1> DEFINE d == Alignment - (bytes % Alignment)
<1>3. d \in Int
  BY <1>1, <1>2
<1> HIDE DEF d
<1>4. d % Alignment \in 0 .. Alignment - 1
  BY <1>1, <1>3
<1> QED BY <1>4 DEF Aligned, d

\* Address x is in a block of the list fs; no address is in two of them.
FreeAt(fs, x) == \E i \in 1 .. Len(fs) : In(x, fs[i])
Once(fs) == \A i, j \in 1 .. Len(fs) : \A x \in Nat : In(x, fs[i]) /\ In(x, fs[j]) => i = j

\* A list in which one block is another is free where the others are, and there.
LEMMA BlockReplaced ==
  ASSUME NEW fs \in Seq(Block), Once(fs), NEW b \in 1 .. Len(fs), NEW g \in Block,
         \A x \in Nat : In(x, g) => In(x, fs[b]) \/ ~FreeAt(fs, x)
  PROVE  LET gs == [fs EXCEPT ![b] = g]
         IN  /\ gs \in Seq(Block) /\ Len(gs) = Len(fs) /\ Once(gs)
             /\ \A i \in 1 .. Len(fs) : gs[i] = IF i = b THEN g ELSE fs[i]
             /\ \A x \in Nat :
                   FreeAt(gs, x) <=> In(x, g) \/ (FreeAt(fs, x) /\ ~In(x, fs[b]))
<1> DEFINE gs == [fs EXCEPT ![b] = g]
<1>1. /\ gs \in Seq(Block) /\ Len(gs) = Len(fs)
      /\ \A i \in 1 .. Len(fs) : gs[i] = IF i = b THEN g ELSE fs[i]
  BY ExceptSeq
<1> HIDE DEF gs
<1>2. Once(gs)
  BY <1>1 DEF Once, FreeAt
<1>3. \A x \in Nat : FreeAt(gs, x) <=> In(x, g) \/ (FreeAt(fs, x) /\ ~In(x, fs[b]))
  <2> SUFFICES ASSUME NEW x \in Nat
               PROVE  FreeAt(gs, x) <=> In(x, g) \/ (FreeAt(fs, x) /\ ~In(x, fs[b]))
    OBVIOUS
  <2>1. FreeAt(gs, x) => In(x, g) \/ (FreeAt(fs, x) /\ ~In(x, fs[b]))
    BY <1>1 DEF Once, FreeAt
  <2>2. In(x, g) => FreeAt(gs, x)
    BY <1>1 DEF FreeAt
  <2>3. FreeAt(fs, x) /\ ~In(x, fs[b]) => FreeAt(gs, x)
    BY <1>1 DEF FreeAt
  <2> QED BY <2>1, <2>2, <2>3
<1> QED BY <1>1, <1>2, <1>3 DEF gs

\* A list without its block b is free where the others are.
LEMMA BlockRemoved ==
  ASSUME NEW fs \in Seq(Block), Once(fs), NEW b \in 1 .. Len(fs)
  PROVE  LET gs == RemoveAt(fs, b)
         IN  /\ gs \in Seq(Block) /\ Once(gs)
             /\ \A x \in Nat : FreeAt(gs, x) <=> FreeAt(fs, x) /\ ~In(x, fs[b])
<1> DEFINE gs == RemoveAt(fs, b)
<1>1. /\ gs \in Seq(Block) /\ Len(gs) = Len(fs) - 1
      /\ \A i \in 1 .. Len(fs) - 1 : gs[i] = IF i < b THEN fs[i] ELSE fs[i + 1]
  BY RemoveAtRemoves DEF IsRemoval
<1>0. Len(fs) \in Nat
  OBVIOUS
<1> HIDE DEF gs
<1>2. \A i \in 1 .. Len(gs) : \E k \in 1 .. Len(fs) :
         gs[i] = fs[k] /\ k # b /\ (i < b => k = i) /\ (i >= b => k = i + 1)
  BY <1>0, <1>1
<1>3. Once(gs)
  <2> SUFFICES ASSUME NEW i \in 1 .. Len(gs), NEW j \in 1 .. Len(gs), NEW x \in Nat,
                      In(x, gs[i]), In(x, gs[j])
               PROVE  i = j
    BY DEF Once
  <2>1. PICK k \in 1 .. Len(fs) : gs[i] = fs[k] /\ k # b /\ (i < b => k = i) /\ (i >= b => k = i + 1)
    BY <1>2
  <2>2. PICK m \in 1 .. Len(fs) : gs[j] = fs[m] /\ m # b /\ (j < b => m = j) /\ (j >= b => m = j + 1)
    BY <1>2
  <2>3. k = m
    BY <2>1, <2>2 DEF Once
  <2> QED BY <1>0, <1>1, <2>1, <2>2, <2>3
<1>4. \A x \in Nat : FreeAt(gs, x) <=> FreeAt(fs, x) /\ ~In(x, fs[b])
  <2> SUFFICES ASSUME NEW x \in Nat
               PROVE  FreeAt(gs, x) <=> FreeAt(fs, x) /\ ~In(x, fs[b])
    OBVIOUS
  <2>1. FreeAt(gs, x) => FreeAt(fs, x) /\ ~In(x, fs[b])
    BY <1>2 DEF Once, FreeAt
  <2>2. ASSUME FreeAt(fs, x), ~In(x, fs[b]) PROVE FreeAt(gs, x)
    <3>1. PICK k \in 1 .. Len(fs) : In(x, fs[k]) /\ k # b
      BY <2>2 DEF FreeAt
    <3>2. CASE k < b
      <4>1. k \in 1 .. Len(gs) /\ gs[k] = fs[k]
        BY <1>0, <1>1, <3>2
      <4> QED BY <3>1, <4>1 DEF FreeAt
    <3>3. CASE k > b
      <4>1. k - 1 \in 1 .. Len(gs) /\ gs[k - 1] = fs[k]
        <5>1. k - 1 \in 1 .. Len(fs) - 1 /\ ~(k - 1 < b) /\ (k - 1) + 1 = k
          BY <1>0, <3>3
        <5> QED BY <1>1, <5>1
      <4> QED BY <3>1, <4>1 DEF FreeAt
    <3> QED BY <3>1, <3>2, <3>3
  <2> QED BY <2>1, <2>2
<1> QED BY <1>1, <1>3, <1>4 DEF gs

\* A list with one block more is free there as well.
LEMMA BlockInserted ==
  ASSUME NEW fs \in Seq(Block), Once(fs), NEW p \in 1 .. Len(fs) + 1, NEW r \in Block,
         \A x \in Nat : In(x, r) => ~FreeAt(fs, x)
  PROVE  LET gs == InsertAt(fs, p, r)
         IN  /\ gs \in Seq(Block) /\ Once(gs)
             /\ \A x \in Nat : FreeAt(gs, x) <=> FreeAt(fs, x) \/ In(x, r)
<1> DEFINE gs == InsertAt(fs, p, r)
<1>0. Len(fs) \in Nat
  OBVIOUS
<1>1. /\ gs \in Seq(Block) /\ Len(gs) = Len(fs) + 1
      /\ \A i \in 1 .. Len(fs) + 1 :
            gs[i] = IF i < p THEN fs[i] ELSE IF i = p THEN r ELSE fs[i - 1]
  <2> HIDE DEF gs
  <2>1. IsInsertion(gs, fs, p, r)
    BY InsertAtInserts DEF gs
  <2> QED BY <2>1 DEF IsInsertion
<1> HIDE DEF gs
<1>2. gs[p] = r /\ p \in 1 .. Len(gs)
  BY <1>0, <1>1
<1>3. \A i \in 1 .. Len(gs) : i # p => \E k \in 1 .. Len(fs) :
         gs[i] = fs[k] /\ (i < p => k = i) /\ (i > p => k = i - 1)
  BY <1>0, <1>1
<1>4. Once(gs)
  <2> SUFFICES ASSUME NEW i \in 1 .. Len(gs), NEW j \in 1 .. Len(gs), NEW x \in Nat,
                      In(x, gs[i]), In(x, gs[j])
               PROVE  i = j
    BY DEF Once
  <2>1. CASE i = p \/ j = p
    BY <1>2, <1>3, <2>1 DEF FreeAt
  <2>2. CASE i # p /\ j # p
    <3>1. PICK k \in 1 .. Len(fs) : gs[i] = fs[k] /\ (i < p => k = i) /\ (i > p => k = i - 1)
      BY <1>3, <2>2
    <3>2. PICK m \in 1 .. Len(fs) : gs[j] = fs[m] /\ (j < p => m = j) /\ (j > p => m = j - 1)
      BY <1>3, <2>2
    <3>3. k = m
      BY <3>1, <3>2 DEF Once
    <3> QED BY <1>0, <1>1, <2>2, <3>1, <3>2, <3>3
  <2> QED BY <2>1, <2>2
<1>5. \A x \in Nat : FreeAt(gs, x) <=> FreeAt(fs, x) \/ In(x, r)
  <2> SUFFICES ASSUME NEW x \in Nat
               PROVE  FreeAt(gs, x) <=> FreeAt(fs, x) \/ In(x, r)
    OBVIOUS
  <2>1. FreeAt(gs, x) => FreeAt(fs, x) \/ In(x, r)
    BY <1>2, <1>3 DEF FreeAt
  <2>2. In(x, r) => FreeAt(gs, x)
    BY <1>2 DEF FreeAt
  <2>3. ASSUME FreeAt(fs, x) PROVE FreeAt(gs, x)
    <3>1. PICK k \in 1 .. Len(fs) : In(x, fs[k])
      BY <2>3 DEF FreeAt
    <3>2. CASE k < p
      <4>1. k \in 1 .. Len(gs) /\ gs[k] = fs[k]
        BY <1>0, <1>1, <3>2
      <4> QED BY <3>1, <4>1 DEF FreeAt
    <3>3. CASE k >= p
      <4>1. k + 1 \in 1 .. Len(fs) + 1 /\ ~(k + 1 < p) /\ k + 1 # p /\ (k + 1) - 1 = k
        BY <1>0, <3>3
      <4>2. k + 1 \in 1 .. Len(gs) /\ gs[k + 1] = fs[k]
        BY <1>1, <4>1
      <4> QED BY <3>1, <4>2 DEF FreeAt
    <3> QED BY <3>2, <3>3
  <2> QED BY <2>1, <2>2, <2>3
<1> QED BY <1>1, <1>4, <1>5 DEF gs

\* Two blocks of the list that touch become one: the same memory is free.
LEMMA BlocksJoined ==
  ASSUME NEW fs \in Seq(Block), Once(fs), NEW b \in 1 .. Len(fs) - 1,
         End(fs[b]) = fs[b + 1].offset
  PROVE  LET gs == Joined(fs, b)
         IN  /\ gs \in Seq(Block) /\ Len(gs) = Len(fs) - 1 /\ Once(gs)
             /\ \A x \in Nat : FreeAt(gs, x) <=> FreeAt(fs, x)
             /\ \A i \in 1 .. Len(fs) - 1 :
                   gs[i] = IF i < b THEN fs[i]
                           ELSE IF i = b THEN Region(fs[b].offset, fs[b].size + fs[b + 1].size)
                           ELSE fs[i + 1]
<1> DEFINE gs == Joined(fs, b)
           g == Region(fs[b].offset, fs[b].size + fs[b + 1].size)
           es == [fs EXCEPT ![b] = g]
<1>0. Len(fs) \in Nat /\ b \in 1 .. Len(fs) /\ b + 1 \in 1 .. Len(fs)
  OBVIOUS
<1>1. fs[b] \in Block /\ fs[b + 1] \in Block
  BY <1>0
<1>2. g \in Block
  BY <1>1 DEF Block, Region
<1>3. gs = RemoveAt(es, b + 1)
  <2>1. [fs[b] EXCEPT !.size = @ + fs[b + 1].size] = g
    <3>1. PICK o \in Nat, s \in Nat : fs[b] = [offset |-> o, size |-> s]
      BY <1>1 DEF Block
    <3>2. fs[b].offset = o
      BY <3>1
    <3> DEFINE total == fs[b].size + fs[b + 1].size
    <3> HIDE DEF total
    <3>3. [fs[b] EXCEPT !.size = total] = [offset |-> fs[b].offset, size |-> total]
      BY <3>1, <3>2
    <3> QED BY <3>3 DEF Region, total
  <2> QED BY <2>1 DEF Joined
<1>4. /\ es \in Seq(Block) /\ Len(es) = Len(fs)
      /\ \A i \in 1 .. Len(fs) : es[i] = IF i = b THEN g ELSE fs[i]
  BY <1>0, <1>2, ExceptSeq
<1> HIDE DEF es
<1>5. /\ RemoveAt(es, b + 1) \in Seq(Block) /\ Len(RemoveAt(es, b + 1)) = Len(es) - 1
      /\ \A i \in 1 .. Len(es) - 1 :
            RemoveAt(es, b + 1)[i] = IF i < b + 1 THEN es[i] ELSE es[i + 1]
  <2>1. IsRemoval(RemoveAt(es, b + 1), es, b + 1)
    BY <1>0, <1>4, RemoveAtRemoves
  <2> QED BY <2>1 DEF IsRemoval
<1>6. gs \in Seq(Block) /\ Len(gs) = Len(fs) - 1
  BY <1>3, <1>4, <1>5
<1>7. \A i \in 1 .. Len(fs) - 1 :
         gs[i] = IF i < b THEN fs[i] ELSE IF i = b THEN g ELSE fs[i + 1]
  <2> SUFFICES ASSUME NEW i \in 1 .. Len(fs) - 1
               PROVE  gs[i] = IF i < b THEN fs[i] ELSE IF i = b THEN g ELSE fs[i + 1]
    OBVIOUS
  <2> HIDE DEF gs, g
  <2>1. gs[i] = IF i < b + 1 THEN es[i] ELSE es[i + 1]
    BY <1>3, <1>4, <1>5
  <2>2. i \in 1 .. Len(fs) /\ i + 1 \in 1 .. Len(fs)
    BY <1>0
  <2>3. CASE i < b
    BY <1>0, <1>4, <2>1, <2>2, <2>3
  <2>4. CASE i = b
    BY <1>0, <1>4, <2>1, <2>2, <2>4
  <2>5. CASE i > b
    BY <1>0, <1>4, <2>1, <2>2, <2>5
  <2> QED BY <1>0, <2>3, <2>4, <2>5
<1>8. \A x \in Nat : In(x, g) <=> In(x, fs[b]) \/ In(x, fs[b + 1])
  <2>1. g.offset = fs[b].offset /\ g.size = fs[b].size + fs[b + 1].size
    BY DEF Region
  <2>2. /\ fs[b].offset \in Nat /\ fs[b].size \in Nat
        /\ fs[b + 1].offset \in Nat /\ fs[b + 1].size \in Nat
    BY <1>1 DEF Block
  <2>3. fs[b].offset + fs[b].size = fs[b + 1].offset
    BY DEF End
  <2> HIDE DEF g
  <2>4. \A x \in Nat : In(x, g) <=> g.offset <= x /\ x < g.offset + g.size
    BY DEF In, End
  <2>5. \A x \in Nat : In(x, fs[b]) <=> fs[b].offset <= x /\ x < fs[b].offset + fs[b].size
    BY DEF In, End
  <2>6. \A x \in Nat : In(x, fs[b + 1]) <=> /\ fs[b + 1].offset <= x
                                           /\ x < fs[b + 1].offset + fs[b + 1].size
    BY DEF In, End
  <2> SUFFICES ASSUME NEW x \in Nat
               PROVE  In(x, g) <=> In(x, fs[b]) \/ In(x, fs[b + 1])
    OBVIOUS
  <2> DEFINE o == fs[b].offset
             k == fs[b].size
             m == fs[b + 1].size
  <2>7. /\ In(x, g) <=> o <= x /\ x < o + (k + m)
        /\ In(x, fs[b]) <=> o <= x /\ x < o + k
        /\ In(x, fs[b + 1]) <=> o + k <= x /\ x < (o + k) + m
    BY <2>1, <2>3, <2>4, <2>5, <2>6
  <2>8. o \in Nat /\ k \in Nat /\ m \in Nat
    BY <2>2
  <2> HIDE DEF o, k, m
  <2> QED BY <2>7, <2>8
<1> HIDE DEF gs, g
<1>9. \A i \in 1 .. Len(gs) :
         /\ i < b => gs[i] = fs[i] /\ i \in 1 .. Len(fs)
         /\ i = b => gs[i] = g
         /\ i > b => gs[i] = fs[i + 1] /\ i + 1 \in 1 .. Len(fs)
  BY <1>0, <1>6, <1>7
<1>10. Once(gs)
  <2> SUFFICES ASSUME NEW i \in 1 .. Len(gs), NEW j \in 1 .. Len(gs), NEW x \in Nat,
                      In(x, gs[i]), In(x, gs[j])
               PROVE  i = j
    BY DEF Once
  <2>1. \E k \in 1 .. Len(fs) : In(x, fs[k]) /\ (i < b => k = i)
                                /\ (i = b => k \in {b, b + 1}) /\ (i > b => k = i + 1)
    <3>0. i \in Int /\ b \in Int
      BY <1>0, <1>6
    <3>1. CASE i < b
      BY <1>9, <3>0, <3>1
    <3>2. CASE i = b
      BY <1>0, <1>8, <1>9, <3>0, <3>2
    <3>3. CASE i > b
      BY <1>9, <3>0, <3>3
    <3> QED BY <3>0, <3>1, <3>2, <3>3
  <2>2. \E k \in 1 .. Len(fs) : In(x, fs[k]) /\ (j < b => k = j)
                                /\ (j = b => k \in {b, b + 1}) /\ (j > b => k = j + 1)
    <3>0. j \in Int /\ b \in Int
      BY <1>0, <1>6
    <3>1. CASE j < b
      BY <1>9, <3>0, <3>1
    <3>2. CASE j = b
      BY <1>0, <1>8, <1>9, <3>0, <3>2
    <3>3. CASE j > b
      BY <1>9, <3>0, <3>3
    <3> QED BY <3>0, <3>1, <3>2, <3>3
  <2>3. PICK k \in 1 .. Len(fs) : In(x, fs[k]) /\ (i < b => k = i)
                                /\ (i = b => k \in {b, b + 1}) /\ (i > b => k = i + 1)
    BY <2>1
  <2>4. PICK m \in 1 .. Len(fs) : In(x, fs[m]) /\ (j < b => m = j)
                                /\ (j = b => m \in {b, b + 1}) /\ (j > b => m = j + 1)
    BY <2>2
  <2>5. k = m
    BY <2>3, <2>4 DEF Once
  <2> QED BY <1>0, <2>3, <2>4, <2>5
<1>11. \A x \in Nat : FreeAt(gs, x) <=> FreeAt(fs, x)
  <2> SUFFICES ASSUME NEW x \in Nat
               PROVE  FreeAt(gs, x) <=> FreeAt(fs, x)
    OBVIOUS
  <2>1. ASSUME FreeAt(gs, x) PROVE FreeAt(fs, x)
    <3>1. PICK i \in 1 .. Len(gs) : In(x, gs[i])
      BY <2>1 DEF FreeAt
    <3>2. CASE i < b
      BY <1>9, <3>1, <3>2 DEF FreeAt
    <3>3. CASE i = b
      BY <1>0, <1>8, <1>9, <3>1, <3>3 DEF FreeAt
    <3>4. CASE i > b
      BY <1>9, <3>1, <3>4 DEF FreeAt
    <3> QED BY <1>0, <1>6, <3>2, <3>3, <3>4
  <2>2. ASSUME FreeAt(fs, x) PROVE FreeAt(gs, x)
    <3>1. PICK k \in 1 .. Len(fs) : In(x, fs[k])
      BY <2>2 DEF FreeAt
    <3>2. CASE k < b
      <4>1. k \in 1 .. Len(gs)
        BY <1>0, <1>6, <3>2
      <4>2. gs[k] = fs[k]
        BY <1>9, <3>2, <4>1
      <4> QED BY <3>1, <4>1, <4>2 DEF FreeAt
    <3>3. CASE k \in {b, b + 1}
      <4>1. b \in 1 .. Len(gs) /\ gs[b] = g
        BY <1>0, <1>6, <1>9
      <4> QED BY <1>8, <3>1, <3>3, <4>1 DEF FreeAt
    <3>4. CASE k > b + 1
      <4>1. k - 1 \in 1 .. Len(gs) /\ k - 1 > b /\ (k - 1) + 1 = k
        BY <1>0, <1>6, <3>4
      <4>2. gs[k - 1] = fs[k]
        BY <1>9, <4>1
      <4> QED BY <3>1, <4>1, <4>2 DEF FreeAt
    <3> QED BY <1>0, <3>2, <3>3, <3>4
  <2> QED BY <2>1, <2>2
<1> QED BY <1>6, <1>7, <1>10, <1>11 DEF gs, g

\* Address x is in the memory of a tensor.
HeldAt(x) == \E t \in DOMAIN held : In(x, held[t])

\* Blocks lie below SizeMax, tensors below max_size.
Regions ==
  /\ free_blocks \in Seq(Block) /\ max_size \in Nat
  /\ \A i \in 1 .. Len(free_blocks) :
        free_blocks[i].offset < SizeMax /\ End(free_blocks[i]) <= SizeMax
  /\ \A t \in DOMAIN held : held[t] \in Block /\ End(held[t]) <= max_size

\* No address is in two tensors.
HeldOnce == \A t, u \in DOMAIN held : \A x \in Nat : In(x, held[t]) /\ In(x, held[u]) => t = u

\* Every address below SizeMax is either free or in a tensor.
FreeOrHeld == \A x \in 0 .. SizeMax - 1 : HeldAt(x) <=> ~FreeAt(free_blocks, x)

\* The inductive invariant of the memory: MemoryExact without its cardinalities.
Memory == Regions /\ Once(free_blocks) /\ HeldOnce /\ FreeOrHeld

\* The list is in order, with a gap between any two blocks, and ends at SizeMax.
Tidy ==
  /\ free_blocks # << >> /\ End(free_blocks[Len(free_blocks)]) = SizeMax
  /\ \A i \in 1 .. Len(free_blocks) : free_blocks[i].size > 0
  /\ \A i, j \in 1 .. Len(free_blocks) : i < j => End(free_blocks[i]) < free_blocks[j].offset
  /\ \A t \in DOMAIN held : held[t].size > 0

\* The arithmetic of one block.
LEMMA BlockFacts ==
  ASSUME NEW r \in Block
  PROVE  /\ r.offset \in Nat /\ r.size \in Nat /\ End(r) \in Nat /\ End(r) = r.offset + r.size
         /\ \A x \in Nat : In(x, r) <=> r.offset <= x /\ x < r.offset + r.size
BY DEF Block, End, In

\* Region makes a block.
LEMMA RegionFacts ==
  ASSUME NEW o \in Nat, NEW s \in Nat
  PROVE  Region(o, s) \in Block /\ Region(o, s).offset = o /\ Region(o, s).size = s
BY DEF Block, Region

\* The first free block is not empty.
LEMMA SizeMaxPositive == SizeMax \in Nat /\ SizeMax > 0
BY AllocatorAssumption

\* Memory that is in no tensor up to SizeMax leaves a free block.
LEMMA SomethingFree ==
  ASSUME Memory, max_size < SizeMax
  PROVE  Len(free_blocks) \in Nat /\ Len(free_blocks) >= 1
<1>1. SizeMax - 1 \in 0 .. SizeMax - 1 /\ SizeMax - 1 \in Nat
  BY SizeMaxPositive
<1>2. ~HeldAt(SizeMax - 1)
  <2> SUFFICES ASSUME NEW t \in DOMAIN held, In(SizeMax - 1, held[t])
               PROVE  FALSE
    BY DEF HeldAt
  <2>1. held[t] \in Block /\ End(held[t]) <= max_size /\ max_size \in Nat
    BY DEF Memory, Regions
  <2> QED BY <1>1, <2>1, BlockFacts, SizeMaxPositive
<1>3. FreeAt(free_blocks, SizeMax - 1)
  BY <1>1, <1>2 DEF Memory, FreeOrHeld
<1>4. free_blocks \in Seq(Block)
  BY DEF Memory, Regions
<1> QED BY <1>3, <1>4 DEF FreeAt

\* The search of ggml_dyn_tallocr_alloc ends at a block of the list.
LEMMA BestFitIsABlock ==
  ASSUME Memory, max_size < SizeMax, NEW size \in Nat
  PROVE  BestFit(size) \in 1 .. Len(free_blocks)
<1> DEFINE fits == {b \in 1 .. Len(free_blocks) - 1 : free_blocks[b].size >= size}
           best == {b \in fits : \A c \in fits : free_blocks[b].size <= free_blocks[c].size}
<1>1. Len(free_blocks) \in Nat /\ Len(free_blocks) >= 1
  BY SomethingFree
<1>2. CASE fits = {}
  BY <1>1, <1>2 DEF BestFit
<1>3. CASE fits # {}
  <2> DEFINE sizes == {free_blocks[b].size : b \in fits}
  <2>1. \A b \in fits : free_blocks[b].size \in Nat
    <3>1. \A b \in fits : free_blocks[b] \in Block
      BY <1>1 DEF Memory, Regions
    <3> QED BY <3>1, BlockFacts
  <2>2. sizes \in SUBSET Nat /\ sizes # {}
    BY <1>3, <2>1
  <2>3. Min(sizes) \in sizes /\ \A y \in sizes : Min(sizes) <= y
    <3> HIDE DEF sizes
    <3> QED BY <2>2, MinOfNaturals
  <2>4. PICK b \in fits : free_blocks[b].size = Min(sizes)
    BY <2>3
  <2>5. b \in best
    BY <2>3, <2>4
  <2>6. best \in SUBSET (0 .. Len(free_blocks)) /\ best # {}
    <3>1. fits \subseteq 0 .. Len(free_blocks)
      BY <1>1
    <3>2. best \subseteq fits
      OBVIOUS
    <3> HIDE DEF best, fits
    <3> QED BY <2>5, <3>1, <3>2
  <2>7. Max(best) \in best
    <3> HIDE DEF best
    <3> QED BY <1>1, <2>6, MaxOfBounded
  <2>8. BestFit(size) = Max(best)
    BY <1>3 DEF BestFit
  <2> QED BY <1>1, <2>7, <2>8
<1> QED BY <1>2, <1>3

\* max_size only grows, and covers the new tensor.
LEMMA HighestIsMax ==
  ASSUME NEW given \in Block, max_size \in Nat
  PROVE  /\ Highest(given) \in Nat /\ Highest(given) \in {max_size, End(given)}
         /\ max_size <= Highest(given) /\ End(given) <= Highest(given)
<1>1. End(given) \in Nat
  BY BlockFacts
<1> DEFINE S == {max_size, End(given)}
<1>2. S \in SUBSET (0 .. max_size + End(given)) /\ S # {} /\ max_size + End(given) \in Nat
  BY <1>1
<1>3. Max(S) \in S /\ \A y \in S : y <= Max(S)
  <2> HIDE DEF S
  <2> QED BY <1>2, MaxOfBounded
<1> QED BY <1>1, <1>3 DEF Highest

\* Allocating moves memory from the free list to the tensor.
LEMMA AllocKeepsMemory ==
  ASSUME Memory, max_size < SizeMax, max_size' < SizeMax,
         NEW t, t \notin DOMAIN held, NEW bytes \in Nat, Alloc(t, bytes)
  PROVE  Memory' /\ (Tidy /\ bytes > 0 => Tidy')
<1> DEFINE size == Aligned(bytes)
           b == BestFit(size)
           block == free_blocks[b]
           given == Region(block.offset, size)
           rest == Region(block.offset + size, block.size - size)
<1>1. size \in Nat /\ size >= bytes
  BY AlignedIsNoLess
<1>2. /\ block.size >= size
      /\ free_blocks' = IF rest.size = 0 THEN RemoveAt(free_blocks, b)
                        ELSE [free_blocks EXCEPT ![b] = rest]
      /\ held' = [u \in DOMAIN held \union {t} |-> IF u = t THEN given ELSE held[u]]
      /\ max_size' = Highest(given)
  BY DEF Alloc
<1> HIDE DEF size
<1>3. b \in 1 .. Len(free_blocks)
  BY <1>1, BestFitIsABlock
<1> HIDE DEF b
<1>4. /\ free_blocks \in Seq(Block) /\ max_size \in Nat /\ Len(free_blocks) \in Nat
      /\ block \in Block /\ block.offset \in Nat /\ block.size \in Nat
      /\ block.offset < SizeMax /\ block.offset + block.size <= SizeMax
      /\ \A x \in Nat : In(x, block) <=> block.offset <= x /\ x < block.offset + block.size
  <2>1. free_blocks \in Seq(Block) /\ max_size \in Nat
    BY DEF Memory, Regions
  <2>2. block \in Block /\ block.offset < SizeMax /\ End(block) <= SizeMax
    BY <1>3, <2>1 DEF Memory, Regions
  <2> HIDE DEF block
  <2> QED BY <2>1, <2>2, BlockFacts
<1>5. /\ given \in Block /\ given.offset = block.offset /\ given.size = size
      /\ End(given) = block.offset + size
      /\ \A x \in Nat : In(x, given) <=> block.offset <= x /\ x < block.offset + size
  <2> HIDE DEF block
  <2>1. given \in Block /\ given.offset = block.offset /\ given.size = size
    BY <1>1, <1>4, RegionFacts
  <2> HIDE DEF given
  <2> QED BY <2>1, BlockFacts
<1>6. /\ rest \in Block /\ rest.offset = block.offset + size /\ rest.size = block.size - size
      /\ End(rest) = block.offset + block.size
      /\ \A x \in Nat : In(x, rest) <=> block.offset + size <= x /\ x < block.offset + block.size
  <2> HIDE DEF block
  <2>0. block.offset + size \in Nat /\ block.size - size \in Nat
    BY <1>1, <1>2, <1>4
  <2>1. rest \in Block /\ rest.offset = block.offset + size /\ rest.size = block.size - size
    BY <2>0, RegionFacts
  <2> HIDE DEF rest
  <2>2. \A x \in Nat : In(x, rest) <=> rest.offset <= x /\ x < rest.offset + rest.size
    BY <2>1, BlockFacts
  <2>3. End(rest) = rest.offset + rest.size
    BY <2>1, BlockFacts
  <2>4. rest.offset + rest.size = block.offset + block.size
    BY <2>1, <1>1, <1>4
  <2> QED BY <2>1, <2>2, <2>3, <2>4
<1> HIDE DEF block, given, rest
<1>7. \A x \in Nat : /\ In(x, block) <=> In(x, given) \/ In(x, rest)
                     /\ ~(In(x, given) /\ In(x, rest))
  BY <1>1, <1>2, <1>4, <1>5, <1>6
<1>8. max_size <= max_size' /\ End(given) <= max_size' /\ max_size' \in Nat
  BY <1>2, <1>4, <1>5, HighestIsMax
<1>9. /\ DOMAIN held' = DOMAIN held \union {t} /\ held'[t] = given
      /\ \A u \in DOMAIN held : held'[u] = held[u]
  BY <1>2
<1>10. /\ free_blocks' \in Seq(Block) /\ Once(free_blocks)'
       /\ \A x \in Nat : FreeAt(free_blocks, x)' <=> FreeAt(free_blocks, x) /\ ~In(x, given)
  <2>0. Once(free_blocks) /\ \A x \in Nat : In(x, block) => FreeAt(free_blocks, x)
    BY <1>3 DEF Memory, FreeAt, block
  <2>1. CASE rest.size = 0
    <3>1. /\ free_blocks' \in Seq(Block) /\ Once(free_blocks')
          /\ \A x \in Nat : FreeAt(free_blocks', x) <=> FreeAt(free_blocks, x) /\ ~In(x, block)
      BY <1>2, <1>3, <1>4, <2>0, <2>1, BlockRemoved DEF block
    <3>2. \A x \in Nat : ~In(x, rest)
      <4>1. block.size - size = 0 /\ block.offset + size = block.offset + block.size
        BY <1>1, <1>4, <1>6, <2>1
      <4> QED BY <1>1, <1>4, <1>6, <4>1
    <3>3. \A x \in Nat : FreeAt(free_blocks', x) <=> FreeAt(free_blocks, x) /\ ~In(x, given)
      BY <1>7, <3>1, <3>2
    <3> QED BY <3>1, <3>3 DEF Once, FreeAt
  <2>2. CASE rest.size # 0
    <3>1. /\ free_blocks' \in Seq(Block) /\ Once(free_blocks')
          /\ \A x \in Nat : FreeAt(free_blocks', x)
                               <=> In(x, rest) \/ (FreeAt(free_blocks, x) /\ ~In(x, block))
      <4>1. free_blocks' = [free_blocks EXCEPT ![b] = rest]
        BY <1>2, <2>2
      <4>2. \A x \in Nat : In(x, rest) => In(x, free_blocks[b]) \/ ~FreeAt(free_blocks, x)
        BY <1>7 DEF block
      <4> QED BY <1>3, <1>4, <1>6, <2>0, <4>1, <4>2, BlockReplaced DEF block
    <3>3. \A x \in Nat : FreeAt(free_blocks', x) <=> FreeAt(free_blocks, x) /\ ~In(x, given)
      BY <1>7, <2>0, <3>1
    <3> QED BY <3>1, <3>3 DEF Once, FreeAt
  <2> QED BY <2>1, <2>2
<1>11. \A i \in 1 .. Len(free_blocks') :
          \/ free_blocks'[i] = rest /\ rest.size # 0
          \/ \E k \in 1 .. Len(free_blocks) : free_blocks'[i] = free_blocks[k]
  <2>1. CASE rest.size = 0
    <3>1. /\ Len(free_blocks') = Len(free_blocks) - 1
          /\ \A i \in 1 .. Len(free_blocks) - 1 :
                free_blocks'[i] = IF i < b THEN free_blocks[i] ELSE free_blocks[i + 1]
      <4>1. free_blocks' = RemoveAt(free_blocks, b)
        BY <1>2, <2>1
      <4>2. IsRemoval(free_blocks', free_blocks, b)
        BY <1>3, <1>4, <4>1, RemoveAtRemoves
      <4> QED BY <4>2 DEF IsRemoval
    <3>2. \A i \in 1 .. Len(free_blocks) - 1 : i \in 1 .. Len(free_blocks) /\ i + 1 \in 1 .. Len(free_blocks)
      BY <1>4
    <3> QED BY <3>1, <3>2
  <2>2. CASE rest.size # 0
    <3>1. free_blocks' = [free_blocks EXCEPT ![b] = rest]
      BY <1>2, <2>2
    <3> QED BY <1>3, <1>4, <1>6, <2>2, <3>1, ExceptSeq
  <2> QED BY <2>1, <2>2
<1>12. Regions'
  <2>1. rest.size # 0 => rest.offset < SizeMax /\ End(rest) <= SizeMax
    BY <1>1, <1>2, <1>4, <1>6, SizeMaxPositive
  <2>2. \A i \in 1 .. Len(free_blocks') :
           free_blocks'[i].offset < SizeMax /\ End(free_blocks'[i]) <= SizeMax
    BY <1>11, <2>1 DEF Memory, Regions
  <2>3. \A u \in DOMAIN held' : held'[u] \in Block /\ End(held'[u]) <= max_size'
    <3> SUFFICES ASSUME NEW u \in DOMAIN held'
                 PROVE  held'[u] \in Block /\ End(held'[u]) <= max_size'
      OBVIOUS
    <3>1. CASE u = t
      BY <1>5, <1>8, <1>9, <3>1
    <3>2. CASE u # t
      <4>1. held[u] \in Block /\ End(held[u]) <= max_size /\ held'[u] = held[u]
        BY <1>9, <3>2 DEF Memory, Regions
      <4>2. End(held[u]) \in Nat
        BY <4>1, BlockFacts
      <4> QED BY <1>4, <1>8, <4>1, <4>2
    <3> QED BY <3>1, <3>2
  <2>4. free_blocks' \in Seq(Block) /\ max_size' \in Nat
    BY <1>8, <1>10
  <2>5. \A i \in 1 .. Len(free_blocks)' :
           (free_blocks[i].offset < SizeMax /\ End(free_blocks[i]) <= SizeMax)'
    BY <2>2 DEF End
  <2>6. \A u \in DOMAIN held' : (held[u] \in Block /\ End(held[u]) <= max_size)'
    BY <2>3 DEF End
  <2> QED BY <2>4, <2>5, <2>6 DEF Regions
<1>13. \A x \in Nat : In(x, given) => FreeAt(free_blocks, x) /\ x \in 0 .. SizeMax - 1
  <2>1. \A x \in Nat : In(x, given) => In(x, block)
    BY <1>7
  <2>2. \A x \in Nat : In(x, block) => x \in 0 .. SizeMax - 1
    BY <1>4, SizeMaxPositive
  <2> QED BY <1>3, <2>1, <2>2 DEF FreeAt, block
<1>14. \A x \in Nat : In(x, given) => \A u \in DOMAIN held : ~In(x, held[u])
  BY <1>13 DEF Memory, FreeOrHeld, HeldAt
<1>15. HeldOnce'
  <2> SUFFICES ASSUME NEW u \in DOMAIN held', NEW v \in DOMAIN held', NEW x \in Nat,
                      In(x, held'[u]), In(x, held'[v])
               PROVE  u = v
    BY DEF HeldOnce, In, End
  <2> QED BY <1>9, <1>14 DEF Memory, HeldOnce
<1>16. FreeOrHeld'
  <2> SUFFICES ASSUME NEW x \in 0 .. SizeMax - 1
               PROVE  HeldAt(x)' <=> ~FreeAt(free_blocks, x)'
    BY DEF FreeOrHeld
  <2>0. x \in Nat
    BY SizeMaxPositive
  <2>1. HeldAt(x)' <=> In(x, given) \/ HeldAt(x)
    <3>1. HeldAt(x)' <=> \E u \in DOMAIN held' : In(x, held'[u])
      BY DEF HeldAt, In, End
    <3> QED BY <1>9, <3>1 DEF HeldAt
  <2>2. HeldAt(x) <=> ~FreeAt(free_blocks, x)
    BY DEF Memory, FreeOrHeld
  <2> QED BY <1>10, <1>13, <2>0, <2>1, <2>2
<1>17. ASSUME Tidy, bytes > 0 PROVE Tidy'
  <2>0. size > 0
    BY <1>1, <1>17
  <2>1. \A i \in 1 .. Len(free_blocks) : /\ free_blocks[i].offset \in Nat /\ free_blocks[i].size \in Nat
                                         /\ End(free_blocks[i]) = free_blocks[i].offset + free_blocks[i].size
    BY <1>4, BlockFacts
  <2>2. b = Len(free_blocks) => rest.size # 0
    <3>1. b = Len(free_blocks) => End(block) = SizeMax
      BY <1>17 DEF Tidy, block
    <3>2. End(block) = block.offset + block.size
      BY <1>4, BlockFacts
    <3> QED BY <1>1, <1>2, <1>4, <1>5, <1>6, <1>8, <3>1, <3>2, SizeMaxPositive
  <2>3. /\ free_blocks # << >> /\ End(free_blocks[Len(free_blocks)]) = SizeMax
        /\ \A i \in 1 .. Len(free_blocks) : free_blocks[i].size > 0
        /\ \A i, j \in 1 .. Len(free_blocks) : i < j => End(free_blocks[i]) < free_blocks[j].offset
        /\ \A u \in DOMAIN held : held[u].size > 0
    BY <1>17 DEF Tidy
  <2>4. \A u \in DOMAIN held' : held'[u].size > 0
    BY <1>5, <1>9, <2>0, <2>3
  <2>5. CASE rest.size = 0
    <3> DEFINE n == Len(free_blocks)
    <3>1. /\ Len(free_blocks') = n - 1 /\ b < n
          /\ \A i \in 1 .. n - 1 : free_blocks'[i] = IF i < b THEN free_blocks[i] ELSE free_blocks[i + 1]
      <4>1. b < n
        BY <1>3, <1>4, <2>2, <2>5
      <4>2. free_blocks' = RemoveAt(free_blocks, b)
        BY <1>2, <2>5
      <4>3. /\ Len(free_blocks') = Len(free_blocks) - 1
            /\ \A i \in 1 .. Len(free_blocks) - 1 :
                  free_blocks'[i] = IF i < b THEN free_blocks[i] ELSE free_blocks[i + 1]
        <5>1. IsRemoval(free_blocks', free_blocks, b)
          BY <1>3, <1>4, <4>2, RemoveAtRemoves
        <5> QED BY <5>1 DEF IsRemoval
      <4> QED BY <4>1, <4>3
    <3>2. n - 1 \in 1 .. n - 1 /\ ~(n - 1 < b) /\ (n - 1) + 1 = n
      BY <1>3, <1>4, <3>1
    <3>3. free_blocks'[n - 1] = free_blocks[n]
      BY <3>1, <3>2
    <3>4. \A i \in 1 .. n - 1 : \E k \in 1 .. n : /\ free_blocks'[i] = free_blocks[k]
                                                  /\ (i < b => k = i) /\ (i >= b => k = i + 1)
      <4> SUFFICES ASSUME NEW i \in 1 .. n - 1
                   PROVE  \E k \in 1 .. n : /\ free_blocks'[i] = free_blocks[k]
                                            /\ (i < b => k = i) /\ (i >= b => k = i + 1)
        OBVIOUS
      <4>1. i \in 1 .. n /\ i + 1 \in 1 .. n
        BY <1>4
      <4> HIDE DEF n
      <4>2. CASE i < b
        BY <1>3, <3>1, <4>1, <4>2
      <4>3. CASE i >= b
        BY <1>3, <3>1, <4>1, <4>3
      <4> QED BY <1>3, <1>4, <4>2, <4>3 DEF n
    <3>5. \A i \in 1 .. n - 1 : free_blocks'[i].size > 0
      BY <2>3, <3>4
    <3>6. \A i, j \in 1 .. n - 1 : i < j => End(free_blocks'[i]) < free_blocks'[j].offset
      <4> SUFFICES ASSUME NEW i \in 1 .. n - 1, NEW j \in 1 .. n - 1, i < j
                   PROVE  End(free_blocks'[i]) < free_blocks'[j].offset
        OBVIOUS
      <4>1. PICK k \in 1 .. n : free_blocks'[i] = free_blocks[k] /\ (i < b => k = i) /\ (i >= b => k = i + 1)
        BY <3>4
      <4>2. PICK m \in 1 .. n : free_blocks'[j] = free_blocks[m] /\ (j < b => m = j) /\ (j >= b => m = j + 1)
        BY <3>4
      <4>3. k < m
        BY <1>3, <1>4, <4>1, <4>2
      <4> QED BY <2>3, <4>1, <4>2, <4>3
    <3>7. /\ free_blocks' # << >> /\ End(free_blocks'[Len(free_blocks')]) = SizeMax
          /\ \A i \in 1 .. Len(free_blocks') : free_blocks'[i].size > 0
          /\ \A i, j \in 1 .. Len(free_blocks') : i < j => End(free_blocks'[i]) < free_blocks'[j].offset
      <4>1. free_blocks' # << >>
        BY <1>4, <1>10, <3>1, <3>2
      <4>2. End(free_blocks'[Len(free_blocks')]) = SizeMax
        BY <2>3, <3>1, <3>3
      <4> QED BY <3>1, <3>5, <3>6, <4>1, <4>2
    <3> QED BY <2>4, <3>7 DEF Tidy, End
  <2>6. CASE rest.size # 0
    <3> DEFINE n == Len(free_blocks)
    <3>1. /\ Len(free_blocks') = n
          /\ \A i \in 1 .. n : free_blocks'[i] = IF i = b THEN rest ELSE free_blocks[i]
      <4>1. free_blocks' = [free_blocks EXCEPT ![b] = rest]
        BY <1>2, <2>6
      <4> QED BY <1>3, <1>4, <1>6, <4>1, ExceptSeq
    <3>2. End(rest) = End(block) /\ rest.offset >= block.offset /\ rest.size > 0
      <4>1. End(block) = block.offset + block.size
        BY <1>4, BlockFacts
      <4> QED BY <1>1, <1>2, <1>4, <1>6, <2>6, <4>1
    <3>3. \A i \in 1 .. n : /\ End(free_blocks'[i]) = End(free_blocks[i])
                            /\ free_blocks'[i].offset >= free_blocks[i].offset
                            /\ free_blocks'[i].offset \in Nat
                            /\ free_blocks'[i].size > 0
      <4> SUFFICES ASSUME NEW i \in 1 .. n
                   PROVE  /\ End(free_blocks'[i]) = End(free_blocks[i])
                          /\ free_blocks'[i].offset >= free_blocks[i].offset
                          /\ free_blocks'[i].offset \in Nat
                          /\ free_blocks'[i].size > 0
        OBVIOUS
      <4>0. block = free_blocks[b]
        BY DEF block
      <4>1. rest.offset \in Nat
        <5> HIDE DEF rest, block
        <5> QED BY <1>1, <1>4, <1>6
      <4>2. free_blocks[i].offset \in Nat /\ free_blocks[i].size > 0
        BY <2>1, <2>3
      <4>3. free_blocks'[i] = IF i = b THEN rest ELSE free_blocks[i]
        BY <3>1
      <4> HIDE DEF n, b, block, rest
      <4>4. CASE i = b
        BY <3>2, <4>0, <4>1, <4>3, <4>4
      <4>5. CASE i # b
        BY <4>2, <4>3, <4>5
      <4> QED BY <4>4, <4>5
    <3>4. \A i \in 1 .. n : End(free_blocks[i]) \in Nat
      BY <2>1
    <3>5. \A i, j \in 1 .. n : i < j => End(free_blocks'[i]) < free_blocks'[j].offset
      <4> SUFFICES ASSUME NEW i \in 1 .. n, NEW j \in 1 .. n, i < j
                   PROVE  End(free_blocks'[i]) < free_blocks'[j].offset
        OBVIOUS
      <4>1. End(free_blocks[i]) < free_blocks[j].offset /\ free_blocks[j].offset \in Nat
        BY <2>1, <2>3
      <4>2. /\ End(free_blocks'[i]) = End(free_blocks[i]) /\ End(free_blocks[i]) \in Nat
            /\ free_blocks'[j].offset >= free_blocks[j].offset /\ free_blocks'[j].offset \in Nat
        BY <3>3, <3>4
      <4> QED BY <4>1, <4>2
    <3>6. n \in 1 .. n
      BY <1>3, <1>4
    <3>7. /\ free_blocks' # << >> /\ End(free_blocks'[Len(free_blocks')]) = SizeMax
          /\ \A i \in 1 .. Len(free_blocks') : free_blocks'[i].size > 0
          /\ \A i, j \in 1 .. Len(free_blocks') : i < j => End(free_blocks'[i]) < free_blocks'[j].offset
      BY <1>4, <1>10, <2>3, <3>1, <3>3, <3>5, <3>6
    <3> QED BY <2>4, <3>7 DEF Tidy, End
  <2> QED BY <2>5, <2>6
<1>18. Memory'
  BY <1>10, <1>12, <1>15, <1>16 DEF Memory
<1> QED BY <1>17, <1>18

\* A tensor's memory next to a free block: the block grows by it.
LEMMA BlockGrows ==
  ASSUME NEW fs \in Seq(Block), Once(fs), NEW b \in 1 .. Len(fs), NEW r \in Block,
         \A x \in Nat : In(x, r) => ~FreeAt(fs, x),
         NEW g \in Block, \A x \in Nat : In(x, g) <=> In(x, fs[b]) \/ In(x, r)
  PROVE  LET gs == [fs EXCEPT ![b] = g]
         IN  /\ gs \in Seq(Block) /\ Len(gs) = Len(fs) /\ Once(gs)
             /\ \A i \in 1 .. Len(fs) : gs[i] = IF i = b THEN g ELSE fs[i]
             /\ \A x \in Nat : FreeAt(gs, x) <=> FreeAt(fs, x) \/ In(x, r)
<1> DEFINE gs == [fs EXCEPT ![b] = g]
<1>1. \A x \in Nat : In(x, g) => In(x, fs[b]) \/ ~FreeAt(fs, x)
  OBVIOUS
<1>2. /\ gs \in Seq(Block) /\ Len(gs) = Len(fs) /\ Once(gs)
      /\ \A i \in 1 .. Len(fs) : gs[i] = IF i = b THEN g ELSE fs[i]
      /\ \A x \in Nat : FreeAt(gs, x) <=> In(x, g) \/ (FreeAt(fs, x) /\ ~In(x, fs[b]))
  BY <1>1, BlockReplaced
<1> HIDE DEF gs
<1>3. \A x \in Nat : In(x, fs[b]) => FreeAt(fs, x)
  BY DEF FreeAt
<1>4. \A x \in Nat : FreeAt(gs, x) <=> FreeAt(fs, x) \/ In(x, r)
  BY <1>2, <1>3
<1> QED BY <1>2, <1>4 DEF gs

\* What the free list is when the tensor t is back: the blocks it had, the tensor's
\* memory, as a block, or as a part of one or between two of them.
Freed(fs, r) ==
  /\ fs \in Seq(Block) /\ Once(fs)
  /\ \A x \in Nat : FreeAt(fs, x) <=> FreeAt(free_blocks, x) \/ In(x, r)

\* A tensor merged with the blocks before or behind it (the loop of
\* ggml_dyn_tallocr_free_tensor): its memory is free, and nothing else is lost.
LEMMA MergedFreesTheTensor ==
  ASSUME Regions, Once(free_blocks), NEW r \in Block,
         \A x \in Nat : In(x, r) => ~FreeAt(free_blocks, x),
         Neighbours(r) # {}
  PROVE  LET b == Min(Neighbours(r))
             block == free_blocks[b]
             gs == Merged(b, r)
             n == Len(free_blocks)
         IN  /\ Freed(gs, r) /\ b \in 1 .. n
             /\ \/ /\ End(block) = r.offset /\ b < n /\ End(r) = free_blocks[b + 1].offset
                   /\ Len(gs) = n - 1
                   /\ \A i \in 1 .. n - 1 :
                         gs[i] = IF i < b THEN free_blocks[i]
                                 ELSE IF i = b
                                 THEN Region(block.offset, block.size + r.size + free_blocks[b + 1].size)
                                 ELSE free_blocks[i + 1]
                \/ /\ End(block) = r.offset /\ ~(b < n /\ End(r) = free_blocks[b + 1].offset)
                   /\ Len(gs) = n
                   /\ \A i \in 1 .. n : gs[i] = IF i = b THEN Region(block.offset, block.size + r.size)
                                                ELSE free_blocks[i]
                \/ /\ End(r) = block.offset /\ \A i \in 1 .. b - 1 : End(free_blocks[i]) # r.offset
                   /\ Len(gs) = n
                   /\ \A i \in 1 .. n : gs[i] = IF i = b THEN Region(r.offset, block.size + r.size)
                                                ELSE free_blocks[i]
<1> DEFINE near == Neighbours(r)
           n == Len(free_blocks)
           b == Min(near)
           block == free_blocks[b]
           wide == Region(block.offset, block.size + r.size)
           low == Region(r.offset, block.size + r.size)
           after == [free_blocks EXCEPT ![b] = wide]
           before == [free_blocks EXCEPT ![b] = low]
<1>1. free_blocks \in Seq(Block) /\ n \in Nat
  BY DEF Regions
<1>2. near \in SUBSET Nat /\ near # {}
  BY <1>1 DEF Neighbours
<1>3. b \in near /\ \A c \in near : b <= c
  <2> HIDE DEF near
  <2> QED BY <1>2, MinOfNaturals
<1>4. b \in 1 .. n /\ (End(block) = r.offset \/ End(r) = block.offset)
  BY <1>3 DEF Neighbours
<1>5. \A i \in 1 .. b - 1 : End(free_blocks[i]) # r.offset
  <2> SUFFICES ASSUME NEW i \in 1 .. b - 1, End(free_blocks[i]) = r.offset
               PROVE  FALSE
    OBVIOUS
  <2> HIDE DEF b
  <2>1. i \in 1 .. n /\ i < b
    BY <1>1, <1>4
  <2>2. i \in near
    BY <2>1 DEF Neighbours
  <2> QED BY <1>1, <1>3, <1>4, <2>1, <2>2
<1>6. Merged(b, r) = IF End(block) = r.offset
                     THEN IF b < n /\ End(after[b]) = free_blocks[b + 1].offset
                          THEN Joined(after, b) ELSE after
                     ELSE IF b > 1 /\ End(free_blocks[b - 1]) = r.offset
                          THEN Joined(before, b - 1) ELSE before
  <2> HIDE DEF b
  <2>1. block \in Block
    BY <1>1, <1>4
  <2>2. [block EXCEPT !.size = @ + r.size] = wide
    BY <2>1 DEF Block, Region
  <2>3. [free_blocks EXCEPT ![b].size = @ + r.size] = after
    BY <2>2
  <2> QED BY <2>3 DEF Merged
<1> HIDE DEF b, near
<1>7. /\ block \in Block /\ block.offset \in Nat /\ block.size \in Nat
      /\ End(block) = block.offset + block.size
      /\ r.offset \in Nat /\ r.size \in Nat /\ End(r) = r.offset + r.size
      /\ \A x \in Nat : In(x, block) <=> block.offset <= x /\ x < block.offset + block.size
      /\ \A x \in Nat : In(x, r) <=> r.offset <= x /\ x < r.offset + r.size
  <2>1. block \in Block
    BY <1>1, <1>4
  <2> HIDE DEF block
  <2> QED BY <2>1, BlockFacts
<1>8. /\ wide \in Block /\ wide.offset = block.offset /\ wide.size = block.size + r.size
      /\ \A x \in Nat : In(x, wide) <=> block.offset <= x /\ x < block.offset + (block.size + r.size)
      /\ End(wide) = block.offset + (block.size + r.size)
      /\ low \in Block /\ low.offset = r.offset /\ low.size = block.size + r.size
      /\ \A x \in Nat : In(x, low) <=> r.offset <= x /\ x < r.offset + (block.size + r.size)
  <2> HIDE DEF block
  <2>1. block.size + r.size \in Nat
    BY <1>7
  <2>2. /\ wide \in Block /\ wide.offset = block.offset /\ wide.size = block.size + r.size
        /\ low \in Block /\ low.offset = r.offset /\ low.size = block.size + r.size
    BY <1>7, <2>1, RegionFacts
  <2> HIDE DEF wide, low
  <2>3. /\ \A x \in Nat : In(x, wide) <=> wide.offset <= x /\ x < wide.offset + wide.size
        /\ End(wide) = wide.offset + wide.size
        /\ \A x \in Nat : In(x, low) <=> low.offset <= x /\ x < low.offset + low.size
    BY <2>2, BlockFacts
  <2> QED BY <2>2, <2>3
<1>9. CASE End(block) = r.offset
  <2>1. \A x \in Nat : In(x, wide) <=> In(x, free_blocks[b]) \/ In(x, r)
    <3>1. r.offset = block.offset + block.size
      BY <1>7, <1>9
    <3>2. \A x \in Nat : In(x, wide) <=> In(x, block) \/ In(x, r)
      <4> HIDE DEF wide, block
      <4> QED BY <1>7, <1>8, <3>1
    <3> QED BY <3>2
  <2>2. /\ after \in Seq(Block) /\ Len(after) = n /\ Once(after)
        /\ \A i \in 1 .. n : after[i] = IF i = b THEN wide ELSE free_blocks[i]
        /\ \A x \in Nat : FreeAt(after, x) <=> FreeAt(free_blocks, x) \/ In(x, r)
    <3> HIDE DEF wide
    <3> QED BY <1>1, <1>4, <1>8, <2>1, BlockGrows
  <2>3. after[b] = wide /\ End(wide) = End(r)
    <3>1. End(wide) = End(r)
      <4> HIDE DEF wide, block
      <4> QED BY <1>7, <1>8, <1>9
    <3> QED BY <1>4, <2>2, <3>1
  <2> HIDE DEF after
  <2>4. CASE b < n /\ End(r) = free_blocks[b + 1].offset
    <3>1. Merged(b, r) = Joined(after, b)
      BY <1>6, <1>9, <2>3, <2>4
    <3>2. b \in 1 .. Len(after) - 1 /\ after[b + 1] = free_blocks[b + 1]
      <4>1. b + 1 \in 1 .. n /\ b + 1 # b
        BY <1>1, <1>4, <2>4
      <4> QED BY <1>1, <1>4, <2>2, <2>4, <4>1
    <3>3. End(after[b]) = after[b + 1].offset
      BY <2>3, <2>4, <3>2
    <3>4. LET gs == Joined(after, b)
          IN  /\ gs \in Seq(Block) /\ Len(gs) = Len(after) - 1 /\ Once(gs)
              /\ \A x \in Nat : FreeAt(gs, x) <=> FreeAt(after, x)
              /\ \A i \in 1 .. Len(after) - 1 :
                    gs[i] = IF i < b THEN after[i]
                            ELSE IF i = b THEN Region(after[b].offset, after[b].size + after[b + 1].size)
                            ELSE after[i + 1]
      <4> HIDE DEF b
      <4> QED BY <2>2, <3>2, <3>3, BlocksJoined
    <3> DEFINE gs == Joined(after, b)
    <3>5. Freed(gs, r) /\ Len(gs) = n - 1
      BY <2>2, <3>4 DEF Freed
    <3>6. \A i \in 1 .. n - 1 :
             gs[i] = IF i < b THEN free_blocks[i]
                     ELSE IF i = b
                     THEN Region(block.offset, block.size + r.size + free_blocks[b + 1].size)
                     ELSE free_blocks[i + 1]
      <4> SUFFICES ASSUME NEW i \in 1 .. n - 1
                   PROVE  gs[i] = IF i < b THEN free_blocks[i]
                                  ELSE IF i = b
                                  THEN Region(block.offset, block.size + r.size + free_blocks[b + 1].size)
                                  ELSE free_blocks[i + 1]
        OBVIOUS
      <4>1. i \in 1 .. n /\ i + 1 \in 1 .. n
        BY <1>1
      <4>2. gs[i] = IF i < b THEN after[i]
                    ELSE IF i = b THEN Region(after[b].offset, after[b].size + after[b + 1].size)
                    ELSE after[i + 1]
        BY <2>2, <3>4
      <4>3. after[i] = IF i = b THEN wide ELSE free_blocks[i]
        BY <2>2, <4>1
      <4>4. after[i + 1] = IF i + 1 = b THEN wide ELSE free_blocks[i + 1]
        BY <2>2, <4>1
      <4>5. /\ after[b].offset = block.offset /\ after[b].size = block.size + r.size
            /\ after[b + 1] = free_blocks[b + 1]
        BY <1>8, <2>3, <3>2
      <4> HIDE DEF gs, wide, block, n
      <4>6. CASE i < b
        BY <4>2, <4>3, <4>6, <1>4
      <4>7. CASE i = b
        BY <4>2, <4>5, <4>7
      <4>8. CASE i > b
        <5>1. i + 1 # b /\ ~(i < b) /\ i # b
          BY <4>8, <1>4, <1>1 DEF n
        <5> QED BY <4>2, <4>4, <5>1
      <4> QED BY <4>6, <4>7, <4>8, <1>4, <1>1 DEF n
    <3> QED BY <1>4, <1>9, <2>4, <3>1, <3>5, <3>6 DEF b, near
  <2>5. CASE ~(b < n /\ End(r) = free_blocks[b + 1].offset)
    <3>1. Merged(b, r) = after
      BY <1>6, <1>9, <2>3, <2>5
    <3>2. Freed(after, r)
      BY <2>2 DEF Freed
    <3> QED BY <1>4, <1>9, <2>2, <2>5, <3>1, <3>2 DEF b, near
  <2> QED BY <2>4, <2>5
<1>10. CASE End(block) # r.offset
  <2>0. End(r) = block.offset
    BY <1>4, <1>10
  <2>1. \A x \in Nat : In(x, low) <=> In(x, free_blocks[b]) \/ In(x, r)
    <3>1. block.offset = r.offset + r.size
      BY <1>7, <2>0
    <3>2. \A x \in Nat : In(x, low) <=> In(x, block) \/ In(x, r)
      <4> HIDE DEF low, block
      <4> QED BY <1>7, <1>8, <3>1
    <3> QED BY <3>2
  <2>2. /\ before \in Seq(Block) /\ Len(before) = n /\ Once(before)
        /\ \A i \in 1 .. n : before[i] = IF i = b THEN low ELSE free_blocks[i]
        /\ \A x \in Nat : FreeAt(before, x) <=> FreeAt(free_blocks, x) \/ In(x, r)
    <3> HIDE DEF low
    <3> QED BY <1>1, <1>4, <1>8, <2>1, BlockGrows
  <2>3. Merged(b, r) = before
    <3>1. ~(b > 1 /\ End(free_blocks[b - 1]) = r.offset)
      <4>1. b > 1 => b - 1 \in 1 .. b - 1
        BY <1>1, <1>4
      <4> QED BY <1>5, <4>1
    <3> QED BY <1>6, <1>10, <3>1
  <2>4. Freed(before, r)
    BY <2>2 DEF Freed
  <2> HIDE DEF before
  <2> QED BY <1>4, <1>5, <2>0, <2>2, <2>3, <2>4 DEF b, near
<1> QED BY <1>9, <1>10

\* A tensor inserted as a block of its own: the same.
LEMMA InsertedFreesTheTensor ==
  ASSUME Regions, Once(free_blocks), NEW r \in Block,
         \A x \in Nat : In(x, r) => ~FreeAt(free_blocks, x)
  PROVE  /\ Freed(Inserted(r), r)
         /\ \E p \in 1 .. Len(free_blocks) + 1 :
               /\ Inserted(r) = InsertAt(free_blocks, p, r)
               /\ \A i \in 1 .. Len(free_blocks) : i < p => free_blocks[i].offset < r.offset
               /\ p <= Len(free_blocks) => free_blocks[p].offset >= r.offset
<1> DEFINE above == {b \in 1 .. Len(free_blocks) : free_blocks[b].offset >= r.offset}
           p == IF above = {} THEN Len(free_blocks) + 1 ELSE Min(above)
<1>1. free_blocks \in Seq(Block) /\ Len(free_blocks) \in Nat
  BY DEF Regions
<1>2. r.offset \in Nat /\ \A i \in 1 .. Len(free_blocks) : free_blocks[i].offset \in Nat
  <2>1. \A i \in 1 .. Len(free_blocks) : free_blocks[i] \in Block
    BY <1>1
  <2> QED BY <2>1, BlockFacts
<1>3. above # {} => Min(above) \in above /\ \A y \in above : Min(above) <= y
  <2>1. above \in SUBSET Nat
    BY <1>1
  <2> HIDE DEF above
  <2> QED BY <2>1, MinOfNaturals
<1>4. /\ p \in 1 .. Len(free_blocks) + 1
      /\ \A i \in 1 .. Len(free_blocks) : i < p => free_blocks[i].offset < r.offset
      /\ p <= Len(free_blocks) => free_blocks[p].offset >= r.offset
  <2>1. CASE above = {}
    BY <1>1, <1>2, <2>1
  <2>2. CASE above # {}
    <3>1. p = Min(above) /\ p \in above /\ \A y \in above : p <= y
      BY <1>3, <2>2
    <3> HIDE DEF p
    <3>2. p \in 1 .. Len(free_blocks) /\ free_blocks[p].offset >= r.offset
      BY <3>1
    <3>3. \A i \in 1 .. Len(free_blocks) : i < p => i \notin above
      BY <1>1, <3>1, <3>2
    <3> QED BY <1>1, <1>2, <3>2, <3>3
  <2> QED BY <2>1, <2>2
<1>5. Inserted(r) = InsertAt(free_blocks, p, r)
  BY DEF Inserted
<1> HIDE DEF p
<1>6. Freed(InsertAt(free_blocks, p, r), r)
  BY <1>1, <1>4, BlockInserted DEF Freed
<1> QED BY <1>4, <1>5, <1>6

\* Two regions that share no address, and are not empty, lie one behind the other.
LEMMA NonemptyApart ==
  ASSUME NEW r \in Block, NEW s \in Block, r.size > 0, s.size > 0,
         \A x \in Nat : ~(In(x, r) /\ In(x, s))
  PROVE  End(r) <= s.offset \/ End(s) <= r.offset
<1>1. /\ r.offset \in Nat /\ r.size \in Nat /\ End(r) = r.offset + r.size
      /\ s.offset \in Nat /\ s.size \in Nat /\ End(s) = s.offset + s.size
      /\ \A x \in Nat : In(x, r) <=> r.offset <= x /\ x < r.offset + r.size
      /\ \A x \in Nat : In(x, s) <=> s.offset <= x /\ x < s.offset + s.size
  BY BlockFacts
<1>2. ~(In(r.offset, r) /\ In(r.offset, s)) /\ ~(In(s.offset, r) /\ In(s.offset, s))
  BY <1>1
<1>3. r.offset <= r.offset /\ r.offset < r.offset + r.size
  BY <1>1
<1>4. s.offset <= s.offset /\ s.offset < s.offset + s.size
  BY <1>1
<1>5. ~(s.offset <= r.offset /\ r.offset < s.offset + s.size)
  BY <1>1, <1>2, <1>3
<1>6. ~(r.offset <= s.offset /\ s.offset < r.offset + r.size)
  BY <1>1, <1>2, <1>4
<1> QED BY <1>1, <1>5, <1>6

\* The order of the free list, for a list of its own.
TidyList(fs) ==
  /\ fs # << >> /\ End(fs[Len(fs)]) = SizeMax
  /\ \A i \in 1 .. Len(fs) : fs[i].size > 0
  /\ \A i, j \in 1 .. Len(fs) : i < j => End(fs[i]) < fs[j].offset

\* Freeing a tensor leaves the list sorted and without two blocks that touch.
LEMMA InsertedIsTidy ==
  ASSUME Regions, Once(free_blocks), TidyList(free_blocks), NEW r \in Block, r.size > 0,
         End(r) < SizeMax, \A x \in Nat : In(x, r) => ~FreeAt(free_blocks, x),
         Neighbours(r) = {}
  PROVE  TidyList(Inserted(r))
<1> DEFINE fs == free_blocks
           n == Len(fs)
           gs == Inserted(r)
<1>1. fs \in Seq(Block) /\ n \in Nat /\ n >= 1
  BY DEF Regions, TidyList
<1>2. \A i \in 1 .. n : /\ fs[i] \in Block /\ fs[i].offset \in Nat /\ fs[i].size \in Nat
                        /\ End(fs[i]) = fs[i].offset + fs[i].size /\ fs[i].size > 0
  <2>1. \A i \in 1 .. n : fs[i] \in Block /\ fs[i].size > 0
    BY <1>1 DEF TidyList
  <2> QED BY <2>1, BlockFacts
<1>3. r.offset \in Nat /\ r.size \in Nat /\ End(r) = r.offset + r.size
  BY BlockFacts
<1>4. \A i \in 1 .. n : End(fs[i]) < r.offset \/ End(r) < fs[i].offset
  <2> SUFFICES ASSUME NEW i \in 1 .. n
               PROVE  End(fs[i]) < r.offset \/ End(r) < fs[i].offset
    OBVIOUS
  <2>1. \A x \in Nat : ~(In(x, r) /\ In(x, fs[i]))
    BY DEF FreeAt
  <2>2. End(r) <= fs[i].offset \/ End(fs[i]) <= r.offset
    BY <1>2, <2>1, NonemptyApart
  <2>3. End(fs[i]) # r.offset /\ End(r) # fs[i].offset
    BY DEF Neighbours
  <2>4. End(fs[i]) \in Nat /\ fs[i].offset \in Nat /\ End(r) \in Nat /\ r.offset \in Nat
    BY <1>2, <1>3
  <2> HIDE DEF fs
  <2> QED BY <2>2, <2>3, <2>4
<1>5. PICK p \in 1 .. n + 1 : /\ gs = InsertAt(fs, p, r)
                              /\ \A i \in 1 .. n : i < p => fs[i].offset < r.offset
                              /\ p <= n => fs[p].offset >= r.offset
  BY InsertedFreesTheTensor
<1>6. \A i, j \in 1 .. n : i < j => End(fs[i]) < fs[j].offset
  BY DEF TidyList
<1>7. \A i \in 1 .. n : i < p => End(fs[i]) < r.offset
  BY <1>2, <1>3, <1>4, <1>5
<1>8. \A i \in 1 .. n : i >= p => End(r) < fs[i].offset
  <2> SUFFICES ASSUME NEW i \in 1 .. n, i >= p
               PROVE  fs[i].offset >= r.offset
    BY <1>2, <1>3, <1>4
  <2>1. p \in 1 .. n /\ fs[p].offset >= r.offset
    BY <1>1, <1>5
  <2>2. CASE i > p
    <3>1. End(fs[p]) < fs[i].offset
      BY <1>6, <2>1, <2>2
    <3>2. /\ fs[p].offset \in Nat /\ fs[p].size \in Nat /\ End(fs[p]) = fs[p].offset + fs[p].size
          /\ fs[i].offset \in Nat
      BY <1>2, <2>1
    <3> HIDE DEF fs, gs, n
    <3> QED BY <1>3, <2>1, <3>1, <3>2
  <2> QED BY <1>1, <2>1, <2>2
<1>9. p <= n
  <2>1. SUFFICES ASSUME p = n + 1 PROVE FALSE
    BY <1>1
  <2>2. End(fs[n]) < r.offset /\ End(fs[n]) = SizeMax
    BY <1>1, <1>7, <2>1 DEF TidyList
  <2> QED BY <1>3, <2>2, SizeMaxPositive
<1>10. /\ Len(gs) = n + 1 /\ gs \in Seq(Block)
       /\ \A i \in 1 .. n + 1 : gs[i] = IF i < p THEN fs[i] ELSE IF i = p THEN r ELSE fs[i - 1]
  <2> HIDE DEF gs, fs, n
  <2>1. gs = InsertAt(fs, p, r) /\ fs \in Seq(Block) /\ p \in 1 .. Len(fs) + 1
    BY <1>1, <1>5 DEF n
  <2>2. IsInsertion(gs, fs, p, r)
    BY <2>1, InsertAtInserts
  <2> QED BY <2>2 DEF IsInsertion, n
<1> HIDE DEF gs, fs
<1>11. \A i \in 1 .. n + 1 : \/ i < p /\ i \in 1 .. n /\ gs[i] = fs[i]
                             \/ i = p /\ gs[i] = r
                             \/ i > p /\ i - 1 \in 1 .. n /\ gs[i] = fs[i - 1]
  BY <1>1, <1>10
<1>12. \A i \in 1 .. n + 1 : gs[i].size > 0
  BY <1>2, <1>11
<1>13. \A i, j \in 1 .. n + 1 : i < j => End(gs[i]) < gs[j].offset
  <2> SUFFICES ASSUME NEW i \in 1 .. n + 1, NEW j \in 1 .. n + 1, i < j
               PROVE  End(gs[i]) < gs[j].offset
    OBVIOUS
  <2>1. CASE j < p
    <3>1. i \in 1 .. n /\ j \in 1 .. n /\ gs[i] = fs[i] /\ gs[j] = fs[j]
      BY <1>11, <2>1, <1>1
    <3> QED BY <1>6, <3>1
  <2>2. CASE j = p
    <3>1. i \in 1 .. n /\ i < p /\ gs[i] = fs[i] /\ gs[j] = r
      BY <1>11, <2>2, <1>1
    <3> QED BY <1>7, <3>1
  <2>3. CASE j > p
    <3>1. j - 1 \in 1 .. n /\ gs[j] = fs[j - 1]
      BY <1>11, <2>3, <1>1
    <3>2. CASE i < p
      <4>1. i \in 1 .. n /\ gs[i] = fs[i] /\ i < j - 1
        BY <1>11, <2>3, <3>2, <1>1
      <4> QED BY <1>6, <3>1, <4>1
    <3>3. CASE i = p
      <4>1. gs[i] = r /\ j - 1 >= p
        BY <1>11, <2>3, <3>3, <1>1
      <4> QED BY <1>8, <3>1, <4>1
    <3>4. CASE i > p
      <4>1. i - 1 \in 1 .. n /\ gs[i] = fs[i - 1] /\ i - 1 < j - 1
        BY <1>11, <3>4, <1>1
      <4> QED BY <1>6, <3>1, <4>1
    <3> QED BY <3>2, <3>3, <3>4, <1>1
  <2> QED BY <2>1, <2>2, <2>3, <1>1
<1>14. gs # << >> /\ gs[Len(gs)] = fs[n]
  <2>1. n + 1 \in 1 .. n + 1 /\ n + 1 > p /\ (n + 1) - 1 = n
    BY <1>1, <1>9
  <2>2. gs[n + 1] = fs[n]
    BY <1>11, <2>1
  <2> QED BY <1>1, <1>10, <2>2
<1>15. End(fs[n]) = SizeMax
  BY DEF TidyList, fs
<1> QED BY <1>10, <1>12, <1>13, <1>14, <1>15 DEF TidyList, gs

\* Merging does too: only the first neighbour is extended, and it is then joined
\* with the second one, if there is one.
LEMMA MergedIsTidy ==
  ASSUME Regions, Once(free_blocks), TidyList(free_blocks), NEW r \in Block, r.size > 0,
         End(r) < SizeMax, \A x \in Nat : In(x, r) => ~FreeAt(free_blocks, x),
         Neighbours(r) # {}
  PROVE  TidyList(Merged(Min(Neighbours(r)), r))
<1> DEFINE fs == free_blocks
           n == Len(fs)
           b == Min(Neighbours(r))
           gs == Merged(b, r)
<1>1. fs \in Seq(Block) /\ n \in Nat /\ n >= 1
  BY DEF Regions, TidyList
<1>2. \A i \in 1 .. n : /\ fs[i] \in Block /\ fs[i].offset \in Nat /\ fs[i].size \in Nat
                        /\ End(fs[i]) = fs[i].offset + fs[i].size /\ fs[i].size > 0
  <2>1. \A i \in 1 .. n : fs[i] \in Block /\ fs[i].size > 0
    BY <1>1 DEF TidyList
  <2> QED BY <2>1, BlockFacts
<1>3. r.offset \in Nat /\ r.size \in Nat /\ End(r) = r.offset + r.size
  BY BlockFacts
<1>4. \A i \in 1 .. n : End(fs[i]) <= r.offset \/ End(r) <= fs[i].offset
  <2> SUFFICES ASSUME NEW i \in 1 .. n
               PROVE  End(fs[i]) <= r.offset \/ End(r) <= fs[i].offset
    OBVIOUS
  <2>1. \A x \in Nat : ~(In(x, r) /\ In(x, fs[i]))
    BY DEF FreeAt
  <2> QED BY <1>2, <2>1, NonemptyApart
<1>5. /\ Freed(gs, r) /\ b \in 1 .. n
      /\ \/ /\ End(fs[b]) = r.offset /\ b < n /\ End(r) = fs[b + 1].offset
            /\ Len(gs) = n - 1
            /\ \A i \in 1 .. n - 1 :
                  gs[i] = IF i < b THEN fs[i]
                          ELSE IF i = b
                          THEN Region(fs[b].offset, fs[b].size + r.size + fs[b + 1].size)
                          ELSE fs[i + 1]
         \/ /\ End(fs[b]) = r.offset /\ ~(b < n /\ End(r) = fs[b + 1].offset)
            /\ Len(gs) = n
            /\ \A i \in 1 .. n : gs[i] = IF i = b THEN Region(fs[b].offset, fs[b].size + r.size)
                                         ELSE fs[i]
         \/ /\ End(r) = fs[b].offset /\ \A i \in 1 .. b - 1 : End(fs[i]) # r.offset
            /\ Len(gs) = n
            /\ \A i \in 1 .. n : gs[i] = IF i = b THEN Region(r.offset, fs[b].size + r.size)
                                         ELSE fs[i]
  BY MergedFreesTheTensor
<1>6. (\A i, j \in 1 .. n : i < j => End(fs[i]) < fs[j].offset) /\ End(fs[n]) = SizeMax
  BY DEF TidyList
<1> HIDE DEF gs, b, fs
<1>7. CASE End(fs[b]) = r.offset /\ b < n /\ End(r) = fs[b + 1].offset
  <2> DEFINE g == Region(fs[b].offset, fs[b].size + r.size + fs[b + 1].size)
  <2>0. b \in 1 .. n /\ b + 1 \in 1 .. n
    BY <1>1, <1>5, <1>7
  <2>1. /\ g.offset = fs[b].offset /\ End(g) = End(fs[b + 1]) /\ g.size > 0
    <3>1. fs[b].offset \in Nat /\ fs[b].size + r.size + fs[b + 1].size \in Nat
      BY <1>2, <1>3, <2>0
    <3>2. g \in Block /\ g.offset = fs[b].offset /\ g.size = fs[b].size + r.size + fs[b + 1].size
      BY <3>1, RegionFacts
    <3> HIDE DEF g
    <3>3. End(g) = g.offset + g.size
      BY <3>2, BlockFacts
    <3>4. /\ fs[b].offset \in Nat /\ fs[b].size \in Nat /\ fs[b + 1].offset \in Nat
          /\ fs[b + 1].size \in Nat /\ End(fs[b]) = fs[b].offset + fs[b].size
          /\ End(fs[b + 1]) = fs[b + 1].offset + fs[b + 1].size /\ fs[b].size > 0
      BY <1>2, <2>0
    <3>5. End(g) = End(fs[b + 1])
      <4>1. End(g) = fs[b].offset + (fs[b].size + r.size + fs[b + 1].size)
        BY <3>2, <3>3
      <4>2. fs[b].offset + fs[b].size = r.offset /\ r.offset + r.size = fs[b + 1].offset
        BY <1>3, <1>7, <3>4
      <4> QED BY <1>3, <3>4, <4>1, <4>2
    <3>6. g.size > 0
      BY <1>3, <3>2, <3>4
    <3> QED BY <3>2, <3>5, <3>6
  <2>2. /\ Len(gs) = n - 1
        /\ \A i \in 1 .. n - 1 : gs[i] = IF i < b THEN fs[i] ELSE IF i = b THEN g ELSE fs[i + 1]
    <3>1. fs[b].size > 0 /\ r.size > 0 /\ End(fs[b]) # fs[b].offset
      BY <1>2, <1>3, <2>0
    <3>2. End(r) # fs[b].offset
      BY <1>2, <1>3, <1>7, <2>0
    <3> QED BY <1>5, <1>7, <3>2
  <2> HIDE DEF g
  <2>3. \A i \in 1 .. n - 1 : \E k, m \in 1 .. n :
           /\ gs[i].offset = fs[k].offset /\ End(gs[i]) = End(fs[m]) /\ gs[i].size > 0
           /\ i < b => k = i /\ m = i
           /\ i = b => k = i /\ m = i + 1
           /\ i > b => k = i + 1 /\ m = i + 1
    <3> SUFFICES ASSUME NEW i \in 1 .. n - 1
                 PROVE  \E k, m \in 1 .. n :
                          /\ gs[i].offset = fs[k].offset /\ End(gs[i]) = End(fs[m]) /\ gs[i].size > 0
                          /\ i < b => k = i /\ m = i
                          /\ i = b => k = i /\ m = i + 1
                          /\ i > b => k = i + 1 /\ m = i + 1
      OBVIOUS
    <3>1. i \in 1 .. n /\ i + 1 \in 1 .. n
      BY <1>1
    <3>2. CASE i < b
      BY <1>2, <2>0, <2>2, <3>1, <3>2
    <3>3. CASE i = b
      BY <2>0, <2>1, <2>2, <3>1, <3>3
    <3>4. CASE i > b
      BY <1>2, <2>0, <2>2, <3>1, <3>4
    <3> QED BY <1>1, <2>0, <3>2, <3>3, <3>4
  <2>4. \A i, j \in 1 .. n - 1 : i < j => End(gs[i]) < gs[j].offset
    <3> SUFFICES ASSUME NEW i \in 1 .. n - 1, NEW j \in 1 .. n - 1, i < j
                 PROVE  End(gs[i]) < gs[j].offset
      OBVIOUS
    <3>1. PICK p, m \in 1 .. n : End(gs[i]) = End(fs[m]) /\ (i < b => m = i) /\ (i = b => m = i + 1)
                               /\ (i > b => m = i + 1)
      BY <2>3
    <3>2. PICK k, q \in 1 .. n : gs[j].offset = fs[k].offset /\ (j < b => k = j) /\ (j = b => k = j)
                               /\ (j > b => k = j + 1)
      BY <2>3
    <3>3. m < k
      BY <1>1, <2>0, <3>1, <3>2
    <3> QED BY <1>6, <3>1, <3>2, <3>3
  <2>5. n - 1 \in 1 .. n - 1 /\ n - 1 >= b
    BY <1>1, <1>7, <2>0
  <2>6. End(gs[n - 1]) = End(fs[n])
    <3>1. PICK k, m \in 1 .. n : End(gs[n - 1]) = End(fs[m]) /\ (n - 1 = b => m = (n - 1) + 1)
                                /\ (n - 1 > b => m = (n - 1) + 1)
      BY <2>3, <2>5
    <3> QED BY <1>1, <2>0, <2>5, <3>1
  <2>7. gs # << >> /\ \A i \in 1 .. n - 1 : gs[i].size > 0
    BY <1>1, <1>5, <2>2, <2>3, <2>5 DEF Freed
  <2>8. TidyList(gs)
    BY <1>6, <2>2, <2>4, <2>6, <2>7 DEF TidyList
  <2> QED BY <2>8 DEF gs, b
<1>8. CASE ~(End(fs[b]) = r.offset /\ b < n /\ End(r) = fs[b + 1].offset)
  <2>0. b \in 1 .. n /\ Len(gs) = n
    BY <1>5, <1>8
  <2>1. PICK g : /\ \A i \in 1 .. n : gs[i] = IF i = b THEN g ELSE fs[i]
                 /\ \/ /\ End(fs[b]) = r.offset /\ ~(b < n /\ End(r) = fs[b + 1].offset)
                       /\ g = Region(fs[b].offset, fs[b].size + r.size)
                    \/ /\ End(r) = fs[b].offset /\ \A i \in 1 .. b - 1 : End(fs[i]) # r.offset
                       /\ g = Region(r.offset, fs[b].size + r.size)
    BY <1>5, <1>8
  <2>2. g.size > 0 /\ (\/ g.offset = fs[b].offset /\ End(g) = End(r) /\ End(fs[b]) = r.offset
                       \/ g.offset = r.offset /\ End(g) = End(fs[b]) /\ End(r) = fs[b].offset)
    <3>1. fs[b].offset \in Nat /\ fs[b].size + r.size \in Nat /\ r.offset \in Nat
      BY <1>2, <1>3, <2>0
    <3>2. CASE g = Region(fs[b].offset, fs[b].size + r.size) /\ End(fs[b]) = r.offset
      <4>1. g \in Block /\ g.offset = fs[b].offset /\ g.size = fs[b].size + r.size
        BY <3>1, <3>2, RegionFacts
      <4>2. End(g) = g.offset + g.size
        BY <4>1, BlockFacts
      <4> QED BY <1>2, <1>3, <2>0, <3>2, <4>1, <4>2
    <3>3. CASE g = Region(r.offset, fs[b].size + r.size) /\ End(r) = fs[b].offset
      <4>1. g \in Block /\ g.offset = r.offset /\ g.size = fs[b].size + r.size
        BY <3>1, <3>3, RegionFacts
      <4>2. End(g) = g.offset + g.size
        BY <4>1, BlockFacts
      <4> QED BY <1>2, <1>3, <2>0, <3>3, <4>1, <4>2
    <3> QED BY <2>1, <3>2, <3>3
  <2>3. End(fs[b]) = r.offset => b < n
    <3>1. SUFFICES ASSUME End(fs[b]) = r.offset, b = n PROVE FALSE
      BY <1>1, <2>0
    <3> QED BY <1>3, <1>6, <3>1, SizeMaxPositive
  <2>4. \A j \in 1 .. n : b < j => End(g) < fs[j].offset
    <3> SUFFICES ASSUME NEW j \in 1 .. n, b < j
                 PROVE  End(g) < fs[j].offset
      OBVIOUS
    <3>1. CASE End(g) = End(fs[b])
      BY <1>6, <2>0, <3>1
    <3>2. CASE End(g) = End(r) /\ End(fs[b]) = r.offset /\ End(g) # End(fs[b])
      <4>0. b + 1 \in 1 .. n /\ b < b + 1
        BY <1>1, <2>0
      <4>1. End(r) # fs[b + 1].offset
        BY <1>1, <1>2, <1>3, <2>0, <2>1, <3>2, <4>0
      <4>2. End(fs[b]) < fs[b + 1].offset
        BY <1>6, <2>0, <4>0
      <4>3. End(fs[b + 1]) > r.offset
        <5>1. /\ fs[b + 1].offset \in Nat /\ fs[b + 1].size \in Nat
              /\ End(fs[b + 1]) = fs[b + 1].offset + fs[b + 1].size
          BY <1>2, <4>0
        <5>2. End(fs[b]) = r.offset
          BY <3>2
        <5>3. End(fs[b + 1]) \in Nat /\ End(fs[b + 1]) >= fs[b + 1].offset
          BY <5>1
        <5>4. r.offset < fs[b + 1].offset /\ r.offset \in Nat
          BY <1>3, <4>2, <5>2
        <5> QED BY ONLY <5>1, <5>3, <5>4
      <4>4. End(r) < fs[b + 1].offset
        <5>1. End(fs[b + 1]) <= r.offset \/ End(r) <= fs[b + 1].offset
          BY <1>4, <4>0
        <5>2. fs[b + 1].offset \in Nat /\ End(fs[b + 1]) \in Nat
          BY <1>2, <4>0
        <5> QED BY <1>3, <4>1, <4>3, <5>1, <5>2
      <4>5. fs[j].offset >= fs[b + 1].offset
        <5>1. CASE j = b + 1
          BY <1>2, <5>1
        <5>2. CASE j > b + 1
          BY <1>2, <1>6, <4>0, <5>2
        <5> QED BY <1>1, <2>0, <5>1, <5>2
      <4> QED BY <1>2, <1>3, <3>2, <4>0, <4>4, <4>5
    <3> QED BY <2>2, <3>1, <3>2
  <2>5. \A i \in 1 .. n : i < b => End(fs[i]) < g.offset
    <3> SUFFICES ASSUME NEW i \in 1 .. n, i < b
                 PROVE  End(fs[i]) < g.offset
      OBVIOUS
    <3>1. End(fs[i]) < fs[b].offset
      BY <1>6, <2>0
    <3>2. CASE g.offset = fs[b].offset
      BY <3>1, <3>2
    <3>3. CASE g.offset = r.offset /\ End(r) = fs[b].offset /\ g.offset # fs[b].offset
      <4>1. i \in 1 .. b - 1
        BY <1>1, <2>0
      <4>2. End(fs[i]) # r.offset
        <5>1. g # Region(fs[b].offset, fs[b].size + r.size) \/ g.offset = fs[b].offset
          <6>1. fs[b].offset \in Nat /\ fs[b].size + r.size \in Nat
            BY <1>2, <1>3, <2>0
          <6> QED BY <6>1, RegionFacts
        <5> QED BY <2>1, <3>3, <4>1, <5>1
      <4>3. fs[i].offset < End(r)
        <5>1. /\ fs[i].offset \in Nat /\ fs[i].size \in Nat /\ End(fs[i]) = fs[i].offset + fs[i].size
              /\ End(r) = fs[b].offset
          BY <1>2, <2>0, <3>3
        <5> QED BY <1>3, <3>1, <5>1
      <4>4. End(fs[i]) <= r.offset
        <5>1. End(fs[i]) <= r.offset \/ End(r) <= fs[i].offset
          BY <1>4
        <5>2. fs[i].offset \in Nat /\ End(fs[i]) \in Nat
          BY <1>2
        <5> QED BY <1>3, <4>3, <5>1, <5>2
      <4>5. End(fs[i]) \in Nat
        BY <1>2
      <4> QED BY <1>3, <3>3, <4>2, <4>4, <4>5
    <3> QED BY <2>2, <3>2, <3>3
  <2>6. \A i, j \in 1 .. n : i < j => End(gs[i]) < gs[j].offset
    <3> SUFFICES ASSUME NEW i \in 1 .. n, NEW j \in 1 .. n, i < j
                 PROVE  End(gs[i]) < gs[j].offset
      OBVIOUS
    <3>1. CASE i = b
      BY <1>1, <2>0, <2>1, <2>4, <3>1
    <3>2. CASE j = b
      BY <1>1, <2>0, <2>1, <2>5, <3>2
    <3>3. CASE i # b /\ j # b
      BY <1>6, <2>1, <3>3
    <3> QED BY <3>1, <3>2, <3>3
  <2>7. End(gs[n]) = SizeMax
    <3>1. CASE b = n
      <4>1. End(g) = End(fs[b])
        BY <1>1, <2>2, <2>3, <3>1
      <4> QED BY <1>1, <1>6, <2>1, <3>1, <4>1
    <3>2. CASE b # n
      BY <1>1, <1>6, <2>1, <3>2
    <3> QED BY <3>1, <3>2
  <2>8. gs # << >> /\ \A i \in 1 .. n : gs[i].size > 0
    <3>1. gs # << >>
      BY <1>1, <1>5, <2>0 DEF Freed
    <3> QED BY <1>2, <2>1, <2>2, <3>1
  <2>9. TidyList(gs)
    BY <2>0, <2>6, <2>7, <2>8 DEF TidyList
  <2> QED BY <2>9 DEF gs, b
<1> QED BY <1>7, <1>8 DEF gs, b

\* Freeing moves the tensor's memory back to the free list.
LEMMA ReleaseKeepsMemory ==
  ASSUME Memory, max_size < SizeMax, NEW t \in DOMAIN held, Release(t)
  PROVE  Memory' /\ (Tidy => Tidy')
<1> DEFINE r == held[t]
           near == Neighbours(r)
<1>1. /\ free_blocks' = IF near # {} THEN Merged(Min(near), r) ELSE Inserted(r)
      /\ held' = [u \in DOMAIN held \ {t} |-> held[u]]
      /\ max_size' = max_size
  BY DEF Release
<1>2. /\ Regions /\ Once(free_blocks) /\ r \in Block /\ End(r) <= max_size /\ max_size \in Nat
      /\ free_blocks \in Seq(Block)
  BY DEF Memory, Regions
<1>3. /\ r.offset \in Nat /\ r.size \in Nat /\ End(r) = r.offset + r.size
      /\ \A x \in Nat : In(x, r) <=> r.offset <= x /\ x < r.offset + r.size
  BY <1>2, BlockFacts
<1>4. \A x \in Nat : In(x, r) => x \in 0 .. SizeMax - 1 /\ HeldAt(x) /\ ~FreeAt(free_blocks, x)
  <2>1. \A x \in Nat : In(x, r) => x \in 0 .. SizeMax - 1
    BY <1>2, <1>3, SizeMaxPositive
  <2>2. \A x \in Nat : In(x, r) => HeldAt(x)
    BY DEF HeldAt
  <2> QED BY <2>1, <2>2 DEF Memory, FreeOrHeld
<1>5. Freed(free_blocks', r)
  <2>1. CASE near # {}
    BY <1>1, <1>2, <1>4, <2>1, MergedFreesTheTensor
  <2>2. CASE near = {}
    BY <1>1, <1>2, <1>4, <2>2, InsertedFreesTheTensor
  <2> QED BY <2>1, <2>2
<1>6. /\ free_blocks' \in Seq(Block) /\ Once(free_blocks)'
      /\ \A x \in Nat : FreeAt(free_blocks, x)' <=> FreeAt(free_blocks, x) \/ In(x, r)
  BY <1>5 DEF Freed, Once, FreeAt, In, End
<1>7. /\ DOMAIN held' = DOMAIN held \ {t}
      /\ \A u \in DOMAIN held' : held'[u] = held[u]
  BY <1>1
<1>8. \A i \in 1 .. Len(free_blocks') :
         free_blocks'[i].offset < SizeMax /\ End(free_blocks'[i]) <= SizeMax
  <2> DEFINE n == Len(free_blocks)
  <2>0. n \in Nat /\ \A i \in 1 .. n : /\ free_blocks[i] \in Block /\ free_blocks[i].offset \in Nat
                                     /\ free_blocks[i].size \in Nat
                                     /\ End(free_blocks[i]) = free_blocks[i].offset + free_blocks[i].size
                                     /\ free_blocks[i].offset < SizeMax /\ End(free_blocks[i]) <= SizeMax
    <3>1. n \in Nat /\ \A i \in 1 .. n : free_blocks[i] \in Block
      BY <1>2
    <3> QED BY <3>1, BlockFacts DEF Memory, Regions
  <2>1. r.offset < SizeMax /\ End(r) <= SizeMax
    BY <1>2, <1>3, SizeMaxPositive
  <2>2. CASE near = {}
    <3>1. PICK p \in 1 .. n + 1 : free_blocks' = InsertAt(free_blocks, p, r)
      BY <1>1, <1>2, <1>4, <2>2, InsertedFreesTheTensor
    <3>2. /\ Len(free_blocks') = n + 1
          /\ \A i \in 1 .. n + 1 : free_blocks'[i] = IF i < p THEN free_blocks[i]
                                                    ELSE IF i = p THEN r ELSE free_blocks[i - 1]
      <4>1. p \in 1 .. Len(free_blocks) + 1 /\ free_blocks \in Seq(Block) /\ r \in Block
        BY <1>2
      <4> HIDE DEF n, r, near
      <4>2. IsInsertion(free_blocks', free_blocks, p, r)
        BY <3>1, <4>1, InsertAtInserts
      <4> QED BY <4>2 DEF IsInsertion, n
    <3>3. \A i \in 1 .. n + 1 : (i < p => i \in 1 .. n) /\ (i > p => i - 1 \in 1 .. n)
      BY <2>0
    <3> HIDE DEF n, r, near
    <3>4. \A i \in 1 .. n + 1 : free_blocks'[i] = r \/ \E k \in 1 .. n : free_blocks'[i] = free_blocks[k]
      BY <2>0, <3>2, <3>3
    <3> QED BY <2>0, <2>1, <3>2, <3>4
  <2>3. CASE near # {}
    <3> DEFINE b == Min(near)
               block == free_blocks[b]
               gs == free_blocks'
    <3>1. /\ b \in 1 .. n
          /\ \/ /\ End(block) = r.offset /\ b < n /\ End(r) = free_blocks[b + 1].offset
                /\ Len(gs) = n - 1
                /\ \A i \in 1 .. n - 1 :
                      gs[i] = IF i < b THEN free_blocks[i]
                              ELSE IF i = b
                              THEN Region(block.offset, block.size + r.size + free_blocks[b + 1].size)
                              ELSE free_blocks[i + 1]
             \/ /\ End(block) = r.offset /\ ~(b < n /\ End(r) = free_blocks[b + 1].offset)
                /\ Len(gs) = n
                /\ \A i \in 1 .. n : gs[i] = IF i = b THEN Region(block.offset, block.size + r.size)
                                             ELSE free_blocks[i]
             \/ /\ End(r) = block.offset /\ \A i \in 1 .. b - 1 : End(free_blocks[i]) # r.offset
                /\ Len(gs) = n
                /\ \A i \in 1 .. n : gs[i] = IF i = b THEN Region(r.offset, block.size + r.size)
                                             ELSE free_blocks[i]
      <4>1. gs = Merged(b, r)
        BY <1>1, <2>3
      <4> HIDE DEF gs
      <4> QED BY <1>2, <1>4, <2>3, <4>1, MergedFreesTheTensor
    <3> HIDE DEF b, gs, n, near, r
    <3>2. /\ block.offset \in Nat /\ block.size \in Nat /\ End(block) = block.offset + block.size
          /\ block.offset < SizeMax /\ End(block) <= SizeMax
      BY <2>0, <3>1
    <3> HIDE DEF block
    <3>3. CASE /\ End(block) = r.offset /\ b < n /\ End(r) = free_blocks[b + 1].offset
               /\ Len(gs) = n - 1
               /\ \A i \in 1 .. n - 1 :
                     gs[i] = IF i < b THEN free_blocks[i]
                             ELSE IF i = b
                             THEN Region(block.offset, block.size + r.size + free_blocks[b + 1].size)
                             ELSE free_blocks[i + 1]
      <4> DEFINE g == Region(block.offset, block.size + r.size + free_blocks[b + 1].size)
      <4>1. b + 1 \in 1 .. n
        BY <2>0, <3>1, <3>3
      <4>2. /\ free_blocks[b + 1].size \in Nat /\ End(free_blocks[b + 1]) <= SizeMax
            /\ End(free_blocks[b + 1]) = free_blocks[b + 1].offset + free_blocks[b + 1].size
        BY <2>0, <4>1
      <4>3. block.size + r.size + free_blocks[b + 1].size \in Nat
        BY <1>3, <3>2, <4>2
      <4>4. g \in Block /\ g.offset = block.offset /\ g.size = block.size + r.size + free_blocks[b + 1].size
        BY <3>2, <4>3, RegionFacts
      <4> HIDE DEF g
      <4>5. End(g) = g.offset + g.size
        BY <4>4, BlockFacts
      <4>6. g.offset < SizeMax /\ End(g) <= SizeMax
        <5>1. End(g) = block.offset + (block.size + r.size + free_blocks[b + 1].size)
          BY <4>4, <4>5
        <5>2. block.offset + block.size = r.offset /\ r.offset + r.size = free_blocks[b + 1].offset
          BY <1>3, <3>2, <3>3
        <5>3. End(g) = End(free_blocks[b + 1])
          BY <1>3, <3>2, <4>2, <5>1, <5>2
        <5> QED BY <3>2, <4>2, <4>4, <5>3
      <4>7. \A i \in 1 .. n - 1 : gs[i] = g \/ \E k \in 1 .. n : gs[i] = free_blocks[k]
        <5>1. \A i \in 1 .. n - 1 : i \in 1 .. n /\ i + 1 \in 1 .. n
          BY <2>0
        <5>2. \A i \in 1 .. n - 1 : gs[i] = IF i < b THEN free_blocks[i] ELSE IF i = b THEN g
                                            ELSE free_blocks[i + 1]
          BY <3>3 DEF g
        <5> QED BY <5>1, <5>2
      <4>8. \A i \in 1 .. n - 1 : gs[i].offset < SizeMax /\ End(gs[i]) <= SizeMax
        BY <2>0, <4>6, <4>7
      <4>9. Len(gs) = n - 1
        BY <3>3
      <4> QED BY <4>8, <4>9 DEF gs
    <3>4. ASSUME NEW g \in Block, Len(gs) = n, \A i \in 1 .. n : gs[i] = IF i = b THEN g ELSE free_blocks[i],
                 g.offset < SizeMax, End(g) <= SizeMax
          PROVE  \A i \in 1 .. Len(free_blocks') :
                    free_blocks'[i].offset < SizeMax /\ End(free_blocks'[i]) <= SizeMax
      <4>1. \A i \in 1 .. n : gs[i].offset < SizeMax /\ End(gs[i]) <= SizeMax
        BY <2>0, <3>4
      <4> QED BY <3>4, <4>1 DEF gs
    <3>5. CASE /\ End(block) = r.offset /\ Len(gs) = n
               /\ \A i \in 1 .. n : gs[i] = IF i = b THEN Region(block.offset, block.size + r.size)
                                            ELSE free_blocks[i]
      <4> DEFINE g == Region(block.offset, block.size + r.size)
      <4>1. block.size + r.size \in Nat
        BY <1>3, <3>2
      <4>2. g \in Block /\ g.offset = block.offset /\ g.size = block.size + r.size
        BY <3>2, <4>1, RegionFacts
      <4>3. \A i \in 1 .. n : gs[i] = IF i = b THEN g ELSE free_blocks[i]
        BY <3>5
      <4> HIDE DEF g
      <4>4. End(g) = g.offset + g.size
        BY <4>2, BlockFacts
      <4>5. End(g) = End(r)
        BY <1>3, <3>2, <3>5, <4>2, <4>4
      <4> QED BY <2>1, <3>2, <3>4, <3>5, <4>2, <4>3, <4>5
    <3>6. CASE /\ End(r) = block.offset /\ Len(gs) = n
               /\ \A i \in 1 .. n : gs[i] = IF i = b THEN Region(r.offset, block.size + r.size)
                                            ELSE free_blocks[i]
      <4> DEFINE g == Region(r.offset, block.size + r.size)
      <4>1. block.size + r.size \in Nat
        BY <1>3, <3>2
      <4>2. g \in Block /\ g.offset = r.offset /\ g.size = block.size + r.size
        BY <1>3, <4>1, RegionFacts
      <4>3. \A i \in 1 .. n : gs[i] = IF i = b THEN g ELSE free_blocks[i]
        BY <3>6
      <4> HIDE DEF g
      <4>4. End(g) = g.offset + g.size
        BY <4>2, BlockFacts
      <4>5. End(g) = End(block)
        BY <1>3, <3>2, <3>6, <4>2, <4>4
      <4> QED BY <2>1, <3>2, <3>4, <3>6, <4>2, <4>3, <4>5
    <3> QED BY <3>1, <3>3, <3>5, <3>6
  <2> QED BY <2>2, <2>3
<1>9. Regions'
  <2>1. \A u \in DOMAIN held' : held'[u] \in Block /\ End(held'[u]) <= max_size'
    BY <1>1, <1>7 DEF Memory, Regions
  <2>2. \A u \in DOMAIN held' : (held[u] \in Block /\ End(held[u]) <= max_size)'
    BY <2>1 DEF End
  <2>3. \A i \in 1 .. Len(free_blocks)' :
           (free_blocks[i].offset < SizeMax /\ End(free_blocks[i]) <= SizeMax)'
    BY <1>8 DEF End
  <2>4. free_blocks' \in Seq(Block) /\ max_size' \in Nat
    BY <1>1, <1>2, <1>6
  <2> QED BY <2>2, <2>3, <2>4 DEF Regions
<1>10. HeldOnce'
  <2> SUFFICES ASSUME NEW u \in DOMAIN held', NEW v \in DOMAIN held', NEW x \in Nat,
                      In(x, held'[u]), In(x, held'[v])
               PROVE  u = v
    BY DEF HeldOnce, In, End
  <2> QED BY <1>7 DEF Memory, HeldOnce
<1>11. FreeOrHeld'
  <2> SUFFICES ASSUME NEW x \in 0 .. SizeMax - 1
               PROVE  HeldAt(x)' <=> ~FreeAt(free_blocks, x)'
    BY DEF FreeOrHeld
  <2>0. x \in Nat
    BY SizeMaxPositive
  <2>1. HeldAt(x)' <=> HeldAt(x) /\ ~In(x, r)
    <3>1. HeldAt(x)' <=> \E u \in DOMAIN held' : In(x, held'[u])
      BY DEF HeldAt, In, End
    <3>2. \A u \in DOMAIN held : In(x, held[u]) /\ In(x, r) => u = t
      BY <2>0 DEF Memory, HeldOnce
    <3> QED BY <1>7, <3>1, <3>2 DEF HeldAt
  <2>2. HeldAt(x) <=> ~FreeAt(free_blocks, x)
    BY DEF Memory, FreeOrHeld
  <2> QED BY <1>6, <2>0, <2>1, <2>2
<1>12. ASSUME Tidy PROVE Tidy'
  <2>1. TidyList(free_blocks) /\ r.size > 0 /\ \A u \in DOMAIN held : held[u].size > 0
    BY <1>12 DEF Tidy, TidyList
  <2>2. End(r) < SizeMax
    BY <1>2, <1>3, SizeMaxPositive
  <2>3. TidyList(free_blocks')
    <3>1. CASE near # {}
      BY <1>1, <1>2, <1>4, <2>1, <2>2, <3>1, MergedIsTidy
    <3>2. CASE near = {}
      BY <1>1, <1>2, <1>4, <2>1, <2>2, <3>2, InsertedIsTidy
    <3> QED BY <3>1, <3>2
  <2>4. \A u \in DOMAIN held' : held'[u].size > 0
    BY <1>7, <2>1
  <2> QED BY <2>3, <2>4 DEF Tidy, TidyList, End
<1> QED BY <1>6, <1>9, <1>10, <1>11, <1>12 DEF Memory

\* At every address exactly one: the two cardinalities of MemoryExact add up to 1.
LEMMA MemoryIsExact ==
  ASSUME Memory, max_size < SizeMax
  PROVE  MemoryExact /\ WithinMaxSize
<1> DEFINE S == {End(held[t]) : t \in DOMAIN held}
                  \union {free_blocks[i].offset : i \in DOMAIN free_blocks}
<1>1. Len(free_blocks) \in Nat /\ Len(free_blocks) >= 1 /\ free_blocks \in Seq(Block)
      /\ max_size \in Nat /\ DOMAIN free_blocks = 1 .. Len(free_blocks)
  BY SomethingFree DEF Memory, Regions
<1>2. S \in SUBSET (0 .. SizeMax - 1) /\ S # {} /\ SizeMax - 1 \in Nat
  <2>1. \A t \in DOMAIN held : End(held[t]) \in 0 .. SizeMax - 1
    <3>1. \A t \in DOMAIN held : held[t] \in Block /\ End(held[t]) <= max_size
      BY DEF Memory, Regions
    <3>2. \A t \in DOMAIN held : End(held[t]) \in Nat
      BY <3>1, BlockFacts
    <3> QED BY <1>1, <3>1, <3>2, SizeMaxPositive
  <2>2. \A i \in 1 .. Len(free_blocks) : free_blocks[i].offset \in 0 .. SizeMax - 1
    <3>1. \A i \in 1 .. Len(free_blocks) : free_blocks[i] \in Block /\ free_blocks[i].offset < SizeMax
      BY <1>1 DEF Memory, Regions
    <3>2. \A i \in 1 .. Len(free_blocks) : free_blocks[i].offset \in Nat
      BY <3>1, BlockFacts
    <3> QED BY <3>1, <3>2, SizeMaxPositive
  <2>3. 1 \in DOMAIN free_blocks
    BY <1>1
  <2> QED BY <1>1, <2>1, <2>2, <2>3, SizeMaxPositive
<1>3. Max(S) \in 0 .. SizeMax - 1
  <2> HIDE DEF S
  <2> QED BY <1>2, MaxOfBounded
<1>4. \A x \in 0 .. SizeMax - 1 :
         Cardinality({i \in DOMAIN free_blocks : In(x, free_blocks[i])})
         + Cardinality({t \in DOMAIN held : In(x, held[t])}) = 1
  <2> SUFFICES ASSUME NEW x \in 0 .. SizeMax - 1
               PROVE  Cardinality({i \in DOMAIN free_blocks : In(x, free_blocks[i])})
                      + Cardinality({t \in DOMAIN held : In(x, held[t])}) = 1
    OBVIOUS
  <2> DEFINE F == {i \in DOMAIN free_blocks : In(x, free_blocks[i])}
             H == {t \in DOMAIN held : In(x, held[t])}
  <2>0. x \in Nat
    BY SizeMaxPositive
  <2>1. Cardinality({}) = 0 /\ \A y : Cardinality({y}) = 1
    BY FS_EmptySet, FS_Singleton
  <2>2. HeldAt(x) <=> ~FreeAt(free_blocks, x)
    BY DEF Memory, FreeOrHeld
  <2>3. ASSUME HeldAt(x) PROVE Cardinality(F) + Cardinality(H) = 1
    <3>1. PICK t \in DOMAIN held : In(x, held[t])
      BY <2>3 DEF HeldAt
    <3>2. H = {t}
      BY <2>0, <3>1 DEF Memory, HeldOnce
    <3>3. F = {}
      BY <1>1, <2>2, <2>3 DEF FreeAt
    <3> HIDE DEF F, H
    <3>4. Cardinality(H) = 1 /\ Cardinality(F) = 0
      BY <2>1, <3>2, <3>3, Zenon
    <3> QED BY <3>4
  <2>4. ASSUME FreeAt(free_blocks, x) PROVE Cardinality(F) + Cardinality(H) = 1
    <3>1. PICK i \in DOMAIN free_blocks : In(x, free_blocks[i])
      BY <1>1, <2>4 DEF FreeAt
    <3>2. F = {i}
      BY <1>1, <2>0, <3>1 DEF Memory, Once
    <3>3. H = {}
      BY <2>2, <2>4 DEF HeldAt
    <3> HIDE DEF F, H
    <3>4. Cardinality(F) = 1 /\ Cardinality(H) = 0
      BY <2>1, <3>2, <3>3, Zenon
    <3> QED BY <3>4
  <2>5. Cardinality(F) + Cardinality(H) = 1
    BY <2>2, <2>3, <2>4
  <2> QED BY <2>5
<1>5. \A x \in 0 .. Max(S) : x \in 0 .. SizeMax - 1
  <2> HIDE DEF S
  <2> QED BY <1>2, <1>3
<1>6. MemoryExact
  <2> HIDE DEF S
  <2>1. \A x \in 0 .. Max(S) :
           Cardinality({i \in DOMAIN free_blocks : In(x, free_blocks[i])})
           + Cardinality({t \in DOMAIN held : In(x, held[t])}) = 1
    BY <1>4, <1>5
  <2> QED BY <2>1 DEF MemoryExact, S
<1> QED BY <1>6 DEF Memory, Regions, WithinMaxSize

\* The order is what FreeListMerged asks for.
LEMMA TidyIsMerged ==
  ASSUME Memory, Tidy
  PROVE  FreeListMerged
<1>1. free_blocks \in Seq(Block) /\ Len(free_blocks) \in Nat
  BY DEF Memory, Regions
<1>2. \A i \in 1 .. Len(free_blocks) - 1 : End(free_blocks[i]) < free_blocks[i + 1].offset
  BY <1>1 DEF Tidy
<1>3. End(Last(free_blocks)) = SizeMax
  BY DEF Tidy, Last
<1> QED BY <1>2, <1>3 DEF FreeListMerged

\* The list of a new or reset allocator: one block, all the memory.
LEMMA OneBlockIsAll ==
  ASSUME NEW fs, fs = <<Region(0, SizeMax)>>
  PROVE  /\ fs \in Seq(Block) /\ Len(fs) = 1 /\ fs[1] = Region(0, SizeMax) /\ Region(0, SizeMax) \in Block
         /\ Region(0, SizeMax).offset = 0 /\ Region(0, SizeMax).size = SizeMax
         /\ End(Region(0, SizeMax)) = SizeMax
         /\ Once(fs) /\ \A x \in 0 .. SizeMax - 1 : FreeAt(fs, x)
<1>1. /\ Region(0, SizeMax) \in Block
      /\ Region(0, SizeMax).offset = 0 /\ Region(0, SizeMax).size = SizeMax
  BY RegionFacts, SizeMaxPositive
<1>2. /\ End(Region(0, SizeMax)) = 0 + SizeMax
      /\ \A x \in Nat : In(x, Region(0, SizeMax)) <=> 0 <= x /\ x < 0 + SizeMax
  BY <1>1, BlockFacts
<1>3. fs \in Seq(Block) /\ Len(fs) = 1 /\ fs[1] = Region(0, SizeMax)
  BY <1>1
<1>4. Once(fs)
  BY <1>3 DEF Once
<1>5. \A x \in 0 .. SizeMax - 1 : FreeAt(fs, x)
  <2>1. \A x \in 0 .. SizeMax - 1 : In(x, fs[1])
    BY <1>2, <1>3, SizeMaxPositive
  <2> QED BY <1>3, <2>1 DEF FreeAt
<1> QED BY <1>1, <1>2, <1>3, <1>4, <1>5, SizeMaxPositive

\* The allocator begins with all memory free.
LEMMA InitMemory ==
  ASSUME InitAllocator
  PROVE  Memory /\ Tidy
<1>1. free_blocks = <<Region(0, SizeMax)>> /\ max_size = 0 /\ held = << >> /\ DOMAIN held = {}
  BY DEF InitAllocator
<1>2. /\ free_blocks \in Seq(Block) /\ Len(free_blocks) = 1 /\ free_blocks[1] = Region(0, SizeMax)
      /\ Region(0, SizeMax).offset = 0 /\ Region(0, SizeMax).size = SizeMax
      /\ End(Region(0, SizeMax)) = SizeMax
      /\ Once(free_blocks) /\ \A x \in 0 .. SizeMax - 1 : FreeAt(free_blocks, x)
  BY <1>1, OneBlockIsAll
<1>3. Regions
  BY <1>1, <1>2, SizeMaxPositive DEF Regions
<1>4. HeldOnce /\ FreeOrHeld
  BY <1>1, <1>2 DEF HeldOnce, FreeOrHeld, HeldAt
<1>5. Tidy
  BY <1>1, <1>2, SizeMaxPositive DEF Tidy
<1> QED BY <1>2, <1>3, <1>4, <1>5 DEF Memory

\* ggml_dyn_tallocr_reset: so it is before each plan.
LEMMA ResetMemory ==
  ASSUME ResetAllocator
  PROVE  Memory' /\ Tidy'
<1>1. free_blocks' = <<Region(0, SizeMax)>> /\ max_size' = 0 /\ held' = << >> /\ DOMAIN held' = {}
  BY DEF ResetAllocator
<1>2. /\ free_blocks' \in Seq(Block) /\ Len(free_blocks') = 1 /\ free_blocks'[1] = Region(0, SizeMax)
      /\ Region(0, SizeMax).offset = 0 /\ Region(0, SizeMax).size = SizeMax
      /\ End(Region(0, SizeMax)) = SizeMax
      /\ Once(free_blocks') /\ \A x \in 0 .. SizeMax - 1 : FreeAt(free_blocks', x)
  BY <1>1, OneBlockIsAll
<1>3. Regions'
  BY <1>1, <1>2, SizeMaxPositive DEF Regions, End
<1>4. HeldOnce' /\ FreeOrHeld'
  <2>1. \A x \in 0 .. SizeMax - 1 : FreeAt(free_blocks, x)'
    BY <1>2 DEF FreeAt, In, End
  <2>2. \A x : ~HeldAt(x)'
    BY <1>1 DEF HeldAt
  <2> QED BY <1>1, <2>1, <2>2 DEF HeldOnce, FreeOrHeld
<1>5. Tidy'
  BY <1>1, <1>2, SizeMaxPositive DEF Tidy, End
<1>6. Once(free_blocks)'
  BY <1>2 DEF Once, In, End
<1> QED BY <1>3, <1>4, <1>5, <1>6 DEF Memory

\* A step that leaves the allocator alone.
LEMMA SameMemory ==
  ASSUME Memory, UNCHANGED allocator
  PROVE  Memory' /\ (Tidy => Tidy')
BY DEF Memory, Regions, Once, HeldOnce, FreeOrHeld, HeldAt, FreeAt, In, End, Tidy, allocator

\* A node computed in place takes over the memory of its source.
LEMMA PlaceOnKeepsMemory ==
  ASSUME Memory, NEW i, i \notin DOMAIN held, NEW p \in DOMAIN held, PlaceOn(i, p)
  PROVE  Memory' /\ (Tidy => Tidy')
<1>1. /\ held' = [u \in (DOMAIN held \ {p}) \union {i} |-> IF u = i THEN held[p] ELSE held[u]]
      /\ free_blocks' = free_blocks /\ max_size' = max_size
  BY DEF PlaceOn
<1>2. /\ DOMAIN held' = (DOMAIN held \ {p}) \union {i} /\ held'[i] = held[p]
      /\ \A u \in DOMAIN held \ {p} : held'[u] = held[u]
  BY <1>1
<1>3. Once(free_blocks)' /\ \A x \in Nat : FreeAt(free_blocks, x)' <=> FreeAt(free_blocks, x)
  BY <1>1 DEF Memory, Once, FreeAt, In, End
<1>4. \A x \in Nat : HeldAt(x)' <=> HeldAt(x)
  <2> SUFFICES ASSUME NEW x \in Nat PROVE HeldAt(x)' <=> HeldAt(x)
    OBVIOUS
  <2>1. HeldAt(x)' <=> \E u \in DOMAIN held' : In(x, held'[u])
    BY DEF HeldAt, In, End
  <2>2. (\E u \in DOMAIN held' : In(x, held'[u])) => HeldAt(x)
    BY <1>2 DEF HeldAt
  <2>3. HeldAt(x) => \E u \in DOMAIN held' : In(x, held'[u])
    BY <1>2 DEF HeldAt
  <2> QED BY <2>1, <2>2, <2>3
<1>5. Regions'
  <2>1. \A u \in DOMAIN held' : held'[u] \in Block /\ End(held'[u]) <= max_size'
    BY <1>1, <1>2 DEF Memory, Regions
  <2> QED BY <1>1, <2>1 DEF Memory, Regions, End
<1>6. HeldOnce'
  <2> SUFFICES ASSUME NEW u \in DOMAIN held', NEW v \in DOMAIN held', NEW x \in Nat,
                      In(x, held'[u]), In(x, held'[v])
               PROVE  u = v
    BY DEF HeldOnce, In, End
  <2> QED BY <1>2 DEF Memory, HeldOnce
<1>7. FreeOrHeld'
  <2> SUFFICES ASSUME NEW x \in 0 .. SizeMax - 1
               PROVE  HeldAt(x)' <=> ~FreeAt(free_blocks, x)'
    BY DEF FreeOrHeld
  <2>1. x \in Nat
    BY SizeMaxPositive
  <2> QED BY <1>3, <1>4, <2>1 DEF Memory, FreeOrHeld
<1>8. Tidy => Tidy'
  BY <1>1, <1>2 DEF Tidy, End
<1> QED BY <1>3, <1>5, <1>6, <1>7, <1>8 DEF Memory

-----------------------------------------------------------------------------
\* What a client may build.
SourceLists == {<< >>} \union UNION {[1 .. n -> Nat] : n \in 1 .. 2}
TensorType ==
  [kind : Kinds, srcs : SourceLists, size : Sizes, output : BOOLEAN, root : Nat]

\* Leafs come first, sources before their readers; the root of a view is no view
\* itself and has a reader, the first view if no other.
BuiltAt(g, i) ==
  /\ IsLeaf(g[i]) => g[i].srcs = << >> /\ \A j \in 1 .. i : IsLeaf(g[j])
  /\ ~IsLeaf(g[i]) => \E n \in 1 .. 2 : g[i].srcs \in [1 .. n -> 1 .. i - 1]
  /\ IsView(g[i]) => /\ g[i].root \in 1 .. i - 1 /\ ~IsView(g[g[i].root])
                     /\ Uses(g, g[i].root) # {}
  /\ ~IsView(g[i]) => g[i].root = 0
WellBuilt(g) == g \in Seq(TensorType) /\ \A i \in DOMAIN g : BuiltAt(g, i)

\* How far a plan of g can be, and how far it is after the call at c.
Width(g, i) == Len(g[i].srcs)
CursorIn(g, c) ==
  /\ c \in [tensor : 1 .. Len(g) + 1, step : Nat \ {0}]
  /\ c.tensor \in DOMAIN g => c.step <= 2 * Width(g, c.tensor) + 1
Following(g, c) ==
  IF c.step = 2 * Width(g, c.tensor) + 1 THEN [tensor |-> c.tensor + 1, step |-> 1]
  ELSE [tensor |-> c.tensor, step |-> c.step + 1]

\* With the plan at c: the readings of x that are left, the views of x that still
\* count, whether x or a view of it is still to be read, whether x was placed, and
\* whether the tensor at hand has taken over the place of x, which only it still reads.
Left(g, c, x) ==
  {u \in Uses(g, x) : u[1] > c.tensor \/ (u[1] = c.tensor /\ Width(g, u[1]) + 1 + u[2] >= c.step)}
Unread(g, c, x) == {v \in Views(g, x) : Left(g, c, v) # {} \/ Uses(g, v) = {}}
Pends(g, c, x) == Left(g, c, x) # {} \/ \E v \in Views(g, x) : Left(g, c, v) # {}
Placed(g, c, x) == x < c.tensor \/ (x = c.tensor /\ c.step > Width(g, x) + 1)
TakenOver(g, c, x) ==
  /\ c.tensor \in DOMAIN g /\ c.step > Width(g, c.tensor) + 1
  /\ \A u \in Left(g, c, x) : u[1] = c.tensor
  /\ \A v \in Views(g, x) : Left(g, c, v) = {}
-----------------------------------------------------------------------------
\* The parts of a graph.
LEMMA GraphFacts ==
  ASSUME NEW g, WellBuilt(g)
  PROVE  /\ Len(g) \in Nat /\ DOMAIN g = 1 .. Len(g)
         /\ \A i \in DOMAIN g :
              /\ i \in Nat /\ g[i] \in TensorType /\ g[i].size \in Sizes /\ g[i].size \in Nat
              /\ BuiltAt(g, i) /\ Width(g, i) \in 0 .. 2 /\ DOMAIN g[i].srcs = 1 .. Width(g, i)
              /\ \A k \in DOMAIN g[i].srcs : g[i].srcs[k] \in 1 .. i - 1 /\ g[i].srcs[k] \in DOMAIN g
              /\ IsLeaf(g[i]) <=> Width(g, i) = 0
<1>1. g \in Seq(TensorType) /\ \A i \in DOMAIN g : BuiltAt(g, i)
  BY DEF WellBuilt
<1>2. Len(g) \in Nat /\ DOMAIN g = 1 .. Len(g)
  BY <1>1
<1> SUFFICES ASSUME NEW i \in DOMAIN g
    PROVE  /\ i \in Nat /\ g[i] \in TensorType /\ g[i].size \in Sizes /\ g[i].size \in Nat
           /\ BuiltAt(g, i) /\ Width(g, i) \in 0 .. 2 /\ DOMAIN g[i].srcs = 1 .. Width(g, i)
           /\ \A k \in DOMAIN g[i].srcs : g[i].srcs[k] \in 1 .. i - 1 /\ g[i].srcs[k] \in DOMAIN g
           /\ IsLeaf(g[i]) <=> Width(g, i) = 0
  BY <1>2
<1>3. g[i] \in TensorType
  BY <1>1
<1>4. i \in Nat /\ g[i].size \in Sizes /\ g[i].size \in Nat /\ BuiltAt(g, i)
  <2>1. Sizes \subseteq Nat
    BY GraphAssumption
  <2>2. g[i].size \in Sizes
    BY <1>3 DEF TensorType
  <2>3. i \in Nat
    BY <1>2
  <2> QED BY <1>1, <2>1, <2>2, <2>3
<1>5. CASE IsLeaf(g[i])
  <2>1. g[i].srcs = << >>
    BY <1>4, <1>5 DEF BuiltAt
  <2>2. Width(g, i) = 0 /\ DOMAIN g[i].srcs = 1 .. 0 /\ DOMAIN g[i].srcs = {}
    BY <2>1 DEF Width
  <2> QED BY <1>3, <1>4, <1>5, <2>2
<1>6. CASE ~IsLeaf(g[i])
  <2>1. PICK n \in 1 .. 2 : g[i].srcs \in [1 .. n -> 1 .. i - 1]
    BY <1>4, <1>6 DEF BuiltAt
  <2>2. Len(g[i].srcs) = n /\ DOMAIN g[i].srcs = 1 .. n
    BY <2>1
  <2>3. \A k \in 1 .. n : g[i].srcs[k] \in 1 .. i - 1
    BY <2>1
  <2>4. \A k \in 1 .. n : g[i].srcs[k] \in DOMAIN g
    BY <1>2, <1>4, <2>3
  <2> QED BY <1>3, <1>4, <1>6, <2>2, <2>3, <2>4 DEF Width
<1> QED BY <1>5, <1>6

\* A reading is of a node that comes later; the readings and the views of a tensor are
\* finitely many.
LEMMA UsesFacts ==
  ASSUME NEW g, WellBuilt(g), NEW x
  PROVE  /\ IsFiniteSet(Uses(g, x)) /\ IsFiniteSet(Views(g, x))
         /\ \A u \in Uses(g, x) :
              /\ u = <<u[1], u[2]>> /\ u[1] \in DOMAIN g /\ ~IsLeaf(g[u[1]])
              /\ u[2] \in DOMAIN g[u[1]].srcs /\ g[u[1]].srcs[u[2]] = x
              /\ u[1] \in Nat /\ u[2] \in {1, 2} /\ u[2] <= Width(g, u[1])
         /\ \A i \in DOMAIN g : \A k \in DOMAIN g[i].srcs :
              g[i].srcs[k] = x => <<i, k>> \in Uses(g, x)
<1>0. /\ Len(g) \in Nat /\ DOMAIN g = 1 .. Len(g)
      /\ \A i \in DOMAIN g : /\ i \in Nat /\ Width(g, i) \in 0 .. 2
                             /\ DOMAIN g[i].srcs = 1 .. Width(g, i)
                             /\ IsLeaf(g[i]) <=> Width(g, i) = 0
  BY GraphFacts
<1>1. Nodes(g) \subseteq DOMAIN g /\ \A i : i \in Nodes(g) <=> i \in DOMAIN g /\ ~IsLeaf(g[i])
  BY DEF Nodes, Leafs
<1>2. IsFiniteSet(DOMAIN g) /\ IsFiniteSet({1, 2})
  <2>1. Len(g) \in Int /\ 1 \in Int
    BY <1>0
  <2>2. IsFiniteSet(1 .. Len(g))
    BY <2>1, FS_Interval
  <2>3. IsFiniteSet({1})
    BY FS_Singleton
  <2>4. IsFiniteSet({1} \cup {2})
    BY <2>3, FS_AddElement
  <2>5. {1} \cup {2} = {1, 2}
    OBVIOUS
  <2> QED BY <1>0, <2>2, <2>4, <2>5
<1>3. IsFiniteSet(Nodes(g))
  BY <1>1, <1>2, FS_Subset
<1>4. IsFiniteSet(Nodes(g) \X {1, 2})
  BY <1>2, <1>3, FS_Product
<1>5. IsFiniteSet(Uses(g, x))
  BY <1>4, FS_Subset DEF Uses
<1>6. IsFiniteSet(Views(g, x))
  BY <1>3, FS_Subset DEF Views
<1>7. ASSUME NEW u \in Uses(g, x)
      PROVE  /\ u = <<u[1], u[2]>> /\ u[1] \in DOMAIN g /\ ~IsLeaf(g[u[1]])
             /\ u[2] \in DOMAIN g[u[1]].srcs /\ g[u[1]].srcs[u[2]] = x
             /\ u[1] \in Nat /\ u[2] \in {1, 2} /\ u[2] <= Width(g, u[1])
  <2>1. u \in Nodes(g) \X {1, 2} /\ u[2] \in DOMAIN g[u[1]].srcs /\ g[u[1]].srcs[u[2]] = x
    BY DEF Uses
  <2>2. u = <<u[1], u[2]>> /\ u[1] \in Nodes(g) /\ u[2] \in {1, 2}
    BY <2>1
  <2> QED BY <1>0, <1>1, <2>1, <2>2
<1>8. ASSUME NEW i \in DOMAIN g, NEW k \in DOMAIN g[i].srcs, g[i].srcs[k] = x
      PROVE  <<i, k>> \in Uses(g, x)
  <2>1. k \in {1, 2} /\ ~IsLeaf(g[i])
    BY <1>0
  <2>2. i \in Nodes(g) /\ <<i, k>> \in Nodes(g) \X {1, 2} /\ <<i, k>>[1] = i /\ <<i, k>>[2] = k
    BY <1>1, <2>1
  <2> QED BY <1>8, <2>2 DEF Uses
<1> QED BY <1>5, <1>6, <1>7, <1>8

\* A view is a node with a root that is no view; a root has a reader.
LEMMA ViewsFacts ==
  ASSUME NEW g, WellBuilt(g), NEW x
  PROVE  /\ \A v \in Views(g, x) : /\ v \in DOMAIN g /\ IsView(g[v]) /\ g[v].root = x /\ ~IsLeaf(g[v])
                                   /\ x \in DOMAIN g /\ ~IsView(g[x]) /\ Uses(g, x) # {} /\ v # x
                                   /\ Views(g, v) = {}
         /\ \A v \in DOMAIN g : IsView(g[v]) => v \in Views(g, g[v].root)
<1>1. \A v, y : v \in Views(g, y) <=> v \in DOMAIN g /\ ~IsLeaf(g[v]) /\ IsView(g[v]) /\ g[v].root = y
  BY DEF Views, Nodes, Leafs
<1>2. \A v \in DOMAIN g : IsView(g[v]) =>
        /\ ~IsLeaf(g[v]) /\ g[v].root \in DOMAIN g /\ ~IsView(g[g[v].root])
        /\ Uses(g, g[v].root) # {}
  <2> SUFFICES ASSUME NEW v \in DOMAIN g, IsView(g[v])
               PROVE  /\ ~IsLeaf(g[v]) /\ g[v].root \in DOMAIN g /\ ~IsView(g[g[v].root])
                      /\ Uses(g, g[v].root) # {}
    OBVIOUS
  <2>1. BuiltAt(g, v) /\ v \in Nat /\ DOMAIN g = 1 .. Len(g) /\ Len(g) \in Nat
    BY GraphFacts
  <2>2. ~IsLeaf(g[v])
    BY DEF IsLeaf, IsView
  <2>3. g[v].root \in 1 .. v - 1 /\ ~IsView(g[g[v].root]) /\ Uses(g, g[v].root) # {}
    BY <2>1 DEF BuiltAt
  <2> QED BY <2>1, <2>2, <2>3
<1> QED BY <1>1, <1>2

-----------------------------------------------------------------------------
\* What a tensor is to the plan: Result, Reads and Live of the model, of any graph.
IsResult(g, x) == g[x].output \/ \E v \in {x} \union Views(g, x) : Uses(g, v) = {}
IsReader(g, j, x) ==
  ~IsView(g[j]) /\ \E k \in DOMAIN g[j].srcs : LET s == g[j].srcs[k] IN s = x \/ g[s].root = x

\* Where the tensors of g lie, by the offsets f; two of them that share an address.
PlaceOf(g, f, x) == Region(f[x], g[x].size)
Share(g, f, i, j) == \E x \in Nat : In(x, PlaceOf(g, f, i)) /\ In(x, PlaceOf(g, f, j))
Spent(g, i, j) ==
  /\ ~IsLeaf(g[j]) /\ ~IsResult(g, i)
  /\ \A k \in DOMAIN g : k > j => ~IsReader(g, k, i)
Apart(g, f, i, j) ==
  Share(g, f, i, j) =>
    /\ Spent(g, i, j)
    /\ IsReader(g, j, i) => g[j].kind = "inplace" /\ PlaceOf(g, f, i) = PlaceOf(g, f, j)

\* The tensors of g that are in S are safe where they lie, in a buffer of size b.
Safe(g, f, b, S) ==
  /\ f \in [DOMAIN g -> Nat]
  /\ \A i \in S : Own(g[i]) => f[i] + g[i].size <= b
  /\ \A i, j \in S : i < j /\ Own(g[i]) /\ Own(g[j]) => Apart(g, f, i, j)

\* The counts, and what is held, when the plan of g is at c.
Counts(g, c, children, views) ==
  /\ children = [x \in DOMAIN g |-> Cardinality(Left(g, c, x))]
  /\ views = [x \in DOMAIN g |-> Cardinality(Unread(g, c, x))]
HeldRight(g, c, h, f, x) ==
  /\ x \in DOMAIN g /\ Own(g[x]) /\ Placed(g, c, x)
  /\ IsResult(g, x) \/ Pends(g, c, x)
  /\ h[x] = Region(f[x], Aligned(g[x].size))
GoneRight(g, c, x) == ~IsResult(g, x) /\ (Pends(g, c, x) => TakenOver(g, c, x))
HeldOK(g, c, h, f) ==
  /\ \A x \in DOMAIN h : HeldRight(g, c, h, f, x)
  /\ \A x \in DOMAIN g : Own(g[x]) /\ Placed(g, c, x) /\ x \notin DOMAIN h => GoneRight(g, c, x)
PlacedSet(g, c) == {x \in DOMAIN g : Placed(g, c, x)}
PlanGood(g, c, h, f, children, views, b) ==
  /\ CursorIn(g, c) /\ Counts(g, c, children, views) /\ HeldOK(g, c, h, f)
  /\ Safe(g, f, b, PlacedSet(g, c))
-----------------------------------------------------------------------------
\* The cursor moves within the graph.
LEMMA CursorFacts ==
  ASSUME NEW g, WellBuilt(g), NEW c, CursorIn(g, c), c.tensor \in DOMAIN g
  PROVE  /\ c.tensor \in Nat /\ c.step \in Nat /\ c.step >= 1
         /\ Width(g, c.tensor) \in 0 .. 2 /\ c.step <= 2 * Width(g, c.tensor) + 1
         /\ CursorIn(g, Following(g, c))
         /\ Following(g, c).tensor \in Nat /\ Following(g, c).step \in Nat
         /\ c.step = 2 * Width(g, c.tensor) + 1 =>
              Following(g, c).tensor = c.tensor + 1 /\ Following(g, c).step = 1
         /\ c.step # 2 * Width(g, c.tensor) + 1 =>
              Following(g, c).tensor = c.tensor /\ Following(g, c).step = c.step + 1
<1>1. Len(g) \in Nat /\ DOMAIN g = 1 .. Len(g) /\ Width(g, c.tensor) \in 0 .. 2
      /\ \A i \in DOMAIN g : Width(g, i) \in 0 .. 2
  BY GraphFacts
<1>2. /\ c \in [tensor : 1 .. Len(g) + 1, step : Nat \ {0}]
      /\ c.step <= 2 * Width(g, c.tensor) + 1
  BY DEF CursorIn
<1>3. c.tensor \in Nat /\ c.step \in Nat /\ c.step >= 1 /\ c.tensor \in 1 .. Len(g)
  BY <1>1, <1>2
<1>4. CASE c.step = 2 * Width(g, c.tensor) + 1
  <2>1. Following(g, c) = [tensor |-> c.tensor + 1, step |-> 1]
    BY <1>4 DEF Following
  <2>2. c.tensor + 1 \in 1 .. Len(g) + 1 /\ 1 \in Nat \ {0}
    BY <1>1, <1>3
  <2>3. Following(g, c) \in [tensor : 1 .. Len(g) + 1, step : Nat \ {0}]
    BY <2>1, <2>2
  <2>4. c.tensor + 1 \in DOMAIN g => 1 <= 2 * Width(g, c.tensor + 1) + 1
    BY <1>1
  <2>5. CursorIn(g, Following(g, c))
    BY <2>1, <2>3, <2>4 DEF CursorIn
  <2> QED BY <1>1, <1>2, <1>3, <1>4, <2>1, <2>5
<1>5. CASE c.step # 2 * Width(g, c.tensor) + 1
  <2>1. Following(g, c) = [tensor |-> c.tensor, step |-> c.step + 1]
    BY <1>5 DEF Following
  <2>2. c.tensor \in 1 .. Len(g) + 1 /\ c.step + 1 \in Nat \ {0}
        /\ c.step + 1 <= 2 * Width(g, c.tensor) + 1
    BY <1>1, <1>2, <1>3, <1>5
  <2>3. Following(g, c) \in [tensor : 1 .. Len(g) + 1, step : Nat \ {0}]
    BY <2>1, <2>2
  <2>5. CursorIn(g, Following(g, c))
    BY <2>1, <2>2, <2>3 DEF CursorIn
  <2> QED BY <1>1, <1>2, <1>3, <1>5, <2>1, <2>5
<1> QED BY <1>4, <1>5

\* When a reading is left, and when a tensor is placed, by the numbers of the cursor.
LEMMA LeftFacts ==
  ASSUME NEW g, NEW c, NEW x, NEW u
  PROVE  u \in Left(g, c, x) <=>
           /\ u \in Uses(g, x)
           /\ u[1] > c.tensor \/ (u[1] = c.tensor /\ Width(g, u[1]) + 1 + u[2] >= c.step)
  BY DEF Left

\* Placing takes no reading.
LEMMA LeftStays ==
  ASSUME NEW g, WellBuilt(g), NEW c, CursorIn(g, c), c.tensor \in DOMAIN g,
         c.step <= Width(g, c.tensor) + 1, NEW x
  PROVE  Left(g, Following(g, c), x) = Left(g, c, x)
<1> DEFINE d == Following(g, c)
<1>1. /\ c.tensor \in Nat /\ c.step \in Nat /\ c.step >= 1 /\ d.tensor \in Nat /\ d.step \in Nat
      /\ Width(g, c.tensor) \in 0 .. 2
      /\ c.step = 2 * Width(g, c.tensor) + 1 => d.tensor = c.tensor + 1 /\ d.step = 1
      /\ c.step # 2 * Width(g, c.tensor) + 1 => d.tensor = c.tensor /\ d.step = c.step + 1
  BY CursorFacts
<1> HIDE DEF d
<1>2. ASSUME NEW u \in Uses(g, x)
      PROVE  (u[1] > d.tensor \/ (u[1] = d.tensor /\ Width(g, u[1]) + 1 + u[2] >= d.step))
             <=> (u[1] > c.tensor \/ (u[1] = c.tensor /\ Width(g, u[1]) + 1 + u[2] >= c.step))
  <2>1. u[1] \in Nat /\ u[2] \in Nat /\ u[2] >= 1 /\ u[2] <= Width(g, u[1]) /\ Width(g, u[1]) \in 0 .. 2
    BY UsesFacts, GraphFacts
  <2>2. CASE u[1] = c.tensor
    <3>1. Width(g, c.tensor) >= 1 /\ Width(g, u[1]) = Width(g, c.tensor)
      BY <2>1, <2>2
    <3>2. c.step # 2 * Width(g, c.tensor) + 1
      BY <1>1, <3>1
    <3> QED BY <1>1, <2>1, <2>2, <3>1, <3>2
  <2>3. CASE u[1] # c.tensor
    <3>1. CASE d.tensor = c.tensor
      BY <1>1, <2>1, <2>3, <3>1
    <3>2. CASE d.tensor = c.tensor + 1 /\ d.step = 1
      BY <1>1, <2>1, <2>3, <3>2
    <3> QED BY <1>1, <3>1, <3>2
  <2> QED BY <2>2, <2>3
<1>3. \A u : u \in Left(g, d, x) <=> u \in Left(g, c, x)
  BY <1>2, LeftFacts
<1> QED BY <1>3 DEF d

\* Reading takes one reading, of the source read.
LEMMA LeftShrinks ==
  ASSUME NEW g, WellBuilt(g), NEW c, CursorIn(g, c), c.tensor \in DOMAIN g,
         c.step > Width(g, c.tensor) + 1
  PROVE  LET k == c.step - Width(g, c.tensor) - 1
             p == g[c.tensor].srcs[k]
         IN  /\ k \in DOMAIN g[c.tensor].srcs /\ p \in DOMAIN g
             /\ \A x : <<c.tensor, k>> \in Uses(g, x) <=> x = p
             /\ <<c.tensor, k>> \in Left(g, c, p)
             /\ \A x : Left(g, Following(g, c), x) = Left(g, c, x) \ {<<c.tensor, k>>}
<1> DEFINE d == Following(g, c)
           k == c.step - Width(g, c.tensor) - 1
           p == g[c.tensor].srcs[k]
<1>1. /\ c.tensor \in Nat /\ c.step \in Nat /\ c.step >= 1 /\ d.tensor \in Nat /\ d.step \in Nat
      /\ Width(g, c.tensor) \in 0 .. 2 /\ c.step <= 2 * Width(g, c.tensor) + 1
      /\ c.step = 2 * Width(g, c.tensor) + 1 => d.tensor = c.tensor + 1 /\ d.step = 1
      /\ c.step # 2 * Width(g, c.tensor) + 1 => d.tensor = c.tensor /\ d.step = c.step + 1
  BY CursorFacts
<1>2. k \in Nat /\ k >= 1 /\ k <= Width(g, c.tensor) /\ k \in 1 .. Width(g, c.tensor)
      /\ c.step = Width(g, c.tensor) + 1 + k
  BY <1>1
<1>3. k \in DOMAIN g[c.tensor].srcs /\ p \in DOMAIN g
  BY <1>2, GraphFacts
<1> HIDE DEF d, k
<1>4. ASSUME NEW x PROVE <<c.tensor, k>> \in Uses(g, x) <=> x = p
  <2>1. <<c.tensor, k>> \in Uses(g, x) => x = p
    <3>1. <<c.tensor, k>>[1] = c.tensor /\ <<c.tensor, k>>[2] = k
      OBVIOUS
    <3> QED BY <3>1, UsesFacts
  <2>2. x = p => <<c.tensor, k>> \in Uses(g, x)
    BY <1>3, UsesFacts
  <2> QED BY <2>1, <2>2
<1>5. <<c.tensor, k>> \in Left(g, c, p)
  <2>1. <<c.tensor, k>>[1] = c.tensor /\ <<c.tensor, k>>[2] = k
    OBVIOUS
  <2>2. Width(g, c.tensor) + 1 + k >= c.step
    BY <1>1, <1>2
  <2> QED BY <1>4, <2>1, <2>2, LeftFacts
<1>6. ASSUME NEW x PROVE Left(g, d, x) = Left(g, c, x) \ {<<c.tensor, k>>}
  <2>1. ASSUME NEW u \in Uses(g, x)
        PROVE  (u[1] > d.tensor \/ (u[1] = d.tensor /\ Width(g, u[1]) + 1 + u[2] >= d.step))
               <=> (u[1] > c.tensor \/ (u[1] = c.tensor /\ Width(g, u[1]) + 1 + u[2] >= c.step))
                   /\ u # <<c.tensor, k>>
    <3>1. u[1] \in Nat /\ u[2] \in Nat /\ u[2] >= 1 /\ u[2] <= Width(g, u[1]) /\ Width(g, u[1]) \in 0 .. 2
      BY UsesFacts, GraphFacts
    <3>2. u # <<c.tensor, k>> <=> u[1] # c.tensor \/ u[2] # k
      <4>1. u = <<u[1], u[2]>>
        BY UsesFacts
      <4> QED BY <4>1
    <3>3. CASE u[1] = c.tensor
      <4>1. Width(g, u[1]) = Width(g, c.tensor)
        BY <3>3
      <4>2. CASE d.tensor = c.tensor + 1 /\ d.step = 1 /\ c.step = 2 * Width(g, c.tensor) + 1
        BY <1>1, <1>2, <3>1, <3>2, <3>3, <4>1, <4>2
      <4>3. CASE d.tensor = c.tensor /\ d.step = c.step + 1
        BY <1>1, <1>2, <3>1, <3>2, <3>3, <4>1, <4>3
      <4> QED BY <1>1, <4>2, <4>3
    <3>4. CASE u[1] # c.tensor
      <4>1. CASE d.tensor = c.tensor
        BY <1>1, <3>1, <3>2, <3>4, <4>1
      <4>2. CASE d.tensor = c.tensor + 1 /\ d.step = 1
        BY <1>1, <3>1, <3>2, <3>4, <4>2
      <4> QED BY <1>1, <4>1, <4>2
    <3> QED BY <3>3, <3>4
  <2>2. \A u : u \in Left(g, d, x) <=> u \in Left(g, c, x) /\ u # <<c.tensor, k>>
    BY <2>1, LeftFacts
  <2> QED BY <2>2
<1> QED BY <1>3, <1>4, <1>5, <1>6 DEF d, k

\* Which tensors are placed changes only when the tensor at hand is.
LEMMA PlacedFacts ==
  ASSUME NEW g, WellBuilt(g), NEW c, CursorIn(g, c), c.tensor \in DOMAIN g,
         NEW x \in DOMAIN g
  PROVE  /\ c.step = Width(g, c.tensor) + 1 =>
              /\ ~Placed(g, c, c.tensor)
              /\ Placed(g, Following(g, c), x) <=> Placed(g, c, x) \/ x = c.tensor
              /\ Placed(g, c, x) <=> x < c.tensor
         /\ c.step # Width(g, c.tensor) + 1 =>
              (Placed(g, Following(g, c), x) <=> Placed(g, c, x))
         /\ x < c.tensor => Placed(g, c, x)
<1> DEFINE d == Following(g, c)
<1>1. /\ c.tensor \in Nat /\ c.step \in Nat /\ c.step >= 1 /\ d.tensor \in Nat /\ d.step \in Nat
      /\ Width(g, c.tensor) \in 0 .. 2 /\ c.step <= 2 * Width(g, c.tensor) + 1
      /\ c.step = 2 * Width(g, c.tensor) + 1 => d.tensor = c.tensor + 1 /\ d.step = 1
      /\ c.step # 2 * Width(g, c.tensor) + 1 => d.tensor = c.tensor /\ d.step = c.step + 1
  BY CursorFacts
<1>2. x \in Nat /\ Width(g, x) \in 0 .. 2
  BY GraphFacts
<1> HIDE DEF d
<1>3. /\ Placed(g, c, x) <=> x < c.tensor \/ (x = c.tensor /\ c.step > Width(g, x) + 1)
      /\ Placed(g, d, x) <=> x < d.tensor \/ (x = d.tensor /\ d.step > Width(g, x) + 1)
      /\ Placed(g, c, c.tensor) <=> c.step > Width(g, c.tensor) + 1
  BY <1>1 DEF Placed
<1>4. x = c.tensor => Width(g, x) = Width(g, c.tensor)
  OBVIOUS
<1>5. CASE c.step = 2 * Width(g, c.tensor) + 1
  BY <1>1, <1>2, <1>3, <1>4, <1>5 DEF d
<1>6. CASE c.step # 2 * Width(g, c.tensor) + 1
  BY <1>1, <1>2, <1>3, <1>4, <1>6 DEF d
<1> QED BY <1>5, <1>6

-----------------------------------------------------------------------------
\* A reader of a tensor has a reading of it or of a view of it.
LEMMA ReaderUses ==
  ASSUME NEW g, WellBuilt(g), NEW x \in DOMAIN g, NEW k \in DOMAIN g, IsReader(g, k, x)
  PROVE  \E v \in {x} \union Views(g, x) : \E n \in DOMAIN g[k].srcs : <<k, n>> \in Uses(g, v)
<1>1. PICK n \in DOMAIN g[k].srcs : g[k].srcs[n] = x \/ g[g[k].srcs[n]].root = x
  BY DEF IsReader
<1>2. CASE g[k].srcs[n] = x
  BY <1>2, UsesFacts
<1>3. CASE g[g[k].srcs[n]].root = x
  <2> DEFINE s == g[k].srcs[n]
  <2>1. s \in DOMAIN g /\ BuiltAt(g, s) /\ x \in 1 .. Len(g)
    BY GraphFacts
  <2>2. IsView(g[s])
    <3>1. ~IsView(g[s]) => g[s].root = 0
      BY <2>1 DEF BuiltAt
    <3>2. x # 0
      BY <2>1, GraphFacts
    <3> QED BY <1>3, <3>1, <3>2
  <2>3. s \in Views(g, x)
    BY <1>3, <2>1, <2>2, ViewsFacts
  <2>4. <<k, n>> \in Uses(g, s)
    BY UsesFacts
  <2> QED BY <2>3, <2>4
<1> QED BY <1>1, <1>2, <1>3

\* While the sources of a tensor are placed nothing has been taken over.
LEMMA NoTakeOver ==
  ASSUME NEW g, WellBuilt(g), NEW c, CursorIn(g, c), c.tensor \in DOMAIN g,
         c.step <= Width(g, c.tensor) + 1, NEW x
  PROVE  ~TakenOver(g, c, x)
<1>1. c.step \in Nat /\ Width(g, c.tensor) \in 0 .. 2
  BY CursorFacts
<1> QED BY <1>1 DEF TakenOver

\* A tensor whose place is gone when the next tensor is placed has nothing to fear:
\* it is no result, and no tensor from then on reads it.
LEMMA GoneIsSpent ==
  ASSUME NEW g, WellBuilt(g), NEW c, CursorIn(g, c), c.tensor \in DOMAIN g,
         c.step <= Width(g, c.tensor) + 1,
         NEW x \in DOMAIN g, x < c.tensor, ~IsResult(g, x), ~Pends(g, c, x)
  PROVE  Spent(g, x, c.tensor) /\ ~IsReader(g, c.tensor, x)
<1>1. /\ c.tensor \in Nat /\ c.step \in Nat /\ c.step >= 1 /\ Width(g, c.tensor) \in 0 .. 2
  BY CursorFacts
<1>2. \A v \in {x} \union Views(g, x) : Uses(g, v) # {} /\ Left(g, c, v) = {}
  BY DEF IsResult, Pends
<1>3. \A v \in {x} \union Views(g, x) : \A u \in Uses(g, v) : ~(u[1] >= c.tensor)
  <2> SUFFICES ASSUME NEW v \in {x} \union Views(g, x), NEW u \in Uses(g, v), u[1] >= c.tensor
               PROVE  FALSE
    OBVIOUS
  <2>1. u[1] \in Nat /\ u[2] \in Nat /\ u[2] >= 1 /\ Width(g, u[1]) \in 0 .. 2
    BY UsesFacts, GraphFacts
  <2>2. u \notin Left(g, c, v)
    BY <1>2
  <2>3. ~(u[1] > c.tensor \/ (u[1] = c.tensor /\ Width(g, u[1]) + 1 + u[2] >= c.step))
    BY <2>2, LeftFacts
  <2>4. u[1] = c.tensor
    BY <1>1, <2>1, <2>3
  <2>5. Width(g, u[1]) = Width(g, c.tensor)
    BY <2>4
  <2> QED BY <1>1, <2>1, <2>3, <2>4, <2>5
<1>4. \A k \in DOMAIN g : k >= c.tensor => ~IsReader(g, k, x)
  <2> SUFFICES ASSUME NEW k \in DOMAIN g, k >= c.tensor, IsReader(g, k, x)
               PROVE  FALSE
    OBVIOUS
  <2>1. PICK v \in {x} \union Views(g, x), n \in DOMAIN g[k].srcs : <<k, n>> \in Uses(g, v)
    BY ReaderUses
  <2>2. <<k, n>>[1] = k
    OBVIOUS
  <2> QED BY <1>3, <2>1, <2>2
<1>5. ~IsLeaf(g[c.tensor])
  <2>1. PICK u \in Uses(g, x) : TRUE
    BY <1>2
  <2>2. u[1] \in DOMAIN g /\ ~IsLeaf(g[u[1]]) /\ u[1] \in Nat
    BY UsesFacts
  <2>3. u[1] < c.tensor
    BY <1>1, <1>3, <2>1, <2>2
  <2>4. Len(g) \in Nat /\ DOMAIN g = 1 .. Len(g) /\ BuiltAt(g, c.tensor)
    BY GraphFacts
  <2>5. u[1] \in 1 .. c.tensor
    BY <1>1, <2>2, <2>3, <2>4
  <2> QED BY <2>2, <2>4, <2>5 DEF BuiltAt
<1>6. \A k \in DOMAIN g : k > c.tensor => ~IsReader(g, k, x)
  BY <1>1, <1>4, GraphFacts
<1> QED BY <1>1, <1>4, <1>5, <1>6 DEF Spent

\* A tensor has readings left when it is placed, or is a result.
LEMMA NewIsRead ==
  ASSUME NEW g, WellBuilt(g), NEW c, CursorIn(g, c), c.tensor \in DOMAIN g
  PROVE  IsResult(g, c.tensor) \/ Pends(g, c, c.tensor)
<1>1. CASE Uses(g, c.tensor) = {}
  BY <1>1 DEF IsResult
<1>2. CASE Uses(g, c.tensor) # {}
  <2>1. PICK u \in Uses(g, c.tensor) : TRUE
    BY <1>2
  <2>2. u[1] \in DOMAIN g /\ u[1] \in Nat /\ u[2] \in DOMAIN g[u[1]].srcs /\ g[u[1]].srcs[u[2]] = c.tensor
    BY UsesFacts
  <2>3. c.tensor \in 1 .. u[1] - 1
    BY <2>2, GraphFacts
  <2>4. u[1] > c.tensor
    BY <2>2, <2>3
  <2> QED BY <2>4, LeftFacts DEF Pends
<1> QED BY <1>1, <1>2

\* With the same readings left, the counts are the same.
LEMMA SameReadings ==
  ASSUME NEW g, NEW c, NEW d, \A x : Left(g, d, x) = Left(g, c, x)
  PROVE  /\ \A x : Unread(g, d, x) = Unread(g, c, x) /\ (Pends(g, d, x) <=> Pends(g, c, x))
         /\ \A m, n : Counts(g, c, m, n) => Counts(g, d, m, n)
<1>1. \A x : Unread(g, d, x) = Unread(g, c, x)
  BY DEF Unread
<1>2. \A x : Pends(g, d, x) <=> Pends(g, c, x)
  BY DEF Pends
<1> QED BY <1>1, <1>2 DEF Counts
-----------------------------------------------------------------------------
\* The sources of a node have their places already: they are not placed again.
LEMMA SourceHasPlace ==
  ASSUME NEW g, WellBuilt(g), NEW c, NEW h, NEW f, NEW m, NEW n, NEW b,
         PlanGood(g, c, h, f, m, n, b), c.tensor \in DOMAIN g, c.step \in DOMAIN g[c.tensor].srcs
  PROVE  /\ ~Own(g[g[c.tensor].srcs[c.step]]) \/ g[c.tensor].srcs[c.step] \in DOMAIN h
         /\ PlanGood(g, Following(g, c), h, f, m, n, b)
<1> DEFINE s == g[c.tensor].srcs[c.step]
           d == Following(g, c)
<1>1. CursorIn(g, c) /\ Counts(g, c, m, n) /\ HeldOK(g, c, h, f) /\ Safe(g, f, b, PlacedSet(g, c))
  BY DEF PlanGood
<1>2. /\ c.tensor \in Nat /\ c.step \in Nat /\ c.step >= 1 /\ Width(g, c.tensor) \in 0 .. 2
      /\ CursorIn(g, d)
  BY <1>1, CursorFacts
<1>3. DOMAIN g[c.tensor].srcs = 1 .. Width(g, c.tensor) /\ s \in DOMAIN g /\ s \in 1 .. c.tensor - 1
  BY GraphFacts
<1>4. c.step <= Width(g, c.tensor) /\ c.step # Width(g, c.tensor) + 1 /\ c.step <= Width(g, c.tensor) + 1
  BY <1>2, <1>3
<1>5. \A x : Left(g, d, x) = Left(g, c, x)
  BY <1>1, <1>4, LeftStays
<1>6. /\ \A x : Unread(g, d, x) = Unread(g, c, x) /\ (Pends(g, d, x) <=> Pends(g, c, x))
      /\ Counts(g, d, m, n)
  BY <1>1, <1>5, SameReadings
<1>7. \A x \in DOMAIN g : Placed(g, d, x) <=> Placed(g, c, x)
  BY <1>1, <1>4, PlacedFacts
<1>8. \A x : ~TakenOver(g, c, x)
  BY <1>1, <1>4, NoTakeOver
<1>9. ~Own(g[s]) \/ s \in DOMAIN h
  <2> SUFFICES ASSUME Own(g[s]), s \notin DOMAIN h PROVE FALSE
    OBVIOUS
  <2>1. s < c.tensor
    BY <1>2, <1>3
  <2>2. Placed(g, c, s)
    BY <1>1, <1>3, <2>1, PlacedFacts
  <2>3. GoneRight(g, c, s)
    BY <1>1, <1>3, <2>2 DEF HeldOK
  <2>4. ~Pends(g, c, s)
    BY <1>8, <2>3 DEF GoneRight
  <2>5. <<c.tensor, c.step>> \in Uses(g, s)
    BY UsesFacts
  <2>6. <<c.tensor, c.step>>[1] = c.tensor /\ <<c.tensor, c.step>>[2] = c.step
    OBVIOUS
  <2>7. Width(g, c.tensor) + 1 + c.step >= c.step
    BY <1>2
  <2>8. <<c.tensor, c.step>> \in Left(g, c, s)
    BY <2>5, <2>6, <2>7, LeftFacts
  <2> QED BY <2>4, <2>8 DEF Pends
<1>10. HeldOK(g, d, h, f)
  <2>1. ASSUME NEW x \in DOMAIN h PROVE HeldRight(g, d, h, f, x)
    <3>1. HeldRight(g, c, h, f, x)
      BY <1>1 DEF HeldOK
    <3> QED BY <1>6, <1>7, <3>1 DEF HeldRight
  <2>2. ASSUME NEW x \in DOMAIN g, Own(g[x]), Placed(g, d, x), x \notin DOMAIN h
        PROVE  GoneRight(g, d, x)
    <3>1. GoneRight(g, c, x)
      BY <1>1, <1>7, <2>2 DEF HeldOK
    <3> QED BY <1>6, <1>8, <3>1 DEF GoneRight
  <2> QED BY <2>1, <2>2 DEF HeldOK
<1>11. PlacedSet(g, d) = PlacedSet(g, c)
  BY <1>7 DEF PlacedSet
<1> QED BY <1>1, <1>2, <1>6, <1>9, <1>10, <1>11 DEF PlanGood

-----------------------------------------------------------------------------
\* The tensor at hand gets a place that is no tensor's that keeps one, unless that
\* tensor may share it.
LEMMA TensorPlaced ==
  ASSUME NEW g, WellBuilt(g), NEW c, NEW h, NEW f, NEW m, NEW n, NEW b \in Nat,
         PlanGood(g, c, h, f, m, n, b), c.tensor \in DOMAIN g, c.step = Width(g, c.tensor) + 1,
         NEW h2, NEW f2 \in [DOMAIN g -> Nat], NEW b2 \in Nat, b2 >= b,
         \A x \in DOMAIN g : x # c.tensor => f2[x] = f[x],
         Own(g[c.tensor]) => /\ c.tensor \in DOMAIN h2 /\ f2[c.tensor] + g[c.tensor].size <= b2
                             /\ h2[c.tensor] = Region(f2[c.tensor], Aligned(g[c.tensor].size)),
         \A x \in DOMAIN h2 : \/ x = c.tensor /\ Own(g[c.tensor])
                              \/ x \in DOMAIN h /\ h2[x] = h[x],
         \A x \in DOMAIN h \ DOMAIN h2 : GoneRight(g, Following(g, c), x),
         Own(g[c.tensor]) =>
           \A x \in DOMAIN h : x # c.tensor /\ Share(g, f2, x, c.tensor) => Apart(g, f2, x, c.tensor)
  PROVE  PlanGood(g, Following(g, c), h2, f2, m, n, b2)
<1> DEFINE i == c.tensor
           d == Following(g, c)
<1>1. CursorIn(g, c) /\ Counts(g, c, m, n) /\ HeldOK(g, c, h, f) /\ Safe(g, f, b, PlacedSet(g, c))
  BY DEF PlanGood
<1>2. /\ i \in Nat /\ c.step \in Nat /\ c.step >= 1 /\ Width(g, i) \in 0 .. 2
      /\ CursorIn(g, d) /\ c.step <= Width(g, i) + 1
  BY <1>1, CursorFacts
<1>3. \A x : Left(g, d, x) = Left(g, c, x)
  BY <1>1, <1>2, LeftStays
<1>4. /\ \A x : Unread(g, d, x) = Unread(g, c, x) /\ (Pends(g, d, x) <=> Pends(g, c, x))
      /\ Counts(g, d, m, n)
  BY <1>1, <1>3, SameReadings
<1>5. \A x \in DOMAIN g : /\ Placed(g, d, x) <=> Placed(g, c, x) \/ x = i
                          /\ Placed(g, c, x) <=> x < i
                          /\ ~Placed(g, c, i) /\ x \in Nat /\ g[x].size \in Nat
  BY <1>1, PlacedFacts, GraphFacts
<1>6. \A x : ~TakenOver(g, c, x)
  BY <1>1, <1>2, NoTakeOver
<1>7. \A x \in DOMAIN g : x < i /\ Own(g[x]) /\ x \notin DOMAIN h =>
        ~IsResult(g, x) /\ ~Pends(g, c, x)
  BY <1>1, <1>5, <1>6 DEF HeldOK, GoneRight
<1>8. i \notin DOMAIN h
  BY <1>1, <1>5 DEF HeldOK, HeldRight
<1>9. HeldOK(g, d, h2, f2)
  <2>1. ASSUME NEW x \in DOMAIN h2 PROVE HeldRight(g, d, h2, f2, x)
    <3>1. CASE x = i /\ Own(g[i])
      <4>1. IsResult(g, i) \/ Pends(g, d, i)
        BY <1>1, <1>4, NewIsRead
      <4> QED BY <1>5, <3>1, <4>1 DEF HeldRight
    <3>2. CASE x \in DOMAIN h /\ h2[x] = h[x]
      <4>1. HeldRight(g, c, h, f, x)
        BY <1>1, <3>2 DEF HeldOK
      <4>2. x \in DOMAIN g /\ x # i
        BY <1>8, <3>2, <4>1 DEF HeldRight
      <4>3. f2[x] = f[x]
        BY <4>2
      <4> QED BY <1>4, <1>5, <3>2, <4>1, <4>2, <4>3 DEF HeldRight
    <3> QED BY <2>1, <3>1, <3>2
  <2>2. ASSUME NEW x \in DOMAIN g, Own(g[x]), Placed(g, d, x), x \notin DOMAIN h2
        PROVE  GoneRight(g, d, x)
    <3>1. x # i /\ x < i
      BY <1>5, <2>2
    <3>2. CASE x \in DOMAIN h
      BY <2>2, <3>2
    <3>3. CASE x \notin DOMAIN h
      <4>1. ~IsResult(g, x) /\ ~Pends(g, c, x)
        BY <1>7, <2>2, <3>1, <3>3
      <4> QED BY <1>4, <4>1 DEF GoneRight
    <3> QED BY <3>2, <3>3
  <2> QED BY <2>1, <2>2 DEF HeldOK
<1>10. PlacedSet(g, d) = PlacedSet(g, c) \union {i} /\ i \notin PlacedSet(g, c)
  BY <1>5 DEF PlacedSet
<1>11. \A x \in PlacedSet(g, c) : x \in DOMAIN g /\ x < i
  BY <1>5 DEF PlacedSet
<1>12. /\ \A x \in PlacedSet(g, c) : Own(g[x]) => f[x] + g[x].size <= b
       /\ \A x, y \in PlacedSet(g, c) : x < y /\ Own(g[x]) /\ Own(g[y]) => Apart(g, f, x, y)
       /\ f \in [DOMAIN g -> Nat]
  BY <1>1 DEF Safe
<1>13. ASSUME NEW x \in PlacedSet(g, d), Own(g[x]) PROVE f2[x] + g[x].size <= b2
  <2>1. CASE x = i
    BY <1>13, <2>1
  <2>2. CASE x \in PlacedSet(g, c)
    <3>1. x \in DOMAIN g /\ x # i /\ f[x] + g[x].size <= b
      BY <1>2, <1>5, <1>10, <1>11, <1>12, <1>13, <2>2
    <3>2. f2[x] = f[x] /\ f[x] \in Nat /\ g[x].size \in Nat
      BY <1>5, <1>12, <3>1
    <3> QED BY <3>1, <3>2
  <2> QED BY <1>10, <2>1, <2>2
<1>14. ASSUME NEW x \in PlacedSet(g, d), NEW y \in PlacedSet(g, d), x < y, Own(g[x]), Own(g[y])
       PROVE  Apart(g, f2, x, y)
  <2>0. x \in DOMAIN g /\ y \in DOMAIN g /\ x \in Nat /\ y \in Nat
    BY <1>5 DEF PlacedSet
  <2>1. CASE x \in PlacedSet(g, c) /\ y \in PlacedSet(g, c)
    <3>1. Apart(g, f, x, y)
      BY <1>12, <1>14, <2>1
    <3>2. f2[x] = f[x] /\ f2[y] = f[y]
      BY <1>2, <1>10, <1>11, <2>0, <2>1
    <3>3. PlaceOf(g, f2, x) = PlaceOf(g, f, x) /\ PlaceOf(g, f2, y) = PlaceOf(g, f, y)
      BY <3>2 DEF PlaceOf
    <3> QED BY <3>1, <3>3 DEF Apart, Share
  <2>2. CASE y = i
    <3>1. CASE Share(g, f2, x, i)
      <4>1. CASE x \in DOMAIN h
        <5>1. x # i
          BY <1>8, <4>1
        <5> QED BY <1>14, <2>2, <3>1, <4>1, <5>1
      <4>2. CASE x \notin DOMAIN h
        <5>1. ~IsResult(g, x) /\ ~Pends(g, c, x) /\ x < c.tensor
          BY <1>7, <1>14, <2>0, <2>2, <4>2
        <5>2. Spent(g, x, i) /\ ~IsReader(g, i, x)
          BY <1>1, <1>2, <2>0, <5>1, GoneIsSpent
        <5> QED BY <2>2, <5>2 DEF Apart
      <4> QED BY <4>1, <4>2
    <3>2. CASE ~Share(g, f2, x, i)
      BY <2>2, <3>2 DEF Apart
    <3> QED BY <3>1, <3>2
  <2>3. CASE x = i /\ y # i
    <3>1. y < i
      BY <1>10, <1>11, <2>3
    <3> QED BY <1>2, <1>14, <2>0, <2>3, <3>1
  <2>4. (x \in PlacedSet(g, c) \/ x = i) /\ (y \in PlacedSet(g, c) \/ y = i)
    BY <1>10
  <2> QED BY <2>1, <2>2, <2>3, <2>4
<1>15. Safe(g, f2, b2, PlacedSet(g, d))
  BY <1>13, <1>14 DEF Safe
<1> QED BY <1>2, <1>4, <1>9, <1>15 DEF PlanGood

\* A source that only the tensor at hand still reads, itself and not through a view,
\* may be written over: it is no result, and nothing else reads it from then on.
LEMMA ReusableIsSpent ==
  ASSUME NEW g, WellBuilt(g), NEW c, NEW h, NEW f, NEW m, NEW n, NEW b,
         PlanGood(g, c, h, f, m, n, b), c.tensor \in DOMAIN g, c.step = Width(g, c.tensor) + 1,
         NEW k \in DOMAIN g[c.tensor].srcs, NEW p, p = g[c.tensor].srcs[k],
         ~g[p].output, m[p] = 1, n[p] = 0
  PROVE  /\ Spent(g, p, c.tensor)
         /\ GoneRight(g, Following(g, c), p)
<1> DEFINE i == c.tensor
           d == Following(g, c)
<1>1. CursorIn(g, c) /\ Counts(g, c, m, n)
  BY DEF PlanGood
<1>2. /\ i \in Nat /\ c.step \in Nat /\ c.step >= 1 /\ Width(g, i) \in 0 .. 2
      /\ CursorIn(g, d) /\ c.step <= Width(g, i) + 1
      /\ c.step # 2 * Width(g, i) + 1 => d.tensor = i /\ d.step = c.step + 1
  BY <1>1, CursorFacts
<1>3. p \in DOMAIN g /\ k \in 1 .. Width(g, i) /\ ~IsLeaf(g[i]) /\ p \in Nat
  <2>1. \A x \in DOMAIN g : /\ DOMAIN g[x].srcs = 1 .. Width(g, x) /\ x \in Nat
                            /\ \A q \in DOMAIN g[x].srcs : g[x].srcs[q] \in DOMAIN g
                            /\ IsLeaf(g[x]) <=> Width(g, x) = 0
    BY GraphFacts
  <2> QED BY <1>2, <2>1
<1>4. IsFiniteSet(Left(g, c, p)) /\ IsFiniteSet(Unread(g, c, p))
  <2>1. IsFiniteSet(Uses(g, p)) /\ IsFiniteSet(Views(g, p))
    BY UsesFacts
  <2>2. Left(g, c, p) \subseteq Uses(g, p) /\ Unread(g, c, p) \subseteq Views(g, p)
    BY DEF Left, Unread
  <2> QED BY <2>1, <2>2, FS_Subset
<1>5. Cardinality(Left(g, c, p)) = 1 /\ Cardinality(Unread(g, c, p)) = 0
  BY <1>1, <1>3 DEF Counts
<1>6. Unread(g, c, p) = {}
  BY <1>4, <1>5, FS_EmptySet
<1>7. <<i, k>> \in Left(g, c, p)
  <2>1. <<i, k>>[1] = i /\ <<i, k>>[2] = k /\ <<i, k>> \in Uses(g, p)
    BY UsesFacts
  <2>2. Width(g, i) + 1 + k >= c.step
    BY <1>2, <1>3
  <2> QED BY <2>1, <2>2, LeftFacts
<1>8. Left(g, c, p) = {<<i, k>>}
  <2>1. PICK u : Left(g, c, p) = {u}
    BY <1>4, <1>5, FS_Singleton
  <2> QED BY <1>7, <2>1
<1>9. \A v \in Views(g, p) : Left(g, c, v) = {} /\ Uses(g, v) # {}
  BY <1>6 DEF Unread
<1>10. Uses(g, p) # {}
  BY <1>7, LeftFacts
<1>11. ~IsResult(g, p)
  BY <1>9, <1>10 DEF IsResult
<1>12. ASSUME NEW j \in DOMAIN g, j > i PROVE ~IsReader(g, j, p)
  <2> SUFFICES ASSUME IsReader(g, j, p) PROVE FALSE
    OBVIOUS
  <2>1. PICK v \in {p} \union Views(g, p), q \in DOMAIN g[j].srcs : <<j, q>> \in Uses(g, v)
    BY <1>3, ReaderUses
  <2>2. <<j, q>>[1] = j
    OBVIOUS
  <2>3. <<j, q>> \in Left(g, c, v)
    BY <1>12, <2>1, <2>2, LeftFacts
  <2>4. v = p /\ <<j, q>> = <<i, k>>
    BY <1>8, <1>9, <2>1, <2>3
  <2>5. j = i
    BY <2>4
  <2> QED BY <1>2, <1>12, <2>5
<1>13. Spent(g, p, i)
  BY <1>3, <1>11, <1>12 DEF Spent
<1>14. TakenOver(g, d, p)
  <2>1. Width(g, i) >= 1
    BY <1>2, <1>3
  <2>2. d.tensor = i /\ d.step = c.step + 1 /\ d.step > Width(g, i) + 1
    BY <1>2, <2>1
  <2>3. \A x : Left(g, d, x) = Left(g, c, x)
    BY <1>1, <1>2, LeftStays
  <2>4. <<i, k>>[1] = i
    OBVIOUS
  <2> QED BY <1>8, <1>9, <2>2, <2>3, <2>4 DEF TakenOver
<1> QED BY <1>11, <1>13, <1>14 DEF GoneRight

-----------------------------------------------------------------------------
\* The readings and the views that are left are finitely many.
LEMMA LeftFinite ==
  ASSUME NEW g, WellBuilt(g), NEW c, NEW x
  PROVE  /\ IsFiniteSet(Left(g, c, x)) /\ IsFiniteSet(Unread(g, c, x))
         /\ Cardinality(Left(g, c, x)) \in Nat /\ Cardinality(Unread(g, c, x)) \in Nat
         /\ Cardinality(Left(g, c, x)) = 0 <=> Left(g, c, x) = {}
         /\ Cardinality(Unread(g, c, x)) = 0 <=> Unread(g, c, x) = {}
<1>1. IsFiniteSet(Uses(g, x)) /\ IsFiniteSet(Views(g, x))
  BY UsesFacts
<1>2. Left(g, c, x) \subseteq Uses(g, x) /\ Unread(g, c, x) \subseteq Views(g, x)
  BY DEF Left, Unread
<1>3. IsFiniteSet(Left(g, c, x)) /\ IsFiniteSet(Unread(g, c, x))
  BY <1>1, <1>2, FS_Subset
<1> QED BY <1>3, FS_CardinalityType, FS_EmptySet

\* The tensor whose place depends on the readings of p.
OwnerOf(g, p) == IF IsView(g[p]) THEN g[p].root ELSE p

\* The reading of p, as source k, at c; the counts after it; and whether the owner of p
\* is given back.
IsReading(g, c, k, p) ==
  /\ c.tensor \in DOMAIN g /\ c.step > Width(g, c.tensor) + 1
  /\ k = c.step - Width(g, c.tensor) - 1 /\ p = g[c.tensor].srcs[k]
CountsRead(g, p, m, n, m2, n2) ==
  /\ m2 = [m EXCEPT ![p] = @ - 1]
  /\ n2 = IF (m2[p] = 0 /\ n[p] = 0) /\ IsView(g[p]) THEN [n EXCEPT ![g[p].root] = @ - 1] ELSE n
Frees(g, p, h, n, m2, n2) ==
  LET o == OwnerOf(g, p)
  IN  m2[p] = 0 /\ n[p] = 0 /\ m2[o] = 0 /\ n2[o] = 0 /\ o \in DOMAIN h /\ ~g[o].output
HeldAfter(g, p, h, freed, h2) ==
  IF freed THEN DOMAIN h2 = DOMAIN h \ {OwnerOf(g, p)} /\ \A x \in DOMAIN h2 : h2[x] = h[x]
  ELSE h2 = h

\* A reading of p is one less of p; if it was the last, p is one view less of its root.
LEMMA ReadingCounted ==
  ASSUME NEW g, WellBuilt(g), NEW c, NEW m, NEW n, Counts(g, c, m, n), CursorIn(g, c),
         NEW k, NEW p, IsReading(g, c, k, p),
         NEW m2, NEW n2, CountsRead(g, p, m, n, m2, n2)
  PROVE  Counts(g, Following(g, c), m2, n2)
<1> DEFINE d == Following(g, c)
           u == <<c.tensor, k>>
<1>1. /\ p \in DOMAIN g
      /\ \A x : u \in Uses(g, x) <=> x = p
      /\ u \in Left(g, c, p)
      /\ \A x : Left(g, d, x) = Left(g, c, x) \ {u}
  BY LeftShrinks DEF IsReading
<1> HIDE DEF d, u
<1>2. /\ m = [x \in DOMAIN g |-> Cardinality(Left(g, c, x))]
      /\ n = [x \in DOMAIN g |-> Cardinality(Unread(g, c, x))]
  BY DEF Counts
<1>3. \A x : x # p => Left(g, d, x) = Left(g, c, x)
  <2> SUFFICES ASSUME NEW x, x # p PROVE Left(g, d, x) = Left(g, c, x)
    OBVIOUS
  <2>1. u \notin Left(g, c, x)
    BY <1>1, LeftFacts
  <2> QED BY <1>1, <2>1
<1>4. Cardinality(Left(g, d, p)) = Cardinality(Left(g, c, p)) - 1
  BY <1>1, LeftFinite, FS_RemoveElement
<1>5. m2 = [x \in DOMAIN g |-> Cardinality(Left(g, d, x))]
  <2>1. m2 = [x \in DOMAIN g |-> IF x = p THEN m[x] - 1 ELSE m[x]]
    BY <1>2 DEF CountsRead
  <2>2. \A x \in DOMAIN g : (IF x = p THEN m[x] - 1 ELSE m[x]) = Cardinality(Left(g, d, x))
    BY <1>2, <1>3, <1>4
  <2> QED BY <2>1, <2>2
<1>6. m2[p] = 0 <=> Left(g, d, p) = {}
  <2>1. m2[p] = Cardinality(Left(g, d, p))
    BY <1>1, <1>5
  <2>2. Cardinality(Left(g, d, p)) = 0 <=> Left(g, d, p) = {}
    BY LeftFinite
  <2> QED BY <2>1, <2>2
<1>7. \A x, v : v \in Unread(g, d, x) <=>
        v \in Views(g, x) /\ (Left(g, d, v) # {} \/ Uses(g, v) = {})
  BY DEF Unread
<1>8. \A x, v : v \in Unread(g, c, x) <=>
        v \in Views(g, x) /\ (Left(g, c, v) # {} \/ Uses(g, v) = {})
  BY DEF Unread
<1>9. Uses(g, p) # {}
  BY <1>1
<1>10. \A x : Unread(g, d, x) = Unread(g, c, x) \/ (p \in Views(g, x) /\ Left(g, d, p) = {})
  <2> SUFFICES ASSUME NEW x, p \notin Views(g, x) \/ Left(g, d, p) # {}
               PROVE  Unread(g, d, x) = Unread(g, c, x)
    OBVIOUS
  <2>1. \A v : v \in Unread(g, d, x) <=> v \in Unread(g, c, x)
    <3> SUFFICES ASSUME NEW v \in Views(g, x)
                 PROVE  Left(g, d, v) # {} <=> Left(g, c, v) # {}
      BY <1>7, <1>8
    <3>1. CASE v = p
      BY <1>1, <3>1
    <3>2. CASE v # p
      BY <1>3, <3>2
    <3> QED BY <3>1, <3>2
  <2> QED BY <2>1
<1>11. CASE IsView(g[p]) /\ Left(g, d, p) = {}
  <2> DEFINE r == g[p].root
  <2>1. p \in Views(g, r) /\ Views(g, p) = {} /\ r \in DOMAIN g
    BY <1>1, <1>11, ViewsFacts
  <2>2. Unread(g, c, p) = {}
    BY <1>8, <2>1
  <2>3. n[p] = 0
    <3>1. n[p] = Cardinality(Unread(g, c, p))
      BY <1>1, <1>2
    <3> QED BY <2>2, <3>1, FS_EmptySet
  <2>4. n2 = [n EXCEPT ![r] = @ - 1]
    BY <1>6, <1>11, <2>3 DEF CountsRead
  <2>5. p \in Unread(g, c, r)
    BY <1>1, <1>8, <2>1
  <2>6. Unread(g, d, r) = Unread(g, c, r) \ {p}
    <3>1. \A v : v \in Unread(g, d, r) <=> v \in Unread(g, c, r) /\ v # p
      BY <1>3, <1>7, <1>8, <1>9, <1>11
    <3> QED BY <3>1
  <2>7. Cardinality(Unread(g, d, r)) = Cardinality(Unread(g, c, r)) - 1
    <3>1. IsFiniteSet(Unread(g, c, r))
      BY LeftFinite
    <3>2. Cardinality(Unread(g, c, r) \ {p}) = Cardinality(Unread(g, c, r)) - 1
      BY <2>5, <3>1, FS_RemoveElement
    <3> QED BY <2>6, <3>2
  <2>8. \A x : x # r => Unread(g, d, x) = Unread(g, c, x)
    BY <1>10, ViewsFacts
  <2>9. n2 = [x \in DOMAIN g |-> IF x = r THEN n[x] - 1 ELSE n[x]]
    BY <1>2, <2>4
  <2>10. \A x \in DOMAIN g : (IF x = r THEN n[x] - 1 ELSE n[x]) = Cardinality(Unread(g, d, x))
    BY <1>2, <2>7, <2>8
  <2>11. n2 = [x \in DOMAIN g |-> Cardinality(Unread(g, d, x))]
    BY <2>9, <2>10
  <2> QED BY <1>5, <2>11 DEF Counts, d
<1>12. CASE ~(IsView(g[p]) /\ Left(g, d, p) = {})
  <2>1. n2 = n
    BY <1>6, <1>12 DEF CountsRead
  <2>2. \A x : Unread(g, d, x) = Unread(g, c, x)
    BY <1>10, <1>12, ViewsFacts
  <2>3. n2 = [x \in DOMAIN g |-> Cardinality(Unread(g, d, x))]
    BY <1>2, <2>1, <2>2
  <2> QED BY <1>5, <2>3 DEF Counts, d
<1> QED BY <1>11, <1>12

\* After a source is read its owner is given back exactly when it may be: no reading
\* of it or of a view of it is left, and the caller does not want it.
LEMMA SourceIsRead ==
  ASSUME NEW g, WellBuilt(g), NEW c, NEW h, NEW f, NEW m, NEW n, NEW b,
         PlanGood(g, c, h, f, m, n, b),
         NEW k, NEW p, IsReading(g, c, k, p),
         NEW m2, NEW n2, CountsRead(g, p, m, n, m2, n2),
         NEW h2, HeldAfter(g, p, h, Frees(g, p, h, n, m2, n2), h2)
  PROVE  PlanGood(g, Following(g, c), h2, f, m2, n2, b)
<1> DEFINE d == Following(g, c)
           u == <<c.tensor, k>>
           o == OwnerOf(g, p)
           freed == Frees(g, p, h, n, m2, n2)
<1>0. CursorIn(g, c) /\ Counts(g, c, m, n) /\ HeldOK(g, c, h, f) /\ Safe(g, f, b, PlacedSet(g, c))
  BY DEF PlanGood
<1>1. /\ p \in DOMAIN g
      /\ \A x : u \in Uses(g, x) <=> x = p
      /\ u \in Left(g, c, p)
      /\ \A x : Left(g, d, x) = Left(g, c, x) \ {u}
  BY <1>0, LeftShrinks DEF IsReading
<1>2. /\ c.tensor \in Nat /\ c.step \in Nat /\ c.step >= 1 /\ d.tensor \in Nat /\ d.step \in Nat
      /\ Width(g, c.tensor) \in 0 .. 2 /\ c.step <= 2 * Width(g, c.tensor) + 1
      /\ c.step = 2 * Width(g, c.tensor) + 1 => d.tensor = c.tensor + 1 /\ d.step = 1
      /\ c.step # 2 * Width(g, c.tensor) + 1 => d.tensor = c.tensor /\ d.step = c.step + 1
      /\ CursorIn(g, d)
      /\ c.step > Width(g, c.tensor) + 1
  BY <1>0, CursorFacts DEF IsReading
<1>3. Counts(g, d, m2, n2)
  BY <1>0, ReadingCounted
<1>4. \A x \in DOMAIN g : Placed(g, d, x) <=> Placed(g, c, x)
  <2>1. c.step # Width(g, c.tensor) + 1
    BY <1>2
  <2>2. c.tensor \in DOMAIN g
    BY DEF IsReading
  <2> QED BY <1>0, <2>1, <2>2, PlacedFacts
<1>14. freed <=> /\ m2[p] = 0 /\ n[p] = 0 /\ m2[o] = 0 /\ n2[o] = 0
                 /\ o \in DOMAIN h /\ ~g[o].output
  BY DEF Frees
<1>15. /\ ~freed => h2 = h
       /\ freed => DOMAIN h2 = DOMAIN h \ {o} /\ \A x \in DOMAIN h2 : h2[x] = h[x]
  BY DEF HeldAfter
<1>16. o = IF IsView(g[p]) THEN g[p].root ELSE p
  BY DEF OwnerOf
<1> HIDE DEF d, u, o, freed
<1>5. o \in DOMAIN g /\ (o = p \/ p \in Views(g, o)) /\ Uses(g, o) # {}
  <2>1. CASE IsView(g[p])
    BY <1>1, <2>1, ViewsFacts, <1>16
  <2>2. CASE ~IsView(g[p])
    BY <1>1, <2>2, <1>16
  <2> QED BY <2>1, <2>2
<1>6. \A x \in DOMAIN g : /\ m2[x] = 0 <=> Left(g, d, x) = {}
                          /\ n2[x] = 0 <=> Unread(g, d, x) = {}
                          /\ n[x] = 0 <=> Unread(g, c, x) = {}
  <2> SUFFICES ASSUME NEW x \in DOMAIN g
               PROVE  /\ m2[x] = 0 <=> Left(g, d, x) = {}
                      /\ n2[x] = 0 <=> Unread(g, d, x) = {}
                      /\ n[x] = 0 <=> Unread(g, c, x) = {}
    OBVIOUS
  <2>1. m2[x] = Cardinality(Left(g, d, x)) /\ n2[x] = Cardinality(Unread(g, d, x))
    BY <1>3 DEF Counts
  <2>2. n[x] = Cardinality(Unread(g, c, x))
    BY <1>0 DEF Counts
  <2> QED BY <2>1, <2>2, LeftFinite
<1>7. \A e, x, v : v \in Unread(g, e, x) <=>
        v \in Views(g, x) /\ (Left(g, e, v) # {} \/ Uses(g, v) = {})
  BY DEF Unread
<1>8. \A x : Pends(g, d, x) => Pends(g, c, x)
  BY <1>1 DEF Pends
<1>9. freed => ~IsResult(g, o) /\ ~Pends(g, d, o)
  <2> SUFFICES ASSUME freed PROVE ~IsResult(g, o) /\ ~Pends(g, d, o)
    OBVIOUS
  <2>1. Left(g, d, o) = {} /\ Unread(g, d, o) = {} /\ ~g[o].output
    BY <1>5, <1>6, <1>14
  <2>2. \A v \in Views(g, o) : Left(g, d, v) = {} /\ Uses(g, v) # {}
    BY <1>7, <2>1
  <2> QED BY <1>5, <2>1, <2>2 DEF IsResult, Pends
<1>10. ASSUME NEW x \in DOMAIN h2 PROVE HeldRight(g, d, h2, f, x)
  <2>1. x \in DOMAIN h /\ h2[x] = h[x] /\ (freed => x # o)
    BY <1>10, <1>15
  <2>2. HeldRight(g, c, h, f, x)
    BY <1>0, <2>1 DEF HeldOK
  <2>3. x \in DOMAIN g /\ Own(g[x]) /\ ~IsView(g[x])
    BY <2>2 DEF HeldRight, Own, IsView
  <2>4. IsResult(g, x) \/ Pends(g, d, x)
    <3> SUFFICES ASSUME ~IsResult(g, x), ~Pends(g, d, x) PROVE FALSE
      OBVIOUS
    <3>1. Pends(g, c, x)
      BY <2>2 DEF HeldRight
    <3>2. PICK v \in {x} \union Views(g, x) : Left(g, c, v) # {}
      BY <3>1 DEF Pends
    <3>3. \A w \in {x} \union Views(g, x) : Left(g, d, w) = {} /\ Uses(g, w) # {}
      BY DEF Pends, IsResult
    <3>4. u \in Left(g, c, v)
      BY <1>1, <3>2, <3>3
    <3>5. v = p
      BY <1>1, <3>4, LeftFacts
    <3>6. x = o
      <4>1. CASE v = x
        BY <2>3, <3>5, <4>1, <1>16
      <4>2. CASE v \in Views(g, x)
        BY <3>5, <4>2, ViewsFacts, <1>16
      <4> QED BY <4>1, <4>2
    <3>7. Left(g, d, p) = {} /\ Left(g, d, o) = {} /\ Unread(g, d, o) = {}
      BY <1>7, <3>3, <3>5, <3>6
    <3>8. ~g[o].output
      BY <3>6 DEF IsResult
    <3>9. Unread(g, c, p) = {}
      <4>1. CASE IsView(g[p])
        BY <1>1, <1>7, <4>1, ViewsFacts
      <4>2. CASE ~IsView(g[p])
        <5>1. p = x
          BY <3>6, <4>2, <1>16
        <5>2. ASSUME NEW w \in Views(g, p) PROVE Left(g, c, w) = {} /\ Uses(g, w) # {}
          <6>1. w # p /\ Left(g, d, w) = {} /\ Uses(g, w) # {}
            BY <3>3, <5>1, ViewsFacts
          <6>2. u \notin Left(g, c, w)
            BY <1>1, <6>1, LeftFacts
          <6> QED BY <1>1, <6>1, <6>2
        <5> QED BY <1>7, <5>2
      <4> QED BY <4>1, <4>2
    <3>10. freed
      BY <1>1, <1>5, <1>6, <1>14, <2>1, <3>6, <3>7, <3>8, <3>9
    <3> QED BY <2>1, <3>6, <3>10
  <2> QED BY <1>4, <2>1, <2>2, <2>3, <2>4 DEF HeldRight
<1>11. ASSUME NEW x \in DOMAIN g, Own(g[x]), Placed(g, d, x), x \notin DOMAIN h2
       PROVE  GoneRight(g, d, x)
  <2>1. CASE x \in DOMAIN h
    <3>1. freed /\ x = o
      BY <1>11, <1>15, <2>1
    <3> QED BY <1>9, <3>1 DEF GoneRight
  <2>2. CASE x \notin DOMAIN h
    <3>1. GoneRight(g, c, x)
      BY <1>0, <1>4, <1>11, <2>2 DEF HeldOK
    <3>2. SUFFICES ASSUME Pends(g, d, x) PROVE TakenOver(g, d, x)
      BY <3>1 DEF GoneRight
    <3>3. TakenOver(g, c, x)
      BY <1>8, <3>1, <3>2 DEF GoneRight
    <3>4. /\ \A w \in Left(g, c, x) : w[1] = c.tensor
          /\ \A v \in Views(g, x) : Left(g, c, v) = {}
      BY <3>3 DEF TakenOver
    <3>5. /\ \A w \in Left(g, d, x) : w[1] = c.tensor
          /\ \A v \in Views(g, x) : Left(g, d, v) = {}
      BY <1>1, <3>4
    <3>6. PICK w : w \in Left(g, d, x)
      BY <3>2, <3>5 DEF Pends
    <3>7. w[1] = c.tensor /\ w[1] >= d.tensor
      <4>1. w[1] > d.tensor \/ w[1] = d.tensor
        BY <3>6, LeftFacts
      <4> QED BY <1>2, <3>5, <3>6, <4>1
    <3>8. d.tensor = c.tensor /\ d.step = c.step + 1
      BY <1>2, <3>7
    <3>9. d.step > Width(g, c.tensor) + 1
      BY <1>2, <3>8
    <3>10. d.tensor \in DOMAIN g /\ d.step > Width(g, d.tensor) + 1
      BY <3>3, <3>8, <3>9 DEF TakenOver
    <3>11. \A q \in Left(g, d, x) : q[1] = d.tensor
      BY <3>5, <3>8
    <3> QED BY <3>5, <3>10, <3>11 DEF TakenOver
  <2> QED BY <2>1, <2>2
<1>12. HeldOK(g, d, h2, f)
  BY <1>10, <1>11 DEF HeldOK
<1>13. PlacedSet(g, d) = PlacedSet(g, c)
  BY <1>4 DEF PlacedSet
<1> QED BY <1>0, <1>2, <1>3, <1>12, <1>13 DEF PlanGood, d

-----------------------------------------------------------------------------
\* In the beginning of a plan nothing is placed, and every reading and view is left.
LEMMA PlanStarts ==
  ASSUME NEW g, WellBuilt(g), NEW h, DOMAIN h = {}, NEW b
  PROVE  PlanGood(g, Start, h, [i \in DOMAIN g |-> 0],
                  [i \in DOMAIN g |-> Cardinality(Uses(g, i))],
                  [i \in DOMAIN g |-> Cardinality(Views(g, i))], b)
<1> DEFINE c == Start
<1>1. c = [tensor |-> 1, step |-> 1] /\ c.tensor = 1 /\ c.step = 1
  BY DEF Start
<1>2. Len(g) \in Nat /\ DOMAIN g = 1 .. Len(g) /\ \A i \in DOMAIN g : i \in Nat /\ Width(g, i) \in 0 .. 2
  BY GraphFacts
<1> HIDE DEF c
<1>3. CursorIn(g, c)
  <2>1. c \in [tensor : 1 .. Len(g) + 1, step : Nat \ {0}]
    <3>1. 1 \in 1 .. Len(g) + 1 /\ 1 \in Nat \ {0}
      BY <1>2
    <3> QED BY <1>1, <3>1
  <2>2. c.tensor \in DOMAIN g => c.step <= 2 * Width(g, c.tensor) + 1
    BY <1>1, <1>2
  <2> QED BY <2>1, <2>2 DEF CursorIn
<1>4. ASSUME NEW x PROVE Left(g, c, x) = Uses(g, x)
  <2>1. ASSUME NEW u \in Uses(g, x) PROVE u \in Left(g, c, x)
    <3>1. u[1] \in DOMAIN g /\ u[1] \in Nat /\ u[2] \in Nat /\ u[2] >= 1 /\ Width(g, u[1]) \in 0 .. 2
      BY <1>2, UsesFacts
    <3>2. u[1] > c.tensor \/ (u[1] = c.tensor /\ Width(g, u[1]) + 1 + u[2] >= c.step)
      BY <1>1, <1>2, <3>1
    <3> QED BY <3>2, LeftFacts
  <2> QED BY <2>1, LeftFacts
<1>5. ASSUME NEW x PROVE Unread(g, c, x) = Views(g, x)
  BY <1>4 DEF Unread
<1>6. \A x \in DOMAIN g : ~Placed(g, c, x)
  <2> SUFFICES ASSUME NEW x \in DOMAIN g PROVE ~Placed(g, c, x)
    OBVIOUS
  <2>1. x \in Nat /\ x >= 1 /\ Width(g, x) \in 0 .. 2
    BY <1>2
  <2> QED BY <1>1, <2>1 DEF Placed
<1>7. PlacedSet(g, c) = {}
  BY <1>6 DEF PlacedSet
<1>8. HeldOK(g, c, h, [i \in DOMAIN g |-> 0])
  BY <1>6 DEF HeldOK
<1>9. Counts(g, c, [i \in DOMAIN g |-> Cardinality(Uses(g, i))],
                   [i \in DOMAIN g |-> Cardinality(Views(g, i))])
  BY <1>4, <1>5 DEF Counts
<1>10. Safe(g, [i \in DOMAIN g |-> 0], b, PlacedSet(g, c))
  BY <1>7 DEF Safe
<1> QED BY <1>3, <1>8, <1>9, <1>10 DEF PlanGood, c

\* In the end everything is placed and no reading is left: the results are held.
LEMMA PlanEnds ==
  ASSUME NEW g, WellBuilt(g), NEW c, NEW h, NEW f, NEW m, NEW n, NEW b,
         PlanGood(g, c, h, f, m, n, b), c.tensor > Len(g)
  PROVE  /\ Safe(g, f, b, DOMAIN g)
         /\ DOMAIN h = {i \in DOMAIN g : Own(g[i]) /\ IsResult(g, i)}
<1>1. CursorIn(g, c) /\ HeldOK(g, c, h, f) /\ Safe(g, f, b, PlacedSet(g, c))
  BY DEF PlanGood
<1>2. Len(g) \in Nat /\ DOMAIN g = 1 .. Len(g) /\ c.tensor \in Nat
  BY <1>1, GraphFacts DEF CursorIn
<1>3. \A x \in DOMAIN g : x < c.tensor
  BY <1>2
<1>4. PlacedSet(g, c) = DOMAIN g /\ \A x \in DOMAIN g : Placed(g, c, x)
  BY <1>3 DEF PlacedSet, Placed
<1>5. ASSUME NEW x PROVE Left(g, c, x) = {}
  <2> SUFFICES ASSUME NEW u \in Left(g, c, x) PROVE FALSE
    OBVIOUS
  <2>1. u \in Uses(g, x) /\ (u[1] > c.tensor \/ u[1] = c.tensor)
    BY LeftFacts
  <2>2. u[1] \in DOMAIN g
    BY <2>1, UsesFacts
  <2>3. u[1] < c.tensor /\ u[1] \in Nat
    BY <1>2, <1>3, <2>2
  <2> QED BY <1>2, <2>1, <2>3
<1>6. \A x : ~Pends(g, c, x)
  BY <1>5 DEF Pends
<1>7. \A x \in DOMAIN h : x \in DOMAIN g /\ Own(g[x]) /\ IsResult(g, x)
  BY <1>1, <1>6 DEF HeldOK, HeldRight
<1>8. \A x \in DOMAIN g : Own(g[x]) /\ IsResult(g, x) => x \in DOMAIN h
  BY <1>1, <1>4 DEF HeldOK, GoneRight
<1> QED BY <1>1, <1>4, <1>7, <1>8

-----------------------------------------------------------------------------
\* The readings there are stay when a tensor is added.
LEMMA UsesGrow ==
  ASSUME NEW g, WellBuilt(g), NEW t \in TensorType, NEW x
  PROVE  Uses(g, x) \subseteq Uses(Append(g, t), x)
<1> DEFINE e == Append(g, t)
<1>1. \A i \in DOMAIN g : i \in DOMAIN e /\ e[i] = g[i]
  <2>1. g \in Seq(TensorType)
    BY DEF WellBuilt
  <2> QED BY <2>1
<1> HIDE DEF e
<1> SUFFICES ASSUME NEW u \in Uses(g, x) PROVE u \in Uses(e, x)
  BY DEF e
<1>2. u \in Nodes(g) \X {1, 2} /\ u[2] \in DOMAIN g[u[1]].srcs /\ g[u[1]].srcs[u[2]] = x
  BY DEF Uses
<1>3. u[1] \in DOMAIN g /\ ~IsLeaf(g[u[1]]) /\ u[1] \in Nodes(g)
  BY <1>2 DEF Nodes, Leafs
<1>4. e[u[1]] = g[u[1]] /\ u[1] \in DOMAIN e
  BY <1>1, <1>3
<1>5. u[1] \in Nodes(e)
  BY <1>3, <1>4 DEF Nodes, Leafs
<1>6. u \in Nodes(e) \X {1, 2}
  BY <1>2, <1>5
<1> QED BY <1>2, <1>4, <1>6 DEF Uses

\* A tensor is added after those there are: they stay what they were.
LEMMA AddKeepsBuilt ==
  ASSUME NEW g, WellBuilt(g), NEW t \in TensorType, BuiltAt(Append(g, t), Len(g) + 1)
  PROVE  WellBuilt(Append(g, t))
<1> DEFINE e == Append(g, t)
<1>1. /\ Len(g) \in Nat /\ DOMAIN g = 1 .. Len(g) /\ g \in Seq(TensorType)
      /\ \A i \in DOMAIN g : i \in Nat /\ BuiltAt(g, i)
  BY GraphFacts DEF WellBuilt
<1>2. /\ e \in Seq(TensorType) /\ Len(e) = Len(g) + 1 /\ DOMAIN e = 1 .. Len(g) + 1
      /\ \A i \in DOMAIN g : i \in DOMAIN e /\ e[i] = g[i]
  BY <1>1
<1> HIDE DEF e
<1>3. \A x : Uses(g, x) \subseteq Uses(e, x)
  BY UsesGrow DEF e
<1>4. ASSUME NEW i \in DOMAIN g PROVE BuiltAt(e, i)
  <2>1. BuiltAt(g, i) /\ e[i] = g[i] /\ i \in Nat /\ i \in 1 .. Len(g)
    BY <1>1, <1>2
  <2>2. \A j \in 1 .. i : e[j] = g[j]
    BY <1>1, <1>2, <2>1
  <2>3. IsLeaf(e[i]) => e[i].srcs = << >> /\ \A j \in 1 .. i : IsLeaf(e[j])
    BY <2>1, <2>2 DEF BuiltAt
  <2>4. ~IsLeaf(e[i]) => \E n \in 1 .. 2 : e[i].srcs \in [1 .. n -> 1 .. i - 1]
    BY <2>1 DEF BuiltAt
  <2>5. IsView(e[i]) => /\ e[i].root \in 1 .. i - 1 /\ ~IsView(e[e[i].root])
                        /\ Uses(e, e[i].root) # {}
    <3> SUFFICES ASSUME IsView(e[i])
                 PROVE  /\ e[i].root \in 1 .. i - 1 /\ ~IsView(e[e[i].root])
                        /\ Uses(e, e[i].root) # {}
      OBVIOUS
    <3>1. /\ g[i].root \in 1 .. i - 1 /\ ~IsView(g[g[i].root])
          /\ Uses(g, g[i].root) # {}
      BY <2>1 DEF BuiltAt
    <3>2. g[i].root \in 1 .. i
      BY <2>1, <3>1
    <3>3. e[g[i].root] = g[g[i].root]
      BY <2>2, <3>2
    <3>4. Uses(e, g[i].root) # {}
      BY <1>3, <3>1
    <3> QED BY <2>1, <3>1, <3>3, <3>4
  <2>6. ~IsView(e[i]) => e[i].root = 0
    BY <2>1 DEF BuiltAt
  <2> QED BY <2>3, <2>4, <2>5, <2>6 DEF BuiltAt
<1>5. ASSUME NEW i \in DOMAIN e PROVE BuiltAt(e, i)
  <2>1. CASE i = Len(g) + 1
    BY <2>1 DEF e
  <2>2. CASE i # Len(g) + 1
    BY <1>1, <1>2, <1>4, <2>2
  <2> QED BY <2>1, <2>2
<1> QED BY <1>2, <1>5 DEF WellBuilt, e
-----------------------------------------------------------------------------
\* A graph of the structure of another, none of its tensors larger, where what is read by
\* an operation in place has its size again if it had it in the other.
Smaller(g, h) ==
  /\ DOMAIN g = DOMAIN h
  /\ \A i \in DOMAIN g : /\ [h[i] EXCEPT !.size = g[i].size] = g[i]
                         /\ Own(g[i]) => g[i].size <= h[i].size
  /\ \A i, j \in DOMAIN g :
        g[j].kind = "inplace" /\ IsReader(g, j, i) /\ h[i].size = h[j].size
            => g[i].size = g[j].size

\* Tensors keep their parts, and so their readers and views.
LEMMA SameParts ==
  ASSUME NEW g, WellBuilt(g), NEW h, WellBuilt(h), Smaller(g, h)
  PROVE  /\ \A i \in DOMAIN g : /\ i \in DOMAIN h /\ g[i].kind = h[i].kind /\ g[i].srcs = h[i].srcs
                                /\ g[i].output = h[i].output /\ g[i].root = h[i].root
                                /\ IsLeaf(g[i]) <=> IsLeaf(h[i])
                                /\ IsView(g[i]) <=> IsView(h[i])
                                /\ Own(g[i]) <=> Own(h[i])
         /\ \A x : Uses(g, x) = Uses(h, x) /\ Views(g, x) = Views(h, x)
<1>1. ASSUME NEW i \in DOMAIN g
      PROVE  /\ i \in DOMAIN h /\ g[i].kind = h[i].kind /\ g[i].srcs = h[i].srcs
             /\ g[i].output = h[i].output /\ g[i].root = h[i].root
  <2>1. i \in DOMAIN h /\ [h[i] EXCEPT !.size = g[i].size] = g[i]
    BY DEF Smaller
  <2>2. h[i] \in TensorType
    BY <2>1, GraphFacts
  <2>3. PICK new : new = g[i].size
    OBVIOUS
  <2>4. [h[i] EXCEPT !.size = new] = g[i]
    BY <2>1, <2>3
  <2> QED BY <2>1, <2>2, <2>4 DEF TensorType
<1>2. \A i \in DOMAIN g : /\ IsLeaf(g[i]) <=> IsLeaf(h[i])
                          /\ IsView(g[i]) <=> IsView(h[i])
                          /\ Own(g[i]) <=> Own(h[i])
  BY <1>1 DEF IsLeaf, IsView, Own
<1>3. DOMAIN g = DOMAIN h
  BY DEF Smaller
<1>4. Leafs(g) = Leafs(h)
  BY <1>2, <1>3 DEF Leafs
<1>5. Nodes(g) = Nodes(h) /\ Nodes(g) \subseteq DOMAIN g
  BY <1>3, <1>4 DEF Nodes
<1>6. ASSUME NEW x PROVE Uses(g, x) = Uses(h, x) /\ Views(g, x) = Views(h, x)
  <2>1. Views(g, x) = Views(h, x)
    BY <1>1, <1>2, <1>5 DEF Views
  <2>2. ASSUME NEW u PROVE u \in Uses(g, x) <=> u \in Uses(h, x)
    <3>1. u \in Uses(g, x) <=> u \in Nodes(g) \X {1, 2} /\ u[2] \in DOMAIN g[u[1]].srcs /\ g[u[1]].srcs[u[2]] = x
      BY DEF Uses
    <3>2. u \in Uses(h, x) <=> u \in Nodes(h) \X {1, 2} /\ u[2] \in DOMAIN h[u[1]].srcs /\ h[u[1]].srcs[u[2]] = x
      BY DEF Uses
    <3>3. u \in Nodes(g) \X {1, 2} => g[u[1]].srcs = h[u[1]].srcs
      <4>1. u \in Nodes(g) \X {1, 2} => u[1] \in DOMAIN g
        BY <1>5
      <4> QED BY <1>1, <4>1
    <3> QED BY <1>5, <3>1, <3>2, <3>3
  <2> QED BY <2>1, <2>2
<1> QED BY <1>1, <1>2, <1>6

\* Such a graph is safe where the other is.
LEMMA SmallerIsSafe ==
  ASSUME NEW g, WellBuilt(g), NEW h, WellBuilt(h), Smaller(g, h),
         NEW f, NEW b \in Nat, Safe(h, f, b, DOMAIN h)
  PROVE  Safe(g, f, b, DOMAIN g)
<1>1. /\ \A i \in DOMAIN g : /\ i \in DOMAIN h /\ g[i].kind = h[i].kind /\ g[i].srcs = h[i].srcs
                             /\ g[i].output = h[i].output /\ g[i].root = h[i].root
                             /\ IsLeaf(g[i]) <=> IsLeaf(h[i])
                             /\ IsView(g[i]) <=> IsView(h[i])
                             /\ Own(g[i]) <=> Own(h[i])
      /\ \A x : Uses(g, x) = Uses(h, x) /\ Views(g, x) = Views(h, x)
  BY SameParts
<1>2. /\ DOMAIN g = DOMAIN h
      /\ \A i \in DOMAIN g : Own(g[i]) => g[i].size <= h[i].size
  BY DEF Smaller
<1>3. f \in [DOMAIN g -> Nat]
  BY <1>2 DEF Safe
<1>4. \A i \in DOMAIN g : g[i].size \in Nat /\ h[i].size \in Nat /\ f[i] \in Nat
  BY <1>2, <1>3, GraphFacts
<1>5. ASSUME NEW i \in DOMAIN g, Own(g[i]) PROVE f[i] + g[i].size <= b
  <2>1. f[i] + h[i].size <= b
    BY <1>1, <1>5 DEF Safe
  <2> QED BY <1>2, <1>4, <1>5, <2>1
<1>6. \A i \in DOMAIN g : IsResult(g, i) <=> IsResult(h, i)
  BY <1>1 DEF IsResult
<1>7. \A k, i \in DOMAIN g : IsReader(g, k, i) <=> IsReader(h, k, i)
  <2> SUFFICES ASSUME NEW k \in DOMAIN g, NEW i \in DOMAIN g
               PROVE  IsReader(g, k, i) <=> IsReader(h, k, i)
    OBVIOUS
  <2>1. \A q \in DOMAIN g[k].srcs : g[k].srcs[q] \in DOMAIN g
    BY GraphFacts
  <2>2. \A q \in DOMAIN g[k].srcs : g[g[k].srcs[q]].root = h[g[k].srcs[q]].root
    BY <1>1, <2>1
  <2>3. g[k].srcs = h[k].srcs /\ (IsView(g[k]) <=> IsView(h[k]))
    BY <1>1
  <2> QED BY <2>2, <2>3 DEF IsReader
<1>8. ASSUME NEW i \in DOMAIN g, NEW j \in DOMAIN g, i < j, Own(g[i]), Own(g[j]), Share(g, f, i, j)
      PROVE  /\ Spent(g, i, j)
             /\ IsReader(g, j, i) => g[j].kind = "inplace" /\ PlaceOf(g, f, i) = PlaceOf(g, f, j)
  <2>1. Apart(h, f, i, j)
    BY <1>1, <1>8 DEF Safe
  <2>2. PICK x \in Nat : In(x, PlaceOf(g, f, i)) /\ In(x, PlaceOf(g, f, j))
    BY <1>8 DEF Share
  <2>3. \A q \in DOMAIN g : In(x, PlaceOf(g, f, q)) /\ Own(g[q]) => In(x, PlaceOf(h, f, q))
    <3> SUFFICES ASSUME NEW q \in DOMAIN g, Own(g[q]), In(x, PlaceOf(g, f, q))
                 PROVE  In(x, PlaceOf(h, f, q))
      OBVIOUS
    <3>1. f[q] <= x /\ x < f[q] + g[q].size
      BY DEF In, PlaceOf, Region, End
    <3>2. x < f[q] + h[q].size
      BY <1>2, <1>4, <3>1
    <3> QED BY <3>1, <3>2 DEF In, PlaceOf, Region, End
  <2>4. Share(h, f, i, j)
    BY <1>8, <2>2, <2>3 DEF Share
  <2>5. /\ Spent(h, i, j)
        /\ IsReader(h, j, i) => h[j].kind = "inplace" /\ PlaceOf(h, f, i) = PlaceOf(h, f, j)
    BY <2>1, <2>4 DEF Apart
  <2>6. Spent(g, i, j)
    BY <1>1, <1>2, <1>6, <1>7, <2>5 DEF Spent
  <2>7. ASSUME IsReader(g, j, i) PROVE g[j].kind = "inplace" /\ PlaceOf(g, f, i) = PlaceOf(g, f, j)
    <3>1. h[j].kind = "inplace" /\ PlaceOf(h, f, i) = PlaceOf(h, f, j)
      BY <1>7, <2>5, <2>7
    <3>2. f[i] = f[j] /\ h[i].size = h[j].size
      BY <3>1 DEF PlaceOf, Region
    <3>3. g[i].size = g[j].size
      BY <1>1, <2>7, <3>1, <3>2 DEF Smaller
    <3> QED BY <1>1, <3>1, <3>2, <3>3 DEF PlaceOf
  <2> QED BY <2>6, <2>7
<1>9. ASSUME NEW i \in DOMAIN g, NEW j \in DOMAIN g, i < j, Own(g[i]), Own(g[j])
      PROVE  Apart(g, f, i, j)
  BY <1>8, <1>9 DEF Apart
<1> QED BY <1>3, <1>5, <1>9 DEF Safe

-----------------------------------------------------------------------------
\* A plan under way; the plan that is noted, in a buffer it fits into if there is one; and
\* the graph that is placed by it, which fits it.
PlanInv == phase = "plan" =>
  PlanGood(graph, at, held, offset, n_children, n_views, max_size)
NotedInv ==
  /\ WellBuilt(plan.of) /\ buffer \in Nat \cup {NoBuffer}
  /\ \E b \in Nat : /\ Safe(plan.of, plan.offset, b, DOMAIN plan.of)
                    /\ buffer # NoBuffer => b <= buffer
Settled == {"reserved", "failed", "placed", "aborted"}
SettledInv ==
  /\ phase \in Settled => PlanFits(graph)
  /\ phase = "aborted" => \E i \in DOMAIN graph : Own(graph[i]) /\ ~InBuffer(i)

\* The inductive invariant of the graphs and the allocator.
IInv ==
  /\ Memory /\ (0 \notin Sizes => Tidy)
  /\ WellBuilt(graph) /\ phase \in {"build", "plan"} \cup Settled
  /\ PlanInv /\ NotedInv /\ SettledInv

\* What the parts of it say when a tensor is placed.
LEMMA PlanFacts ==
  ASSUME IInv, phase = "plan"
  PROVE  /\ Memory /\ WellBuilt(graph) /\ max_size \in Nat
         /\ PlanGood(graph, at, held, offset, n_children, n_views, max_size)
         /\ CursorIn(graph, at) /\ offset \in [DOMAIN graph -> Nat]
         /\ \A x \in DOMAIN held : /\ x \in DOMAIN graph /\ Own(graph[x]) /\ Placed(graph, at, x)
                                   /\ held[x] = Region(offset[x], Aligned(graph[x].size))
<1>1. Memory /\ WellBuilt(graph) /\ PlanGood(graph, at, held, offset, n_children, n_views, max_size)
  BY DEF IInv, PlanInv
<1>2. max_size \in Nat
  BY <1>1 DEF Memory, Regions
<1> QED BY <1>1, <1>2 DEF PlanGood, HeldOK, HeldRight, Safe

\* The cursor goes on.
LEMMA AdvanceFollows ==
  ASSUME CursorIn(graph, at), Advance
  PROVE  at' = Following(graph, at)
<1>1. at \in [tensor : 1 .. Len(graph) + 1, step : Nat \ {0}]
  BY DEF CursorIn
<1>2. at' = IF at.step = 2 * Len(Srcs) + 1 THEN [tensor |-> at.tensor + 1, step |-> 1]
            ELSE [at EXCEPT !.step = @ + 1]
  BY DEF Advance
<1>3. [at EXCEPT !.step = @ + 1] = [tensor |-> at.tensor, step |-> at.step + 1]
  BY <1>1
<1>4. Len(Srcs) = Width(graph, at.tensor)
  BY DEF Srcs, Width
<1> QED BY <1>2, <1>3, <1>4 DEF Following

\* A tensor lies in the memory it holds.
LEMMA PlaceInHeld ==
  ASSUME NEW g, WellBuilt(g), NEW f, NEW x \in DOMAIN g, NEW r,
         f[x] \in Nat, r = Region(f[x], Aligned(g[x].size)),
         NEW y \in Nat, In(y, PlaceOf(g, f, x))
  PROVE  In(y, r)
<1>1. g[x].size \in Nat
  BY GraphFacts
<1>2. Aligned(g[x].size) \in Nat /\ Aligned(g[x].size) >= g[x].size
  BY <1>1, AlignedIsNoLess
<1>3. f[x] <= y /\ y < f[x] + g[x].size
  BY DEF In, PlaceOf, Region, End
<1>4. y < f[x] + Aligned(g[x].size)
  BY <1>1, <1>2, <1>3
<1> QED BY <1>3, <1>4 DEF In, Region, End

\* A place of its own is no other tensor's.
LEMMA NewPlaceIsGood ==
  ASSUME IInv, phase = "plan", Planning, at.step = Width(graph, at.tensor) + 1,
         Own(graph[at.tensor]), PlaceNew(at.tensor), Memory'
  PROVE  PlanGood(graph, Following(graph, at), held', offset', n_children, n_views, max_size')
<1> DEFINE i == at.tensor
           size == graph[i].size
<1>1. /\ Memory /\ WellBuilt(graph) /\ max_size \in Nat
      /\ PlanGood(graph, at, held, offset, n_children, n_views, max_size)
      /\ CursorIn(graph, at) /\ offset \in [DOMAIN graph -> Nat]
      /\ \A x \in DOMAIN held : /\ x \in DOMAIN graph /\ Own(graph[x]) /\ Placed(graph, at, x)
                                /\ held[x] = Region(offset[x], Aligned(graph[x].size))
  BY PlanFacts
<1>2. i \in DOMAIN graph
  BY DEF Planning
<1>3. i \notin DOMAIN held
  BY <1>1, <1>2, PlacedFacts
<1>4. Alloc(i, size) /\ offset' = [offset EXCEPT ![i] = held'[i].offset]
  BY DEF PlaceNew
<1>5. PICK given : /\ held' = [u \in DOMAIN held \union {i} |-> IF u = i THEN given ELSE held[u]]
                   /\ \E o : given = Region(o, Aligned(size))
                   /\ max_size' = Highest(given)
  BY <1>4 DEF Alloc
<1>6. /\ DOMAIN held' = DOMAIN held \union {i} /\ held'[i] = given
      /\ \A x \in DOMAIN held : x # i /\ held'[x] = held[x]
  BY <1>3, <1>5
<1>7. given \in Block /\ End(given) <= max_size' /\ max_size' \in Nat
  <2>1. \A t \in DOMAIN held' : held'[t] \in Block /\ End(held'[t]) <= max_size'
    BY DEF Memory, Regions, End
  <2>2. max_size' \in Nat
    BY DEF Memory, Regions
  <2> QED BY <1>6, <2>1, <2>2
<1>8. given.offset \in Nat /\ given = Region(given.offset, Aligned(size))
  <2>1. PICK o : given = Region(o, Aligned(size))
    BY <1>5
  <2>2. given.offset = o
    BY <2>1 DEF Region
  <2> QED BY <1>7, <2>1, <2>2, BlockFacts
<1>9. max_size <= max_size'
  BY <1>1, <1>5, <1>7, HighestIsMax
<1>10. /\ offset' \in [DOMAIN graph -> Nat] /\ offset'[i] = given.offset
       /\ \A x \in DOMAIN graph : x # i => offset'[x] = offset[x]
  <2>1. offset' = [offset EXCEPT ![i] = given.offset]
    BY <1>4, <1>6
  <2> QED BY <1>1, <1>2, <1>8, <2>1
<1>11. offset'[i] + size <= max_size'
  <2>1. size \in Nat
    BY <1>1, <1>2, GraphFacts
  <2>2. Aligned(size) \in Nat /\ Aligned(size) >= size
    BY <2>1, AlignedIsNoLess
  <2>3. End(given) = given.offset + Aligned(size)
    BY <1>8 DEF End, Region
  <2> QED BY <1>7, <1>8, <1>10, <2>1, <2>2, <2>3
<1>12. ASSUME NEW x \in DOMAIN held, Share(graph, offset', x, i)
       PROVE  Apart(graph, offset', x, i)
  <2>1. PICK y \in Nat : In(y, PlaceOf(graph, offset', x)) /\ In(y, PlaceOf(graph, offset', i))
    BY <1>12 DEF Share
  <2>2. x \in DOMAIN graph /\ held'[x] = Region(offset'[x], Aligned(graph[x].size))
        /\ offset'[x] \in Nat
    BY <1>1, <1>6, <1>10
  <2>3. In(y, held'[x])
    BY <1>1, <2>1, <2>2, PlaceInHeld
  <2>4. held'[i] = Region(offset'[i], Aligned(graph[i].size)) /\ offset'[i] \in Nat
    BY <1>6, <1>8, <1>10
  <2>5. In(y, held'[i])
    BY <1>1, <1>2, <2>1, <2>4, PlaceInHeld
  <2>6. \A t, u \in DOMAIN held' : \A z \in Nat : In(z, held'[t]) /\ In(z, held'[u]) => t = u
    BY DEF Memory, HeldOnce, In, End
  <2>7. x = i
    BY <1>6, <2>3, <2>5, <2>6
  <2> QED BY <1>3, <2>7
<1>13. \A x \in DOMAIN held' : x = i \/ (x \in DOMAIN held /\ held'[x] = held[x])
  BY <1>6
<1>14. \A x \in DOMAIN held \ DOMAIN held' : FALSE
  BY <1>6
<1>15. held'[i] = Region(offset'[i], Aligned(size)) /\ i \in DOMAIN held'
  BY <1>6, <1>8, <1>10
<1> QED BY <1>1, <1>2, <1>7, <1>9, <1>10, <1>11, <1>12, <1>13, <1>14, <1>15, TensorPlaced

\* The place of a source may be shared with the source, and is no other tensor's.
LEMMA ReusedPlaceIsGood ==
  ASSUME IInv, phase = "plan", Planning, at.step = Width(graph, at.tensor) + 1,
         Own(graph[at.tensor]),
         NEW k \in DOMAIN graph[at.tensor].srcs, NEW p, p = graph[at.tensor].srcs[k],
         Reusable(at.tensor, p), PlaceOn(at.tensor, p)
  PROVE  PlanGood(graph, Following(graph, at), held', offset', n_children, n_views, max_size')
<1> DEFINE i == at.tensor
<1>1. /\ Memory /\ WellBuilt(graph) /\ max_size \in Nat
      /\ PlanGood(graph, at, held, offset, n_children, n_views, max_size)
      /\ CursorIn(graph, at) /\ offset \in [DOMAIN graph -> Nat]
      /\ \A x \in DOMAIN held : /\ x \in DOMAIN graph /\ Own(graph[x]) /\ Placed(graph, at, x)
                                /\ held[x] = Region(offset[x], Aligned(graph[x].size))
  BY PlanFacts
<1>2. i \in DOMAIN graph
  BY DEF Planning
<1>3. i \notin DOMAIN held
  BY <1>1, <1>2, PlacedFacts
<1>4. /\ graph[i].kind = "inplace" /\ p \in DOMAIN held /\ ~graph[p].output
      /\ graph[p].size = graph[i].size /\ n_children[p] = 1 /\ n_views[p] = 0
  BY DEF Reusable
<1>5. /\ held' = [u \in (DOMAIN held \ {p}) \union {i} |-> IF u = i THEN held[p] ELSE held[u]]
      /\ offset' = [offset EXCEPT ![i] = offset[p]] /\ max_size' = max_size
  BY DEF PlaceOn
<1>6. p \in DOMAIN graph /\ p # i /\ held[p] = Region(offset[p], Aligned(graph[i].size))
      /\ offset[p] \in Nat
  BY <1>1, <1>3, <1>4
<1>7. /\ DOMAIN held' = (DOMAIN held \ {p}) \union {i} /\ held'[i] = held[p]
      /\ \A x \in DOMAIN held \ {p} : held'[x] = held[x]
  BY <1>3, <1>5
<1>8. /\ offset' \in [DOMAIN graph -> Nat] /\ offset'[i] = offset[p]
      /\ \A x \in DOMAIN graph : x # i => offset'[x] = offset[x]
  BY <1>1, <1>2, <1>5, <1>6
<1>9. Spent(graph, p, i) /\ GoneRight(graph, Following(graph, at), p)
  BY <1>1, <1>2, <1>4, ReusableIsSpent
<1>10. offset'[i] + graph[i].size <= max_size'
  <2>1. Aligned(graph[i].size) \in Nat /\ Aligned(graph[i].size) >= graph[i].size
        /\ graph[i].size \in Nat
    BY <1>1, <1>2, GraphFacts, AlignedIsNoLess
  <2>2. End(held[p]) <= max_size
    BY <1>1, <1>4 DEF Memory, Regions
  <2>3. End(held[p]) = offset[p] + Aligned(graph[i].size)
    BY <1>6 DEF End, Region
  <2> QED BY <1>1, <1>5, <1>6, <1>8, <2>1, <2>2, <2>3
<1>11. PlaceOf(graph, offset', p) = PlaceOf(graph, offset', i)
  <2>1. offset'[p] = offset'[i]
    BY <1>6, <1>8
  <2> QED BY <1>4, <2>1 DEF PlaceOf
<1>12. ASSUME NEW x \in DOMAIN held, Share(graph, offset', x, i)
       PROVE  Apart(graph, offset', x, i)
  <2>1. PICK y \in Nat : In(y, PlaceOf(graph, offset', x)) /\ In(y, PlaceOf(graph, offset', i))
    BY <1>12 DEF Share
  <2>2. x \in DOMAIN graph /\ x # i /\ held[x] = Region(offset'[x], Aligned(graph[x].size))
        /\ offset'[x] \in Nat
    BY <1>1, <1>3, <1>8
  <2>3. In(y, held[x])
    BY <1>1, <2>1, <2>2, PlaceInHeld
  <2>4. held[p] = Region(offset'[i], Aligned(graph[i].size)) /\ offset'[i] \in Nat
    BY <1>6, <1>8
  <2>5. In(y, held[p])
    BY <1>1, <1>2, <2>1, <2>4, PlaceInHeld
  <2>6. x = p
    BY <1>1, <1>4, <2>3, <2>5 DEF Memory, HeldOnce
  <2> QED BY <1>4, <1>9, <1>11, <2>6 DEF Apart
<1>13. \A x \in DOMAIN held' : x = i \/ (x \in DOMAIN held /\ held'[x] = held[x])
  BY <1>7
<1>14. \A x \in DOMAIN held \ DOMAIN held' : GoneRight(graph, Following(graph, at), x)
  BY <1>7, <1>9
<1>15. held'[i] = Region(offset'[i], Aligned(graph[i].size)) /\ i \in DOMAIN held'
  BY <1>6, <1>7, <1>8
<1>16. max_size' \in Nat /\ max_size' >= max_size
  BY <1>1, <1>5
<1> QED BY <1>1, <1>2, <1>8, <1>10, <1>12, <1>13, <1>14, <1>15, <1>16, TensorPlaced

-----------------------------------------------------------------------------
\* A client builds graphs of this form.
LEMMA AddLeafBuilds ==
  ASSUME WellBuilt(graph), AddLeaf
  PROVE  WellBuilt(graph')
<1>1. PICK kind \in {"leaf", "weight"}, size \in Sizes : Add(Tensor(kind, << >>, size, FALSE, 0))
  BY DEF AddLeaf
<1> DEFINE t == Tensor(kind, << >>, size, FALSE, 0)
<1>2. t \in TensorType /\ t.srcs = << >> /\ t.root = 0 /\ IsLeaf(t) /\ ~IsView(t)
  BY DEF Tensor, TensorType, SourceLists, Kinds, IsLeaf, IsView
<1>3. graph' = Append(graph, t)
  BY <1>1 DEF Add
<1> HIDE DEF t
<1>4. graph \in Seq(TensorType) /\ Len(graph) \in Nat /\ DOMAIN graph = 1 .. Len(graph)
  BY GraphFacts DEF WellBuilt
<1>5. \A j \in DOMAIN graph : IsLeaf(graph[j])
  BY DEF AddLeaf, Nodes, Leafs
<1> DEFINE e == Append(graph, t)
<1>6. e[Len(graph) + 1] = t /\ \A j \in 1 .. Len(graph) : e[j] = graph[j]
  BY <1>2, <1>4
<1> HIDE DEF e
<1>7. \A j \in 1 .. Len(graph) + 1 : IsLeaf(e[j])
  BY <1>2, <1>4, <1>5, <1>6
<1>8. BuiltAt(e, Len(graph) + 1)
  BY <1>2, <1>6, <1>7 DEF BuiltAt
<1> QED BY <1>2, <1>3, <1>8, AddKeepsBuilt DEF e

LEMMA AddNodeBuilds ==
  ASSUME WellBuilt(graph), AddNode
  PROVE  WellBuilt(graph')
<1>1. PICK kind \in {"op", "inplace"}, srcs \in Sources, size \in Sizes, out \in BOOLEAN :
         Add(Tensor(kind, srcs, size, out, 0))
  BY DEF AddNode
<1> DEFINE t == Tensor(kind, srcs, size, out, 0)
<1>2. graph \in Seq(TensorType) /\ Len(graph) \in Nat /\ DOMAIN graph = 1 .. Len(graph)
  BY GraphFacts DEF WellBuilt
<1>3. PICK n \in 1 .. 2 : srcs \in [1 .. n -> DOMAIN graph]
  BY DEF Sources
<1>4. srcs \in SourceLists
  <2>1. DOMAIN graph \subseteq Nat
    BY <1>2
  <2>2. srcs \in [1 .. n -> Nat]
    BY <1>3, <2>1
  <2> QED BY <2>2 DEF SourceLists
<1>5. t \in TensorType /\ t.srcs = srcs /\ t.root = 0 /\ ~IsLeaf(t) /\ ~IsView(t)
  BY <1>4 DEF Tensor, TensorType, Kinds, IsLeaf, IsView
<1>6. graph' = Append(graph, t)
  BY <1>1 DEF Add
<1> HIDE DEF t
<1> DEFINE e == Append(graph, t)
<1>7. e[Len(graph) + 1] = t
  BY <1>2, <1>5
<1> HIDE DEF e
<1>8. srcs \in [1 .. n -> 1 .. (Len(graph) + 1) - 1]
  <2>1. (Len(graph) + 1) - 1 = Len(graph)
    BY <1>2
  <2> QED BY <1>2, <1>3, <2>1
<1>9. BuiltAt(e, Len(graph) + 1)
  BY <1>5, <1>7, <1>8 DEF BuiltAt
<1> QED BY <1>5, <1>6, <1>9, AddKeepsBuilt DEF e

LEMMA AddViewBuilds ==
  ASSUME WellBuilt(graph), AddView
  PROVE  WellBuilt(graph')
<1>1. PICK s \in DOMAIN graph :
         Add(Tensor("view", <<s>>, graph[s].size, FALSE, IF IsView(graph[s]) THEN graph[s].root ELSE s))
  BY DEF AddView
<1>2. PICK r : r = IF IsView(graph[s]) THEN graph[s].root ELSE s
  OBVIOUS
<1> DEFINE t == Tensor("view", <<s>>, graph[s].size, FALSE, r)
           n == Len(graph)
<1>3. /\ graph \in Seq(TensorType) /\ n \in Nat /\ DOMAIN graph = 1 .. n
      /\ s \in 1 .. n /\ s \in Nat /\ graph[s].size \in Sizes /\ BuiltAt(graph, s)
  BY GraphFacts DEF WellBuilt
<1>4. r \in 1 .. n /\ r \in Nat /\ ~IsView(graph[r])
  <2>1. CASE IsView(graph[s])
    <3>1. graph[s].root \in 1 .. s - 1 /\ ~IsView(graph[graph[s].root])
      BY <1>3, <2>1 DEF BuiltAt
    <3> QED BY <1>2, <1>3, <2>1, <3>1
  <2>2. CASE ~IsView(graph[s])
    BY <1>2, <1>3, <2>2
  <2> QED BY <2>1, <2>2
<1>5. <<s>> \in [1 .. 1 -> 1 .. n] /\ <<s>>[1] = s /\ DOMAIN <<s>> = {1}
  BY <1>3
<1>6. <<s>> \in SourceLists
  <2>1. <<s>> \in [1 .. 1 -> Nat]
    BY <1>3
  <2> QED BY <2>1 DEF SourceLists
<1>7. t \in TensorType /\ t.srcs = <<s>> /\ t.root = r /\ IsView(t) /\ ~IsLeaf(t)
  BY <1>3, <1>4, <1>6 DEF Tensor, TensorType, Kinds, IsLeaf, IsView
<1>8. graph' = Append(graph, t)
  BY <1>1, <1>2 DEF Add
<1> HIDE DEF t
<1> DEFINE e == Append(graph, t)
<1>9. e[n + 1] = t /\ DOMAIN e = 1 .. n + 1 /\ \A j \in 1 .. n : e[j] = graph[j]
  BY <1>3, <1>7
<1>10. \A x : Uses(graph, x) \subseteq Uses(e, x)
  BY <1>7, UsesGrow
<1> HIDE DEF e
<1>11. Uses(e, r) # {}
  <2>1. CASE IsView(graph[s])
    <3>1. Uses(graph, graph[s].root) # {}
      BY <1>3, <2>1 DEF BuiltAt
    <3> QED BY <1>2, <1>10, <2>1, <3>1
  <2>2. CASE ~IsView(graph[s])
    <3>1. n + 1 \in DOMAIN e
      BY <1>3, <1>9
    <3>2. n + 1 \in Nodes(e)
      BY <1>7, <1>9, <3>1 DEF Nodes, Leafs
    <3>3. <<n + 1, 1>> \in Nodes(e) \X {1, 2} /\ <<n + 1, 1>>[1] = n + 1 /\ <<n + 1, 1>>[2] = 1
      BY <3>2
    <3>4. 1 \in DOMAIN e[n + 1].srcs /\ e[n + 1].srcs[1] = s
      BY <1>5, <1>7, <1>9
    <3>5. <<n + 1, 1>> \in Uses(e, s)
      BY <3>3, <3>4 DEF Uses
    <3> QED BY <1>2, <2>2, <3>5
  <2> QED BY <2>1, <2>2
<1>12. (n + 1) - 1 = n
  BY <1>3
<1>13. t.srcs \in [1 .. 1 -> 1 .. (n + 1) - 1] /\ r \in 1 .. (n + 1) - 1
  BY <1>4, <1>5, <1>7, <1>12
<1>14. ~IsView(e[r])
  BY <1>4, <1>9
<1>15. BuiltAt(e, n + 1)
  <2>1. \E q \in 1 .. 2 : t.srcs \in [1 .. q -> 1 .. (n + 1) - 1]
    BY <1>13
  <2> QED BY <1>7, <1>9, <1>11, <1>13, <1>14, <2>1 DEF BuiltAt
<1> QED BY <1>7, <1>8, <1>15, AddKeepsBuilt DEF e

\* No graph is one.
LEMMA EmptyIsBuilt == WellBuilt(<< >>)
BY DEF WellBuilt
-----------------------------------------------------------------------------
\* The steps that plan: what they do to the plan, as far as anything is placed.
LEMMA SourceStep ==
  ASSUME IInv, PlaceSource
  PROVE  PlanInv' /\ UNCHANGED <<allocator, graph, phase, plan, buffer>>
<1> DEFINE s == graph[at.tensor].srcs[at.step]
<1>1. phase = "plan" /\ at.tensor \in DOMAIN graph /\ at.step \in DOMAIN graph[at.tensor].srcs
  BY DEF PlaceSource, Planning, Srcs
<1>2. /\ WellBuilt(graph) /\ CursorIn(graph, at)
      /\ PlanGood(graph, at, held, offset, n_children, n_views, max_size)
  BY <1>1, PlanFacts
<1>3. /\ ~Own(graph[s]) \/ s \in DOMAIN held
      /\ PlanGood(graph, Following(graph, at), held, offset, n_children, n_views, max_size)
  BY <1>1, <1>2, SourceHasPlace
<1>4. Place(s) /\ Advance
  BY DEF PlaceSource, Srcs
<1>5. UNCHANGED <<allocator, offset, graph, phase, n_children, n_views, plan, buffer>>
  BY <1>3, <1>4 DEF Place
<1>6. at' = Following(graph, at)
  BY <1>2, <1>4, AdvanceFollows
<1> QED BY <1>3, <1>5, <1>6 DEF PlanInv, allocator

\* The first source that can be reused is one.
LEMMA FirstIsReusable ==
  ASSUME WellBuilt(graph), NEW i \in DOMAIN graph,
         NEW C, C = {k \in DOMAIN graph[i].srcs : Reusable(i, graph[i].srcs[k])}, C # {}
  PROVE  Min(C) \in DOMAIN graph[i].srcs /\ Reusable(i, graph[i].srcs[Min(C)])
<1>1. DOMAIN graph[i].srcs = 1 .. Width(graph, i) /\ Width(graph, i) \in 0 .. 2
  BY GraphFacts
<1>2. C \in SUBSET Nat
  BY <1>1
<1>3. Min(C) \in C
  BY <1>2, MinOfNaturals
<1> QED BY <1>3

LEMMA TensorStep ==
  ASSUME IInv, PlaceTensor, max_size < SizeMax, max_size' < SizeMax
  PROVE  /\ PlanInv' /\ UNCHANGED <<graph, phase, plan, buffer>>
         /\ Memory' /\ (0 \notin Sizes => Tidy')
<1> DEFINE i == at.tensor
           C == {k \in DOMAIN graph[i].srcs : Reusable(i, graph[i].srcs[k])}
<1>1. phase = "plan" /\ Planning /\ i \in DOMAIN graph /\ at.step = Width(graph, i) + 1
      /\ Place(i) /\ Advance
  BY DEF PlaceTensor, Planning, Srcs, Width
<1>2. /\ Memory /\ WellBuilt(graph) /\ CursorIn(graph, at) /\ max_size \in Nat
      /\ PlanGood(graph, at, held, offset, n_children, n_views, max_size)
      /\ offset \in [DOMAIN graph -> Nat] /\ (0 \notin Sizes => Tidy)
      /\ \A x \in DOMAIN held : Placed(graph, at, x)
  BY <1>1, PlanFacts DEF IInv
<1>3. i \notin DOMAIN held
  BY <1>1, <1>2, PlacedFacts
<1>4. /\ UNCHANGED <<graph, phase, n_children, n_views, plan, buffer>>
      /\ ~Own(graph[i]) => UNCHANGED <<allocator, offset>>
      /\ Own(graph[i]) /\ C # {} => PlaceOn(i, graph[i].srcs[Min(C)])
      /\ Own(graph[i]) /\ C = {} => PlaceNew(i)
  BY <1>1, <1>3 DEF Place
<1>5. at' = Following(graph, at)
  BY <1>1, <1>2, AdvanceFollows
<1>6. SUFFICES /\ PlanGood(graph, Following(graph, at), held', offset', n_children, n_views, max_size')
               /\ Memory' /\ (0 \notin Sizes => Tidy')
  BY <1>4, <1>5 DEF PlanInv
<1>7. CASE ~Own(graph[i])
  <2>1. held' = held /\ offset' = offset /\ max_size' = max_size /\ UNCHANGED allocator
    BY <1>4, <1>7 DEF allocator
  <2>2. Memory' /\ (Tidy => Tidy')
    BY <1>2, <2>1, SameMemory
  <2>3. PlanGood(graph, Following(graph, at), held, offset, n_children, n_views, max_size)
    BY <1>1, <1>2, <1>7, TensorPlaced
  <2> QED BY <1>2, <2>1, <2>2, <2>3
<1>8. CASE Own(graph[i]) /\ C # {}
  <2>1. PICK k : k = Min(C)
    OBVIOUS
  <2>2. k \in DOMAIN graph[i].srcs /\ Reusable(i, graph[i].srcs[k]) /\ PlaceOn(i, graph[i].srcs[k])
    BY <1>1, <1>2, <1>4, <1>8, <2>1, FirstIsReusable
  <2>3. graph[i].srcs[k] \in DOMAIN held
    BY <2>2 DEF Reusable
  <2>4. Memory' /\ (Tidy => Tidy')
    BY <1>2, <1>3, <2>2, <2>3, PlaceOnKeepsMemory
  <2>5. PlanGood(graph, Following(graph, at), held', offset', n_children, n_views, max_size')
    BY <1>1, <1>8, <2>2, ReusedPlaceIsGood
  <2> QED BY <1>2, <2>4, <2>5
<1>9. CASE Own(graph[i]) /\ C = {}
  <2>1. PlaceNew(i) /\ Alloc(i, graph[i].size)
    BY <1>4, <1>9 DEF PlaceNew
  <2>2. graph[i].size \in Nat /\ graph[i].size \in Sizes
    BY <1>1, <1>2, GraphFacts
  <2>3. Memory' /\ (Tidy /\ graph[i].size > 0 => Tidy')
    BY <1>2, <1>3, <2>1, <2>2, AllocKeepsMemory
  <2>4. 0 \notin Sizes => graph[i].size > 0
    BY <2>2
  <2>5. PlanGood(graph, Following(graph, at), held', offset', n_children, n_views, max_size')
    BY <1>1, <1>9, <2>1, <2>3, NewPlaceIsGood
  <2> QED BY <1>2, <2>3, <2>4, <2>5
<1> QED BY <1>7, <1>8, <1>9

LEMMA ReadStep ==
  ASSUME IInv, ReadSource, max_size < SizeMax
  PROVE  /\ PlanInv' /\ UNCHANGED <<graph, phase, plan, buffer>>
         /\ Memory' /\ (0 \notin Sizes => Tidy')
<1> DEFINE k == at.step - Width(graph, at.tensor) - 1
           p == graph[at.tensor].srcs[k]
<1>1. phase = "plan" /\ at.tensor \in DOMAIN graph /\ at.step > Width(graph, at.tensor) + 1
      /\ Read(p) /\ Advance
  BY DEF ReadSource, Planning, Srcs, Width
<1>2. /\ Memory /\ WellBuilt(graph) /\ CursorIn(graph, at) /\ max_size \in Nat
      /\ PlanGood(graph, at, held, offset, n_children, n_views, max_size)
      /\ (0 \notin Sizes => Tidy)
  BY <1>1, PlanFacts DEF IInv
<1>3. at' = Following(graph, at)
  BY <1>1, <1>2, AdvanceFollows
<1>4. IsReading(graph, at, k, p)
  BY <1>1 DEF IsReading
<1>14. p \in DOMAIN graph
  BY <1>1, <1>2, LeftShrinks
<1> HIDE DEF p
<1> DEFINE o == OwnerOf(graph, p)
<1>5. n_children' = [n_children EXCEPT ![p] = @ - 1]
  BY <1>1 DEF Read
<1>6. n_views' = IF (n_children'[p] = 0 /\ n_views[p] = 0) /\ IsView(graph[p])
                 THEN [n_views EXCEPT ![graph[p].root] = @ - 1] ELSE n_views
  BY <1>1, <1>5 DEF Read
<1>7. CountsRead(graph, p, n_children, n_views, n_children', n_views')
  BY <1>5, <1>6 DEF CountsRead
<1>8. /\ UNCHANGED <<graph, phase, offset, plan, buffer>>
      /\ IF /\ n_children'[p] = 0 /\ n_views[p] = 0 /\ n_children'[o] = 0 /\ n_views'[o] = 0
            /\ o \in DOMAIN held
         THEN FreeNode(o) ELSE UNCHANGED allocator
  BY <1>1, <1>5, <1>6 DEF Read, OwnerOf
<1>9. IF Frees(graph, p, held, n_views, n_children', n_views') THEN Release(o) ELSE UNCHANGED allocator
  BY <1>8 DEF Frees, FreeNode
<1>10. SUFFICES /\ PlanGood(graph, Following(graph, at), held', offset, n_children', n_views', max_size')
                /\ Memory' /\ (0 \notin Sizes => Tidy')
  BY <1>3, <1>8 DEF PlanInv
<1>11. CASE Frees(graph, p, held, n_views, n_children', n_views')
  <2>1. Release(o) /\ o \in DOMAIN held
    BY <1>9, <1>11 DEF Frees
  <2>2. held' = [u \in DOMAIN held \ {o} |-> held[u]] /\ max_size' = max_size
    BY <2>1 DEF Release
  <2>3. DOMAIN held' = DOMAIN held \ {o} /\ \A x \in DOMAIN held' : held'[x] = held[x]
    BY <2>2
  <2>4. HeldAfter(graph, p, held, Frees(graph, p, held, n_views, n_children', n_views'), held')
    BY <1>11, <2>3 DEF HeldAfter
  <2>5. PlanGood(graph, Following(graph, at), held', offset, n_children', n_views', max_size)
    BY <1>2, <1>4, <1>7, <2>4, SourceIsRead
  <2>6. Memory' /\ (Tidy => Tidy')
    BY <1>2, <2>1, ReleaseKeepsMemory
  <2> QED BY <1>2, <2>2, <2>5, <2>6
<1>12. CASE ~Frees(graph, p, held, n_views, n_children', n_views')
  <2>1. UNCHANGED allocator /\ held' = held /\ max_size' = max_size
    BY <1>9, <1>12 DEF allocator
  <2>2. HeldAfter(graph, p, held, Frees(graph, p, held, n_views, n_children', n_views'), held')
    BY <1>12, <2>1 DEF HeldAfter
  <2>3. PlanGood(graph, Following(graph, at), held', offset, n_children', n_views', max_size)
    BY <1>2, <1>4, <1>7, <2>2, SourceIsRead
  <2>4. Memory' /\ (Tidy => Tidy')
    BY <1>2, <2>1, SameMemory
  <2> QED BY <1>2, <2>1, <2>3, <2>4
<1> QED BY <1>11, <1>12

-----------------------------------------------------------------------------
\* The invariant holds in the beginning.
LEMMA InitIInv == Init => IInv
<1> SUFFICES ASSUME Init PROVE IInv
  OBVIOUS
<1>1. /\ InitAllocator /\ graph = << >> /\ phase = "build" /\ plan = NoPlan /\ buffer = NoBuffer
  BY DEF Init
<1>2. plan.of = << >> /\ plan.offset = << >> /\ DOMAIN plan.of = {}
  BY <1>1 DEF NoPlan
<1>3. plan.offset \in [DOMAIN plan.of -> Nat]
  BY <1>2
<1>4. Safe(plan.of, plan.offset, 0, DOMAIN plan.of) /\ 0 \in Nat
  BY <1>2, <1>3 DEF Safe
<1>5. NotedInv
  BY <1>1, <1>2, <1>4, EmptyIsBuilt DEF NotedInv
<1> QED BY <1>1, <1>5, InitMemory, EmptyIsBuilt DEF IInv, PlanInv, SettledInv, Settled

\* A step that changes neither the allocator nor the plan under way.
LEMMA QuietStep ==
  ASSUME IInv, UNCHANGED allocator, WellBuilt(graph'), phase' \in {"build", "plan"} \cup Settled,
         PlanInv', NotedInv', SettledInv'
  PROVE  IInv'
BY SameMemory DEF IInv, Settled

LEMMA BuildStep ==
  ASSUME IInv, AddLeaf \/ AddNode \/ AddView
  PROVE  IInv' /\ phase' = "build"
<1>1. PICK t : Add(t)
  <2>1. CASE AddLeaf
    BY <2>1 DEF AddLeaf
  <2>2. CASE AddNode
    BY <2>2 DEF AddNode
  <2>3. CASE AddView
    BY <2>3 DEF AddView
  <2> QED BY <2>1, <2>2, <2>3
<1>2. phase = "build" /\ UNCHANGED <<allocator, phase, plan, buffer>>
  BY <1>1 DEF Add
<1>3. WellBuilt(graph')
  BY AddLeafBuilds, AddNodeBuilds, AddViewBuilds DEF IInv
<1>4. PlanInv' /\ phase' = "build"
  BY <1>2 DEF PlanInv
<1>5. NotedInv' /\ SettledInv'
  BY <1>2 DEF IInv, NotedInv, SettledInv, Settled
<1> QED BY <1>2, <1>3, <1>4, <1>5, QuietStep

LEMMA ReserveStep ==
  ASSUME IInv, Reserve
  PROVE  IInv' /\ phase' = "plan"
<1>1. /\ ResetAllocator /\ at' = Start /\ phase' = "plan"
      /\ n_children' = [i \in DOMAIN graph |-> Cardinality(Uses(graph, i))]
      /\ n_views' = [i \in DOMAIN graph |-> Cardinality(Views(graph, i))]
      /\ offset' = [i \in DOMAIN graph |-> 0]
      /\ graph' = graph /\ plan' = plan /\ buffer' = buffer
  BY DEF Reserve
<1>2. held' = << >> /\ DOMAIN held' = {}
  BY <1>1 DEF ResetAllocator
<1>3. WellBuilt(graph)
  BY DEF IInv
<1>4. PlanGood(graph, Start, held', [i \in DOMAIN graph |-> 0],
               [i \in DOMAIN graph |-> Cardinality(Uses(graph, i))],
               [i \in DOMAIN graph |-> Cardinality(Views(graph, i))], max_size')
  BY <1>2, <1>3, PlanStarts
<1>5. PlanInv'
  BY <1>1, <1>4 DEF PlanInv
<1>6. NotedInv' /\ SettledInv'
  BY <1>1 DEF IInv, NotedInv, SettledInv, Settled
<1> QED BY <1>1, <1>3, <1>5, <1>6, ResetMemory DEF IInv

\* A graph fits the plan that was made for it.
LEMMA FitsItself ==
  ASSUME NEW g, WellBuilt(g), NEW i \in DOMAIN g
  PROVE  Fits(g[i], g[i]) /\ \A k \in DOMAIN g[i].srcs : g[i].srcs[k] \in DOMAIN g
BY GraphFacts DEF Fits

LEMMA FinishStep ==
  ASSUME IInv, Finish
  PROVE  IInv'
<1>1. /\ phase = "plan" /\ at.tensor > Len(graph) /\ plan' = [of |-> graph, offset |-> offset]
      /\ phase' \in {"reserved", "failed"} /\ UNCHANGED <<allocator, graph>>
      /\ buffer' = Max({buffer, max_size}) \/ buffer' = NoBuffer
  BY DEF Finish
<1>2. /\ WellBuilt(graph) /\ max_size \in Nat
      /\ PlanGood(graph, at, held, offset, n_children, n_views, max_size)
  BY <1>1, PlanFacts
<1>3. Safe(graph, offset, max_size, DOMAIN graph)
  BY <1>1, <1>2, PlanEnds
<1>4. buffer' \in Nat \cup {NoBuffer} /\ (buffer' # NoBuffer => max_size <= buffer')
  <2>1. buffer \in Nat \cup {NoBuffer}
    BY DEF IInv, NotedInv
  <2>2. CASE buffer' = NoBuffer
    BY <2>2
  <2>3. CASE buffer' = Max({buffer, max_size})
    <3>1. CASE buffer = NoBuffer
      <4>1. {buffer, max_size} = {-1, max_size}
        BY <3>1 DEF NoBuffer
      <4>2. Max({-1, max_size}) = max_size
        BY <1>2 DEF Max
      <4> QED BY <1>2, <2>3, <4>1, <4>2
    <3>2. CASE buffer \in Nat
      <4> DEFINE S == {buffer, max_size}
      <4>1. S \in SUBSET (0 .. buffer + max_size) /\ S # {} /\ buffer + max_size \in Nat
        BY <1>2, <3>2
      <4>2. Max(S) \in S /\ \A y \in S : y <= Max(S)
        <5> HIDE DEF S
        <5> QED BY <4>1, MaxOfBounded
      <4> QED BY <1>2, <2>3, <3>2, <4>2
    <3> QED BY <2>1, <3>1, <3>2
  <2> QED BY <1>1, <2>2, <2>3
<1>5. plan'.of = graph /\ plan'.offset = offset
  BY <1>1
<1>6. NotedInv'
  BY <1>2, <1>3, <1>4, <1>5 DEF NotedInv, NoBuffer
<1>7. PlanFits(graph)'
  <2>1. \A i \in DOMAIN graph : /\ Fits(graph[i], graph[i])
                               /\ \A k \in DOMAIN graph[i].srcs : graph[i].srcs[k] \in DOMAIN graph
    BY <1>2, FitsItself
  <2> QED BY <1>1, <1>5, <2>1 DEF PlanFits, Nodes
<1>8. SettledInv'
  BY <1>1, <1>2, <1>5, <1>7 DEF SettledInv
<1>9. PlanInv'
  BY <1>1 DEF PlanInv
<1> QED BY <1>1, <1>2, <1>6, <1>8, <1>9, QuietStep DEF Settled

\* The tensors are placed, or an assertion fails for one of them.
LEMMA AllocGraphStep ==
  ASSUME IInv, AllocGraph
  PROVE  IInv'
<1>1. /\ UNCHANGED <<allocator, graph, plan, buffer>> /\ phase' \in {"placed", "aborted"}
      /\ phase' = "aborted" => \E i \in DOMAIN graph : Own(graph[i]) /\ ~InBuffer(i)
      /\ (phase = "build" /\ PlanFits(graph)) \/ phase \in {"reserved", "failed"}
  BY DEF AllocGraph
<1>2. PlanFits(graph) /\ WellBuilt(graph)
  BY <1>1 DEF IInv, SettledInv, Settled
<1>3. PlanInv' /\ NotedInv'
  BY <1>1 DEF IInv, PlanInv, NotedInv
<1>4. PlanFits(graph)'
  BY <1>1, <1>2 DEF PlanFits
<1>5. (\E i \in DOMAIN graph : Own(graph[i]) /\ ~InBuffer(i))
        => (\E i \in DOMAIN graph : Own(graph[i]) /\ ~InBuffer(i))'
  BY <1>1 DEF InBuffer, At
<1>6. SettledInv'
  BY <1>1, <1>4, <1>5 DEF SettledInv
<1> QED BY <1>1, <1>2, <1>3, <1>6, QuietStep DEF Settled

\* Every step keeps the invariant.
LEMMA NextIInv ==
  ASSUME IInv, [Next]_vars, max_size < SizeMax, max_size' < SizeMax
  PROVE  IInv'
<1>0. WellBuilt(graph) /\ phase \in {"build", "plan"} \cup Settled
      /\ NotedInv /\ PlanInv /\ SettledInv /\ Memory /\ (0 \notin Sizes => Tidy)
  BY DEF IInv
<1>1. CASE AddLeaf \/ AddNode \/ AddView
  BY <1>1, BuildStep
<1>2. CASE Reserve
  BY <1>2, ReserveStep
<1>3. CASE Finish
  BY <1>3, FinishStep
<1>4. CASE AllocGraph
  BY <1>4, AllocGraphStep
<1>5. CASE NextGraph
  <2>1. phase' = "build" /\ graph' = << >> /\ UNCHANGED <<allocator, plan, buffer>>
    BY <1>5 DEF NextGraph
  <2>2. PlanInv' /\ NotedInv' /\ SettledInv'
    BY <1>0, <2>1 DEF PlanInv, NotedInv, SettledInv, Settled
  <2> QED BY <1>0, <2>1, <2>2, EmptyIsBuilt, QuietStep
<1>6. CASE PlaceSource
  <2>1. PlanInv' /\ UNCHANGED <<allocator, graph, phase, plan, buffer>>
    BY <1>6, SourceStep
  <2>2. NotedInv' /\ SettledInv'
    <3>1. phase = "plan"
      BY <1>6 DEF PlaceSource, Planning
    <3> QED BY <1>0, <2>1, <3>1 DEF NotedInv, SettledInv, Settled
  <2> QED BY <1>0, <2>1, <2>2, QuietStep
<1>7. CASE PlaceTensor \/ ReadSource
  <2>1. /\ PlanInv' /\ UNCHANGED <<graph, phase, plan, buffer>>
        /\ Memory' /\ (0 \notin Sizes => Tidy')
    BY <1>7, TensorStep, ReadStep
  <2>2. NotedInv' /\ SettledInv'
    <3>1. phase = "plan"
      BY <1>7 DEF PlaceTensor, ReadSource, Planning
    <3> QED BY <1>0, <2>1, <3>1 DEF NotedInv, SettledInv, Settled
  <2> QED BY <1>0, <2>1, <2>2 DEF IInv
<1>8. CASE UNCHANGED vars
  <2>1. UNCHANGED <<allocator, graph, phase, at, n_children, n_views, offset, plan, buffer>>
    BY <1>8 DEF vars
  <2>2. PlanInv' /\ NotedInv'
    BY <1>0, <2>1 DEF PlanInv, NotedInv, allocator
  <2>3. SettledInv'
    BY <1>0, <2>1 DEF SettledInv, PlanFits, InBuffer, At
  <2> QED BY <1>0, <2>1, <2>2, <2>3, QuietStep
<1> QED BY <1>1, <1>2, <1>3, <1>4, <1>5, <1>6, <1>7, <1>8 DEF Next
-----------------------------------------------------------------------------
\* As many nodes and leafs are as many tensors.
LEMMA SameDomain ==
  ASSUME WellBuilt(graph), WellBuilt(plan.of), PlanFits(graph)
  PROVE  DOMAIN graph = DOMAIN plan.of
<1> DEFINE g == graph
           h == plan.of
<1>1. /\ Cardinality(Nodes(g)) = Cardinality(Nodes(h)) /\ Cardinality(Leafs(g)) = Cardinality(Leafs(h))
  BY DEF PlanFits
<1>2. /\ Len(g) \in Nat /\ DOMAIN g = 1 .. Len(g) /\ Len(h) \in Nat /\ DOMAIN h = 1 .. Len(h)
  BY GraphFacts
<1>3. DOMAIN g = DOMAIN h
  <2>1. ASSUME NEW e, WellBuilt(e)
        PROVE  Cardinality(Nodes(e)) + Cardinality(Leafs(e)) = Len(e)
    <3>1. Len(e) \in Nat /\ DOMAIN e = 1 .. Len(e) /\ Len(e) \in Int /\ 1 \in Int
      BY <2>1, GraphFacts
    <3>2. IsFiniteSet(1 .. Len(e)) /\ Cardinality(1 .. Len(e)) = Len(e)
      <4>1. IsFiniteSet(1 .. Len(e)) /\ Cardinality(1 .. Len(e)) = IF 1 > Len(e) THEN 0 ELSE Len(e) - 1 + 1
        BY <3>1, FS_Interval
      <4> QED BY <3>1, <4>1
    <3>3. Nodes(e) \subseteq DOMAIN e /\ Leafs(e) \subseteq DOMAIN e
          /\ Nodes(e) \cup Leafs(e) = DOMAIN e /\ Nodes(e) \cap Leafs(e) = {}
      BY DEF Nodes, Leafs
    <3>4. IsFiniteSet(Nodes(e)) /\ IsFiniteSet(Leafs(e))
      BY <3>1, <3>2, <3>3, FS_Subset
    <3>5. Cardinality(Nodes(e) \cup Leafs(e))
            = Cardinality(Nodes(e)) + Cardinality(Leafs(e)) - Cardinality(Nodes(e) \cap Leafs(e))
      BY <3>4, FS_Union
    <3>6. Cardinality(Nodes(e) \cap Leafs(e)) = 0
      BY <3>3, FS_EmptySet
    <3>7. Cardinality(Nodes(e)) \in Nat /\ Cardinality(Leafs(e)) \in Nat
      BY <3>4, FS_CardinalityType
    <3>8. Cardinality(Nodes(e) \cup Leafs(e)) = Len(e)
      BY <3>1, <3>2, <3>3
    <3> QED BY <3>5, <3>6, <3>7, <3>8
  <2>2. Len(g) = Len(h)
    BY <1>1, <2>1
  <2> QED BY <1>2, <2>2
<1> QED BY <1>3

\* A graph that fits a plan made for its structure has no tensor that is larger there:
\* a node was compared, and of a leaf it is part of Planned.
LEMMA FittingIsSmaller ==
  ASSUME WellBuilt(graph), WellBuilt(plan.of), PlanFits(graph), Planned
  PROVE  Smaller(graph, plan.of)
<1> DEFINE g == graph
           h == plan.of
<1>1. /\ Cardinality(Nodes(g)) = Cardinality(Nodes(h)) /\ Cardinality(Leafs(g)) = Cardinality(Leafs(h))
      /\ \A i \in Nodes(g) : Fits(g[i], h[i])
  BY DEF PlanFits
<1>2. /\ Len(g) \in Nat /\ DOMAIN g = 1 .. Len(g) /\ Len(h) \in Nat /\ DOMAIN h = 1 .. Len(h)
  BY GraphFacts
<1>3. DOMAIN g = DOMAIN h
  BY SameDomain
<1>4. ASSUME NEW i \in DOMAIN g, Own(g[i]) PROVE g[i].size <= h[i].size
  <2>1. CASE i \in Nodes(g)
    BY <1>1, <1>4, <2>1 DEF Fits
  <2>2. CASE i \in Leafs(g)
    BY <1>4, <2>2 DEF Planned, LeafsWithin
  <2> QED BY <2>1, <2>2 DEF Nodes
<1>5. \A i, j \in DOMAIN g : IsReader(g, j, i) <=> Reads(j, i)
  BY DEF IsReader, Reads
<1>6. \A i \in DOMAIN g : [h[i] EXCEPT !.size = g[i].size] = g[i]
  BY DEF Planned
<1>7. \A i, j \in DOMAIN g :
         g[j].kind = "inplace" /\ IsReader(g, j, i) /\ h[i].size = h[j].size
             => g[i].size = g[j].size
  BY <1>5 DEF Planned
<1> QED BY <1>3, <1>4, <1>6, <1>7 DEF Smaller
-----------------------------------------------------------------------------
\* Addresses in two tensors that overlap.
LEMMA OverlapShares ==
  ASSUME NEW o1 \in Nat, NEW s1 \in Nat, NEW o2 \in Nat, NEW s2 \in Nat,
         Overlap(Region(o1, s1), Region(o2, s2))
  PROVE  \E x \in Nat : In(x, Region(o1, s1)) /\ In(x, Region(o2, s2))
<1> DEFINE S == {o1, o2}
           E == {o1 + s1, o2 + s2}
<1>1. S \in SUBSET (0 .. o1 + o2) /\ S # {} /\ o1 + o2 \in Nat
  OBVIOUS
<1>2. Max(S) \in S /\ \A y \in S : y <= Max(S)
  <2> HIDE DEF S
  <2> QED BY <1>1, MaxOfBounded
<1>3. E \in SUBSET Nat /\ E # {}
  OBVIOUS
<1>4. Min(E) \in E /\ \A y \in E : Min(E) <= y
  <2> HIDE DEF E
  <2> QED BY <1>3, MinOfNaturals
<1>5. Max(S) < Min(E)
  BY DEF Overlap, Region, End
<1>6. Max(S) \in Nat /\ o1 <= Max(S) /\ o2 <= Max(S)
  BY <1>2
<1>7. Min(E) <= o1 + s1 /\ Min(E) <= o2 + s2 /\ Min(E) \in Nat
  BY <1>3, <1>4
<1> DEFINE x == Max(S)
           y == Min(E)
<1> HIDE DEF x, y
<1>8. x \in Nat /\ o1 <= x /\ o2 <= x /\ x < y /\ y \in Nat /\ y <= o1 + s1 /\ y <= o2 + s2
  BY <1>5, <1>6, <1>7 DEF x, y
<1>9. x < o1 + s1 /\ x < o2 + s2
  BY <1>8
<1> QED BY <1>8, <1>9 DEF In, Region, End

\* A graph that fits its plan is where nothing is overwritten.
LEMMA SafePlaces ==
  ASSUME IInv
  PROVE  NothingOverwritten
<1> SUFFICES ASSUME phase = "placed", Planned PROVE NothingOverwritten
  BY DEF NothingOverwritten
<1>0. WellBuilt(graph) /\ WellBuilt(plan.of) /\ PlanFits(graph)
  BY DEF IInv, NotedInv, SettledInv, Settled
<1>1. PICK b \in Nat : Safe(graph, plan.offset, b, DOMAIN graph)
  <2>1. PICK b \in Nat : Safe(plan.of, plan.offset, b, DOMAIN plan.of)
    <3>1. NotedInv
      BY DEF IInv
    <3> QED BY <3>1 DEF NotedInv
  <2> QED BY <1>0, <2>1, FittingIsSmaller, SmallerIsSafe
<1>2. \A i \in DOMAIN graph : /\ plan.offset[i] \in Nat /\ graph[i].size \in Nat
                              /\ At(i) = PlaceOf(graph, plan.offset, i)
                              /\ At(i) = Region(plan.offset[i], graph[i].size)
  BY <1>0, <1>1, GraphFacts DEF Safe, At, PlaceOf
<1>4. ASSUME NEW i \in DOMAIN graph, NEW j \in DOMAIN graph,
             i < j, Own(graph[i]), Own(graph[j]), Overlap(At(i), At(j))
      PROVE  /\ j \in Nodes(graph) /\ ~Live(i, j)
             /\ Reads(j, i) => graph[j].kind = "inplace" /\ At(i) = At(j)
  <2>1. \E x \in Nat : In(x, At(i)) /\ In(x, At(j))
    BY <1>2, <1>4, OverlapShares
  <2>2. Share(graph, plan.offset, i, j)
    BY <1>2, <2>1 DEF Share
  <2>3. /\ Spent(graph, i, j)
        /\ IsReader(graph, j, i) => graph[j].kind = "inplace" /\ At(i) = At(j)
    BY <1>1, <1>2, <1>4, <2>2 DEF Safe, Apart
  <2>4. j \in Nodes(graph)
    BY <2>3 DEF Spent, Nodes, Leafs
  <2>5. ~Result(i)
    BY <2>3 DEF Spent, IsResult, Result
  <2>6. \A k \in DOMAIN graph : IsReader(graph, k, i) <=> Reads(k, i)
    BY DEF IsReader, Reads
  <2>7. ~Live(i, j)
    BY <2>3, <2>5, <2>6 DEF Spent, Live, Nodes
  <2> QED BY <2>3, <2>4, <2>6, <2>7
<1> QED BY <1>4 DEF NothingOverwritten

\* A graph that fits the plan is inside the buffer, if there is one and its leafs are
\* within the leafs of the plan.
LEMMA FittingIsInside ==
  ASSUME IInv
  PROVE  InsideBuffer
<1> SUFFICES ASSUME phase = "aborted", buffer # NoBuffer, LeafsWithin PROVE FALSE
  BY DEF InsideBuffer
<1>1. PICK i \in DOMAIN graph : Own(graph[i]) /\ ~InBuffer(i)
  BY DEF IInv, SettledInv
<1>2. /\ WellBuilt(graph) /\ WellBuilt(plan.of) /\ PlanFits(graph) /\ buffer \in Nat
  BY DEF IInv, NotedInv, SettledInv, Settled
<1>3. PICK b \in Nat : Safe(plan.of, plan.offset, b, DOMAIN plan.of) /\ b <= buffer
  <2>1. NotedInv
    BY DEF IInv
  <2> QED BY <2>1 DEF NotedInv
<1>4. i \in DOMAIN plan.of /\ Own(plan.of[i]) /\ graph[i].size <= plan.of[i].size
  <2>1. CASE i \in Nodes(graph)
    BY <1>1, <1>2, <2>1, SameDomain DEF PlanFits, Fits
  <2>2. CASE i \in Leafs(graph)
    BY <1>1, <2>2 DEF LeafsWithin
  <2> QED BY <2>1, <2>2 DEF Nodes
<1>5. plan.offset[i] \in Nat /\ plan.of[i].size \in Nat /\ graph[i].size \in Nat
  BY <1>2, <1>3, <1>4, GraphFacts DEF Safe
<1>6. plan.offset[i] + plan.of[i].size <= b
  BY <1>3, <1>4 DEF Safe
<1>7. plan.offset[i] + graph[i].size <= buffer
  BY <1>2, <1>3, <1>4, <1>5, <1>6
<1>8. End(At(i)) <= buffer
  BY <1>7 DEF End, At, Region
<1> QED BY <1>1, <1>4, <1>8 DEF InBuffer

\* The counts of a plan under way.
LEMMA CountsOfPlan ==
  ASSUME IInv
  PROVE  PlanOK
<1>1. /\ WellBuilt(graph) /\ max_size \in Nat /\ buffer \in Nat \cup {NoBuffer}
      /\ phase \in {"build", "plan", "reserved", "failed", "placed", "aborted"}
  BY DEF IInv, NotedInv, Memory, Regions, Settled
<1>2. ASSUME NEW i \in DOMAIN graph
      PROVE  /\ graph[i].kind \in Kinds /\ graph[i].size \in Sizes
             /\ \A k \in DOMAIN graph[i].srcs : graph[i].srcs[k] < i
  <2>1. graph[i] \in TensorType /\ i \in Nat
        /\ \A k \in DOMAIN graph[i].srcs : graph[i].srcs[k] \in 1 .. i - 1
    BY <1>1, GraphFacts
  <2> QED BY <2>1 DEF TensorType
<1>3. ASSUME phase = "plan"
      PROVE  /\ DOMAIN held \subseteq DOMAIN graph
             /\ \A i \in DOMAIN graph : n_children[i] >= 0 /\ n_views[i] >= 0
  <2>1. PlanGood(graph, at, held, offset, n_children, n_views, max_size)
    BY <1>3, PlanFacts
  <2>2. DOMAIN held \subseteq DOMAIN graph
    BY <1>3, PlanFacts
  <2>3. ASSUME NEW i \in DOMAIN graph PROVE n_children[i] >= 0 /\ n_views[i] >= 0
    <3>1. /\ n_children[i] = Cardinality(Left(graph, at, i))
          /\ n_views[i] = Cardinality(Unread(graph, at, i))
      BY <2>1 DEF PlanGood, Counts
    <3>2. n_children[i] \in Nat /\ n_views[i] \in Nat
      BY <1>1, <3>1, LeftFinite
    <3> QED BY <3>2
  <2> QED BY <2>2, <2>3
<1>4. TypeOK
  BY <1>1, <1>2, <1>3 DEF TypeOK
<1>5. ASSUME phase = "plan", at.tensor > Len(graph)
      PROVE  DOMAIN held = {i \in DOMAIN graph : Own(graph[i]) /\ Result(i)}
  <2>1. PlanGood(graph, at, held, offset, n_children, n_views, max_size)
    BY <1>5, PlanFacts
  <2>2. DOMAIN held = {i \in DOMAIN graph : Own(graph[i]) /\ IsResult(graph, i)}
    BY <1>1, <1>5, <2>1, PlanEnds
  <2>3. \A i : IsResult(graph, i) <=> Result(i)
    BY DEF IsResult, Result
  <2> QED BY <2>2, <2>3
<1> QED BY <1>4, <1>5 DEF PlanOK, OnlyResultsHeld
-----------------------------------------------------------------------------
\* For any graphs and any sequence of them, also with empty tensors: as long as the
\* memory measured stays below SIZE_MAX/2, every address below it is in exactly one
\* free block or in exactly one tensor, and no tensor is above max_size.
THEOREM NothingGivenTwice ==
  Spec /\ [](max_size < SizeMax) => [](MemoryExact /\ WithinMaxSize)
<1>1. Init => IInv
  BY InitIInv
<1>2. IInv /\ [Next]_vars /\ max_size < SizeMax /\ (max_size < SizeMax)' => IInv'
  BY NextIInv
<1>3. IInv /\ max_size < SizeMax => MemoryExact /\ WithinMaxSize
  BY MemoryIsExact DEF IInv
<1> QED BY <1>1, <1>2, <1>3, PTL DEF Spec

\* When no tensor is empty the free list is sorted and merged as well.
THEOREM AllocatorTracksMemory ==
  ASSUME 0 \notin Sizes
  PROVE  Spec /\ [](max_size < SizeMax) => []AllocatorOK
<1>1. Init => IInv
  BY InitIInv
<1>2. IInv /\ [Next]_vars /\ max_size < SizeMax /\ (max_size < SizeMax)' => IInv'
  BY NextIInv
<1>3. IInv /\ max_size < SizeMax => AllocatorOK
  BY MemoryIsExact, TidyIsMerged DEF IInv, AllocatorOK
<1> QED BY <1>1, <1>2, <1>3, PTL DEF Spec

\* The counts of readers and views are never negative, and release exactly what the
\* caller does not want.
THEOREM PlansCountRight ==
  Spec /\ [](max_size < SizeMax) => []PlanOK
<1>1. Init => IInv
  BY InitIInv
<1>2. IInv /\ [Next]_vars /\ max_size < SizeMax /\ (max_size < SizeMax)' => IInv'
  BY NextIInv
<1>3. IInv => PlanOK
  BY CountsOfPlan
<1> QED BY <1>1, <1>2, <1>3, PTL DEF Spec

\* No graph that is computed by a plan made for it, or for a graph of its structure whose
\* sizes it fits, writes over a tensor that is still needed; for any client, with buffers
\* refused at any time.
THEOREM NothingIsOverwritten ==
  Spec /\ [](max_size < SizeMax) => []NothingOverwritten
<1>1. Init => IInv
  BY InitIInv
<1>2. IInv /\ [Next]_vars /\ max_size < SizeMax /\ (max_size < SizeMax)' => IInv'
  BY NextIInv
<1>3. IInv => NothingOverwritten
  BY SafePlaces
<1> QED BY <1>1, <1>2, <1>3, PTL DEF Spec

\* The program is stopped by an assertion of ggml_backend_tensor_alloc only when there is
\* no buffer or a leaf is not within the leaf of its number; for any client.
THEOREM TensorsInsideBuffer ==
  Spec /\ [](max_size < SizeMax) => []InsideBuffer
<1>1. Init => IInv
  BY InitIInv
<1>2. IInv /\ [Next]_vars /\ max_size < SizeMax /\ (max_size < SizeMax)' => IInv'
  BY NextIInv
<1>3. IInv => InsideBuffer
  BY FittingIsInside
<1> QED BY <1>1, <1>2, <1>3, PTL DEF Spec
=============================================================================
