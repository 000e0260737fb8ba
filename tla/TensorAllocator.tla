-------------------------- MODULE TensorAllocator ---------------------------
(***************************************************************************)
(* ggml_dyn_tallocr, the allocator that measures the buffer a graph needs  *)
(* (llama.cpp/ggml/src/ggml-alloc.c): a list of free blocks sorted by      *)
(* address, best fit among all but the last, merging when a tensor is      *)
(* freed.  No memory is behind it: an allocation is an offset.             *)
(***************************************************************************)
EXTENDS Integers, FiniteSets, SequencesExt

CONSTANTS Alignment,        \* of the buffer type; a power of two
          SizeMax,          \* the size of the first free block, SIZE_MAX/2
          MaxFreeBlocks     \* MAX_FREE_BLOCKS

ASSUME AllocatorAssumption ==
    /\ Alignment \in Nat \ {0} /\ SizeMax \in Nat \ {0} /\ MaxFreeBlocks \in Nat \ {0}
    /\ SizeMax % Alignment = 0

VARIABLES free_blocks,    \* sequence of [offset, size]
          max_size,
          held            \* tensor -> the [offset, size] it was given and not freed
allocator == <<free_blocks, max_size, held>>

Region(offset, size) == [offset |-> offset, size |-> size]
End(r) == r.offset + r.size

Aligned(size) == size + ((Alignment - (size % Alignment)) % Alignment)

InitAllocator ==
    /\ free_blocks = <<Region(0, SizeMax)>> /\ max_size = 0 /\ held = << >>

ResetAllocator ==
    /\ free_blocks' = <<Region(0, SizeMax)>> /\ max_size' = 0 /\ held' = << >>

\* The smallest free block that is large enough, the last one of several; the last
\* block of the list is only taken when no other is.
BestFit(size) ==
    LET fits == {b \in 1 .. Len(free_blocks) - 1 : free_blocks[b].size >= size}
        best == {b \in fits : \A c \in fits : free_blocks[b].size <= free_blocks[c].size}
    IN  IF fits = {} THEN Len(free_blocks) ELSE Max(best)

Highest_Last(given) == End(given)    \* mutant: the last tensor counts

Highest(given) == Max({max_size, End(given)})

Alloc(t, bytes) ==
    LET size == Aligned(bytes)
        b == BestFit(size)
        block == free_blocks[b]
        given == Region(block.offset, size)
        rest == Region(block.offset + size, block.size - size)
    IN  /\ block.size >= size    \* else GGML_ABORT
        /\ free_blocks' = IF rest.size = 0 THEN RemoveAt(free_blocks, b)
                          ELSE [free_blocks EXCEPT ![b] = rest]
        /\ held' = [u \in DOMAIN held \union {t} |-> IF u = t THEN given ELSE held[u]]
        /\ max_size' = Highest(given)

\* The free block that ends where the tensor begins, or begins where it ends.
Neighbours(r) ==
    {b \in 1 .. Len(free_blocks) : End(free_blocks[b]) = r.offset \/ End(r) = free_blocks[b].offset}

Joined_Drops(blocks, b) == RemoveAt(blocks, b + 1)    \* mutant: the second block is lost

\* Two blocks of the list become one.
Joined(blocks, b) ==
    RemoveAt([blocks EXCEPT ![b].size = @ + blocks[b + 1].size], b + 1)

Merged_Once(b, r) ==    \* mutant: only one neighbour is looked at
    LET block == free_blocks[b]
    IN  [free_blocks EXCEPT ![b] =
            Region(IF End(block) = r.offset THEN block.offset ELSE r.offset, block.size + r.size)]

Merged(b, r) ==
    LET block == free_blocks[b]
        after == [free_blocks EXCEPT ![b].size = @ + r.size]
        before == [free_blocks EXCEPT ![b] = Region(r.offset, block.size + r.size)]
    IN  IF End(block) = r.offset
        THEN IF b < Len(free_blocks) /\ End(after[b]) = free_blocks[b + 1].offset
             THEN Joined(after, b) ELSE after
        ELSE IF b > 1 /\ End(free_blocks[b - 1]) = r.offset
             THEN Joined(before, b - 1) ELSE before

\* Before the first block that does not begin below the tensor.
Inserted(r) ==
    LET above == {b \in 1 .. Len(free_blocks) : free_blocks[b].offset >= r.offset}
        pos == IF above = {} THEN Len(free_blocks) + 1 ELSE Min(above)
    IN  InsertAt(free_blocks, pos, r)

Release(t) ==
    LET r == held[t]
        near == Neighbours(r)
    IN  /\ IF near # {}
           THEN free_blocks' = Merged(Min(near), r)
           ELSE /\ Len(free_blocks) < MaxFreeBlocks    \* else GGML_ASSERT
                /\ free_blocks' = Inserted(r)
        /\ held' = [u \in DOMAIN held \ {t} |-> held[u]]
        /\ UNCHANGED max_size

-----------------------------------------------------------------------------
In(x, r) == r.offset <= x /\ x < End(r)

\* The free blocks are exactly the memory that no tensor holds: nothing is given out
\* twice, nothing freed is lost (ggml_dyn_tallocr_alloc, ggml_dyn_tallocr_free_tensor).
MemoryExact ==
    \A x \in 0 .. Max({End(held[t]) : t \in DOMAIN held}
                    \union {free_blocks[i].offset : i \in DOMAIN free_blocks}) :
        Cardinality({i \in DOMAIN free_blocks : In(x, free_blocks[i])})
        + Cardinality({t \in DOMAIN held : In(x, held[t])}) = 1

\* The free list is sorted by address and no two blocks of it touch, so that freeing
\* everything gives back one block (lines 233 to 274).  Tensors are not empty: an empty
\* one is freed as a block of no size, in the midst of another.
FreeListMerged ==
    /\ \A i \in 1 .. Len(free_blocks) - 1 : End(free_blocks[i]) < free_blocks[i + 1].offset
    /\ End(Last(free_blocks)) = SizeMax

\* max_size, from which the buffer is allocated, covers every tensor ever held.
WithinMaxSize == \A t \in DOMAIN held : End(held[t]) <= max_size

\* The allocator keeps track of all memory.
AllocatorOK == MemoryExact /\ FreeListMerged /\ WithinMaxSize
=============================================================================
