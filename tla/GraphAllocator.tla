--------------------------- MODULE GraphAllocator ---------------------------
(***************************************************************************)
(* ggml_gallocr with one buffer (llama.cpp/ggml/src/ggml-alloc.c): it goes *)
(* through the nodes of a graph in order, gives each a place when it is    *)
(* computed and takes the place back after its last reader, so that        *)
(* tensors share memory.  The plan is kept: the next graph is placed by it *)
(* unless ggml_gallocr_needs_realloc asks for a new one.  The buffer the   *)
(* tensors are placed in may be refused by the system.                     *)
(*                                                                         *)
(* A graph is a sequence of tensors, the leafs first, then the nodes in    *)
(* the order they are computed:                                            *)
(*   kind "leaf", "weight" (a leaf whose data is elsewhere), "op",         *)
(*        "inplace" (ggml_op_can_inplace) or "view";                       *)
(*   srcs, the positions of the sources; size, in bytes; output, the flag; *)
(*   root, the view_src of a view, never itself a view.                    *)
(***************************************************************************)
EXTENDS TensorAllocator

CONSTANTS NLeafs, NNodes,    \* bounds: leafs and nodes of a graph
          Sizes,             \* sizes of tensors in bytes
          MaxGraphs          \* bound: graphs allocated after one another

ASSUME GraphAssumption ==
    /\ NLeafs \in Nat \ {0} /\ NNodes \in Nat \ {0}
    /\ Sizes \subseteq Nat /\ MaxGraphs \in Nat

VARIABLES graph, phase, graphs,
          at,           \* how far the plan under way is: [tensor, step]
          n_children, n_views,
          offset,       \* hash_node.offset
          plan,         \* node_allocs and leaf_allocs: [of, offset], of a graph
          buffer        \* size of the buffer, or NoBuffer
vars == <<allocator, graph, phase, graphs, at, n_children, n_views, offset, plan, buffer>>

Kinds == {"leaf", "weight", "op", "inplace", "view"}
IsLeaf(t) == t.kind \in {"leaf", "weight"}
IsView(t) == t.kind = "view"
Own(t) == t.kind \notin {"weight", "view"}    \* neither data nor a view_src
Leafs(g) == {i \in DOMAIN g : IsLeaf(g[i])}
Nodes(g) == DOMAIN g \ Leafs(g)

NoBuffer == -1    \* NULL
NoPlan == [of |-> << >>, offset |-> << >>]
Start == [tensor |-> 1, step |-> 1]

Init ==
    /\ InitAllocator
    /\ graph = << >> /\ phase = "build" /\ graphs = 1
    /\ at = Start /\ n_children = << >> /\ n_views = << >> /\ offset = << >>
    /\ plan = NoPlan /\ buffer = NoBuffer

(***************************************************************************)
(* The client builds a graph, and hands it to ggml_gallocr_alloc_graph.    *)
(***************************************************************************)
Sources == UNION {[1 .. n -> DOMAIN graph] : n \in 1 .. 2}    \* bound: two sources
Tensor(kind, srcs, size, output, root) ==
    [kind |-> kind, srcs |-> srcs, size |-> size, output |-> output, root |-> root]

Add(t) ==
    /\ phase = "build" /\ graph' = Append(graph, t)
    /\ UNCHANGED <<allocator, phase, graphs, at, n_children, n_views, offset, plan, buffer>>

AddLeaf ==
    /\ Nodes(graph) = {} /\ Len(graph) < NLeafs
    /\ \E kind \in {"leaf", "weight"}, size \in Sizes : Add(Tensor(kind, << >>, size, FALSE, 0))

AddNode ==    \* an operation that works in place has the layout of its first source
    /\ Leafs(graph) # {} /\ Len(graph) < NLeafs + NNodes
    /\ \E kind \in {"op", "inplace"}, srcs \in Sources, size \in Sizes, out \in BOOLEAN :
          /\ kind = "inplace" => size = graph[srcs[1]].size
          /\ Add(Tensor(kind, srcs, size, out, 0))

AddView ==
    /\ Leafs(graph) # {} /\ Len(graph) < NLeafs + NNodes
    /\ \E s \in DOMAIN graph :
          Add(Tensor("view", <<s>>, graph[s].size, FALSE,
                     IF IsView(graph[s]) THEN graph[s].root ELSE s))

(***************************************************************************)
(* ggml_gallocr_reserve_n and ggml_gallocr_alloc_graph_impl.               *)
(***************************************************************************)
\* Mutant: a node that reads a tensor twice is one reader.
Uses_Nodes(g, i) == {j \in Nodes(g) : \E k \in DOMAIN g[j].srcs : g[j].srcs[k] = i}

Uses(g, i) == {use \in Nodes(g) \X {1, 2} : LET srcs == g[use[1]].srcs
                                              IN  use[2] \in DOMAIN srcs /\ srcs[use[2]] = i}
Views(g, i) == {j \in Nodes(g) : IsView(g[j]) /\ g[j].root = i}

\* ggml_gallocr_needs_realloc is false: there are as many nodes and leafs as in the
\* plan, and every node and source of a node is within the size it had there.
Fits_Any(t, old) == Own(t) => Own(old)    \* mutant: sizes are not compared
Fits(t, old) == Own(t) => Own(old) /\ t.size <= old.size
PlanFits(g) ==
    LET old == plan.of
    IN  /\ Cardinality(Nodes(g)) = Cardinality(Nodes(old))
        /\ Cardinality(Leafs(g)) = Cardinality(Leafs(old))
        /\ \A i \in Nodes(g) :
              /\ Fits(g[i], old[i])
              /\ \A k \in DOMAIN g[i].srcs : Own(g[g[i].srcs[k]]) =>
                    /\ k \in DOMAIN old[i].srcs
                    /\ Fits(g[g[i].srcs[k]], old[old[i].srcs[k]])

\* A new plan: reset, count the readers and the views.  ggml_gallocr_alloc_graph asks for
\* one when PlanFits is false, ggml_gallocr_reserve for any graph, and the scheduler for
\* one more when the first was of no use (ggml-backend.cpp 1384 to 1395).
Reserve ==
    /\ phase \in {"build", "failed"} /\ Nodes(graph) # {}
    /\ ResetAllocator
    /\ n_children' = [i \in DOMAIN graph |-> Cardinality(Uses(graph, i))]
    /\ n_views' = [i \in DOMAIN graph |-> Cardinality(Views(graph, i))]
    /\ offset' = [i \in DOMAIN graph |-> 0]
    /\ phase' = "plan" /\ at' = Start
    /\ UNCHANGED <<graph, graphs, plan, buffer>>

Reusable_Views(i, p) ==    \* mutant: the views of the source are forgotten
    /\ graph[i].kind = "inplace"
    /\ p \in DOMAIN held /\ ~graph[p].output
    /\ graph[p].size = graph[i].size
    /\ n_children[p] = 1

\* ggml_gallocr_allocate_node: in the place of a source that only this node still
\* reads, or in a place of its own.
Reusable(i, p) ==
    /\ graph[i].kind = "inplace"
    /\ p \in DOMAIN held /\ ~graph[p].output
    /\ graph[p].size = graph[i].size    \* ggml_are_same_layout
    /\ n_children[p] = 1 /\ n_views[p] = 0

PlaceOn(i, p) ==
    /\ held' = [u \in (DOMAIN held \ {p}) \union {i} |-> IF u = i THEN held[p] ELSE held[u]]
    /\ offset' = [offset EXCEPT ![i] = offset[p]]
    /\ UNCHANGED <<free_blocks, max_size>>

PlaceNew(i) ==
    /\ Alloc(i, graph[i].size)
    /\ offset' = [offset EXCEPT ![i] = held'[i].offset]

Place(i) ==
    LET candidates == {k \in DOMAIN graph[i].srcs : Reusable(i, graph[i].srcs[k])}
    IN  /\ IF ~Own(graph[i]) \/ i \in DOMAIN held
           THEN UNCHANGED <<allocator, offset>>
           ELSE IF candidates # {} THEN PlaceOn(i, graph[i].srcs[Min(candidates)])
                ELSE PlaceNew(i)
        /\ UNCHANGED <<graph, phase, graphs, n_children, n_views, plan, buffer>>

\* A source has been read: its place, or that of the tensor it is a view of, is
\* given back after the last reader (ggml_gallocr_free_node keeps outputs).
FreeNode_Any(t) == Release(t)    \* mutant: outputs too

FreeNode(t) == IF graph[t].output THEN UNCHANGED allocator ELSE Release(t)

Read(p) ==
    LET children == [n_children EXCEPT ![p] = @ - 1]
        over == children[p] = 0 /\ n_views[p] = 0
        views == IF over /\ IsView(graph[p])
                 THEN [n_views EXCEPT ![graph[p].root] = @ - 1] ELSE n_views
        owner == IF IsView(graph[p]) THEN graph[p].root ELSE p
    IN  /\ n_children' = children /\ n_views' = views
        /\ IF over /\ children[owner] = 0 /\ views[owner] = 0 /\ owner \in DOMAIN held
           THEN FreeNode(owner) ELSE UNCHANGED allocator
        /\ UNCHANGED <<graph, phase, graphs, offset, plan, buffer>>

\* The loops of ggml_gallocr_alloc_graph_impl: the leafs are placed, then for each node
\* its sources, itself, and the sources again, each with one reader less.
Srcs == graph[at.tensor].srcs
Planning == phase = "plan" /\ at.tensor \in DOMAIN graph
Advance == at' = IF at.step = 2 * Len(Srcs) + 1 THEN [tensor |-> at.tensor + 1, step |-> 1]
                 ELSE [at EXCEPT !.step = @ + 1]

PlaceSource == Planning /\ at.step \in DOMAIN Srcs /\ Place(Srcs[at.step]) /\ Advance
PlaceTensor == Planning /\ at.step = Len(Srcs) + 1 /\ Place(at.tensor) /\ Advance
ReadSource ==
    /\ Planning /\ at.step > Len(Srcs) + 1
    /\ Read(Srcs[at.step - Len(Srcs) - 1]) /\ Advance

\* The plan is noted, and the buffer grows to the size measured: the old one is freed
\* and a larger one allocated, which may fail when the plan is there already.
Finish ==
    /\ phase = "plan" /\ at.tensor > Len(graph)
    /\ plan' = [of |-> graph, offset |-> offset]
    /\ \/ buffer' = Max({buffer, max_size}) /\ phase' = "reserved"
       \/ /\ max_size > buffer /\ max_size > 0
          /\ buffer' = NoBuffer /\ phase' = "failed"
    /\ UNCHANGED <<allocator, graph, graphs, at, n_children, n_views, offset>>

At(i) == Region(plan.offset[i], graph[i].size)

\* What ggml_backend_tensor_alloc asserts; a place that was not planned is in buffer -1.
InBuffer(i) == Own(plan.of[i]) /\ buffer # NoBuffer /\ End(At(i)) <= buffer

\* ggml_gallocr_alloc_graph places the tensors by the plan there is, or aborts.  After a
\* failed Reserve the plan is one for this graph, and the scheduler, which does not look
\* at what Reserve returned, places by it all the same (ggml-backend.cpp 1395, 1396).
AllocGraph ==
    /\ \/ phase = "build" /\ Nodes(graph) # {} /\ PlanFits(graph)
       \/ phase \in {"reserved", "failed"}
    /\ phase' = IF \A i \in DOMAIN graph : Own(graph[i]) => InBuffer(i)
                THEN "placed" ELSE "aborted"
    /\ UNCHANGED <<allocator, graph, graphs, at, n_children, n_views, offset, plan, buffer>>

NextGraph ==
    /\ phase \in {"placed", "reserved", "failed"} /\ graphs < MaxGraphs
    /\ graphs' = graphs + 1 /\ phase' = "build" /\ graph' = << >>
    /\ UNCHANGED <<allocator, at, n_children, n_views, offset, plan, buffer>>

Next == \/ AddLeaf \/ AddNode \/ AddView
        \/ Reserve \/ Finish \/ AllocGraph \/ NextGraph
        \/ PlaceSource \/ PlaceTensor \/ ReadSource

Spec == Init /\ [][Next]_vars

-----------------------------------------------------------------------------
\* Node j reads tensor i, itself or through a view.
Reads(j, i) == ~IsView(graph[j]) /\ \E k \in DOMAIN graph[j].srcs :
                   LET s == graph[j].srcs[k] IN s = i \/ graph[s].root = i

\* What is still there when the graph has been computed: outputs, and tensors
\* that nothing reads, or that have a view that nothing reads.
Result(i) == graph[i].output \/ \E v \in {i} \union Views(graph, i) : Uses(graph, v) = {}

Live(i, j) == Result(i) \/ \E k \in Nodes(graph) : k > j /\ Reads(k, i)

Overlap(r, s) == Max({r.offset, s.offset}) < Min({End(r), End(s)})

\* Every leaf is within the size planned for the leaf of its number.
LeafsWithin == \A i \in Leafs(graph) : Own(graph[i]) =>
                   i \in DOMAIN plan.of /\ Own(plan.of[i]) /\ graph[i].size <= plan.of[i].size

\* The plan is one for this graph, perhaps of other sizes: it was made for the same
\* operations on the same sources, and what an operation in place reads has its layout
\* again if it had it then.
Planned ==
    /\ \A i \in DOMAIN graph : /\ i \in DOMAIN plan.of
                               /\ [plan.of[i] EXCEPT !.size = graph[i].size] = graph[i]
    /\ \A i, j \in DOMAIN graph :
          graph[j].kind = "inplace" /\ Reads(j, i) /\ plan.of[i].size = plan.of[j].size
              => graph[i].size = graph[j].size
    /\ LeafsWithin

TypeOK ==
    /\ phase \in {"build", "plan", "reserved", "failed", "placed", "aborted"}
    /\ \A i \in DOMAIN graph : /\ graph[i].kind \in Kinds /\ graph[i].size \in Sizes
                             /\ \A k \in DOMAIN graph[i].srcs : graph[i].srcs[k] < i
    /\ phase = "plan" => /\ DOMAIN held \subseteq DOMAIN graph
                         /\ \A i \in DOMAIN graph : n_children[i] >= 0 /\ n_views[i] >= 0
    /\ buffer \in Nat \union {NoBuffer} /\ max_size \in Nat

\* No node is written over a tensor that is still needed: one that a later node or
\* the caller reads, or that the node itself reads, unless it is computed in place.
\* The leafs, the inputs of the graph, never share (ggml_gallocr_alloc_graph_impl).  So
\* it is for every graph the plan was made for, and for one of other sizes that fits.
NothingOverwritten ==
    phase = "placed" /\ Planned => \A i, j \in DOMAIN graph :
        (i < j /\ Own(graph[i]) /\ Own(graph[j]) /\ Overlap(At(i), At(j))) =>
            /\ j \in Nodes(graph) /\ ~Live(i, j)
            /\ Reads(j, i) => graph[j].kind = "inplace" /\ At(i) = At(j)

\* No assertion of ggml_backend_tensor_alloc stops the program: a plan that fits puts
\* every tensor of the graph, whatever graph it was made for, into the buffer there is.
\* It does not when the buffer was refused, or for a leaf that needs_realloc compared
\* with another leaf of the plan, or with none.
InsideBuffer == phase = "aborted" => buffer = NoBuffer \/ ~LeafsWithin

\* When the last node is planned, exactly the results still hold memory: the counts of
\* readers and views released all the rest, and nothing before its time.
OnlyResultsHeld ==
    (phase = "plan" /\ at.tensor > Len(graph)) =>
        DOMAIN held = {i \in DOMAIN graph : Own(graph[i]) /\ Result(i)}

\* The counts of the plan under way.
PlanOK == TypeOK /\ OnlyResultsHeld
=============================================================================
