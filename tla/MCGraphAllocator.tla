-------------------------- MODULE MCGraphAllocator --------------------------
(***************************************************************************)
(* TLC instances of GraphAllocator: small graphs of four casts, chosen at  *)
(* the start.                                                              *)
(*   "sizes"   three nodes of any sizes, one of them an output;            *)
(*   "long"    four nodes of one size, none with the same source twice;    *)
(*   "again"   three tensors of any sizes, then the same with other sizes  *)
(*             or another graph of one node; the buffer may be refused;    *)
(*   "direct"  tensors allocated and freed in any order.                   *)
(***************************************************************************)
EXTENDS GraphAllocator

VARIABLE cast

MCInit == Init /\ cast \in {"sizes", "long", "again", "direct"}

One == Min(Sizes)
SizesOf(g) == {g[i].size : i \in {j \in DOMAIN g : Own(g[j])}}
Outputs(g) == {i \in DOMAIN g : g[i].output}

\* The order of two sources, the size of a weight and the flag of the last node,
\* which is a result anyway, do not matter.
Small(g) ==
    \A i \in DOMAIN g : /\ g[i].output => i < NNodes
                        /\ g[i].kind = "weight" => g[i].size = One
                        /\ Len(g[i].srcs) = 2 => g[i].srcs[1] <= g[i].srcs[2]

Fit(g) ==
    /\ cast # "again" => Cardinality(Leafs(g)) < NLeafs /\ Cardinality(Nodes(g)) <= NNodes
    /\ CASE cast = "sizes" -> Cardinality(Nodes(g)) < NNodes /\ Cardinality(Outputs(g)) <= 1
         [] cast = "long"  -> SizesOf(g) \subseteq {One} /\ Outputs(g) = {}
                              /\ \A i \in DOMAIN g : /\ g[i].kind # "weight"
                                                     /\ Len(g[i].srcs) = 2 => g[i].srcs[1] # g[i].srcs[2]
         [] cast = "again" -> Len(g) < NNodes /\ Outputs(g) = {}

\* The second graph: the structure of the one that was planned, or another graph of one
\* node when that had one.
Second(g) ==
    \/ Cardinality(Nodes(g)) <= 1 /\ Cardinality(Nodes(plan.of)) = 1
    \/ \A i \in DOMAIN g : /\ i \in DOMAIN plan.of
                           /\ [plan.of[i] EXCEPT !.size = g[i].size] = g[i]

\* Tensors come and go without a graph.
Tensors == 1 .. 4
Direct ==
    /\ \/ \E t \in DOMAIN held : Release(t)
       \/ Tensors # DOMAIN held /\ \E b \in Sizes : Alloc(Min(Tensors \ DOMAIN held), b)
    /\ UNCHANGED <<graph, phase, graphs, at, n_children, n_views, offset, plan, buffer>>

MCNext ==
    /\ UNCHANGED cast
    /\ \/ cast = "direct" /\ Direct
       \/ /\ cast # "direct" /\ Next
          /\ Small(graph') /\ Fit(graph')
          /\ graphs' = 2 => cast = "again" /\ Second(graph')
          /\ phase' = "failed" => cast = "again" /\ graphs = 1
MCSpec == MCInit /\ [][MCNext]_<<vars, cast>>
=============================================================================
