-------------------------- MODULE ThreadPoolProofs --------------------------
(***************************************************************************)
(* The thread pool for every number of threads, nodes, chunks and graphs,  *)
(* up to a torn read: a worker that puts the number of one graph and the   *)
(* width of another together, which the code allows and ThreadPool_growing *)
(* shows.  The theorems say that this is the only way in which the threads *)
(* can come apart.                                                         *)
(*                                                                         *)
(* The argument.  A graph of n nodes is cut by its barriers into stages    *)
(* 0, 1, ... 2n: even stages convert a node's input, odd ones compute its  *)
(* product, 2n is the end.  Stage(t) is the number of barriers of this     *)
(* graph that have opened for thread t, and it is the SAME for all threads *)
(* of the graph (InStep): a barrier opens in one step, the store to        *)
(* n_barrier_passed, although the threads notice it one after another.     *)
(* That step needs every thread of the graph to be waiting, which follows  *)
(* from n_barrier being the number of those that wait (BarrierCounts).     *)
(* Every thread at a barrier is about to return to the same place because  *)
(* abort is only changed in odd stages and only read in even ones          *)
(* (AbortRead).  A worker that the next graph adds has no stage of its own *)
(* to catch up with: it counts as finished until that graph is published.  *)
(* What the shared counter has handed out in an odd stage is               *)
(* HandedOut: each chunk is computed, held by one thread, or not begun.    *)
(***************************************************************************)
EXTENDS ThreadPool, FiniteSetTheorems, TLAPS

\* The last stage: every barrier of the graph has opened.
Finished == 2 * NNodes

\* At the barrier and not released; released, but still spinning.
Waiting(t) == pc[t] \in {"reset", "release"} \/ (pc[t] = "spin" /\ seen[t] = nPassed)
Passed(t) == pc[t] = "spin" /\ seen[t] # nPassed
Left(t) == Passed(t) /\ after[t] = "done"

\* The stage of a thread between two nodes, before a barrier, and anywhere.  A worker
\* that has not read the new number of threads has not taken the graph; there is none to
\* take between the store of the number of threads and that of n_graph.
Straight(t) == IF node[t] = NNodes THEN 2 * NNodes - 1 ELSE 2 * node[t]
Before(t) ==
    IF after[t] = "chunks" THEN 2 * node[t]
    ELSE IF after[t] = "node" THEN 2 * node[t] - 1 ELSE Straight(t)
Taken(t) == t = 0 \/ pc[0] = "publish" \/ (last[t] = nGraph /\ pc[t] # "width")
Stage(t) ==
    IF ~Taken(t) \/ pc[t] \in {"wake", "begin"} THEN 0
    ELSE IF pc[t] = "node" THEN Straight(t)
    ELSE IF pc[t] \in {"chunks", "finish"} THEN 2 * node[t] + 1
    ELSE IF pc[t] \in InBarrier /\ ~Left(t) THEN IF Passed(t) THEN Before(t) + 1 ELSE Before(t)
    ELSE Finished

Places == CallerPlaces \union WorkerPlaces \union InNode \union InBarrier \union {"ended"}
Flags == stop \in BOOLEAN /\ pause \in BOOLEAN

Typed ==
    /\ nThreads \in 1 .. NMax /\ nGraph \in 0 .. MaxGraphs /\ abort \in 0 .. NoAbort
    /\ nBarrier \in Nat /\ nPassed \in Nat /\ counter \in Nat
    /\ pc \in [Threads -> Places]
    /\ pc[0] \in CallerPlaces \union InNode \union InBarrier \union {"ended"}
    /\ \A w \in Workers : pc[w] \in WorkerPlaces \union InNode \union InBarrier \union {"ended"}
    /\ last \in [Workers -> Nat] /\ node \in [Threads -> 0 .. NNodes]
    /\ nth \in [Threads -> 0 .. NMax] /\ chunk \in [Threads -> Nat] /\ seen \in [Threads -> Nat]
    /\ after \in [Threads -> {"chunks", "node", "done"}]
    /\ did \in [0 .. NNodes - 1 -> [0 .. NChunks + NMax -> Nat]]
    /\ \A w \in Workers : last[w] <= nGraph
    /\ \A t \in Threads : seen[t] <= nPassed

\* What a thread at each place knows; only one that has left the last barrier may be
\* in it without being a thread of the graph.
PlaceOK(t) ==
    /\ pc[t] \in {"chunks", "finish"} => node[t] < NNodes
    /\ pc[t] \in InBarrier /\ after[t] = "chunks" => node[t] < NNodes
    /\ pc[t] \in InBarrier /\ after[t] = "node" => node[t] \in 1 .. NNodes - 1
    /\ pc[t] \in {"enter", "reset", "release"} => seen[t] = nPassed
    /\ pc[t] \in InNode \union InBarrier => Left(t) \/ (Active(t) /\ (t # 0 => last[t] = nGraph))
    /\ pc[t] \in (InNode \ {"begin"}) \union InBarrier => Left(t) \/ nth[t] = nThreads
PlacesOK == \A t \in Threads : PlaceOK(t)

\* All threads of the graph are in the same stage.
InStep == \A t \in Threads : Active(t) => Stage(t) = Stage(0)

\* n_barrier counts the threads that wait; the one that resets it is the last of all.
BarrierCounts ==
    /\ nBarrier = IF \E t \in Threads : pc[t] = "release" THEN 0
                  ELSE Cardinality({t \in Threads : Waiting(t)})
    /\ \A t, u \in Threads : pc[t] \in {"reset", "release"} /\ Active(u) =>
            Waiting(u) /\ (u # t => pc[u] = "spin")

\* Why a thread stands at a barrier, and that threads which have finished a graph have
\* stopped at the same node.
AbortReadAt(t) ==
    (pc[t] \in InBarrier /\ ~Passed(t)) =>
        /\ after[t] = "done" /\ node[t] < NNodes => abort = node[t]
        /\ after[t] = "chunks" => abort # node[t]
AbortRead == \A t \in Threads : AbortReadAt(t)
NodesAgree ==
    Stage(0) = Finished /\ pc[0] # "publish" => \A t \in Threads : Active(t) => node[t] = node[0]

\* The chunks of node k: the threads that hold one, what the barrier after the
\* conversion hands out first, and the state of the row in the middle of its product,
\* after it and before it.
Holds(t) == Active(t) /\ (pc[t] = "chunks" \/ (Passed(t) /\ after[t] = "chunks"))
Chunks == 0 .. NChunks + NMax
ReadyAt(t) == (pc[t] \in InBarrier /\ ~Passed(t) /\ after[t] = "chunks") =>
            chunk[t] = t /\ (t = 0 => counter = nThreads)
Ready == \A t \in Threads : ReadyAt(t)
HandedOut(k) ==
    LET T == Total(nThreads)
    IN  /\ nThreads <= counter
        /\ T = nThreads => counter = nThreads
        /\ \A t \in Threads : Active(t) => chunk[t] < counter
        /\ \A t, u \in Threads : Active(t) /\ Active(u) /\ t # u => chunk[t] # chunk[u]
        /\ \A t \in Threads : Active(t) /\ ~Holds(t) => T <= counter
        /\ \A c \in T .. counter - 1 : \E t \in Threads : Active(t) /\ chunk[t] = c
        /\ \A c \in Chunks : did[k][c] =
             IF c < counter /\ c < T /\ ~\E t \in Threads : Holds(t) /\ chunk[t] = c THEN 1 ELSE 0
Full(k) == \A c \in Chunks : did[k][c] = IF c < Total(nThreads) THEN 1 ELSE 0
Empty(k) == \A c \in Chunks : did[k][c] = 0

RowOK(k) ==
    /\ 2 * k + 1 < Stage(0) => Full(k)
    /\ 2 * k + 1 = Stage(0) => HandedOut(k)
    /\ 2 * k + 1 > Stage(0) => Empty(k)
RowsOK == Stage(0) < Finished => \A k \in 0 .. NNodes - 1 : RowOK(k)
NotBegun == pc[0] \in {"kickoff", "publish"} => nGraph < MaxGraphs /\ \A k \in 0 .. NNodes - 1 : Empty(k)
AllDone == (Stage(0) = Finished /\ pc[0] \in {"idle", "spin"} /\ nGraph > 0)
               => \A k \in 0 .. node[0] - 1 : Full(k)
AtMostOnce == \A k \in 0 .. NNodes - 1, c \in Chunks : did[k][c] <= 1
Done == RowsOK /\ NotBegun /\ AllDone /\ AtMostOnce

Bounds == counter <= NChunks + NMax /\ \A t \in Threads : chunk[t] <= NChunks + NMax

IInv == /\ Typed /\ Flags /\ PlacesOK /\ InStep /\ BarrierCounts
        /\ AbortRead /\ NodesAgree /\ Ready /\ Done

Inv == IInv /\ Bounds

USE PoolAssumption DEF Threads, Workers

\* What the proofs use of Typed.
LEMMA Types ==
  ASSUME Typed
  PROVE  /\ nThreads \in Nat /\ nThreads \in 1 .. NMax /\ nGraph \in Nat /\ 0 \in Threads
         /\ abort \in Nat /\ nBarrier \in Nat /\ nPassed \in Nat /\ counter \in Nat
         /\ pc \in [Threads -> Places] /\ last \in [Workers -> Nat]
         /\ node \in [Threads -> 0 .. NNodes]
         /\ \A w \in Workers : last[w] \in Nat /\ last[w] <= nGraph /\ w \in Threads /\ w # 0
         /\ \A t \in Threads : /\ node[t] \in 0 .. NNodes /\ node[t] \in Nat /\ nth[t] \in 0 .. NMax
                               /\ chunk[t] \in Nat /\ seen[t] \in Nat /\ seen[t] <= nPassed
                               /\ after[t] \in {"chunks", "node", "done"}
                               /\ t \in Nat /\ (t # 0 => t \in Workers)
         /\ \A k \in 0 .. NNodes - 1 : did[k] \in [0 .. NChunks + NMax -> Nat]
<1>1. nThreads \in 1 .. NMax /\ nGraph \in 0 .. MaxGraphs /\ abort \in 0 .. NoAbort
      /\ nBarrier \in Nat /\ nPassed \in Nat /\ counter \in Nat
  BY DEF Typed
<1>2. nThreads \in Nat /\ nGraph \in Nat /\ 0 \in Threads /\ abort \in Nat
  BY <1>1 DEF NoAbort
<1>3. /\ pc \in [Threads -> Places] /\ last \in [Workers -> Nat]
      /\ \A w \in Workers : last[w] <= nGraph
  BY DEF Typed
<1>4. \A w \in Workers : last[w] \in Nat /\ w \in Threads /\ w # 0
  BY <1>3
<1>5. /\ node \in [Threads -> 0 .. NNodes] /\ nth \in [Threads -> 0 .. NMax]
      /\ chunk \in [Threads -> Nat] /\ seen \in [Threads -> Nat]
      /\ after \in [Threads -> {"chunks", "node", "done"}]
      /\ \A t \in Threads : seen[t] <= nPassed
  BY DEF Typed
<1>6. \A t \in Threads : t \in Nat /\ (t # 0 => t \in Workers)
  OBVIOUS
<1>7. \A k \in 0 .. NNodes - 1 : did[k] \in [0 .. NChunks + NMax -> Nat]
  BY DEF Typed
<1>8. \A t \in Threads : /\ node[t] \in 0 .. NNodes /\ node[t] \in Nat /\ nth[t] \in 0 .. NMax
                        /\ chunk[t] \in Nat /\ seen[t] \in Nat /\ seen[t] <= nPassed
                        /\ after[t] \in {"chunks", "node", "done"}
  BY <1>5
<1>9. \A t \in Threads : /\ node[t] \in 0 .. NNodes /\ node[t] \in Nat /\ nth[t] \in 0 .. NMax
                        /\ chunk[t] \in Nat /\ seen[t] \in Nat /\ seen[t] <= nPassed
                        /\ after[t] \in {"chunks", "node", "done"}
                        /\ t \in Nat /\ (t # 0 => t \in Workers)
  BY <1>6, <1>8, Zenon
<1>10. \A w \in Workers : last[w] \in Nat /\ last[w] <= nGraph /\ w \in Threads /\ w # 0
  BY <1>3, <1>4
<1> HIDE DEF Threads, Workers
<1> QED BY <1>1, <1>2, <1>3, <1>5, <1>7, <1>9, <1>10, Zenon

\* The variables of the threads are functions.
LEMMA Functions ==
  ASSUME Typed
  PROVE  /\ pc \in [Threads -> Places] /\ node \in [Threads -> 0 .. NNodes]
         /\ nth \in [Threads -> 0 .. NMax] /\ chunk \in [Threads -> Nat] /\ seen \in [Threads -> Nat]
         /\ after \in [Threads -> {"chunks", "node", "done"}]
BY DEF Typed

\* The pool as ggml_threadpool_new leaves it.
LEMMA InitIInv == Init => IInv
<1> SUFFICES ASSUME Init PROVE IInv
  OBVIOUS
<1>1. Typed
  <2>2. nThreads \in 1 .. NMax /\ nGraph \in 0 .. MaxGraphs /\ abort \in 0 .. NoAbort
    /\ nBarrier \in Nat /\ nPassed \in Nat /\ counter \in Nat
    BY DEF Init, NoAbort
  <2>3. /\ pc \in [Threads -> Places]
    /\ pc[0] \in CallerPlaces \union InNode \union InBarrier \union {"ended"}
    /\ \A w \in Workers : pc[w] \in WorkerPlaces \union InNode \union InBarrier \union {"ended"}
    BY DEF Init, Places, CallerPlaces, WorkerPlaces
  <2>4. /\ last \in [Workers -> Nat] /\ node \in [Threads -> 0 .. NNodes]
    /\ nth \in [Threads -> 0 .. NMax] /\ chunk \in [Threads -> Nat] /\ seen \in [Threads -> Nat]
    /\ after \in [Threads -> {"chunks", "node", "done"}]
    BY DEF Init
  <2>5. did \in [0 .. NNodes - 1 -> [0 .. NChunks + NMax -> Nat]]
    BY DEF Init, Blank
  <2>6. \A w \in Workers : last[w] <= nGraph
    BY DEF Init
  <2>7. \A t \in Threads : seen[t] <= nPassed
    BY DEF Init
  <2> QED BY <2>2, <2>3, <2>4, <2>5, <2>6, <2>7 DEF Typed
<1>2. PlacesOK /\ AbortRead /\ NodesAgree /\ Ready
  BY DEF Init, PlacesOK, PlaceOK, AbortRead, AbortReadAt, NodesAgree, Ready, ReadyAt, InNode, InBarrier
<1>3. \A t \in Threads : Stage(t) = Finished
  BY DEF Init, Stage, Taken, Left, Passed, InBarrier
<1>4. InStep
  BY <1>3 DEF InStep
<1>5. {t \in Threads : Waiting(t)} = {}
  BY DEF Init, Waiting
<1>6. BarrierCounts
  BY <1>5, FS_EmptySet DEF Init, BarrierCounts
<1>7. Done
  BY <1>3 DEF Done, RowsOK, NotBegun, AllDone, AtMostOnce, Init, Finished, Blank, Chunks, Empty
<1>8. Flags
  BY DEF Init, Flags
<1> QED
  BY <1>8, <1>1, <1>2, <1>4, <1>6, <1>7 DEF IInv

-----------------------------------------------------------------------------
\* Steps between two graphs

\* A step of the workers between two graphs, or of thread 0 outside a graph.
Same(t) == pc'[t] = pc[t] /\ (t # 0 => last'[t] = last[t])
WorkerMoves(t) ==
       /\ t # 0
       /\ pc[t] \in WorkerPlaces
       /\ \/ pc'[t] \in WorkerPlaces \union {"ended"}
          \/ pc'[t] = "begin" /\ Active(t)
       /\ Active(t) => Stage(t)' = Stage(t)
       /\ last'[t] \in Nat /\ last'[t] <= nGraph
       /\ pc'[t] = "begin" => last'[t] = nGraph
CallerMoves(t) ==
    /\ t = 0
    /\ \/ pc[0] = "wake" /\ pc'[0] = "begin"
       \/ pc[0] = "idle" /\ pc'[0] = "joining"
       \/ pc[0] = "joining" /\ pc'[0] = "ended"
Moves(t) == Same(t) \/ WorkerMoves(t) \/ CallerMoves(t)

\* A step of Moves keeps the invariant: nobody it touches is in a graph or a barrier.
LEMMA Quiet ==
  ASSUME IInv, pc' \in [Threads -> Places], last' \in [Workers -> Nat], Flags',
         UNCHANGED <<nThreads, nGraph, nBarrier, nPassed, counter, abort,
                     node, nth, chunk, seen, after, did>>,
         \A t \in Threads : Moves(t)
  PROVE  IInv'
<1> USE DEF Active
<1>0. Typed /\ PlacesOK /\ InStep /\ BarrierCounts /\ AbortRead /\ NodesAgree /\ Ready /\ Done
  BY DEF IInv
<1>9. 0 \in Threads /\ Active(0)
  BY <1>0 DEF Typed
<1>3. \A t \in Threads : pc'[t] # pc[t] =>
        /\ pc[t] \notin InBarrier \union InNode
        /\ pc'[t] \notin InBarrier \union (InNode \ {"begin"})
  <2> SUFFICES ASSUME NEW t \in Threads, pc'[t] # pc[t]
               PROVE  /\ pc[t] \notin InBarrier \union InNode
                      /\ pc'[t] \notin InBarrier \union (InNode \ {"begin"})
    OBVIOUS
  <2>1. CASE WorkerMoves(t)
    BY <2>1 DEF WorkerMoves, InBarrier, InNode, WorkerPlaces
  <2>2. CASE CallerMoves(t)
    BY <2>2 DEF CallerMoves, InBarrier, InNode
  <2> QED BY <2>1, <2>2 DEF Moves, Same
<1>12. \A w \in Workers : last'[w] <= nGraph /\ pc'[w] \in WorkerPlaces \union InNode \union InBarrier \union {"ended"}
  <2> SUFFICES ASSUME NEW w \in Workers PROVE last'[w] <= nGraph /\ pc'[w] \in WorkerPlaces \union InNode \union InBarrier \union {"ended"}
    OBVIOUS
  <2>1. w \in Threads /\ w # 0
    OBVIOUS
  <2>2. CASE Same(w)
    BY <1>0, <2>1, <2>2 DEF Same, Typed
  <2>3. CASE WorkerMoves(w)
    BY <2>3 DEF WorkerMoves, InNode
  <2> QED BY <2>1, <2>2, <2>3 DEF Moves, CallerMoves
<1>13. pc'[0] \in CallerPlaces \union InNode \union InBarrier \union {"ended"}
  <2>2. CASE Same(0)
    BY <1>0, <2>2 DEF Same, Typed
  <2>3. CASE CallerMoves(0)
    BY <2>3 DEF CallerMoves, InNode, CallerPlaces
  <2> QED BY <1>9, <2>2, <2>3 DEF Moves, WorkerMoves
<1>1. Typed'
  BY <1>0, <1>12, <1>13 DEF Typed
<1>14. pc'[0] = "publish" <=> pc[0] = "publish"
  <2>1. Same(0) \/ CallerMoves(0)
    BY <1>9 DEF Moves, WorkerMoves
  <2> QED BY <2>1 DEF Same, CallerMoves
<1>2. \A t \in Threads : Active(t) => Stage(t)' = Stage(t)
  <2> SUFFICES ASSUME NEW t \in Threads, Active(t) PROVE Stage(t)' = Stage(t)
    OBVIOUS
  <2>1. CASE Same(t)
    BY <1>14, <2>1 DEF Same, Stage, Taken, Left, Passed, Straight, Before
  <2>2. CASE WorkerMoves(t)
    BY <2>2 DEF WorkerMoves
  <2>3. CASE CallerMoves(t)
    BY <2>3 DEF CallerMoves, Stage, Taken, InBarrier
  <2> QED BY <2>1, <2>2, <2>3 DEF Moves
<1>4. PlacesOK'
  <2> SUFFICES ASSUME NEW t \in Threads PROVE PlaceOK(t)'
    BY DEF PlacesOK
  <2>1. CASE Same(t)
    <3>1. PlaceOK(t)
      BY <1>0 DEF PlacesOK
    <3>2. Left(t)' <=> Left(t)
      BY <2>1 DEF Same, Left, Passed
    <3>3. pc'[t] = pc[t] /\ (t # 0 => last'[t] = last[t])
      BY <2>1 DEF Same
    <3> QED BY <3>1, <3>2, <3>3 DEF PlaceOK
  <2>2. CASE WorkerMoves(t)
    BY <2>2 DEF PlaceOK, WorkerMoves, InBarrier, InNode, WorkerPlaces
  <2>3. CASE CallerMoves(t)
    BY <2>3, <1>9 DEF PlaceOK, CallerMoves, InBarrier, InNode
  <2> QED BY <2>1, <2>2, <2>3 DEF Moves
<1>5. InStep'
  BY <1>0, <1>2, <1>9 DEF InStep
<1>6. \A t \in Threads : Waiting(t)' <=> Waiting(t)
  BY <1>3 DEF Waiting, InBarrier
<1>7. BarrierCounts'
  <2>1. {t \in Threads : Waiting(t)}' = {t \in Threads : Waiting(t)}
    BY <1>6
  <2>2. (\E t \in Threads : pc'[t] = "release") <=> (\E t \in Threads : pc[t] = "release")
    BY <1>3 DEF InBarrier
  <2>3. \A t, u \in Threads : pc'[t] \in {"reset", "release"} /\ Active(u) =>
            Waiting(u)' /\ (u # t => pc'[u] = "spin")
    BY <1>0, <1>6, <1>3 DEF BarrierCounts, InBarrier
  <2> QED
    BY <1>0, <2>1, <2>2, <2>3 DEF BarrierCounts
<1>8. AbortRead' /\ Ready'
  BY <1>0, <1>3 DEF AbortRead, Ready, AbortReadAt, ReadyAt, Passed
<1>10. NodesAgree'
  BY <1>0, <1>2, <1>9, <1>14 DEF NodesAgree
<1>11. Done'
  <2>1. \A t \in Threads : Holds(t)' <=> Holds(t)
    BY <1>3 DEF Holds, Passed, InNode, InBarrier
  <2>2. \A k \in 0 .. NNodes - 1 : (Full(k) => Full(k)') /\ (Empty(k) => Empty(k)')
    BY DEF Full, Empty
  <2>3. \A k \in 0 .. NNodes - 1 : HandedOut(k) => HandedOut(k)'
    BY <2>1 DEF HandedOut
  <2>4. Stage(0)' = Stage(0)
    BY <1>2, <1>9
  <2>5. pc'[0] \in {"kickoff", "publish", "idle", "spin"} => pc'[0] = pc[0]
    <3>1. Same(0) \/ CallerMoves(0)
      BY <1>9 DEF Moves, WorkerMoves
    <3> QED BY <3>1 DEF Same, CallerMoves
  <2>6. RowsOK'
    <3>1. ASSUME NEW k \in 0 .. NNodes - 1, RowOK(k) PROVE RowOK(k)'
      <4>1. (Full(k) => Full(k)') /\ (Empty(k) => Empty(k)') /\ (HandedOut(k) => HandedOut(k)')
        BY <2>2, <2>3
      <4> QED BY <3>1, <4>1, <2>4 DEF RowOK
    <3> QED BY <1>0, <2>4, <3>1 DEF Done, RowsOK, Finished
  <2>7. NotBegun'
    <3>1. NotBegun
      BY <1>0 DEF Done
    <3>2. pc'[0] \in {"kickoff", "publish"} => pc[0] \in {"kickoff", "publish"}
      BY <2>5
    <3> QED BY <3>1, <3>2, <2>2 DEF NotBegun
  <2>8. AllDone'
    <3>0. node[0] \in 0 .. NNodes
      <4>1. node \in [Threads -> 0 .. NNodes]
        BY <1>0 DEF Typed
      <4> QED BY <4>1, <1>9
    <3>1. \A k \in 0 .. node[0] - 1 : k \in 0 .. NNodes - 1
      BY <3>0
    <3>2. node'[0] = node[0] /\ nGraph' = nGraph /\ Finished' = Finished
      BY DEF Finished
    <3>3. AllDone
      BY <1>0 DEF Done
    <3>4. CASE pc'[0] \in {"idle", "spin"}
      <4>1. pc'[0] = pc[0]
        BY <2>5, <3>4
      <4> QED BY <4>1, <3>1, <3>2, <3>3, <2>2, <2>4 DEF AllDone
    <3> QED BY <3>4 DEF AllDone
  <2>9. AtMostOnce'
    BY <1>0 DEF Done, AtMostOnce, Chunks
  <2> QED
    BY <2>6, <2>7, <2>8, <2>9 DEF Done
<1> QED
  BY <1>1, <1>4, <1>5, <1>7, <1>8, <1>10, <1>11 DEF IInv

\* Where a worker is between two graphs decides its stage.
LEMMA WorkerStage ==
  ASSUME NEW w \in Workers, pc[w] \in WorkerPlaces \union {"ended"}
  PROVE  Stage(w) = IF Taken(w) THEN Finished ELSE 0
BY DEF Stage, Taken, WorkerPlaces, InBarrier

\* ggml_graph_compute_secondary_thread outside a graph: polling, sleeping, taking one.
LEMMA WorkerSteps ==
  ASSUME IInv, NEW w \in Workers, Between(w), torn' = FALSE
  PROVE  IInv'
<1>0. Typed /\ Flags /\ PlaceOK(w) /\ w \in Threads /\ w # 0
  BY DEF IInv, PlacesOK
<1>1. /\ pc \in [Threads -> Places] /\ last \in [Workers -> Nat] /\ last[w] \in Nat
      /\ last[w] <= nGraph /\ nGraph \in Nat
  BY <1>0, Types
<1>2. /\ UNCHANGED <<nThreads, nGraph, nBarrier, nPassed, counter, stop, pause, abort,
                     node, nth, chunk, seen, after, did>>
      /\ pc[w] \in WorkerPlaces
      /\ pc' = [pc EXCEPT ![w] = pc'[w]]
      /\ last' = [last EXCEPT ![w] = last'[w]]
      /\ \/ pc'[w] \in (WorkerPlaces \ {"width"}) \union {"ended"} /\ last'[w] = last[w] /\ pc[w] # "width"
         \/ nGraph = last[w] /\ last'[w] = nGraph /\ pc[w] # "width" /\ pc'[w] \in (WorkerPlaces \ {"width"})
         \/ nGraph # last[w] /\ last'[w] = nGraph /\ pc[w] # "width" /\ pc'[w] = "width"
         \/ /\ nGraph # last[w] /\ last'[w] = nGraph /\ pc[w] # "width" /\ pc'[w] = "begin"
            /\ Active(w) /\ pc[0] # "publish"
         \/ ~Active(w) /\ last'[w] \in {nGraph, last[w]} /\ pc'[w] \in (WorkerPlaces \ {"width"})
         \/ /\ Active(w) /\ last'[w] = nGraph /\ last[w] = nGraph /\ pc[w] = "width" /\ pc'[w] = "begin"
            /\ pc[0] # "publish"
  <2> USE <1>0, <1>1 DEF shared, barrier, local, Go, WorkerPlaces
  <2>1. CASE TestPause(w) BY <2>1 DEF TestPause
  <2>2. CASE SleepPaused(w) BY <2>2 DEF SleepPaused
  <2>3. CASE TestStop(w) BY <2>3 DEF TestStop
  <2>4. CASE Look(w) BY <2>4 DEF Look
  <2>5. CASE PollFlags(w) BY <2>5 DEF PollFlags
  <2>6. CASE PollGraph(w) BY <2>6 DEF PollGraph
  <2>7. CASE PollWidth(w) BY <2>7 DEF PollWidth, Stale
  <2>8. CASE PollOver(w) BY <2>8 DEF PollOver
  <2>9. CASE Check(w) 
    <3>1. CASE stop \/ pause BY <3>1, <2>9 DEF Check
    <3>2. CASE ~(stop \/ pause) /\ nGraph = last[w] BY <3>2, <2>9 DEF Check
    <3>3. CASE ~(stop \/ pause) /\ nGraph # last[w] BY <3>3, <2>9 DEF Check, MutexFree
    <3> QED BY <3>1, <3>2, <3>3
  <2> QED BY <2>1, <2>2, <2>3, <2>4, <2>5, <2>6, <2>7, <2>8, <2>9 DEF Between
<1>3. pc'[w] \in WorkerPlaces \union {"ended", "begin"} /\ last'[w] \in Nat /\ last'[w] <= nGraph
  BY <1>1, <1>2 DEF WorkerPlaces
<1>4. pc' \in [Threads -> Places] /\ last' \in [Workers -> Nat]
  BY <1>0, <1>1, <1>2, <1>3 DEF Places, InNode
<1>5. Active(w) => Stage(w)' = Stage(w)
  <2>1. /\ Stage(w) = IF Taken(w) THEN Finished ELSE 0
        /\ Taken(w) <=> pc[0] = "publish" \/ (last[w] = nGraph /\ pc[w] # "width")
    BY <1>0, <1>2, WorkerStage DEF Taken
  <2>2. nGraph' = nGraph /\ (Active(w)' <=> Active(w)) /\ pc'[0] = pc[0]
    BY <1>0, <1>1, <1>2 DEF Active
  <2>3. CASE pc'[w] = "begin"
    <3>1. Stage(w)' = 0
      BY <2>3 DEF Stage
    <3> QED BY <3>1, <2>1, <1>2, <2>3 DEF WorkerPlaces
  <2>4. CASE pc'[w] # "begin"
    <3>1. pc'[w] \in WorkerPlaces \union {"ended"}
      BY <1>3, <2>4
    <3>2. Stage(w)' = IF Taken(w)' THEN Finished ELSE 0
      BY <3>1 DEF Stage, WorkerPlaces, InBarrier, Finished
    <3>3. Taken(w)' <=> pc'[0] = "publish" \/ (last'[w] = nGraph' /\ pc'[w] # "width")
      BY <1>0 DEF Taken
    <3>4. ASSUME Active(w) PROVE Taken(w)' <=> Taken(w)
      BY <3>3, <3>4, <2>1, <2>2, <1>2, <2>4
    <3> QED BY <3>2, <3>4, <2>1
  <2> QED BY <2>3, <2>4
<1>6. WorkerMoves(w)
  <2>1. pc'[w] \in WorkerPlaces \union {"ended"} \/ (pc'[w] = "begin" /\ Active(w))
    BY <1>2 DEF WorkerPlaces
  <2>2. pc'[w] = "begin" => last'[w] = nGraph
    BY <1>2 DEF WorkerPlaces
  <2> QED BY <2>1, <2>2, <1>0, <1>2, <1>3, <1>5 DEF WorkerMoves
<1>7. \A t \in Threads : t # w => Same(t)
  BY <1>1, <1>2 DEF Same
<1>8. \A t \in Threads : Moves(t)
  BY <1>6, <1>7 DEF Moves
<1>9. Flags'
  BY <1>0, <1>2 DEF Flags
<1> QED BY <1>2, <1>4, <1>8, <1>9, Quiet

\* The calls of thread 0 that wake the sleepers: the end of the kickoff, pause, resume
\* and free; and the join.
LEMMA CallerSteps ==
  ASSUME IInv, WakeAll \/ Pause \/ Resume \/ Free \/ Join
  PROVE  IInv'
<1>0. Typed /\ Flags
  BY DEF IInv
<1>1. pc \in [Threads -> Places] /\ last \in [Workers -> Nat] /\ nGraph \in Nat /\ 0 \in Threads
      /\ \A w \in Workers : last[w] \in Nat /\ last[w] <= nGraph /\ w \in Threads /\ w # 0
  BY <1>0, Types
<1>2. UNCHANGED <<nThreads, nGraph, nBarrier, nPassed, counter, abort,
                  last, node, nth, chunk, seen, after, did>>
  BY DEF WakeAll, Pause, Resume, Free, Join, Go, shared, barrier, local
<1>3. Flags'
  BY <1>0 DEF Flags, WakeAll, Pause, Resume, Free, Join, Go, shared
<1>4. /\ pc' \in [Threads -> Places]
      /\ \A t \in Threads : t # 0 => pc'[t] \in {pc[t], Woken(pc)[t]}
      /\ \/ pc'[0] = pc[0] \/ (pc'[0] = Woken(pc)[0] /\ pc[0] = "idle")
         \/ pc[0] = "wake" /\ pc'[0] = "begin"
         \/ pc[0] = "idle" /\ pc'[0] = "joining"
         \/ pc[0] = "joining" /\ pc'[0] = "ended"
  <2>1. Woken(pc) \in [Threads -> Places]
    <3>1. \A t \in Threads : pc[t] \in Places
      BY <1>1
    <3>2. "top" \in Places /\ "checking" \in Places
      BY DEF Places, WorkerPlaces
    <3> QED BY <3>1, <3>2 DEF Woken
  <2>2. "begin" \in Places /\ "joining" \in Places /\ "ended" \in Places
    BY DEF Places, InNode, CallerPlaces
  <2>3. CASE WakeAll BY <1>1, <2>1, <2>2, <2>3 DEF WakeAll
  <2>4. CASE Pause BY <1>1, <2>1, <2>2, <2>4 DEF Pause
  <2>5. CASE Resume BY <1>1, <2>1, <2>2, <2>5 DEF Resume
  <2>6. CASE Free BY <1>1, <2>1, <2>2, <2>6 DEF Free
  <2>7. CASE Join BY <1>1, <2>1, <2>2, <2>7 DEF Join, Go
  <2> QED BY <2>3, <2>4, <2>5, <2>6, <2>7
<1>5. Moves(0)
  <2>1. Woken(pc)[0] = pc[0] \/ pc[0] # "idle"
    BY <1>1 DEF Woken
  <2> QED BY <1>2, <1>4, <2>1 DEF Moves, Same, CallerMoves
<1>6. ASSUME NEW w \in Workers PROVE Moves(w)
  <2>1. pc'[w] = pc[w] \/ (pc[w] = "paused" /\ pc'[w] = "top") \/ (pc[w] = "sleeping" /\ pc'[w] = "checking")
    BY <1>1, <1>4 DEF Woken
  <2>2. CASE pc'[w] = pc[w]
    BY <1>2, <2>2 DEF Moves, Same
  <2>3. CASE pc[w] \in {"paused", "sleeping"} /\ pc'[w] \in {"top", "checking"}
    <3>0. pc'[0] = "publish" <=> pc[0] = "publish"
      BY <1>1, <1>4 DEF Woken
    <3>1. Stage(w)' = Stage(w)
      BY <1>2, <2>3, <1>1, <3>0 DEF Stage, Taken, InBarrier, Finished
    <3> QED BY <1>1, <1>2, <2>3, <3>1 DEF Moves, WorkerMoves, WorkerPlaces
  <2> QED BY <2>1, <2>2, <2>3
<1>7. \A t \in Threads : Moves(t)
  BY <1>5, <1>6
<1> QED BY <1>1, <1>2, <1>3, <1>4, <1>7, Quiet

-----------------------------------------------------------------------------
\* Steps of one thread in a graph

\* A step of thread t that leaves the other threads, and what they compare, alone.
Only(t) ==
    /\ pc' = [pc EXCEPT ![t] = pc'[t]] /\ node' = [node EXCEPT ![t] = node'[t]]
    /\ nth' = [nth EXCEPT ![t] = nth'[t]] /\ chunk' = [chunk EXCEPT ![t] = chunk'[t]]
    /\ seen' = [seen EXCEPT ![t] = seen'[t]] /\ after' = [after EXCEPT ![t] = after'[t]]
    /\ UNCHANGED <<nThreads, nGraph, last, stop, pause>>
    /\ pc'[0] = "publish" <=> pc[0] = "publish"
FitsAt(t) ==
    /\ pc'[t] \in InNode \union InBarrier \union {Home(t)}
    /\ node'[t] \in 0 .. NNodes /\ nth'[t] \in 0 .. NMax /\ chunk'[t] \in Nat
    /\ seen'[t] \in Nat /\ seen'[t] <= nPassed' /\ after'[t] \in {"chunks", "node", "done"}
Fits ==
    /\ abort' \in 0 .. NoAbort /\ nBarrier' \in Nat /\ nPassed' \in Nat /\ nPassed <= nPassed'
    /\ counter' \in Nat /\ did' \in [0 .. NNodes - 1 -> [0 .. NChunks + NMax -> Nat]]

\* A step of thread t changes nothing of another thread u.
LEMMA Others ==
  ASSUME Typed, NEW t \in Threads, Only(t), NEW u \in Threads, u # t
  PROVE  /\ pc'[u] = pc[u] /\ node'[u] = node[u] /\ nth'[u] = nth[u] /\ chunk'[u] = chunk[u]
         /\ seen'[u] = seen[u] /\ after'[u] = after[u]
         /\ nThreads' = nThreads /\ nGraph' = nGraph /\ last' = last
<1>1. pc \in [Threads -> Places] /\ node \in [Threads -> 0 .. NNodes]
  BY Types
<1>2. /\ nth \in [Threads -> 0 .. NMax] /\ chunk \in [Threads -> Nat] /\ seen \in [Threads -> Nat]
      /\ after \in [Threads -> {"chunks", "node", "done"}]
  BY DEF Typed
<1> QED BY <1>1, <1>2 DEF Only

\* ... nor what the invariant says of u, as long as no barrier opens.
LEMMA OthersSame ==
  ASSUME Typed, NEW t \in Threads, Only(t), nPassed' = nPassed, NEW u \in Threads, u # t
  PROVE  /\ Stage(u)' = Stage(u) /\ (PlaceOK(u) => PlaceOK(u)')
         /\ (Waiting(u)' <=> Waiting(u)) /\ (Passed(u)' <=> Passed(u)) /\ (Holds(u)' <=> Holds(u))
         /\ (Active(u)' <=> Active(u))
<1>1. /\ pc'[u] = pc[u] /\ node'[u] = node[u] /\ nth'[u] = nth[u] /\ chunk'[u] = chunk[u]
      /\ seen'[u] = seen[u] /\ after'[u] = after[u]
      /\ nThreads' = nThreads /\ nGraph' = nGraph /\ last' = last
  BY Others
<1>2. Passed(u)' <=> Passed(u)
  BY <1>1 DEF Passed
<1>3. Left(u)' <=> Left(u)
  BY <1>1, <1>2 DEF Left
<1>4. Active(u)' <=> Active(u)
  BY <1>1 DEF Active
<1>5. Stage(u)' = Stage(u)
  <2>1. Straight(u)' = Straight(u)
    BY <1>1 DEF Straight
  <2>2. Before(u)' = Before(u)
    BY <1>1, <2>1 DEF Before
  <2>3. Taken(u)' <=> Taken(u)
    BY <1>1 DEF Taken, Only
  <2>4. Finished' = Finished
    BY DEF Finished
  <2> QED BY <1>1, <1>2, <1>3, <2>1, <2>2, <2>3, <2>4 DEF Stage
<1>6. Waiting(u)' <=> Waiting(u)
  BY <1>1 DEF Waiting
<1>7. Holds(u)' <=> Holds(u)
  BY <1>1, <1>2, <1>4 DEF Holds
<1>8. PlaceOK(u) => PlaceOK(u)'
  BY <1>1, <1>3, <1>4 DEF PlaceOK
<1> QED BY <1>2, <1>4, <1>5, <1>6, <1>7, <1>8

\* ... and keeps the types, when what it gives t and the shared variables fits.
LEMMA StaysTyped ==
  ASSUME Typed, NEW t \in Threads, Only(t), FitsAt(t), Fits
  PROVE  Typed'
<1>1. /\ nThreads' \in 1 .. NMax /\ nGraph' \in 0 .. MaxGraphs /\ abort' \in 0 .. NoAbort
      /\ nBarrier' \in Nat /\ nPassed' \in Nat /\ counter' \in Nat
  BY DEF Typed, Only, Fits
<1>2. /\ pc \in [Threads -> Places] /\ last \in [Workers -> Nat] /\ node \in [Threads -> 0 .. NNodes]
      /\ nth \in [Threads -> 0 .. NMax] /\ chunk \in [Threads -> Nat] /\ seen \in [Threads -> Nat]
      /\ after \in [Threads -> {"chunks", "node", "done"}]
      /\ \A w \in Workers : last[w] <= nGraph
      /\ \A u \in Threads : seen[u] <= nPassed
  BY DEF Typed
<1>3. pc' \in [Threads -> Places]
  <2>1. pc'[t] \in Places
    BY DEF FitsAt, Places, Home, CallerPlaces, WorkerPlaces
  <2> QED BY <2>1, <1>2 DEF Only
<1>4. pc'[0] \in CallerPlaces \union InNode \union InBarrier \union {"ended"}
  <2>1. CASE t = 0
    BY <2>1 DEF FitsAt, Home, CallerPlaces
  <2>2. CASE t # 0
    <3>1. pc'[0] = pc[0]
      BY <2>2, Others, Types
    <3> QED BY <3>1 DEF Typed
  <2> QED BY <2>1, <2>2
<1>5. \A w \in Workers : pc'[w] \in WorkerPlaces \union InNode \union InBarrier \union {"ended"}
  <2> SUFFICES ASSUME NEW w \in Workers
               PROVE  pc'[w] \in WorkerPlaces \union InNode \union InBarrier \union {"ended"}
    OBVIOUS
  <2>1. CASE t = w
    BY <2>1 DEF FitsAt, Home, WorkerPlaces
  <2>2. CASE t # w
    <3>1. pc'[w] = pc[w]
      BY <2>2, Others
    <3> QED BY <3>1 DEF Typed
  <2> QED BY <2>1, <2>2
<1>6. /\ node' \in [Threads -> 0 .. NNodes] /\ nth' \in [Threads -> 0 .. NMax]
      /\ chunk' \in [Threads -> Nat] /\ seen' \in [Threads -> Nat]
      /\ after' \in [Threads -> {"chunks", "node", "done"}]
  BY <1>2 DEF Only, FitsAt
<1>7. \A u \in Threads : seen'[u] <= nPassed'
  <2> SUFFICES ASSUME NEW u \in Threads PROVE seen'[u] <= nPassed'
    OBVIOUS
  <2>1. CASE u = t
    BY <2>1 DEF FitsAt
  <2>2. CASE u # t
    <3>1. seen'[u] = seen[u] /\ seen[u] \in Nat /\ seen[u] <= nPassed /\ nPassed \in Nat
          /\ nPassed' \in Nat /\ nPassed <= nPassed'
      BY <2>2, Others, Types DEF Fits
    <3> QED BY <3>1
  <2> QED BY <2>1, <2>2
<1>8. last' \in [Workers -> Nat] /\ \A w \in Workers : last'[w] <= nGraph'
  BY <1>2 DEF Only
<1>9. did' \in [0 .. NNodes - 1 -> [0 .. NChunks + NMax -> Nat]]
  BY DEF Fits
<1> QED BY <1>1, <1>3, <1>4, <1>5, <1>6, <1>7, <1>8, <1>9 DEF Typed

\* In a product no thread waits that is still to read abort, or that has converted.
Odd(t) == Active(t) /\ Stage(t) = 2 * node[t] + 1

\* Nobody at a barrier is to read abort, or has converted, while a product is computed.
LEMMA NobodyReads ==
  ASSUME Typed, PlacesOK, InStep, NEW t \in Threads, Odd(t),
         NEW u \in Threads, pc[u] \in InBarrier, ~Passed(u)
  PROVE  after[u] # "chunks" /\ (after[u] = "done" => node[u] = NNodes)
<1>1. ~Left(u)
  BY DEF Left
<1>2. Active(u) /\ (u # 0 => last[u] = nGraph)
  BY <1>1 DEF PlacesOK, PlaceOK
<1>3. Stage(u) = 2 * node[t] + 1
  BY <1>2 DEF InStep, Odd
<1>4. Taken(u)
  BY <1>2 DEF Taken, InBarrier
<1>5. Stage(u) = Before(u)
  BY <1>1, <1>4 DEF Stage, InBarrier
<1>6. node[u] \in Nat /\ node[t] \in Nat /\ node[u] \in 0 .. NNodes
  BY Types
<1>7. 2 * node[u] # 2 * node[t] + 1
  BY <1>6
<1> QED BY <1>3, <1>5, <1>7, <1>6 DEF Before, Straight

\* ... that keeps its own stage too.
LEMMA Stays ==
  ASSUME IInv, NEW t \in Threads, Only(t), nPassed' = nPassed, FitsAt(t), Fits,
         PlaceOK(t)', Active(t) => Stage(t)' = Stage(t)
  PROVE  /\ Typed' /\ Flags' /\ PlacesOK' /\ InStep' /\ Stage(0)' = Stage(0)
         /\ ~Waiting(t) /\ ~Waiting(t)' /\ nBarrier' = nBarrier => BarrierCounts'
         /\ (abort' = abort \/ Odd(t)) /\ AbortReadAt(t)' => AbortRead'
         /\ (counter' = counter \/ t = 0 \/ Odd(t)) /\ ReadyAt(t)' => Ready'
         /\ Stage(0) # Finished \/ node'[t] = node[t] => NodesAgree'
<1>0. Typed /\ Flags /\ PlacesOK /\ InStep /\ BarrierCounts /\ AbortRead /\ NodesAgree /\ Ready
  BY DEF IInv
<1>1. Typed'
  BY <1>0, StaysTyped
<1>2. Flags'
  BY <1>0 DEF Flags, Only
<1>3. PlacesOK'
  BY <1>0, OthersSame DEF PlacesOK
<1>4. 0 \in Threads /\ Active(0)
  BY <1>0, Types DEF Active
<1>5. nThreads' = nThreads /\ \A u \in Threads : Active(u)' <=> Active(u)
  BY DEF Only, Active
<1>6. \A u \in Threads : Active(u) => Stage(u)' = Stage(u)
  BY <1>0, OthersSame
<1>7. InStep'
  BY <1>0, <1>4, <1>5, <1>6 DEF InStep
<1>8. ASSUME ~Waiting(t), ~Waiting(t)', nBarrier' = nBarrier
      PROVE  BarrierCounts'
  <2>1. \A u \in Threads : Waiting(u)' <=> Waiting(u)
    BY <1>0, <1>8, OthersSame
  <2>2. {u \in Threads : Waiting(u)}' = {u \in Threads : Waiting(u)}
    BY <2>1
  <2>3. pc[t] \notin {"reset", "release"} /\ pc'[t] \notin {"reset", "release"}
    BY <1>8 DEF Waiting
  <2>4. \A u \in Threads : u # t => pc'[u] = pc[u]
    BY <1>0, Others
  <2>5. (\E u \in Threads : pc'[u] = "release") <=> (\E u \in Threads : pc[u] = "release")
    BY <2>3, <2>4
  <2>6. \A x, u \in Threads : pc'[x] \in {"reset", "release"} /\ Active(u)' =>
            Waiting(u)' /\ (u # x => pc'[u] = "spin")
    <3> SUFFICES ASSUME NEW x \in Threads, NEW u \in Threads, pc'[x] \in {"reset", "release"}, Active(u)
                 PROVE  Waiting(u)' /\ (u # x => pc'[u] = "spin")
      BY <1>5
    <3>1. pc[x] \in {"reset", "release"}
      BY <2>3, <2>4
    <3>2. Waiting(u) /\ (u # x => pc[u] = "spin")
      BY <1>0, <3>1 DEF BarrierCounts
    <3>3. u # t
      BY <3>2, <1>8
    <3> QED BY <3>2, <3>3, <2>1, <2>4
  <2> QED BY <1>0, <1>8, <2>2, <2>5, <2>6 DEF BarrierCounts
<1>11. Stage(0) # Finished \/ node'[t] = node[t] => NodesAgree'
  <2>1. CASE Stage(0) # Finished
    BY <2>1, <1>4, <1>6 DEF NodesAgree, Finished
  <2>2. CASE node'[t] = node[t]
    <3>1. \A u \in Threads : node'[u] = node[u]
      BY <2>2, <1>0, Others
    <3> QED BY <3>1, <1>0, <1>4, <1>5, <1>6 DEF NodesAgree, Finished, Only
  <2> QED BY <2>1, <2>2
<1>12. ASSUME abort' = abort \/ Odd(t), AbortReadAt(t)'
       PROVE  AbortRead'
  <2> SUFFICES ASSUME NEW u \in Threads, u # t PROVE AbortReadAt(u)'
    BY <1>12 DEF AbortRead
  <2>1. /\ pc'[u] = pc[u] /\ after'[u] = after[u] /\ node'[u] = node[u]
        /\ (Passed(u)' <=> Passed(u)) /\ AbortReadAt(u)
    BY <1>0, Others, OthersSame DEF AbortRead
  <2>2. CASE abort' = abort
    BY <2>1, <2>2 DEF AbortReadAt
  <2>3. CASE Odd(t)
    <3>1. node[u] \in Nat
      BY <1>0, Types
    <3> QED BY <2>1, <2>3, <1>0, <3>1, NobodyReads DEF AbortReadAt
  <2> QED BY <1>12, <2>2, <2>3
<1>13. ASSUME counter' = counter \/ t = 0 \/ Odd(t), ReadyAt(t)'
       PROVE  Ready'
  <2> SUFFICES ASSUME NEW u \in Threads, u # t PROVE ReadyAt(u)'
    BY <1>13 DEF Ready
  <2>1. /\ pc'[u] = pc[u] /\ after'[u] = after[u] /\ chunk'[u] = chunk[u] /\ nThreads' = nThreads
        /\ (Passed(u)' <=> Passed(u)) /\ ReadyAt(u)
    BY <1>0, Others, OthersSame DEF Ready
  <2>2. CASE counter' = counter \/ t = 0
    BY <2>1, <2>2 DEF ReadyAt
  <2>3. CASE Odd(t)
    BY <2>1, <2>3, <1>0, NobodyReads DEF ReadyAt
  <2> QED BY <1>13, <2>2, <2>3
<1>14. Stage(0)' = Stage(0)
  BY <1>4, <1>6
<1> QED BY <1>1, <1>2, <1>3, <1>7, <1>8, <1>11, <1>12, <1>13, <1>14

\* What did says stays true when no chunk is computed.
LEMMA RowsStay ==
  ASSUME IInv, NEW t \in Threads, Only(t), FitsAt(t), did' = did, Stage(0)' = Stage(0),
         \A k \in 0 .. NNodes - 1 : 2 * k + 1 = Stage(0) /\ HandedOut(k) => HandedOut(k)',
         Stage(0) # Finished \/ t # 0 \/ (pc[0] = "spin" /\ node'[0] = node[0])
  PROVE  Done'
<1>0. Typed /\ RowsOK /\ NotBegun /\ AllDone /\ AtMostOnce
  BY DEF IInv, Done
<1>1. nThreads' = nThreads /\ nGraph' = nGraph /\ Finished' = Finished
  BY DEF Only, Finished
<1>2. \A k \in 0 .. NNodes - 1 : (Full(k) => Full(k)') /\ (Empty(k) => Empty(k)')
  BY <1>1 DEF Full, Empty, Total, Chunks
<1>3. RowsOK'
  <2>1. ASSUME NEW k \in 0 .. NNodes - 1, RowOK(k) PROVE RowOK(k)'
    <3>1. (Full(k) => Full(k)') /\ (Empty(k) => Empty(k)')
          /\ (2 * k + 1 = Stage(0) /\ HandedOut(k) => HandedOut(k)')
      BY <1>2
    <3> QED BY <2>1, <3>1 DEF RowOK
  <2> QED BY <1>0, <1>1, <2>1 DEF RowsOK
<1>4. pc'[0] \in {"kickoff", "publish"} => pc[0] \in {"kickoff", "publish"}
  <2>1. CASE t = 0
    BY <2>1 DEF FitsAt, InNode, InBarrier, Home
  <2>2. CASE t # 0
    BY <2>2, <1>0, Others, Types
  <2> QED BY <2>1, <2>2
<1>5. NotBegun'
  BY <1>0, <1>1, <1>2, <1>4 DEF NotBegun
<1>6. AllDone'
  <2> SUFFICES ASSUME Stage(0) = Finished, pc'[0] \in {"idle", "spin"}, nGraph > 0
               PROVE  \A k \in 0 .. node'[0] - 1 : Full(k)'
    BY <1>1 DEF AllDone
  <2>1. pc[0] \in {"idle", "spin"} /\ node'[0] = node[0]
    <3>1. CASE t = 0
      BY <3>1
    <3>2. CASE t # 0
      BY <3>2, <1>0, Others, Types
    <3> QED BY <3>1, <3>2
  <2>2. node[0] \in 0 .. NNodes
    BY <1>0, Types
  <2>3. \A k \in 0 .. node[0] - 1 : Full(k) /\ k \in 0 .. NNodes - 1
    BY <1>0, <2>1, <2>2 DEF AllDone
  <2> QED BY <2>1, <2>3, <1>2
<1>7. AtMostOnce'
  BY <1>0 DEF AtMostOnce, Chunks
<1> QED BY <1>3, <1>5, <1>6, <1>7 DEF Done

\* ... and what is handed out, when t holds a chunk as before.
LEMMA HandedOutSame ==
  ASSUME Typed, NEW t \in Threads, Only(t), nPassed' = nPassed, did' = did, counter' = counter,
         chunk'[t] = chunk[t], Holds(t)' <=> Holds(t), NEW k \in 0 .. NNodes - 1, HandedOut(k)
  PROVE  HandedOut(k)'
<1>1. \A u \in Threads : /\ chunk'[u] = chunk[u] /\ (Holds(u)' <=> Holds(u))
                         /\ (Active(u)' <=> Active(u))
  <2>1. Active(t)' <=> Active(t)
    BY DEF Active, Only
  <2> QED BY <2>1, Others, OthersSame
<1>2. nThreads' = nThreads /\ Total(nThreads)' = Total(nThreads)
  BY DEF Only, Total
<1> HIDE DEF Active
<1> QED BY <1>1, <1>2 DEF HandedOut, Chunks

\* A thread in the graph has taken it.
LEMMA InGraph ==
  ASSUME Typed, PlacesOK, NEW t \in Threads, pc[t] \in InNode \union InBarrier, ~Left(t)
  PROVE  Active(t) /\ Taken(t) /\ (t # 0 => last[t] = nGraph)
BY DEF PlacesOK, PlaceOK, Taken, InNode, InBarrier

\* The ways a product is divided.
LEMMA TotalFacts ==
  ASSUME NEW n \in 1 .. NMax
  PROVE  /\ Total(n) \in Nat /\ n <= Total(n) /\ Total(n) <= NChunks + NMax
         /\ Total(n) # n => Total(n) <= NChunks
BY DEF Total

\* The row of the product that is being computed, when t computes a chunk of it.
LEMMA OneChunk ==
  ASSUME Typed, NEW t \in Threads, Holds(t), NEW k \in 0 .. NNodes - 1, HandedOut(k),
         chunk[t] < Total(nThreads), nThreads' = nThreads,
         did'[k] = [did[k] EXCEPT ![chunk[t]] = @ + 1],
         \A u \in Threads : u # t => chunk'[u] = chunk[u] /\ (Holds(u)' <=> Holds(u)),
         \/ ~Holds(t)' /\ chunk'[t] = chunk[t] /\ counter' = counter /\ nThreads >= Total(nThreads)
         \/ Holds(t)' /\ chunk'[t] = counter /\ counter' = counter + 1 /\ nThreads < Total(nThreads)
  PROVE  HandedOut(k)' /\ \A c \in Chunks : did'[k][c] <= 1
<1> DEFINE T == Total(nThreads)
<1>1. /\ nThreads \in 1 .. NMax /\ nThreads \in Nat /\ counter \in Nat
      /\ \A u \in Threads : chunk[u] \in Nat
      /\ did[k] \in [0 .. NChunks + NMax -> Nat]
  BY Types
<1>2. T \in Nat /\ nThreads <= T /\ T <= NChunks + NMax
  BY <1>1, TotalFacts
<1>3. chunk[t] \in Chunks /\ chunk[t] < T
  BY <1>1, <1>2 DEF Chunks
<1>4. T' = T /\ \A u \in Threads : Active(u)' <=> Active(u)
  BY DEF Total, Active
<1>5. Active(t)
  BY DEF Holds
<1> HIDE DEF T
<1>6. /\ nThreads <= counter /\ (T = nThreads => counter = nThreads)
      /\ \A u \in Threads : Active(u) => chunk[u] < counter
      /\ \A u, v \in Threads : Active(u) /\ Active(v) /\ u # v => chunk[u] # chunk[v]
      /\ \A u \in Threads : Active(u) /\ ~Holds(u) => T <= counter
      /\ \A c \in T .. counter - 1 : \E u \in Threads : Active(u) /\ chunk[u] = c
      /\ \A c \in Chunks : did[k][c] =
           IF c < counter /\ c < T /\ ~\E u \in Threads : Holds(u) /\ chunk[u] = c THEN 1 ELSE 0
  BY DEF HandedOut, T
<1>7. \A c \in Chunks : did'[k][c] = IF c = chunk[t] THEN did[k][c] + 1 ELSE did[k][c]
  BY <1>1, <1>3 DEF Chunks
<1>8. did[k][chunk[t]] = 0
  BY <1>3, <1>6
<1>9. \A u \in Threads : u # t /\ Holds(u) => chunk[u] # chunk[t]
  BY <1>5, <1>6 DEF Holds
<1>10. chunk[t] < counter
  BY <1>5, <1>6
<1>11. ASSUME NEW c \in Chunks
       PROVE  did'[k][c] = IF c < counter' /\ c < T /\ ~\E u \in Threads : Holds(u)' /\ chunk'[u] = c
                           THEN 1 ELSE 0
  <2>1. c \in Nat
    BY DEF Chunks
  <2>2. CASE c = chunk[t]
    <3>1. did'[k][c] = 1
      BY <2>2, <1>7, <1>8
    <3>2. ~\E u \in Threads : Holds(u)' /\ chunk'[u] = c
      <4> SUFFICES ASSUME NEW u \in Threads, Holds(u)', chunk'[u] = c PROVE FALSE
        OBVIOUS
      <4>1. CASE u # t
        BY <4>1, <2>2, <1>9
      <4>2. CASE u = t
        BY <4>2, <2>2, <1>10, <1>1
      <4> QED BY <4>1, <4>2
    <3>3. c < counter' /\ c < T
      BY <2>2, <1>10, <1>3, <1>1
    <3> QED BY <3>1, <3>2, <3>3
  <2>3. CASE c # chunk[t]
    <3>1. did'[k][c] = did[k][c]
      BY <2>3, <1>7
    <3>2. CASE ~Holds(t)' /\ chunk'[t] = chunk[t] /\ counter' = counter
      <4>1. (\E u \in Threads : Holds(u)' /\ chunk'[u] = c) <=> (\E u \in Threads : Holds(u) /\ chunk[u] = c)
        BY <3>2, <2>3
      <4> QED BY <3>1, <3>2, <4>1, <1>6
    <3>3. CASE Holds(t)' /\ chunk'[t] = counter /\ counter' = counter + 1
      <4>1. CASE c = counter
        <5>1. \E u \in Threads : Holds(u)' /\ chunk'[u] = c
          BY <3>3, <4>1
        <5>2. did[k][c] = 0
          BY <4>1, <1>6, <1>1
        <5> QED BY <3>1, <5>1, <5>2
      <4>2. CASE c # counter
        <5>1. (\E u \in Threads : Holds(u)' /\ chunk'[u] = c) <=> (\E u \in Threads : Holds(u) /\ chunk[u] = c)
          BY <3>3, <4>2, <2>3
        <5>2. c < counter + 1 <=> c < counter
          BY <4>2, <2>1, <1>1
        <5> QED BY <3>1, <3>3, <5>1, <5>2, <1>6
      <4> QED BY <4>1, <4>2
    <3> QED BY <3>2, <3>3
  <2> QED BY <2>2, <2>3
<1>12. \A c \in Chunks : did'[k][c] <= 1
  BY <1>11
<1>13. nThreads' <= counter' /\ (T' = nThreads' => counter' = nThreads')
  BY <1>1, <1>2, <1>4, <1>6 DEF T
<1>14. \A u \in Threads : Active(u) => chunk'[u] < counter'
  <2> SUFFICES ASSUME NEW u \in Threads, Active(u) PROVE chunk'[u] < counter'
    OBVIOUS
  <2>1. chunk[u] < counter /\ chunk[u] \in Nat
    BY <1>1, <1>6
  <2>2. CASE u # t
    BY <2>1, <2>2, <1>1
  <2>3. CASE u = t
    BY <2>1, <2>3, <1>1
  <2> QED BY <2>2, <2>3
<1>15. \A u, v \in Threads : Active(u) /\ Active(v) /\ u # v => chunk'[u] # chunk'[v]
  <2> SUFFICES ASSUME NEW u \in Threads, NEW v \in Threads, Active(u), Active(v), u # v
               PROVE  chunk'[u] # chunk'[v]
    OBVIOUS
  <2>1. chunk[u] # chunk[v] /\ chunk[u] < counter /\ chunk[v] < counter
    BY <1>6
  <2>2. CASE chunk'[t] = chunk[t]
    BY <2>1, <2>2
  <2>3. CASE chunk'[t] = counter
    BY <2>1, <2>3, <1>1
  <2> QED BY <2>2, <2>3
<1>16. \A u \in Threads : Active(u) /\ ~Holds(u)' => T <= counter'
  <2> SUFFICES ASSUME NEW u \in Threads, Active(u), ~Holds(u)' PROVE T <= counter'
    OBVIOUS
  <2>1. CASE nThreads >= Total(nThreads)
    <3>1. T = nThreads
      BY <2>1, <1>1, <1>2 DEF T
    <3> QED BY <3>1, <1>13, <1>1, <1>4
  <2>2. CASE Holds(t)' /\ counter' = counter + 1
    <3>1. T <= counter
      BY <2>2, <1>6
    <3> QED BY <3>1, <2>2, <1>1, <1>2
  <2> QED BY <2>1, <2>2
<1>17. \A c \in T .. counter' - 1 : \E u \in Threads : Active(u) /\ chunk'[u] = c
  <2> SUFFICES ASSUME NEW c \in T .. counter' - 1 PROVE \E u \in Threads : Active(u) /\ chunk'[u] = c
    OBVIOUS
  <2>1. CASE c \in T .. counter - 1
    <3>1. PICK u \in Threads : Active(u) /\ chunk[u] = c
      BY <2>1, <1>6
    <3>2. u # t
      BY <3>1, <2>1, <1>3, <1>2, <1>1
    <3> QED BY <3>1, <3>2
  <2>2. CASE c \notin T .. counter - 1
    <3>1. c = counter /\ chunk'[t] = counter
      BY <2>2, <1>1, <1>2
    <3> QED BY <3>1, <1>5
  <2> QED BY <2>1, <2>2
<1>18. Chunks' = Chunks /\ T' = Total(nThreads)'
  BY DEF Chunks, T
<1> HIDE DEF Active
<1> QED BY <1>4, <1>11, <1>12, <1>13, <1>14, <1>15, <1>16, <1>17, <1>18 DEF HandedOut

\* A thread computes a chunk and takes the next.
LEMMA MultiplyStep ==
  ASSUME IInv, NEW t \in Threads, Multiply(t)
  PROVE  IInv'
<1>0. Typed /\ PlacesOK /\ InStep /\ Done /\ t \in Threads
  BY DEF IInv
<1>1. /\ pc[t] = "chunks" /\ node'[t] = node[t] /\ nth'[t] = nth[t]
      /\ chunk[t] < Total(nth[t])
      /\ seen'[t] = seen[t] /\ after'[t] = after[t]
      /\ UNCHANGED <<nThreads, nGraph, last, stop, pause, nPassed, nBarrier, abort>>
      /\ did' = [did EXCEPT ![node[t]][chunk[t]] = @ + 1]
      /\ Only(t)
  BY <1>0, Functions DEF Multiply, Only, barrier
<1>21. \/ pc'[t] = "finish" /\ chunk'[t] = chunk[t] /\ counter' = counter /\ nth[t] >= Total(nth[t])
       \/ pc'[t] = "chunks" /\ chunk'[t] = counter /\ counter' = counter + 1 /\ ~(nth[t] >= Total(nth[t]))
  BY <1>0, Functions DEF Multiply
<1>2. ~Left(t) /\ Active(t) /\ Taken(t) /\ (t # 0 => last[t] = nGraph)
  <2>1. ~Left(t)
    BY <1>1 DEF Left, Passed
  <2> QED BY <1>0, <1>1, <2>1, InGraph DEF InNode
<1>12. nth[t] = nThreads /\ node[t] < NNodes
  BY <1>0, <1>1, <1>2 DEF PlacesOK, PlaceOK, InNode
<1>3. /\ nThreads \in 1 .. NMax /\ node[t] \in Nat /\ node[t] \in 0 .. NNodes /\ chunk[t] \in Nat
      /\ seen[t] \in Nat /\ after[t] \in {"chunks", "node", "done"}
      /\ seen[t] <= nPassed /\ nth[t] \in 0 .. NMax
      /\ abort \in 0 .. NoAbort /\ nBarrier \in Nat /\ nPassed \in Nat /\ counter \in Nat
      /\ did \in [0 .. NNodes - 1 -> [0 .. NChunks + NMax -> Nat]]
  BY <1>0, Types DEF Typed
<1>22. node[t] \in 0 .. NNodes - 1 /\ chunk[t] \in 0 .. NChunks + NMax
  <2>1. Total(nThreads) \in Nat /\ Total(nThreads) <= NChunks + NMax
    BY <1>3, TotalFacts
  <2>2. chunk[t] < Total(nThreads)
    BY <1>1, <1>12
  <2>3. chunk[t] \in Nat /\ node[t] \in Nat
    BY <1>3
  <2> QED BY <2>1, <2>2, <2>3, <1>12
<1>23. /\ did'[node[t]] = [did[node[t]] EXCEPT ![chunk[t]] = @ + 1]
       /\ \A k \in 0 .. NNodes - 1 : k # node[t] => did'[k] = did[k]
       /\ did' \in [0 .. NNodes - 1 -> [0 .. NChunks + NMax -> Nat]]
  <2>1. did \in [0 .. NNodes - 1 -> [0 .. NChunks + NMax -> Nat]]
    BY <1>3
  <2>2. did' = [did EXCEPT ![node[t]] = [did[node[t]] EXCEPT ![chunk[t]] = did[node[t]][chunk[t]] + 1]]
    BY <1>1
  <2>3. [did[node[t]] EXCEPT ![chunk[t]] = did[node[t]][chunk[t]] + 1] \in [0 .. NChunks + NMax -> Nat]
    <3>1. did[node[t]] \in [0 .. NChunks + NMax -> Nat]
      BY <2>1, <1>22
    <3>2. did[node[t]][chunk[t]] + 1 \in Nat
      BY <3>1, <1>22
    <3> QED BY <3>1, <3>2
  <2> QED BY <2>1, <2>2, <2>3, <1>22
<1>4. FitsAt(t) /\ Fits
  <2>1. pc'[t] \in InNode /\ chunk'[t] \in Nat /\ counter' \in Nat
    BY <1>21, <1>3 DEF InNode
  <2>2. FitsAt(t)
    BY <2>1, <1>1, <1>3 DEF FitsAt
  <2>3. did' \in [0 .. NNodes - 1 -> [0 .. NChunks + NMax -> Nat]]
    BY <1>23
  <2>4. nBarrier' = nBarrier /\ nPassed' = nPassed /\ abort' = abort
    BY <1>1
  <2>5. abort \in 0 .. NoAbort /\ nBarrier \in Nat /\ nPassed \in Nat
    BY <1>3
  <2> QED BY <2>1, <2>2, <2>3, <2>4, <2>5 DEF Fits
<1>24. pc'[t] \in {"chunks", "finish"}
  BY <1>21
<1>5. PlaceOK(t)'
  BY <1>1, <1>2, <1>12, <1>24 DEF PlaceOK, InBarrier, Active
<1>6. Stage(t)' = Stage(t) /\ Stage(t) = 2 * node[t] + 1
  <2>2. Taken(t)'
    BY <1>1, <1>2, <1>24 DEF Taken
  <2> QED BY <2>2, <1>1, <1>2, <1>24 DEF Stage
<1>7. AbortReadAt(t)' /\ ReadyAt(t)' /\ ~Waiting(t) /\ ~Waiting(t)'
  BY <1>1, <1>24 DEF AbortReadAt, ReadyAt, Waiting, InBarrier
<1>8. Stage(0) = 2 * node[t] + 1 /\ 2 * node[t] + 1 # Finished /\ Odd(t) /\ Stage(0) < Finished
  <2>1. Stage(0) = 2 * node[t] + 1
    BY <1>0, <1>2, <1>6 DEF InStep
  <2>2. node[t] \in Nat
    BY <1>3
  <2> QED BY <2>1, <2>2, <1>2, <1>6, <1>12 DEF Finished, Odd
<1>9. Typed' /\ Flags' /\ PlacesOK' /\ InStep' /\ Stage(0)' = Stage(0) /\ BarrierCounts'
      /\ AbortRead' /\ Ready' /\ NodesAgree'
  BY <1>1, <1>4, <1>5, <1>6, <1>7, <1>8, Stays
<1>25. RowOK(node[t]) /\ HandedOut(node[t])
  BY <1>0, <1>8, <1>22 DEF Done, RowsOK, RowOK
<1>26. ASSUME NEW k \in 0 .. NNodes - 1, k = node[t]
       PROVE  HandedOut(k)' /\ \A c \in Chunks : did'[k][c] <= 1
  <2>1. Holds(t) /\ nThreads' = nThreads /\ chunk[t] < Total(nThreads)
    BY <1>1, <1>2, <1>12 DEF Holds
  <2>2. \A u \in Threads : u # t => chunk'[u] = chunk[u] /\ (Holds(u)' <=> Holds(u))
    BY <1>0, <1>1, Others, OthersSame
  <2>3. Active(t)'
    BY <1>1, <1>2 DEF Active
  <2>4. \/ ~Holds(t)' /\ chunk'[t] = chunk[t] /\ counter' = counter /\ nThreads >= Total(nThreads)
        \/ Holds(t)' /\ chunk'[t] = counter /\ counter' = counter + 1 /\ nThreads < Total(nThreads)
    <3>1. CASE pc'[t] = "finish"
      <4>1. ~Holds(t)'
        BY <3>1 DEF Holds, Passed
      <4> QED BY <4>1, <3>1, <1>21, <1>12
    <3>2. CASE pc'[t] = "chunks"
      <4>1. Holds(t)'
        BY <3>2, <2>3 DEF Holds
      <4>2. Total(nThreads) \in Nat
        BY <1>3, TotalFacts
      <4> QED BY <4>1, <4>2, <3>2, <1>21, <1>12, <1>3
    <3> QED BY <3>1, <3>2, <1>21
  <2>5. did'[k] = [did[k] EXCEPT ![chunk[t]] = @ + 1] /\ HandedOut(k)
    BY <1>23, <1>25, <1>26
  <2> QED BY <2>1, <2>2, <2>4, <2>5, <1>0, OneChunk
<1>10. Done'
  <2>1. \A k \in 0 .. NNodes - 1 : k # node[t] =>
          (Full(k) => Full(k)') /\ (Empty(k) => Empty(k)')
    BY <1>1, <1>23 DEF Full, Empty, Total, Chunks
  <2>2. RowsOK'
    <3> SUFFICES ASSUME NEW k \in 0 .. NNodes - 1 PROVE RowOK(k)'
      BY DEF RowsOK
    <3>1. CASE k = node[t]
      <4>1. Stage(0)' = 2 * node[t] + 1 /\ node[t] \in Nat
        BY <1>8, <1>9, <1>3
      <4>2. HandedOut(k)' /\ ~(2 * k + 1 < Stage(0)') /\ ~(2 * k + 1 > Stage(0)')
        BY <4>1, <3>1, <1>26
      <4> QED BY <4>2 DEF RowOK
    <3>2. CASE k # node[t]
      <4>1. RowOK(k)
        <5>1. RowsOK /\ Stage(0) < Finished
          BY <1>0, <1>8 DEF Done
        <5> QED BY <5>1 DEF RowsOK
      <4>2. 2 * k + 1 # Stage(0)
        <5>1. node[t] \in Nat
          BY <1>3
        <5> QED BY <5>1, <3>2, <1>8
      <4> QED BY <4>1, <4>2, <3>2, <2>1, <1>9 DEF RowOK
    <3> QED BY <3>1, <3>2
  <2>3. NotBegun'
    <3>1. CASE t = 0
      BY <3>1, <1>24 DEF NotBegun
    <3>2. CASE t # 0
      <4>1. pc'[0] = pc[0]
        BY <3>2, <1>0, <1>1, Others, Types
      <4>2. pc[0] \notin {"kickoff", "publish"}
        BY <1>8 DEF Stage, Taken, InBarrier
      <4> QED BY <4>1, <4>2 DEF NotBegun
    <3> QED BY <3>1, <3>2
  <2>4. AllDone'
    BY <1>8, <1>9 DEF AllDone, Finished
  <2>5. AtMostOnce'
    <3>1. AtMostOnce
      BY <1>0 DEF Done
    <3> QED BY <3>1, <1>23, <1>26 DEF AtMostOnce, Chunks
  <2> QED BY <2>2, <2>3, <2>4, <2>5 DEF Done
<1> QED BY <1>9, <1>10 DEF IInv

\* ggml_graph_compute_thread begins with the first node.
LEMMA BeginStep ==
  ASSUME IInv, NEW t \in Threads, Begin(t)
  PROVE  IInv'
<1>0. Typed /\ PlacesOK /\ InStep /\ t \in Threads
  BY DEF IInv
<1>1. /\ pc[t] = "begin" /\ pc'[t] = "node" /\ node'[t] = 0 /\ nth'[t] = nThreads
      /\ chunk'[t] = chunk[t] /\ seen'[t] = seen[t] /\ after'[t] = after[t]
      /\ UNCHANGED <<nThreads, nGraph, last, stop, pause, nPassed, nBarrier, counter, abort, did>>
      /\ Only(t)
  BY <1>0, Functions DEF Begin, Go, Only, shared, barrier
<1>2. ~Left(t) /\ Active(t) /\ Taken(t) /\ (t # 0 => last[t] = nGraph)
  <2>1. ~Left(t)
    BY <1>1 DEF Left, Passed
  <2> QED BY <1>0, <1>1, <2>1, InGraph DEF InNode
<1>3. /\ nThreads \in 1 .. NMax /\ node[t] \in 0 .. NNodes /\ chunk[t] \in Nat /\ seen[t] \in Nat
      /\ seen[t] <= nPassed /\ after[t] \in {"chunks", "node", "done"}
      /\ abort \in 0 .. NoAbort /\ nBarrier \in Nat /\ nPassed \in Nat /\ counter \in Nat
      /\ did \in [0 .. NNodes - 1 -> [0 .. NChunks + NMax -> Nat]]
  BY <1>0, Types DEF Typed
<1>4. FitsAt(t) /\ Fits
  BY <1>1, <1>3 DEF FitsAt, Fits, InNode
<1>5. PlaceOK(t)'
  BY <1>1, <1>2 DEF PlaceOK, InBarrier, Active
<1>6. Stage(t)' = Stage(t) /\ Stage(t) = 0
  BY <1>1, <1>2 DEF Stage, Straight, Taken
<1>7. AbortReadAt(t)' /\ ReadyAt(t)' /\ ~Waiting(t) /\ ~Waiting(t)'
  BY <1>1 DEF AbortReadAt, ReadyAt, Waiting, InBarrier
<1>8. Stage(0) = 0 /\ 0 # Finished
  BY <1>0, <1>2, <1>6 DEF InStep, Finished
<1>9. Typed' /\ Flags' /\ PlacesOK' /\ InStep' /\ Stage(0)' = Stage(0) /\ BarrierCounts'
      /\ AbortRead' /\ Ready' /\ NodesAgree'
  BY <1>1, <1>4, <1>5, <1>6, <1>7, <1>8, Stays
<1>10. Done'
  BY <1>1, <1>4, <1>8, <1>9, RowsStay
<1> QED BY <1>9, <1>10 DEF IInv

\* A node that is computed: the conversion, and the counter set by thread 0.
LEMMA ConvertStep ==
  ASSUME IInv, NEW t \in Threads, Convert(t)
  PROVE  IInv'
<1>0. Typed /\ PlacesOK /\ InStep /\ t \in Threads
  BY DEF IInv
<1>1. /\ pc[t] = "node" /\ pc'[t] = "arrive" /\ node'[t] = node[t] /\ nth'[t] = nth[t]
      /\ node[t] < NNodes /\ abort # node[t]
      /\ chunk'[t] = t /\ seen'[t] = seen[t] /\ after'[t] = "chunks"
      /\ counter' = IF t = 0 THEN nth[t] ELSE counter
      /\ UNCHANGED <<nThreads, nGraph, last, stop, pause, nPassed, nBarrier, abort, did>>
      /\ Only(t)
  BY <1>0, Functions DEF Convert, Go, Only
<1>2. ~Left(t) /\ Active(t) /\ Taken(t) /\ (t # 0 => last[t] = nGraph)
  <2>1. ~Left(t)
    BY <1>1 DEF Left, Passed
  <2> QED BY <1>0, <1>1, <2>1, InGraph DEF InNode
<1>12. nth[t] = nThreads
  BY <1>0, <1>1, <1>2 DEF PlacesOK, PlaceOK, InNode
<1>3. /\ nThreads \in 1 .. NMax /\ node[t] \in 0 .. NNodes /\ t \in Nat /\ seen[t] \in Nat
      /\ seen[t] <= nPassed /\ nth[t] \in 0 .. NMax
      /\ abort \in 0 .. NoAbort /\ nBarrier \in Nat /\ nPassed \in Nat /\ counter \in Nat
      /\ did \in [0 .. NNodes - 1 -> [0 .. NChunks + NMax -> Nat]]
  BY <1>0, Types DEF Typed
<1>4. FitsAt(t) /\ Fits
  <2>1. pc'[t] \in InNode \union InBarrier \union {Home(t)} /\ node'[t] \in 0 .. NNodes
        /\ nth'[t] \in 0 .. NMax /\ chunk'[t] \in Nat
    BY <1>1, <1>3 DEF InBarrier
  <2>2. seen'[t] \in Nat /\ seen'[t] <= nPassed' /\ after'[t] \in {"chunks", "node", "done"}
    BY <1>1, <1>3
  <2>3. FitsAt(t)
    BY <2>1, <2>2 DEF FitsAt
  <2>4. counter' \in Nat
    BY <1>1, <1>3
  <2>5. abort' = abort /\ nBarrier' = nBarrier /\ nPassed' = nPassed /\ did' = did
    BY <1>1
  <2>6. Fits
    BY <1>3, <2>4, <2>5 DEF Fits
  <2> QED BY <2>3, <2>6
<1>5. PlaceOK(t)'
  BY <1>1, <1>2, <1>12 DEF PlaceOK, InBarrier, Active
<1>13. ~Left(t)' /\ (Passed(t)' <=> FALSE)
  BY <1>1 DEF Left, Passed
<1>6. Stage(t)' = Stage(t) /\ Stage(t) = 2 * node[t]
  <2>1. Stage(t) = 2 * node[t]
    BY <1>1, <1>2, <1>3 DEF Stage, Straight
  <2>2. Taken(t)'
    BY <1>1, <1>2 DEF Taken
  <2> QED BY <1>1, <1>13, <2>1, <2>2 DEF Stage, Before, InBarrier
<1>7. AbortReadAt(t)' /\ ReadyAt(t)' /\ ~Waiting(t) /\ ~Waiting(t)'
  BY <1>1, <1>12 DEF AbortReadAt, ReadyAt, Waiting
<1>8. Stage(0) = 2 * node[t] /\ 2 * node[t] # Finished
  BY <1>0, <1>1, <1>2, <1>3, <1>6 DEF InStep, Finished
<1>9. Typed' /\ Flags' /\ PlacesOK' /\ InStep' /\ Stage(0)' = Stage(0) /\ BarrierCounts'
      /\ AbortRead' /\ Ready' /\ NodesAgree'
  BY <1>1, <1>4, <1>5, <1>6, <1>7, <1>8, Stays
<1>10. Done'
  <2>1. \A k \in 0 .. NNodes - 1 : 2 * k + 1 # Stage(0)
    BY <1>3, <1>8
  <2> QED BY <2>1, <1>1, <1>4, <1>8, <1>9, RowsStay
<1> QED BY <1>9, <1>10 DEF IInv

\* No node left, or the graph aborted.
LEMMA LeaveLoopStep ==
  ASSUME IInv, NEW t \in Threads, LeaveLoop(t)
  PROVE  IInv'
<1>0. Typed /\ PlacesOK /\ InStep /\ t \in Threads
  BY DEF IInv
<1>1. /\ pc[t] = "node" /\ pc'[t] = "arrive" /\ node'[t] = node[t] /\ nth'[t] = nth[t]
      /\ node[t] >= NNodes \/ abort = node[t]
      /\ chunk'[t] = chunk[t] /\ seen'[t] = seen[t] /\ after'[t] = "done"
      /\ UNCHANGED <<nThreads, nGraph, last, stop, pause, nPassed, nBarrier, counter, abort, did>>
      /\ Only(t)
  BY <1>0, Functions DEF LeaveLoop, Go, Only, shared, local
<1>2. ~Left(t) /\ Active(t) /\ Taken(t) /\ (t # 0 => last[t] = nGraph)
  <2>1. ~Left(t)
    BY <1>1 DEF Left, Passed
  <2> QED BY <1>0, <1>1, <2>1, InGraph DEF InNode
<1>12. nth[t] = nThreads
  BY <1>0, <1>1, <1>2 DEF PlacesOK, PlaceOK, InNode
<1>3. /\ nThreads \in 1 .. NMax /\ node[t] \in 0 .. NNodes /\ chunk[t] \in Nat /\ seen[t] \in Nat
      /\ seen[t] <= nPassed /\ nth[t] \in 0 .. NMax
      /\ abort \in 0 .. NoAbort /\ nBarrier \in Nat /\ nPassed \in Nat /\ counter \in Nat
      /\ did \in [0 .. NNodes - 1 -> [0 .. NChunks + NMax -> Nat]]
  BY <1>0, Types DEF Typed
<1>4. FitsAt(t) /\ Fits
  BY <1>1, <1>3 DEF FitsAt, Fits, InBarrier
<1>5. PlaceOK(t)'
  BY <1>1, <1>2, <1>12 DEF PlaceOK, InBarrier, Active
<1>13. ~Left(t)' /\ (Passed(t)' <=> FALSE)
  BY <1>1 DEF Left, Passed
<1>6. Stage(t)' = Stage(t) /\ Stage(t) = Straight(t)
  <2>1. Stage(t) = Straight(t)
    BY <1>1, <1>2, <1>3 DEF Stage
  <2>2. Taken(t)'
    BY <1>1, <1>2 DEF Taken
  <2> QED BY <1>1, <1>13, <2>1, <2>2 DEF Stage, Before, InBarrier, Straight
<1>7. AbortReadAt(t)' /\ ReadyAt(t)' /\ ~Waiting(t) /\ ~Waiting(t)'
  BY <1>1, <1>3 DEF AbortReadAt, ReadyAt, Waiting
<1>8. Stage(0) = Straight(t) /\ Straight(t) # Finished
  BY <1>0, <1>1, <1>2, <1>3, <1>6 DEF InStep, Finished, Straight
<1>9. Typed' /\ Flags' /\ PlacesOK' /\ InStep' /\ Stage(0)' = Stage(0) /\ BarrierCounts'
      /\ AbortRead' /\ Ready' /\ NodesAgree'
  BY <1>1, <1>4, <1>5, <1>6, <1>7, <1>8, Stays
<1>14. (Holds(t)' <=> FALSE) /\ (Holds(t) <=> FALSE)
  BY <1>1 DEF Holds, Passed
<1>10. Done'
  <2>1. \A k \in 0 .. NNodes - 1 : HandedOut(k) => HandedOut(k)'
    BY <1>0, <1>1, <1>14, HandedOutSame
  <2> QED BY <2>1, <1>1, <1>4, <1>8, <1>9, RowsStay
<1> QED BY <1>9, <1>10 DEF IInv

\* The end of a node, with the abort callback of thread 0.
LEMMA EndNodeStep ==
  ASSUME IInv, NEW t \in Threads, EndNode(t)
  PROVE  IInv'
<1>0. Typed /\ PlacesOK /\ InStep /\ t \in Threads
  BY DEF IInv
<1>1. /\ pc[t] = "finish" /\ pc'[t] = (IF node[t] + 1 < NNodes THEN "arrive" ELSE "node")
      /\ node'[t] = node[t] + 1 /\ nth'[t] = nth[t]
      /\ chunk'[t] = chunk[t] /\ seen'[t] = seen[t] /\ after'[t] = "node"
      /\ abort' = abort \/ abort' = node[t] + 1
      /\ UNCHANGED <<nThreads, nGraph, last, stop, pause, nPassed, nBarrier, counter, did>>
      /\ Only(t)
  BY <1>0, Functions DEF EndNode, Go, Only, AbortAt
<1>2. ~Left(t) /\ Active(t) /\ Taken(t) /\ (t # 0 => last[t] = nGraph)
  <2>1. ~Left(t)
    BY <1>1 DEF Left, Passed
  <2> QED BY <1>0, <1>1, <2>1, InGraph DEF InNode
<1>12. nth[t] = nThreads /\ node[t] < NNodes
  BY <1>0, <1>1, <1>2 DEF PlacesOK, PlaceOK, InNode
<1>3. /\ nThreads \in 1 .. NMax /\ node[t] \in Nat /\ chunk[t] \in Nat /\ seen[t] \in Nat
      /\ seen[t] <= nPassed /\ nth[t] \in 0 .. NMax
      /\ abort \in 0 .. NoAbort /\ nBarrier \in Nat /\ nPassed \in Nat /\ counter \in Nat
      /\ did \in [0 .. NNodes - 1 -> [0 .. NChunks + NMax -> Nat]]
  BY <1>0, Types DEF Typed
<1>4. FitsAt(t) /\ Fits
  <2>1. pc'[t] \in InNode \union InBarrier
    BY <1>1 DEF InNode, InBarrier
  <2>2. node[t] + 1 \in 0 .. NNodes /\ node[t] + 1 \in 0 .. NoAbort
    BY <1>3, <1>12 DEF NoAbort
  <2>3. FitsAt(t)
    BY <2>1, <2>2, <1>1, <1>3 DEF FitsAt
  <2>4. abort' \in 0 .. NoAbort
    BY <2>2, <1>1, <1>3
  <2>5. nBarrier' = nBarrier /\ nPassed' = nPassed /\ counter' = counter /\ did' = did
    BY <1>1
  <2> QED BY <2>3, <2>4, <2>5, <1>3 DEF Fits
<1>15. /\ node[t] + 1 < NNodes => pc'[t] = "arrive"
       /\ ~(node[t] + 1 < NNodes) => pc'[t] = "node"
  BY <1>1
<1>16. node'[t] = node[t] + 1 /\ nth'[t] = nth[t] /\ nThreads' = nThreads
  BY <1>1
<1>5. PlaceOK(t)'
  <2>1. CASE node[t] + 1 < NNodes
    <3>1. pc'[t] = "arrive" /\ node'[t] \in 1 .. NNodes - 1 /\ node'[t] < NNodes /\ nth'[t] = nThreads'
      <4>1. node[t] \in Nat
        BY <1>3
      <4> QED BY <2>1, <1>15, <1>16, <4>1, <1>12
    <3>2. Active(t)' /\ (t # 0 => last'[t] = nGraph')
      BY <1>1, <1>2 DEF Active
    <3> QED BY <3>1, <3>2, <1>1 DEF PlaceOK, InBarrier
  <2>2. CASE ~(node[t] + 1 < NNodes)
    BY <2>2, <1>1, <1>2, <1>3, <1>12 DEF PlaceOK, InBarrier, Active
  <2> QED BY <2>1, <2>2
<1>13. ~Left(t)' /\ (Passed(t)' <=> FALSE)
  BY <1>1 DEF Left, Passed
<1>6. Stage(t)' = Stage(t) /\ Stage(t) = 2 * node[t] + 1
  <2>1. Stage(t) = 2 * node[t] + 1
    BY <1>1, <1>2, <1>3 DEF Stage
  <2>2. Taken(t)'
    BY <1>1, <1>2 DEF Taken
  <2>3. CASE node[t] + 1 < NNodes
    BY <2>3, <1>1, <1>3, <1>13, <2>1, <2>2 DEF Stage, Before, InBarrier
  <2>4. CASE ~(node[t] + 1 < NNodes)
    <3>1. node'[t] = NNodes /\ pc'[t] = "node" /\ 2 * NNodes - 1 = 2 * node[t] + 1
      <4>1. node[t] \in Nat /\ node[t] < NNodes
        BY <1>3, <1>12
      <4> QED BY <2>4, <1>15, <1>16, <4>1
    <3>2. Stage(t)' = 2 * NNodes - 1
      BY <3>1, <2>2 DEF Stage, Straight
    <3> QED BY <3>1, <3>2, <2>1
  <2> QED BY <2>3, <2>4
<1>7. AbortReadAt(t)' /\ ReadyAt(t)' /\ ~Waiting(t) /\ ~Waiting(t)'
  BY <1>1 DEF AbortReadAt, ReadyAt, Waiting
<1>8. Stage(0) = 2 * node[t] + 1 /\ 2 * node[t] + 1 # Finished /\ Odd(t)
  BY <1>0, <1>1, <1>2, <1>3, <1>6 DEF InStep, Finished, Odd
<1>9. Typed' /\ Flags' /\ PlacesOK' /\ InStep' /\ Stage(0)' = Stage(0) /\ BarrierCounts'
      /\ AbortRead' /\ Ready' /\ NodesAgree'
  BY <1>1, <1>4, <1>5, <1>6, <1>7, <1>8, Stays
<1>14. (Holds(t)' <=> FALSE) /\ (Holds(t) <=> FALSE)
  BY <1>1 DEF Holds, Passed
<1>10. Done'
  <2>1. \A k \in 0 .. NNodes - 1 : HandedOut(k) => HandedOut(k)'
    BY <1>0, <1>1, <1>14, HandedOutSame
  <2> QED BY <2>1, <1>1, <1>4, <1>8, <1>9, RowsStay
<1> QED BY <1>9, <1>10 DEF IInv

\* A thread finds the chunks used up.
LEMMA NoMoreChunksStep ==
  ASSUME IInv, NEW t \in Threads, NoMoreChunks(t)
  PROVE  IInv'
<1>0. Typed /\ PlacesOK /\ InStep /\ Done /\ t \in Threads
  BY DEF IInv
<1>1. /\ pc[t] = "chunks" /\ pc'[t] = "finish" /\ node'[t] = node[t] /\ nth'[t] = nth[t]
      /\ chunk[t] >= Total(nth[t])
      /\ chunk'[t] = chunk[t] /\ seen'[t] = seen[t] /\ after'[t] = after[t]
      /\ UNCHANGED <<nThreads, nGraph, last, stop, pause, nPassed, nBarrier, counter, abort, did>>
      /\ Only(t)
  BY <1>0, Functions DEF NoMoreChunks, Go, Only, shared, barrier, local
<1>2. ~Left(t) /\ Active(t) /\ Taken(t) /\ (t # 0 => last[t] = nGraph)
  <2>1. ~Left(t)
    BY <1>1 DEF Left, Passed
  <2> QED BY <1>0, <1>1, <2>1, InGraph DEF InNode
<1>12. nth[t] = nThreads /\ node[t] < NNodes
  BY <1>0, <1>1, <1>2 DEF PlacesOK, PlaceOK, InNode
<1>3. /\ nThreads \in 1 .. NMax /\ node[t] \in Nat /\ node[t] \in 0 .. NNodes /\ chunk[t] \in Nat
      /\ seen[t] \in Nat /\ after[t] \in {"chunks", "node", "done"}
      /\ seen[t] <= nPassed /\ nth[t] \in 0 .. NMax
      /\ abort \in 0 .. NoAbort /\ nBarrier \in Nat /\ nPassed \in Nat /\ counter \in Nat
      /\ did \in [0 .. NNodes - 1 -> [0 .. NChunks + NMax -> Nat]]
  BY <1>0, Types DEF Typed
<1>4. FitsAt(t) /\ Fits
  BY <1>1, <1>3 DEF FitsAt, Fits, InNode
<1>5. PlaceOK(t)'
  BY <1>1, <1>2, <1>12 DEF PlaceOK, InBarrier, Active
<1>6. Stage(t)' = Stage(t) /\ Stage(t) = 2 * node[t] + 1
  <2>2. Taken(t)'
    BY <1>1, <1>2 DEF Taken
  <2> QED BY <2>2, <1>1, <1>2 DEF Stage
<1>7. AbortReadAt(t)' /\ ReadyAt(t)' /\ ~Waiting(t) /\ ~Waiting(t)'
  BY <1>1 DEF AbortReadAt, ReadyAt, Waiting, InBarrier
<1>8. Stage(0) = 2 * node[t] + 1 /\ 2 * node[t] + 1 # Finished
  BY <1>0, <1>2, <1>3, <1>6 DEF InStep, Finished
<1>9. Typed' /\ Flags' /\ PlacesOK' /\ InStep' /\ Stage(0)' = Stage(0) /\ BarrierCounts'
      /\ AbortRead' /\ Ready' /\ NodesAgree'
  BY <1>1, <1>4, <1>5, <1>6, <1>7, <1>8, Stays
<1>10. Done'
  <2> SUFFICES ASSUME NEW k \in 0 .. NNodes - 1, HandedOut(k) PROVE HandedOut(k)'
    BY <1>1, <1>4, <1>8, <1>9, RowsStay
  <2>1. Holds(t) /\ ~Holds(t)'
    BY <1>1, <1>2 DEF Holds, Passed
  <2>2. \A u \in Threads : /\ chunk'[u] = chunk[u] /\ (u # t => (Holds(u)' <=> Holds(u)))
                           /\ (Active(u)' <=> Active(u))
    <3>1. Active(t)' <=> Active(t)
      BY <1>1 DEF Active
    <3> QED BY <3>1, <1>0, <1>1, Others, OthersSame
  <2>3. nThreads' = nThreads /\ Total(nThreads)' = Total(nThreads) /\ did' = did /\ counter' = counter
    BY <1>1 DEF Total
  <2>4. Total(nThreads) \in Nat
    BY <1>3 DEF Total
  <2>5. chunk[t] >= Total(nThreads) /\ chunk[t] < counter /\ Total(nThreads) <= counter
    BY <1>1, <1>2, <1>12, <2>4, <1>3 DEF HandedOut
  <2> DEFINE T == Total(nThreads)
  <2> HIDE DEF T
  <2>7. ASSUME NEW c \in Chunks, c < T
        PROVE  (\E u \in Threads : Holds(u)' /\ chunk'[u] = c) <=> (\E u \in Threads : Holds(u) /\ chunk[u] = c)
    <3>1. c # chunk[t]
      <4>1. chunk[t] >= T /\ T \in Nat
        BY <2>4, <2>5 DEF T
      <4>2. chunk[t] \in Nat /\ c \in Nat
        BY <1>3 DEF Chunks
      <4> QED BY <4>1, <4>2, <2>7
    <3> QED BY <3>1, <2>1, <2>2
  <2>6. \A u \in Threads : Active(u)' /\ ~Holds(u)' => T <= counter
    BY <2>5 DEF T
  <2>8. /\ nThreads <= counter /\ (T = nThreads => counter = nThreads)
        /\ (\A u \in Threads : Active(u) => chunk[u] < counter)
        /\ (\A u, v \in Threads : Active(u) /\ Active(v) /\ u # v => chunk[u] # chunk[v])
        /\ \A c \in T .. counter - 1 : \E u \in Threads : Active(u) /\ chunk[u] = c
        /\ \A c \in Chunks : did[k][c] =
             IF c < counter /\ c < T /\ ~\E u \in Threads : Holds(u) /\ chunk[u] = c THEN 1 ELSE 0
    BY DEF HandedOut, T
  <2>9. \A c \in Chunks : did'[k][c] =
             IF c < counter' /\ c < T /\ ~\E u \in Threads : Holds(u)' /\ chunk'[u] = c THEN 1 ELSE 0
    <3> SUFFICES ASSUME NEW c \in Chunks
                 PROVE  did'[k][c] = IF c < counter' /\ c < T /\ ~\E u \in Threads : Holds(u)' /\ chunk'[u] = c THEN 1 ELSE 0
      OBVIOUS
    <3>1. did[k][c] = IF c < counter /\ c < T /\ ~\E u \in Threads : Holds(u) /\ chunk[u] = c THEN 1 ELSE 0
      BY <2>8
    <3>2. CASE c < T
      BY <3>1, <3>2, <2>7, <2>3
    <3>3. CASE ~(c < T)
      BY <3>1, <3>3, <2>3
    <3> QED BY <3>2, <3>3
  <2>10. T' = T
    BY <2>3 DEF T
  <2> HIDE DEF Active
  <2>11. /\ nThreads' <= counter' /\ (T = nThreads' => counter' = nThreads')
         /\ (\A u \in Threads : Active(u)' => chunk'[u] < counter')
         /\ (\A u, v \in Threads : Active(u)' /\ Active(v)' /\ u # v => chunk'[u] # chunk'[v])
         /\ \A c \in T .. counter' - 1 : \E u \in Threads : Active(u)' /\ chunk'[u] = c
    BY <2>2, <2>3, <2>8
  <2> QED BY <2>3, <2>6, <2>9, <2>10, <2>11 DEF HandedOut, T, Chunks
<1> QED BY <1>9, <1>10 DEF IInv

\* ggml_barrier reads n_barrier_passed.
LEMMA ArriveManyStep ==
  ASSUME IInv, NEW t \in Threads, Arrive(t), nThreads # 1
  PROVE  IInv'
<1>0. Typed /\ PlacesOK /\ InStep /\ AbortRead /\ Ready /\ t \in Threads
  BY DEF IInv
<1>1. /\ pc[t] = "arrive" /\ pc'[t] = "enter" /\ node'[t] = node[t] /\ nth'[t] = nth[t]
      /\ chunk'[t] = chunk[t] /\ seen'[t] = nPassed /\ after'[t] = after[t]
      /\ UNCHANGED <<nThreads, nGraph, last, stop, pause, nPassed, nBarrier, counter, abort, did>>
      /\ Only(t)
  BY <1>0, Functions DEF Arrive, Go, Only, shared, local
<1>2. ~Left(t) /\ Active(t) /\ Taken(t) /\ (t # 0 => last[t] = nGraph)
  <2>1. ~Left(t)
    BY <1>1 DEF Left, Passed
  <2> QED BY <1>0, <1>1, <2>1, InGraph DEF InBarrier
<1>12. nth[t] = nThreads
  BY <1>0, <1>1, <1>2 DEF PlacesOK, PlaceOK, InBarrier
<1>3. /\ node[t] \in 0 .. NNodes /\ chunk[t] \in Nat
      /\ after[t] \in {"chunks", "node", "done"} /\ nth[t] \in 0 .. NMax
      /\ abort \in 0 .. NoAbort /\ nBarrier \in Nat /\ nPassed \in Nat /\ counter \in Nat
      /\ did \in [0 .. NNodes - 1 -> [0 .. NChunks + NMax -> Nat]]
  BY <1>0, Types DEF Typed
<1>4. FitsAt(t) /\ Fits
  BY <1>1, <1>3 DEF FitsAt, Fits, InBarrier
<1>14. PlaceOK(t)
  BY <1>0 DEF PlacesOK
<1>5. PlaceOK(t)'
  BY <1>1, <1>2, <1>12, <1>14 DEF PlaceOK, InBarrier, Active
<1>13. ~Left(t)' /\ (Passed(t)' <=> FALSE) /\ (Passed(t) <=> FALSE)
  BY <1>1 DEF Left, Passed
<1>6. Stage(t)' = Stage(t) /\ Stage(t) = Before(t)
  <2>2. Taken(t)'
    BY <1>1, <1>2 DEF Taken
  <2>1. Before(t)' = Before(t)
    BY <1>1 DEF Before, Straight
  <2> QED BY <2>1, <2>2, <1>1, <1>2, <1>13 DEF Stage, InBarrier
<1>7. AbortReadAt(t)' /\ ReadyAt(t)' /\ ~Waiting(t) /\ ~Waiting(t)'
  <2>1. AbortReadAt(t) /\ ReadyAt(t)
    BY <1>0 DEF AbortRead, Ready
  <2>2. AbortReadAt(t)' /\ ReadyAt(t)'
    BY <1>1, <1>13, <2>1 DEF AbortReadAt, ReadyAt, InBarrier
  <2> QED BY <2>2, <1>1 DEF Waiting
<1>9. Typed' /\ Flags' /\ PlacesOK' /\ InStep' /\ Stage(0)' = Stage(0) /\ BarrierCounts'
      /\ AbortRead' /\ Ready' /\ NodesAgree'
  BY <1>1, <1>4, <1>5, <1>6, <1>7, Stays
<1>15. (Holds(t)' <=> FALSE) /\ (Holds(t) <=> FALSE)
  BY <1>1, <1>13 DEF Holds
<1>8. Stage(0) # Finished
  <2>1. Stage(0) = Before(t)
    BY <1>0, <1>2, <1>6 DEF InStep
  <2>2. node[t] < NNodes \/ after[t] # "chunks"
    BY <1>14, <1>1 DEF PlaceOK, InBarrier
  <2>3. node[t] \in Nat /\ node[t] <= NNodes
    BY <1>3
  <2> QED BY <2>1, <2>2, <2>3 DEF Before, Straight, Finished
<1>10. Done'
  <2>1. \A k \in 0 .. NNodes - 1 : HandedOut(k) => HandedOut(k)'
    BY <1>0, <1>1, <1>15, HandedOutSame
  <2> QED BY <2>1, <1>1, <1>4, <1>8, <1>9, RowsStay
<1> QED BY <1>9, <1>10 DEF IInv

\* A spinning thread sees that the barrier has opened.
LEMMA SpinOutStep ==
  ASSUME IInv, NEW t \in Threads, SpinOut(t)
  PROVE  IInv'
<1>0. Typed /\ PlacesOK /\ InStep /\ t \in Threads
  BY DEF IInv
<1>1. /\ pc[t] = "spin" /\ seen[t] # nPassed /\ pc'[t] = Return(t)
      /\ node'[t] = node[t] /\ nth'[t] = nth[t]
      /\ chunk'[t] = chunk[t] /\ seen'[t] = seen[t] /\ after'[t] = after[t]
      /\ UNCHANGED <<nThreads, nGraph, last, stop, pause, nPassed, nBarrier, counter, abort, did>>
      /\ Only(t)
  <2>1. pc' = [pc EXCEPT ![t] = Return(t)] /\ pc[t] = "spin"
    BY DEF SpinOut, Go
  <2>2. after[t] \in {"chunks", "node", "done"} /\ pc \in [Threads -> Places]
    BY <1>0, Types
  <2>3. pc'[0] = "publish" <=> pc[0] = "publish"
    BY <2>1, <2>2 DEF Return, Home
  <2> QED BY <2>3, <1>0, Functions DEF SpinOut, Go, Only, shared, barrier, local
<1>3. /\ node[t] \in 0 .. NNodes /\ chunk[t] \in Nat /\ seen[t] \in Nat /\ seen[t] <= nPassed
      /\ after[t] \in {"chunks", "node", "done"} /\ nth[t] \in 0 .. NMax
      /\ abort \in 0 .. NoAbort /\ nBarrier \in Nat /\ nPassed \in Nat /\ counter \in Nat
      /\ did \in [0 .. NNodes - 1 -> [0 .. NChunks + NMax -> Nat]]
  BY <1>0, Types DEF Typed
<1>15. pc'[t] = IF after[t] = "done" THEN Home(t) ELSE after[t]
  BY <1>1 DEF Return
<1>4. FitsAt(t) /\ Fits
  BY <1>1, <1>3, <1>15 DEF FitsAt, Fits, InNode
<1>14. PlaceOK(t)
  BY <1>0 DEF PlacesOK
<1>13. Passed(t)
  BY <1>1 DEF Passed
<1>2. after[t] # "done" => Active(t) /\ Taken(t) /\ (t # 0 => last[t] = nGraph) /\ nth[t] = nThreads
  BY <1>1, <1>14 DEF PlaceOK, Taken, InBarrier, Left
<1>5. PlaceOK(t)'
  <2>1. CASE after[t] = "done"
    BY <2>1, <1>15 DEF PlaceOK, Home, InNode, InBarrier
  <2>2. CASE after[t] = "chunks"
    <3>1. node[t] < NNodes
      BY <2>2, <1>1, <1>14 DEF PlaceOK, InBarrier
    <3> QED BY <3>1, <2>2, <1>1, <1>2, <1>15 DEF PlaceOK, InBarrier, Active
  <2>3. CASE after[t] = "node"
    BY <2>3, <1>1, <1>2, <1>15 DEF PlaceOK, InBarrier, Active
  <2> QED BY <2>1, <2>2, <2>3, <1>3
<1>6. Stage(t)' = Stage(t)
  <2>1. CASE after[t] = "done"
    <3>1. Left(t)
      BY <2>1, <1>13 DEF Left
    <3>2. pc'[t] \in {"idle", "top"}
      BY <2>1, <1>15 DEF Home
    <3>3. Taken(t)' <=> Taken(t)
      BY <3>2, <1>1 DEF Taken, Only
    <3>4. Stage(t) = IF Taken(t) THEN Finished ELSE 0
      BY <3>1, <1>1 DEF Stage
    <3>5. Stage(t)' = IF Taken(t)' THEN Finished ELSE 0
      BY <3>2 DEF Stage, Finished, InBarrier
    <3> QED BY <3>3, <3>4, <3>5
  <2>2. CASE after[t] # "done"
    <3>1. ~Left(t) /\ Taken(t)
      BY <2>2, <1>2 DEF Left
    <3>2. Stage(t) = Before(t) + 1
      BY <3>1, <1>1, <1>13 DEF Stage, InBarrier
    <3>3. pc'[t] = after[t] /\ pc'[t] \in {"chunks", "node"}
      BY <2>2, <1>3, <1>15
    <3>4. Taken(t)'
      BY <2>2, <1>2, <3>3, <1>1 DEF Taken
    <3>5. CASE after[t] = "chunks"
      BY <3>2, <3>3, <3>4, <3>5, <1>1 DEF Stage, Before
    <3>6. CASE after[t] = "node"
      <4>1. node[t] \in 1 .. NNodes - 1
        BY <3>6, <1>1, <1>14 DEF PlaceOK, InBarrier
      <4>2. Straight(t)' = 2 * node[t]
        BY <4>1, <1>1 DEF Straight
      <4>3. Stage(t)' = 2 * node[t]
        BY <4>2, <3>3, <3>4, <3>6 DEF Stage
      <4>4. Before(t) = 2 * node[t] - 1
        BY <3>6 DEF Before
      <4> QED BY <4>1, <4>3, <4>4, <3>2
    <3> QED BY <3>5, <3>6, <2>2, <1>3
  <2> QED BY <2>1, <2>2
<1>7. AbortReadAt(t)' /\ ReadyAt(t)' /\ ~Waiting(t) /\ ~Waiting(t)'
  BY <1>1, <1>3, <1>15 DEF AbortReadAt, ReadyAt, Waiting, InBarrier, Home
<1>9. Typed' /\ Flags' /\ PlacesOK' /\ InStep' /\ Stage(0)' = Stage(0) /\ BarrierCounts'
      /\ AbortRead' /\ Ready' /\ NodesAgree'
  BY <1>1, <1>4, <1>5, <1>6, <1>7, Stays
<1>16. Holds(t)' <=> Holds(t)
  <2>1. Active(t)' <=> Active(t)
    BY <1>1 DEF Active
  <2>2. ~Passed(t)' /\ (pc'[t] = "chunks" <=> after[t] = "chunks")
    BY <1>3, <1>15 DEF Passed, Home
  <2> QED BY <2>1, <2>2, <1>1, <1>13 DEF Holds
<1>10. Done'
  <2>1. \A k \in 0 .. NNodes - 1 : HandedOut(k) => HandedOut(k)'
    BY <1>0, <1>1, <1>16, HandedOutSame
  <2>2. t # 0 \/ (pc[0] = "spin" /\ node'[0] = node[0])
    BY <1>1
  <2> QED BY <2>1, <2>2, <1>1, <1>4, <1>9, RowsStay
<1> QED BY <1>9, <1>10 DEF IInv

-----------------------------------------------------------------------------
\* ggml_barrier

\* The threads at the barrier are threads of the graph.
LEMMA WaitingActive ==
  ASSUME Typed, PlacesOK
  PROVE  /\ \A u \in Threads : Waiting(u) => Active(u) /\ pc[u] \in InBarrier /\ ~Passed(u)
         /\ {u \in Threads : Waiting(u)} \subseteq 0 .. nThreads - 1
         /\ IsFiniteSet(0 .. nThreads - 1) /\ Cardinality(0 .. nThreads - 1) = nThreads
         /\ IsFiniteSet({u \in Threads : Waiting(u)})
<1>1. ASSUME NEW u \in Threads, Waiting(u) PROVE Active(u) /\ pc[u] \in InBarrier /\ ~Passed(u)
  <2>1. pc[u] \in InBarrier /\ ~Passed(u)
    BY <1>1 DEF Waiting, Passed, InBarrier
  <2>2. ~Left(u)
    BY <2>1 DEF Left
  <2> QED BY <2>1, <2>2, InGraph
<1>2. nThreads \in 1 .. NMax
  BY Types
<1>3. {u \in Threads : Waiting(u)} \subseteq 0 .. nThreads - 1
  BY <1>1, <1>2 DEF Active
<1>4. IsFiniteSet(0 .. nThreads - 1) /\ Cardinality(0 .. nThreads - 1) = nThreads
  BY <1>2, FS_Interval
<1> QED BY <1>1, <1>3, <1>4, FS_Subset

\* The fetch_add of n_barrier; the thread that finds it at n_threads - 1 is the last.
LEMMA EnterStep ==
  ASSUME IInv, NEW t \in Threads, Enter(t)
  PROVE  IInv'
<1>0. Typed /\ PlacesOK /\ InStep /\ BarrierCounts /\ AbortRead /\ Ready /\ t \in Threads
  BY DEF IInv
<1>1. /\ pc[t] = "enter" /\ node'[t] = node[t] /\ nth'[t] = nth[t]
      /\ chunk'[t] = chunk[t] /\ seen'[t] = seen[t] /\ after'[t] = after[t]
      /\ pc'[t] = IF IsLast THEN "reset" ELSE "spin"
      /\ nBarrier' = nBarrier + 1
      /\ UNCHANGED <<nThreads, nGraph, last, stop, pause, nPassed, counter, abort, did>>
      /\ Only(t)
  BY <1>0, Functions DEF Enter, Go, Only, shared, local
<1>2. ~Left(t) /\ Active(t) /\ Taken(t) /\ (t # 0 => last[t] = nGraph)
  <2>1. ~Left(t)
    BY <1>1 DEF Left, Passed
  <2> QED BY <1>0, <1>1, <2>1, InGraph DEF InBarrier
<1>12. nth[t] = nThreads /\ seen[t] = nPassed
  BY <1>0, <1>1, <1>2 DEF PlacesOK, PlaceOK, InBarrier
<1>3. /\ node[t] \in 0 .. NNodes /\ chunk[t] \in Nat
      /\ after[t] \in {"chunks", "node", "done"} /\ nth[t] \in 0 .. NMax
      /\ abort \in 0 .. NoAbort /\ nBarrier \in Nat /\ nPassed \in Nat /\ counter \in Nat
      /\ did \in [0 .. NNodes - 1 -> [0 .. NChunks + NMax -> Nat]]
  BY <1>0, Types DEF Typed
<1>16. pc'[t] \in {"reset", "spin"}
  BY <1>1
<1>4. FitsAt(t) /\ Fits
  <2>1. FitsAt(t)
    BY <1>1, <1>3, <1>12, <1>16 DEF FitsAt, InBarrier
  <2> QED BY <2>1, <1>1, <1>3 DEF Fits
<1>14. PlaceOK(t)
  BY <1>0 DEF PlacesOK
<1>5. PlaceOK(t)'
  BY <1>1, <1>2, <1>12, <1>14, <1>16 DEF PlaceOK, InBarrier, Active
<1>13. ~Left(t)' /\ (Passed(t)' <=> FALSE) /\ (Passed(t) <=> FALSE)
  BY <1>1, <1>12 DEF Left, Passed
<1>6. Stage(t)' = Stage(t) /\ Stage(t) = Before(t)
  <2>2. Taken(t)'
    BY <1>1, <1>2, <1>16 DEF Taken
  <2>1. Before(t)' = Before(t)
    BY <1>1 DEF Before, Straight
  <2> QED BY <2>1, <2>2, <1>1, <1>2, <1>13, <1>16 DEF Stage, InBarrier
<1>7. AbortReadAt(t)' /\ ReadyAt(t)'
  <2>1. AbortReadAt(t) /\ ReadyAt(t)
    BY <1>0 DEF AbortRead, Ready
  <2> QED BY <1>1, <1>13, <2>1 DEF AbortReadAt, ReadyAt, InBarrier
<1>9. Typed' /\ Flags' /\ PlacesOK' /\ InStep' /\ Stage(0)' = Stage(0)
      /\ AbortRead' /\ Ready' /\ NodesAgree'
  BY <1>1, <1>4, <1>5, <1>6, <1>7, Stays
<1>15. (Holds(t)' <=> FALSE) /\ (Holds(t) <=> FALSE)
  BY <1>1, <1>13, <1>16 DEF Holds
<1>8. Stage(0) # Finished
  <2>1. Stage(0) = Before(t)
    BY <1>0, <1>2, <1>6 DEF InStep
  <2>2. node[t] < NNodes \/ after[t] # "chunks"
    BY <1>14, <1>1 DEF PlaceOK, InBarrier
  <2>3. node[t] \in Nat /\ node[t] <= NNodes
    BY <1>3
  <2> QED BY <2>1, <2>2, <2>3 DEF Before, Straight, Finished
<1>10. Done'
  <2>1. \A k \in 0 .. NNodes - 1 : HandedOut(k) => HandedOut(k)'
    BY <1>0, <1>1, <1>15, HandedOutSame
  <2> QED BY <2>1, <1>1, <1>4, <1>8, <1>9, RowsStay
<1>11. BarrierCounts'
  <2> DEFINE W == {u \in Threads : Waiting(u)}
  <2>1. \A u \in Threads : pc[u] \notin {"reset", "release"}
    BY <1>0, <1>1, <1>2 DEF BarrierCounts, Waiting
  <2>2. nBarrier = Cardinality(W)
    BY <1>0, <2>1 DEF BarrierCounts
  <2>3. ~Waiting(t) /\ Waiting(t)'
    BY <1>1, <1>12, <1>16 DEF Waiting
  <2>4. \A u \in Threads : u # t => (Waiting(u)' <=> Waiting(u)) /\ pc'[u] = pc[u]
    BY <1>0, <1>1, Others, OthersSame
  <2>5. {u \in Threads : Waiting(u)}' = W \union {t} /\ t \notin W
    BY <2>3, <2>4
  <2>6. IsFiniteSet(W)
    BY <1>0, WaitingActive
  <2> HIDE DEF W
  <2>7. Cardinality(W \union {t}) = nBarrier + 1
    BY <2>2, <2>5, <2>6, FS_AddElement
  <2>8. \A u \in Threads : pc'[u] # "release"
    BY <2>1, <2>4, <1>16
  <2>9. ASSUME NEW x \in Threads, NEW u \in Threads, pc'[x] \in {"reset", "release"}, Active(u)'
        PROVE  Waiting(u)' /\ (u # x => pc'[u] = "spin")
    <3>1. x = t
      BY <2>9, <2>1, <2>4
    <3>2. IsLast
      BY <3>1, <2>9, <1>1
    <3> DEFINE A == 0 .. nThreads - 1
    <3>3. IsFiniteSet(A) /\ Cardinality(A) = nThreads /\ W \subseteq A /\ t \in A /\ u \in A
      <4>1. t \in A /\ u \in A
        <5>1. t \in Nat /\ u \in Nat /\ nThreads \in Nat /\ nThreads' = nThreads
          BY <1>0, <1>1, Types
        <5>2. t < nThreads /\ u < nThreads
          BY <5>1, <1>2, <2>9 DEF Active
        <5> QED BY <5>1, <5>2
      <4> QED BY <4>1, <1>0, WaitingActive DEF W
    <3>4. Cardinality(W \union {t}) = Cardinality(A)
      <4>1. nThreads \in Nat /\ nBarrier \in Nat
        BY <1>0, Types
      <4> QED BY <4>1, <3>2, <3>3, <2>7 DEF IsLast
    <3> HIDE DEF A
    <3>5. W \union {t} = A
      BY <3>3, <3>4, FS_Subset
    <3>6. u \in W \union {t}
      BY <3>3, <3>5
    <3>7. Waiting(u)'
      BY <3>6, <2>5
    <3>8. u # t => pc'[u] = "spin"
      BY <3>6, <2>1, <2>4 DEF W, Waiting
    <3> QED BY <3>1, <3>7, <3>8
  <2> QED BY <2>5, <2>7, <2>8, <2>9, <1>1 DEF BarrierCounts
<1> QED BY <1>9, <1>10, <1>11 DEF IInv

\* The last thread resets n_barrier.
LEMMA ResetStep ==
  ASSUME IInv, NEW t \in Threads, Reset(t)
  PROVE  IInv'
<1>0. Typed /\ PlacesOK /\ InStep /\ BarrierCounts /\ AbortRead /\ Ready /\ t \in Threads
  BY DEF IInv
<1>1. /\ pc[t] = "reset" /\ pc'[t] = "release" /\ node'[t] = node[t] /\ nth'[t] = nth[t]
      /\ chunk'[t] = chunk[t] /\ seen'[t] = seen[t] /\ after'[t] = after[t]
      /\ nBarrier' = 0
      /\ UNCHANGED <<nThreads, nGraph, last, stop, pause, nPassed, counter, abort, did>>
      /\ Only(t)
  BY <1>0, Functions DEF Reset, Go, Only, shared, local
<1>2. ~Left(t) /\ Active(t) /\ Taken(t) /\ (t # 0 => last[t] = nGraph)
  <2>1. ~Left(t)
    BY <1>1 DEF Left, Passed
  <2> QED BY <1>0, <1>1, <2>1, InGraph DEF InBarrier
<1>12. nth[t] = nThreads /\ seen[t] = nPassed
  BY <1>0, <1>1, <1>2 DEF PlacesOK, PlaceOK, InBarrier
<1>3. /\ node[t] \in 0 .. NNodes /\ chunk[t] \in Nat
      /\ after[t] \in {"chunks", "node", "done"} /\ nth[t] \in 0 .. NMax
      /\ abort \in 0 .. NoAbort /\ nPassed \in Nat /\ counter \in Nat
      /\ did \in [0 .. NNodes - 1 -> [0 .. NChunks + NMax -> Nat]]
  BY <1>0, Types DEF Typed
<1>4. FitsAt(t) /\ Fits
  <2>1. FitsAt(t)
    BY <1>1, <1>3, <1>12 DEF FitsAt, InBarrier
  <2> QED BY <2>1, <1>1, <1>3 DEF Fits
<1>14. PlaceOK(t)
  BY <1>0 DEF PlacesOK
<1>5. PlaceOK(t)'
  BY <1>1, <1>2, <1>12, <1>14 DEF PlaceOK, InBarrier, Active
<1>13. ~Left(t)' /\ (Passed(t)' <=> FALSE) /\ (Passed(t) <=> FALSE)
  BY <1>1 DEF Left, Passed
<1>6. Stage(t)' = Stage(t) /\ Stage(t) = Before(t)
  <2>2. Taken(t)'
    BY <1>1, <1>2 DEF Taken
  <2>1. Before(t)' = Before(t)
    BY <1>1 DEF Before, Straight
  <2> QED BY <2>1, <2>2, <1>1, <1>2, <1>13 DEF Stage, InBarrier
<1>7. AbortReadAt(t)' /\ ReadyAt(t)'
  <2>1. AbortReadAt(t) /\ ReadyAt(t)
    BY <1>0 DEF AbortRead, Ready
  <2> QED BY <1>1, <1>13, <2>1 DEF AbortReadAt, ReadyAt, InBarrier
<1>9. Typed' /\ Flags' /\ PlacesOK' /\ InStep' /\ Stage(0)' = Stage(0)
      /\ AbortRead' /\ Ready' /\ NodesAgree'
  BY <1>1, <1>4, <1>5, <1>6, <1>7, Stays
<1>15. (Holds(t)' <=> FALSE) /\ (Holds(t) <=> FALSE)
  BY <1>1, <1>13 DEF Holds
<1>8. Stage(0) # Finished
  <2>1. Stage(0) = Before(t)
    BY <1>0, <1>2, <1>6 DEF InStep
  <2>2. node[t] < NNodes \/ after[t] # "chunks"
    BY <1>14, <1>1 DEF PlaceOK, InBarrier
  <2>3. node[t] \in Nat /\ node[t] <= NNodes
    BY <1>3
  <2> QED BY <2>1, <2>2, <2>3 DEF Before, Straight, Finished
<1>10. Done'
  <2>1. \A k \in 0 .. NNodes - 1 : HandedOut(k) => HandedOut(k)'
    BY <1>0, <1>1, <1>15, HandedOutSame
  <2> QED BY <2>1, <1>1, <1>4, <1>8, <1>9, RowsStay
<1>11. BarrierCounts'
  <2>1. Waiting(t) /\ Waiting(t)'
    BY <1>1 DEF Waiting
  <2>2. \A u \in Threads : u # t => (Waiting(u)' <=> Waiting(u)) /\ pc'[u] = pc[u] /\ (Active(u)' <=> Active(u))
    BY <1>0, <1>1, Others, OthersSame
  <2>3. \A u \in Threads : Active(u) => Waiting(u) /\ (u # t => pc[u] = "spin")
    BY <1>0, <1>1 DEF BarrierCounts
  <2>4. ASSUME NEW x \in Threads, pc'[x] \in {"reset", "release"} PROVE x = t
    <3> SUFFICES ASSUME x # t PROVE FALSE
      OBVIOUS
    <3>1. pc[x] \in {"reset", "release"}
      BY <2>2, <2>4
    <3>2. Active(x)
      BY <3>1, <1>0, WaitingActive DEF Waiting
    <3> QED BY <3>1, <3>2, <2>3
  <2>5. Active(t)' <=> Active(t)
    BY <1>1 DEF Active
  <2>6. \A x, u \in Threads : pc'[x] \in {"reset", "release"} /\ Active(u)' =>
            Waiting(u)' /\ (u # x => pc'[u] = "spin")
    BY <2>1, <2>2, <2>3, <2>4, <2>5
  <2> QED BY <2>6, <1>1 DEF BarrierCounts
<1> QED BY <1>9, <1>10, <1>11 DEF IInv

\* Threads that stand at the same barrier are to return to the same place.
LEMMA SameBarrier ==
  ASSUME Typed, PlacesOK, AbortRead, NEW t \in Threads, NEW u \in Threads,
         pc[t] \in InBarrier, ~Passed(t), pc[u] \in InBarrier, ~Passed(u), Before(t) = Before(u)
  PROVE  after[u] = after[t] /\ node[u] = node[t]
<1>1. /\ node[t] \in 0 .. NNodes /\ node[u] \in 0 .. NNodes
      /\ after[t] \in {"chunks", "node", "done"} /\ after[u] \in {"chunks", "node", "done"}
  BY Types
<1>2. AbortReadAt(t) /\ AbortReadAt(u) /\ PlaceOK(t) /\ PlaceOK(u)
  BY DEF AbortRead, PlacesOK
<1>3. ASSUME NEW v \in {t, u}
      PROVE  \/ after[v] = "chunks" /\ Before(v) = 2 * node[v] /\ node[v] < NNodes /\ abort # node[v]
             \/ after[v] = "node" /\ Before(v) = 2 * node[v] - 1 /\ node[v] \in 1 .. NNodes - 1
             \/ after[v] = "done" /\ Before(v) = 2 * node[v] /\ node[v] < NNodes /\ abort = node[v]
             \/ after[v] = "done" /\ Before(v) = 2 * NNodes - 1 /\ node[v] = NNodes
  <2>1. /\ node[v] \in 0 .. NNodes /\ after[v] \in {"chunks", "node", "done"}
        /\ pc[v] \in InBarrier /\ ~Passed(v) /\ AbortReadAt(v) /\ PlaceOK(v)
    BY <1>1, <1>2
  <2>2. CASE after[v] = "chunks"
    BY <2>1, <2>2 DEF Before, AbortReadAt, PlaceOK
  <2>3. CASE after[v] = "node"
    BY <2>1, <2>3 DEF Before, PlaceOK
  <2>4. CASE after[v] = "done" /\ node[v] < NNodes
    BY <2>1, <2>4 DEF Before, Straight, AbortReadAt
  <2>5. CASE after[v] = "done" /\ node[v] = NNodes
    BY <2>1, <2>5 DEF Before, Straight
  <2> QED BY <2>1, <2>2, <2>3, <2>4, <2>5
<1>4. node[t] \in Nat /\ node[u] \in Nat
  BY <1>1
<1>5. CASE after[t] = "chunks"
  BY <1>3, <1>4, <1>5
<1>6. CASE after[t] = "node"
  BY <1>3, <1>4, <1>6
<1>7. CASE after[t] = "done"
  BY <1>3, <1>4, <1>7
<1> QED BY <1>1, <1>5, <1>6, <1>7

\* The barrier opens: t leaves it, the other threads of the graph have passed.
Opens(t) ==
    /\ pc[t] \in InBarrier /\ pc' = [pc EXCEPT ![t] = Return(t)]
    /\ \A u \in Threads : Active(u) => pc[u] \in InBarrier /\ ~Passed(u)
    /\ \A u \in Threads : u # t /\ pc[u] \in InBarrier => pc[u] = "spin" /\ Passed(u)'
    /\ UNCHANGED <<nThreads, nGraph, counter, stop, pause, abort, last, node, nth, chunk, after, did>>
    /\ nBarrier' = 0

\* When the barrier opens, all threads of the graph move to the next stage.
LEMMA OpensStages ==
  ASSUME IInv, NEW t \in Threads, Active(t), Opens(t), NEW u \in Threads, Active(u)
  PROVE  /\ Stage(u) = Before(u) /\ Stage(u) = Stage(0) /\ Before(u) = Before(0)
         /\ after[u] = after[0] /\ node[u] = node[0]
         /\ Stage(u)' = IF after[0] = "done" THEN Finished ELSE Before(0) + 1
         /\ Stage(0) < Finished /\ Active(0) /\ Before(0) \in Nat
         /\ pc'[u] \in {"spin", "chunks", "node", "idle", "top"}
<1>0. Typed /\ PlacesOK /\ InStep /\ AbortRead
  BY DEF IInv
<1>1. /\ 0 \in Threads /\ Active(0)
      /\ node[u] \in 0 .. NNodes /\ after[u] \in {"chunks", "node", "done"}
      /\ node[0] \in 0 .. NNodes /\ after[0] \in {"chunks", "node", "done"}
      /\ pc \in [Threads -> Places]
  BY <1>0, Types DEF Active
<1>2. ASSUME NEW v \in Threads, Active(v)
      PROVE  /\ pc[v] \in InBarrier /\ ~Passed(v) /\ ~Left(v) /\ Taken(v) /\ Stage(v) = Before(v)
             /\ v # 0 => last[v] = nGraph
  <2>1. pc[v] \in InBarrier /\ ~Passed(v)
    BY <1>2 DEF Opens
  <2>2. ~Left(v)
    BY <2>1 DEF Left
  <2>3. Taken(v) /\ (v # 0 => last[v] = nGraph)
    BY <1>0, <2>1, <2>2, InGraph
  <2> QED BY <2>1, <2>2, <2>3 DEF Stage, InBarrier
<1>3. Stage(u) = Before(u) /\ Stage(u) = Stage(0) /\ Before(u) = Before(0)
  BY <1>0, <1>1, <1>2 DEF InStep
<1>4. after[u] = after[0] /\ node[u] = node[0]
  BY <1>0, <1>1, <1>2, <1>3, SameBarrier
<1>5. /\ after'[u] = after[u] /\ node'[u] = node[u] /\ nGraph' = nGraph /\ last' = last
      /\ nThreads' = nThreads
  BY DEF Opens
<1>6. Before(u)' = Before(u) /\ Finished' = Finished
  BY <1>5 DEF Before, Straight, Finished
<1>7. /\ after[u] = "chunks" => node[u] < NNodes
      /\ after[u] = "node" => node[u] \in 1 .. NNodes - 1
  BY <1>0, <1>2 DEF PlacesOK, PlaceOK
<1>9. Stage(0) < Finished /\ Active(0) /\ Before(0) \in Nat
  <2>1. Stage(0) = Before(u)
    BY <1>3
  <2>2. Before(u) < Finished /\ Before(u) \in Nat
    BY <1>1, <1>7 DEF Before, Straight, Finished
  <2> QED BY <2>1, <2>2, <1>1, <1>3
<1>8. CASE u # t
  <2>1. pc'[u] = "spin" /\ Passed(u)'
    BY <1>1, <1>2, <1>8 DEF Opens
  <2>2. Taken(u)'
    BY <1>2, <2>1, <1>5 DEF Taken
  <2>3. Left(u)' <=> after[u] = "done"
    BY <2>1, <1>5 DEF Left
  <2>4. Stage(u)' = IF after[u] = "done" THEN Finished ELSE Before(u) + 1
    BY <2>1, <2>2, <2>3, <1>5, <1>6 DEF Stage, InBarrier
  <2> QED BY <2>1, <2>4, <1>3, <1>4, <1>9
<1>10. CASE u = t
  <2>1. pc'[u] = IF after[u] = "done" THEN Home(u) ELSE after[u]
    BY <1>1, <1>10 DEF Opens, Return
  <2>2. Taken(u)'
    BY <1>1, <1>2, <2>1, <1>5 DEF Taken, Home
  <2>3. CASE after[u] = "done"
    <3>1. pc'[u] \in {"idle", "top"}
      BY <2>1, <2>3 DEF Home
    <3>2. Stage(u)' = Finished
      BY <3>1, <2>2, <1>6 DEF Stage, InBarrier
    <3> QED BY <3>1, <3>2, <2>3, <1>3, <1>4, <1>9
  <2>4. CASE after[u] = "chunks"
    <3>1. pc'[u] = "chunks"
      BY <2>1, <2>4
    <3>2. Stage(u)' = 2 * node[u] + 1
      BY <3>1, <2>2, <1>5 DEF Stage
    <3>3. Before(u) = 2 * node[u]
      BY <2>4 DEF Before
    <3> QED BY <3>1, <3>2, <3>3, <2>4, <1>3, <1>4, <1>9
  <2>5. CASE after[u] = "node"
    <3>1. pc'[u] = "node" /\ node[u] \in 1 .. NNodes - 1
      BY <2>1, <2>5, <1>7
    <3>2. Stage(u)' = 2 * node[u]
      BY <3>1, <2>2, <1>5 DEF Stage, Straight
    <3>3. Before(u) = 2 * node[u] - 1
      BY <2>5 DEF Before
    <3>4. Before(u) + 1 = 2 * node[u]
      BY <3>1, <3>3
    <3> QED BY <3>1, <3>2, <3>4, <2>5, <1>3, <1>4, <1>9
  <2> QED BY <2>3, <2>4, <2>5, <1>1
<1> QED BY <1>3, <1>4, <1>8, <1>9, <1>10

\* ... and the invariant holds of where they are,
LEMMA OpensPlaces ==
  ASSUME IInv, NEW t \in Threads, Active(t), Opens(t)
  PROVE  PlacesOK' /\ InStep' /\ BarrierCounts' /\ AbortRead' /\ Ready' /\ NodesAgree'
<1>0. Typed /\ PlacesOK
  BY DEF IInv
<1>1. /\ after' = after /\ node' = node /\ nGraph' = nGraph /\ last' = last /\ nth' = nth
      /\ nThreads' = nThreads /\ chunk' = chunk
      /\ \A u \in Threads : Active(u)' <=> Active(u)
      /\ 0 \in Threads /\ pc \in [Threads -> Places]
  BY <1>0, Types DEF Opens, Active
<1>2. \A u \in Threads : u # t => pc'[u] = pc[u]
  BY <1>1 DEF Opens
<1>3. pc'[t] \in {"chunks", "node", "idle", "top"}
  BY <1>1, OpensStages, <1>0, Types DEF Opens, Return, Home
<1>4. \A u \in Threads : pc'[u] \in InBarrier => pc'[u] = "spin" /\ Passed(u)' /\ u # t
  BY <1>2, <1>3 DEF Opens, InBarrier
<1>5. ASSUME NEW u \in Threads PROVE PlaceOK(u)'
  <2>1. PlaceOK(u)
    BY <1>0 DEF PlacesOK
  <2>2. CASE Active(u)
    <3>1. pc[u] \in InBarrier /\ ~Left(u)
      BY <2>2 DEF Opens, Left
    <3>2. /\ Active(u)' /\ (u # 0 => last'[u] = nGraph') /\ nth'[u] = nThreads'
          /\ (after[u] = "chunks" => node[u] < NNodes)
          /\ (after[u] = "node" => node[u] \in 1 .. NNodes - 1)
      BY <1>1, <2>1, <2>2, <3>1 DEF PlaceOK
    <3>3. CASE u = t
      <4>1. pc'[u] = "chunks" => after[u] = "chunks"
        BY <1>1, <3>3 DEF Opens, Return, Home
      <4>2. pc'[u] \in {"chunks", "node", "idle", "top"}
        BY <1>3, <3>3
      <4> QED BY <4>1, <4>2, <3>2, <1>1 DEF PlaceOK, InBarrier
    <3>4. CASE u # t
      <4>1. pc'[u] = "spin"
        BY <1>2, <3>1, <3>4, <1>4
      <4> QED BY <4>1, <3>2, <1>1 DEF PlaceOK
    <3> QED BY <3>3, <3>4
  <2>3. CASE ~Active(u)
    <3>1. u # t /\ pc'[u] = pc[u]
      BY <2>3, <1>2
    <3>2. CASE pc[u] \in InBarrier
      <4>1. pc'[u] = "spin" /\ Passed(u)'
        BY <3>1, <3>2, <1>4
      <4>2. after[u] = "done"
        BY <2>1, <2>3, <3>2 DEF PlaceOK, Left
      <4>3. Left(u)'
        BY <4>1, <4>2, <1>1 DEF Left
      <4> QED BY <4>1, <4>2, <4>3, <1>1 DEF PlaceOK
    <3>3. CASE pc[u] \notin InBarrier
      <4>1. ~Left(u)
        BY <3>3 DEF Left, Passed, InBarrier
      <4>2. pc[u] \notin InNode
        BY <4>1, <2>1, <2>3 DEF PlaceOK
      <4>3. pc'[u] \notin InNode \union InBarrier /\ ~Active(u)'
        BY <3>1, <3>3, <4>2, <2>3, <1>1
      <4> QED BY <4>3 DEF PlaceOK, InNode, InBarrier
    <3> QED BY <3>2, <3>3
  <2> QED BY <2>2, <2>3
<1>6. PlacesOK'
  BY <1>5 DEF PlacesOK
<1>7. InStep'
  <2>1. Active(0)
    BY <1>1, OpensStages
  <2>2. \A u \in Threads : Active(u) =>
            Stage(u)' = IF after[0] = "done" THEN Finished ELSE Before(0) + 1
    BY OpensStages
  <2>3. \A u \in Threads : Active(u) => Stage(u)' = Stage(0)'
    BY <2>1, <2>2, <1>1
  <2> QED BY <2>3, <1>1 DEF InStep
<1>8. \A u \in Threads : ~Waiting(u)' /\ pc'[u] \notin {"reset", "release"}
  BY <1>4 DEF Waiting, Passed, InBarrier
<1>9. BarrierCounts'
  <2>1. {u \in Threads : Waiting(u)}' = {}
    BY <1>8
  <2>2. nBarrier' = 0
    BY DEF Opens
  <2> QED BY <2>1, <2>2, <1>8, FS_EmptySet DEF BarrierCounts
<1>10. AbortRead' /\ Ready'
  BY <1>4 DEF AbortRead, Ready, AbortReadAt, ReadyAt
<1>11. NodesAgree'
  <2>1. \A u \in Threads : Active(u) => node[u] = node[0]
    BY OpensStages
  <2> QED BY <2>1, <1>1 DEF NodesAgree
<1> QED BY <1>6, <1>7, <1>9, <1>10, <1>11

\* ... and of the chunks: a product that was in progress is complete, one that begins has
\* given chunk t to thread t.
LEMMA OpensRows ==
  ASSUME IInv, NEW t \in Threads, Active(t), Opens(t)
  PROVE  Done'
<1>0. Typed /\ PlacesOK /\ RowsOK /\ NotBegun /\ AllDone /\ AtMostOnce /\ Ready
  BY DEF IInv, Done
<1>1. /\ after' = after /\ node' = node /\ did' = did /\ nGraph' = nGraph /\ counter' = counter
      /\ chunk' = chunk /\ nThreads' = nThreads /\ Finished' = Finished
      /\ \A u \in Threads : Active(u)' <=> Active(u)
  BY DEF Opens, Active, Finished
<1>2. /\ 0 \in Threads /\ Active(0) /\ Stage(0) = Before(0) /\ Stage(0) < Finished /\ Before(0) \in Nat
      /\ Stage(0)' = IF after[0] = "done" THEN Finished ELSE Before(0) + 1
  BY <1>0, Types, OpensStages
<1>3. /\ node[0] \in 0 .. NNodes /\ node[0] \in Nat /\ after[0] \in {"chunks", "node", "done"}
      /\ nThreads \in 1 .. NMax /\ counter \in Nat
      /\ pc \in [Threads -> Places]
  BY <1>0, <1>2, Types
<1>4. /\ after[0] = "chunks" => node[0] < NNodes
      /\ after[0] = "node" => node[0] \in 1 .. NNodes - 1
  BY <1>0, <1>2 DEF Opens, PlacesOK, PlaceOK
<1>5. ASSUME NEW k \in 0 .. NNodes - 1
      PROVE  (Full(k) => Full(k)') /\ (Empty(k) => Empty(k)')
  BY <1>1 DEF Full, Empty, Total, Chunks
<1>6. ASSUME NEW k \in 0 .. NNodes - 1
      PROVE  /\ 2 * k + 1 < Stage(0) => Full(k)
             /\ 2 * k + 1 = Stage(0) => HandedOut(k)
             /\ 2 * k + 1 > Stage(0) => Empty(k)
  <2>1. RowOK(k)
    BY <1>0, <1>2 DEF RowsOK
  <2> QED BY <2>1 DEF RowOK
<1>7. ASSUME NEW k \in 0 .. NNodes - 1, HandedOut(k), after[0] # "chunks"
      PROVE  Full(k)
  <2>1. \A u \in Threads : Active(u) => ~Holds(u)
    <3> SUFFICES ASSUME NEW u \in Threads, Active(u) PROVE ~Holds(u)
      OBVIOUS
    <3>1. pc[u] \in InBarrier /\ ~Passed(u)
      BY DEF Opens
    <3> QED BY <3>1 DEF Holds, InBarrier
  <2>2. Total(nThreads) \in Nat /\ Total(nThreads) <= counter
    BY <2>1, <1>2, <1>3, <1>7, TotalFacts DEF HandedOut
  <2>3. \A u \in Threads : ~Holds(u)
    BY <2>1 DEF Holds
  <2>4. \A c \in Chunks : did[k][c] = IF c < counter /\ c < Total(nThreads)
                                         /\ ~\E u \in Threads : Holds(u) /\ chunk[u] = c THEN 1 ELSE 0
    BY <1>7 DEF HandedOut
  <2>5. ASSUME NEW c \in Chunks PROVE did[k][c] = IF c < Total(nThreads) THEN 1 ELSE 0
    <3>1. c < Total(nThreads) => c < counter
      BY <2>2, <1>3 DEF Chunks
    <3> QED BY <2>3, <2>4, <3>1
  <2> QED BY <2>5 DEF Full
<1>8. ASSUME NEW k \in 0 .. NNodes - 1, k = node[0], Empty(k), after[0] = "chunks"
      PROVE  HandedOut(k)'
  <2>1. Total(nThreads) \in Nat /\ nThreads <= Total(nThreads)
    BY <1>3, TotalFacts
  <2>2. \A u \in Threads : Active(u) => Holds(u)' /\ chunk[u] = u
    <3> SUFFICES ASSUME NEW u \in Threads, Active(u) PROVE Holds(u)' /\ chunk[u] = u
      OBVIOUS
    <3>1. after[u] = "chunks" /\ pc[u] \in InBarrier /\ ~Passed(u)
      BY <1>8, OpensStages DEF Opens
    <3>2. chunk[u] = u
      BY <1>0, <3>1 DEF Ready, ReadyAt
    <3>3. CASE u = t
      <4>1. pc'[u] = "chunks"
        BY <3>1, <3>3, <1>3 DEF Opens, Return
      <4> QED BY <4>1, <3>2, <1>1 DEF Holds
    <3>4. CASE u # t
      BY <3>1, <3>2, <3>4, <1>1 DEF Opens, Holds
    <3> QED BY <3>3, <3>4
  <2>3. counter = nThreads
    <3>1. pc[0] \in InBarrier /\ ~Passed(0)
      BY <1>2 DEF Opens
    <3> QED BY <3>1, <1>0, <1>2, <1>8 DEF Ready, ReadyAt
  <2>4. \A c \in Chunks : did[k][c] = 0
    BY <1>8 DEF Empty
  <2>5. \A c \in Chunks : c < counter => \E u \in Threads : Holds(u)' /\ chunk[u] = c
    <3> SUFFICES ASSUME NEW c \in Chunks, c < nThreads PROVE \E u \in Threads : Holds(u)' /\ chunk[u] = c
      BY <2>3
    <3>1. c \in Threads /\ Active(c)
      BY <1>3 DEF Chunks, Active
    <3> QED BY <3>1, <2>2
  <2>6. \A u \in Threads : Active(u) => chunk[u] < counter
    BY <2>2, <2>3 DEF Active
  <2>7. Total(nThreads)' = Total(nThreads) /\ Chunks' = Chunks
    BY <1>1 DEF Total, Chunks
  <2>8. \A c \in Total(nThreads) .. counter - 1 : FALSE
    BY <2>1, <2>3, <1>3
  <2>9. \A u \in Threads : Holds(u)' => Active(u)
    BY <1>1 DEF Holds
  <2>10. \A c \in Chunks : did'[k][c] =
            IF c < counter' /\ c < Total(nThreads)' /\ ~\E u \in Threads : Holds(u)' /\ chunk'[u] = c THEN 1 ELSE 0
    BY <2>4, <2>5, <1>1
  <2>11. /\ nThreads' <= counter'
         /\ Total(nThreads)' = nThreads' => counter' = nThreads'
         /\ \A u \in Threads : Active(u)' => chunk'[u] < counter'
         /\ \A u, v \in Threads : Active(u)' /\ Active(v)' /\ u # v => chunk'[u] # chunk'[v]
         /\ \A u \in Threads : Active(u)' /\ ~Holds(u)' => Total(nThreads)' <= counter'
         /\ \A c \in Total(nThreads)' .. counter' - 1 : \E u \in Threads : Active(u)' /\ chunk'[u] = c
    <3> HIDE DEF Active
    <3> QED BY <2>2, <2>3, <2>6, <2>7, <2>8, <1>1, <1>3
  <2> QED BY <2>7, <2>10, <2>11 DEF HandedOut
<1>9. RowsOK'
  <2> SUFFICES ASSUME NEW k \in 0 .. NNodes - 1, after[0] # "done" PROVE RowOK(k)'
    <3>1. Finished \in Nat
      BY DEF Finished
    <3>2. after[0] = "done" => Stage(0)' = Finished
      BY <1>2
    <3>3. Stage(0)' < Finished' => after[0] # "done"
      BY <3>1, <3>2, <1>1
    <3> QED BY <3>3 DEF RowsOK
  <2>1. Stage(0)' = Stage(0) + 1 /\ k \in Nat
    BY <1>2
  <2>2. CASE after[0] = "chunks"
    <3>1. Stage(0) = 2 * node[0]
      BY <2>2, <1>2 DEF Before
    <3>2. 2 * k + 1 < Stage(0)' => 2 * k + 1 < Stage(0)
      BY <2>1, <3>1, <1>3
    <3>3. 2 * k + 1 = Stage(0)' => k = node[0] /\ 2 * k + 1 > Stage(0)
      BY <2>1, <3>1, <1>3
    <3>4. 2 * k + 1 > Stage(0)' => 2 * k + 1 > Stage(0)
      BY <2>1, <3>1, <1>3
    <3>5. 2 * k + 1 < Stage(0)' => Full(k)'
      BY <3>2, <1>5, <1>6
    <3>6. 2 * k + 1 = Stage(0)' => HandedOut(k)'
      BY <3>3, <1>6, <1>8, <2>2
    <3>7. 2 * k + 1 > Stage(0)' => Empty(k)'
      BY <3>4, <1>5, <1>6
    <3> QED BY <3>5, <3>6, <3>7 DEF RowOK
  <2>3. CASE after[0] = "node"
    <3>1. Stage(0) = 2 * node[0] - 1
      BY <2>3, <1>2 DEF Before
    <3>2. 2 * k + 1 < Stage(0)' => 2 * k + 1 < Stage(0) \/ 2 * k + 1 = Stage(0)
      BY <2>1, <3>1, <1>3
    <3>3. 2 * k + 1 # Stage(0)'
      BY <2>1, <3>1, <1>3
    <3>4. 2 * k + 1 > Stage(0)' => 2 * k + 1 > Stage(0)
      BY <2>1, <3>1, <1>3
    <3>5. 2 * k + 1 < Stage(0)' => Full(k)'
      BY <3>2, <1>5, <1>6, <1>7, <2>3
    <3>7. 2 * k + 1 > Stage(0)' => Empty(k)'
      BY <3>4, <1>5, <1>6
    <3> QED BY <3>3, <3>5, <3>7 DEF RowOK
  <2> QED BY <2>2, <2>3, <1>3
<1>10. NotBegun'
  <2>1. pc'[0] \in {"spin", "chunks", "node", "idle", "top"}
    BY <1>2, OpensStages
  <2> QED BY <2>1 DEF NotBegun
<1>11. AllDone'
  <2> SUFFICES ASSUME Stage(0)' = Finished, NEW k \in 0 .. node[0] - 1 PROVE Full(k)'
    BY <1>1 DEF AllDone
  <2>1. k \in 0 .. NNodes - 1 /\ k < node[0] /\ k \in Nat
    BY <1>3
  <2>2. after[0] # "chunks"
    <3> SUFFICES ASSUME after[0] = "chunks" PROVE FALSE
      OBVIOUS
    <3>1. Stage(0)' = 2 * node[0] + 1
      BY <1>2 DEF Before
    <3> QED BY <3>1, <1>3 DEF Finished
  <2>3. 2 * k + 1 < Stage(0) \/ 2 * k + 1 = Stage(0)
    <3>1. Stage(0) = Before(0) /\ Before(0) \in {2 * node[0], 2 * node[0] - 1, 2 * NNodes - 1}
      BY <1>2 DEF Before, Straight
    <3> QED BY <3>1, <2>1, <1>3
  <2>4. Full(k)
    BY <2>1, <2>2, <2>3, <1>6, <1>7
  <2> QED BY <2>1, <2>4, <1>5
<1>12. AtMostOnce'
  BY <1>0, <1>1 DEF AtMostOnce, Chunks
<1> QED BY <1>9, <1>10, <1>11, <1>12 DEF Done

\* The store to n_barrier_passed opens the barrier.
LEMMA ReleaseStep ==
  ASSUME IInv, NEW t \in Threads, Release(t)
  PROVE  IInv'
<1>0. Typed /\ Flags /\ PlacesOK /\ BarrierCounts
  BY DEF IInv
<1>1. /\ pc[t] = "release" /\ pc'[t] = Return(t) /\ pc' = [pc EXCEPT ![t] = Return(t)]
      /\ UNCHANGED <<nThreads, nGraph, counter, stop, pause, abort, nBarrier, seen, after,
                     last, node, nth, chunk, did>>
      /\ nPassed' = nPassed + 1
  BY <1>0, Types DEF Release, Go, shared, local
<1>2. /\ nPassed \in Nat
      /\ \A u \in Threads : seen[u] \in Nat /\ seen[u] <= nPassed
      /\ after[t] \in {"chunks", "node", "done"}
      /\ node[t] \in 0 .. NNodes /\ nth[t] \in 0 .. NMax /\ chunk[t] \in Nat
      /\ pc \in [Threads -> Places]
  BY <1>0, Types
<1>3. Only(t)
  <2>1. pc'[0] = "publish" <=> pc[0] = "publish"
    BY <1>1, <1>2 DEF Return, Home
  <2> QED BY <2>1, <1>0, <1>1, Functions DEF Only
<1>4. Typed'
  <2>1. FitsAt(t)
    BY <1>1, <1>2 DEF FitsAt, Return, InNode
  <2>2. Fits
    <3>1. /\ abort \in 0 .. NoAbort /\ nBarrier \in Nat /\ counter \in Nat
          /\ did \in [0 .. NNodes - 1 -> [0 .. NChunks + NMax -> Nat]]
      BY <1>0 DEF Typed
    <3>2. abort' = abort /\ nBarrier' = nBarrier /\ counter' = counter /\ did' = did
          /\ nPassed' \in Nat /\ nPassed <= nPassed'
      BY <1>1, <1>2
    <3> QED BY <3>1, <3>2 DEF Fits
  <2> QED BY <1>0, <1>3, <2>1, <2>2, StaysTyped
<1>5. Flags'
  BY <1>0, <1>1 DEF Flags
<1>6. Active(t)
  BY <1>0, <1>1, WaitingActive DEF Waiting
<1>7. \A u \in Threads : Active(u) => Waiting(u) /\ (u # t => pc[u] = "spin")
  BY <1>0, <1>1 DEF BarrierCounts
<1>8. \A u \in Threads : Active(u) => pc[u] \in InBarrier /\ ~Passed(u)
  BY <1>0, <1>7, WaitingActive
<1>9. ASSUME NEW u \in Threads, u # t, pc[u] \in InBarrier
      PROVE  pc[u] = "spin" /\ Passed(u)'
  <2>1. pc[u] = "spin"
    <3>1. CASE Active(u)
      BY <3>1, <1>7, <1>9
    <3>2. CASE ~Active(u)
      BY <3>2, <1>0, <1>9 DEF PlacesOK, PlaceOK, Left, Passed
    <3> QED BY <3>1, <3>2
  <2>2. pc'[u] = pc[u] /\ seen'[u] # nPassed'
    BY <1>1, <1>2, <1>9
  <2> QED BY <2>1, <2>2 DEF Passed
<1>10. nBarrier' = 0
  BY <1>0, <1>1 DEF BarrierCounts
<1>11. Opens(t)
  BY <1>1, <1>8, <1>9, <1>10 DEF Opens, InBarrier
<1> QED BY <1>4, <1>5, <1>6, <1>11, OpensPlaces, OpensRows DEF IInv

\* A graph of one thread passes every barrier at once.
LEMMA ArriveAloneStep ==
  ASSUME IInv, NEW t \in Threads, Arrive(t), nThreads = 1
  PROVE  IInv'
<1>0. Typed /\ Flags /\ PlacesOK /\ BarrierCounts
  BY DEF IInv
<1>1. /\ pc[t] = "arrive" /\ pc'[t] = Return(t) /\ pc' = [pc EXCEPT ![t] = Return(t)]
      /\ UNCHANGED <<nThreads, nGraph, counter, stop, pause, abort, nBarrier, nPassed, after,
                     last, node, nth, chunk, did>>
      /\ seen' = [seen EXCEPT ![t] = nPassed]
  BY <1>0, Types DEF Arrive, Go, shared, local
<1>2. /\ nPassed \in Nat
      /\ after[t] \in {"chunks", "node", "done"}
      /\ node[t] \in 0 .. NNodes /\ nth[t] \in 0 .. NMax /\ chunk[t] \in Nat
      /\ pc \in [Threads -> Places] /\ seen \in [Threads -> Nat]
  BY <1>0, Types DEF Typed
<1>3. Only(t)
  <2>1. pc'[0] = "publish" <=> pc[0] = "publish"
    BY <1>1, <1>2 DEF Return, Home
  <2> QED BY <2>1, <1>0, <1>1, Functions DEF Only
<1>4. Typed'
  <2>1. FitsAt(t)
    BY <1>1, <1>2 DEF FitsAt, Return, InNode
  <2>2. Fits
    <3>1. /\ abort \in 0 .. NoAbort /\ nBarrier \in Nat /\ counter \in Nat
          /\ did \in [0 .. NNodes - 1 -> [0 .. NChunks + NMax -> Nat]]
      BY <1>0 DEF Typed
    <3>2. abort' = abort /\ nBarrier' = nBarrier /\ counter' = counter /\ did' = did
          /\ nPassed' \in Nat /\ nPassed <= nPassed'
      BY <1>1, <1>2
    <3> QED BY <3>1, <3>2 DEF Fits
  <2> QED BY <1>0, <1>3, <2>1, <2>2, StaysTyped
<1>5. Flags'
  BY <1>0, <1>1 DEF Flags
<1>6. Active(t)
  <2>1. ~Left(t)
    BY <1>1 DEF Left, Passed
  <2> QED BY <2>1, <1>0, <1>1, InGraph DEF InBarrier
<1>7. \A u \in Threads : Active(u) => u = t
  BY <1>6 DEF Active
<1>8. \A u \in Threads : Active(u) => pc[u] \in InBarrier /\ ~Passed(u)
  BY <1>1, <1>7 DEF Passed, InBarrier
<1>9. ASSUME NEW u \in Threads, u # t, pc[u] \in InBarrier
      PROVE  pc[u] = "spin" /\ Passed(u)'
  <2>1. Left(u)
    BY <1>7, <1>9, <1>0 DEF PlacesOK, PlaceOK
  <2>2. pc'[u] = pc[u] /\ seen'[u] = seen[u] /\ nPassed' = nPassed
    BY <1>1, <1>2, <1>9
  <2> QED BY <2>1, <2>2 DEF Left, Passed
<1>10. nBarrier' = 0
  <2>1. \A u \in Threads : ~Waiting(u)
    BY <1>0, <1>1, <1>7, WaitingActive DEF Waiting
  <2>2. {u \in Threads : Waiting(u)} = {}
    BY <2>1
  <2> QED BY <2>2, <1>0, <1>1, FS_EmptySet DEF BarrierCounts
<1>11. Opens(t)
  BY <1>1, <1>8, <1>9, <1>10 DEF Opens, InBarrier
<1> QED BY <1>4, <1>5, <1>6, <1>11, OpensPlaces, OpensRows DEF IInv

-----------------------------------------------------------------------------
\* The kickoff

\* In the calls between two graphs every thread of the last one has finished it.
LEMMA Closed ==
  ASSUME IInv, pc[0] \in {"idle", "kickoff", "publish", "joining"}
  PROVE  /\ Stage(0) = Finished
         /\ \A u \in Threads : Active(u) => Stage(u) = Finished
         /\ \A u \in Threads : pc[u] \notin InNode /\ (pc[u] \in InBarrier => Left(u)) /\ ~Waiting(u)
         /\ Active(0) /\ 0 \in Threads
<1>0. Typed /\ PlacesOK /\ InStep
  BY DEF IInv
<1>1. Active(0) /\ 0 \in Threads
  BY <1>0, Types DEF Active
<1>2. Stage(0) = Finished
  BY DEF Stage, Taken, InBarrier
<1>3. ASSUME NEW u \in Threads, Active(u)
      PROVE  Stage(u) = Finished /\ pc[u] \notin InNode /\ (pc[u] \in InBarrier => Left(u))
  <2>1. Stage(u) = Finished
    BY <1>0, <1>2, <1>3 DEF InStep
  <2>2. Finished # 0 /\ Finished \in Nat
    BY DEF Finished
  <2>3. Taken(u)
    BY <2>1, <2>2 DEF Stage
  <2>4. PlaceOK(u) /\ node[u] \in 0 .. NNodes /\ node[u] \in Nat /\ after[u] \in {"chunks", "node", "done"}
    BY <1>0, Types DEF PlacesOK
  <2>6. pc[u] \notin InNode
    <3>1. pc[u] # "begin"
      BY <2>1, <2>2 DEF Stage
    <3>2. CASE pc[u] = "node"
      <4>1. Stage(u) = Straight(u)
        BY <2>3, <3>2 DEF Stage
      <4> QED BY <4>1, <2>1, <2>4 DEF Straight, Finished
    <3>3. CASE pc[u] \in {"chunks", "finish"}
      <4>1. Stage(u) = 2 * node[u] + 1
        BY <2>3, <3>3 DEF Stage
      <4> QED BY <4>1, <2>1, <2>4 DEF Finished
    <3> QED BY <3>1, <3>2, <3>3 DEF InNode
  <2>7. ASSUME pc[u] \in InBarrier, ~Left(u) PROVE FALSE
    <3>1. Stage(u) = IF Passed(u) THEN Before(u) + 1 ELSE Before(u)
      BY <2>3, <2>7 DEF Stage, InBarrier
    <3>2. after[u] = "chunks" => node[u] < NNodes
      BY <2>4, <2>7 DEF PlaceOK
    <3>3. after[u] = "node" => node[u] \in 1 .. NNodes - 1
      BY <2>4, <2>7 DEF PlaceOK
    <3>4. CASE after[u] = "chunks"
      BY <3>1, <3>2, <3>4, <2>1, <2>4 DEF Before, Finished
    <3>5. CASE after[u] = "node"
      BY <3>1, <3>3, <3>5, <2>1, <2>4 DEF Before, Finished
    <3>6. CASE after[u] = "done"
      <4>1. ~Passed(u)
        BY <3>6, <2>7 DEF Left
      <4> QED BY <3>1, <3>6, <4>1, <2>1, <2>4 DEF Before, Straight, Finished
    <3> QED BY <3>4, <3>5, <3>6, <2>4
  <2> QED BY <2>1, <2>6, <2>7
<1>4. ASSUME NEW u \in Threads
      PROVE  pc[u] \notin InNode /\ (pc[u] \in InBarrier => Left(u)) /\ ~Waiting(u)
  <2>1. pc[u] \notin InNode /\ (pc[u] \in InBarrier => Left(u))
    <3>1. CASE Active(u)
      BY <3>1, <1>3
    <3>2. CASE ~Active(u)
      BY <3>2, <1>0 DEF PlacesOK, PlaceOK, Left, Passed, InNode, InBarrier
    <3> QED BY <3>1, <3>2
  <2> QED BY <2>1 DEF Waiting, Left, Passed, InBarrier
<1> QED BY <1>1, <1>2, <1>3, <1>4

\* Thread 0 in the kickoff keeps the types.
LEMMA CallerTyped ==
  ASSUME Typed, pc' = [pc EXCEPT ![0] = pc'[0]], pc'[0] \in CallerPlaces,
         nThreads' \in 1 .. NMax, nGraph' \in 0 .. MaxGraphs, nGraph <= nGraph',
         abort' \in 0 .. NoAbort, counter' \in Nat,
         did' \in [0 .. NNodes - 1 -> [0 .. NChunks + NMax -> Nat]],
         UNCHANGED <<nBarrier, nPassed, last, node, nth, chunk, seen, after>>
  PROVE  Typed' /\ \A u \in Threads : u # 0 => pc'[u] = pc[u]
<1>1. pc \in [Threads -> Places] /\ nGraph \in Nat /\ 0 \in Threads
      /\ \A w \in Workers : last[w] \in Nat /\ last[w] <= nGraph /\ w \in Threads /\ w # 0
  BY Types
<1>2. pc' \in [Threads -> Places] /\ \A u \in Threads : u # 0 => pc'[u] = pc[u]
  <2>1. pc'[0] \in Places
    BY DEF Places
  <2> QED BY <1>1, <2>1
<1>3. /\ pc'[0] \in CallerPlaces \union InNode \union InBarrier \union {"ended"}
      /\ \A w \in Workers : pc'[w] \in WorkerPlaces \union InNode \union InBarrier \union {"ended"}
  <2>1. \A w \in Workers : pc[w] \in WorkerPlaces \union InNode \union InBarrier \union {"ended"}
    BY DEF Typed
  <2> QED BY <2>1, <1>1, <1>2
<1>4. /\ nBarrier \in Nat /\ nPassed \in Nat /\ last \in [Workers -> Nat]
      /\ node \in [Threads -> 0 .. NNodes] /\ nth \in [Threads -> 0 .. NMax]
      /\ chunk \in [Threads -> Nat] /\ seen \in [Threads -> Nat]
      /\ after \in [Threads -> {"chunks", "node", "done"}]
      /\ \A t \in Threads : seen[t] <= nPassed
  BY DEF Typed
<1>5. \A w \in Workers : last'[w] <= nGraph'
  <2>1. nGraph' \in Nat /\ last' = last
    OBVIOUS
  <2> QED BY <2>1, <1>1
<1> QED BY <1>2, <1>3, <1>4, <1>5 DEF Typed

\* ... and with the barrier empty, most of the invariant does not depend on it.
LEMMA CallerFrame ==
  ASSUME IInv, pc[0] \in {"idle", "kickoff", "publish"}, pc' = [pc EXCEPT ![0] = pc'[0]],
         pc'[0] \in {"kickoff", "publish", "wake"}, Typed',
         \A u \in Threads : u # 0 => pc'[u] = pc[u],
         UNCHANGED <<stop, pause, nBarrier, nPassed, last, node, nth, chunk, seen, after>>
  PROVE  /\ Flags' /\ PlacesOK' /\ BarrierCounts' /\ AbortRead' /\ Ready'
<1>0. Typed /\ Flags /\ BarrierCounts /\ PlacesOK
  BY DEF IInv
<1>1. \A u \in Threads : pc[u] \notin InNode /\ (pc[u] \in InBarrier => Left(u)) /\ ~Waiting(u)
  BY Closed
<1>2. \A u \in Threads : pc'[u] \notin InNode /\ (pc'[u] \in InBarrier => Left(u)')
  <2> SUFFICES ASSUME NEW u \in Threads PROVE pc'[u] \notin InNode /\ (pc'[u] \in InBarrier => Left(u)')
    OBVIOUS
  <2>1. CASE u = 0
    BY <2>1 DEF InNode, InBarrier
  <2>2. CASE u # 0
    BY <2>2, <1>1 DEF Left, Passed
  <2> QED BY <2>1, <2>2
<1>4. PlacesOK'
  <2> SUFFICES ASSUME NEW u \in Threads PROVE PlaceOK(u)'
    BY DEF PlacesOK
  <2>1. PlaceOK(u) /\ pc'[u] \notin InNode /\ (pc'[u] \in InBarrier => Left(u)')
    BY <1>0, <1>2 DEF PlacesOK
  <2>2. CASE pc'[u] \in InBarrier
    <3>1. after'[u] = "done" /\ pc'[u] = "spin"
      BY <2>1, <2>2 DEF Left, Passed
    <3> QED BY <2>1, <2>2, <3>1 DEF PlaceOK, InNode
  <2>3. CASE pc'[u] \notin InBarrier
    BY <2>1, <2>3 DEF PlaceOK, InNode, InBarrier
  <2> QED BY <2>2, <2>3
<1>5. \A u \in Threads : ~Waiting(u)' /\ pc'[u] \notin {"reset", "release"} /\ pc[u] \notin {"reset", "release"}
  <2>1. \A u \in Threads : pc'[u] \in InBarrier => Passed(u)' /\ pc'[u] = "spin"
    BY <1>2 DEF Left, Passed
  <2> QED BY <2>1, <1>1 DEF Waiting, Passed, InBarrier
<1>6. BarrierCounts'
  <2>1. {u \in Threads : Waiting(u)}' = {} /\ {u \in Threads : Waiting(u)} = {}
    BY <1>1, <1>5
  <2>2. nBarrier = 0
    BY <1>0, <1>5, <2>1, FS_EmptySet DEF BarrierCounts
  <2> QED BY <1>5, <2>1, <2>2, FS_EmptySet DEF BarrierCounts
<1>7. AbortRead' /\ Ready'
  <2>1. \A u \in Threads : pc'[u] \in InBarrier => Passed(u)'
    BY <1>2 DEF Left
  <2> QED BY <2>1 DEF AbortRead, Ready, AbortReadAt, ReadyAt
<1>8. Flags'
  BY <1>0 DEF Flags
<1> QED BY <1>4, <1>6, <1>7, <1>8

\* ggml_graph_compute resets the parameters.
LEMMA PrepareStep ==
  ASSUME IInv, Prepare
  PROVE  IInv'
<1>0. Typed /\ InStep /\ NodesAgree
  BY DEF IInv
<1>1. /\ pc[0] = "idle" /\ pc'[0] = "kickoff" /\ pc' = [pc EXCEPT ![0] = pc'[0]]
      /\ counter' = 0 /\ abort' = NoAbort /\ did' = Blank /\ nGraph < MaxGraphs
      /\ UNCHANGED <<nThreads, nGraph, stop, pause, nBarrier, nPassed, seen, after,
                     last, node, nth, chunk>>
  BY <1>0, Types DEF Prepare, Go, barrier
<1>2. nThreads \in 1 .. NMax /\ nGraph \in 0 .. MaxGraphs
  BY <1>0 DEF Typed
<1>3. Typed' /\ \A u \in Threads : u # 0 => pc'[u] = pc[u]
  <2>1. did' \in [0 .. NNodes - 1 -> [0 .. NChunks + NMax -> Nat]]
    BY <1>1 DEF Blank
  <2>2. abort' \in 0 .. NoAbort /\ counter' \in Nat
    BY <1>1 DEF NoAbort
  <2>3. pc'[0] \in CallerPlaces
    BY <1>1 DEF CallerPlaces
  <2> QED BY <1>0, <1>1, <1>2, <2>1, <2>2, <2>3, CallerTyped
<1>4. \A u \in Threads : Active(u)' <=> Active(u)
  BY <1>1 DEF Active
<1>5. Flags' /\ PlacesOK' /\ BarrierCounts' /\ AbortRead' /\ Ready'
  BY <1>1, <1>3, <1>4, CallerFrame
<1>6. \A u \in Threads : Stage(u)' = Stage(u)
  <2> SUFFICES ASSUME NEW u \in Threads PROVE Stage(u)' = Stage(u)
    OBVIOUS
  <2>1. CASE u = 0
    BY <2>1, <1>1 DEF Stage, Taken, InBarrier, Finished
  <2>2. CASE u # 0
    <3>1. pc'[u] = pc[u]
      BY <2>2, <1>3
    <3>2. (Taken(u)' <=> Taken(u)) /\ (Passed(u)' <=> Passed(u)) /\ (Left(u)' <=> Left(u))
          /\ Before(u)' = Before(u) /\ Straight(u)' = Straight(u) /\ Finished' = Finished
      BY <3>1, <1>1 DEF Taken, Passed, Left, Before, Straight, Finished
    <3> QED BY <3>1, <3>2, <1>1 DEF Stage
  <2> QED BY <2>1, <2>2
<1>7. Stage(0) = Finished /\ Active(0) /\ 0 \in Threads
  BY <1>1, Closed
<1>8. InStep'
  BY <1>0, <1>4, <1>6, <1>7 DEF InStep
<1>9. NodesAgree'
  BY <1>0, <1>1, <1>4, <1>7 DEF NodesAgree
<1>10. Done'
  <2>1. \A k \in 0 .. NNodes - 1, c \in Chunks : did'[k][c] = 0
    BY <1>1 DEF Blank, Chunks
  <2>2. \A k \in 0 .. NNodes - 1 : Empty(k)'
    BY <2>1 DEF Empty, Chunks
  <2>3. RowsOK'
    <3>1. Stage(0)' = Finished' /\ Finished' \in Nat
      BY <1>6, <1>7 DEF Finished
    <3> QED BY <3>1 DEF RowsOK
  <2>4. NotBegun'
    BY <2>2, <1>1 DEF NotBegun
  <2>5. AllDone'
    BY <1>1 DEF AllDone
  <2>6. AtMostOnce'
    BY <2>1 DEF AtMostOnce, Chunks
  <2> QED BY <2>3, <2>4, <2>5, <2>6 DEF Done
<1> QED BY <1>3, <1>5, <1>8, <1>9, <1>10 DEF IInv

\* The kickoff stores the number of threads: until it has raised n_graph there is no new
\* graph to take, so the threads it adds count as having finished the last one.
LEMMA StoreWidthStep ==
  ASSUME IInv, StoreWidth
  PROVE  IInv'
<1>0. Typed /\ Done
  BY DEF IInv
<1>1. /\ pc[0] = "kickoff" /\ pc'[0] = "publish" /\ pc' = [pc EXCEPT ![0] = pc'[0]]
      /\ nThreads' \in Widths
      /\ UNCHANGED <<nGraph, counter, abort, did, stop, pause, nBarrier, nPassed, seen, after,
                     last, node, nth, chunk>>
  BY <1>0, Types DEF StoreWidth, Go, barrier, local
<1>2. nThreads' \in 1 .. NMax /\ nGraph \in 0 .. MaxGraphs
  BY <1>0, <1>1 DEF Typed
<1>3. Typed' /\ \A u \in Threads : u # 0 => pc'[u] = pc[u]
  <2>1. /\ did \in [0 .. NNodes - 1 -> [0 .. NChunks + NMax -> Nat]]
        /\ abort \in 0 .. NoAbort /\ counter \in Nat
    BY <1>0 DEF Typed
  <2>3. pc'[0] \in CallerPlaces
    BY <1>1 DEF CallerPlaces
  <2> QED BY <1>0, <1>1, <1>2, <2>1, <2>3, CallerTyped
<1>5. Flags' /\ PlacesOK' /\ BarrierCounts' /\ AbortRead' /\ Ready'
  BY <1>1, <1>3, CallerFrame
<1>4. \A u \in Threads : pc[u] \notin InNode /\ (pc[u] \in InBarrier => Left(u))
  BY <1>1, Closed
<1>6. \A u \in Threads : Stage(u)' = Finished'
  <2> SUFFICES ASSUME NEW u \in Threads PROVE Stage(u)' = Finished'
    OBVIOUS
  <2>1. Taken(u)'
    BY <1>1 DEF Taken
  <2>2. pc'[u] \notin InNode \union {"wake"} /\ (pc'[u] \in InBarrier => Left(u)')
    <3>1. CASE u = 0
      BY <3>1, <1>1 DEF InNode, InBarrier
    <3>2. CASE u # 0
      <4>1. pc[u] # "wake"
        BY <3>2, <1>0, Types DEF Typed, WorkerPlaces, InNode, InBarrier
      <4> QED BY <4>1, <3>2, <1>1, <1>3, <1>4 DEF Left, Passed
    <3> QED BY <3>1, <3>2
  <2> QED BY <2>1, <2>2 DEF Stage, InNode
<1>7. 0 \in Threads
  BY <1>0, Types
<1>8. InStep'
  BY <1>6, <1>7 DEF InStep
<1>9. NodesAgree'
  BY <1>1 DEF NodesAgree
<1>10. Done'
  <2>1. \A k \in 0 .. NNodes - 1 : Empty(k)
    BY <1>0, <1>1 DEF Done, NotBegun
  <2>2. \A k \in 0 .. NNodes - 1 : Empty(k)'
    BY <2>1, <1>1 DEF Empty, Chunks
  <2>3. RowsOK'
    <3>1. Stage(0)' = Finished' /\ Finished' \in Nat
      BY <1>6, <1>7 DEF Finished
    <3> QED BY <3>1 DEF RowsOK
  <2>4. NotBegun'
    BY <2>2, <1>0, <1>1 DEF Done, NotBegun
  <2>5. AllDone'
    BY <1>1 DEF AllDone
  <2>6. AtMostOnce'
    BY <1>0, <1>1 DEF Done, AtMostOnce, Chunks
  <2> QED BY <2>3, <2>4, <2>5, <2>6 DEF Done
<1> QED BY <1>3, <1>5, <1>8, <1>9, <1>10 DEF IInv

\* The kickoff raises n_graph: every thread of the graph is in its first stage.
LEMMA PublishStep ==
  ASSUME IInv, Publish
  PROVE  IInv'
<1>0. Typed /\ Done
  BY DEF IInv
<1>1. /\ pc[0] = "publish" /\ pc'[0] = "wake" /\ pc' = [pc EXCEPT ![0] = pc'[0]]
      /\ nGraph' = nGraph + 1
      /\ UNCHANGED <<nThreads, counter, abort, did, stop, pause, nBarrier, nPassed, seen, after,
                     last, node, nth, chunk>>
  BY <1>0, Types DEF Publish, Go, barrier, local
<1>2. nThreads \in 1 .. NMax /\ nGraph' \in 0 .. MaxGraphs /\ nGraph <= nGraph' /\ nGraph \in Nat
  <2>1. nGraph < MaxGraphs
    BY <1>0, <1>1 DEF Done, NotBegun
  <2>2. nGraph \in Nat /\ nThreads \in 1 .. NMax
    BY <1>0, Types
  <2> QED BY <2>1, <2>2, <1>1
<1>3. Typed' /\ \A u \in Threads : u # 0 => pc'[u] = pc[u]
  <2>1. /\ did \in [0 .. NNodes - 1 -> [0 .. NChunks + NMax -> Nat]]
        /\ abort \in 0 .. NoAbort /\ counter \in Nat
    BY <1>0 DEF Typed
  <2>3. pc'[0] \in CallerPlaces
    BY <1>1 DEF CallerPlaces
  <2> QED BY <1>0, <1>1, <1>2, <2>1, <2>3, CallerTyped
<1>4. \A u \in Threads : Active(u)' <=> Active(u)
  BY <1>1 DEF Active
<1>5. Flags' /\ PlacesOK' /\ BarrierCounts' /\ AbortRead' /\ Ready'
  BY <1>1, <1>3, <1>4, CallerFrame
<1>6. \A u \in Threads : Stage(u)' = 0
  <2> SUFFICES ASSUME NEW u \in Threads PROVE Stage(u)' = 0
    OBVIOUS
  <2>1. CASE u = 0
    BY <2>1, <1>1 DEF Stage
  <2>2. CASE u # 0
    <3>1. last[u] \in Nat /\ last[u] <= nGraph
      BY <2>2, <1>0, Types
    <3>2. ~Taken(u)'
      BY <3>1, <2>2, <1>1, <1>2 DEF Taken
    <3> QED BY <3>2 DEF Stage
  <2> QED BY <2>1, <2>2
<1>7. 0 \in Threads /\ Stage(0)' = 0 /\ Finished' # 0
  <2>1. 0 \in Threads
    BY <1>0, Types
  <2> QED BY <2>1, <1>6 DEF Finished
<1>8. InStep' /\ NodesAgree'
  BY <1>6, <1>7 DEF InStep, NodesAgree
<1>10. Done'
  <2>1. \A k \in 0 .. NNodes - 1 : Empty(k)
    BY <1>0, <1>1 DEF Done, NotBegun
  <2>2. \A k \in 0 .. NNodes - 1 : Empty(k)'
    BY <2>1, <1>1 DEF Empty, Chunks
  <2>3. RowsOK'
    <3> SUFFICES ASSUME NEW k \in 0 .. NNodes - 1 PROVE RowOK(k)'
      BY DEF RowsOK
    <3>1. 2 * k + 1 > 0 /\ ~(2 * k + 1 < 0) /\ 2 * k + 1 # 0
      OBVIOUS
    <3> QED BY <3>1, <2>2, <1>7 DEF RowOK
  <2>4. NotBegun' /\ AllDone'
    BY <1>1 DEF NotBegun, AllDone
  <2>6. AtMostOnce'
    BY <1>0, <1>1 DEF Done, AtMostOnce, Chunks
  <2> QED BY <2>3, <2>4, <2>6 DEF Done
<1> QED BY <1>3, <1>5, <1>8, <1>10 DEF IInv

-----------------------------------------------------------------------------
\* The theorems

\* While a product is computed the counter is at most one chunk per thread beyond
\* the last.
LEMMA CounterBound ==
  ASSUME Typed, NEW t \in Threads, Active(t), NEW k \in 0 .. NNodes - 1, HandedOut(k),
         chunk[t] < Total(nThreads), nThreads < Total(nThreads)
  PROVE  counter + 1 <= NChunks + NMax
<1> DEFINE T == Total(nThreads)
           S == T .. counter - 1
           A == (0 .. nThreads - 1) \ {t}
<1>1. /\ nThreads \in 1 .. NMax /\ counter \in Nat /\ t \in Nat
      /\ \A u \in Threads : u \in Nat
  BY Types
<1>2. T \in Nat /\ T <= NChunks
  BY <1>1, TotalFacts
<1> HIDE DEF T
<1>3. IsFiniteSet(S) /\ Cardinality(S) = IF T > counter - 1 THEN 0 ELSE counter - T
  BY <1>1, <1>2, FS_Interval
<1>4. IsFiniteSet(A) /\ Cardinality(A) = nThreads - 1
  <2> DEFINE B == 0 .. nThreads - 1
  <2>1. IsFiniteSet(B) /\ Cardinality(B) = nThreads
    BY <1>1, FS_Interval
  <2>2. t \in B
    <3>1. t < nThreads
      BY DEF Active
    <3> QED BY <3>1, <1>1
  <2> HIDE DEF B
  <2>3. IsFiniteSet(B \ {t}) /\ Cardinality(B \ {t}) = nThreads - 1
    BY <2>1, <2>2, FS_RemoveElement
  <2> QED BY <2>3 DEF B
<1>5. \A c \in S : \E u \in A : chunk[u] = c
  <2> SUFFICES ASSUME NEW c \in S PROVE \E u \in A : chunk[u] = c
    OBVIOUS
  <2>1. PICK u \in Threads : Active(u) /\ chunk[u] = c
    BY DEF HandedOut, T
  <2>2. u # t
    BY <2>1, <1>1, <1>2 DEF T
  <2>3. u \in 0 .. nThreads - 1
    BY <2>1, <1>1 DEF Active
  <2> QED BY <2>1, <2>2, <2>3
<1> DEFINE f == [c \in S |-> CHOOSE u \in A : chunk[u] = c]
<1>6. \A c \in S : f[c] \in A /\ chunk[f[c]] = c
  BY <1>5
<1>7. f \in [S -> A]
  BY <1>6
<1>8. \A x, y \in S : f[x] = f[y] => x = y
  BY <1>6
<1> HIDE DEF f, S, A
<1>9. ~(Cardinality(A) < Cardinality(S))
  BY <1>3, <1>4, <1>7, <1>8, FS_PigeonHole
<1> QED BY <1>1, <1>2, <1>3, <1>4, <1>9

\* The initial state satisfies the invariant with the bounds of the counter.
LEMMA InitInv == Init => Inv
<1>1. Init => Bounds
  BY DEF Init, Bounds
<1> QED BY <1>1, InitIInv DEF Inv

\* What a step may do to the counter and to the chunk a thread holds.
LEMMA BoundsStep ==
  ASSUME Inv, Next, Typed'
  PROVE  Bounds'
<1>0. Typed /\ PlacesOK /\ InStep /\ Done /\ Bounds
  BY DEF Inv, IInv
<1>1. /\ chunk \in [Threads -> Nat] /\ nth \in [Threads -> 0 .. NMax] /\ counter \in Nat
      /\ counter <= NChunks + NMax
      /\ \A t \in Threads : chunk[t] \in Nat /\ chunk[t] <= NChunks + NMax /\ nth[t] \in 0 .. NMax
  BY <1>0, Types DEF Typed, Bounds
<1>2. CASE counter' \in {counter, 0} /\ chunk' = chunk
  BY <1>1, <1>2 DEF Bounds
<1>3. CASE \E t \in Threads : Convert(t)
  <2>1. PICK t \in Threads : Convert(t)
    BY <1>3
  <2>2. counter' = IF t = 0 THEN nth[t] ELSE counter
    BY <2>1 DEF Convert
  <2>3. chunk' = [chunk EXCEPT ![t] = t]
    BY <2>1 DEF Convert
  <2>4. counter' <= NChunks + NMax
    BY <2>2, <1>1
  <2>5. \A u \in Threads : chunk'[u] <= NChunks + NMax
    BY <2>3, <1>1
  <2> QED BY <2>4, <2>5 DEF Bounds
<1>4. CASE \E t \in Threads : Multiply(t)
  <2>1. PICK t \in Threads : Multiply(t)
    BY <1>4
  <2>2. pc[t] = "chunks" /\ chunk[t] < Total(nth[t])
    BY <2>1 DEF Multiply
  <2>3. Active(t) /\ Taken(t)
    <3>1. ~Left(t)
      BY <2>2 DEF Left, Passed
    <3> QED BY <3>1, <1>0, <2>2, InGraph DEF InNode
  <2>4. nth[t] = nThreads /\ node[t] < NNodes /\ node[t] \in Nat
    <3>1. PlaceOK(t) /\ ~Left(t)
      BY <1>0, <2>2 DEF PlacesOK, Left, Passed
    <3> QED BY <3>1, <2>2, <1>0, Types DEF PlaceOK, InNode
  <2>5. HandedOut(node[t]) /\ node[t] \in 0 .. NNodes - 1
    <3>1. Stage(0) = 2 * node[t] + 1
      BY <1>0, <2>2, <2>3 DEF InStep, Stage
    <3>2. Stage(0) < Finished /\ node[t] \in 0 .. NNodes - 1
      BY <3>1, <2>4 DEF Finished
    <3>3. RowOK(node[t])
      BY <1>0, <3>2 DEF Done, RowsOK
    <3> QED BY <3>1, <3>2, <3>3 DEF RowOK
  <2>6. CASE chunk' = chunk /\ counter' = counter
    BY <2>6, <1>2
  <2>7. CASE ~(nth[t] >= Total(nth[t]))
    <3>1. counter' = counter + 1 /\ chunk' = [chunk EXCEPT ![t] = counter]
      BY <2>1, <2>7 DEF Multiply
    <3>2. nThreads < Total(nThreads)
      <4>1. nThreads \in 1 .. NMax /\ Total(nThreads) \in Nat
        BY <1>0, Types, TotalFacts
      <4> QED BY <4>1, <2>4, <2>7
    <3>3. counter + 1 <= NChunks + NMax
      BY <3>2, <2>2, <2>3, <2>4, <2>5, <1>0, CounterBound
    <3> QED BY <3>1, <3>3, <1>1 DEF Bounds
  <2> QED BY <2>1, <2>6, <2>7 DEF Multiply
<1>5. ASSUME NEW t \in Threads, Compute(t), ~Convert(t), ~Multiply(t)
      PROVE  counter' = counter /\ chunk' = chunk
  BY <1>5 DEF Compute, Begin, LeaveLoop, NoMoreChunks, EndNode, Arrive, Enter, Reset, Release, SpinOut,
              shared, local
<1>6. ASSUME NEW w \in Workers, Between(w) PROVE counter' = counter /\ chunk' = chunk
  BY <1>6 DEF Between, TestPause, SleepPaused, TestStop, Look, PollFlags, PollGraph, PollWidth, PollOver,
              Check, shared, local
<1>7. ASSUME Call \/ Kickoff \/ Join PROVE counter' \in {counter, 0} /\ chunk' = chunk
  BY <1>7 DEF Call, Kickoff, Join, Prepare, Pause, Resume, Free, StoreWidth, Publish, WakeAll,
              shared, local
<1> QED BY <1>2, <1>3, <1>4, <1>5, <1>6, <1>7 DEF Next

\* A torn read is remembered.
LEMMA TornStays ==
  ASSUME torn \in BOOLEAN, [Next]_vars
  PROVE  torn' \in BOOLEAN /\ (torn => torn')
<1>1. CASE UNCHANGED vars
  BY <1>1 DEF vars, local
<1>2. CASE \E t \in Threads : Compute(t)
  BY <1>2 DEF Compute, Begin, Convert, LeaveLoop, Multiply, NoMoreChunks, EndNode, Arrive, Enter,
              Reset, Release, SpinOut, local
<1>3. CASE \E w \in Workers : Between(w)
  <2>1. PICK w \in Workers : Between(w)
    BY <1>3
  <2>2. CASE PollWidth(w)
    <3>1. torn' = (torn \/ (Active(w) /\ Stale(w)))
      BY <2>2 DEF PollWidth
    <3> QED BY <3>1, Zenon
  <2>3. CASE ~PollWidth(w)
    BY <2>1, <2>3 DEF Between, TestPause, SleepPaused, TestStop, Look, PollFlags, PollGraph, PollOver,
                      Check, local
  <2> QED BY <2>2, <2>3
<1>4. CASE Call \/ Kickoff \/ Join
  BY <1>4 DEF Call, Kickoff, Join, Prepare, Pause, Resume, Free, StoreWidth, Publish, WakeAll, local
<1> QED BY <1>1, <1>2, <1>3, <1>4 DEF Next

\* Every step that is not, or comes after, a torn read keeps the invariant.
LEMMA StepInv ==
  ASSUME Inv, [Next]_vars, torn' = FALSE
  PROVE  Inv'
<1>0. IInv
  BY DEF Inv
<1>1. CASE UNCHANGED vars
  <2>1. /\ UNCHANGED <<nThreads, nGraph, nBarrier, nPassed, counter, abort,
                     node, nth, chunk, seen, after, did>>
        /\ UNCHANGED <<stop, pause, pc, last>>
    BY <1>1 DEF vars, shared, barrier, local
  <2>2. \A t \in Threads : Moves(t)
    BY <2>1 DEF Moves, Same
  <2>3. pc' \in [Threads -> Places] /\ last' \in [Workers -> Nat] /\ Flags'
    <3>1. Typed /\ Flags
      BY <1>0 DEF IInv
    <3> QED BY <3>1, <2>1, Types DEF Flags
  <2>4. IInv'
    BY <1>0, <2>1, <2>2, <2>3, Quiet
  <2>5. Bounds'
    BY <2>1 DEF Inv, Bounds
  <2> QED BY <2>4, <2>5 DEF Inv
<1>2. ASSUME Next
      PROVE  IInv'
  <2>1. CASE Prepare
    BY <2>1, <1>0, PrepareStep
  <2>2. CASE StoreWidth
    BY <2>2, <1>0, StoreWidthStep
  <2>3. CASE Publish
    BY <2>3, <1>0, PublishStep
  <2>4. CASE WakeAll \/ Pause \/ Resume \/ Free \/ Join
    BY <2>4, <1>0, CallerSteps
  <2>5. CASE \E t \in Threads : Compute(t)
    <3>1. PICK t \in Threads : Compute(t)
      BY <2>5
    <3>2. CASE Begin(t) BY <3>2, <1>0, BeginStep
    <3>3. CASE Convert(t) BY <3>3, <1>0, ConvertStep
    <3>4. CASE LeaveLoop(t) BY <3>4, <1>0, LeaveLoopStep
    <3>5. CASE Multiply(t) BY <3>5, <1>0, MultiplyStep
    <3>6. CASE NoMoreChunks(t) BY <3>6, <1>0, NoMoreChunksStep
    <3>7. CASE EndNode(t) BY <3>7, <1>0, EndNodeStep
    <3>8. CASE Arrive(t) BY <3>8, <1>0, ArriveManyStep, ArriveAloneStep
    <3>9. CASE Enter(t) BY <3>9, <1>0, EnterStep
    <3>10. CASE Reset(t) BY <3>10, <1>0, ResetStep
    <3>11. CASE Release(t) BY <3>11, <1>0, ReleaseStep
    <3>12. CASE SpinOut(t) BY <3>12, <1>0, SpinOutStep
    <3> QED
      BY <3>1, <3>2, <3>3, <3>4, <3>5, <3>6, <3>7, <3>8, <3>9, <3>10, <3>11, <3>12 DEF Compute
  <2>6. CASE \E w \in Workers : Between(w)
    BY <2>6, <1>0, WorkerSteps
  <2> QED BY <1>2, <2>1, <2>2, <2>3, <2>4, <2>5, <2>6 DEF Next, Call, Kickoff
<1>3. ASSUME Next
      PROVE  Inv'
  <2>1. IInv'
    BY <1>2, <1>3
  <2>2. Typed'
    BY <2>1 DEF IInv
  <2> QED BY <2>1, <2>2, <1>3, BoundsStep DEF Inv
<1> QED BY <1>1, <1>3

\* The invariant gives what the runs check: the types, each chunk once, the same nodes.
LEMMA InvWorkShared == Inv => WorkShared
<1> SUFFICES ASSUME Inv PROVE WorkShared
  OBVIOUS
<1>0. Typed /\ Flags /\ PlacesOK /\ InStep /\ BarrierCounts /\ NodesAgree /\ Done /\ Bounds
  BY DEF Inv, IInv
<1>1. TypeOK
  <2>1. /\ nThreads \in 1 .. NMax /\ nGraph \in 0 .. MaxGraphs /\ abort \in 0 .. NoAbort
        /\ nPassed \in Nat /\ counter \in 0 .. NChunks + NMax
    BY <1>0 DEF Typed, Bounds
  <2>2. nBarrier \in 0 .. nThreads
    <3> DEFINE W == {t \in Threads : Waiting(t)}
               A == 0 .. nThreads - 1
    <3>1. IsFiniteSet(A) /\ Cardinality(A) = nThreads /\ W \subseteq A /\ IsFiniteSet(W)
      BY <1>0, WaitingActive
    <3>2. nBarrier \in {0, Cardinality(W)}
      BY <1>0 DEF BarrierCounts
    <3> HIDE DEF W, A
    <3>3. Cardinality(W) \in Nat /\ Cardinality(W) <= nThreads
      BY <3>1, FS_Subset, FS_CardinalityType
    <3> QED BY <3>2, <3>3, <2>1
  <2>3. /\ pc[0] \in CallerPlaces \union InNode \union InBarrier \union {"ended"}
        /\ \A w \in Workers : pc[w] \in WorkerPlaces \union InNode \union InBarrier \union {"ended"}
    BY <1>0 DEF Typed
  <2>4. \A w \in Workers : last[w] \in 0 .. nGraph
    <3>1. nGraph \in Nat /\ \A w \in Workers : last[w] \in Nat /\ last[w] <= nGraph
      BY <1>0, Types
    <3> QED BY <3>1
  <2>5. \A t \in Threads : node[t] \in 0 .. NNodes /\ nth[t] \in 0 .. NMax
                           /\ chunk[t] \in 0 .. NChunks + NMax
                           /\ seen[t] \in 0 .. nPassed /\ after[t] \in {"chunks", "node", "done"}
    <3>1. \A t \in Threads : /\ node[t] \in 0 .. NNodes /\ nth[t] \in 0 .. NMax
                             /\ chunk[t] \in Nat /\ chunk[t] <= NChunks + NMax
                             /\ seen[t] \in Nat /\ seen[t] <= nPassed
                             /\ after[t] \in {"chunks", "node", "done"}
      BY <1>0, Types DEF Bounds
    <3> QED BY <3>1, <2>1
  <2> QED BY <2>1, <2>2, <2>3, <2>4, <2>5, <1>0 DEF TypeOK, Flags
<1>2. pc[0] = "idle" => Stage(0) = Finished
  BY Closed DEF Inv
<1>3. ChunksOnce
  <2>1. \A k \in 0 .. NNodes - 1, c \in 0 .. NChunks + NMax : did[k][c] <= 1
    BY <1>0 DEF Done, AtMostOnce, Chunks
  <2>2. ASSUME pc[0] = "idle", nGraph > 0, NEW k \in 0 .. node[0] - 1, NEW c \in 0 .. Total(nThreads) - 1
        PROVE  did[k][c] = 1
    <3>1. Full(k)
      BY <1>0, <1>2, <2>2 DEF Done, AllDone
    <3>2. Total(nThreads) \in Nat /\ Total(nThreads) <= NChunks + NMax
      BY <1>0, Types, TotalFacts
    <3>3. c \in Chunks /\ c < Total(nThreads)
      BY <3>2 DEF Chunks
    <3> QED BY <3>1, <3>3 DEF Full
  <2> QED BY <2>1, <2>2 DEF ChunksOnce
<1>4. AbortTogether
  <2>1. \A w \in Workers : w \in Threads
    OBVIOUS
  <2> QED BY <2>1, <1>0, <1>2 DEF AbortTogether, NodesAgree
<1> QED BY <1>1, <1>3, <1>4 DEF WorkShared

\* Equal stages mean that no thread is in an earlier phase than one that computes.
LEMMA InvPhases == Inv => PhasesSeparated
<1> SUFFICES ASSUME Inv, Computing, NEW t \in Threads, NEW u \in Threads, Active(t), Active(u),
                    pc[t] \in {"chunks", "finish"} \/ (pc[t] = "node" /\ node[t] < NNodes)
             PROVE  Phases(u) >= Phases(t)
  BY DEF PhasesSeparated
<1>0. Typed /\ PlacesOK /\ InStep
  BY DEF Inv, IInv
<1>1. /\ node[t] \in Nat /\ node[t] <= NNodes /\ node[u] \in Nat /\ node[u] <= NNodes
      /\ after[u] \in {"chunks", "node", "done"}
  <2>1. node[t] \in 0 .. NNodes /\ node[u] \in 0 .. NNodes /\ after[u] \in {"chunks", "node", "done"}
    BY <1>0, Types
  <2> QED BY <2>1
<1>2. Taken(t) /\ (t # 0 => last[t] = nGraph)
  <2>1. ~Left(t)
    BY DEF Left, Passed
  <2> QED BY <2>1, <1>0, InGraph DEF InNode
<1>3. Phases(t) = Stage(t) /\ Stage(t) < Finished
  <2>1. CASE pc[t] \in {"chunks", "finish"}
    <3>1. node[t] < NNodes
      BY <2>1, <1>0 DEF PlacesOK, PlaceOK
    <3> QED BY <3>1, <2>1, <1>1, <1>2 DEF Phases, Stage, Finished
  <2>2. CASE pc[t] = "node" /\ node[t] < NNodes
    BY <2>2, <1>1, <1>2 DEF Phases, Stage, Straight, Finished, InBarrier
  <2> QED BY <2>1, <2>2
<1>4. Stage(u) = Stage(t)
  BY <1>0 DEF InStep
<1>5. Phases(u) >= Stage(u)
  <2>1. CASE pc[u] \in {"begin", "width"} \/ (u # 0 /\ last[u] # nGraph)
    <3>1. Stage(u) = 0
      BY <2>1, <1>0, Types DEF Stage, Taken, CallerPlaces, InNode, InBarrier, Computing
    <3> QED BY <2>1, <3>1 DEF Phases
  <2>2. CASE ~(pc[u] \in {"begin", "width"} \/ (u # 0 /\ last[u] # nGraph))
    <3>1. Taken(u)
      BY <2>2 DEF Taken
    <3>2. /\ Phases(u) \in {2 * node[u], 2 * node[u] + 1}
          /\ pc[u] \in {"chunks", "finish"} => Phases(u) = 2 * node[u] + 1
          /\ pc[u] \in InBarrier /\ after[u] = "chunks" => Phases(u) = 2 * node[u] + 1
      BY <2>2, <1>1 DEF Phases
    <3>3. CASE pc[u] = "node"
      <4>1. Stage(u) = Straight(u)
        BY <3>1, <3>3 DEF Stage
      <4> QED BY <4>1, <3>2, <1>1 DEF Straight
    <3>4. CASE pc[u] \in {"chunks", "finish"}
      <4>1. Stage(u) = 2 * node[u] + 1
        BY <3>1, <3>4 DEF Stage
      <4> QED BY <4>1, <3>2, <3>4, <1>1
    <3>5. CASE pc[u] \in InBarrier /\ ~Left(u)
      <4>1. Stage(u) = IF Passed(u) THEN Before(u) + 1 ELSE Before(u)
        BY <3>1, <3>5 DEF Stage, InBarrier
      <4>2. after[u] = "done" => ~Passed(u)
        BY <3>5 DEF Left
      <4>3. CASE after[u] = "chunks"
        <5>1. Before(u) = 2 * node[u] /\ Phases(u) = 2 * node[u] + 1
          BY <4>3, <3>2, <3>5 DEF Before
        <5> QED BY <5>1, <4>1, <1>1
      <4>4. CASE after[u] = "node"
        <5>1. Before(u) = 2 * node[u] - 1
          BY <4>4 DEF Before
        <5> QED BY <5>1, <4>1, <3>2, <1>1
      <4>5. CASE after[u] = "done"
        <5>1. Stage(u) = Straight(u)
          BY <4>1, <4>2, <4>5 DEF Before
        <5> QED BY <5>1, <3>2, <1>1 DEF Straight
      <4> QED BY <4>3, <4>4, <4>5, <1>1
    <3>6. CASE pc[u] \notin {"node", "chunks", "finish"} /\ ~(pc[u] \in InBarrier /\ ~Left(u))
      <4>1. pc[u] # "wake"
        <5>1. u = 0 => pc[u] # "wake"
          BY DEF Computing, InNode, InBarrier
        <5>2. u # 0 => pc[u] # "wake"
          BY <1>0, Types DEF Typed, WorkerPlaces, InNode, InBarrier
        <5> QED BY <5>1, <5>2
      <4>2. Stage(u) = Finished
        BY <2>2, <3>1, <3>6, <4>1 DEF Stage
      <4> QED BY <4>2, <1>3, <1>4 DEF Finished
    <3> QED BY <3>3, <3>4, <3>5, <3>6
  <2> QED BY <2>1, <2>2
<1> QED BY <1>3, <1>4, <1>5

\* Outside a graph every worker has left it.
LEMMA InvNobodyElse == Inv => NobodyElse
<1> SUFFICES ASSUME Inv, pc[0] \in {"idle", "kickoff", "joining"}, NEW w \in Workers
             PROVE  pc[w] \notin InNode
  BY DEF NobodyElse
<1>1. w \in Threads
  OBVIOUS
<1> QED BY <1>1, Closed DEF Inv

\* Every state of the pool before a torn read satisfies the invariant.
Untorn == torn \in BOOLEAN /\ (~torn => Inv)
THEOREM Invariant == Spec => []Untorn
<1>1. Init => Untorn
  BY InitInv DEF Init, Untorn
<1>2. Untorn /\ [Next]_vars => Untorn'
  <2> SUFFICES ASSUME Untorn, [Next]_vars PROVE Untorn'
    OBVIOUS
  <2>1. torn' \in BOOLEAN /\ (torn => torn')
    BY TornStays DEF Untorn
  <2>2. ASSUME ~torn' PROVE Inv'
    <3>1. ~torn /\ torn' = FALSE
      BY <2>1, <2>2
    <3> QED BY <3>1, StepInv DEF Untorn
  <2> QED BY <2>1, <2>2 DEF Untorn
<1> QED BY <1>1, <1>2, PTL DEF Spec

\* Whatever numbers of threads the graphs are given, and until a worker joins one with
\* the number of another: the threads of a graph compute each chunk of each product once,
\* up to the node the graph is aborted at, and stop before the same node (ggml-cpu.c,
\* lines 1301 and 1392).
THEOREM WorkIsShared == Spec => []WorkShared
<1>1. Untorn => WorkShared
  BY InvWorkShared, Zenon DEF Untorn, WorkShared
<1> QED BY <1>1, Invariant, PTL

\* ... ggml_barrier separates the phases of a graph (ggml-cpu.c, lines 569 to 606) ...
THEOREM PhasesAreSeparated == Spec => []PhasesSeparated
<1>1. Untorn => PhasesSeparated
  BY InvPhases DEF Untorn, PhasesSeparated
<1> QED BY <1>1, Invariant, PTL

\* ... and nobody computes while ggml_graph_compute resets the parameters (line 3132): the
\* torn read is the only way in.
THEOREM NobodyElseComputes == Spec => []NobodyElseUntilTorn
<1>1. Untorn => NobodyElseUntilTorn
  BY InvNobodyElse DEF Untorn, NobodyElseUntilTorn
<1> QED BY <1>1, Invariant, PTL
=============================================================================
