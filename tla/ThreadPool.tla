----------------------------- MODULE ThreadPool -----------------------------
(***************************************************************************)
(* The pool of threads that computes a graph on the CPU, of the build      *)
(* without OpenMP (llama.cpp/ggml/src/ggml-cpu/ggml-cpu.c).  Thread 0 is   *)
(* the caller of ggml_graph_compute: it publishes a graph by raising       *)
(* n_graph, computes its share of every node and meets the workers at      *)
(* ggml_barrier.  A worker polls n_graph without the mutex, or sleeps on   *)
(* the condition variable; the pool is paused, resumed and freed between   *)
(* graphs.  Every node is a matrix product, the operation that coordinates *)
(* the most: a conversion by all threads, a barrier, then chunks handed    *)
(* out by a shared counter.                                                *)
(*                                                                         *)
(* A load, a store or a read-modify-write of a variable that is read       *)
(* without the mutex is a step of its own; the steps are interleaved       *)
(* (sequential consistency).  What is done under the mutex on variables    *)
(* that only change under it is one step, enabled when no one holds it.    *)
(***************************************************************************)
EXTENDS Naturals, FiniteSets

CONSTANTS NMax,        \* n_threads_max, the size of the pool
          Widths,      \* the numbers of threads a graph is computed with
          NNodes,      \* the nodes of a graph
          NChunks,     \* the chunks a product is cut into by its size
          MaxGraphs    \* bound: graphs computed

ASSUME PoolAssumption ==
    /\ NMax \in Nat \ {0} /\ NNodes \in Nat \ {0} /\ NChunks \in Nat \ {0}
    /\ Widths \subseteq 1 .. NMax /\ Widths # {}
    /\ MaxGraphs \in Nat

Threads == 0 .. NMax - 1
Workers == Threads \ {0}
NoAbort == NNodes + 1    \* the -1 of threadpool->abort: no node's number

VARIABLES
    nThreads,    \* n_threads_cur
    nGraph,      \* n_graph
    nBarrier,    \* n_barrier
    nPassed,     \* n_barrier_passed
    counter,     \* current_chunk
    stop, pause, abort,
    pc,          \* thread -> where it is
    last,        \* worker -> last_graph; while it reads n_threads_cur, the new one
    node,        \* thread -> node_n
    nth,         \* thread -> params.nth
    chunk,       \* thread -> its current_chunk
    seen,        \* thread -> the n_passed it read when it reached the barrier
    after,       \* thread -> where the barrier returns to
    did,         \* history: node -> chunk -> times it was computed in this graph
    torn         \* history: a worker has joined a graph with the number of another

shared == <<nThreads, nGraph, counter, stop, pause, abort>>
barrier == <<nBarrier, nPassed, seen, after>>
local == <<last, node, nth, chunk, did, torn>>
vars == <<shared, barrier, local, pc>>

Total(n) == IF NChunks < 4 * n THEN n ELSE NChunks
Blank == [k \in 0 .. NNodes - 1 |-> [c \in 0 .. NChunks + NMax |-> 0]]

Init ==
    /\ nThreads = NMax /\ nGraph = 0 /\ nBarrier = 0 /\ nPassed = 0 /\ counter = 0
    /\ stop = FALSE /\ pause \in BOOLEAN /\ abort = NoAbort
    /\ pc = [t \in Threads |-> IF t = 0 THEN "idle" ELSE "top"]
    /\ last = [t \in Workers |-> 0]
    /\ node = [t \in Threads |-> 0] /\ nth = [t \in Threads |-> 0]
    /\ chunk = [t \in Threads |-> 0] /\ seen = [t \in Threads |-> 0]
    /\ after = [t \in Threads |-> "done"]
    /\ did = Blank /\ torn = FALSE

Go(t, from, to) == pc[t] = from /\ pc' = [pc EXCEPT ![t] = to]

\* Only the kickoff holds the mutex over several of these steps.
MutexFree == pc[0] \notin {"publish", "wake"}

\* A broadcast sends every thread that waits on the condition variable back to
\* the test it went to sleep after.
Woken(places) ==
    [t \in Threads |-> CASE places[t] = "paused" -> "top"
                         [] places[t] = "sleeping" -> "checking"
                         [] OTHER -> places[t]]

Active(t) == t < nThreads

(***************************************************************************)
(* The calls of thread 0 between two graphs.                               *)
(***************************************************************************)
Prepare ==    \* ggml_graph_compute resets the parameters, before the mutex
    /\ nGraph < MaxGraphs
    /\ Go(0, "idle", "kickoff")
    /\ counter' = 0 /\ abort' = NoAbort /\ did' = Blank
    /\ UNCHANGED <<nThreads, nGraph, stop, pause, barrier, last, node, nth, chunk,
                   torn>>

StoreWidth ==    \* kickoff takes the mutex and stores n_threads_cur
    /\ Go(0, "kickoff", "publish")
    /\ \E n \in Widths : nThreads' = n
    /\ UNCHANGED <<nGraph, counter, stop, pause, abort, barrier, local>>

Publish ==    \* ... raises n_graph
    /\ Go(0, "publish", "wake")
    /\ nGraph' = nGraph + 1
    /\ UNCHANGED <<nThreads, counter, stop, pause, abort, barrier, local>>

WakeAll_Quiet ==    \* mutant: polling workers need no wakeup, do they
    /\ Go(0, "wake", "begin")
    /\ pause' = FALSE
    /\ UNCHANGED <<nThreads, nGraph, counter, stop, abort, barrier, local>>

WakeAll ==    \* ... resumes a paused pool, wakes the sleepers, leaves the mutex
    /\ pc[0] = "wake"
    /\ pc' = [Woken(pc) EXCEPT ![0] = "begin"]
    /\ pause' = FALSE
    /\ UNCHANGED <<nThreads, nGraph, counter, stop, abort, barrier, local>>

Pause_Quiet ==    \* mutant: the flag alone
    /\ pc[0] = "idle" /\ ~pause
    /\ pause' = TRUE
    /\ UNCHANGED <<nThreads, nGraph, counter, stop, abort, barrier, local, pc>>

Pause ==    \* ggml_threadpool_pause
    /\ pc[0] = "idle" /\ ~pause
    /\ pause' = TRUE /\ pc' = Woken(pc)
    /\ UNCHANGED <<nThreads, nGraph, counter, stop, abort, barrier, local>>

Resume ==    \* ggml_threadpool_resume
    /\ pc[0] = "idle" /\ pause
    /\ pause' = FALSE /\ pc' = Woken(pc)
    /\ UNCHANGED <<nThreads, nGraph, counter, stop, abort, barrier, local>>

Free_Paused ==    \* mutant: a paused pool stays paused
    /\ pc[0] = "idle"
    /\ stop' = TRUE
    /\ pc' = [Woken(pc) EXCEPT ![0] = "joining"]
    /\ UNCHANGED <<nThreads, nGraph, counter, pause, abort, barrier, local>>

Free ==    \* ggml_threadpool_free, up to the first join
    /\ pc[0] = "idle"
    /\ stop' = TRUE /\ pause' = FALSE
    /\ pc' = [Woken(pc) EXCEPT ![0] = "joining"]
    /\ UNCHANGED <<nThreads, nGraph, counter, abort, barrier, local>>

Join ==    \* ... and when every worker has ended
    /\ Go(0, "joining", "ended")
    /\ \A w \in Workers : pc[w] = "ended"
    /\ UNCHANGED <<shared, barrier, local>>

(***************************************************************************)
(* A worker between two graphs: ggml_graph_compute_secondary_thread and    *)
(* ggml_graph_compute_check_for_work.                                      *)
(***************************************************************************)
TestPause(w) ==
    /\ Go(w, "top", IF pause THEN "pausing" ELSE "awake")
    /\ UNCHANGED <<shared, barrier, local>>

SleepPaused(w) ==    \* the second test, under the mutex
    /\ MutexFree
    /\ Go(w, "pausing", IF pause THEN "paused" ELSE "top")
    /\ UNCHANGED <<shared, barrier, local>>

TestStop(w) ==
    /\ Go(w, "awake", IF stop THEN "ended" ELSE "look")
    /\ UNCHANGED <<shared, barrier, local>>

Look(w) ==    \* poll_for_work: a thread the last graph did not use does not poll
    /\ Go(w, "look", IF Active(w) THEN "polling" ELSE "checking")
    /\ UNCHANGED <<shared, barrier, local>>

\* thread_ready, without the mutex: load stop and pause, then n_graph, then
\* n_threads_cur.
PollFlags(w) ==
    /\ Go(w, "polling", IF stop \/ pause THEN "checking" ELSE "load")
    /\ UNCHANGED <<shared, barrier, local>>

PollGraph(w) ==
    /\ Go(w, "load", IF nGraph # last[w] THEN "width" ELSE "polling")
    /\ last' = [last EXCEPT ![w] = nGraph]
    /\ UNCHANGED <<shared, barrier, node, nth, chunk, did, torn>>

\* The width may be that of a later graph than the number w has just stored, which is
\* then published, or about to be, but not remembered.
Stale(w) == pc[0] = "publish" \/ last[w] # nGraph

PollWidth(w) ==
    /\ Go(w, "width", IF Active(w) THEN "begin" ELSE "polling")
    /\ torn' = (torn \/ (Active(w) /\ Stale(w)))
    /\ UNCHANGED <<shared, barrier, last, node, nth, chunk, did>>

PollOver(w) ==    \* the rounds are used up
    /\ Go(w, "polling", "checking")
    /\ UNCHANGED <<shared, barrier, local>>

Check_Forgets(w) ==    \* mutant: the graph taken is not remembered
    /\ MutexFree /\ pc[w] = "checking"
    /\ IF stop \/ pause
       THEN pc' = [pc EXCEPT ![w] = "top"]
       ELSE pc' = [pc EXCEPT ![w] = IF nGraph # last[w] /\ Active(w) THEN "begin"
                                    ELSE "sleeping"]
    /\ UNCHANGED <<shared, barrier, local>>

\* thread_ready, under the mutex: take the graph, or go to sleep.
Check(w) ==
    /\ MutexFree /\ pc[w] = "checking"
    /\ IF stop \/ pause
       THEN pc' = [pc EXCEPT ![w] = "top"] /\ UNCHANGED last
       ELSE /\ last' = [last EXCEPT ![w] = nGraph]
            /\ pc' = [pc EXCEPT ![w] = IF nGraph # last[w] /\ Active(w) THEN "begin"
                                       ELSE "sleeping"]
    /\ UNCHANGED <<shared, barrier, node, nth, chunk, did, torn>>

(***************************************************************************)
(* Any thread in a graph: ggml_graph_compute_thread, with the product of   *)
(* ggml_compute_forward_mul_mat as every node.                             *)
(***************************************************************************)
Begin(t) ==
    /\ Go(t, "begin", "node")
    /\ nth' = [nth EXCEPT ![t] = nThreads] /\ node' = [node EXCEPT ![t] = 0]
    /\ UNCHANGED <<shared, barrier, last, chunk, did, torn>>

Convert_FromZero(t) ==    \* mutant: the counter starts at the first chunk
    /\ node[t] < NNodes /\ abort # node[t]
    /\ Go(t, "node", "arrive")
    /\ after' = [after EXCEPT ![t] = "chunks"]
    /\ chunk' = [chunk EXCEPT ![t] = t]
    /\ counter' = IF t = 0 THEN 0 ELSE counter
    /\ UNCHANGED <<nThreads, nGraph, stop, pause, abort, nBarrier, nPassed, seen, last,
                   node, nth, did, torn>>

\* Another node: convert a share of src1 and, for thread 0, set the counter.
Convert(t) ==
    /\ node[t] < NNodes /\ abort # node[t]
    /\ Go(t, "node", "arrive")
    /\ after' = [after EXCEPT ![t] = "chunks"]
    /\ chunk' = [chunk EXCEPT ![t] = t]
    /\ counter' = IF t = 0 THEN nth[t] ELSE counter
    /\ UNCHANGED <<nThreads, nGraph, stop, pause, abort, nBarrier, nPassed, seen, last,
                   node, nth, did, torn>>

LeaveLoop(t) ==
    /\ node[t] >= NNodes \/ abort = node[t]
    /\ Go(t, "node", "arrive")
    /\ after' = [after EXCEPT ![t] = "done"]
    /\ UNCHANGED <<shared, nBarrier, nPassed, seen, local>>

Multiply(t) ==    \* one chunk, and the fetch_add that names the next
    /\ pc[t] = "chunks" /\ chunk[t] < Total(nth[t])
    /\ did' = [did EXCEPT ![node[t]][chunk[t]] = @ + 1]
    /\ IF nth[t] >= Total(nth[t])
       THEN pc' = [pc EXCEPT ![t] = "finish"] /\ UNCHANGED <<chunk, counter>>
       ELSE /\ chunk' = [chunk EXCEPT ![t] = counter] /\ counter' = counter + 1
            /\ UNCHANGED pc
    /\ UNCHANGED <<nThreads, nGraph, stop, pause, abort, barrier, last, node, nth, torn>>

NoMoreChunks(t) ==
    /\ chunk[t] >= Total(nth[t])
    /\ Go(t, "chunks", "finish")
    /\ UNCHANGED <<shared, barrier, local>>

\* The end of a node: thread 0 asks the abort callback, and all but the last
\* node end in a barrier.
AbortAt(k) == k + 1

EndNode_Straight(t) ==    \* mutant: the next node begins with a barrier anyway
    /\ Go(t, "finish", "node")
    /\ \/ UNCHANGED abort
       \/ t = 0 /\ abort' = AbortAt(node[t])
    /\ node' = [node EXCEPT ![t] = @ + 1]
    /\ UNCHANGED <<nThreads, nGraph, counter, stop, pause, barrier, last, nth, chunk, did,
                   torn>>

EndNode(t) ==
    /\ Go(t, "finish", IF node[t] + 1 < NNodes THEN "arrive" ELSE "node")
    /\ \/ UNCHANGED abort
       \/ t = 0 /\ abort' = AbortAt(node[t])
    /\ after' = [after EXCEPT ![t] = "node"]
    /\ node' = [node EXCEPT ![t] = @ + 1]
    /\ UNCHANGED <<nThreads, nGraph, counter, stop, pause, nBarrier, nPassed, seen, last,
                   nth, chunk, did, torn>>

(***************************************************************************)
(* ggml_barrier.                                                           *)
(***************************************************************************)
Home(t) == IF t = 0 THEN "idle" ELSE "top"
Return(t) == IF after[t] = "done" THEN Home(t) ELSE after[t]

Arrive(t) ==    \* load n_threads_cur and n_barrier_passed
    /\ Go(t, "arrive", IF nThreads = 1 THEN Return(t) ELSE "enter")
    /\ seen' = [seen EXCEPT ![t] = nPassed]
    /\ UNCHANGED <<shared, nBarrier, nPassed, after, local>>

IsLast_Counted == nBarrier + 1 = nThreads - 1    \* mutant: n_barrier read as the new value

IsLast == nBarrier = nThreads - 1

Enter(t) ==    \* fetch_add of n_barrier
    /\ Go(t, "enter", IF IsLast THEN "reset" ELSE "spin")
    /\ nBarrier' = nBarrier + 1
    /\ UNCHANGED <<shared, nPassed, seen, after, local>>

Reset_None(t) ==    \* mutant
    /\ Go(t, "reset", "release")
    /\ UNCHANGED <<shared, barrier, local>>

Reset(t) ==
    /\ Go(t, "reset", "release")
    /\ nBarrier' = 0
    /\ UNCHANGED <<shared, nPassed, seen, after, local>>

Release(t) ==
    /\ Go(t, "release", Return(t))
    /\ nPassed' = nPassed + 1
    /\ UNCHANGED <<shared, nBarrier, seen, after, local>>

SpinOut(t) ==
    /\ nPassed # seen[t]
    /\ Go(t, "spin", Return(t))
    /\ UNCHANGED <<shared, barrier, local>>

-----------------------------------------------------------------------------
Compute(t) ==
    \/ Begin(t) \/ Convert(t) \/ LeaveLoop(t) \/ Multiply(t) \/ NoMoreChunks(t) \/ EndNode(t)
    \/ Arrive(t) \/ Enter(t) \/ Reset(t) \/ Release(t) \/ SpinOut(t)
Between(w) ==
    \/ TestPause(w) \/ SleepPaused(w) \/ TestStop(w) \/ Look(w)
    \/ PollFlags(w) \/ PollGraph(w) \/ PollWidth(w) \/ PollOver(w) \/ Check(w)
Kickoff == StoreWidth \/ Publish \/ WakeAll
Call == Prepare \/ Pause \/ Resume \/ Free

Next == \/ Call \/ Kickoff \/ Join
        \/ \E t \in Threads : Compute(t)
        \/ \E w \in Workers : Between(w)

\* The operating system runs every thread that can run; thread 0 calls what it
\* likes, and finishes what it has called.  A poll loop has finitely many rounds.
Fairness ==
    /\ WF_vars(Kickoff) /\ WF_vars(Join)
    /\ \A t \in Threads : WF_vars(Compute(t))
    /\ \A w \in Workers : WF_vars(Between(w)) /\ SF_vars(PollOver(w))

Spec == Init /\ [][Next]_vars /\ Fairness

-----------------------------------------------------------------------------
InBarrier == {"arrive", "enter", "reset", "release", "spin"}
InNode == {"begin", "node", "chunks", "finish"}
CallerPlaces == {"idle", "kickoff", "publish", "wake", "joining"}
WorkerPlaces == {"top", "pausing", "paused", "awake", "look", "polling", "load", "width", "checking",
                 "sleeping"}

TypeOK ==
    /\ nThreads \in 1 .. NMax /\ nGraph \in 0 .. MaxGraphs /\ abort \in 0 .. NoAbort
    /\ nBarrier \in 0 .. nThreads /\ nPassed \in Nat /\ counter \in 0 .. NChunks + NMax
    /\ stop \in BOOLEAN /\ pause \in BOOLEAN
    /\ pc[0] \in CallerPlaces \union InNode \union InBarrier \union {"ended"}
    /\ \A w \in Workers : pc[w] \in WorkerPlaces \union InNode \union InBarrier \union {"ended"}
    /\ \A w \in Workers : last[w] \in 0 .. nGraph
    /\ \A t \in Threads : node[t] \in 0 .. NNodes /\ nth[t] \in 0 .. NMax
                          /\ chunk[t] \in 0 .. NChunks + NMax
                          /\ seen[t] \in 0 .. nPassed /\ after[t] \in {"chunks", "node", "done"}

\* The threads of the graph thread 0 is computing, and the phases (a conversion,
\* the chunks, the next conversion...) each has gone through.
Computing == pc[0] \in InNode \union InBarrier
Phases(t) ==
    IF pc[t] \in {"begin", "width"} \/ (t # 0 /\ last[t] # nGraph) THEN 0
    ELSE 2 * node[t] + (IF \/ pc[t] \in {"chunks", "finish"}
                           \/ pc[t] \in InBarrier /\ after[t] = "chunks" THEN 1 ELSE 0)

\* ggml_barrier separates the phases: while a thread of the graph is in a phase,
\* no other thread of it is still in an earlier one (a product reads the rows that
\* all threads converted, a node reads the results of the nodes before it).  This and
\* what follows hold up to a torn read, after which nothing is promised.
PhasesSeparated ==
    ~torn /\ Computing => \A t, u \in Threads :
        /\ Active(t) /\ Active(u)
        /\ pc[t] \in {"chunks", "finish"} \/ (pc[t] = "node" /\ node[t] < NNodes)
        => Phases(u) >= Phases(t)

\* The shared counter hands out every chunk of a product once: no chunk is computed
\* twice, and none is left out when the graph is finished, up to the node it was
\* aborted at (lines 1301 and 1392 of ggml-cpu.c, and the barriers around them).
ChunksOnce ==
    /\ \A k \in 0 .. NNodes - 1, c \in 0 .. NChunks + NMax : did[k][c] <= 1
    /\ (pc[0] = "idle" /\ nGraph > 0) =>
            \A k \in 0 .. node[0] - 1, c \in 0 .. Total(nThreads) - 1 : did[k][c] = 1

\* The abort callback stops all threads of a graph before the same node: the number
\* thread 0 stores is that of the next node, which nobody has reached (line 2880).
AbortTogether ==
    (pc[0] = "idle" /\ nGraph > 0) => \A w \in Workers : Active(w) => node[w] = node[0]

\* What the threads of a graph do together: each chunk once, and the same nodes.
WorkShared == ~torn => TypeOK /\ ChunksOnce /\ AbortTogether

\* Between two graphs no worker is computing: ggml_graph_compute resets cgraph, cplan,
\* abort and current_chunk without the mutex ("No worker threads should be accessing
\* the parameters below at this stage", line 3132).
NobodyElse == pc[0] \in {"idle", "kickoff", "joining"} =>
                  \A w \in Workers : pc[w] \notin InNode

\* ... which holds until a worker puts the number of one graph and the width of another
\* together, and in no other case fails.
NobodyElseUntilTorn == ~torn => NobodyElse

\* A graph that was kicked off is finished: no worker sleeps through it, and no
\* barrier waits for a thread that never comes.
GraphsEnd == (pc[0] = "publish") ~> (pc[0] = "idle" \/ torn)

\* A pool that stays paused puts its workers to sleep, also those that were polling
\* or still leaving the last barrier; one that is freed ends them all.
PausedSleep == []<>(~pause \/ torn \/ \A w \in Workers : pc[w] = "paused")
FreedEnds == stop ~> (pc[0] = "ended" \/ torn)
CallsObeyed == PausedSleep /\ FreedEnds
=============================================================================
