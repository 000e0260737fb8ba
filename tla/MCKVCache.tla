----------------------------- MODULE MCKVCache -----------------------------
(***************************************************************************)
(* Instances of the KV cache for TLC.  Each behaviour has a cast:          *)
(*   shared   two sequences in one stream: every edit, move, save, restore *)
(*   streams  a stream for each sequence, copied from one to the other     *)
(*   window   two sequences in one stream with a sliding window            *)
(***************************************************************************)
EXTENDS KVCache, TLC

VARIABLE cast

Window == 2
AnyToks == Permutations(Toks)
MCInit ==
    /\ cast \in {"shared", "streams", "window"}
    /\ unified = (cast # "streams") /\ nSwa = IF cast = "window" THEN Window ELSE 0
    /\ Start

\* A ubatch whose tokens have one sequence each.
Uncoupled == batch # <<>> => \A t \in TokensOf(Head(batch).ub) : Cardinality(t.seqs) = 1

\* The window needs one call more to come round.
Calls == ops < IF cast = "window" THEN MaxOps ELSE MaxOps - 1

MCNext ==
    /\ UNCHANGED cast
    /\ \/ Calls /\ Edit
       \/ Calls /\ cast # "window" /\ Move
       \/ Calls /\ Decode
       \/ Calls /\ cast = "shared" /\ Exchange
       \/ Process
       \/ Uncoupled /\ ComputeFails

MCSpec == MCInit /\ [][MCNext]_<<vars, cast>>

\* A window and batches of several ubatches.
MCWindowInit == MCInit /\ cast = "window"
MCWindowNext == UNCHANGED cast /\ (Edit \/ Decode \/ Process)
MCWindowSpec == MCWindowInit /\ [][MCWindowNext]_<<vars, cast>>
=============================================================================
