--------------------------- MODULE MCVectorStore ---------------------------
(***************************************************************************)
(* The instance of VectorStore for TLC.  Each behaviour has a cast:        *)
(*   jobs   two uploads to one subject, indexed by two threads, a search;  *)
(*   bad    uploads to one subject, one PDF without text and one empty,    *)
(*          and searches for two questions;                                *)
(*   two    an upload to each of two subjects, a search of both.           *)
(* The second thread is used when the first is busy: they are alike.       *)
(***************************************************************************)
EXTENDS VectorStore, TLC

CONSTANTS d1, d2, d3, d4, d5, s1, s2, j1, q1

VARIABLE cast

MCSubjectOf == [d \in Docs |-> IF d = d5 THEN s2 ELSE s1]

MCInit == Init /\ cast \in {"jobs", "bad", "two"}

Uploads(j, d) ==
  CASE cast = "jobs" -> d \in {d1, d2} /\ (d = d2 => d1 \in stored) /\ (j # j1 => ~At(j1, "idle"))
    [] cast = "bad"  -> d \in {d1, d3, d4} /\ j = j1
    [] cast = "two"  -> d \in {d1, d5} /\ j = j1

MCNext ==
  /\ UNCHANGED cast
  /\ \/ \E j \in Jobs : JobStep(j)
     \/ \E j \in Jobs, d \in Docs : Uploads(j, d) /\ Upload(j, d) /\ Recorded
     \/ \E t \in Loads : LoadStep(t)
     \/ \E x \in Searchers : SearchStep(x)
     \/ \E x \in Searchers, q \in Queries : (cast = "bad" \/ q = q1) /\ Ask(x, q) /\ Recorded
     \/ ClearCaches /\ Recorded
     \/ Restart /\ CutShort

MCSpec == MCInit /\ [][MCNext]_<<vars, cast>> /\ Fairness
=============================================================================
