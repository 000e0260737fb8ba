---------------------------- MODULE Subsequence ----------------------------
(***************************************************************************)
(* What a query, a filter or an erasure leaves of a sequence: its elements *)
(* at some of its places, in their order.  Other than SelectSeq it is not  *)
(* recursive, so that theorems can be proved of it.                        *)
(***************************************************************************)
EXTENDS Integers, Sequences, FiniteSets

\* How many numbers of the set S are less than i, and the k-th of them all.
Rank(S, i) == Cardinality({ j \in S : j < i })
Place(S, k) == CHOOSE i \in S : Rank(S, i) = k - 1

\* The elements of q at the places S.
Part(q, S) == [k \in 1 .. Cardinality(S) |-> q[Place(S, k)]]
=============================================================================
