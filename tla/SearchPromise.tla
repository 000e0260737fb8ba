--------------------------- MODULE SearchPromise ---------------------------
(***************************************************************************)
(* What the retriever promises to those who ask it.  A document can be     *)
(* found from the moment its index is published.  A fresh answer names     *)
(* published documents only, and at most one of each subject, because a    *)
(* subject has one index and an index has one document.  An answer may be  *)
(* remembered, and is then repeated unchanged, whatever is published       *)
(* meanwhile, until the memory is emptied.                                 *)
(***************************************************************************)
CONSTANTS Searchers, Queries, Docs, SubjectOf, Nothing

VARIABLES
  published,   \* the documents that were ever made searchable
  memory,      \* the answer remembered for each question, or Nothing
  given        \* the question and the answer each searcher got last

vars == <<published, memory, given>>

Init ==
  /\ published = {}
  /\ memory = [q \in Queries |-> Nothing]
  /\ given = [x \in Searchers |-> Nothing]

Publish ==
  /\ \E d \in Docs \ published : published' = published \cup {d}
  /\ UNCHANGED <<memory, given>>

\* At most one document of each subject.
OnePerSubject(docs) == \A d, e \in docs : SubjectOf[d] = SubjectOf[e] => d = e

AnswerFresh(x, q) ==
  \E docs \in SUBSET published :
    /\ OnePerSubject(docs)
    /\ given' = [given EXCEPT ![x] = [query |-> q, docs |-> docs]]
    /\ memory' \in {memory, [memory EXCEPT ![q] = docs]}
    /\ UNCHANGED published

AnswerFromMemory(x, q) ==
  /\ memory[q] # Nothing
  /\ given' = [given EXCEPT ![x] = [query |-> q, docs |-> memory[q]]]
  /\ UNCHANGED <<published, memory>>

Forget ==
  /\ memory' = [q \in Queries |-> Nothing]
  /\ UNCHANGED <<published, given>>

Next ==
  \/ Publish \/ Forget
  \/ \E x \in Searchers, q \in Queries : AnswerFresh(x, q) \/ AnswerFromMemory(x, q)

Spec == Init /\ [][Next]_vars
=============================================================================
