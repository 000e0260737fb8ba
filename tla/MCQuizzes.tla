----------------------------- MODULE MCQuizzes -----------------------------
(***************************************************************************)
(* Three casts share one run.  Two teachers keep their lists; a student, a *)
(* teacher and a reader of the analytics work on the same quizzes; two     *)
(* students answer the quizzes of one teacher.  All the actors together    *)
(* would be out of TLC's reach, and each property needs one of the casts.  *)
(***************************************************************************)
EXTENDS ClassQuizzes, FiniteSets, FiniteSetsExt, TLC

CONSTANTS short, long, bad

\* A quiz of one question, one of two, and one that is refused.
MCQuestions == short :> 1 @@ long :> 2 @@ bad :> 1

Symmetry == Permutations(Students) \cup Permutations(Teachers) \cup Permutations(Readers)

VARIABLE cast   \* who acts, and how much: it never changes

Cast(s, t, r, orderBound, underWay, clickBound) ==
  [students : kSubset(s, Students), teachers : kSubset(t, Teachers),
   readers : kSubset(r, Readers),
   orders : {orderBound}, underWay : {underWay}, clicks : {clickBound}]

MCInit ==
  /\ Quiz!Init
  /\ cast \in Cast(0, 2, 0, 4, 2, 0) \cup Cast(1, 1, 1, 3, 1, 1) \cup Cast(2, 1, 0, 1, 1, 2)

MCNext ==
  /\ \/ \E t \in cast.teachers : Cardinality(Quiz!UnderWay(t)) < cast.underWay /\ Quiz!Ask(t)
     \/ \E t \in cast.readers : Quiz!Analyze(t)
     \/ \E s \in cast.students : Quiz!Learn(s)
     \/ Quiz!Serve
  /\ sent' <= cast.orders /\ clicks' <= cast.clicks
  /\ UNCHANGED cast

MCSpec == MCInit /\ [][MCNext]_<<Quiz!vars, cast>>
=============================================================================
