--------------------------- MODULE ClassQuizzes ----------------------------
(***************************************************************************)
(* The quizzes of a class as one of its records: an instance of Quizzes,   *)
(* with what it promises.  It shares no state with the attendance and the  *)
(* marks (ClassRecords), so the three can be put side by side.             *)
(***************************************************************************)

CONSTANTS Students, Teachers, Readers, Contents, Questions, Invalid, Nothing,
          MaxOrders, MaxUnderWay, MaxClicks

VARIABLES quizzes, attempts, listed, taking, posts, gets, board, orders, answers,
          report, given, calm, sent, clicks

Quiz == INSTANCE Quizzes

ASSUME QuizAssumption == Quiz!ConstantsFit

\* The list that a teacher's page keeps by hand is the table, for a teacher nothing
\* came in the way of (BoardsOK of Quizzes).
BoardsOK == Quiz!BoardsOK

\* An attempt counts for the quiz that was answered, unless the quiz's id was given
\* again (AttemptsCountForAnswered of Quizzes).
AttemptsCountForAnswered == Quiz!AttemptsCountForAnswered

\* A report puts the attempts of a quiz against that quiz, unless its id was given
\* again (ReportsConsistent of Quizzes).
ReportsConsistent == Quiz!ReportsConsistent

\* A student's page claims no more tries than were saved and no score that the student
\* never had (PagesTruthful of Quizzes).
PagesTruthful == Quiz!PagesTruthful

\* What is deleted is the quiz that the teacher saw in the list, unless its id was
\* given again (DeletesWhatIsShown of Quizzes).
DeletesWhatIsShown == Quiz!DeletesWhatIsShown
=============================================================================
