------------------------------ MODULE Quizzes ------------------------------
(***************************************************************************)
(* Quizzes and attempts: the endpoints of backend/main.py, the student's   *)
(* page Quizzes.jsx and the teacher's list of Quizmanager.jsx.             *)
(*                                                                         *)
(* create_quiz and delete_quiz are coroutines that never wait, so each is  *)
(* one step of the event loop.  The other endpoints run in threads: the    *)
(* two SELECTs of get_user_quizzes and of get_quiz_analytics are two       *)
(* steps.  The pages send a request, wait for the response and then set    *)
(* their state; nothing stops a second click meanwhile, and the teacher's  *)
(* page sets what it computes from the list as it was at the click.        *)
(*                                                                         *)
(* quizzes.id is an INTEGER PRIMARY KEY without AUTOINCREMENT: SQLite      *)
(* gives a new row the greatest id in use plus one, so the id of a deleted *)
(* last row is given again.  Foreign keys are declared but not enforced.   *)
(***************************************************************************)
EXTENDS Integers, Sequences, FiniteSets

CONSTANTS
  Students,      \* students of the class the quizzes are for
  Teachers,      \* teachers with the list of Quizmanager.jsx open
  Readers,       \* teachers with the analytics open
  Contents,      \* quizzes that teachers write
  Questions,     \* how many questions each of them has
  Invalid,       \* those that create_quiz refuses
  Nothing,       \* no quiz is open, no report
  MaxOrders,     \* bound: requests that teachers send
  MaxUnderWay,   \* bound: those of one teacher that are under way
  MaxClicks      \* bound: clicks on Submit

\* What the constants have to be.
ConstantsFit ==
  /\ Questions \in [Contents -> Nat] /\ Invalid \subseteq Contents
  /\ Nothing \notin [id : Nat, quiz : Contents]
  /\ {MaxOrders, MaxUnderWay, MaxClicks} \subseteq Nat

VARIABLES
  quizzes,    \* the table: rows of an id and a quiz
  attempts,   \* the table of attempts, in the order of their ids
  listed,     \* the student's page: the quizzes it shows, with tries and best
  taking,     \* the student's page: selectedQuiz
  posts,      \* POST /quiz-attempts under way
  gets,       \* GET /quizzes/user under way
  board,      \* the teacher's list
  orders,     \* what teachers asked for and the server has not done
  answers,    \* its responses under way: the list that the page will set
  report,     \* the teacher's analytics: the quiz read, then the attempts
  given,      \* history: every row that was ever in the table
  calm,       \* history: teachers nothing ever came in the way of
  sent,       \* history: how many requests teachers sent
  clicks      \* history: how often Submit was clicked

tables == <<quizzes, attempts>>
pages == <<listed, taking>>
network == <<posts, gets>>
desk == <<board, orders, answers>>
history == <<given, calm, sent, clicks>>
vars == <<tables, pages, network, desk, report, history>>

Ids == { r.id : r \in quizzes }
Row == [id : 1 .. MaxOrders, quiz : Contents]
Reused(id) == \E r1, r2 \in given : r1.id = id /\ r2.id = id /\ r1 # r2

Init ==
  /\ quizzes = {} /\ attempts = << >>
  /\ listed = [s \in Students |-> {}]
  /\ taking = [s \in Students |-> Nothing]
  /\ posts = {} /\ gets = {}
  /\ board = [t \in Teachers |-> {}]
  /\ orders = {} /\ answers = {}
  /\ report = [t \in Readers |-> Nothing]
  /\ given = {} /\ calm = Teachers /\ sent = 0 /\ clicks = 0
-----------------------------------------------------------------------------
\* What a teacher asks for is sent with the list as the page shows it now, the
\* one that the handler's closure holds when the response comes.
UnderWay(t) == { o \in orders \cup answers : o.teacher = t }

Send(t, kind, row) ==
  /\ sent < MaxOrders /\ Cardinality(UnderWay(t)) < MaxUnderWay
  /\ sent' = sent + 1
  /\ orders' = orders \cup {[n |-> sent', teacher |-> t, kind |-> kind, row |-> row,
                             shown |-> board[t]]}
  /\ calm' = IF UnderWay(t) = {} THEN calm ELSE calm \ {t}
  /\ UNCHANGED <<tables, pages, network, board, answers, report, given, clicks>>

Ask(t) ==
  \/ \E q \in Contents : Send(t, "create", [id |-> 0, quiz |-> q])
  \/ \E row \in board[t] : Send(t, "delete", row)
  \/ Send(t, "fetch", [id |-> 0])

\* The server is done with o: the page is to show rows.
Answer(o, rows) ==
  /\ orders' = orders \ {o}
  /\ answers' = answers \cup {[n |-> o.n, teacher |-> o.teacher, rows |-> rows]}

\* The table changed behind the backs of the other teachers.
Alone(t) == calm' = calm \cap {t}

\* Mutant: the new id is the number of rows plus one.
NextId_Count == Cardinality(quizzes) + 1

\* SQLite: the greatest id in use plus one.
NextId == IF Ids = {} THEN 1 ELSE 1 + CHOOSE i \in Ids : \A j \in Ids : j <= i

\* Mutant: the list is what was just created.
WithNew_Alone(o, row) == {row}

\* setQuizzes([res.data, ...quizzes])
WithNew(o, row) == o.shown \cup {row}

\* POST /quizzes; the page adds the new row to the list.
CreateQuiz(o) ==
  /\ o.kind = "create" /\ o.row.quiz \notin Invalid
  /\ LET row == [id |-> NextId, quiz |-> o.row.quiz]
     IN /\ quizzes' = quizzes \cup {row}
        /\ given' = given \cup {row}
        /\ Answer(o, WithNew(o, row))
  /\ Alone(o.teacher)
  /\ UNCHANGED <<attempts, pages, network, board, report, sent, clicks>>

\* Mutant: the quizzes from this one on.
Without_From(rows, id) == { r \in rows : r.id < id }

\* The quizzes but the one with this id.
Without(rows, id) == { r \in rows : r.id # id }

\* DELETE /quizzes/{quiz_id}; the attempts stay.
DeleteQuiz(o) ==
  /\ o.kind = "delete" /\ o.row.id \in Ids
  /\ quizzes' = Without(quizzes, o.row.id)
  /\ Answer(o, Without(o.shown, o.row.id))
  /\ Alone(o.teacher)
  /\ UNCHANGED <<attempts, pages, network, board, report, given, sent, clicks>>

\* GET /quizzes/{semester}
FetchBoard(o) ==
  /\ o.kind = "fetch"
  /\ Answer(o, quizzes)
  /\ UNCHANGED <<tables, pages, network, board, report, history>>

\* Refused (400), not found (404), or the server could not be reached: the page
\* says so and the list stays.
OrderFails(o) ==
  /\ orders' = orders \ {o}
  /\ UNCHANGED <<tables, pages, network, board, answers, report, history>>

ShowBoard(a) ==
  /\ board' = [board EXCEPT ![a.teacher] = a.rows]
  /\ answers' = answers \ {a}
  /\ UNCHANGED <<tables, pages, network, orders, report, history>>

\* The response is lost: what the server did, it did.
AnswerLost(a) ==
  /\ answers' = answers \ {a}
  /\ calm' = calm \ {a.teacher}
  /\ UNCHANGED <<tables, pages, network, board, orders, report, given, sent, clicks>>
-----------------------------------------------------------------------------
\* GET /quiz-analytics/{quiz_id}: the quiz, then its attempts.
AnalyzeQuiz(t, row) ==
  /\ report[t] = Nothing
  /\ row \in quizzes
  /\ report' = [report EXCEPT ![t] = [row |-> row, read |-> FALSE, attempts |-> {}]]
  /\ UNCHANGED <<tables, pages, network, desk, history>>

\* Mutant: the attempts at any quiz.
AttemptsOf_Any(id) == DOMAIN attempts

AttemptsOf(id) == { i \in DOMAIN attempts : attempts[i].quiz_id = id }

AnalyzeAttempts(t) ==
  /\ report[t] # Nothing /\ ~report[t].read
  /\ report' = [report EXCEPT ![t].read = TRUE,
                              ![t].attempts = AttemptsOf(report[t].row.id)]
  /\ UNCHANGED <<tables, pages, network, desk, history>>

CloseReport(t) ==
  /\ report[t] # Nothing /\ report[t].read
  /\ report' = [report EXCEPT ![t] = Nothing]
  /\ UNCHANGED <<tables, pages, network, desk, history>>

\* max_possible: a quiz without questions counts as one of ten.
MaxPossible(q) == IF Questions[q] = 0 THEN 10 ELSE Questions[q]
-----------------------------------------------------------------------------
\* The page is mounted: nothing shown, the list is fetched.  Responses to what
\* an earlier page asked find no page to change.
Visit(s) ==
  /\ listed' = [listed EXCEPT ![s] = {}]
  /\ taking' = [taking EXCEPT ![s] = Nothing]
  /\ posts' = { IF p.student = s THEN [p EXCEPT !.page = FALSE] ELSE p : p \in posts }
  /\ gets' = { g \in gets : g.student # s }
               \cup {[student |-> s, stage |-> "sent", rows |-> {}, entries |-> {}, click |-> 0]}
  /\ UNCHANGED <<tables, desk, report, history>>

\* get_user_quizzes: the quizzes of the class, then the student's attempts.
ReadQuizzes(g) ==
  /\ g \in gets /\ g.stage = "sent"
  /\ gets' = (gets \ {g}) \cup {[g EXCEPT !.stage = "quizzes", !.rows = quizzes]}
  /\ UNCHANGED <<tables, pages, posts, desk, report, history>>

\* Mutant: the attempts of any student.
TriesOf_Anyone(s, id) == AttemptsOf(id)

TriesOf(s, id) == { i \in AttemptsOf(id) : attempts[i].student = s }

\* attempt_map: how often the student tried each quiz, and the best score.
WithStatus(s, row) ==
  LET tries == TriesOf(s, row.id)
      scores == { attempts[i].score : i \in tries }
  IN [id |-> row.id, quiz |-> row.quiz, tries |-> Cardinality(tries),
      best |-> IF scores = {} THEN 0 ELSE CHOOSE n \in scores : \A k \in scores : k <= n]

ReadAttempts(g) ==
  /\ g \in gets /\ g.stage = "quizzes"
  /\ gets' = (gets \ {g}) \cup
       {[g EXCEPT !.stage = "answered", !.rows = {},
                  !.entries = { WithStatus(g.student, r) : r \in g.rows }]}
  /\ UNCHANGED <<tables, pages, posts, desk, report, history>>

\* setQuizzes(res.data)
ShowQuizzes(g) ==
  /\ g \in gets /\ g.stage = "answered"
  /\ listed' = [listed EXCEPT ![g.student] = g.entries]
  /\ gets' = gets \ {g}
  /\ UNCHANGED <<tables, taking, posts, desk, report, history>>

\* takeQuiz, and the button that closes the quiz.
TakeQuiz(s, e) ==
  /\ taking[s] = Nothing /\ e \in listed[s]
  /\ taking' = [taking EXCEPT ![s] = [id |-> e.id, quiz |-> e.quiz]]
  /\ UNCHANGED <<tables, listed, network, desk, report, history>>

CloseQuiz(s) ==
  /\ taking[s] # Nothing
  /\ taking' = [taking EXCEPT ![s] = Nothing]
  /\ UNCHANGED <<tables, listed, network, desk, report, history>>

\* Mutant: the newest quiz of the list, whichever is open.
OpenQuiz_Newest(s) ==
  IF listed[s] = {} THEN taking[s].id
  ELSE (CHOOSE e \in listed[s] : \A f \in listed[s] : f.id <= e.id).id

OpenQuiz(s) == taking[s].id

\* submitQuiz: the page computes the score and posts it with the quiz's id.
SubmitQuiz(s, score) ==
  /\ taking[s] # Nothing /\ clicks < MaxClicks
  /\ posts' = posts \cup
       {[student |-> s, click |-> clicks + 1, stage |-> "sent", page |-> TRUE,
         quiz_id |-> OpenQuiz(s), score |-> score, total |-> Questions[taking[s].quiz],
         answered |-> taking[s].quiz]}
  /\ clicks' = clicks + 1
  /\ UNCHANGED <<tables, pages, gets, desk, report, given, calm, sent>>

\* POST /quiz-attempts: the row is saved as it came.
SaveAttempt(p) ==
  /\ p \in posts /\ p.stage = "sent"
  /\ attempts' = Append(attempts,
       [quiz_id |-> p.quiz_id, student |-> p.student, score |-> p.score,
        total |-> p.total, answered |-> p.answered])
  /\ posts' = (posts \ {p}) \cup {[p EXCEPT !.stage = "saved"]}
  /\ UNCHANGED <<quizzes, pages, gets, desk, report, history>>

\* The database is locked, the server is away or its response is lost: an
\* alert, and the quiz stays open.
PostFails(p) ==
  /\ posts' = posts \ {p}
  /\ UNCHANGED <<tables, pages, gets, desk, report, history>>

\* The response closes whatever quiz is open and fetches the list again.
Submitted(p) ==
  /\ p \in posts /\ p.stage = "saved"
  /\ posts' = posts \ {p}
  /\ IF p.page
     THEN /\ taking' = [taking EXCEPT ![p.student] = Nothing]
          /\ gets' = gets \cup {[student |-> p.student, stage |-> "sent", rows |-> {},
                                 entries |-> {}, click |-> p.click]}
     ELSE UNCHANGED <<taking, gets>>
  /\ UNCHANGED <<tables, listed, desk, report, history>>

Analyze(t) ==
  \/ \E row \in quizzes : AnalyzeQuiz(t, row)
  \/ AnalyzeAttempts(t) \/ CloseReport(t)

Learn(s) ==
  \/ Visit(s) \/ CloseQuiz(s)
  \/ \E e \in listed[s] : TakeQuiz(s, e)
  \/ taking[s] # Nothing /\ \E n \in 0 .. Questions[taking[s].quiz] : SubmitQuiz(s, n)

Serve ==
  \/ \E o \in orders : CreateQuiz(o) \/ DeleteQuiz(o) \/ FetchBoard(o) \/ OrderFails(o)
  \/ \E a \in answers : ShowBoard(a) \/ AnswerLost(a)
  \/ \E g \in gets : ReadQuizzes(g) \/ ReadAttempts(g) \/ ShowQuizzes(g)
  \/ \E p \in posts : SaveAttempt(p) \/ PostFails(p) \/ Submitted(p)

Next ==
  \/ \E t \in Teachers : Ask(t)
  \/ \E t \in Readers : Analyze(t)
  \/ \E s \in Students : Learn(s)
  \/ Serve

Spec == Init /\ [][Next]_vars
-----------------------------------------------------------------------------
Attempt == [quiz_id : 1 .. MaxOrders, student : Students, score : Nat, total : Nat,
            answered : Contents]

TypeOK ==
  /\ \A r1, r2 \in quizzes : r1.id = r2.id => r1 = r2
  /\ attempts \in Seq(Attempt) /\ Len(attempts) <= clicks
  /\ \A s \in Students : taking[s] \in Row \cup {Nothing}
  /\ quizzes \subseteq given /\ given \subseteq Row
  /\ \A t \in Teachers : board[t] \subseteq given
  /\ \A o \in orders : o.teacher \in Teachers /\ o.kind \in {"create", "delete", "fetch"}
  /\ \A a \in answers : a.teacher \in Teachers /\ a.rows \subseteq given
  /\ calm \subseteq Teachers /\ sent \in 0 .. MaxOrders /\ clicks \in 0 .. MaxClicks

\* An attempt counts for the quiz that was answered, however many lists, pages
\* and reports are stale, unless the quiz's id was given again (598-611,
\* Quizzes.jsx 64-84).
AttemptsCountForAnswered ==
  \A i \in DOMAIN attempts, r \in quizzes :
    r.id = attempts[i].quiz_id /\ ~Reused(r.id) => r.quiz = attempts[i].answered

\* A report puts the attempts of a quiz against that quiz, although both are
\* read at different times, unless its id was given again (627-673).
ReportsConsistent ==
  \A t \in Readers : report[t] # Nothing /\ ~Reused(report[t].row.id) =>
    \A i \in report[t].attempts : /\ attempts[i].answered = report[t].row.quiz
                                  /\ attempts[i].score <= MaxPossible(report[t].row.quiz)

\* What a student's page says of a quiz was true at some time: it does not
\* claim more tries than were saved nor a score that the student never had.
PagesTruthful ==
  \A s \in Students : \A e \in listed[s] :
    LET saved == { i \in DOMAIN attempts :
                     attempts[i].student = s /\ attempts[i].quiz_id = e.id }
    IN /\ e.tries <= Cardinality(saved)
       /\ e.best = 0 \/ \E i \in saved : attempts[i].score = e.best

\* What is deleted is the quiz that the teacher saw in the list, however old the
\* list, unless its id was given again since (589-596, Quizmanager.jsx 126-138).
DeletesWhatIsShown ==
  [][\A r \in quizzes \ quizzes' : ~Reused(r.id) =>
       \E o \in orders \ orders' : o.kind = "delete" /\ o.row = r]_vars

\* The list is kept up to date by hand and not fetched again; still it is the
\* table for a teacher nothing came in the way of: no other teacher changed the
\* table, no response was lost, and no request was sent before the response to
\* the one before (Quizmanager.jsx 99, 132-133).
CalmBoardsCurrent ==
  \A t \in calm : UnderWay(t) = {} => board[t] = quizzes

\* The tables and the lists kept by hand.
BoardsOK == TypeOK /\ CalmBoardsCurrent
=============================================================================
