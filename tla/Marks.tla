------------------------------- MODULE Marks -------------------------------
(***************************************************************************)
(* backend/routers/marks.py: POST /marks/entry and /marks/bulk-entry, and  *)
(* the readers of the table.  As with attendance, a request looks each     *)
(* entry up, changes the row it found or adds one, and commits at the end, *)
(* without a unique constraint or a lock.  A row has six columns of marks, *)
(* and a commit writes only those that the request changed: two requests   *)
(* can each contribute columns to one row.                                 *)
(*                                                                         *)
(* The column updated_at always changes and nothing but the display of a   *)
(* date depends on it; it is left out.                                     *)
(***************************************************************************)
EXTENDS OrmSession, FiniteSetsExt

CONSTANTS
  Clients,     \* requests that are served at the same time
  Enrolled,    \* USNs that belong to students
  Strangers,   \* USNs that do not
  Subjects,
  Fields,      \* columns of marks, of ia1, ia2, quiz, assignment, seminar, lab
  Points,      \* values of a column
  Lists        \* the lists of entries that clients send

Columns == [Fields -> Points]

Entry == [usn : Enrolled \cup Strangers, subject : Subjects, cols : Columns]

\* What the constants have to be.
ConstantsFit ==
  /\ Fields \subseteq {"ia1", "ia2", "quiz", "assignment", "seminar", "lab"}
  /\ Points \subseteq Int /\ 0 \in Points
  /\ Enrolled \cap Strangers = {}
  /\ Lists \subseteq Seq(Entry) \ {<< >>}

VARIABLES
  table,     \* the student_marks table
  pc,        \* where each request is
  list,      \* its entries
  bulk,      \* whether it came by bulk-entry
  done,      \* how many of its entries it has looked up
  session,   \* its session
  reply,     \* what the client was told
  clash,     \* history: the keys that a request shares with one that overlaps
             \* it, and those that its own list repeats
  raced,     \* history: the keys that were ever in clash
  entered    \* history: the entries of the requests whose commit went through

history == <<clash, raced, entered>>
vars == <<table, pc, list, bulk, done, session, reply, history>>

Key(e) == [usn |-> e.usn, subject |-> e.subject]

Known(l) == { i \in DOMAIN l : l[i].usn \in Enrolled }
KeysOf(l) == { Key(l[i]) : i \in Known(l) }
Repeated(l) == { Key(l[i]) : i \in { j \in Known(l) :
                               \E h \in Known(l) : h # j /\ Key(l[h]) = Key(l[j]) } }

\* (ia1 + ia2) * 0.5 + quiz + assignment + seminar + lab, in half points.
Total(cols) ==
  MapThenSumSet(LAMBDA f : cols[f] * IF f \in {"ia1", "ia2"} THEN 1 ELSE 2, Fields)

Init ==
  /\ table = << >>
  /\ pc = [c \in Clients |-> "idle"]
  /\ list = [c \in Clients |-> << >>]
  /\ bulk = [c \in Clients |-> FALSE]
  /\ done = [c \in Clients |-> 0]
  /\ session = [c \in Clients |-> NoChanges]
  /\ reply = [c \in Clients |-> "none"]
  /\ clash = [c \in Clients |-> {}]
  /\ raced = {} /\ entered = {}

InFlight == { c \in Clients : pc[c] # "idle" }
-----------------------------------------------------------------------------
\* A request with entries l arrives.
Arrive(c, l, isBulk) ==
  /\ pc[c] = "idle"
  /\ pc' = [pc EXCEPT ![c] = "lookup"]
  /\ list' = [list EXCEPT ![c] = l]
  /\ bulk' = [bulk EXCEPT ![c] = isBulk]
  /\ reply' = [reply EXCEPT ![c] = "none"]
  /\ clash' = [d \in Clients |->
       IF d = c THEN Repeated(l) \cup (KeysOf(l) \cap UNION { KeysOf(list[o]) : o \in InFlight })
       ELSE IF d \in InFlight THEN clash[d] \cup (KeysOf(l) \cap KeysOf(list[d]))
       ELSE clash[d]]
  /\ raced' = raced \cup UNION { clash'[d] : d \in Clients }
  /\ UNCHANGED <<table, done, session, entered>>

EnterMarks(c) == \E l \in Lists : Len(l) = 1 /\ Arrive(c, l, FALSE)

EnterBulkMarks(c) == \E l \in Lists : Arrive(c, l, TRUE)

\* The request has nothing left to look up or to write.
Settled(c) ==
  /\ list' = [list EXCEPT ![c] = << >>]
  /\ done' = [done EXCEPT ![c] = 0]
  /\ session' = [session EXCEPT ![c] = NoChanges]
  /\ clash' = [clash EXCEPT ![c] = {}]
  /\ UNCHANGED raced

\* The response is sent and the session closed.
Replies(c, answer) ==
  /\ pc' = [pc EXCEPT ![c] = "idle"]
  /\ bulk' = [bulk EXCEPT ![c] = FALSE]
  /\ reply' = [reply EXCEPT ![c] = answer]

\* db.rollback() and status 500.
Fails(c) == Settled(c) /\ Replies(c, "error") /\ UNCHANGED <<table, entered>>

\* Mutant: a row is added whether or not there is one.
Stage_Insert(s, e) == Add(s, Key(e), e.cols)

\* Mutant: columns that are zero in the entry are left alone.
Stage_SkipZeros(s, e) ==
  IF RowsOf(table, Key(e)) # {}
  THEN LET i == FirstRow(table, Key(e))
       IN Assign(s, table, i, [f \in Fields |-> IF e.cols[f] = 0 THEN table[i].cols[f]
                                                ELSE e.cols[f]])
  ELSE Add(s, Key(e), e.cols)

\* Mutant: the points are added to those of the row.
Stage_Accumulate(s, e) ==
  IF RowsOf(table, Key(e)) # {}
  THEN LET i == FirstRow(table, Key(e))
       IN Assign(s, table, i, [f \in Fields |-> table[i].cols[f] + e.cols[f]])
  ELSE Add(s, Key(e), e.cols)

\* The lookup of one entry and what is done about it.
Stage(s, e) ==
  IF RowsOf(table, Key(e)) # {}
  THEN Assign(s, table, FirstRow(table, Key(e)), e.cols)
  ELSE Add(s, Key(e), e.cols)

\* Mutant: the student is not looked up.
Lookup_Anyone(c) ==
  /\ pc[c] = "lookup" /\ done[c] < Len(list[c])
  /\ session' = [session EXCEPT ![c] = Stage(@, list[c][done[c] + 1])]
  /\ done' = [done EXCEPT ![c] = @ + 1]
  /\ UNCHANGED <<table, pc, list, bulk, reply, history>>

\* The next entry of the list.  A stranger fails a single entry and is skipped
\* in a list.
Lookup(c) ==
  /\ pc[c] = "lookup" /\ done[c] < Len(list[c])
  /\ LET e == list[c][done[c] + 1] IN
       \/ e.usn \in Strangers /\ ~bulk[c] /\ Fails(c)
       \/ /\ e.usn \in Enrolled \/ bulk[c]
          /\ session' = [session EXCEPT ![c] = IF e.usn \in Enrolled THEN Stage(@, e) ELSE @]
          /\ done' = [done EXCEPT ![c] = @ + 1]
          /\ UNCHANGED <<table, pc, list, bulk, reply, history>>

\* db.commit(), once.
Commit(c) ==
  /\ pc[c] = "lookup" /\ done[c] = Len(list[c])
  /\ table' = Flush(table, session[c])
  /\ Settled(c)
  /\ pc' = [pc EXCEPT ![c] = "answer"]
  /\ entered' = entered \cup
       { [key |-> Key(list[c][i]), cols |-> list[c][i].cols] : i \in Known(list[c]) }
  /\ UNCHANGED <<bulk, reply>>

\* The response gives the totals of the entries as requested.  For a single entry the
\* name of the student, expired by the commit, is read again (160); if that fails, the
\* entry is stored and the answer is 500.
Answer(c) ==
  /\ pc[c] = "answer"
  /\ Replies(c, "ok") \/ (~bulk[c] /\ Replies(c, "error"))
  /\ UNCHANGED <<table, list, done, session, history>>

\* SQLite refuses a lookup or the commit: the file stayed locked too long.
DatabaseLocked(c) ==
  /\ pc[c] = "lookup"
  /\ done[c] < Len(list[c]) \/ session[c] # NoChanges
  /\ Fails(c)

\* The process dies: the requests are gone, the file is as last committed.
Restart ==
  /\ pc' = [c \in Clients |-> "idle"]
  /\ list' = [c \in Clients |-> << >>]
  /\ bulk' = [c \in Clients |-> FALSE]
  /\ done' = [c \in Clients |-> 0]
  /\ session' = [c \in Clients |-> NoChanges]
  /\ clash' = [c \in Clients |-> {}]
  /\ UNCHANGED <<table, reply, raced, entered>>

Next ==
  \/ \E c \in Clients : \/ EnterMarks(c) \/ EnterBulkMarks(c)
                        \/ Lookup(c) \/ Commit(c) \/ Answer(c) \/ DatabaseLocked(c)
  \/ Restart

Spec == Init /\ [][Next]_vars
-----------------------------------------------------------------------------
\* GET /marks/student/{usn} lists every row; GET /marks/subject/{subject} and
\* GET /marks/student/{usn}/subject/{subject} read the first, or zeros.
StudentSheet(u) ==
  { [subject |-> table[i].key.subject, total |-> Total(table[i].cols), row |-> i] :
      i \in { j \in DOMAIN table : table[j].key.usn = u } }

SubjectTotal(u, s) ==
  LET rows == RowsOf(table, [usn |-> u, subject |-> s])
  IN IF rows = {} THEN 0
     ELSE Total(table[FirstRow(table, [usn |-> u, subject |-> s])].cols)
-----------------------------------------------------------------------------
Keys == [usn : Enrolled, subject : Subjects]

TypeOK ==
  /\ table \in Seq([key : Keys, cols : Columns])
  /\ pc \in [Clients -> {"idle", "lookup", "answer"}]
  /\ list \in [Clients -> Lists \cup {<< >>}]
  /\ bulk \in [Clients -> BOOLEAN]
  /\ \A c \in Clients : /\ done[c] \in 0 .. Len(list[c])
                       /\ session[c].new \in Seq([key : Keys, cols : Columns])
                       /\ \A u \in session[c].dirty : /\ u.row \in DOMAIN table
                                                      /\ {u.read, u.now} \subseteq Columns
  /\ reply \in [Clients -> {"none", "ok", "error"}]

\* A row that no two requests raced for holds six marks that one request entered
\* together for that student and subject, and committed (its sender may still have been
\* told of an error, 151-160): requests that failed before, repeated requests, skipped
\* strangers and restarts leave no half-written row.
RowsEnteredWhole ==
  \A i \in DOMAIN table : table[i].key \notin raced => table[i] \in entered

\* Even where requests race, each column of a row holds points that a request entered in
\* that column, for that student and subject, and committed.
ColumnsEntered ==
  \A i \in DOMAIN table, f \in Fields :
    \E e \in entered : e.key = table[i].key /\ e.cols[f] = table[i].cols[f]

\* The student, who reads all rows, and the teacher, who reads the first, see
\* the same totals, except where requests have raced for a row (264-289,
\* 325-352, 397-439).
ReadersAgree ==
  \A u \in Enrolled : \A x \in StudentSheet(u) :
    [usn |-> u, subject |-> x.subject] \notin raced => x.total = SubjectTotal(u, x.subject)

\* Whoever did not race for a row finds it whole, and finds the same row.
SheetOK == TypeOK /\ RowsEnteredWhole /\ ReadersAgree
=============================================================================
