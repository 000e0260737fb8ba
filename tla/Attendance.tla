----------------------------- MODULE Attendance -----------------------------
(***************************************************************************)
(* backend/routers/attendance.py: POST /attendance/mark and /bulk-mark.    *)
(* Each request runs in a thread of its own with a session of its own: it  *)
(* looks every mark of its list up (is there a row for this student,       *)
(* subject and date?), changes that row or adds one, and commits at the    *)
(* end.  The table has no unique constraint and nothing locks it, so the   *)
(* lookups of one request interleave with the commits of the others.       *)
(*                                                                         *)
(* A row is for one student, subject and date; the time of day it stores   *)
(* is always midnight and is left out.                                     *)
(***************************************************************************)
EXTENDS OrmSession

CONSTANTS
  Clients,      \* requests that are served at the same time
  Enrolled,     \* USNs that belong to students
  Strangers,    \* USNs that do not
  Subjects,
  Dates,
  NoDate,       \* a date that does not parse
  Lists         \* the lists of marks that clients send

Statuses == {"Present", "Absent"}

Mark == [usn : Enrolled \cup Strangers, subject : Subjects,
         date : Dates \cup {NoDate}, status : Statuses]

ASSUME ClientsAssumption == IsFiniteSet(Clients)    \* the server's pool of threads
ASSUME ListsAssumption == Lists # {} /\ Lists \subseteq Seq(Mark)
ASSUME DateAssumption == NoDate \notin Dates
ASSUME UsnAssumption == Enrolled \cap Strangers = {}

VARIABLES
  table,     \* the attendance table
  pc,        \* where each request is
  list,      \* its marks
  bulk,      \* whether it came by bulk-mark
  done,      \* how many of its marks it has looked up
  session,   \* its session
  reply,     \* what the client was told
  clash,     \* history: the keys that a request shares with one that overlaps
             \* it, and those that its own list repeats
  raced      \* history: the keys that were ever in clash

request == <<pc, list, bulk, done, session>>
history == <<clash, raced>>
vars == <<table, request, reply, history>>

Key(m) == [usn |-> m.usn, subject |-> m.subject, date |-> m.date]
Cols(m) == [status |-> m.status]

\* The marks of a list that are stored.
Known(l) == { i \in DOMAIN l : l[i].usn \in Enrolled }
KeysOf(l) == { Key(l[i]) : i \in Known(l) }
Repeated(l) == { Key(l[i]) : i \in { j \in Known(l) :
                               \E h \in Known(l) : h # j /\ Key(l[h]) = Key(l[j]) } }

Init ==
  /\ table = << >>
  /\ pc = [c \in Clients |-> "idle"]
  /\ list = [c \in Clients |-> << >>]
  /\ bulk = [c \in Clients |-> FALSE]
  /\ done = [c \in Clients |-> 0]
  /\ session = [c \in Clients |-> NoChanges]
  /\ reply = [c \in Clients |-> "none"]
  /\ clash = [c \in Clients |-> {}]
  /\ raced = {}

InFlight == { c \in Clients : pc[c] # "idle" }
-----------------------------------------------------------------------------
\* A request with marks l arrives.
Arrive(c, l, isBulk) ==
  /\ pc[c] = "idle"
  /\ pc' = [pc EXCEPT ![c] = "lookup"]
  /\ list' = [list EXCEPT ![c] = l]
  /\ bulk' = [bulk EXCEPT ![c] = isBulk]
  /\ reply' = [reply EXCEPT ![c] = "none"]
  /\ clash' = [d \in Clients |->
       IF d = c THEN Repeated(l) \cup (KeysOf(l) \cap UNION { KeysOf(list[o]) : o \in InFlight })
       ELSE IF d \in InFlight THEN clash[d] \cup (KeysOf(l) \cap KeysOf(list[d]))
       ELSE clash[d]]
  /\ raced' = raced \cup UNION { clash'[d] : d \in Clients }
  /\ UNCHANGED <<table, done, session>>

MarkAttendance(c) == \E l \in Lists : Len(l) = 1 /\ Arrive(c, l, FALSE)

MarkBulkAttendance(c) == \E l \in Lists : Arrive(c, l, TRUE)

\* The request has nothing left to look up or to write.
Settled(c) ==
  /\ list' = [list EXCEPT ![c] = << >>]
  /\ done' = [done EXCEPT ![c] = 0]
  /\ session' = [session EXCEPT ![c] = NoChanges]
  /\ clash' = [clash EXCEPT ![c] = {}]
  /\ UNCHANGED raced

\* The response is sent and the session closed.
Replies(c, answer) ==
  /\ pc' = [pc EXCEPT ![c] = "idle"]
  /\ bulk' = [bulk EXCEPT ![c] = FALSE]
  /\ reply' = [reply EXCEPT ![c] = answer]

\* db.rollback() and status 500: what the session held is dropped.
Fails(c) == Settled(c) /\ Replies(c, "error") /\ UNCHANGED table

\* Mutant: a row is added whether or not there is one.
Stage_Insert(s, m) == Add(s, Key(m), Cols(m))

\* Mutant: the newest row is changed.
Stage_Newest(s, m) ==
  IF RowsOf(table, Key(m)) # {}
  THEN Assign(s, table, CHOOSE i \in RowsOf(table, Key(m)) :
                          \A j \in RowsOf(table, Key(m)) : j <= i, Cols(m))
  ELSE Add(s, Key(m), Cols(m))

\* The lookup of one mark and what is done about it.
Stage(s, m) ==
  IF RowsOf(table, Key(m)) # {}
  THEN Assign(s, table, FirstRow(table, Key(m)), Cols(m))
  ELSE Add(s, Key(m), Cols(m))

Advance(c) ==
  /\ done' = [done EXCEPT ![c] = @ + 1]
  /\ UNCHANGED <<table, pc, list, bulk, reply, history>>

\* Mutant: the date is not parsed.
Lookup_AnyDate(c) ==
  /\ pc[c] = "lookup" /\ done[c] < Len(list[c])
  /\ LET m == list[c][done[c] + 1] IN
       \/ m.usn \in Strangers /\ ~bulk[c] /\ Fails(c)
       \/ /\ m.usn \in Strangers /\ bulk[c] /\ UNCHANGED session
          /\ Advance(c)
       \/ /\ m.usn \in Enrolled
          /\ session' = [session EXCEPT ![c] = Stage(@, m)]
          /\ Advance(c)

\* Mutant: every mark is committed by itself.
Lookup_WritesThrough(c) ==
  /\ pc[c] = "lookup" /\ done[c] < Len(list[c])
  /\ LET m == list[c][done[c] + 1] IN
       \/ m.usn \in Strangers /\ ~bulk[c] /\ Fails(c)
       \/ m.usn \in Enrolled /\ m.date = NoDate /\ Fails(c)
       \/ /\ m.usn \in Strangers /\ bulk[c] /\ UNCHANGED session
          /\ Advance(c)
       \/ /\ m.usn \in Enrolled /\ m.date # NoDate
          /\ table' = Flush(table, Stage(NoChanges, m))
          /\ done' = [done EXCEPT ![c] = @ + 1]
          /\ UNCHANGED <<pc, list, bulk, session, reply, history>>

\* The next mark of the list.  A stranger fails a single mark and is skipped in
\* a list; a date that does not parse fails either.
Lookup(c) ==
  /\ pc[c] = "lookup" /\ done[c] < Len(list[c])
  /\ LET m == list[c][done[c] + 1] IN
       \/ m.usn \in Strangers /\ ~bulk[c] /\ Fails(c)
       \/ m.usn \in Enrolled /\ m.date = NoDate /\ Fails(c)
       \/ /\ m.usn \in Strangers /\ bulk[c] /\ UNCHANGED session
          /\ Advance(c)
       \/ /\ m.usn \in Enrolled /\ m.date # NoDate
          /\ session' = [session EXCEPT ![c] = Stage(@, m)]
          /\ Advance(c)

\* db.commit(), once, after the last mark.
Commit(c) ==
  /\ pc[c] = "lookup" /\ done[c] = Len(list[c])
  /\ table' = Flush(table, session[c])
  /\ Settled(c)
  /\ pc' = [pc EXCEPT ![c] = "answer"]
  /\ UNCHANGED <<bulk, reply>>

\* The answer.  The commit has expired the student, so the name in the answer to a single
\* mark (150) is read again; if that fails, the mark is stored and the answer is 500.
Answer(c) ==
  /\ pc[c] = "answer"
  /\ Replies(c, "ok") \/ (~bulk[c] /\ Replies(c, "error"))
  /\ UNCHANGED <<table, list, done, session, history>>

\* SQLite refuses a lookup or the commit: the file stayed locked too long.
DatabaseLocked(c) ==
  /\ pc[c] = "lookup"
  /\ done[c] < Len(list[c]) \/ session[c] # NoChanges
  /\ Fails(c)

\* The process dies: the requests are gone, the file is as last committed.
Restart ==
  /\ pc' = [c \in Clients |-> "idle"]
  /\ list' = [c \in Clients |-> << >>]
  /\ bulk' = [c \in Clients |-> FALSE]
  /\ done' = [c \in Clients |-> 0]
  /\ session' = [c \in Clients |-> NoChanges]
  /\ clash' = [c \in Clients |-> {}]
  /\ UNCHANGED <<table, reply, raced>>

Next ==
  \/ \E c \in Clients : \/ MarkAttendance(c) \/ MarkBulkAttendance(c)
                        \/ Lookup(c) \/ Commit(c) \/ Answer(c) \/ DatabaseLocked(c)
  \/ Restart

Spec == Init /\ [][Next]_vars
-----------------------------------------------------------------------------
\* GET /attendance/student/{usn} and /attendance/subject/{subject}: every row of
\* the student and subject counts as a class.
Records(u, s) ==
  { i \in DOMAIN table : table[i].key.usn = u /\ table[i].key.subject = s }
TotalClasses(u, s) == Cardinality(Records(u, s))

\* Mutant: the status is not looked at.
PresentCount_All(u, s) == Cardinality(Records(u, s))

PresentCount(u, s) ==
  Cardinality({ i \in Records(u, s) : table[i].cols.status = "Present" })
-----------------------------------------------------------------------------
Keys == [usn : Enrolled, subject : Subjects, date : Dates]
Columns == [status : Statuses]

TypeOK ==
  /\ table \in Seq([key : Keys, cols : Columns])
  /\ pc \in [Clients -> {"idle", "lookup", "answer"}]
  /\ list \in [Clients -> Lists \cup {<< >>}]
  /\ bulk \in [Clients -> BOOLEAN]
  /\ \A c \in Clients : done[c] \in 0 .. Len(list[c])
  /\ \A c \in Clients : /\ session[c].new \in Seq([key : Keys, cols : Columns])
                       /\ \A u \in session[c].dirty : /\ u.row \in DOMAIN table
                                                      /\ {u.read, u.now} \subseteq Columns
  /\ reply \in [Clients -> {"none", "ok", "error"}]

\* Nothing but the lookup keeps a second row for the same student, subject and
\* date out.  It does so for every key that requests only touch one after the
\* other and once per list, whatever fails or restarts in between (124-145).
UniqueUnlessRaced ==
  \A k \in Keys \ raced : Cardinality(RowsOf(table, k)) <= 1

\* Requests that miss each other's row add one each, so a key can have several
\* rows; but only requests that were in flight before the first of them was
\* committed can, so their number is bounded for good by the number of
\* concurrent requests times the most often a list repeats a key.
CopiesBounded ==
  LET Repeats(l, k) == Cardinality({ i \in Known(l) : Key(l[i]) = k })
  IN \A k \in Keys : \E l \in Lists :
       Cardinality(RowsOf(table, k)) <= Cardinality(Clients) * Repeats(l, k)

\* What a request has committed is there: after the commit, the row that the
\* lookup of a mark would find has the status of that mark, if no overlapping
\* request touched its key, even where earlier races left several rows.
MarkHolds ==
  [][\A c \in Clients : Commit(c) =>
       \A i \in Known(list[c]) : Key(list[c][i]) \notin clash[c] =>
         table'[FirstRow(table', Key(list[c][i]))].cols = Cols(list[c][i])]_vars

\* The summaries of a student count each date once, unless its row was raced
\* for (235-262, 306-315).
SummaryCountsDates ==
  \A u \in Enrolled, s \in Subjects :
    LET marked == { k \in Keys : k.usn = u /\ k.subject = s /\ RowsOf(table, k) # {} }
        present == { k \in marked : table[FirstRow(table, k)].cols.status = "Present" }
    IN marked \cap raced = {} =>
         /\ TotalClasses(u, s) = Cardinality(marked)
         /\ PresentCount(u, s) = Cardinality(present)

\* The rows that races leave are as many as the requests that raced, they change
\* no other key's, and the summaries count what is there.
TableOK == TypeOK /\ UniqueUnlessRaced /\ CopiesBounded /\ SummaryCountsDates

\* Attendance is a book with one entry for each student, subject and date, which
\* lists are written in all or nothing, for every entry that no two marks have
\* competed for: a race for one mark of a list does not touch the others.  "Error" means
\* that nothing was written, except to the sender of a single mark (147-150).
BookOf(k) ==
  IF k \in raced THEN "void"
  ELSE IF RowsOf(table, k) = {} THEN "none" ELSE table[FirstRow(table, k)].cols.status
ToldOf(c) == IF pc[c] # "answer" THEN reply[c]
             ELSE IF bulk[c] THEN "listEntered" ELSE "markEntered"
Book == INSTANCE AttendanceBook
          WITH book <- [k \in Keys |-> BookOf(k)], told <- [c \in Clients |-> ToldOf(c)]
IsABook == Book!Spec
=============================================================================
