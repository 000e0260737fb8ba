--------------------------- MODULE RecordsProofs ----------------------------
(***************************************************************************)
(* The records of a class: attendance, then (as instances of their modules)*)
(* marks and quizzes.                                                      *)
(*                                                                         *)
(* The attendance table is what requests have committed, for any number of *)
(* concurrent requests, any lists of marks, failures and restarts.         *)
(*                                                                         *)
(* The argument.  What a request has staged is described by its list, not  *)
(* by the order of its calls: after n lookups its session holds changes of *)
(* first rows and new rows for the keys of the first n marks only (Staged),*)
(* and for each of those marks whose key nobody competes for exactly the   *)
(* row that a commit would need (Kept).  A request is disturbed only by    *)
(* the commits of others, and a commit touches only keys of its list       *)
(* (FlushLeaves); a key in both lists is in the clash of both (Competing), *)
(* so a commit leaves what others staged valid (FlushOfAnother) and its    *)
(* own marks stored (FlushStores).                                         *)
(*                                                                         *)
(* How many rows a raced key can have needs an invariant of its own.  A    *)
(* session adds at most one row for each mark it has met (Counted), and    *)
(* only if it looked the mark up before the key's first row was committed. *)
(* So from that commit on, the rows there are and those that the sessions  *)
(* then open may still add are no more than one share for each client, the *)
(* share being the most that any list then open repeats the key (Bounded): *)
(* a commit spends its client's share and no lookup can make a new one.    *)
(***************************************************************************)
EXTENDS ClassRecords, ClassQuizzes, OperatorTheorems

\* Rows, changes of rows and sessions of the attendance table.
Row == RowSet(Keys, Columns)
Change == ChangeSet(Columns)
Session == SessionSet(Keys, Columns)

\* The stored marks among the first n of a list, and their keys.
Marked(l, n) == {i \in Known(l) : i <= n}
MarkedKeys(l, n) == {Key(l[i]) : i \in Marked(l, n)}

\* What a session that has looked up n marks of l holds, over the table t: changes
\* of first rows and new rows, all for the keys of those marks.
Staged(t, l, n, s) ==
  /\ \A u \in s.dirty : /\ u.row \in DOMAIN t /\ u.row = FirstRow(t, t[u.row].key)
                        /\ t[u.row].key \in MarkedKeys(l, n)
  /\ OneChangeEach(s)
  /\ \A j \in DOMAIN s.new : s.new[j].key \in MarkedKeys(l, n)

\* Committed to the table t, the session s stores the mark m.
StoredAs(t, s, m) ==
  \/ /\ RowsOf(t, Key(m)) = {}
     /\ \E j \in DOMAIN s.new : /\ NewOf(s, Key(m)) = {j}
                                /\ s.new[j] = [key |-> Key(m), cols |-> Cols(m)]
  \/ /\ RowsOf(t, Key(m)) # {} /\ NewOf(s, Key(m)) = {}
     /\ [row |-> FirstRow(t, Key(m)), read |-> t[FirstRow(t, Key(m))].cols, now |-> Cols(m)] \in s.dirty

\* So it does each of the first n marks of l whose key is not in cl.
Kept(t, l, n, s, cl) ==
  \A i \in Marked(l, n) : l[i].date \in Dates /\ (Key(l[i]) \notin cl => StoredAs(t, s, l[i]))

\* A student's mark with a date has a key and columns.
LEMMA MarkFacts ==
  ASSUME NEW m \in Mark, m.usn \in Enrolled, m.date \in Dates
  PROVE  Key(m) \in Keys /\ Cols(m) \in Columns /\ Cols(m).status = m.status
BY DEF Mark, Key, Keys, Cols, Columns

\* The marks of a list, and which of them are stored.
LEMMA ListFacts ==
  ASSUME NEW l \in Seq(Mark)
  PROVE  /\ Len(l) \in Nat /\ DOMAIN l = 1 .. Len(l)
         /\ \A i \in DOMAIN l : l[i] \in Mark /\ l[i].usn \in Enrolled \cup Strangers
         /\ Known(l) = {i \in 1 .. Len(l) : l[i].usn \in Enrolled}
<1>1. Len(l) \in Nat /\ DOMAIN l = 1 .. Len(l) /\ \A i \in DOMAIN l : l[i] \in Mark
  OBVIOUS
<1>2. \A m \in Mark : m.usn \in Enrolled \cup Strangers
  BY DEF Mark
<1> QED BY <1>1, <1>2 DEF Known

\* A key that two marks of a list have is repeated.
LEMMA RepeatedKey ==
  ASSUME NEW l, NEW i \in Known(l), NEW h \in Known(l), h # i, Key(l[h]) = Key(l[i])
  PROVE  Key(l[i]) \in Repeated(l)
BY DEF Repeated

\* One lookup more is one mark more, if the mark is stored.
LEMMA MarkedNext ==
  ASSUME NEW l \in Seq(Mark), NEW n \in Nat, n < Len(l)
  PROVE  /\ n + 1 \in DOMAIN l /\ n + 1 \notin Marked(l, n)
         /\ l[n + 1].usn \in Enrolled => Marked(l, n + 1) = Marked(l, n) \cup {n + 1}
                                         /\ MarkedKeys(l, n + 1) = MarkedKeys(l, n) \cup {Key(l[n + 1])}
                                         /\ n + 1 \in Known(l)
         /\ l[n + 1].usn \notin Enrolled => Marked(l, n + 1) = Marked(l, n)
                                            /\ MarkedKeys(l, n + 1) = MarkedKeys(l, n)
<1>1. /\ Len(l) \in Nat /\ DOMAIN l = 1 .. Len(l)
      /\ Known(l) = {i \in 1 .. Len(l) : l[i].usn \in Enrolled}
  BY ListFacts
<1>2. n + 1 \in DOMAIN l /\ n + 1 \notin Marked(l, n)
  BY <1>1 DEF Marked
<1>3. l[n + 1].usn \in Enrolled => Marked(l, n + 1) = Marked(l, n) \cup {n + 1} /\ n + 1 \in Known(l)
  BY <1>1 DEF Marked
<1>4. l[n + 1].usn \notin Enrolled => Marked(l, n + 1) = Marked(l, n)
  BY <1>1 DEF Marked
<1>5. ASSUME Marked(l, n + 1) = Marked(l, n) \cup {n + 1}
      PROVE  MarkedKeys(l, n + 1) = MarkedKeys(l, n) \cup {Key(l[n + 1])}
  BY <1>5 DEF MarkedKeys
<1>6. Marked(l, n + 1) = Marked(l, n) => MarkedKeys(l, n + 1) = MarkedKeys(l, n)
  BY DEF MarkedKeys
<1> QED BY <1>2, <1>3, <1>4, <1>5, <1>6

\* The only column that a change writes is the status.
LEMMA UpdatedStatus ==
  ASSUME NEW c \in Columns, NEW u \in Change
  PROVE  /\ Updated(c, u) \in Columns
         /\ Updated(c, u) = IF u.now # u.read THEN u.now ELSE c
<1>1. PICK cs \in Statuses : c = [status |-> cs]
  BY DEF Columns
<1>2. u.read \in Columns /\ u.now \in Columns
  BY DEF Change, ChangeSet
<1>3. PICK rs \in Statuses : u.read = [status |-> rs]
  BY <1>2 DEF Columns
<1>4. PICK ns \in Statuses : u.now = [status |-> ns]
  BY <1>2 DEF Columns
<1>5. Updated(c, u) = [status |-> IF ns # rs THEN ns ELSE cs]
  <2>1. DOMAIN c = {"status"}
    BY <1>1
  <2>2. Updated(c, u) = [f \in {"status"} |-> IF u.now[f] # u.read[f] THEN u.now[f] ELSE c[f]]
    BY <2>1 DEF Updated
  <2>3. u.now["status"] = ns /\ u.read["status"] = rs /\ c["status"] = cs
    BY <1>1, <1>3, <1>4
  <2>4. Updated(c, u) = [f \in {"status"} |-> IF ns # rs THEN ns ELSE cs]
    BY <2>2, <2>3
  <2> QED BY <2>4
<1>6. [status |-> IF ns # rs THEN ns ELSE cs] \in Columns
  BY DEF Columns
<1>7. u.now # u.read <=> ns # rs
  BY <1>3, <1>4
<1>8. CASE ns # rs
  BY <1>4, <1>5, <1>6, <1>7, <1>8
<1>9. CASE ns = rs
  BY <1>1, <1>5, <1>6, <1>7, <1>9
<1> QED BY <1>8, <1>9

\* A changed row keeps columns of the table.
LEMMA ColumnsClosed == \A c \in Columns, u \in ChangeSet(Columns) : Updated(c, u) \in Columns
BY UpdatedStatus DEF Change

-----------------------------------------------------------------------------
\* The session s2 has one row of key k more to add than s.
Adds(s, s2, k) ==
  /\ NewOf(s2, k) = NewOf(s, k) \cup {Len(s.new) + 1}
  /\ \A h : h # k => NewOf(s2, h) = NewOf(s, h)

\* A lookup that finds no row stages a new one.
LEMMA AddKeeps ==
  ASSUME NEW t \in Seq(Row), NEW s \in Session, NEW l \in Seq(Mark), NEW n \in Nat, n < Len(l),
         l[n + 1].usn \in Enrolled, l[n + 1].date \in Dates, RowsOf(t, Key(l[n + 1])) = {},
         NEW cl, Repeated(l) \subseteq cl, Staged(t, l, n, s), Kept(t, l, n, s, cl)
  PROVE  LET m == l[n + 1]
             s2 == Add(s, Key(m), Cols(m))
         IN  /\ s2 \in Session /\ Staged(t, l, n + 1, s2) /\ Kept(t, l, n + 1, s2, cl)
             /\ Adds(s, s2, Key(m))
<1> DEFINE m == l[n + 1]
           s2 == Add(s, Key(m), Cols(m))
           row == [key |-> Key(m), cols |-> Cols(m)]
<1>1. m \in Mark /\ Key(m) \in Keys /\ Cols(m) \in Columns
  BY MarkedNext, ListFacts, MarkFacts
<1> HIDE DEF m
<1>2. /\ s2 \in Session /\ s2.dirty = s.dirty
      /\ Len(s2.new) = Len(s.new) + 1 /\ Len(s.new) \in Nat
      /\ s2.new[Len(s.new) + 1] = row
      /\ \A j \in 1 .. Len(s.new) : s2.new[j] = s.new[j]
  BY <1>1, AddProperties DEF Session
<1>3. row.key = Key(m)
  OBVIOUS
<1> HIDE DEF s2, row
<1>4. DOMAIN s.new = 1 .. Len(s.new) /\ DOMAIN s2.new = 1 .. Len(s.new) + 1
  <2>1. s.new \in Seq(Row) /\ s2.new \in Seq(Row)
    BY <1>2 DEF Session, SessionSet, Row
  <2> QED BY <1>2, <2>1
<1>6. \A j : j \in DOMAIN s2.new <=> j \in DOMAIN s.new \/ j = Len(s.new) + 1
  BY <1>2, <1>4
<1>7. \A j \in DOMAIN s.new : s2.new[j] = s.new[j] /\ j # Len(s.new) + 1
  BY <1>2, <1>4
<1>8. NewOf(s2, Key(m)) = NewOf(s, Key(m)) \cup {Len(s.new) + 1}
  <2>1. \A j : j \in NewOf(s2, Key(m)) <=> j \in NewOf(s, Key(m)) \/ j = Len(s.new) + 1
    BY <1>2, <1>3, <1>6, <1>7 DEF NewOf
  <2> QED BY <2>1
<1>9. \A k : k # Key(m) => NewOf(s2, k) = NewOf(s, k)
  <2> SUFFICES ASSUME NEW k, k # Key(m) PROVE NewOf(s2, k) = NewOf(s, k)
    OBVIOUS
  <2>1. \A j : j \in NewOf(s2, k) <=> j \in NewOf(s, k)
    BY <1>2, <1>3, <1>6, <1>7 DEF NewOf
  <2> QED BY <2>1
<1>10. /\ Marked(l, n + 1) = Marked(l, n) \cup {n + 1} /\ n + 1 \notin Marked(l, n)
       /\ MarkedKeys(l, n + 1) = MarkedKeys(l, n) \cup {Key(m)} /\ n + 1 \in Known(l)
  BY MarkedNext DEF m
<1>11. Staged(t, l, n + 1, s2)
  <2>1. \A u \in s2.dirty : /\ u.row \in DOMAIN t /\ u.row = FirstRow(t, t[u.row].key)
                            /\ t[u.row].key \in MarkedKeys(l, n + 1)
    BY <1>2, <1>10 DEF Staged
  <2>2. OneChangeEach(s2)
    BY <1>2 DEF Staged, OneChangeEach
  <2>3. \A j \in DOMAIN s2.new : s2.new[j].key \in MarkedKeys(l, n + 1)
    BY <1>2, <1>3, <1>6, <1>7, <1>10 DEF Staged
  <2> QED BY <2>1, <2>2, <2>3 DEF Staged
<1>12. Key(m) \notin cl => Key(m) \notin MarkedKeys(l, n)
  <2> SUFFICES ASSUME NEW i \in Marked(l, n), Key(l[i]) = Key(m)
               PROVE  Key(m) \in cl
    BY DEF MarkedKeys
  <2>1. i # n + 1 /\ i \in Known(l)
    BY <1>10 DEF Marked
  <2> QED BY <1>10, <2>1, RepeatedKey DEF m
<1>13. Kept(t, l, n + 1, s2, cl)
  <2> SUFFICES ASSUME NEW i \in Marked(l, n + 1)
               PROVE  l[i].date \in Dates /\ (Key(l[i]) \notin cl => StoredAs(t, s2, l[i]))
    BY DEF Kept
  <2>1. CASE i = n + 1
    <3>1. ASSUME Key(m) \notin cl PROVE StoredAs(t, s2, m)
      <4>1. NewOf(s, Key(m)) = {}
        BY <1>12, <3>1 DEF Staged, NewOf
      <4>2. NewOf(s2, Key(m)) = {Len(s.new) + 1} /\ Len(s.new) + 1 \in DOMAIN s2.new
        BY <1>6, <1>8, <4>1
      <4>3. RowsOf(t, Key(m)) = {}
        BY DEF m
      <4> QED BY <1>2, <4>2, <4>3 DEF StoredAs, row
    <3> QED BY <2>1, <3>1 DEF m
  <2>2. CASE i # n + 1
    <3>1. i \in Marked(l, n) /\ i \in Known(l)
      BY <1>10, <2>2 DEF Marked
    <3>2. l[i].date \in Dates /\ (Key(l[i]) \notin cl => StoredAs(t, s, l[i]))
      BY <3>1 DEF Kept
    <3>3. ASSUME Key(l[i]) \notin cl PROVE StoredAs(t, s2, l[i])
      <4>1. Key(l[i]) # Key(m)
        BY <1>10, <2>2, <3>1, <3>3, RepeatedKey DEF m
      <4>2. NewOf(s2, Key(l[i])) = NewOf(s, Key(l[i]))
        BY <1>9, <4>1
      <4> QED BY <1>2, <1>6, <1>7, <3>2, <3>3, <4>2 DEF StoredAs
    <3> QED BY <3>2, <3>3
  <2> QED BY <2>1, <2>2
<1> QED BY <1>2, <1>8, <1>9, <1>11, <1>13 DEF m, s2, Adds

\* A lookup that finds a row stages a change of the first one.
LEMMA AssignKeeps ==
  ASSUME NEW t \in Seq(Row), NEW s \in Session, NEW l \in Seq(Mark), NEW n \in Nat, n < Len(l),
         l[n + 1].usn \in Enrolled, l[n + 1].date \in Dates, RowsOf(t, Key(l[n + 1])) # {},
         NEW cl, Repeated(l) \subseteq cl, Staged(t, l, n, s), Kept(t, l, n, s, cl)
  PROVE  LET m == l[n + 1]
             s2 == Assign(s, t, FirstRow(t, Key(m)), Cols(m))
         IN  /\ s2 \in Session /\ Staged(t, l, n + 1, s2) /\ Kept(t, l, n + 1, s2, cl)
             /\ \A k : NewOf(s2, k) = NewOf(s, k)
<1> DEFINE m == l[n + 1]
           r == FirstRow(t, Key(m))
           s2 == Assign(s, t, r, Cols(m))
<1>1. m \in Mark /\ Key(m) \in Keys /\ Cols(m) \in Columns
  BY MarkedNext, ListFacts, MarkFacts
<1>2. DOMAIN t \in SUBSET Nat
  OBVIOUS
<1>3. RowsOf(t, Key(m)) # {}
  OBVIOUS
<1> HIDE DEF m
<1>4. r \in DOMAIN t /\ t[r].key = Key(m)
  BY <1>2, <1>3, FirstRowIsLeast DEF RowsOf
<1> DEFINE key == Key(m)
           cols == Cols(m)
           entry(x) == [row |-> r, read |-> x, now |-> cols]
<1>5. /\ s2 \in Session /\ s2.new = s.new /\ OneChangeEach(s2)
      /\ \A u \in s.dirty : u.row # r => u \in s2.dirty
      /\ \A u \in s2.dirty : u.row # r => u \in s.dirty
      /\ (\A u \in s.dirty : u.row # r) => [row |-> r, read |-> t[r].cols, now |-> Cols(m)] \in s2.dirty
  <2>1. t \in Seq(RowSet(Keys, Columns)) /\ s \in SessionSet(Keys, Columns) /\ OneChangeEach(s)
    BY DEF Row, Session, Staged
  <2> HIDE DEF r
  <2> QED BY <1>1, <1>4, <2>1, AssignProperties DEF Session
<1> HIDE DEF s2
<1>6. \A k : NewOf(s2, k) = NewOf(s, k)
  BY <1>5 DEF NewOf
<1>7. /\ Marked(l, n + 1) = Marked(l, n) \cup {n + 1} /\ n + 1 \notin Marked(l, n)
      /\ MarkedKeys(l, n + 1) = MarkedKeys(l, n) \cup {Key(m)} /\ n + 1 \in Known(l)
  BY MarkedNext DEF m
<1>8. Staged(t, l, n + 1, s2)
  <2>1. \A u \in s2.dirty : /\ u.row \in DOMAIN t /\ u.row = FirstRow(t, t[u.row].key)
                            /\ t[u.row].key \in MarkedKeys(l, n + 1)
    <3> SUFFICES ASSUME NEW u \in s2.dirty
                 PROVE  /\ u.row \in DOMAIN t /\ u.row = FirstRow(t, t[u.row].key)
                        /\ t[u.row].key \in MarkedKeys(l, n + 1)
      OBVIOUS
    <3>1. CASE u.row = r
      BY <1>4, <1>7, <3>1
    <3>2. CASE u.row # r
      <4> HIDE DEF r
      <4> QED BY <1>5, <1>7, <3>2 DEF Staged
    <3> QED BY <3>1, <3>2
  <2>2. \A j \in DOMAIN s2.new : s2.new[j].key \in MarkedKeys(l, n + 1)
    BY <1>5, <1>7 DEF Staged
  <2> QED BY <1>5, <2>1, <2>2 DEF Staged
<1>9. Key(m) \notin cl => Key(m) \notin MarkedKeys(l, n)
  <2> SUFFICES ASSUME NEW i \in Marked(l, n), Key(l[i]) = Key(m)
               PROVE  Key(m) \in cl
    BY DEF MarkedKeys
  <2>1. i # n + 1 /\ i \in Known(l)
    BY <1>7 DEF Marked
  <2> QED BY <1>7, <2>1, RepeatedKey DEF m
<1>10. Kept(t, l, n + 1, s2, cl)
  <2> SUFFICES ASSUME NEW i \in Marked(l, n + 1)
               PROVE  l[i].date \in Dates /\ (Key(l[i]) \notin cl => StoredAs(t, s2, l[i]))
    BY DEF Kept
  <2>1. CASE i = n + 1
    <3>1. ASSUME Key(m) \notin cl PROVE StoredAs(t, s2, m)
      <4>1. NewOf(s, Key(m)) = {}
        BY <1>9, <3>1 DEF Staged, NewOf
      <4>2. \A u \in s.dirty : u.row # r
        BY <1>4, <1>9, <3>1 DEF Staged
      <4>3. [row |-> r, read |-> t[r].cols, now |-> Cols(m)] \in s2.dirty
        BY <1>5, <4>2
      <4> QED BY <1>3, <1>6, <4>1, <4>3 DEF StoredAs, m
    <3> QED BY <2>1, <3>1 DEF m
  <2>2. CASE i # n + 1
    <3>1. i \in Marked(l, n) /\ i \in Known(l)
      BY <1>7, <2>2 DEF Marked
    <3>2. l[i].date \in Dates /\ (Key(l[i]) \notin cl => StoredAs(t, s, l[i]))
      BY <3>1 DEF Kept
    <3>3. ASSUME Key(l[i]) \notin cl PROVE StoredAs(t, s2, l[i])
      <4>1. Key(l[i]) # Key(m)
        BY <1>7, <2>2, <3>1, <3>3, RepeatedKey DEF m
      <4>2. CASE RowsOf(t, Key(l[i])) = {}
        BY <1>5, <1>6, <3>2, <3>3, <4>2 DEF StoredAs
      <4>3. CASE RowsOf(t, Key(l[i])) # {}
        <5> DEFINE q == FirstRow(t, Key(l[i]))
                   e == [row |-> q, read |-> t[q].cols, now |-> Cols(l[i])]
        <5>1. t[q].key = Key(l[i])
          BY <1>2, <4>3, FirstRowIsLeast DEF RowsOf
        <5>2. e \in s.dirty /\ e.row = q /\ NewOf(s, Key(l[i])) = {}
          BY <3>2, <3>3, <4>3 DEF StoredAs
        <5>3. q # r
          BY <1>4, <4>1, <5>1
        <5>4. e \in s2.dirty
          <6> HIDE DEF e, q, r
          <6> QED BY <1>5, <5>2, <5>3
        <5> QED BY <1>6, <4>3, <5>2, <5>4 DEF StoredAs
      <4> QED BY <4>2, <4>3
    <3> QED BY <3>2, <3>3
  <2> QED BY <2>1, <2>2
<1> QED BY <1>5, <1>6, <1>8, <1>10 DEF m, s2
-----------------------------------------------------------------------------
\* A commit leaves the rows of the keys it has no mark for alone.
LEMMA FlushLeaves ==
  ASSUME NEW t \in Seq(Row), NEW s \in Session, NEW l, NEW n, Staged(t, l, n, s),
         NEW k, k \notin MarkedKeys(l, n)
  PROVE  LET t2 == Flush(t, s)
         IN  RowsOf(t2, k) = RowsOf(t, k) /\ \A i \in RowsOf(t, k) : t2[i] = t[i]
<1> DEFINE t2 == Flush(t, s)
<1>1. NewOf(s, k) = {}
  BY DEF NewOf, Staged
<1>2. \A i \in RowsOf(t, k) : \A u \in s.dirty : u.row # i
  BY DEF RowsOf, Staged
<1>3. t \in Seq(RowSet(Keys, Columns)) /\ s \in SessionSet(Keys, Columns)
  BY DEF Row, Session
<1>4. RowsOf(t2, k) = RowsOf(t, k) \cup {Len(t) + j : j \in NewOf(s, k)}
  BY <1>3, ColumnsClosed, RowsOfFlush
<1>5. \A i \in 1 .. Len(t) : (\A u \in s.dirty : u.row # i) => t2[i] = t[i]
  <2>1. \A i \in 1 .. Len(t) : /\ t2[i].key = t[i].key
                               /\ (\A u \in s.dirty : u.row # i) => t2[i] = t[i]
                               /\ OneChangeEach(s) => \A u \in s.dirty : u.row = i =>
                                    t2[i].cols = Updated(t[i].cols, u)
    BY <1>3, ColumnsClosed, FlushProperties
  <2> HIDE DEF t2
  <2> QED BY <2>1
<1>6. RowsOf(t, k) \in SUBSET (1 .. Len(t))
  BY DEF RowsOf
<1> HIDE DEF t2
<1>7. RowsOf(t2, k) = RowsOf(t, k)
  BY <1>1, <1>4
<1>8. \A i \in RowsOf(t, k) : t2[i] = t[i]
  BY <1>2, <1>5, <1>6
<1> QED BY <1>7, <1>8 DEF t2

\* A commit of another session, with no mark in common but those in cl, leaves what
\* a session holds as it is.
LEMMA FlushOfAnother ==
  ASSUME NEW t \in Seq(Row), NEW s \in Session, NEW l, NEW n, NEW cl,
         Staged(t, l, n, s), Kept(t, l, n, s, cl),
         NEW os \in Session, NEW ol, NEW on, Staged(t, ol, on, os),
         MarkedKeys(l, n) \cap MarkedKeys(ol, on) \subseteq cl
  PROVE  LET t2 == Flush(t, os)
         IN  Staged(t2, l, n, s) /\ Kept(t2, l, n, s, cl)
<1> DEFINE t2 == Flush(t, os)
<1>1. t \in Seq(RowSet(Keys, Columns)) /\ os \in SessionSet(Keys, Columns)
  BY DEF Row, Session
<1>2. /\ Len(t) \in Nat /\ Len(os.new) \in Nat /\ DOMAIN t2 = 1 .. Len(t) + Len(os.new)
      /\ \A i \in 1 .. Len(t) : t2[i].key = t[i].key
  BY <1>1, ColumnsClosed, FlushProperties
<1>3. \A k : RowsOf(t, k) # {} => FirstRow(t2, k) = FirstRow(t, k)
  BY <1>1, ColumnsClosed, RowsOfFlush
<1>4. \A k : k \notin MarkedKeys(ol, on) => /\ RowsOf(t2, k) = RowsOf(t, k)
                                            /\ \A i \in RowsOf(t, k) : t2[i] = t[i]
  BY FlushLeaves
<1>5. DOMAIN t = 1 .. Len(t) /\ DOMAIN t \in SUBSET Nat
  OBVIOUS
<1> HIDE DEF t2
<1>6. Staged(t2, l, n, s)
  <2>1. \A u \in s.dirty : /\ u.row \in DOMAIN t2 /\ u.row = FirstRow(t2, t2[u.row].key)
                           /\ t2[u.row].key \in MarkedKeys(l, n)
    <3> SUFFICES ASSUME NEW u \in s.dirty
                 PROVE  /\ u.row \in DOMAIN t2 /\ u.row = FirstRow(t2, t2[u.row].key)
                        /\ t2[u.row].key \in MarkedKeys(l, n)
      OBVIOUS
    <3>1. /\ u.row \in DOMAIN t /\ u.row = FirstRow(t, t[u.row].key)
          /\ t[u.row].key \in MarkedKeys(l, n)
      BY DEF Staged
    <3>2. u.row \in DOMAIN t2 /\ t2[u.row].key = t[u.row].key
      BY <1>2, <1>5, <3>1
    <3>3. RowsOf(t, t[u.row].key) # {}
      BY <3>1 DEF RowsOf
    <3>4. FirstRow(t2, t[u.row].key) = FirstRow(t, t[u.row].key)
      BY <1>3, <3>3
    <3> QED BY <3>1, <3>2, <3>4
  <2> QED BY <2>1 DEF Staged
<1>7. Kept(t2, l, n, s, cl)
  <2> SUFFICES ASSUME NEW i \in Marked(l, n), Key(l[i]) \notin cl
               PROVE  StoredAs(t2, s, l[i])
    BY DEF Kept
  <2> DEFINE k == Key(l[i])
  <2>1. k \notin MarkedKeys(ol, on)
    BY DEF MarkedKeys
  <2>2. StoredAs(t, s, l[i])
    BY DEF Kept
  <2> HIDE DEF k
  <2>3. RowsOf(t2, k) = RowsOf(t, k) /\ \A h \in RowsOf(t, k) : t2[h] = t[h]
    BY <1>4, <2>1
  <2>4. CASE RowsOf(t, k) = {}
    BY <2>2, <2>3, <2>4 DEF StoredAs, k
  <2>5. CASE RowsOf(t, k) # {}
    <3>1. FirstRow(t2, k) = FirstRow(t, k) /\ FirstRow(t, k) \in RowsOf(t, k)
      BY <1>3, <1>5, <2>5, FirstRowIsLeast
    <3>2. t2[FirstRow(t2, k)] = t[FirstRow(t, k)]
      BY <2>3, <3>1
    <3>3. /\ NewOf(s, k) = {}
          /\ [row |-> FirstRow(t, k), read |-> t[FirstRow(t, k)].cols, now |-> Cols(l[i])] \in s.dirty
      BY <2>2, <2>5 DEF StoredAs, k
    <3> QED BY <2>3, <2>5, <3>1, <3>2, <3>3 DEF StoredAs, k
  <2> QED BY <2>4, <2>5
<1> QED BY <1>6, <1>7 DEF t2

\* No key has a second row.
AtMostOne(t, k) == \A i, j \in RowsOf(t, k) : i = j

\* After the commit of a session the first row of each of its marks has the status
\* of the mark, and is the only one if there was one at most.
LEMMA FlushStores ==
  ASSUME NEW t \in Seq(Row), NEW s \in Session, NEW l \in Seq(Mark), NEW n, NEW cl,
         Staged(t, l, n, s), Kept(t, l, n, s, cl),
         NEW i \in Marked(l, n), Key(l[i]) \notin cl
  PROVE  LET t2 == Flush(t, s)
             k == Key(l[i])
         IN  /\ RowsOf(t2, k) # {} /\ t2[FirstRow(t2, k)].cols = Cols(l[i])
             /\ AtMostOne(t, k) => AtMostOne(t2, k)
<1> DEFINE t2 == Flush(t, s)
           k == Key(l[i])
<1>1. t \in Seq(RowSet(Keys, Columns)) /\ s \in SessionSet(Keys, Columns)
  BY DEF Row, Session
<1>2. /\ t2 \in Seq(Row) /\ Len(t) \in Nat /\ Len(s.new) \in Nat
      /\ \A h \in 1 .. Len(t) : \A u \in s.dirty : u.row = h => t2[h].cols = Updated(t[h].cols, u)
      /\ \A j \in 1 .. Len(s.new) : t2[Len(t) + j] = s.new[j]
  <2>1. OneChangeEach(s)
    BY DEF Staged
  <2>2. /\ t2 \in Seq(RowSet(Keys, Columns)) /\ Len(t) \in Nat /\ Len(s.new) \in Nat
        /\ \A h \in 1 .. Len(t) : /\ t2[h].key = t[h].key
                                  /\ (\A u \in s.dirty : u.row # h) => t2[h] = t[h]
                                  /\ OneChangeEach(s) => \A u \in s.dirty : u.row = h =>
                                       t2[h].cols = Updated(t[h].cols, u)
        /\ \A j \in 1 .. Len(s.new) : t2[Len(t) + j] = s.new[j]
    BY <1>1, ColumnsClosed, FlushProperties
  <2> HIDE DEF t2
  <2> QED BY <2>1, <2>2 DEF Row
<1>3. /\ RowsOf(t2, k) = RowsOf(t, k) \cup {Len(t) + j : j \in NewOf(s, k)}
      /\ RowsOf(t, k) # {} => FirstRow(t2, k) = FirstRow(t, k)
  BY <1>1, ColumnsClosed, RowsOfFlush
<1>4. DOMAIN t \in SUBSET Nat /\ DOMAIN t2 \in SUBSET Nat
  <2> HIDE DEF t2
  <2> QED BY <1>2
<1>5. StoredAs(t, s, l[i]) /\ Cols(l[i]) \in Columns
  <2>1. l[i].date \in Dates /\ StoredAs(t, s, l[i])
    BY DEF Kept
  <2>2. l[i] \in Mark /\ l[i].usn \in Enrolled
    BY ListFacts DEF Marked, Known
  <2> QED BY <2>1, <2>2, MarkFacts
<1> HIDE DEF t2, k
<1>6. CASE RowsOf(t, k) = {}
  <2>1. PICK j \in DOMAIN s.new : /\ NewOf(s, k) = {j}
                                  /\ s.new[j] = [key |-> k, cols |-> Cols(l[i])]
    BY <1>5, <1>6 DEF StoredAs, k
  <2>2. RowsOf(t2, k) = {Len(t) + j}
    BY <1>3, <1>6, <2>1
  <2>3. FirstRow(t2, k) = Len(t) + j
    BY <1>4, <2>2, FirstRowIsLeast
  <2>4. j \in 1 .. Len(s.new)
    <3>1. s.new \in Seq(RowSet(Keys, Columns))
      BY <1>1 DEF SessionSet
    <3> QED BY <3>1
  <2>5. t2[Len(t) + j] = [key |-> k, cols |-> Cols(l[i])]
    BY <1>2, <2>1, <2>4
  <2>6. t2[FirstRow(t2, k)].cols = Cols(l[i])
    BY <2>3, <2>5
  <2>7. RowsOf(t2, k) # {} /\ AtMostOne(t2, k)
    BY <2>2 DEF AtMostOne
  <2> QED BY <2>6, <2>7 DEF t2, k
<1>7. CASE RowsOf(t, k) # {}
  <2> DEFINE r == FirstRow(t, k)
             u == [row |-> r, read |-> t[r].cols, now |-> Cols(l[i])]
  <2>1. r \in RowsOf(t, k)
    BY <1>4, <1>7, FirstRowIsLeast
  <2>2. u \in s.dirty /\ NewOf(s, k) = {}
    BY <1>5, <1>7 DEF StoredAs, k
  <2>3. u.row = r /\ u.read = t[r].cols /\ u.now = Cols(l[i])
    OBVIOUS
  <2>4. r \in 1 .. Len(t) /\ t[r].cols \in Columns
    <3>1. r \in 1 .. Len(t) /\ t[r] \in Row
      <4> HIDE DEF r
      <4> QED BY <1>2, <2>1 DEF RowsOf
    <3> QED BY <3>1 DEF Row, RowSet
  <2>5. u \in Change
    BY <1>1, <2>2 DEF SessionSet, Change
  <2> HIDE DEF u, r
  <2>6. t2[r].cols = Updated(t[r].cols, u)
    BY <1>2, <2>2, <2>3, <2>4
  <2>7. Updated(t[r].cols, u) = Cols(l[i])
    BY <2>3, <2>4, <2>5, UpdatedStatus
  <2>8. FirstRow(t2, k) = r /\ RowsOf(t2, k) = RowsOf(t, k)
    BY <1>3, <1>7, <2>2 DEF r
  <2>9. AtMostOne(t, k) => AtMostOne(t2, k)
    BY <2>8 DEF AtMostOne
  <2> QED BY <1>7, <2>6, <2>7, <2>8, <2>9 DEF t2, k
<1> QED BY <1>6, <1>7
-----------------------------------------------------------------------------
\* How often a list marks a key, how often among its first n marks.
Repeats(l, k) == Cardinality({i \in Known(l) : Key(l[i]) = k})
MarksOf(l, n, k) == {i \in Marked(l, n) : Key(l[i]) = k}

\* A session adds no more rows of a key than it has met marks of it.
Counted(l, n, s) == \A k : Cardinality(NewOf(s, k)) <= Cardinality(MarksOf(l, n, k))

\* The requests that are about to add a row of key k.
Adders(ss, k) == {c \in Clients : NewOf(ss[c], k) # {}}

\* From the first row of a key on, the rows there are and those under way are no
\* more than every client's most: who has not missed the first row adds none.
Bounded(t, ss, k) ==
  RowsOf(t, k) # {} =>
    \E l \in Lists :
      /\ \A c \in Clients : Cardinality(NewOf(ss[c], k)) <= Repeats(l, k)
      /\ Cardinality(RowsOf(t, k)) + Cardinality(Adders(ss, k)) * Repeats(l, k)
           <= Cardinality(Clients) * Repeats(l, k)

\* Everything that is counted is finite.
LEMMA FiniteSets ==
  /\ \A l \in Seq(Mark) : \A k, n : /\ IsFiniteSet(MarksOf(l, n, k))
                                       /\ Cardinality(MarksOf(l, n, k)) \in Nat
                                       /\ Cardinality(MarksOf(l, n, k)) <= Repeats(l, k)
                                       /\ Repeats(l, k) \in Nat
  /\ \A s \in Session : \A k : IsFiniteSet(NewOf(s, k)) /\ Cardinality(NewOf(s, k)) \in Nat
  /\ \A t \in Seq(Row) : \A k : IsFiniteSet(RowsOf(t, k)) /\ Cardinality(RowsOf(t, k)) \in Nat
  /\ \A ss, k : IsFiniteSet(Adders(ss, k)) /\ Cardinality(Adders(ss, k)) \in Nat
  /\ Cardinality(Clients) \in Nat
<1>1. ASSUME NEW l \in Seq(Mark), NEW k, NEW n
      PROVE  /\ IsFiniteSet(MarksOf(l, n, k)) /\ Cardinality(MarksOf(l, n, k)) \in Nat
             /\ Cardinality(MarksOf(l, n, k)) <= Repeats(l, k) /\ Repeats(l, k) \in Nat
  <2> DEFINE all == {i \in Known(l) : Key(l[i]) = k}
  <2>1. Len(l) \in Nat /\ all \in SUBSET (1 .. Len(l))
    BY ListFacts
  <2>2. MarksOf(l, n, k) \in SUBSET all
    BY DEF MarksOf, Marked
  <2> HIDE DEF all
  <2>3. IsFiniteSet(1 .. Len(l))
    BY <2>1, FS_Interval
  <2>4. IsFiniteSet(all)
    BY <2>1, <2>3, FS_Subset
  <2>5. IsFiniteSet(MarksOf(l, n, k)) /\ Cardinality(MarksOf(l, n, k)) <= Cardinality(all)
    BY <2>2, <2>4, FS_Subset
  <2>6. Cardinality(MarksOf(l, n, k)) \in Nat /\ Cardinality(all) \in Nat
    BY <2>4, <2>5, FS_CardinalityType
  <2> QED BY <2>5, <2>6 DEF Repeats, all
<1>2. ASSUME NEW s \in Session, NEW k
      PROVE  IsFiniteSet(NewOf(s, k)) /\ Cardinality(NewOf(s, k)) \in Nat
  <2>1. s.new \in Seq(RowSet(Keys, Columns))
    BY DEF Session, SessionSet
  <2>2. NewOf(s, k) \in SUBSET (1 .. Len(s.new)) /\ Len(s.new) \in Nat
    BY <2>1 DEF NewOf
  <2>3. IsFiniteSet(1 .. Len(s.new))
    BY <2>2, FS_Interval
  <2>4. IsFiniteSet(NewOf(s, k))
    BY <2>2, <2>3, FS_Subset
  <2> QED BY <2>4, FS_CardinalityType
<1>3. ASSUME NEW t \in Seq(Row), NEW k
      PROVE  IsFiniteSet(RowsOf(t, k)) /\ Cardinality(RowsOf(t, k)) \in Nat
  <2>2. RowsOf(t, k) \in SUBSET (1 .. Len(t)) /\ Len(t) \in Nat
    BY DEF RowsOf
  <2>3. IsFiniteSet(1 .. Len(t))
    BY <2>2, FS_Interval
  <2>4. IsFiniteSet(RowsOf(t, k))
    BY <2>2, <2>3, FS_Subset
  <2> QED BY <2>4, FS_CardinalityType
<1>4. ASSUME NEW ss, NEW k
      PROVE  IsFiniteSet(Adders(ss, k)) /\ Cardinality(Adders(ss, k)) \in Nat
  <2>1. Adders(ss, k) \in SUBSET Clients
    BY DEF Adders
  <2>2. IsFiniteSet(Adders(ss, k))
    BY <2>1, ClientsAssumption, FS_Subset
  <2> QED BY <2>2, FS_CardinalityType
<1>5. Cardinality(Clients) \in Nat
  BY ClientsAssumption, FS_CardinalityType
<1> QED BY <1>1, <1>2, <1>3, <1>4, <1>5

\* Of finitely many clients one has the most.
LEMMA OneHasTheMost ==
  ASSUME NEW S, IsFiniteSet(S), S # {}, NEW f \in [S -> Nat]
  PROVE  \E c \in S : \A d \in S : f[d] <= f[c]
<1> DEFINE Above(c) == {d \in S : f[d] > f[c]}
           N == {Cardinality(Above(c)) : c \in S}
<1>1. \A c \in S : IsFiniteSet(Above(c)) /\ Cardinality(Above(c)) \in Nat
  <2> SUFFICES ASSUME NEW c \in S
               PROVE  IsFiniteSet(Above(c)) /\ Cardinality(Above(c)) \in Nat
    OBVIOUS
  <2>1. Above(c) \in SUBSET S
    OBVIOUS
  <2> HIDE DEF Above
  <2>2. IsFiniteSet(Above(c))
    BY <2>1, FS_Subset
  <2> QED BY <2>2, FS_CardinalityType
<1>2. N \in SUBSET Nat /\ N # {}
  <2> HIDE DEF Above
  <2> QED BY <1>1
<1>3. \E x \in N : \A y \in N : x <= y
  <2> HIDE DEF N
  <2> QED BY <1>2, LeastId
<1>4. PICK c \in S : \A d \in S : Cardinality(Above(c)) <= Cardinality(Above(d))
  <2> HIDE DEF Above
  <2> QED BY <1>3
<1>5. ASSUME NEW d \in S, f[d] > f[c] PROVE FALSE
  <2>1. Above(d) \in SUBSET Above(c)
    BY <1>5
  <2>2. d \in Above(c) /\ d \notin Above(d)
    BY <1>5
  <2> HIDE DEF Above
  <2>3. /\ Cardinality(Above(d)) <= Cardinality(Above(c))
        /\ Cardinality(Above(c)) = Cardinality(Above(d)) => Above(c) = Above(d)
    BY <1>1, <2>1, FS_Subset
  <2> QED BY <1>1, <1>4, <2>2, <2>3
<1>6. \A d \in S : f[d] \in Nat /\ f[c] \in Nat
  OBVIOUS
<1> QED BY <1>5, <1>6

\* A mark that is looked up is counted, whether or not it adds a row.
LEMMA MarkCounted ==
  ASSUME NEW l \in Seq(Mark), NEW n \in Nat, n < Len(l), l[n + 1].usn \in Enrolled,
         NEW s \in Session, Counted(l, n, s), NEW s2 \in Session, NEW x,
         \A k : k # Key(l[n + 1]) => NewOf(s2, k) = NewOf(s, k),
         \/ NewOf(s2, Key(l[n + 1])) = NewOf(s, Key(l[n + 1]))
         \/ NewOf(s2, Key(l[n + 1])) = NewOf(s, Key(l[n + 1])) \cup {x}
  PROVE  Counted(l, n + 1, s2)
<1> SUFFICES ASSUME NEW k
             PROVE  Cardinality(NewOf(s2, k)) <= Cardinality(MarksOf(l, n + 1, k))
  BY DEF Counted
<1>1. Cardinality(NewOf(s, k)) <= Cardinality(MarksOf(l, n, k))
  BY DEF Counted
<1>2. /\ IsFiniteSet(MarksOf(l, n, k)) /\ Cardinality(MarksOf(l, n, k)) \in Nat
      /\ IsFiniteSet(NewOf(s, k)) /\ Cardinality(NewOf(s, k)) \in Nat
  BY FiniteSets
<1>3. Marked(l, n + 1) = Marked(l, n) \cup {n + 1} /\ n + 1 \notin Marked(l, n)
  BY MarkedNext
<1>4. CASE k # Key(l[n + 1])
  <2>1. \A i : i \in MarksOf(l, n + 1, k) <=> i \in MarksOf(l, n, k)
    BY <1>3, <1>4 DEF MarksOf
  <2>2. MarksOf(l, n + 1, k) = MarksOf(l, n, k)
    BY <2>1
  <2> QED BY <1>1, <1>4, <2>2
<1>5. CASE k = Key(l[n + 1])
  <2>1. \A i : i \in MarksOf(l, n + 1, k) <=> i \in MarksOf(l, n, k) \/ i = n + 1
    BY <1>3, <1>5 DEF MarksOf
  <2>2. MarksOf(l, n + 1, k) = MarksOf(l, n, k) \cup {n + 1} /\ n + 1 \notin MarksOf(l, n, k)
    BY <1>3, <2>1 DEF MarksOf
  <2>3. Cardinality(MarksOf(l, n, k) \cup {n + 1}) = Cardinality(MarksOf(l, n, k)) + 1
    BY <1>2, <2>2, FS_AddElement
  <2>4. Cardinality(MarksOf(l, n + 1, k)) = Cardinality(MarksOf(l, n, k)) + 1
    BY <2>2, <2>3, Zenon
  <2>5. Cardinality(NewOf(s, k) \cup {x}) <= Cardinality(NewOf(s, k)) + 1
    <3>1. CASE x \in NewOf(s, k)
      <4>1. NewOf(s, k) \cup {x} = NewOf(s, k)
        BY <3>1
      <4>2. Cardinality(NewOf(s, k) \cup {x}) = Cardinality(NewOf(s, k))
        BY <4>1, Zenon
      <4> QED BY <1>2, <4>2
    <3>2. CASE x \notin NewOf(s, k)
      <4>1. Cardinality(NewOf(s, k) \cup {x}) = Cardinality(NewOf(s, k)) + 1
        BY <1>2, <3>2, FS_AddElement
      <4> QED BY <1>2, <4>1
    <3> QED BY <3>1, <3>2
  <2>6. NewOf(s2, k) = NewOf(s, k) \/ NewOf(s2, k) = NewOf(s, k) \cup {x}
    BY <1>5
  <2>7. CASE NewOf(s2, k) = NewOf(s, k)
    <3>1. Cardinality(NewOf(s2, k)) = Cardinality(NewOf(s, k))
      BY <2>7, Zenon
    <3> QED BY <1>1, <1>2, <2>4, <3>1
  <2>8. CASE NewOf(s2, k) = NewOf(s, k) \cup {x}
    <3>1. Cardinality(NewOf(s2, k)) = Cardinality(NewOf(s, k) \cup {x})
      BY <2>8, Zenon
    <3>2. IsFiniteSet(NewOf(s, k) \cup {x})
      BY <1>2, FS_AddElement
    <3>3. Cardinality(NewOf(s, k) \cup {x}) \in Nat
      BY <3>2, FS_CardinalityType
    <3> QED BY <1>1, <1>2, <2>4, <2>5, <3>1, <3>3
  <2> QED BY <2>6, <2>7, <2>8
<1> QED BY <1>4, <1>5

\* The products of the bound, for solvers that multiply constants only.
LEMMA ProductSteps ==
  \A a, b, r \in Nat : /\ a <= b => a * r <= b * r
                       /\ (a + 1) * r = a * r + r /\ a * r \in Nat
OBVIOUS

\* Sessions that drop what they hold keep the bound.
LEMMA BoundShrinks ==
  ASSUME NEW t \in Seq(Row), NEW ss \in [Clients -> Session], NEW ss2 \in [Clients -> Session],
         NEW k, \A c \in Clients : ss2[c] = ss[c] \/ NewOf(ss2[c], k) = {} \/ NewOf(ss2[c], k) = NewOf(ss[c], k),
         Bounded(t, ss, k)
  PROVE  Bounded(t, ss2, k)
<1> SUFFICES ASSUME RowsOf(t, k) # {}
             PROVE  \E l \in Lists :
                      /\ \A c \in Clients : Cardinality(NewOf(ss2[c], k)) <= Repeats(l, k)
                      /\ Cardinality(RowsOf(t, k)) + Cardinality(Adders(ss2, k)) * Repeats(l, k)
                           <= Cardinality(Clients) * Repeats(l, k)
  BY DEF Bounded
<1>1. PICK l \in Lists :
        /\ \A c \in Clients : Cardinality(NewOf(ss[c], k)) <= Repeats(l, k)
        /\ Cardinality(RowsOf(t, k)) + Cardinality(Adders(ss, k)) * Repeats(l, k)
             <= Cardinality(Clients) * Repeats(l, k)
  BY DEF Bounded
<1>2. l \in Seq(Mark) /\ Repeats(l, k) \in Nat
  BY ListsAssumption, FiniteSets
<1>3. \A c \in Clients : Cardinality(NewOf(ss2[c], k)) <= Repeats(l, k)
  <2> SUFFICES ASSUME NEW c \in Clients
               PROVE  Cardinality(NewOf(ss2[c], k)) <= Repeats(l, k)
    OBVIOUS
  <2>1. Cardinality({}) = 0
    BY FS_EmptySet
  <2>2. Cardinality(NewOf(ss[c], k)) <= Repeats(l, k)
    BY <1>1
  <2>3. CASE NewOf(ss2[c], k) = {}
    <3>1. Cardinality(NewOf(ss2[c], k)) = 0
      BY <2>1, <2>3, Zenon
    <3> QED BY <1>2, <3>1
  <2>4. CASE NewOf(ss2[c], k) = NewOf(ss[c], k)
    <3>1. Cardinality(NewOf(ss2[c], k)) = Cardinality(NewOf(ss[c], k))
      BY <2>4, Zenon
    <3> QED BY <2>2, <3>1
  <2>5. ss2[c] = ss[c] => NewOf(ss2[c], k) = NewOf(ss[c], k)
    BY Zenon
  <2> QED BY <2>3, <2>4, <2>5
<1>4. Adders(ss2, k) \in SUBSET Adders(ss, k)
  BY DEF Adders
<1>5. Cardinality(Adders(ss2, k)) <= Cardinality(Adders(ss, k))
  BY <1>4, FiniteSets, FS_Subset
<1> DEFINE a2 == Cardinality(Adders(ss2, k))
           a == Cardinality(Adders(ss, k))
           r == Repeats(l, k)
           q == Cardinality(RowsOf(t, k))
           n == Cardinality(Clients)
<1>6. a2 \in Nat /\ a \in Nat /\ r \in Nat /\ q \in Nat /\ n \in Nat
  BY <1>2, FiniteSets
<1>7. a2 <= a /\ q + a * r <= n * r
  BY <1>1, <1>5
<1> HIDE DEF a2, a, r, q, n
<1>8. a2 * r <= a * r /\ a2 * r \in Nat /\ a * r \in Nat /\ n * r \in Nat
  BY <1>6, <1>7, ProductSteps
<1>9. q + a2 * r <= n * r
  BY <1>6, <1>7, <1>8
<1> QED BY <1>3, <1>9 DEF a2, a, r, q, n

\* A commit turns the rows a session adds into rows of the table.
LEMMA BoundCommitted ==
  ASSUME NEW t \in Seq(Row), NEW ss \in [Clients -> Session], NEW ss2 \in [Clients -> Session],
         NEW c \in Clients, NEW k, NEW ls \in [Clients -> Lists \cup {<< >>}],
         \A d \in Clients : Cardinality(NewOf(ss[d], k)) <= Repeats(ls[d], k),
         \A d \in Clients : NewOf(ss[d], k) # {} => ls[d] \in Lists,
         \A d \in Clients \ {c} : ss2[d] = ss[d], NewOf(ss2[c], k) = {},
         Bounded(t, ss, k)
  PROVE  Bounded(Flush(t, ss[c]), ss2, k)
<1> DEFINE t2 == Flush(t, ss[c])
<1>1. t \in Seq(RowSet(Keys, Columns)) /\ ss[c] \in SessionSet(Keys, Columns)
  BY DEF Row, Session
<1>2. /\ RowsOf(t2, k) = RowsOf(t, k) \cup {Len(t) + j : j \in NewOf(ss[c], k)}
      /\ Cardinality(RowsOf(t2, k)) = Cardinality(RowsOf(t, k)) + Cardinality(NewOf(ss[c], k))
  BY <1>1, ColumnsClosed, RowsOfFlush
<1> HIDE DEF t2
<1> SUFFICES ASSUME RowsOf(t2, k) # {} PROVE Bounded(t2, ss2, k)
  BY DEF Bounded, t2
<1>3. CASE NewOf(ss[c], k) = {}
  <2>1. RowsOf(t2, k) = RowsOf(t, k)
    BY <1>2, <1>3
  <2>2. Bounded(t, ss2, k)
    BY BoundShrinks
  <2> QED BY <2>1, <2>2 DEF Bounded
<1>4. CASE NewOf(ss[c], k) # {}
  <2> DEFINE A == Adders(ss, k)
             A2 == Adders(ss2, k)
  <2>1. c \in A /\ A2 = A \ {c}
    <3>1. \A d \in Clients : d \in A2 <=> d \in A /\ d # c
      BY DEF Adders
    <3>2. A2 \subseteq Clients /\ A \subseteq Clients
      BY DEF Adders
    <3>3. c \in A
      BY <1>4 DEF Adders
    <3> QED BY <3>1, <3>2, <3>3
  <2>2. IsFiniteSet(A) /\ Cardinality(A) \in Nat /\ A \in SUBSET Clients
    <3>1. A \in SUBSET Clients
      BY DEF Adders
    <3> HIDE DEF A2
    <3> QED BY <3>1, FiniteSets
  <2>3. Cardinality(A2) = Cardinality(A) - 1 /\ Cardinality(A2) \in Nat
    <3>1. Cardinality(A2) \in Nat
      BY FiniteSets
    <3> HIDE DEF A, A2
    <3>2. Cardinality(A \ {c}) = Cardinality(A) - 1
      BY <2>1, <2>2, FS_RemoveElement
    <3> QED BY <2>1, <3>1, <3>2
  <2>4. Cardinality(A) <= Cardinality(Clients)
    BY <2>2, ClientsAssumption, FS_Subset
  <2>5. \E l \in Lists :
          /\ \A d \in Clients : Cardinality(NewOf(ss[d], k)) <= Repeats(l, k)
          /\ Cardinality(RowsOf(t, k)) + Cardinality(A) * Repeats(l, k)
               <= Cardinality(Clients) * Repeats(l, k)
    <3>1. CASE RowsOf(t, k) # {}
      BY <3>1 DEF Bounded
    <3>2. CASE RowsOf(t, k) = {}
      <4> DEFINE f == [d \in A |-> Repeats(ls[d], k)]
      <4>1. \A d \in A : ls[d] \in Lists /\ Repeats(ls[d], k) \in Nat
        <5>1. \A d \in A : d \in Clients /\ ls[d] \in Lists
          BY DEF Adders
        <5>2. \A l \in Lists : Repeats(l, k) \in Nat
          BY ListsAssumption, FiniteSets
        <5> QED BY <5>1, <5>2
      <4> HIDE DEF A
      <4>2. f \in [A -> Nat]
        BY <4>1
      <4>3. \E m \in A : \A d \in A : f[d] <= f[m]
        <5> HIDE DEF f
        <5> QED BY <2>1, <2>2, <4>2, OneHasTheMost
      <4>4. PICK m \in A : \A d \in A : Repeats(ls[d], k) <= Repeats(ls[m], k)
        BY <4>3
      <4>5. \A d \in Clients : Cardinality(NewOf(ss[d], k)) <= Repeats(ls[m], k)
        <5> SUFFICES ASSUME NEW d \in Clients
                     PROVE  Cardinality(NewOf(ss[d], k)) <= Repeats(ls[m], k)
          OBVIOUS
        <5>1. Repeats(ls[m], k) \in Nat /\ Cardinality(NewOf(ss[d], k)) \in Nat
          BY <4>1, FiniteSets
        <5>2. CASE NewOf(ss[d], k) = {}
          <6>1. Cardinality(NewOf(ss[d], k)) = 0
            BY <5>2, FS_EmptySet
          <6> QED BY <5>1, <6>1
        <5>3. CASE NewOf(ss[d], k) # {}
          <6>1. d \in A
            BY <5>3 DEF A, Adders
          <6>2. Cardinality(NewOf(ss[d], k)) <= Repeats(ls[d], k) /\ Repeats(ls[d], k) <= Repeats(ls[m], k)
            BY <4>4, <6>1
          <6> QED BY <4>1, <5>1, <6>1, <6>2
        <5> QED BY <5>2, <5>3
      <4>6. Cardinality(RowsOf(t, k)) = 0
        BY <3>2, FS_EmptySet
      <4>7. Cardinality(A) * Repeats(ls[m], k) <= Cardinality(Clients) * Repeats(ls[m], k)
        BY <2>2, <2>4, <4>1, FiniteSets, ProductSteps
      <4>8. Cardinality(A) * Repeats(ls[m], k) \in Nat
        BY <2>2, <4>1, ProductSteps
      <4>9. 0 + Cardinality(A) * Repeats(ls[m], k) <= Cardinality(Clients) * Repeats(ls[m], k)
        BY <4>7, <4>8
      <4> QED BY <4>1, <4>5, <4>6, <4>9
    <3> QED BY <3>1, <3>2
  <2>6. PICK l \in Lists :
          /\ \A d \in Clients : Cardinality(NewOf(ss[d], k)) <= Repeats(l, k)
          /\ Cardinality(RowsOf(t, k)) + Cardinality(A) * Repeats(l, k)
               <= Cardinality(Clients) * Repeats(l, k)
    BY <2>5
  <2>7. Repeats(l, k) \in Nat
    BY ListsAssumption, FiniteSets
  <2>8. \A d \in Clients : Cardinality(NewOf(ss2[d], k)) <= Repeats(l, k)
    <3>1. Cardinality({}) = 0
      BY FS_EmptySet
    <3>2. Cardinality(NewOf(ss2[c], k)) <= Repeats(l, k)
      BY <2>7, <3>1
    <3> QED BY <2>6, <3>2
  <2> DEFINE a2 == Cardinality(A2)
             r == Repeats(l, k)
             q == Cardinality(RowsOf(t, k))
             q2 == Cardinality(RowsOf(t2, k))
             p == Cardinality(NewOf(ss[c], k))
             n == Cardinality(Clients)
  <2>9. a2 \in Nat /\ r \in Nat /\ q \in Nat /\ p \in Nat /\ n \in Nat /\ q2 = q + p /\ p <= r
    BY <1>2, <2>3, <2>6, <2>7, FiniteSets
  <2>10. q + (a2 + 1) * r <= n * r
    <3>1. a2 + 1 = Cardinality(A)
      BY <2>2, <2>3
    <3> QED BY <2>6, <3>1
  <2> HIDE DEF a2, r, q, q2, p, n, A, A2
  <2>11. (a2 + 1) * r = a2 * r + r /\ a2 * r \in Nat /\ n * r \in Nat
    BY <2>9, ProductSteps
  <2>12. q2 + a2 * r <= n * r
    BY <2>9, <2>10, <2>11
  <2> QED BY <2>8, <2>12 DEF Bounded, a2, r, q2, n, A2
<1> QED BY <1>3, <1>4
-----------------------------------------------------------------------------
\* What is so of a request that has looked up n marks of l, over the table t.
Works(t, l, n, s, cl) == Staged(t, l, n, s) /\ Kept(t, l, n, s, cl) /\ Counted(l, n, s)

\* Types, with sessions as a whole.
Typed ==
  /\ table \in Seq(Row)
  /\ pc \in [Clients -> {"idle", "lookup", "answer"}]
  /\ list \in [Clients -> Lists \cup {<< >>}]
  /\ bulk \in [Clients -> BOOLEAN]
  /\ done \in [Clients -> Nat]
  /\ session \in [Clients -> Session]
  /\ reply \in [Clients -> {"none", "ok", "error"}]
  /\ clash \in [Clients -> SUBSET raced]

\* A request has a list, of which it looks up no more than there is.
Progress ==
  \A c \in Clients :
    /\ done[c] <= Len(list[c])
    /\ pc[c] # "lookup" => list[c] = << >> /\ done[c] = 0 /\ session[c] = NoChanges
    /\ pc[c] = "lookup" => list[c] \in Lists

\* A client waits without a word, and outside of bulk-mark for a single mark.
Waiting ==
  \A c \in Clients : /\ pc[c] # "idle" => reply[c] = "none"
                     /\ pc[c] = "lookup" /\ ~bulk[c] => Len(list[c]) = 1

\* The keys a list repeats or shares with one in flight are in its clash.
Competing ==
  /\ \A c \in Clients : Repeated(list[c]) \subseteq clash[c]
  /\ \A c, d \in Clients : c # d => KeysOf(list[c]) \cap KeysOf(list[d]) \subseteq clash[c]

\* It is so of every request.
Working == \A c \in Clients : Works(table, list[c], done[c], session[c], clash[c])

\* Keys that nobody has competed for have one row.
Unique == \A k \in Keys \ raced : AtMostOne(table, k)

\* The number of rows of every key is bounded.
Limited == \A k : Bounded(table, session, k)

\* The inductive invariant.
IInv == Typed /\ Progress /\ Waiting /\ Competing /\ Working /\ Unique /\ Limited

\* A session that holds nothing.
LEMMA Idle ==
  ASSUME NEW t, NEW l \in Seq(Mark), NEW cl
  PROVE  /\ NoChanges \in Session /\ \A k : NewOf(NoChanges, k) = {}
         /\ Works(t, l, 0, NoChanges, cl)
<1>1. NoChanges.dirty = {} /\ NoChanges.new = << >> /\ DOMAIN << >> = {}
  BY DEF NoChanges
<1>2. NoChanges \in Session
  BY DEF NoChanges, Session, SessionSet
<1>3. \A k : NewOf(NoChanges, k) = {}
  BY <1>1 DEF NewOf
<1>4. Staged(t, l, 0, NoChanges)
  BY <1>1 DEF Staged, OneChangeEach
<1>5. Kept(t, l, 0, NoChanges, cl)
  <2>1. \A i \in Known(l) : ~(i <= 0)
    BY ListFacts
  <2> QED BY <2>1 DEF Kept, Marked
<1>6. Counted(l, 0, NoChanges)
  <2> SUFFICES ASSUME NEW k
               PROVE  Cardinality(NewOf(NoChanges, k)) <= Cardinality(MarksOf(l, 0, k))
    BY DEF Counted
  <2>1. Cardinality(NewOf(NoChanges, k)) = 0
    <3>1. Cardinality({}) = 0
      BY FS_EmptySet
    <3> QED BY <1>3, <3>1, Zenon
  <2>2. Cardinality(MarksOf(l, 0, k)) \in Nat
    BY FiniteSets
  <2> QED BY <2>1, <2>2
<1> QED BY <1>2, <1>3, <1>4, <1>5, <1>6 DEF Works

\* Who competes for more keys is promised less.
LEMMA MoreCompete ==
  ASSUME NEW t, NEW l, NEW n, NEW s, NEW cl, NEW cl2, cl \subseteq cl2, Works(t, l, n, s, cl)
  PROVE  Works(t, l, n, s, cl2)
BY DEF Works, Kept

\* A request that is idle has no marks.
LEMMA NoMarks ==
  /\ << >> \in Seq(Mark) /\ KeysOf(<< >>) = {} /\ Repeated(<< >>) = {}
  /\ Len(<< >>) = 0
  /\ \A l \in Lists \cup {<< >>} : l \in Seq(Mark)
<1>1. Known(<< >>) = {}
  BY DEF Known
<1>2. KeysOf(<< >>) = {}
  BY <1>1, Zenon DEF KeysOf
<1>3. Repeated(<< >>) = {}
  BY <1>1 DEF Repeated
<1>4. << >> \in Seq(Mark) /\ Len(<< >>) = 0
  OBVIOUS
<1>5. \A l \in Lists : l \in Seq(Mark)
  BY ListsAssumption
<1> QED BY <1>2, <1>3, <1>4, <1>5

\* The invariant holds initially.
LEMMA InitHolds == Init => IInv
<1> SUFFICES ASSUME Init PROVE IInv
  OBVIOUS
<1> USE DEF Init
<1>1. Typed
  <2>1. NoChanges \in Session
    BY NoMarks, Idle
  <2> QED BY <2>1 DEF Typed
<1>2. Progress /\ Waiting
  BY NoMarks DEF Progress, Waiting
<1>3. Competing
  BY NoMarks DEF Competing
<1>4. Working
  BY NoMarks, Idle DEF Working
<1>5. \A k : RowsOf(<< >>, k) = {}
  BY DEF RowsOf
<1>6. Unique /\ Limited
  BY <1>5 DEF Unique, AtMostOne, Limited, Bounded
<1> QED BY <1>1, <1>2, <1>3, <1>4, <1>6 DEF IInv

\* A list that arrives competes with those in flight, and they with it.
LEMMA ArriveStep ==
  ASSUME IInv, NEW c \in Clients, NEW l \in Lists, NEW b \in BOOLEAN, ~b => Len(l) = 1,
         Arrive(c, l, b)
  PROVE  IInv'
<1> USE DEF Arrive
<1>0. Typed /\ Progress /\ Waiting /\ Competing /\ Working /\ Unique /\ Limited
  BY DEF IInv
<1>1. /\ table' = table /\ done' = done /\ session' = session
      /\ list'[c] = l /\ \A d \in Clients : d # c => list'[d] = list[d]
  BY <1>0 DEF Typed
<1>2. /\ clash'[c] = Repeated(l) \cup (KeysOf(l) \cap UNION {KeysOf(list[o]) : o \in InFlight})
      /\ \A d \in Clients : d # c => clash[d] \subseteq clash'[d]
      /\ \A d \in InFlight : d # c => KeysOf(l) \cap KeysOf(list[d]) \subseteq clash'[d]
  BY DEF InFlight
<1>3. c \notin InFlight /\ \A d \in Clients : d \notin InFlight => KeysOf(list[d]) = {}
  BY <1>0, NoMarks DEF InFlight, Progress, Typed
<1>4. raced \subseteq raced' /\ \A d \in Clients : clash'[d] \subseteq raced'
  OBVIOUS
<1>5. Typed'
  <2>1. DOMAIN clash' = Clients /\ clash' = [d \in Clients |-> clash'[d]]
    OBVIOUS
  <2>2. clash' \in [Clients -> SUBSET raced']
    BY <1>4, <2>1
  <2>3. pc' \in [Clients -> {"idle", "lookup", "answer"}] /\ list' \in [Clients -> Lists \cup {<< >>}]
        /\ bulk' \in [Clients -> BOOLEAN] /\ reply' \in [Clients -> {"none", "ok", "error"}]
    BY <1>0 DEF Typed
  <2> QED BY <1>0, <1>1, <2>2, <2>3 DEF Typed
<1>6. Progress'
  <2> SUFFICES ASSUME NEW d \in Clients
               PROVE  /\ done'[d] <= Len(list'[d])
                      /\ pc'[d] # "lookup" => list'[d] = << >> /\ done'[d] = 0 /\ session'[d] = NoChanges
                      /\ pc'[d] = "lookup" => list'[d] \in Lists
    BY DEF Progress
  <2>1. CASE d # c
    BY <1>0, <1>1, <2>1 DEF Progress, Typed
  <2>2. CASE d = c
    <3>1. done[c] = 0 /\ pc'[c] = "lookup"
      BY <1>0 DEF Progress, Typed
    <3>2. Len(l) \in Nat
      BY NoMarks, ListFacts
    <3> QED BY <1>1, <2>2, <3>1, <3>2
  <2> QED BY <2>1, <2>2
<1>11. Waiting'
  BY <1>0, <1>1 DEF Waiting, Typed
<1>7. Competing'
  <2>1. \A d \in Clients : Repeated(list'[d]) \subseteq clash'[d]
    BY <1>0, <1>1, <1>2 DEF Competing
  <2>2. ASSUME NEW d \in Clients, NEW e \in Clients, d # e
        PROVE  KeysOf(list'[d]) \cap KeysOf(list'[e]) \subseteq clash'[d]
    <3>1. CASE d = c
      BY <1>1, <1>2, <1>3, <2>2, <3>1
    <3>2. CASE e = c
      BY <1>1, <1>2, <1>3, <2>2, <3>2
    <3>3. CASE d # c /\ e # c
      BY <1>0, <1>1, <1>2, <2>2, <3>3 DEF Competing
    <3> QED BY <3>1, <3>2, <3>3
  <2> QED BY <2>1, <2>2 DEF Competing
<1>8. Working'
  <2> SUFFICES ASSUME NEW d \in Clients
               PROVE  Works(table', list'[d], done'[d], session'[d], clash'[d])
    BY DEF Working
  <2>1. CASE d = c
    <3>1. done[c] = 0 /\ session[c] = NoChanges /\ l \in Seq(Mark)
      BY <1>0, NoMarks DEF Progress
    <3>2. Works(table, l, 0, NoChanges, clash'[c])
      BY <3>1, Idle
    <3>3. table' = table /\ list'[d] = l /\ done'[d] = 0 /\ session'[d] = NoChanges /\ clash'[d] = clash'[c]
      BY <1>1, <2>1, <3>1
    <3> QED BY <3>2, <3>3, Zenon
  <2>2. CASE d # c
    <3>1. Works(table, list[d], done[d], session[d], clash[d])
      BY <1>0 DEF Working
    <3>2. clash[d] \subseteq clash'[d]
      BY <1>2, <2>2
    <3>3. Works(table, list[d], done[d], session[d], clash'[d])
      BY <3>1, <3>2, MoreCompete
    <3>4. table' = table /\ list'[d] = list[d] /\ done'[d] = done[d] /\ session'[d] = session[d]
      BY <1>1, <2>2
    <3> QED BY <3>3, <3>4, Zenon
  <2> QED BY <2>1, <2>2
<1>9. Unique'
  BY <1>0, <1>1, <1>4 DEF Unique
<1>10. Limited'
  BY <1>0, <1>1 DEF Limited
<1> QED BY <1>5, <1>6, <1>7, <1>8, <1>9, <1>10, <1>11 DEF IInv

\* A request fails or is committed: what remains to be shown is what became of the table.
LEMMA SettledStep ==
  ASSUME IInv, NEW c \in Clients, Settled(c),
         \/ pc' = [pc EXCEPT ![c] = "answer"] /\ pc[c] = "lookup" /\ UNCHANGED <<bulk, reply>>
         \/ Replies(c, "error"),
         table' \in Seq(Row),
         \A d \in Clients : d # c => Works(table', list[d], done[d], session[d], clash[d]),
         Unique', \A k : Bounded(table', session', k)
  PROVE  IInv'
<1> USE DEF Settled, Replies
<1>0. Typed /\ Progress /\ Waiting /\ Competing /\ Working /\ Unique /\ Limited
  BY DEF IInv
<1>1. /\ pc'[c] # "lookup" /\ list'[c] = << >> /\ done'[c] = 0 /\ session'[c] = NoChanges /\ clash'[c] = {}
      /\ \A d \in Clients : d # c => /\ pc'[d] = pc[d] /\ list'[d] = list[d] /\ done'[d] = done[d]
                                     /\ session'[d] = session[d] /\ clash'[d] = clash[d]
      /\ raced' = raced
  BY <1>0 DEF Typed
<1>2. Typed'
  <2>1. NoChanges \in Session
    BY NoMarks, Idle
  <2> QED BY <1>0, <2>1 DEF Typed
<1>3. Progress' /\ Waiting'
  <2>1. Progress'
    BY <1>0, <1>1, NoMarks DEF Progress
  <2>2. Waiting'
    BY <1>0, <1>1 DEF Waiting, Typed
  <2> QED BY <2>1, <2>2
<1>4. Competing'
  <2>1. ASSUME NEW d \in Clients
        PROVE  Repeated(list'[d]) \subseteq clash'[d]
    BY <1>0, <1>1, NoMarks DEF Competing
  <2>2. ASSUME NEW d \in Clients, NEW e \in Clients, d # e
        PROVE  KeysOf(list'[d]) \cap KeysOf(list'[e]) \subseteq clash'[d]
    <3>1. CASE d = c \/ e = c
      BY <1>1, <3>1, NoMarks
    <3>2. CASE d # c /\ e # c
      BY <1>0, <1>1, <2>2, <3>2 DEF Competing
    <3> QED BY <3>1, <3>2
  <2> QED BY <2>1, <2>2 DEF Competing
<1>5. Working'
  <2> SUFFICES ASSUME NEW d \in Clients
               PROVE  Works(table', list'[d], done'[d], session'[d], clash'[d])
    BY DEF Working
  <2>1. CASE d = c
    <3>1. Works(table', << >>, 0, NoChanges, {})
      BY NoMarks, Idle
    <3>2. list'[c] = << >> /\ done'[c] = 0 /\ session'[c] = NoChanges /\ clash'[c] = {}
      BY <1>1
    <3> QED BY <2>1, <3>1, <3>2, Zenon
  <2>2. CASE d # c
    <3>1. Works(table', list[d], done[d], session[d], clash[d])
      BY <2>2
    <3>2. list'[d] = list[d] /\ done'[d] = done[d] /\ session'[d] = session[d] /\ clash'[d] = clash[d]
      BY <1>1, <2>2
    <3> QED BY <3>1, <3>2, Zenon
  <2> QED BY <2>1, <2>2
<1>6. Limited'
  BY DEF Limited
<1> QED BY <1>2, <1>3, <1>4, <1>5, <1>6 DEF IInv

\* What it staged is dropped.
LEMMA FailsStep ==
  ASSUME IInv, NEW c \in Clients, pc[c] = "lookup", Fails(c)
  PROVE  IInv'
<1>0. Typed /\ Working /\ Unique /\ Limited
  BY DEF IInv
<1>1. Settled(c) /\ Replies(c, "error") /\ table' = table /\ raced' = raced
  BY DEF Fails, Settled
<1>2. table' \in Seq(Row) /\ Unique'
  BY <1>0, <1>1 DEF Typed, Unique
<1>3. \A d \in Clients : Works(table', list[d], done[d], session[d], clash[d])
  BY <1>0, <1>1 DEF Working
<1>4. ASSUME NEW k PROVE Bounded(table', session', k)
  <2>1. NoChanges \in Session /\ NewOf(NoChanges, k) = {}
    BY NoMarks, Idle
  <2>2. session' = [session EXCEPT ![c] = NoChanges] /\ session \in [Clients -> Session]
    BY <1>0, <1>1 DEF Settled, Typed
  <2>3. session' \in [Clients -> Session] /\ session'[c] = NoChanges
        /\ \A d \in Clients : d # c => session'[d] = session[d]
    BY <2>1, <2>2
  <2>4. \A d \in Clients : session'[d] = session[d] \/ NewOf(session'[d], k) = {}
                           \/ NewOf(session'[d], k) = NewOf(session[d], k)
    BY <2>1, <2>3
  <2>5. Bounded(table, session, k) /\ table \in Seq(Row)
    BY <1>0 DEF Limited, Typed
  <2>6. Bounded(table, session', k)
    BY <2>2, <2>3, <2>4, <2>5, BoundShrinks
  <2> QED BY <1>1, <2>6
<1> QED BY <1>1, <1>2, <1>3, <1>4, SettledStep

\* A request that has looked up one mark more keeps what it stages apart.
LEMMA AdvanceStep ==
  ASSUME IInv, NEW c \in Clients, pc[c] = "lookup", done[c] < Len(list[c]), Advance(c),
         NEW s2 \in Session, session' = [session EXCEPT ![c] = s2],
         Works(table, list[c], done[c] + 1, s2, clash[c]),
         \A k : Bounded(table, session', k)
  PROVE  IInv'
<1> USE DEF Advance, history
<1>0. Typed /\ Progress /\ Waiting /\ Competing /\ Working /\ Unique /\ Limited
  BY DEF IInv
<1>1. /\ table' = table /\ pc' = pc /\ list' = list /\ clash' = clash /\ raced' = raced
      /\ done'[c] = done[c] + 1 /\ session'[c] = s2
      /\ \A d \in Clients : d # c => done'[d] = done[d] /\ session'[d] = session[d]
  BY <1>0 DEF Typed
<1>2. Typed'
  BY <1>0 DEF Typed
<1>3. Progress'
  <2> SUFFICES ASSUME NEW d \in Clients
               PROVE  /\ done'[d] <= Len(list'[d])
                      /\ pc'[d] # "lookup" => list'[d] = << >> /\ done'[d] = 0 /\ session'[d] = NoChanges
                      /\ pc'[d] = "lookup" => list'[d] \in Lists
    BY DEF Progress
  <2>1. CASE d # c
    BY <1>0, <1>1, <2>1 DEF Progress
  <2>2. CASE d = c
    <3>1. list[c] \in Lists /\ pc[c] # "idle"
      BY <1>0 DEF Progress
    <3>2. Len(list[c]) \in Nat /\ done[c] \in Nat
      BY <1>0, <3>1, NoMarks, ListFacts DEF Typed
    <3> QED BY <1>1, <2>2, <3>1, <3>2
  <2> QED BY <2>1, <2>2
<1>4. Competing'
  BY <1>0, <1>1 DEF Competing
<1>5. Working'
  <2> SUFFICES ASSUME NEW d \in Clients
               PROVE  Works(table', list'[d], done'[d], session'[d], clash'[d])
    BY DEF Working
  <2>1. CASE d = c
    <3>1. table' = table /\ list' = list /\ clash' = clash /\ done'[c] = done[c] + 1 /\ session'[c] = s2
      BY <1>1
    <3>2. Works(table', list'[c], done'[c], session'[c], clash'[c])
      BY <3>1, Zenon
    <3> QED BY <2>1, <3>2
  <2>2. CASE d # c
    <3>1. Works(table, list[d], done[d], session[d], clash[d])
      BY <1>0 DEF Working
    <3>2. table' = table /\ list' = list /\ clash' = clash /\ done'[d] = done[d] /\ session'[d] = session[d]
      BY <1>1, <2>2
    <3> QED BY <3>1, <3>2, Zenon
  <2> QED BY <2>1, <2>2
<1>6. Unique' /\ Limited'
  BY <1>0, <1>1 DEF Unique, Limited
<1>7. Waiting'
  BY <1>0, <1>1 DEF Waiting
<1> QED BY <1>2, <1>3, <1>4, <1>5, <1>6, <1>7 DEF IInv

\* A lookup fails, skips a stranger, or stages what the mark needs.
LEMMA LookupStep ==
  ASSUME IInv, NEW c \in Clients, Lookup(c)
  PROVE  IInv'
<1> DEFINE l == list[c]
           n == done[c]
           m == l[n + 1]
           s == session[c]
<1>0. Typed /\ Progress /\ Competing /\ Working /\ Unique /\ Limited
  BY DEF IInv
<1>1. pc[c] = "lookup" /\ n < Len(l)
  BY DEF Lookup
<1>2. l \in Seq(Mark) /\ n \in Nat /\ s \in Session /\ table \in Seq(Row)
      /\ session \in [Clients -> Session]
  BY <1>0, <1>1, NoMarks DEF Progress, Typed
<1>3. Works(table, l, n, s, clash[c]) /\ Repeated(l) \subseteq clash[c]
  BY <1>0 DEF Working, Competing
<1>4. Staged(table, l, n, s) /\ Kept(table, l, n, s, clash[c]) /\ Counted(l, n, s)
  BY <1>3 DEF Works
<1>5. /\ n + 1 \in DOMAIN l
      /\ m.usn \in Strangers => m.usn \notin Enrolled
      /\ m.usn \notin Enrolled => Marked(l, n + 1) = Marked(l, n) /\ MarkedKeys(l, n + 1) = MarkedKeys(l, n)
      /\ m \in Mark
  <2>1. n + 1 \in DOMAIN l
        /\ (m.usn \notin Enrolled => Marked(l, n + 1) = Marked(l, n) /\ MarkedKeys(l, n + 1) = MarkedKeys(l, n))
    <3> HIDE DEF n, l
    <3> QED BY <1>1, <1>2, MarkedNext
  <2>2. m \in Mark
    BY <1>2, <2>1, ListFacts
  <2> QED BY <2>1, <2>2, UsnAssumption
<1>6. CASE Fails(c)
  BY <1>1, <1>6, FailsStep
<1>7. CASE m.usn \in Strangers /\ UNCHANGED session /\ Advance(c)
  <2>1. Works(table, l, n + 1, s, clash[c])
    <3>1. Marked(l, n + 1) = Marked(l, n) /\ MarkedKeys(l, n + 1) = MarkedKeys(l, n)
      BY <1>5, <1>7
    <3>2. Staged(table, l, n + 1, s) /\ Kept(table, l, n + 1, s, clash[c])
      BY <1>4, <3>1, Zenon DEF Staged, Kept
    <3>3. Counted(l, n + 1, s)
      BY <1>4, <3>1, Zenon DEF Counted, MarksOf
    <3> QED BY <3>2, <3>3 DEF Works
  <2>2. session' = [session EXCEPT ![c] = s] /\ session' = session
    BY <1>2, <1>7
  <2>3. \A k : Bounded(table, session', k)
    BY <1>0, <2>2 DEF Limited
  <2> HIDE DEF l, n, s
  <2>4. Works(table, list[c], done[c] + 1, s, clash[c]) /\ done[c] < Len(list[c])
    BY <1>1, <2>1 DEF l, n
  <2> QED BY <1>1, <1>2, <1>7, <2>2, <2>3, <2>4, AdvanceStep
<1>8. CASE /\ m.usn \in Enrolled /\ m.date # NoDate
           /\ session' = [session EXCEPT ![c] = Stage(@, m)] /\ Advance(c)
  <2> DEFINE s2 == Stage(s, m)
  <2>1. m.date \in Dates
    BY <1>5, <1>8 DEF Mark
  <2>2. /\ s2 \in Session /\ Staged(table, l, n + 1, s2) /\ Kept(table, l, n + 1, s2, clash[c])
        /\ \A k : k # Key(m) => NewOf(s2, k) = NewOf(s, k)
        /\ \/ NewOf(s2, Key(m)) = NewOf(s, Key(m))
           \/ /\ RowsOf(table, Key(m)) = {}
              /\ NewOf(s2, Key(m)) = NewOf(s, Key(m)) \cup {Len(s.new) + 1}
    <3>1. CASE RowsOf(table, Key(m)) = {}
      <4>1. s2 = Add(s, Key(m), Cols(m))
        BY <3>1 DEF Stage
      <4> HIDE DEF s2
      <4>2. LET mm == l[n + 1]
                ss == Add(s, Key(mm), Cols(mm))
            IN  /\ ss \in Session /\ Staged(table, l, n + 1, ss) /\ Kept(table, l, n + 1, ss, clash[c])
                /\ Adds(s, ss, Key(mm))
        <5>1. l[n + 1].usn \in Enrolled /\ l[n + 1].date \in Dates /\ RowsOf(table, Key(l[n + 1])) = {}
          BY <1>8, <2>1, <3>1
        <5> HIDE DEF l, n, s, m
        <5>2. n < Len(l) /\ l \in Seq(Mark) /\ n \in Nat /\ s \in Session /\ table \in Seq(Row)
          BY <1>1, <1>2
        <5> QED BY <1>3, <1>4, <5>1, <5>2, AddKeeps
      <4> HIDE DEF l, n, s
      <4> QED BY <3>1, <4>1, <4>2 DEF Adds
    <3>2. CASE RowsOf(table, Key(m)) # {}
      <4>1. s2 = Assign(s, table, FirstRow(table, Key(m)), Cols(m))
        BY <3>2 DEF Stage
      <4> HIDE DEF s2
      <4>2. LET mm == l[n + 1]
                ss == Assign(s, table, FirstRow(table, Key(mm)), Cols(mm))
            IN  /\ ss \in Session /\ Staged(table, l, n + 1, ss) /\ Kept(table, l, n + 1, ss, clash[c])
                /\ \A k : NewOf(ss, k) = NewOf(s, k)
        <5> HIDE DEF l, n, s
        <5> QED BY <1>1, <1>2, <1>3, <1>4, <1>8, <2>1, <3>2, AssignKeeps
      <4> HIDE DEF l, n, s
      <4> QED BY <4>1, <4>2
    <3> QED BY <3>1, <3>2
  <2>3. session' = [session EXCEPT ![c] = s2]
    BY <1>2, <1>8
  <2> HIDE DEF s2, l, n, s
  <2>4. Counted(l, n + 1, s2)
    BY <1>1, <1>2, <1>4, <1>8, <2>2, MarkCounted
  <2>5. Works(table, l, n + 1, s2, clash[c])
    BY <2>2, <2>4 DEF Works
  <2>6. session' \in [Clients -> Session] /\ session'[c] = s2
        /\ \A d \in Clients : d # c => session'[d] = session[d]
    BY <1>2, <2>2, <2>3
  <2>7. ASSUME NEW k PROVE Bounded(table, session', k)
    <3>1. CASE k = Key(m) /\ RowsOf(table, k) = {}
      BY <3>1 DEF Bounded
    <3>2. CASE ~(k = Key(m) /\ RowsOf(table, k) = {})
      <4>1. NewOf(s2, k) = NewOf(s, k)
        BY <2>2, <3>2
      <4>2. \A d \in Clients : session'[d] = session[d] \/ NewOf(session'[d], k) = {}
                               \/ NewOf(session'[d], k) = NewOf(session[d], k)
        BY <2>6, <4>1 DEF s
      <4>3. Bounded(table, session, k)
        BY <1>0 DEF Limited
      <4> QED BY <1>2, <2>6, <4>2, <4>3, BoundShrinks
    <3> QED BY <3>1, <3>2
  <2>8. Works(table, list[c], done[c] + 1, s2, clash[c]) /\ done[c] < Len(list[c])
    BY <1>1, <2>5 DEF l, n
  <2> QED BY <1>1, <1>8, <2>2, <2>3, <2>7, <2>8, AdvanceStep
<1> QED BY <1>6, <1>7, <1>8 DEF Lookup

\* What a commit does to the table and to every other request.
LEMMA CommitStep ==
  ASSUME IInv, NEW c \in Clients, Commit(c)
  PROVE  IInv'
<1> DEFINE l == list[c]
           n == done[c]
           s == session[c]
           t2 == Flush(table, s)
<1>0. Typed /\ Progress /\ Competing /\ Working /\ Unique /\ Limited
  BY DEF IInv
<1>1. /\ pc[c] = "lookup" /\ n = Len(l) /\ table' = t2 /\ Settled(c) /\ raced' = raced
      /\ pc' = [pc EXCEPT ![c] = "answer"] /\ UNCHANGED <<bulk, reply>>
  BY DEF Commit, Settled
<1>2. /\ table \in Seq(Row) /\ session \in [Clients -> Session]
      /\ \A d \in Clients : session[d] \in Session /\ done[d] \in Nat
                            /\ list[d] \in Lists \cup {<< >>} /\ list[d] \in Seq(Mark)
  BY <1>0, NoMarks DEF Typed
<1>3. /\ \A d \in Clients : /\ Staged(table, list[d], done[d], session[d])
                            /\ Kept(table, list[d], done[d], session[d], clash[d])
                            /\ Counted(list[d], done[d], session[d])
  BY <1>0 DEF Working, Works
<1>4. table' \in Seq(Row)
  <2>1. table \in Seq(RowSet(Keys, Columns)) /\ s \in SessionSet(Keys, Columns)
    BY <1>2 DEF Row, Session
  <2>2. t2 \in Seq(RowSet(Keys, Columns))
    <3> HIDE DEF s
    <3> QED BY <2>1, ColumnsClosed, FlushProperties
  <2> QED BY <1>1, <2>2 DEF Row
<1>5. ASSUME NEW d \in Clients, d # c
      PROVE  Works(table', list[d], done[d], session[d], clash[d])
  <2>1. MarkedKeys(list[d], done[d]) \cap MarkedKeys(l, n) \subseteq clash[d]
    <3>1. \A e \in Clients : MarkedKeys(list[e], done[e]) \subseteq KeysOf(list[e])
      BY DEF MarkedKeys, Marked, KeysOf
    <3>2. KeysOf(list[d]) \cap KeysOf(list[c]) \subseteq clash[d]
      BY <1>0, <1>5 DEF Competing
    <3> QED BY <3>1, <3>2
  <2>2. Staged(t2, list[d], done[d], session[d]) /\ Kept(t2, list[d], done[d], session[d], clash[d])
    <3>1. s \in Session /\ Staged(table, l, n, s)
      BY <1>2, <1>3
    <3> HIDE DEF l, n, s
    <3> QED BY <1>2, <1>3, <2>1, <3>1, FlushOfAnother
  <2>3. Works(t2, list[d], done[d], session[d], clash[d])
    BY <1>3, <2>2 DEF Works
  <2> QED BY <1>1, <2>3
<1>6. Unique'
  <2> SUFFICES ASSUME NEW k \in Keys \ raced PROVE AtMostOne(t2, k)
    BY <1>1 DEF Unique
  <2>1. AtMostOne(table, k)
    BY <1>0 DEF Unique
  <2>2. k \notin clash[c]
    BY <1>0 DEF Typed
  <2>3. l \in Seq(Mark) /\ s \in Session /\ Staged(table, l, n, s) /\ Kept(table, l, n, s, clash[c])
    BY <1>2, <1>3
  <2> HIDE DEF l, n, s
  <2>4. CASE k \in MarkedKeys(l, n)
    <3>1. PICK i \in Marked(l, n) : k = Key(l[i])
      BY <2>4 DEF MarkedKeys
    <3>2. LET ft == Flush(table, s)
              kk == Key(l[i])
          IN  /\ RowsOf(ft, kk) # {} /\ ft[FirstRow(ft, kk)].cols = Cols(l[i])
              /\ AtMostOne(table, kk) => AtMostOne(ft, kk)
      BY <1>2, <2>2, <2>3, <3>1, FlushStores
    <3> QED BY <2>1, <3>1, <3>2
  <2>5. CASE k \notin MarkedKeys(l, n)
    <3>1. RowsOf(t2, k) = RowsOf(table, k)
      BY <1>2, <2>3, <2>5, FlushLeaves
    <3> QED BY <2>1, <3>1 DEF AtMostOne
  <2> QED BY <2>4, <2>5
<1>7. ASSUME NEW k PROVE Bounded(table', session', k)
  <2>1. NoChanges \in Session /\ NewOf(NoChanges, k) = {}
    BY NoMarks, Idle
  <2>2. session' = [session EXCEPT ![c] = NoChanges]
    BY <1>1 DEF Settled
  <2>3. session' \in [Clients -> Session] /\ session'[c] = NoChanges
        /\ \A d \in Clients \ {c} : session'[d] = session[d]
    BY <1>2, <2>1, <2>2
  <2>4. NewOf(session'[c], k) = {}
    BY <2>1, <2>3
  <2>5. \A d \in Clients : Cardinality(NewOf(session[d], k)) <= Repeats(list[d], k)
    <3> SUFFICES ASSUME NEW d \in Clients
                 PROVE  Cardinality(NewOf(session[d], k)) <= Repeats(list[d], k)
      OBVIOUS
    <3>1. Cardinality(NewOf(session[d], k)) <= Cardinality(MarksOf(list[d], done[d], k))
      BY <1>3 DEF Counted
    <3>2. /\ Cardinality(MarksOf(list[d], done[d], k)) \in Nat
          /\ Cardinality(MarksOf(list[d], done[d], k)) <= Repeats(list[d], k) /\ Repeats(list[d], k) \in Nat
          /\ Cardinality(NewOf(session[d], k)) \in Nat
      BY <1>2, FiniteSets
    <3> QED BY <3>1, <3>2
  <2>6. \A d \in Clients : NewOf(session[d], k) # {} => list[d] \in Lists
    <3> SUFFICES ASSUME NEW d \in Clients, list[d] \notin Lists PROVE NewOf(session[d], k) = {}
      OBVIOUS
    <3>1. session[d] = NoChanges
      BY <1>0 DEF Progress, Typed
    <3> QED BY <2>1, <3>1
  <2>7. Bounded(table, session, k) /\ list \in [Clients -> Lists \cup {<< >>}]
    BY <1>0 DEF Limited, Typed
  <2>8. Bounded(Flush(table, session[c]), session', k)
    BY <1>2, <2>3, <2>4, <2>5, <2>6, <2>7, BoundCommitted
  <2> QED BY <1>1, <2>8
<1> QED BY <1>1, <1>4, <1>5, <1>6, <1>7, SettledStep

\* The answer changes nothing but what the client is told.
LEMMA AnswerStep ==
  ASSUME IInv, NEW c \in Clients, Answer(c)
  PROVE  IInv'
<1>0. Typed /\ Progress /\ Waiting /\ Competing /\ Working /\ Unique /\ Limited
  BY DEF IInv
<1>1. /\ pc[c] = "answer" /\ pc' = [pc EXCEPT ![c] = "idle"] /\ bulk' = [bulk EXCEPT ![c] = FALSE]
      /\ \/ reply' = [reply EXCEPT ![c] = "ok"]
         \/ reply' = [reply EXCEPT ![c] = "error"]
      /\ UNCHANGED <<table, list, done, session, clash, raced>>
  BY DEF Answer, Replies, history
<1>2. Typed'
  BY <1>0, <1>1 DEF Typed
<1>3. Progress' /\ Waiting'
  BY <1>0, <1>1 DEF Progress, Waiting, Typed
<1>4. Competing' /\ Working'
  BY <1>0, <1>1 DEF Competing, Working
<1>5. Unique' /\ Limited'
  BY <1>0, <1>1 DEF Unique, Limited
<1> QED BY <1>2, <1>3, <1>4, <1>5 DEF IInv

\* A restart drops what was staged and keeps what was committed.
LEMMA RestartStep ==
  ASSUME IInv, Restart
  PROVE  IInv'
<1> USE DEF Restart
<1>0. Typed /\ Unique /\ Limited
  BY DEF IInv
<1>1. NoChanges \in Session /\ \A k : NewOf(NoChanges, k) = {}
  BY NoMarks, Idle
<1>2. Typed'
  BY <1>0, <1>1 DEF Typed
<1>3. Progress' /\ Waiting'
  BY NoMarks DEF Progress, Waiting
<1>4. Competing'
  BY NoMarks DEF Competing
<1>5. Working'
  <2> SUFFICES ASSUME NEW d \in Clients
               PROVE  Works(table', list'[d], done'[d], session'[d], clash'[d])
    BY DEF Working
  <2>1. Works(table', << >>, 0, NoChanges, {})
    BY NoMarks, Idle
  <2>2. list'[d] = << >> /\ done'[d] = 0 /\ session'[d] = NoChanges /\ clash'[d] = {}
    OBVIOUS
  <2> QED BY <2>1, <2>2, Zenon
<1>6. Unique'
  BY <1>0 DEF Unique
<1>7. Limited'
  <2> SUFFICES ASSUME NEW k PROVE Bounded(table, session', k)
    BY DEF Limited
  <2>1. session' \in [Clients -> Session] /\ \A d \in Clients : session'[d] = NoChanges
    BY <1>1
  <2>2. \A d \in Clients : session'[d] = session[d] \/ NewOf(session'[d], k) = {}
                           \/ NewOf(session'[d], k) = NewOf(session[d], k)
    BY <1>1, <2>1
  <2>3. Bounded(table, session, k) /\ table \in Seq(Row) /\ session \in [Clients -> Session]
    BY <1>0 DEF Limited, Typed
  <2> QED BY <2>1, <2>2, <2>3, BoundShrinks
<1> QED BY <1>2, <1>3, <1>4, <1>5, <1>6, <1>7 DEF IInv

\* Every step keeps the invariant.
LEMMA NextHolds == IInv /\ [Next]_vars => IInv'
<1> SUFFICES ASSUME IInv, [Next]_vars PROVE IInv'
  OBVIOUS
<1>1. ASSUME NEW c \in Clients, MarkAttendance(c) PROVE IInv'
  BY <1>1, ArriveStep DEF MarkAttendance
<1>2. ASSUME NEW c \in Clients, MarkBulkAttendance(c) PROVE IInv'
  BY <1>2, ArriveStep DEF MarkBulkAttendance
<1>3. ASSUME NEW c \in Clients, Lookup(c) PROVE IInv'
  BY <1>3, LookupStep
<1>4. ASSUME NEW c \in Clients, Commit(c) PROVE IInv'
  BY <1>4, CommitStep
<1>8. ASSUME NEW c \in Clients, Answer(c) PROVE IInv'
  BY <1>8, AnswerStep
<1>5. ASSUME NEW c \in Clients, DatabaseLocked(c) PROVE IInv'
  BY <1>5, FailsStep DEF DatabaseLocked
<1>6. CASE Restart
  BY <1>6, RestartStep
<1>7. CASE UNCHANGED vars
  BY <1>7 DEF vars, request, history, IInv, Typed, Progress, Waiting, Competing, Working, Unique,
              Limited
<1> QED BY <1>1, <1>2, <1>3, <1>4, <1>5, <1>6, <1>7, <1>8 DEF Next

\* The invariant holds in every state that attendance.py can reach.
THEOREM Invariant == Spec => []IInv
BY InitHolds, NextHolds, PTL DEF Spec

-----------------------------------------------------------------------------
\* What the invariant says of the table.
LEMMA TypesHold == IInv => TypeOK
<1> SUFFICES ASSUME IInv PROVE TypeOK
  OBVIOUS
<1>0. Typed /\ Progress /\ Working
  BY DEF IInv
<1>1. table \in Seq([key : Keys, cols : Columns])
  BY <1>0 DEF Typed, Row, RowSet
<1>2. \A c \in Clients : done[c] \in 0 .. Len(list[c])
  <2> SUFFICES ASSUME NEW c \in Clients PROVE done[c] \in 0 .. Len(list[c])
    OBVIOUS
  <2>1. list[c] \in Seq(Mark) /\ done[c] \in Nat /\ done[c] <= Len(list[c])
    BY <1>0, NoMarks DEF Typed, Progress
  <2>2. Len(list[c]) \in Nat
    BY <2>1, ListFacts
  <2> QED BY <2>1, <2>2
<1>3. \A c \in Clients : /\ session[c].new \in Seq([key : Keys, cols : Columns])
                         /\ \A u \in session[c].dirty : /\ u.row \in DOMAIN table
                                                        /\ {u.read, u.now} \subseteq Columns
  <2> SUFFICES ASSUME NEW c \in Clients
               PROVE  /\ session[c].new \in Seq([key : Keys, cols : Columns])
                      /\ \A u \in session[c].dirty : /\ u.row \in DOMAIN table
                                                     /\ {u.read, u.now} \subseteq Columns
    OBVIOUS
  <2>1. session[c] \in SessionSet(Keys, Columns)
    BY <1>0 DEF Typed, Session
  <2>2. session[c].new \in Seq([key : Keys, cols : Columns])
        /\ session[c].dirty \in SUBSET ChangeSet(Columns)
    BY <2>1 DEF SessionSet, RowSet
  <2>3. \A u \in session[c].dirty : u.row \in DOMAIN table
    BY <1>0 DEF Working, Works, Staged
  <2>4. \A u \in ChangeSet(Columns) : u.read \in Columns /\ u.now \in Columns
    BY DEF ChangeSet
  <2> QED BY <2>2, <2>3, <2>4
<1> QED BY <1>0, <1>1, <1>2, <1>3 DEF Typed, TypeOK

\* Two requests must have competed for a key that has two rows.
LEMMA OneRowEach == IInv => UniqueUnlessRaced
<1> SUFFICES ASSUME IInv, NEW k \in Keys \ raced PROVE Cardinality(RowsOf(table, k)) <= 1
  BY DEF UniqueUnlessRaced
<1>1. \A i, j \in RowsOf(table, k) : i = j
  BY DEF IInv, Unique, AtMostOne
<1>2. CASE RowsOf(table, k) = {}
  <2>1. Cardinality({}) = 0
    BY FS_EmptySet
  <2>2. Cardinality(RowsOf(table, k)) = 0
    BY <1>2, <2>1, Zenon
  <2> QED BY <2>2
<1>3. CASE RowsOf(table, k) # {}
  <2>1. PICK i : RowsOf(table, k) = {i}
    BY <1>1, <1>3
  <2>2. Cardinality({i}) = 1
    BY FS_Singleton
  <2>3. Cardinality(RowsOf(table, k)) = 1
    BY <2>1, <2>2, Zenon
  <2> QED BY <2>3
<1> QED BY <1>2, <1>3

\* Races leave no more rows than the clients' lists have marks of a key.
LEMMA CopiesAreBounded == IInv => CopiesBounded
<1> SUFFICES ASSUME IInv, NEW k \in Keys
             PROVE  \E l \in Lists : Cardinality(RowsOf(table, k)) <= Cardinality(Clients) * Repeats(l, k)
  BY DEF CopiesBounded, Repeats
<1>1. table \in Seq(Row) /\ Bounded(table, session, k)
  BY DEF IInv, Typed, Limited
<1>2. CASE RowsOf(table, k) = {}
  <2>1. PICK l \in Lists : TRUE
    BY ListsAssumption
  <2>2. Repeats(l, k) \in Nat /\ Cardinality(Clients) \in Nat
    BY ListsAssumption, FiniteSets
  <2>3. Cardinality(Clients) * Repeats(l, k) \in Nat
    BY <2>2, ProductSteps
  <2>4. Cardinality({}) = 0
    BY FS_EmptySet
  <2>5. Cardinality(RowsOf(table, k)) = 0
    BY <1>2, <2>4, Zenon
  <2> QED BY <2>3, <2>5
<1>3. CASE RowsOf(table, k) # {}
  <2>1. PICK l \in Lists :
          Cardinality(RowsOf(table, k)) + Cardinality(Adders(session, k)) * Repeats(l, k)
            <= Cardinality(Clients) * Repeats(l, k)
    BY <1>1, <1>3 DEF Bounded
  <2> DEFINE q == Cardinality(RowsOf(table, k))
             a == Cardinality(Adders(session, k))
             r == Repeats(l, k)
             n == Cardinality(Clients)
  <2>2. q \in Nat /\ a \in Nat /\ r \in Nat /\ n \in Nat
    BY <1>1, ListsAssumption, FiniteSets
  <2>3. q + a * r <= n * r
    BY <2>1
  <2> HIDE DEF q, a, r, n
  <2>4. a * r \in Nat /\ n * r \in Nat
    BY <2>2, ProductSteps
  <2>5. q <= n * r
    BY <2>2, <2>3, <2>4
  <2> QED BY <2>5 DEF q, r, n
<1> QED BY <1>2, <1>3

\* Rows are counted by their keys where no two have the same.
LEMMA CountedByKey ==
  ASSUME NEW t \in Seq(Row), NEW R \in SUBSET (DOMAIN t), NEW M,
         \A i \in R : t[i].key \in M,
         \A k \in M : \E i \in R : t[i].key = k,
         \A i, j \in R : t[i].key = t[j].key => i = j
  PROVE  Cardinality(R) = Cardinality(M)
<1> DEFINE f == [i \in R |-> t[i].key]
<1>1. f \in Bijection(R, M)
  <2>1. f \in [R -> M] /\ \A k \in M : \E i \in R : f[i] = k
    OBVIOUS
  <2>2. \A i, j \in R : f[i] = f[j] => i = j
    OBVIOUS
  <2> HIDE DEF f
  <2> QED BY <2>1, <2>2 DEF Bijection, Injection, Surjection, IsInjective
<1>2. IsFiniteSet(R)
  <2>1. R \in SUBSET (1 .. Len(t)) /\ Len(t) \in Nat
    OBVIOUS
  <2>2. IsFiniteSet(1 .. Len(t))
    BY <2>1, FS_Interval
  <2> QED BY <2>1, <2>2, FS_Subset
<1>3. ExistsBijection(R, M)
  BY <1>1 DEF ExistsBijection
<1> QED BY <1>2, <1>3, FS_Bijection

\* The summaries count each date once, as the rows are one for one with the keys.
LEMMA SummariesCount == IInv => SummaryCountsDates
<1> SUFFICES ASSUME IInv, NEW u \in Enrolled, NEW s \in Subjects
             PROVE  LET marked == {k \in Keys : k.usn = u /\ k.subject = s /\ RowsOf(table, k) # {}}
                        present == {k \in marked : table[FirstRow(table, k)].cols.status = "Present"}
                    IN marked \cap raced = {} =>
                         /\ TotalClasses(u, s) = Cardinality(marked)
                         /\ PresentCount(u, s) = Cardinality(present)
  BY DEF SummaryCountsDates
<1> DEFINE marked == {k \in Keys : k.usn = u /\ k.subject = s /\ RowsOf(table, k) # {}}
           present == {k \in marked : table[FirstRow(table, k)].cols.status = "Present"}
           R == Records(u, s)
           P == {i \in R : table[i].cols.status = "Present"}
<1> SUFFICES ASSUME marked \cap raced = {}
             PROVE  Cardinality(R) = Cardinality(marked) /\ Cardinality(P) = Cardinality(present)
  BY DEF TotalClasses, PresentCount
<1>1. /\ table \in Seq(Row) /\ \A i \in DOMAIN table : table[i].key \in Keys
      /\ \A k \in Keys \ raced : \A i, j \in RowsOf(table, k) : i = j
  <2>1. table \in Seq(Row) /\ \A k \in Keys \ raced : AtMostOne(table, k)
    BY DEF IInv, Typed, Unique
  <2>2. \A i \in DOMAIN table : table[i] \in Row
    BY <2>1
  <2>3. \A r \in Row : r.key \in Keys
    BY DEF Row, RowSet
  <2> QED BY <2>1, <2>2, <2>3 DEF AtMostOne
<1>2. R \in SUBSET (DOMAIN table) /\ P \in SUBSET (DOMAIN table) /\ P \subseteq R
  BY DEF Records
<1>3. \A i \in R : table[i].key \in marked /\ i \in RowsOf(table, table[i].key)
  BY <1>1 DEF Records, RowsOf
<1>4. \A k \in marked : RowsOf(table, k) # {} /\ \A i \in RowsOf(table, k) : i \in R /\ table[i].key = k
  BY DEF Records, RowsOf
<1>5. \A k \in marked : \A i, j \in RowsOf(table, k) : i = j
  BY <1>1
<1>6. \A i \in R : FirstRow(table, table[i].key) = i
  <2> SUFFICES ASSUME NEW i \in R PROVE FirstRow(table, table[i].key) = i
    OBVIOUS
  <2> DEFINE k == table[i].key
  <2>1. i \in RowsOf(table, k) /\ k \in marked
    BY <1>3
  <2>2. RowsOf(table, k) # {} /\ DOMAIN table \in SUBSET Nat
    BY <1>1, <2>1
  <2> HIDE DEF k, marked
  <2>3. FirstRow(table, k) \in RowsOf(table, k)
    BY <2>2, FirstRowIsLeast
  <2> QED BY <1>5, <2>1, <2>3 DEF k
<1> HIDE DEF marked, R
<1>7. \A k \in present : \E i \in P : table[i].key = k
  <2> SUFFICES ASSUME NEW k \in present PROVE \E i \in P : table[i].key = k
    OBVIOUS
  <2>1. PICK i \in RowsOf(table, k) : i \in R /\ table[i].key = k
    BY <1>4
  <2>2. FirstRow(table, k) = i
    BY <1>6, <2>1
  <2> QED BY <2>1, <2>2
<1>8. \A i \in P : table[i].key \in present
  BY <1>3, <1>6
<1> HIDE DEF P, present
<1>9. \A i, j \in R : table[i].key = table[j].key => i = j
  BY <1>3, <1>5
<1>10. \A k \in marked : \E i \in R : table[i].key = k
  BY <1>4
<1>11. Cardinality(R) = Cardinality(marked)
  BY <1>1, <1>2, <1>3, <1>9, <1>10, CountedByKey
<1>12. \A i, j \in P : table[i].key = table[j].key => i = j
  BY <1>2, <1>9
<1>13. Cardinality(P) = Cardinality(present)
  BY <1>1, <1>2, <1>7, <1>8, <1>12, CountedByKey
<1> QED BY <1>11, <1>13

\* The rows that races leave are bounded, other keys have one row at most and the
\* summaries of attendance.py 235-315 count them right.
THEOREM TableIsOK == Spec => []TableOK
<1>1. IInv => TableOK
  BY TypesHold, OneRowEach, CopiesAreBounded, SummariesCount DEF TableOK
<1> QED BY <1>1, Invariant, PTL

\* What a request has committed is what the next lookup finds.
THEOREM MarksAreKept == Spec => MarkHolds
<1> DEFINE Keeps == \A c \in Clients : Commit(c) =>
             \A i \in Known(list[c]) : Key(list[c][i]) \notin clash[c] =>
               table'[FirstRow(table', Key(list[c][i]))].cols = Cols(list[c][i])
<1>1. ASSUME IInv, NEW c \in Clients, Commit(c), NEW i \in Known(list[c]), Key(list[c][i]) \notin clash[c]
      PROVE  table'[FirstRow(table', Key(list[c][i]))].cols = Cols(list[c][i])
  <2> DEFINE l == list[c]
             n == done[c]
             s == session[c]
  <2>1. n = Len(l) /\ table' = Flush(table, s)
    BY <1>1 DEF Commit
  <2>2. /\ table \in Seq(Row) /\ s \in Session /\ l \in Seq(Mark)
        /\ Staged(table, l, n, s) /\ Kept(table, l, n, s, clash[c])
    BY <1>1, NoMarks DEF IInv, Typed, Working, Works
  <2>3. i \in Marked(l, n)
    BY <2>1, <2>2, ListFacts DEF Marked
  <2>4. Key(l[i]) \notin clash[c]
    BY <1>1
  <2> HIDE DEF l, n, s
  <2>5. LET ft == Flush(table, s)
            kk == Key(l[i])
        IN  /\ RowsOf(ft, kk) # {} /\ ft[FirstRow(ft, kk)].cols = Cols(l[i])
            /\ AtMostOne(table, kk) => AtMostOne(ft, kk)
    BY <2>2, <2>3, <2>4, FlushStores
  <2> QED BY <2>1, <2>5 DEF l
<1>2. IInv => Keeps
  BY <1>1
<1> QED BY <1>2, Invariant, PTL DEF MarkHolds

-----------------------------------------------------------------------------
\* The entry for k in the book that the table t is, r being the keys raced for.
EntryIn(t, r, k) ==
  IF k \in r THEN "void"
  ELSE IF RowsOf(t, k) = {} THEN "none" ELSE t[FirstRow(t, k)].cols.status

\* The book of the refinement, as a function of the table.
LEMMA BookIsTable ==
  /\ [k \in Keys |-> BookOf(k)] = [k \in Book!Entry |-> EntryIn(table, raced, k)]
  /\ [k \in Keys |-> BookOf(k)]' = [k \in Book!Entry |-> EntryIn(table', raced', k)]
  /\ Book!Entry = Keys
<1>1. Book!Entry = Keys
  BY DEF Book!Entry, Keys
<1> QED BY <1>1 DEF BookOf, EntryIn

\* What the book's clients have been told, before a step and after it.
LEMMA ToldNext ==
  /\ [c \in Clients |-> ToldOf(c)]' = [c \in Clients |-> ToldOf(c)']
  /\ Typed /\ Waiting =>
       \A c \in Clients : /\ pc[c] # "answer" => ToldOf(c) = reply[c] /\ ToldOf(c) \notin Book!Entered
                          /\ pc[c] = "lookup" => ToldOf(c) = "none"
                          /\ pc[c] = "answer" => ToldOf(c) \in Book!Entered
                          /\ pc[c] = "answer" /\ ~bulk[c] => ToldOf(c) = "markEntered"
<1>1. [c \in Clients |-> ToldOf(c)]' = [c \in Clients |-> ToldOf(c)']
  OBVIOUS
<1>2. ASSUME Typed, Waiting, NEW c \in Clients
      PROVE  /\ pc[c] # "answer" => ToldOf(c) = reply[c] /\ ToldOf(c) \notin Book!Entered
             /\ pc[c] = "lookup" => ToldOf(c) = "none"
             /\ pc[c] = "answer" => ToldOf(c) \in Book!Entered
             /\ pc[c] = "answer" /\ ~bulk[c] => ToldOf(c) = "markEntered"
  <2>1. reply[c] \in {"none", "ok", "error"}
    BY <1>2 DEF Typed
  <2> QED BY <1>2, <2>1 DEF Waiting, ToldOf, Book!Entered
<1> QED BY <1>1, <1>2

\* Only raced keys are void.
LEMMA EntryTypes ==
  ASSUME NEW t \in Seq(Row), NEW r, NEW k
  PROVE  /\ EntryIn(t, r, k) \in {"none", "void", "Present", "Absent"}
         /\ EntryIn(t, r, k) = "void" <=> k \in r
<1>1. CASE k \in r
  BY <1>1 DEF EntryIn
<1>2. CASE k \notin r /\ RowsOf(t, k) = {}
  BY <1>2 DEF EntryIn
<1>3. CASE k \notin r /\ RowsOf(t, k) # {}
  <2>1. FirstRow(t, k) \in DOMAIN t
    <3>1. DOMAIN t \in SUBSET Nat
      OBVIOUS
    <3> QED BY <1>3, <3>1, FirstRowIsLeast DEF RowsOf
  <2>2. t[FirstRow(t, k)] \in Row
    BY <2>1
  <2>3. t[FirstRow(t, k)].cols \in Columns
    BY <2>2 DEF Row, RowSet
  <2>4. t[FirstRow(t, k)].cols.status \in {"Present", "Absent"}
    BY <2>3 DEF Columns, Statuses
  <2> QED BY <1>3, <2>4 DEF EntryIn
<1> QED BY <1>1, <1>2, <1>3

\* The marks of a list for k.
LEMMA MarksFor ==
  ASSUME NEW l \in Seq(Mark), NEW k \in Keys
  PROVE  Book!For(l, k) = {i \in Known(l) : Key(l[i]) = k}
<1>1. PICK u \in Enrolled, s \in Subjects, d \in Dates : k = [usn |-> u, subject |-> s, date |-> d]
  BY DEF Keys
<1>2. \A i \in DOMAIN l : Key(l[i]) = k <=> l[i].usn = k.usn /\ l[i].subject = k.subject /\ l[i].date = k.date
  BY <1>1 DEF Key
<1>3. k.usn \in Enrolled
  BY <1>1
<1> QED BY <1>2, <1>3 DEF Book!For, Known

\* A list that arrives can make entries void, of those it has marks for.
LEMMA ArriveConsiders ==
  ASSUME IInv, NEW c \in Clients, NEW l \in Lists, NEW b \in BOOLEAN, Arrive(c, l, b)
  PROVE  Book!Consider(c)
<1>0. Typed
  BY DEF IInv
<1>1. table' = table /\ table \in Seq(Row)
  BY <1>0 DEF Typed, Arrive
<1>2. \A k : k \in raced => k \in raced'
  BY DEF Arrive
<1>3. ASSUME NEW k, k \in raced', k \notin raced PROVE k \in KeysOf(l)
  <2>1. PICK d \in Clients : k \in clash'[d]
    BY <1>3 DEF Arrive
  <2>2. k \notin clash[d]
    BY <1>0, <1>3 DEF Typed
  <2>3. Repeated(l) \subseteq KeysOf(l)
    BY DEF Repeated, KeysOf
  <2> QED BY <2>1, <2>2, <2>3 DEF Arrive
<1>4. ASSUME NEW k \in Keys
      PROVE  /\ EntryIn(table', raced', k) \in {"none", "void", "Present", "Absent"}
             /\ EntryIn(table', raced', k) # EntryIn(table, raced, k) =>
                  EntryIn(table', raced', k) = "void" /\ Book!For(l, k) # {}
  <2>1. EntryIn(table', raced', k) \in {"none", "void", "Present", "Absent"}
    BY <1>1, EntryTypes
  <2>2. CASE k \in raced' /\ k \notin raced
    <3>1. PICK i \in Known(l) : Key(l[i]) = k
      BY <1>3, <2>2 DEF KeysOf
    <3>2. Book!For(l, k) # {}
      BY <3>1, ListsAssumption, MarksFor
    <3> QED BY <2>1, <2>2, <3>2 DEF EntryIn
  <2>3. CASE ~(k \in raced' /\ k \notin raced)
    <3>1. EntryIn(table', raced', k) = EntryIn(table, raced, k)
      BY <1>1, <1>2, <2>3 DEF EntryIn
    <3> QED BY <2>1, <3>1
  <2> QED BY <2>2, <2>3
<1> DEFINE told == [d \in Clients |-> ToldOf(d)]
<1>5. told' = [told EXCEPT ![c] = "none"] /\ told[c] \notin Book!Entered
  <2>1. /\ pc[c] = "idle" /\ pc' = [pc EXCEPT ![c] = "lookup"]
        /\ reply' = [reply EXCEPT ![c] = "none"] /\ bulk' = [bulk EXCEPT ![c] = b]
    BY DEF Arrive
  <2>2. \A d \in Clients : ToldOf(d)' = IF d = c THEN "none" ELSE ToldOf(d)
    BY <1>0, <2>1 DEF ToldOf, Typed
  <2>3. told[c] \notin Book!Entered
    BY <1>0, <2>1, ToldNext DEF IInv
  <2> QED BY <2>2, <2>3
<1> HIDE DEF told
<1> DEFINE bk == [k \in Keys |-> BookOf(k)]
<1>6. bk = [k \in Book!Entry |-> EntryIn(table, raced, k)]
      /\ bk' = [k \in Book!Entry |-> EntryIn(table', raced', k)] /\ Book!Entry = Keys
  BY BookIsTable
<1> HIDE DEF bk
<1>7. bk' \in [Book!Entry -> {"none", "void", "Present", "Absent"}]
  BY <1>4, <1>6
<1>8. \A k \in Book!Entry : bk'[k] # bk[k] => bk'[k] = "void" /\ Book!For(l, k) # {}
  BY <1>4, <1>6
<1> QED BY <1>5, <1>7, <1>8 DEF Book!Consider, bk, told

\* A request that fails enters nothing.
LEMMA FailsRefuses ==
  ASSUME IInv, NEW c \in Clients, pc[c] = "lookup", Fails(c)
  PROVE  Book!Refuse(c)
<1>1. /\ table' = table /\ raced' = raced /\ reply' = [reply EXCEPT ![c] = "error"]
      /\ pc' = [pc EXCEPT ![c] = "idle"] /\ bulk' = [bulk EXCEPT ![c] = FALSE]
  BY DEF Fails, Settled, Replies
<1>2. [k \in Keys |-> BookOf(k)]' = [k \in Keys |-> BookOf(k)]
  BY <1>1 DEF BookOf
<1> DEFINE told == [d \in Clients |-> ToldOf(d)]
<1>3. told' = [told EXCEPT ![c] = "error"] /\ told[c] = "none"
  <2>1. \A d \in Clients : ToldOf(d)' = IF d = c THEN "error" ELSE ToldOf(d)
    BY <1>1 DEF ToldOf, IInv, Typed
  <2>2. told[c] = "none"
    BY ToldNext DEF IInv
  <2> QED BY <2>1, <2>2
<1> HIDE DEF told
<1> QED BY <1>2, <1>3 DEF Book!Refuse, told

\* The answer confirms what was entered, or, of a single mark, denies it.
LEMMA AnswerTells ==
  ASSUME IInv, NEW c \in Clients, Answer(c)
  PROVE  Book!Confirm(c) \/ Book!Misreport(c)
<1>1. table' = table /\ raced' = raced /\ pc[c] = "answer" /\ pc' = [pc EXCEPT ![c] = "idle"]
      /\ bulk' = [bulk EXCEPT ![c] = FALSE]
  BY DEF Answer, Replies, history
<1>2. [k \in Keys |-> BookOf(k)]' = [k \in Keys |-> BookOf(k)]
  BY <1>1 DEF BookOf
<1> DEFINE told == [d \in Clients |-> ToldOf(d)]
<1>3. told[c] \in Book!Entered /\ (~bulk[c] => told[c] = "markEntered")
  BY <1>1, ToldNext DEF IInv
<1>4. ASSUME NEW a \in {"ok", "error"}, reply' = [reply EXCEPT ![c] = a]
      PROVE  told' = [told EXCEPT ![c] = a]
  <2>1. \A d \in Clients : ToldOf(d)' = IF d = c THEN a ELSE ToldOf(d)
    BY <1>1, <1>4 DEF ToldOf, IInv, Typed
  <2> QED BY <2>1
<1>5. \/ told' = [told EXCEPT ![c] = "ok"]
      \/ ~bulk[c] /\ told' = [told EXCEPT ![c] = "error"]
  BY <1>4 DEF Answer, Replies
<1> HIDE DEF told
<1> QED BY <1>2, <1>3, <1>5 DEF Book!Confirm, Book!Misreport, told

\* After a restart the senders of what was entered without an answer hear nothing.
LEMMA RestartCrashes ==
  ASSUME IInv, Restart
  PROVE  Book!Crash
<1>1. [k \in Keys |-> BookOf(k)]' = [k \in Keys |-> BookOf(k)]
  BY DEF BookOf, Restart
<1> DEFINE told == [d \in Clients |-> ToldOf(d)]
<1>2. ASSUME NEW d \in Clients
      PROVE  ToldOf(d)' = IF told[d] \in Book!Entered THEN "none" ELSE told[d]
  <2>1. ToldOf(d)' = reply[d]
    BY DEF Restart, ToldOf
  <2>2. pc[d] = "answer" => reply[d] = "none" /\ told[d] \in Book!Entered
    BY ToldNext DEF IInv, Waiting
  <2>3. pc[d] # "answer" => told[d] = reply[d] /\ told[d] \notin Book!Entered
    BY ToldNext DEF IInv
  <2> QED BY <2>1, <2>2, <2>3
<1>3. told' = [d \in Clients |-> IF told[d] \in Book!Entered THEN "none" ELSE told[d]]
  BY <1>2
<1> HIDE DEF told
<1> QED BY <1>1, <1>3 DEF Book!Crash, told

\* A commit enters the marks of its list in all entries that are not void.
LEMMA CommitEnters ==
  ASSUME IInv, NEW c \in Clients, Commit(c)
  PROVE  Book!Enter(c)
<1> DEFINE l == list[c]
           n == done[c]
           s == session[c]
           t2 == Flush(table, s)
<1>1. /\ pc[c] = "lookup" /\ n = Len(l) /\ table' = t2 /\ raced' = raced
      /\ pc' = [pc EXCEPT ![c] = "answer"] /\ UNCHANGED <<bulk, reply>>
  BY DEF Commit, Settled
<1>2. /\ table \in Seq(Row) /\ s \in Session /\ l \in Lists /\ l \in Seq(Mark)
      /\ Staged(table, l, n, s) /\ Kept(table, l, n, s, clash[c])
      /\ clash[c] \subseteq raced
  BY <1>1, NoMarks DEF IInv, Typed, Progress, Working, Works
<1>3. table' \in Seq(Row)
  <2>1. IInv'
    BY CommitStep
  <2> QED BY <2>1 DEF IInv, Typed
<1> HIDE DEF l, n, s
<1>4. \A i \in Known(l) : i \in Marked(l, n)
  BY <1>1, <1>2, ListFacts DEF Marked
<1>5. Book!Enterable(l)
  BY <1>2, <1>4 DEF Book!Enterable, Kept, Known
<1> DEFINE new(k) == IF Book!For(l, k) = {} \/ EntryIn(table, raced, k) = "void"
                     THEN EntryIn(table, raced, k)
                     ELSE l[CHOOSE i \in Book!For(l, k) : TRUE].status
<1>6. ASSUME NEW k \in Keys PROVE EntryIn(table', raced', k) = new(k)
  <2>1. CASE k \in raced
    BY <1>1, <2>1 DEF EntryIn
  <2>2. CASE k \notin raced /\ Book!For(l, k) = {}
    <3>1. k \notin MarkedKeys(l, n)
      BY <1>2, <2>2, MarksFor DEF MarkedKeys, Marked
    <3>2. RowsOf(t2, k) = RowsOf(table, k) /\ \A i \in RowsOf(table, k) : t2[i] = table[i]
      BY <1>2, <3>1, FlushLeaves
    <3>3. CASE RowsOf(table, k) = {}
      BY <1>1, <2>2, <3>2, <3>3 DEF EntryIn
    <3>4. CASE RowsOf(table, k) # {}
      <4>1. DOMAIN table \in SUBSET Nat
        BY <1>2
      <4>2. FirstRow(table, k) \in RowsOf(table, k)
        BY <3>4, <4>1, FirstRowIsLeast
      <4>3. FirstRow(t2, k) = FirstRow(table, k)
        BY <3>2 DEF FirstRow
      <4>4. t2[FirstRow(t2, k)] = table[FirstRow(table, k)]
        BY <3>2, <4>2, <4>3
      <4>5. EntryIn(t2, raced, k) = EntryIn(table, raced, k)
        BY <3>2, <4>4 DEF EntryIn
      <4> QED BY <1>1, <2>2, <4>5
    <3> QED BY <3>3, <3>4
  <2>3. CASE k \notin raced /\ Book!For(l, k) # {}
    <3> DEFINE i == CHOOSE i \in Book!For(l, k) : TRUE
    <3>1. i \in Known(l) /\ Key(l[i]) = k
      BY <1>2, <2>3, MarksFor
    <3> HIDE DEF i
    <3>2. i \in Marked(l, n) /\ Key(l[i]) \notin clash[c]
      BY <1>2, <1>4, <2>3, <3>1
    <3>3. LET ft == Flush(table, s)
              kk == Key(l[i])
          IN  /\ RowsOf(ft, kk) # {} /\ ft[FirstRow(ft, kk)].cols = Cols(l[i])
              /\ AtMostOne(table, kk) => AtMostOne(ft, kk)
      BY <1>2, <3>2, FlushStores
    <3>4. RowsOf(t2, k) # {} /\ t2[FirstRow(t2, k)].cols = Cols(l[i])
      BY <3>1, <3>3
    <3>5. EntryIn(t2, raced, k) = l[i].status
      BY <2>3, <3>4 DEF EntryIn, Cols
    <3>6. EntryIn(table, raced, k) # "void"
      BY <1>2, <2>3, EntryTypes
    <3>7. new(k) = l[i].status
      BY <2>3, <3>6 DEF i
    <3> HIDE DEF new, t2
    <3> QED BY <1>1, <3>5, <3>7
  <2> QED BY <2>1, <2>2, <2>3
<1> HIDE DEF new, t2
<1> DEFINE bk == [k \in Keys |-> BookOf(k)]
<1>7. bk = [k \in Book!Entry |-> EntryIn(table, raced, k)]
      /\ bk' = [k \in Book!Entry |-> EntryIn(table', raced', k)] /\ Book!Entry = Keys
  BY BookIsTable
<1> HIDE DEF bk
<1>8. bk' = [k \in Book!Entry |-> IF Book!For(l, k) = {} \/ bk[k] = "void" THEN bk[k]
                                  ELSE l[CHOOSE i \in Book!For(l, k) : TRUE].status]
  <2>1. bk' = [k \in Book!Entry |-> new(k)]
    BY <1>6, <1>7
  <2>2. \A k \in Book!Entry : bk[k] = EntryIn(table, raced, k)
    BY <1>7
  <2> QED BY <2>1, <2>2 DEF new
<1> DEFINE told == [d \in Clients |-> ToldOf(d)]
           e == IF bulk[c] THEN "listEntered" ELSE "markEntered"
<1>9. told' = [told EXCEPT ![c] = e] /\ told[c] = "none"
  <2>1. \A d \in Clients : ToldOf(d)' = IF d = c THEN e ELSE ToldOf(d)
    BY <1>1 DEF ToldOf, IInv, Typed
  <2>2. told[c] = "none"
    BY <1>1, ToldNext DEF IInv
  <2> QED BY <2>1, <2>2
<1>10. e \in Book!Entered /\ (e = "markEntered" => Len(l) = 1)
  BY <1>1 DEF Book!Entered, IInv, Waiting, l
<1> HIDE DEF told, e
<1> QED BY <1>1, <1>2, <1>5, <1>8, <1>9, <1>10 DEF Book!Enter, bk, told

\* Requests write their lists in the book as a whole or not at all: every step of
\* attendance.py is one of the book's, or changes nothing of it.
THEOREM AttendanceIsABook == Spec => IsABook
<1>1. Init => Book!Init
  <2> SUFFICES ASSUME Init PROVE Book!Init
    OBVIOUS
  <2>1. \A k : EntryIn(table, raced, k) = "none"
    BY DEF Init, EntryIn, RowsOf
  <2>2. [k \in Keys |-> BookOf(k)] = [k \in Book!Entry |-> "none"]
    BY <2>1, BookIsTable
  <2>3. [c \in Clients |-> ToldOf(c)] = [c \in Clients |-> "none"]
    BY DEF Init, ToldOf
  <2> QED BY <2>2, <2>3 DEF Book!Init
<1>2. IInv /\ [Next]_vars => [Book!Next]_Book!vars
  <2> SUFFICES ASSUME IInv, [Next]_vars PROVE [Book!Next]_Book!vars
    OBVIOUS
  <2>1. ASSUME NEW c \in Clients, MarkAttendance(c) PROVE Book!Consider(c)
    BY <2>1, ArriveConsiders DEF MarkAttendance
  <2>2. ASSUME NEW c \in Clients, MarkBulkAttendance(c) PROVE Book!Consider(c)
    BY <2>2, ArriveConsiders DEF MarkBulkAttendance
  <2>3. ASSUME UNCHANGED <<table, raced, pc, bulk, reply>> PROVE UNCHANGED Book!vars
    BY <2>3 DEF Book!vars, BookOf, ToldOf
  <2>4. ASSUME NEW c \in Clients, Lookup(c) PROVE Book!Refuse(c) \/ UNCHANGED Book!vars
    <3>1. CASE Fails(c)
      BY <2>4, <3>1, FailsRefuses DEF Lookup
    <3>2. CASE Advance(c)
      BY <2>3, <3>2 DEF Advance, history
    <3> QED BY <2>4, <3>1, <3>2 DEF Lookup
  <2>5. ASSUME NEW c \in Clients, Commit(c) PROVE Book!Enter(c)
    BY <2>5, CommitEnters
  <2>9. ASSUME NEW c \in Clients, Answer(c) PROVE Book!Confirm(c) \/ Book!Misreport(c)
    BY <2>9, AnswerTells
  <2>6. ASSUME NEW c \in Clients, DatabaseLocked(c) PROVE Book!Refuse(c)
    BY <2>6, FailsRefuses DEF DatabaseLocked
  <2>7. CASE Restart
    BY <2>7, RestartCrashes DEF Book!Next
  <2>8. CASE UNCHANGED vars
    <3>1. UNCHANGED <<table, raced, pc, bulk, reply>>
      BY <2>8 DEF vars, request, history
    <3> QED BY <2>3, <3>1
  <2>10. ASSUME NEW c \in Clients,
                \/ Book!Enter(c) \/ Book!Confirm(c) \/ Book!Misreport(c)
                \/ Book!Refuse(c) \/ Book!Consider(c)
         PROVE  Book!Next
    BY <2>10, Zenon DEF Book!Next
  <2>11. Book!Crash => Book!Next
    BY Zenon DEF Book!Next
  <2>12. CASE \E c \in Clients : \/ MarkAttendance(c) \/ MarkBulkAttendance(c)
                                 \/ Lookup(c) \/ Commit(c) \/ Answer(c) \/ DatabaseLocked(c)
    <3>1. PICK c \in Clients : \/ MarkAttendance(c) \/ MarkBulkAttendance(c)
                              \/ Lookup(c) \/ Commit(c) \/ Answer(c) \/ DatabaseLocked(c)
      BY <2>12
    <3>2. CASE MarkAttendance(c) \/ MarkBulkAttendance(c)
      BY <2>1, <2>2, <2>10, <3>2, Zenon
    <3>3. CASE Lookup(c) \/ DatabaseLocked(c)
      BY <2>4, <2>6, <2>10, <3>3, Zenon
    <3>4. CASE Commit(c) \/ Answer(c)
      BY <2>5, <2>9, <2>10, <3>4, Zenon
    <3> QED BY <3>1, <3>2, <3>3, <3>4, Zenon
  <2> QED BY <2>7, <2>8, <2>11, <2>12, Zenon DEF Next
<1> QED BY <1>1, <1>2, Invariant, PTL DEF Spec, IsABook, Book!Spec

-----------------------------------------------------------------------------
(***************************************************************************)
(* The marks, for any number of concurrent requests, any lists of entries, *)
(* failures and restarts.                                                  *)
(*                                                                         *)
(* The argument (SheetInv).  What a session holds comes from the entries   *)
(* it has looked up, and unless the key is raced for, nobody has changed   *)
(* the columns that it read nor added the row that it is to add            *)
(* (SheetStaged): whoever did would have the key in its list too, and then *)
(* it is raced for (SheetRaces).  A commit writes the columns where its    *)
(* entry differs from what was read, so a row that is not raced for        *)
(* becomes the entry, whole, and each column of any other row is an        *)
(* entry's or what it was (SheetUpdated, CommittedTable).                  *)
(***************************************************************************)
\* The session of SQLAlchemy as the module Marks has it.
LEMMA SameSession ==
  /\ Sheets!NoChanges = NoChanges
  /\ \A t, k : Sheets!RowsOf(t, k) = RowsOf(t, k) /\ Sheets!FirstRow(t, k) = FirstRow(t, k)
  /\ \A s, k, cols : Sheets!Add(s, k, cols) = Add(s, k, cols)
  /\ \A s, t, i, cols : Sheets!Assign(s, t, i, cols) = Assign(s, t, i, cols)
  /\ \A t, s : Sheets!Flush(t, s) = Flush(t, s)
<1>1. Sheets!NoChanges = NoChanges
  BY DEF Sheets!NoChanges, NoChanges
<1>2. \A t, k : Sheets!RowsOf(t, k) = RowsOf(t, k) /\ Sheets!FirstRow(t, k) = FirstRow(t, k)
  BY Zenon DEF Sheets!RowsOf, RowsOf, Sheets!FirstRow, FirstRow
<1>3. \A s, k, cols : Sheets!Add(s, k, cols) = Add(s, k, cols)
  BY Zenon DEF Sheets!Add, Add
<1>4. \A s, t, i, cols : Sheets!Assign(s, t, i, cols) = Assign(s, t, i, cols)
  BY Zenon DEF Sheets!Assign, Assign
<1>5. \A t, s : Sheets!Flush(t, s) = Flush(t, s)
  BY Zenon DEF Sheets!Flush, Flush, Sheets!Updated, Updated
<1> QED BY <1>1, <1>2, <1>3, <1>4, <1>5

\* Rows and sessions of the table of marks.
SheetRow == RowSet(Sheets!Keys, Sheets!Columns)
SheetSession == SessionSet(Sheets!Keys, Sheets!Columns)

\* The columns are those of one of the first n entries of l, for the key k.
FromList(l, n, k, cols) ==
  \E i \in Sheets!Known(l) : i <= n /\ Sheets!Key(l[i]) = k /\ l[i].cols = cols

SheetTyped ==
  /\ marksTable \in Seq(SheetRow)
  /\ marksPc \in [Clients -> {"idle", "lookup", "answer"}]
  /\ marksList \in [Clients -> SheetLists \cup {<< >>}]
  /\ marksBulk \in [Clients -> BOOLEAN]
  /\ marksDone \in [Clients -> Nat] /\ \A c \in Clients : marksDone[c] <= Len(marksList[c])
  /\ marksSession \in [Clients -> SheetSession]
  /\ \A c \in Clients : OneChangeEach(marksSession[c])
  /\ marksReply \in [Clients -> {"none", "ok", "error"}]
  /\ \A c \in Clients : marksPc[c] # "lookup" =>
       marksList[c] = << >> /\ marksDone[c] = 0 /\ marksSession[c] = NoChanges

\* A key of the lists of two requests, or twice in a list, is raced for.
SheetRaces ==
  /\ \A c, d \in Clients : c # d =>
       Sheets!KeysOf(marksList[c]) \cap Sheets!KeysOf(marksList[d]) \subseteq marksRaced
  /\ \A c \in Clients : Sheets!Repeated(marksList[c]) \subseteq marksRaced

\* What a session s that has looked up n entries of l holds over the table t: changes and
\* rows from these entries; nobody else changed what it read, nor added a row that it
\* is to add, unless the key is raced for (rc).
SheetStaged(t, l, n, s, rc) ==
  /\ \A u \in s.dirty : /\ u.row \in DOMAIN t /\ FromList(l, n, t[u.row].key, u.now)
                        /\ t[u.row].key \notin rc => u.read = t[u.row].cols
  /\ \A j \in DOMAIN s.new :
       /\ FromList(l, n, s.new[j].key, s.new[j].cols)
       /\ s.new[j].key \notin rc => /\ RowsOf(t, s.new[j].key) = {}
                                    /\ \A h \in DOMAIN s.new : s.new[h].key = s.new[j].key => h = j

SheetWorking ==
  \A c \in Clients :
    SheetStaged(marksTable, marksList[c], marksDone[c], marksSession[c], marksRaced)

\* A row was entered column by column; as a whole, and alone, unless its key is raced for.
RowEntered(row, rc, en) ==
  /\ row.key \notin rc => row \in en
  /\ \A f \in Fields : \E e \in en : e.key = row.key /\ e.cols[f] = row.cols[f]
SheetEntered ==
  /\ \A i \in DOMAIN marksTable : RowEntered(marksTable[i], marksRaced, entered)
  /\ \A i, j \in DOMAIN marksTable :
       marksTable[i].key = marksTable[j].key /\ marksTable[i].key \notin marksRaced => i = j

SheetInv == SheetTyped /\ SheetRaces /\ SheetWorking /\ SheetEntered
-----------------------------------------------------------------------------
LEMMA EntryFacts ==
  ASSUME Sheets!ConstantsFit, NEW l \in SheetLists \cup {<< >>}
  PROVE  /\ Len(l) \in Nat /\ DOMAIN l = 1 .. Len(l) /\ l \in Seq(Sheets!Entry)
         /\ \A i \in Sheets!Known(l) : /\ i \in 1 .. Len(l) /\ Sheets!Key(l[i]) \in Sheets!Keys
                                       /\ l[i].cols \in Sheets!Columns
                                       /\ Sheets!Key(l[i]) \in Sheets!KeysOf(l)
<1>1. l \in Seq(Sheets!Entry)
  <2>1. SheetLists \subseteq Seq(Sheets!Entry)
    BY Zenon DEF Sheets!ConstantsFit
  <2>2. << >> \in Seq(Sheets!Entry)
    OBVIOUS
  <2> QED BY <2>1, <2>2
<1>2. Len(l) \in Nat /\ DOMAIN l = 1 .. Len(l) /\ \A i \in DOMAIN l : l[i] \in Sheets!Entry
  BY <1>1
<1>3. ASSUME NEW i \in Sheets!Known(l)
      PROVE  /\ i \in 1 .. Len(l) /\ Sheets!Key(l[i]) \in Sheets!Keys
             /\ l[i].cols \in Sheets!Columns /\ Sheets!Key(l[i]) \in Sheets!KeysOf(l)
  <2>1. i \in 1 .. Len(l) /\ l[i] \in Sheets!Entry /\ l[i].usn \in Enrolled
    BY <1>2 DEF Sheets!Known
  <2>2. l[i].subject \in Subjects /\ l[i].cols \in Sheets!Columns
    BY <2>1 DEF Sheets!Entry
  <2> QED BY <2>1, <2>2 DEF Sheets!Key, Sheets!Keys, Sheets!KeysOf
<1> QED BY <1>1, <1>2, <1>3

LEMMA FromListKey ==
  ASSUME Sheets!ConstantsFit, NEW l \in SheetLists \cup {<< >>}, NEW n, NEW k, NEW cols,
         FromList(l, n, k, cols)
  PROVE  k \in Sheets!Keys /\ cols \in Sheets!Columns /\ k \in Sheets!KeysOf(l)
BY EntryFacts DEF FromList

\* A change writes points where it differs from what was read.
LEMMA SheetUpdated ==
  ASSUME NEW cols \in Sheets!Columns, NEW u \in ChangeSet(Sheets!Columns)
  PROVE  /\ Updated(cols, u) \in Sheets!Columns
         /\ \A f \in Fields : Updated(cols, u)[f] = IF u.now[f] # u.read[f] THEN u.now[f] ELSE cols[f]
         /\ u.read = cols => Updated(cols, u) = u.now
<1>1. u.read \in [Fields -> Points] /\ u.now \in [Fields -> Points] /\ cols \in [Fields -> Points]
  BY DEF ChangeSet, Sheets!Columns
<1>2. Updated(cols, u) = [f \in Fields |-> IF u.now[f] # u.read[f] THEN u.now[f] ELSE cols[f]]
  BY <1>1 DEF Updated
<1>3. \A f \in Fields : u.now[f] \in Points /\ cols[f] \in Points
  BY <1>1
<1>4. Updated(cols, u) \in [Fields -> Points]
  BY <1>2, <1>3
<1>5. ASSUME u.read = cols PROVE Updated(cols, u) = u.now
  <2>1. \A f \in Fields : Updated(cols, u)[f] = u.now[f]
    BY <1>2, <1>5
  <2> QED BY <1>1, <1>4, <2>1
<1> QED BY <1>2, <1>4, <1>5 DEF Sheets!Columns

LEMMA FromListGrows ==
  ASSUME NEW l, NEW n \in Nat, NEW k, NEW cols, FromList(l, n, k, cols), Sheets!Known(l) \in SUBSET Nat
  PROVE  FromList(l, n + 1, k, cols)
<1>1. PICK i \in Sheets!Known(l) : i <= n /\ Sheets!Key(l[i]) = k /\ l[i].cols = cols
  BY DEF FromList
<1>2. i <= n + 1
  BY <1>1
<1> QED BY <1>1, <1>2 DEF FromList

\* A row is added.
LEMMA Added ==
  ASSUME NEW s \in SheetSession, NEW k \in Sheets!Keys, NEW cols \in Sheets!Columns, NEW s2,
         s2 = Add(s, k, cols)
  PROVE  /\ s2 \in SheetSession /\ s2.dirty = s.dirty
         /\ s2.new = Append(s.new, [key |-> k, cols |-> cols])
<1>1. s \in SessionSet(Sheets!Keys, Sheets!Columns)
  BY DEF SheetSession
<1>2. s2 \in SessionSet(Sheets!Keys, Sheets!Columns)
  BY <1>1, AddProperties
<1>3. s2.dirty = s.dirty
  BY <1>1 DEF Add, SessionSet
<1>4. s2.new = Append(s.new, [key |-> k, cols |-> cols])
  BY <1>1, AddProperties
<1> QED BY <1>2, <1>3, <1>4 DEF SheetSession

\* Looking up one entry more.
LEMMA StageKeeps ==
  ASSUME Sheets!ConstantsFit, NEW t \in Seq(SheetRow), t = marksTable,
         NEW l \in SheetLists \cup {<< >>}, NEW n \in Nat, n < Len(l), l[n + 1].usn \in Enrolled,
         NEW s \in SheetSession, OneChangeEach(s), NEW rc, Sheets!Repeated(l) \subseteq rc,
         SheetStaged(t, l, n, s, rc)
  PROVE  LET s2 == Sheets!Stage(s, l[n + 1])
         IN  s2 \in SheetSession /\ OneChangeEach(s2) /\ SheetStaged(t, l, n + 1, s2, rc)
<1> DEFINE e == l[n + 1]
           k == Sheets!Key(e)
           s2 == Sheets!Stage(s, e)
<1>1. /\ n + 1 \in Sheets!Known(l) /\ Sheets!Known(l) \in SUBSET Nat
      /\ k \in Sheets!Keys /\ e.cols \in Sheets!Columns
  <2>1. Len(l) \in Nat /\ DOMAIN l = 1 .. Len(l)
    BY EntryFacts
  <2>2. n + 1 \in Sheets!Known(l) /\ Sheets!Known(l) \in SUBSET Nat
    BY <2>1 DEF Sheets!Known
  <2> QED BY <2>2, EntryFacts
<1>2. FromList(l, n + 1, k, e.cols)
  BY <1>1 DEF FromList
<1>3. /\ DOMAIN t = 1 .. Len(t) /\ DOMAIN t \in SUBSET Nat
      /\ s.new \in Seq(SheetRow) /\ DOMAIN s.new = 1 .. Len(s.new) /\ Len(s.new) \in Nat
  <2>1. s.new \in Seq(SheetRow)
    BY DEF SheetSession, SessionSet, SheetRow
  <2> QED BY <2>1
<1>4. ASSUME NEW j \in DOMAIN s.new, s.new[j].key = k
      PROVE  k \in rc
  <2>1. PICK i \in Sheets!Known(l) : i <= n /\ Sheets!Key(l[i]) = k
    BY <1>4 DEF SheetStaged, FromList
  <2>2. i # n + 1
    BY <1>1, <2>1
  <2>3. k \in Sheets!Repeated(l)
    BY <1>1, <2>1, <2>2 DEF Sheets!Repeated
  <2> QED BY <2>3
<1>5. /\ \A u \in s.dirty : /\ u.row \in DOMAIN t /\ FromList(l, n + 1, t[u.row].key, u.now)
                            /\ t[u.row].key \notin rc => u.read = t[u.row].cols
      /\ \A j \in DOMAIN s.new : FromList(l, n + 1, s.new[j].key, s.new[j].cols)
  BY <1>1, FromListGrows DEF SheetStaged
<1>6. s2 = IF RowsOf(t, k) # {} THEN Assign(s, t, FirstRow(t, k), e.cols) ELSE Add(s, k, e.cols)
  <2>1. s2 = IF Sheets!RowsOf(t, k) # {} THEN Sheets!Assign(s, t, Sheets!FirstRow(t, k), e.cols)
             ELSE Sheets!Add(s, k, e.cols)
    BY Zenon DEF Sheets!Stage
  <2> HIDE DEF s2, k, e
  <2> QED BY <2>1, SameSession
<1> HIDE DEF s2, k
<1>7. CASE RowsOf(t, k) # {}
  <2> DEFINE r == FirstRow(t, k)
  <2>1. r \in DOMAIN t /\ t[r].key = k
    BY <1>3, <1>7, FirstRowIsLeast DEF RowsOf
  <2> HIDE DEF r
  <2>2. s2 = Assign(s, t, r, e.cols)
    BY <1>6, <1>7 DEF r
  <2>3. /\ s2 \in SheetSession /\ s2.new = s.new /\ OneChangeEach(s2)
        /\ \A u \in s2.dirty : u.row # r => u \in s.dirty
        /\ (\A u \in s.dirty : u.row # r)
             => [row |-> r, read |-> t[r].cols, now |-> e.cols] \in s2.dirty
        /\ \A u \in s.dirty : u.row = r => [row |-> r, read |-> u.read, now |-> e.cols] \in s2.dirty
    BY <1>1, <2>1, <2>2, AssignProperties DEF SheetSession, SheetRow
  <2>4. ASSUME NEW u \in s2.dirty, u.row = r
        PROVE  u.now = e.cols /\ (k \notin rc => u.read = t[r].cols)
    <3>1. CASE \A v \in s.dirty : v.row # r
      <4>1. PICK v \in s2.dirty : v = [row |-> r, read |-> t[r].cols, now |-> e.cols]
        BY <2>3, <3>1
      <4>2. u = v
        BY <2>3, <2>4, <4>1 DEF OneChangeEach
      <4> QED BY <4>1, <4>2
    <3>2. CASE \E v \in s.dirty : v.row = r
      <4>1. PICK v \in s.dirty : v.row = r
        BY <3>2
      <4>2. PICK w \in s2.dirty : w = [row |-> r, read |-> v.read, now |-> e.cols]
        BY <2>3, <4>1
      <4>3. u = w
        BY <2>3, <2>4, <4>2 DEF OneChangeEach
      <4>4. k \notin rc => v.read = t[r].cols
        BY <1>5, <2>1, <4>1
      <4> QED BY <4>2, <4>3, <4>4
    <3> QED BY <3>1, <3>2
  <2>5. \A u \in s2.dirty : /\ u.row \in DOMAIN t /\ FromList(l, n + 1, t[u.row].key, u.now)
                            /\ t[u.row].key \notin rc => u.read = t[u.row].cols
    <3> SUFFICES ASSUME NEW u \in s2.dirty
                 PROVE  /\ u.row \in DOMAIN t /\ FromList(l, n + 1, t[u.row].key, u.now)
                        /\ t[u.row].key \notin rc => u.read = t[u.row].cols
      OBVIOUS
    <3>1. CASE u.row = r
      BY <1>2, <2>1, <2>4, <3>1
    <3>2. CASE u.row # r
      BY <1>5, <2>3, <3>2
    <3> QED BY <3>1, <3>2
  <2>6. SheetStaged(t, l, n + 1, s2, rc)
    BY <1>5, <2>3, <2>5 DEF SheetStaged
  <2> QED BY <2>3, <2>6 DEF s2
<1>8. CASE RowsOf(t, k) = {}
  <2> DEFINE row == [key |-> k, cols |-> e.cols]
  <2>1. /\ s2 \in SheetSession /\ s2.dirty = s.dirty /\ s2.new = Append(s.new, row)
        /\ Len(s2.new) = Len(s.new) + 1
        /\ s2.new[Len(s.new) + 1] = row
        /\ \A j \in 1 .. Len(s.new) : s2.new[j] = s.new[j]
    <3>1. s2 = Add(s, k, e.cols)
      BY <1>6, <1>8
    <3>2. s2 \in SheetSession /\ s2.dirty = s.dirty /\ s2.new = Append(s.new, row)
      BY <1>1, <3>1, Added
    <3>3. row \in SheetRow
      BY <1>1 DEF SheetRow, RowSet
    <3> HIDE DEF row
    <3> QED BY <1>3, <3>2, <3>3
  <2>2. row.key = k /\ row.cols = e.cols
    OBVIOUS
  <2>3. DOMAIN s2.new = 1 .. Len(s.new) + 1
    BY <1>3, <2>1
  <2> HIDE DEF row
  <2>4. ASSUME NEW j \in DOMAIN s2.new
        PROVE  /\ FromList(l, n + 1, s2.new[j].key, s2.new[j].cols)
               /\ s2.new[j].key \notin rc =>
                    /\ RowsOf(t, s2.new[j].key) = {}
                    /\ \A h \in DOMAIN s2.new : s2.new[h].key = s2.new[j].key => h = j
    <3>1. CASE j = Len(s.new) + 1
      <4>1. s2.new[j].key = k /\ s2.new[j].cols = e.cols
        BY <2>1, <2>2, <3>1
      <4>2. ASSUME k \notin rc, NEW h \in DOMAIN s2.new, s2.new[h].key = k
            PROVE  h = j
        <5>1. h \in 1 .. Len(s.new) => s.new[h].key = k
          BY <2>1, <4>2
        <5> QED BY <1>3, <1>4, <2>3, <3>1, <4>2, <5>1
      <4> QED BY <1>2, <1>8, <4>1, <4>2
    <3>2. CASE j # Len(s.new) + 1
      <4>1. j \in DOMAIN s.new /\ s2.new[j] = s.new[j]
        BY <1>3, <2>1, <2>3, <3>2
      <4>2. s.new[j].key \notin rc => RowsOf(t, s.new[j].key) = {}
        BY <4>1 DEF SheetStaged
      <4>3. ASSUME s.new[j].key \notin rc, NEW h \in DOMAIN s2.new, s2.new[h].key = s.new[j].key
            PROVE  h = j
        <5>1. CASE h = Len(s.new) + 1
          BY <1>4, <2>1, <2>2, <4>1, <4>3, <5>1
        <5>2. CASE h # Len(s.new) + 1
          <6>1. h \in DOMAIN s.new /\ s2.new[h] = s.new[h]
            BY <1>3, <2>1, <2>3, <5>2
          <6> QED BY <4>1, <4>3, <6>1 DEF SheetStaged
        <5> QED BY <5>1, <5>2
      <4> QED BY <1>5, <4>1, <4>2, <4>3
    <3> QED BY <3>1, <3>2
  <2>5. SheetStaged(t, l, n + 1, s2, rc)
    BY <1>5, <2>1, <2>4 DEF SheetStaged
  <2>6. OneChangeEach(s2)
    BY <2>1 DEF OneChangeEach
  <2> QED BY <2>1, <2>5, <2>6 DEF s2
<1> QED BY <1>7, <1>8

LEMMA NothingHeld ==
  /\ NoChanges \in SheetSession /\ OneChangeEach(NoChanges)
  /\ \A t, l, n, rc : SheetStaged(t, l, n, NoChanges, rc)
  /\ Sheets!KeysOf(<< >>) = {} /\ Sheets!Repeated(<< >>) = {}
<1>1. NoChanges.dirty = {} /\ NoChanges.new = << >> /\ DOMAIN << >> = {}
  BY DEF NoChanges
<1>2. NoChanges \in SheetSession
  BY DEF NoChanges, SheetSession, SessionSet
<1>3. Sheets!KeysOf(<< >>) = {} /\ Sheets!Repeated(<< >>) = {}
  BY DEF Sheets!KeysOf, Sheets!Known, Sheets!Repeated
<1> QED BY <1>1, <1>2, <1>3 DEF OneChangeEach, SheetStaged

\* More races promise less.
LEMMA RacedMore ==
  ASSUME NEW rc, NEW rc2, rc \subseteq rc2
  PROVE  /\ \A t, l, n, s : SheetStaged(t, l, n, s, rc) => SheetStaged(t, l, n, s, rc2)
         /\ \A row, en : RowEntered(row, rc, en) => RowEntered(row, rc2, en)
BY DEF SheetStaged, RowEntered

\* SheetRaces after a step.
LEMMA RacesNext ==
  SheetRaces' <=>
    /\ \A c, d \in Clients : c # d =>
         Sheets!KeysOf(marksList'[c]) \cap Sheets!KeysOf(marksList'[d]) \subseteq marksRaced'
    /\ \A c \in Clients : Sheets!Repeated(marksList'[c]) \subseteq marksRaced'
BY DEF SheetRaces, Sheets!KeysOf, Sheets!Repeated, Sheets!Known, Sheets!Key

\* A step that leaves the table alone.
LEMMA TableStays ==
  ASSUME SheetInv, SheetTyped', SheetRaces', UNCHANGED <<marksTable, entered>>,
         marksRaced \subseteq marksRaced',
         \A c \in Clients : SheetStaged(marksTable, marksList'[c], marksDone'[c], marksSession'[c],
                                        marksRaced')
  PROVE  SheetInv'
<1>1. SheetWorking'
  <2>1. SheetWorking' <=> \A c \in Clients :
          SheetStaged(marksTable', marksList'[c], marksDone'[c], marksSession'[c], marksRaced')
    BY DEF SheetWorking
  <2> QED BY <2>1
<1>2. SheetEntered'
  <2>1. SheetEntered
    BY DEF SheetInv
  <2>2. \A i \in DOMAIN marksTable : RowEntered(marksTable[i], marksRaced', entered)
    BY <2>1, RacedMore DEF SheetEntered
  <2>3. (\A i \in DOMAIN marksTable : RowEntered(marksTable[i], marksRaced, entered))'
    BY <2>2 DEF RowEntered
  <2> QED BY <2>1, <2>3 DEF SheetEntered
<1> QED BY <1>1, <1>2 DEF SheetInv

\* A step after which some requests are over, and no other has changed.
LEMMA SomeOver ==
  ASSUME SheetInv, UNCHANGED <<marksTable, entered, marksRaced>>,
         NEW over \in SUBSET Clients,
         marksPc' = [c \in Clients |-> IF c \in over THEN "idle" ELSE marksPc[c]],
         marksList' = [c \in Clients |-> IF c \in over THEN << >> ELSE marksList[c]],
         marksBulk' = [c \in Clients |-> IF c \in over THEN FALSE ELSE marksBulk[c]],
         marksDone' = [c \in Clients |-> IF c \in over THEN 0 ELSE marksDone[c]],
         marksSession' = [c \in Clients |-> IF c \in over THEN NoChanges ELSE marksSession[c]],
         marksReply' \in [Clients -> {"none", "ok", "error"}]
  PROVE  SheetInv'
<1>1. SheetTyped /\ SheetRaces /\ SheetWorking
  BY DEF SheetInv
<1>2. SheetTyped'
  <2>1. Len(<< >>) = 0
    OBVIOUS
  <2>2. /\ marksPc' \in [Clients -> {"idle", "lookup", "answer"}]
        /\ marksList' \in [Clients -> SheetLists \cup {<< >>}]
        /\ marksBulk' \in [Clients -> BOOLEAN]
        /\ marksDone' \in [Clients -> Nat]
        /\ marksSession' \in [Clients -> SheetSession]
    BY <1>1, NothingHeld DEF SheetTyped
  <2>3. \A c \in Clients : marksDone'[c] <= Len(marksList'[c])
    BY <1>1, <2>1 DEF SheetTyped
  <2>4. \A c \in Clients : OneChangeEach(marksSession'[c])
    BY <1>1, NothingHeld DEF SheetTyped
  <2>5. (\A c \in Clients : OneChangeEach(marksSession[c]))'
    BY <2>4 DEF OneChangeEach
  <2>6. \A c \in Clients : marksPc'[c] # "lookup" =>
          marksList'[c] = << >> /\ marksDone'[c] = 0 /\ marksSession'[c] = NoChanges
    BY <1>1 DEF SheetTyped
  <2>7. marksTable' \in Seq(SheetRow)
    BY <1>1 DEF SheetTyped
  <2> QED BY <2>2, <2>3, <2>5, <2>6, <2>7 DEF SheetTyped
<1>3. SheetRaces'
  <2>1. \A c \in Clients : marksList'[c] = marksList[c] \/ marksList'[c] = << >>
    OBVIOUS
  <2> QED BY <1>1, <2>1, NothingHeld, RacesNext DEF SheetRaces
<1>4. \A c \in Clients : SheetStaged(marksTable, marksList'[c], marksDone'[c], marksSession'[c],
                                     marksRaced')
  BY <1>1, NothingHeld DEF SheetWorking
<1> QED BY <1>2, <1>3, <1>4, TableStays

LEMMA FailsKeeps ==
  ASSUME SheetInv, NEW c \in Clients, Sheets!Fails(c)
  PROVE  SheetInv'
<1>1. SheetTyped
  BY DEF SheetInv
<1>2. /\ marksPc' = [marksPc EXCEPT ![c] = "idle"]
      /\ marksList' = [marksList EXCEPT ![c] = << >>]
      /\ marksBulk' = [marksBulk EXCEPT ![c] = FALSE]
      /\ marksDone' = [marksDone EXCEPT ![c] = 0]
      /\ marksSession' = [marksSession EXCEPT ![c] = NoChanges]
      /\ marksReply' = [marksReply EXCEPT ![c] = "error"]
      /\ UNCHANGED <<marksTable, entered, marksRaced>>
  BY SameSession DEF Sheets!Fails, Sheets!Settled, Sheets!Replies
<1> DEFINE over == {c}
<1>3. /\ marksPc' = [d \in Clients |-> IF d \in over THEN "idle" ELSE marksPc[d]]
      /\ marksList' = [d \in Clients |-> IF d \in over THEN << >> ELSE marksList[d]]
      /\ marksBulk' = [d \in Clients |-> IF d \in over THEN FALSE ELSE marksBulk[d]]
  BY <1>1, <1>2 DEF SheetTyped
<1>4. /\ marksDone' = [d \in Clients |-> IF d \in over THEN 0 ELSE marksDone[d]]
      /\ marksSession' = [d \in Clients |-> IF d \in over THEN NoChanges ELSE marksSession[d]]
      /\ marksReply' \in [Clients -> {"none", "ok", "error"}]
  BY <1>1, <1>2 DEF SheetTyped
<1> HIDE DEF over
<1>5. over \in SUBSET Clients
  BY DEF over
<1> QED BY <1>2, <1>3, <1>4, <1>5, SomeOver

LEMMA AnsweredKeeps ==
  ASSUME SheetInv, NEW c \in Clients, Sheets!Answer(c)
  PROVE  SheetInv'
<1>1. SheetTyped
  BY DEF SheetInv
<1>2. /\ marksPc[c] = "answer" /\ marksPc' = [marksPc EXCEPT ![c] = "idle"]
      /\ marksBulk' = [marksBulk EXCEPT ![c] = FALSE]
      /\ \/ marksReply' = [marksReply EXCEPT ![c] = "ok"]
         \/ marksReply' = [marksReply EXCEPT ![c] = "error"]
      /\ UNCHANGED <<marksTable, entered, marksRaced, marksList, marksDone, marksSession>>
  BY DEF Sheets!Answer, Sheets!Replies, Sheets!history
<1> DEFINE over == {c}
<1>3. /\ marksPc' = [d \in Clients |-> IF d \in over THEN "idle" ELSE marksPc[d]]
      /\ marksList' = [d \in Clients |-> IF d \in over THEN << >> ELSE marksList[d]]
      /\ marksBulk' = [d \in Clients |-> IF d \in over THEN FALSE ELSE marksBulk[d]]
  BY <1>1, <1>2 DEF SheetTyped
<1>4. /\ marksDone' = [d \in Clients |-> IF d \in over THEN 0 ELSE marksDone[d]]
      /\ marksSession' = [d \in Clients |-> IF d \in over THEN NoChanges ELSE marksSession[d]]
      /\ marksReply' \in [Clients -> {"none", "ok", "error"}]
  BY <1>1, <1>2 DEF SheetTyped
<1> HIDE DEF over
<1>5. over \in SUBSET Clients
  BY DEF over
<1> QED BY <1>2, <1>3, <1>4, <1>5, SomeOver

LEMMA RestartKeeps ==
  ASSUME SheetInv, Sheets!Restart
  PROVE  SheetInv'
<1> DEFINE over == Clients
<1>1. SheetTyped
  BY DEF SheetInv
<1>2. /\ marksPc' = [d \in Clients |-> IF d \in over THEN "idle" ELSE marksPc[d]]
      /\ marksList' = [d \in Clients |-> IF d \in over THEN << >> ELSE marksList[d]]
      /\ marksBulk' = [d \in Clients |-> IF d \in over THEN FALSE ELSE marksBulk[d]]
      /\ marksDone' = [d \in Clients |-> IF d \in over THEN 0 ELSE marksDone[d]]
      /\ marksSession' = [d \in Clients |-> IF d \in over THEN NoChanges ELSE marksSession[d]]
      /\ marksReply' \in [Clients -> {"none", "ok", "error"}]
      /\ UNCHANGED <<marksTable, entered, marksRaced>>
  BY <1>1, SameSession DEF Sheets!Restart, SheetTyped
<1> HIDE DEF over
<1>3. over \in SUBSET Clients
  BY DEF over
<1> QED BY <1>2, <1>3, SomeOver

LEMMA ArriveKeeps ==
  ASSUME Sheets!ConstantsFit, SheetInv, NEW c \in Clients, NEW l \in SheetLists, NEW b \in BOOLEAN,
         Sheets!Arrive(c, l, b)
  PROVE  SheetInv'
<1>1. SheetTyped /\ SheetRaces /\ SheetWorking
  BY DEF SheetInv
<1>2. /\ marksPc[c] = "idle"
      /\ marksPc' = [marksPc EXCEPT ![c] = "lookup"]
      /\ marksList' = [marksList EXCEPT ![c] = l]
      /\ marksBulk' = [marksBulk EXCEPT ![c] = b]
      /\ marksReply' = [marksReply EXCEPT ![c] = "none"]
      /\ UNCHANGED <<marksTable, marksDone, marksSession, entered>>
  BY DEF Sheets!Arrive
<1>3. /\ marksRaced \subseteq marksRaced' /\ Sheets!Repeated(l) \subseteq marksRaced'
      /\ \A d \in Clients :
           d # c => Sheets!KeysOf(l) \cap Sheets!KeysOf(marksList[d]) \subseteq marksRaced'
  <2>1. marksRaced' = marksRaced \cup UNION { marksClash'[d] : d \in Clients }
    BY DEF Sheets!Arrive
  <2>2. marksClash'[c] = Sheets!Repeated(l) \cup (Sheets!KeysOf(l) \cap
                           UNION { Sheets!KeysOf(marksList[o]) : o \in Sheets!InFlight })
    BY DEF Sheets!Arrive
  <2>3. ASSUME NEW d \in Clients, d \notin Sheets!InFlight
        PROVE  Sheets!KeysOf(marksList[d]) = {}
    BY <1>1, <2>3, NothingHeld DEF Sheets!InFlight, SheetTyped
  <2>4. marksClash'[c] \subseteq marksRaced'
    BY <2>1
  <2> QED BY <2>1, <2>2, <2>3, <2>4
<1>4. \A d \in Clients : marksList'[d] = IF d = c THEN l ELSE marksList[d]
  BY <1>1, <1>2 DEF SheetTyped
<1>5. SheetTyped'
  <2>1. Len(l) \in Nat /\ 0 <= Len(l)
    BY EntryFacts
  <2>2. marksDone[c] = 0 /\ marksSession[c] = NoChanges
    BY <1>1, <1>2 DEF SheetTyped
  <2>3. \A d \in Clients : marksDone'[d] <= Len(marksList'[d])
    BY <1>1, <1>2, <1>4, <2>1, <2>2 DEF SheetTyped
  <2>4. \A d \in Clients : marksPc'[d] # "lookup" =>
          marksList'[d] = << >> /\ marksDone'[d] = 0 /\ marksSession'[d] = NoChanges
    BY <1>1, <1>2, <1>4 DEF SheetTyped
  <2> QED BY <1>1, <1>2, <2>3, <2>4 DEF SheetTyped
<1>6. SheetRaces'
  BY <1>1, <1>3, <1>4, RacesNext DEF SheetRaces
<1>7. \A d \in Clients : SheetStaged(marksTable, marksList'[d], marksDone'[d], marksSession'[d],
                                     marksRaced')
  <2> SUFFICES ASSUME NEW d \in Clients
               PROVE  SheetStaged(marksTable, marksList'[d], marksDone'[d], marksSession'[d],
                                  marksRaced')
    OBVIOUS
  <2>1. CASE d = c
    <3>1. marksSession'[d] = NoChanges
      BY <1>1, <1>2, <2>1 DEF SheetTyped
    <3> QED BY <3>1, NothingHeld, Zenon
  <2>2. CASE d # c
    BY <1>1, <1>2, <1>3, <1>4, <2>2, RacedMore DEF SheetWorking
  <2> QED BY <2>1, <2>2
<1> QED BY <1>2, <1>3, <1>5, <1>6, <1>7, TableStays

LEMMA LookupKeeps ==
  ASSUME Sheets!ConstantsFit, SheetInv, NEW c \in Clients, Sheets!Lookup(c)
  PROVE  SheetInv'
<1> DEFINE l == marksList[c]
           n == marksDone[c]
           s == marksSession[c]
           s2 == IF l[n + 1].usn \in Enrolled THEN Sheets!Stage(s, l[n + 1]) ELSE s
<1>1. SheetTyped /\ SheetRaces /\ SheetWorking
  BY DEF SheetInv
<1>2. CASE Sheets!Fails(c)
  BY <1>2, FailsKeeps
<1>3. CASE /\ marksSession' = [marksSession EXCEPT ![c] = s2]
           /\ marksDone' = [marksDone EXCEPT ![c] = @ + 1]
           /\ UNCHANGED <<marksTable, marksPc, marksList, marksBulk, marksReply, marksRaced, entered>>
  <2>1. marksPc[c] = "lookup" /\ n < Len(l)
    BY DEF Sheets!Lookup
  <2>2. /\ l \in SheetLists \cup {<< >>} /\ n \in Nat /\ s \in SheetSession /\ OneChangeEach(s)
        /\ marksTable \in Seq(SheetRow)
    BY <1>1 DEF SheetTyped
  <2>3. SheetStaged(marksTable, l, n, s, marksRaced) /\ Sheets!Repeated(l) \subseteq marksRaced
    BY <1>1 DEF SheetWorking, SheetRaces
  <2>4. s2 \in SheetSession /\ OneChangeEach(s2) /\ SheetStaged(marksTable, l, n + 1, s2, marksRaced)
    <3>1. CASE l[n + 1].usn \in Enrolled
      <4>1. s2 = Sheets!Stage(s, l[n + 1])
        BY <3>1
      <4> HIDE DEF s2, l, n, s
      <4> QED BY <2>1, <2>2, <2>3, <3>1, <4>1, StageKeeps
    <3>2. CASE l[n + 1].usn \notin Enrolled
      <4>1. s2 = s
        BY <3>2
      <4>2. Sheets!Known(l) \in SUBSET Nat
        <5>1. DOMAIN l = 1 .. Len(l)
          BY <2>2, EntryFacts
        <5> QED BY <5>1 DEF Sheets!Known
      <4> HIDE DEF s2, l, n, s
      <4>3. SheetStaged(marksTable, l, n + 1, s, marksRaced)
        BY <2>2, <2>3, <4>2, FromListGrows DEF SheetStaged
      <4> QED BY <2>2, <4>1, <4>3
    <3> QED BY <3>1, <3>2
  <2>5. Len(l) \in Nat
    BY <2>2, EntryFacts
  <2>6. /\ marksSession'[c] = s2 /\ \A d \in Clients : d # c => marksSession'[d] = marksSession[d]
        /\ marksDone'[c] = n + 1 /\ \A d \in Clients : d # c => marksDone'[d] = marksDone[d]
        /\ marksSession' \in [Clients -> SheetSession] /\ marksDone' \in [Clients -> Nat]
    <3> HIDE DEF s2
    <3> QED BY <1>1, <1>3, <2>4 DEF SheetTyped
  <2> HIDE DEF s2
  <2>7. SheetTyped'
    <3>1. \A d \in Clients : marksDone'[d] <= Len(marksList'[d])
      BY <1>1, <1>3, <2>1, <2>2, <2>5, <2>6 DEF SheetTyped
    <3>2. \A d \in Clients : marksPc'[d] # "lookup" =>
            marksList'[d] = << >> /\ marksDone'[d] = 0 /\ marksSession'[d] = NoChanges
      BY <1>1, <1>3, <2>1, <2>6 DEF SheetTyped
    <3>3. \A d \in Clients : OneChangeEach(marksSession'[d])
      BY <1>1, <2>4, <2>6 DEF SheetTyped
    <3>4. (\A d \in Clients : OneChangeEach(marksSession[d]))'
      BY <3>3 DEF OneChangeEach
    <3> QED BY <1>1, <1>3, <2>6, <3>1, <3>2, <3>4 DEF SheetTyped
  <2>8. SheetRaces'
    BY <1>1, <1>3, RacesNext DEF SheetRaces
  <2>9. \A d \in Clients : SheetStaged(marksTable, marksList'[d], marksDone'[d], marksSession'[d],
                                       marksRaced')
    BY <1>1, <1>3, <2>4, <2>6 DEF SheetWorking
  <2> QED BY <1>3, <2>7, <2>8, <2>9, TableStays
<1> QED BY <1>2, <1>3, Zenon DEF Sheets!Lookup, Sheets!history

\* What FlushProperties says of the table after a commit.
Flushed(K, C, t, s, t2) ==
  /\ t2 \in Seq(RowSet(K, C)) /\ Len(t) \in Nat /\ Len(s.new) \in Nat
  /\ DOMAIN t2 = 1 .. Len(t) + Len(s.new)
  /\ \A i \in 1 .. Len(t) : /\ t2[i].key = t[i].key
                            /\ (\A u \in s.dirty : u.row # i) => t2[i] = t[i]
                            /\ OneChangeEach(s) => \A u \in s.dirty : u.row = i =>
                                 t2[i].cols = Updated(t[i].cols, u)
  /\ \A j \in 1 .. Len(s.new) : t2[Len(t) + j] = s.new[j]

LEMMA FlushedProperties ==
  ASSUME NEW K, NEW C, NEW s \in SessionSet(K, C), NEW t \in Seq(RowSet(K, C)),
         \A c \in C, u \in ChangeSet(C) : Updated(c, u) \in C
  PROVE  Flushed(K, C, t, s, Flush(t, s))
<1> DEFINE t2 == Flush(t, s)
<1>1. /\ t2 \in Seq(RowSet(K, C)) /\ Len(t) \in Nat /\ Len(s.new) \in Nat
      /\ DOMAIN t2 = 1 .. Len(t) + Len(s.new)
      /\ \A i \in 1 .. Len(t) : /\ t2[i].key = t[i].key
                                /\ (\A u \in s.dirty : u.row # i) => t2[i] = t[i]
                                /\ OneChangeEach(s) => \A u \in s.dirty : u.row = i =>
                                     t2[i].cols = Updated(t[i].cols, u)
      /\ \A j \in 1 .. Len(s.new) : t2[Len(t) + j] = s.new[j]
  BY FlushProperties
<1> HIDE DEF t2
<1>2. Flushed(K, C, t, s, t2)
  BY <1>1 DEF Flushed
<1> QED BY <1>2 DEF t2

LEMMA SheetFlushed ==
  ASSUME NEW t \in Seq(SheetRow), NEW s \in SheetSession
  PROVE  Flushed(Sheets!Keys, Sheets!Columns, t, s, Flush(t, s))
<1>1. s \in SessionSet(Sheets!Keys, Sheets!Columns) /\ t \in Seq(RowSet(Sheets!Keys, Sheets!Columns))
  BY DEF SheetSession, SheetRow
<1>2. \A cols \in Sheets!Columns, u \in ChangeSet(Sheets!Columns) : Updated(cols, u) \in Sheets!Columns
  BY SheetUpdated
<1> QED BY <1>1, <1>2, FlushedProperties

\* The table after a commit: what it holds was entered, and what others staged stays good.
LEMMA CommittedTable ==
  ASSUME Sheets!ConstantsFit, SheetInv, NEW c \in Clients, NEW t2, NEW en2,
         t2 = Flush(marksTable, marksSession[c]), entered \subseteq en2,
         \A k, cols : FromList(marksList[c], marksDone[c], k, cols) => [key |-> k, cols |-> cols] \in en2
  PROVE  /\ t2 \in Seq(SheetRow)
         /\ \A i \in DOMAIN t2 : RowEntered(t2[i], marksRaced, en2)
         /\ \A i, j \in DOMAIN t2 : t2[i].key = t2[j].key /\ t2[i].key \notin marksRaced => i = j
         /\ \A d \in Clients : d # c =>
              SheetStaged(t2, marksList[d], marksDone[d], marksSession[d], marksRaced)
<1> DEFINE t == marksTable
           s == marksSession[c]
<1>1. /\ t \in Seq(SheetRow) /\ s \in SheetSession /\ OneChangeEach(s)
      /\ s.dirty \in SUBSET ChangeSet(Sheets!Columns) /\ s.new \in Seq(SheetRow)
  BY DEF SheetInv, SheetTyped, SheetSession, SessionSet, SheetRow
<1>2. SheetStaged(t, marksList[c], marksDone[c], s, marksRaced)
  BY DEF SheetInv, SheetWorking
<1>3. /\ \A i \in DOMAIN t : RowEntered(t[i], marksRaced, entered)
      /\ \A i, j \in DOMAIN t : t[i].key = t[j].key /\ t[i].key \notin marksRaced => i = j
  BY DEF SheetInv, SheetEntered
<1>4. \A d \in Clients : marksList[d] \in SheetLists \cup {<< >>}
  BY DEF SheetInv, SheetTyped
<1>5. ASSUME NEW d \in Clients, d # c, NEW k, k \in Sheets!KeysOf(marksList[c]),
             k \in Sheets!KeysOf(marksList[d])
      PROVE  k \in marksRaced
  BY <1>5 DEF SheetInv, SheetRaces
<1> HIDE DEF t, s
<1>6. t2 = Flush(t, s)
  BY DEF t, s
<1>7. \A cols \in Sheets!Columns, u \in ChangeSet(Sheets!Columns) : Updated(cols, u) \in Sheets!Columns
  BY SheetUpdated
<1>8. /\ t2 \in Seq(SheetRow) /\ Len(t) \in Nat /\ Len(s.new) \in Nat
      /\ DOMAIN t2 = 1 .. Len(t) + Len(s.new)
      /\ \A i \in 1 .. Len(t) : /\ t2[i].key = t[i].key
                                /\ (\A u \in s.dirty : u.row # i) => t2[i] = t[i]
                                /\ \A u \in s.dirty : u.row = i => t2[i].cols = Updated(t[i].cols, u)
      /\ \A j \in 1 .. Len(s.new) : t2[Len(t) + j] = s.new[j]
  <2>1. Flushed(Sheets!Keys, Sheets!Columns, t, s, t2)
    BY <1>1, <1>6, SheetFlushed
  <2> QED BY <1>1, <2>1 DEF Flushed, SheetRow
<1>9. ASSUME NEW k
      PROVE  RowsOf(t2, k) = RowsOf(t, k) \cup {Len(t) + j : j \in NewOf(s, k)}
  BY <1>1, <1>6, <1>7, RowsOfFlush DEF SheetSession, SheetRow
<1>10. DOMAIN t = 1 .. Len(t) /\ DOMAIN s.new = 1 .. Len(s.new)
  BY <1>1
<1>11. \A row \in SheetRow : row = [key |-> row.key, cols |-> row.cols] /\ row.cols \in Sheets!Columns
  BY DEF SheetRow, RowSet
<1>12. \A i \in DOMAIN t2 : t2[i] \in SheetRow
  BY <1>8
<1>13. \A i \in DOMAIN t : t[i] \in SheetRow
  BY <1>1
<1>14. \A j \in DOMAIN s.new : s.new[j] \in SheetRow
  BY <1>1
<1>15. ASSUME NEW i \in 1 .. Len(t)
       PROVE  RowEntered(t2[i], marksRaced, en2)
  <2>1. RowEntered(t[i], marksRaced, entered) /\ t2[i].key = t[i].key
    BY <1>3, <1>8, <1>10
  <2>2. CASE \A u \in s.dirty : u.row # i
    <3>1. t2[i] = t[i]
      BY <1>8, <2>2
    <3> QED BY <2>1, <3>1 DEF RowEntered
  <2>3. CASE \E u \in s.dirty : u.row = i
    <3>1. PICK u \in s.dirty : u.row = i
      BY <2>3
    <3>2. t2[i].cols = Updated(t[i].cols, u)
      BY <1>8, <3>1
    <3>3. PICK e \in en2 : e = [key |-> t[i].key, cols |-> u.now]
      BY <1>2, <3>1 DEF SheetStaged, s, t
    <3>4. e.key = t[i].key /\ e.cols = u.now
      BY <3>3
    <3>5. u \in ChangeSet(Sheets!Columns) /\ t[i].cols \in Sheets!Columns
      BY <1>1, <1>10, <1>11, <1>13
    <3>6. ASSUME t[i].key \notin marksRaced PROVE t2[i] \in en2
      <4>1. u.read = t[i].cols
        BY <1>2, <3>1, <3>6 DEF SheetStaged
      <4>2. t2[i].cols = u.now
        BY <3>2, <3>5, <4>1, SheetUpdated
      <4>3. i \in DOMAIN t2
        BY <1>8
      <4>4. t2[i] = [key |-> t2[i].key, cols |-> t2[i].cols]
        BY <1>11, <1>12, <4>3
      <4> QED BY <2>1, <3>3, <4>2, <4>4
    <3>7. ASSUME NEW f \in Fields
          PROVE  \E x \in en2 : x.key = t2[i].key /\ x.cols[f] = t2[i].cols[f]
      <4>1. t2[i].cols[f] = IF u.now[f] # u.read[f] THEN u.now[f] ELSE t[i].cols[f]
        BY <3>2, <3>5, SheetUpdated
      <4>2. CASE u.now[f] # u.read[f]
        BY <2>1, <3>4, <4>1, <4>2
      <4>3. CASE u.now[f] = u.read[f]
        BY <2>1, <4>1, <4>3 DEF RowEntered
      <4> QED BY <4>2, <4>3
    <3> QED BY <2>1, <3>6, <3>7 DEF RowEntered
  <2> QED BY <2>2, <2>3
<1>16. ASSUME NEW j \in 1 .. Len(s.new)
       PROVE  RowEntered(t2[Len(t) + j], marksRaced, en2)
  <2>1. t2[Len(t) + j] = s.new[j]
    BY <1>8
  <2>2. s.new[j] = [key |-> s.new[j].key, cols |-> s.new[j].cols]
    BY <1>10, <1>11, <1>14
  <2>3. [key |-> s.new[j].key, cols |-> s.new[j].cols] \in en2
    BY <1>2, <1>10 DEF SheetStaged, s
  <2>4. s.new[j] \in en2
    BY <2>2, <2>3
  <2> QED BY <2>1, <2>4 DEF RowEntered
<1>17. \A i \in DOMAIN t2 : RowEntered(t2[i], marksRaced, en2)
  <2> SUFFICES ASSUME NEW i \in DOMAIN t2 PROVE RowEntered(t2[i], marksRaced, en2)
    OBVIOUS
  <2>1. CASE i <= Len(t)
    BY <1>8, <1>15, <2>1
  <2>2. CASE ~(i <= Len(t))
    <3>1. i - Len(t) \in 1 .. Len(s.new) /\ Len(t) + (i - Len(t)) = i
      BY <1>8, <2>2
    <3> QED BY <1>16, <3>1
  <2> QED BY <2>1, <2>2
<1>18. ASSUME NEW i \in DOMAIN t2, NEW j \in DOMAIN t2,
              t2[i].key = t2[j].key, t2[i].key \notin marksRaced
       PROVE  i = j
  <2> DEFINE k == t2[i].key
  <2>1. i \in RowsOf(t2, k) /\ j \in RowsOf(t2, k)
    BY <1>18 DEF RowsOf
  <2>2. k \notin marksRaced
    BY <1>18
  <2> HIDE DEF k
  <2>3. CASE \E h \in DOMAIN s.new : s.new[h].key = k
    <3>1. PICK h \in DOMAIN s.new : s.new[h].key = k
      BY <2>3
    <3>2. RowsOf(t, k) = {} /\ \A g \in DOMAIN s.new : s.new[g].key = k => g = h
      BY <1>2, <2>2, <3>1 DEF SheetStaged
    <3>3. NewOf(s, k) = {h}
      BY <3>1, <3>2 DEF NewOf
    <3> QED BY <1>9, <2>1, <3>2, <3>3
  <2>4. CASE ~ \E h \in DOMAIN s.new : s.new[h].key = k
    <3>1. NewOf(s, k) = {}
      BY <2>4 DEF NewOf
    <3>2. i \in RowsOf(t, k) /\ j \in RowsOf(t, k)
      BY <1>9, <2>1, <3>1
    <3> QED BY <1>3, <2>2, <3>2 DEF RowsOf
  <2> QED BY <2>3, <2>4
<1>19. ASSUME NEW d \in Clients, d # c
       PROVE  SheetStaged(t2, marksList[d], marksDone[d], marksSession[d], marksRaced)
  <2>1. SheetStaged(t, marksList[d], marksDone[d], marksSession[d], marksRaced)
    BY DEF SheetInv, SheetWorking, t
  <2>2. ASSUME NEW u \in marksSession[d].dirty
        PROVE  /\ u.row \in DOMAIN t2 /\ FromList(marksList[d], marksDone[d], t2[u.row].key, u.now)
               /\ t2[u.row].key \notin marksRaced => u.read = t2[u.row].cols
    <3>1. /\ u.row \in DOMAIN t /\ FromList(marksList[d], marksDone[d], t[u.row].key, u.now)
          /\ t[u.row].key \notin marksRaced => u.read = t[u.row].cols
      BY <2>1 DEF SheetStaged
    <3>2. u.row \in 1 .. Len(t) /\ u.row \in DOMAIN t2 /\ t2[u.row].key = t[u.row].key
      BY <1>8, <1>10, <3>1
    <3>3. ASSUME t[u.row].key \notin marksRaced, NEW v \in s.dirty, v.row = u.row
          PROVE  FALSE
      <4>1. FromList(marksList[c], marksDone[c], t[u.row].key, v.now)
        BY <1>2, <3>3 DEF SheetStaged
      <4> QED BY <1>4, <1>5, <1>19, <3>1, <3>3, <4>1, FromListKey
    <3>4. t[u.row].key \notin marksRaced => t2[u.row] = t[u.row]
      BY <1>8, <3>2, <3>3
    <3> QED BY <3>1, <3>2, <3>4
  <2>3. ASSUME NEW j \in DOMAIN marksSession[d].new, marksSession[d].new[j].key \notin marksRaced
        PROVE  RowsOf(t2, marksSession[d].new[j].key) = {}
    <3> DEFINE k == marksSession[d].new[j].key
    <3>1. /\ FromList(marksList[d], marksDone[d], k, marksSession[d].new[j].cols)
          /\ RowsOf(t, k) = {} /\ k \notin marksRaced
      BY <2>1, <2>3 DEF SheetStaged
    <3> HIDE DEF k
    <3>2. NewOf(s, k) = {}
      <4> SUFFICES ASSUME NEW h \in DOMAIN s.new, s.new[h].key = k PROVE FALSE
        BY DEF NewOf
      <4>1. FromList(marksList[c], marksDone[c], k, s.new[h].cols)
        BY <1>2 DEF SheetStaged
      <4> QED BY <1>4, <1>5, <1>19, <3>1, <4>1, FromListKey
    <3>3. RowsOf(t2, k) = {}
      BY <1>9, <3>1, <3>2
    <3> QED BY <3>3 DEF k
  <2> QED BY <2>1, <2>2, <2>3 DEF SheetStaged
<1> QED BY <1>8, <1>17, <1>18, <1>19

LEMMA CommitKeeps ==
  ASSUME Sheets!ConstantsFit, SheetInv, NEW c \in Clients, Sheets!Commit(c)
  PROVE  SheetInv'
<1>1. SheetTyped /\ SheetRaces /\ SheetWorking
  BY DEF SheetInv
<1>2. /\ marksTable' = Flush(marksTable, marksSession[c])
      /\ marksPc' = [marksPc EXCEPT ![c] = "answer"]
      /\ marksList' = [marksList EXCEPT ![c] = << >>]
      /\ marksDone' = [marksDone EXCEPT ![c] = 0]
      /\ marksSession' = [marksSession EXCEPT ![c] = NoChanges]
      /\ UNCHANGED <<marksBulk, marksReply>>
      /\ marksRaced' = marksRaced
  BY SameSession DEF Sheets!Commit, Sheets!Settled
<1>3. /\ entered' = entered \cup { [key |-> Sheets!Key(marksList[c][i]), cols |-> marksList[c][i].cols] :
                                     i \in Sheets!Known(marksList[c]) }
  BY DEF Sheets!Commit
<1>4. \A k, cols : FromList(marksList[c], marksDone[c], k, cols) =>
        [key |-> k, cols |-> cols] \in entered'
  BY <1>3 DEF FromList
<1>5. entered \subseteq entered'
  BY <1>3
<1>6. /\ marksTable' \in Seq(SheetRow)
      /\ \A i \in DOMAIN marksTable' : RowEntered(marksTable'[i], marksRaced, entered')
      /\ \A i, j \in DOMAIN marksTable' :
           marksTable'[i].key = marksTable'[j].key /\ marksTable'[i].key \notin marksRaced => i = j
      /\ \A d \in Clients : d # c =>
           SheetStaged(marksTable', marksList[d], marksDone[d], marksSession[d], marksRaced)
  BY <1>2, <1>4, <1>5, CommittedTable
<1>7. \A d \in Clients :
        /\ marksList'[d] = IF d = c THEN << >> ELSE marksList[d]
        /\ marksDone'[d] = IF d = c THEN 0 ELSE marksDone[d]
        /\ marksSession'[d] = IF d = c THEN NoChanges ELSE marksSession[d]
  BY <1>1, <1>2 DEF SheetTyped
<1>8. SheetTyped'
  <2>1. Len(<< >>) = 0
    OBVIOUS
  <2>2. /\ marksPc' \in [Clients -> {"idle", "lookup", "answer"}]
        /\ marksList' \in [Clients -> SheetLists \cup {<< >>}]
        /\ marksBulk' \in [Clients -> BOOLEAN]
        /\ marksDone' \in [Clients -> Nat]
        /\ marksSession' \in [Clients -> SheetSession]
        /\ marksReply' \in [Clients -> {"none", "ok", "error"}]
    BY <1>1, <1>2, NothingHeld DEF SheetTyped
  <2>3. \A d \in Clients : marksDone'[d] <= Len(marksList'[d])
    BY <1>1, <1>7, <2>1 DEF SheetTyped
  <2>4. \A d \in Clients : OneChangeEach(marksSession'[d])
    BY <1>1, <1>7, NothingHeld DEF SheetTyped
  <2>5. (\A d \in Clients : OneChangeEach(marksSession[d]))'
    BY <2>4 DEF OneChangeEach
  <2>6. \A d \in Clients : marksPc'[d] # "lookup" =>
          marksList'[d] = << >> /\ marksDone'[d] = 0 /\ marksSession'[d] = NoChanges
    BY <1>1, <1>2, <1>7 DEF SheetTyped
  <2> QED BY <1>6, <2>2, <2>3, <2>5, <2>6 DEF SheetTyped
<1>9. SheetRaces'
  <2>1. \A d \in Clients : marksList'[d] = marksList[d] \/ marksList'[d] = << >>
    BY <1>7
  <2> QED BY <1>1, <1>2, <2>1, NothingHeld, RacesNext DEF SheetRaces
<1>10. SheetWorking'
  <2>1. SheetWorking' <=> \A d \in Clients :
          SheetStaged(marksTable', marksList'[d], marksDone'[d], marksSession'[d], marksRaced')
    BY DEF SheetWorking
  <2>2. ASSUME NEW d \in Clients
        PROVE  SheetStaged(marksTable', marksList'[d], marksDone'[d], marksSession'[d], marksRaced')
    <3>1. CASE d = c
      BY <1>7, <3>1, NothingHeld
    <3>2. CASE d # c
      BY <1>2, <1>6, <1>7, <3>2
    <3> QED BY <3>1, <3>2
  <2> QED BY <2>1, <2>2
<1>11. SheetEntered'
  <2>1. (\A i \in DOMAIN marksTable : RowEntered(marksTable[i], marksRaced, entered))'
    BY <1>2, <1>6 DEF RowEntered
  <2> QED BY <1>2, <1>6, <2>1 DEF SheetEntered
<1> QED BY <1>8, <1>9, <1>10, <1>11 DEF SheetInv

LEMMA SheetInit ==
  ASSUME Sheets!Init
  PROVE  SheetInv
<1>1. /\ marksTable = << >> /\ marksPc = [c \in Clients |-> "idle"]
      /\ marksList = [c \in Clients |-> << >>] /\ marksBulk = [c \in Clients |-> FALSE]
      /\ marksDone = [c \in Clients |-> 0] /\ marksSession = [c \in Clients |-> NoChanges]
      /\ marksReply = [c \in Clients |-> "none"]
  BY SameSession DEF Sheets!Init
<1>2. marksTable \in Seq(SheetRow) /\ DOMAIN marksTable = {} /\ Len(<< >>) = 0
  BY <1>1
<1>3. SheetTyped
  BY <1>1, <1>2, NothingHeld DEF SheetTyped
<1>4. SheetRaces
  BY <1>1, NothingHeld DEF SheetRaces
<1>5. SheetWorking
  BY <1>1, NothingHeld DEF SheetWorking
<1>6. SheetEntered
  BY <1>2 DEF SheetEntered
<1> QED BY <1>3, <1>4, <1>5, <1>6 DEF SheetInv

LEMMA SheetStep ==
  ASSUME Sheets!ConstantsFit
  PROVE  SheetInv /\ [Sheets!Next]_(Sheets!vars) => SheetInv'
<1> SUFFICES ASSUME SheetInv, [Sheets!Next]_(Sheets!vars) PROVE SheetInv'
  OBVIOUS
<1>1. ASSUME NEW c \in Clients,
             \/ Sheets!EnterMarks(c) \/ Sheets!EnterBulkMarks(c)
             \/ Sheets!Lookup(c) \/ Sheets!Commit(c) \/ Sheets!Answer(c) \/ Sheets!DatabaseLocked(c)
      PROVE  SheetInv'
  <2>1. CASE Sheets!EnterMarks(c)
    BY <2>1, ArriveKeeps DEF Sheets!EnterMarks
  <2>2. CASE Sheets!EnterBulkMarks(c)
    BY <2>2, ArriveKeeps DEF Sheets!EnterBulkMarks
  <2>3. CASE Sheets!Lookup(c)
    BY <2>3, LookupKeeps
  <2>4. CASE Sheets!Commit(c)
    BY <2>4, CommitKeeps
  <2>5. CASE Sheets!DatabaseLocked(c)
    BY <2>5, FailsKeeps DEF Sheets!DatabaseLocked
  <2>6. CASE Sheets!Answer(c)
    BY <2>6, AnsweredKeeps
  <2> QED BY <1>1, <2>1, <2>2, <2>3, <2>4, <2>5, <2>6
<1>2. CASE UNCHANGED Sheets!vars
  <2>1. UNCHANGED <<marksTable, marksPc, marksList, marksBulk, marksDone, marksSession, marksReply,
                    marksRaced, entered>>
    BY <1>2 DEF Sheets!vars, Sheets!history
  <2>2. SheetTyped'
    BY <2>1 DEF SheetInv, SheetTyped, OneChangeEach
  <2>3. SheetRaces'
    BY <2>1, RacesNext DEF SheetInv, SheetRaces
  <2>4. \A c \in Clients : SheetStaged(marksTable, marksList'[c], marksDone'[c], marksSession'[c],
                                       marksRaced')
    BY <2>1 DEF SheetInv, SheetWorking
  <2> QED BY <2>1, <2>2, <2>3, <2>4, TableStays
<1> QED BY <1>1, <1>2, RestartKeeps DEF Sheets!Next

LEMMA SheetAlways ==
  ASSUME Sheets!ConstantsFit
  PROVE  Sheets!Spec => []SheetInv
<1>1. Sheets!Init => SheetInv
  BY SheetInit
<1> QED BY <1>1, SheetStep, PTL DEF Sheets!Spec

LEMMA SheetTypesFollow ==
  ASSUME Sheets!ConstantsFit, SheetInv
  PROVE  Sheets!TypeOK
<1>1. SheetTyped /\ SheetWorking
  BY DEF SheetInv
<1>2. ASSUME NEW c \in Clients
      PROVE  /\ marksDone[c] \in 0 .. Len(marksList[c])
             /\ marksSession[c].new \in Seq([key : Sheets!Keys, cols : Sheets!Columns])
             /\ \A u \in marksSession[c].dirty : /\ u.row \in DOMAIN marksTable
                                                 /\ {u.read, u.now} \subseteq Sheets!Columns
  <2>1. /\ marksDone[c] \in Nat /\ marksDone[c] <= Len(marksList[c])
        /\ marksList[c] \in SheetLists \cup {<< >>} /\ marksSession[c] \in SheetSession
    BY <1>1 DEF SheetTyped
  <2>2. Len(marksList[c]) \in Nat
    BY <2>1, EntryFacts
  <2>3. /\ marksSession[c].new \in Seq([key : Sheets!Keys, cols : Sheets!Columns])
        /\ marksSession[c].dirty \in SUBSET ChangeSet(Sheets!Columns)
    BY <2>1 DEF SheetSession, SessionSet, RowSet
  <2>4. \A u \in marksSession[c].dirty : u.row \in DOMAIN marksTable
    BY <1>1 DEF SheetWorking, SheetStaged
  <2>5. \A u \in marksSession[c].dirty : {u.read, u.now} \subseteq Sheets!Columns
    BY <2>3 DEF ChangeSet
  <2> QED BY <2>1, <2>2, <2>3, <2>4, <2>5
<1>3. marksTable \in Seq([key : Sheets!Keys, cols : Sheets!Columns])
  BY <1>1 DEF SheetTyped, SheetRow, RowSet
<1> QED BY <1>1, <1>2, <1>3 DEF SheetTyped, Sheets!TypeOK

LEMMA SheetReadersFollow ==
  ASSUME SheetInv
  PROVE  Sheets!ReadersAgree
<1> SUFFICES ASSUME NEW u \in Enrolled, NEW x \in Sheets!StudentSheet(u),
                    [usn |-> u, subject |-> x.subject] \notin marksRaced
             PROVE  x.total = Sheets!SubjectTotal(u, x.subject)
  BY DEF Sheets!ReadersAgree
<1>1. PICK i \in DOMAIN marksTable :
         /\ marksTable[i].key.usn = u
         /\ x = [subject |-> marksTable[i].key.subject, total |-> Sheets!Total(marksTable[i].cols),
                 row |-> i]
  BY DEF Sheets!StudentSheet
<1>2. x.subject = marksTable[i].key.subject /\ x.total = Sheets!Total(marksTable[i].cols)
  BY <1>1
<1> DEFINE k == [usn |-> u, subject |-> x.subject]
<1>3. marksTable \in Seq(SheetRow)
  BY DEF SheetInv, SheetTyped
<1>4. marksTable[i].key = k
  <2>1. marksTable[i].key \in Sheets!Keys
    <3>1. marksTable[i] \in SheetRow
      BY <1>3
    <3> QED BY <3>1 DEF SheetRow, RowSet
  <2> QED BY <1>1, <1>2, <2>1 DEF Sheets!Keys
<1>5. Sheets!SubjectTotal(u, x.subject) =
        IF Sheets!RowsOf(marksTable, k) = {} THEN 0
        ELSE Sheets!Total(marksTable[Sheets!FirstRow(marksTable, k)].cols)
  BY DEF Sheets!SubjectTotal
<1>6. k \notin marksRaced
  OBVIOUS
<1> HIDE DEF k
<1>7. RowsOf(marksTable, k) = {i}
  BY <1>4, <1>6 DEF RowsOf, SheetInv, SheetEntered
<1>8. FirstRow(marksTable, k) = i
  <2>1. DOMAIN marksTable \in SUBSET Nat
    BY <1>3
  <2> QED BY <1>7, <2>1, FirstRowIsLeast
<1> QED BY <1>2, <1>5, <1>7, <1>8, SameSession

LEMMA SheetFollows ==
  ASSUME Sheets!ConstantsFit, SheetInv
  PROVE  Sheets!SheetOK /\ Sheets!ColumnsEntered
<1>1. Sheets!RowsEnteredWhole /\ Sheets!ColumnsEntered
  BY DEF SheetInv, SheetEntered, RowEntered, Sheets!RowsEnteredWhole, Sheets!ColumnsEntered
<1> QED BY <1>1, SheetTypesFollow, SheetReadersFollow DEF Sheets!SheetOK

\* A row of marks that no two requests raced for holds marks that were entered together
\* and confirmed, and whoever reads it finds the same row (enter_marks, enter_bulk_marks
\* and the readers of routers/marks.py).
THEOREM SheetAlwaysOK == Sheets!Spec => []SheetOK
<1>1. Sheets!ConstantsFit
  BY SheetsAssumption
<1>2. SheetInv => SheetOK
  BY <1>1, SheetFollows DEF SheetOK
<1>3. Sheets!Spec => []SheetInv
  BY <1>1, SheetAlways
<1> QED BY <1>2, <1>3, PTL

\* Even where requests race, each column of a row of marks holds what a confirmed request
\* entered in it (enter_marks, enter_bulk_marks).
THEOREM ColumnsAlwaysEntered == Sheets!Spec => []ColumnsEntered
<1>1. Sheets!ConstantsFit
  BY SheetsAssumption
<1>2. SheetInv => ColumnsEntered
  BY <1>1, SheetFollows DEF ColumnsEntered
<1>3. Sheets!Spec => []SheetInv
  BY <1>1, SheetAlways
<1> QED BY <1>2, <1>3, PTL

-----------------------------------------------------------------------------
(***************************************************************************)
(* The quizzes, for any number of students, teachers, readers and quizzes. *)
(*                                                                         *)
(* The argument (QuizInv).  Every pair of an id and a quiz that a list, an *)
(* order, an open quiz, a post, an attempt or a report speaks of was once  *)
(* a row of the table; so when the id was not given twice it names one     *)
(* quiz (OneRow), which gives the promises on attempts, reports and        *)
(* deletions.  An id is never greater than the requests that are done      *)
(* (DeskOK), so the ids stay within the bound.  A teacher nothing came in  *)
(* the way of has one request under way at most, and the list it was sent  *)
(* with, or the list its response will set, is the table (CalmOK).  Tries  *)
(* and best of an entry are below the count of the attempts saved and are  *)
(* the score of one, both of which more attempts leave true (ListedStays). *)
(***************************************************************************)
\* Cardinality as the module Quizzes has it.
LEMMA SameCardinality == \A S : Quiz!Cardinality(S) = Cardinality(S)
BY DEF Quiz!Cardinality, Cardinality

\* The row of a quiz under an id.
RowOf(id, quiz) == [id |-> id, quiz |-> quiz]

\* What teachers asked for, and what they are to show, is of rows that were given.
OrderOK(o) ==
  /\ o.teacher \in Teachers /\ o.kind \in {"create", "delete", "fetch"}
  /\ o.shown \in SUBSET given
  /\ o.kind = "create" => o.row.quiz \in Contents
  /\ o.kind = "delete" => o.row \in given
AnswerOK(a) == a.teacher \in Teachers /\ a.rows \in SUBSET given

\* No id is given that is in use, and each that was given has used up a request.
DeskOK ==
  /\ quizzes \subseteq given /\ given \subseteq Quiz!Row
  /\ \A r1, r2 \in quizzes : r1.id = r2.id => r1 = r2
  /\ board \in [Teachers -> SUBSET given] /\ calm \in SUBSET Teachers
  /\ IsFiniteSet(orders) /\ \A o \in orders : OrderOK(o)
  /\ \A a \in answers : AnswerOK(a)
  /\ sent \in 0 .. MaxOrders /\ Cardinality(orders) <= sent
  /\ \A r \in given : r.id + Cardinality(orders) <= sent

\* A teacher nothing came in the way of has one request under way at most, and it or
\* its response holds the table as it is.
CalmOK ==
  \A t \in calm :
    /\ \A x, y \in orders : x.teacher = t /\ y.teacher = t => x = y
    /\ \A x, y \in answers : x.teacher = t /\ y.teacher = t => x = y
    /\ \A x \in orders, y \in answers : ~(x.teacher = t /\ y.teacher = t)
    /\ (\A a \in answers : a.teacher # t) => board[t] = quizzes
    /\ \A o \in orders : o.teacher = t => o.shown = quizzes
    /\ \A a \in answers : a.teacher = t => a.rows = quizzes

\* The attempts of a student that are saved under an id.
Saved(s, id) == { i \in DOMAIN attempts : attempts[i].student = s /\ attempts[i].quiz_id = id }

\* Entries of a student's list, and requests under way.
Listed == [id : Nat, quiz : Contents, tries : Nat, best : Nat]
Posting == [student : Students, click : Nat, stage : {"sent", "saved"}, page : BOOLEAN,
            quiz_id : Nat, score : Nat, total : Nat, answered : Contents]
Fetching == [student : Students, stage : {"sent", "quizzes", "answered"}, rows : SUBSET Quiz!Row,
             entries : SUBSET Listed, click : Nat]

\* What a list says of a quiz for a student, an attempt, a post, a request for the
\* list: the quiz answered was given the id under which it is posted.
ListedOK(s, e) ==
  /\ RowOf(e.id, e.quiz) \in given
  /\ e \in Listed /\ e.tries <= Cardinality(Saved(s, e.id))
  /\ e.best = 0 \/ \E i \in Saved(s, e.id) : attempts[i].score = e.best
AttemptOK(a) == RowOf(a.quiz_id, a.answered) \in given /\ a.score <= Questions[a.answered]
PostOK(p) ==
  /\ p \in Posting /\ RowOf(p.quiz_id, p.answered) \in given
  /\ p.score <= Questions[p.answered]
GetOK(g) ==
  /\ g \in Fetching /\ g.rows \in SUBSET given
  /\ \A e \in g.entries : ListedOK(g.student, e)

ToSave == { p \in posts : p.stage = "sent" }
PupilsOK ==
  /\ attempts \in Seq(Quiz!Attempt) /\ \A i \in DOMAIN attempts : AttemptOK(attempts[i])
  /\ taking \in [Students -> given \cup {Nothing}]
  /\ listed = [s \in Students |-> listed[s]]
  /\ \A s \in Students : \A e \in listed[s] : ListedOK(s, e)
  /\ \A p \in posts : PostOK(p)
  /\ \A g \in gets : GetOK(g)
  /\ IsFiniteSet(posts) /\ clicks \in 0 .. MaxClicks
  /\ Len(attempts) + Cardinality(ToSave) <= clicks

\* A report is of a row that was given, with attempts under its id.
Reported == [row : Quiz!Row, read : BOOLEAN, attempts : SUBSET Nat]
ReportOf(x) ==
  /\ x \in Reported /\ x.row \in given
  /\ \A i \in x.attempts : i \in DOMAIN attempts /\ attempts[i].quiz_id = x.row.id
ReportOK ==
  /\ report = [t \in Readers |-> report[t]]
  /\ \A t \in Readers : report[t] # Nothing => ReportOf(report[t])

QuizInv == DeskOK /\ CalmOK /\ PupilsOK /\ ReportOK
-----------------------------------------------------------------------------
\* What a list says stays true when more rows are given and more attempts saved.
Grows == /\ given \subseteq given'
         /\ attempts' = attempts \/ \E x \in Quiz!Attempt : attempts' = Append(attempts, x)

LEMMA Appended ==
  ASSUME attempts \in Seq(Quiz!Attempt), Grows
  PROVE  /\ attempts' \in Seq(Quiz!Attempt) /\ Len(attempts) \in Nat
         /\ DOMAIN attempts = 1 .. Len(attempts) /\ DOMAIN attempts' = 1 .. Len(attempts')
         /\ \A i \in DOMAIN attempts : i \in DOMAIN attempts' /\ attempts'[i] = attempts[i]
BY DEF Grows

LEMMA PlacesFinite ==
  ASSUME NEW n \in Nat, NEW S \in SUBSET (1 .. n)
  PROVE  IsFiniteSet(S) /\ Cardinality(S) \in Nat
<1>1. 1 \in Int /\ n \in Int
  OBVIOUS
<1>2. IsFiniteSet(1 .. n)
  BY <1>1, FS_Interval
<1>3. IsFiniteSet(S)
  BY <1>2, FS_Subset
<1> QED BY <1>3, FS_CardinalityType

LEMMA SavedFinite ==
  ASSUME attempts \in Seq(Quiz!Attempt), NEW s, NEW id
  PROVE  IsFiniteSet(Saved(s, id)) /\ Cardinality(Saved(s, id)) \in Nat
<1>1. Saved(s, id) \in SUBSET (1 .. Len(attempts)) /\ Len(attempts) \in Nat
  BY DEF Saved
<1> QED BY <1>1, PlacesFinite

LEMMA ListedStays ==
  ASSUME attempts \in Seq(Quiz!Attempt), Grows, NEW s, NEW e, ListedOK(s, e)
  PROVE  ListedOK(s, e)'
<1>1. \A i \in Saved(s, e.id) : i \in Saved(s, e.id)' /\ attempts'[i] = attempts[i]
  BY Appended DEF Saved
<1>2. attempts' \in Seq(Quiz!Attempt)
  BY Appended
<1>3. IsFiniteSet(Saved(s, e.id)') /\ Cardinality(Saved(s, e.id)') \in Nat
  <2>1. Saved(s, e.id)' \in SUBSET (1 .. Len(attempts')) /\ Len(attempts') \in Nat
    BY <1>2 DEF Saved
  <2> QED BY <2>1, PlacesFinite
<1>4. Cardinality(Saved(s, e.id)) \in Nat
  BY SavedFinite
<1>5. Cardinality(Saved(s, e.id)) <= Cardinality(Saved(s, e.id)')
  <2>1. Saved(s, e.id) \in SUBSET Saved(s, e.id)'
    BY <1>1
  <2> QED BY <1>3, <2>1, FS_Subset
<1>6. e.tries <= Cardinality(Saved(s, e.id)')
  <2>1. e.tries \in Nat /\ e.tries <= Cardinality(Saved(s, e.id))
    BY DEF ListedOK, Listed
  <2> QED BY <1>3, <1>4, <1>5, <2>1
<1>7. e.best = 0 \/ \E i \in Saved(s, e.id)' : attempts'[i].score = e.best
  BY <1>1 DEF ListedOK
<1>8. RowOf(e.id, e.quiz) \in given'
  BY DEF ListedOK, Grows
<1>9. ListedOK(s, e)' <=> /\ RowOf(e.id, e.quiz) \in given' /\ e \in Listed
                          /\ e.tries <= Cardinality(Saved(s, e.id)')
                          /\ e.best = 0 \/ \E i \in Saved(s, e.id)' : attempts'[i].score = e.best
  BY DEF ListedOK, RowOf, Listed
<1> QED BY <1>6, <1>7, <1>8, <1>9 DEF ListedOK

LEMMA RowsStay ==
  ASSUME given \subseteq given'
  PROVE  /\ \A a : AttemptOK(a) => AttemptOK(a)'
         /\ \A p : PostOK(p) => PostOK(p)'
         /\ \A o : OrderOK(o) => OrderOK(o)'
         /\ \A a : AnswerOK(a) => AnswerOK(a)'
BY DEF AttemptOK, PostOK, OrderOK, AnswerOK, RowOf, Posting

LEMMA GetStays ==
  ASSUME attempts \in Seq(Quiz!Attempt), Grows, NEW g, GetOK(g)
  PROVE  GetOK(g)'
<1>1. \A e \in g.entries : ListedOK(g.student, e)'
  BY ListedStays DEF GetOK
<1> QED BY <1>1 DEF GetOK, Grows

\* More quizzes change nothing for the students and the reports.
LEMMA PupilsStay ==
  ASSUME PupilsOK, ReportOK, given \subseteq given',
         UNCHANGED <<attempts, Quiz!pages, Quiz!network, report, clicks>>
  PROVE  PupilsOK' /\ ReportOK'
<1>1. Grows /\ UNCHANGED <<listed, taking, posts, gets>>
  BY DEF Grows, Quiz!pages, Quiz!network
<1>2. attempts \in Seq(Quiz!Attempt)
  BY DEF PupilsOK
<1>3. (\A i \in DOMAIN attempts : AttemptOK(attempts[i]))'
  BY DEF PupilsOK, AttemptOK, RowOf
<1>4. \A s \in Students : \A e \in listed'[s] : ListedOK(s, e)'
  BY <1>1, <1>2, ListedStays DEF PupilsOK
<1>5. (\A p \in posts' : PostOK(p)') /\ (\A g \in gets' : GetOK(g)')
  BY <1>1, <1>2, RowsStay, GetStays DEF PupilsOK
<1>6. taking' \in [Students -> given' \cup {Nothing}]
  BY <1>1 DEF PupilsOK
<1>7. ToSave' = ToSave
  BY <1>1 DEF ToSave
<1>8. PupilsOK'
  BY <1>1, <1>3, <1>4, <1>5, <1>6, <1>7 DEF PupilsOK
<1>9. ReportOK'
  BY DEF ReportOK, ReportOf
<1> QED BY <1>8, <1>9

\* The steps of the desk change none of what the students and the readers have.
Desk == given \subseteq given' /\ UNCHANGED <<attempts, Quiz!pages, Quiz!network, report, clicks>>

LEMMA BoardTyped ==
  ASSUME DeskOK, Quiz!ConstantsFit, NEW t \in Teachers
  PROVE  board[t] \in SUBSET given /\ sent \in Nat /\ MaxOrders \in Nat
BY DEF DeskOK, Quiz!ConstantsFit

LEMMA SendKeeps ==
  ASSUME Quiz!ConstantsFit, DeskOK, CalmOK, NEW t \in Teachers,
         NEW kind \in {"create", "delete", "fetch"}, NEW row, Quiz!Send(t, kind, row),
         kind = "create" => row.quiz \in Contents, kind = "delete" => row \in given
  PROVE  Desk /\ DeskOK' /\ CalmOK'
<1>1. PICK o : /\ o = [n |-> sent', teacher |-> t, kind |-> kind, row |-> row, shown |-> board[t]]
               /\ orders' = orders \cup {o}
  BY DEF Quiz!Send
<1>2. /\ o.teacher = t /\ o.kind = kind /\ o.row = row /\ o.shown = board[t]
  BY <1>1
<1>3. /\ sent' = sent + 1 /\ sent < MaxOrders
      /\ calm' = IF Quiz!UnderWay(t) = {} THEN calm ELSE calm \ {t}
      /\ UNCHANGED <<quizzes, given, board, answers>>
      /\ UNCHANGED <<attempts, Quiz!pages, Quiz!network, report, clicks>>
  BY DEF Quiz!Send, Quiz!tables
<1>4. board[t] \in SUBSET given /\ sent \in Nat /\ MaxOrders \in Nat
  BY BoardTyped
<1>5. OrderOK(o)
  BY <1>2, <1>4 DEF OrderOK
<1>6. /\ IsFiniteSet(orders') /\ Cardinality(orders') <= Cardinality(orders) + 1
      /\ Cardinality(orders) \in Nat /\ Cardinality(orders') \in Nat
  <2>1. IsFiniteSet(orders) /\ Cardinality(orders) \in Nat
    BY FS_CardinalityType DEF DeskOK
  <2>2. /\ IsFiniteSet(orders')
        /\ Cardinality(orders') = IF o \in orders THEN Cardinality(orders) ELSE Cardinality(orders) + 1
    BY <1>1, <2>1, FS_AddElement
  <2> QED BY <2>1, <2>2
<1>7. DeskOK'
  <2>1. \A x \in orders' : OrderOK(x)'
    BY <1>1, <1>3, <1>5 DEF DeskOK, OrderOK
  <2>2. \A a \in answers' : AnswerOK(a)'
    BY <1>3 DEF DeskOK, AnswerOK
  <2>3. \A r \in given' : r.id + Cardinality(orders') <= sent'
    <3> SUFFICES ASSUME NEW r \in given PROVE r.id + Cardinality(orders') <= sent'
      BY <1>3
    <3>1. r.id \in Nat /\ r.id + Cardinality(orders) <= sent
      BY DEF DeskOK, Quiz!Row
    <3> QED BY <1>3, <1>4, <1>6, <3>1
  <2>4. sent' \in 0 .. MaxOrders /\ Cardinality(orders') <= sent'
    <3>1. Cardinality(orders) <= sent
      BY DEF DeskOK
    <3> QED BY <1>3, <1>4, <1>6, <3>1
  <2>5. calm' \in SUBSET Teachers
    BY <1>3 DEF DeskOK
  <2> QED BY <1>3, <1>6, <2>1, <2>2, <2>3, <2>4, <2>5 DEF DeskOK
<1>8. CalmOK'
  <2> SUFFICES ASSUME NEW u \in calm'
               PROVE  /\ \A x, y \in orders' : x.teacher = u /\ y.teacher = u => x = y
                      /\ \A x, y \in answers' : x.teacher = u /\ y.teacher = u => x = y
                      /\ \A x \in orders', y \in answers' : ~(x.teacher = u /\ y.teacher = u)
                      /\ (\A a \in answers' : a.teacher # u) => board'[u] = quizzes'
                      /\ \A x \in orders' : x.teacher = u => x.shown = quizzes'
                      /\ \A a \in answers' : a.teacher = u => a.rows = quizzes'
    BY DEF CalmOK
  <2>1. u \in calm /\ (u = t => Quiz!UnderWay(t) = {})
    BY <1>3
  <2>2. CASE u = t
    <3>1. /\ \A x \in orders : x.teacher # t
          /\ \A a \in answers : a.teacher # t
      BY <2>1, <2>2 DEF Quiz!UnderWay
    <3>2. board[t] = quizzes
      BY <2>1, <2>2, <3>1 DEF CalmOK
    <3> QED BY <1>1, <1>2, <1>3, <2>2, <3>1, <3>2
  <2>3. CASE u # t
    <3>1. \A x \in orders' : x.teacher = u => x \in orders
      BY <1>1, <1>2, <2>3
    <3> QED BY <1>3, <2>1, <3>1 DEF CalmOK
  <2> QED BY <2>2, <2>3
<1> QED BY <1>3, <1>7, <1>8 DEF Desk

LEMMA AskKeeps ==
  ASSUME Quiz!ConstantsFit, DeskOK, CalmOK, NEW t \in Teachers, Quiz!Ask(t)
  PROVE  Desk /\ DeskOK' /\ CalmOK'
<1>1. CASE \E q \in Contents : Quiz!Send(t, "create", [id |-> 0, quiz |-> q])
  <2>1. PICK q \in Contents : Quiz!Send(t, "create", [id |-> 0, quiz |-> q])
    BY <1>1
  <2>2. [id |-> 0, quiz |-> q].quiz \in Contents
    OBVIOUS
  <2> QED BY <2>1, <2>2, SendKeeps
<1>2. CASE \E row \in board[t] : Quiz!Send(t, "delete", row)
  <2>1. PICK row \in board[t] : Quiz!Send(t, "delete", row)
    BY <1>2
  <2>2. row \in given
    BY BoardTyped
  <2> QED BY <2>1, <2>2, SendKeeps
<1>3. CASE Quiz!Send(t, "fetch", [id |-> 0])
  BY <1>3, SendKeeps
<1> QED BY <1>1, <1>2, <1>3 DEF Quiz!Ask

\* The server is done with o: the table is now q, of rows that were given, and the page
\* will show rows.  Whoever else is calm has seen no other table.
LEMMA AnswerKeeps ==
  ASSUME Quiz!ConstantsFit, DeskOK, CalmOK, NEW o \in orders, NEW rows,
         Quiz!Answer(o, rows), UNCHANGED <<board, sent>>,
         given \subseteq given', given' \subseteq Quiz!Row, quizzes' \subseteq given',
         \A r1, r2 \in quizzes' : r1.id = r2.id => r1 = r2,
         \A r \in given' : r.id + Cardinality(orders) - 1 <= sent,
         rows \subseteq given', o.shown = quizzes => rows = quizzes',
         calm' = calm \cap {o.teacher} \/ (calm' = calm /\ quizzes' = quizzes)
  PROVE  DeskOK' /\ CalmOK'
<1>1. PICK a : /\ a = [n |-> o.n, teacher |-> o.teacher, rows |-> rows]
               /\ orders' = orders \ {o} /\ answers' = answers \cup {a}
  BY DEF Quiz!Answer
<1>2. a.teacher = o.teacher /\ a.rows = rows
  BY <1>1
<1>3. OrderOK(o)
  BY DEF DeskOK
<1>4. /\ IsFiniteSet(orders') /\ Cardinality(orders') = Cardinality(orders) - 1
      /\ Cardinality(orders) \in Nat
  BY <1>1, FS_RemoveElement, FS_CardinalityType DEF DeskOK
<1>5. DeskOK'
  <2>1. \A x \in orders' : OrderOK(x)'
    BY <1>1, RowsStay DEF DeskOK
  <2>2. \A x \in answers' : AnswerOK(x)'
    <3>1. AnswerOK(a)'
      BY <1>2, <1>3 DEF AnswerOK, OrderOK
    <3> QED BY <1>1, <3>1, RowsStay DEF DeskOK
  <2>3. \A r \in given' : r.id + Cardinality(orders') <= sent'
    <3> SUFFICES ASSUME NEW r \in given' PROVE r.id + Cardinality(orders') <= sent'
      OBVIOUS
    <3>1. r.id \in Nat /\ r.id + Cardinality(orders) - 1 <= sent /\ sent \in Nat
      BY BoardTyped DEF Quiz!Row, DeskOK
    <3> QED BY <1>4, <3>1
  <2>4. board' \in [Teachers -> SUBSET given'] /\ calm' \in SUBSET Teachers
    BY DEF DeskOK
  <2>5. Cardinality(orders') <= sent' /\ sent' \in 0 .. MaxOrders
    <3>1. Cardinality(orders) <= sent /\ sent \in 0 .. MaxOrders
      BY DEF DeskOK
    <3> QED BY <1>4, <3>1
  <2> QED BY <1>4, <2>1, <2>2, <2>3, <2>4, <2>5 DEF DeskOK
<1>6. CalmOK'
  <2> SUFFICES ASSUME NEW u \in calm'
               PROVE  /\ \A x, y \in orders' : x.teacher = u /\ y.teacher = u => x = y
                      /\ \A x, y \in answers' : x.teacher = u /\ y.teacher = u => x = y
                      /\ \A x \in orders', y \in answers' : ~(x.teacher = u /\ y.teacher = u)
                      /\ (\A y \in answers' : y.teacher # u) => board'[u] = quizzes'
                      /\ \A x \in orders' : x.teacher = u => x.shown = quizzes'
                      /\ \A y \in answers' : y.teacher = u => y.rows = quizzes'
    BY DEF CalmOK
  <2>1. u \in calm
    OBVIOUS
  <2>2. CASE u = o.teacher
    <3>1. /\ \A x \in orders' : x.teacher # u
          /\ \A y \in answers : y.teacher # u
          /\ o.shown = quizzes
      BY <1>1, <2>1, <2>2 DEF CalmOK
    <3>2. /\ \A y \in answers' : y.teacher = u <=> y = a
          /\ a \in answers' /\ a.rows = quizzes'
      BY <1>1, <1>2, <2>2, <3>1
    <3> QED BY <3>1, <3>2
  <2>3. CASE u # o.teacher
    <3>1. quizzes' = quizzes
      BY <2>3
    <3>2. /\ \A x \in orders' : x \in orders
          /\ \A y \in answers' : y.teacher = u => y \in answers
          /\ \A y \in answers : y \in answers'
      BY <1>1, <1>2, <2>3
    <3> QED BY <2>1, <3>1, <3>2 DEF CalmOK
  <2> QED BY <2>2, <2>3
<1> QED BY <1>5, <1>6

\* The id that SQLite gives is greater than any in use.
LEMMA NextIdIsNew ==
  ASSUME Quiz!ConstantsFit, DeskOK, NEW o \in orders
  PROVE  /\ Quiz!NextId \in 1 .. MaxOrders /\ \A r \in quizzes : r.id < Quiz!NextId
         /\ Quiz!NextId + Cardinality(orders) - 1 <= sent
<1>1. \A r \in quizzes : r.id \in Nat /\ r.id + Cardinality(orders) <= sent
  BY DEF DeskOK, Quiz!Row
<1>2. /\ Cardinality(orders) \in Nat /\ Cardinality(orders) # 0
      /\ sent \in Nat /\ MaxOrders \in Nat /\ sent <= MaxOrders
  <2>1. Cardinality(orders) \in Nat /\ (Cardinality(orders) = 0 <=> orders = {})
    BY FS_CardinalityType, FS_EmptySet DEF DeskOK
  <2> QED BY <2>1 DEF DeskOK, Quiz!ConstantsFit
<1>3. Cardinality(orders) <= sent
  BY DEF DeskOK
<1>4. CASE Quiz!Ids = {}
  <2>1. Quiz!NextId = 1 /\ quizzes = {}
    BY <1>4 DEF Quiz!NextId, Quiz!Ids
  <2> QED BY <1>2, <1>3, <2>1
<1>5. CASE Quiz!Ids # {}
  <2>1. \A r \in quizzes : r.id \in Quiz!Ids
    BY DEF Quiz!Ids
  <2>2. Quiz!Ids \in SUBSET Nat /\ \A i \in Quiz!Ids : i <= sent
    BY <1>1, <1>2 DEF Quiz!Ids
  <2>3. IsFiniteSet(Quiz!Ids)
    BY <1>2, <2>2, FS_BoundedSetOfNaturals
  <2>4. \E i \in Quiz!Ids : \A j \in Quiz!Ids : j <= i
    BY <1>5, <2>2, <2>3, Greatest
  <2>5. PICK m : m = CHOOSE i \in Quiz!Ids : \A j \in Quiz!Ids : j <= i
    OBVIOUS
  <2>6. m \in Quiz!Ids /\ \A j \in Quiz!Ids : j <= m
    BY <2>4, <2>5
  <2>7. Quiz!NextId = 1 + m
    BY <1>5, <2>5 DEF Quiz!NextId
  <2>8. m \in Nat /\ m + Cardinality(orders) <= sent
    BY <1>1, <2>6 DEF Quiz!Ids
  <2> QED BY <1>1, <1>2, <2>1, <2>6, <2>7, <2>8
<1> QED BY <1>4, <1>5

LEMMA CreateKeeps ==
  ASSUME Quiz!ConstantsFit, DeskOK, CalmOK, NEW o \in orders, Quiz!CreateQuiz(o)
  PROVE  Desk /\ DeskOK' /\ CalmOK'
<1>1. PICK row : /\ row = [id |-> Quiz!NextId, quiz |-> o.row.quiz]
                 /\ quizzes' = quizzes \cup {row} /\ given' = given \cup {row}
                 /\ Quiz!Answer(o, Quiz!WithNew(o, row))
  BY DEF Quiz!CreateQuiz
<1>2. /\ calm' = calm \cap {o.teacher} /\ UNCHANGED <<board, sent>>
      /\ UNCHANGED <<attempts, Quiz!pages, Quiz!network, report, clicks>>
  BY DEF Quiz!CreateQuiz, Quiz!Alone
<1>3. /\ Quiz!NextId \in 1 .. MaxOrders /\ \A r \in quizzes : r.id < Quiz!NextId
      /\ Quiz!NextId + Cardinality(orders) - 1 <= sent
  BY NextIdIsNew
<1>4. OrderOK(o) /\ o.kind = "create"
  BY DEF DeskOK, Quiz!CreateQuiz
<1>5. PICK m : m = Quiz!NextId
  OBVIOUS
<1>6. row.id = m /\ row \in Quiz!Row
  BY <1>1, <1>3, <1>4, <1>5 DEF Quiz!Row, OrderOK
<1>7. \A r1, r2 \in quizzes' : r1.id = r2.id => r1 = r2
  <2>1. \A r \in quizzes : r.id # m
    <3>1. \A r \in quizzes : r.id \in Nat
      BY DEF DeskOK, Quiz!Row
    <3> QED BY <1>3, <1>5, <3>1
  <2> QED BY <1>1, <1>6, <2>1 DEF DeskOK
<1>8. \A r \in given' : r.id + Cardinality(orders) - 1 <= sent
  <2> SUFFICES ASSUME NEW r \in given' PROVE r.id + Cardinality(orders) - 1 <= sent
    OBVIOUS
  <2>1. CASE r = row
    BY <1>3, <1>5, <1>6, <2>1
  <2>2. CASE r \in given
    <3>1. /\ r.id \in Nat /\ sent \in Nat /\ Cardinality(orders) \in Nat
          /\ r.id + Cardinality(orders) <= sent
      BY <2>2, FS_CardinalityType DEF DeskOK, Quiz!Row
    <3> QED BY <3>1
  <2> QED BY <1>1, <2>1, <2>2
<1>9. given \subseteq given' /\ given' \subseteq Quiz!Row /\ quizzes' \subseteq given'
  BY <1>1, <1>6 DEF DeskOK
<1>10. /\ Quiz!WithNew(o, row) \subseteq given'
       /\ o.shown = quizzes => Quiz!WithNew(o, row) = quizzes'
  BY <1>1, <1>4 DEF Quiz!WithNew, OrderOK
<1>11. DeskOK' /\ CalmOK'
  BY <1>1, <1>2, <1>7, <1>8, <1>9, <1>10, AnswerKeeps
<1> QED BY <1>2, <1>9, <1>11 DEF Desk

\* With no row more than before.
LEMMA FewerKeeps ==
  ASSUME Quiz!ConstantsFit, DeskOK, CalmOK, NEW o \in orders, NEW rows, Quiz!Answer(o, rows),
         UNCHANGED <<board, sent, given>>, quizzes' \subseteq quizzes, rows \subseteq given,
         o.shown = quizzes => rows = quizzes',
         calm' = calm \cap {o.teacher} \/ (calm' = calm /\ quizzes' = quizzes)
  PROVE  DeskOK' /\ CalmOK'
<1>1. \A r \in given' : r.id + Cardinality(orders) - 1 <= sent
  <2> SUFFICES ASSUME NEW r \in given PROVE r.id + Cardinality(orders) - 1 <= sent
    OBVIOUS
  <2>1. /\ r.id \in Nat /\ sent \in Nat /\ Cardinality(orders) \in Nat
        /\ r.id + Cardinality(orders) <= sent
    BY FS_CardinalityType DEF DeskOK, Quiz!Row
  <2> QED BY <2>1
<1>2. /\ given \subseteq given' /\ given' \subseteq Quiz!Row /\ quizzes' \subseteq given'
      /\ \A r1, r2 \in quizzes' : r1.id = r2.id => r1 = r2
  BY DEF DeskOK
<1> QED BY <1>1, <1>2, AnswerKeeps

LEMMA DeleteKeeps ==
  ASSUME Quiz!ConstantsFit, DeskOK, CalmOK, NEW o \in orders, Quiz!DeleteQuiz(o)
  PROVE  Desk /\ DeskOK' /\ CalmOK'
<1>1. PICK rows : /\ rows = Quiz!Without(o.shown, o.row.id) /\ Quiz!Answer(o, rows)
                  /\ quizzes' = Quiz!Without(quizzes, o.row.id)
  BY DEF Quiz!DeleteQuiz
<1>2. /\ calm' = calm \cap {o.teacher} /\ UNCHANGED <<board, sent, given>>
      /\ UNCHANGED <<attempts, Quiz!pages, Quiz!network, report, clicks>>
  BY DEF Quiz!DeleteQuiz, Quiz!Alone
<1>3. OrderOK(o)
  BY DEF DeskOK
<1>4. /\ quizzes' \subseteq quizzes /\ rows \subseteq given
      /\ o.shown = quizzes => rows = quizzes'
  BY <1>1, <1>3 DEF Quiz!Without, OrderOK
<1>5. DeskOK' /\ CalmOK'
  BY <1>1, <1>2, <1>4, FewerKeeps
<1> QED BY <1>2, <1>5 DEF Desk

LEMMA FetchKeeps ==
  ASSUME Quiz!ConstantsFit, DeskOK, CalmOK, NEW o \in orders, Quiz!FetchBoard(o)
  PROVE  Desk /\ DeskOK' /\ CalmOK'
<1>1. /\ Quiz!Answer(o, quizzes) /\ UNCHANGED <<board, sent, given>> /\ calm' = calm
      /\ quizzes' = quizzes /\ UNCHANGED <<attempts, Quiz!pages, Quiz!network, report, clicks>>
  BY DEF Quiz!FetchBoard, Quiz!tables, Quiz!history
<1>2. quizzes \subseteq given
  BY DEF DeskOK
<1>3. DeskOK' /\ CalmOK'
  BY <1>1, <1>2, FewerKeeps
<1> QED BY <1>1, <1>3 DEF Desk

LEMMA FailKeeps ==
  ASSUME Quiz!ConstantsFit, DeskOK, CalmOK, NEW o \in orders, Quiz!OrderFails(o)
  PROVE  Desk /\ DeskOK' /\ CalmOK'
<1>1. /\ orders' = orders \ {o} /\ UNCHANGED <<quizzes, given, board, answers, calm, sent>>
      /\ UNCHANGED <<attempts, Quiz!pages, Quiz!network, report, clicks>>
  BY DEF Quiz!OrderFails, Quiz!tables, Quiz!history
<1>2. /\ IsFiniteSet(orders') /\ Cardinality(orders') = Cardinality(orders) - 1
      /\ Cardinality(orders) \in Nat
  BY <1>1, FS_RemoveElement, FS_CardinalityType DEF DeskOK
<1>3. \A r \in given : r.id + Cardinality(orders') <= sent
  <2> SUFFICES ASSUME NEW r \in given PROVE r.id + Cardinality(orders') <= sent
    OBVIOUS
  <2>1. r.id \in Nat /\ sent \in Nat /\ r.id + Cardinality(orders) <= sent
    BY DEF DeskOK, Quiz!Row
  <2> QED BY <1>2, <2>1
<1>4. Cardinality(orders') <= sent
  <2>1. Cardinality(orders) <= sent /\ sent \in Nat
    BY DEF DeskOK
  <2> QED BY <1>2, <2>1
<1>5. DeskOK'
  <2>1. \A x \in orders' : OrderOK(x)'
    BY <1>1, RowsStay DEF DeskOK
  <2>2. \A x \in answers' : AnswerOK(x)'
    BY <1>1, RowsStay DEF DeskOK
  <2> QED BY <1>1, <1>2, <1>3, <1>4, <2>1, <2>2 DEF DeskOK
<1>6. CalmOK'
  BY <1>1 DEF CalmOK
<1> QED BY <1>1, <1>5, <1>6 DEF Desk

LEMMA ShowKeeps ==
  ASSUME Quiz!ConstantsFit, DeskOK, CalmOK, NEW a \in answers, Quiz!ShowBoard(a)
  PROVE  Desk /\ DeskOK' /\ CalmOK'
<1>1. /\ board' = [board EXCEPT ![a.teacher] = a.rows] /\ answers' = answers \ {a}
      /\ UNCHANGED <<quizzes, given, orders, calm, sent>>
      /\ UNCHANGED <<attempts, Quiz!pages, Quiz!network, report, clicks>>
  BY DEF Quiz!ShowBoard, Quiz!tables, Quiz!history
<1>2. AnswerOK(a) /\ board \in [Teachers -> SUBSET given] /\ calm \in SUBSET Teachers
  BY DEF DeskOK
<1>3. /\ board' \in [Teachers -> SUBSET given]
      /\ \A t \in Teachers : board'[t] = IF t = a.teacher THEN a.rows ELSE board[t]
  BY <1>1, <1>2 DEF AnswerOK
<1>4. DeskOK'
  <2>1. \A x \in orders' : OrderOK(x)'
    BY <1>1, RowsStay DEF DeskOK
  <2>2. \A x \in answers' : AnswerOK(x)'
    BY <1>1, RowsStay DEF DeskOK
  <2> QED BY <1>1, <1>3, <2>1, <2>2 DEF DeskOK
<1>5. CalmOK'
  <2> SUFFICES ASSUME NEW u \in calm
               PROVE  /\ \A x, y \in orders : x.teacher = u /\ y.teacher = u => x = y
                      /\ \A x, y \in answers' : x.teacher = u /\ y.teacher = u => x = y
                      /\ \A x \in orders, y \in answers' : ~(x.teacher = u /\ y.teacher = u)
                      /\ (\A y \in answers' : y.teacher # u) => board'[u] = quizzes
                      /\ \A x \in orders : x.teacher = u => x.shown = quizzes
                      /\ \A y \in answers' : y.teacher = u => y.rows = quizzes
    BY <1>1 DEF CalmOK
  <2>1. u \in Teachers
    BY <1>2
  <2>2. CASE u = a.teacher
    BY <1>1, <1>3, <2>1, <2>2 DEF CalmOK
  <2>3. CASE u # a.teacher
    <3>1. (\A y \in answers' : y.teacher # u) => \A y \in answers : y.teacher # u
      BY <1>1, <2>3
    <3> QED BY <1>1, <1>3, <2>1, <2>3, <3>1 DEF CalmOK
  <2> QED BY <2>2, <2>3
<1> QED BY <1>1, <1>4, <1>5 DEF Desk

LEMMA LostKeeps ==
  ASSUME Quiz!ConstantsFit, DeskOK, CalmOK, NEW a \in answers, Quiz!AnswerLost(a)
  PROVE  Desk /\ DeskOK' /\ CalmOK'
<1>1. /\ answers' = answers \ {a} /\ calm' = calm \ {a.teacher}
      /\ UNCHANGED <<quizzes, given, board, orders, sent>>
      /\ UNCHANGED <<attempts, Quiz!pages, Quiz!network, report, clicks>>
  BY DEF Quiz!AnswerLost, Quiz!tables
<1>2. DeskOK'
  <2>1. \A x \in orders' : OrderOK(x)'
    BY <1>1, RowsStay DEF DeskOK
  <2>2. \A x \in answers' : AnswerOK(x)'
    BY <1>1, RowsStay DEF DeskOK
  <2> QED BY <1>1, <2>1, <2>2 DEF DeskOK
<1>3. CalmOK'
  BY <1>1 DEF CalmOK
<1> QED BY <1>1, <1>2, <1>3 DEF Desk

\* The steps of a student or of a student's request change nothing on the desks.
Apart == UNCHANGED <<quizzes, given, board, orders, answers, calm, sent, report>>

LEMMA DesksStay ==
  ASSUME DeskOK, CalmOK, UNCHANGED <<quizzes, given, board, orders, answers, calm, sent>>
  PROVE  DeskOK' /\ CalmOK'
BY DEF DeskOK, CalmOK, OrderOK, AnswerOK

LEMMA ReportsStay ==
  ASSUME ReportOK, attempts \in Seq(Quiz!Attempt), Grows, UNCHANGED report
  PROVE  ReportOK'
<1> SUFFICES ASSUME NEW t \in Readers, report[t] # Nothing
             PROVE  ReportOf(report[t])'
  BY DEF ReportOK
<1>1. ReportOf(report[t])
  BY DEF ReportOK
<1> QED BY <1>1, Appended DEF ReportOf, Grows

\* With the same attempts, the parts of the students' invariant one by one.
LEMMA PupilStep ==
  ASSUME PupilsOK, ReportOK, Apart, UNCHANGED attempts,
         taking' \in [Students -> given \cup {Nothing}],
         listed' = [s \in Students |-> listed'[s]],
         \A s \in Students : \A e \in listed'[s] : ListedOK(s, e),
         \A p \in posts' : PostOK(p), \A g \in gets' : GetOK(g),
         IsFiniteSet(posts'), clicks' \in 0 .. MaxClicks,
         Len(attempts) + Cardinality(ToSave') <= clicks'
  PROVE  PupilsOK' /\ ReportOK'
<1>1. attempts \in Seq(Quiz!Attempt) /\ Grows /\ given' = given
  BY DEF PupilsOK, Grows, Apart
<1>2. \A s \in Students : \A e \in listed'[s] : ListedOK(s, e)'
  BY <1>1, ListedStays
<1>3. \A p \in posts' : PostOK(p)'
  BY <1>1, RowsStay
<1>4. \A g \in gets' : GetOK(g)'
  BY <1>1, GetStays
<1>5. (\A i \in DOMAIN attempts : AttemptOK(attempts[i]))'
  BY <1>1 DEF PupilsOK, AttemptOK, RowOf
<1>6. ReportOK'
  BY <1>1, ReportsStay DEF Apart
<1>7. PupilsOK'
  BY <1>1, <1>2, <1>3, <1>4, <1>5 DEF PupilsOK
<1> QED BY <1>6, <1>7

\* The posts that wait to be saved.
LEMMA WaitingFinite ==
  ASSUME PupilsOK
  PROVE  IsFiniteSet(ToSave) /\ Cardinality(ToSave) \in Nat /\ Len(attempts) \in Nat
<1>1. IsFiniteSet(posts) /\ ToSave \in SUBSET posts
  BY DEF PupilsOK, ToSave
<1>2. IsFiniteSet(ToSave)
  BY <1>1, FS_Subset
<1>3. Cardinality(ToSave) \in Nat
  BY <1>2, FS_CardinalityType
<1> QED BY <1>2, <1>3 DEF PupilsOK

\* When the posts stay, they stay.
LEMMA NoPostStep ==
  ASSUME PupilsOK, ReportOK, Apart, UNCHANGED <<attempts, posts, clicks>>,
         taking' \in [Students -> given \cup {Nothing}],
         listed' = [s \in Students |-> listed'[s]],
         \A s \in Students : \A e \in listed'[s] : ListedOK(s, e),
         \A g \in gets' : GetOK(g)
  PROVE  PupilsOK' /\ ReportOK'
<1>1. ToSave' = ToSave
  BY DEF ToSave
<1>2. /\ \A p \in posts' : PostOK(p)
      /\ IsFiniteSet(posts') /\ clicks' \in 0 .. MaxClicks
      /\ Len(attempts) + Cardinality(ToSave') <= clicks'
  BY <1>1 DEF PupilsOK
<1> QED BY <1>2, PupilStep

LEMMA EmptyGet ==
  ASSUME NEW s \in Students, NEW stage \in {"sent", "quizzes", "answered"}, NEW click \in Nat
  PROVE  GetOK([student |-> s, stage |-> stage, rows |-> {}, entries |-> {}, click |-> click])
BY DEF GetOK, Fetching

LEMMA VisitKeeps ==
  ASSUME PupilsOK, ReportOK, NEW s \in Students, Quiz!Visit(s)
  PROVE  Apart /\ PupilsOK' /\ ReportOK'
<1> DEFINE f == [p \in posts |-> IF p.student = s THEN [p EXCEPT !.page = FALSE] ELSE p]
           g == [student |-> s, stage |-> "sent", rows |-> {}, entries |-> {}, click |-> 0]
<1>1. /\ listed' = [listed EXCEPT ![s] = {}] /\ taking' = [taking EXCEPT ![s] = Nothing]
      /\ gets' = { x \in gets : x.student # s } \cup {g}
      /\ UNCHANGED <<attempts, clicks>> /\ Apart
  BY DEF Quiz!Visit, Quiz!tables, Quiz!desk, Quiz!history, Apart
<1>2. posts' = { f[p] : p \in posts }
  BY DEF Quiz!Visit
<1>3. \A p \in posts : /\ f[p] \in Posting /\ f[p].stage = p.stage
                       /\ f[p].quiz_id = p.quiz_id /\ f[p].answered = p.answered
                       /\ f[p].score = p.score
  <2> SUFFICES ASSUME NEW p \in posts
               PROVE  /\ f[p] \in Posting /\ f[p].stage = p.stage
                      /\ f[p].quiz_id = p.quiz_id /\ f[p].answered = p.answered
                      /\ f[p].score = p.score
    OBVIOUS
  <2>1. p \in Posting
    BY DEF PupilsOK, PostOK
  <2>2. f[p] = p \/ f[p] = [p EXCEPT !.page = FALSE]
    OBVIOUS
  <2> HIDE DEF f
  <2> QED BY <2>1, <2>2 DEF Posting
<1>4. f = [p \in posts |-> f[p]]
  OBVIOUS
<1>5. GetOK(g)
  BY EmptyGet
<1> HIDE DEF f, g
<1>6. \A p \in posts' : PostOK(p)
  BY <1>2, <1>3 DEF PupilsOK, PostOK
<1>7. f \in Surjection(posts, posts') /\ f \in [posts -> posts']
  BY <1>2, <1>4 DEF Surjection
<1>8. IsFiniteSet(posts')
  BY <1>7, FS_Surjection DEF PupilsOK
<1>9. Cardinality(ToSave') <= Cardinality(ToSave) /\ Cardinality(ToSave') \in Nat
  <2> DEFINE h == [p \in ToSave |-> f[p]]
  <2>1. \A p \in ToSave : f[p] \in ToSave'
    BY <1>2, <1>3 DEF ToSave
  <2>2. \A q \in ToSave' : \E p \in ToSave : f[p] = q
    BY <1>2, <1>3 DEF ToSave
  <2>3. h \in Surjection(ToSave, ToSave')
    BY <2>1, <2>2 DEF Surjection
  <2> HIDE DEF h
  <2>4. IsFiniteSet(ToSave)
    BY WaitingFinite
  <2> QED BY <2>3, <2>4, FS_Surjection, FS_CardinalityType
<1>10. clicks' \in 0 .. MaxClicks /\ Len(attempts) + Cardinality(ToSave') <= clicks'
  <2>1. clicks \in 0 .. MaxClicks /\ Len(attempts) + Cardinality(ToSave) <= clicks
    BY DEF PupilsOK
  <2>2. clicks' = clicks
    BY <1>1
  <2>3. clicks \in Int
    BY <2>1
  <2> QED BY <1>9, <2>1, <2>2, <2>3, WaitingFinite
<1>11. taking' \in [Students -> given \cup {Nothing}]
  BY <1>1 DEF PupilsOK
<1>12. /\ listed' = [u \in Students |-> listed'[u]]
       /\ \A u \in Students : \A e \in listed'[u] : ListedOK(u, e)
  <2>1. /\ listed = [u \in Students |-> listed[u]]
        /\ \A u \in Students : \A e \in listed[u] : ListedOK(u, e)
    BY DEF PupilsOK
  <2> QED BY <1>1, <2>1
<1>13. \A x \in gets' : GetOK(x)
  BY <1>1, <1>5 DEF PupilsOK
<1> QED BY <1>1, <1>6, <1>8, <1>10, <1>11, <1>12, <1>13, PupilStep

LEMMA CloseKeeps ==
  ASSUME PupilsOK, ReportOK, NEW s \in Students, Quiz!CloseQuiz(s)
  PROVE  Apart /\ PupilsOK' /\ ReportOK'
<1>1. /\ taking' = [taking EXCEPT ![s] = Nothing] /\ UNCHANGED <<attempts, listed, posts, gets, clicks>>
      /\ Apart
  BY DEF Quiz!CloseQuiz, Quiz!tables, Quiz!network, Quiz!desk, Quiz!history, Apart
<1>2. taking' \in [Students -> given \cup {Nothing}]
  BY <1>1 DEF PupilsOK
<1> QED BY <1>1, <1>2, NoPostStep DEF PupilsOK

LEMMA TakeKeeps ==
  ASSUME PupilsOK, ReportOK, NEW s \in Students, NEW e \in listed[s], Quiz!TakeQuiz(s, e)
  PROVE  Apart /\ PupilsOK' /\ ReportOK'
<1>1. /\ taking' = [taking EXCEPT ![s] = RowOf(e.id, e.quiz)]
      /\ UNCHANGED <<attempts, listed, posts, gets, clicks>> /\ Apart
  BY DEF Quiz!TakeQuiz, Quiz!tables, Quiz!network, Quiz!desk, Quiz!history, Apart, RowOf
<1>2. RowOf(e.id, e.quiz) \in given
  BY DEF PupilsOK, ListedOK
<1>3. taking' \in [Students -> given \cup {Nothing}]
  BY <1>1, <1>2 DEF PupilsOK
<1> QED BY <1>1, <1>3, NoPostStep DEF PupilsOK

LEMMA SubmitKeeps ==
  ASSUME Quiz!ConstantsFit, DeskOK, PupilsOK, ReportOK, NEW s \in Students, taking[s] # Nothing,
         NEW score \in 0 .. Questions[taking[s].quiz], Quiz!SubmitQuiz(s, score)
  PROVE  Apart /\ PupilsOK' /\ ReportOK'
<1>1. PICK p : /\ p = [student |-> s, click |-> clicks + 1, stage |-> "sent", page |-> TRUE,
                       quiz_id |-> taking[s].id, score |-> score,
                       total |-> Questions[taking[s].quiz], answered |-> taking[s].quiz]
               /\ posts' = posts \cup {p}
  BY DEF Quiz!SubmitQuiz, Quiz!OpenQuiz
<1>2. /\ clicks < MaxClicks /\ clicks' = clicks + 1
      /\ UNCHANGED <<attempts, listed, taking, gets>> /\ Apart
  BY DEF Quiz!SubmitQuiz, Quiz!tables, Quiz!pages, Quiz!desk, Apart
<1>3. /\ taking[s] \in given /\ taking[s] \in Quiz!Row
      /\ clicks \in Nat /\ MaxClicks \in Nat
  BY DEF PupilsOK, DeskOK, Quiz!ConstantsFit
<1>4. /\ taking[s].id \in Nat /\ taking[s].quiz \in Contents
      /\ RowOf(taking[s].id, taking[s].quiz) = taking[s]
  BY <1>3 DEF Quiz!Row, RowOf
<1>5. Questions[taking[s].quiz] \in Nat
  BY <1>4 DEF Quiz!ConstantsFit
<1>6. PostOK(p) /\ p.stage = "sent"
  <2>1. p \in Posting
    BY <1>1, <1>3, <1>4, <1>5 DEF Posting
  <2>2. /\ p.quiz_id = taking[s].id /\ p.answered = taking[s].quiz
        /\ p.score = score /\ p.stage = "sent"
    BY <1>1
  <2>3. score <= Questions[taking[s].quiz]
    BY <1>5
  <2> QED BY <1>3, <1>4, <2>1, <2>2, <2>3 DEF PostOK
<1>7. IsFiniteSet(posts') /\ Cardinality(ToSave') <= Cardinality(ToSave) + 1
      /\ Cardinality(ToSave') \in Nat
  <2>1. IsFiniteSet(posts')
    BY <1>1, FS_AddElement DEF PupilsOK
  <2>2. ToSave' = ToSave \cup {p}
    BY <1>1, <1>6 DEF ToSave
  <2>3. /\ IsFiniteSet(ToSave')
        /\ Cardinality(ToSave') = IF p \in ToSave THEN Cardinality(ToSave) ELSE Cardinality(ToSave) + 1
    BY <2>2, WaitingFinite, FS_AddElement
  <2>4. Cardinality(ToSave) \in Nat
    BY WaitingFinite
  <2> QED BY <2>1, <2>3, <2>4
<1>8. clicks' \in 0 .. MaxClicks /\ Len(attempts) + Cardinality(ToSave') <= clicks'
  <2>1. Len(attempts) + Cardinality(ToSave) <= clicks
    BY DEF PupilsOK
  <2> QED BY <1>2, <1>3, <1>7, <2>1, WaitingFinite
<1>9. \A x \in posts' : PostOK(x)
  BY <1>1, <1>6 DEF PupilsOK
<1>10. /\ taking' \in [Students -> given \cup {Nothing}]
       /\ listed' = [u \in Students |-> listed'[u]]
       /\ \A u \in Students : \A e \in listed'[u] : ListedOK(u, e)
       /\ \A g \in gets' : GetOK(g)
  BY <1>2 DEF PupilsOK
<1> QED BY <1>2, <1>7, <1>8, <1>9, <1>10, PupilStep

LEMMA ReadQuizzesKeeps ==
  ASSUME DeskOK, PupilsOK, ReportOK, NEW g \in gets, Quiz!ReadQuizzes(g)
  PROVE  Apart /\ PupilsOK' /\ ReportOK'
<1>1. PICK h : /\ h = [g EXCEPT !.stage = "quizzes", !.rows = quizzes]
               /\ gets' = (gets \ {g}) \cup {h}
  BY DEF Quiz!ReadQuizzes
<1>2. UNCHANGED <<attempts, listed, taking, posts, clicks>> /\ Apart
  BY DEF Quiz!ReadQuizzes, Quiz!tables, Quiz!pages, Quiz!desk, Quiz!history, Apart
<1>3. GetOK(g) /\ g \in Fetching
  BY DEF PupilsOK, GetOK
<1>4. h.student = g.student /\ h.rows = quizzes /\ h.entries = g.entries /\ h \in Fetching
  <2>1. quizzes \in SUBSET Quiz!Row
    BY DEF DeskOK
  <2> QED BY <1>1, <1>3, <2>1 DEF Fetching
<1>5. GetOK(h)
  BY <1>3, <1>4 DEF GetOK, DeskOK
<1> QED BY <1>1, <1>2, <1>5, NoPostStep DEF PupilsOK

\* What a list says when the attempts are read.
LEMMA StatusTrue ==
  ASSUME DeskOK, PupilsOK, NEW s \in Students, NEW r \in given
  PROVE  ListedOK(s, Quiz!WithStatus(s, r))
<1> DEFINE tries == Quiz!TriesOf(s, r.id)
           scores == { attempts[i].score : i \in tries }
           best == IF scores = {} THEN 0 ELSE CHOOSE n \in scores : \A k \in scores : k <= n
<1>1. r \in Quiz!Row /\ RowOf(r.id, r.quiz) = r /\ r.id \in Nat /\ r.quiz \in Contents
  BY DEF DeskOK, Quiz!Row, RowOf
<1>2. tries = Saved(s, r.id)
  BY DEF Quiz!TriesOf, Quiz!AttemptsOf, Saved
<1>3. attempts \in Seq(Quiz!Attempt)
  BY DEF PupilsOK
<1>4. IsFiniteSet(tries) /\ Cardinality(tries) \in Nat
  BY <1>2, <1>3, SavedFinite
<1>5. scores \in SUBSET Nat
  <2>1. \A i \in tries : i \in DOMAIN attempts
    BY <1>2 DEF Saved
  <2>2. \A i \in DOMAIN attempts : attempts[i].score \in Nat
    <3> SUFFICES ASSUME NEW i \in DOMAIN attempts PROVE attempts[i].score \in Nat
      OBVIOUS
    <3>1. attempts[i] \in Quiz!Attempt
      BY <1>3
    <3> QED BY <3>1 DEF Quiz!Attempt
  <2> HIDE DEF tries
  <2> QED BY <2>1, <2>2
<1>6. IsFiniteSet(scores)
  <2> DEFINE h == [i \in tries |-> attempts[i].score]
  <2> HIDE DEF tries
  <2>1. h \in Surjection(tries, scores)
    BY DEF Surjection
  <2> HIDE DEF h, scores
  <2> QED BY <1>4, <2>1, FS_Surjection
<1>7. best \in Nat /\ (best = 0 \/ best \in scores)
  <2> HIDE DEF tries, scores
  <2>1. CASE scores = {}
    BY <2>1
  <2>2. CASE scores # {}
    <3>1. \E n \in scores : \A k \in scores : k <= n
      BY <1>5, <1>6, <2>2, Greatest
    <3>2. best = CHOOSE n \in scores : \A k \in scores : k <= n
      BY <2>2
    <3>3. best \in scores
      BY <3>1, <3>2
    <3> QED BY <1>5, <3>3
  <2> QED BY <2>1, <2>2
<1> DEFINE e == [id |-> r.id, quiz |-> r.quiz, tries |-> Cardinality(tries), best |-> best]
<1>8. e = Quiz!WithStatus(s, r)
  <2>1. Quiz!WithStatus(s, r) = [id |-> r.id, quiz |-> r.quiz, tries |-> Quiz!Cardinality(tries),
                            best |-> best]
    BY Zenon DEF Quiz!WithStatus
  <2>2. Quiz!Cardinality(tries) = Cardinality(tries)
    BY SameCardinality
  <2> QED BY <2>1, <2>2
<1>9. best = 0 \/ \E i \in Saved(s, r.id) : attempts[i].score = best
  BY <1>2, <1>7
<1> HIDE DEF tries, best
<1>10. /\ e \in Listed /\ e.id = r.id /\ e.quiz = r.quiz /\ e.tries = Cardinality(tries)
       /\ e.best = best
  BY <1>1, <1>4, <1>7 DEF Listed
<1> HIDE DEF e
<1>11. ListedOK(s, e)
  BY <1>1, <1>2, <1>4, <1>9, <1>10 DEF ListedOK
<1> QED BY <1>8, <1>11

LEMMA ReadAttemptsKeeps ==
  ASSUME DeskOK, PupilsOK, ReportOK, NEW g \in gets, Quiz!ReadAttempts(g)
  PROVE  Apart /\ PupilsOK' /\ ReportOK'
<1>1. PICK h, entries : /\ entries = { Quiz!WithStatus(g.student, r) : r \in g.rows }
                        /\ h = [g EXCEPT !.stage = "answered", !.rows = {}, !.entries = entries]
                        /\ gets' = (gets \ {g}) \cup {h}
  BY DEF Quiz!ReadAttempts
<1>2. UNCHANGED <<attempts, listed, taking, posts, clicks>> /\ Apart
  BY DEF Quiz!ReadAttempts, Quiz!tables, Quiz!pages, Quiz!desk, Quiz!history, Apart
<1>3. g \in Fetching /\ g.rows \in SUBSET given /\ g.student \in Students
  BY DEF PupilsOK, GetOK, Fetching
<1>4. \A e \in entries : ListedOK(g.student, e)
  BY <1>1, <1>3, StatusTrue
<1>5. entries \in SUBSET Listed
  BY <1>4 DEF ListedOK
<1>6. h \in Fetching /\ h.student = g.student /\ h.rows = {} /\ h.entries = entries
  BY <1>1, <1>3, <1>5 DEF Fetching
<1>7. GetOK(h)
  BY <1>4, <1>6 DEF GetOK
<1> QED BY <1>1, <1>2, <1>7, NoPostStep DEF PupilsOK

LEMMA ShowQuizzesKeeps ==
  ASSUME PupilsOK, ReportOK, NEW g \in gets, Quiz!ShowQuizzes(g)
  PROVE  Apart /\ PupilsOK' /\ ReportOK'
<1>1. /\ listed' = [listed EXCEPT ![g.student] = g.entries] /\ gets' = gets \ {g}
      /\ UNCHANGED <<attempts, taking, posts, clicks>> /\ Apart
  BY DEF Quiz!ShowQuizzes, Quiz!tables, Quiz!desk, Quiz!history, Apart
<1>2. g.student \in Students /\ \A e \in g.entries : ListedOK(g.student, e)
  BY DEF PupilsOK, GetOK, Fetching
<1>3. /\ listed' = [u \in Students |-> listed'[u]]
      /\ \A u \in Students : \A e \in listed'[u] : ListedOK(u, e)
  <2>1. /\ listed = [u \in Students |-> listed[u]]
        /\ \A u \in Students : \A e \in listed[u] : ListedOK(u, e)
    BY DEF PupilsOK
  <2> QED BY <1>1, <1>2, <2>1
<1> QED BY <1>1, <1>3, NoPostStep DEF PupilsOK

LEMMA SaveKeeps ==
  ASSUME DeskOK, PupilsOK, ReportOK, NEW p \in posts, Quiz!SaveAttempt(p)
  PROVE  Apart /\ PupilsOK' /\ ReportOK'
<1>1. PICK x : /\ x = [quiz_id |-> p.quiz_id, student |-> p.student, score |-> p.score,
                       total |-> p.total, answered |-> p.answered]
               /\ attempts' = Append(attempts, x)
  BY DEF Quiz!SaveAttempt
<1>2. PICK q : q = [p EXCEPT !.stage = "saved"] /\ posts' = (posts \ {p}) \cup {q}
  BY DEF Quiz!SaveAttempt
<1>3. /\ p.stage = "sent"
      /\ UNCHANGED <<listed, taking, gets, clicks>> /\ Apart
  BY DEF Quiz!SaveAttempt, Quiz!pages, Quiz!desk, Quiz!history, Apart
<1>4. /\ PostOK(p) /\ p \in Posting /\ RowOf(p.quiz_id, p.answered) \in given
      /\ p.score <= Questions[p.answered]
  BY DEF PupilsOK, PostOK
<1>5. p.quiz_id \in 1 .. MaxOrders
  <2>1. RowOf(p.quiz_id, p.answered) \in Quiz!Row
    BY <1>4 DEF DeskOK
  <2> QED BY <2>1 DEF RowOf, Quiz!Row
<1>6. x \in Quiz!Attempt /\ AttemptOK(x)
  <2>1. x \in Quiz!Attempt
    BY <1>1, <1>4, <1>5 DEF Quiz!Attempt, Posting
  <2>2. x.quiz_id = p.quiz_id /\ x.answered = p.answered /\ x.score = p.score
    BY <1>1
  <2> QED BY <1>4, <2>1, <2>2 DEF AttemptOK
<1>7. q \in Posting /\ PostOK(q) /\ q.stage = "saved"
  <2>1. q \in Posting /\ q.stage = "saved" /\ q.quiz_id = p.quiz_id /\ q.answered = p.answered
        /\ q.score = p.score
    BY <1>2, <1>4 DEF Posting
  <2> QED BY <1>4, <2>1 DEF PostOK
<1>8. attempts \in Seq(Quiz!Attempt) /\ Grows
  BY <1>1, <1>3, <1>6 DEF PupilsOK, Grows, Apart
<1>9. /\ attempts' \in Seq(Quiz!Attempt) /\ Len(attempts') = Len(attempts) + 1
      /\ \A i \in DOMAIN attempts' : AttemptOK(attempts'[i])
  <2>1. \A i \in DOMAIN attempts : AttemptOK(attempts[i])
    BY DEF PupilsOK
  <2>2. \A i \in DOMAIN attempts' :
          attempts'[i] = x \/ (i \in DOMAIN attempts /\ attempts'[i] = attempts[i])
    BY <1>1, <1>6, <1>8
  <2>3. attempts' \in Seq(Quiz!Attempt) /\ Len(attempts') = Len(attempts) + 1
    BY <1>1, <1>6, <1>8
  <2> QED BY <1>6, <2>1, <2>2, <2>3
<1>10. (\A i \in DOMAIN attempts : AttemptOK(attempts[i]))'
  BY <1>3, <1>9 DEF AttemptOK, RowOf, Apart
<1>11. IsFiniteSet(posts') /\ Len(attempts') + Cardinality(ToSave') <= clicks
  <2>1. IsFiniteSet(posts')
    BY <1>2, FS_AddElement, FS_Subset DEF PupilsOK
  <2>2. p \in ToSave /\ ToSave' = ToSave \ {p}
    BY <1>2, <1>3, <1>7 DEF ToSave
  <2>3. Cardinality(ToSave') = Cardinality(ToSave) - 1
    BY <2>2, WaitingFinite, FS_RemoveElement
  <2>4. Len(attempts) + Cardinality(ToSave) <= clicks
    BY DEF PupilsOK
  <2>5. Cardinality(ToSave) \in Nat /\ Len(attempts) \in Nat /\ clicks \in Nat
    BY WaitingFinite DEF PupilsOK
  <2> QED BY <1>9, <2>1, <2>3, <2>4, <2>5
<1>12. \A u \in Students : \A e \in listed'[u] : ListedOK(u, e)'
  BY <1>3, <1>8, ListedStays DEF PupilsOK
<1>13. (\A y \in posts' : PostOK(y)') /\ (\A g \in gets' : GetOK(g)')
  <2>1. \A y \in posts' : PostOK(y)
    BY <1>2, <1>7 DEF PupilsOK
  <2>2. \A y \in posts' : PostOK(y)'
    BY <1>8, <2>1, RowsStay DEF Grows
  <2>3. \A g \in gets' : GetOK(g)'
    BY <1>3, <1>8, GetStays DEF PupilsOK
  <2> QED BY <2>2, <2>3
<1>14. PupilsOK'
  <2>1. /\ taking' \in [Students -> given' \cup {Nothing}]
        /\ listed' = [u \in Students |-> listed'[u]]
        /\ clicks' \in 0 .. MaxClicks
    BY <1>3 DEF PupilsOK, Apart
  <2>2. Len(attempts') + Cardinality(ToSave') <= clicks'
    BY <1>3, <1>11
  <2> QED BY <1>9, <1>10, <1>11, <1>12, <1>13, <2>1, <2>2 DEF PupilsOK
<1>15. ReportOK'
  BY <1>3, <1>8, ReportsStay DEF Apart
<1> QED BY <1>3, <1>14, <1>15

\* Fewer posts.
LEMMA FewerPosts ==
  ASSUME PupilsOK, NEW p \in posts, posts' = posts \ {p}, UNCHANGED <<attempts, clicks>>
  PROVE  /\ \A y \in posts' : PostOK(y)
         /\ IsFiniteSet(posts') /\ clicks' \in 0 .. MaxClicks
         /\ Len(attempts) + Cardinality(ToSave') <= clicks'
<1>1. IsFiniteSet(posts') /\ (\A y \in posts' : PostOK(y)) /\ clicks' \in 0 .. MaxClicks
  BY FS_Subset DEF PupilsOK
<1>2. Cardinality(ToSave') <= Cardinality(ToSave) /\ Cardinality(ToSave') \in Nat
  <2>1. ToSave' \in SUBSET ToSave
    BY DEF ToSave
  <2> QED BY <2>1, WaitingFinite, FS_Subset, FS_CardinalityType
<1>3. Len(attempts) + Cardinality(ToSave) <= clicks
  BY DEF PupilsOK
<1> QED BY <1>1, <1>2, <1>3, WaitingFinite

LEMMA PostFailsKeeps ==
  ASSUME PupilsOK, ReportOK, NEW p \in posts, Quiz!PostFails(p)
  PROVE  Apart /\ PupilsOK' /\ ReportOK'
<1>1. /\ posts' = posts \ {p} /\ UNCHANGED <<attempts, listed, taking, gets, clicks>> /\ Apart
  BY DEF Quiz!PostFails, Quiz!tables, Quiz!pages, Quiz!desk, Quiz!history, Apart
<1>2. /\ \A y \in posts' : PostOK(y)
      /\ IsFiniteSet(posts') /\ clicks' \in 0 .. MaxClicks
      /\ Len(attempts) + Cardinality(ToSave') <= clicks'
  BY <1>1, FewerPosts
<1>3. /\ taking' \in [Students -> given \cup {Nothing}]
      /\ listed' = [u \in Students |-> listed'[u]]
      /\ \A u \in Students : \A e \in listed'[u] : ListedOK(u, e)
      /\ \A g \in gets' : GetOK(g)
  BY <1>1 DEF PupilsOK
<1> QED BY <1>1, <1>2, <1>3, PupilStep

LEMMA SubmittedKeeps ==
  ASSUME PupilsOK, ReportOK, NEW p \in posts, Quiz!Submitted(p)
  PROVE  Apart /\ PupilsOK' /\ ReportOK'
<1>1. posts' = posts \ {p} /\ UNCHANGED <<attempts, listed, clicks>> /\ Apart
  BY DEF Quiz!Submitted, Quiz!tables, Quiz!desk, Quiz!history, Apart
<1>2. /\ \A y \in posts' : PostOK(y)
      /\ IsFiniteSet(posts') /\ clicks' \in 0 .. MaxClicks
      /\ Len(attempts) + Cardinality(ToSave') <= clicks'
  BY <1>1, FewerPosts
<1>3. /\ listed' = [u \in Students |-> listed'[u]]
      /\ \A u \in Students : \A e \in listed'[u] : ListedOK(u, e)
  BY <1>1 DEF PupilsOK
<1>4. taking' \in [Students -> given \cup {Nothing}] /\ \A g \in gets' : GetOK(g)
  <2>1. taking \in [Students -> given \cup {Nothing}] /\ \A g \in gets : GetOK(g)
    BY DEF PupilsOK
  <2>2. CASE p.page
    <3>1. p.student \in Students /\ p.click \in Nat
      BY DEF PupilsOK, PostOK, Posting
    <3>2. PICK g : /\ g = [student |-> p.student, stage |-> "sent", rows |-> {}, entries |-> {},
                           click |-> p.click]
                   /\ gets' = gets \cup {g}
      BY <2>2 DEF Quiz!Submitted
    <3>3. GetOK(g)
      BY <3>1, <3>2, EmptyGet
    <3>4. taking' = [taking EXCEPT ![p.student] = Nothing]
      BY <2>2 DEF Quiz!Submitted
    <3> QED BY <2>1, <3>2, <3>3, <3>4
  <2>3. CASE ~p.page
    <3>1. UNCHANGED <<taking, gets>>
      BY <2>3 DEF Quiz!Submitted
    <3> QED BY <2>1, <3>1
  <2> QED BY <2>2, <2>3
<1> QED BY <1>1, <1>2, <1>3, <1>4, PupilStep

\* The teacher's report.
Reporting == UNCHANGED <<quizzes, attempts, listed, taking, posts, gets, board, orders, answers,
                         given, calm, sent, clicks>>

LEMMA PupilsApart ==
  ASSUME PupilsOK, UNCHANGED <<attempts, listed, taking, posts, gets, given, clicks>>
  PROVE  PupilsOK'
<1>1. attempts \in Seq(Quiz!Attempt) /\ Grows
  BY DEF PupilsOK, Grows
<1>2. (\A i \in DOMAIN attempts : AttemptOK(attempts[i]))'
  BY DEF PupilsOK, AttemptOK, RowOf
<1>3. \A s \in Students : \A e \in listed'[s] : ListedOK(s, e)'
  BY <1>1, ListedStays DEF PupilsOK
<1>4. (\A p \in posts' : PostOK(p)') /\ (\A g \in gets' : GetOK(g)')
  BY <1>1, RowsStay, GetStays DEF PupilsOK, Grows
<1>5. ToSave' = ToSave
  BY DEF ToSave
<1> QED BY <1>1, <1>2, <1>3, <1>4, <1>5 DEF PupilsOK

LEMMA AnalyzeKeeps ==
  ASSUME DeskOK, PupilsOK, ReportOK, NEW t \in Readers, Quiz!Analyze(t)
  PROVE  Reporting /\ ReportOK'
<1>1. Reporting
  BY DEF Quiz!Analyze, Quiz!AnalyzeQuiz, Quiz!AnalyzeAttempts, Quiz!CloseReport, Reporting,
         Quiz!tables, Quiz!pages, Quiz!network, Quiz!desk, Quiz!history
<1>2. /\ report = [u \in Readers |-> report[u]]
      /\ \A u \in Readers : report[u] # Nothing => ReportOf(report[u])
  BY DEF ReportOK
<1>3. PICK x : report' = [report EXCEPT ![t] = x] /\ (x = Nothing \/ ReportOf(x))
  <2>1. CASE \E row \in quizzes : Quiz!AnalyzeQuiz(t, row)
    <3>1. PICK row \in quizzes : Quiz!AnalyzeQuiz(t, row)
      BY <2>1
    <3>2. PICK x : /\ x = [row |-> row, read |-> FALSE, attempts |-> {}]
                   /\ report' = [report EXCEPT ![t] = x]
      BY <3>1 DEF Quiz!AnalyzeQuiz
    <3>3. row \in given /\ row \in Quiz!Row
      BY DEF DeskOK
    <3>4. x \in Reported /\ x.row = row /\ x.attempts = {}
      BY <3>2, <3>3 DEF Reported
    <3> QED BY <3>2, <3>3, <3>4 DEF ReportOf
  <2>2. CASE Quiz!AnalyzeAttempts(t)
    <3> DEFINE found == Quiz!AttemptsOf(report[t].row.id)
    <3>1. report[t] # Nothing /\ report' = [report EXCEPT ![t].read = TRUE, ![t].attempts = found]
      BY <2>2, Zenon DEF Quiz!AnalyzeAttempts
    <3>2. ReportOf(report[t])
      BY <1>2, <3>1
    <3>3. report[t] \in Reported /\ report[t].row \in given
      BY <3>2 DEF ReportOf
    <3>4. /\ found \in SUBSET Nat
          /\ \A i \in found : i \in DOMAIN attempts /\ attempts[i].quiz_id = report[t].row.id
      BY DEF Quiz!AttemptsOf, PupilsOK
    <3> HIDE DEF found
    <3>5. PICK x : x = [row |-> report[t].row, read |-> TRUE, attempts |-> found]
      OBVIOUS
    <3>6. report'[t] = x
      BY <1>2, <3>1, <3>3, <3>5 DEF Reported
    <3>7. report' = [report EXCEPT ![t] = x]
      BY <1>2, <3>1, <3>6
    <3>8. x.row = report[t].row /\ x.attempts = found /\ x \in Reported
      BY <3>3, <3>4, <3>5 DEF Reported
    <3>9. ReportOf(x)
      <4>1. x.row.id = report[t].row.id
        BY <3>8
      <4>2. \A i \in x.attempts : i \in DOMAIN attempts /\ attempts[i].quiz_id = x.row.id
        BY <3>4, <3>8, <4>1
      <4> QED BY <3>3, <3>8, <4>2 DEF ReportOf
    <3> QED BY <3>7, <3>9
  <2>3. CASE Quiz!CloseReport(t)
    BY <2>3 DEF Quiz!CloseReport
  <2> QED BY <2>1, <2>2, <2>3 DEF Quiz!Analyze
<1>4. \A y : ReportOf(y) => ReportOf(y)'
  BY <1>1 DEF ReportOf, Reporting
<1>5. \A u \in Readers : report'[u] # Nothing => ReportOf(report'[u])
  BY <1>2, <1>3
<1>6. \A u \in Readers : report'[u] # Nothing => ReportOf(report[u])'
  BY <1>1, <1>5 DEF ReportOf, Reporting
<1> QED BY <1>1, <1>2, <1>3, <1>6 DEF ReportOK

LEMMA DeskStep ==
  ASSUME QuizInv, Desk, DeskOK', CalmOK'
  PROVE  QuizInv'
BY PupilsStay DEF Desk, QuizInv

LEMMA PupilsStep ==
  ASSUME QuizInv, Apart, PupilsOK', ReportOK'
  PROVE  QuizInv'
BY DesksStay DEF Apart, QuizInv

LEMMA LearnKeeps ==
  ASSUME Quiz!ConstantsFit, QuizInv, NEW s \in Students, Quiz!Learn(s)
  PROVE  QuizInv'
<1>1. DeskOK /\ PupilsOK /\ ReportOK
  BY DEF QuizInv
<1>2. CASE Quiz!Visit(s)
  BY <1>1, <1>2, VisitKeeps, PupilsStep
<1>3. CASE Quiz!CloseQuiz(s)
  BY <1>1, <1>3, CloseKeeps, PupilsStep
<1>4. CASE \E e \in listed[s] : Quiz!TakeQuiz(s, e)
  BY <1>1, <1>4, TakeKeeps, PupilsStep
<1>5. CASE taking[s] # Nothing /\ \E n \in 0 .. Questions[taking[s].quiz] : Quiz!SubmitQuiz(s, n)
  BY <1>1, <1>5, SubmitKeeps, PupilsStep
<1> QED BY <1>2, <1>3, <1>4, <1>5 DEF Quiz!Learn

LEMMA ServeKeeps ==
  ASSUME Quiz!ConstantsFit, QuizInv, Quiz!Serve
  PROVE  QuizInv'
<1>1. DeskOK /\ CalmOK /\ PupilsOK /\ ReportOK
  BY DEF QuizInv
<1>2. ASSUME NEW o \in orders,
             Quiz!CreateQuiz(o) \/ Quiz!DeleteQuiz(o) \/ Quiz!FetchBoard(o) \/ Quiz!OrderFails(o)
      PROVE  QuizInv'
  BY <1>1, <1>2, CreateKeeps, DeleteKeeps, FetchKeeps, FailKeeps, DeskStep
<1>3. ASSUME NEW a \in answers, Quiz!ShowBoard(a) \/ Quiz!AnswerLost(a)
      PROVE  QuizInv'
  BY <1>1, <1>3, ShowKeeps, LostKeeps, DeskStep
<1>4. ASSUME NEW g \in gets, Quiz!ReadQuizzes(g) \/ Quiz!ReadAttempts(g) \/ Quiz!ShowQuizzes(g)
      PROVE  QuizInv'
  BY <1>1, <1>4, ReadQuizzesKeeps, ReadAttemptsKeeps, ShowQuizzesKeeps, PupilsStep
<1>5. ASSUME NEW p \in posts, Quiz!SaveAttempt(p) \/ Quiz!PostFails(p) \/ Quiz!Submitted(p)
      PROVE  QuizInv'
  BY <1>1, <1>5, SaveKeeps, PostFailsKeeps, SubmittedKeeps, PupilsStep
<1> QED BY <1>2, <1>3, <1>4, <1>5 DEF Quiz!Serve

LEMMA QuizStep ==
  ASSUME Quiz!ConstantsFit
  PROVE  QuizInv /\ [Quiz!Next]_(Quiz!vars) => QuizInv'
<1> SUFFICES ASSUME QuizInv, [Quiz!Next]_(Quiz!vars) PROVE QuizInv'
  OBVIOUS
<1>1. DeskOK /\ CalmOK /\ PupilsOK /\ ReportOK
  BY DEF QuizInv
<1>2. ASSUME NEW t \in Teachers, Quiz!Ask(t)
      PROVE  QuizInv'
  BY <1>1, <1>2, AskKeeps, DeskStep
<1>3. ASSUME NEW t \in Readers, Quiz!Analyze(t)
      PROVE  QuizInv'
  <2>1. Reporting /\ ReportOK'
    BY <1>1, <1>3, AnalyzeKeeps
  <2>2. DeskOK' /\ CalmOK'
    BY <1>1, <2>1, DesksStay DEF Reporting
  <2>3. PupilsOK'
    BY <1>1, <2>1, PupilsApart DEF Reporting
  <2> QED BY <2>1, <2>2, <2>3 DEF QuizInv
<1>4. ASSUME NEW s \in Students, Quiz!Learn(s)
      PROVE  QuizInv'
  BY <1>4, LearnKeeps
<1>5. CASE UNCHANGED Quiz!vars
  <2>1. /\ UNCHANGED <<quizzes, given, board, orders, answers, calm, sent, report>>
        /\ UNCHANGED <<attempts, listed, taking, posts, gets, clicks>>
    BY <1>5 DEF Quiz!vars, Quiz!tables, Quiz!pages, Quiz!network, Quiz!desk, Quiz!history
  <2>2. DeskOK' /\ CalmOK'
    BY <1>1, <2>1, DesksStay
  <2>3. PupilsOK'
    BY <1>1, <2>1, PupilsApart
  <2>4. ReportOK'
    BY <1>1, <2>1, ReportsStay DEF PupilsOK, Grows
  <2> QED BY <2>2, <2>3, <2>4 DEF QuizInv
<1> QED BY <1>2, <1>3, <1>4, <1>5, ServeKeeps DEF Quiz!Next

LEMMA QuizInit ==
  ASSUME Quiz!ConstantsFit, Quiz!Init
  PROVE  QuizInv
<1>1. /\ quizzes = {} /\ attempts = << >> /\ posts = {} /\ gets = {}
      /\ orders = {} /\ answers = {} /\ given = {} /\ calm = Teachers /\ sent = 0 /\ clicks = 0
      /\ listed = [s \in Students |-> {}] /\ taking = [s \in Students |-> Nothing]
      /\ board = [t \in Teachers |-> {}] /\ report = [t \in Readers |-> Nothing]
  BY DEF Quiz!Init
<1>2. IsFiniteSet({}) /\ Cardinality({}) = 0
  BY FS_EmptySet
<1>3. MaxOrders \in Nat /\ MaxClicks \in Nat
  BY DEF Quiz!ConstantsFit
<1>4. DeskOK
  BY <1>1, <1>2, <1>3 DEF DeskOK
<1>5. CalmOK
  BY <1>1 DEF CalmOK
<1>6. PupilsOK
  <2>1. ToSave = {}
    BY <1>1 DEF ToSave
  <2> QED BY <1>1, <1>2, <1>3, <2>1 DEF PupilsOK
<1>7. ReportOK
  BY <1>1 DEF ReportOK
<1> QED BY <1>4, <1>5, <1>6, <1>7 DEF QuizInv

LEMMA QuizAlways ==
  ASSUME Quiz!ConstantsFit
  PROVE  Quiz!Spec => []QuizInv
<1>1. Quiz!Init => QuizInv
  BY QuizInit
<1> QED BY <1>1, QuizStep, PTL DEF Quiz!Spec

LEMMA BoardsFollow ==
  ASSUME QuizInv
  PROVE  Quiz!BoardsOK
<1>1. DeskOK /\ CalmOK /\ PupilsOK
  BY DEF QuizInv
<1>2. Quiz!CalmBoardsCurrent
  <2> SUFFICES ASSUME NEW t \in calm, Quiz!UnderWay(t) = {} PROVE board[t] = quizzes
    BY DEF Quiz!CalmBoardsCurrent
  <2>1. \A a \in answers : a.teacher # t
    BY DEF Quiz!UnderWay
  <2> QED BY <1>1, <2>1 DEF CalmOK
<1>3. \A s \in Students : taking[s] \in Quiz!Row \cup {Nothing}
  BY <1>1 DEF PupilsOK, DeskOK
<1>4. Len(attempts) <= clicks
  <2>1. Len(attempts) + Cardinality(ToSave) <= clicks /\ clicks \in Nat
    BY <1>1 DEF PupilsOK
  <2> QED BY <1>1, <2>1, WaitingFinite
<1>5. Quiz!TypeOK
  <2>1. \A t \in Teachers : board[t] \subseteq given
    BY <1>1 DEF DeskOK
  <2>2. \A o \in orders : o.teacher \in Teachers /\ o.kind \in {"create", "delete", "fetch"}
    BY <1>1 DEF DeskOK, OrderOK
  <2>3. \A a \in answers : a.teacher \in Teachers /\ a.rows \subseteq given
    BY <1>1 DEF DeskOK, AnswerOK
  <2>4. attempts \in Seq(Quiz!Attempt) /\ clicks \in 0 .. MaxClicks
    BY <1>1 DEF PupilsOK
  <2>5. /\ \A r1, r2 \in quizzes : r1.id = r2.id => r1 = r2
        /\ quizzes \subseteq given /\ given \subseteq Quiz!Row
        /\ calm \subseteq Teachers /\ sent \in 0 .. MaxOrders
    BY <1>1 DEF DeskOK
  <2> QED BY <1>3, <1>4, <2>1, <2>2, <2>3, <2>4, <2>5 DEF Quiz!TypeOK
<1> QED BY <1>2, <1>5 DEF Quiz!BoardsOK

\* Rows that were given under one id, not given again, are one row.
LEMMA OneRow ==
  ASSUME DeskOK, NEW r \in given, ~Quiz!Reused(r.id), NEW id, NEW quiz,
         RowOf(id, quiz) \in given, r.id = id
  PROVE  r.quiz = quiz
<1>1. RowOf(id, quiz).id = id /\ RowOf(id, quiz).quiz = quiz
  BY DEF RowOf
<1>2. RowOf(id, quiz) = r
  BY <1>1 DEF Quiz!Reused
<1> QED BY <1>1, <1>2

LEMMA AttemptsFollow ==
  ASSUME QuizInv
  PROVE  Quiz!AttemptsCountForAnswered
<1> SUFFICES ASSUME NEW i \in DOMAIN attempts, NEW r \in quizzes,
                    r.id = attempts[i].quiz_id, ~Quiz!Reused(r.id)
             PROVE  r.quiz = attempts[i].answered
  BY DEF Quiz!AttemptsCountForAnswered
<1>1. DeskOK /\ r \in given /\ AttemptOK(attempts[i])
  BY DEF QuizInv, DeskOK, PupilsOK
<1> QED BY <1>1, OneRow DEF AttemptOK

LEMMA ReportsFollow ==
  ASSUME Quiz!ConstantsFit, QuizInv
  PROVE  Quiz!ReportsConsistent
<1> SUFFICES ASSUME NEW t \in Readers, report[t] # Nothing, ~Quiz!Reused(report[t].row.id),
                    NEW i \in report[t].attempts
             PROVE  /\ attempts[i].answered = report[t].row.quiz
                    /\ attempts[i].score <= Quiz!MaxPossible(report[t].row.quiz)
  BY DEF Quiz!ReportsConsistent
<1>1. ReportOf(report[t]) /\ DeskOK /\ PupilsOK
  BY DEF QuizInv, ReportOK
<1>2. /\ report[t].row \in given /\ i \in DOMAIN attempts
      /\ attempts[i].quiz_id = report[t].row.id
  BY <1>1 DEF ReportOf
<1>3. /\ AttemptOK(attempts[i]) /\ attempts[i] \in Quiz!Attempt
  BY <1>1, <1>2 DEF PupilsOK
<1>4. attempts[i].answered = report[t].row.quiz
  BY <1>1, <1>2, <1>3, OneRow DEF AttemptOK
<1>5. /\ attempts[i].score \in Nat /\ attempts[i].answered \in Contents
      /\ attempts[i].score <= Questions[attempts[i].answered]
  BY <1>3 DEF AttemptOK, Quiz!Attempt
<1>6. Questions[attempts[i].answered] \in Nat
  BY <1>5 DEF Quiz!ConstantsFit
<1>7. attempts[i].score <= Quiz!MaxPossible(attempts[i].answered)
  BY <1>5, <1>6 DEF Quiz!MaxPossible
<1> QED BY <1>4, <1>7

LEMMA PagesFollow ==
  ASSUME QuizInv
  PROVE  Quiz!PagesTruthful
<1> SUFFICES ASSUME NEW s \in Students, NEW e \in listed[s]
             PROVE  LET saved == { i \in DOMAIN attempts :
                                     attempts[i].student = s /\ attempts[i].quiz_id = e.id }
                    IN  /\ e.tries <= Cardinality(saved)
                        /\ e.best = 0 \/ \E i \in saved : attempts[i].score = e.best
  BY SameCardinality DEF Quiz!PagesTruthful
<1>1. ListedOK(s, e)
  BY DEF QuizInv, PupilsOK
<1> QED BY <1>1 DEF ListedOK, Saved

LEMMA DeletesFollow ==
  ASSUME QuizInv, [Quiz!Next]_(Quiz!vars), NEW r \in quizzes \ quizzes', ~Quiz!Reused(r.id)
  PROVE  \E o \in orders \ orders' : o.kind = "delete" /\ o.row = r
<1>1. DeskOK /\ CalmOK /\ PupilsOK /\ ReportOK
  BY DEF QuizInv
<1>2. quizzes' # quizzes
  OBVIOUS
<1>3. PICK o \in orders : Quiz!CreateQuiz(o) \/ Quiz!DeleteQuiz(o)
  <2>1. ~UNCHANGED Quiz!vars
    BY <1>2 DEF Quiz!vars, Quiz!tables
  <2>2. \A t \in Teachers : ~Quiz!Ask(t)
    BY <1>2 DEF Quiz!Ask, Quiz!Send, Quiz!tables
  <2>3. \A t \in Readers : ~Quiz!Analyze(t)
    BY <1>2 DEF Quiz!Analyze, Quiz!AnalyzeQuiz, Quiz!AnalyzeAttempts, Quiz!CloseReport, Quiz!tables
  <2>4. \A s \in Students : ~Quiz!Learn(s)
    BY <1>2 DEF Quiz!Learn, Quiz!Visit, Quiz!CloseQuiz, Quiz!TakeQuiz, Quiz!SubmitQuiz, Quiz!tables
  <2>5. \A q : ~Quiz!FetchBoard(q) /\ ~Quiz!OrderFails(q) /\ ~Quiz!ShowBoard(q) /\ ~Quiz!AnswerLost(q)
    BY <1>2 DEF Quiz!FetchBoard, Quiz!OrderFails, Quiz!ShowBoard, Quiz!AnswerLost, Quiz!tables
  <2>6. \A q : ~Quiz!ReadQuizzes(q) /\ ~Quiz!ReadAttempts(q) /\ ~Quiz!ShowQuizzes(q)
    BY <1>2 DEF Quiz!ReadQuizzes, Quiz!ReadAttempts, Quiz!ShowQuizzes, Quiz!tables
  <2>7. \A q : ~Quiz!SaveAttempt(q) /\ ~Quiz!PostFails(q) /\ ~Quiz!Submitted(q)
    BY <1>2 DEF Quiz!SaveAttempt, Quiz!PostFails, Quiz!Submitted, Quiz!tables
  <2>8. Quiz!Serve
    BY <2>1, <2>2, <2>3, <2>4 DEF Quiz!Next
  <2> QED BY <2>5, <2>6, <2>7, <2>8 DEF Quiz!Serve
<1>4. CASE Quiz!CreateQuiz(o)
  BY <1>4 DEF Quiz!CreateQuiz
<1>5. CASE Quiz!DeleteQuiz(o)
  <2>1. o.kind = "delete" /\ r.id = o.row.id /\ orders' = orders \ {o}
    BY <1>5 DEF Quiz!DeleteQuiz, Quiz!Without, Quiz!Answer
  <2>2. o.row \in given /\ r \in given
    BY <1>1, <2>1 DEF DeskOK, OrderOK
  <2>3. o.row = r
    BY <2>1, <2>2 DEF Quiz!Reused
  <2> QED BY <2>1, <2>3
<1> QED BY <1>3, <1>4, <1>5

\* The tables and the lists are well formed, and the list that a teacher's page keeps by
\* hand is the table for a teacher nothing came in the way of (create_quiz, delete_quiz;
\* handleCreateQuiz and handleDelete of Quizmanager.jsx).
THEOREM BoardsAlwaysOK == Quiz!Spec => []BoardsOK
<1>1. Quiz!ConstantsFit
  BY QuizAssumption
<1>2. QuizInv => BoardsOK
  BY <1>1, BoardsFollow DEF BoardsOK
<1>3. Quiz!Spec => []QuizInv
  BY <1>1, QuizAlways
<1> QED BY <1>2, <1>3, PTL

\* An attempt counts for the quiz that was answered, however stale the lists and pages,
\* unless the id of the quiz was given again (submit_quiz_attempt; submitQuiz of Quizzes.jsx).
THEOREM AttemptsAlwaysCount == Quiz!Spec => []AttemptsCountForAnswered
<1>1. Quiz!ConstantsFit
  BY QuizAssumption
<1>2. QuizInv => AttemptsCountForAnswered
  BY <1>1, AttemptsFollow DEF AttemptsCountForAnswered
<1>3. Quiz!Spec => []QuizInv
  BY <1>1, QuizAlways
<1> QED BY <1>2, <1>3, PTL

\* A report puts against a quiz the attempts at that quiz, with scores that it allows, unless
\* its id was given again (get_quiz_analytics).
THEOREM ReportsAlwaysConsistent == Quiz!Spec => []ReportsConsistent
<1>1. Quiz!ConstantsFit
  BY QuizAssumption
<1>2. QuizInv => ReportsConsistent
  BY <1>1, ReportsFollow DEF ReportsConsistent
<1>3. Quiz!Spec => []QuizInv
  BY <1>1, QuizAlways
<1> QED BY <1>2, <1>3, PTL

\* A student's page claims no more tries than were saved and no score the student never had
\* (get_user_quizzes; fetchQuizzes of Quizzes.jsx).
THEOREM PagesAlwaysTruthful == Quiz!Spec => []PagesTruthful
<1>1. Quiz!ConstantsFit
  BY QuizAssumption
<1>2. QuizInv => PagesTruthful
  BY <1>1, PagesFollow DEF PagesTruthful
<1>3. Quiz!Spec => []QuizInv
  BY <1>1, QuizAlways
<1> QED BY <1>2, <1>3, PTL

\* What is deleted is the quiz that the teacher saw, however old the list, unless its id was
\* given again (delete_quiz; handleDelete of Quizmanager.jsx).
THEOREM DeletesAlwaysShown == Quiz!Spec => DeletesWhatIsShown
<1>1. Quiz!ConstantsFit
  BY QuizAssumption
<1>2. QuizInv /\ [Quiz!Next]_(Quiz!vars) =>
        [\A r \in quizzes \ quizzes' : ~Quiz!Reused(r.id) =>
           \E o \in orders \ orders' : o.kind = "delete" /\ o.row = r]_(Quiz!vars)
  BY DeletesFollow
<1>3. Quiz!Spec => []QuizInv
  BY <1>1, QuizAlways
<1> QED BY <1>2, <1>3, PTL DEF Quiz!Spec, DeletesWhatIsShown, Quiz!DeletesWhatIsShown
=============================================================================
