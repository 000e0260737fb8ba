----------------------------- MODULE OrmSession -----------------------------
(***************************************************************************)
(* A SQLAlchemy session over SQLite, as far as the backend's routers       *)
(* depend on it.  External code, modelled from how db.py configures it     *)
(* (autoflush=False, one session per request) and how routers/attendance.py*)
(* and routers/marks.py use it.                                            *)
(*                                                                         *)
(* A query reads what is committed: additions and changes that a session   *)
(* has not flushed are not in its results.  A commit writes, at once, the  *)
(* rows that were added and, of the rows that were changed, the columns    *)
(* whose value differs from the one that was read.                         *)
(*                                                                         *)
(* A table whose rows are never deleted is the sequence of its rows: the   *)
(* id of a row is its place, and first() is the matching row of least id.  *)
(***************************************************************************)
EXTENDS Integers, Sequences, FiniteSets

\* The ids of the rows with key k.
RowsOf(table, k) == { i \in DOMAIN table : table[i].key = k }

\* .first(), for a key that has a row.
FirstRow(table, k) == CHOOSE i \in RowsOf(table, k) : \A j \in RowsOf(table, k) : i <= j

NoChanges == [dirty |-> {}, new |-> << >>]

\* db.add(Model(...))
Add(session, k, cols) ==
  [session EXCEPT !.new = Append(@, [key |-> k, cols |-> cols])]

\* Assignments to the columns of row i.  A row the session has met before keeps
\* the column values of the first meeting as what was read.
Assign(session, table, i, cols) ==
  LET known == { u \in session.dirty : u.row = i }
      read == IF known = {} THEN {table[i].cols} ELSE { u.read : u \in known }
  IN [session EXCEPT !.dirty =
        (@ \ known) \cup { [row |-> i, read |-> r, now |-> cols] : r \in read }]

\* UPDATE of the columns that changed.
Updated(cols, u) ==
  [f \in DOMAIN cols |-> IF u.now[f] # u.read[f] THEN u.now[f] ELSE cols[f]]

\* commit()
Flush(table, session) ==
  LET ChangesOf(i) == { u \in session.dirty : u.row = i }
  IN [i \in DOMAIN table |->
        IF ChangesOf(i) = {} THEN table[i]
        ELSE [table[i] EXCEPT !.cols = Updated(@, CHOOSE u \in ChangesOf(i) : TRUE)]]
       \o session.new
=============================================================================
