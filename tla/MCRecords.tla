----------------------------- MODULE MCRecords -----------------------------
(***************************************************************************)
(* The instances of Attendance and Marks for TLC.  The routers share       *)
(* nothing but the students: a behaviour is one of the one or of the other.*)
(***************************************************************************)
EXTENDS ClassRecords, TLC

CONSTANTS u1, u2, stranger, s, t1, t2

VARIABLE cast   \* "attendance" or "marks"

marksVars == <<marksTable, marksPc, marksList, marksBulk, marksDone, marksSession,
               marksReply, marksClash, marksRaced, entered>>

M(u, t, status) == [usn |-> u, subject |-> s, date |-> t, status |-> status]

\* Marks that compete for one date of a student, alone, in a list and twice in
\* one list; another date; a stranger and a bad date.
MCLists ==
  { <<M(u1, t1, "Present")>>, <<M(stranger, t1, "Present")>>,
    <<M(u1, t1, "Absent"), M(u1, t1, "Present")>>,
    <<M(u1, t1, "Absent"), M(stranger, t1, "Present"), M(u1, t2, "Present")>>,
    <<M(u1, t2, "Absent"), M(u1, NoDate, "Present")>> }

E(u, ia, quiz) == [usn |-> u, subject |-> s, cols |-> [ia1 |-> ia, quiz |-> quiz]]

\* A single entry, a list that changes another column of it, a list with a
\* stranger, a single stranger.
MarksLists ==
  { <<E(u1, 0, 1)>>, <<E(u1, 1, 1), E(u2, 1, 0)>>,
    <<E(stranger, 1, 1), E(u1, 1, 0)>>, <<E(stranger, 1, 1)>> }

Symmetry == Permutations(Clients)

MCInit == Init /\ Sheets!Init /\ cast \in {"attendance", "marks"}

MCNext ==
  /\ UNCHANGED cast
  /\ \/ cast = "attendance" /\ Next /\ UNCHANGED marksVars
     \/ cast = "marks" /\ Sheets!Next /\ UNCHANGED vars

MCSpec == MCInit /\ [][MCNext]_<<cast, vars, marksVars>>
=============================================================================
