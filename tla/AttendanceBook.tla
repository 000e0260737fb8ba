--------------------------- MODULE AttendanceBook ---------------------------
(***************************************************************************)
(* What attendance marking is for: a book with one entry for each student, *)
(* subject and date.  A list of marks is entered as a whole and its sender *)
(* told "ok" afterwards, or nothing is entered.  Only the sender of a      *)
(* single mark may be told "error" although it is entered; a crash leaves  *)
(* the sender without a word.  An entry that several marks compete for, of *)
(* overlapping requests or of one list, is void for good: the book         *)
(* promises nothing of it, and everything of the other entries of the same *)
(* lists.                                                                  *)
(***************************************************************************)
EXTENDS Integers, Sequences

CONSTANTS Clients, Enrolled, Subjects, Dates, Lists

VARIABLES book, told

vars == <<book, told>>

Entry == [usn : Enrolled, subject : Subjects, date : Dates]

For(l, k) ==
  { i \in DOMAIN l : l[i].usn = k.usn /\ l[i].subject = k.subject /\ l[i].date = k.date }

Init ==
  /\ book = [k \in Entry |-> "none"]
  /\ told = [c \in Clients |-> "none"]

\* Marks of students carry a date; others are ignored.
Enterable(l) == \A i \in DOMAIN l : l[i].usn \in Enrolled => l[i].date \in Dates

\* Entered, and its sender does not know it yet.
Entered == {"listEntered", "markEntered"}

\* The marks of a list are entered; an entry that is not void has one at most.
Enter(c) ==
  /\ told[c] = "none"
  /\ \E l \in Lists :
    /\ Enterable(l)
    /\ book' = [k \in Entry |->
         IF For(l, k) = {} \/ book[k] = "void" THEN book[k]
         ELSE l[CHOOSE i \in For(l, k) : TRUE].status]
    /\ \E e \in Entered :
         /\ e = "markEntered" => Len(l) = 1
         /\ told' = [told EXCEPT ![c] = e]

Confirm(c) ==
  /\ told[c] \in Entered
  /\ told' = [told EXCEPT ![c] = "ok"] /\ UNCHANGED book

Misreport(c) ==
  /\ told[c] = "markEntered"
  /\ told' = [told EXCEPT ![c] = "error"] /\ UNCHANGED book

Refuse(c) ==
  /\ told[c] = "none"
  /\ told' = [told EXCEPT ![c] = "error"] /\ UNCHANGED book

\* A list is handed in; some of its entries may have to compete.
Consider(c) ==
  /\ told[c] \notin Entered
  /\ told' = [told EXCEPT ![c] = "none"]
  /\ book' \in [Entry -> {"none", "void", "Present", "Absent"}]
  /\ \E l \in Lists : \A k \in Entry :
       book'[k] # book[k] => book'[k] = "void" /\ For(l, k) # {}

Crash ==
  /\ told' = [c \in Clients |-> IF told[c] \in Entered THEN "none" ELSE told[c]]
  /\ UNCHANGED book

Next ==
  \/ \E c \in Clients : \/ Enter(c) \/ Confirm(c) \/ Misreport(c)
                        \/ Refuse(c) \/ Consider(c)
  \/ Crash

Spec == Init /\ [][Next]_vars
=============================================================================
