--------------------------- MODULE ClassRecords ----------------------------
(***************************************************************************)
(* The attendance and the marks of a class, side by side.  The two routers *)
(* share the students and the way they use their sessions, and no state;   *)
(* so Attendance keeps its names here and Marks is an instance.            *)
(***************************************************************************)
EXTENDS Attendance

CONSTANTS
  Fields,       \* columns of marks
  Points,       \* values of a column
  SheetLists    \* the lists of entries that clients send

VARIABLES
  marksTable, marksPc, marksList, marksBulk, marksDone, marksSession, marksReply,
  marksClash, marksRaced, entered

Sheets == INSTANCE Marks
            WITH Lists <- SheetLists, table <- marksTable, pc <- marksPc, list <- marksList,
                 bulk <- marksBulk, done <- marksDone, session <- marksSession,
                 reply <- marksReply, clash <- marksClash, raced <- marksRaced

ASSUME SheetsAssumption == Sheets!ConstantsFit

\* A row of marks that no two requests raced for is found whole, and whoever reads
\* it finds the same row (SheetOK of Marks).
SheetOK == Sheets!SheetOK

\* Each column of a row of marks holds points that a request entered in it and committed,
\* even where requests race (ColumnsEntered of Marks).
ColumnsEntered == Sheets!ColumnsEntered
=============================================================================
