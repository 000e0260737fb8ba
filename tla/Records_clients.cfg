SPECIFICATION MCSpec
CONSTANTS
  u1 = u1
  u2 = u2
  stranger = stranger
  s = s
  t1 = t1
  t2 = t2
  Clients = {c1, c2}
  Enrolled = {u1, u2}
  Strangers = {stranger}
  Subjects = {s}
  Dates = {t1, t2}
  NoDate = NoDate
  Lists <- MCLists
  Fields = {"ia1", "quiz"}
  Points = {0, 1}
  SheetLists <- MarksLists
SYMMETRY Symmetry
INVARIANTS TableOK SheetOK ColumnsEntered
PROPERTIES MarkHolds IsABook
CHECK_DEADLOCK FALSE
