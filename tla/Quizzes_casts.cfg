SPECIFICATION MCSpec
CONSTANTS
  short = short
  long = long
  bad = bad
  Students = {s1, s2}
  Teachers = {t1, t2}
  Readers = {r1}
  Contents = {short, long, bad}
  Questions <- MCQuestions
  Invalid = {bad}
  Nothing = Nothing
  MaxOrders = 4
  MaxUnderWay = 2
  MaxClicks = 2
SYMMETRY Symmetry
INVARIANTS BoardsOK AttemptsCountForAnswered ReportsConsistent PagesTruthful
PROPERTY DeletesWhatIsShown
CHECK_DEADLOCK FALSE
