SPECIFICATION MCSpec
CONSTANTS
  Tabs = {tab1, tab2}
  Users = {u1, u2}
  Recent = 2
  MaxAsks = 4
  Nothing = Nothing
SYMMETRY Symmetry
INVARIANTS HistoryOK PagesRemember ClearedStaysCleared
CHECK_DEADLOCK FALSE
