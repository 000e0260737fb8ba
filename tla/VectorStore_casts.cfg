SPECIFICATION MCSpec
CONSTANTS
  d1 = d1
  d2 = d2
  d3 = d3
  d4 = d4
  d5 = d5
  s1 = s1
  s2 = s2
  j1 = j1
  q1 = q1
  Subjects = {s1, s2}
  Docs = {d1, d2, d3, d4, d5}
  SubjectOf <- MCSubjectOf
  Empty = {d4}
  Unreadable = {d3}
  Jobs = {j1, j2}
  Searchers = {x1}
  Queries = {q1, q2}
  Absent = Absent
  Garbled = Garbled
  Nothing = Nothing
  MaxCacheSize = 1
  QueryCacheSize = 1
INVARIANTS StoreOK SourcesStored FreshAnswersCover
PROPERTIES KeepsPromise EverythingEnds
CHECK_DEADLOCK FALSE
