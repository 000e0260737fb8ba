SPECIFICATION MCSpec
CONSTANTS
  c1 = c1
  c2 = c2
  c3 = c3
  q1 = q1
  q2 = q2
  Calls = {c1, c2, c3}
  Queries = {q1, q2}
  Contexts = {x}
  Conversations = {h}
  ModelTypes = {"ollama", "gemini", "Gemini"}
  Nothing = Nothing
  TimedOut = TimedOut
  Failed = Failed
  PoolSize = 2
  MaxCacheSize = 1
  GeminiAvailable = TRUE
INVARIANTS CacheOK RepliesFitRequest FewLateCalls
PROPERTIES EveryJobEnds
CHECK_DEADLOCK FALSE
