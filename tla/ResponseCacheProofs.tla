------------------------- MODULE ResponseCacheProofs -------------------------
(***************************************************************************)
(* The response cache for every number of callers, threads, questions and  *)
(* every capacity.  A thread that has found room, or made room, holds a    *)
(* claim on one slot until it stores.  The claims and the entries together *)
(* never exceed MaxCacheSize + PoolSize - 1: finding room needs fewer than *)
(* MaxCacheSize entries and at most PoolSize threads run, deleting turns   *)
(* an entry into a claim, and storing turns a claim into an entry.         *)
(* Calls to Gemini after it has refused one are bounded in the same way,   *)
(* by those that were between the check of the flag and the call.          *)
(***************************************************************************)
EXTENDS ResponseCache, OperatorTheorems, FiniteSetTheorems

Storing == { c \in Calls : pc[c] = "store" }

PoolRespected == Cardinality(Running) <= PoolSize

ClaimsBounded ==
  Len(cache) + Cardinality(Storing) <= MaxCacheSize + PoolSize - 1

\* An answer under key k was made for a call with this key.
Shared(a, k) == Fits(a, k) /\ \E d \in Calls : MadeFor(a, d) /\ KeyOf(d) = k

CacheShared == \A i \in DOMAIN cache : Shared(cache[i].val, cache[i].key)

\* Once a call was refused, those made late and those about to be made.
Calling == { c \in Calls : pc[c] = "call" }
LateBounded ==
  /\ refused => quota
  /\ IF refused THEN late + Cardinality(Calling) <= PoolSize - 1 ELSE late = 0

\* What each place of the program knows of the job's arguments and answer.
JobOK(c) ==
  /\ pc[c] # "new" => req[c] \in Request
  /\ pc[c] \in InThread \cup {"done"} => model[c] \in Routed
  /\ pc[c] \in {"new", "queued", "cancelled"} => model[c] = Nothing
  /\ pc[c] \in {"call", "gemini"} => model[c] = "gemini"
  /\ pc[c] \in {"check", "oldest", "delete", "store"} =>
       resp[c] \in Answer /\ resp[c].kind # "error" /\ MadeFor(resp[c], c)
  /\ pc[c] = "delete" => victim[c] \in Key
  /\ pc[c] = "done" =>
       \/ resp[c] = Failed
       \/ /\ resp[c] \in Answer
          /\ resp[c].kind # "error" => Shared(resp[c], KeyOf(c))
  /\ reply[c] \in Answer => pc[c] = "done"

JobsOK == \A c \in Calls : JobOK(c)

IInv == TypeOK /\ PoolRespected /\ ClaimsBounded /\ JobsOK
          /\ CachedUnderItsKey /\ CacheShared /\ RepliesFitRequest /\ LateBounded
-----------------------------------------------------------------------------
LEMMA RunningFinite == IsFiniteSet(Running) /\ Cardinality(Running) \in Nat
BY CallsAssumption, FS_Subset, FS_CardinalityType DEF Running

LEMMA StoringFinite == IsFiniteSet(Storing) /\ Cardinality(Storing) \in Nat
BY CallsAssumption, FS_Subset, FS_CardinalityType DEF Storing

LEMMA CacheIsFinite ==
  ASSUME TypeOK PROVE Len(cache) \in Nat /\ cache \in Seq([key : Key, val : Answer])
<1>1. cache \in Seq([key : Key, val : Answer])
  BY DEF TypeOK, DictOf
<1> QED
  BY <1>1, LenProperties

LEMMA InitIInv == Init => IInv
<1> SUFFICES ASSUME Init PROVE IInv
  OBVIOUS
<1>1. TypeOK
  BY EmptyIsADict DEF Init, TypeOK
<1>2. Running = {} /\ Storing = {}
  BY DEF Init, Running, Storing, InThread
<1>3. PoolRespected /\ ClaimsBounded
  BY <1>2, FS_EmptySet, EmptyIsADict, PoolAssumption, SizeAssumption
  DEF PoolRespected, ClaimsBounded, Init
<1>4. JobsOK /\ CachedUnderItsKey /\ CacheShared /\ RepliesFitRequest /\ LateBounded
  BY OutcomeAssumption, EmptyIsADict
  DEF Init, JobsOK, JobOK, InThread, CachedUnderItsKey, CacheShared, RepliesFitRequest,
      LateBounded
<1> QED
  BY <1>1, <1>3, <1>4 DEF IInv
-----------------------------------------------------------------------------
\* A step that starts no job keeps the pool within its size.
LEMMA PoolStep ==
  ASSUME PoolRespected, Running' \subseteq Running
  PROVE  PoolRespected'
<1>1. IsFiniteSet(Running)
  BY RunningFinite
<1>2. Cardinality(Running') <= Cardinality(Running) /\ IsFiniteSet(Running')
  BY <1>1, FS_Subset
<1>3. Cardinality(Running) \in Nat /\ Cardinality(Running') \in Nat
  BY <1>1, <1>2, FS_CardinalityType
<1> QED
  BY <1>2, <1>3, PoolAssumption DEF PoolRespected

\* A step that makes no claim and adds no entry keeps the bound.
LEMMA ClaimStep ==
  ASSUME TypeOK, TypeOK', ClaimsBounded, Storing' \subseteq Storing,
         Len(cache') <= Len(cache)
  PROVE  ClaimsBounded'
<1>1. IsFiniteSet(Storing)
  BY StoringFinite
<1>2. Cardinality(Storing') <= Cardinality(Storing) /\ IsFiniteSet(Storing')
  BY <1>1, FS_Subset
<1>3. Cardinality(Storing) \in Nat /\ Cardinality(Storing') \in Nat
  BY <1>1, <1>2, FS_CardinalityType
<1>4. Len(cache) \in Nat /\ Len(cache') \in Nat
  <2>1. cache' \in Seq([key : Key, val : Answer])
    BY DEF TypeOK, DictOf
  <2> QED
    BY <2>1, CacheIsFinite, LenProperties
<1> QED
  BY <1>2, <1>3, <1>4, PoolAssumption, SizeAssumption DEF ClaimsBounded
-----------------------------------------------------------------------------
LEMMA KeyType ==
  ASSUME NEW c \in Calls, JobOK(c), pc[c] \in InThread
  PROVE  KeyOf(c) \in Key
BY DEF JobOK, KeyOf, CacheKey, Key, Request, InThread

LEMMA RouteType ==
  ASSUME NEW r \in Request
  PROVE  Route(r.model) \in Routed /\ CacheKey(r, Route(r.model)) \in Key
BY DEF Request, Route, Routed, CacheKey, Key

LEMMA OllamaAnswer ==
  ASSUME NEW c \in Calls, req[c] \in Request, model[c] = "ollama",
         NEW kind \in {"text", "empty", "error"}
  PROVE  FromOllama(c, kind) \in Answer /\ MadeFor(FromOllama(c, kind), c)
BY NothingAssumption DEF FromOllama, Answer, Request, Fits, KeyOf, CacheKey, Routed, MadeFor

LEMMA GeminiAnswer ==
  ASSUME NEW c \in Calls, req[c] \in Request, model[c] = "gemini", "gemini" \in Routed
  PROVE  FromGemini(c) \in Answer /\ MadeFor(FromGemini(c), c)
BY NothingAssumption DEF FromGemini, Answer, Request, Fits, KeyOf, CacheKey, MadeFor

\* Steps of a job that leave the cache alone keep the types.
LEMMA TypeStep ==
  ASSUME TypeOK, JobsOK, [Next]_vars
  PROVE  TypeOK'
<1>1. ASSUME NEW c \in Calls, Ask(c) PROVE TypeOK'
  BY <1>1 DEF TypeOK, Ask, history, InThread
<1>2. ASSUME NEW c \in Calls, Begin(c) PROVE TypeOK'
  <2> DEFINE m == Route(req[c].model)
             k == CacheKey(req[c], m)
  <2>1. req[c] \in Request /\ m \in Routed /\ k \in Key
    BY <1>2, RouteType DEF JobsOK, JobOK, Begin
  <2>2. pc' \in [Calls -> {"new", "queued", "cancelled", "done"} \cup InThread]
    BY <1>2 DEF Begin, TypeOK, InThread, history
  <2>3. Has(cache, k) => Get(cache, k) \in Answer
    BY GetIsAnItem DEF TypeOK
  <2>4. [kind |-> "error", query |-> req[c].query, context |-> Nothing,
         history |-> Nothing, model |-> m] \in Answer
    BY <2>1 DEF Answer, Request
  <2>5. resp' \in [Calls -> Answer \cup {Failed, Nothing}]
    BY <1>2, <2>3, <2>4 DEF Begin, TypeOK, history
  <2>6. model' \in [Calls -> Routed \cup {Nothing}]
    BY <1>2, <2>1 DEF Begin, TypeOK, history
  <2> QED
    BY <1>2, <2>2, <2>5, <2>6 DEF Begin, TypeOK, history
<1>3. ASSUME NEW c \in Calls, OllamaReplies(c) PROVE TypeOK'
  <2>1. req[c] \in Request /\ model[c] = "ollama"
    BY <1>3 DEF OllamaReplies, JobsOK, JobOK
  <2>2. PICK kind \in {"text", "empty", "error"} : Answered(c, FromOllama(c, kind))
    BY <1>3 DEF OllamaReplies
  <2>3. FromOllama(c, kind) \in Answer
    BY <2>1, OllamaAnswer
  <2> QED
    BY <1>3, <2>2, <2>3 DEF OllamaReplies, Answered, TypeOK, InThread, history
<1>4. ASSUME NEW c \in Calls, CheckQuota(c) PROVE TypeOK'
  BY <1>4 DEF CheckQuota, Raise, TypeOK, InThread, history
<1>14. ASSUME NEW c \in Calls, CallGemini(c) PROVE TypeOK'
  BY <1>14 DEF CallGemini, TypeOK, InThread, history
<1>5. ASSUME NEW c \in Calls, GeminiReplies(c) PROVE TypeOK'
  <2>1. req[c] \in Request /\ model[c] = "gemini" /\ model[c] \in Routed
    BY <1>5 DEF GeminiReplies, JobsOK, JobOK, InThread
  <2>2. FromGemini(c) \in Answer
    BY <2>1, GeminiAnswer
  <2> QED
    BY <1>5, <2>2 DEF GeminiReplies, Answered, Raise, TypeOK, InThread, history
<1>6. ASSUME NEW c \in Calls, CheckRoom(c) PROVE TypeOK'
  BY <1>6 DEF CheckRoom, TypeOK, InThread, history
<1>7. ASSUME NEW c \in Calls, PickOldest(c) PROVE TypeOK'
  <2>1. cache # EmptyDict => OldestKey(cache) \in Key
    BY OldestIsAKey DEF TypeOK
  <2> QED
    BY <1>7, <2>1 DEF PickOldest, Raise, TypeOK, InThread, history
<1>8. ASSUME NEW c \in Calls, DeleteOldest(c) PROVE TypeOK'
  <2>1. Has(cache, victim[c]) => Del(cache, victim[c]) \in DictOf(Key, Answer)
    BY DelItem DEF TypeOK
  <2> QED
    BY <1>8, <2>1 DEF DeleteOldest, Raise, TypeOK, InThread, history
<1>9. ASSUME NEW c \in Calls, Store(c) PROVE TypeOK'
  <2>1. KeyOf(c) \in Key /\ resp[c] \in Answer
    BY <1>9, KeyType DEF Store, JobsOK, JobOK, InThread
  <2>2. Put(cache, KeyOf(c), resp[c]) \in DictOf(Key, Answer)
    BY <2>1, PutItem DEF TypeOK
  <2> QED
    BY <1>9, <2>2 DEF Store, TypeOK, InThread, history
<1>10. ASSUME NEW c \in Calls, Deliver(c) PROVE TypeOK'
  BY <1>10 DEF Deliver, TypeOK, history
<1>11. ASSUME NEW c \in Calls, Timeout(c) PROVE TypeOK'
  BY <1>11 DEF Timeout, TypeOK, history
<1>12. ASSUME ClearCache PROVE TypeOK'
  BY <1>12, EmptyIsADict DEF ClearCache, TypeOK, history
<1>13. ASSUME UNCHANGED vars PROVE TypeOK'
  BY <1>13 DEF vars, job, history, TypeOK
<1> QED
  BY <1>1, <1>2, <1>3, <1>4, <1>5, <1>6, <1>7, <1>8, <1>9, <1>10, <1>11, <1>12, <1>13, <1>14
  DEF Next, Thread
-----------------------------------------------------------------------------
\* Jobs other than the one that steps keep what is known of them, because the
\* step changes nothing that is theirs.
\* The request of a call that has been routed is settled, and so is who an answer was
\* made for.
LEMMA SettledStays ==
  ASSUME JobsOK, TypeOK, [Next]_vars, NEW d \in Calls, model[d] # Nothing
  PROVE  req'[d] = req[d] /\ model'[d] = model[d]
<1>1. pc[d] \notin {"new", "queued", "cancelled"}
  BY DEF JobsOK, JobOK
<1>2. ASSUME NEW c \in Calls, Ask(c) \/ Begin(c) PROVE req'[d] = req[d] /\ model'[d] = model[d]
  BY <1>1, <1>2 DEF Ask, Begin, TypeOK
<1>3. ASSUME NEW c \in Calls,
             OllamaReplies(c) \/ CheckQuota(c) \/ CallGemini(c) \/ GeminiReplies(c) \/ CheckRoom(c)
      PROVE  req' = req /\ model' = model
  BY <1>3 DEF OllamaReplies, CheckQuota, CallGemini, GeminiReplies, CheckRoom
<1>4. ASSUME NEW c \in Calls, PickOldest(c) \/ DeleteOldest(c) \/ Store(c) \/ Deliver(c) \/ Timeout(c)
      PROVE  req' = req /\ model' = model
  BY <1>4 DEF PickOldest, DeleteOldest, Store, Deliver, Timeout
<1>5. ASSUME ClearCache \/ UNCHANGED vars PROVE req' = req /\ model' = model
  BY <1>5 DEF ClearCache, vars, job
<1> QED BY <1>2, <1>3, <1>4, <1>5 DEF Next, Thread

LEMMA MadeForStays ==
  ASSUME JobsOK, TypeOK, [Next]_vars
  PROVE  /\ \A a : \A d \in Calls : MadeFor(a, d) => MadeFor(a, d)' /\ KeyOf(d)' = KeyOf(d)
         /\ \A a, k : Shared(a, k) => Shared(a, k)'
<1>1. ASSUME NEW a, NEW d \in Calls, MadeFor(a, d) PROVE MadeFor(a, d)' /\ KeyOf(d)' = KeyOf(d)
  <2>1. req'[d] = req[d] /\ model'[d] = model[d]
    BY <1>1, SettledStays DEF MadeFor
  <2> QED BY <1>1, <2>1 DEF MadeFor, KeyOf
<1>2. ASSUME NEW a, NEW k, Shared(a, k) PROVE Shared(a, k)'
  BY <1>1, <1>2 DEF Shared
<1> QED BY <1>1, <1>2

LEMMA OtherJobs ==
  ASSUME JobsOK, \A a, k : Shared(a, k) => Shared(a, k)', NEW c \in Calls, NEW d \in Calls, c # d,
         pc'[d] = pc[d], req'[d] = req[d], model'[d] = model[d],
         resp'[d] = resp[d], victim'[d] = victim[d], reply'[d] = reply[d]
  PROVE  JobOK(d)'
<1>1. MadeFor(resp[d], d) => MadeFor(resp[d], d)'
  BY DEF MadeFor, KeyOf
<1>2. \A k : Shared(resp[d], k) => Shared(resp[d], k)'
  OBVIOUS
<1>3. KeyOf(d)' = KeyOf(d)
  BY DEF KeyOf
<1> QED BY <1>1, <1>2, <1>3 DEF JobsOK, JobOK

LEMMA JobsStep ==
  ASSUME TypeOK, JobsOK, CacheShared, [Next]_vars
  PROVE  JobsOK'
<1>0. /\ \A a : \A d \in Calls : MadeFor(a, d) => MadeFor(a, d)' /\ KeyOf(d)' = KeyOf(d)
      /\ \A a, k : Shared(a, k) => Shared(a, k)'
  BY MadeForStays
<1>1. ASSUME NEW c \in Calls, Ask(c) PROVE JobsOK'
  <2>1. JobOK(c)'
    BY <1>1 DEF Ask, TypeOK, JobsOK, JobOK, InThread
  <2>2. \A d \in Calls \ {c} : JobOK(d)'
    BY <1>1, <1>0, OtherJobs DEF Ask, TypeOK
  <2> QED
    BY <2>1, <2>2 DEF JobsOK
<1>2. ASSUME NEW c \in Calls, Begin(c) PROVE JobsOK'
  <2> DEFINE m == Route(req[c].model)
             k == CacheKey(req[c], m)
  <2>1. req[c] \in Request /\ m \in Routed /\ k \in Key
    BY <1>2, RouteType DEF JobsOK, JobOK, Begin
  <2>2. /\ model'[c] = m /\ req'[c] = req[c] /\ reply'[c] = reply[c]
        /\ reply[c] \notin Answer
    BY <1>2 DEF Begin, TypeOK, JobsOK, JobOK
  <2>3. ASSUME Has(cache, k) PROVE JobOK(c)'
    <3>1. pc'[c] = "done" /\ resp'[c] = Get(cache, k)
      BY <1>2, <2>3 DEF Begin, TypeOK
    <3>2. Get(cache, k) \in Answer /\ Shared(Get(cache, k), k)
      BY <2>3, GetIsAnItem DEF TypeOK, CacheShared
    <3>3. PICK a : a = Get(cache, k)
      OBVIOUS
    <3>4. PICK j : j = k
      OBVIOUS
    <3>5. Shared(a, j)' /\ KeyOf(c)' = j
      BY <1>0, <2>2, <3>2, <3>3, <3>4 DEF KeyOf
    <3> HIDE DEF m, k
    <3>6. Shared(resp[c], KeyOf(c))'
      BY <3>1, <3>3, <3>5 DEF Shared
    <3> QED
      BY <2>1, <2>2, <3>1, <3>2, <3>6 DEF JobOK, InThread
  <2>4. ASSUME ~Has(cache, k) /\ m \in {"ollama", "gemini"} PROVE JobOK(c)'
    <3>1. pc'[c] = "ask"
      BY <1>2, <2>4 DEF Begin, TypeOK
    <3> QED
      BY <2>1, <2>2, <3>1 DEF JobOK, InThread, KeyOf
  <2>5. ASSUME ~Has(cache, k) /\ m \notin {"ollama", "gemini"} PROVE JobOK(c)'
    <3> DEFINE e == [kind |-> "error", query |-> req[c].query, context |-> Nothing,
                     history |-> Nothing, model |-> m]
    <3>1. pc'[c] = "done" /\ resp'[c] = e
      BY <1>2, <2>5 DEF Begin, TypeOK
    <3>2. e \in Answer /\ e.kind = "error"
      BY <2>1 DEF Answer, Request
    <3> QED
      BY <2>1, <2>2, <3>1, <3>2 DEF JobOK, InThread, KeyOf
  <2>6. JobOK(c)'
    BY <2>3, <2>4, <2>5
  <2>7. \A d \in Calls \ {c} : JobOK(d)'
    BY <1>2, <1>0, OtherJobs DEF Begin, TypeOK
  <2> QED
    BY <2>6, <2>7 DEF JobsOK
<1>3. ASSUME NEW c \in Calls, OllamaReplies(c) PROVE JobsOK'
  <2>1. req[c] \in Request /\ model[c] = "ollama" /\ reply[c] \notin Answer
    BY <1>3 DEF OllamaReplies, JobsOK, JobOK
  <2>2. PICK kind \in {"text", "empty", "error"} : Answered(c, FromOllama(c, kind))
    BY <1>3 DEF OllamaReplies
  <2> DEFINE a == FromOllama(c, kind)
  <2>3. a \in Answer /\ MadeFor(a, c)
    BY <2>1, OllamaAnswer
  <2>4. /\ resp'[c] = a
        /\ pc'[c] = IF a.kind # "error" THEN "check" ELSE "done"
        /\ req'[c] = req[c] /\ model'[c] = model[c] /\ reply'[c] = reply[c]
    BY <1>3, <2>2 DEF OllamaReplies, Answered, Cacheable, TypeOK
  <2>5. MadeFor(resp[c], c)'
    <3>1. PICK b : b = a
      OBVIOUS
    <3>2. MadeFor(b, c)'
      BY <1>0, <2>3, <3>1
    <3> HIDE DEF a
    <3> QED BY <2>4, <3>1, <3>2 DEF MadeFor
  <2>6. JobOK(c)'
    <3> HIDE DEF a
    <3> QED BY <2>1, <2>3, <2>4, <2>5 DEF JobOK, InThread, Routed
  <2>7. \A d \in Calls \ {c} : JobOK(d)'
    BY <1>3, <2>2, <1>0, OtherJobs DEF OllamaReplies, Answered, TypeOK
  <2> QED
    BY <2>6, <2>7 DEF JobsOK
<1>4. ASSUME NEW c \in Calls, CheckQuota(c) PROVE JobsOK'
  <2>1. JobOK(c)'
    BY <1>4 DEF CheckQuota, Raise, TypeOK, JobsOK, JobOK, InThread
  <2>2. \A d \in Calls \ {c} : JobOK(d)'
    BY <1>4, <1>0, OtherJobs DEF CheckQuota, Raise, TypeOK
  <2> QED
    BY <2>1, <2>2 DEF JobsOK
<1>13. ASSUME NEW c \in Calls, CallGemini(c) PROVE JobsOK'
  <2>1. JobOK(c)'
    BY <1>13 DEF CallGemini, TypeOK, JobsOK, JobOK, InThread
  <2>2. \A d \in Calls \ {c} : JobOK(d)'
    BY <1>13, <1>0, OtherJobs DEF CallGemini, TypeOK
  <2> QED
    BY <2>1, <2>2 DEF JobsOK
<1>5. ASSUME NEW c \in Calls, GeminiReplies(c) PROVE JobsOK'
  <2>1. /\ req[c] \in Request /\ model[c] = "gemini" /\ model[c] \in Routed
        /\ reply[c] \notin Answer
    BY <1>5 DEF GeminiReplies, JobsOK, JobOK, InThread
  <2>2. /\ FromGemini(c) \in Answer /\ MadeFor(FromGemini(c), c)
        /\ FromGemini(c).kind = "text"
    BY <2>1, GeminiAnswer DEF FromGemini
  <2>3. req'[c] = req[c] /\ model'[c] = model[c] /\ reply'[c] = reply[c]
    BY <1>5 DEF GeminiReplies
  <2>4. ASSUME Answered(c, FromGemini(c)) PROVE JobOK(c)'
    <3>1. resp'[c] = FromGemini(c) /\ pc'[c] = "check"
      BY <1>5, <2>2, <2>4 DEF Answered, Cacheable, TypeOK
    <3>2. PICK b : b = FromGemini(c)
      OBVIOUS
    <3>3. MadeFor(b, c)'
      BY <1>0, <2>2, <3>2
    <3>4. MadeFor(resp[c], c)'
      BY <3>1, <3>2, <3>3 DEF MadeFor
    <3> QED
      BY <2>1, <2>2, <2>3, <3>1, <3>4 DEF JobOK, InThread
  <2>5. ASSUME Raise(c) PROVE JobOK(c)'
    <3>1. resp'[c] = Failed /\ pc'[c] = "done"
      BY <2>5 DEF Raise, TypeOK
    <3> QED
      BY <2>1, <2>3, <3>1 DEF JobOK, InThread
  <2>6. JobOK(c)'
    BY <1>5, <2>4, <2>5 DEF GeminiReplies
  <2>7. \A d \in Calls \ {c} : JobOK(d)'
    BY <1>5, <1>0, OtherJobs DEF GeminiReplies, Answered, Raise, TypeOK
  <2> QED
    BY <2>6, <2>7 DEF JobsOK
<1>6. ASSUME NEW c \in Calls, CheckRoom(c) PROVE JobsOK'
  <2>1. JobOK(c)'
    BY <1>6, <1>0 DEF CheckRoom, TypeOK, JobsOK, JobOK, InThread
  <2>2. \A d \in Calls \ {c} : JobOK(d)'
    BY <1>6, <1>0, OtherJobs DEF CheckRoom, TypeOK
  <2> QED
    BY <2>1, <2>2 DEF JobsOK
<1>7. ASSUME NEW c \in Calls, PickOldest(c) PROVE JobsOK'
  <2>1. cache # EmptyDict => OldestKey(cache) \in Key
    BY OldestIsAKey DEF TypeOK
  <2>2. JobOK(c)'
    BY <1>7, <1>0, <2>1 DEF PickOldest, Raise, TypeOK, JobsOK, JobOK, InThread
  <2>3. \A d \in Calls \ {c} : JobOK(d)'
    BY <1>7, <1>0, OtherJobs DEF PickOldest, Raise, TypeOK
  <2> QED
    BY <2>2, <2>3 DEF JobsOK
<1>8. ASSUME NEW c \in Calls, DeleteOldest(c) PROVE JobsOK'
  <2>1. JobOK(c)'
    BY <1>8, <1>0 DEF DeleteOldest, Raise, TypeOK, JobsOK, JobOK, InThread
  <2>2. \A d \in Calls \ {c} : JobOK(d)'
    BY <1>8, <1>0, OtherJobs DEF DeleteOldest, Raise, TypeOK
  <2> QED
    BY <2>1, <2>2 DEF JobsOK
<1>9. ASSUME NEW c \in Calls, Store(c) PROVE JobsOK'
  <2>3. /\ resp[c] \in Answer /\ MadeFor(resp[c], c) /\ req[c] \in Request
        /\ model[c] \in Routed /\ reply[c] \notin Answer
    BY <1>9 DEF Store, JobsOK, JobOK, InThread
  <2>5. pc'[c] = "done" /\ UNCHANGED <<req, model, resp, reply>>
    BY <1>9 DEF Store, TypeOK
  <2>4. MadeFor(resp[c], c)'
    BY <2>3, <2>5 DEF MadeFor, KeyOf
  <2>1. JobOK(c)'
    <3>1. Shared(resp[c], KeyOf(c))'
      BY <2>4 DEF Shared, MadeFor
    <3> QED BY <2>3, <2>5, <3>1 DEF JobOK, InThread
  <2>2. \A d \in Calls \ {c} : JobOK(d)'
    BY <1>9, <1>0, OtherJobs DEF Store, TypeOK
  <2> QED
    BY <2>1, <2>2 DEF JobsOK
<1>10. ASSUME NEW c \in Calls, Deliver(c) PROVE JobsOK'
  <2>1. JobOK(c)'
    <3>1. UNCHANGED <<pc, req, model, resp, victim>> /\ pc[c] = "done" /\ JobOK(c)
      BY <1>10 DEF Deliver, JobsOK
    <3>2. Shared(resp[c], KeyOf(c)) => Shared(resp[c], KeyOf(c))'
      BY <3>1, <1>0 DEF KeyOf
    <3> QED BY <3>1, <3>2 DEF JobOK, InThread
  <2>2. \A d \in Calls \ {c} : JobOK(d)'
    BY <1>10, <1>0, OtherJobs DEF Deliver, TypeOK
  <2> QED
    BY <2>1, <2>2 DEF JobsOK
<1>11. ASSUME NEW c \in Calls, Timeout(c) PROVE JobsOK'
  <2>1. TimedOut \notin Answer
    BY OutcomeAssumption
  <2>2. JobOK(c)'
    <3>1. /\ UNCHANGED <<req, model, resp, victim>> /\ JobOK(c)
          /\ pc'[c] = (IF pc[c] = "queued" THEN "cancelled" ELSE pc[c]) /\ reply'[c] = TimedOut
          /\ pc[c] # "new"
      BY <1>11 DEF Timeout, JobsOK, TypeOK
    <3>2. /\ Shared(resp[c], KeyOf(c)) => Shared(resp[c], KeyOf(c))'
          /\ MadeFor(resp[c], c) => MadeFor(resp[c], c)'
      BY <3>1, <1>0 DEF KeyOf
    <3> QED BY <2>1, <3>1, <3>2 DEF JobOK, InThread
  <2>3. \A d \in Calls \ {c} : JobOK(d)'
    BY <1>11, <1>0, OtherJobs DEF Timeout, TypeOK
  <2> QED
    BY <2>2, <2>3 DEF JobsOK
<1>12. ASSUME ClearCache \/ UNCHANGED vars PROVE JobsOK'
  <2>1. ASSUME NEW d \in Calls PROVE JobOK(d)'
    <3>1. UNCHANGED <<pc, req, model, resp, victim, reply>> /\ JobOK(d)
      BY <1>12 DEF ClearCache, vars, job, JobsOK
    <3>2. /\ Shared(resp[d], KeyOf(d)) => Shared(resp[d], KeyOf(d))'
          /\ MadeFor(resp[d], d) => MadeFor(resp[d], d)'
      BY <3>1, <1>0 DEF KeyOf
    <3> QED BY <3>1, <3>2 DEF JobOK
  <2> QED BY <2>1 DEF JobsOK
<1> QED
  BY <1>1, <1>2, <1>3, <1>4, <1>5, <1>6, <1>7, <1>8, <1>9, <1>10, <1>11, <1>12,
     <1>13
  DEF Next, Thread
-----------------------------------------------------------------------------
\* Only Begin makes a job run, and only while a thread is free.
LEMMA PoolInductive ==
  ASSUME TypeOK, PoolRespected, [Next]_vars
  PROVE  PoolRespected'
<1>1. ASSUME NEW c \in Calls, Begin(c) PROVE PoolRespected'
  <2>1. Running' \subseteq Running \cup {c}
    BY <1>1 DEF Begin, Running, TypeOK, InThread
  <2>2. IsFiniteSet(Running) /\ Cardinality(Running) \in Nat
    BY RunningFinite
  <2>3. /\ IsFiniteSet(Running \cup {c})
        /\ Cardinality(Running \cup {c}) <= Cardinality(Running) + 1
    BY <2>2, FS_AddElement
  <2>4. /\ IsFiniteSet(Running')
        /\ Cardinality(Running') <= Cardinality(Running \cup {c})
    BY <2>1, <2>3, FS_Subset
  <2>5. Cardinality(Running') \in Nat /\ Cardinality(Running \cup {c}) \in Nat
    BY <2>3, <2>4, FS_CardinalityType
  <2>6. Cardinality(Running) < PoolSize
    BY <1>1 DEF Begin
  <2> QED
    BY <2>2, <2>3, <2>4, <2>5, <2>6, PoolAssumption DEF PoolRespected
<1>2. ASSUME NEW c \in Calls, Ask(c) PROVE Running' \subseteq Running
  BY <1>2 DEF Ask, Running, TypeOK, InThread
<1>3. ASSUME NEW c \in Calls,
             OllamaReplies(c) \/ CheckQuota(c) \/ CallGemini(c) \/ GeminiReplies(c)
      PROVE  Running' \subseteq Running
  BY <1>3 DEF OllamaReplies, CheckQuota, CallGemini, GeminiReplies, Answered, Raise, Running,
              TypeOK, InThread
<1>4. ASSUME NEW c \in Calls,
             CheckRoom(c) \/ PickOldest(c) \/ DeleteOldest(c) \/ Store(c)
      PROVE  Running' \subseteq Running
  BY <1>4 DEF CheckRoom, PickOldest, DeleteOldest, Store, Raise, Running, TypeOK, InThread
<1>5. ASSUME NEW c \in Calls, Deliver(c) \/ Timeout(c) PROVE Running' \subseteq Running
  BY <1>5 DEF Deliver, Timeout, Running, TypeOK, InThread
<1>6. ASSUME ClearCache \/ UNCHANGED vars PROVE Running' \subseteq Running
  BY <1>6 DEF ClearCache, vars, job, Running
<1> QED
  BY <1>1, <1>2, <1>3, <1>4, <1>5, <1>6, PoolStep DEF Next, Thread

\* The length check: a new claim is made with fewer than MaxCacheSize entries
\* in the cache, and all claims together are made by jobs that run.
LEMMA ClaimByRoom ==
  ASSUME TypeOK, PoolRespected, PoolRespected', ClaimsBounded,
         NEW c \in Calls, CheckRoom(c)
  PROVE  ClaimsBounded'
<1>1. CASE Len(cache) >= MaxCacheSize
  <2>1. Storing' \subseteq Storing /\ cache' = cache
    BY <1>1 DEF CheckRoom, Storing, TypeOK
  <2>2. IsFiniteSet(Storing) /\ Cardinality(Storing) \in Nat
    BY StoringFinite
  <2>3. IsFiniteSet(Storing') /\ Cardinality(Storing') <= Cardinality(Storing)
    BY <2>1, <2>2, FS_Subset
  <2>4. Cardinality(Storing') \in Nat /\ Len(cache) \in Nat
    BY <2>3, FS_CardinalityType, CacheIsFinite
  <2> QED
    BY <2>1, <2>2, <2>3, <2>4, PoolAssumption, SizeAssumption DEF ClaimsBounded
<1>2. CASE ~(Len(cache) >= MaxCacheSize)
  <2>1. Storing' \subseteq Running' /\ Running' \subseteq Calls /\ cache' = cache
    BY DEF CheckRoom, Storing, Running, InThread
  <2>2. IsFiniteSet(Running')
    BY <2>1, CallsAssumption, FS_Subset
  <2>3. IsFiniteSet(Storing') /\ Cardinality(Storing') <= Cardinality(Running')
    BY <2>1, <2>2, FS_Subset
  <2>4. /\ Cardinality(Storing') \in Nat /\ Cardinality(Running') \in Nat
        /\ Len(cache) \in Nat
    BY <2>2, <2>3, FS_CardinalityType, CacheIsFinite
  <2> QED
    BY <1>2, <2>1, <2>3, <2>4, PoolAssumption, SizeAssumption
    DEF ClaimsBounded, PoolRespected
<1> QED
  BY <1>1, <1>2

\* The deletion: one entry less, one claim more.
LEMMA ClaimByDeletion ==
  ASSUME TypeOK, TypeOK', ClaimsBounded, NEW c \in Calls, DeleteOldest(c)
  PROVE  ClaimsBounded'
<1>1. CASE Has(cache, victim[c])
  <2>1. Storing' = Storing \cup {c} /\ cache' = Del(cache, victim[c])
    BY <1>1 DEF DeleteOldest, Storing, TypeOK
  <2>2. Len(cache') = Len(cache) - 1
    BY <1>1, <2>1, DelItem DEF TypeOK
  <2>3. IsFiniteSet(Storing) /\ Cardinality(Storing) \in Nat
    BY StoringFinite
  <2> DEFINE grown == Storing \cup {c}
  <2>a. /\ IsFiniteSet(grown)
        /\ Cardinality(grown) = IF c \in Storing THEN Cardinality(Storing)
                                                ELSE Cardinality(Storing) + 1
    BY <2>3, FS_AddElement
  <2> HIDE DEF grown
  <2>4. /\ IsFiniteSet(Storing')
        /\ Cardinality(Storing') <= Cardinality(Storing) + 1
    <3>1. Storing' = grown
      BY <2>1 DEF grown
    <3> QED
      BY <2>3, <2>a, <3>1
  <2>5. Cardinality(Storing') \in Nat /\ Len(cache) \in Nat
    BY <2>4, FS_CardinalityType, CacheIsFinite
  <2>6. Len(cache') + Cardinality(Storing') <= Len(cache) + Cardinality(Storing)
    BY <2>2, <2>3, <2>4, <2>5
  <2>7. Len(cache') + Cardinality(Storing') \in Int /\ Len(cache) + Cardinality(Storing) \in Int
    BY <2>2, <2>3, <2>5
  <2> QED
    BY <2>6, <2>7, PoolAssumption, SizeAssumption DEF ClaimsBounded
<1>2. CASE ~Has(cache, victim[c])
  <2>1. Storing' \subseteq Storing /\ cache' = cache
    BY <1>2 DEF DeleteOldest, Raise, Storing, TypeOK
  <2>2. Len(cache') <= Len(cache)
    BY <2>1, CacheIsFinite
  <2> QED
    BY <2>1, <2>2, ClaimStep
<1> QED
  BY <1>1, <1>2

\* The insertion: one claim less, one entry more at most.
LEMMA ClaimRedeemed ==
  ASSUME TypeOK, JobsOK, ClaimsBounded, NEW c \in Calls, Store(c)
  PROVE  ClaimsBounded'
<1>1. Storing' = Storing \ {c} /\ c \in Storing
  BY DEF Store, Storing, TypeOK
<1>2. KeyOf(c) \in Key /\ resp[c] \in Answer
  BY KeyType DEF Store, JobsOK, JobOK, InThread
<1>3. Len(cache') <= Len(cache) + 1 /\ Len(cache') \in Nat
  <2>1. /\ Len(Put(cache, KeyOf(c), resp[c])) =
             IF Has(cache, KeyOf(c)) THEN Len(cache) ELSE Len(cache) + 1
    BY <1>2, PutItem DEF TypeOK
  <2> QED
    BY <2>1, CacheIsFinite DEF Store
<1>4. IsFiniteSet(Storing) /\ Cardinality(Storing) \in Nat
  BY StoringFinite
<1>5. Cardinality(Storing') = Cardinality(Storing) - 1
  BY <1>1, <1>4, FS_RemoveElement
<1> QED
  BY <1>3, <1>4, <1>5, CacheIsFinite, PoolAssumption, SizeAssumption DEF ClaimsBounded

LEMMA ClaimsInductive ==
  ASSUME TypeOK, TypeOK', PoolRespected, PoolRespected', JobsOK, ClaimsBounded, [Next]_vars
  PROVE  ClaimsBounded'
<1> DEFINE NoClaim == Storing' \subseteq Storing /\ cache' = cache
<1>1. ASSUME NEW c \in Calls, Ask(c) \/ Begin(c) PROVE NoClaim
  BY <1>1 DEF Ask, Begin, Storing, TypeOK
<1>2. ASSUME NEW c \in Calls,
             OllamaReplies(c) \/ CheckQuota(c) \/ CallGemini(c) \/ GeminiReplies(c)
      PROVE  NoClaim
  BY <1>2 DEF OllamaReplies, CheckQuota, CallGemini, GeminiReplies, Answered, Raise, Storing, TypeOK
<1>3. ASSUME NEW c \in Calls, PickOldest(c) PROVE NoClaim
  BY <1>3 DEF PickOldest, Raise, Storing, TypeOK
<1>4. ASSUME NEW c \in Calls, Deliver(c) \/ Timeout(c) PROVE NoClaim
  BY <1>4 DEF Deliver, Timeout, Storing, TypeOK
<1>5. ASSUME UNCHANGED vars PROVE NoClaim
  BY <1>5 DEF vars, job, Storing
<1>6. ASSUME NoClaim PROVE ClaimsBounded'
  <2>1. Len(cache') <= Len(cache)
    BY <1>6, CacheIsFinite
  <2> QED
    BY <1>6, <2>1, ClaimStep
<1>7. ASSUME ClearCache PROVE ClaimsBounded'
  <2>1. Storing' = Storing /\ Len(cache') = 0
    BY <1>7, EmptyIsADict DEF ClearCache, Storing
  <2>2. Len(cache') <= Len(cache)
    BY <2>1, CacheIsFinite
  <2> QED
    BY <2>1, <2>2, ClaimStep
<1> QED
  BY <1>1, <1>2, <1>3, <1>4, <1>5, <1>6, <1>7, ClaimByRoom, ClaimByDeletion,
     ClaimRedeemed DEF Next, Thread
-----------------------------------------------------------------------------
\* The only entry that is ever added is a thread's answer under its own key.
LEMMA CachedInductive ==
  ASSUME TypeOK, JobsOK, CachedUnderItsKey, [Next]_vars
  PROVE  CachedUnderItsKey'
<1>1. ASSUME NEW c \in Calls, Store(c) PROVE CachedUnderItsKey'
  <2> DEFINE item == [key |-> KeyOf(c), val |-> resp[c]]
  <2>1. /\ KeyOf(c) \in Key /\ resp[c] \in Answer
        /\ resp[c].kind # "error" /\ Fits(resp[c], KeyOf(c))
    BY <1>1, KeyType DEF Store, JobsOK, JobOK, InThread, MadeFor
  <2>2. \A i \in DOMAIN Put(cache, KeyOf(c), resp[c]) :
          \/ Put(cache, KeyOf(c), resp[c])[i] = item
          \/ \E j \in DOMAIN cache : Put(cache, KeyOf(c), resp[c])[i] = cache[j]
    BY <2>1, PutItem DEF TypeOK
  <2>3. item.key = KeyOf(c) /\ item.val = resp[c]
    OBVIOUS
  <2> QED
    BY <1>1, <2>1, <2>2, <2>3 DEF Store, CachedUnderItsKey
<1>2. ASSUME NEW c \in Calls, DeleteOldest(c) PROVE CachedUnderItsKey'
  <2>1. Has(cache, victim[c]) => \A i \in DOMAIN Del(cache, victim[c]) :
          \E j \in DOMAIN cache : Del(cache, victim[c])[i] = cache[j]
    BY DelItem DEF TypeOK
  <2> QED
    BY <1>2, <2>1 DEF DeleteOldest, CachedUnderItsKey
<1>3. ASSUME ClearCache PROVE CachedUnderItsKey'
  BY <1>3, EmptyIsADict DEF ClearCache, CachedUnderItsKey
<1>4. ASSUME cache' = cache PROVE CachedUnderItsKey'
  BY <1>4 DEF CachedUnderItsKey
<1>5. ASSUME NEW c \in Calls,
             \/ Ask(c) \/ Begin(c) \/ OllamaReplies(c)
             \/ CheckQuota(c) \/ CallGemini(c) \/ GeminiReplies(c)
      PROVE  cache' = cache
  BY <1>5 DEF Ask, Begin, OllamaReplies, CheckQuota, CallGemini, GeminiReplies
<1>6. ASSUME NEW c \in Calls,
             CheckRoom(c) \/ PickOldest(c) \/ Deliver(c) \/ Timeout(c)
      PROVE  cache' = cache
  BY <1>6 DEF CheckRoom, PickOldest, Deliver, Timeout
<1>7. ASSUME UNCHANGED vars PROVE cache' = cache
  BY <1>7 DEF vars
<1> QED
  BY <1>1, <1>2, <1>3, <1>4, <1>5, <1>6, <1>7 DEF Next, Thread

\* And it was made for that thread's call.
LEMMA SharedInductive ==
  ASSUME TypeOK, JobsOK, CacheShared, [Next]_vars
  PROVE  CacheShared'
<1>0. \A a, k : Shared(a, k) => Shared(a, k)'
  BY MadeForStays
<1>1. ASSUME NEW c \in Calls, Store(c) PROVE CacheShared'
  <2> DEFINE item == [key |-> KeyOf(c), val |-> resp[c]]
  <2>1. /\ KeyOf(c) \in Key /\ resp[c] \in Answer
        /\ Shared(resp[c], KeyOf(c))
    BY <1>1, KeyType DEF Store, JobsOK, JobOK, InThread, MadeFor, Shared
  <2>2. \A i \in DOMAIN Put(cache, KeyOf(c), resp[c]) :
          \/ Put(cache, KeyOf(c), resp[c])[i] = item
          \/ \E j \in DOMAIN cache : Put(cache, KeyOf(c), resp[c])[i] = cache[j]
    BY <2>1, PutItem DEF TypeOK
  <2>3. \A i \in DOMAIN cache' : Shared(cache'[i].val, cache'[i].key)
    <3>1. item.key = KeyOf(c) /\ item.val = resp[c]
      OBVIOUS
    <3> QED BY <1>1, <2>1, <2>2, <3>1 DEF Store, CacheShared
  <2> QED
    BY <2>3, <1>0 DEF CacheShared
<1>2. ASSUME NEW c \in Calls, DeleteOldest(c) PROVE CacheShared'
  <2>1. Has(cache, victim[c]) => \A i \in DOMAIN Del(cache, victim[c]) :
          \E j \in DOMAIN cache : Del(cache, victim[c])[i] = cache[j]
    BY DelItem DEF TypeOK
  <2>2. \A i \in DOMAIN cache' : Shared(cache'[i].val, cache'[i].key)
    BY <1>2, <2>1 DEF DeleteOldest, CacheShared
  <2> QED
    BY <2>2, <1>0 DEF CacheShared
<1>3. ASSUME ClearCache PROVE CacheShared'
  BY <1>3, EmptyIsADict DEF ClearCache, CacheShared
<1>4. ASSUME cache' = cache PROVE CacheShared'
  <2>1. \A i \in DOMAIN cache' : Shared(cache'[i].val, cache'[i].key)
    BY <1>4 DEF CacheShared
  <2> QED BY <2>1, <1>0 DEF CacheShared
<1>5. ASSUME NEW c \in Calls,
             \/ Ask(c) \/ Begin(c) \/ OllamaReplies(c)
             \/ CheckQuota(c) \/ CallGemini(c) \/ GeminiReplies(c)
      PROVE  cache' = cache
  BY <1>5 DEF Ask, Begin, OllamaReplies, CheckQuota, CallGemini, GeminiReplies
<1>6. ASSUME NEW c \in Calls,
             CheckRoom(c) \/ PickOldest(c) \/ Deliver(c) \/ Timeout(c)
      PROVE  cache' = cache
  BY <1>6 DEF CheckRoom, PickOldest, Deliver, Timeout
<1>7. ASSUME UNCHANGED vars PROVE cache' = cache
  BY <1>7 DEF vars
<1> QED
  BY <1>1, <1>2, <1>3, <1>4, <1>5, <1>6, <1>7 DEF Next, Thread

\* A reply is the answer of a finished job, whose arguments no longer change.
LEMMA RepliesInductive ==
  ASSUME TypeOK, JobsOK, RepliesFitRequest, [Next]_vars
  PROVE  RepliesFitRequest'
<1> DEFINE ReplyOK(d) ==
      reply[d] \in Answer /\ reply[d].kind # "error" =>
        /\ Fits(reply[d], [req[d] EXCEPT !.model = model[d]])
        /\ \E e \in Calls : MadeFor(reply[d], e) /\ KeyOf(e) = KeyOf(d)
<1>0. /\ \A a : \A d \in Calls : MadeFor(a, d) => MadeFor(a, d)' /\ KeyOf(d)' = KeyOf(d)
      /\ \A a, k : Shared(a, k) => Shared(a, k)'
  BY MadeForStays
<1>1. ASSUME NEW d \in Calls, reply'[d] = reply[d] PROVE ReplyOK(d)'
  <2> SUFFICES ASSUME reply[d] \in Answer, reply[d].kind # "error" PROVE ReplyOK(d)'
    BY <1>1
  <2>1. model[d] # Nothing
    BY NothingAssumption DEF JobsOK, JobOK
  <2>2. req'[d] = req[d] /\ model'[d] = model[d]
    BY <2>1, SettledStays
  <2>3. KeyOf(d)' = KeyOf(d)
    BY <2>2 DEF KeyOf
  <2>4. Fits(reply[d], [req[d] EXCEPT !.model = model[d]])
    BY DEF RepliesFitRequest
  <2>5. PICK e \in Calls : MadeFor(reply[d], e) /\ KeyOf(e) = KeyOf(d)
    BY DEF RepliesFitRequest
  <2>a. PICK a : a = reply[d]
    OBVIOUS
  <2>6. MadeFor(a, e)' /\ KeyOf(e)' = KeyOf(e)
    BY <2>5, <2>a, <1>0
  <2>7. Fits(reply'[d], [req'[d] EXCEPT !.model = model'[d]])
    BY <1>1, <2>2, <2>4
  <2>8. MadeFor(reply[d], e)' /\ KeyOf(e)' = KeyOf(d)'
    BY <1>1, <2>3, <2>5, <2>6, <2>a DEF MadeFor
  <2> QED
    BY <1>1, <2>7, <2>8
<1>2. ASSUME NEW c \in Calls, Deliver(c) PROVE ReplyOK(c)'
  <2>1. /\ reply'[c] = resp[c] /\ req'[c] = req[c] /\ model'[c] = model[c] /\ pc[c] = "done"
    BY <1>2 DEF Deliver, TypeOK
  <2> SUFFICES ASSUME resp[c] \in Answer, resp[c].kind # "error" PROVE ReplyOK(c)'
    BY <2>1
  <2>2. req[c] \in Request /\ Shared(resp[c], KeyOf(c))
    BY <2>1, OutcomeAssumption DEF JobsOK, JobOK
  <2>3. Fits(resp[c], [req[c] EXCEPT !.model = model[c]])
    BY <2>2 DEF Shared, Fits, KeyOf, CacheKey, Request
  <2>4. PICK e \in Calls : MadeFor(resp[c], e) /\ KeyOf(e) = KeyOf(c)
    BY <2>2 DEF Shared
  <2>5. MadeFor(reply[c], e)' /\ KeyOf(e)' = KeyOf(c)'
    BY <1>2, <2>1, <2>4 DEF Deliver, MadeFor, KeyOf
  <2>6. Fits(reply'[c], [req'[c] EXCEPT !.model = model'[c]])
    BY <2>1, <2>3
  <2> QED
    BY <2>5, <2>6
<1>3. ASSUME NEW c \in Calls, Timeout(c) PROVE ReplyOK(c)'
  BY <1>3, OutcomeAssumption DEF Timeout, TypeOK
<1>4. ASSUME \A d \in Calls : reply'[d] = reply[d] PROVE RepliesFitRequest'
  BY <1>1, <1>4 DEF RepliesFitRequest
<1>5. ASSUME NEW c \in Calls, Deliver(c) \/ Timeout(c) PROVE RepliesFitRequest'
  <2>1. \A d \in Calls \ {c} : reply'[d] = reply[d]
    BY <1>5 DEF Deliver, Timeout, TypeOK
  <2>2. \A d \in Calls : ReplyOK(d)'
    BY <1>1, <1>2, <1>3, <1>5, <2>1
  <2> QED BY <2>2 DEF RepliesFitRequest
<1>6. ASSUME NEW c \in Calls,
             \/ Ask(c) \/ Begin(c) \/ OllamaReplies(c)
             \/ CheckQuota(c) \/ CallGemini(c) \/ GeminiReplies(c)
      PROVE  reply' = reply
  BY <1>6 DEF Ask, Begin, OllamaReplies, CheckQuota, CallGemini, GeminiReplies
<1>7. ASSUME NEW c \in Calls, CheckRoom(c) \/ PickOldest(c) \/ DeleteOldest(c) \/ Store(c)
      PROVE  reply' = reply
  BY <1>7 DEF CheckRoom, PickOldest, DeleteOldest, Store
<1>8. ASSUME ClearCache \/ UNCHANGED vars PROVE reply' = reply
  BY <1>8 DEF ClearCache, vars, job
<1> QED
  BY <1>4, <1>5, <1>6, <1>7, <1>8 DEF Next, Thread
-----------------------------------------------------------------------------
LEMMA CallingFinite == IsFiniteSet(Calling) /\ Cardinality(Calling) \in Nat
BY CallsAssumption, FS_Subset, FS_CardinalityType DEF Calling

\* A call on its way is made, and counts; when the first is refused, the thread that
\* learns of it is not itself on its way; none sets out once the flag is up.
LEMMA LateInductive ==
  ASSUME TypeOK, PoolRespected, LateBounded, [Next]_vars
  PROVE  LateBounded'
<1> DEFINE Same == Calling' \subseteq Calling /\ UNCHANGED <<quota, refused, late>>
<1>0. late \in Nat /\ PoolSize \in Nat
  BY PoolAssumption DEF TypeOK
<1>1. ASSUME Same PROVE LateBounded'
  <2>1. Cardinality(Calling') <= Cardinality(Calling) /\ IsFiniteSet(Calling')
    BY <1>1, CallingFinite, FS_Subset
  <2>2. Cardinality(Calling') \in Nat
    BY <2>1, FS_CardinalityType
  <2> QED BY <1>0, <1>1, <2>1, <2>2, CallingFinite DEF LateBounded
<1>2. ASSUME NEW c \in Calls, Ask(c) \/ Begin(c) \/ OllamaReplies(c) PROVE Same
  BY <1>2 DEF Ask, Begin, OllamaReplies, Answered, Calling, TypeOK, history
<1>3. ASSUME NEW c \in Calls, CheckQuota(c) PROVE LateBounded'
  <2>1. CASE quota
    BY <1>1, <1>3, <2>1 DEF CheckQuota, Raise, Calling, TypeOK, history
  <2>2. CASE ~quota
    BY <1>3, <2>2 DEF CheckQuota, LateBounded, history
  <2> QED BY <2>1, <2>2
<1>4. ASSUME NEW c \in Calls, CallGemini(c) PROVE LateBounded'
  <2>1. Calling' = Calling \ {c} /\ c \in Calling
    BY <1>4 DEF CallGemini, Calling, TypeOK
  <2>2. Cardinality(Calling') = Cardinality(Calling) - 1
    BY <2>1, CallingFinite, FS_RemoveElement
  <2>3. Cardinality(Calling) \in Nat
    BY CallingFinite
  <2> QED BY <1>0, <1>4, <2>2, <2>3 DEF CallGemini, LateBounded
<1>5. ASSUME NEW c \in Calls, GeminiReplies(c) PROVE LateBounded'
  <2>1. Calling' = Calling /\ late' = late /\ pc[c] = "gemini"
    BY <1>5 DEF GeminiReplies, Answered, Raise, Calling, TypeOK
  <2>2. CASE UNCHANGED <<quota, refused>>
    BY <1>1, <2>1, <2>2
  <2>3. CASE quota' = TRUE /\ refused' = TRUE /\ ~refused
    <3>1. Calling \subseteq Running \ {c} /\ c \in Running
      BY <2>1 DEF Calling, Running, InThread
    <3>2. Cardinality(Running \ {c}) = Cardinality(Running) - 1 /\ IsFiniteSet(Running \ {c})
      BY <3>1, RunningFinite, FS_RemoveElement
    <3>3. Cardinality(Calling) <= Cardinality(Running \ {c})
      BY <3>1, <3>2, FS_Subset
    <3>4. Cardinality(Calling) \in Nat /\ Cardinality(Running) \in Nat
      BY CallingFinite, RunningFinite
    <3>5. Cardinality(Calling) <= PoolSize - 1
      BY <1>0, <3>2, <3>3, <3>4 DEF PoolRespected
    <3> QED BY <1>0, <2>1, <2>3, <3>4, <3>5 DEF LateBounded
  <2>4. CASE quota' = TRUE /\ refused' = TRUE /\ refused
    BY <2>1, <2>4 DEF LateBounded
  <2> QED BY <1>5, <2>2, <2>3, <2>4 DEF GeminiReplies
<1>6. ASSUME NEW c \in Calls, CheckRoom(c) \/ PickOldest(c) \/ DeleteOldest(c) PROVE Same
  BY <1>6 DEF CheckRoom, PickOldest, DeleteOldest, Raise, Calling, TypeOK, history
<1>7. ASSUME NEW c \in Calls, Store(c) \/ Deliver(c) \/ Timeout(c) PROVE Same
  BY <1>7 DEF Store, Deliver, Timeout, Calling, TypeOK, history
<1>8. ASSUME ClearCache \/ UNCHANGED vars PROVE Same
  BY <1>8 DEF ClearCache, vars, job, history, Calling
<1> QED
  BY <1>1, <1>2, <1>3, <1>4, <1>5, <1>6, <1>7, <1>8 DEF Next, Thread
-----------------------------------------------------------------------------
LEMMA NextIInv == IInv /\ [Next]_vars => IInv'
<1> SUFFICES ASSUME IInv, [Next]_vars PROVE IInv'
  OBVIOUS
<1>1. TypeOK'
  BY TypeStep DEF IInv
<1>2. PoolRespected'
  BY PoolInductive DEF IInv
<1>3. ClaimsBounded'
  BY <1>1, <1>2, ClaimsInductive DEF IInv
<1>4. JobsOK'
  BY JobsStep DEF IInv
<1>5. CachedUnderItsKey' /\ CacheShared' /\ RepliesFitRequest' /\ LateBounded'
  BY CachedInductive, SharedInductive, RepliesInductive, LateInductive DEF IInv
<1> QED
  BY <1>1, <1>2, <1>3, <1>4, <1>5 DEF IInv

LEMMA Inductive == Spec => []IInv
<1> QED
  BY InitIInv, NextIInv, PTL DEF Spec

\* Every variable keeps its type; the cache is a dict, with no key twice.
THEOREM TypeCorrect == Spec => []TypeOK
<1>1. IInv => TypeOK
  BY DEF IInv
<1> QED
  BY <1>1, Inductive, PTL

\* RESPONSE_CACHE exceeds MAX_CACHE_SIZE by at most PoolSize - 1 entries,
\* although no lock protects the check and the insertion.
THEOREM CacheBound == Spec => []CacheWithinBound
<1>1. IInv => CacheWithinBound
  <2> SUFFICES ASSUME IInv PROVE CacheWithinBound
    OBVIOUS
  <2>1. Len(cache) \in Nat /\ Cardinality(Storing) \in Nat
    BY CacheIsFinite, StoringFinite DEF IInv
  <2> QED
    BY <2>1, PoolAssumption, SizeAssumption DEF IInv, ClaimsBounded, CacheWithinBound
<1> QED
  BY <1>1, Inductive, PTL

\* The shared cache never mixes up questions, materials or models, and keeps
\* no error message.
THEOREM CacheSound == Spec => []CachedUnderItsKey
<1>1. IInv => CachedUnderItsKey
  BY DEF IInv
<1> QED
  BY <1>1, Inductive, PTL

\* The three together: the cache is a dict without repeated keys, within its
\* bound, of answers that fit their keys.
THEOREM CacheCorrect == Spec => []CacheOK
<1>1. TypeOK /\ CacheWithinBound /\ CachedUnderItsKey => CacheOK
  BY DEF CacheOK
<1> QED
  BY <1>1, TypeCorrect, CacheBound, CacheSound, PTL

\* A caller gets an answer to its own question, by its own model and from its own
\* material, that was made for it or for a caller with the same three: the conversation
\* is all that may be that other caller's.
THEOREM RepliesSound == Spec => []RepliesFitRequest
<1>1. IInv => RepliesFitRequest
  BY DEF IInv
<1> QED
  BY <1>1, Inductive, PTL

\* Once Gemini has refused a call for want of quota, fewer calls are still made to it
\* than there are threads, although the check of the flag and the call are apart.
THEOREM LateCallsAreFew == Spec => []FewLateCalls
<1>1. IInv => FewLateCalls
  BY CallingFinite, PoolAssumption DEF IInv, LateBounded, FewLateCalls, TypeOK
<1> QED
  BY <1>1, Inductive, PTL
=============================================================================
