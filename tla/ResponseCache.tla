--------------------------- MODULE ResponseCache ---------------------------
(***************************************************************************)
(* backend/llm_interface.py: run_llm_async hands each question to a thread *)
(* of the event loop's executor, where run_llm routes it to Gemini or to   *)
(* Ollama in front of the process-wide RESPONSE_CACHE.  Python switches    *)
(* threads between any two steps, so the length check, the choice of the   *)
(* oldest key, its deletion and the insertion of run_llm (341-347) are     *)
(* steps of their own, and the 60 s wait of run_llm_async gives up on a    *)
(* thread without stopping it.                                             *)
(*                                                                         *)
(* An answer is modelled by its provenance: the question, the course       *)
(* material and the conversation that its prompt was made from, the model  *)
(* that wrote it, and whether the reply was text, empty or an error        *)
(* message (one that starts with the cross mark).                          *)
(***************************************************************************)
EXTENDS PyDict, FiniteSets

CONSTANTS
  Calls,            \* the run_llm_async invocations
  Queries,          \* texts of questions
  Contexts,         \* course material handed to run_llm, with its sources
  Conversations,    \* conversation_history values, per chat session
  ModelTypes,       \* values of the form field model_type
  Nothing,          \* no context, no history, no answer yet
  TimedOut,         \* what run_llm_async returns when its wait gives up
  Failed,           \* what it returns when run_llm raised an exception
  PoolSize,         \* threads of the loop's default executor
  MaxCacheSize,     \* MAX_CACHE_SIZE (500 in the code)
  GeminiAvailable   \* GEMINI_AVAILABLE, settled when the module is loaded

ASSUME PoolAssumption == PoolSize \in Nat \ {0}
ASSUME SizeAssumption == MaxCacheSize \in Nat
ASSUME CallsAssumption == IsFiniteSet(Calls)
ASSUME GeminiAssumption == GeminiAvailable \in BOOLEAN

\* run_llm compares "gemini" both with and without lower(), so the spelling
\* matters.
ASSUME ModelAssumption == ModelTypes \subseteq {"ollama", "gemini", "Gemini"}

\* The arguments of a run_llm call.  Every caller in the code passes sources
\* exactly when it passes a context, so sources are part of the context.
Request == [query   : Queries,
            context : Contexts \cup {Nothing},
            history : Conversations \cup {Nothing},
            model   : ModelTypes]

Routed == ModelTypes \cup {"ollama"}

ASSUME NothingAssumption == Nothing \notin Contexts \cup Conversations \cup Routed

Key == [query : Queries, context : Contexts \cup {Nothing}, model : Routed]

Answer == [kind    : {"text", "empty", "error"},
           query   : Queries,
           context : Contexts \cup {Nothing},
           history : Conversations \cup {Nothing},
           model   : Routed]

ASSUME OutcomeAssumption == {Nothing, TimedOut, Failed} \cap Answer = {}

VARIABLES
  cache,    \* RESPONSE_CACHE
  quota,    \* GEMINI_QUOTA_EXCEEDED
  pc,       \* where each call's executor job is
  req,      \* the arguments of each call
  model,    \* model_type of each call after the routing of lines 262-263
  resp,     \* the answer each call's thread holds
  victim,   \* oldest_key of a thread that is evicting
  reply,    \* what the awaiting coroutine got
  refused,  \* history: Gemini has refused a call for want of quota
  late      \* history: how many calls were made to it after that

job == <<pc, req, model, resp, victim, reply>>
history == <<refused, late>>
vars == <<cache, quota, job, history>>

InThread == {"ask", "call", "gemini", "check", "oldest", "delete", "store"}
Running == { c \in Calls : pc[c] \in InThread }

Init ==
  /\ cache = EmptyDict
  /\ quota \in BOOLEAN /\ (quota => ~GeminiAvailable)
  /\ pc = [c \in Calls |-> "new"]
  /\ req = [c \in Calls |-> Nothing]
  /\ model = [c \in Calls |-> Nothing]
  /\ resp = [c \in Calls |-> Nothing]
  /\ victim = [c \in Calls |-> Nothing]
  /\ reply = [c \in Calls |-> Nothing]
  /\ refused = FALSE /\ late = 0

IsGemini(m) == m \in {"gemini", "Gemini"}       \* m.lower() == "gemini"

\* Lines 262-263.
Route(m) == IF IsGemini(m) /\ (quota \/ ~GeminiAvailable) THEN "ollama" ELSE m

\* Mutant: the key is computed before the routing of line 262.
CacheKey_BeforeRouting(r, m) ==
  [query |-> r.query, context |-> r.context, model |-> r.model]

\* Mutant: the key leaves the material out.
CacheKey_NoContext(r, m) == [query |-> r.query, context |-> Nothing, model |-> m]

\* Line 267: the history is not part of the key.
CacheKey(r, m) == [query |-> r.query, context |-> r.context, model |-> m]

KeyOf(c) == CacheKey(req[c], model[c])
-----------------------------------------------------------------------------
\* run_llm_async submits the job to the executor, which queues it.
Ask(c) ==
  /\ pc[c] = "new"
  /\ pc' = [pc EXCEPT ![c] = "queued"]
  /\ \E r \in Request : req' = [req EXCEPT ![c] = r]
  /\ UNCHANGED <<cache, quota, model, resp, victim, reply, history>>

\* A thread takes the job: routing, cache lookup, and the model type check
\* that turns an unknown spelling into an error message.
Begin(c) ==
  /\ pc[c] = "queued"
  /\ Cardinality(Running) < PoolSize
  /\ LET m == Route(req[c].model)
         k == CacheKey(req[c], m)
     IN /\ model' = [model EXCEPT ![c] = m]
        /\ \/ /\ Has(cache, k)
              /\ resp' = [resp EXCEPT ![c] = Get(cache, k)]
              /\ pc' = [pc EXCEPT ![c] = "done"]
           \/ /\ ~Has(cache, k)
              /\ m \in {"ollama", "gemini"}
              /\ pc' = [pc EXCEPT ![c] = "ask"]
              /\ UNCHANGED resp
           \/ /\ ~Has(cache, k)
              /\ m \notin {"ollama", "gemini"}
              /\ resp' = [resp EXCEPT ![c] =
                   [kind |-> "error", query |-> req[c].query, context |-> Nothing,
                    history |-> Nothing, model |-> m]]
              /\ pc' = [pc EXCEPT ![c] = "done"]
  /\ UNCHANGED <<cache, quota, req, victim, reply, history>>

\* An exception leaves run_llm: the future fails.
Raise(c) ==
  /\ resp' = [resp EXCEPT ![c] = Failed]
  /\ pc' = [pc EXCEPT ![c] = "done"]

\* What the prompt is made from.  Gemini is sent the question alone (289-294);
\* Ollama gets material and conversation when there is material (298-318) and
\* the question alone when there is none (326-328).
FromGemini(c) ==
  [kind |-> "text", query |-> req[c].query, context |-> Nothing,
   history |-> Nothing, model |-> "gemini"]

FromOllama(c, kind) ==
  [kind |-> kind, query |-> req[c].query, context |-> req[c].context,
   history |-> IF req[c].context # Nothing THEN req[c].history ELSE Nothing,
   model |-> "ollama"]

\* Line 341: the reply has had its source or general-knowledge line appended,
\* so an empty reply is a non-empty string by now; only the cross mark counts.
Cacheable(a) == a.kind # "error"

Answered(c, a) ==
  /\ resp' = [resp EXCEPT ![c] = a]
  /\ pc' = [pc EXCEPT ![c] = IF Cacheable(a) THEN "check" ELSE "done"]

\* run_llm_ollama, its second attempt after a timeout included: a reply, an
\* empty reply, or one of its error messages.
OllamaReplies(c) ==
  /\ pc[c] = "ask" /\ model[c] = "ollama"
  /\ \E kind \in {"text", "empty", "error"} : Answered(c, FromOllama(c, kind))
  /\ UNCHANGED <<cache, quota, req, model, victim, reply, history>>

\* Line 206: run_llm_gemini looks at the quota flag again.
CheckQuota(c) ==
  /\ pc[c] = "ask" /\ model[c] = "gemini"
  /\ \/ ~quota /\ pc' = [pc EXCEPT ![c] = "call"] /\ UNCHANGED resp
     \/ quota /\ Raise(c)
  /\ UNCHANGED <<cache, quota, req, model, victim, reply, history>>

\* Line 214: and calls the service, whatever the flag has become since.
CallGemini(c) ==
  /\ pc[c] = "call"
  /\ pc' = [pc EXCEPT ![c] = "gemini"]
  /\ late' = IF refused THEN late + 1 ELSE late
  /\ UNCHANGED <<cache, quota, req, model, resp, victim, reply, refused>>

\* Mutant: the assignment of line 238 is to a local variable (no line 204).
GeminiReplies_Local(c) ==
  /\ pc[c] = "gemini"
  /\ \/ Answered(c, FromGemini(c)) /\ UNCHANGED refused
     \/ Raise(c) /\ refused' = TRUE
     \/ Raise(c) /\ UNCHANGED refused
  /\ UNCHANGED <<cache, quota, req, model, victim, reply, late>>

\* The service answers, refuses for want of quota (the flag is set for good),
\* or fails in another way; an empty or blocked answer is such a failure.
GeminiReplies(c) ==
  /\ pc[c] = "gemini"
  /\ \/ Answered(c, FromGemini(c)) /\ UNCHANGED <<quota, refused>>
     \/ Raise(c) /\ quota' = TRUE /\ refused' = TRUE
     \/ Raise(c) /\ UNCHANGED <<quota, refused>>
  /\ UNCHANGED <<cache, req, model, victim, reply, late>>

\* Mutant: off by one in the length check.
CheckRoom_OffByOne(c) ==
  /\ pc[c] = "check"
  /\ pc' = [pc EXCEPT ![c] = IF Len(cache) > MaxCacheSize THEN "oldest" ELSE "store"]
  /\ UNCHANGED <<cache, quota, req, model, resp, victim, reply, history>>

\* if len(RESPONSE_CACHE) >= MAX_CACHE_SIZE
CheckRoom(c) ==
  /\ pc[c] = "check"
  /\ pc' = [pc EXCEPT ![c] = IF Len(cache) >= MaxCacheSize THEN "oldest" ELSE "store"]
  /\ UNCHANGED <<cache, quota, req, model, resp, victim, reply, history>>

\* next(iter(RESPONSE_CACHE)): StopIteration if the cache was cleared meanwhile.
PickOldest(c) ==
  /\ pc[c] = "oldest"
  /\ \/ /\ cache # EmptyDict
        /\ victim' = [victim EXCEPT ![c] = OldestKey(cache)]
        /\ pc' = [pc EXCEPT ![c] = "delete"]
        /\ UNCHANGED resp
     \/ cache = EmptyDict /\ Raise(c) /\ UNCHANGED victim
  /\ UNCHANGED <<cache, quota, req, model, reply, history>>

\* Mutant: the deletion is tried again until it succeeds.
DeleteOldest_Insist(c) ==
  /\ pc[c] = "delete" /\ Has(cache, victim[c])
  /\ cache' = Del(cache, victim[c])
  /\ pc' = [pc EXCEPT ![c] = "store"]
  /\ victim' = [victim EXCEPT ![c] = Nothing]
  /\ UNCHANGED <<quota, req, model, resp, reply, history>>

\* del RESPONSE_CACHE[oldest_key]: KeyError if another thread deleted it first.
DeleteOldest(c) ==
  /\ pc[c] = "delete"
  /\ \/ /\ Has(cache, victim[c])
        /\ cache' = Del(cache, victim[c])
        /\ pc' = [pc EXCEPT ![c] = "store"]
        /\ UNCHANGED resp
     \/ ~Has(cache, victim[c]) /\ Raise(c) /\ UNCHANGED cache
  /\ victim' = [victim EXCEPT ![c] = Nothing]
  /\ UNCHANGED <<quota, req, model, reply, history>>

\* Mutant: the entry is appended even if the key is there by now.
Store_Append(c) ==
  /\ pc[c] = "store"
  /\ cache' = Append(cache, [key |-> KeyOf(c), val |-> resp[c]])
  /\ pc' = [pc EXCEPT ![c] = "done"]
  /\ UNCHANGED <<quota, req, model, resp, victim, reply, history>>

\* RESPONSE_CACHE[cache_key] = response
Store(c) ==
  /\ pc[c] = "store"
  /\ cache' = Put(cache, KeyOf(c), resp[c])
  /\ pc' = [pc EXCEPT ![c] = "done"]
  /\ UNCHANGED <<quota, req, model, resp, victim, reply, history>>

\* The event loop resumes the coroutine with the finished future.
Deliver(c) ==
  /\ pc[c] = "done" /\ reply[c] = Nothing
  /\ reply' = [reply EXCEPT ![c] = resp[c]]
  /\ UNCHANGED <<cache, quota, pc, req, model, resp, victim, history>>

\* asyncio.wait_for gives up after 60 s: a queued job is cancelled, a running
\* one goes on without anybody waiting for it.
Timeout(c) ==
  /\ pc[c] # "new" /\ reply[c] = Nothing
  /\ reply' = [reply EXCEPT ![c] = TimedOut]
  /\ pc' = [pc EXCEPT ![c] = IF pc[c] = "queued" THEN "cancelled" ELSE pc[c]]
  /\ UNCHANGED <<cache, quota, req, model, resp, victim, history>>

\* clear_response_cache, from POST /query/clear-cache.
ClearCache ==
  /\ cache # EmptyDict
  /\ cache' = EmptyDict
  /\ UNCHANGED <<quota, pc, req, model, resp, victim, reply, history>>

Thread(c) ==
  \/ Begin(c) \/ OllamaReplies(c)
  \/ CheckQuota(c) \/ CallGemini(c) \/ GeminiReplies(c)
  \/ CheckRoom(c) \/ PickOldest(c) \/ DeleteOldest(c) \/ Store(c)

Next ==
  \/ \E c \in Calls : Ask(c) \/ Thread(c) \/ Deliver(c) \/ Timeout(c)
  \/ ClearCache

Spec == Init /\ [][Next]_vars

\* A thread runs until its job ends: Ollama requests carry a timeout (30 s and
\* 10 s), the Gemini client has one of its own, and the rest does not block.
\* Nothing makes the 60 s wait expire, so Timeout gets no fairness.
Fairness == \A c \in Calls : WF_vars(Thread(c)) /\ WF_vars(Deliver(c))

FairSpec == Spec /\ Fairness
-----------------------------------------------------------------------------
TypeOK ==
  /\ cache \in DictOf(Key, Answer)
  /\ quota \in BOOLEAN
  /\ pc \in [Calls -> {"new", "queued", "cancelled", "done"} \cup InThread]
  /\ req \in [Calls -> Request \cup {Nothing}]
  /\ model \in [Calls -> Routed \cup {Nothing}]
  /\ resp \in [Calls -> Answer \cup {Failed, Nothing}]
  /\ victim \in [Calls -> Key \cup {Nothing}]
  /\ reply \in [Calls -> Answer \cup {Failed, TimedOut, Nothing}]
  /\ refused \in BOOLEAN /\ late \in Nat

\* MAX_CACHE_SIZE is checked before the insertion and not with it, so threads
\* overshoot it together; they can do so by at most one entry for each thread
\* but one, however long the server runs (llm_interface.py 341-347).
CacheWithinBound == Len(cache) <= MaxCacheSize + PoolSize - 1

\* The answer is for the key's question, by the key's model, from the key's
\* material, and Gemini was given no material.
Fits(a, k) ==
  /\ a.query = k.query
  /\ a.model = k.model
  /\ a.context = IF k.model = "ollama" THEN k.context ELSE Nothing

\* Whatever the interleaving of lookups, late answers and evictions, an entry
\* of RESPONSE_CACHE answers the question of its key with the material of its
\* key and the model of its key, material never reached Gemini, and no error
\* message is kept (267, 289-294, 341).
CachedUnderItsKey ==
  \A i \in DOMAIN cache :
    cache[i].val.kind # "error" /\ Fits(cache[i].val, cache[i].key)

\* RESPONSE_CACHE: a dict, within its bound, of answers that fit their keys.
CacheOK == TypeOK /\ CacheWithinBound /\ CachedUnderItsKey

\* The prompt of d, a call that has been routed, makes a: its question, material and
\* model, and the conversation that went into it.
MadeFor(a, d) ==
  /\ model[d] # Nothing
  /\ Fits(a, KeyOf(d))
  /\ a.history = IF model[d] = "ollama" /\ req[d].context # Nothing THEN req[d].history
                 ELSE Nothing

\* The answer a caller gets is for its own question, from the model its request was
\* routed to and from its own material; and it was made for it or for a caller with
\* the same question, model and material.  Only the conversation may be another
\* caller's, for the key leaves it out (267), and it is one that caller had.
RepliesFitRequest ==
  \A c \in Calls :
    reply[c] \in Answer /\ reply[c].kind # "error" =>
      /\ Fits(reply[c], [req[c] EXCEPT !.model = model[c]])
      /\ \E d \in Calls : MadeFor(reply[c], d) /\ KeyOf(d) = KeyOf(c)

\* Once Gemini has refused a call for want of quota, the calls still made to it are
\* those of threads that had passed the check (206) and not yet called (214): fewer
\* than there are threads, for good, however many were routed to it (238, 262).
FewLateCalls == late <= PoolSize - 1

\* Every question gets a reply, and a thread whose caller gave up still comes
\* to its end and is free for the next job (351-389).
EveryJobEnds ==
  \A c \in Calls :
    /\ pc[c] = "queued" ~> reply[c] # Nothing
    /\ pc[c] \in InThread ~> pc[c] = "done"
=============================================================================
