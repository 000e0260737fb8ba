# A verification development for NoteNinja

NoteNinja (`src/README.md`, `src/PROJECT_REPORT.md`) is a study assistant for a
college: a FastAPI server with a SQLite database, FAISS indexes of uploaded
PDFs, two language models (Ollama and Gemini) and a React front end for
students and teachers. The repository carries llama.cpp along, which Ollama
and the fine-tuned models run on. This directory holds TLA+ modules of the
components of both, TLC configurations that check them on small instances, and
TLAPS proofs.

Paths below are relative to the repository; `backend/`, `frontend/` and
`llama.cpp/` are under `src/`.

## 1. The system

### How the programs run

What can interleave follows from the execution model.

The server of NoteNinja:

- One process. An `async def` handler runs on the event loop and is
  atomic between two `await`s; a `def` handler and a background `def` run in
  threads of their own; `run_in_executor` and the retriever's
  `ThreadPoolExecutor` add more. Python may switch threads between any two
  operations on shared dictionaries; a single dict operation is atomic.
- Nothing in the backend takes a lock. Module globals (`RESPONSE_CACHE`,
  `VECTORSTORE_CACHE`, `QUERY_CACHE`, `GEMINI_QUOTA_EXCEEDED`) are shared by all
  threads and lost at a restart; files and the database are kept.
- One SQLAlchemy session per request, `autoflush=False` (`backend/db.py`). Under
  pysqlite a SELECT runs on its own, outside a transaction; a commit is atomic
  and writes added rows and, of loaded rows, the columns whose value changed.
  Foreign keys are declared but not enforced. The tables' ids are plain
  `INTEGER PRIMARY KEY`s: a new row gets the greatest id in use plus one, so the
  id of a deleted last row is used again.
- A page keeps what it fetched until it fetches again. Responses arrive late, in
  any order, or not at all; a handler's closure holds the state of the click.
  The tabs of a browser share localStorage.

llama.cpp:

- llama-server has one main thread, which takes tasks from a queue and decodes
  for all slots in one batch, and the threads of its HTTP library, which post
  tasks and wait for results. Two mutexes guard the two queues.
- A graph is computed by the caller's thread and the workers of a pool, which
  meet at barriers and share some counters without a mutex.
- A context with its KV cache, and a graph allocator, belong to one thread; what is
  hard there are long sequences of calls, not interleavings.

### Inventory

| component | code | state | operations | hard behaviour | what makes it correct |
|---|---|---|---|---|---|
| LLM interface and response cache | `backend/llm_interface.py` | `RESPONSE_CACHE`, quota flag | ask (async, 60 s wait), route, look up, call Ollama or Gemini, evict, store, clear | threads race for the last place and the oldest key; a late answer after the caller gave up; the quota runs out between check and call | the cache stays near its limit; an answer fits the key it is under and the question, model and material of the request it is given to; nobody waits forever |
| Document index and search | `backend/retriever.py`, `main.py` upload | stored PDFs, `index.faiss` and `index.pkl` per subject, two caches | upload, index in the background, load, search subjects in parallel, merge, cache, clear, restart | two files written one after the other; crash or second upload in between; a stale index put back into the cache; lost lookups | answers name readable stored documents; cache and files agree; a fresh answer covers what was indexed |
| Question endpoint, search history, chat page | `backend/routers/query.py`, `StudentChat.jsx`, `AuthContext.jsx` | history rows, study time; the page's session and messages, and their copies in localStorage | ask, search, converse, answer, log; list, delete, clear the history; clear the chat, leave, come back, change the user | the history is read before and written after the answer; late answers; tabs and users share a browser; a failed log is silent | a question is answered with what its page showed; what was cleared stays cleared |
| Attendance | `backend/routers/attendance.py` | table of rows | mark one, mark a list, summaries | check-then-insert without a constraint; all or nothing per list; only changed columns are written | one row per student, subject and date unless raced; a committed mark is found |
| Marks | `backend/routers/marks.py` | table of rows with six columns | enter one, enter a list, three readers | the same, and columns of two requests mixing | rows hold what was entered together; readers agree |
| Quizzes and attempts | `backend/main.py`, `Quizzes.jsx`, `Quizmanager.jsx` | two tables, students' and teachers' pages | create, list, delete, take, submit, analyse | stale pages, responses out of order, ids used again, lists kept by hand | an attempt counts for the quiz that was answered; what is deleted is what was shown |
| Quiz generation | `main.py` 720-912, `QuizGenerator.jsx` | none | one call to Ollama, parsing | blocks the event loop | questions are well formed |
| Accounts and profile | `backend/routers/auth.py`, `profile.py`, `utils.py` | users | sign up, log in, profile, password | two sessions in one request; read-modify-write of the whole profile | a confirmed change is stored |
| Announcements | `main.py`, `Announcements.jsx` | table | create, list, delete | ids used again | deletes what was shown |
| Planner and history pages | `StudyPlanner.jsx`, `HistoryPage.jsx` | localStorage | edit, show | none | - |
| Teacher pages | `MarksSection.jsx`, `AttendanceSection.jsx`, `UploadForm.jsx`, dashboards | form state | filter, fetch, submit | fetches out of order, repeated clicks | what is sent is what is shown |
| Other pages | dashboards, login, navigation | fetched once | show | none | - |
| Unmounted routers | `routers/Quiz.py`, `stats.py`, `tracking.py`, `upload.py` | - | - | no request reaches them | - |
| Fine-tuning scripts | `create_dataset.py`, `finetune_script.py`, ... | files | run by hand | none | - |
| llama-server: queues and slots | `llama.cpp/tools/server/server.cpp` | task queue, deferred tasks, waiting ids, results, slots, batch | post, defer, wake up, cancel, launch, batch, decode, retry, fail, release, stream | a client leaves between any two steps; a failed batch releases all; batches are split and tried again | no task is lost or replied to twice; streams are in order; a deferred task is woken up |
| ggml CPU thread pool | `llama.cpp/ggml/src/ggml-cpu/ggml-cpu.c` | `n_graph`, `n_threads_cur`, barrier, chunk counter, `abort`, `stop`, `pause` | kick off, poll, sleep, compute, meet, abort, pause, resume, free | unguarded loads of two variables; a barrier that is reused; sleeping against waking | phases are separate, chunks are computed once, nothing hangs |
| ggml tensor and graph allocator | `llama.cpp/ggml/src/ggml-alloc.c` | free blocks, counts of readers and views, the plan | allocate, free and merge; plan a graph, place a graph | reuse of a parent's memory; views; a plan used for another graph | nothing is overwritten before its last reader; no memory is lost |
| llama.cpp KV cache | `llama-kv-cells.h`, `llama-kv-cache.cpp`, `llama-context.cpp`, `llama-batch.cpp` | cells, positions, sequences, pending shifts and copies, heads | remove, copy, keep, add, place, undo, apply, save, restore, update | pending changes; a failure in mid-batch; cells reused under a window | a token attends to exactly what is in its sequence |
| Rest of llama.cpp | `llama-model.cpp`, `ggml.c`, backends, vocabulary, grammar, sampling, chat templates, ... | - | - | numeric | - |

### How components interact

A question (`POST /query/document`) is searched for in the retriever, answered by
the LLM interface and logged with the account; the LLM interface and the retriever share
nothing but the request. `QuestionPipeline` takes both at the promises that
`VectorStore` and `ResponseCache` are checked for and adds what only exists
between them: the conversation and the pages. Uploads feed the retriever through files. Attendance
and marks look students up among the accounts by USN and otherwise meet only in
the database. A quiz passes from the teacher's page through two tables to the
student's page and back to the teacher's analytics; that whole circle is one
module here, because every hazard of it needs a stale page.

In llama.cpp the server decodes its batch in a context: the KV cache places the
batch, the graph allocator places the tensors of its graph, and the thread pool
computes it. The three know each other by small promises (a batch is placed or
refused, a decode succeeds, finds no room or fails, a graph ends or is aborted), which
`LlamaServer` and `KVCache` take as outcomes that are left open.

## 2. The modules

| module | models |
|---|---|
| `PyDict` | a Python dict: insertion order, update in place, deletion, `next(iter(d))` |
| `ResponseCache` | `run_llm_async`, `run_llm`, both models, `clear_response_cache` |
| `ResponseCacheProofs` | the theorems about it |
| `VectorStore` | upload, indexing, loading, searching, both caches, restart |
| `VectorStoreProofs` | the theorems about it, and that it implements `SearchPromise` |
| `SearchPromise` | abstract: what the retriever promises those who ask |
| `Subsequence` | what a filter or a deletion leaves of a sequence of rows |
| `QuestionPipeline` | the chat page, the question endpoint, the history |
| `QuestionPipelineProofs` | the theorems about it |
| `OrmSession` | a SQLAlchemy session over a table whose rows are never deleted (external code) |
| `OperatorTheorems` | lemmas about the operators of `PyDict`, `OrmSession` and `Subsequence` |
| `Attendance` | the marking endpoints and summaries |
| `AttendanceBook` | abstract: a book with one entry per student, subject and date |
| `Marks` | the marks endpoints and readers |
| `Quizzes` | tables, endpoints and both pages of quizzes and attempts |
| `ClassRecords`, `ClassQuizzes` | attendance and marks side by side; the quizzes beside them |
| `RecordsProofs` | the theorems about attendance, and that it implements `AttendanceBook`; those about marks and quizzes |
| `LlamaServer` | the queues, the request threads and the main loop of llama-server |
| `LlamaServerProofs` | the theorems about its tasks, streams, deferred tasks and contexts |
| `ThreadPool` | the pool of threads that computes a graph on the CPU |
| `ThreadPoolProofs` | the theorems about it |
| `TensorAllocator` | `ggml_dyn_tallocr` |
| `GraphAllocator` | `ggml_gallocr` on one buffer, on top of it |
| `AllocatorProofs` | the theorems about both allocators |
| `KVCells` | `llama_kv_cells` |
| `KVCache` | the KV cache and the part of `llama_context::decode` that drives it |
| `MC...` | values, casts and symmetry for TLC |

`ResponseCache` and `VectorStore` extend `PyDict`; `Attendance` and `Marks`
extend `OrmSession`; `QuestionPipeline` and `LlamaServer` extend `Subsequence`; `GraphAllocator` extends `TensorAllocator`, `KVCache` extends
`KVCells`; `VectorStore` instantiates `SearchPromise`, `Attendance`
instantiates `AttendanceBook`. `ClassRecords` extends
`Attendance` and has `Marks` as the instance `Sheets`, `ClassQuizzes` has `Quizzes` as the instance `Quiz`: the three
share no state, but lemmas about lists, sets and sessions, so that one module, `RecordsProofs`, extends
both. Definitions named `X_Something` after a comment
"Mutant" are wrong forms of `X` that some property must reject; they belong to no
next-state relation.

### ResponseCache

Each call has a program counter. `Ask` is `run_llm_async` queuing the job;
`Begin` a thread taking it, with the routing of lines 262-263, the key of line 267
and the lookup; `OllamaReplies`, `CheckQuota`, `CallGemini` and `GeminiReplies` the
models with their error paths; `CheckRoom`, `PickOldest`, `DeleteOldest` and `Store` lines
341-347, one step each because another thread can run between them; `Deliver` and
`Timeout` the two ends of `asyncio.wait_for`. A timeout cancels a queued job and
leaves a running one alone. `Begin` is one step although routing and lookup are
two operations: the quota flag only ever rises and `CheckQuota` reads it again,
so a rise between both shows as one just after `Begin`. That check (line 206) and
the call (214) are two steps, so the flag may rise between them; `refused` and
`late` are history variables that count the calls that still go out.

The key (line 267) leaves the conversation out. `RepliesFitRequest` therefore says
which parts of an answer are the caller's own (question, model, material), and that
it was made for a call with the same three: its conversation may be that call's.

An answer is modelled by its provenance (question, material, conversation,
model, and text, empty or error), which is all the properties need. PoolSize is
the number of executor threads.

### VectorStore

One semester directory with its subjects. A job thread builds the index of one
PDF, writes `index.faiss`, then `index.pkl`, then caches the index (`Room`, `Oldest`,
`Pop`, `Insert`). A search asks `QUERY_CACHE`, then starts one thread per indexed
subject (`Probe`, `GetCached` or `ReadFaiss` and `ReadPkl`, the same caching steps,
`Query`), and `Merge` and `PutAnswer` end it. An index is named by the one PDF it
was built from, because `create_vectorstore` builds it from that PDF alone. A file
read or written by two threads at once, or cut off by `Restart`, may be garbled;
halves of two documents load and give no matches or those of `index.pkl`. The
history `raced` holds the subjects on which saves overlapped with each other or with
loads, or a save failed or was cut short; the history `beaten` holds, while its search
goes on, each load that another thread robbed: of the cache entry or the victim it had
seen, or of `index.faiss`, written again when it came to read it. The properties that
need quiet say so with the two.

### QuestionPipeline

A question is a request record with its stage (sent, thinking, answered, logged,
unlogged, failed), the page that still waits for it, the conversation it was
given and, as history, the answers its page showed. `Ask` is `handleAsk` up to the
request; `Begin` the handler up to its first wait, which reads the conversation;
`Answer` the rest of it with the response; `Log` the background task, atomic
because `log_user_activity` has no `await`. It may run before or after the response
reaches the page (`Show`). A page that is left (`Leave`), and every page at a logout
(`SwitchUser`), stops waiting: React does not run the updater of a
component that is gone, so its answer is in the history but on no page and not in
localStorage. `/login` can be reached without a logout: `LoginOver` replaces the token
and leaves the pages of the other tabs open, with the messages of the user before and the
answers they wait for; what such a page asks next is asked by the new user in the old session. An answer that cites a passage fails (section 8), which is one of
the cases of `Fail`. What the model answers when it is out of order (the text "Request timed out" among
others) is an answer like any other to this code: it is logged and counts as study.

The history `stray` holds the questions whose messages ended up in a chat they
do not belong to, with exactly two causes: an answer that came after a clear, and messages
saved over those of another session by a tab. What a page or localStorage keeps over a change of
the user is of its session and does not stray; `PagesRemember` excepts it by who asked.

### Attendance and Marks

A request looks up its list one entry per step (`Lookup`, `Stage`), reading the
committed table only, and commits once (`Commit`); `Answer` is a step of its own, because the commit expires
the student and the answer to a single mark or entry reads the name again (`attendance.py` 150, `marks.py` 160): if that
fails, the answer is 500 and the row is stored. Errors before the commit roll everything back. The
histories `clash` and `raced` record which keys overlapping requests share or one
list repeats. Marks are six columns in the code; a run instantiates those it needs,
since all are treated alike but for the weight of the internals.

### Quizzes

A teacher's request is three steps: it is sent with the list that the click's
closure holds (`Send`), served (`CreateQuiz`, `DeleteQuiz`, `FetchBoard`,
`OrderFails`), and its response sets the list (`ShowBoard`) or is lost. A student's page
visits, takes, submits; the list of a student and the analytics are two SELECTs and
so two steps. A double click is two `SubmitQuiz` steps before the first response.

### LlamaServer

One action is one critical section of `mutex_tasks` or `mutex_results`, or two of the
main thread that nobody can tell apart: posting the tasks of a request, taking a task,
processing it by its type (completion and embedding: launch, defer or refuse;
cancel; metrics and slot operations; `NEXT_RESPONSE`), building a batch, decoding the next
part of it with its three outcomes, sampling, sending a result, receiving it,
leaving. A client that leaves has its tasks cancelled (`GiveUp`), but for a stream whose client
is gone before the HTTP library first calls the content provider (`GiveUpUnread`): then only
`on_complete` runs, the tasks go on and their results stay. Tokens are counted: a prompt and a prediction have lengths, and which slot an
unbound task gets, when a text ends, what `llama_decode` returns and when a client
leaves are open. What the code keeps after a release (`id_task`, `i_batch`) is kept here, since a later
failure acts on it.

### ThreadPool

Each load, store and read-modify-write of a variable that is read without the mutex is
an action: the loads of `n_graph` and `n_threads_cur`, arrival at `ggml_barrier`, the reset of
`n_barrier` and the release by `n_barrier_passed`, the chunk counter, `abort`. What happens
under the mutex alone is one action. Thread 0 is the caller; it kicks off a graph,
wakes the sleepers, computes its share and returns, and pauses, resumes or
frees the pool between graphs. Every node is a matrix product, the operation that
coordinates most. The steps are interleaved: sequential consistency is assumed
where the code asks for it or for less (`n_barrier_passed` and `current_chunk` are relaxed in
places, fenced by the barrier).

### TensorAllocator and GraphAllocator

The free list is a sequence of blocks sorted by address; `Alloc` is best fit among all but
the last block, `Free` merges with both neighbours. A graph is a sequence of tensors
(leaf, weight, operation, in-place operation, view), the leafs first. Planning is a cursor `at` that goes over the
tensors and, in each, over its sources: every source is placed (`PlaceSource`), the tensor is (`PlaceTensor`: it
takes over the place of a source, or gets one of its own), and every source is read (`ReadSource`:
released after its last reader and view). `Finish` notes the plan and gets the buffer, which the system may refuse; `AllocGraph` places
the tensors by the plan of this graph, also after a refusal, or, if `needs_realloc` allows, by that of the one before, and aborts
where `ggml_backend_tensor_alloc` asserts.
`Live`, what a later node or the caller still reads, is defined from the graph alone; by it the properties are stated.
`Planned` says that the plan was made for the structure of this graph, perhaps with larger sizes, as `llama_context` does, which
reserves for as many outputs as tokens and decodes with one. The client may build any graph: section 8 says what becomes of the
others.

### KVCells and KVCache

`KVCells` holds operators, one for each method of `llama_kv_cells`, with the
incremental counts `seqPos` that the code keeps instead of looking at the cells. `KVCache` is
the client's calls (`Edit`: remove, keep, add and copy within a stream; `Move`: copies between
streams; `Exchange`: save and restore; `Decode`) and their processing: `prepare` places
every ubatch and takes all back, then each is applied and computed (`Process`), or fails (`ComputeFails`)
and is rolled back. The keys in memory are separate from the metadata: a key has
a token and the position it is rotated to, and pending shifts and copies change it at the next update.
The history `want` is what the client has left in each sequence; in a window it also
says which of it `prepare` may have taken. `Divide` (`seq_div`) is modelled but taken
by no run, see section 8.

## 3. What TLC checks

All runs check for errors in every reachable state of the instance. Deadlock
checking is off: each system may legitimately come
to rest, when all calls are answered, the pool is freed or a bound is spent; that nobody
waits forever is stated as liveness (`EveryJobEnds`, `EverythingEnds`, `Served`, `GraphsEnd`, `CallsObeyed`). A run that has several questions
to ask gives each behaviour a cast, chosen at the start and never
changed: which actors play and how much they do. Properties that only say what every
state looks like are joined, with the type invariant, in one named `...OK`;
their parts are named and can be checked alone.

| run | states | properties (parts) |
|---|---|---|
| `response_cache` | 193 thousand | `CacheOK` (`TypeOK`, `CacheWithinBound`, `CachedUnderItsKey`), `RepliesFitRequest`, `FewLateCalls`, `EveryJobEnds` |
| `vector_store` | 165 thousand | `StoreOK` (`TypeOK`, `Coherent`, `PairIntact`), `SourcesStored`, `FreshAnswersCover`, `KeepsPromise`, `EverythingEnds` |
| `question_pipeline` | 1.4 million | `HistoryOK` (`TypeOK`, `ConversationSound`, `StudyCounted`), `PagesRemember`, `ClearedStaysCleared` |
| `records_clients` | 149 thousand | of attendance `TableOK` (`TypeOK`, `UniqueUnlessRaced`, `CopiesBounded`, `SummaryCountsDates`), `MarkHolds`, `IsABook`; of marks `SheetOK` (`TypeOK`, `RowsEnteredWhole`, `ReadersAgree`), `ColumnsEntered` |
| `quizzes` | 1.5 million | `BoardsOK` (`TypeOK`, `CalmBoardsCurrent`), `AttemptsCountForAnswered`, `ReportsConsistent`, `PagesTruthful`, `DeletesWhatIsShown` |
| `server_tasks` | 586 thousand | `TasksOK` (`TypeOK`, `NoTaskLost`, `FinalOnce`, `OrphansKnown`), `StreamInOrder`, `WakeupComing`, `ContextNeverOverrun`, `Served` |
| `pool_graphs` | 283 thousand | `WorkShared` (`TypeOK`, `ChunksOnce`, `AbortTogether`), `PhasesSeparated`, `NobodyElseUntilTorn`, `GraphsEnd`, `CallsObeyed` (`PausedSleep`, `FreedEnds`) |
| `graph_allocator` | 1.3 million | `AllocatorOK` (`MemoryExact`, `FreeListMerged`, `WithinMaxSize`), `NothingOverwritten`, `InsideBuffer`, `PlanOK` (`TypeOK`, `OnlyResultsHeld`) |
| `kv_cache` | 252 thousand | `CellsOK` (`TypeOK`, `PositionsCounted`, `KeysInPlace`), `AttentionComplete`, `RefusedWhenFull`, `PrepareTransparent` |

What they show:

- **The response cache** overshoots its limit only by threads that found room at
  the same time, never by more than `PoolSize - 1`, and never mixes requests up,
  although evictions race and raise `KeyError` and `StopIteration`, and late
  answers arrive after timeouts. It matters that the key is computed after
  the routing: the mutant that computes it before keeps Ollama's answers under
  Gemini's name.
- **The retriever** implements `SearchPromise`: an answer names published documents, at most
  one per subject, or repeats an earlier answer. Cached index and files agree
  unless two threads met on the subject, through any order of uploads, evictions,
  clears and restarts. A fresh answer names a document of every subject indexed when it was
  asked, but for subjects whose saves overlapped and, in that answer alone, those whose
  load was robbed: a lost race costs no other subject, and no later search.
- **A question** is answered with the latest exchanges of its own user and session, in
  order, without a hole that no deletion made. Whatever answer to its own user its page showed when
  it was asked is among them, unless the log of the answer was not written
  yet or never, the row was deleted, or the message strayed; a session that a tab has cleared does
  not come back to it, through late answers, reloads and other tabs.
- **Attendance** implements `AttendanceBook` for two concurrent clients: except
  for entries that marks competed for, a list is entered as a whole or not at all. A raced
  entry gets at most as many rows as requests could be in flight times the
  repetitions in a list, for good: later marks always change the first row.
- **Marks**: a row nobody raced for holds marks entered together; in any row each
  column holds points that a request entered there and committed.
- **Quizzes**: stale pages and reports do no harm unless an id was given again,
  which is the exact exception each property names.
- **llama-server** loses no task: as long as a client waits, each task is in one place
  until it has its one final reply, and the pieces of a stream arrive without a gap, through
  cancellations, failed and divided batches. A request for a slot that exists is answered
  or given up unless the chain of wake-ups was broken. A result that nobody takes is of one of two known kinds.
- **The thread pool**, whatever numbers of threads the graphs are given, and until a worker puts the number of one
  graph and the width of another together (`torn`, see `pool_growing`), separates the phases,
  hands every chunk out once, aborts all threads at the same node, lets no worker into a graph
  it is not part of, and ends every graph, pause and release.
- **The graph allocator** overwrites nothing that is still read, with in-place operations, views and
  outputs, and with a plan that is used again for a graph of the same structure; a graph that fits a plan lies in the
  buffer, if there is one; the free list is exact and merged at every step.
- **The KV cache** lets the next token attend to exactly what the client left in its sequence, whatever
  order edits, shifts, copies, failures and restores came in; the incremental counts agree with the cells. The exception is
  a window: where finding places for the later ubatches of a batch purges a token, that token and those before it may be
  missing although the earlier ubatches see them (`LostUpTo`, and `kv_window` below).

Three runs are expected to fail and document where the code and what is written
in it part:

- `server_deferred` (`DeferredUntilFree`): a release wakes up one deferred task
  (`server.cpp` 1819); when that task is a slot operation, or one that is refused, it takes
  no slot and wakes up nobody, so that a completion can stay deferred beside a free slot until some later
  release. Line 1793 says a task is deferred "until one slot is available".
- `pool_growing` (`NobodyElse`): `thread_ready` loads `n_graph` and `n_threads_cur`
  one after the other (`ggml-cpu.c` 2909). A worker that a graph leaves out can read its number and the
  width of the next, larger one, join that without remembering it, and begin the same graph again
  after thread 0 has returned; line 3132 says that no worker is there by then.
- `kv_window` (`PrepareRestores`): under a sliding window `apply_ubatch` purges cells outside the slot
  (`llama-kv-cache.cpp` 903-920), and `prepare` puts back the slots only; line 571 says the cells are
  restored "to their original state".

### Bounds, and why they are enough

- `response_cache`: two threads, a limit of one entry. One cast has two calls with any request (two
  questions, material or none, three spellings of the model, and for material a conversation or, by the
  second, none): a mix-up needs two keys that differ in one component, a borrowed conversation two calls
  that differ in it alone. The other has three calls: overshooting needs two threads between
  check and store while a third call has filled the cache, a lost eviction two threads with
  one victim, a late call one thread between check and call while another is refused, and the quota may
  turn some of the calls to Ollama.
- `vector_store`: two jobs and a search on one subject (any two threads can meet, and a third can see the
  result); bad PDFs and two questions for a query cache of one; two subjects for a vector
  cache of one entry, so that loads evict each other's index.
- `question_pipeline`: conversations of two exchanges. Three questions, in two tabs, in one tab
  with two users (logins over each other happen in the other), or in one tab with a fault, a deletion and a lost response: a session, its successor after a clear, and a question that
  reads either. A fourth question in the plain cast exceeds the conversation. With two
  tabs the third question waits for the logs of the first two.
- `records_clients`: two clients, since a race is between two
  requests; lists with competing, repeated, skipped and failing entries.
- `quizzes`: three orders of teachers suffice to create, delete
  and give an id again, four to do so under a second teacher's eyes; two under way for overlapping
  requests of one teacher; two clicks for a double click.
- `server_tasks`: two slots, a context of four tokens, batches of two, so that prompts are divided and the
  limit is met; a streamed completion beside every other kind of request. `server_deferred`:
  one slot and three requests, two completions and a slot operation.
- `pool_graphs`: three threads (one ahead, one behind, one reset), two nodes, so that a barrier is
  reused, two graphs of any widths; eight chunks, the fewest that the counter
  hands out to two threads. `pool_growing`: two threads and three graphs of any width.
- `graph_allocator`: three nodes of two sizes, four of one (none with the same source twice), tensors
  that come and go in any order; an alignment of two makes sizes differ from what is reserved. In a fourth cast a plan for three
  tensors is used again: for the same structure with any sizes, or, if it had one node, for any graph of one node, so that leafs
  change places; there the first buffer may be refused.
- `kv_cache`, `kv_window`: two sequences, three cells (six under the window run), ubatches of two, so that
  batches are divided and the head wraps around; four calls, or five under the window: store, edit twice,
  decode again. Positions are not moved in the window, and only the shared stream is saved and restored.

Everything else (asks, clears, restarts, visits, marks) is unbounded.

### Fairness

`ResponseCache`: weak fairness of each thread's next step and of delivery. Ollama
requests carry timeouts (30 s, then 10 s) and the Gemini client has its own;
nothing else a thread does blocks. `Timeout` has no fairness: the property must not depend
on callers giving up. A queued call needs a free thread; it gets one because
running threads end and each call takes a thread once. `VectorStore`: weak fairness of each
thread and each request's merging, which wait for nothing but their own work.
Uploads, questions, clears and restarts are never required.

`LlamaServer`: weak fairness of the main loop and of each request's thread, which the operating system
schedules; clients need not leave. `ThreadPool`: weak fairness of a kickoff under way, of the joins, and of
each thread in a graph or between two; strong fairness of `PollOver`, because a worker polls a bounded
number of rounds, which the model does not count. Whether the caller computes another graph, pauses or frees is open.

## 4. What is proved

For every value of the constants that satisfies the named assumptions of the module, which TLC
evaluates in every run. Those of `Marks` and
`Quizzes` are `ConstantsFit`, assumed of their instances in `ClassRecords` and `ClassQuizzes`. Each argument rests on an inductive invariant; the header of each proof
module, or of the part of it, sketches it in the terms of its definitions.

| module | theorem | statement |
|---|---|---|
| `ResponseCacheProofs` | `TypeCorrect` | `Spec => []TypeOK`, in particular no key is in the dict twice |
| | `CacheBound` | `Spec => []CacheWithinBound` |
| | `CacheSound` | `Spec => []CachedUnderItsKey` |
| | `CacheCorrect` | `Spec => []CacheOK`, the three together |
| | `RepliesSound` | `Spec => []RepliesFitRequest` |
| | `LateCallsAreFew` | `Spec => []FewLateCalls` |
| `VectorStoreProofs` | `SourcesAreStored` | `Spec => []SourcesStored` |
| | `StoreIsOK` | `Spec => []StoreOK` |
| | `SearchesCover` | `Spec => []FreshAnswersCover` |
| | `PromiseIsKept` | `Spec => KeepsPromise`: `VectorStore` implements `SearchPromise` |
| `RecordsProofs` | `TableIsOK` | `Spec => []TableOK` |
| | `MarksAreKept` | `Spec => MarkHolds` |
| | `AttendanceIsABook` | `Spec => IsABook`: `Attendance` implements `AttendanceBook` |
| | `SheetAlwaysOK` | `Sheets!Spec => []SheetOK` |
| | `ColumnsAlwaysEntered` | `Sheets!Spec => []ColumnsEntered` |
| | `BoardsAlwaysOK` | `Quiz!Spec => []BoardsOK` |
| | `AttemptsAlwaysCount` | `Quiz!Spec => []AttemptsCountForAnswered` |
| | `ReportsAlwaysConsistent` | `Quiz!Spec => []ReportsConsistent` |
| | `PagesAlwaysTruthful` | `Quiz!Spec => []PagesTruthful` |
| | `DeletesAlwaysShown` | `Quiz!Spec => DeletesWhatIsShown` |
| `ThreadPoolProofs` | `WorkIsShared` | `Spec => []WorkShared` |
| | `PhasesAreSeparated` | `Spec => []PhasesSeparated` |
| | `NobodyElseComputes` | `Spec => []NobodyElseUntilTorn` |
| `QuestionPipelineProofs` | `HistoryAlwaysOK` | `Spec => []HistoryOK` |
| | `PagesAlwaysRemember` | `Spec => []PagesRemember` |
| | `ClearedForGood` | `Spec => []ClearedStaysCleared` |
| `LlamaServerProofs` | `ContextAlwaysFits` | `Spec => []ContextNeverOverrun`, if `NCtx > 1` |
| | `WakeupAlwaysComing` | `Spec => []WakeupComing` |
| | `TasksAlwaysOK` | `Spec => []TasksOK` |
| | `StreamAlwaysInOrder` | `Spec => []StreamInOrder` |
| `AllocatorProofs` | `AllocatorTracksMemory` | `Spec /\ [](max_size < SizeMax) => []AllocatorOK`, if `0 \notin Sizes` |
| | `NothingGivenTwice` | `Spec /\ [](max_size < SizeMax) => [](MemoryExact /\ WithinMaxSize)` |
| | `PlansCountRight` | `Spec /\ [](max_size < SizeMax) => []PlanOK` |
| | `NothingIsOverwritten` | `Spec /\ [](max_size < SizeMax) => []NothingOverwritten` |
| | `TensorsInsideBuffer` | `Spec /\ [](max_size < SizeMax) => []InsideBuffer` |

### The response cache

Finitely many calls, a pool of at least one thread, any limit, questions and material.
`CacheWithinBound` is not inductive: a full cache with two threads
past the check would break it in one step. The inductive invariant `IInv` adds
what the threads have already claimed:

- `PoolRespected`: no more than `PoolSize` jobs are in a thread;
- `ClaimsBounded`: entries plus threads about to store are at most
  `MaxCacheSize + PoolSize - 1`. Passing the check with room adds a claim; it holds
  because then the cache is below the limit and at most `PoolSize` threads, this
  one included, claim. A deletion removes an entry and adds a claim; a store
  redeems one; an eviction that fails adds none;
- `JobsOK`: what a thread holds at each place of the program: types, that a job
  in the Gemini call has model "gemini", that an answer about to be stored is
  no error and was made for this call, that a victim is a key;
- `CacheShared`: an entry was made for some call with its key, which stays true because the
  request of a call that has been routed is settled (`SettledStays`, `MadeForStays`);
- `LateBounded`: after a refusal, the calls made late and those about to be made are fewer than
  `PoolSize`. The thread that is refused is itself not about to call; none sets out once the flag is up;
- `TypeOK`, `CachedUnderItsKey`, `RepliesFitRequest` themselves.

Each conjunct has its own inductive lemma (`TypeStep`, `JobsStep`, `PoolInductive`, `ClaimsInductive`,
`CachedInductive`, `SharedInductive`, `RepliesInductive`, `LateInductive`), with a step per action. The
lemmas of `OperatorTheorems` say what `Put` and `Del` do to length, keys and values.

### The document index

Any number of subjects, uploads, jobs, searches, clears, failures and restarts, and caches of any size. Three
layers, each inductive over the one before:

- `Shape` needs nothing of timing: whatever a thread holds at a place of the program, and a file, a cache or an
  answer says, is what it should be there. In particular a half of an index that is about
  to be cached or searched names a source of its subject, and a search has found at most one document of each
  subject it no longer waits for. This gives `SourcesStored` and the refinement.
- `Quiet`: threads that meet on a subject put it into the history `raced`. On the others one job saves
  at a time and nobody loads after its first write (`AloneSaving`, `AloneLoading`), so what was
  written or read is still on disk when it is cached. This gives `Coherent` and `PairIntact`.
- `Covering`: a load of a quiet subject ends with its query, of an index that is whole, unless it was robbed: then
  it is in `beaten` (`RobbedBeaten`) until its search ends. No file of a quiet subject is garbled (`NotGarbled`), so a
  load fails for no other reason (`FailCovers`), and a search has a match in every subject it could find and
  whose load was not robbed, or still waits for it.

The refinement maps what `SearchPromise` remembers to `QUERY_CACHE`, and what it has given to the answers without
their histories. A document is published by the write of `index.pkl`; every other step of a thread is a stutter.

### Questions and their history

Any numbers of tabs, users and questions, any length of a conversation, and any order of logouts, logins over another user, clears, lost responses,
failed logs, restarts and deletions. The inductive invariant has a part for each side.

- The page (`PageOK`): the chat of every tab, and the one in localStorage, holds messages of its session, whoever asked,
  but for those that strayed (`GoodChat`). A page without a session shows strayed messages only. What a page showed when it
  asked is of the question's session (`ShownOK`).
  `ClearedStaysCleared` is not inductive alone: a tab that is opened again takes the session of localStorage, so a cleared
  session must be absent there too (`SessionsOK`).
- The server (`ServerOK`): a question is logged at most once, and the rows are, in order, the logged questions that were not
  deleted (`RowsOK`). The step that reads the conversation takes a part of the rows, so it is a part of the log without a hole
  (`ConversationRead`); the log only grows, so it stays one (`ConversationKept`).

`PagesRemember` then needs no induction of its own: what was shown, did not stray and is the same user's is of the same chat, and the conversation of a
chat has no hole. `ConversationOf` says with places of the log what `ConversationSound` says with `PlaceIn`; the two are the same because
a question is logged once.

### Attendance

Any finite set of clients (requests in flight), any nonempty set of lists (empty lists included), any
students, dates and statuses, with failing lookups and commits and restarts. `IInv` says that what a session has staged is described
by its list and not by the order of its calls: after n lookups it holds changes of first rows and new rows for
the keys of the first n marks only (`Staged`), and for each of these marks that nobody competes for exactly the row
that a commit would need (`Kept`). Commits of others disturb only keys of their lists, and a key of both lists
is in the clash of both (`Competing`). How many rows a raced key can have needs
an invariant of its own (`Counted`, `Bounded`): from the commit of the key's first row on, the rows there are and those that
sessions then open may still add are no more than one share for each client. The refinement maps the
table to the first row of each key, and a request that has committed to a client whose list is entered and who
does not know it yet (`ToldOf`): from there the sender of a list is told "ok" or nothing, that of a single mark
possibly "error".

### Marks

Any finite set of clients, any lists of entries, any students, subjects, columns and points, with failing lookups and
commits and restarts. A commit writes the columns where an entry differs from what its session had read, so a row
becomes the entry, whole, only if what was read is still there. `SheetStaged` says when it is: what a session
holds comes from the entries of its list that it has looked up, and unless a key is raced for nobody has changed the
columns it read nor added the row it is to add. Whoever did has the key in a list that overlaps, and two lists in flight
share raced keys only (`SheetRaces`). So a row that is not raced for is one entry, and the only one of
its key (`SheetEntered`), which is why its readers agree; any other row is entered column by column.

### Quizzes

Any students, teachers, readers, quizzes and bounds, with requests of one teacher that overlap, responses out of order or lost,
double clicks and pages of any age. `QuizInv` has four parts.

- `DeskOK`, `PupilsOK` and `ReportOK`: every pair of an id and a quiz that a list, a request under way, an open quiz, an
  attempt or a report speaks of was a row of the table once. So if the id was not given twice it names one quiz, and
  this is all that `AttemptsCountForAnswered`, `ReportsConsistent` and `DeletesWhatIsShown` need. The
  conjunct on ids (no id is greater than the requests that are done) keeps them within the bound.
- `CalmOK`, for `CalmBoardsCurrent`: a teacher nothing came in the way of has one request under way at most, and the list that
  it carries, or that its response will set, is the table.
- What a page says of tries and the best score is bounded by the attempts saved; more attempts leave that true. It is read in two
  steps, the list and then the attempts, so the invariant has it for the requests under way too (`GetOK`).

### llama-server

Any requests, numbers of slots and sizes of contexts and batches, with refused and divided prompts, batches that are tried
again in halves or fail, cancellations and clients that leave. The one assumption is that no task has the id `NoTask` of a free
slot, which is -1 in the code, where ids count from 0.

- `ContextNeverOverrun` is false in the middle of a batch: a token is added before it is decoded, and a prompt may fill its
  context. The invariant (`Settled`) says which slots may then be at the limit: those whose token the main
  thread still has to come to, in the batch it fills, in what is left of the one it decodes, ahead of the slot whose token it
  has just sampled, or among the slots it still has to fail (`Awaits`). A retry with half the size and the next part of
  a batch move that border and skip nobody. `Within` says why a prompt that waits leaves room.
  A context of one token is the one exception: the first token of any prompt fills it.
- `WakeupComing` is inductive with the types of the queues: a release either finds nothing deferred or puts a task that it
  has woken up first in the queue; from there it can only get into the main thread's hands and a slot, be deferred
  again while a slot it wants is processing, or end up in `wasted`. Cancellations take none away (`CleanupKeeps`).
- `TasksOK`: `TaskInv` counts the places of a task (queue, deferred, main thread, slot) together with its replies
  (`LiveOK`): one place at most, none once it was replied to, exactly one while its request waits without a reply. It needs to
  know which tasks are waited for (`WaitingOK`), what a request that leaves has received, everything (`Complete`) or, as a stream
  left unread, nothing (`Deserted`) (`GotOK`), and that after a final
  result only errors follow (`QueueOK`); a slot keeps the id of its task after it is released (`SpentOK`), which is how a failed batch
  sends an error to a task that has its result. The steps of the main thread come in a few kinds (`Effect`: a task moves, ends
  with a result, ends in silence, streams a piece), and each kind keeps the invariant whatever the action was.
- `StreamInOrder`: of the pieces of a task in the queue each begins where the one before ends, the first at what the client has
  (`Linked`), and the last ends where the slot is (`Reaches`). A task that no slot holds yet has sent nothing; so it must be
  known that it is in one place when a slot takes it, which is `TaskInv`.

### The thread pool

Any number of threads, nodes, chunks and graphs of any widths, with an abort, pauses and a release at any place, until a
worker has put the number of one graph and the width of another together. The history `torn` records that; the step is the code's
(`pool_growing` shows it), the theorems are false after it, and they say that nothing else lets the threads come apart. The
widths do grow in practice, also when `n_threads` and `n_threads_batch` agree: the splits of a graph have their own number of tasks
(`ggml-cpu.c` 2849). A worker that a graph adds counts as finished until the graph is published. The barriers cut a graph of n nodes into stages 0 to 2n. `Stage(t)`
is the number of barriers of the graph that have opened for thread t, and the core of the invariant is that it is the same for
all threads of the graph (`InStep`): a barrier opens in one step, although the threads notice it one
after another. That every thread waits when it opens follows from `n_barrier` being the number of those that wait
(`BarrierCounts`); that all return to the same place from `abort` being changed in odd stages only and read in
even ones (`AbortRead`); that no chunk is computed twice from what the counter has handed out in a stage (`HandedOut`).

### The allocators

Any alignment, sizes, graphs and sequences of graphs. A call is described by what it does to the set of free addresses
(`FreeAt`), not by the list it makes: allocating moves addresses from the list to a tensor, freeing moves them
back, and `Memory`, every address in exactly one block or exactly one tensor, is kept by every call in any order. The order of the
list (`Tidy`) follows on its own, because a list with a gap between any two blocks can only be joined at its neighbours.
Two hypotheses, both of them the code's: the memory measured stays below SIZE_MAX/2, the size of the
last block (`ggml-alloc.c` counts on it: with all of it given out the list is empty and `free_blocks[-1]` is
read); for the order of the list, and nothing else, no tensor is empty (an empty tensor that is freed inside a free block
leaves a block of no size there, section 8). The run of `graph_allocator` meets both.

Above the free list, the inductive invariant says at every position of the cursor what the plan has come to (`PlanGood`):

- the count of readers of a tensor is the number of readings after the cursor, and its count of views is that of
  the views that still have a reading to come or are never read. So neither goes below zero, and both are
  zero exactly when the last reading is done;
- what holds memory are the tensors the cursor has passed that are results or are still to be read. A
  tensor passed that holds none was read for the last time, or its place was taken over by an operation in place,
  which was its last reader and had no view of it to respect. At the end only the results are left (`OnlyResultsHeld`);
- a tensor was placed apart from all that held memory at that time (`Safe`). Since memory is exact, two tensors that
  overlap were never held together, except one in the place of the other: the earlier had no reader left.

When the plan is noted, `Safe` of all pairs is kept with it (`NotedInv`), and a graph that is placed fits it (`SettledInv`). If it has
the structure of the planned graph, its tensors are not larger and are read in the same places, so it is `Safe` too
(`SmallerIsSafe`): `NothingOverwritten`. And whatever its structure, a node of it is no larger than the node planned at its
number, so that it lies in the buffer (`FittingIsInside`); a leaf is compared only where a node reads it, which `InsideBuffer` therefore
excepts.

### Only model-checked

- Liveness (`EveryJobEnds`, `EverythingEnds`, `Served`, `GraphsEnd`, `CallsObeyed`): fairness and ENABLED are out
  of the prover's reach.
- `AttentionComplete`, `CellsOK`, `RefusedWhenFull` and `PrepareTransparent` of `KVCache`: it places batches with folds,
  which are recursions over data; what they compute for every batch cannot be proved as they stand (section 6 says
  what would have to change).

## 5. Not modelled, and why

- Wording, scores and ranking of answers, chunking, embeddings: no control depends
  on them. `EMBEDDING_CACHE` is cleared but never filled. Performance counters: read by a display only.
- Accounts, announcements, quiz generation, the teacher pages: planned, section 6. Batch questions and
  downloads store nothing.
- `POST /create-sample-data` (`main.py` 307), a test endpoint: it inserts attendance and marks without the lookup, a
  second row for a key included. What is said of rows assumes that it is not called on a database in use.
- Fine-tuning scripts, unmounted routers: batch, unreachable.
- llama-server: speculative decoding, context shift and checkpoints, reuse of a cached prompt, LoRA, multimodal prompts,
  a decode that was aborted, shutdown.
- Thread pool: the OpenMP build, affinity and priority, memory orders weaker than interleaving; operators
  other than the matrix product, which coordinate less.
- Graph allocator: several buffers; the limit of 256 free blocks is an abort and is not met. Tensors of size zero
  (section 8).
- KV cache: a failing rotation (it is only logged), embeddings with repeated positions, the pair of caches for interleaved windows, chunked
  and symmetric windows, padding of the attended range, saving and restoring the whole cache, recurrent memory.
- The rest of llama.cpp, which is most of the repository's code by lines: kernels and quantisation formats,
  a backend for each kind of hardware, graphs of a hundred architectures, tokenizers, templates and file formats.
  They are sequential computations over large data: a model would copy them, and TLC's
  small inputs would show little. The share of lines the modules translate is small for this
  reason, although the parts of the repository that keep state and coordinate are covered.

`PROJECT.json` lists the hazards of the parts that are modelled, with the properties that watch them, and of
those that are planned.

## 6. Plan

1. Done: the backend's answers, documents, conversations, records and quizzes, with the
   abstract `SearchPromise` and `AttendanceBook`; the queues, the pool, the allocators and the KV cache of llama.cpp;
   the proofs of the safety properties of all of them but `KVCache`.
2. Proofs: `PositionsCounted` and `KeysInPlace` of `KVCache`, from lemmas about the methods of `KVCells`, with the folds that place a batch
   replaced by one step for each token.
3. `Accounts`: signup, login, profile, password and `upload_students_excel`; two
   sessions of one request, whole-profile writes. Property: a confirmed change is
   what the next login sees, except where it is not (section 8).
4. `Announcements`, sharing the id reuse of `Quizzes`.
5. Pure functions over bounded inputs: totals and grades, `truncate_context`,
   `parse_llm_response`, `extract_sections`.

## 7. How to run

`tlc -config <run's cfg> <run's module>` for each run of `PROJECT.json`; `tlapm <module>.tla` for each
module of section 4 and for `OperatorTheorems`. The longest runs take two to four minutes on two cores, the proofs
of `VectorStore`, `ThreadPool`, `LlamaServer`, the records and the allocators a few minutes each.

## 8. Observed, but not made a run

Met while modelling; the modules do what the code does, unless the line says it is left out.

NoteNinja:

- The key of `RESPONSE_CACHE` leaves the conversation out, so an answer made with one session's conversation is
  given to another (`llm_interface.py` 267, `query.py` 331). General answers do not use the conversation at all,
  although the comment at `llm_interface.py` 325 says so.
- A second upload to a subject overwrites its index with one of the new PDF alone (`retriever.py` 157);
  `PROJECT_REPORT.md` 30 speaks of a search across uploaded documents. `QUERY_CACHE` repeats answers from
  documents that were replaced.
- An answer that misses a subject, because the load of it lost a race for the cache (`retriever.py` 178-179, 200-201),
  is remembered by `QUERY_CACHE` like any other (382-389) and repeated until the cache is cleared.
- Two overlapping requests, or one list with a repeated mark, leave two attendance rows (`attendance.py` 125);
  `ATTENDANCE_IMPLEMENTATION_SUMMARY.md` 16 says duplicates are prevented.
- `attendance.py` 150 and `marks.py` 160 read the student's name after the commit, which expired it: if that SELECT
  fails, a mark that is stored is answered with 500.
- `query.py` 352, 396: `most_common(1)[0]` is a pair; looking it up in the answer's text
  raises `TypeError`, and an answer that cites a passage ends with status 500, unlogged (`Fail` of `QuestionPipeline`).
- `StudentChat.jsx` 235: an answer that comes after a clear returns to the page and to localStorage; the next
  question starts a session that does not know it. `AuthContext.jsx` 37: a logout leaves the chat to the next user, who
  continues its session, though without its conversation, because the query filters by user. `AuthContext.jsx` 26: a
  login over another user does the same to the open pages of other tabs, which receive the former user's late answers too.
- The total reported after entering marks is that of the request and not of a row that two requests mixed. One
  reader adds the internals whole where the others halve them (`main.py` 283).
- Attempts of a deleted quiz stay and count for the quiz that gets its id. A double click stores two attempts (`Quizzes.jsx` 82), an older
  list that is answered last is shown (97), and overlapping requests of a teacher bring deleted quizzes back to his list and lose
  created ones (`Quizmanager.jsx` 99): `BoardsOK` excepts such lists.
- `profile.py` 117-130: the user is loaded by the session of `query.get_db`, the
  commit is on another session: the new password is not stored.
- `attendance.py` 432: one duplicate address rolls a whole upload of students back.
- `main.py` 752: a blocking call in a coroutine stops the event loop.

llama-server (`server.cpp`):

- `cleanup_pending_task` compares `id_target`, so a cancellation removes other cancellations but never the task that is queued or
  deferred (comment at 1756); that task is launched later and its result dropped.
- `remove_waiting_task_ids` does not purge results although the comment at 1937 says it does. Two kinds of result stay in the
  queue for good (`OrphansKnown`): errors that come after a final result, and whatever was sent for a stream whose client was
  gone before the content provider first ran (4540; `httplib.h` 4796), whose tasks are not cancelled either.
- `server_response::terminate` writes its flag without the mutex; `start_loop` sets `running` and so undoes an earlier `terminate`; the
  signal handler takes a mutex.
- A text held back as a possible stop word is not sent when a streamed completion ends at its limit.
- `id_slot` is not checked: a task for a slot that does not exist is deferred for good.

ggml:

- `ggml-alloc.h` 63 promises "automatic reallocation if the topology changes when using a single buffer", but `needs_realloc`
  compares counts and sizes only: another topology of the same counts keeps the old plan, for which nothing
  protects its tensors (`Planned` in `NothingOverwritten`). A leaf is compared with what the node read in its place, not with the
  leaf of its number, by which it is placed: it may be larger than its place, or have none (`LeafsWithin` in `InsideBuffer`).
- When the buffer cannot be allocated, `ggml_gallocr_reserve_n` returns false with the plan noted (`ggml-alloc.c` 758-761).
  `ggml_backend_sched_alloc_splits` does not look at that (`ggml-backend.cpp` 1395) and asks for the graph again; the plan fits
  now, so the tensors are placed without a buffer and an assertion ends the process, where the caller was to get an error.
- The output flag of a view does not protect the tensor it views; an empty tensor is freed as a block of no size
  inside another; the branch that would reuse a view in place is never taken; a view of operation NONE lowers
  `n_views`, which never counted it.

KV cache:

- `pos_div` records the shift with the sign opposite to `pos_add` (`llama-kv-cells.h` 403-417, comment 427-440): keys are
  rotated away from their position. `Divide` models this; no run takes it, since `AttentionComplete` and `CellsOK` then fail.
  Only examples and `tools/main` call it.
- After a failed ubatch only the first sequence of each token is rolled back (`llama-context.cpp` 1091-1111). The runs fail
  only batches whose tokens have one sequence each.
- `prepare` restores a head from `v_heads_old[s]`, a copy of the heads of all streams, with s the number of the part
  of the ubatch and not its stream (`llama-kv-cache.cpp` 554, 580): a batch for stream 1 alone leaves it with the head of
  stream 0, although line 571 and `llama.h` 858 say that the state is restored. Only where the next search begins depends on it
  (`Restored`; `PrepareTransparent` asks for the same heads when the batch is for the first streams).
- `clear` does not drop copies of streams that are pending; a state saved with a shift or a copy pending holds keys
  that do not fit its positions. The clients of the model update first.
