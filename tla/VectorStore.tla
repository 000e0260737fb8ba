---------------------------- MODULE VectorStore ----------------------------
(***************************************************************************)
(* The document index of one semester directory: the upload handler of     *)
(* backend/main.py and backend/retriever.py.  An upload answers at once    *)
(* and leaves the indexing to a background thread; a search starts one     *)
(* thread per subject directory.  All of them share the files index.faiss  *)
(* and index.pkl of each subject, VECTORSTORE_CACHE and QUERY_CACHE, and   *)
(* no lock is taken anywhere.  A restart loses the caches and the threads  *)
(* and keeps the files.                                                    *)
(*                                                                         *)
(* An index holds the chunks of the one PDF it was built from, so a file,  *)
(* or an index in memory, is named by that document; a search result is    *)
(* its set of sources.  Every indexed chunk passes the score threshold of  *)
(* 0.1: embeddings are normalised, so 1/(1+d) is at least 0.2.             *)
(***************************************************************************)
EXTENDS PyDict

CONSTANTS
  Subjects,        \* subject directories below base_dir
  Docs,            \* the uploads of PDFs, each of a file of its own
  SubjectOf,       \* the subject each of them is uploaded to
  Empty,           \* PDFs of no bytes
  Unreadable,      \* PDFs from which no text can be extracted
  Jobs,            \* background threads that index uploads
  Searchers,       \* requests that search
  Queries,         \* preprocessed questions
  Absent,          \* a file that does not exist
  Garbled,         \* a file that cannot be loaded
  Nothing,         \* no victim, no question, no answer
  MaxCacheSize,    \* MAX_CACHE_SIZE (50 in the code)
  QueryCacheSize   \* QUERY_CACHE_SIZE (1000 in the code)

ASSUME DocsAssumption ==
  SubjectOf \in [Docs -> Subjects] /\ Empty \subseteq Docs /\ Unreadable \subseteq Docs
ASSUME FileAssumption ==
  {Absent, Garbled, Nothing} \cap (Docs \cup Subjects) = {} /\ Absent # Garbled
ASSUME SizesAssumption == MaxCacheSize \in Nat \ {0} /\ QueryCacheSize \in Nat

Loads == Searchers \X Subjects       \* search_subject_index, one per subject
Threads == Jobs \cup Loads
ASSUME ThreadsAssumption == Jobs \cap Loads = {}

\* What a search tells: the question, the sources, and as history the documents
\* that could be found when it was asked and whether QUERY_CACHE was not used.
Answers == [query : Queries, docs : SUBSET Docs, had : SUBSET Docs, fresh : BOOLEAN]
ASSUME NothingAssumption == Nothing \notin Answers /\ \A docs \in SUBSET Docs : docs # Nothing

VARIABLES
  stored,      \* the PDFs saved in the subject directories
  faiss,       \* index.faiss of each subject: the document it was built from
  pkl,         \* index.pkl of each subject
  vcache,      \* VECTORSTORE_CACHE: subject -> the two halves of its index
  qcache,      \* QUERY_CACHE: question -> the sources of the answer
  th,          \* where each thread is, the index it holds, the key it evicts
  search,      \* each request: subjects it waits for, sources found so far
  answer,      \* what each request got last
  published,   \* history: documents whose index.pkl was written
  raced,       \* history: subjects on which threads got in each other's way
  beaten       \* history: the loads of each search under way that were robbed

files == <<stored, faiss, pkl>>
caches == <<vcache, qcache>>
history == <<published, raced, beaten>>
vars == <<files, caches, th, search, answer, history>>

Idle == [pc |-> "idle", dir |-> Nothing, faiss |-> Absent, pkl |-> Absent,
         victim |-> Nothing]
NoSearch == [pc |-> "idle", query |-> Nothing, dirs |-> {}, found |-> {}, had |-> {}]

Init ==
  /\ stored = {} /\ published = {} /\ raced = {} /\ beaten = {}
  /\ faiss = [s \in Subjects |-> Absent]
  /\ pkl = [s \in Subjects |-> Absent]
  /\ vcache = EmptyDict /\ qcache = EmptyDict
  /\ th = [t \in Threads |-> Idle]
  /\ search = [x \in Searchers |-> NoSearch]
  /\ answer = [x \in Searchers |-> Nothing]

At(t, pc) == th[t].pc = pc

\* Thread t goes on at pc.
Goto(t, pc) == th' = [th EXCEPT ![t].pc = pc]

\* The jobs that save, or are about to save, the index of subject s.
Saving == {"faiss", "pkl", "room", "oldest", "pop", "insert"}
Loading == {"readpkl", "room", "oldest", "pop", "insert"}

\* Jobs on s that are past the first write; loads of s past the first read.
JobsOn(s, pcs) == { j \in Jobs : th[j].dir = s /\ th[j].pc \in pcs }
LoadsOn(s, pcs) == { t \in Loads : th[t].dir = s /\ th[t].pc \in pcs }

\* Threads from which others have taken what they are about to use: the entry or the
\* victim they have seen in the cache, or an index.faiss that is being written again.
Robbed ==
  { t \in Threads : \/ At(t, "get") /\ ~Has(vcache, th[t].dir)
                    \/ At(t, "oldest") /\ vcache = EmptyDict
                    \/ At(t, "pop") /\ ~Has(vcache, th[t].victim)
                    \/ At(t, "readfaiss") /\ JobsOn(th[t].dir, {"faiss"}) # {} }

\* Two saves of the subject overlap, or a save and a load, or a save loses its victim.
Overlap(s) ==
  \/ \E j, k \in JobsOn(s, Saving) : j # k
  \/ JobsOn(s, Saving \ {"faiss"}) # {} /\ LoadsOn(s, Loading) # {}
  \/ JobsOn(s, Saving) \cap Robbed # {}
Overlaps == { s \in Subjects : Overlap(s) }
-----------------------------------------------------------------------------
\* POST /upload.  The file is saved; unless it is empty, indexing is left to a
\* background thread and the teacher is told so.  Bound: each element of Docs is
\* uploaded once.
Upload(j, d) ==
  /\ At(j, "idle") /\ d \notin stored
  /\ stored' = stored \cup {d}
  /\ th' = [th EXCEPT ![j] =
       IF d \in Empty THEN Idle
       ELSE [pc |-> "build", dir |-> SubjectOf[d], faiss |-> d, pkl |-> d,
             victim |-> Nothing]]
  /\ UNCHANGED <<faiss, pkl, caches, search, answer, published>>

\* Mutant: the text of the PDF is not checked.
Build_NoTextCheck(j) ==
  /\ At(j, "build")
  /\ Goto(j, "faiss")
  /\ UNCHANGED <<files, caches, search, answer, published>>

\* create_vectorstore up to FAISS.from_documents: the index is built from this
\* PDF alone.  No text, no index.
Build(j) ==
  /\ At(j, "build")
  /\ IF th[j].faiss \in Unreadable THEN th' = [th EXCEPT ![j] = Idle]
                                   ELSE Goto(j, "faiss")
  /\ UNCHANGED <<files, caches, search, answer, published>>

\* db.save_local writes index.faiss and then index.pkl.  Two threads that write
\* the same file at once may leave it unusable.
Written(j, pc) ==
  {th[j].faiss} \cup
    IF JobsOn(th[j].dir, {pc}) = {j} THEN {} ELSE {Garbled}

SaveFaiss(j) ==
  /\ At(j, "faiss")
  /\ \E v \in Written(j, "faiss") : faiss' = [faiss EXCEPT ![th[j].dir] = v]
  /\ Goto(j, "pkl")
  /\ UNCHANGED <<stored, pkl, caches, search, answer, published>>

\* Mutant: an index.pkl that is there already is kept.
SavePkl_Keep(j) ==
  /\ At(j, "pkl")
  /\ pkl' = [pkl EXCEPT ![th[j].dir] = IF @ = Absent THEN th[j].pkl ELSE @]
  /\ published' = published \cup {th[j].pkl}
  /\ Goto(j, "room")
  /\ UNCHANGED <<stored, faiss, caches, search, answer>>

SavePkl(j) ==
  /\ At(j, "pkl")
  /\ \E v \in Written(j, "pkl") : pkl' = [pkl EXCEPT ![th[j].dir] = v]
  /\ published' = published \cup {th[j].pkl}
  /\ Goto(j, "room")
  /\ UNCHANGED <<stored, faiss, caches, search, answer>>
-----------------------------------------------------------------------------
\* Mutant: what the last subject gave replaces what the others gave.
EndLoad_Replace(t, docs) ==
  /\ th' = [th EXCEPT ![t] = Idle]
  /\ search' = [search EXCEPT ![t[1]].dirs = @ \ {t[2]}, ![t[1]].found = docs]

\* The thread of a search is done with its subject: search_multiple_indexes
\* collects the documents it found.
EndLoad(t, docs) ==
  /\ th' = [th EXCEPT ![t] = Idle]
  /\ search' = [search EXCEPT ![t[1]].dirs = @ \ {t[2]},
                              ![t[1]].found = @ \cup docs]

\* An exception ends the thread: create_vectorstore returns False,
\* load_vectorstore returns None and the subject has no matches.
Fail(t) ==
  IF t \in Jobs THEN th' = [th EXCEPT ![t] = Idle] /\ UNCHANGED search
                ELSE EndLoad(t, {})

\* Mutant: an upload leaves the cache alone.
Room_LoadsOnly(t) ==
  /\ At(t, "room")
  /\ th' = [th EXCEPT ![t] =
       IF t \in Jobs THEN Idle
       ELSE [@ EXCEPT !.pc = IF Len(vcache) >= MaxCacheSize THEN "oldest" ELSE "insert"]]
  /\ UNCHANGED <<files, caches, search, answer, published>>

\* A thread that holds an index makes room for it and caches it: the lines
\* 162-165 of create_vectorstore and 200-203 of load_vectorstore.
Room(t) ==
  /\ At(t, "room")
  /\ Goto(t, IF Len(vcache) >= MaxCacheSize THEN "oldest" ELSE "insert")
  /\ UNCHANGED <<files, caches, search, answer, published>>

\* next(iter(VECTORSTORE_CACHE)): StopIteration if it was cleared meanwhile.
Oldest(t) ==
  /\ At(t, "oldest")
  /\ \/ /\ vcache # EmptyDict
        /\ th' = [th EXCEPT ![t].pc = "pop", ![t].victim = OldestKey(vcache)]
        /\ UNCHANGED search
     \/ vcache = EmptyDict /\ Fail(t)
  /\ UNCHANGED <<files, caches, answer, published>>

\* VECTORSTORE_CACHE.pop(key): KeyError if another thread popped it first.
Pop(t) ==
  /\ At(t, "pop")
  /\ \/ /\ Has(vcache, th[t].victim)
        /\ vcache' = Del(vcache, th[t].victim)
        /\ th' = [th EXCEPT ![t].pc = "insert", ![t].victim = Nothing]
        /\ UNCHANGED search
     \/ ~Has(vcache, th[t].victim) /\ Fail(t) /\ UNCHANGED vcache
  /\ UNCHANGED <<files, qcache, answer, published>>

\* Mutant: the entry is appended even if the key is there by now.
Insert_Append(t) ==
  /\ At(t, "insert")
  /\ vcache' = Append(vcache,
       [key |-> th[t].dir, val |-> [faiss |-> th[t].faiss, pkl |-> th[t].pkl]])
  /\ th' = [th EXCEPT ![t] = IF t \in Jobs THEN Idle ELSE [@ EXCEPT !.pc = "query"]]
  /\ UNCHANGED <<files, qcache, search, answer, published>>

\* VECTORSTORE_CACHE[store_dir] = db
Insert(t) ==
  /\ At(t, "insert")
  /\ vcache' = Put(vcache, th[t].dir, [faiss |-> th[t].faiss, pkl |-> th[t].pkl])
  /\ th' = [th EXCEPT ![t] = IF t \in Jobs THEN Idle ELSE [@ EXCEPT !.pc = "query"]]
  /\ UNCHANGED <<files, qcache, search, answer, published>>
-----------------------------------------------------------------------------
\* load_vectorstore: "if store_dir in VECTORSTORE_CACHE", then the lookup,
\* whose KeyError search_subject_index turns into no matches.  The files of a
\* directory that os.walk found are never removed, so index.faiss exists.
Probe(t) ==
  /\ At(t, "probe")
  /\ Goto(t, IF Has(vcache, th[t].dir) THEN "get" ELSE "readfaiss")
  /\ UNCHANGED <<files, caches, search, answer, published>>

\* Mutant: the lookup waits for the entry to come back.
GetCached_Waits(t) ==
  /\ At(t, "get") /\ Has(vcache, th[t].dir)
  /\ th' = [th EXCEPT ![t] = [@ EXCEPT !.pc = "query",
                                      !.faiss = Get(vcache, th[t].dir).faiss,
                                      !.pkl = Get(vcache, th[t].dir).pkl]]
  /\ UNCHANGED <<files, caches, search, answer, published>>

GetCached(t) ==
  /\ At(t, "get")
  /\ \/ /\ Has(vcache, th[t].dir)
        /\ th' = [th EXCEPT ![t] =
             [@ EXCEPT !.pc = "query",
                       !.faiss = Get(vcache, th[t].dir).faiss,
                       !.pkl = Get(vcache, th[t].dir).pkl]]
        /\ UNCHANGED search
     \/ ~Has(vcache, th[t].dir) /\ Fail(t)
  /\ UNCHANGED <<files, caches, answer, published>>

\* FAISS.load_local reads the two files one after the other.  A file that is
\* being written may be read half-way, which raises, as does a garbled one.
Readable(file, t, pc) ==
  {file[th[t].dir]} \cup IF JobsOn(th[t].dir, {pc}) = {} THEN {} ELSE {Garbled}

ReadFaiss(t) ==
  /\ At(t, "readfaiss")
  /\ \E v \in Readable(faiss, t, "faiss") :
       \/ v = Garbled /\ Fail(t)
       \/ /\ v # Garbled
          /\ th' = [th EXCEPT ![t].pc = "readpkl", ![t].faiss = v]
          /\ UNCHANGED search
  /\ UNCHANGED <<files, caches, answer, published>>

ReadPkl(t) ==
  /\ At(t, "readpkl")
  /\ \E v \in Readable(pkl, t, "pkl") :
       \/ v = Garbled /\ Fail(t)
       \/ /\ v # Garbled
          /\ th' = [th EXCEPT ![t].pc = "room", ![t].pkl = v]
          /\ UNCHANGED search
  /\ UNCHANGED <<files, caches, answer, published>>

\* Mutant: the sources of both halves are reported.
Matches_Both(index) == {{index.faiss, index.pkl}}

\* Searching an index whose halves belong together finds its document.  With
\* halves of two documents the ids of index.faiss are looked up in the store
\* of index.pkl: they are missing, which ends in no matches, or they name
\* chunks of the other document.
Matches(index) ==
  IF index.faiss = index.pkl THEN {{index.pkl}} ELSE {{}, {index.pkl}}

Query(t) ==
  /\ At(t, "query")
  /\ \E docs \in Matches([faiss |-> th[t].faiss, pkl |-> th[t].pkl]) : EndLoad(t, docs)
  /\ UNCHANGED <<files, caches, answer, published>>
-----------------------------------------------------------------------------
\* search_multiple_indexes: the query cache first, then every directory that
\* has both files, each searched by a thread.  An answer from the query cache
\* and an answer without any directory are not cached again.
Indexed == { s \in Subjects : faiss[s] # Absent /\ pkl[s] # Absent }

\* History: the documents that are indexed and not about to be replaced.
Settled == { d \in Docs : /\ faiss[SubjectOf[d]] = d /\ pkl[SubjectOf[d]] = d
                          /\ JobsOn(SubjectOf[d], Saving) = {} }

\* History: those of them that a search can still find, no load of it having been robbed
\* on the way to their subject.
Spared(x) == { d \in search[x].had : <<x, SubjectOf[d]>> \notin beaten }

Reply(x, q, docs, had, fresh) ==
  answer' = [answer EXCEPT ![x] =
    [query |-> q, docs |-> docs, had |-> had, fresh |-> fresh]]

Ask(x, q) ==
  /\ search[x].pc = "idle"
  /\ \/ /\ Has(qcache, q)
        /\ Reply(x, q, Get(qcache, q), Settled, FALSE)
        /\ UNCHANGED <<th, search>>
     \/ /\ ~Has(qcache, q) /\ Indexed = {}
        /\ Reply(x, q, {}, Settled, TRUE)
        /\ UNCHANGED <<th, search>>
     \/ /\ ~Has(qcache, q) /\ Indexed # {}
        /\ search' = [search EXCEPT ![x] =
             [pc |-> "wait", query |-> q, dirs |-> Indexed, found |-> {},
              had |-> Settled]]
        /\ th' = [t \in Threads |->
             IF t \in {x} \X Indexed THEN [Idle EXCEPT !.pc = "probe", !.dir = t[2]]
                                     ELSE th[t]]
        /\ UNCHANGED answer
  /\ UNCHANGED <<files, caches, published>>

\* All subjects are searched: "if len(QUERY_CACHE) < QUERY_CACHE_SIZE".
Merge(x) ==
  /\ search[x].pc = "wait" /\ search[x].dirs = {}
  /\ \/ /\ Len(qcache) < QueryCacheSize
        /\ search' = [search EXCEPT ![x].pc = "put"]
        /\ UNCHANGED answer
     \/ /\ Len(qcache) >= QueryCacheSize
        /\ Reply(x, search[x].query, search[x].found, Spared(x), TRUE)
        /\ search' = [search EXCEPT ![x] = NoSearch]
  /\ UNCHANGED <<files, caches, th, published>>

\* QUERY_CACHE[cache_key] = ..., whatever was found, nothing included.
PutAnswer(x) ==
  /\ search[x].pc = "put"
  /\ qcache' = Put(qcache, search[x].query, search[x].found)
  /\ Reply(x, search[x].query, search[x].found, Spared(x), TRUE)
  /\ search' = [search EXCEPT ![x] = NoSearch]
  /\ UNCHANGED <<files, vcache, th, published>>

\* clear_caches, from POST /query/clear-cache.  The two caches are cleared one
\* after the other; no step and no property relates the two, so one step does.
ClearCaches ==
  /\ vcache' = EmptyDict /\ qcache' = EmptyDict
  /\ UNCHANGED <<files, th, search, answer, published>>

\* The process dies and is started again.  A file that was being written may
\* be left unusable.
Cut(file, pc) ==
  { f \in [Subjects -> Docs \cup {Absent, Garbled}] : \A s \in Subjects :
      f[s] \in {file[s]} \cup IF JobsOn(s, {pc}) = {} THEN {} ELSE {Garbled} }

Restart ==
  /\ faiss' \in Cut(faiss, "faiss")
  /\ pkl' \in Cut(pkl, "pkl")
  /\ vcache' = EmptyDict /\ qcache' = EmptyDict
  /\ th' = [t \in Threads |-> Idle]
  /\ search' = [x \in Searchers |-> NoSearch]
  /\ UNCHANGED <<stored, answer, published>>
-----------------------------------------------------------------------------
Job(j) == Build(j) \/ SaveFaiss(j) \/ SavePkl(j)

Load(t) == Probe(t) \/ GetCached(t) \/ ReadFaiss(t) \/ ReadPkl(t) \/ Query(t)

Caching(t) == Room(t) \/ Oldest(t) \/ Pop(t) \/ Insert(t)

\* A robbery of a load is remembered until its search ends.
Remembered ==
  beaten' = { t \in Loads : t \in Robbed' \/ (t \in beaten /\ search'[t[1]].pc # "idle") }

Recorded == raced' = raced \cup Overlaps' /\ Remembered

\* A save that is cut short leaves its subject to chance.
CutShort == raced' = raced \cup { s \in Subjects : JobsOn(s, Saving) # {} } /\ Remembered

JobStep(j) == (Job(j) \/ Caching(j)) /\ Recorded
LoadStep(t) == (Load(t) \/ Caching(t)) /\ Recorded
SearchStep(x) == (Merge(x) \/ PutAnswer(x)) /\ Recorded

Next ==
  \/ \E j \in Jobs : JobStep(j) \/ \E d \in Docs : Upload(j, d) /\ Recorded
  \/ \E t \in Loads : LoadStep(t)
  \/ \E x \in Searchers : SearchStep(x) \/ \E q \in Queries : Ask(x, q) /\ Recorded
  \/ ClearCaches /\ Recorded
  \/ Restart /\ CutShort

Spec == Init /\ [][Next]_vars

\* Threads run to their end, and a request goes on when its threads are done:
\* nothing they call waits for another thread.  Nothing makes teachers upload,
\* students ask or the process restart.
Fairness ==
  /\ \A j \in Jobs : WF_vars(JobStep(j))
  /\ \A t \in Loads : WF_vars(LoadStep(t))
  /\ \A x \in Searchers : WF_vars(SearchStep(x))

FairSpec == Spec /\ Fairness
-----------------------------------------------------------------------------
Files == Docs \cup {Absent, Garbled}

Index == [faiss : Docs, pkl : Docs]

ThreadState ==
  [pc : {"idle", "build", "probe", "get", "readfaiss", "query"} \cup Saving \cup Loading,
   dir : Subjects \cup {Nothing}, faiss : Docs \cup {Absent}, pkl : Docs \cup {Absent},
   victim : Subjects \cup {Nothing}]

TypeOK ==
  /\ stored \subseteq Docs /\ published \subseteq Docs /\ raced \subseteq Subjects /\ beaten \subseteq Loads
  /\ faiss \in [Subjects -> Files] /\ pkl \in [Subjects -> Files]
  /\ vcache \in DictOf(Subjects, Index)
  /\ qcache \in DictOf(Queries, SUBSET Docs)
  /\ th \in [Threads -> ThreadState]
  /\ search \in [Searchers ->
       [pc : {"idle", "wait", "put"}, query : Queries \cup {Nothing},
        dirs : SUBSET Subjects, found : SUBSET Docs, had : SUBSET Docs]]
  /\ answer \in [Searchers -> {Nothing} \cup Answers]

\* The PDFs of subject s that have text and whose index was once published.
Sources(s) == { d \in published \cap stored :
                  SubjectOf[d] = s /\ d \notin Empty \cup Unreadable }
AllSources == UNION { Sources(s) : s \in Subjects }

\* Nobody is shown text of a PDF that was not uploaded, that has no text, or
\* that belongs to another subject: whatever is torn, raced or cut short, the
\* index of a subject, its cached copy and the answers only name readable
\* documents of that subject (retriever.py 102-208, 241-248).
SourcesStored ==
  /\ \A s \in Subjects : pkl[s] \in Sources(s) \cup {Absent, Garbled}
  /\ \A i \in DOMAIN vcache : vcache[i].val.pkl \in Sources(vcache[i].key)
  /\ \A x \in Searchers : answer[x] # Nothing => answer[x].docs \subseteq AllSources

\* As long as no two threads have met on a subject, its cached index is the
\* one on disk: uploads, evictions, clearing and restarts in any order do not
\* separate them (157-165, 197-203).
Coherent ==
  \A i \in DOMAIN vcache : LET s == vcache[i].key IN
    s \notin raced /\ JobsOn(s, Saving \ {"faiss"}) = {} =>
      vcache[i].val = [faiss |-> faiss[s], pkl |-> pkl[s]]

\* As long as no two threads have met on a subject and no restart cut a save
\* short, its two files belong together (159).
PairIntact ==
  \A s \in Subjects \ raced : JobsOn(s, {"pkl"}) = {} => faiss[s] = pkl[s]

\* What is kept, on disk and in memory, fits together.
StoreOK == TypeOK /\ Coherent /\ PairIntact

\* A search that is not answered from QUERY_CACHE finds something in every
\* subject that was indexed when it was asked.  Excepted are subjects whose saves have
\* overlapped with others or with loads, and, in the one answer, a subject whose entry
\* or victim another thread took from the cache after the load had seen it (178-179,
\* 200-201), or whose index.faiss was written again when the load came to read it.  Such
\* a loss costs no match of another subject, nor of a later search (338-350).
FreshAnswersCover ==
  \A x \in Searchers : answer[x] # Nothing /\ answer[x].fresh =>
    \A d \in answer[x].had : SubjectOf[d] \notin raced =>
      \E e \in answer[x].docs : SubjectOf[e] = SubjectOf[d]

\* Every search is answered (or lost with the process), every upload's thread
\* comes to its end, whatever the other threads do to the shared caches.
EverythingEnds ==
  /\ \A j \in Jobs : ~At(j, "idle") ~> At(j, "idle")
  /\ \A x \in Searchers : search[x].pc # "idle" ~> search[x].pc = "idle"

\* What the retriever promises: SearchPromise, with QUERY_CACHE as its memory
\* of answers.
Memory == [q \in Queries |-> IF Has(qcache, q) THEN Get(qcache, q) ELSE Nothing]
Given == [x \in Searchers |->
  IF answer[x] = Nothing THEN Nothing
                         ELSE [query |-> answer[x].query, docs |-> answer[x].docs]]
Promise == INSTANCE SearchPromise WITH memory <- Memory, given <- Given

\* Every step of the retriever is one that the promise allows.
KeepsPromise == Promise!Spec
=============================================================================
