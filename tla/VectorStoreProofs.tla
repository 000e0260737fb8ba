-------------------------- MODULE VectorStoreProofs --------------------------
(***************************************************************************)
(* The document index for any number of subjects, uploads, jobs, searches  *)
(* and restarts, and caches of any size.                                   *)
(*                                                                         *)
(* The argument has three layers, each inductive over the one before.      *)
(* Shape: whatever a thread holds, a file is, a cache keeps or an answer   *)
(* says is what it should be at that place; in particular a half of an     *)
(* index that is about to be cached or searched names a source of its      *)
(* subject, and a search has found at most one document of each subject    *)
(* it no longer waits for.  This needs nothing of timing, and gives        *)
(* SourcesStored and the promise.                                          *)
(* Quiet: threads that meet on a subject put it into raced, so on the      *)
(* others one job saves at a time and nobody loads after its first write   *)
(* (AloneSaving, AloneLoading).  Hence what such a job wrote and such a    *)
(* load read is still on disk when it is cached, which gives StoreOK.      *)
(* Covering: a load of a quiet subject ends with its query, of an index    *)
(* that is whole, unless it was robbed, which the history beaten then      *)
(* says until its search ends; so a search has a match in every subject    *)
(* that it could find and is spared, or is still waiting for it.           *)
(***************************************************************************)
EXTENDS VectorStore, OperatorTheorems

\* Threads that have an index in hand and are about to cache it.
Cached == {"room", "oldest", "pop", "insert"}

JobPlaces == {"idle", "build"} \cup Saving
LoadPlaces == {"idle", "probe", "get", "readfaiss", "query"} \cup Loading

SearchState == [pc : {"idle", "wait", "put"}, query : Queries \cup {Nothing},
                dirs : SUBSET Subjects, found : SUBSET Docs, had : SUBSET Docs]

\* What a job has in hand at each place: its own PDF, not empty, with text once
\* an index was built from it, published once index.pkl was written.
JobOK(j) ==
  /\ th[j].pc \in JobPlaces
  /\ th[j].pc # "idle" =>
       /\ th[j].faiss \in stored \ Empty /\ th[j].pkl = th[j].faiss
       /\ th[j].dir \in Subjects /\ SubjectOf[th[j].faiss] = th[j].dir
  /\ th[j].pc \in Saving => th[j].faiss \notin Unreadable
  /\ th[j].pc \in Cached => th[j].pkl \in published

\* What a load has: its request waits for it, both files exist, and what it has
\* read is a document and one of the subject's sources.
LoadOK(t) ==
  /\ th[t].pc \in LoadPlaces
  /\ th[t].pc # "idle" =>
       /\ th[t].dir = t[2] /\ faiss[t[2]] # Absent /\ pkl[t[2]] # Absent
       /\ search[t[1]].pc = "wait" /\ t[2] \in search[t[1]].dirs
  /\ th[t].pc \in Loading \cup {"query"} => th[t].faiss \in Docs
  /\ th[t].pc \in Cached \cup {"query"} => th[t].pkl \in Sources(t[2])

\* What a search has found is sources, at most one of each subject and none of
\* a subject it still waits for; it goes on when it waits for none.
SearchOK(x) ==
  /\ search[x].pc # "idle" => search[x].query \in Queries
  /\ search[x].pc = "put" => search[x].dirs = {}
  /\ search[x].found \subseteq AllSources
  /\ \A d \in search[x].found : SubjectOf[d] \notin search[x].dirs
  /\ \A d, e \in search[x].found : SubjectOf[d] = SubjectOf[e] => d = e

ThreadsOK ==
  /\ th \in [Threads -> ThreadState] /\ search \in [Searchers -> SearchState]
  /\ \A j \in Jobs : JobOK(j)
  /\ \A t \in Loads : LoadOK(t)
  /\ \A x \in Searchers : SearchOK(x)

FilesOK ==
  /\ stored \subseteq Docs /\ published \subseteq Docs /\ raced \subseteq Subjects
  /\ beaten \subseteq Loads
  /\ faiss \in [Subjects -> Files] /\ pkl \in [Subjects -> Files]
  /\ \A s \in Subjects : pkl[s] \in Sources(s) \cup {Absent, Garbled}

CachesOK ==
  /\ vcache \in DictOf(Subjects, Index) /\ qcache \in DictOf(Queries, SUBSET Docs)
  /\ \A i \in DOMAIN vcache : vcache[i].val.pkl \in Sources(vcache[i].key)
  /\ \A i \in DOMAIN qcache : qcache[i].val \subseteq AllSources

AnswersOK ==
  /\ answer \in [Searchers -> {Nothing} \cup Answers]
  /\ \A x \in Searchers : answer[x] # Nothing => answer[x].docs \subseteq AllSources

\* What every thread, file, cache and answer is, whatever happens.
Shape == ThreadsOK /\ FilesOK /\ CachesOK /\ AnswersOK

\* Shape is the type invariant, and what it says of files and caches is SourcesStored.
LEMMA ShapeSays == Shape => TypeOK /\ SourcesStored
BY DEF Shape, ThreadsOK, FilesOK, CachesOK, AnswersOK, TypeOK, SourcesStored, SearchState

\* Nothing is unlearned: documents stay stored and published, files exist once they do.
Grows ==
  /\ stored \subseteq stored' /\ published \subseteq published'
  /\ \A s \in Subjects : /\ faiss[s] # Absent => faiss'[s] # Absent
                         /\ pkl[s] # Absent => pkl'[s] # Absent

\* A source of a subject stays one when nothing is unstored or unpublished.
LEMMA SourcesGrow ==
  ASSUME Grows
  PROVE  /\ \A s \in Subjects : Sources(s) \subseteq Sources(s)'
         /\ AllSources \subseteq AllSources'
<1>1. \A s \in Subjects : Sources(s) \subseteq Sources(s)'
  BY DEF Grows, Sources
<1>2. AllSources \subseteq AllSources'
  BY <1>1 DEF AllSources
<1> QED BY <1>1, <1>2

\* The sources of a subject are documents, and of that subject.
LEMMA SourcesAreDocs ==
  ASSUME FilesOK
  PROVE  /\ \A s \in Subjects : /\ Sources(s) \subseteq Docs /\ Sources(s) \subseteq AllSources
                                /\ \A d \in Sources(s) : SubjectOf[d] = s
         /\ AllSources \subseteq Docs
         /\ Absent \notin Docs /\ Garbled \notin Docs
BY FileAssumption DEF FilesOK, Sources, AllSources

\* A load is a pair and no job.
LEMMA LoadIsAPair ==
  ASSUME NEW t \in Loads
  PROVE  t[1] \in Searchers /\ t[2] \in Subjects /\ t = <<t[1], t[2]>> /\ t \in Threads /\ t \notin Jobs
BY ThreadsAssumption DEF Loads, Threads

\* A job is a thread and no load.
LEMMA JobIsAThread ==
  ASSUME NEW j \in Jobs
  PROVE  j \in Threads /\ j \notin Loads
BY ThreadsAssumption DEF Threads

\* Initially nothing is there.
LEMMA ShapeInit == Init => Shape
<1> SUFFICES ASSUME Init PROVE Shape
  OBVIOUS
<1>0. \A t \in Threads : th[t] = Idle /\ Idle \in ThreadState
  BY DEF Init, Idle, ThreadState
<1>1. ThreadsOK
  <2>1. th \in [Threads -> ThreadState]
    BY <1>0 DEF Init
  <2>2. NoSearch \in SearchState
    BY DEF NoSearch, SearchState
  <2>3. search \in [Searchers -> SearchState]
    BY <2>2 DEF Init
  <2>4. \A j \in Jobs : JobOK(j)
    BY <1>0, JobIsAThread DEF JobOK, Idle, JobPlaces, Saving, Cached
  <2>5. \A t \in Loads : LoadOK(t)
    BY <1>0, LoadIsAPair DEF LoadOK, Idle, LoadPlaces, Loading, Cached
  <2>6. \A x \in Searchers : SearchOK(x)
    BY DEF Init, SearchOK, NoSearch
  <2> QED BY <2>1, <2>3, <2>4, <2>5, <2>6 DEF ThreadsOK
<1>2. FilesOK
  BY DEF Init, FilesOK, Files
<1>3. CachesOK
  BY EmptyIsADict DEF Init, CachesOK
<1>4. AnswersOK
  BY DEF Init, AnswersOK
<1> QED BY <1>1, <1>2, <1>3, <1>4 DEF Shape
-----------------------------------------------------------------------------
\* A thread that does not move stays as it should be.
LEMMA JobKept ==
  ASSUME NEW j \in Jobs, JobOK(j), Grows, th'[j] = th[j]
  PROVE  JobOK(j)'
BY DEF JobOK, Grows

\* A load that stays where it is stays good while its search waits and files persist.
LEMMA LoadKept ==
  ASSUME NEW t \in Loads, LoadOK(t), Grows, th'[t] = th[t],
         search[t[1]].pc = "wait" /\ t[2] \in search[t[1]].dirs =>
           search'[t[1]].pc = "wait" /\ t[2] \in search'[t[1]].dirs
  PROVE  LoadOK(t)'
<1>1. t[2] \in Subjects
  BY LoadIsAPair
<1>2. Sources(t[2]) \subseteq Sources(t[2])'
  BY <1>1, SourcesGrow
<1>3. /\ faiss[t[2]] # Absent => faiss'[t[2]] # Absent
      /\ pkl[t[2]] # Absent => pkl'[t[2]] # Absent
  BY <1>1 DEF Grows
<1> QED BY <1>2, <1>3 DEF LoadOK

\* A search that stays as it is stays good while the sources grow.
LEMMA SearchKept ==
  ASSUME NEW x \in Searchers, SearchOK(x), Grows, search'[x] = search[x]
  PROVE  SearchOK(x)'
BY SourcesGrow DEF SearchOK

\* One thread moves to a good place.
LEMMA OneMoves ==
  ASSUME ThreadsOK, Grows, UNCHANGED search, NEW t \in Threads, NEW w \in ThreadState,
         th' = [th EXCEPT ![t] = w],
         t \in Jobs => JobOK(t)', t \in Loads => LoadOK(t)'
  PROVE  ThreadsOK'
<1>1. th' \in [Threads -> ThreadState] /\ \A u \in Threads : u # t => th'[u] = th[u]
  BY DEF ThreadsOK
<1>2. ASSUME NEW j \in Jobs PROVE JobOK(j)'
  <2>1. CASE j = t
    BY <2>1
  <2>2. CASE j # t
    BY <1>1, <2>2, JobIsAThread, JobKept DEF ThreadsOK
  <2> QED BY <2>1, <2>2
<1>3. ASSUME NEW u \in Loads PROVE LoadOK(u)'
  <2>1. CASE u = t
    BY <2>1
  <2>2. CASE u # t
    BY <1>1, <2>2, LoadIsAPair, LoadKept DEF ThreadsOK
  <2> QED BY <2>1, <2>2
<1>4. ASSUME NEW x \in Searchers PROVE SearchOK(x)'
  BY SearchKept DEF ThreadsOK
<1> QED BY <1>1, <1>2, <1>3, <1>4 DEF ThreadsOK

\* A load ends with at most one document, of its own subject.
LEMMA OneEnds ==
  ASSUME ThreadsOK, FilesOK, Grows, NEW t \in Loads, th[t].pc # "idle",
         NEW docs \in SUBSET Sources(t[2]), \A d, e \in docs : d = e,
         EndLoad(t, docs)
  PROVE  ThreadsOK'
<1> DEFINE x == t[1]
           s == t[2]
<1>0. x \in Searchers /\ s \in Subjects /\ t = <<x, s>> /\ t \in Threads
  BY LoadIsAPair
<1>1. /\ Idle \in ThreadState /\ Idle.pc = "idle"
      /\ th' = [th EXCEPT ![t] = Idle]
  BY DEF EndLoad, Idle, ThreadState
<1>2. /\ th' \in [Threads -> ThreadState] /\ th'[t] = Idle
      /\ \A u \in Threads : u # t => th'[u] = th[u]
  BY <1>0, <1>1 DEF ThreadsOK
<1>3. /\ docs \subseteq Docs /\ docs \subseteq AllSources /\ \A d \in docs : SubjectOf[d] = s
  BY <1>0, SourcesAreDocs
<1>4. search[x] \in SearchState /\ search[x].pc = "wait" /\ s \in search[x].dirs
  BY <1>0 DEF ThreadsOK, LoadOK
<1>5. search' = [search EXCEPT ![x].dirs = @ \ {s}, ![x].found = @ \cup docs]
  BY DEF EndLoad
<1>6. /\ search'[x].pc = "wait" /\ search'[x].query = search[x].query
      /\ search'[x].dirs = search[x].dirs \ {s} /\ search'[x].found = search[x].found \cup docs
      /\ search'[x] \in SearchState
  <2>1. search'[x] = [search[x] EXCEPT !.dirs = @ \ {s}, !.found = @ \cup docs]
    BY <1>0, <1>5 DEF ThreadsOK
  <2>2. /\ search'[x].pc = "wait" /\ search'[x].query = search[x].query
        /\ search'[x].dirs = search[x].dirs \ {s} /\ search'[x].found = search[x].found \cup docs
    BY <1>4, <2>1 DEF SearchState
  <2>3. search'[x] \in SearchState
    BY <1>3, <1>4, <2>1 DEF SearchState
  <2> QED BY <2>2, <2>3
<1>7. /\ search' \in [Searchers -> SearchState]
      /\ \A y \in Searchers : y # x => search'[y] = search[y]
  BY <1>0, <1>5, <1>6 DEF ThreadsOK
<1> HIDE DEF x, s
<1>8. ASSUME NEW j \in Jobs PROVE JobOK(j)'
  <2>1. j # t /\ j \in Threads
    BY JobIsAThread
  <2> QED BY <1>2, <2>1, JobKept DEF ThreadsOK
<1>9. ASSUME NEW u \in Loads PROVE LoadOK(u)'
  <2>1. CASE u = t
    BY <1>2, <1>1, <2>1 DEF LoadOK, LoadPlaces, Loading, Cached
  <2>2. CASE u # t
    <3>1. u[1] \in Searchers /\ u[2] \in Subjects /\ u = <<u[1], u[2]>> /\ u \in Threads
      BY LoadIsAPair
    <3>2. th'[u] = th[u]
      BY <1>2, <2>2, <3>1
    <3>3. search[u[1]].pc = "wait" /\ u[2] \in search[u[1]].dirs =>
            search'[u[1]].pc = "wait" /\ u[2] \in search'[u[1]].dirs
      <4>1. CASE u[1] = x
        <5>1. u[2] # s
          BY <1>0, <2>2, <3>1, <4>1
        <5> QED BY <1>6, <4>1, <5>1
      <4>2. CASE u[1] # x
        BY <1>7, <3>1, <4>2
      <4> QED BY <4>1, <4>2
    <3> QED BY <3>2, <3>3, LoadKept DEF ThreadsOK
  <2> QED BY <2>1, <2>2
<1>10. ASSUME NEW y \in Searchers PROVE SearchOK(y)'
  <2>1. CASE y # x
    BY <1>7, <2>1, SearchKept DEF ThreadsOK
  <2>2. CASE y = x
    <3>1. SearchOK(x)
      BY <1>0 DEF ThreadsOK
    <3>2. search'[x].query \in Queries
      BY <1>4, <1>6, <3>1 DEF SearchOK
    <3>3. search'[x].found \subseteq AllSources'
      BY <1>3, <1>6, <3>1, SourcesGrow DEF SearchOK
    <3>4. ASSUME NEW d \in search'[x].found PROVE SubjectOf[d] \notin search'[x].dirs
      BY <1>3, <1>6, <3>1 DEF SearchOK
    <3>5. ASSUME NEW d \in search'[x].found, NEW e \in search'[x].found, SubjectOf[d] = SubjectOf[e]
          PROVE  d = e
      BY <1>3, <1>4, <1>6, <3>1, <3>5 DEF SearchOK
    <3> QED BY <1>6, <2>2, <3>2, <3>3, <3>4, <3>5 DEF SearchOK
  <2> QED BY <2>1, <2>2
<1> QED BY <1>2, <1>7, <1>8, <1>9, <1>10 DEF ThreadsOK

\* A thread may fail anywhere.
LEMMA OneFails ==
  ASSUME ThreadsOK, FilesOK, Grows, NEW t \in Threads, th[t].pc # "idle", Fail(t)
  PROVE  ThreadsOK'
<1>1. CASE t \in Jobs
  <2>1. th' = [th EXCEPT ![t] = Idle] /\ UNCHANGED search
    BY <1>1 DEF Fail
  <2>2. Idle \in ThreadState
    BY DEF Idle, ThreadState
  <2>3. th'[t] = Idle
    BY <2>1 DEF ThreadsOK
  <2>4. JobOK(t)'
    BY <2>3 DEF JobOK, Idle, JobPlaces, Saving, Cached
  <2>5. t \notin Loads
    BY <1>1, JobIsAThread
  <2> QED BY <2>1, <2>2, <2>4, <2>5, OneMoves
<1>2. CASE t \notin Jobs
  <2>1. t \in Loads /\ EndLoad(t, {})
    BY <1>2 DEF Fail, Threads
  <2> QED BY <2>1, OneEnds
<1> QED BY <1>1, <1>2
-----------------------------------------------------------------------------
\* The history is of subjects and loads.
LEMMA RacedType ==
  ASSUME ThreadsOK, FilesOK, Recorded
  PROVE  raced' \subseteq Subjects /\ beaten' \subseteq Loads
<1>1. Overlaps' \subseteq Subjects
  BY DEF Overlaps
<1>2. beaten' \subseteq Loads
  BY DEF Recorded, Remembered
<1> QED BY <1>1, <1>2 DEF Recorded, FilesOK

\* What a step leaves alone stays good.
LEMMA FilesKept ==
  ASSUME FilesOK, Grows, UNCHANGED files, published' \subseteq Docs, raced' \subseteq Subjects /\ beaten' \subseteq Loads
  PROVE  FilesOK'
BY SourcesGrow DEF FilesOK, files

\* QUERY_CACHE stays good if it stays as it is and the sources grow.
LEMMA QueryCacheKept ==
  ASSUME CachesOK, Grows, UNCHANGED qcache
  PROVE  /\ qcache' \in DictOf(Queries, SUBSET Docs)
         /\ \A i \in DOMAIN qcache' : qcache'[i].val \subseteq AllSources'
BY SourcesGrow DEF CachesOK

\* So do both caches.
LEMMA CachesKept ==
  ASSUME CachesOK, Grows, UNCHANGED caches
  PROVE  CachesOK'
<1>1. \A i \in DOMAIN vcache : vcache[i].key \in Subjects
  BY ItemTypes DEF CachesOK
<1> QED BY <1>1, QueryCacheKept, SourcesGrow DEF CachesOK, caches

\* And the answers given.
LEMMA AnswersKept ==
  ASSUME AnswersOK, Grows, UNCHANGED answer
  PROVE  AnswersOK'
BY SourcesGrow DEF AnswersOK

\* A step that touches threads and searches only.
LEMMA OnlyThreads ==
  ASSUME Shape, Grows, ThreadsOK', UNCHANGED <<files, caches, answer, published>>, Recorded
  PROVE  Shape'
<1>1. raced' \subseteq Subjects /\ beaten' \subseteq Loads
  BY RacedType DEF Shape
<1>2. FilesOK'
  BY <1>1, FilesKept DEF Shape, FilesOK
<1>3. CachesOK' /\ AnswersOK'
  BY CachesKept, AnswersKept DEF Shape
<1> QED BY <1>2, <1>3 DEF Shape

\* A step that stores and publishes nothing leaves the sources as they were.
LEMMA NothingGrows ==
  ASSUME UNCHANGED <<files, published>>
  PROVE  Grows
BY DEF Grows, files

\* An upload's thread starts with the PDF that was stored.
LEMMA UploadShape ==
  ASSUME Shape, NEW j \in Jobs, NEW d \in Docs, Upload(j, d), Recorded
  PROVE  Shape'
<1>1. Grows
  BY DEF Upload, Grows
<1>2. raced' \subseteq Subjects /\ beaten' \subseteq Loads
  BY RacedType DEF Shape
<1>3. FilesOK'
  BY <1>1, <1>2, SourcesGrow DEF Upload, Shape, FilesOK
<1>4. CachesOK' /\ AnswersOK'
  BY <1>1, CachesKept, AnswersKept DEF Upload, Shape
<1>5. ThreadsOK'
  <2>1. PICK w : /\ w = IF d \in Empty THEN Idle
                        ELSE [pc |-> "build", dir |-> SubjectOf[d], faiss |-> d, pkl |-> d,
                              victim |-> Nothing]
                 /\ th' = [th EXCEPT ![j] = w]
    BY DEF Upload
  <2>2. w \in ThreadState
    BY <2>1, DocsAssumption DEF ThreadState, Idle
  <2>3. th'[j] = w
    BY <2>1, JobIsAThread DEF Shape, ThreadsOK
  <2>4. d \in stored'
    BY DEF Upload
  <2>5. JobOK(j)'
    BY <2>1, <2>3, <2>4, DocsAssumption DEF JobOK, JobPlaces, Saving, Cached, Idle
  <2>6. UNCHANGED search
    BY DEF Upload
  <2> QED BY <1>1, <2>1, <2>2, <2>5, <2>6, JobIsAThread, OneMoves DEF Shape
<1> QED BY <1>3, <1>4, <1>5 DEF Shape

\* An index is built of a PDF with text.
LEMMA BuildShape ==
  ASSUME Shape, NEW j \in Jobs, Build(j), Recorded
  PROVE  Shape'
<1>1. Grows
  BY NothingGrows DEF Build
<1>2. ThreadsOK'
  <2>0. th[j] \in ThreadState /\ th[j].pc = "build" /\ JobOK(j)
    BY JobIsAThread DEF Build, At, Shape, ThreadsOK
  <2>1. PICK w : /\ w = IF th[j].faiss \in Unreadable THEN Idle ELSE [th[j] EXCEPT !.pc = "faiss"]
                 /\ th' = [th EXCEPT ![j] = w]
    BY DEF Build, Goto
  <2>2. w \in ThreadState
    BY <2>0, <2>1 DEF ThreadState, Idle, Saving
  <2>3. th'[j] = w
    BY <2>1, JobIsAThread DEF Shape, ThreadsOK
  <2>4. JobOK(j)'
    <3>1. CASE th[j].faiss \in Unreadable
      BY <2>1, <2>3, <3>1 DEF JobOK, JobPlaces, Saving, Cached, Idle
    <3>2. CASE th[j].faiss \notin Unreadable
      <4>1. /\ th'[j].pc = "faiss" /\ th'[j].faiss = th[j].faiss /\ th'[j].pkl = th[j].pkl
            /\ th'[j].dir = th[j].dir
        BY <2>0, <2>1, <2>3, <3>2 DEF ThreadState
      <4>2. UNCHANGED stored
        BY DEF Build, files
      <4> QED BY <2>0, <3>2, <4>1, <4>2 DEF JobOK, JobPlaces, Saving, Cached
    <3> QED BY <3>1, <3>2
  <2>5. UNCHANGED search
    BY DEF Build
  <2> QED BY <1>1, <2>1, <2>2, <2>4, <2>5, JobIsAThread, OneMoves DEF Shape
<1> QED BY <1>1, <1>2, OnlyThreads DEF Build

\* What a job writes is its document or garbled.
LEMMA SaveFaissShape ==
  ASSUME Shape, NEW j \in Jobs, SaveFaiss(j), Recorded
  PROVE  Shape'
<1>0. th[j] \in ThreadState /\ th[j].pc = "faiss" /\ JobOK(j)
  BY JobIsAThread DEF SaveFaiss, At, Shape, ThreadsOK
<1>1. /\ th[j].dir \in Subjects /\ th[j].faiss \in Docs
  BY <1>0 DEF JobOK, Shape, FilesOK
<1>2. PICK v \in {th[j].faiss, Garbled} : faiss' = [faiss EXCEPT ![th[j].dir] = v]
  BY DEF SaveFaiss, Written
<1>3. v \in Docs \cup {Garbled} /\ v # Absent /\ v \in Files
  BY <1>1, <1>2, FileAssumption DEF Files
<1>4. faiss \in [Subjects -> Files] /\ faiss' \in [Subjects -> Files]
      /\ \A s \in Subjects : faiss[s] # Absent => faiss'[s] # Absent
  BY <1>1, <1>2, <1>3 DEF Shape, FilesOK
<1>5. Grows
  BY <1>4 DEF Grows, SaveFaiss
<1>6. raced' \subseteq Subjects /\ beaten' \subseteq Loads
  BY RacedType DEF Shape
<1>7. FilesOK'
  BY <1>4, <1>5, <1>6, SourcesGrow DEF SaveFaiss, Shape, FilesOK
<1>8. CachesOK' /\ AnswersOK'
  BY <1>5, CachesKept, AnswersKept DEF SaveFaiss, Shape
<1>9. ThreadsOK'
  <2>1. PICK w : w = [th[j] EXCEPT !.pc = "pkl"] /\ th' = [th EXCEPT ![j] = w]
    BY DEF SaveFaiss, Goto
  <2>2. w \in ThreadState
    BY <1>0, <2>1 DEF ThreadState, Saving
  <2>3. /\ th'[j].pc = "pkl" /\ th'[j].faiss = th[j].faiss /\ th'[j].pkl = th[j].pkl
        /\ th'[j].dir = th[j].dir
    BY <1>0, <2>1, JobIsAThread DEF ThreadState, Shape, ThreadsOK
  <2>4. UNCHANGED <<stored, search>>
    BY DEF SaveFaiss
  <2>5. JobOK(j)'
    BY <1>0, <2>3, <2>4 DEF JobOK, JobPlaces, Saving, Cached
  <2> QED BY <1>5, <2>1, <2>2, <2>4, <2>5, JobIsAThread, OneMoves DEF Shape
<1> QED BY <1>7, <1>8, <1>9 DEF Shape

\* Writing index.pkl publishes the document of the job (retriever.py 157-165).
LEMMA SavePklShape ==
  ASSUME Shape, NEW j \in Jobs, SavePkl(j), Recorded
  PROVE  Shape'
<1>0. th[j] \in ThreadState /\ th[j].pc = "pkl" /\ JobOK(j)
  BY JobIsAThread DEF SavePkl, At, Shape, ThreadsOK
<1>1. PICK s \in Subjects : s = th[j].dir
  BY <1>0 DEF JobOK
<1>a. /\ th[j].pkl \in Docs /\ th[j].pkl \in stored /\ th[j].pkl = th[j].faiss
      /\ th[j].pkl \notin Empty \cup Unreadable /\ SubjectOf[th[j].pkl] = s
  BY <1>0, <1>1 DEF JobOK, Shape, FilesOK, Saving
<1>2. PICK v \in {th[j].pkl, Garbled} : pkl' = [pkl EXCEPT ![s] = v]
  BY <1>1, <1>a DEF SavePkl, Written
<1>3. v # Absent /\ v \in Files
  BY <1>a, <1>2, FileAssumption DEF Files
<1>4. pkl \in [Subjects -> Files] /\ pkl' \in [Subjects -> Files]
      /\ \A r \in Subjects : pkl'[r] = IF r = s THEN v ELSE pkl[r]
  BY <1>1, <1>2, <1>3 DEF Shape, FilesOK
<1>5. Grows
  BY <1>3, <1>4 DEF Grows, SavePkl
<1>6. raced' \subseteq Subjects /\ beaten' \subseteq Loads /\ published' \subseteq Docs /\ th[j].pkl \in published'
  BY <1>a, RacedType DEF SavePkl, Shape, FilesOK
<1>7. th[j].pkl \in Sources(s)'
  BY <1>a, <1>6 DEF SavePkl, Sources
<1>8. ASSUME NEW r \in Subjects PROVE pkl'[r] \in Sources(r)' \cup {Absent, Garbled}
  <2>1. CASE r = s
    BY <1>2, <1>4, <1>7, <2>1
  <2>2. CASE r # s
    BY <1>4, <1>5, <2>2, SourcesGrow DEF Shape, FilesOK
  <2> QED BY <2>1, <2>2
<1>9. FilesOK'
  BY <1>4, <1>6, <1>8 DEF SavePkl, Shape, FilesOK
<1>10. CachesOK' /\ AnswersOK'
  BY <1>5, CachesKept, AnswersKept DEF SavePkl, Shape
<1>11. ThreadsOK'
  <2>1. PICK w : w = [th[j] EXCEPT !.pc = "room"] /\ th' = [th EXCEPT ![j] = w]
    BY DEF SavePkl, Goto
  <2>2. w \in ThreadState
    BY <1>0, <2>1 DEF ThreadState, Saving
  <2>3. /\ th'[j].pc = "room" /\ th'[j].faiss = th[j].faiss /\ th'[j].pkl = th[j].pkl
        /\ th'[j].dir = th[j].dir
    BY <1>0, <2>1, JobIsAThread DEF ThreadState, Shape, ThreadsOK
  <2>4. UNCHANGED <<stored, search>>
    BY DEF SavePkl
  <2>5. JobOK(j)'
    BY <1>0, <1>6, <2>3, <2>4 DEF JobOK, JobPlaces, Saving, Cached
  <2> QED BY <1>5, <2>1, <2>2, <2>4, <2>5, JobIsAThread, OneMoves DEF Shape
<1> QED BY <1>9, <1>10, <1>11 DEF Shape
-----------------------------------------------------------------------------
\* A thread that is about to cache an index has one of the subject's.
LEMMA InHand ==
  ASSUME Shape, NEW t \in Threads, th[t].pc \in Cached
  PROVE  /\ th[t] \in ThreadState /\ th[t].pc # "idle" /\ th[t].dir \in Subjects
         /\ th[t].faiss \in Docs /\ th[t].pkl \in Sources(th[t].dir)
<1>0. th[t] \in ThreadState /\ th[t].pc # "idle"
  BY DEF Shape, ThreadsOK, Cached
<1>1. CASE t \in Jobs
  <2>1. JobOK(t) /\ th[t].pc \in Saving
    BY <1>1 DEF Shape, ThreadsOK, Cached, Saving
  <2> QED BY <1>0, <2>1 DEF JobOK, Sources, Shape, FilesOK
<1>2. CASE t \in Loads
  <2>1. LoadOK(t) /\ th[t].pc \in Loading
    BY <1>2 DEF Shape, ThreadsOK, Cached, Loading
  <2> QED BY <1>0, <1>2, <2>1, LoadIsAPair DEF LoadOK
<1> QED BY <1>1, <1>2 DEF Threads

\* It may go on to the next place with the same index.
LEMMA GoesOn ==
  ASSUME Shape, Grows, UNCHANGED search, NEW t \in Threads, th[t].pc \in Cached,
         NEW w \in ThreadState, w.pc \in Cached,
         w.dir = th[t].dir, w.faiss = th[t].faiss, w.pkl = th[t].pkl,
         th' = [th EXCEPT ![t] = w]
  PROVE  ThreadsOK'
<1>0. th'[t] = w
  BY DEF Shape, ThreadsOK
<1>1. ASSUME t \in Jobs PROVE JobOK(t)'
  <2>1. JobOK(t) /\ th[t].pc \in Saving /\ w.pc \in Saving /\ th[t].pc # "idle" /\ w.pc # "idle"
    BY <1>1 DEF Shape, ThreadsOK, Cached, Saving
  <2>2. stored \subseteq stored' /\ published \subseteq published'
    BY DEF Grows
  <2> QED BY <1>0, <2>1, <2>2 DEF JobOK, JobPlaces
<1>2. ASSUME t \in Loads PROVE LoadOK(t)'
  <2>1. LoadOK(t) /\ th[t].pc \in Loading /\ w.pc \in Loading /\ th[t].pc # "idle" /\ w.pc # "idle"
    BY <1>2 DEF Shape, ThreadsOK, Cached, Loading
  <2>2. t[2] \in Subjects /\ Sources(t[2]) \subseteq Sources(t[2])'
    BY <1>2, LoadIsAPair, SourcesGrow
  <2>3. /\ faiss[t[2]] # Absent => faiss'[t[2]] # Absent
        /\ pkl[t[2]] # Absent => pkl'[t[2]] # Absent
    BY <2>2 DEF Grows
  <2> QED BY <1>0, <2>1, <2>2, <2>3 DEF LoadOK, LoadPlaces
<1> QED BY <1>1, <1>2, OneMoves DEF Shape

\* The look at the size of the cache changes only where the thread is.
LEMMA RoomShape ==
  ASSUME Shape, NEW t \in Threads, Room(t), Recorded
  PROVE  Shape'
<1>0. th[t].pc \in Cached
  BY DEF Room, At, Cached
<1>1. Grows
  BY NothingGrows DEF Room
<1>2. ThreadsOK'
  <2>1. PICK w : /\ w = [th[t] EXCEPT !.pc = IF Len(vcache) >= MaxCacheSize THEN "oldest" ELSE "insert"]
                 /\ th' = [th EXCEPT ![t] = w]
    BY DEF Room, Goto
  <2>2. /\ w \in ThreadState /\ w.pc \in Cached /\ w.dir = th[t].dir /\ w.faiss = th[t].faiss
        /\ w.pkl = th[t].pkl
    BY <1>0, <2>1, InHand DEF ThreadState, Cached, Saving
  <2>3. UNCHANGED search
    BY DEF Room
  <2> QED BY <1>0, <1>1, <2>1, <2>2, <2>3, GoesOn
<1> QED BY <1>1, <1>2, OnlyThreads DEF Room

\* The victim a thread chooses is a key of the cache.
LEMMA OldestShape ==
  ASSUME Shape, NEW t \in Threads, Oldest(t), Recorded
  PROVE  Shape'
<1>0. th[t].pc \in Cached
  BY DEF Oldest, At, Cached
<1>1. Grows
  BY NothingGrows DEF Oldest
<1>2. ThreadsOK'
  <2>1. CASE vcache # EmptyDict /\ th' = [th EXCEPT ![t].pc = "pop", ![t].victim = OldestKey(vcache)]
             /\ UNCHANGED search
    <3>1. PICK w : /\ w = [th[t] EXCEPT !.pc = "pop", !.victim = OldestKey(vcache)]
                   /\ th' = [th EXCEPT ![t] = w]
      BY <2>1
    <3>2. OldestKey(vcache) \in Subjects
      BY <2>1, OldestIsAKey DEF Shape, CachesOK
    <3>3. /\ w \in ThreadState /\ w.pc \in Cached /\ w.dir = th[t].dir /\ w.faiss = th[t].faiss
          /\ w.pkl = th[t].pkl
      BY <1>0, <3>1, <3>2, InHand DEF ThreadState, Cached, Saving
    <3> QED BY <1>0, <1>1, <2>1, <3>1, <3>3, GoesOn
  <2>2. CASE Fail(t)
    BY <1>0, <1>1, <2>2, InHand, OneFails DEF Shape
  <2> QED BY <2>1, <2>2 DEF Oldest
<1> QED BY <1>1, <1>2, OnlyThreads DEF Oldest

\* Dropping the victim leaves the rest of the cache good.
LEMMA PopShape ==
  ASSUME Shape, NEW t \in Threads, Pop(t), Recorded
  PROVE  Shape'
<1>0. th[t].pc \in Cached
  BY DEF Pop, At, Cached
<1>1. Grows
  BY NothingGrows DEF Pop
<1>2. CASE ~Has(vcache, th[t].victim)
  <2>1. Fail(t) /\ UNCHANGED vcache
    BY <1>2 DEF Pop
  <2>2. ThreadsOK'
    BY <1>0, <1>1, <2>1, InHand, OneFails DEF Shape
  <2> QED BY <1>1, <2>1, <2>2, OnlyThreads DEF Pop, caches
<1>3. CASE Has(vcache, th[t].victim)
  <2>0. /\ vcache' = Del(vcache, th[t].victim) /\ UNCHANGED search
        /\ th' = [th EXCEPT ![t].pc = "insert", ![t].victim = Nothing]
    BY <1>3 DEF Pop
  <2>1. ThreadsOK'
    <3>1. PICK w : /\ w = [th[t] EXCEPT !.pc = "insert", !.victim = Nothing]
                   /\ th' = [th EXCEPT ![t] = w]
      BY <2>0
    <3>2. /\ w \in ThreadState /\ w.pc \in Cached /\ w.dir = th[t].dir /\ w.faiss = th[t].faiss
          /\ w.pkl = th[t].pkl
      BY <1>0, <3>1, InHand DEF ThreadState, Cached, Saving
    <3> QED BY <1>0, <1>1, <2>0, <3>1, <3>2, GoesOn
  <2>2. raced' \subseteq Subjects /\ beaten' \subseteq Loads
    BY RacedType DEF Shape
  <2>3. FilesOK'
    BY <1>1, <2>2, FilesKept DEF Pop, Shape, FilesOK
  <2>4. AnswersOK'
    BY <1>1, AnswersKept DEF Pop, Shape
  <2>5. CachesOK'
    <3>0. vcache \in DictOf(Subjects, Index)
      BY DEF Shape, CachesOK
    <3>1. /\ vcache' \in DictOf(Subjects, Index)
          /\ \A i \in DOMAIN vcache' : \E k \in DOMAIN vcache : vcache'[i] = vcache[k]
      BY <1>3, <2>0, <3>0, DelItem
    <3>2. \A k \in DOMAIN vcache : vcache[k].key \in Subjects /\ vcache[k].val.pkl \in Sources(vcache[k].key)
      BY <3>0, ItemTypes DEF Shape, CachesOK
    <3>3. ASSUME NEW i \in DOMAIN vcache'
          PROVE  \E r \in Subjects : r = vcache'[i].key /\ vcache'[i].val.pkl \in Sources(r)'
      <4>1. PICK k \in DOMAIN vcache : vcache'[i] = vcache[k]
        BY <3>1
      <4>2. PICK s \in Subjects : s = vcache[k].key /\ vcache[k].val.pkl \in Sources(s)
        BY <3>2
      <4>3. vcache[k].val.pkl \in Sources(s)'
        BY <1>1, <4>2, SourcesGrow
      <4>4. s = vcache'[i].key /\ vcache'[i].val.pkl = vcache[k].val.pkl
        BY <4>1, <4>2
      <4> QED BY <4>3, <4>4
    <3>4. UNCHANGED qcache
      BY DEF Pop
    <3>5. (\A i \in DOMAIN vcache : vcache[i].val.pkl \in Sources(vcache[i].key))'
      BY <3>3 DEF Sources
    <3> QED BY <1>1, <3>1, <3>4, <3>5, QueryCacheKept DEF Shape, CachesOK
  <2> QED BY <2>1, <2>3, <2>4, <2>5 DEF Shape
<1> QED BY <1>2, <1>3

\* What goes into the cache is of the sources.
LEMMA InsertShape ==
  ASSUME Shape, NEW t \in Threads, Insert(t), Recorded
  PROVE  Shape'
<1>0. /\ th[t].pc = "insert" /\ th[t].pc \in Cached /\ th[t] \in ThreadState
      /\ th[t].faiss \in Docs /\ th[t].pkl \in Sources(th[t].dir)
  BY InHand DEF Insert, At, Cached
<1>s. PICK s \in Subjects : s = th[t].dir
  BY <1>0, InHand
<1>1. Grows
  BY NothingGrows DEF Insert
<1>2. ThreadsOK'
  <2>1. PICK w : /\ w = IF t \in Jobs THEN Idle ELSE [th[t] EXCEPT !.pc = "query"]
                 /\ th' = [th EXCEPT ![t] = w]
    BY DEF Insert
  <2>2. w \in ThreadState /\ th'[t] = w
    BY <1>0, <2>1 DEF ThreadState, Idle, Shape, ThreadsOK
  <2>3. ASSUME t \in Jobs PROVE JobOK(t)'
    BY <2>1, <2>2, <2>3 DEF JobOK, Idle, JobPlaces, Saving, Cached
  <2>4. ASSUME t \in Loads PROVE LoadOK(t)'
    <3>1. t \notin Jobs /\ LoadOK(t) /\ t[2] \in Subjects
      BY <2>4, LoadIsAPair DEF Shape, ThreadsOK
    <3>2. /\ th'[t].pc = "query" /\ th'[t].dir = th[t].dir /\ th'[t].faiss = th[t].faiss
          /\ th'[t].pkl = th[t].pkl
      BY <1>0, <2>1, <2>2, <3>1 DEF ThreadState
    <3>3. UNCHANGED <<files, search, published>>
      BY DEF Insert
    <3>4. Sources(t[2]) \subseteq Sources(t[2])'
      BY <1>1, <3>1, SourcesGrow
    <3> QED BY <1>0, <3>1, <3>2, <3>3, <3>4 DEF LoadOK, LoadPlaces, Loading, Cached, files
  <2>5. UNCHANGED search
    BY DEF Insert
  <2> QED BY <1>1, <2>1, <2>2, <2>3, <2>4, <2>5, OneMoves DEF Shape
<1>3. raced' \subseteq Subjects /\ beaten' \subseteq Loads
  BY RacedType DEF Shape
<1>4. FilesOK'
  BY <1>1, <1>3, FilesKept DEF Insert, Shape, FilesOK
<1>5. AnswersOK'
  BY <1>1, AnswersKept DEF Insert, Shape
<1>6. CachesOK'
  <2> DEFINE v == [faiss |-> th[t].faiss, pkl |-> th[t].pkl]
  <2>0. /\ vcache \in DictOf(Subjects, Index) /\ v \in Index /\ v.pkl = th[t].pkl
        /\ vcache' = Put(vcache, s, v)
    BY <1>0, <1>s, SourcesAreDocs DEF Shape, CachesOK, Index, Insert
  <2> HIDE DEF v
  <2>1. /\ vcache' \in DictOf(Subjects, Index)
        /\ \A i \in DOMAIN vcache' :
             \/ vcache'[i] = [key |-> s, val |-> v]
             \/ \E k \in DOMAIN vcache : vcache'[i] = vcache[k]
    BY <2>0, PutItem
  <2>2. \A k \in DOMAIN vcache : vcache[k].key \in Subjects /\ vcache[k].val.pkl \in Sources(vcache[k].key)
    BY <2>0, ItemTypes DEF Shape, CachesOK
  <2>3. ASSUME NEW i \in DOMAIN vcache'
        PROVE  \E r \in Subjects : r = vcache'[i].key /\ vcache'[i].val.pkl \in Sources(r)'
    <3>1. PICK r \in Subjects : r = vcache'[i].key /\ vcache'[i].val.pkl \in Sources(r)
      <4>1. CASE vcache'[i] = [key |-> s, val |-> v]
        <5>1. s = vcache'[i].key /\ vcache'[i].val.pkl = th[t].pkl
          BY <2>0, <4>1
        <5> QED BY <1>0, <1>s, <5>1
      <4>2. CASE \E k \in DOMAIN vcache : vcache'[i] = vcache[k]
        BY <2>2, <4>2
      <4> QED BY <2>1, <4>1, <4>2
    <3> QED BY <1>1, <3>1, SourcesGrow
  <2>4. UNCHANGED qcache
    BY DEF Insert
  <2>5. (\A i \in DOMAIN vcache : vcache[i].val.pkl \in Sources(vcache[i].key))'
    BY <2>3 DEF Sources
  <2> QED BY <1>1, <2>1, <2>4, <2>5, QueryCacheKept DEF Shape, CachesOK
<1> QED BY <1>2, <1>4, <1>5, <1>6 DEF Shape
-----------------------------------------------------------------------------
\* A load that is not idle, and where it may go.
LEMMA LoadFacts ==
  ASSUME Shape, NEW t \in Loads, th[t].pc # "idle"
  PROVE  /\ LoadOK(t) /\ th[t] \in ThreadState /\ th[t].dir = t[2] /\ t[2] \in Subjects
         /\ t \notin Jobs /\ t \in Threads
BY LoadIsAPair DEF Shape, ThreadsOK, LoadOK

\* A step of a load that changes nothing else and leads to w.
LEMMA LoadGoes ==
  ASSUME Shape, Grows, NEW t \in Loads, th[t].pc # "idle", NEW w \in ThreadState,
         th' = [th EXCEPT ![t] = w], UNCHANGED <<files, search, published>>,
         w.pc \in LoadPlaces \ {"idle"}, w.dir = th[t].dir,
         w.pc \in Loading \cup {"query"} => w.faiss \in Docs,
         w.pc \in Cached \cup {"query"} => w.pkl \in Sources(t[2])
  PROVE  ThreadsOK'
<1>1. LoadOK(t) /\ th[t].dir = t[2] /\ t \notin Jobs /\ t \in Threads /\ t[2] \in Subjects
  BY LoadFacts
<1>2. th'[t] = w
  BY <1>1 DEF Shape, ThreadsOK
<1>3. Sources(t[2]) \subseteq Sources(t[2])'
  BY <1>1, SourcesGrow
<1>4. LoadOK(t)'
  BY <1>1, <1>2, <1>3 DEF LoadOK, files
<1> QED BY <1>1, <1>4, OneMoves DEF Shape

\* The look for the files ends the load or goes on with both there.
LEMMA ProbeShape ==
  ASSUME Shape, NEW t \in Loads, Probe(t), Recorded
  PROVE  Shape'
<1>1. Grows
  BY NothingGrows DEF Probe
<1>2. th[t].pc = "probe"
  BY DEF Probe, At
<1>3. PICK w : /\ w = [th[t] EXCEPT !.pc = IF Has(vcache, th[t].dir) THEN "get" ELSE "readfaiss"]
               /\ th' = [th EXCEPT ![t] = w]
  BY DEF Probe, Goto
<1>4. /\ w \in ThreadState /\ w.pc \in LoadPlaces \ {"idle"} /\ w.dir = th[t].dir
      /\ w.pc \notin Loading \cup Cached \cup {"query"}
  BY <1>2, <1>3, LoadFacts DEF ThreadState, LoadPlaces, Loading, Cached
<1>5. ThreadsOK'
  BY <1>1, <1>2, <1>3, <1>4, LoadGoes DEF Probe
<1> QED BY <1>1, <1>5, OnlyThreads DEF Probe

\* A hit hands the load an index of the cache, and so of its subject.
LEMMA GetCachedShape ==
  ASSUME Shape, NEW t \in Loads, GetCached(t), Recorded
  PROVE  Shape'
<1>1. Grows
  BY NothingGrows DEF GetCached
<1>2. th[t].pc = "get" /\ th[t].pc # "idle"
  BY DEF GetCached, At
<1>3. CASE Has(vcache, th[t].dir) /\ UNCHANGED search
  <2> DEFINE c == Get(vcache, th[t].dir)
  <2>1. th' = [th EXCEPT ![t] = [@ EXCEPT !.pc = "query", !.faiss = c.faiss, !.pkl = c.pkl]]
    BY <1>3, <1>2 DEF GetCached
  <2>2. c \in Index /\ c.pkl \in Sources(th[t].dir)
    <3>1. vcache \in DictOf(Subjects, Index)
      BY DEF Shape, CachesOK
    <3>2. /\ c \in Index
          /\ \E i \in DOMAIN vcache : vcache[i].key = th[t].dir /\ vcache[i].val = c
      BY <1>3, <3>1, GetIsAnItem
    <3> QED BY <3>2 DEF Shape, CachesOK
  <2> HIDE DEF c
  <2>3. PICK w : /\ w = [th[t] EXCEPT !.pc = "query", !.faiss = c.faiss, !.pkl = c.pkl]
                 /\ th' = [th EXCEPT ![t] = w]
    BY <2>1
  <2>4. th[t] \in ThreadState /\ th[t].dir = t[2] /\ t[2] \in Subjects
    BY <1>2, LoadFacts
  <2>5. c.faiss \in Docs /\ c.pkl \in Docs
    BY <2>2 DEF Index
  <2>6. /\ w \in ThreadState /\ w.pc = "query" /\ w.dir = th[t].dir
        /\ w.faiss = c.faiss /\ w.pkl = c.pkl
    BY <2>3, <2>4, <2>5 DEF ThreadState
  <2>7. ThreadsOK'
    BY <1>1, <1>2, <1>3, <2>2, <2>3, <2>4, <2>5, <2>6, LoadGoes DEF GetCached, LoadPlaces
  <2> QED BY <1>1, <2>7, OnlyThreads DEF GetCached
<1>4. CASE Fail(t)
  <2>1. ThreadsOK'
    BY <1>1, <1>2, <1>4, LoadIsAPair, OneFails DEF Shape
  <2> QED BY <1>1, <2>1, OnlyThreads DEF GetCached
<1> QED BY <1>3, <1>4 DEF GetCached

\* Reading index.faiss yields a document or ends the load.
LEMMA ReadFaissShape ==
  ASSUME Shape, NEW t \in Loads, ReadFaiss(t), Recorded
  PROVE  Shape'
<1>1. Grows
  BY NothingGrows DEF ReadFaiss
<1>2. th[t].pc = "readfaiss" /\ th[t].pc # "idle"
  BY DEF ReadFaiss, At
<1>3. PICK v \in {faiss[th[t].dir], Garbled} :
        \/ v = Garbled /\ Fail(t)
        \/ /\ v # Garbled
           /\ th' = [th EXCEPT ![t].pc = "readpkl", ![t].faiss = v]
           /\ UNCHANGED search
  BY DEF ReadFaiss, Readable
<1>4. CASE Fail(t)
  <2>1. ThreadsOK'
    BY <1>1, <1>2, <1>4, LoadIsAPair, OneFails DEF Shape
  <2> QED BY <1>1, <2>1, OnlyThreads DEF ReadFaiss
<1>5. CASE /\ v # Garbled /\ UNCHANGED search
           /\ th' = [th EXCEPT ![t].pc = "readpkl", ![t].faiss = v]
  <2>1. LoadOK(t) /\ th[t] \in ThreadState /\ th[t].dir = t[2] /\ t[2] \in Subjects
    BY <1>2, LoadFacts
  <2>2. v \in Docs
    BY <1>2, <1>3, <1>5, <2>1 DEF LoadOK, Shape, FilesOK, Files
  <2>3. PICK w : /\ w = [th[t] EXCEPT !.pc = "readpkl", !.faiss = v]
                 /\ th' = [th EXCEPT ![t] = w]
    BY <1>5
  <2>4. w \in ThreadState /\ w.pc = "readpkl" /\ w.dir = th[t].dir /\ w.faiss = v
    BY <2>1, <2>2, <2>3 DEF ThreadState, Loading
  <2>5. w.pc \in LoadPlaces \ {"idle"} /\ w.pc \notin Cached \cup {"query"}
    BY <2>4 DEF LoadPlaces, Loading, Cached
  <2>6. UNCHANGED <<files, search, published>>
    BY <1>5 DEF ReadFaiss
  <2>7. ThreadsOK'
    BY <1>1, <1>2, <2>2, <2>3, <2>4, <2>5, <2>6, LoadGoes
  <2> QED BY <1>1, <2>7, OnlyThreads DEF ReadFaiss
<1> QED BY <1>3, <1>4, <1>5

\* Reading index.pkl yields a source of the subject or ends the load.
LEMMA ReadPklShape ==
  ASSUME Shape, NEW t \in Loads, ReadPkl(t), Recorded
  PROVE  Shape'
<1>1. Grows
  BY NothingGrows DEF ReadPkl
<1>2. th[t].pc = "readpkl" /\ th[t].pc # "idle"
  BY DEF ReadPkl, At
<1>3. PICK v \in {pkl[th[t].dir], Garbled} :
        \/ v = Garbled /\ Fail(t)
        \/ /\ v # Garbled
           /\ th' = [th EXCEPT ![t].pc = "room", ![t].pkl = v]
           /\ UNCHANGED search
  BY DEF ReadPkl, Readable
<1>4. CASE Fail(t)
  <2>1. ThreadsOK'
    BY <1>1, <1>2, <1>4, LoadIsAPair, OneFails DEF Shape
  <2> QED BY <1>1, <2>1, OnlyThreads DEF ReadPkl
<1>5. CASE /\ v # Garbled /\ UNCHANGED search
           /\ th' = [th EXCEPT ![t].pc = "room", ![t].pkl = v]
  <2>1. LoadOK(t) /\ th[t] \in ThreadState /\ th[t].dir = t[2] /\ t[2] \in Subjects
    BY <1>2, LoadFacts
  <2>2. v \in Sources(t[2]) /\ v \in Docs /\ th[t].faiss \in Docs
    <3>1. v \in Sources(t[2])
      BY <1>2, <1>3, <1>5, <2>1 DEF LoadOK, Shape, FilesOK
    <3> QED BY <1>2, <2>1, <3>1, SourcesAreDocs DEF Shape, LoadOK, Loading
  <2>3. PICK w : /\ w = [th[t] EXCEPT !.pc = "room", !.pkl = v]
                 /\ th' = [th EXCEPT ![t] = w]
    BY <1>5
  <2>4. /\ w \in ThreadState /\ w.pc = "room" /\ w.dir = th[t].dir /\ w.pkl = v
        /\ w.faiss = th[t].faiss
    BY <2>1, <2>2, <2>3 DEF ThreadState, Loading
  <2>5. w.pc \in LoadPlaces \ {"idle"}
    BY <2>4 DEF LoadPlaces, Loading
  <2>6. UNCHANGED <<files, search, published>>
    BY <1>5 DEF ReadPkl
  <2>7. ThreadsOK'
    BY <1>1, <1>2, <2>2, <2>3, <2>4, <2>5, <2>6, LoadGoes
  <2> QED BY <1>1, <2>7, OnlyThreads DEF ReadPkl
<1> QED BY <1>3, <1>4, <1>5

\* What a query reports is nothing or the one document of index.pkl.
LEMMA QueryEnds ==
  ASSUME Shape, NEW t \in Loads, Query(t)
  PROVE  \E docs \in SUBSET Sources(t[2]) :
           /\ EndLoad(t, docs) /\ docs \subseteq {th[t].pkl}
           /\ th[t].faiss = th[t].pkl => docs = {th[t].pkl}
<1>1. th[t].pc = "query" /\ LoadOK(t)
  BY LoadFacts DEF Query, At
<1>2. th[t].pkl \in Sources(t[2])
  BY <1>1 DEF LoadOK
<1>3. PICK docs \in Matches([faiss |-> th[t].faiss, pkl |-> th[t].pkl]) : EndLoad(t, docs)
  BY DEF Query
<1>4. /\ docs \subseteq {th[t].pkl}
      /\ th[t].faiss = th[t].pkl => docs = {th[t].pkl}
  BY <1>3 DEF Matches
<1> QED BY <1>2, <1>3, <1>4

\* The query reports one document or none to the search that waits.
LEMMA QueryShape ==
  ASSUME Shape, NEW t \in Loads, Query(t), Recorded
  PROVE  Shape'
<1>1. Grows
  BY NothingGrows DEF Query
<1>2. PICK docs \in SUBSET Sources(t[2]) : EndLoad(t, docs) /\ docs \subseteq {th[t].pkl}
  BY QueryEnds
<1>3. th[t].pc # "idle"
  BY DEF Query, At
<1>4. ThreadsOK'
  BY <1>1, <1>2, <1>3, OneEnds DEF Shape
<1> QED BY <1>1, <1>4, OnlyThreads DEF Query
-----------------------------------------------------------------------------
\* A request whose searches have ended has no thread left.
LEMMA SearchMoves ==
  ASSUME Shape, UNCHANGED <<files, th, published>>, NEW x \in Searchers, search[x].dirs = {},
         NEW r \in SearchState, search' = [search EXCEPT ![x] = r], SearchOK(x)'
  PROVE  ThreadsOK'
<1>1. Grows
  BY NothingGrows
<1>2. /\ search' \in [Searchers -> SearchState] /\ search'[x] = r
      /\ \A y \in Searchers : y # x => search'[y] = search[y]
  BY DEF Shape, ThreadsOK
<1>3. ASSUME NEW j \in Jobs PROVE JobOK(j)'
  BY <1>1, JobKept DEF Shape, ThreadsOK
<1>4. ASSUME NEW t \in Loads PROVE LoadOK(t)'
  <2>1. t[1] \in Searchers
    BY LoadIsAPair
  <2>2. t[1] = x => ~(t[2] \in search[t[1]].dirs)
    OBVIOUS
  <2>3. t[1] # x => search'[t[1]] = search[t[1]]
    BY <1>2, <2>1
  <2> QED BY <1>1, <2>2, <2>3, LoadKept DEF Shape, ThreadsOK
<1>5. ASSUME NEW y \in Searchers PROVE SearchOK(y)'
  BY <1>1, <1>2, SearchKept DEF Shape, ThreadsOK
<1> QED BY <1>2, <1>3, <1>4, <1>5 DEF Shape, ThreadsOK

\* An answer tells what was found.
LEMMA ReplyOK ==
  ASSUME Shape, Grows, NEW x \in Searchers, NEW q \in Queries, NEW docs \in SUBSET Docs,
         NEW had \in SUBSET Docs, NEW fresh \in BOOLEAN, docs \subseteq AllSources,
         Reply(x, q, docs, had, fresh)
  PROVE  AnswersOK'
<1> DEFINE r == [query |-> q, docs |-> docs, had |-> had, fresh |-> fresh]
<1>1. r \in Answers /\ r.docs = docs
  BY DEF Answers
<1>2. answer' = [answer EXCEPT ![x] = r]
  BY DEF Reply
<1> HIDE DEF r
<1>3. /\ answer' \in [Searchers -> {Nothing} \cup Answers] /\ answer'[x] = r
      /\ \A y \in Searchers : y # x => answer'[y] = answer[y]
  BY <1>1, <1>2 DEF Shape, AnswersOK
<1>4. AllSources \subseteq AllSources'
  BY SourcesGrow
<1>5. ASSUME NEW y \in Searchers, answer'[y] # Nothing PROVE answer'[y].docs \subseteq AllSources'
  BY <1>1, <1>3, <1>4, <1>5 DEF Shape, AnswersOK
<1> QED BY <1>3, <1>5 DEF AnswersOK

\* A search that is under way.
LEMMA SearchFacts ==
  ASSUME Shape, NEW x \in Searchers, search[x].pc # "idle"
  PROVE  /\ SearchOK(x) /\ search[x] \in SearchState /\ search[x].query \in Queries
         /\ search[x].found \in SUBSET Docs /\ search[x].had \in SUBSET Docs
         /\ search[x].found \subseteq AllSources
         /\ search[x].pc = "put" => search[x].dirs = {}
BY DEF Shape, ThreadsOK, SearchOK, SearchState

\* The documents spared are among those there were.
LEMMA SparedAreDocs ==
  ASSUME Shape, NEW x \in Searchers
  PROVE  Spared(x) \in SUBSET Docs
BY DEF Spared, Shape, ThreadsOK, SearchState

\* A search that has not begun is good.
LEMMA NoSearchOK ==
  ASSUME NEW x \in Searchers, search'[x] = NoSearch
  PROVE  SearchOK(x)' /\ NoSearch \in SearchState
BY DEF SearchOK, NoSearch, SearchState

\* Merging the reports answers with what was found, or stores it next.
LEMMA MergeShape ==
  ASSUME Shape, NEW x \in Searchers, Merge(x), Recorded
  PROVE  Shape'
<1>1. Grows
  BY NothingGrows DEF Merge
<1>2. search[x].pc = "wait" /\ search[x].pc # "idle" /\ search[x].dirs = {}
  BY DEF Merge
<1>3. CASE search' = [search EXCEPT ![x].pc = "put"] /\ UNCHANGED answer
  <2>1. PICK r : r = [search[x] EXCEPT !.pc = "put"] /\ search' = [search EXCEPT ![x] = r]
    BY <1>3
  <2>2. /\ r \in SearchState /\ r.query = search[x].query /\ r.dirs = search[x].dirs
        /\ r.found = search[x].found
    BY <1>2, <2>1, SearchFacts DEF SearchState
  <2>3. search'[x] = r
    BY <2>1 DEF Shape, ThreadsOK
  <2>4. SearchOK(x)'
    BY <1>1, <1>2, <2>2, <2>3, SearchFacts, SourcesGrow DEF SearchOK
  <2>5. ThreadsOK'
    BY <1>2, <2>1, <2>2, <2>4, SearchMoves DEF Merge
  <2> QED BY <1>1, <1>3, <2>5, OnlyThreads DEF Merge
<1>4. CASE /\ Reply(x, search[x].query, search[x].found, Spared(x), TRUE)
           /\ search' = [search EXCEPT ![x] = NoSearch]
  <2>1. search'[x] = NoSearch
    BY <1>4 DEF Shape, ThreadsOK
  <2>2. ThreadsOK'
    BY <1>2, <1>4, <2>1, NoSearchOK, SearchMoves DEF Merge
  <2>3. AnswersOK'
    BY <1>1, <1>2, <1>4, SearchFacts, SparedAreDocs, ReplyOK
  <2>4. raced' \subseteq Subjects /\ beaten' \subseteq Loads
    BY RacedType DEF Shape
  <2>5. FilesOK' /\ CachesOK'
    BY <1>1, <2>4, FilesKept, CachesKept DEF Merge, Shape, FilesOK
  <2> QED BY <2>2, <2>3, <2>5 DEF Shape
<1> QED BY <1>3, <1>4 DEF Merge

\* Storing the answer in QUERY_CACHE leaves every cached answer good.
LEMMA PutAnswerShape ==
  ASSUME Shape, NEW x \in Searchers, PutAnswer(x), Recorded
  PROVE  Shape'
<1>1. Grows
  BY NothingGrows DEF PutAnswer
<1>2. search[x].pc = "put" /\ search[x].pc # "idle"
  BY DEF PutAnswer
<1>3. search'[x] = NoSearch
  BY DEF PutAnswer, Shape, ThreadsOK
<1>4. ThreadsOK'
  <2>1. ASSUME NEW j \in Jobs PROVE JobOK(j)'
    BY <1>1, JobKept DEF PutAnswer, Shape, ThreadsOK
  <2>2. ASSUME NEW t \in Loads PROVE LoadOK(t)'
    <3>1. t[1] \in Searchers
      BY LoadIsAPair
    <3>2. t[1] = x => search[t[1]].pc # "wait"
      BY <1>2
    <3>3. t[1] # x => search'[t[1]] = search[t[1]]
      BY <3>1 DEF PutAnswer, Shape, ThreadsOK
    <3>4. th'[t] = th[t]
      BY DEF PutAnswer
    <3> QED BY <1>1, <3>2, <3>3, <3>4, LoadKept DEF Shape, ThreadsOK
  <2>3. ASSUME NEW y \in Searchers PROVE SearchOK(y)'
    <3>1. y # x => search'[y] = search[y]
      BY DEF PutAnswer, Shape, ThreadsOK
    <3> QED BY <1>1, <1>3, <3>1, NoSearchOK, SearchKept DEF Shape, ThreadsOK
  <2>4. search' \in [Searchers -> SearchState] /\ UNCHANGED th
    BY <1>3, NoSearchOK DEF PutAnswer, Shape, ThreadsOK
  <2> QED BY <2>1, <2>2, <2>3, <2>4 DEF Shape, ThreadsOK
<1>5. Reply(x, search[x].query, search[x].found, Spared(x), TRUE)
  BY DEF PutAnswer
<1>6. AnswersOK'
  BY <1>1, <1>2, <1>5, SearchFacts, SparedAreDocs, ReplyOK
<1>7. raced' \subseteq Subjects /\ beaten' \subseteq Loads
  BY RacedType DEF Shape
<1>8. FilesOK'
  BY <1>1, <1>7, FilesKept DEF PutAnswer, Shape, FilesOK
<1>9. CachesOK'
  <2> DEFINE q == search[x].query
             v == search[x].found
  <2>1. /\ qcache \in DictOf(Queries, SUBSET Docs) /\ q \in Queries /\ v \in SUBSET Docs
        /\ v \subseteq AllSources /\ qcache' = Put(qcache, q, v)
    BY <1>2, SearchFacts DEF PutAnswer, Shape, CachesOK
  <2> HIDE DEF q, v
  <2>2. /\ qcache' \in DictOf(Queries, SUBSET Docs)
        /\ \A i \in DOMAIN qcache' :
             \/ qcache'[i] = [key |-> q, val |-> v]
             \/ \E k \in DOMAIN qcache : qcache'[i] = qcache[k]
    BY <2>1, PutItem
  <2>3. AllSources \subseteq AllSources'
    BY <1>1, SourcesGrow
  <2>4. ASSUME NEW i \in DOMAIN qcache' PROVE qcache'[i].val \subseteq AllSources'
    <3>1. qcache'[i].val \subseteq AllSources
      BY <2>1, <2>2 DEF Shape, CachesOK
    <3> QED BY <2>3, <3>1
  <2>5. /\ vcache \in DictOf(Subjects, Index) /\ UNCHANGED <<vcache, stored, published>>
        /\ \A i \in DOMAIN vcache : vcache[i].val.pkl \in Sources(vcache[i].key)
    BY DEF PutAnswer, Shape, CachesOK, files
  <2> QED BY <2>2, <2>4, <2>5 DEF CachesOK, Sources
<1> QED BY <1>4, <1>6, <1>8, <1>9 DEF Shape

\* An answer from the cache was found once; a search starts with nothing found.
LEMMA AskShape ==
  ASSUME Shape, NEW x \in Searchers, NEW q \in Queries, Ask(x, q), Recorded
  PROVE  Shape'
<1>1. Grows
  BY NothingGrows DEF Ask
<1>2. Settled \in SUBSET Docs
  BY DEF Settled
<1>3. raced' \subseteq Subjects /\ beaten' \subseteq Loads
  BY RacedType DEF Shape
<1>4. FilesOK' /\ CachesOK'
  BY <1>1, <1>3, FilesKept, CachesKept DEF Ask, Shape, FilesOK
<1>5. ASSUME UNCHANGED <<th, search>> PROVE ThreadsOK'
  <2>1. \A j \in Jobs : JobOK(j)'
    BY <1>1, <1>5, JobKept DEF Shape, ThreadsOK
  <2>2. \A t \in Loads : LoadOK(t)'
    BY <1>1, <1>5, LoadKept DEF Shape, ThreadsOK
  <2>3. \A y \in Searchers : SearchOK(y)'
    BY <1>1, <1>5, SearchKept DEF Shape, ThreadsOK
  <2> QED BY <1>5, <2>1, <2>2, <2>3 DEF Shape, ThreadsOK
<1>6. CASE Has(qcache, q) /\ Reply(x, q, Get(qcache, q), Settled, FALSE) /\ UNCHANGED <<th, search>>
  <2>1. qcache \in DictOf(Queries, SUBSET Docs)
    BY DEF Shape, CachesOK
  <2>2. /\ Get(qcache, q) \in SUBSET Docs
        /\ \E i \in DOMAIN qcache : qcache[i].key = q /\ qcache[i].val = Get(qcache, q)
    BY <1>6, <2>1, GetIsAnItem
  <2>3. Get(qcache, q) \subseteq AllSources
    BY <2>2 DEF Shape, CachesOK
  <2> DEFINE docs == Get(qcache, q)
  <2>4. Reply(x, q, docs, Settled, FALSE) /\ docs \in SUBSET Docs /\ docs \subseteq AllSources
    BY <1>6, <2>2, <2>3
  <2> HIDE DEF docs
  <2>5. AnswersOK'
    BY <1>1, <1>2, <2>4, ReplyOK
  <2> QED BY <1>4, <1>5, <1>6, <2>5 DEF Shape
<1>7. CASE Reply(x, q, {}, Settled, TRUE) /\ UNCHANGED <<th, search>>
  <2>a. {} \in SUBSET Docs /\ {} \subseteq AllSources
    OBVIOUS
  <2>0. PICK docs \in SUBSET Docs : docs = {} /\ docs \subseteq AllSources
    BY <2>a
  <2>1. AnswersOK'
    BY <1>1, <1>2, <1>7, <2>0, ReplyOK
  <2> QED BY <1>4, <1>5, <1>7, <2>1 DEF Shape
<1>8. CASE /\ search' = [search EXCEPT ![x] =
                [pc |-> "wait", query |-> q, dirs |-> Indexed, found |-> {}, had |-> Settled]]
           /\ th' = [t \in Threads |->
                IF t \in {x} \X Indexed THEN [Idle EXCEPT !.pc = "probe", !.dir = t[2]]
                                        ELSE th[t]]
           /\ UNCHANGED answer /\ search[x].pc = "idle"
  <2>1. Indexed \subseteq Subjects
    BY DEF Indexed
  <2>2. /\ search' \in [Searchers -> SearchState]
        /\ search'[x] = [pc |-> "wait", query |-> q, dirs |-> Indexed, found |-> {}, had |-> Settled]
        /\ \A y \in Searchers : y # x => search'[y] = search[y]
    BY <1>2, <1>8, <2>1 DEF Shape, ThreadsOK, SearchState
  <2>3. \A t \in Threads \ ({x} \X Indexed) : th'[t] = th[t]
    BY <1>8
  <2>4. ASSUME NEW t \in {x} \X Indexed
        PROVE  /\ t \in Threads /\ th'[t] \in ThreadState /\ th'[t].pc = "probe"
               /\ th'[t].dir = t[2] /\ t[1] = x /\ t[2] \in Indexed
    <3>1. t \in Loads /\ t[1] = x /\ t[2] \in Indexed
      BY <2>1 DEF Loads
    <3>2. th'[t] = [Idle EXCEPT !.pc = "probe", !.dir = t[2]]
      BY <1>8, <3>1 DEF Threads
    <3> QED BY <2>1, <3>1, <3>2 DEF Idle, ThreadState, Threads
  <2>5. th' \in [Threads -> ThreadState]
    <3>1. \A t \in Threads : th'[t] \in ThreadState
      BY <2>3, <2>4 DEF Shape, ThreadsOK
    <3> QED BY <1>8, <3>1
  <2>6. ASSUME NEW j \in Jobs PROVE JobOK(j)'
    <3>1. j \notin {x} \X Indexed /\ j \in Threads
      BY <2>1, JobIsAThread DEF Loads
    <3> QED BY <1>1, <2>3, <3>1, JobKept DEF Shape, ThreadsOK
  <2>7. ASSUME NEW t \in Loads PROVE LoadOK(t)'
    <3>0. t[1] \in Searchers /\ t[2] \in Subjects /\ t \in Threads /\ t = <<t[1], t[2]>>
      BY LoadIsAPair
    <3>1. CASE t \in {x} \X Indexed
      <4>1. faiss'[t[2]] # Absent /\ pkl'[t[2]] # Absent
        BY <2>4, <3>1 DEF Indexed, Ask, files
      <4>2. search'[t[1]].pc = "wait" /\ t[2] \in search'[t[1]].dirs
        BY <2>2, <2>4, <3>1
      <4> QED BY <2>4, <3>1, <4>1, <4>2 DEF LoadOK, LoadPlaces, Loading, Cached
    <3>2. CASE t \notin {x} \X Indexed
      <4>1. th'[t] = th[t]
        BY <2>3, <3>0, <3>2
      <4>2. t[1] = x => search[t[1]].pc # "wait"
        BY <1>8
      <4>3. t[1] # x => search'[t[1]] = search[t[1]]
        BY <2>2, <3>0
      <4> QED BY <1>1, <4>1, <4>2, <4>3, LoadKept DEF Shape, ThreadsOK
    <3> QED BY <3>1, <3>2
  <2>8. ASSUME NEW y \in Searchers PROVE SearchOK(y)'
    <3>1. CASE y = x
      BY <2>2, <3>1 DEF SearchOK
    <3>2. CASE y # x
      BY <1>1, <2>2, <3>2, SearchKept DEF Shape, ThreadsOK
    <3> QED BY <3>1, <3>2
  <2>9. ThreadsOK'
    BY <2>2, <2>5, <2>6, <2>7, <2>8 DEF ThreadsOK
  <2>10. AnswersOK'
    BY <1>1, <1>8, AnswersKept DEF Shape
  <2> QED BY <1>4, <2>9, <2>10 DEF Shape
<1> QED BY <1>6, <1>7, <1>8 DEF Ask

\* Clearing both caches leaves nothing to go wrong in them.
LEMMA ClearCachesShape ==
  ASSUME Shape, ClearCaches, Recorded
  PROVE  Shape'
<1>1. Grows
  BY NothingGrows DEF ClearCaches
<1>2. raced' \subseteq Subjects /\ beaten' \subseteq Loads
  BY RacedType DEF Shape
<1>3. FilesOK' /\ AnswersOK'
  BY <1>1, <1>2, FilesKept, AnswersKept DEF ClearCaches, Shape, FilesOK
<1>4. CachesOK'
  BY EmptyIsADict DEF ClearCaches, CachesOK
<1>5. \A j \in Jobs : JobOK(j)'
  BY <1>1, JobKept DEF ClearCaches, Shape, ThreadsOK
<1>6. \A t \in Loads : LoadOK(t)'
  BY <1>1, LoadKept DEF ClearCaches, Shape, ThreadsOK
<1>7. \A y \in Searchers : SearchOK(y)'
  BY <1>1, SearchKept DEF ClearCaches, Shape, ThreadsOK
<1>8. ThreadsOK'
  BY <1>5, <1>6, <1>7 DEF ClearCaches, Shape, ThreadsOK
<1> QED BY <1>3, <1>4, <1>8 DEF Shape

\* A file is as it was or garbled, and nobody runs.
LEMMA RestartShape ==
  ASSUME Shape, Restart, CutShort
  PROVE  Shape'
<1>1. /\ faiss' \in [Subjects -> Files] /\ pkl' \in [Subjects -> Files]
      /\ \A s \in Subjects : faiss'[s] \in {faiss[s], Garbled} /\ pkl'[s] \in {pkl[s], Garbled}
  BY DEF Restart, Cut, Files
<1>2. Grows
  BY <1>1, FileAssumption DEF Grows, Restart
<1>3. FilesOK'
  BY <1>1, <1>2, SourcesGrow DEF Restart, CutShort, Remembered, Shape, FilesOK
<1>4. CachesOK'
  BY EmptyIsADict DEF Restart, CachesOK
<1>5. AnswersOK'
  BY <1>2, AnswersKept DEF Restart, Shape
<1>6. /\ \A t \in Threads : th'[t] = Idle
      /\ \A x \in Searchers : search'[x] = NoSearch
      /\ Idle \in ThreadState /\ NoSearch \in SearchState
  BY DEF Restart, Idle, ThreadState, NoSearch, SearchState
<1>7. \A j \in Jobs : JobOK(j)'
  BY <1>6, JobIsAThread DEF JobOK, Idle, JobPlaces, Saving, Cached
<1>8. \A t \in Loads : LoadOK(t)'
  BY <1>6, LoadIsAPair DEF LoadOK, Idle, LoadPlaces, Loading, Cached
<1>9. \A x \in Searchers : SearchOK(x)'
  BY <1>6, NoSearchOK
<1>10. ThreadsOK'
  BY <1>6, <1>7, <1>8, <1>9 DEF Restart, ThreadsOK
<1> QED BY <1>3, <1>4, <1>5, <1>10 DEF Shape

\* Every step keeps the shape.
LEMMA ShapeStep == Shape /\ [Next]_vars => Shape'
<1> SUFFICES ASSUME Shape, [Next]_vars PROVE Shape'
  OBVIOUS
<1>1. ASSUME NEW j \in Jobs, JobStep(j) PROVE Shape'
  BY <1>1, JobIsAThread, BuildShape, SaveFaissShape, SavePklShape, RoomShape, OldestShape,
     PopShape, InsertShape DEF JobStep, Job, Caching
<1>2. ASSUME NEW j \in Jobs, NEW d \in Docs, Upload(j, d), Recorded PROVE Shape'
  BY <1>2, UploadShape
<1>3. ASSUME NEW t \in Loads, LoadStep(t) PROVE Shape'
  BY <1>3, LoadIsAPair, ProbeShape, GetCachedShape, ReadFaissShape, ReadPklShape, QueryShape,
     RoomShape, OldestShape, PopShape, InsertShape DEF LoadStep, Load, Caching
<1>4. ASSUME NEW x \in Searchers, SearchStep(x) PROVE Shape'
  BY <1>4, MergeShape, PutAnswerShape DEF SearchStep
<1>5. ASSUME NEW x \in Searchers, NEW q \in Queries, Ask(x, q), Recorded PROVE Shape'
  BY <1>5, AskShape
<1>6. ASSUME ClearCaches, Recorded PROVE Shape'
  BY <1>6, ClearCachesShape
<1>7. ASSUME Restart, CutShort PROVE Shape'
  BY <1>7, RestartShape
<1>8. ASSUME UNCHANGED vars PROVE Shape'
  <2>1. UNCHANGED <<files, caches, th, search, answer, published, raced, beaten>>
    BY <1>8 DEF vars, history
  <2>2. Grows
    BY <2>1, NothingGrows
  <2>3. FilesOK' /\ CachesOK' /\ AnswersOK'
    BY <2>1, <2>2, FilesKept, CachesKept, AnswersKept DEF Shape, FilesOK
  <2>4. \A j \in Jobs : JobOK(j)'
    BY <2>1, <2>2, JobKept DEF Shape, ThreadsOK
  <2>5. \A t \in Loads : LoadOK(t)'
    BY <2>1, <2>2, LoadKept DEF Shape, ThreadsOK
  <2>6. \A y \in Searchers : SearchOK(y)'
    BY <2>1, <2>2, SearchKept DEF Shape, ThreadsOK
  <2> QED BY <2>1, <2>3, <2>4, <2>5, <2>6 DEF Shape, ThreadsOK
<1> QED BY <1>1, <1>2, <1>3, <1>4, <1>5, <1>6, <1>7, <1>8 DEF Next
-----------------------------------------------------------------------------
OverlapsRaced == \A s \in Subjects : Overlap(s) => s \in raced

\* Robbed loads are beaten, and robbed jobs are on subjects that are raced for.
RobbedBeaten == \A t \in Robbed : t \in Loads => t \in beaten

\* Without races no file is garbled.
NotGarbled == \A s \in Subjects \ raced : faiss[s] # Garbled /\ pkl[s] # Garbled

\* While a job saves undisturbed, what it has written is what is there.
JobWrote(j) ==
  th[j].pc \in Saving /\ th[j].dir \notin raced =>
    /\ th[j].pc # "faiss" => faiss[th[j].dir] = th[j].faiss
    /\ th[j].pc \in Cached => pkl[th[j].dir] = th[j].pkl

\* While a load is undisturbed, what it has read is what is there, and the
\* index it searches is whole.
LoadRead(t) ==
  th[t].dir \notin raced =>
    /\ th[t].pc \in Loading => th[t].faiss = faiss[th[t].dir]
    /\ th[t].pc \in Cached => th[t].pkl = pkl[th[t].dir]
    /\ th[t].pc = "query" => th[t].faiss = th[t].pkl

CachedWhole ==
  \A i \in DOMAIN vcache : vcache[i].key \notin raced => vcache[i].val.faiss = vcache[i].val.pkl

\* What holds of the subjects on which no threads have met.
Quiet ==
  /\ OverlapsRaced /\ RobbedBeaten /\ NotGarbled
  /\ \A j \in Jobs : JobWrote(j)
  /\ \A t \in Loads : LoadRead(t)
  /\ CachedWhole
  /\ Coherent
  /\ PairIntact

\* Initially every subject is quiet.
LEMMA QuietInit == Init => Quiet
<1> SUFFICES ASSUME Init PROVE Quiet
  OBVIOUS
<1>0. \A t \in Threads : th[t] = Idle
  BY DEF Init
<1>1. \A j \in Jobs : th[j].pc = "idle"
  BY <1>0, JobIsAThread DEF Idle
<1>2. \A t \in Loads : th[t].pc = "idle"
  BY <1>0, LoadIsAPair DEF Idle
<1>3. OverlapsRaced /\ RobbedBeaten /\ NotGarbled
  <2>1. OverlapsRaced
    BY <1>1, <1>2 DEF OverlapsRaced, Overlap, JobsOn, LoadsOn, Saving
  <2>2. RobbedBeaten
    BY <1>2 DEF RobbedBeaten, Robbed, At
  <2>3. NotGarbled
    BY FileAssumption DEF Init, NotGarbled
  <2> QED BY <2>1, <2>2, <2>3
<1>4. \A j \in Jobs : JobWrote(j)
  BY <1>1 DEF JobWrote, Saving
<1>5. \A t \in Loads : LoadRead(t)
  BY <1>2 DEF LoadRead, Loading, Cached
<1>6. CachedWhole /\ Coherent
  BY EmptyIsADict DEF Init, CachedWhole, Coherent
<1>7. PairIntact
  BY DEF Init, PairIntact
<1> QED BY <1>3, <1>4, <1>5, <1>6, <1>7 DEF Quiet

\* A robbery is not forgotten before the search ends.
Remembering == \A t \in beaten : search'[t[1]].pc # "idle" => t \in beaten'

\* The history records overlaps and robberies.
LEMMA RecordedFacts ==
  ASSUME beaten \subseteq Loads, Recorded
  PROVE  raced \subseteq raced' /\ OverlapsRaced' /\ RobbedBeaten' /\ Remembering
<1>1. \A s \in Subjects : Overlap(s)' => s \in Overlaps'
  BY DEF Overlaps
<1>2. raced \subseteq raced' /\ Overlaps' \subseteq raced'
  BY DEF Recorded
<1>3. OverlapsRaced'
  BY <1>1, <1>2 DEF OverlapsRaced
<1>4. RobbedBeaten' /\ Remembering
  BY DEF Recorded, Remembered, RobbedBeaten, Remembering
<1> QED BY <1>2, <1>3, <1>4

\* A job that has lost its victim is on a subject that is raced for.
LEMMA RobbedJob ==
  ASSUME OverlapsRaced, NEW j \in Jobs, j \in Robbed, th[j].dir \in Subjects, th[j].pc \in Saving
  PROVE  th[j].dir \in raced
<1>1. j \in JobsOn(th[j].dir, Saving)
  BY DEF JobsOn
<1> QED BY <1>1 DEF OverlapsRaced, Overlap

\* An undisturbed job is the only one that saves, and nobody loads meanwhile.
LEMMA AloneSaving ==
  ASSUME OverlapsRaced, NEW j \in Jobs, th[j].dir \in Subjects, th[j].dir \notin raced,
         th[j].pc \in Saving
  PROVE  /\ \A k \in Jobs : k # j /\ th[k].dir = th[j].dir => th[k].pc \notin Saving
         /\ th[j].pc # "faiss" =>
              \A t \in Loads : th[t].dir = th[j].dir => th[t].pc \notin Loading
<1> DEFINE s == th[j].dir
<1>1. ~Overlap(s)
  BY DEF OverlapsRaced
<1>2. ASSUME NEW k \in Jobs, k # j, th[k].dir = s, th[k].pc \in Saving PROVE FALSE
  <2>1. j \in JobsOn(s, Saving) /\ k \in JobsOn(s, Saving)
    BY <1>2 DEF JobsOn
  <2> QED BY <1>1, <1>2, <2>1 DEF Overlap
<1>3. ASSUME th[j].pc # "faiss", NEW t \in Loads, th[t].dir = s, th[t].pc \in Loading PROVE FALSE
  <2>1. j \in JobsOn(s, Saving \ {"faiss"}) /\ t \in LoadsOn(s, Loading)
    BY <1>3 DEF JobsOn, LoadsOn
  <2> QED BY <1>1, <2>1 DEF Overlap
<1> QED BY <1>2, <1>3

\* An undisturbed load that has begun has no job saving beside it.
LEMMA AloneLoading ==
  ASSUME OverlapsRaced, NEW t \in Loads, th[t].dir \in Subjects, th[t].dir \notin raced,
         th[t].pc \in Loading
  PROVE  JobsOn(th[t].dir, Saving \ {"faiss"}) = {}
<1> DEFINE s == th[t].dir
<1>1. ~Overlap(s)
  BY DEF OverlapsRaced
<1>2. t \in LoadsOn(s, Loading)
  BY DEF LoadsOn
<1> QED BY <1>1, <1>2 DEF Overlap

\* A step that changes no file and adds nothing to the cache keeps the quiet
\* subjects quiet, if no job that has written a half leaves one.
LEMMA QuietKept ==
  ASSUME beaten \subseteq Loads, Quiet, Recorded, UNCHANGED <<faiss, pkl>>,
         \A i \in DOMAIN vcache' : \E k \in DOMAIN vcache : vcache'[i] = vcache[k],
         \A j \in Jobs :
           /\ th'[j] = th[j] \/ JobWrote(j)'
           /\ th[j].pc \in Saving \ {"faiss"} /\ th[j].dir \notin raced' =>
                th'[j].pc \in Saving \ {"faiss"} /\ th'[j].dir = th[j].dir
           /\ th[j].pc = "pkl" => th'[j] = th[j],
         \A t \in Loads : th'[t] = th[t] \/ LoadRead(t)'
  PROVE  Quiet'
<1>1. raced \subseteq raced' /\ OverlapsRaced' /\ RobbedBeaten'
  BY RecordedFacts DEF Shape, FilesOK
<1>2. ASSUME NEW j \in Jobs PROVE JobWrote(j)'
  <2>1. CASE th'[j] = th[j]
    BY <1>1, <2>1 DEF Quiet, JobWrote
  <2> QED BY <2>1
<1>3. ASSUME NEW t \in Loads PROVE LoadRead(t)'
  <2>1. CASE th'[t] = th[t]
    BY <1>1, <2>1 DEF Quiet, LoadRead
  <2> QED BY <2>1
<1>4. CachedWhole'
  BY <1>1 DEF Quiet, CachedWhole
<1>5. \A s : s \notin raced' /\ JobsOn(s, Saving \ {"faiss"})' = {} => JobsOn(s, Saving \ {"faiss"}) = {}
  BY DEF JobsOn
<1>6. Coherent'
  <2>1. ASSUME NEW i \in DOMAIN vcache', vcache'[i].key \notin raced',
               JobsOn(vcache[i].key, Saving \ {"faiss"})' = {}
        PROVE  vcache'[i].val = [faiss |-> faiss'[vcache'[i].key], pkl |-> pkl'[vcache'[i].key]]
    <3>1. PICK k \in DOMAIN vcache : vcache'[i] = vcache[k]
      OBVIOUS
    <3>2. PICK s : s = vcache'[i].key /\ s = vcache[k].key
      BY <3>1
    <3>3. s \notin raced /\ JobsOn(s, Saving \ {"faiss"}) = {}
      BY <1>1, <1>5, <2>1, <3>2
    <3>4. vcache[k].val = [faiss |-> faiss[s], pkl |-> pkl[s]]
      BY <3>2, <3>3 DEF Quiet, Coherent
    <3> QED BY <3>1, <3>2, <3>4
  <2> QED BY <2>1 DEF Coherent
<1>7. PairIntact'
  <2>1. \A s : JobsOn(s, {"pkl"})' = {} => JobsOn(s, {"pkl"}) = {}
    BY DEF JobsOn
  <2> QED BY <1>1, <2>1 DEF Quiet, PairIntact
<1>8. NotGarbled'
  BY <1>1 DEF Quiet, NotGarbled
<1> QED BY <1>1, <1>2, <1>3, <1>4, <1>6, <1>7, <1>8 DEF Quiet

\* In particular a step of one thread.
LEMMA QuietMove ==
  ASSUME Shape, Quiet, Recorded, UNCHANGED <<faiss, pkl>>,
         \A i \in DOMAIN vcache' : \E k \in DOMAIN vcache : vcache'[i] = vcache[k],
         NEW t \in Threads, NEW w, th' = [th EXCEPT ![t] = w], th[t].pc # "pkl",
         t \in Jobs => /\ JobWrote(t)'
                       /\ th[t].pc \in Saving \ {"faiss"} /\ th[t].dir \notin raced' =>
                            w.pc \in Saving \ {"faiss"} /\ w.dir = th[t].dir,
         t \in Loads => LoadRead(t)'
  PROVE  Quiet'
<1>1. th'[t] = w /\ \A u \in Threads : u # t => th'[u] = th[u]
  BY DEF Shape, ThreadsOK
<1>2. ASSUME NEW j \in Jobs
      PROVE  /\ th'[j] = th[j] \/ JobWrote(j)'
             /\ th[j].pc \in Saving \ {"faiss"} /\ th[j].dir \notin raced' =>
                  th'[j].pc \in Saving \ {"faiss"} /\ th'[j].dir = th[j].dir
             /\ th[j].pc = "pkl" => th'[j] = th[j]
  <2>1. CASE j = t
    BY <1>1, <2>1
  <2>2. CASE j # t
    BY <1>1, <2>2, JobIsAThread
  <2> QED BY <2>1, <2>2
<1>3. ASSUME NEW u \in Loads PROVE th'[u] = th[u] \/ LoadRead(u)'
  BY <1>1, LoadIsAPair
<1> QED BY <1>2, <1>3, QuietKept DEF Shape, FilesOK

\* A thread that fails is recorded.
LEMMA QuietFail ==
  ASSUME Shape, Quiet, Recorded, UNCHANGED <<faiss, pkl, vcache>>,
         NEW t \in Threads, th[t].pc # "idle",
         t \in Jobs => th[t].pc \in {"oldest", "pop"} /\ t \in Robbed,
         th' = [th EXCEPT ![t] = Idle]
  PROVE  Quiet'
<1>1. th'[t] = Idle /\ Idle.pc = "idle"
  BY DEF Shape, ThreadsOK, Idle
<1>2. t \in Jobs => th[t].dir \in raced'
  <2> SUFFICES ASSUME t \in Jobs PROVE th[t].dir \in raced'
    OBVIOUS
  <2>1. th[t].pc \in Saving /\ th[t].dir \in Subjects
    BY DEF Saving, Shape, ThreadsOK, JobOK
  <2> QED BY <2>1, RobbedJob, RecordedFacts DEF Quiet, Shape, FilesOK
<1>3. t \in Jobs => JobWrote(t)'
  BY <1>1 DEF JobWrote, Saving
<1>4. t \in Loads => LoadRead(t)'
  BY <1>1 DEF LoadRead, Loading, Cached
<1>5. th[t].pc # "pkl"
  <2>1. CASE t \in Jobs
    BY <2>1
  <2>2. CASE t \in Loads
    BY <2>2 DEF Shape, ThreadsOK, LoadOK, LoadPlaces, Loading
  <2> QED BY <2>1, <2>2 DEF Threads
<1> QED BY <1>2, <1>3, <1>4, <1>5, QuietMove

\* A thread that fails has ended.
LEMMA FailEnds ==
  ASSUME NEW t, Fail(t)
  PROVE  th' = [th EXCEPT ![t] = Idle]
BY DEF Fail, EndLoad
-----------------------------------------------------------------------------
\* The steps before a job writes.
LEMMA UploadQuiet ==
  ASSUME Shape, Quiet, NEW j \in Jobs, NEW d \in Docs, Upload(j, d), Recorded
  PROVE  Quiet'
<1>1. PICK w : /\ w = IF d \in Empty THEN Idle
                      ELSE [pc |-> "build", dir |-> SubjectOf[d], faiss |-> d, pkl |-> d,
                            victim |-> Nothing]
               /\ th' = [th EXCEPT ![j] = w]
  BY DEF Upload
<1>2. w.pc \in {"idle", "build"}
  BY <1>1 DEF Idle
<1>3. JobWrote(j)'
  BY <1>1, <1>2, JobIsAThread DEF Shape, ThreadsOK, JobWrote, Saving
<1>4. th[j].pc = "idle" /\ th[j].pc \notin Saving /\ UNCHANGED <<faiss, pkl, vcache>>
  BY DEF Upload, At, Saving, caches
<1> QED BY <1>1, <1>3, <1>4, JobIsAThread, QuietMove

\* Building an index touches no file.
LEMMA BuildQuiet ==
  ASSUME Shape, Quiet, NEW j \in Jobs, Build(j), Recorded
  PROVE  Quiet'
<1>0. th[j] \in ThreadState
  BY JobIsAThread DEF Shape, ThreadsOK
<1>1. PICK w : /\ w = IF th[j].faiss \in Unreadable THEN Idle ELSE [th[j] EXCEPT !.pc = "faiss"]
               /\ th' = [th EXCEPT ![j] = w]
  BY DEF Build, Goto
<1>2. w.pc \in {"idle", "faiss"}
  BY <1>0, <1>1 DEF Idle, ThreadState
<1>3. JobWrote(j)'
  BY <1>1, <1>2, JobIsAThread DEF Shape, ThreadsOK, JobWrote, Saving, Cached
<1>4. th[j].pc = "build" /\ th[j].pc \notin Saving /\ UNCHANGED <<faiss, pkl, vcache>>
  BY DEF Build, At, Saving, caches, files
<1> QED BY <1>1, <1>3, <1>4, JobIsAThread, QuietMove

\* The first half is written: nobody else saves this subject, or they have met.
LEMMA SaveFaissQuiet ==
  ASSUME Shape, Shape', Quiet, NEW j \in Jobs, SaveFaiss(j), Recorded
  PROVE  Quiet'
<1>0. th[j] \in ThreadState /\ th[j].pc = "faiss" /\ th[j].pc \in Saving /\ JobOK(j)
  BY JobIsAThread DEF SaveFaiss, At, Shape, ThreadsOK, Saving
<1>s. PICK s \in Subjects : s = th[j].dir
  BY <1>0 DEF JobOK
<1>1. raced \subseteq raced' /\ OverlapsRaced' /\ RobbedBeaten'
  BY RecordedFacts DEF Shape, FilesOK
<1>2. /\ th'[j].pc = "pkl" /\ th'[j].dir = s /\ th'[j].faiss = th[j].faiss
      /\ \A u \in Threads : u # j => th'[u] = th[u]
  BY <1>0, <1>s, JobIsAThread DEF SaveFaiss, Goto, Shape, ThreadsOK, ThreadState
<1>3. UNCHANGED <<pkl, vcache>>
  BY DEF SaveFaiss, caches
<1>4. PICK v \in Written(j, "faiss") : faiss' = [faiss EXCEPT ![s] = v]
  BY <1>s DEF SaveFaiss
<1>5. \A r \in Subjects : r # s => faiss'[r] = faiss[r]
  BY <1>4 DEF Shape, FilesOK
<1>6. ASSUME s \notin raced'
      PROVE  /\ \A k \in Jobs : k # j /\ th'[k].dir = s => th'[k].pc \notin Saving
             /\ \A t \in Loads : th'[t].dir = s => th'[t].pc \notin Loading
             /\ faiss'[s] = th[j].faiss
  <2>1. th'[j].pc \in Saving /\ th'[j].pc # "faiss" /\ th'[j].dir \in Subjects
    BY <1>2 DEF Saving
  <2>2. /\ \A k \in Jobs : k # j /\ th'[k].dir = s => th'[k].pc \notin Saving
        /\ \A t \in Loads : th'[t].dir = s => th'[t].pc \notin Loading
    <3> DEFINE st == th'[j]
    <3>1. (OverlapsRaced /\ th[j].dir \in Subjects /\ th[j].dir \notin raced /\ th[j].pc \in Saving =>
            /\ \A k \in Jobs : k # j /\ th[k].dir = th[j].dir => th[k].pc \notin Saving
            /\ th[j].pc # "faiss" =>
                 \A t \in Loads : th[t].dir = th[j].dir => th[t].pc \notin Loading)'
      BY AloneSaving, PTL
    <3> QED BY <1>1, <1>2, <1>6, <2>1, <3>1
  <2>3. s \notin raced
    BY <1>1, <1>6
  <2>4. \A k \in Jobs : k # j /\ th[k].dir = s => th[k].pc \notin Saving
    BY <1>0, <1>s, <2>3, AloneSaving DEF Quiet
  <2>5. JobsOn(th[j].dir, {"faiss"}) = {j}
    BY <1>0, <1>s, <2>4 DEF JobsOn, Saving
  <2>6. v = th[j].faiss
    BY <1>4, <2>5 DEF Written
  <2> QED BY <1>4, <2>2, <2>6 DEF Shape, FilesOK
<1>7. ASSUME NEW k \in Jobs PROVE JobWrote(k)'
  <2>1. CASE k = j
    BY <1>2, <1>6, <2>1 DEF JobWrote, Cached
  <2>2. CASE k # j
    <3>0. th'[k] = th[k] /\ JobWrote(k) /\ JobOK(k)
      BY <1>2, <2>2, JobIsAThread DEF Quiet, Shape, ThreadsOK
    <3>1. CASE th[k].dir = s
      BY <1>6, <2>2, <3>0, <3>1 DEF JobWrote
    <3>2. CASE th[k].dir # s
      <4>1. th[k].pc \in Saving => th[k].dir \in Subjects
        BY <3>0 DEF JobOK, Saving
      <4> QED BY <1>1, <1>3, <1>5, <3>0, <3>2, <4>1 DEF JobWrote
    <3> QED BY <3>1, <3>2
  <2> QED BY <2>1, <2>2
<1>8. ASSUME NEW t \in Loads PROVE LoadRead(t)'
  <2>0. th'[t] = th[t] /\ LoadRead(t) /\ LoadOK(t) /\ t[2] \in Subjects
    BY <1>2, LoadIsAPair DEF Quiet, Shape, ThreadsOK
  <2>1. CASE th[t].dir = s
    <3>1. th[t].pc \in Cached => th[t].pc \in Loading
      BY DEF Cached, Loading
    <3>2. th[t].dir \notin raced' => th[t].pc \notin Loading
      BY <1>6, <2>0, <2>1
    <3> QED BY <1>1, <2>0, <3>1, <3>2 DEF LoadRead
  <2>2. CASE th[t].dir # s
    <3>1. th[t].pc \in Loading => th[t].dir \in Subjects
      BY <2>0 DEF LoadOK, Loading
    <3> QED BY <1>1, <1>3, <1>5, <2>0, <2>2, <3>1 DEF LoadRead
  <2> QED BY <2>1, <2>2
<1>9. CachedWhole'
  BY <1>1, <1>3 DEF Quiet, CachedWhole
<1>10. \A r : /\ r # s => JobsOn(r, Saving \ {"faiss"})' = JobsOn(r, Saving \ {"faiss"})
              /\ r # s => JobsOn(r, {"pkl"})' = JobsOn(r, {"pkl"})
              /\ j \in JobsOn(s, Saving \ {"faiss"})' /\ j \in JobsOn(s, {"pkl"})'
  <2>1. \A k \in Jobs : k # j => th'[k] = th[k]
    BY <1>2, JobIsAThread
  <2> QED BY <1>0, <1>s, <1>2, <2>1 DEF JobsOn, Saving
<1>11. Coherent'
  <2>1. ASSUME NEW i \in DOMAIN vcache, vcache[i].key \notin raced',
               NEW r, r = vcache[i].key, JobsOn(r, Saving \ {"faiss"})' = {}
        PROVE  vcache[i].val = [faiss |-> faiss'[r], pkl |-> pkl'[r]]
    <3>1. r \in Subjects
      BY <2>1, ItemTypes DEF Shape, CachesOK
    <3>2. r # s
      BY <1>10, <2>1
    <3>3. JobsOn(r, Saving \ {"faiss"}) = {} /\ r \notin raced
      BY <1>1, <1>10, <2>1, <3>2
    <3>4. vcache[i].val = [faiss |-> faiss[r], pkl |-> pkl[r]]
      BY <2>1, <3>3 DEF Quiet, Coherent
    <3> QED BY <1>3, <1>5, <3>1, <3>2, <3>4
  <2> QED BY <1>3, <2>1 DEF Coherent, JobsOn
<1>12. PairIntact'
  <2>1. ASSUME NEW r \in Subjects, r \notin raced', JobsOn(r, {"pkl"})' = {}
        PROVE  faiss'[r] = pkl'[r]
    <3>1. r # s
      BY <1>10, <2>1
    <3>2. r \notin raced /\ JobsOn(r, {"pkl"}) = {}
      BY <1>1, <1>10, <2>1, <3>1
    <3>3. faiss[r] = pkl[r]
      BY <3>2 DEF Quiet, PairIntact
    <3> QED BY <1>3, <1>5, <3>1, <3>3
  <2> QED BY <2>1 DEF PairIntact
<1>13. NotGarbled'
  <2>1. th[j].faiss \in Docs /\ th[j].faiss # Garbled
    BY <1>0, FileAssumption DEF JobOK, Shape, FilesOK
  <2>2. ASSUME NEW r \in Subjects, r \notin raced' PROVE faiss'[r] # Garbled /\ pkl'[r] # Garbled
    <3>1. faiss[r] # Garbled /\ pkl[r] # Garbled
      BY <1>1, <2>2 DEF Quiet, NotGarbled
    <3> QED BY <1>3, <1>5, <1>6, <2>1, <2>2, <3>1
  <2> QED BY <2>2 DEF NotGarbled
<1> QED BY <1>1, <1>7, <1>8, <1>9, <1>11, <1>12, <1>13 DEF Quiet

\* The second half is written: the pair is whole again.
LEMMA SavePklQuiet ==
  ASSUME Shape, Quiet, NEW j \in Jobs, SavePkl(j), Recorded
  PROVE  Quiet'
<1>0. /\ th[j] \in ThreadState /\ th[j].pc = "pkl" /\ th[j].pc \in Saving /\ th[j].pc # "faiss"
      /\ JobOK(j)
  BY JobIsAThread DEF SavePkl, At, Shape, ThreadsOK, Saving
<1>s. PICK s \in Subjects : s = th[j].dir
  BY <1>0 DEF JobOK
<1>1. raced \subseteq raced' /\ OverlapsRaced' /\ RobbedBeaten'
  BY RecordedFacts DEF Shape, FilesOK
<1>2. /\ th'[j].pc = "room" /\ th'[j].dir = s /\ th'[j].faiss = th[j].faiss
      /\ th'[j].pkl = th[j].faiss /\ th[j].pkl = th[j].faiss
      /\ \A u \in Threads : u # j => th'[u] = th[u]
  BY <1>0, <1>s, JobIsAThread DEF SavePkl, Goto, Shape, ThreadsOK, ThreadState, JobOK
<1>3. UNCHANGED <<faiss, vcache>>
  BY DEF SavePkl, caches
<1>4. PICK v \in Written(j, "pkl") : pkl' = [pkl EXCEPT ![s] = v]
  BY <1>s DEF SavePkl
<1>5. \A r \in Subjects : r # s => pkl'[r] = pkl[r]
  BY <1>4 DEF Shape, FilesOK
<1>6. ASSUME s \notin raced'
      PROVE  /\ \A k \in Jobs : k # j /\ th[k].dir = s => th[k].pc \notin Saving
             /\ \A t \in Loads : th[t].dir = s => th[t].pc \notin Loading
             /\ pkl'[s] = th[j].faiss /\ faiss'[s] = th[j].faiss
  <2>1. s \notin raced
    BY <1>1, <1>6
  <2>2. /\ \A k \in Jobs : k # j /\ th[k].dir = s => th[k].pc \notin Saving
        /\ \A t \in Loads : th[t].dir = s => th[t].pc \notin Loading
    BY <1>0, <1>s, <2>1, AloneSaving DEF Quiet
  <2>3. JobsOn(th[j].dir, {"pkl"}) = {j}
    BY <1>0, <1>s, <2>2 DEF JobsOn, Saving
  <2>4. v = th[j].faiss
    BY <1>4, <2>3 DEF Written
  <2>5. faiss[s] = th[j].faiss
    BY <1>0, <1>s, <2>1 DEF Quiet, JobWrote
  <2> QED BY <1>3, <1>4, <2>2, <2>4, <2>5 DEF Shape, FilesOK
<1>7. ASSUME NEW k \in Jobs PROVE JobWrote(k)'
  <2>1. CASE k = j
    BY <1>2, <1>6, <2>1 DEF JobWrote
  <2>2. CASE k # j
    <3>0. th'[k] = th[k] /\ JobWrote(k) /\ JobOK(k)
      BY <1>2, <2>2, JobIsAThread DEF Quiet, Shape, ThreadsOK
    <3>1. CASE th[k].dir = s
      BY <1>6, <2>2, <3>0, <3>1 DEF JobWrote
    <3>2. CASE th[k].dir # s
      <4>1. th[k].pc \in Saving => th[k].dir \in Subjects
        BY <3>0 DEF JobOK, Saving
      <4> QED BY <1>1, <1>3, <1>5, <3>0, <3>2, <4>1 DEF JobWrote
    <3> QED BY <3>1, <3>2
  <2> QED BY <2>1, <2>2
<1>8. ASSUME NEW t \in Loads PROVE LoadRead(t)'
  <2>0. th'[t] = th[t] /\ LoadRead(t) /\ LoadOK(t) /\ t[2] \in Subjects
    BY <1>2, LoadIsAPair DEF Quiet, Shape, ThreadsOK
  <2>a. th[t].pc \in Cached => th[t].pc \in Loading
    BY DEF Cached, Loading
  <2>1. CASE th[t].dir = s
    <3>2. th[t].dir \notin raced' => th[t].pc \notin Loading
      BY <1>6, <2>0, <2>1
    <3> QED BY <1>1, <2>0, <2>a, <3>2 DEF LoadRead
  <2>2. CASE th[t].dir # s
    <3>1. th[t].pc \in Loading => th[t].dir \in Subjects
      BY <2>0 DEF LoadOK, Loading
    <3> QED BY <1>1, <1>3, <1>5, <2>0, <2>2, <2>a, <3>1 DEF LoadRead
  <2> QED BY <2>1, <2>2
<1>9. CachedWhole'
  BY <1>1, <1>3 DEF Quiet, CachedWhole
<1>10. \A r : /\ r # s => JobsOn(r, Saving \ {"faiss"})' = JobsOn(r, Saving \ {"faiss"})
              /\ r # s => JobsOn(r, {"pkl"})' = JobsOn(r, {"pkl"})
              /\ j \in JobsOn(s, Saving \ {"faiss"})'
  <2>1. \A k \in Jobs : k # j => th'[k] = th[k]
    BY <1>2, JobIsAThread
  <2> QED BY <1>0, <1>s, <1>2, <2>1 DEF JobsOn, Saving
<1>11. Coherent'
  <2>1. ASSUME NEW i \in DOMAIN vcache, vcache[i].key \notin raced',
               NEW r, r = vcache[i].key, JobsOn(r, Saving \ {"faiss"})' = {}
        PROVE  vcache[i].val = [faiss |-> faiss'[r], pkl |-> pkl'[r]]
    <3>1. r \in Subjects
      BY <2>1, ItemTypes DEF Shape, CachesOK
    <3>2. r # s
      BY <1>10, <2>1
    <3>3. JobsOn(r, Saving \ {"faiss"}) = {} /\ r \notin raced
      BY <1>1, <1>10, <2>1, <3>2
    <3>4. vcache[i].val = [faiss |-> faiss[r], pkl |-> pkl[r]]
      BY <2>1, <3>3 DEF Quiet, Coherent
    <3> QED BY <1>3, <1>5, <3>1, <3>2, <3>4
  <2> QED BY <1>3, <2>1 DEF Coherent, JobsOn
<1>12. PairIntact'
  <2>1. ASSUME NEW r \in Subjects, r \notin raced', JobsOn(r, {"pkl"})' = {}
        PROVE  faiss'[r] = pkl'[r]
    <3>1. CASE r = s
      BY <1>6, <2>1, <3>1
    <3>2. CASE r # s
      <4>2. r \notin raced /\ JobsOn(r, {"pkl"}) = {}
        BY <1>1, <1>10, <2>1, <3>2
      <4>3. faiss[r] = pkl[r]
        BY <4>2 DEF Quiet, PairIntact
      <4> QED BY <1>3, <1>5, <3>2, <4>3
    <3> QED BY <3>1, <3>2
  <2> QED BY <2>1 DEF PairIntact
<1>13. NotGarbled'
  <2>1. th[j].faiss \in Docs /\ th[j].faiss # Garbled
    BY <1>0, FileAssumption DEF JobOK, Shape, FilesOK
  <2>2. ASSUME NEW r \in Subjects, r \notin raced' PROVE faiss'[r] # Garbled /\ pkl'[r] # Garbled
    <3>1. faiss[r] # Garbled /\ pkl[r] # Garbled
      BY <1>1, <2>2 DEF Quiet, NotGarbled
    <3> QED BY <1>3, <1>5, <1>6, <2>1, <2>2, <3>1
  <2> QED BY <2>2 DEF NotGarbled
<1> QED BY <1>1, <1>7, <1>8, <1>9, <1>11, <1>12, <1>13 DEF Quiet
-----------------------------------------------------------------------------
\* A thread on its way to the cache, with its index still in hand.
LEMMA QuietGoesOn ==
  ASSUME Shape, Quiet, Recorded, UNCHANGED <<faiss, pkl>>,
         \A i \in DOMAIN vcache' : \E k \in DOMAIN vcache : vcache'[i] = vcache[k],
         NEW t \in Threads, th[t].pc \in Cached,
         NEW w, w.pc \in Cached, w.dir = th[t].dir, w.faiss = th[t].faiss, w.pkl = th[t].pkl,
         th' = [th EXCEPT ![t] = w]
  PROVE  Quiet'
<1>1. th'[t] = w
  BY DEF Shape, ThreadsOK
<1>2. raced \subseteq raced'
  BY RecordedFacts DEF Shape, FilesOK
<1>3. /\ th[t].pc \in Saving \ {"faiss"} /\ th[t].pc \in Loading /\ th[t].pc \notin {"pkl", "query"}
      /\ w.pc \in Saving \ {"faiss"} /\ w.pc \in Loading /\ w.pc # "query"
  BY DEF Cached, Saving, Loading
<1>4. t \in Jobs => JobWrote(t)'
  BY <1>1, <1>2, <1>3 DEF Quiet, JobWrote
<1>5. t \in Loads => LoadRead(t)'
  BY <1>1, <1>2, <1>3 DEF Quiet, LoadRead
<1> QED BY <1>1, <1>3, <1>4, <1>5, QuietMove

\* A cache that is the same dict has the same items.
LEMMA SameItems ==
  ASSUME UNCHANGED vcache
  PROVE  \A i \in DOMAIN vcache' : \E k \in DOMAIN vcache : vcache'[i] = vcache[k]
OBVIOUS

\* Looking at the size leaves the index in hand.
LEMMA RoomQuiet ==
  ASSUME Shape, Quiet, NEW t \in Threads, Room(t), Recorded
  PROVE  Quiet'
<1>0. th[t].pc \in Cached
  BY DEF Room, At, Cached
<1>1. PICK w : /\ w = [th[t] EXCEPT !.pc = IF Len(vcache) >= MaxCacheSize THEN "oldest" ELSE "insert"]
               /\ th' = [th EXCEPT ![t] = w]
  BY DEF Room, Goto
<1>2. w.pc \in Cached /\ w.dir = th[t].dir /\ w.faiss = th[t].faiss /\ w.pkl = th[t].pkl
  BY <1>0, <1>1, InHand DEF ThreadState, Cached
<1>3. UNCHANGED <<faiss, pkl, vcache>>
  BY DEF Room, files, caches
<1> QED BY <1>0, <1>1, <1>2, <1>3, SameItems, QuietGoesOn

\* So does choosing the victim.
LEMMA OldestQuiet ==
  ASSUME Shape, Quiet, NEW t \in Threads, Oldest(t), Recorded
  PROVE  Quiet'
<1>0. th[t].pc \in Cached /\ th[t].pc = "oldest"
  BY DEF Oldest, At, Cached
<1>1. UNCHANGED <<faiss, pkl, vcache>>
  BY DEF Oldest, files, caches
<1>2. CASE th' = [th EXCEPT ![t].pc = "pop", ![t].victim = OldestKey(vcache)]
  <2>1. PICK w : /\ w = [th[t] EXCEPT !.pc = "pop", !.victim = OldestKey(vcache)]
                 /\ th' = [th EXCEPT ![t] = w]
    BY <1>2
  <2>2. w.pc \in Cached /\ w.dir = th[t].dir /\ w.faiss = th[t].faiss /\ w.pkl = th[t].pkl
    BY <1>0, <2>1, InHand DEF ThreadState, Cached
  <2> QED BY <1>0, <1>1, <2>1, <2>2, SameItems, QuietGoesOn
<1>3. CASE vcache = EmptyDict /\ Fail(t)
  BY <1>0, <1>1, <1>3, FailEnds, QuietFail DEF Robbed, At
<1> QED BY <1>2, <1>3 DEF Oldest

\* Dropping an entry leaves the others equal to what is on disk.
LEMMA PopQuiet ==
  ASSUME Shape, Quiet, NEW t \in Threads, Pop(t), Recorded
  PROVE  Quiet'
<1>0. th[t].pc \in Cached /\ th[t].pc = "pop"
  BY DEF Pop, At, Cached
<1>1. UNCHANGED <<faiss, pkl>>
  BY DEF Pop, files
<1>2. CASE /\ Has(vcache, th[t].victim) /\ vcache' = Del(vcache, th[t].victim)
           /\ th' = [th EXCEPT ![t].pc = "insert", ![t].victim = Nothing]
  <2>1. PICK w : /\ w = [th[t] EXCEPT !.pc = "insert", !.victim = Nothing]
                 /\ th' = [th EXCEPT ![t] = w]
    BY <1>2
  <2>2. w.pc \in Cached /\ w.dir = th[t].dir /\ w.faiss = th[t].faiss /\ w.pkl = th[t].pkl
    BY <1>0, <2>1, InHand DEF ThreadState, Cached
  <2>3. vcache \in DictOf(Subjects, Index)
    BY DEF Shape, CachesOK
  <2>4. \A i \in DOMAIN vcache' : \E k \in DOMAIN vcache : vcache'[i] = vcache[k]
    BY <1>2, <2>3, DelItem
  <2> QED BY <1>0, <1>1, <2>1, <2>2, <2>4, QuietGoesOn
<1>3. CASE ~Has(vcache, th[t].victim) /\ Fail(t) /\ UNCHANGED vcache
  BY <1>0, <1>1, <1>3, FailEnds, QuietFail DEF Robbed, At
<1> QED BY <1>2, <1>3 DEF Pop

\* An undisturbed thread caches what is on disk.
LEMMA InsertQuiet ==
  ASSUME Shape, Quiet, NEW t \in Threads, Insert(t), Recorded
  PROVE  Quiet'
<1>0. /\ th[t].pc = "insert" /\ th[t].pc \in Cached /\ th[t] \in ThreadState
      /\ th[t].faiss \in Docs /\ th[t].pkl \in Docs
      /\ th[t].pc \in Saving \ {"faiss"} /\ th[t].pc \in Loading
  BY InHand, SourcesAreDocs DEF Insert, At, Cached, Shape, Saving, Loading
<1>s. PICK s \in Subjects : s = th[t].dir
  BY <1>0, InHand
<1>1. raced \subseteq raced' /\ OverlapsRaced' /\ RobbedBeaten'
  BY RecordedFacts DEF Shape, FilesOK
<1>2. UNCHANGED <<faiss, pkl>>
  BY DEF Insert, files
<1>3. /\ t \in Jobs => th'[t] = Idle
      /\ t \notin Jobs => th'[t] = [th[t] EXCEPT !.pc = "query"]
      /\ \A u \in Threads : u # t => th'[u] = th[u]
  BY DEF Insert, Shape, ThreadsOK
<1>4. ASSUME s \notin raced'
      PROVE  th[t].faiss = faiss[s] /\ th[t].pkl = pkl[s] /\ th[t].faiss = th[t].pkl
  <2>0. s \notin raced
    BY <1>1, <1>4
  <2>1. CASE t \in Jobs
    <3>1. th[t].faiss = faiss[s] /\ th[t].pkl = pkl[s]
      BY <1>0, <1>s, <2>0, <2>1 DEF Quiet, JobWrote
    <3>2. th[t].faiss = th[t].pkl
      BY <1>0, <2>1 DEF Shape, ThreadsOK, JobOK
    <3> QED BY <3>1, <3>2
  <2>2. CASE t \in Loads
    <3>1. th[t].faiss = faiss[s] /\ th[t].pkl = pkl[s]
      BY <1>0, <1>s, <2>0, <2>2 DEF Quiet, LoadRead
    <3>2. JobsOn(s, Saving \ {"faiss"}) = {}
      BY <1>0, <1>s, <2>0, <2>2, AloneLoading DEF Quiet
    <3>3. JobsOn(s, {"pkl"}) = {}
      BY <3>2 DEF JobsOn, Saving
    <3>4. faiss[s] = pkl[s]
      BY <2>0, <3>3 DEF Quiet, PairIntact
    <3> QED BY <3>1, <3>4
  <2> QED BY <2>1, <2>2 DEF Threads
<1>5. ASSUME NEW j \in Jobs PROVE JobWrote(j)'
  <2>1. CASE j = t
    BY <1>3, <2>1 DEF JobWrote, Idle, Saving
  <2>2. CASE j # t
    BY <1>1, <1>2, <1>3, <2>2, JobIsAThread DEF Quiet, JobWrote
  <2> QED BY <2>1, <2>2
<1>6. ASSUME NEW u \in Loads PROVE LoadRead(u)'
  <2>1. CASE u = t
    <3>1. /\ th'[t].pc = "query" /\ th'[t].dir = s /\ th'[t].faiss = th[t].faiss
          /\ th'[t].pkl = th[t].pkl
      BY <1>0, <1>s, <1>3, <2>1, LoadIsAPair DEF ThreadState
    <3> QED BY <1>4, <2>1, <3>1 DEF LoadRead, Loading, Cached
  <2>2. CASE u # t
    BY <1>1, <1>2, <1>3, <2>2, LoadIsAPair DEF Quiet, LoadRead
  <2> QED BY <2>1, <2>2
<1>7. ASSUME NEW i \in DOMAIN vcache'
      PROVE  \/ vcache'[i].key = s /\ vcache'[i].val = [faiss |-> th[t].faiss, pkl |-> th[t].pkl]
             \/ vcache'[i].key # s /\ \E k \in DOMAIN vcache : vcache'[i] = vcache[k]
  <2> DEFINE v == [faiss |-> th[t].faiss, pkl |-> th[t].pkl]
  <2>1. /\ vcache \in DictOf(Subjects, Index) /\ v \in Index /\ vcache' = Put(vcache, s, v)
    BY <1>0, <1>s DEF Shape, CachesOK, Index, Insert
  <2> HIDE DEF v
  <2>2. /\ \/ vcache'[i] = [key |-> s, val |-> v]
           \/ \E k \in DOMAIN vcache : vcache'[i] = vcache[k]
        /\ vcache'[i].key = s => vcache'[i].val = v
    BY <2>1, PutItem, PutReplaces
  <2>3. vcache'[i] = [key |-> s, val |-> v] => vcache'[i].key = s
    OBVIOUS
  <2> QED BY <2>2, <2>3 DEF v
<1>8. CachedWhole'
  <2>1. ASSUME NEW i \in DOMAIN vcache', vcache'[i].key \notin raced'
        PROVE  vcache'[i].val.faiss = vcache'[i].val.pkl
    <3>1. CASE vcache'[i].key = s /\ vcache'[i].val = [faiss |-> th[t].faiss, pkl |-> th[t].pkl]
      BY <1>4, <2>1, <3>1
    <3>2. CASE \E k \in DOMAIN vcache : vcache'[i] = vcache[k]
      BY <1>1, <2>1, <3>2 DEF Quiet, CachedWhole
    <3> QED BY <1>7, <3>1, <3>2
  <2> QED BY <2>1 DEF CachedWhole
<1>9. /\ \A r : r # s => JobsOn(r, Saving \ {"faiss"})' = JobsOn(r, Saving \ {"faiss"})
      /\ \A r : JobsOn(r, {"pkl"})' = JobsOn(r, {"pkl"})
  <2>1. /\ \A k \in Jobs : k # t => th'[k] = th[k]
        /\ t \in Jobs => th'[t].pc = "idle"
    BY <1>3, JobIsAThread DEF Idle
  <2> QED BY <1>0, <1>s, <2>1 DEF JobsOn, Saving
<1>10. Coherent'
  <2>1. ASSUME NEW i \in DOMAIN vcache', NEW r, r = vcache'[i].key, r \notin raced',
               JobsOn(r, Saving \ {"faiss"})' = {}
        PROVE  vcache'[i].val = [faiss |-> faiss'[r], pkl |-> pkl'[r]]
    <3>1. CASE r = s /\ vcache'[i].val = [faiss |-> th[t].faiss, pkl |-> th[t].pkl]
      BY <1>2, <1>4, <2>1, <3>1
    <3>2. CASE r # s /\ \E k \in DOMAIN vcache : vcache'[i] = vcache[k]
      <4>1. PICK k \in DOMAIN vcache : vcache'[i] = vcache[k]
        BY <3>2
      <4>2. r = vcache[k].key /\ r \notin raced /\ JobsOn(r, Saving \ {"faiss"}) = {}
        BY <1>1, <1>9, <2>1, <3>2, <4>1
      <4>3. vcache[k].val = [faiss |-> faiss[r], pkl |-> pkl[r]]
        BY <4>2 DEF Quiet, Coherent
      <4> QED BY <1>2, <4>1, <4>3
    <3> QED BY <1>7, <2>1, <3>1, <3>2
  <2> QED BY <2>1 DEF Coherent, JobsOn
<1>11. PairIntact'
  <2>1. ASSUME NEW r \in Subjects, r \notin raced', JobsOn(r, {"pkl"})' = {}
        PROVE  faiss'[r] = pkl'[r]
    <3>1. r \notin raced /\ JobsOn(r, {"pkl"}) = {}
      BY <1>1, <1>9, <2>1
    <3> QED BY <1>2, <3>1 DEF Quiet, PairIntact
  <2> QED BY <2>1 DEF PairIntact
<1>12. NotGarbled'
  BY <1>1, <1>2 DEF Quiet, NotGarbled
<1> QED BY <1>1, <1>5, <1>6, <1>8, <1>10, <1>11, <1>12 DEF Quiet
-----------------------------------------------------------------------------
\* A load that looks, reads or ends.
LEMMA QuietLoad ==
  ASSUME Shape, Quiet, Recorded, UNCHANGED <<faiss, pkl, vcache>>, NEW t \in Loads,
         NEW w, th' = [th EXCEPT ![t] = w], LoadRead(t)'
  PROVE  Quiet'
<1>1. t \in Threads /\ t \notin Jobs
  BY LoadIsAPair
<1>2. th[t].pc # "pkl"
  BY DEF Shape, ThreadsOK, LoadOK, LoadPlaces, Loading
<1> QED BY <1>1, <1>2, SameItems, QuietMove

\* Looking for the files changes none.
LEMMA ProbeQuiet ==
  ASSUME Shape, Quiet, NEW t \in Loads, Probe(t), Recorded
  PROVE  Quiet'
<1>0. th[t].pc = "probe" /\ th[t] \in ThreadState /\ t \in Threads
  BY LoadFacts DEF Probe, At
<1>1. PICK w : /\ w = [th[t] EXCEPT !.pc = IF Has(vcache, th[t].dir) THEN "get" ELSE "readfaiss"]
               /\ th' = [th EXCEPT ![t] = w]
  BY DEF Probe, Goto
<1>2. th'[t].pc \in {"get", "readfaiss"}
  BY <1>0, <1>1 DEF ThreadState, Shape, ThreadsOK
<1>3. LoadRead(t)'
  BY <1>2 DEF LoadRead, Loading, Cached
<1>4. UNCHANGED <<faiss, pkl, vcache>>
  BY DEF Probe, files, caches
<1> QED BY <1>1, <1>3, <1>4, QuietLoad

\* A hit on a quiet subject hands over the index that is on disk.
LEMMA GetCachedQuiet ==
  ASSUME Shape, Quiet, NEW t \in Loads, GetCached(t), Recorded
  PROVE  Quiet'
<1>0. th[t].pc = "get" /\ th[t] \in ThreadState /\ t \in Threads /\ t \notin Jobs
  BY LoadFacts DEF GetCached, At
<1>1. UNCHANGED <<faiss, pkl, vcache>>
  BY DEF GetCached, files, caches
<1>2. raced \subseteq raced'
  BY RecordedFacts DEF Shape, FilesOK
<1>3. CASE Has(vcache, th[t].dir) /\ UNCHANGED search
  <2> DEFINE c == Get(vcache, th[t].dir)
  <2>1. th' = [th EXCEPT ![t] = [@ EXCEPT !.pc = "query", !.faiss = c.faiss, !.pkl = c.pkl]]
    BY <1>3, <1>0 DEF GetCached
  <2>2. c \in Index /\ (th[t].dir \notin raced => c.faiss = c.pkl)
    <3>1. vcache \in DictOf(Subjects, Index)
      BY DEF Shape, CachesOK
    <3>2. /\ c \in Index
          /\ \E i \in DOMAIN vcache : vcache[i].key = th[t].dir /\ vcache[i].val = c
      BY <1>3, <3>1, GetIsAnItem
    <3> QED BY <3>2 DEF Quiet, CachedWhole
  <2> HIDE DEF c
  <2>3. PICK w : /\ w = [th[t] EXCEPT !.pc = "query", !.faiss = c.faiss, !.pkl = c.pkl]
                 /\ th' = [th EXCEPT ![t] = w]
    BY <2>1
  <2>4. /\ th'[t].pc = "query" /\ th'[t].dir = th[t].dir
        /\ th'[t].faiss = c.faiss /\ th'[t].pkl = c.pkl
    BY <1>0, <2>3 DEF ThreadState, Shape, ThreadsOK
  <2>5. LoadRead(t)'
    BY <1>2, <2>2, <2>4 DEF LoadRead, Loading, Cached
  <2> QED BY <1>1, <2>3, <2>5, QuietLoad
<1>4. CASE Fail(t)
  BY <1>0, <1>1, <1>4, FailEnds, QuietFail
<1> QED BY <1>3, <1>4 DEF GetCached

\* An undisturbed load has read the index.faiss that is on disk.
LEMMA ReadFaissQuiet ==
  ASSUME Shape, Quiet, NEW t \in Loads, ReadFaiss(t), Recorded
  PROVE  Quiet'
<1>0. th[t].pc = "readfaiss" /\ th[t] \in ThreadState /\ t \in Threads /\ t \notin Jobs
  BY LoadFacts DEF ReadFaiss, At
<1>1. UNCHANGED <<faiss, pkl, vcache>>
  BY DEF ReadFaiss, files, caches
<1>2. PICK v \in {faiss[th[t].dir], Garbled} :
        \/ v = Garbled /\ Fail(t)
        \/ /\ v # Garbled
           /\ th' = [th EXCEPT ![t].pc = "readpkl", ![t].faiss = v]
  BY DEF ReadFaiss, Readable
<1>3. CASE Fail(t)
  BY <1>0, <1>1, <1>3, FailEnds, QuietFail
<1>4. CASE v # Garbled /\ th' = [th EXCEPT ![t].pc = "readpkl", ![t].faiss = v]
  <2>1. PICK w : w = [th[t] EXCEPT !.pc = "readpkl", !.faiss = v] /\ th' = [th EXCEPT ![t] = w]
    BY <1>4
  <2>2. th'[t].pc = "readpkl" /\ th'[t].dir = th[t].dir /\ th'[t].faiss = faiss[th[t].dir]
    BY <1>0, <1>2, <1>4, <2>1 DEF ThreadState, Shape, ThreadsOK
  <2>3. LoadRead(t)'
    BY <1>1, <2>2 DEF LoadRead, Loading, Cached
  <2> QED BY <1>1, <2>1, <2>3, QuietLoad
<1> QED BY <1>2, <1>3, <1>4

\* And then the whole pair of it.
LEMMA ReadPklQuiet ==
  ASSUME Shape, Quiet, NEW t \in Loads, ReadPkl(t), Recorded
  PROVE  Quiet'
<1>0. th[t].pc = "readpkl" /\ th[t] \in ThreadState /\ t \in Threads /\ t \notin Jobs
  BY LoadFacts DEF ReadPkl, At
<1>1. UNCHANGED <<faiss, pkl, vcache>>
  BY DEF ReadPkl, files, caches
<1>2. PICK v \in {pkl[th[t].dir], Garbled} :
        \/ v = Garbled /\ Fail(t)
        \/ /\ v # Garbled
           /\ th' = [th EXCEPT ![t].pc = "room", ![t].pkl = v]
  BY DEF ReadPkl, Readable
<1>3. CASE Fail(t)
  BY <1>0, <1>1, <1>3, FailEnds, QuietFail
<1>4. CASE v # Garbled /\ th' = [th EXCEPT ![t].pc = "room", ![t].pkl = v]
  <2>1. PICK w : w = [th[t] EXCEPT !.pc = "room", !.pkl = v] /\ th' = [th EXCEPT ![t] = w]
    BY <1>4
  <2>2. /\ th'[t].pc = "room" /\ th'[t].dir = th[t].dir /\ th'[t].faiss = th[t].faiss
        /\ th'[t].pkl = pkl[th[t].dir]
    BY <1>0, <1>2, <1>4, <2>1 DEF ThreadState, Shape, ThreadsOK
  <2>3. th[t].dir \notin raced => th[t].faiss = faiss[th[t].dir]
    BY <1>0 DEF Quiet, LoadRead, Loading
  <2>4. raced \subseteq raced'
    BY RecordedFacts DEF Shape, FilesOK
  <2>5. LoadRead(t)'
    BY <1>1, <2>2, <2>3, <2>4 DEF LoadRead
  <2> QED BY <1>1, <2>1, <2>5, QuietLoad
<1> QED BY <1>2, <1>3, <1>4

\* The query changes neither files nor cache.
LEMMA QueryQuiet ==
  ASSUME Shape, Quiet, NEW t \in Loads, Query(t), Recorded
  PROVE  Quiet'
<1>0. t \in Threads
  BY LoadIsAPair
<1>1. th' = [th EXCEPT ![t] = Idle]
  BY QueryEnds DEF EndLoad
<1>2. th'[t].pc = "idle"
  BY <1>0, <1>1 DEF Shape, ThreadsOK, Idle
<1>3. LoadRead(t)'
  BY <1>2 DEF LoadRead, Loading, Cached
<1>4. UNCHANGED <<faiss, pkl, vcache>>
  BY DEF Query, files, caches
<1> QED BY <1>1, <1>3, <1>4, QuietLoad

\* What concerns no running thread.
LEMMA QuietElsewhere ==
  ASSUME Shape, Quiet, Recorded, UNCHANGED <<faiss, pkl>>, vcache' \in {vcache, EmptyDict},
         \A j \in Jobs : th'[j] = th[j],
         \A t \in Loads : th'[t] = th[t] \/ th'[t].pc = "probe"
  PROVE  Quiet'
<1>1. \A i \in DOMAIN vcache' : \E k \in DOMAIN vcache : vcache'[i] = vcache[k]
  <2>1. DOMAIN EmptyDict = {}
    BY DEF EmptyDict
  <2>2. CASE vcache' = vcache
    BY <2>2
  <2>3. CASE vcache' = EmptyDict
    BY <2>1, <2>3
  <2> QED BY <2>2, <2>3
<1>2. ASSUME NEW t \in Loads PROVE th'[t] = th[t] \/ LoadRead(t)'
  BY DEF LoadRead, Loading, Cached
<1> QED BY <1>1, <1>2, QuietKept DEF Shape, FilesOK

\* Asking a question touches neither the files nor the cached indexes.
LEMMA AskQuiet ==
  ASSUME Shape, Quiet, NEW x \in Searchers, NEW q \in Queries, Ask(x, q), Recorded
  PROVE  Quiet'
<1>1. UNCHANGED <<faiss, pkl, vcache>>
  BY DEF Ask, files, caches
<1>2. \/ UNCHANGED th
      \/ th' = [t \in Threads |->
             IF t \in {x} \X Indexed THEN [Idle EXCEPT !.pc = "probe", !.dir = t[2]]
                                     ELSE th[t]]
  BY DEF Ask
<1>3. \A t \in Threads : th'[t] = th[t] \/ (t \in {x} \X Indexed /\ th'[t].pc = "probe")
  BY <1>2 DEF Idle
<1>4. ASSUME NEW j \in Jobs PROVE th'[j] = th[j]
  <2>1. j \in Threads /\ j \notin Loads
    BY JobIsAThread
  <2>2. j \notin {x} \X Indexed
    BY <2>1 DEF Loads, Indexed
  <2> QED BY <1>3, <2>1, <2>2
<1>5. \A t \in Loads : th'[t] = th[t] \/ th'[t].pc = "probe"
  BY <1>3, LoadIsAPair
<1> QED BY <1>1, <1>4, <1>5, QuietElsewhere

\* A save that a restart cuts short is recorded.
LEMMA RestartQuiet ==
  ASSUME Shape, Quiet, Restart, CutShort
  PROVE  Quiet'
<1>1. \A t \in Threads : th'[t].pc = "idle"
  BY DEF Restart, Idle
<1>2. \A j \in Jobs : th'[j].pc = "idle"
  BY <1>1, JobIsAThread
<1>3. \A t \in Loads : th'[t].pc = "idle"
  BY <1>1, LoadIsAPair
<1>4. OverlapsRaced' /\ RobbedBeaten'
  <2>1. OverlapsRaced'
    BY <1>2, <1>3 DEF OverlapsRaced, Overlap, JobsOn, LoadsOn, Saving
  <2>2. RobbedBeaten'
    BY DEF CutShort, Remembered, RobbedBeaten
  <2> QED BY <2>1, <2>2
<1>5. \A j \in Jobs : JobWrote(j)'
  BY <1>2 DEF JobWrote, Saving
<1>6. \A t \in Loads : LoadRead(t)'
  BY <1>3 DEF LoadRead, Loading, Cached
<1>7. vcache' = EmptyDict /\ DOMAIN EmptyDict = {}
  BY DEF Restart, EmptyDict
<1>8. CachedWhole' /\ Coherent'
  BY <1>7 DEF CachedWhole, Coherent
<1>9. ASSUME NEW s \in Subjects, s \notin raced'
      PROVE  /\ s \notin raced /\ JobsOn(s, {"pkl"}) = {}
             /\ faiss'[s] = faiss[s] /\ pkl'[s] = pkl[s]
  <2>1. s \notin raced /\ JobsOn(s, Saving) = {}
    BY <1>9 DEF CutShort
  <2>2. JobsOn(s, {"faiss"}) = {} /\ JobsOn(s, {"pkl"}) = {}
    BY <2>1 DEF JobsOn, Saving
  <2>3. faiss'[s] = faiss[s] /\ pkl'[s] = pkl[s]
    BY <2>2 DEF Restart, Cut
  <2> QED BY <2>1, <2>2, <2>3
<1>10. PairIntact' /\ NotGarbled'
  BY <1>9 DEF Quiet, PairIntact, NotGarbled
<1> QED BY <1>4, <1>5, <1>6, <1>8, <1>10 DEF Quiet

\* Every step keeps the quiet subjects quiet.
LEMMA QuietStep == Shape /\ Quiet /\ [Next]_vars => Quiet'
<1> SUFFICES ASSUME Shape, Quiet, [Next]_vars PROVE Quiet'
  OBVIOUS
<1>0. Shape'
  BY ShapeStep
<1>1. ASSUME NEW j \in Jobs, JobStep(j) PROVE Quiet'
  BY <1>0, <1>1, JobIsAThread, BuildQuiet, SaveFaissQuiet, SavePklQuiet, RoomQuiet, OldestQuiet,
     PopQuiet, InsertQuiet DEF JobStep, Job, Caching
<1>2. ASSUME NEW j \in Jobs, NEW d \in Docs, Upload(j, d), Recorded PROVE Quiet'
  BY <1>2, UploadQuiet
<1>3. ASSUME NEW t \in Loads, LoadStep(t) PROVE Quiet'
  BY <1>3, LoadIsAPair, ProbeQuiet, GetCachedQuiet, ReadFaissQuiet, ReadPklQuiet, QueryQuiet,
     RoomQuiet, OldestQuiet, PopQuiet, InsertQuiet DEF LoadStep, Load, Caching
<1>4. ASSUME NEW x \in Searchers, SearchStep(x) PROVE Quiet'
  <2>1. UNCHANGED <<faiss, pkl, vcache, th>> /\ Recorded
    BY <1>4 DEF SearchStep, Merge, PutAnswer, files, caches
  <2> QED BY <2>1, QuietElsewhere
<1>5. ASSUME NEW x \in Searchers, NEW q \in Queries, Ask(x, q), Recorded PROVE Quiet'
  BY <1>5, AskQuiet
<1>6. ASSUME ClearCaches, Recorded PROVE Quiet'
  <2>1. UNCHANGED <<faiss, pkl, th>> /\ vcache' = EmptyDict
    BY <1>6 DEF ClearCaches, files
  <2> QED BY <1>6, <2>1, QuietElsewhere
<1>7. ASSUME Restart, CutShort PROVE Quiet'
  BY <1>7, RestartQuiet
<1>8. ASSUME UNCHANGED vars PROVE Quiet'
  <2>1. UNCHANGED <<faiss, pkl, vcache, th, raced, beaten>>
    BY <1>8 DEF vars, files, caches, history
  <2>2. (\A s : JobsOn(s, Saving)' = JobsOn(s, Saving)) /\ Robbed' = Robbed
    BY <2>1 DEF JobsOn, Robbed, At
  <2>3. OverlapsRaced' /\ RobbedBeaten' /\ NotGarbled'
    BY <2>1, <2>2 DEF Quiet, OverlapsRaced, Overlap, JobsOn, LoadsOn, RobbedBeaten, NotGarbled
  <2>4. (\A j \in Jobs : JobWrote(j)') /\ (\A t \in Loads : LoadRead(t)') /\ CachedWhole'
    BY <2>1 DEF Quiet, JobWrote, LoadRead, CachedWhole
  <2>5. Coherent' /\ PairIntact'
    BY <2>1 DEF Quiet, JobsOn, Coherent, PairIntact
  <2> QED BY <2>3, <2>4, <2>5 DEF Quiet
<1> QED BY <1>1, <1>2, <1>3, <1>4, <1>5, <1>6, <1>7, <1>8 DEF Next
-----------------------------------------------------------------------------
\* Of each document that could be found, a search has a match or waits for one.
SearchCovers(x) ==
  search[x].pc # "idle" => \A d \in Spared(x) : SubjectOf[d] \notin raced =>
    \/ SubjectOf[d] \in search[x].dirs
    \/ \E e \in search[x].found : SubjectOf[e] = SubjectOf[d]

Covering == (\A x \in Searchers : SearchCovers(x)) /\ FreshAnswersCover

IInv == Shape /\ Quiet /\ Covering

\* The history only grows, as far as searches under way are concerned.
Keeping == raced \subseteq raced' /\ Remembering

\* A recorded step keeps the history.
LEMMA RecordedKeeps ==
  ASSUME Shape, Recorded
  PROVE  Keeping
BY RecordedFacts DEF Keeping, Shape, FilesOK

\* While a search goes on, no more documents are spared.
LEMMA SparedShrinks ==
  ASSUME Keeping, NEW x \in Searchers, search'[x].pc # "idle", search'[x].had = search[x].had
  PROVE  Spared(x)' \subseteq Spared(x)
<1>1. \A s : <<x, s>> \in beaten => <<x, s>> \in beaten'
  <2>1. \A s : <<x, s>>[1] = x
    OBVIOUS
  <2> QED BY <2>1 DEF Keeping, Remembering
<1> QED BY <1>1 DEF Spared

\* Initially no search has anything to cover.
LEMMA CoveringInit == Init => Covering
BY DEF Init, Covering, SearchCovers, NoSearch, FreshAnswersCover

\* Searches and answers that stay as they are stay covered.
LEMMA CoverKept ==
  ASSUME Covering, Keeping, NEW x \in Searchers, search'[x] = search[x]
  PROVE  SearchCovers(x)'
<1> SUFFICES ASSUME search'[x].pc # "idle", NEW d \in Spared(x)', SubjectOf[d] \notin raced'
             PROVE  \/ SubjectOf[d] \in search'[x].dirs
                    \/ \E e \in search'[x].found : SubjectOf[e] = SubjectOf[d]
  BY DEF SearchCovers
<1>1. d \in Spared(x)
  BY SparedShrinks
<1> QED BY <1>1 DEF Covering, SearchCovers, Keeping

\* Answers once covered stay so: raced only grows.
LEMMA AnswersStayCovered ==
  ASSUME Covering, raced \subseteq raced', UNCHANGED answer
  PROVE  FreshAnswersCover'
BY DEF Covering, FreshAnswersCover

\* A step that touches no search covers as before.
LEMMA CoverElsewhere ==
  ASSUME Covering, Keeping, UNCHANGED <<search, answer>>
  PROVE  Covering'
BY CoverKept, AnswersStayCovered DEF Covering, Keeping

\* A load ends with a match, or it was robbed, or saves have overlapped on its subject.
LEMMA EndCovers ==
  ASSUME Shape, Covering, Keeping, UNCHANGED answer,
         NEW t \in Loads, th[t].pc # "idle", NEW docs, EndLoad(t, docs),
         t[2] \in raced' \/ t \in beaten' \/ \E e \in docs : SubjectOf[e] = t[2]
  PROVE  Covering'
<1> DEFINE x == t[1]
<1>0. x \in Searchers /\ t[2] \in Subjects /\ search[x] \in SearchState
  BY LoadIsAPair DEF Shape, ThreadsOK
<1>1. search' = [search EXCEPT ![x].dirs = @ \ {t[2]}, ![x].found = @ \cup docs]
  BY DEF EndLoad
<1>2. /\ search'[x] = [search[x] EXCEPT !.dirs = @ \ {t[2]}, !.found = @ \cup docs]
      /\ \A y \in Searchers : y # x => search'[y] = search[y]
  BY <1>0, <1>1 DEF Shape, ThreadsOK
<1>3. /\ search'[x].dirs = search[x].dirs \ {t[2]} /\ search'[x].found = search[x].found \cup docs
      /\ search'[x].had = search[x].had /\ search'[x].pc = search[x].pc
  BY <1>0, <1>2 DEF SearchState
<1> HIDE DEF x
<1>4. SearchCovers(x)'
  <2>1. ASSUME search'[x].pc # "idle", NEW d \in Spared(x)', SubjectOf[d] \notin raced'
        PROVE  \/ SubjectOf[d] \in search'[x].dirs
               \/ \E e \in search'[x].found : SubjectOf[e] = SubjectOf[d]
    <3>1. \/ SubjectOf[d] \in search[x].dirs
          \/ \E e \in search[x].found : SubjectOf[e] = SubjectOf[d]
      <4>1. d \in Spared(x) /\ SubjectOf[d] \notin raced
        BY <1>0, <1>3, <2>1, SparedShrinks DEF Keeping
      <4> QED BY <1>0, <1>3, <2>1, <4>1 DEF Covering, SearchCovers
    <3>2. CASE SubjectOf[d] = t[2]
      <4>1. <<x, t[2]>> \notin beaten'
        BY <2>1, <3>2 DEF Spared
      <4>2. t \notin beaten'
        BY <4>1, LoadIsAPair DEF x
      <4> QED BY <1>3, <2>1, <3>2, <4>2
    <3>3. CASE SubjectOf[d] # t[2]
      BY <1>3, <3>1, <3>3
    <3> QED BY <3>2, <3>3
  <2> QED BY <1>3, <2>1 DEF SearchCovers
<1>5. \A y \in Searchers : SearchCovers(y)'
  <2>1. ASSUME NEW y \in Searchers PROVE SearchCovers(y)'
    <3>1. CASE y = x
      BY <1>4, <3>1
    <3>2. CASE y # x
      BY <1>2, <3>2, CoverKept
    <3> QED BY <3>1, <3>2
  <2> QED BY <2>1
<1> QED BY <1>5, AnswersStayCovered DEF Covering, Keeping

\* A load that fails was robbed, or its subject is one on which saves have overlapped.
LEMMA FailCovers ==
  ASSUME Shape, Quiet, Covering, Recorded, UNCHANGED answer,
         NEW t \in Threads, th[t].pc # "idle", Fail(t),
         t \in Loads => t \in Robbed \/ t[2] \in raced
  PROVE  Covering'
<1>1. Keeping
  BY RecordedKeeps
<1>2. CASE t \in Jobs
  <2>1. UNCHANGED search
    BY <1>2 DEF Fail
  <2> QED BY <1>1, <2>1, CoverElsewhere
<1>3. CASE t \notin Jobs
  <2>1. t \in Loads /\ EndLoad(t, {})
    BY <1>3 DEF Fail, Threads
  <2>2. search[t[1]].pc = "wait" /\ search'[t[1]].pc = search[t[1]].pc
    <3>1. search[t[1]] \in SearchState /\ t[1] \in Searchers
      BY <2>1, LoadIsAPair DEF Shape, ThreadsOK
    <3>2. search'[t[1]] = [search[t[1]] EXCEPT !.dirs = @ \ {t[2]}, !.found = @ \cup {}]
      BY <2>1, <3>1 DEF EndLoad, Shape, ThreadsOK
    <3> QED BY <2>1, <3>1, <3>2 DEF SearchState, Shape, ThreadsOK, LoadOK
  <2>3. t \in Robbed => t \in beaten'
    BY <1>1, <2>1, <2>2 DEF Quiet, RobbedBeaten, Keeping, Remembering
  <2>4. t[2] \in raced' \/ t \in beaten'
    BY <1>1, <2>1, <2>3 DEF Keeping
  <2> QED BY <1>1, <2>1, <2>4, EndCovers
<1> QED BY <1>2, <1>3

\* On the way to its query a load still covers its subject.
LEMMA CachingCovers ==
  ASSUME Shape, Quiet, Covering, Recorded, NEW t \in Threads, Caching(t)
  PROVE  Covering'
<1>1. Keeping /\ UNCHANGED answer
  BY RecordedKeeps DEF Caching, Room, Oldest, Pop, Insert
<1>2. CASE UNCHANGED search
  BY <1>1, <1>2, CoverElsewhere
<1>3. CASE Fail(t) /\ th[t].pc # "idle" /\ t \in Robbed
  BY <1>1, <1>3, FailCovers
<1> QED BY <1>2, <1>3 DEF Caching, Room, Oldest, Pop, Insert, At, Robbed

\* Every step of a load covers as before or ends it with a match.
LEMMA LoadCovers ==
  ASSUME Shape, Quiet, Covering, Recorded, NEW t \in Loads, Load(t)
  PROVE  Covering'
<1>0. t \in Threads /\ t \notin Jobs
  BY LoadIsAPair
<1>1. Keeping /\ UNCHANGED answer
  BY RecordedKeeps DEF Load, Probe, GetCached, ReadFaiss, ReadPkl, Query
<1>2. CASE UNCHANGED search
  BY <1>1, <1>2, CoverElsewhere
<1>3. CASE Fail(t) /\ th[t].pc # "idle" /\ (t \in Robbed \/ t[2] \in raced)
  BY <1>0, <1>1, <1>3, FailCovers
<1>4. CASE Query(t)
  <2>1. th[t].pc = "query" /\ LoadOK(t) /\ th[t].dir = t[2] /\ t[2] \in Subjects
    BY <1>4, LoadFacts DEF Query, At
  <2>2. th[t].pkl \in Sources(t[2])
    BY <2>1 DEF LoadOK
  <2>3. SubjectOf[th[t].pkl] = t[2]
    BY <2>2 DEF Sources
  <2>4. PICK docs : /\ EndLoad(t, docs)
                    /\ th[t].faiss = th[t].pkl => docs = {th[t].pkl}
    BY <1>4, QueryEnds
  <2>5. t[2] \notin raced' => th[t].faiss = th[t].pkl
    BY <1>1, <2>1 DEF Quiet, LoadRead, Keeping
  <2>6. t[2] \in raced' \/ t \in beaten' \/ \E e \in docs : SubjectOf[e] = t[2]
    BY <2>3, <2>4, <2>5
  <2>7. th[t].pc # "idle" /\ EndLoad(t, docs)
    BY <2>1, <2>4
  <2> QED BY <1>1, <2>6, <2>7, EndCovers
<1>5. CASE GetCached(t)
  <2>1. th[t].pc = "get"
    BY <1>5 DEF GetCached, At
  <2>2. UNCHANGED search \/ (~Has(vcache, th[t].dir) /\ Fail(t))
    BY <1>5 DEF GetCached
  <2>3. ~Has(vcache, th[t].dir) => t \in Robbed
    BY <1>0, <2>1 DEF Robbed, At
  <2> QED BY <1>2, <1>3, <2>1, <2>2, <2>3
<1>6. CASE ReadFaiss(t)
  <2>1. th[t].pc = "readfaiss" /\ th[t].dir = t[2] /\ t[2] \in Subjects
    BY <1>6, LoadFacts DEF ReadFaiss, At
  <2>2. PICK v \in Readable(faiss, t, "faiss") : UNCHANGED search \/ (v = Garbled /\ Fail(t))
    BY <1>6 DEF ReadFaiss
  <2>3. v = Garbled => t \in Robbed \/ faiss[t[2]] = Garbled
    BY <1>0, <2>1, <2>2 DEF Readable, Robbed, At
  <2>4. faiss[t[2]] = Garbled => t[2] \in raced
    BY <2>1 DEF Quiet, NotGarbled
  <2> QED BY <1>2, <1>3, <2>1, <2>2, <2>3, <2>4
<1>7. CASE ReadPkl(t)
  <2>1. th[t].pc = "readpkl" /\ th[t].dir = t[2] /\ t[2] \in Subjects
    BY <1>7, LoadFacts DEF ReadPkl, At
  <2>2. PICK v \in Readable(pkl, t, "pkl") : UNCHANGED search \/ (v = Garbled /\ Fail(t))
    BY <1>7 DEF ReadPkl
  <2>3. v = Garbled => JobsOn(t[2], {"pkl"}) # {} \/ pkl[t[2]] = Garbled
    BY <2>1, <2>2 DEF Readable
  <2>4. pkl[t[2]] = Garbled => t[2] \in raced
    BY <2>1 DEF Quiet, NotGarbled
  <2>5. JobsOn(t[2], {"pkl"}) # {} => t[2] \in raced
    <3>1. t[2] \notin raced => JobsOn(t[2], Saving \ {"faiss"}) = {}
      BY <2>1, AloneLoading DEF Quiet, Loading
    <3> QED BY <3>1 DEF JobsOn, Saving
  <2> QED BY <1>2, <1>3, <2>1, <2>2, <2>3, <2>4, <2>5
<1> QED BY <1>2, <1>4, <1>5, <1>6, <1>7 DEF Load, Probe

\* A finished search answers with what covers it.
LEMMA ReplyCovers ==
  ASSUME Shape, Covering, raced \subseteq raced', NEW x \in Searchers, NEW r,
         answer' = [answer EXCEPT ![x] = r],
         r.fresh => \A d \in r.had : SubjectOf[d] \notin raced =>
                      \E e \in r.docs : SubjectOf[e] = SubjectOf[d]
  PROVE  FreshAnswersCover'
<1>3. answer'[x] = r /\ \A y \in Searchers : y # x => answer'[y] = answer[y]
  BY DEF Shape, AnswersOK
<1>4. ASSUME NEW y \in Searchers, answer'[y] # Nothing, answer'[y].fresh,
             NEW d \in answer'[y].had, SubjectOf[d] \notin raced'
      PROVE  \E e \in answer'[y].docs : SubjectOf[e] = SubjectOf[d]
  <2>1. CASE y = x
    BY <1>3, <1>4, <2>1
  <2>2. CASE y # x
    BY <1>3, <1>4, <2>2 DEF Covering, FreshAnswersCover
  <2> QED BY <2>1, <2>2
<1> QED BY <1>4 DEF FreshAnswersCover

\* A search that waits for none has what covers it.
LEMMA EndedIsCovered ==
  ASSUME Covering, NEW x \in Searchers, search[x].pc # "idle", search[x].dirs = {}
  PROVE  \A d \in Spared(x) : SubjectOf[d] \notin raced =>
           \E e \in search[x].found : SubjectOf[e] = SubjectOf[d]
BY DEF Covering, SearchCovers

\* The answer of a search that waits for none is covered.
LEMMA EndedReplies ==
  ASSUME Shape, Covering, raced \subseteq raced', NEW x \in Searchers,
         search[x].pc # "idle", search[x].dirs = {},
         Reply(x, search[x].query, search[x].found, Spared(x), TRUE)
  PROVE  FreshAnswersCover'
<1>1. PICK r : /\ r = [query |-> search[x].query, docs |-> search[x].found,
                       had |-> Spared(x), fresh |-> TRUE]
               /\ answer' = [answer EXCEPT ![x] = r]
  BY DEF Reply
<1>2. r.docs = search[x].found /\ r.had = Spared(x)
  BY <1>1
<1> QED BY <1>1, <1>2, EndedIsCovered, ReplyCovers

\* Merging answers with what covers the search.
LEMMA MergeCovers ==
  ASSUME Shape, Covering, NEW x \in Searchers, Merge(x), Keeping
  PROVE  Covering'
<1>1. search[x].pc = "wait" /\ search[x].pc # "idle" /\ search[x].dirs = {}
  BY DEF Merge
<1>2. CASE search' = [search EXCEPT ![x].pc = "put"] /\ UNCHANGED answer
  <2>1. /\ search'[x] = [search[x] EXCEPT !.pc = "put"]
        /\ \A y \in Searchers : y # x => search'[y] = search[y]
        /\ search[x] \in SearchState
    BY <1>2 DEF Shape, ThreadsOK
  <2>2. search'[x].had = search[x].had /\ search'[x].found = search[x].found
    BY <2>1 DEF SearchState
  <2>3. SearchCovers(x)'
    <3>1. search'[x].pc = "put" /\ Spared(x)' \subseteq Spared(x)
      BY <2>1, <2>2, SparedShrinks DEF SearchState
    <3> QED BY <1>1, <2>2, <3>1, EndedIsCovered DEF SearchCovers, Keeping
  <2>4. \A y \in Searchers : SearchCovers(y)'
    BY <2>1, <2>3, CoverKept
  <2> QED BY <1>2, <2>4, AnswersStayCovered DEF Covering, Keeping
<1>3. CASE /\ Reply(x, search[x].query, search[x].found, Spared(x), TRUE)
           /\ search' = [search EXCEPT ![x] = NoSearch]
  <2>1. /\ search'[x] = NoSearch
        /\ \A y \in Searchers : y # x => search'[y] = search[y]
    BY <1>3 DEF Shape, ThreadsOK
  <2>2. SearchCovers(x)'
    BY <2>1 DEF SearchCovers, NoSearch
  <2>3. \A y \in Searchers : SearchCovers(y)'
    BY <2>1, <2>2, CoverKept
  <2>4. FreshAnswersCover'
    BY <1>1, <1>3, EndedReplies DEF Keeping
  <2> QED BY <2>3, <2>4 DEF Covering
<1> QED BY <1>2, <1>3 DEF Merge

\* Storing the answer does too.
LEMMA PutAnswerCovers ==
  ASSUME Shape, Covering, NEW x \in Searchers, PutAnswer(x), Keeping
  PROVE  Covering'
<1>1. search[x].pc = "put" /\ search[x].pc # "idle" /\ search[x].dirs = {}
  BY SearchFacts DEF PutAnswer
<1>2. Reply(x, search[x].query, search[x].found, Spared(x), TRUE)
  BY DEF PutAnswer
<1>3. /\ search'[x] = NoSearch
      /\ \A y \in Searchers : y # x => search'[y] = search[y]
  BY DEF PutAnswer, Shape, ThreadsOK
<1>4. SearchCovers(x)'
  BY <1>3 DEF SearchCovers, NoSearch
<1>5. \A y \in Searchers : SearchCovers(y)'
  BY <1>3, <1>4, CoverKept
<1>6. FreshAnswersCover'
  BY <1>1, <1>2, EndedReplies DEF Keeping
<1> QED BY <1>5, <1>6 DEF Covering

\* What can be found when a search is asked is in an indexed subject.
LEMMA AskCovers ==
  ASSUME Shape, Covering, NEW x \in Searchers, NEW q \in Queries, Ask(x, q), Keeping
  PROVE  Covering'
<1>1. \A d \in Settled : SubjectOf[d] \in Indexed
  <2>1. \A d \in Docs : SubjectOf[d] \in Subjects /\ d # Absent
    BY DocsAssumption, FileAssumption
  <2> QED BY <2>1 DEF Settled, Indexed
<1>2. CASE UNCHANGED search /\ Reply(x, q, Get(qcache, q), Settled, FALSE)
  <2>0. PICK r : /\ r = [query |-> q, docs |-> Get(qcache, q), had |-> Settled, fresh |-> FALSE]
                 /\ answer' = [answer EXCEPT ![x] = r]
    BY <1>2 DEF Reply
  <2>1. FreshAnswersCover'
    BY <2>0, ReplyCovers DEF Keeping
  <2> QED BY <1>2, <2>1, CoverKept DEF Covering
<1>3. CASE UNCHANGED search /\ Reply(x, q, {}, Settled, TRUE) /\ Indexed = {}
  <2>1. PICK r : /\ r = [query |-> q, docs |-> {}, had |-> Settled, fresh |-> TRUE]
                 /\ answer' = [answer EXCEPT ![x] = r]
    BY <1>3 DEF Reply
  <2>2. \A d : d \notin r.had
    BY <1>1, <1>3, <2>1
  <2>4. FreshAnswersCover'
    BY <2>1, <2>2, ReplyCovers DEF Keeping
  <2> QED BY <1>3, <2>4, CoverKept DEF Covering
<1>4. CASE /\ search' = [search EXCEPT ![x] =
                [pc |-> "wait", query |-> q, dirs |-> Indexed, found |-> {}, had |-> Settled]]
           /\ UNCHANGED answer
  <2>1. /\ search'[x] = [pc |-> "wait", query |-> q, dirs |-> Indexed, found |-> {}, had |-> Settled]
        /\ \A y \in Searchers : y # x => search'[y] = search[y]
    BY <1>4 DEF Shape, ThreadsOK
  <2>2. SearchCovers(x)'
    BY <1>1, <2>1 DEF SearchCovers, Spared
  <2>3. \A y \in Searchers : SearchCovers(y)'
    BY <2>1, <2>2, CoverKept
  <2> QED BY <1>4, <2>3, AnswersStayCovered DEF Covering, Keeping
<1>5. \/ UNCHANGED search /\ Reply(x, q, Get(qcache, q), Settled, FALSE)
      \/ UNCHANGED search /\ Reply(x, q, {}, Settled, TRUE) /\ Indexed = {}
      \/ /\ search' = [search EXCEPT ![x] =
                [pc |-> "wait", query |-> q, dirs |-> Indexed, found |-> {}, had |-> Settled]]
         /\ UNCHANGED answer
  BY DEF Ask
<1> QED BY <1>2, <1>3, <1>4, <1>5

\* Every step keeps searches and fresh answers covered.
LEMMA CoveringStep == Shape /\ Quiet /\ Covering /\ [Next]_vars => Covering'
<1> SUFFICES ASSUME Shape, Quiet, Covering, [Next]_vars PROVE Covering'
  OBVIOUS
<1>0. Recorded => Keeping
  BY RecordedKeeps
<1>1. ASSUME NEW j \in Jobs, JobStep(j) PROVE Covering'
  <2>1. CASE Caching(j)
    BY <1>1, <2>1, JobIsAThread, CachingCovers DEF JobStep
  <2>2. CASE Job(j)
    BY <1>0, <1>1, <2>2, CoverElsewhere DEF JobStep, Job, Build, SaveFaiss, SavePkl
  <2> QED BY <1>1, <2>1, <2>2 DEF JobStep
<1>2. ASSUME NEW j \in Jobs, NEW d \in Docs, Upload(j, d), Recorded PROVE Covering'
  BY <1>0, <1>2, CoverElsewhere DEF Upload
<1>3. ASSUME NEW t \in Loads, LoadStep(t) PROVE Covering'
  BY <1>3, LoadIsAPair, LoadCovers, CachingCovers DEF LoadStep
<1>4. ASSUME NEW x \in Searchers, SearchStep(x) PROVE Covering'
  BY <1>0, <1>4, MergeCovers, PutAnswerCovers DEF SearchStep
<1>5. ASSUME NEW x \in Searchers, NEW q \in Queries, Ask(x, q), Recorded PROVE Covering'
  BY <1>0, <1>5, AskCovers
<1>6. ASSUME ClearCaches, Recorded PROVE Covering'
  BY <1>0, <1>6, CoverElsewhere DEF ClearCaches
<1>7. ASSUME Restart, CutShort PROVE Covering'
  <2>1. raced \subseteq raced' /\ UNCHANGED answer
    BY <1>7 DEF Restart, CutShort
  <2>2. \A x \in Searchers : SearchCovers(x)'
    BY <1>7 DEF Restart, SearchCovers, NoSearch
  <2> QED BY <2>1, <2>2, AnswersStayCovered DEF Covering
<1>8. ASSUME UNCHANGED vars PROVE Covering'
  BY <1>8, CoverElsewhere DEF vars, history, Keeping, Remembering
<1> QED BY <1>1, <1>2, <1>3, <1>4, <1>5, <1>6, <1>7, <1>8 DEF Next
-----------------------------------------------------------------------------
\* Throughout every behaviour threads, files, caches and answers have their shape,
\* the subjects on which no threads met are quiet, and searches of them are covered.
THEOREM Invariant == Spec => []IInv
<1>1. Init => IInv
  BY ShapeInit, QuietInit, CoveringInit DEF IInv
<1>2. IInv /\ [Next]_vars => IInv'
  BY ShapeStep, QuietStep, CoveringStep DEF IInv
<1> QED BY <1>1, <1>2, PTL DEF Spec

\* Whatever is torn, raced or cut short, nobody is shown text of a PDF that was not
\* uploaded, has none, or belongs to another subject (retriever.py 102-208, 241-248).
THEOREM SourcesAreStored == Spec => []SourcesStored
<1>1. IInv => SourcesStored
  BY ShapeSays DEF IInv
<1> QED BY <1>1, Invariant, PTL

\* The caches and threads are well formed; as long as no two threads have met on a
\* subject and no restart cut a save short, its files belong together and its cached
\* index is the one on disk (retriever.py 157-165, 197-203).
THEOREM StoreIsOK == Spec => []StoreOK
<1>1. IInv => StoreOK
  BY ShapeSays DEF IInv, Quiet, StoreOK
<1> QED BY <1>1, Invariant, PTL

\* A fresh search finds something in every subject that was indexed when it was asked,
\* but for subjects whose saves have overlapped with others or with loads and, in this
\* answer, for those whose load was robbed of its cache entry, its victim or its
\* index.faiss (retriever.py 178-179, 200-201, 338-350).
THEOREM SearchesCover == Spec => []FreshAnswersCover
<1>1. IInv => FreshAnswersCover
  BY DEF IInv, Covering
<1> QED BY <1>1, Invariant, PTL
-----------------------------------------------------------------------------
\* What the promise remembers and has given changes with QUERY_CACHE and answer.
LEMMA PromiseKeeps ==
  /\ UNCHANGED qcache => UNCHANGED Memory
  /\ UNCHANGED answer => UNCHANGED Given
BY DEF Memory, Given

\* Giving one caller a promised answer is a step of the promise.
LEMMA PromiseGives ==
  ASSUME Shape, NEW x \in Searchers, NEW r \in Answers, answer' = [answer EXCEPT ![x] = r]
  PROVE  Given' = [Given EXCEPT ![x] = [query |-> r.query, docs |-> r.docs]]
<1>1. r # Nothing
  BY NothingAssumption
<1>2. answer'[x] = r /\ \A y \in Searchers : y # x => answer'[y] = answer[y]
  BY DEF Shape, AnswersOK
<1>3. Given' = [y \in Searchers |-> IF answer'[y] = Nothing THEN Nothing
                 ELSE [query |-> answer'[y].query, docs |-> answer'[y].docs]]
  BY DEF Given
<1> QED BY <1>1, <1>2, <1>3 DEF Given

\* Storing an answer in QUERY_CACHE lets the promise remember it.
LEMMA PromiseRemembers ==
  ASSUME Shape, NEW q \in Queries, NEW v \in SUBSET Docs, qcache' = Put(qcache, q, v)
  PROVE  Memory' = [Memory EXCEPT ![q] = v]
<1>0. qcache \in DictOf(Queries, SUBSET Docs)
  BY DEF Shape, CachesOK
<1>1. Has(qcache', q) /\ Get(qcache', q) = v
  BY <1>0, PutReplaces
<1>2. ASSUME NEW c \in Queries, c # q
      PROVE  /\ Has(qcache', c) <=> Has(qcache, c)
             /\ Has(qcache, c) => Get(qcache', c) = Get(qcache, c)
  BY <1>0, <1>2, PutLeaves
<1>3. Memory' = [c \in Queries |-> IF Has(qcache', c) THEN Get(qcache', c) ELSE Nothing]
  BY DEF Memory
<1> QED BY <1>1, <1>2, <1>3 DEF Memory

\* Clearing QUERY_CACHE lets the promise forget.
LEMMA PromiseForgets ==
  ASSUME qcache' = EmptyDict
  PROVE  Memory' = [q \in Queries |-> Nothing]
<1>1. \A q : ~Has(EmptyDict, q)
  BY DEF Has, EmptyDict
<1> QED BY <1>1 DEF Memory

\* What a finished search found is published, and of each subject one document.
LEMMA FoundIsPromised ==
  ASSUME Shape, NEW x \in Searchers
  PROVE  search[x].found \in SUBSET published /\ Promise!OnePerSubject(search[x].found)
<1>1. SearchOK(x)
  BY DEF Shape, ThreadsOK
<1>2. AllSources \subseteq published
  BY DEF AllSources, Sources
<1> QED BY <1>1, <1>2 DEF SearchOK, Promise!OnePerSubject

\* A fresh answer is one the promise allows.
LEMMA FreshIsPromised ==
  ASSUME Shape, NEW x \in Searchers, NEW q \in Queries, NEW docs \in SUBSET published,
         Promise!OnePerSubject(docs), NEW r \in Answers, r.query = q, r.docs = docs,
         answer' = [answer EXCEPT ![x] = r],
         qcache' = qcache \/ qcache' = Put(qcache, q, docs), UNCHANGED published
  PROVE  Promise!Next
<1>1. docs \in SUBSET Docs
  BY DEF Shape, FilesOK
<1>2. Memory' \in {Memory, [Memory EXCEPT ![q] = docs]}
  BY <1>1, PromiseKeeps, PromiseRemembers
<1>3. Given' = [Given EXCEPT ![x] = [query |-> q, docs |-> docs]]
  BY PromiseGives
<1>4. Promise!AnswerFresh(x, q)
  BY <1>2, <1>3 DEF Promise!AnswerFresh
<1> QED BY <1>4 DEF Promise!Next

\* A finished search gives a fresh answer, whether it is remembered or not.
LEMMA EndIsPromised ==
  ASSUME Shape, NEW x \in Searchers, search[x].pc # "idle",
         Reply(x, search[x].query, search[x].found, Spared(x), TRUE),
         qcache' = qcache \/ qcache' = Put(qcache, search[x].query, search[x].found),
         UNCHANGED published
  PROVE  Promise!Next
<1>1. PICK r : /\ r = [query |-> search[x].query, docs |-> search[x].found,
                       had |-> Spared(x), fresh |-> TRUE]
               /\ answer' = [answer EXCEPT ![x] = r]
  BY DEF Reply
<1>2. /\ search[x].query \in Queries /\ search[x].found \in SUBSET Docs
      /\ Spared(x) \in SUBSET Docs
  BY SearchFacts, SparedAreDocs
<1>3. r \in Answers /\ r.query = search[x].query /\ r.docs = search[x].found
  BY <1>1, <1>2 DEF Answers
<1>4. search[x].found \in SUBSET published /\ Promise!OnePerSubject(search[x].found)
  BY FoundIsPromised
<1>5. PICK q \in Queries, docs \in SUBSET published : q = search[x].query /\ docs = search[x].found
  BY <1>2, <1>4
<1>6. /\ Promise!OnePerSubject(docs) /\ r.query = q /\ r.docs = docs
      /\ qcache' = qcache \/ qcache' = Put(qcache, q, docs)
  BY <1>3, <1>4, <1>5
<1> QED BY <1>1, <1>3, <1>6, FreshIsPromised

\* A question answered from QUERY_CACHE is answered with what is remembered.
LEMMA AskIsPromised ==
  ASSUME Shape, NEW x \in Searchers, NEW q \in Queries, Ask(x, q)
  PROVE  Promise!Next \/ UNCHANGED Promise!vars
<1>0. UNCHANGED <<published, qcache>> /\ Settled \in SUBSET Docs
  BY DEF Ask, caches, Settled
<1>1. CASE Has(qcache, q) /\ Reply(x, q, Get(qcache, q), Settled, FALSE)
  <2>1. Get(qcache, q) \in SUBSET Docs
    BY <1>1, GetIsAnItem DEF Shape, CachesOK
  <2>2. PICK r : /\ r = [query |-> q, docs |-> Get(qcache, q), had |-> Settled, fresh |-> FALSE]
                 /\ answer' = [answer EXCEPT ![x] = r]
    BY <1>1 DEF Reply
  <2>3. r \in Answers /\ r.query = q /\ r.docs = Get(qcache, q)
    BY <1>0, <2>1, <2>2 DEF Answers
  <2>4. Memory[q] = Get(qcache, q) /\ Memory[q] # Nothing
    <3>1. Memory[q] = Get(qcache, q)
      BY <1>1 DEF Memory
    <3> QED BY <2>1, <3>1, NothingAssumption
  <2>5. Given' = [Given EXCEPT ![x] = [query |-> q, docs |-> Memory[q]]]
    BY <2>2, <2>3, <2>4, PromiseGives
  <2>6. Promise!AnswerFromMemory(x, q)
    BY <1>0, <2>4, <2>5, PromiseKeeps DEF Promise!AnswerFromMemory
  <2> QED BY <2>6 DEF Promise!Next
<1>2. CASE Reply(x, q, {}, Settled, TRUE)
  <2>1. PICK r : /\ r = [query |-> q, docs |-> {}, had |-> Settled, fresh |-> TRUE]
                 /\ answer' = [answer EXCEPT ![x] = r]
    BY <1>2 DEF Reply
  <2>2. {} \in SUBSET published /\ {} \in SUBSET Docs
    OBVIOUS
  <2>3. r \in Answers /\ r.query = q /\ r.docs = {}
    BY <1>0, <2>1, <2>2 DEF Answers
  <2>4. PICK docs \in SUBSET published : docs = {}
    BY <2>2
  <2>5. Promise!OnePerSubject(docs)
    BY <2>4 DEF Promise!OnePerSubject
  <2> QED BY <1>0, <2>1, <2>3, <2>4, <2>5, FreshIsPromised
<1>3. CASE UNCHANGED answer
  BY <1>0, <1>3, PromiseKeeps DEF Promise!vars
<1> QED BY <1>1, <1>2, <1>3 DEF Ask

\* Every step is a step of the promise or leaves it alone.
LEMMA StepIsPromised == Shape /\ [Next]_vars => [Promise!Next]_(Promise!vars)
<1> SUFFICES ASSUME Shape, [Next]_vars PROVE Promise!Next \/ UNCHANGED Promise!vars
  OBVIOUS
<1>1. ASSUME UNCHANGED <<qcache, answer, published>> PROVE UNCHANGED Promise!vars
  BY <1>1, PromiseKeeps DEF Promise!vars
<1>2. ASSUME NEW t \in Threads, Caching(t) PROVE UNCHANGED Promise!vars
  BY <1>1, <1>2 DEF Caching, Room, Oldest, Pop, Insert, caches
<1>3. ASSUME NEW j \in Jobs, SavePkl(j) PROVE Promise!Next \/ UNCHANGED Promise!vars
  <2>1. th[j].pc = "pkl" /\ JobOK(j)
    BY <1>3 DEF SavePkl, At, Shape, ThreadsOK
  <2>2. th[j].pkl \in Docs
    BY <2>1 DEF JobOK, Shape, FilesOK
  <2>3. published' = published \cup {th[j].pkl} /\ UNCHANGED <<qcache, answer>>
    BY <1>3 DEF SavePkl, caches
  <2>4. CASE th[j].pkl \in published
    BY <1>1, <2>3, <2>4
  <2>5. CASE th[j].pkl \notin published
    <3>1. Promise!Publish
      BY <2>2, <2>3, <2>5, PromiseKeeps DEF Promise!Publish
    <3> QED BY <3>1 DEF Promise!Next
  <2> QED BY <2>4, <2>5
<1>4. ASSUME NEW j \in Jobs, JobStep(j) PROVE Promise!Next \/ UNCHANGED Promise!vars
  <2>1. CASE Build(j) \/ SaveFaiss(j)
    BY <1>1, <2>1 DEF Build, SaveFaiss, caches
  <2> QED BY <1>2, <1>3, <1>4, <2>1, JobIsAThread DEF JobStep, Job
<1>5. ASSUME NEW j \in Jobs, NEW d \in Docs, Upload(j, d) PROVE UNCHANGED Promise!vars
  BY <1>1, <1>5 DEF Upload, caches
<1>6. ASSUME NEW t \in Loads, LoadStep(t) PROVE UNCHANGED Promise!vars
  <2>1. CASE Load(t)
    BY <1>1, <2>1 DEF Load, Probe, GetCached, ReadFaiss, ReadPkl, Query, caches
  <2> QED BY <1>2, <1>6, <2>1, LoadIsAPair DEF LoadStep
<1>7. ASSUME NEW x \in Searchers, SearchStep(x) PROVE Promise!Next \/ UNCHANGED Promise!vars
  <2>1. CASE Merge(x)
    <3>1. UNCHANGED <<qcache, published>> /\ search[x].pc # "idle"
      BY <2>1 DEF Merge, caches
    <3>2. CASE UNCHANGED answer
      BY <1>1, <3>1, <3>2
    <3>3. CASE Reply(x, search[x].query, search[x].found, Spared(x), TRUE)
      BY <3>1, <3>3, EndIsPromised
    <3> QED BY <2>1, <3>2, <3>3 DEF Merge
  <2>2. CASE PutAnswer(x)
    <3>1. /\ UNCHANGED published /\ search[x].pc # "idle"
          /\ Reply(x, search[x].query, search[x].found, Spared(x), TRUE)
          /\ qcache' = Put(qcache, search[x].query, search[x].found)
      BY <2>2 DEF PutAnswer
    <3> QED BY <3>1, EndIsPromised
  <2> QED BY <1>7, <2>1, <2>2 DEF SearchStep
<1>8. ASSUME qcache' = EmptyDict, UNCHANGED <<answer, published>> PROVE Promise!Next
  BY <1>8, PromiseForgets, PromiseKeeps DEF Promise!Next, Promise!Forget
<1>9. ASSUME ClearCaches PROVE Promise!Next
  BY <1>8, <1>9 DEF ClearCaches
<1>10. ASSUME Restart PROVE Promise!Next
  BY <1>8, <1>10 DEF Restart
<1>11. ASSUME UNCHANGED vars PROVE UNCHANGED Promise!vars
  BY <1>1, <1>11 DEF vars, caches, history
<1> QED BY <1>4, <1>5, <1>6, <1>7, <1>9, <1>10, <1>11, AskIsPromised DEF Next

\* Initially the promise has given and remembers nothing.
LEMMA InitIsPromised == Init => Promise!Init
<1> SUFFICES ASSUME Init PROVE Promise!Init
  OBVIOUS
<1>1. \A q : ~Has(EmptyDict, q)
  BY DEF Has, EmptyDict
<1>2. Memory = [q \in Queries |-> Nothing]
  BY <1>1 DEF Init, Memory
<1>3. Given = [x \in Searchers |-> Nothing]
  BY DEF Init, Given
<1> QED BY <1>2, <1>3 DEF Init, Promise!Init

\* Every step of the retriever is one that SearchPromise allows: a fresh answer names
\* published documents, one of each subject at most, and a repeated answer is the
\* one remembered (retriever.py 298-361).
THEOREM PromiseIsKept == Spec => KeepsPromise
<1>1. Shape /\ [Next]_vars => [Promise!Next]_(Promise!vars)
  BY StepIsPromised
<1>2. IInv => Shape
  BY DEF IInv
<1> QED BY <1>1, <1>2, InitIsPromised, Invariant, PTL DEF Spec, KeepsPromise, Promise!Spec
=============================================================================
