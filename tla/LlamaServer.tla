---------------------------- MODULE LlamaServer ----------------------------
(***************************************************************************)
(* llama-server (llama.cpp/tools/server/server.cpp): the threads of the    *)
(* HTTP library put tasks in server_queue and take results from            *)
(* server_response; the main thread takes the tasks one by one, gives them *)
(* to slots, and decodes all the slots in one batch after the other.       *)
(*                                                                         *)
(* One action is one critical section of mutex_tasks or mutex_results, or  *)
(* two of the main thread that no other thread can tell apart.  Tokens are *)
(* counted, not read: which slot an unbound task gets, where a text ends,  *)
(* what llama_decode returns and when a client leaves are left open.       *)
(***************************************************************************)
EXTENDS Subsequence

CONSTANTS
  Requests,   \* HTTP requests, one thread of the pool each
  Shapes,     \* what a request may ask for
  NSlots,     \* n_parallel
  NCtx,       \* context of a slot, in tokens
  NBatch,     \* llama_n_batch
  NUBatch,    \* llama_n_ubatch
  AnySlot,    \* id_slot of a task that takes any slot
  NoTask      \* id_task of a slot that had none

Slots == 0 .. NSlots - 1

\* type "quick": METRICS when id_slot is AnySlot, else a SLOT_SAVE, SLOT_RESTORE or
\* SLOT_ERASE.  valid: the prompt's tokens and the grammar are accepted.
Shape == [type : {"completion", "embedding", "quick"}, tasks : Nat \ {0}, prompt : Nat,
          n_predict : Nat, id_slot : Int \cup {AnySlot}, stream : BOOLEAN, valid : BOOLEAN]

ASSUME ShapesAssumption == Shapes \subseteq Shape
ASSUME SizesAssumption ==
  /\ NSlots \in Nat \ {0} /\ NCtx \in Nat \ {0} /\ NBatch \in Nat \ {0}
  /\ NUBatch \in 1 .. NBatch
ASSUME NoTaskAssumption == NoTask \notin [req : Requests, n : Nat]

VARIABLES
  shape,                 \* what each request asks for
  http,                  \* where the thread of each request is
  open,                  \* requests whose client is connected
  got,                   \* what each request received so far
  waiting_task_ids,      \* server_response
  queue_results,
  queue_tasks,           \* server_queue
  queue_tasks_deferred,
  slots,                 \* server_slot of each slot
  main,                  \* the main thread: where it is, and its local variables
  wasted                 \* history: a deferred task was woken up and took no slot

requests == <<shape, http, open, got>>
results == <<waiting_task_ids, queue_results>>
tasks == <<queue_tasks, queue_tasks_deferred>>
vars == <<requests, results, tasks, slots, main, wasted>>

Id(r, n) == [req |-> r, n |-> n]
Ids(r) == { Id(r, n) : n \in 1 .. shape[r].tasks }
Asked(t) == shape[t.req]

NextResponse == [kind |-> "next"]

IdleSlot == [state |-> "IDLE", id_task |-> NoTask, n_past |-> 0, n_decoded |-> 0,
             n_sent |-> 0, i_batch |-> -1]
Processing == { s \in Slots : slots[s].state # "IDLE" }

At(pc) == [pc |-> pc, task |-> NextResponse, cursor |-> 0, lead |-> "none",
           n_tokens |-> 0, i |-> 0, n_batch |-> NBatch]

Init ==
  /\ shape \in [Requests -> Shapes]
  /\ http = [r \in Requests |-> "new"]
  /\ open = Requests
  /\ got = [r \in Requests |-> [finals |-> {}, text |-> [n \in 1 .. shape[r].tasks |-> 0],
                                outcome |-> "none"]]
  /\ waiting_task_ids = {} /\ queue_results = << >>
  /\ queue_tasks = << >> /\ queue_tasks_deferred = << >>
  /\ slots = [s \in Slots |-> IdleSlot]
  /\ main = At("take")
  /\ wasted = FALSE
-----------------------------------------------------------------------------
\* server_queue and server_response, each operation under its mutex.

Work(id) == [kind |-> "work", id |-> id, woken |-> FALSE]
Cancel(id) == [kind |-> "cancel", id |-> id]

\* cleanup_pending_task compares id_target, which only cancellations have: it
\* removes an earlier cancellation of the same task.
CleanupPending(q, ids) ==
  Part(q, { i \in DOMAIN q : ~(q[i].kind = "cancel" /\ q[i].id \in ids) })

\* Mutant: a task that finds no slot is dropped.
DeferTask_Drops(e) == UNCHANGED queue_tasks_deferred

\* defer
DeferTask(e) == queue_tasks_deferred' = Append(queue_tasks_deferred, [e EXCEPT !.woken = FALSE])

\* Mutant: the slot goes on.
Released_GoesOn(s) == slots[s]

\* release: the slot keeps id_task and i_batch; what else it keeps is not read.
Released(s) == [IdleSlot EXCEPT !.id_task = slots[s].id_task, !.i_batch = slots[s].i_batch]

\* Mutant: a release wakes nobody up.
Wake_Nobody == UNCHANGED tasks

\* pop_deferred_task: the release of a slot that was processing wakes up one
\* deferred task, whichever slot that task wants.
Wake ==
  IF queue_tasks_deferred = << >> THEN UNCHANGED tasks
  ELSE /\ queue_tasks' = <<[Head(queue_tasks_deferred) EXCEPT !.woken = TRUE]>> \o queue_tasks
       /\ queue_tasks_deferred' = Tail(queue_tasks_deferred)

\* send: dropped unless somebody waits for it.
Sent(q, res) == IF res.id \in waiting_task_ids THEN Append(q, res) ELSE q

Final(id, upto) == [id |-> id, kind |-> "final", upto |-> upto]
Error(id) == [id |-> id, kind |-> "error"]
Partial(id, from, upto) == [id |-> id, kind |-> "partial", from |-> from, upto |-> upto]
-----------------------------------------------------------------------------
\* The thread of a request.

\* get_new_id, add_waiting_tasks
Register(r) ==
  /\ http[r] = "new"
  /\ http' = [http EXCEPT ![r] = "registered"]
  /\ waiting_task_ids' = waiting_task_ids \cup Ids(r)
  /\ UNCHANGED <<shape, open, got, queue_results, tasks, slots, main, wasted>>

\* post; METRICS has priority.
Post(r) ==
  LET work == [n \in 1 .. shape[r].tasks |-> Work(Id(r, n))]
      first == shape[r].type = "quick" /\ shape[r].id_slot = AnySlot
  IN /\ http[r] = "registered"
     /\ http' = [http EXCEPT ![r] = "receiving"]
     /\ queue_tasks' = IF first THEN work \o queue_tasks ELSE queue_tasks \o work
     /\ UNCHANGED <<shape, open, got, results, queue_tasks_deferred, slots, main, wasted>>

Disconnect(r) ==
  /\ r \in open /\ http[r] = "receiving"
  /\ open' = open \ {r}
  /\ UNCHANGED <<shape, http, got, results, tasks, slots, main, wasted>>

\* Mutant: the newest result for one of the tasks.
FirstFor_Newest(r) ==
  LET mine == { i \in DOMAIN queue_results : queue_results[i].id.req = r }
  IN CHOOSE i \in mine : \A j \in mine : j <= i

\* The first result for one of the tasks.
FirstFor(r) ==
  LET mine == { i \in DOMAIN queue_results : queue_results[i].id.req = r }
  IN CHOOSE i \in mine : \A j \in mine : i <= j

Without(q, i) == SubSeq(q, 1, i - 1) \o SubSeq(q, i + 1, Len(q))

\* A quick task is awaited with recv, which never looks at the connection.
Quick(r) == shape[r].type = "quick"
Left(r) == r \notin open /\ ~Quick(r)

HasResult(r, kind) ==
  /\ http[r] = "receiving" /\ ~Left(r)
  /\ \E i \in DOMAIN queue_results : queue_results[i].id.req = r
  /\ queue_results[FirstFor(r)].kind = kind

\* Mutant: the results that came stay.
Forget_KeepsResults(r) ==
  waiting_task_ids' = waiting_task_ids \ Ids(r) /\ UNCHANGED queue_results

\* remove_waiting_task_id of each task: the results that came are removed too.
Forget(r) ==
  /\ waiting_task_ids' = waiting_task_ids \ Ids(r)
  /\ queue_results' =
       Part(queue_results, { i \in DOMAIN queue_results : queue_results[i].id.req # r })

ReceivePartial(r) ==
  /\ HasResult(r, "partial")
  /\ LET res == queue_results[FirstFor(r)]
     IN got' = [got EXCEPT ![r].text[res.id.n] = res.upto]
  /\ queue_results' = Without(queue_results, FirstFor(r))
  /\ UNCHANGED <<shape, http, open, waiting_task_ids, tasks, slots, main, wasted>>

\* The request is answered when every task has sent its final result.
ReceiveFinal(r) ==
  /\ HasResult(r, "final")
  /\ LET n == queue_results[FirstFor(r)].id.n
         all == Cardinality(got[r].finals \cup {n}) = shape[r].tasks
     IN /\ got' = [got EXCEPT ![r].finals = @ \cup {n},
                              ![r].outcome = IF all THEN "ok" ELSE @]
        /\ http' = IF all THEN [http EXCEPT ![r] = "leaving"] ELSE http
  /\ queue_results' = Without(queue_results, FirstFor(r))
  /\ UNCHANGED <<shape, open, waiting_task_ids, tasks, slots, main, wasted>>

\* The first error ends the request; cancel_tasks begins, and nobody waits for
\* the other tasks any more.
ReceiveError(r) ==
  /\ HasResult(r, "error")
  /\ got' = [got EXCEPT ![r].outcome = "error"]
  /\ http' = [http EXCEPT ![r] = IF Quick(r) THEN "leaving" ELSE "cancelling"]
  /\ IF Quick(r) THEN /\ queue_results' = Without(queue_results, FirstFor(r))
                      /\ UNCHANGED waiting_task_ids
     ELSE Forget(r)
  /\ UNCHANGED <<shape, open, tasks, slots, main, wasted>>

\* recv_with_timeout returned, with a result or without, or a chunk could not be
\* written, and the client is gone.
GiveUp(r) ==
  /\ http[r] = "receiving" /\ Left(r)
  /\ got' = [got EXCEPT ![r].outcome = "left"]
  /\ http' = [http EXCEPT ![r] = "cancelling"]
  /\ Forget(r)
  /\ UNCHANGED <<shape, open, tasks, slots, main, wasted>>

\* What a client has read: nothing.
Unread(r) == got[r].finals = {} /\ \A n \in DOMAIN got[r].text : got[r].text[n] = 0

\* The client of a stream is gone before the content provider was called for the first
\* time: receive_cmpl_results_stream never runs, and on_complete only stops the waiting.
\* The tasks go on, and what they have sent stays where it is.
GiveUpUnread(r) ==
  /\ http[r] = "receiving" /\ Left(r) /\ shape[r].stream /\ Unread(r)
  /\ got' = [got EXCEPT ![r].outcome = "left"]
  /\ http' = [http EXCEPT ![r] = "leaving"]
  /\ UNCHANGED <<shape, open, results, tasks, slots, main, wasted>>

\* cancel_tasks, second part: each cancellation goes to the front of the queue.
PostCancels(r) ==
  /\ http[r] = "cancelling"
  /\ http' = [http EXCEPT ![r] = "gone"]
  /\ queue_tasks' = [n \in 1 .. shape[r].tasks |-> Cancel(Id(r, shape[r].tasks + 1 - n))]
                      \o CleanupPending(queue_tasks, Ids(r))
  /\ queue_tasks_deferred' = CleanupPending(queue_tasks_deferred, Ids(r))
  /\ UNCHANGED <<shape, open, got, results, slots, main, wasted>>

\* remove_waiting_task_ids does not remove results; remove_waiting_task_id, for
\* a quick task, does.
Leave(r) ==
  /\ http[r] = "leaving"
  /\ http' = [http EXCEPT ![r] = "gone"]
  /\ IF Quick(r) THEN Forget(r)
     ELSE waiting_task_ids' = waiting_task_ids \ Ids(r) /\ UNCHANGED queue_results
  /\ UNCHANGED <<shape, open, got, tasks, slots, main, wasted>>
-----------------------------------------------------------------------------
\* The main thread: start_loop.

\* NEXT_RESPONSE is only there to be taken.
TakeTask ==
  /\ main.pc \in {"take", "wait"} /\ queue_tasks # << >>
  /\ main' = IF Head(queue_tasks) = NextResponse THEN At("take")
             ELSE [At("handle") EXCEPT !.task = Head(queue_tasks)]
  /\ queue_tasks' = Tail(queue_tasks)
  /\ UNCHANGED <<requests, results, queue_tasks_deferred, slots, wasted>>

\* The slots a task can be given to: the one it names, which may not exist, or
\* any that is not processing.
Wanted(t) == IF Asked(t).id_slot = AnySlot THEN Slots ELSE Slots \cap {Asked(t).id_slot}

InHand(kind) == main.pc = "handle" /\ main.task.kind = kind
Handled == main' = At("take")

\* launch_slot_with_task
Launch(s) ==
  /\ InHand("work") /\ Asked(main.task.id).type # "quick"
  /\ s \in Wanted(main.task.id) \ Processing
  /\ IF Asked(main.task.id).valid
     THEN /\ slots' = [slots EXCEPT ![s] = [IdleSlot EXCEPT !.state = "STARTED",
                         !.id_task = main.task.id, !.i_batch = slots[s].i_batch]]
          /\ UNCHANGED <<results, wasted>>
     ELSE /\ slots' = [slots EXCEPT ![s].id_task = main.task.id]
          /\ queue_results' = Sent(queue_results, Error(main.task.id))
          /\ wasted' = (wasted \/ main.task.woken)
          /\ UNCHANGED waiting_task_ids
  /\ Handled
  /\ UNCHANGED <<requests, tasks>>

\* No slot is available, or the requested slot is unavailable.  A slot that does
\* not exist is never available; only the quick tasks look whether it exists.
Defer ==
  /\ InHand("work")
  /\ LET t == main.task.id
     IN /\ Wanted(t) \subseteq Processing
        /\ Quick(t.req) => Asked(t).id_slot \in Slots
        /\ wasted' = (wasted \/ (main.task.woken /\ Wanted(t) = {}))
  /\ DeferTask(main.task)
  /\ Handled
  /\ UNCHANGED <<requests, results, queue_tasks, slots>>

\* METRICS and the SLOT tasks are answered at once.
AnswerQuick ==
  /\ InHand("work") /\ Quick(main.task.id.req)
  /\ LET t == main.task.id
     IN /\ Asked(t).id_slot \in Slots => Asked(t).id_slot \notin Processing
        /\ queue_results' = Sent(queue_results,
             IF Asked(t).id_slot \in Slots \cup {AnySlot} THEN Final(t, 0) ELSE Error(t))
  /\ wasted' = (wasted \/ main.task.woken)
  /\ Handled
  /\ UNCHANGED <<requests, waiting_task_ids, tasks, slots>>

\* The first slot that has, or had, the task is released.
HandleCancel ==
  /\ InHand("cancel")
  /\ LET having == { s \in Slots : slots[s].id_task = main.task.id }
         s == CHOOSE s \in having : \A u \in having : s <= u
     IN IF having = {} \/ s \notin Processing THEN UNCHANGED <<slots, tasks>>
        ELSE slots' = [slots EXCEPT ![s] = Released(s)] /\ Wake
  /\ Handled
  /\ UNCHANGED <<requests, results, wasted>>

-----------------------------------------------------------------------------
\* The main thread: update_slots.

First(ss) == CHOOSE s \in ss : \A u \in ss : s <= u
Type(s) == Asked(slots[s].id_task).type
Prompt(s) == Asked(slots[s].id_task).prompt
Generating == { s \in Slots : slots[s].state = "GENERATING" }

\* All slots are idle: the loop waits for a task.
AllIdle ==
  /\ main.pc = "take" /\ queue_tasks = << >> /\ Processing = {}
  /\ main' = At("wait")
  /\ UNCHANGED <<requests, results, tasks, slots, wasted>>

\* The loop over the slots that have a prompt to process, after slot s.  It ends
\* when a slot was looked at that can be batched, or is idle, and the batch is
\* full; without a token there is nothing to decode.
Fill(lead, n_tokens, s, joined) ==
  LET batchable(u) == u \in Processing => Type(u) = lead
      next == { u \in Processing : /\ u > s /\ batchable(u)
                                   /\ slots[u].state \in {"STARTED", "PROCESSING_PROMPT"} }
      seen == { u \in Slots : u > s /\ batchable(u) /\ \A v \in next : u < v }
  IN IF next = {} \/ (n_tokens >= NBatch /\ (joined \/ seen # {}))
     THEN IF n_tokens = 0 THEN At("wait") ELSE [At("decode") EXCEPT !.n_tokens = n_tokens]
     ELSE [At("fill") EXCEPT !.lead = lead, !.n_tokens = n_tokens, !.cursor = First(next)]

\* Mutant: nothing makes the loop come back.
ComeBack_Sleeps == UNCHANGED queue_tasks

\* NEXT_RESPONSE makes the loop come back while a slot is processing.
ComeBack == queue_tasks' = << NextResponse >>

\* The batch takes the type of the first slot in it: first come the sampled
\* tokens of the slots that generate.  (The context shift is off, and in a context
\* of more than one token no slot gets to the limit: ContextNeverOverrun.)
StartBatch ==
  LET lead == IF Generating # {} THEN First(Generating) ELSE First(Processing)
      batched == { s \in Generating : Type(s) = Type(lead) }
  IN /\ main.pc = "take" /\ queue_tasks = << >> /\ Processing # {}
     /\ ComeBack
     /\ slots' = [s \in Slots |-> IF s \notin batched THEN slots[s]
                    ELSE [slots[s] EXCEPT !.n_past = @ + 1,
                            !.i_batch = Cardinality({ u \in batched : u < s })]]
     /\ main' = Fill(Type(lead), Cardinality(batched), -1, FALSE)
     /\ UNCHANGED <<requests, results, queue_tasks_deferred, wasted>>

Joining(s) == main.pc = "fill" /\ main.cursor = s
FillNext(s, n_tokens, joined) == main' = Fill(main.lead, n_tokens, s, joined)

\* An embedding is computed in one micro-batch; any other prompt leaves room for
\* a token.
TooLarge(s) ==
  IF Type(s) = "embedding" THEN Prompt(s) > NUBatch \/ Prompt(s) > NCtx ELSE Prompt(s) >= NCtx

\* A prompt that is empty is answered, one that is too large is refused.
Refuse(s) ==
  /\ Joining(s) /\ slots[s].state = "STARTED"
  /\ Prompt(s) = 0 \/ TooLarge(s)
  /\ slots' = [slots EXCEPT ![s] = Released(s)]
  /\ Wake
  /\ LET id == slots[s].id_task
     IN queue_results' = Sent(queue_results, IF Prompt(s) = 0 THEN Final(id, 0) ELSE Error(id))
  /\ FillNext(s, main.n_tokens, FALSE)
  /\ UNCHANGED <<requests, waiting_task_ids, wasted>>

\* As much of the prompt as fits joins the batch; an embedding joins whole or
\* waits for the next batch.
AddPrompt(s) ==
  LET P == Prompt(s)
      past == IF slots[s].state = "STARTED" THEN 0 ELSE slots[s].n_past
      room == IF main.n_tokens < NBatch THEN NBatch - main.n_tokens ELSE 0
      k == IF P - past <= room THEN P - past ELSE room
      waits == Type(s) = "embedding" /\ main.n_tokens + P > NBatch
  IN /\ Joining(s)
     /\ \/ slots[s].state = "STARTED" /\ P # 0 /\ ~TooLarge(s)
        \/ slots[s].state = "PROCESSING_PROMPT"
     /\ \/ /\ waits
           /\ slots' = [slots EXCEPT ![s].state = "PROCESSING_PROMPT", ![s].n_past = past]
           /\ FillNext(s, main.n_tokens, FALSE)
        \/ /\ ~waits /\ past + k < P
           /\ slots' = [slots EXCEPT ![s].state = "PROCESSING_PROMPT", ![s].n_past = past + k]
           /\ FillNext(s, main.n_tokens + k, TRUE)
        \/ /\ ~waits /\ past + k = P
           /\ slots' = [slots EXCEPT ![s].state = "DONE_PROMPT", ![s].n_past = P,
                          ![s].n_decoded = 0, ![s].i_batch = main.n_tokens + k - 1]
           /\ FillNext(s, main.n_tokens + k, TRUE)
     /\ UNCHANGED <<requests, results, tasks, wasted>>

\* Mutant: the last part of the batch is as large as the others.
Upto_Whole == main.i + main.n_batch

\* Where the part of the batch that is decoded next ends.
Upto == IF main.n_batch <= main.n_tokens - main.i THEN main.i + main.n_batch ELSE main.n_tokens

\* The slots whose last token is in the part decoded, in their order; then the
\* next part, with the size of the batch restored.
Emit(s) ==
  LET view == { u \in Slots : u > s /\ slots[u].i_batch \in main.i .. Upto - 1 }
  IN IF view # {} THEN [main EXCEPT !.pc = "emit", !.cursor = First(view)]
     ELSE IF Upto = main.n_tokens THEN At("wait")
     ELSE [At("decode") EXCEPT !.n_tokens = main.n_tokens, !.i = Upto]

\* llama_decode of the next part of the batch: it succeeds, finds no room in the
\* KV cache, which is tried again with half the size, or fails.
Decode ==
  /\ main.pc = "decode"
  /\ \/ main' = Emit(-1)
     \/ main.n_batch > 1 /\ main' = [main EXCEPT !.n_batch = @ \div 2]
     \/ main' = At("fail")
  /\ UNCHANGED <<requests, results, tasks, slots, wasted>>

\* A failure releases every slot, and every slot sends an error, for the task it
\* has or the last one it had.
FailSlot(s) ==
  /\ main.pc = "fail" /\ main.cursor = s
  /\ slots' = [slots EXCEPT ![s] = IF s \in Processing THEN Released(s) ELSE @]
  /\ IF s \in Processing THEN Wake ELSE UNCHANGED tasks
  /\ queue_results' = Sent(queue_results, Error(slots[s].id_task))
  /\ main' = IF s = NSlots - 1 THEN At("wait") ELSE [main EXCEPT !.cursor = @ + 1]
  /\ UNCHANGED <<requests, waiting_task_ids, wasted>>

Emitting(s) == main.pc = "emit" /\ main.cursor = s
EmitNext(s) == main' = Emit(s)

SendEmbedding(s) ==
  /\ Emitting(s) /\ slots[s].state = "DONE_PROMPT" /\ Type(s) = "embedding"
  /\ queue_results' = Sent(queue_results, Final(slots[s].id_task, 0))
  /\ slots' = [slots EXCEPT ![s] = [Released(s) EXCEPT !.i_batch = -1]]
  /\ Wake
  /\ EmitNext(s)
  /\ UNCHANGED <<requests, waiting_task_ids, wasted>>

\* Mutant: one token too many.
AtLimit_Off(s) ==
  \/ slots[s].n_past >= NCtx
  \/ slots[s].n_decoded + 1 >= Asked(slots[s].id_task).n_predict

\* process_token: the context or the budget is used up.
AtLimit(s) ==
  \/ slots[s].n_past + 1 >= NCtx
  \/ slots[s].n_decoded + 1 >= Asked(slots[s].id_task).n_predict

\* A token is sampled.  held: its text ends within a character or may begin a
\* stop word, so it is sent with a later one.  stop: the text ends here.
Sample(s, held, stop) ==
  LET id == slots[s].id_task
      n == slots[s].n_decoded + 1
      piece == IF held \/ ~Asked(id).stream THEN queue_results
               ELSE Sent(queue_results, Partial(id, slots[s].n_sent, n))
  IN /\ Emitting(s)
     /\ \/ slots[s].state = "DONE_PROMPT" /\ Type(s) # "embedding"
        \/ slots[s].state = "GENERATING"
     /\ AtLimit(s) => stop
     /\ IF stop
        THEN /\ slots' = [slots EXCEPT ![s] = [Released(s) EXCEPT !.i_batch = -1]]
             /\ Wake
             /\ queue_results' = IF id \in waiting_task_ids THEN Append(piece, Final(id, n))
                                 ELSE piece
        ELSE /\ slots' = [slots EXCEPT ![s].state = "GENERATING", ![s].i_batch = -1,
                            ![s].n_decoded = n, ![s].n_sent = IF held THEN @ ELSE n]
             /\ queue_results' = piece
             /\ UNCHANGED tasks
     /\ EmitNext(s)
     /\ UNCHANGED <<requests, waiting_task_ids, wasted>>

\* A position left by a batch that failed: the slot has not come to its last
\* token yet, or is idle.
NotYet(s) ==
  /\ Emitting(s) /\ slots[s].state \in {"IDLE", "STARTED", "PROCESSING_PROMPT"}
  /\ EmitNext(s)
  /\ UNCHANGED <<requests, results, tasks, slots, wasted>>

-----------------------------------------------------------------------------
Request(r) ==
  \/ Register(r) \/ Post(r)
  \/ ReceivePartial(r) \/ ReceiveFinal(r) \/ ReceiveError(r)
  \/ GiveUp(r) \/ GiveUpUnread(r) \/ PostCancels(r) \/ Leave(r)

MainLoop ==
  \/ TakeTask \/ Defer \/ AnswerQuick \/ HandleCancel \/ AllIdle \/ StartBatch \/ Decode
  \/ \E s \in Slots :
       \/ Launch(s) \/ Refuse(s) \/ AddPrompt(s) \/ FailSlot(s)
       \/ SendEmbedding(s) \/ NotYet(s)
       \/ \E held, stop \in BOOLEAN : Sample(s, held, stop)

Next ==
  \/ \E r \in Requests : Request(r) \/ Disconnect(r)
  \/ MainLoop

Spec == Init /\ [][Next]_vars

\* The main thread and the threads of the requests run on; clients need not
\* leave.
Fairness == WF_vars(MainLoop) /\ \A r \in Requests : WF_vars(Request(r))
FairSpec == Spec /\ Fairness
-----------------------------------------------------------------------------
State == {"IDLE", "STARTED", "PROCESSING_PROMPT", "DONE_PROMPT", "GENERATING"}

TypeOK ==
  /\ shape \in [Requests -> Shapes] /\ open \subseteq Requests
  /\ http \in [Requests -> {"new", "registered", "receiving", "cancelling", "leaving", "gone"}]
  /\ waiting_task_ids \subseteq UNION { Ids(r) : r \in Requests }
  /\ \A s \in Slots : /\ slots[s].state \in State
                      /\ s \in Processing => slots[s].id_task.req \in Requests
                      /\ slots[s].n_past \in 0 .. NCtx
                      /\ slots[s].n_sent \in 0 .. slots[s].n_decoded
  /\ main.n_batch \in 1 .. NBatch /\ main.i \in 0 .. main.n_tokens
  /\ wasted \in BOOLEAN

Works(q, id) == { i \in DOMAIN q : q[i].kind = "work" /\ q[i].id = id }
Places(id) ==
  Cardinality(Works(queue_tasks, id)) + Cardinality(Works(queue_tasks_deferred, id))
    + Cardinality({ s \in Processing : slots[s].id_task = id })
    + (IF InHand("work") /\ main.task.id = id THEN 1 ELSE 0)
Replies(id, kinds) ==
  { i \in DOMAIN queue_results : queue_results[i].id = id /\ queue_results[i].kind \in kinds }

\* As long as a request is awaited, each of its tasks is in one place, queued,
\* deferred, in hand or in a slot, until it has been replied to, and then in none
\* (2911-3127, 3129-3872).
NoTaskLost ==
  \A r \in Requests : http[r] = "receiving" =>
    \A id \in Ids(r) :
      Places(id) = IF id.n \in got[r].finals \/ Replies(id, {"final", "error"}) # {} THEN 0 ELSE 1

\* No task is replied to twice, but for the errors of a failed batch, and a final
\* result comes last.
FinalOnce ==
  \A r \in Requests : \A id \in Ids(r) :
    /\ Cardinality(Replies(id, {"final"})) + Cardinality({id.n} \cap got[r].finals) <= 1
    /\ \A i \in Replies(id, {"final"}), j \in Replies(id, {"partial"}) : j < i

\* The pieces of a stream reach the client in order and without a gap: what it
\* has, then the pieces under way, up to what the slot has sent.
StreamInOrder ==
  \A r \in Requests : http[r] = "receiving" => \A id \in Ids(r) :
    LET pieces == Part(queue_results, Replies(id, {"partial"}))
        ends == [k \in 0 .. Len(pieces) |-> IF k = 0 THEN got[r].text[id.n] ELSE pieces[k].upto]
    IN /\ \A k \in 1 .. Len(pieces) : pieces[k].from = ends[k - 1]
       /\ \A s \in Processing : slots[s].id_task = id /\ shape[r].stream =>
            slots[s].n_sent = ends[Len(pieces)]

\* A result nobody waits for stays in the queue for good.  There are two kinds
\* (remove_waiting_task_ids, 1945-1952): errors of a failed batch, sent for a task that
\* had its final result (3646-3649), and what was sent for a stream whose client left
\* before it read anything (4540-4542).
OrphansKnown ==
  \A i \in DOMAIN queue_results : queue_results[i].id \notin waiting_task_ids =>
    LET r == queue_results[i].id.req
    IN \/ queue_results[i].kind = "error" /\ got[r].outcome = "ok"
       \/ got[r].outcome = "left" /\ shape[r].stream /\ Unread(r)

\* A deferred task that has a slot to wait for is woken up some time: a slot that
\* it will be released is processing, or a task is on its way that was woken up.
\* A task that is woken up and does not take a slot breaks the chain.
WakeupComing ==
  (\E i \in DOMAIN queue_tasks_deferred : Wanted(queue_tasks_deferred[i].id) # {}) =>
    \/ wasted \/ Processing # {}
    \/ InHand("work") /\ main.task.woken
    \/ \E i \in DOMAIN queue_tasks : queue_tasks[i].kind = "work" /\ queue_tasks[i].woken

\* Every task has one place, one reply, and which replies are left behind is known.
TasksOK == TypeOK /\ NoTaskLost /\ FinalOnce /\ OrphansKnown

\* "we should never get here, because generation should already stopped in
\* process_token()" (3163-3168)
ContextNeverOverrun ==
  main.pc = "take" => \A s \in Processing : slots[s].n_past + 1 < NCtx

\* A request that waits for a slot that exists is answered or given up, unless
\* the chain of wake-ups was broken.
Served ==
  \A r \in Requests :
    (http[r] = "receiving" /\ (Quick(r) \/ \E id \in Ids(r) : Wanted(id) # {}))
      ~> (http[r] # "receiving" \/ wasted)

\* "Add a new task, but defer until one slot is available" (1793)
DeferredUntilFree ==
  \A r \in Requests :
    (\E i \in DOMAIN queue_tasks_deferred : LET id == queue_tasks_deferred[i].id
       IN id.req = r /\ ~(Wanted(id) \subseteq Processing))
    ~> (r \notin open \/ ~\E i \in DOMAIN queue_tasks_deferred : queue_tasks_deferred[i].id.req = r)
=============================================================================
