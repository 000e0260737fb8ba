------------------------- MODULE LlamaServerProofs -------------------------
(***************************************************************************)
(* Four of the promises of llama-server, for any requests, any number of   *)
(* slots and any sizes of the context and the batches:                     *)
(*   no slot gets to the end of its context;                               *)
(*   a deferred task will be woken up, unless a task that was woken up     *)
(*   took no slot;                                                         *)
(*   as long as a request is awaited each of its tasks is in one place     *)
(*   until it has its one final result, and the results that are left for  *)
(*   good are known;                                                       *)
(*   the text of a stream arrives in order and without a gap.              *)
(***************************************************************************)
EXTENDS LlamaServer, OperatorTheorems

TaskId == [req : Requests, n : Nat]
Ends == [kind : {"cancel"}, id : TaskId]
Begins == [kind : {"work"}, id : TaskId, woken : BOOLEAN]
Entry == {NextResponse} \cup Ends \cup Begins

Types == {"completion", "embedding", "quick"}
Slot == [state : State, id_task : TaskId \cup {NoTask}, n_past : Nat, n_decoded : Nat,
         n_sent : Nat, i_batch : Int]
MainThread ==
  [pc : {"take", "wait", "handle", "fill", "decode", "emit", "fail"}, task : Entry,
   cursor : Int, lead : Types \cup {"none"}, n_tokens : Nat, i : Nat, n_batch : Nat \ {0}]

\* The types of what the theorems are about.
Typed ==
  /\ shape \in [Requests -> Shapes]
  /\ queue_tasks \in Seq(Entry) /\ queue_tasks_deferred \in Seq(Begins)
  /\ slots \in [Slots -> Slot] /\ main \in MainThread

\* What a slot with a prompt has processed of it: nothing when it starts; an
\* embedding waits whole; any other prompt leaves room for a token.
Within(sh, sl) ==
  /\ sl.state # "IDLE" => sl.id_task \in TaskId
  /\ sl.state = "STARTED" => sl.n_past = 0
  /\ sl.state = "PROCESSING_PROMPT" =>
       LET asked == sh[sl.id_task.req]
       IN  /\ sl.n_past < asked.prompt
           /\ (asked.type = "embedding" /\ sl.n_past = 0) \/ asked.prompt < NCtx

\* The end of the part of the batch that is decoded, and the slots whose token the
\* main thread still has to come to: in the batch it fills, in what is left of the
\* batch it decodes, or among the slots it fails.
EndOf(m) == IF m.n_batch <= m.n_tokens - m.i THEN m.i + m.n_batch ELSE m.n_tokens
Awaits(s, i_batch, m) ==
  \/ m.pc = "fill" /\ i_batch \in 0 .. m.n_tokens - 1
  \/ m.pc = "decode" /\ i_batch \in m.i .. m.n_tokens - 1
  \/ /\ m.pc = "emit" /\ i_batch \in m.i .. m.n_tokens - 1
     /\ s < m.cursor => i_batch >= EndOf(m)
  \/ m.pc = "fail" /\ s >= m.cursor

\* A slot whose context may be full is in the batch at hand.
Settled(s, sl, m) ==
  \/ sl.state \in {"IDLE", "STARTED", "PROCESSING_PROMPT"}
  \/ sl.state = "GENERATING" /\ sl.n_past + 1 < NCtx
  \/ Awaits(s, sl.i_batch, m)

SlotOK(sh, s, sl, m) == Within(sh, sl) /\ Settled(s, sl, m)
SlotsOK == \A s \in Slots : SlotOK(shape, s, slots[s], main)

Inv == Typed /\ SlotsOK
-----------------------------------------------------------------------------
\* The sizes as numbers, and the slots as an interval of them.
LEMMA Sizes ==
  /\ NSlots \in Nat /\ 1 <= NSlots /\ NCtx \in Nat /\ NBatch \in Nat /\ 1 <= NBatch
  /\ NUBatch \in Nat /\ Slots \in SUBSET Nat /\ 0 \in Slots
  /\ \A s \in Int : s \in Slots <=> 0 <= s /\ s < NSlots
BY SizesAssumption DEF Slots

\* What a request asks for.
LEMMA Asking ==
  ASSUME shape \in [Requests -> Shapes], NEW r \in Requests
  PROVE  /\ shape[r].type \in Types /\ shape[r].prompt \in Nat /\ shape[r].n_predict \in Nat
         /\ shape[r].tasks \in Nat
<1>1. shape[r] \in Shape
  BY ShapesAssumption
<1> QED BY <1>1 DEF Shape, Types

\* The least of a set of slots.
LEMMA FirstIsLeast ==
  ASSUME NEW ss \in SUBSET Nat, ss # {}
  PROVE  First(ss) \in ss /\ \A u \in ss : First(ss) <= u
<1>1. \E x \in ss : \A y \in ss : x <= y
  BY LeastId
<1> QED BY <1>1 DEF First

\* The main thread at the start of a step of its loop.
LEMMA AtTyped ==
  ASSUME NEW pc \in {"take", "wait", "handle", "fill", "decode", "emit", "fail"}
  PROVE  /\ At(pc) \in MainThread /\ At(pc).pc = pc /\ At(pc).cursor = 0 /\ At(pc).i = 0
         /\ At(pc).n_tokens = 0
BY Sizes DEF At, MainThread, Entry

\* The main thread comes to a slot.
LEMMA ComesTo ==
  ASSUME NEW m \in MainThread, NEW pc \in {"emit", "fail"}, NEW c \in Int
  PROVE  LET e == [m EXCEPT !.pc = pc, !.cursor = c]
         IN  /\ e \in MainThread /\ e.pc = pc /\ e.cursor = c /\ e.i = m.i
             /\ e.n_tokens = m.n_tokens /\ e.n_batch = m.n_batch
BY DEF MainThread

\* The loop that fills the batch, after a slot: what is in the batch is decoded or
\* the loop goes on.
LEMMA Filled ==
  ASSUME NEW lead \in Types \cup {"none"}, NEW n \in Nat, NEW s \in Int, NEW joined \in BOOLEAN
  PROVE  LET m == Fill(lead, n, s, joined)
         IN  /\ m \in MainThread /\ m.pc \in {"wait", "decode", "fill"}
             /\ \A u \in Slots, b \in Int : b \in 0 .. n - 1 => Awaits(u, b, m)
<1> DEFINE batchable(u) == u \in Processing => Type(u) = lead
           next == { u \in Processing : /\ u > s /\ batchable(u)
                                   /\ slots[u].state \in {"STARTED", "PROCESSING_PROMPT"} }
           seen == { u \in Slots : u > s /\ batchable(u) /\ \A v \in next : u < v }
           ends == next = {} \/ (n >= NBatch /\ (joined \/ seen # {}))
           m == Fill(lead, n, s, joined)
           d == [At("decode") EXCEPT !.n_tokens = n]
           f == [At("fill") EXCEPT !.lead = lead, !.n_tokens = n, !.cursor = First(next)]
<1>1. m = IF ends THEN IF n = 0 THEN At("wait") ELSE d ELSE f
  BY DEF Fill
<1>2. next \in SUBSET Nat
  BY Sizes DEF Processing
<1>3. ~ends => First(next) \in Int
  BY <1>2, FirstIsLeast
<1>4. d \in MainThread /\ d.pc = "decode" /\ d.i = 0 /\ d.n_tokens = n
  BY AtTyped DEF MainThread
<1>5. ~ends => f \in MainThread /\ f.pc = "fill" /\ f.n_tokens = n
  <2> HIDE DEF next
  <2> SUFFICES ASSUME First(next) \in Int
               PROVE  f \in MainThread /\ f.pc = "fill" /\ f.n_tokens = n
    BY <1>3
  <2> QED BY AtTyped DEF MainThread
<1>6. At("wait") \in MainThread /\ At("wait").pc = "wait"
  BY AtTyped
<1> HIDE DEF ends, d, f, m
<1>7. CASE ends /\ n = 0
  <2>1. m \in MainThread /\ m.pc = "wait"
    BY <1>1, <1>6, <1>7
  <2> QED BY <1>7, <2>1 DEF m
<1>8. CASE ends /\ n # 0
  <2>1. m \in MainThread /\ m.pc = "decode" /\ m.i = 0 /\ m.n_tokens = n
    BY <1>1, <1>4, <1>8
  <2> QED BY <2>1 DEF m, Awaits
<1>9. CASE ~ends
  <2>1. m \in MainThread /\ m.pc = "fill" /\ m.n_tokens = n
    BY <1>1, <1>5, <1>9
  <2> QED BY <2>1 DEF m, Awaits
<1> QED BY <1>7, <1>8, <1>9

\* The loop over a decoded part of the batch, after a slot: a slot that has not been
\* come to is come to later.
LEMMA Emitted ==
  ASSUME Typed, main.pc \in {"decode", "emit"}, NEW s \in Int
  PROVE  /\ Emit(s) \in MainThread /\ Emit(s).pc \in {"wait", "decode", "emit"}
         /\ \A u \in Slots :
              /\ slots[u].i_batch \in main.i .. main.n_tokens - 1
              /\ u <= s => slots[u].i_batch >= EndOf(main)
              => Awaits(u, slots[u].i_batch, Emit(s))
<1> DEFINE view == { u \in Slots : u > s /\ slots[u].i_batch \in main.i .. Upto - 1 }
           e == [main EXCEPT !.pc = "emit", !.cursor = First(view)]
           d == [At("decode") EXCEPT !.n_tokens = main.n_tokens, !.i = Upto]
<1>1. Emit(s) = IF view # {} THEN e ELSE IF Upto = main.n_tokens THEN At("wait") ELSE d
  BY DEF Emit
<1>2. main \in MainThread /\ slots \in [Slots -> Slot] /\ Upto = EndOf(main)
  BY DEF Typed, Upto, EndOf
<1>3. main.i \in Nat /\ main.n_tokens \in Nat /\ main.n_batch \in Nat /\ 1 <= main.n_batch
  BY <1>2 DEF MainThread
<1>4. Upto \in Nat
  BY <1>3 DEF Upto
<1>5. \A u \in Slots : slots[u].i_batch \in Int /\ u \in Int
  BY <1>2, Sizes DEF Slot
<1>6. view \in SUBSET Nat
  BY Sizes
<1>7. CASE view # {}
  <2>1. PICK c \in Nat : c = First(view) /\ \A u \in view : c <= u
    BY <1>6, <1>7, FirstIsLeast
  <2>2. Emit(s) = [main EXCEPT !.pc = "emit", !.cursor = c]
    BY <1>1, <1>7, <2>1
  <2>3. /\ Emit(s) \in MainThread /\ Emit(s).pc = "emit" /\ Emit(s).cursor = c
        /\ Emit(s).i = main.i /\ Emit(s).n_tokens = main.n_tokens
        /\ Emit(s).n_batch = main.n_batch
    <3>1. "emit" \in {"emit", "fail"} /\ c \in Int
      OBVIOUS
    <3>2. LET e2 == [main EXCEPT !.pc = "emit", !.cursor = c]
          IN  /\ e2 \in MainThread /\ e2.pc = "emit" /\ e2.cursor = c /\ e2.i = main.i
              /\ e2.n_tokens = main.n_tokens /\ e2.n_batch = main.n_batch
      BY <1>2, <3>1, ComesTo, Zenon
    <3> QED BY <2>2, <3>2, Zenon
  <2>4. EndOf(Emit(s)) = EndOf(main)
    BY <2>3 DEF EndOf
  <2>5. ASSUME NEW u \in Slots, slots[u].i_batch \in main.i .. main.n_tokens - 1,
               u <= s => slots[u].i_batch >= EndOf(main)
        PROVE  u < c => slots[u].i_batch >= EndOf(main)
    <3>1. u < c => u \notin view
      BY <2>1, <1>5
    <3>2. u > s /\ slots[u].i_batch < Upto => u \in view
      BY <1>3, <1>4, <1>5, <2>5
    <3>3. u <= s \/ u > s
      BY <1>5
    <3> HIDE DEF view
    <3> QED BY <1>2, <1>4, <1>5, <2>5, <3>1, <3>2, <3>3
  <2> QED BY <2>3, <2>4, <2>5 DEF Awaits
<1>8. CASE view = {}
  <2>1. ASSUME NEW u \in Slots, slots[u].i_batch \in main.i .. main.n_tokens - 1,
               u <= s => slots[u].i_batch >= EndOf(main)
        PROVE  slots[u].i_batch \in Upto .. main.n_tokens - 1
    <3>1. u > s => ~(slots[u].i_batch \in main.i .. Upto - 1)
      BY <1>8
    <3>2. u <= s \/ u > s
      BY <1>5
    <3> QED BY <1>2, <1>3, <1>4, <1>5, <2>1, <3>1, <3>2
  <2>2. CASE Upto = main.n_tokens
    <3>1. Emit(s) = At("wait")
      BY <1>1, <1>8, <2>2
    <3>2. Emit(s) \in MainThread /\ Emit(s).pc = "wait"
      BY <3>1, AtTyped
    <3>3. \A u \in Slots : ~(slots[u].i_batch \in Upto .. main.n_tokens - 1)
      BY <1>3, <1>5, <2>2
    <3> QED BY <2>1, <3>2, <3>3
  <2>3. CASE Upto # main.n_tokens
    <3>1. Emit(s) = d
      BY <1>1, <1>8, <2>3
    <3>2. /\ Emit(s) \in MainThread /\ Emit(s).pc = "decode" /\ Emit(s).i = Upto
          /\ Emit(s).n_tokens = main.n_tokens
      BY <1>3, <1>4, <3>1, AtTyped DEF MainThread
    <3> QED BY <2>1, <3>2 DEF Awaits
  <2> QED BY <2>2, <2>3
<1> QED BY <1>7, <1>8
-----------------------------------------------------------------------------
\* The slots and the main thread after a step.
After ==
  /\ shape' = shape /\ slots' \in [Slots -> Slot] /\ main' \in MainThread
  /\ \A u \in Slots : SlotOK(shape, u, slots'[u], main')

\* A slot that a step leaves alone is settled as before when it still awaits what it
\* awaited; the other slots are shown to be.
LEMMA Carried ==
  ASSUME Inv, shape' = shape, slots' \in [Slots -> Slot], main' \in MainThread,
         \A u \in Slots :
           \/ /\ slots'[u] = slots[u]
              /\ Awaits(u, slots[u].i_batch, main) => Awaits(u, slots[u].i_batch, main')
           \/ SlotOK(shape, u, slots'[u], main')
  PROVE  After
<1> SUFFICES ASSUME NEW u \in Slots, slots'[u] = slots[u],
                    Awaits(u, slots[u].i_batch, main) => Awaits(u, slots[u].i_batch, main')
             PROVE  SlotOK(shape, u, slots'[u], main')
  BY DEF After
<1> QED BY DEF Inv, SlotsOK, SlotOK, Settled

\* A slot that is released is idle.
LEMMA ReleasedIdle ==
  ASSUME Typed, NEW s \in Slots
  PROVE  /\ Released(s) \in Slot /\ Released(s).state = "IDLE"
         /\ [Released(s) EXCEPT !.i_batch = -1] \in Slot
         /\ [Released(s) EXCEPT !.i_batch = -1].state = "IDLE"
<1>1. slots[s].id_task \in TaskId \cup {NoTask} /\ slots[s].i_batch \in Int
  BY DEF Typed, Slot
<1>2. Released(s) \in Slot /\ Released(s).state = "IDLE"
  BY <1>1 DEF Released, IdleSlot, Slot, State
<1> HIDE DEF Released
<1> QED BY <1>2 DEF Slot

\* Nothing is asked of an idle slot.
LEMMA IdleOK ==
  ASSUME NEW sh, NEW s, NEW sl, NEW m, sl.state = "IDLE"
  PROVE  SlotOK(sh, s, sl, m)
BY DEF SlotOK, Within, Settled

\* The main thread is at a place where it has no batch.
LEMMA NoBatch ==
  ASSUME NEW s, NEW b, NEW m, m.pc \in {"take", "wait", "handle"}
  PROVE  ~Awaits(s, b, m)
BY DEF Awaits

LEMMA AfterTake ==
  ASSUME Inv, TakeTask \/ AllIdle \/ Defer \/ AnswerQuick
  PROVE  After
<1>1. slots' = slots /\ shape' = shape /\ main.pc \in {"take", "wait", "handle"}
  BY DEF TakeTask, AllIdle, Defer, AnswerQuick, InHand, requests
<1>2. main' \in MainThread
  <2>1. CASE TakeTask
    <3>1. queue_tasks \in Seq(Entry) /\ queue_tasks # << >>
      BY <2>1 DEF TakeTask, Inv, Typed
    <3>2. PICK e \in Entry : e = Head(queue_tasks)
      BY <3>1
    <3>3. [At("handle") EXCEPT !.task = e] \in MainThread /\ At("take") \in MainThread
      BY AtTyped DEF MainThread
    <3> QED BY <2>1, <3>2, <3>3 DEF TakeTask
  <2>2. CASE AllIdle \/ Defer \/ AnswerQuick
    <3>1. main' = At("wait") \/ main' = At("take")
      BY <2>2 DEF AllIdle, Defer, AnswerQuick, Handled
    <3> QED BY <3>1, AtTyped
  <2> QED BY <2>1, <2>2
<1>3. \A u \in Slots : ~Awaits(u, slots[u].i_batch, main)
  BY <1>1, NoBatch
<1>4. slots' \in [Slots -> Slot]
  BY <1>1 DEF Inv, Typed
<1> QED BY <1>1, <1>2, <1>3, <1>4, Carried

\* The task in hand has an id.
LEMMA InHandTyped ==
  ASSUME Typed, InHand("work")
  PROVE  main.task \in Begins /\ main.task.id \in TaskId
<1>1. main.task \in Entry /\ main.task.kind = "work"
  BY DEF Typed, InHand, MainThread
<1>2. main.task \in Begins
  BY <1>1 DEF Entry, NextResponse, Ends
<1> QED BY <1>2 DEF Begins

LEMMA AfterLaunch ==
  ASSUME Inv, NEW s \in Slots, Launch(s)
  PROVE  After
<1>1. /\ shape' = shape /\ main' = At("take") /\ InHand("work") /\ s \notin Processing
      /\ \/ slots' = [slots EXCEPT ![s] = [IdleSlot EXCEPT !.state = "STARTED",
                         !.id_task = main.task.id, !.i_batch = slots[s].i_batch]]
         \/ slots' = [slots EXCEPT ![s].id_task = main.task.id]
  BY DEF Launch, Handled, requests
<1>2. main' \in MainThread /\ main'.pc = "take" /\ main.pc = "handle"
  BY <1>1, AtTyped DEF InHand
<1>3. PICK t \in TaskId : t = main.task.id
  BY <1>1, InHandTyped DEF Inv
<1>4. slots \in [Slots -> Slot] /\ slots[s] \in Slot /\ slots[s].i_batch \in Int
  BY DEF Inv, Typed, Slot
<1>5. ASSUME NEW v \in Slot, slots' = [slots EXCEPT ![s] = v], SlotOK(shape, s, v, main')
      PROVE  After
  <2>1. /\ slots' \in [Slots -> Slot] /\ slots'[s] = v
        /\ \A u \in Slots : u # s => slots'[u] = slots[u]
    BY <1>4, <1>5
  <2>2. \A u \in Slots : ~Awaits(u, slots[u].i_batch, main)
    BY <1>2, NoBatch
  <2> QED BY <1>1, <1>2, <1>5, <2>1, <2>2, Carried
<1>6. CASE slots' = [slots EXCEPT ![s] = [IdleSlot EXCEPT !.state = "STARTED",
                         !.id_task = main.task.id, !.i_batch = slots[s].i_batch]]
  <2> DEFINE v == [IdleSlot EXCEPT !.state = "STARTED", !.id_task = t, !.i_batch = slots[s].i_batch]
  <2>1. v \in Slot /\ v.state = "STARTED" /\ v.id_task = t /\ v.n_past = 0
    BY <1>4 DEF IdleSlot, Slot, State
  <2>2. slots' = [slots EXCEPT ![s] = v]
    BY <1>3, <1>6
  <2> HIDE DEF v
  <2>3. SlotOK(shape, s, v, main')
    BY <2>1 DEF SlotOK, Within, Settled
  <2> QED BY <1>5, <2>1, <2>2, <2>3
<1>7. CASE slots' = [slots EXCEPT ![s].id_task = main.task.id]
  <2> DEFINE v == [slots[s] EXCEPT !.id_task = t]
  <2>1. slots[s].state = "IDLE"
    BY <1>1 DEF Processing
  <2>2. v \in Slot /\ v.state = "IDLE"
    BY <1>4, <2>1 DEF Slot
  <2>3. slots' = [slots EXCEPT ![s] = v]
    BY <1>3, <1>7
  <2> HIDE DEF v
  <2>4. SlotOK(shape, s, v, main')
    BY <2>2, IdleOK
  <2> QED BY <1>5, <2>2, <2>3, <2>4
<1> QED BY <1>1, <1>6, <1>7

LEMMA AfterCancel ==
  ASSUME Inv, HandleCancel
  PROVE  After
<1>1. /\ shape' = shape /\ main' = At("take") /\ main.pc = "handle"
      /\ slots' = slots \/ \E s \in Slots : slots' = [slots EXCEPT ![s] = Released(s)]
  <2>1. shape' = shape /\ main' = At("take") /\ main.pc = "handle"
    BY DEF HandleCancel, Handled, InHand, requests
  <2> DEFINE having == { s \in Slots : slots[s].id_task = main.task.id }
             t == CHOOSE s \in having : \A u \in having : s <= u
  <2>2. slots' = slots \/ (t \in Processing /\ slots' = [slots EXCEPT ![t] = Released(t)])
    BY DEF HandleCancel
  <2>3. t \in Processing => t \in Slots
    BY DEF Processing
  <2> HIDE DEF t
  <2> QED BY <2>1, <2>2, <2>3
<1>2. main' \in MainThread /\ \A u \in Slots : ~Awaits(u, slots[u].i_batch, main)
  BY <1>1, AtTyped, NoBatch
<1>3. slots \in [Slots -> Slot] /\ Typed
  BY DEF Inv, Typed
<1>4. CASE slots' = slots
  BY <1>1, <1>2, <1>3, <1>4, Carried
<1>5. ASSUME NEW s \in Slots, slots' = [slots EXCEPT ![s] = Released(s)]
      PROVE  After
  <2>1. Released(s) \in Slot /\ SlotOK(shape, s, Released(s), main')
    BY <1>3, ReleasedIdle, IdleOK
  <2> HIDE DEF Released
  <2>2. /\ slots' \in [Slots -> Slot] /\ slots'[s] = Released(s)
        /\ \A u \in Slots : u # s => slots'[u] = slots[u]
    BY <1>3, <1>5, <2>1
  <2> QED BY <1>1, <1>2, <2>1, <2>2, Carried
<1> QED BY <1>1, <1>4, <1>5
-----------------------------------------------------------------------------
\* The type of the prompt of a slot that is processing, and what it is.
LEMMA PromptTyped ==
  ASSUME Inv, NEW s \in Slots, slots[s].state # "IDLE"
  PROVE  Type(s) \in Types /\ Prompt(s) \in Nat /\ slots[s].id_task.req \in Requests
<1>1. slots[s].id_task \in TaskId
  BY DEF Inv, SlotsOK, SlotOK, Within
<1>2. PICK r \in Requests : r = slots[s].id_task.req
  BY <1>1 DEF TaskId
<1>3. shape[r].type \in Types /\ shape[r].prompt \in Nat
  BY Asking DEF Inv, Typed
<1> QED BY <1>2, <1>3 DEF Type, Prompt, Asked

\* A batch begins with a token of each slot of its type that generates, at
\* different places of it.
LEMMA AfterStart ==
  ASSUME Inv, StartBatch
  PROVE  After
<1> DEFINE leader == IF Generating # {} THEN First(Generating) ELSE First(Processing)
           batched == { s \in Generating : Type(s) = Type(leader) }
           place(s) == Cardinality({ u \in batched : u < s })
           n == Cardinality(batched)
<1>1. /\ main.pc = "take" /\ Processing # {} /\ shape' = shape
      /\ slots' = [s \in Slots |-> IF s \notin batched THEN slots[s]
                    ELSE [slots[s] EXCEPT !.n_past = @ + 1, !.i_batch = place(s)]]
      /\ main' = Fill(Type(leader), n, -1, FALSE)
  BY DEF StartBatch, requests
<1>2. Typed /\ SlotsOK
  BY DEF Inv
<1>3. Type(leader) \in Types
  <2>1. /\ Generating \in SUBSET Nat /\ Processing \in SUBSET Nat
        /\ \A s \in Generating \cup Processing : s \in Slots /\ slots[s].state # "IDLE"
    BY Sizes DEF Generating, Processing
  <2>2. leader \in Generating \cup Processing
    BY <1>1, <2>1, FirstIsLeast
  <2> HIDE DEF leader
  <2> QED BY <2>1, <2>2, PromptTyped
<1>4. /\ \A s \in batched : s \in Slots /\ slots[s].state = "GENERATING"
      /\ IsFiniteSet(batched) /\ n \in Nat
      /\ \A s \in batched : place(s) \in 0 .. n - 1
  <2>1. \A s \in batched : s \in Slots /\ slots[s].state = "GENERATING"
    BY DEF Generating
  <2>2. IsFiniteSet(Slots)
    BY Sizes, FS_Interval DEF Slots
  <2>3. IsFiniteSet(batched) /\ n \in Nat
    <3> HIDE DEF batched
    <3>1. batched \in SUBSET Slots
      BY <2>1
    <3> QED BY <2>2, <3>1, FS_Subset, FS_CardinalityType
  <2>4. ASSUME NEW s \in batched PROVE place(s) \in 0 .. n - 1
    <3> HIDE DEF batched
    <3>1. PICK T \in SUBSET batched : T = { u \in batched : u < s }
      OBVIOUS
    <3>2. s \notin T
      <4>1. s \in Nat
        BY <2>1, Sizes
      <4> QED BY <3>1, <4>1
    <3>3. T # batched
      BY <3>2, <2>4
    <3>4. /\ IsFiniteSet(T) /\ Cardinality(T) <= Cardinality(batched)
          /\ Cardinality(T) # Cardinality(batched)
      BY <2>3, <3>1, <3>3, FS_Subset
    <3>5. Cardinality(T) \in Nat
      BY <3>4, FS_CardinalityType
    <3> QED BY <2>3, <3>1, <3>4, <3>5
  <2> QED BY <2>1, <2>3, <2>4
<1> HIDE DEF leader, batched, place, n
<1>5. /\ main' \in MainThread
      /\ \A u \in Slots, b \in Int : b \in 0 .. n - 1 => Awaits(u, b, main')
  <2>1. -1 \in Int /\ FALSE \in BOOLEAN /\ Type(leader) \in Types \cup {"none"}
    BY <1>3
  <2>2. LET m == Fill(Type(leader), n, -1, FALSE)
        IN  /\ m \in MainThread
            /\ \A u \in Slots, b \in Int : b \in 0 .. n - 1 => Awaits(u, b, m)
    BY <1>4, <2>1, Filled, Zenon
  <2> QED BY <1>1, <2>2, Zenon
<1>6. ASSUME NEW s \in Slots
      PROVE  /\ slots'[s] \in Slot
             /\ slots'[s] = slots[s] \/ SlotOK(shape, s, slots'[s], main')
  <2>1. CASE s \notin batched
    BY <1>1, <1>2, <2>1 DEF Typed
  <2>2. CASE s \in batched
    <3>1. PICK p \in Int : p = place(s) /\ Awaits(s, p, main')
      BY <1>4, <1>5, <2>2
    <3>2. slots[s] \in Slot /\ slots[s].state = "GENERATING" /\ slots[s].id_task \in TaskId
      BY <1>2, <1>4, <2>2 DEF Typed, SlotsOK, SlotOK, Within
    <3>3. slots'[s] = [slots[s] EXCEPT !.n_past = @ + 1, !.i_batch = p]
      BY <1>1, <2>2, <3>1
    <3>4. /\ slots'[s] \in Slot /\ slots'[s].state = "GENERATING" /\ slots'[s].i_batch = p
          /\ slots'[s].id_task = slots[s].id_task
      <4>1. PICK q \in Nat : q = slots[s].n_past + 1
        BY <3>2 DEF Slot
      <4>2. slots'[s] = [slots[s] EXCEPT !.n_past = q, !.i_batch = p]
        BY <3>3, <4>1
      <4> QED BY <3>2, <4>2 DEF Slot
    <3> QED BY <3>1, <3>2, <3>4 DEF SlotOK, Within, Settled
  <2> QED BY <2>1, <2>2
<1>7. slots' \in [Slots -> Slot]
  BY <1>1, <1>6
<1>8. \A u \in Slots : ~Awaits(u, slots[u].i_batch, main)
  <2>1. main.pc = "take"
    BY <1>1
  <2> QED BY <2>1, NoBatch
<1> QED BY <1>1, <1>5, <1>6, <1>7, <1>8, Carried

\* While the batch is filled, a step about one slot, which has its place in what the
\* batch has then.
LEMMA AfterJoining ==
  ASSUME Inv, NEW s \in Slots, NEW n \in Nat, NEW joined \in BOOLEAN, NEW v \in Slot,
         main.pc = "fill", shape' = shape, main' = Fill(main.lead, n, s, joined),
         main.n_tokens <= n, slots' = [slots EXCEPT ![s] = v], Within(shape, v),
         \/ v.state \in {"IDLE", "PROCESSING_PROMPT"}
         \/ v.i_batch \in 0 .. n - 1
  PROVE  After
<1>1. slots \in [Slots -> Slot] /\ main.lead \in Types \cup {"none"} /\ main.n_tokens \in Nat
  BY DEF Inv, Typed, MainThread
<1>2. s \in Int
  BY Sizes
<1>3. /\ main' \in MainThread
      /\ \A u \in Slots, b \in Int : b \in 0 .. n - 1 => Awaits(u, b, main')
  BY <1>1, <1>2, Filled
<1>4. \A u \in Slots : slots[u].i_batch \in Int /\ v.i_batch \in Int
  BY <1>1 DEF Slot
<1>5. \A u \in Slots : Awaits(u, slots[u].i_batch, main) => Awaits(u, slots[u].i_batch, main')
  <2>1. \A u \in Slots : Awaits(u, slots[u].i_batch, main)
                          => slots[u].i_batch \in 0 .. main.n_tokens - 1
    BY DEF Awaits
  <2> QED BY <1>1, <1>3, <1>4, <2>1
<1>6. SlotOK(shape, s, v, main')
  BY <1>3, <1>4 DEF SlotOK, Settled
<1>7. slots' \in [Slots -> Slot] /\ slots'[s] = v /\ \A u \in Slots : u # s => slots'[u] = slots[u]
  BY <1>1
<1> QED BY <1>3, <1>5, <1>6, <1>7, Carried

LEMMA AfterRefuse ==
  ASSUME Inv, NEW s \in Slots, Refuse(s)
  PROVE  After
<1>1. /\ shape' = shape /\ main.pc = "fill" /\ slots' = [slots EXCEPT ![s] = Released(s)]
      /\ main' = Fill(main.lead, main.n_tokens, s, FALSE)
  BY DEF Refuse, Joining, FillNext, requests
<1>2. Released(s) \in Slot /\ Released(s).state = "IDLE" /\ main.n_tokens \in Nat
  BY ReleasedIdle DEF Inv, Typed, MainThread
<1>3. Within(shape, Released(s))
  BY <1>2 DEF Within
<1>4. /\ FALSE \in BOOLEAN /\ main.n_tokens <= main.n_tokens
      /\ Released(s).state \in {"IDLE", "PROCESSING_PROMPT"}
  BY <1>2
<1> QED BY <1>1, <1>2, <1>3, <1>4, AfterJoining, Zenon

LEMMA AfterAdd ==
  ASSUME Inv, NEW s \in Slots, AddPrompt(s)
  PROVE  After
<1> DEFINE P == Prompt(s)
           past == IF slots[s].state = "STARTED" THEN 0 ELSE slots[s].n_past
           room == IF main.n_tokens < NBatch THEN NBatch - main.n_tokens ELSE 0
           k == IF P - past <= room THEN P - past ELSE room
           n == main.n_tokens
           waits == Type(s) = "embedding" /\ main.n_tokens + P > NBatch
<1>1. /\ shape' = shape /\ main.pc = "fill"
      /\ \/ slots[s].state = "STARTED" /\ P # 0 /\ ~TooLarge(s)
         \/ slots[s].state = "PROCESSING_PROMPT"
      /\ \/ /\ waits
            /\ slots' = [slots EXCEPT ![s].state = "PROCESSING_PROMPT", ![s].n_past = past]
            /\ main' = Fill(main.lead, n, s, FALSE)
         \/ /\ ~waits /\ past + k < P
            /\ slots' = [slots EXCEPT ![s].state = "PROCESSING_PROMPT", ![s].n_past = past + k]
            /\ main' = Fill(main.lead, n + k, s, TRUE)
         \/ /\ ~waits /\ past + k = P
            /\ slots' = [slots EXCEPT ![s].state = "DONE_PROMPT", ![s].n_past = P,
                           ![s].n_decoded = 0, ![s].i_batch = n + k - 1]
            /\ main' = Fill(main.lead, n + k, s, TRUE)
  BY DEF AddPrompt, Joining, FillNext, requests
<1>2. /\ slots \in [Slots -> Slot] /\ slots[s] \in Slot /\ slots[s].n_past \in Nat
      /\ slots[s].n_decoded \in Nat /\ n \in Nat
  BY DEF Inv, Typed, MainThread, Slot
<1>3. Type(s) \in Types /\ P \in Nat /\ slots[s].id_task \in TaskId
  BY <1>1, PromptTyped DEF Inv, SlotsOK, SlotOK, Within
<1>4. Type(s) = shape[slots[s].id_task.req].type /\ P = shape[slots[s].id_task.req].prompt
  BY DEF Type, Prompt, Asked
<1>5. past \in Nat /\ past < P /\ ((Type(s) = "embedding" /\ past = 0) \/ P < NCtx)
  <2>1. CASE slots[s].state = "STARTED"
    <3>1. Type(s) # "embedding" => P < NCtx
      BY <1>1, <1>3, <2>1, Sizes DEF TooLarge
    <3>2. past = 0 /\ P # 0
      BY <1>1, <2>1
    <3> HIDE DEF past, P
    <3> QED BY <1>3, <3>1, <3>2
  <2>2. CASE slots[s].state = "PROCESSING_PROMPT"
    <3>1. past = slots[s].n_past
      BY <2>2
    <3>2. /\ slots[s].n_past < P
          /\ (Type(s) = "embedding" /\ slots[s].n_past = 0) \/ P < NCtx
      BY <1>4, <2>2 DEF Inv, SlotsOK, SlotOK, Within
    <3> QED BY <1>2, <3>1, <3>2
  <2> QED BY <1>1, <2>1, <2>2
<1>6. k \in Nat /\ (~waits /\ Type(s) = "embedding" /\ past = 0 => past + k = P)
      /\ (past + k = P => k # 0)
  BY <1>2, <1>3, <1>5, Sizes
<1>0. shape' = shape /\ main.pc = "fill" /\ n = main.n_tokens
  BY <1>1
<1> HIDE DEF past, P, k, n, waits
<1>7. CASE /\ waits
           /\ slots' = [slots EXCEPT ![s].state = "PROCESSING_PROMPT", ![s].n_past = past]
           /\ main' = Fill(main.lead, n, s, FALSE)
  <2> DEFINE v == [slots[s] EXCEPT !.state = "PROCESSING_PROMPT", !.n_past = past]
  <2>1. /\ v \in Slot /\ v.state = "PROCESSING_PROMPT" /\ v.n_past = past
        /\ v.id_task = slots[s].id_task
    BY <1>2, <1>5 DEF Slot, State
  <2>2. slots' = [slots EXCEPT ![s] = v]
    BY <1>2, <1>7
  <2> HIDE DEF v
  <2>3. Within(shape, v)
    BY <1>3, <1>4, <1>5, <2>1 DEF Within
  <2>4. /\ FALSE \in BOOLEAN /\ n <= n /\ v.state \in {"IDLE", "PROCESSING_PROMPT"}
    BY <1>2, <2>1
  <2> QED BY <1>0, <1>2, <1>7, <2>1, <2>2, <2>3, <2>4, AfterJoining, Zenon
<1>8. CASE /\ ~waits /\ past + k < P
           /\ slots' = [slots EXCEPT ![s].state = "PROCESSING_PROMPT", ![s].n_past = past + k]
           /\ main' = Fill(main.lead, n + k, s, TRUE)
  <2>0. PICK a \in Nat : a = past + k
    BY <1>5, <1>6
  <2> DEFINE v == [slots[s] EXCEPT !.state = "PROCESSING_PROMPT", !.n_past = a]
  <2>1. /\ v \in Slot /\ v.state = "PROCESSING_PROMPT" /\ v.n_past = a
        /\ v.id_task = slots[s].id_task
    BY <1>2 DEF Slot, State
  <2>2. slots' = [slots EXCEPT ![s] = v]
    BY <1>2, <1>8, <2>0
  <2> HIDE DEF v
  <2>3. P < NCtx
    BY <1>3, <1>5, <1>6, <1>8
  <2>4. Within(shape, v)
    BY <1>3, <1>4, <1>8, <2>0, <2>1, <2>3 DEF Within
  <2>5. /\ n + k \in Nat /\ n <= n + k /\ TRUE \in BOOLEAN
        /\ v.state \in {"IDLE", "PROCESSING_PROMPT"}
    BY <1>2, <1>6, <2>1
  <2> QED BY <1>0, <1>8, <2>1, <2>2, <2>4, <2>5, AfterJoining, Zenon
<1>9. CASE /\ ~waits /\ past + k = P
           /\ slots' = [slots EXCEPT ![s].state = "DONE_PROMPT", ![s].n_past = P,
                          ![s].n_decoded = 0, ![s].i_batch = n + k - 1]
           /\ main' = Fill(main.lead, n + k, s, TRUE)
  <2>0. PICK t \in Nat : t = n + k /\ n <= t /\ t # 0
    BY <1>2, <1>6, <1>9
  <2>1. PICK b \in Int : b = t - 1 /\ b = n + k - 1 /\ b \in 0 .. t - 1
    BY <1>2, <1>6, <2>0
  <2> DEFINE v == [slots[s] EXCEPT !.state = "DONE_PROMPT", !.n_past = P, !.n_decoded = 0,
                     !.i_batch = b]
  <2>2. v \in Slot /\ v.state = "DONE_PROMPT" /\ v.i_batch = b /\ v.id_task = slots[s].id_task
    BY <1>2, <1>3 DEF Slot, State
  <2>3. slots' = [slots EXCEPT ![s] = v]
    BY <1>2, <1>9, <2>1
  <2> HIDE DEF v
  <2>4. Within(shape, v)
    BY <1>3, <2>2 DEF Within
  <2>5. v.i_batch \in 0 .. t - 1
    BY <2>1, <2>2
  <2>6. main' = Fill(main.lead, t, s, TRUE) /\ TRUE \in BOOLEAN /\ main.n_tokens <= t
    BY <1>0, <1>9, <2>0, Zenon
  <2> QED BY <1>0, <2>2, <2>3, <2>4, <2>5, <2>6, AfterJoining, Zenon
<1> QED BY <1>1, <1>7, <1>8, <1>9
-----------------------------------------------------------------------------
LEMMA AfterDecode ==
  ASSUME Inv, Decode
  PROVE  After
<1>1. /\ shape' = shape /\ slots' = slots /\ main.pc = "decode"
      /\ \/ main' = Emit(-1)
         \/ main.n_batch > 1 /\ main' = [main EXCEPT !.n_batch = @ \div 2]
         \/ main' = At("fail")
  BY DEF Decode, requests
<1>2. Typed /\ slots \in [Slots -> Slot] /\ main \in MainThread /\ slots' \in [Slots -> Slot]
  BY <1>1 DEF Inv, Typed
<1>3. main.pc = "decode"
  BY <1>1
<1>4. \A u \in Slots : Awaits(u, slots[u].i_batch, main)
                        => slots[u].i_batch \in main.i .. main.n_tokens - 1
  BY <1>3 DEF Awaits
<1>5. CASE main' = Emit(-1)
  <2>1. /\ Emit(-1) \in MainThread
        /\ \A u \in Slots : slots[u].i_batch \in main.i .. main.n_tokens - 1
                           => Awaits(u, slots[u].i_batch, Emit(-1))
    <3>1. -1 \in Int /\ main.pc \in {"decode", "emit"} /\ \A u \in Slots : ~(u <= -1)
      BY <1>3, Sizes
    <3> QED BY <1>2, <3>1, Emitted, Zenon
  <2>2. main' \in MainThread
        /\ \A u \in Slots : slots[u].i_batch \in main.i .. main.n_tokens - 1
                           => Awaits(u, slots[u].i_batch, main')
    BY <1>5, <2>1, Zenon
  <2> QED BY <1>1, <1>2, <1>4, <2>2, Carried
<1>6. CASE main.n_batch > 1 /\ main' = [main EXCEPT !.n_batch = @ \div 2]
  <2>1. PICK h \in Nat \ {0} : h = main.n_batch \div 2
    BY <1>2, <1>6 DEF MainThread
  <2>2. main' = [main EXCEPT !.n_batch = h]
    BY <1>6, <2>1
  <2>3. /\ main' \in MainThread /\ main'.pc = "decode" /\ main'.i = main.i
        /\ main'.n_tokens = main.n_tokens
    BY <1>2, <1>3, <2>2 DEF MainThread
  <2>4. \A u \in Slots : Awaits(u, slots[u].i_batch, main) => Awaits(u, slots[u].i_batch, main')
    BY <1>4, <2>3 DEF Awaits
  <2> QED BY <1>1, <1>2, <2>3, <2>4, Carried
<1>7. CASE main' = At("fail")
  <2>1. main' \in MainThread /\ main'.pc = "fail" /\ main'.cursor = 0
    BY <1>7, AtTyped
  <2>2. \A u \in Slots : Awaits(u, slots[u].i_batch, main')
    <3>1. \A u \in Slots : u >= 0
      BY Sizes
    <3> QED BY <2>1, <3>1 DEF Awaits
  <2> QED BY <1>1, <1>2, <2>1, <2>2, Carried
<1> QED BY <1>1, <1>5, <1>6, <1>7

LEMMA AfterFail ==
  ASSUME Inv, NEW s \in Slots, FailSlot(s)
  PROVE  After
<1>1. /\ shape' = shape /\ main.pc = "fail" /\ main.cursor = s
      /\ slots' = [slots EXCEPT ![s] = IF s \in Processing THEN Released(s) ELSE @]
      /\ main' = IF s = NSlots - 1 THEN At("wait") ELSE [main EXCEPT !.cursor = @ + 1]
  BY DEF FailSlot, requests
<1>2. Typed /\ slots \in [Slots -> Slot] /\ main \in MainThread
  BY DEF Inv, Typed
<1>3. PICK v \in Slot : v.state = "IDLE" /\ slots' = [slots EXCEPT ![s] = v]
  <2>1. CASE s \in Processing
    <3>1. slots' = [slots EXCEPT ![s] = Released(s)]
      BY <1>1, <2>1
    <3> QED BY <1>2, <3>1, ReleasedIdle
  <2>2. CASE s \notin Processing
    <3>1. slots' = [slots EXCEPT ![s] = slots[s]] /\ slots[s] \in Slot /\ slots[s].state = "IDLE"
      BY <1>1, <1>2, <2>2 DEF Processing
    <3> QED BY <3>1
  <2> QED BY <2>1, <2>2
<1>4. slots' \in [Slots -> Slot] /\ slots'[s] = v /\ \A u \in Slots : u # s => slots'[u] = slots[u]
  BY <1>2, <1>3
<1>5. SlotOK(shape, s, slots'[s], main')
  BY <1>3, <1>4, IdleOK
<1>6. s \in Int /\ \A u \in Slots : u \in Int /\ u < NSlots
  BY Sizes
<1>7. CASE s = NSlots - 1
  <2>1. main' \in MainThread
    BY <1>1, <1>7, AtTyped
  <2>2. \A u \in Slots : u # s => ~(u >= s)
    BY <1>6, <1>7, Sizes
  <2>3. \A u \in Slots : u # s => ~Awaits(u, slots[u].i_batch, main)
    BY <1>1, <2>2 DEF Awaits
  <2> QED BY <1>1, <1>4, <1>5, <2>1, <2>3, Carried
<1>8. CASE s # NSlots - 1
  <2>1. main' = [main EXCEPT !.cursor = s + 1]
    BY <1>1, <1>8
  <2>2. PICK c \in Int : c = s + 1
    BY <1>6
  <2>3. main' \in MainThread /\ main'.pc = "fail" /\ main'.cursor = c
    <3>1. main' = [main EXCEPT !.cursor = c] /\ main.pc = "fail"
      BY <1>1, <2>1, <2>2
    <3> QED BY <1>2, <3>1 DEF MainThread
  <2>4. \A u \in Slots : u # s /\ u >= s => u >= c
    BY <1>6, <2>2
  <2>5. \A u \in Slots : u # s /\ Awaits(u, slots[u].i_batch, main) => u >= s
    BY <1>1 DEF Awaits
  <2>6. \A u \in Slots : u # s /\ Awaits(u, slots[u].i_batch, main)
                          => Awaits(u, slots[u].i_batch, main')
    BY <2>3, <2>4, <2>5 DEF Awaits
  <2> QED BY <1>1, <1>4, <1>5, <2>3, <2>6, Carried
<1> QED BY <1>7, <1>8

\* When the main thread leaves a slot of the decoded batch, that one is settled, and
\* the others that it still has to come to are ahead of it.
LEMMA AfterEmitting ==
  ASSUME Inv, NEW s \in Slots, NEW v \in Slot, Emitting(s), EmitNext(s), shape' = shape,
         slots' = [slots EXCEPT ![s] = v], Within(shape, v),
         \/ v.state \in {"IDLE", "STARTED", "PROCESSING_PROMPT"}
         \/ v.state = "GENERATING" /\ v.n_past + 1 < NCtx
  PROVE  After
<1>1. main.pc = "emit" /\ main.cursor = s /\ main' = Emit(s)
  BY DEF Emitting, EmitNext
<1>2. Typed /\ slots \in [Slots -> Slot] /\ s \in Int /\ main.pc \in {"decode", "emit"}
  BY <1>1, Sizes DEF Inv, Typed
<1>3. /\ Emit(s) \in MainThread
      /\ \A u \in Slots :
           /\ slots[u].i_batch \in main.i .. main.n_tokens - 1
           /\ u <= s => slots[u].i_batch >= EndOf(main)
           => Awaits(u, slots[u].i_batch, Emit(s))
  BY <1>2, Emitted
<1>4. slots' \in [Slots -> Slot] /\ slots'[s] = v /\ \A u \in Slots : u # s => slots'[u] = slots[u]
  BY <1>2
<1>5. SlotOK(shape, s, slots'[s], main')
  BY <1>4 DEF SlotOK, Settled
<1>6. \A u \in Slots : u # s /\ u <= s => u < s
  BY Sizes
<1>7. \A u \in Slots : u # s /\ Awaits(u, slots[u].i_batch, main) =>
        /\ slots[u].i_batch \in main.i .. main.n_tokens - 1
        /\ u <= s => slots[u].i_batch >= EndOf(main)
  BY <1>1, <1>6 DEF Awaits
<1>8. /\ main' \in MainThread
      /\ \A u \in Slots : u # s /\ Awaits(u, slots[u].i_batch, main)
                          => Awaits(u, slots[u].i_batch, main')
  BY <1>1, <1>3, <1>7
<1> QED BY <1>4, <1>5, <1>8, Carried

LEMMA AfterEmbedding ==
  ASSUME Inv, NEW s \in Slots, SendEmbedding(s)
  PROVE  After
<1> DEFINE v == [Released(s) EXCEPT !.i_batch = -1]
<1>1. Emitting(s) /\ EmitNext(s) /\ shape' = shape /\ slots' = [slots EXCEPT ![s] = v]
  BY DEF SendEmbedding, requests
<1>2. v \in Slot /\ v.state = "IDLE"
  BY ReleasedIdle DEF Inv
<1> HIDE DEF v
<1>3. Within(shape, v) /\ v.state \in {"IDLE", "STARTED", "PROCESSING_PROMPT"}
  BY <1>2 DEF Within
<1> QED BY <1>1, <1>2, <1>3, AfterEmitting

LEMMA AfterNotYet ==
  ASSUME Inv, NEW s \in Slots, NotYet(s)
  PROVE  After
<1>1. /\ Emitting(s) /\ EmitNext(s) /\ shape' = shape /\ slots' = slots
      /\ slots[s].state \in {"IDLE", "STARTED", "PROCESSING_PROMPT"}
  BY DEF NotYet, requests
<1>2. slots[s] \in Slot /\ slots' = [slots EXCEPT ![s] = slots[s]] /\ Within(shape, slots[s])
  BY <1>1 DEF Inv, Typed, SlotsOK, SlotOK
<1> QED BY <1>1, <1>2, AfterEmitting

LEMMA AfterSample ==
  ASSUME Inv, NEW s \in Slots, NEW held \in BOOLEAN, NEW stop \in BOOLEAN, Sample(s, held, stop)
  PROVE  After
<1> DEFINE n == slots[s].n_decoded + 1
           v == [Released(s) EXCEPT !.i_batch = -1]
           w == [slots[s] EXCEPT !.state = "GENERATING", !.i_batch = -1, !.n_decoded = n,
                   !.n_sent = IF held THEN @ ELSE n]
<1>1. /\ Emitting(s) /\ EmitNext(s) /\ shape' = shape
      /\ slots[s].state \in {"DONE_PROMPT", "GENERATING"}
      /\ AtLimit(s) => stop
  BY DEF Sample, requests
<1>2. slots \in [Slots -> Slot] /\ slots[s] \in Slot /\ Typed
  BY DEF Inv, Typed
<1>3. CASE stop
  <2>1. slots' = [slots EXCEPT ![s] = v]
    BY <1>3 DEF Sample
  <2>2. v \in Slot /\ v.state = "IDLE"
    BY <1>2, ReleasedIdle
  <2> HIDE DEF v
  <2>3. Within(shape, v) /\ v.state \in {"IDLE", "STARTED", "PROCESSING_PROMPT"}
    BY <2>2 DEF Within
  <2> QED BY <1>1, <2>1, <2>2, <2>3, AfterEmitting
<1>4. CASE ~stop
  <2>1. slots' = [slots EXCEPT ![s].state = "GENERATING", ![s].i_batch = -1,
                            ![s].n_decoded = n, ![s].n_sent = IF held THEN @ ELSE n]
    BY <1>4 DEF Sample
  <2>2. slots' = [slots EXCEPT ![s] = w]
    BY <1>2, <2>1
  <2>3. PICK m \in Nat, k \in Nat : m = n /\ k = IF held THEN slots[s].n_sent ELSE n
    BY <1>2 DEF Slot
  <2>4. w = [slots[s] EXCEPT !.state = "GENERATING", !.i_batch = -1, !.n_decoded = m, !.n_sent = k]
    BY <2>3
  <2>5. /\ w \in Slot /\ w.state = "GENERATING" /\ w.n_past = slots[s].n_past
        /\ w.id_task = slots[s].id_task
    <3> HIDE DEF w, n
    <3>1. -1 \in Int /\ "GENERATING" \in State
      BY DEF State
    <3> QED BY <1>2, <2>4, <3>1 DEF Slot
  <2> HIDE DEF w, n
  <2>6. slots[s].id_task \in TaskId
    BY <1>1 DEF Inv, SlotsOK, SlotOK, Within
  <2>7. Within(shape, w)
    BY <2>5, <2>6 DEF Within
  <2>8. w.n_past + 1 < NCtx
    <3>1. slots[s].n_past \in Nat
      BY <1>2 DEF Slot
    <3> QED BY <1>1, <1>4, <2>5, <3>1, Sizes DEF AtLimit
  <2> QED BY <1>1, <2>2, <2>5, <2>7, <2>8, AfterEmitting
<1> QED BY <1>3, <1>4
-----------------------------------------------------------------------------
\* A work that a release has woken up is in the queue.
Woken(e) == e.kind = "work" /\ e.woken
SomeWoken(q) == \E i \in DOMAIN q : Woken(q[i])

\* What a step may do to the two queues: they keep their types; a deferred task
\* was one before, but for the one that is deferred now.
QueuesTyped == queue_tasks' \in Seq(Entry) /\ queue_tasks_deferred' \in Seq(Begins)

LEMMA WakeQueues ==
  ASSUME Typed, Wake
  PROVE  /\ QueuesTyped
         /\ queue_tasks_deferred' = << >> \/ SomeWoken(queue_tasks')
<1>1. queue_tasks \in Seq(Entry) /\ queue_tasks_deferred \in Seq(Begins)
  BY DEF Typed
<1>2. CASE queue_tasks_deferred = << >>
  BY <1>1, <1>2 DEF Wake, tasks, QueuesTyped
<1>3. CASE queue_tasks_deferred # << >>
  <2>1. PICK h \in Begins : h = Head(queue_tasks_deferred)
    BY <1>1, <1>3
  <2>2. PICK e \in Begins : e = [h EXCEPT !.woken = TRUE]
    BY DEF Begins
  <2>a. e.kind = "work" /\ e.woken
    BY <2>2 DEF Begins
  <2>3. /\ queue_tasks' = <<e>> \o queue_tasks
        /\ queue_tasks_deferred' = Tail(queue_tasks_deferred)
    BY <1>3, <2>1, <2>2 DEF Wake
  <2>4. e \in Entry
    BY DEF Entry
  <2>5. /\ queue_tasks' \in Seq(Entry) /\ queue_tasks_deferred' \in Seq(Begins)
        /\ 1 \in DOMAIN queue_tasks' /\ queue_tasks'[1] = e
    BY <1>1, <1>3, <2>3, <2>4
  <2> QED BY <2>a, <2>5 DEF QueuesTyped, SomeWoken, Woken
<1> QED BY <1>2, <1>3

\* The steps of the main thread leave the queues as they are, wake a task up, take
\* the first task, defer the task in hand, or make the loop come back.
LEMMA MainQueues ==
  ASSUME Inv, MainLoop
  PROVE  QueuesTyped
<1>1. queue_tasks \in Seq(Entry) /\ queue_tasks_deferred \in Seq(Begins) /\ Typed
  BY DEF Inv, Typed
<1>2. ASSUME Wake \/ UNCHANGED tasks PROVE QueuesTyped
  <2>1. CASE Wake
    BY <1>1, <2>1, WakeQueues
  <2>2. CASE UNCHANGED tasks
    BY <1>1, <2>2 DEF tasks, QueuesTyped
  <2> QED BY <1>2, <2>1, <2>2
<1>3. CASE TakeTask
  BY <1>1, <1>3 DEF TakeTask, QueuesTyped
<1>4. CASE Defer
  <2>1. PICK t \in Begins : t = main.task
    BY <1>1, <1>4, InHandTyped DEF Defer
  <2>2. PICK e \in Begins : e = [t EXCEPT !.woken = FALSE]
    BY DEF Begins
  <2>3. queue_tasks' = queue_tasks /\ queue_tasks_deferred' = Append(queue_tasks_deferred, e)
    BY <1>4, <2>1, <2>2 DEF Defer, DeferTask
  <2> QED BY <1>1, <2>3 DEF QueuesTyped
<1>5. CASE StartBatch
  <2>1. queue_tasks' = <<NextResponse>> /\ queue_tasks_deferred' = queue_tasks_deferred
    BY <1>5 DEF StartBatch, ComeBack
  <2>2. NextResponse \in Entry
    BY DEF Entry
  <2> HIDE DEF NextResponse
  <2> QED BY <1>1, <2>1, <2>2 DEF QueuesTyped
<1>6. CASE AnswerQuick \/ AllIdle \/ Decode
  <2>1. UNCHANGED tasks
    BY <1>6 DEF AnswerQuick, AllIdle, Decode
  <2> QED BY <1>2, <2>1
<1>7. CASE HandleCancel
  <2>1. Wake \/ UNCHANGED tasks
    BY <1>7, Zenon DEF HandleCancel, tasks
  <2> QED BY <1>2, <2>1
<1>8. ASSUME NEW s \in Slots,
             \/ Launch(s) \/ Refuse(s) \/ AddPrompt(s) \/ FailSlot(s)
             \/ SendEmbedding(s) \/ NotYet(s)
             \/ \E held, stop \in BOOLEAN : Sample(s, held, stop)
      PROVE  QueuesTyped
  <2>1. CASE Launch(s) \/ AddPrompt(s) \/ NotYet(s)
    <3>1. UNCHANGED tasks
      BY <2>1 DEF Launch, AddPrompt, NotYet
    <3> QED BY <1>2, <3>1
  <2>2. CASE Refuse(s) \/ FailSlot(s) \/ SendEmbedding(s)
    <3>1. Wake \/ UNCHANGED tasks
      BY <2>2 DEF Refuse, FailSlot, SendEmbedding
    <3> QED BY <1>2, <3>1
  <2>3. ASSUME NEW held \in BOOLEAN, NEW stop \in BOOLEAN, Sample(s, held, stop)
        PROVE  QueuesTyped
    <3>1. Wake \/ UNCHANGED tasks
      BY <2>3 DEF Sample
    <3> QED BY <1>2, <3>1
  <2> QED BY <1>8, <2>1, <2>2, <2>3
<1> QED BY <1>3, <1>4, <1>5, <1>6, <1>7, <1>8 DEF MainLoop

LEMMA MainAfter ==
  ASSUME Inv, MainLoop
  PROVE  After
<1>1. ASSUME NEW s \in Slots,
             \/ Launch(s) \/ Refuse(s) \/ AddPrompt(s) \/ FailSlot(s)
             \/ SendEmbedding(s) \/ NotYet(s)
             \/ \E held, stop \in BOOLEAN : Sample(s, held, stop)
      PROVE  After
  BY <1>1, AfterLaunch, AfterRefuse, AfterAdd, AfterFail, AfterEmbedding, AfterNotYet, AfterSample
<1> QED BY <1>1, AfterTake, AfterCancel, AfterStart, AfterDecode DEF MainLoop
-----------------------------------------------------------------------------
\* Nothing is lost where two sequences are joined.
LEMMA JoinedWoken ==
  ASSUME NEW T, NEW a \in Seq(T), NEW b \in Seq(T)
  PROVE  /\ a \o b \in Seq(T)
         /\ SomeWoken(a) \/ SomeWoken(b) => SomeWoken(a \o b)
<1> DEFINE c == a \o b
<1>1. /\ c \in Seq(T) /\ Len(c) = Len(a) + Len(b)
      /\ \A i \in 1 .. Len(a) : c[i] = a[i]
      /\ \A j \in 1 .. Len(b) : c[Len(a) + j] = b[j]
  BY Joined
<1> HIDE DEF c
<1>2. /\ Len(a) \in Nat /\ Len(b) \in Nat
      /\ DOMAIN a = 1 .. Len(a) /\ DOMAIN b = 1 .. Len(b) /\ DOMAIN c = 1 .. Len(a) + Len(b)
  BY <1>1
<1>3. ASSUME NEW i \in DOMAIN a, Woken(a[i]) PROVE SomeWoken(c)
  <2>1. i \in DOMAIN c /\ c[i] = a[i]
    BY <1>1, <1>2
  <2> QED BY <1>3, <2>1 DEF SomeWoken
<1>4. ASSUME NEW j \in DOMAIN b, Woken(b[j]) PROVE SomeWoken(c)
  <2>1. Len(a) + j \in DOMAIN c /\ c[Len(a) + j] = b[j]
    BY <1>1, <1>2
  <2> QED BY <1>4, <2>1 DEF SomeWoken
<1>5. SomeWoken(a) \/ SomeWoken(b) => SomeWoken(c)
  BY <1>3, <1>4 DEF SomeWoken
<1> QED BY <1>1, <1>5 DEF c

\* The requests post works and cancellations and remove cancellations; they do not
\* take away a work, and add nothing to the deferred tasks.
Supplied ==
  /\ QueuesTyped
  /\ SomeWoken(queue_tasks) => SomeWoken(queue_tasks')
  /\ \A i \in DOMAIN queue_tasks_deferred' : \E j \in DOMAIN queue_tasks_deferred :
        queue_tasks_deferred'[i].id = queue_tasks_deferred[j].id

LEMMA UnchangedSupplied ==
  ASSUME Typed, UNCHANGED tasks
  PROVE  Supplied
BY DEF Typed, tasks, Supplied, QueuesTyped

LEMMA PostSupplies ==
  ASSUME Inv, NEW r \in Requests, Post(r)
  PROVE  Supplied
<1> DEFINE work == [n \in 1 .. shape[r].tasks |-> Work(Id(r, n))]
<1>1. queue_tasks \in Seq(Entry) /\ queue_tasks_deferred \in Seq(Begins) /\ shape[r].tasks \in Nat
  BY Asking DEF Inv, Typed
<1>2. /\ queue_tasks' = work \o queue_tasks \/ queue_tasks' = queue_tasks \o work
      /\ queue_tasks_deferred' = queue_tasks_deferred
  BY DEF Post
<1>3. work \in Seq(Entry)
  <2>1. \A n \in 1 .. shape[r].tasks : Work(Id(r, n)) \in Entry
    BY DEF Work, Id, Entry, Begins, TaskId
  <2> QED BY <1>1, <2>1
<1> HIDE DEF work
<1>4. queue_tasks' \in Seq(Entry) /\ (SomeWoken(queue_tasks) => SomeWoken(queue_tasks'))
  <2>1. CASE queue_tasks' = work \o queue_tasks
    BY <1>1, <1>3, <2>1, JoinedWoken
  <2>2. CASE queue_tasks' = queue_tasks \o work
    BY <1>1, <1>3, <2>2, JoinedWoken
  <2> QED BY <1>2, <2>1, <2>2
<1> QED BY <1>1, <1>2, <1>4 DEF Supplied, QueuesTyped

\* cleanup_pending_task takes cancellations away only.
LEMMA CleanupKeeps ==
  ASSUME NEW T, NEW q \in Seq(T), NEW ids
  PROVE  /\ CleanupPending(q, ids) \in Seq(T)
         /\ SomeWoken(q) => SomeWoken(CleanupPending(q, ids))
         /\ \A i \in DOMAIN CleanupPending(q, ids) : \E j \in DOMAIN q :
              CleanupPending(q, ids)[i] = q[j]
<1> DEFINE S == { i \in DOMAIN q : ~(q[i].kind = "cancel" /\ q[i].id \in ids) }
           c == Part(q, S)
<1>1. CleanupPending(q, ids) = c /\ S \in SUBSET DOMAIN q
  BY DEF CleanupPending
<1>2. \A i \in DOMAIN q : Woken(q[i]) => i \in S
  BY DEF Woken
<1> HIDE DEF S
<1>3. /\ c \in Seq(T)
      /\ \A k \in DOMAIN c : Place(S, k) \in S /\ c[k] = q[Place(S, k)]
      /\ \A i \in S : \E k \in DOMAIN c : Place(S, k) = i
  BY <1>1, PartProperties
<1>4. SomeWoken(q) => SomeWoken(c)
  <2> SUFFICES ASSUME NEW i \in DOMAIN q, Woken(q[i]) PROVE SomeWoken(c)
    BY DEF SomeWoken
  <2>1. PICK k \in DOMAIN c : Place(S, k) = i
    BY <1>2, <1>3
  <2>2. c[k] = q[i]
    BY <1>3, <2>1
  <2> HIDE DEF c
  <2> QED BY <2>1, <2>2 DEF SomeWoken
<1> HIDE DEF c
<1> QED BY <1>1, <1>3, <1>4

LEMMA CancelsSupply ==
  ASSUME Inv, NEW r \in Requests, PostCancels(r)
  PROVE  Supplied
<1> DEFINE cancels == [n \in 1 .. shape[r].tasks |-> Cancel(Id(r, shape[r].tasks + 1 - n))]
           rest == CleanupPending(queue_tasks, Ids(r))
<1>1. queue_tasks \in Seq(Entry) /\ queue_tasks_deferred \in Seq(Begins) /\ shape[r].tasks \in Nat
  BY Asking DEF Inv, Typed
<1>2. /\ queue_tasks' = cancels \o rest
      /\ queue_tasks_deferred' = CleanupPending(queue_tasks_deferred, Ids(r))
  BY DEF PostCancels
<1>3. cancels \in Seq(Entry)
  <2>1. \A n \in 1 .. shape[r].tasks : shape[r].tasks + 1 - n \in Nat
    BY <1>1
  <2>2. \A n \in 1 .. shape[r].tasks : Cancel(Id(r, shape[r].tasks + 1 - n)) \in Entry
    BY <2>1 DEF Cancel, Id, Entry, Ends, TaskId
  <2> QED BY <1>1, <2>2
<1>4. rest \in Seq(Entry) /\ (SomeWoken(queue_tasks) => SomeWoken(rest))
  BY <1>1, CleanupKeeps
<1> HIDE DEF cancels, rest
<1>5. queue_tasks' \in Seq(Entry) /\ (SomeWoken(rest) => SomeWoken(queue_tasks'))
  BY <1>2, <1>3, <1>4, JoinedWoken
<1>6. /\ queue_tasks_deferred' \in Seq(Begins)
      /\ \A i \in DOMAIN queue_tasks_deferred' : \E j \in DOMAIN queue_tasks_deferred :
           queue_tasks_deferred'[i] = queue_tasks_deferred[j]
  BY <1>1, <1>2, CleanupKeeps
<1>7. \A i \in DOMAIN queue_tasks_deferred' : \E j \in DOMAIN queue_tasks_deferred :
           queue_tasks_deferred'[i].id = queue_tasks_deferred[j].id
  BY <1>6
<1> QED BY <1>4, <1>5, <1>6, <1>7 DEF Supplied, QueuesTyped

\* A request or a client that leaves touches neither the slots nor the main thread.
LEMMA RequestSteps ==
  ASSUME Inv, NEW r \in Requests, Request(r) \/ Disconnect(r)
  PROVE  Supplied /\ UNCHANGED <<shape, slots, main, wasted>>
<1>1. UNCHANGED <<shape, slots, main, wasted>>
  BY DEF Request, Register, Post, ReceivePartial, ReceiveFinal, ReceiveError, GiveUp, PostCancels,
         GiveUpUnread, Leave, Disconnect
<1>2. Post(r) \/ PostCancels(r) \/ UNCHANGED tasks
  BY DEF Request, Register, ReceivePartial, ReceiveFinal, ReceiveError, GiveUp, GiveUpUnread, Leave,
         Disconnect
<1>3. Typed
  BY DEF Inv
<1> QED BY <1>1, <1>2, <1>3, PostSupplies, CancelsSupply, UnchangedSupplied
-----------------------------------------------------------------------------
LEMMA InvInit ==
  ASSUME Init
  PROVE  Inv
<1>1. Typed
  <2>1. IdleSlot \in Slot
    BY DEF IdleSlot, Slot, State
  <2> HIDE DEF IdleSlot
  <2>2. slots \in [Slots -> Slot] /\ main \in MainThread
    BY <2>1, AtTyped DEF Init
  <2> QED BY <2>2 DEF Init, Typed
<1>2. \A s \in Slots : slots[s].state = "IDLE"
  BY DEF Init, IdleSlot
<1> QED BY <1>1, <1>2, IdleOK DEF Inv, SlotsOK

LEMMA InvStep ==
  ASSUME Inv, [Next]_vars
  PROVE  Inv'
<1>1. ASSUME After, QueuesTyped PROVE Inv'
  <2>1. \A s \in Slots : SlotOK(shape', s, slots'[s], main')
    BY <1>1 DEF After
  <2>2. SlotsOK'
    BY <2>1 DEF SlotsOK
  <2>3. Typed'
    BY <1>1 DEF Inv, Typed, After, QueuesTyped
  <2> QED BY <2>2, <2>3 DEF Inv
<1>2. CASE MainLoop
  BY <1>1, <1>2, MainAfter, MainQueues
<1>3. ASSUME UNCHANGED <<shape, slots, main>> PROVE After
  BY <1>3 DEF Inv, Typed, SlotsOK, After
<1>4. ASSUME NEW r \in Requests, Request(r) \/ Disconnect(r) PROVE Inv'
  BY <1>1, <1>3, <1>4, RequestSteps DEF Supplied
<1>5. CASE UNCHANGED vars
  <2>1. UNCHANGED <<shape, slots, main, tasks>>
    BY <1>5 DEF vars, requests
  <2> QED BY <1>1, <1>3, <2>1, UnchangedSupplied DEF Inv, Supplied
<1> QED BY <1>2, <1>4, <1>5 DEF Next

LEMMA InvAlways == Spec => []Inv
<1>1. Init => Inv
  BY InvInit
<1>2. Inv /\ [Next]_vars => Inv'
  BY InvStep
<1> QED BY <1>1, <1>2, PTL DEF Spec

\* When the main thread comes to look for a slot that is at the end of its context,
\* there is none: generation was stopped before (server.cpp, update_slots and
\* process_token).  A context of one token is full with the first token of a prompt.
THEOREM ContextAlwaysFits ==
  ASSUME NCtx > 1
  PROVE  Spec => []ContextNeverOverrun
<1>1. ASSUME Inv PROVE ContextNeverOverrun
  <2> SUFFICES ASSUME main.pc = "take", NEW s \in Slots, slots[s].state # "IDLE"
               PROVE  slots[s].n_past + 1 < NCtx
    BY DEF ContextNeverOverrun, Processing
  <2>1. ~Awaits(s, slots[s].i_batch, main)
    BY NoBatch
  <2>2. Within(shape, slots[s]) /\ Settled(s, slots[s], main)
    BY <1>1 DEF Inv, SlotsOK, SlotOK
  <2>3. slots[s].n_past \in Nat /\ Prompt(s) \in Nat
    BY <1>1, PromptTyped DEF Inv, Typed, Slot
  <2>4. CASE slots[s].state = "STARTED"
    BY <2>2, <2>4, Sizes DEF Within
  <2>5. CASE slots[s].state = "PROCESSING_PROMPT"
    <3>1. slots[s].n_past = 0 \/ (slots[s].n_past < Prompt(s) /\ Prompt(s) < NCtx)
      BY <2>2, <2>5 DEF Within, Prompt, Asked
    <3> QED BY <2>3, <3>1, Sizes
  <2> QED BY <2>1, <2>2, <2>4, <2>5 DEF Settled
<1>2. Inv => ContextNeverOverrun
  BY <1>1
<1> QED BY <1>2, InvAlways, PTL
-----------------------------------------------------------------------------
\* What a deferred task waits for is on its way.
Coming ==
  \/ wasted \/ Processing # {}
  \/ InHand("work") /\ main.task.woken
  \/ SomeWoken(queue_tasks)

\* The slots that a task can be given to, for what the requests ask for.
SlotsFor(sh, t) == IF sh[t.req].id_slot = AnySlot THEN Slots ELSE Slots \cap {sh[t.req].id_slot}

LEMMA WakeupIsComing ==
  WakeupComing <=>
    ((\E i \in DOMAIN queue_tasks_deferred : SlotsFor(shape, queue_tasks_deferred[i].id) # {})
      => Coming)
BY DEF WakeupComing, Coming, SlotsFor, Wanted, Asked, SomeWoken, Woken

LEMMA WakeupIsComingNext ==
  WakeupComing' <=>
    ((\E i \in DOMAIN queue_tasks_deferred' : SlotsFor(shape', queue_tasks_deferred'[i].id) # {})
      => Coming')
BY DEF WakeupComing, Coming, SlotsFor, Wanted, Asked, SomeWoken, Woken

\* A step that defers no other task and does not break the chain.
LEMMA StillComing ==
  ASSUME WakeupComing, shape' = shape, Coming => Coming',
         \A i \in DOMAIN queue_tasks_deferred' : \E j \in DOMAIN queue_tasks_deferred :
           queue_tasks_deferred'[i].id = queue_tasks_deferred[j].id
  PROVE  WakeupComing'
BY WakeupIsComing, WakeupIsComingNext

\* A step after which the chain holds.
LEMMA NowComing ==
  ASSUME Coming' \/ queue_tasks_deferred' = << >>
  PROVE  WakeupComing'
BY WakeupIsComingNext

LEMMA WakeupAfterRelease ==
  ASSUME Inv, Wake
  PROVE  WakeupComing'
<1>1. queue_tasks_deferred' = << >> \/ SomeWoken(queue_tasks')
  BY WakeQueues DEF Inv
<1> QED BY <1>1, NowComing DEF Coming

LEMMA WakeupAfterDefer ==
  ASSUME Inv, WakeupComing, Defer
  PROVE  WakeupComing'
<1>1. PICK t \in Begins : t = main.task /\ InHand("work")
  BY InHandTyped DEF Inv, Defer
<1>2. /\ shape' = shape /\ slots' = slots /\ queue_tasks' = queue_tasks
      /\ SlotsFor(shape, t.id) \subseteq Processing
      /\ wasted' = (wasted \/ (t.woken /\ SlotsFor(shape, t.id) = {}))
      /\ queue_tasks_deferred' = Append(queue_tasks_deferred, [t EXCEPT !.woken = FALSE])
  BY <1>1 DEF Defer, DeferTask, SlotsFor, Wanted, Asked, requests
<1>3. Processing' = Processing
  BY <1>2 DEF Processing
<1>4. CASE Processing # {} \/ wasted \/ SomeWoken(queue_tasks) \/ t.woken
  BY <1>2, <1>3, <1>4, NowComing DEF Coming
<1>5. CASE Processing = {} /\ ~wasted /\ ~SomeWoken(queue_tasks) /\ ~t.woken
  <2>1. ~Coming
    BY <1>1, <1>5 DEF Coming
  <2>2. \A i \in DOMAIN queue_tasks_deferred : SlotsFor(shape, queue_tasks_deferred[i].id) = {}
    BY <2>1, WakeupIsComing
  <2>3. PICK e \in Begins : e = [t EXCEPT !.woken = FALSE] /\ e.id = t.id
    <3>1. PICK e \in Begins : e = [t EXCEPT !.woken = FALSE]
      BY DEF Begins
    <3>2. e.id = t.id
      BY <3>1 DEF Begins
    <3> QED BY <3>1, <3>2
  <2>4. /\ queue_tasks_deferred \in Seq(Begins)
        /\ queue_tasks_deferred' = Append(queue_tasks_deferred, e)
    BY <1>2, <2>3 DEF Inv, Typed
  <2>5. \A i \in DOMAIN queue_tasks_deferred' :
          \/ i \in DOMAIN queue_tasks_deferred
             /\ queue_tasks_deferred'[i] = queue_tasks_deferred[i]
          \/ queue_tasks_deferred'[i] = e
    BY <2>4
  <2>6. SlotsFor(shape, e.id) = {}
    BY <1>2, <1>5, <2>3
  <2>7. \A i \in DOMAIN queue_tasks_deferred' : SlotsFor(shape', queue_tasks_deferred'[i].id) = {}
    BY <1>2, <2>2, <2>5, <2>6
  <2> QED BY <2>7, WakeupIsComingNext
<1> QED BY <1>4, <1>5

LEMMA WakeupAfterTake ==
  ASSUME Inv, WakeupComing, TakeTask
  PROVE  WakeupComing'
<1>1. /\ shape' = shape /\ slots' = slots /\ wasted' = wasted
      /\ queue_tasks_deferred' = queue_tasks_deferred
      /\ queue_tasks # << >> /\ queue_tasks' = Tail(queue_tasks) /\ ~InHand("work")
      /\ main' = IF Head(queue_tasks) = NextResponse THEN At("take")
                 ELSE [At("handle") EXCEPT !.task = Head(queue_tasks)]
  BY DEF TakeTask, requests, InHand
<1>2. queue_tasks \in Seq(Entry)
  BY DEF Inv, Typed
<1>3. Processing' = Processing
  BY <1>1 DEF Processing
<1>4. PICK e \in Entry : e = Head(queue_tasks) /\ e = queue_tasks[1]
  BY <1>1, <1>2
<1>5. ASSUME Woken(e) PROVE InHand("work")' /\ main'.task.woken
  <2>1. e # NextResponse /\ e.kind = "work" /\ e.woken
    BY <1>5 DEF Woken, NextResponse
  <2>2. main' = [At("handle") EXCEPT !.task = e]
    BY <1>1, <1>4, <2>1
  <2>3. main'.pc = "handle" /\ main'.task = e
    BY <2>2 DEF At
  <2> QED BY <2>1, <2>3 DEF InHand
<1>6. SomeWoken(queue_tasks) => SomeWoken(queue_tasks') \/ Woken(e)
  <2> SUFFICES ASSUME NEW i \in DOMAIN queue_tasks, Woken(queue_tasks[i]), i # 1
               PROVE  SomeWoken(queue_tasks')
    BY <1>4 DEF SomeWoken
  <2>1. i - 1 \in DOMAIN queue_tasks' /\ queue_tasks'[i - 1] = queue_tasks[i]
    BY <1>1, <1>2
  <2> QED BY <2>1 DEF SomeWoken
<1>7. Coming => Coming'
  BY <1>1, <1>3, <1>5, <1>6 DEF Coming
<1> QED BY <1>1, <1>7, StillComing

LEMMA WakeupAfterLaunch ==
  ASSUME Inv, WakeupComing, NEW s \in Slots, Launch(s)
  PROVE  WakeupComing'
<1>1. shape' = shape /\ UNCHANGED tasks /\ slots \in [Slots -> Slot]
  BY DEF Launch, requests, Inv, Typed
<1>2. CASE Asked(main.task.id).valid
  <2>1. slots' = [slots EXCEPT ![s] = [IdleSlot EXCEPT !.state = "STARTED",
                         !.id_task = main.task.id, !.i_batch = slots[s].i_batch]]
    BY <1>2 DEF Launch
  <2>2. slots'[s].state = "STARTED"
    BY <1>1, <2>1 DEF IdleSlot
  <2>3. Coming'
    BY <2>2 DEF Coming, Processing
  <2> QED BY <2>3, NowComing
<1>3. CASE ~Asked(main.task.id).valid
  <2>1. /\ slots' = [slots EXCEPT ![s].id_task = main.task.id]
        /\ wasted' = (wasted \/ main.task.woken)
    BY <1>3 DEF Launch
  <2>2. \A u \in Slots : slots'[u].state = slots[u].state
    BY <1>1, <2>1 DEF Slot
  <2>3. Processing' = Processing
    BY <2>2 DEF Processing
  <2>4. Coming => Coming'
    BY <1>1, <2>1, <2>3 DEF Coming, tasks
  <2> QED BY <1>1, <2>4, StillComing DEF tasks
<1> QED BY <1>2, <1>3

\* The steps that leave the slots, or at least the one they are about, processing.
LEMMA WakeupAfterSlot ==
  ASSUME Inv, NEW s \in Slots,
         \/ AddPrompt(s)
         \/ \E held \in BOOLEAN : Sample(s, held, FALSE)
  PROVE  WakeupComing'
<1>1. slots \in [Slots -> Slot]
  BY DEF Inv, Typed
<1>2. slots'[s].state # "IDLE"
  <2>1. CASE AddPrompt(s)
    <3> DEFINE P == Prompt(s)
               past == IF slots[s].state = "STARTED" THEN 0 ELSE slots[s].n_past
               room == IF main.n_tokens < NBatch THEN NBatch - main.n_tokens ELSE 0
               k == IF P - past <= room THEN P - past ELSE room
               n == main.n_tokens
    <3>1. \/ slots' = [slots EXCEPT ![s].state = "PROCESSING_PROMPT", ![s].n_past = past]
          \/ slots' = [slots EXCEPT ![s].state = "PROCESSING_PROMPT", ![s].n_past = past + k]
          \/ slots' = [slots EXCEPT ![s].state = "DONE_PROMPT", ![s].n_past = P,
                          ![s].n_decoded = 0, ![s].i_batch = n + k - 1]
      BY <2>1 DEF AddPrompt
    <3> HIDE DEF past, k, n, P
    <3> QED BY <1>1, <3>1 DEF Slot
  <2>2. ASSUME NEW held \in BOOLEAN, Sample(s, held, FALSE) PROVE slots'[s].state # "IDLE"
    BY <1>1, <2>2 DEF Sample, Slot
  <2> QED BY <2>1, <2>2
<1>3. Coming'
  BY <1>2 DEF Coming, Processing
<1> QED BY <1>3, NowComing

LEMMA WakeupAfterStart ==
  ASSUME Inv, StartBatch
  PROVE  WakeupComing'
<1>1. PICK s \in Slots : slots[s].state # "IDLE"
  BY DEF StartBatch, Processing
<1>2. slots[s] \in Slot
  BY DEF Inv, Typed
<1>3. slots'[s].state = slots[s].state
  BY <1>2 DEF StartBatch, Slot
<1>4. Coming'
  BY <1>1, <1>3 DEF Coming, Processing
<1> QED BY <1>4, NowComing

\* A step that touches no slot and no queue.
LEMMA WakeupUndisturbed ==
  ASSUME WakeupComing, shape' = shape, slots' = slots, UNCHANGED tasks,
         \/ ~InHand("work") /\ wasted' = wasted
         \/ wasted' = (wasted \/ main.task.woken)
         \/ main' = main /\ wasted' = wasted
  PROVE  WakeupComing'
<1>1. Processing' = Processing
  BY DEF Processing
<1>2. Coming => Coming'
  BY <1>1 DEF Coming, InHand, tasks
<1> QED BY <1>2, StillComing DEF tasks

LEMMA WakeupAfterRest ==
  ASSUME WakeupComing,
         \/ AnswerQuick \/ AllIdle \/ Decode
         \/ \E s \in Slots : NotYet(s)
         \/ UNCHANGED <<shape, slots, main, wasted, tasks>>
  PROVE  WakeupComing'
<1>1. /\ shape' = shape /\ slots' = slots /\ UNCHANGED tasks
      /\ \/ ~InHand("work") /\ wasted' = wasted
         \/ wasted' = (wasted \/ main.task.woken)
         \/ main' = main /\ wasted' = wasted
  BY DEF AnswerQuick, AllIdle, Decode, NotYet, Emitting, InHand, requests
<1> QED BY <1>1, WakeupUndisturbed

LEMMA WakeupStep ==
  ASSUME Inv, WakeupComing, [Next]_vars
  PROVE  WakeupComing'
<1>1. ASSUME NEW r \in Requests, Request(r) \/ Disconnect(r) PROVE WakeupComing'
  <2>1. Supplied /\ UNCHANGED <<shape, slots, main, wasted>>
    BY <1>1, RequestSteps
  <2>2. Coming => Coming'
    BY <2>1 DEF Coming, Processing, InHand, Supplied
  <2> QED BY <2>1, <2>2, StillComing DEF Supplied
<1>2. CASE TakeTask \/ Defer \/ AnswerQuick \/ AllIdle \/ StartBatch \/ Decode
  BY <1>2, WakeupAfterTake, WakeupAfterDefer, WakeupAfterRest, WakeupAfterStart
<1>3. CASE HandleCancel
  <2>1. \/ Wake
        \/ UNCHANGED <<slots, tasks>> /\ shape' = shape /\ wasted' = wasted /\ ~InHand("work")
    BY <1>3, Zenon DEF HandleCancel, requests, InHand
  <2> QED BY <2>1, WakeupAfterRelease, WakeupUndisturbed
<1>4. ASSUME NEW s \in Slots,
             \/ Launch(s) \/ Refuse(s) \/ AddPrompt(s) \/ FailSlot(s)
             \/ SendEmbedding(s) \/ NotYet(s)
      PROVE  WakeupComing'
  <2>1. CASE Refuse(s) \/ SendEmbedding(s)
    <3>1. Wake
      BY <2>1 DEF Refuse, SendEmbedding
    <3> QED BY <3>1, WakeupAfterRelease
  <2>2. CASE FailSlot(s)
    <3>1. CASE s \in Processing
      <4>1. Wake
        BY <2>2, <3>1 DEF FailSlot
      <4> QED BY <4>1, WakeupAfterRelease
    <3>2. CASE s \notin Processing
      <4>1. /\ UNCHANGED tasks /\ slots' = [slots EXCEPT ![s] = slots[s]] /\ shape' = shape
            /\ wasted' = wasted /\ ~InHand("work")
        BY <2>2, <3>2 DEF FailSlot, requests, InHand
      <4>2. slots' = slots
        BY <4>1 DEF Inv, Typed
      <4> QED BY <4>1, <4>2, WakeupUndisturbed
    <3> QED BY <3>1, <3>2
  <2> QED BY <1>4, <2>1, <2>2, WakeupAfterLaunch, WakeupAfterSlot, WakeupAfterRest
<1>5. ASSUME NEW s \in Slots, NEW held \in BOOLEAN, NEW stop \in BOOLEAN, Sample(s, held, stop)
      PROVE  WakeupComing'
  <2>1. CASE stop
    <3>1. Wake
      BY <1>5, <2>1 DEF Sample
    <3> QED BY <3>1, WakeupAfterRelease
  <2>2. CASE ~stop
    <3>1. stop = FALSE
      BY <2>2
    <3>2. Sample(s, held, FALSE)
      BY <1>5, <3>1, Zenon
    <3> QED BY <3>2, WakeupAfterSlot
  <2> QED BY <2>1, <2>2
<1>6. CASE UNCHANGED vars
  <2>1. UNCHANGED <<shape, slots, main, wasted, tasks>>
    BY <1>6 DEF vars, requests
  <2> QED BY <2>1, WakeupAfterRest
<1>7. CASE MainLoop
  BY <1>2, <1>3, <1>4, <1>5, <1>7 DEF MainLoop
<1> QED BY <1>1, <1>6, <1>7 DEF Next

\* A deferred task that has a slot to wait for will be woken up: a slot is
\* processing, and its release wakes a task up (pop_deferred_task), or a task that
\* was woken up is on its way, unless one was that took no slot.
THEOREM WakeupAlwaysComing == Spec => []WakeupComing
<1>1. Init => WakeupComing
  BY DEF Init, WakeupComing
<1>2. Inv /\ WakeupComing /\ [Next]_vars => WakeupComing'
  BY WakeupStep
<1> QED BY <1>1, <1>2, InvAlways, PTL DEF Spec
-----------------------------------------------------------------------------
\* Two sets of which one is the image of the other have the same size.
LEMMA SameSize ==
  ASSUME NEW S, NEW T, IsFiniteSet(S), NEW f \in [S -> T],
         \A x, y \in S : f[x] = f[y] => x = y, \A z \in T : \E x \in S : f[x] = z
  PROVE  IsFiniteSet(T) /\ Cardinality(T) = Cardinality(S)
<1>1. f \in Bijection(S, T)
  BY DEF Bijection, Injection, Surjection, IsInjective
<1>2. ExistsBijection(S, T)
  BY <1>1 DEF ExistsBijection
<1> QED BY <1>2, FS_Bijection

\* Two sets with nothing in common.
LEMMA SizesAdd ==
  ASSUME NEW S, NEW T, IsFiniteSet(S), IsFiniteSet(T), \A x \in S : x \notin T
  PROVE  IsFiniteSet(S \cup T) /\ Cardinality(S \cup T) = Cardinality(S) + Cardinality(T)
<1>1. S \cap T = {}
  OBVIOUS
<1>2. Cardinality(S) \in Nat /\ Cardinality(T) \in Nat /\ Cardinality({}) = 0
  BY FS_CardinalityType, FS_EmptySet
<1>3. /\ IsFiniteSet(S \cup T)
      /\ Cardinality(S \cup T) = Cardinality(S) + Cardinality(T) - Cardinality({})
  BY <1>1, FS_Union
<1> QED BY <1>2, <1>3

\* How many works of a task a queue has.
Count(q, id) == Cardinality(Works(q, id))

LEMMA CountTyped ==
  ASSUME NEW T, NEW q \in Seq(T), NEW id
  PROVE  /\ IsFiniteSet(Works(q, id)) /\ Count(q, id) \in Nat
         /\ Works(q, id) \in SUBSET (1 .. Len(q)) /\ Len(q) \in Nat
         /\ (\A i \in DOMAIN q : ~(q[i].kind = "work" /\ q[i].id = id)) => Count(q, id) = 0
<1>1. Works(q, id) \in SUBSET (1 .. Len(q)) /\ Len(q) \in Nat
  BY DEF Works
<1>2. IsFiniteSet(1 .. Len(q))
  BY <1>1, FS_Interval
<1>3. IsFiniteSet(Works(q, id)) /\ Count(q, id) \in Nat
  BY <1>1, <1>2, FS_Subset, FS_CardinalityType DEF Count
<1>4. (\A i \in DOMAIN q : ~(q[i].kind = "work" /\ q[i].id = id)) => Works(q, id) = {}
  BY DEF Works
<1> QED BY <1>1, <1>3, <1>4, FS_EmptySet DEF Count

LEMMA CountJoined ==
  ASSUME NEW T, NEW a \in Seq(T), NEW b \in Seq(T), NEW id
  PROVE  Count(a \o b, id) = Count(a, id) + Count(b, id)
<1> DEFINE c == a \o b
           A == Works(a, id)
           B == Works(b, id)
           f == [j \in B |-> Len(a) + j]
           M == { Len(a) + j : j \in B }
<1>1. /\ c \in Seq(T) /\ Len(c) = Len(a) + Len(b)
      /\ \A i \in 1 .. Len(a) : c[i] = a[i]
      /\ \A j \in 1 .. Len(b) : c[Len(a) + j] = b[j]
  BY Joined
<1>2. /\ Len(a) \in Nat /\ Len(b) \in Nat
      /\ DOMAIN a = 1 .. Len(a) /\ DOMAIN b = 1 .. Len(b) /\ DOMAIN c = 1 .. Len(a) + Len(b)
  BY <1>1
<1> HIDE DEF c
<1>3. /\ IsFiniteSet(A) /\ IsFiniteSet(B) /\ A \in SUBSET (1 .. Len(a)) /\ B \in SUBSET (1 .. Len(b))
  BY CountTyped
<1>4. IsFiniteSet(M) /\ Cardinality(M) = Cardinality(B)
  <2>1. f \in [B -> M]
    OBVIOUS
  <2>2. \A x, y \in B : f[x] = f[y] => x = y
    <3> SUFFICES ASSUME NEW x \in B, NEW y \in B, f[x] = f[y] PROVE x = y
      OBVIOUS
    <3>1. x \in Nat /\ y \in Nat
      BY <1>3
    <3>2. Len(a) + x = Len(a) + y
      OBVIOUS
    <3> QED BY <1>2, <3>1, <3>2
  <2>3. \A z \in M : \E x \in B : f[x] = z
    OBVIOUS
  <2> HIDE DEF f, M, B
  <2> QED BY <1>3, <2>1, <2>2, <2>3, SameSize
<1>5. Works(c, id) = A \cup M
  <2>1. ASSUME NEW i \in A PROVE i \in Works(c, id)
    <3>1. i \in 1 .. Len(a) /\ a[i].kind = "work" /\ a[i].id = id
      BY <1>2 DEF Works
    <3>2. i \in DOMAIN c /\ c[i] = a[i]
      BY <1>1, <1>2, <3>1
    <3> QED BY <3>1, <3>2 DEF Works
  <2>2. ASSUME NEW j \in B PROVE Len(a) + j \in Works(c, id)
    <3>1. j \in 1 .. Len(b) /\ b[j].kind = "work" /\ b[j].id = id
      BY <1>2 DEF Works
    <3>2. Len(a) + j \in DOMAIN c /\ c[Len(a) + j] = b[j]
      BY <1>1, <1>2, <3>1
    <3> QED BY <3>1, <3>2 DEF Works
  <2>3. ASSUME NEW i \in Works(c, id) PROVE i \in A \cup M
    <3>1. i \in 1 .. Len(a) + Len(b) /\ c[i].kind = "work" /\ c[i].id = id
      BY <1>2 DEF Works
    <3>2. CASE i <= Len(a)
      <4>1. i \in DOMAIN a /\ c[i] = a[i]
        BY <1>1, <1>2, <3>1, <3>2
      <4> QED BY <3>1, <4>1 DEF Works
    <3>3. CASE ~(i <= Len(a))
      <4>1. PICK j \in 1 .. Len(b) : i = Len(a) + j
        <5>1. i - Len(a) \in 1 .. Len(b) /\ i = Len(a) + (i - Len(a))
          BY <1>2, <3>1, <3>3
        <5> QED BY <5>1
      <4>2. j \in B
        BY <1>1, <1>2, <3>1, <4>1 DEF Works
      <4> QED BY <4>1, <4>2
    <3> QED BY <3>2, <3>3
  <2> HIDE DEF A, B
  <2> QED BY <2>1, <2>2, <2>3
<1>6. \A x \in A : x \notin M
  <2>1. \A x \in A : x <= Len(a) /\ x \in Nat
    BY <1>2, <1>3
  <2>2. \A x \in M : x > Len(a)
    <3>1. \A j \in B : j \in Nat /\ j > 0
      BY <1>3
    <3> QED BY <1>2, <3>1
  <2> HIDE DEF A, M
  <2> QED BY <1>2, <2>1, <2>2
<1> HIDE DEF A, B, M
<1>7. Cardinality(A \cup M) = Cardinality(A) + Cardinality(M)
  BY <1>3, <1>4, <1>6, SizesAdd
<1> QED BY <1>4, <1>5, <1>7 DEF c, A, B, Count

\* One entry.
LEMMA CountOne ==
  ASSUME NEW e, NEW id
  PROVE  Count(<<e>>, id) = IF e.kind = "work" /\ e.id = id THEN 1 ELSE 0
<1>1. CASE e.kind = "work" /\ e.id = id
  <2>1. Works(<<e>>, id) = {1}
    BY <1>1 DEF Works
  <2> QED BY <1>1, <2>1, FS_Singleton DEF Count
<1>2. CASE ~(e.kind = "work" /\ e.id = id)
  <2>1. Works(<<e>>, id) = {}
    BY <1>2 DEF Works
  <2> QED BY <1>2, <2>1, FS_EmptySet DEF Count
<1> QED BY <1>1, <1>2

LEMMA CountHeadTail ==
  ASSUME NEW T, NEW q \in Seq(T), q # << >>, NEW id
  PROVE  Count(q, id) = (IF Head(q).kind = "work" /\ Head(q).id = id THEN 1 ELSE 0)
                          + Count(Tail(q), id)
<1>1. Head(q) \in T /\ Tail(q) \in Seq(T) /\ q = <<Head(q)>> \o Tail(q)
  OBVIOUS
<1>2. PICK e \in T, r \in Seq(T) : e = Head(q) /\ r = Tail(q)
  BY <1>1
<1>3. <<e>> \in Seq(T)
  OBVIOUS
<1>4. Count(<<e>> \o r, id) = Count(<<e>>, id) + Count(r, id)
  BY <1>3, CountJoined
<1>5. q = <<e>> \o r
  BY <1>1, <1>2
<1> QED BY <1>2, <1>4, <1>5, CountOne

LEMMA CountAppend ==
  ASSUME NEW T, NEW q \in Seq(T), NEW e \in T, NEW id
  PROVE  Count(Append(q, e), id) = Count(q, id)
                          + (IF e.kind = "work" /\ e.id = id THEN 1 ELSE 0)
<1>1. Append(q, e) = q \o <<e>> /\ <<e>> \in Seq(T)
  OBVIOUS
<1>2. Count(q \o <<e>>, id) = Count(q, id) + Count(<<e>>, id)
  BY <1>1, CountJoined
<1> QED BY <1>1, <1>2, CountOne

\* cleanup_pending_task leaves the works.
LEMMA CountCleanup ==
  ASSUME NEW T, NEW q \in Seq(T), NEW ids, NEW id
  PROVE  Count(CleanupPending(q, ids), id) = Count(q, id)
<1> DEFINE S == { i \in DOMAIN q : ~(q[i].kind = "cancel" /\ q[i].id \in ids) }
           c == Part(q, S)
           f == [k \in Works(c, id) |-> Place(S, k)]
<1>1. CleanupPending(q, ids) = c /\ S \in SUBSET DOMAIN q
  BY DEF CleanupPending
<1>2. \A i \in Works(q, id) : i \in S
  BY DEF Works
<1>0. S \in SUBSET Nat
  BY CountTyped
<1> HIDE DEF S
<1>3. /\ c \in Seq(T)
      /\ \A k \in DOMAIN c : Place(S, k) \in S /\ c[k] = q[Place(S, k)]
      /\ \A k, l \in DOMAIN c : k < l => Place(S, k) < Place(S, l)
      /\ \A i \in S : \E k \in DOMAIN c : Place(S, k) = i
  BY <1>1, PartProperties
<1> HIDE DEF c
<1>4. \A k \in Works(c, id) : k \in DOMAIN c /\ k \in Nat /\ c[k].kind = "work" /\ c[k].id = id
  BY <1>3, CountTyped DEF Works
<1>5. f \in [Works(c, id) -> Works(q, id)]
  <2>1. \A k \in Works(c, id) : Place(S, k) \in Works(q, id)
    BY <1>1, <1>3, <1>4 DEF Works
  <2> QED BY <2>1
<1>6. ASSUME NEW x \in Works(c, id), NEW y \in Works(c, id), f[x] = f[y] PROVE x = y
  <2>1. x \in DOMAIN c /\ y \in DOMAIN c /\ x \in Nat /\ y \in Nat /\ Place(S, x) = Place(S, y)
    BY <1>4, <1>6
  <2>2. Place(S, x) \in Nat
    BY <1>0, <1>3, <2>1
  <2>3. ~(x < y) /\ ~(y < x)
    BY <1>3, <2>1, <2>2
  <2> QED BY <2>1, <2>3
<1>7. ASSUME NEW z \in Works(q, id) PROVE \E x \in Works(c, id) : f[x] = z
  <2>1. PICK k \in DOMAIN c : Place(S, k) = z
    BY <1>2, <1>3
  <2>2. k \in Works(c, id)
    BY <1>3, <2>1 DEF Works
  <2> QED BY <2>1, <2>2
<1>8. IsFiniteSet(Works(c, id))
  BY <1>3, CountTyped
<1> HIDE DEF f
<1>9. Cardinality(Works(q, id)) = Cardinality(Works(c, id))
  BY <1>5, <1>6, <1>7, <1>8, SameSize
<1> QED BY <1>1, <1>9 DEF Count

\* Where a task is: in a slot, or in the hand of the main thread.
Is(a, b) == IF a = b THEN 1 ELSE 0
Holders(sl, id) == { s \in Slots : sl[s].state # "IDLE" /\ sl[s].id_task = id }
Held(sl, id) == Cardinality(Holders(sl, id))
Hand(m, id) == IF m.pc = "handle" /\ m.task.kind = "work" /\ m.task.id = id THEN 1 ELSE 0
PlacesOf(q, d, sl, m, id) == Count(q, id) + Count(d, id) + Held(sl, id) + Hand(m, id)

LEMMA PlacesAre ==
  ASSUME NEW id
  PROVE  /\ Places(id) = PlacesOf(queue_tasks, queue_tasks_deferred, slots, main, id)
         /\ Places(id)' = PlacesOf(queue_tasks', queue_tasks_deferred', slots', main', id)
<1>1. /\ { s \in Processing : slots[s].id_task = id }
           = { s \in Slots : slots[s].state # "IDLE" /\ slots[s].id_task = id }
      /\ { s \in Processing' : slots'[s].id_task = id }
           = { s \in Slots : slots'[s].state # "IDLE" /\ slots'[s].id_task = id }
  BY DEF Processing
<1> QED BY <1>1 DEF Places, PlacesOf, Count, Held, Holders, Hand, InHand

LEMMA HeldTyped ==
  ASSUME NEW sl, NEW id
  PROVE  IsFiniteSet(Holders(sl, id)) /\ Held(sl, id) \in Nat
<1>1. IsFiniteSet(Slots)
  BY Sizes, FS_Interval DEF Slots
<1>2. Holders(sl, id) \in SUBSET Slots
  BY DEF Holders
<1> QED BY <1>1, <1>2, FS_Subset, FS_CardinalityType DEF Held

LEMMA PlacesTyped ==
  ASSUME NEW A, NEW q \in Seq(A), NEW B, NEW d \in Seq(B), NEW sl, NEW m, NEW id
  PROVE  PlacesOf(q, d, sl, m, id) \in Nat
<1>1. Count(q, id) \in Nat /\ Count(d, id) \in Nat /\ Held(sl, id) \in Nat
  BY CountTyped, HeldTyped
<1>2. Hand(m, id) \in Nat
  BY DEF Hand
<1> QED BY <1>1, <1>2 DEF PlacesOf

\* A step of a slot that goes on with its task, or stays idle.
LEMMA HeldSame ==
  ASSUME NEW sl, NEW sl2, NEW id,
         \A s \in Slots : /\ sl2[s].state = "IDLE" <=> sl[s].state = "IDLE"
                          /\ sl[s].state # "IDLE" => sl2[s].id_task = sl[s].id_task
  PROVE  Held(sl2, id) = Held(sl, id)
<1>1. Holders(sl2, id) = Holders(sl, id)
  BY DEF Holders
<1> QED BY <1>1 DEF Held

\* A slot that is released, or, the other way round, one that takes a task.
LEMMA HeldReleased ==
  ASSUME NEW sl, NEW sl2, NEW id, NEW s \in Slots,
         sl[s].state # "IDLE", sl2[s].state = "IDLE",
         \A u \in Slots : u # s => sl2[u] = sl[u]
  PROVE  Held(sl, id) = Held(sl2, id) + Is(id, sl[s].id_task)
<1>1. IsFiniteSet(Holders(sl2, id)) /\ Held(sl2, id) \in Nat
  BY HeldTyped
<1>2. s \notin Holders(sl2, id)
  BY DEF Holders
<1>3. CASE id = sl[s].id_task
  <2>1. Holders(sl, id) = Holders(sl2, id) \cup {s}
    BY <1>3 DEF Holders
  <2>2. Held(sl, id) = Held(sl2, id) + 1
    BY <1>1, <1>2, <2>1, FS_AddElement DEF Held
  <2> QED BY <1>3, <2>2 DEF Is
<1>4. CASE id # sl[s].id_task
  <2>1. Holders(sl, id) = Holders(sl2, id)
    BY <1>4 DEF Holders
  <2> QED BY <1>1, <1>4, <2>1 DEF Held, Is
<1> QED BY <1>3, <1>4

\* The id of a task that has been posted; what the entries of the queues are about:
\* works of posted tasks, and cancellations of tasks that nobody waits for any more.
Known(sh, h, id) ==
  id \in TaskId /\ id.n \in 1 .. sh[id.req].tasks /\ h[id.req] \notin {"new", "registered"}
EntryOK(sh, h, e) ==
  /\ e.kind = "work" => Known(sh, h, e.id)
  /\ e.kind = "cancel" => Known(sh, h, e.id) /\ h[e.id.req] = "gone"
AllOK(sh, h, q) == \A i \in DOMAIN q : EntryOK(sh, h, q[i])

LEMMA JoinedOK ==
  ASSUME NEW T, NEW a \in Seq(T), NEW b \in Seq(T), NEW sh, NEW h,
         AllOK(sh, h, a), AllOK(sh, h, b)
  PROVE  AllOK(sh, h, a \o b)
<1> DEFINE c == a \o b
<1>1. /\ c \in Seq(T) /\ Len(c) = Len(a) + Len(b)
      /\ \A i \in 1 .. Len(a) : c[i] = a[i]
      /\ \A j \in 1 .. Len(b) : c[Len(a) + j] = b[j]
  BY Joined
<1>2. /\ Len(a) \in Nat /\ Len(b) \in Nat
      /\ DOMAIN a = 1 .. Len(a) /\ DOMAIN b = 1 .. Len(b) /\ DOMAIN c = 1 .. Len(a) + Len(b)
  BY <1>1
<1> HIDE DEF c
<1>3. ASSUME NEW i \in DOMAIN c PROVE EntryOK(sh, h, c[i])
  <2>1. CASE i <= Len(a)
    <3>1. i \in DOMAIN a /\ c[i] = a[i]
      BY <1>1, <1>2, <2>1
    <3> QED BY <3>1 DEF AllOK
  <2>2. CASE ~(i <= Len(a))
    <3>1. PICK j \in 1 .. Len(b) : i = Len(a) + j
      <4>1. i - Len(a) \in 1 .. Len(b) /\ i = Len(a) + (i - Len(a))
        BY <1>2, <2>2
      <4> QED BY <4>1
    <3>2. j \in DOMAIN b /\ c[i] = b[j]
      BY <1>1, <1>2, <3>1
    <3> QED BY <3>2 DEF AllOK
  <2> QED BY <2>1, <2>2
<1> QED BY <1>3 DEF AllOK, c

\* The release of a slot moves a task from one queue to the other.
LEMMA WakeMoves ==
  ASSUME Typed, Wake \/ UNCHANGED tasks
  PROVE  /\ QueuesTyped
         /\ \A id : Count(queue_tasks', id) + Count(queue_tasks_deferred', id)
                      = Count(queue_tasks, id) + Count(queue_tasks_deferred, id)
         /\ \A sh, h : AllOK(sh, h, queue_tasks) /\ AllOK(sh, h, queue_tasks_deferred)
                         => AllOK(sh, h, queue_tasks') /\ AllOK(sh, h, queue_tasks_deferred')
<1>0. queue_tasks \in Seq(Entry) /\ queue_tasks_deferred \in Seq(Begins)
  BY DEF Typed
<1>1. CASE UNCHANGED tasks
  BY <1>0, <1>1 DEF tasks, QueuesTyped
<1>2. CASE Wake /\ queue_tasks_deferred = << >>
  BY <1>0, <1>2 DEF Wake, tasks, QueuesTyped
<1>3. CASE Wake /\ queue_tasks_deferred # << >>
  <2>1. PICK a \in Begins, d \in Seq(Begins) :
          a = Head(queue_tasks_deferred) /\ d = Tail(queue_tasks_deferred)
          /\ a = queue_tasks_deferred[1]
    <3>1. queue_tasks_deferred # << >>
      BY <1>3
    <3>2. /\ Head(queue_tasks_deferred) \in Begins /\ Tail(queue_tasks_deferred) \in Seq(Begins)
          /\ Head(queue_tasks_deferred) = queue_tasks_deferred[1]
      BY <1>0, <3>1
    <3> QED BY <3>2
  <2>2. PICK e \in Begins : e = [a EXCEPT !.woken = TRUE]
    BY DEF Begins
  <2>3. e.kind = "work" /\ a.kind = "work" /\ e.id = a.id
    BY <2>2 DEF Begins
  <2>4. queue_tasks' = <<e>> \o queue_tasks /\ queue_tasks_deferred' = d
    BY <1>3, <2>1, <2>2 DEF Wake
  <2>5. <<e>> \in Seq(Entry)
    <3>1. e \in Entry
      BY DEF Entry
    <3> QED BY <3>1
  <2>6. QueuesTyped
    BY <1>0, <2>4, <2>5 DEF QueuesTyped
  <2>7. ASSUME NEW id
        PROVE  Count(queue_tasks', id) + Count(queue_tasks_deferred', id)
                 = Count(queue_tasks, id) + Count(queue_tasks_deferred, id)
    <3>1. Count(queue_tasks', id) = Count(<<e>>, id) + Count(queue_tasks, id)
      BY <1>0, <2>4, <2>5, CountJoined
    <3>2. Count(<<e>>, id) = IF a.id = id THEN 1 ELSE 0
      BY <2>3, CountOne
    <3>3. Count(queue_tasks_deferred, id) = (IF a.id = id THEN 1 ELSE 0) + Count(d, id)
      BY <1>0, <1>3, <2>1, <2>3, CountHeadTail
    <3>4. Count(queue_tasks, id) \in Nat /\ Count(d, id) \in Nat
      BY <1>0, CountTyped
    <3> QED BY <2>4, <3>1, <3>2, <3>3, <3>4
  <2>8. ASSUME NEW sh, NEW h, AllOK(sh, h, queue_tasks), AllOK(sh, h, queue_tasks_deferred)
        PROVE  AllOK(sh, h, queue_tasks') /\ AllOK(sh, h, queue_tasks_deferred')
    <3>1. 1 \in DOMAIN queue_tasks_deferred
      BY <1>0, <1>3
    <3>2. EntryOK(sh, h, a)
      BY <2>1, <2>8, <3>1 DEF AllOK
    <3>3. EntryOK(sh, h, e)
      BY <2>3, <3>2 DEF EntryOK
    <3>4. AllOK(sh, h, <<e>>)
      BY <3>3 DEF AllOK
    <3>5. AllOK(sh, h, queue_tasks')
      BY <1>0, <2>4, <2>5, <2>8, <3>4, JoinedOK
    <3>6. \A i \in DOMAIN d : i + 1 \in DOMAIN queue_tasks_deferred
                              /\ d[i] = queue_tasks_deferred[i + 1]
      BY <1>0, <1>3, <2>1
    <3>7. AllOK(sh, h, d)
      BY <2>8, <3>6 DEF AllOK
    <3> QED BY <2>4, <3>5, <3>7
  <2> QED BY <2>6, <2>7, <2>8
<1> QED BY <1>1, <1>2, <1>3

\* A result, and what the steps of the main thread do to the tasks and the results.
Result ==
  [id : TaskId, kind : {"final"}, upto : Nat] \cup [id : TaskId, kind : {"error"}]
    \cup [id : TaskId, kind : {"partial"}, from : Nat, upto : Nat]

\* Every entry and every slot is about a task that was posted, and the task that
\* an idle slot had last is in no place any more.
EntriesOK ==
  /\ AllOK(shape, http, queue_tasks) /\ AllOK(shape, http, queue_tasks_deferred)
  /\ EntryOK(shape, http, main.task)
  /\ \A s \in Slots : slots[s].id_task = NoTask \/ Known(shape, http, slots[s].id_task)
SpentOK ==
  \A s \in Slots : \A id \in TaskId :
    slots[s].state = "IDLE" /\ slots[s].id_task = id => Places(id) = 0

EntriesStay ==
  /\ AllOK(shape, http, queue_tasks') /\ AllOK(shape, http, queue_tasks_deferred')
  /\ EntryOK(shape, http, main'.task)
  /\ \A s \in Slots : slots'[s].id_task = NoTask \/ Known(shape, http, slots'[s].id_task)

\* The tasks stay where they are, or one of them leaves.
Keeps == \A id \in TaskId : Places(id)' = Places(id)
Loses(t) == \A id \in TaskId : Places(id) = Places(id)' + Is(id, t)
Stays(s) == slots[s].state = "IDLE" /\ slots'[s].id_task = slots[s].id_task
Settles == \A s \in Slots : slots'[s].state = "IDLE" => Stays(s)
Idles(t) == \A s \in Slots : slots'[s].state = "IDLE" => Stays(s) \/ slots'[s].id_task = t

Quiet == Keeps /\ Settles /\ queue_results' = queue_results
Cancels(t) ==
  Loses(t) /\ Idles(t) /\ http[t.req] = "gone" /\ queue_results' = queue_results
Answers(t) ==
  /\ Loses(t) /\ Idles(t)
  /\ \E e \in Result : /\ e.id = t /\ e.kind \in {"final", "error"}
                       /\ queue_results' = Sent(queue_results, e)
Streams(t) ==
  /\ Keeps /\ Settles /\ Places(t) >= 1
  /\ \E e \in Result : /\ e.id = t /\ e.kind = "partial"
                       /\ queue_results' = Sent(queue_results, e)
Completes(t) ==
  /\ Loses(t) /\ Idles(t)
  /\ \E a, e \in Result : /\ a.id = t /\ a.kind = "partial" /\ e.id = t /\ e.kind = "final"
                          /\ queue_results' = Sent(Sent(queue_results, a), e)
Errs(t) ==
  /\ Keeps /\ Settles /\ Places(t) = 0
  /\ \E e \in Result : /\ e.id = t /\ e.kind = "error"
                       /\ queue_results' = Sent(queue_results, e)

Effect ==
  /\ UNCHANGED <<requests, waiting_task_ids>> /\ EntriesStay
  /\ \/ Quiet
     \/ \E t \in TaskId : /\ Known(shape, http, t)
                          /\ \/ Cancels(t) \/ Answers(t) \/ Streams(t) \/ Completes(t) \/ Errs(t)

Before == Inv /\ EntriesOK /\ SpentOK /\ waiting_task_ids \subseteq TaskId

\* The tasks stay when each kind of place counts as before.
LEMMA KeepsWhen ==
  ASSUME \A id : Count(queue_tasks', id) + Count(queue_tasks_deferred', id)
                   = Count(queue_tasks, id) + Count(queue_tasks_deferred, id),
         \A id : Held(slots', id) = Held(slots, id), \A id : Hand(main', id) = Hand(main, id)
  PROVE  Keeps
<1> SUFFICES ASSUME NEW id \in TaskId PROVE Places(id)' = Places(id)
  BY DEF Keeps
<1> QED BY PlacesAre DEF PlacesOf

\* The main thread has no task in hand.
LEMMA EmptyHand ==
  ASSUME NEW m, m.pc # "handle" \/ m.task.kind # "work", NEW id
  PROVE  Hand(m, id) = 0
BY DEF Hand

\* A slot takes a step and keeps its task, or stays idle with the last one it had.
GoesOn(s) ==
  /\ slots'[s].state = "IDLE" <=> slots[s].state = "IDLE"
  /\ slots'[s].id_task = slots[s].id_task

LEMMA StayEffect ==
  ASSUME Before, UNCHANGED tasks, \A s \in Slots : GoesOn(s),
         \A id : Hand(main', id) = Hand(main, id), EntryOK(shape, http, main'.task)
  PROVE  Keeps /\ Settles /\ EntriesStay
<1>1. \A id : Held(slots', id) = Held(slots, id)
  BY HeldSame DEF GoesOn
<1>2. Keeps
  BY <1>1, KeepsWhen DEF tasks
<1>3. Settles
  BY DEF Settles, Stays, GoesOn
<1>4. EntriesStay
  BY DEF EntriesStay, Before, EntriesOK, GoesOn, tasks
<1> QED BY <1>2, <1>3, <1>4

\* A slot that has a task is released.
LEMMA ReleaseEffect ==
  ASSUME Before, NEW s \in Slots, slots[s].state # "IDLE", slots'[s].state = "IDLE",
         slots'[s].id_task = slots[s].id_task, \A u \in Slots : u # s => slots'[u] = slots[u],
         Wake, \A id : Hand(main', id) = 0 /\ Hand(main, id) = 0,
         EntryOK(shape, http, main'.task)
  PROVE  LET t == slots[s].id_task
         IN  Known(shape, http, t) /\ Loses(t) /\ Idles(t) /\ EntriesStay
<1>1. Typed /\ QueuesTyped
  BY WakeMoves DEF Before, Inv
<1>2. PICK t \in TaskId : t = slots[s].id_task
  BY DEF Before, Inv, SlotsOK, SlotOK, Within
<1>3. Known(shape, http, t)
  BY <1>2, NoTaskAssumption DEF Before, EntriesOK, TaskId
<1>4. ASSUME NEW id \in TaskId PROVE Places(id) = Places(id)' + Is(id, t)
  <2>1. Held(slots, id) = Held(slots', id) + Is(id, t)
    BY <1>2, HeldReleased
  <2>2. Count(queue_tasks', id) + Count(queue_tasks_deferred', id)
                 = Count(queue_tasks, id) + Count(queue_tasks_deferred, id)
    BY <1>1, WakeMoves
  <2>3. /\ Count(queue_tasks, id) \in Nat /\ Count(queue_tasks_deferred, id) \in Nat
        /\ Count(queue_tasks', id) \in Nat /\ Count(queue_tasks_deferred', id) \in Nat
        /\ Held(slots', id) \in Nat /\ Is(id, t) \in Nat
    BY <1>1, CountTyped, HeldTyped DEF Typed, QueuesTyped, Is
  <2>4. Hand(main', id) = 0 /\ Hand(main, id) = 0
    OBVIOUS
  <2> QED BY <2>1, <2>2, <2>3, <2>4, PlacesAre DEF PlacesOf
<1>5. Idles(t)
  BY <1>2 DEF Idles, Stays
<1>6. EntriesStay
  <2>1. AllOK(shape, http, queue_tasks') /\ AllOK(shape, http, queue_tasks_deferred')
    BY <1>1, WakeMoves DEF Before, EntriesOK
  <2>2. \A u \in Slots : slots'[u].id_task = slots[u].id_task
    OBVIOUS
  <2> QED BY <2>1, <2>2 DEF EntriesStay, Before, EntriesOK
<1> QED BY <1>2, <1>3, <1>4, <1>5, <1>6 DEF Loses

\* What the main thread goes on to: it has no other task in hand than before.
LEMMA TaskOfFill ==
  ASSUME NEW lead, NEW n, NEW s, NEW joined
  PROVE  Fill(lead, n, s, joined).task = NextResponse /\ Fill(lead, n, s, joined).pc # "handle"
<1> DEFINE c(x) == [At("fill") EXCEPT !.lead = lead, !.n_tokens = n, !.cursor = x]
           d == [At("decode") EXCEPT !.n_tokens = n]
<1>1. \A x : c(x).task = NextResponse /\ c(x).pc # "handle"
  BY DEF At
<1>2. /\ d.task = NextResponse /\ d.pc # "handle"
      /\ At("wait").task = NextResponse /\ At("wait").pc # "handle"
  BY DEF At
<1>3. \/ Fill(lead, n, s, joined) = At("wait") \/ Fill(lead, n, s, joined) = d
      \/ \E x : Fill(lead, n, s, joined) = c(x)
  BY DEF Fill
<1> HIDE DEF c, d
<1> QED BY <1>1, <1>2, <1>3

LEMMA FilledTask ==
  ASSUME NEW lead, NEW n, NEW s, NEW joined, main' = Fill(lead, n, s, joined)
  PROVE  main'.pc # "handle" /\ main'.task = NextResponse
<1> DEFINE f == Fill(lead, n, s, joined)
<1>1. f.task = NextResponse /\ f.pc # "handle" /\ main' = f
  BY TaskOfFill
<1> HIDE DEF f
<1> QED BY <1>1

LEMMA TaskOfEmit ==
  ASSUME Typed, NEW s
  PROVE  (Emit(s).task = NextResponse \/ Emit(s).task = main.task) /\ Emit(s).pc # "handle"
<1> DEFINE c(x) == [main EXCEPT !.pc = "emit", !.cursor = x]
           d == [At("decode") EXCEPT !.n_tokens = main.n_tokens, !.i = Upto]
<1>1. main \in MainThread
  BY DEF Typed
<1>2. \A x : c(x).task = main.task /\ c(x).pc # "handle"
  BY <1>1 DEF MainThread
<1>3. /\ d.task = NextResponse /\ d.pc # "handle"
      /\ At("wait").task = NextResponse /\ At("wait").pc # "handle"
  BY DEF At
<1>4. Emit(s) = At("wait") \/ Emit(s) = d \/ \E x : Emit(s) = c(x)
  BY DEF Emit
<1> HIDE DEF c, d
<1> QED BY <1>2, <1>3, <1>4

LEMMA NextOK ==
  ASSUME NEW sh, NEW h
  PROVE  EntryOK(sh, h, NextResponse) /\ NextResponse.kind # "work"
BY DEF EntryOK, NextResponse

\* A step that leaves the queues, the slots' tasks and the results alone.
LEMMA QuietEffect ==
  ASSUME Before, UNCHANGED <<requests, results, tasks>>, \A s \in Slots : GoesOn(s),
         main.pc # "handle", main'.pc # "handle",
         main'.task = NextResponse \/ main'.task = main.task
  PROVE  Effect
<1>1. \A id : Hand(main', id) = Hand(main, id)
  BY EmptyHand
<1>2. EntryOK(shape, http, main'.task)
  BY NextOK DEF Before, EntriesOK
<1>3. UNCHANGED tasks
  OBVIOUS
<1>4. Keeps /\ Settles /\ EntriesStay
  BY <1>1, <1>2, <1>3, StayEffect
<1> QED BY <1>4 DEF Effect, Quiet, results

LEMMA TakeEffect ==
  ASSUME Before, TakeTask
  PROVE  Effect
<1>1. /\ UNCHANGED <<requests, results>> /\ slots' = slots
      /\ queue_tasks_deferred' = queue_tasks_deferred
      /\ queue_tasks # << >> /\ queue_tasks' = Tail(queue_tasks) /\ main.pc # "handle"
      /\ main' = IF Head(queue_tasks) = NextResponse THEN At("take")
                 ELSE [At("handle") EXCEPT !.task = Head(queue_tasks)]
  BY DEF TakeTask
<1>2. queue_tasks \in Seq(Entry) /\ AllOK(shape, http, queue_tasks)
  BY DEF Before, Inv, Typed, EntriesOK
<1>3. PICK e \in Entry : e = Head(queue_tasks) /\ e = queue_tasks[1]
  BY <1>1, <1>2
<1>4. EntryOK(shape, http, e)
  <2>1. 1 \in DOMAIN queue_tasks
    BY <1>1, <1>2
  <2> QED BY <1>2, <1>3, <2>1 DEF AllOK
<1>5. EntryOK(shape, http, main'.task)
      /\ \A id : Hand(main', id) = IF e.kind = "work" /\ e.id = id THEN 1 ELSE 0
  <2>1. CASE e = NextResponse
    <3>1. main' = At("take")
      BY <1>1, <1>3, <2>1
    <3>2. main'.pc = "take" /\ main'.task = NextResponse
      BY <3>1 DEF At
    <3>3. e.kind # "work"
      BY <2>1, NextOK
    <3> QED BY <3>2, <3>3, NextOK DEF Hand
  <2>2. CASE e # NextResponse
    <3>1. main' = [At("handle") EXCEPT !.task = e]
      BY <1>1, <1>3, <2>2
    <3>2. main'.pc = "handle" /\ main'.task = e
      BY <3>1 DEF At
    <3> QED BY <1>4, <3>2 DEF Hand
  <2> QED BY <2>1, <2>2
<1>6. \A id : Hand(main, id) = 0
  BY <1>1, EmptyHand
<1>7. ASSUME NEW id \in TaskId PROVE Places(id)' = Places(id)
  <2>1. Count(queue_tasks, id) = (IF e.kind = "work" /\ e.id = id THEN 1 ELSE 0)
                                   + Count(queue_tasks', id)
    BY <1>1, <1>2, <1>3, CountHeadTail
  <2>2. Count(queue_tasks', id) \in Nat /\ Count(queue_tasks_deferred, id) \in Nat
        /\ Held(slots, id) \in Nat
    <3>1. queue_tasks' \in Seq(Entry) /\ queue_tasks_deferred \in Seq(Begins)
      BY <1>1, <1>2 DEF Before, Inv, Typed
    <3> QED BY <3>1, CountTyped, HeldTyped
  <2>3. Hand(main', id) = (IF e.kind = "work" /\ e.id = id THEN 1 ELSE 0) /\ Hand(main, id) = 0
    BY <1>5, <1>6
  <2>4. Places(id) = Count(queue_tasks, id) + Count(queue_tasks_deferred, id)
                       + Held(slots, id) + Hand(main, id)
        /\ Places(id)' = Count(queue_tasks', id) + Count(queue_tasks_deferred, id)
                       + Held(slots, id) + Hand(main', id)
    BY <1>1, PlacesAre DEF PlacesOf
  <2> QED BY <2>1, <2>2, <2>3, <2>4
<1>8. AllOK(shape, http, queue_tasks')
  <2>1. \A i \in DOMAIN queue_tasks' : i + 1 \in DOMAIN queue_tasks
                                        /\ queue_tasks'[i] = queue_tasks[i + 1]
    BY <1>1, <1>2
  <2> QED BY <1>2, <2>1 DEF AllOK
<1>9. EntriesStay
  BY <1>1, <1>5, <1>8 DEF EntriesStay, Before, EntriesOK
<1>10. Settles
  BY <1>1 DEF Settles, Stays
<1> QED BY <1>1, <1>7, <1>9, <1>10 DEF Effect, Quiet, Keeps, results

LEMMA DeferEffect ==
  ASSUME Before, Defer
  PROVE  Effect
<1>1. /\ InHand("work") /\ UNCHANGED <<requests, results>> /\ slots' = slots
      /\ queue_tasks' = queue_tasks /\ main' = At("take")
      /\ queue_tasks_deferred' = Append(queue_tasks_deferred, [main.task EXCEPT !.woken = FALSE])
  BY DEF Defer, DeferTask, Handled
<1>2. queue_tasks \in Seq(Entry) /\ queue_tasks_deferred \in Seq(Begins) /\ Typed
  BY DEF Before, Inv, Typed
<1>3. PICK t \in Begins : t = main.task
  BY <1>1, <1>2, InHandTyped
<1>4. PICK e \in Begins : e = [t EXCEPT !.woken = FALSE]
  BY DEF Begins
<1>5. e.kind = "work" /\ t.kind = "work" /\ e.id = t.id
  BY <1>4 DEF Begins
<1>6. queue_tasks_deferred' = Append(queue_tasks_deferred, e)
  BY <1>1, <1>3, <1>4
<1>7. EntryOK(shape, http, e)
  BY <1>3, <1>5 DEF Before, EntriesOK, EntryOK
<1>8. main'.pc = "take" /\ main'.task = NextResponse
  BY <1>1 DEF At
<1>9. ASSUME NEW id \in TaskId PROVE Places(id)' = Places(id)
  <2>1. Count(queue_tasks_deferred', id) = Count(queue_tasks_deferred, id)
                                             + (IF e.id = id THEN 1 ELSE 0)
    BY <1>2, <1>5, <1>6, CountAppend
  <2>2. Hand(main', id) = 0 /\ Hand(main, id) = IF e.id = id THEN 1 ELSE 0
    <3>1. main.pc = "handle" /\ main.task.kind = "work" /\ main.task.id = e.id
      BY <1>1, <1>3, <1>5 DEF InHand
    <3>2. Hand(main', id) = 0
      BY <1>8, EmptyHand
    <3> QED BY <3>1, <3>2 DEF Hand
  <2>3. Count(queue_tasks, id) \in Nat /\ Count(queue_tasks_deferred, id) \in Nat
        /\ Held(slots, id) \in Nat
    BY <1>2, CountTyped, HeldTyped
  <2>4. Places(id) = Count(queue_tasks, id) + Count(queue_tasks_deferred, id)
                       + Held(slots, id) + Hand(main, id)
        /\ Places(id)' = Count(queue_tasks, id) + Count(queue_tasks_deferred', id)
                       + Held(slots, id) + Hand(main', id)
    BY <1>1, PlacesAre DEF PlacesOf
  <2> QED BY <2>1, <2>2, <2>3, <2>4
<1>10. AllOK(shape, http, queue_tasks_deferred')
  <2>1. \A i \in DOMAIN queue_tasks_deferred' :
          \/ i \in DOMAIN queue_tasks_deferred
             /\ queue_tasks_deferred'[i] = queue_tasks_deferred[i]
          \/ queue_tasks_deferred'[i] = e
    BY <1>2, <1>6
  <2> QED BY <1>7, <2>1 DEF AllOK, Before, EntriesOK
<1>11. EntriesStay
  BY <1>1, <1>8, <1>10, NextOK DEF EntriesStay, Before, EntriesOK
<1>12. Settles
  BY <1>1 DEF Settles, Stays
<1> QED BY <1>1, <1>9, <1>11, <1>12 DEF Effect, Quiet, Keeps, results

\* A task in hand is replied to: no slot takes it.
LEMMA HandLoses ==
  ASSUME Before, InHand("work"), main' = At("take"), UNCHANGED tasks,
         \A s \in Slots : slots'[s].state = slots[s].state,
         \A s \in Slots : slots'[s].id_task = slots[s].id_task
                          \/ (slots[s].state = "IDLE" /\ slots'[s].id_task = main.task.id)
  PROVE  LET t == main.task.id
         IN  t \in TaskId /\ Known(shape, http, t) /\ Loses(t) /\ Idles(t) /\ EntriesStay
<1>1. PICK t \in TaskId : t = main.task.id
  BY InHandTyped DEF Before, Inv
<1>2. Known(shape, http, t)
  BY <1>1 DEF Before, EntriesOK, EntryOK, InHand
<1>3. main'.pc = "take" /\ main'.task = NextResponse
  BY DEF At
<1>4. ASSUME NEW id \in TaskId PROVE Places(id) = Places(id)' + Is(id, t)
  <2>1. Held(slots', id) = Held(slots, id)
    BY HeldSame
  <2>2. Hand(main, id) = Is(id, t) /\ Hand(main', id) = 0
    <3>1. Hand(main', id) = 0
      BY <1>3, EmptyHand
    <3> QED BY <1>1, <3>1 DEF Hand, Is, InHand
  <2>3. Count(queue_tasks, id) \in Nat /\ Count(queue_tasks_deferred, id) \in Nat
        /\ Held(slots, id) \in Nat
    BY CountTyped, HeldTyped DEF Before, Inv, Typed
  <2>4. Is(id, t) \in Nat
    BY DEF Is
  <2>5. Places(id) = Count(queue_tasks, id) + Count(queue_tasks_deferred, id)
                       + Held(slots, id) + Hand(main, id)
        /\ Places(id)' = Count(queue_tasks, id) + Count(queue_tasks_deferred, id)
                       + Held(slots', id) + Hand(main', id)
    BY PlacesAre DEF PlacesOf, tasks
  <2> QED BY <2>1, <2>2, <2>3, <2>4, <2>5
<1>5. Idles(t)
  BY <1>1 DEF Idles, Stays
<1>6. EntriesStay
  BY <1>1, <1>2, <1>3, NextOK DEF EntriesStay, Before, EntriesOK, tasks
<1> QED BY <1>1, <1>2, <1>4, <1>5, <1>6 DEF Loses

LEMMA AnswerEffect ==
  ASSUME Before, AnswerQuick
  PROVE  Effect
<1>1. /\ InHand("work") /\ main' = At("take") /\ UNCHANGED <<requests, waiting_task_ids, tasks, slots>>
      /\ \/ queue_results' = Sent(queue_results, Final(main.task.id, 0))
         \/ queue_results' = Sent(queue_results, Error(main.task.id))
  BY DEF AnswerQuick, Handled
<1>2. PICK t \in TaskId : t = main.task.id
  BY <1>1, InHandTyped DEF Before, Inv
<1>3. Known(shape, http, t) /\ Loses(t) /\ Idles(t) /\ EntriesStay
  <2>1. InHand("work") /\ main' = At("take") /\ UNCHANGED tasks /\ slots' = slots
    BY <1>1
  <2> QED BY <1>2, <2>1, HandLoses
<1>4. Answers(t)
  <2>1. Final(t, 0) \in Result /\ Final(t, 0).id = t /\ Final(t, 0).kind = "final"
    BY DEF Final, Result
  <2>2. Error(t) \in Result /\ Error(t).id = t /\ Error(t).kind = "error"
    BY DEF Error, Result
  <2> QED BY <1>1, <1>2, <1>3, <2>1, <2>2 DEF Answers
<1> QED BY <1>1, <1>3, <1>4 DEF Effect

LEMMA LaunchEffect ==
  ASSUME Before, NEW s \in Slots, Launch(s)
  PROVE  Effect
<1>1. /\ InHand("work") /\ main' = At("take") /\ UNCHANGED <<requests, waiting_task_ids, tasks>>
      /\ slots[s].state = "IDLE" /\ main.pc = "handle"
  <2>1. /\ InHand("work") /\ main' = At("take") /\ UNCHANGED requests /\ UNCHANGED tasks
        /\ slots[s].state = "IDLE" /\ main.pc = "handle"
    BY DEF Launch, Handled, Processing, InHand
  <2>2. UNCHANGED waiting_task_ids
    BY DEF Launch, results
  <2> QED BY <2>1, <2>2
<1>2. slots \in [Slots -> Slot] /\ Typed /\ slots[s] \in Slot /\ slots[s].i_batch \in Int
  BY DEF Before, Inv, Typed, Slot
<1>3. PICK t \in TaskId : t = main.task.id
  BY <1>1, <1>2, InHandTyped
<1>4. Known(shape, http, t)
  BY <1>1, <1>3 DEF Before, EntriesOK, EntryOK, InHand
<1>5. main'.pc = "take" /\ main'.task = NextResponse
  BY <1>1 DEF At
<1>6. CASE Asked(main.task.id).valid
  <2> DEFINE v == [IdleSlot EXCEPT !.state = "STARTED", !.id_task = t, !.i_batch = slots[s].i_batch]
  <2>1. slots' = [slots EXCEPT ![s] = v] /\ UNCHANGED results
    BY <1>3, <1>6 DEF Launch
  <2>2. v.state = "STARTED" /\ v.id_task = t
    BY DEF IdleSlot
  <2> HIDE DEF v
  <2>3. slots'[s] = v /\ \A u \in Slots : u # s => slots'[u] = slots[u]
    BY <1>2, <2>1
  <2>4. ASSUME NEW id \in TaskId PROVE Places(id)' = Places(id)
    <3>1. slots'[s].state # "IDLE" /\ slots'[s].id_task = t
      BY <2>2, <2>3
    <3>2. Held(slots', id) = Held(slots, id) + Is(id, slots'[s].id_task)
      <4>1. slots[s].state = "IDLE" /\ \A u \in Slots : u # s => slots[u] = slots'[u]
        BY <1>1, <2>3
      <4> QED BY <3>1, <4>1, HeldReleased
    <3>3. Hand(main, id) = Is(id, t) /\ Hand(main', id) = 0
      <4>1. Hand(main', id) = 0
        BY <1>5, EmptyHand
      <4> QED BY <1>1, <1>3, <4>1 DEF Hand, Is, InHand
    <3>4. Count(queue_tasks, id) \in Nat /\ Count(queue_tasks_deferred, id) \in Nat
          /\ Held(slots, id) \in Nat
      BY CountTyped, HeldTyped DEF Before, Inv, Typed
    <3>5. Is(id, t) \in Nat
      BY DEF Is
    <3>6. Places(id) = Count(queue_tasks, id) + Count(queue_tasks_deferred, id)
                       + Held(slots, id) + Hand(main, id)
          /\ Places(id)' = Count(queue_tasks, id) + Count(queue_tasks_deferred, id)
                       + Held(slots', id) + Hand(main', id)
      BY <1>1, PlacesAre DEF PlacesOf, tasks
    <3> QED BY <3>1, <3>2, <3>3, <3>4, <3>5, <3>6
  <2>5. Settles
    BY <2>2, <2>3 DEF Settles, Stays
  <2>6. EntriesStay
    BY <1>1, <1>4, <1>5, <2>2, <2>3, NextOK DEF EntriesStay, Before, EntriesOK, tasks
  <2> QED BY <1>1, <2>1, <2>4, <2>5, <2>6 DEF Effect, Quiet, Keeps, results
<1>7. CASE ~Asked(main.task.id).valid
  <2>1. /\ slots' = [slots EXCEPT ![s].id_task = t]
        /\ queue_results' = Sent(queue_results, Error(t))
    BY <1>3, <1>7 DEF Launch
  <2>2. PICK v \in Slot : v = [slots[s] EXCEPT !.id_task = t]
    BY <1>2 DEF Slot
  <2>3. v.state = "IDLE" /\ v.id_task = t
    BY <1>1, <1>2, <2>2 DEF Slot
  <2>4. slots'[s] = v /\ \A u \in Slots : u # s => slots'[u] = slots[u]
    BY <1>2, <2>1, <2>2
  <2>5. /\ \A u \in Slots : slots'[u].state = slots[u].state
        /\ \A u \in Slots : slots'[u].id_task = slots[u].id_task
                            \/ (slots[u].state = "IDLE" /\ slots'[u].id_task = main.task.id)
    BY <1>1, <1>3, <2>3, <2>4
  <2>6. InHand("work") /\ main' = At("take") /\ UNCHANGED tasks
    BY <1>1
  <2>7. Loses(t) /\ Idles(t) /\ EntriesStay
    BY <1>3, <2>5, <2>6, HandLoses
  <2>8. Error(t) \in Result /\ Error(t).id = t /\ Error(t).kind = "error"
    BY DEF Error, Result
  <2>9. Answers(t)
    BY <2>1, <2>7, <2>8 DEF Answers
  <2> QED BY <1>1, <1>4, <2>7, <2>9 DEF Effect
<1> QED BY <1>6, <1>7

\* What a released slot keeps.
LEMMA ReleasedTask ==
  ASSUME Typed, NEW s \in Slots
  PROVE  /\ Released(s).id_task = slots[s].id_task
         /\ [Released(s) EXCEPT !.i_batch = -1].id_task = slots[s].id_task
<1>1. Released(s).id_task = slots[s].id_task
  BY DEF Released, IdleSlot
<1>2. Released(s) \in Slot
  BY ReleasedIdle
<1> HIDE DEF Released
<1> QED BY <1>1, <1>2 DEF Slot

\* One of the slots becomes v, idle with the task it had.
LEMMA ReleasedEffect ==
  ASSUME Before, NEW s \in Slots, slots[s].state # "IDLE", NEW v,
         v = Released(s) \/ v = [Released(s) EXCEPT !.i_batch = -1],
         slots' = [slots EXCEPT ![s] = v], Wake, main.pc # "handle" \/ main.task.kind # "work",
         main'.pc # "handle", main'.task = NextResponse \/ main'.task = main.task
  PROVE  LET t == slots[s].id_task
         IN  t \in TaskId /\ Known(shape, http, t) /\ Loses(t) /\ Idles(t) /\ EntriesStay
<1>1. Typed /\ slots \in [Slots -> Slot]
  BY DEF Before, Inv, Typed
<1>2. v.state = "IDLE" /\ v.id_task = slots[s].id_task
  <2>1. /\ Released(s).state = "IDLE" /\ [Released(s) EXCEPT !.i_batch = -1].state = "IDLE"
    BY <1>1, ReleasedIdle
  <2>2. /\ Released(s).id_task = slots[s].id_task
        /\ [Released(s) EXCEPT !.i_batch = -1].id_task = slots[s].id_task
    BY <1>1, ReleasedTask
  <2> QED BY <2>1, <2>2
<1>3. slots'[s] = v /\ \A u \in Slots : u # s => slots'[u] = slots[u]
  BY <1>1
<1>4. \A id : Hand(main', id) = 0 /\ Hand(main, id) = 0
  BY EmptyHand
<1>5. EntryOK(shape, http, main'.task)
  BY NextOK DEF Before, EntriesOK
<1>6. slots[s].id_task \in TaskId
  BY DEF Before, Inv, SlotsOK, SlotOK, Within
<1>7. slots'[s].state = "IDLE" /\ slots'[s].id_task = slots[s].id_task
  BY <1>2, <1>3
<1> QED BY <1>3, <1>4, <1>5, <1>6, <1>7, ReleaseEffect

LEMMA CancelEffect ==
  ASSUME Before, HandleCancel
  PROVE  Effect
<1> DEFINE having == { s \in Slots : slots[s].id_task = main.task.id }
           c == CHOOSE s \in having : \A u \in having : s <= u
<1>1. /\ main.pc = "handle" /\ main.task.kind = "cancel" /\ main' = At("take")
      /\ UNCHANGED requests /\ UNCHANGED results
      /\ \/ UNCHANGED <<slots, tasks>>
         \/ having # {} /\ c \in Processing /\ slots' = [slots EXCEPT ![c] = Released(c)] /\ Wake
  <2>1. /\ main.pc = "handle" /\ main.task.kind = "cancel" /\ main' = At("take")
        /\ UNCHANGED requests /\ UNCHANGED results
    BY DEF HandleCancel, Handled, InHand
  <2>2. \/ UNCHANGED <<slots, tasks>>
        \/ having # {} /\ c \in Processing /\ slots' = [slots EXCEPT ![c] = Released(c)] /\ Wake
    BY DEF HandleCancel
  <2> QED BY <2>1, <2>2
<1>2. main'.pc = "take" /\ main'.task = NextResponse /\ main.task.kind # "work"
  BY <1>1 DEF At
<1>3. having \in SUBSET Nat
  BY Sizes
<1>4. having # {} => c \in having
  <2>1. having # {} => \E x \in having : \A y \in having : x <= y
    BY <1>3, LeastId
  <2> HIDE DEF having
  <2> QED BY <2>1
<1>5. CASE UNCHANGED <<slots, tasks>>
  <2>1. \A s \in Slots : GoesOn(s)
    BY <1>5 DEF GoesOn
  <2>2. \A id : Hand(main', id) = Hand(main, id)
    BY <1>2, EmptyHand
  <2>3. EntryOK(shape, http, main'.task) /\ UNCHANGED tasks
    BY <1>2, <1>5, NextOK
  <2>4. Keeps /\ Settles /\ EntriesStay
    BY <2>1, <2>2, <2>3, StayEffect
  <2> QED BY <1>1, <2>4 DEF Effect, Quiet, results
<1>6. CASE having # {} /\ c \in Processing /\ slots' = [slots EXCEPT ![c] = Released(c)] /\ Wake
  <2>1. PICK s \in Slots : /\ s = c /\ slots[s].state # "IDLE" /\ slots[s].id_task = main.task.id
                           /\ slots' = [slots EXCEPT ![s] = Released(s)]
    BY <1>4, <1>6 DEF Processing
  <2>2. main.pc # "handle" \/ main.task.kind # "work"
    BY <1>2
  <2>3. main'.pc # "handle" /\ (main'.task = NextResponse \/ main'.task = main.task)
    BY <1>2
  <2>4. Wake
    BY <1>6
  <2> DEFINE t == slots[s].id_task
  <2>5. t \in TaskId /\ Known(shape, http, t) /\ Loses(t) /\ Idles(t) /\ EntriesStay
    BY <2>1, <2>2, <2>3, <2>4, ReleasedEffect
  <2>6. http[t.req] = "gone"
    BY <1>1, <2>1 DEF Before, EntriesOK, EntryOK
  <2>7. Cancels(t)
    BY <1>1, <2>5, <2>6 DEF Cancels, results
  <2> QED BY <1>1, <2>5, <2>7 DEF Effect, results
<1> QED BY <1>1, <1>5, <1>6

LEMMA RestEffect ==
  ASSUME Before, AllIdle \/ Decode \/ StartBatch \/ \E s \in Slots : NotYet(s) \/ AddPrompt(s)
  PROVE  Effect
<1>0. Typed /\ slots \in [Slots -> Slot] /\ main \in MainThread
  BY DEF Before, Inv, Typed
<1>1. CASE AllIdle
  <2>1. UNCHANGED <<requests, results, tasks>> /\ slots' = slots /\ main.pc = "take" /\ main' = At("wait")
    BY <1>1 DEF AllIdle
  <2>2. \A s \in Slots : GoesOn(s)
    BY <2>1 DEF GoesOn
  <2>3. main'.pc = "wait" /\ main'.task = NextResponse
    BY <2>1 DEF At
  <2> QED BY <2>1, <2>2, <2>3, QuietEffect
<1>2. CASE Decode
  <2>1. /\ UNCHANGED <<requests, results, tasks>> /\ slots' = slots /\ main.pc = "decode"
        /\ \/ main' = Emit(-1)
           \/ main' = [main EXCEPT !.n_batch = @ \div 2]
           \/ main' = At("fail")
    BY <1>2 DEF Decode
  <2>2. \A s \in Slots : GoesOn(s)
    BY <2>1 DEF GoesOn
  <2>3. main'.pc # "handle" /\ (main'.task = NextResponse \/ main'.task = main.task)
    <3>1. CASE main' = Emit(-1)
      BY <1>0, <3>1, TaskOfEmit
    <3>2. CASE main' = [main EXCEPT !.n_batch = @ \div 2]
      <4>1. main'.pc = main.pc /\ main'.task = main.task
        BY <1>0, <3>2 DEF MainThread
      <4> QED BY <2>1, <4>1
    <3>3. CASE main' = At("fail")
      BY <3>3 DEF At
    <3> QED BY <2>1, <3>1, <3>2, <3>3
  <2> QED BY <2>1, <2>2, <2>3, QuietEffect
<1>3. CASE StartBatch
  <2>1. /\ UNCHANGED <<requests, results>> /\ main.pc = "take" /\ queue_tasks = << >>
        /\ queue_tasks' = << NextResponse >> /\ queue_tasks_deferred' = queue_tasks_deferred
        /\ \E l, n : main' = Fill(l, n, -1, FALSE)
    BY <1>3 DEF StartBatch, ComeBack
  <2>2. main'.pc # "handle" /\ main'.task = NextResponse
    BY <2>1, TaskOfFill
  <2>3. \A s \in Slots : GoesOn(s)
    <3> SUFFICES ASSUME NEW s \in Slots PROVE GoesOn(s)
      OBVIOUS
    <3>1. slots'[s] = slots[s]
          \/ \E b : slots'[s] = [slots[s] EXCEPT !.n_past = @ + 1, !.i_batch = b]
      BY <1>3 DEF StartBatch
    <3>2. slots[s] \in Slot
      BY <1>0
    <3> QED BY <3>1, <3>2 DEF GoesOn, Slot
  <2>4. \A id : Hand(main', id) = Hand(main, id)
    <3>1. main.pc # "handle"
      BY <2>1
    <3> QED BY <2>2, <3>1, EmptyHand
  <2>5. \A id : Held(slots', id) = Held(slots, id)
    BY <2>3, HeldSame DEF GoesOn
  <2>6. \A id : Count(queue_tasks', id) = 0 /\ Count(queue_tasks, id) = 0
    <3> SUFFICES ASSUME NEW id PROVE Count(queue_tasks', id) = 0 /\ Count(queue_tasks, id) = 0
      OBVIOUS
    <3>1. Count(queue_tasks', id) = 0
      BY <2>1, NextOK, CountOne
    <3>2. queue_tasks \in Seq(Entry) /\ DOMAIN queue_tasks = {}
      BY <1>0, <2>1 DEF Typed
    <3> QED BY <3>1, <3>2, CountTyped
  <2>7. Keeps
    BY <2>1, <2>4, <2>5, <2>6, KeepsWhen
  <2>8. Settles
    BY <2>3 DEF Settles, Stays, GoesOn
  <2>9. AllOK(shape, http, queue_tasks')
    BY <2>1, NextOK DEF AllOK
  <2>10. EntriesStay
    BY <2>1, <2>2, <2>3, <2>9, NextOK DEF EntriesStay, Before, EntriesOK, GoesOn
  <2> QED BY <2>1, <2>7, <2>8, <2>10 DEF Effect, Quiet, results
<1>4. ASSUME NEW s \in Slots, NotYet(s) PROVE Effect
  <2>1. UNCHANGED <<requests, results, tasks>> /\ slots' = slots /\ main.pc = "emit" /\ main' = Emit(s)
    BY <1>4 DEF NotYet, Emitting, EmitNext
  <2>2. \A u \in Slots : GoesOn(u)
    BY <2>1 DEF GoesOn
  <2>3. main'.pc # "handle" /\ (main'.task = NextResponse \/ main'.task = main.task)
    BY <1>0, <2>1, TaskOfEmit
  <2> QED BY <2>1, <2>2, <2>3, QuietEffect
<1>5. ASSUME NEW s \in Slots, AddPrompt(s) PROVE Effect
  <2> DEFINE P == Prompt(s)
             past == IF slots[s].state = "STARTED" THEN 0 ELSE slots[s].n_past
             room == IF main.n_tokens < NBatch THEN NBatch - main.n_tokens ELSE 0
             k == IF P - past <= room THEN P - past ELSE room
             b == main.n_tokens + k - 1
  <2>1. /\ UNCHANGED <<requests, results, tasks>> /\ main.pc = "fill"
        /\ slots[s].state # "IDLE"
    BY <1>5 DEF AddPrompt, Joining
  <2>2. /\ \/ slots' = [slots EXCEPT ![s].state = "PROCESSING_PROMPT", ![s].n_past = past]
           \/ slots' = [slots EXCEPT ![s].state = "PROCESSING_PROMPT", ![s].n_past = past + k]
           \/ slots' = [slots EXCEPT ![s].state = "DONE_PROMPT", ![s].n_past = P,
                                    ![s].n_decoded = 0, ![s].i_batch = b]
    BY <1>5 DEF AddPrompt
  <2>a. \/ main' = Fill(main.lead, main.n_tokens, s, FALSE)
        \/ main' = Fill(main.lead, main.n_tokens + k, s, TRUE)
    BY <1>5, Zenon DEF AddPrompt, FillNext
  <2> HIDE DEF P, past, k, b
  <2>3. main'.pc # "handle" /\ main'.task = NextResponse
    <3>0. PICK n, j : main' = Fill(main.lead, n, s, j)
      BY <2>a, Zenon
    <3>1. \E f : main' = f /\ f.task = NextResponse /\ f.pc # "handle"
      BY <3>0, TaskOfFill, Zenon
    <3> QED BY <3>1
  <2>4. \A u \in Slots : u # s => slots'[u] = slots[u]
    BY <1>0, <2>2
  <2>5. slots'[s].state # "IDLE" /\ slots'[s].id_task = slots[s].id_task
    <3>1. slots[s] \in Slot
      BY <1>0
    <3>2. \/ \E x : slots'[s] = [slots[s] EXCEPT !.state = "PROCESSING_PROMPT", !.n_past = x]
          \/ slots'[s] = [slots[s] EXCEPT !.state = "DONE_PROMPT", !.n_past = P,
                            !.n_decoded = 0, !.i_batch = b]
      BY <1>0, <2>2
    <3> QED BY <3>1, <3>2 DEF Slot
  <2>6. \A u \in Slots : GoesOn(u)
    BY <2>1, <2>4, <2>5 DEF GoesOn
  <2>7. main.pc # "handle"
    BY <2>1
  <2>8. main'.task = NextResponse \/ main'.task = main.task
    BY <2>3
  <2> QED BY <2>1, <2>3, <2>6, <2>7, <2>8, QuietEffect
<1> QED BY <1>1, <1>2, <1>3, <1>4, <1>5

\* What the main thread may send.
LEMMA SentTyped ==
  ASSUME NEW t \in TaskId, NEW k \in Nat, NEW n \in Nat
  PROVE  /\ Final(t, n) \in Result /\ Final(t, n).id = t /\ Final(t, n).kind = "final"
         /\ Error(t) \in Result /\ Error(t).id = t /\ Error(t).kind = "error"
         /\ Partial(t, k, n) \in Result /\ Partial(t, k, n).id = t
         /\ Partial(t, k, n).kind = "partial"
BY DEF Final, Error, Partial, Result

\* A slot answers its task and is released.
LEMMA SlotAnswers ==
  ASSUME Before, NEW s \in Slots, slots[s].state # "IDLE", NEW v,
         v = Released(s) \/ v = [Released(s) EXCEPT !.i_batch = -1],
         slots' = [slots EXCEPT ![s] = v], Wake, main.pc # "handle", main'.pc # "handle",
         main'.task = NextResponse \/ main'.task = main.task,
         UNCHANGED <<requests, waiting_task_ids>>,
         \/ \E n \in Nat : queue_results' = Sent(queue_results, Final(slots[s].id_task, n))
         \/ queue_results' = Sent(queue_results, Error(slots[s].id_task))
  PROVE  Effect
<1>1. PICK t \in TaskId : t = slots[s].id_task
  BY DEF Before, Inv, SlotsOK, SlotOK, Within
<1>2. Known(shape, http, t) /\ Loses(t) /\ Idles(t) /\ EntriesStay
  BY <1>1, ReleasedEffect
<1>3. Answers(t)
  BY <1>1, <1>2, SentTyped DEF Answers
<1> QED BY <1>2, <1>3 DEF Effect

LEMMA RefuseEffect ==
  ASSUME Before, NEW s \in Slots, Refuse(s)
  PROVE  Effect
<1>1. /\ slots[s].state # "IDLE" /\ slots' = [slots EXCEPT ![s] = Released(s)] /\ Wake
      /\ main.pc = "fill" /\ UNCHANGED <<requests, waiting_task_ids>>
      /\ \/ queue_results' = Sent(queue_results, Final(slots[s].id_task, 0))
         \/ queue_results' = Sent(queue_results, Error(slots[s].id_task))
  BY DEF Refuse, Joining
<1>2. main' = Fill(main.lead, main.n_tokens, s, FALSE)
  BY Zenon DEF Refuse, FillNext
<1>3. main'.pc # "handle" /\ main'.task = NextResponse
  BY <1>2, FilledTask, Zenon
<1>4. \/ \E n \in Nat : queue_results' = Sent(queue_results, Final(slots[s].id_task, n))
      \/ queue_results' = Sent(queue_results, Error(slots[s].id_task))
  BY <1>1
<1>5. main.pc # "handle" /\ (main'.task = NextResponse \/ main'.task = main.task)
  BY <1>1, <1>3
<1> QED BY <1>1, <1>3, <1>4, <1>5, SlotAnswers

LEMMA EmbeddingEffect ==
  ASSUME Before, NEW s \in Slots, SendEmbedding(s)
  PROVE  Effect
<1> DEFINE v == [Released(s) EXCEPT !.i_batch = -1]
<1>1. /\ slots[s].state # "IDLE" /\ slots' = [slots EXCEPT ![s] = v]
      /\ Wake /\ main.pc = "emit" /\ UNCHANGED <<requests, waiting_task_ids>>
      /\ queue_results' = Sent(queue_results, Final(slots[s].id_task, 0)) /\ main' = Emit(s)
  BY DEF SendEmbedding, Emitting, EmitNext
<1>2. main'.pc # "handle" /\ (main'.task = NextResponse \/ main'.task = main.task)
  BY <1>1, TaskOfEmit DEF Before, Inv
<1>3. \/ \E n \in Nat : queue_results' = Sent(queue_results, Final(slots[s].id_task, n))
      \/ queue_results' = Sent(queue_results, Error(slots[s].id_task))
  BY <1>1
<1>4. main.pc # "handle" /\ (v = Released(s) \/ v = [Released(s) EXCEPT !.i_batch = -1])
  BY <1>1
<1> HIDE DEF v
<1> QED BY <1>1, <1>2, <1>3, <1>4, SlotAnswers

LEMMA FailEffect ==
  ASSUME Before, NEW s \in Slots, FailSlot(s)
  PROVE  Effect
<1>1. /\ main.pc = "fail" /\ UNCHANGED <<requests, waiting_task_ids>>
      /\ queue_results' = Sent(queue_results, Error(slots[s].id_task))
      /\ main' = IF s = NSlots - 1 THEN At("wait") ELSE [main EXCEPT !.cursor = @ + 1]
  BY DEF FailSlot
<1>2. Typed /\ slots \in [Slots -> Slot] /\ main \in MainThread
  BY DEF Before, Inv, Typed
<1>3. main'.pc # "handle" /\ (main'.task = NextResponse \/ main'.task = main.task)
  <2>1. At("wait").pc = "wait" /\ At("wait").task = NextResponse
    BY DEF At
  <2>2. LET e == [main EXCEPT !.cursor = @ + 1] IN e.pc = main.pc /\ e.task = main.task
    BY <1>2 DEF MainThread
  <2> QED BY <1>1, <2>1, <2>2
<1>4. CASE slots[s].state # "IDLE"
  <2>1. slots' = [slots EXCEPT ![s] = Released(s)] /\ Wake
    BY <1>4 DEF FailSlot, Processing
  <2>2. \/ \E n \in Nat : queue_results' = Sent(queue_results, Final(slots[s].id_task, n))
        \/ queue_results' = Sent(queue_results, Error(slots[s].id_task))
    BY <1>1
  <2>3. main.pc # "handle" /\ UNCHANGED <<requests, waiting_task_ids>>
    BY <1>1
  <2> QED BY <1>3, <1>4, <2>1, <2>2, <2>3, SlotAnswers
<1>5. CASE slots[s].state = "IDLE"
  <2>1. slots' = slots /\ UNCHANGED tasks
    <3>1. s \notin Processing
      BY <1>5 DEF Processing
    <3>2. slots' = [slots EXCEPT ![s] = slots[s]] /\ UNCHANGED tasks
      BY <3>1 DEF FailSlot
    <3> QED BY <1>2, <3>2
  <2>2. \A u \in Slots : GoesOn(u)
    BY <2>1 DEF GoesOn
  <2>3. \A id : Hand(main', id) = Hand(main, id)
    <3>1. main.pc # "handle"
      BY <1>1
    <3> QED BY <1>3, <3>1, EmptyHand
  <2>4. EntryOK(shape, http, main'.task)
    BY <1>3, NextOK DEF Before, EntriesOK
  <2>5. Keeps /\ Settles /\ EntriesStay
    BY <2>1, <2>2, <2>3, <2>4, StayEffect
  <2>6. CASE slots[s].id_task = NoTask
    <3>1. Error(NoTask).id = NoTask /\ NoTask \notin waiting_task_ids
      BY NoTaskAssumption DEF Error, Before, TaskId
    <3>2. queue_results' = queue_results
      BY <1>1, <2>6, <3>1 DEF Sent
    <3> QED BY <1>1, <2>5, <3>2 DEF Effect, Quiet
  <2>7. CASE slots[s].id_task # NoTask
    <3>1. PICK t : t = slots[s].id_task
      OBVIOUS
    <3>2. Known(shape, http, t) /\ t \in TaskId /\ Places(t) = 0
      BY <1>5, <2>7, <3>1 DEF Before, EntriesOK, SpentOK, Known
    <3>3. Errs(t)
      BY <1>1, <2>5, <3>1, <3>2, SentTyped DEF Errs
    <3> QED BY <1>1, <2>5, <3>2, <3>3 DEF Effect
  <2> QED BY <2>6, <2>7
<1> QED BY <1>4, <1>5
-----------------------------------------------------------------------------
\* The task of a slot that is processing is in a place.
LEMMA HeldSome ==
  ASSUME Before, NEW s \in Slots, slots[s].state # "IDLE"
  PROVE  Places(slots[s].id_task) >= 1
<1> DEFINE t == slots[s].id_task
<1>1. s \in Holders(slots, t)
  BY DEF Holders
<1>2. IsFiniteSet(Holders(slots, t)) /\ Held(slots, t) \in Nat
  BY HeldTyped
<1>3. Held(slots, t) >= 1
  <2>1. IsFiniteSet({s}) /\ Cardinality({s}) = 1
    BY FS_Singleton
  <2>2. {s} \in SUBSET Holders(slots, t)
    BY <1>1
  <2>3. Cardinality({s}) <= Cardinality(Holders(slots, t))
    BY <1>2, <2>2, FS_Subset
  <2> QED BY <2>1, <2>3 DEF Held
<1>4. /\ Count(queue_tasks, t) \in Nat /\ Count(queue_tasks_deferred, t) \in Nat
      /\ Hand(main, t) \in Nat
  BY CountTyped DEF Before, Inv, Typed, Hand
<1>5. Places(t) = Count(queue_tasks, t) + Count(queue_tasks_deferred, t)
                    + Held(slots, t) + Hand(main, t)
  BY PlacesAre DEF PlacesOf
<1> HIDE DEF t
<1>6. Places(t) >= 1
  BY <1>2, <1>3, <1>4, <1>5
<1> QED BY <1>6 DEF t

LEMMA SampleEffect ==
  ASSUME Before, NEW s \in Slots, NEW held \in BOOLEAN, NEW stop \in BOOLEAN,
         Sample(s, held, stop)
  PROVE  Effect
<1>1. /\ main.pc = "emit" /\ slots[s].state # "IDLE" /\ main' = Emit(s)
      /\ UNCHANGED requests /\ UNCHANGED waiting_task_ids
  BY DEF Sample, Emitting, EmitNext
<1>2. Typed /\ slots \in [Slots -> Slot] /\ slots[s] \in Slot
  BY DEF Before, Inv, Typed
<1>3. PICK t \in TaskId : t = slots[s].id_task
  BY <1>1 DEF Before, Inv, SlotsOK, SlotOK, Within
<1>4. Known(shape, http, t) /\ Places(t) >= 1
  BY <1>1, <1>3, NoTaskAssumption, HeldSome DEF Before, EntriesOK, TaskId
<1>5. PICK n \in Nat, k \in Nat : n = slots[s].n_decoded + 1 /\ k = slots[s].n_sent
  BY <1>2 DEF Slot
<1> DEFINE part == Partial(t, k, n)
           last == Final(t, n)
           piece == IF held \/ ~Asked(t).stream THEN queue_results ELSE Sent(queue_results, part)
<1>6. /\ part \in Result /\ part.id = t /\ part.kind = "partial"
      /\ last \in Result /\ last.id = t /\ last.kind = "final"
  BY <1>5, SentTyped
<1>7. piece = queue_results \/ piece = Sent(queue_results, part)
  OBVIOUS
<1>8. main'.pc # "handle" /\ (main'.task = NextResponse \/ main'.task = main.task)
  BY <1>1, <1>2, TaskOfEmit
<1>9. main.pc # "handle"
  BY <1>1
<1>10. CASE stop
  <2> DEFINE v == [Released(s) EXCEPT !.i_batch = -1]
  <2>1. slots' = [slots EXCEPT ![s] = v] /\ Wake
    BY <1>10 DEF Sample
  <2>2. queue_results' = IF t \in waiting_task_ids THEN Append(piece, last) ELSE piece
    BY <1>3, <1>5, <1>10 DEF Sample
  <2>3. queue_results' = Sent(piece, last)
    BY <1>6, <2>2 DEF Sent
  <2> HIDE DEF piece, part, last
  <2>4. v = Released(s) \/ v = [Released(s) EXCEPT !.i_batch = -1]
    OBVIOUS
  <2> HIDE DEF v
  <2>5. Known(shape, http, t) /\ Loses(t) /\ Idles(t) /\ EntriesStay
    BY <1>1, <1>3, <1>8, <1>9, <2>1, <2>4, ReleasedEffect
  <2>6. CASE piece = queue_results
    <3>1. Answers(t)
      BY <1>6, <2>3, <2>5, <2>6 DEF Answers
    <3> QED BY <1>1, <2>5, <3>1 DEF Effect
  <2>7. CASE piece = Sent(queue_results, part)
    <3>1. Completes(t)
      BY <1>6, <2>3, <2>5, <2>7 DEF Completes
    <3> QED BY <1>1, <2>5, <3>1 DEF Effect
  <2> QED BY <1>7, <2>6, <2>7 DEF piece, part
<1>11. CASE ~stop
  <2>1. /\ queue_results' = piece /\ UNCHANGED tasks
        /\ \E x : slots' = [slots EXCEPT ![s].state = "GENERATING", ![s].i_batch = -1,
                              ![s].n_decoded = n, ![s].n_sent = x]
    BY <1>3, <1>5, <1>11 DEF Sample
  <2>2. \A u \in Slots : GoesOn(u)
    <3>1. PICK x : slots' = [slots EXCEPT ![s].state = "GENERATING", ![s].i_batch = -1,
                              ![s].n_decoded = n, ![s].n_sent = x]
      BY <2>1
    <3>2. \A u \in Slots : u # s => slots'[u] = slots[u]
      BY <1>2, <3>1
    <3>3. slots'[s].state = "GENERATING" /\ slots'[s].id_task = slots[s].id_task
      BY <1>2, <3>1 DEF Slot
    <3> QED BY <1>1, <3>2, <3>3 DEF GoesOn
  <2>3. \A id : Hand(main', id) = Hand(main, id)
    BY <1>8, <1>9, EmptyHand
  <2>4. EntryOK(shape, http, main'.task) /\ UNCHANGED tasks
    BY <1>8, <2>1, NextOK DEF Before, EntriesOK
  <2> HIDE DEF piece, part, last
  <2>5. Keeps /\ Settles /\ EntriesStay
    BY <2>2, <2>3, <2>4, StayEffect
  <2>6. CASE piece = queue_results
    <3>1. Quiet
      BY <2>1, <2>5, <2>6 DEF Quiet
    <3> QED BY <1>1, <2>5, <3>1 DEF Effect
  <2>7. CASE piece = Sent(queue_results, part)
    <3>1. Streams(t)
      BY <1>4, <1>6, <2>1, <2>5, <2>7 DEF Streams
    <3> QED BY <1>1, <1>4, <2>5, <3>1 DEF Effect
  <2> QED BY <1>7, <2>6, <2>7 DEF piece, part
<1> QED BY <1>10, <1>11

\* What a step of the main thread does to the tasks and the results.
LEMMA MainEffect ==
  ASSUME Before, MainLoop
  PROVE  Effect
<1>1. CASE TakeTask
  BY <1>1, TakeEffect
<1>2. CASE Defer
  BY <1>2, DeferEffect
<1>3. CASE AnswerQuick
  BY <1>3, AnswerEffect
<1>4. CASE HandleCancel
  BY <1>4, CancelEffect
<1>5. CASE AllIdle \/ StartBatch \/ Decode
  BY <1>5, RestEffect
<1>6. ASSUME NEW s \in Slots, \/ Launch(s) \/ Refuse(s) \/ AddPrompt(s) \/ FailSlot(s)
                              \/ SendEmbedding(s) \/ NotYet(s)
      PROVE  Effect
  BY <1>6, LaunchEffect, RefuseEffect, RestEffect, FailEffect, EmbeddingEffect
<1>7. ASSUME NEW s \in Slots, NEW held \in BOOLEAN, NEW stop \in BOOLEAN, Sample(s, held, stop)
      PROVE  Effect
  BY <1>7, SampleEffect
<1> QED BY <1>1, <1>2, <1>3, <1>4, <1>5, <1>6, <1>7 DEF MainLoop
-----------------------------------------------------------------------------
Http == {"new", "registered", "receiving", "cancelling", "leaving", "gone"}
Gained == [finals : SUBSET Nat, text : UNION { [1 .. n -> Nat] : n \in Nat },
           outcome : {"none", "ok", "error", "left"}]
RequestsTyped ==
  /\ shape \in [Requests -> Shapes] /\ http \in [Requests -> Http] /\ open \in SUBSET Requests
  /\ got \in [Requests -> Gained] /\ waiting_task_ids \in SUBSET TaskId
  /\ queue_results \in Seq(Result) /\ wasted \in BOOLEAN

Asks(sh, id) == id.n \in 1 .. sh[id.req].tasks
Awaited(x) == x \in {"registered", "receiving", "leaving"}

\* The tasks whose results are awaited are those of the requests that are.
WaitingOK ==
  \A id \in TaskId : id \in waiting_task_ids <=> Asks(shape, id) /\ Awaited(http[id.req])

\* A request that has everything, and a stream whose client left before it read anything.
Complete(sh, r, y) == y.finals = 1 .. sh[r].tasks /\ y.outcome = "ok"
Deserted(sh, r, y) == /\ sh[r].stream /\ y.outcome = "left" /\ y.finals = {}
                      /\ \A n \in DOMAIN y.text : y.text[n] = 0

\* What a request has received; all of it or nothing when it leaves.
GotOK ==
  \A r \in Requests :
    /\ got[r].finals \in SUBSET (1 .. shape[r].tasks)
    /\ http[r] = "leaving" /\ ~Quick(r) => Complete(shape, r, got[r]) \/ Deserted(shape, r, got[r])
    /\ http[r] \in {"new", "registered"} => got[r].finals = {}

\* A result is for a request that waits for it, or for a stream that was left unread, or
\* it is an error that comes after the request was answered; and after a final result of a task only errors come.
ResultOK(sh, h, g, e) ==
  /\ Known(sh, h, e.id)
  /\ \/ h[e.id.req] \in {"receiving", "leaving"}
     \/ h[e.id.req] = "gone" /\ e.kind = "error" /\ g[e.id.req].outcome = "ok"
     \/ h[e.id.req] = "gone" /\ Deserted(sh, e.id.req, g[e.id.req])
  /\ e.id.n \in g[e.id.req].finals => e.kind = "error"
QueueOK(sh, h, g, q) ==
  /\ \A i \in DOMAIN q : ResultOK(sh, h, g, q[i])
  /\ \A i, j \in DOMAIN q :
       i < j /\ q[i].id = q[j].id /\ q[i].kind = "final" => q[j].kind = "error"

\* A task that was replied to has no place; one that is awaited has one before.
HasReply(q, id) == \E i \in DOMAIN q : q[i].id = id /\ q[i].kind \in {"final", "error"}
Replied(g, q, id) == id.n \in g[id.req].finals \/ HasReply(q, id)
LiveOK(h, g, q, id, places) ==
  /\ places <= 1
  /\ Replied(g, q, id) => places = 0
  /\ h[id.req] = "receiving" /\ ~Replied(g, q, id) => places = 1
LivesOK ==
  \A id \in TaskId : Asks(shape, id) => LiveOK(http, got, queue_results, id, Places(id))

TaskInv ==
  /\ RequestsTyped /\ EntriesOK /\ SpentOK /\ WaitingOK /\ GotOK
  /\ QueueOK(shape, http, got, queue_results) /\ LivesOK

\* One more result, for a task that has not been replied to, or an error.
LEMMA AppendResult ==
  ASSUME NEW sh, NEW h, NEW g, NEW q \in Seq(Result), QueueOK(sh, h, g, q), NEW e \in Result,
         Known(sh, h, e.id), h[e.id.req] \in {"receiving", "leaving"},
         e.kind = "error" \/ ~Replied(g, q, e.id)
  PROVE  /\ Append(q, e) \in Seq(Result) /\ QueueOK(sh, h, g, Append(q, e))
         /\ \A id : HasReply(Append(q, e), id)
                      <=> HasReply(q, id) \/ (id = e.id /\ e.kind \in {"final", "error"})
<1> DEFINE a == Append(q, e)
<1>1. /\ a \in Seq(Result) /\ Len(q) \in Nat /\ DOMAIN q = 1 .. Len(q)
      /\ DOMAIN a = 1 .. Len(q) + 1 /\ a[Len(q) + 1] = e
      /\ \A i \in DOMAIN q : a[i] = q[i]
  OBVIOUS
<1> HIDE DEF a
<1>2. \A i \in DOMAIN a : (i \in DOMAIN q /\ a[i] = q[i]) \/ (i = Len(q) + 1 /\ a[i] = e)
  BY <1>1
<1>3. \A i \in DOMAIN q : i \in DOMAIN a /\ i < Len(q) + 1
  BY <1>1
<1>4. ResultOK(sh, h, g, e)
  BY DEF ResultOK, Replied
<1>5. \A i \in DOMAIN a : ResultOK(sh, h, g, a[i])
  BY <1>2, <1>4 DEF QueueOK
<1>6. ASSUME NEW i \in DOMAIN a, NEW j \in DOMAIN a, i < j, a[i].id = a[j].id, a[i].kind = "final"
      PROVE  a[j].kind = "error"
  <2>1. i \in DOMAIN q /\ a[i] = q[i]
    BY <1>1, <1>2, <1>6
  <2>2. CASE j \in DOMAIN q
    BY <1>1, <1>6, <2>1, <2>2 DEF QueueOK
  <2>3. CASE j = Len(q) + 1
    <3>1. a[j] = e
      BY <1>1, <2>3
    <3>2. HasReply(q, e.id)
      BY <1>6, <2>1, <3>1 DEF HasReply
    <3> QED BY <3>1, <3>2 DEF Replied
  <2> QED BY <1>2, <2>2, <2>3
<1>7. QueueOK(sh, h, g, a)
  BY <1>5, <1>6 DEF QueueOK
<1>8. ASSUME NEW id
      PROVE  HasReply(a, id) <=> HasReply(q, id) \/ (id = e.id /\ e.kind \in {"final", "error"})
  <2>1. HasReply(q, id) => HasReply(a, id)
    BY <1>1, <1>3 DEF HasReply
  <2>2. id = e.id /\ e.kind \in {"final", "error"} => HasReply(a, id)
    <3>1. Len(q) + 1 \in DOMAIN a
      BY <1>1
    <3> QED BY <1>1, <3>1 DEF HasReply
  <2>3. HasReply(a, id) => HasReply(q, id) \/ (id = e.id /\ e.kind \in {"final", "error"})
    BY <1>2 DEF HasReply
  <2> QED BY <2>1, <2>2, <2>3
<1> QED BY <1>1, <1>7, <1>8 DEF a

\* A queue that loses results: f tells where each of those that stay was.
Follows(q, c, f) ==
  /\ \A k \in DOMAIN c : f[k] \in DOMAIN q /\ c[k] = q[f[k]]
  /\ \A k, l \in DOMAIN c : k < l => f[k] < f[l]

LEMMA FewerResults ==
  ASSUME NEW sh, NEW h, NEW g, NEW q, QueueOK(sh, h, g, q), NEW c, NEW f, Follows(q, c, f)
  PROVE  QueueOK(sh, h, g, c) /\ \A id : HasReply(c, id) => HasReply(q, id)
<1>1. \A k \in DOMAIN c : ResultOK(sh, h, g, c[k])
  BY DEF QueueOK, Follows
<1>2. ASSUME NEW i \in DOMAIN c, NEW j \in DOMAIN c, i < j, c[i].id = c[j].id, c[i].kind = "final"
      PROVE  c[j].kind = "error"
  BY <1>2 DEF QueueOK, Follows
<1>3. \A id : HasReply(c, id) => HasReply(q, id)
  BY DEF HasReply, Follows
<1> QED BY <1>1, <1>2, <1>3 DEF QueueOK

\* A result is sent for a task with a place, or an error for one that has none.
LEMMA SendLive ==
  ASSUME TaskInv, NEW e \in Result, Known(shape, http, e.id), NEW q \in Seq(Result),
         QueueOK(shape, http, got, q),
         e.kind = "error" \/ ~Replied(got, q, e.id)
  PROVE  /\ Sent(q, e) \in Seq(Result) /\ QueueOK(shape, http, got, Sent(q, e))
         /\ \A id : HasReply(Sent(q, e), id) => HasReply(q, id) \/ id = e.id
         /\ \A id : HasReply(q, id) => HasReply(Sent(q, e), id)
         /\ e.kind = "partial" => \A id : HasReply(Sent(q, e), id) => HasReply(q, id)
         /\ http[e.id.req] = "receiving" /\ e.kind \in {"final", "error"} => HasReply(Sent(q, e), e.id)
<1>1. PICK t \in TaskId : t = e.id
  BY DEF Known
<1>2. t \in waiting_task_ids <=> Awaited(http[t.req])
  BY <1>1 DEF TaskInv, WaitingOK, Known, Asks
<1>3. CASE t \in waiting_task_ids
  <2>1. http[t.req] \in {"receiving", "leaving"}
    BY <1>1, <1>2, <1>3 DEF Awaited, Known
  <2>2. Sent(q, e) = Append(q, e)
    BY <1>1, <1>3 DEF Sent
  <2>3. /\ Append(q, e) \in Seq(Result) /\ QueueOK(shape, http, got, Append(q, e))
        /\ \A id : HasReply(Append(q, e), id)
                      <=> HasReply(q, id) \/ (id = e.id /\ e.kind \in {"final", "error"})
    BY <1>1, <2>1, AppendResult
  <2> QED BY <2>2, <2>3
<1>4. CASE t \notin waiting_task_ids
  <2>1. Sent(q, e) = q /\ http[e.id.req] # "receiving"
    BY <1>1, <1>2, <1>4 DEF Sent, Awaited
  <2> QED BY <2>1
<1> QED BY <1>3, <1>4

\* How the places of a task change.
LEMMA PlacesMove ==
  ASSUME Inv, QueuesTyped, NEW t \in TaskId, Keeps \/ Loses(t)
  PROVE  /\ \A id \in TaskId : Places(id) \in Nat /\ Places(id)' \in Nat /\ Places(id)' <= Places(id)
         /\ \A id \in TaskId : id # t => Places(id)' = Places(id)
         /\ Keeps => Places(t)' = Places(t)
         /\ Loses(t) => Places(t)' = Places(t) - 1 /\ Places(t) >= 1
<1>1. ASSUME NEW id \in TaskId PROVE Places(id) \in Nat /\ Places(id)' \in Nat
  <2>1. /\ queue_tasks \in Seq(Entry) /\ queue_tasks_deferred \in Seq(Begins)
        /\ queue_tasks' \in Seq(Entry) /\ queue_tasks_deferred' \in Seq(Begins)
    BY DEF Inv, Typed, QueuesTyped
  <2> QED BY <2>1, PlacesTyped, PlacesAre
<1>2. Keeps => \A id \in TaskId : Places(id)' = Places(id)
  BY DEF Keeps
<1>3. Loses(t) => \A id \in TaskId : Places(id) = Places(id)' + (IF id = t THEN 1 ELSE 0)
  BY DEF Loses, Is
<1> QED BY <1>1, <1>2, <1>3

IdlesSpent ==
  \A s \in Slots : \A id \in TaskId :
    slots'[s].state = "IDLE" /\ slots'[s].id_task = id => Places(id)' = 0
Kept ==
  /\ queue_results' \in Seq(Result) /\ QueueOK(shape, http, got, queue_results')
  /\ \A id \in TaskId : Asks(shape, id) => LiveOK(http, got, queue_results', id, Places(id)')
  /\ IdlesSpent

LEMMA EffectKeeps ==
  ASSUME Inv, TaskInv, QueuesTyped, Effect, wasted' \in BOOLEAN
  PROVE  TaskInv'
<1> DEFINE q == queue_results
<1>1. /\ shape' = shape /\ http' = http /\ open' = open /\ got' = got
      /\ waiting_task_ids' = waiting_task_ids
  BY DEF Effect, requests
<1>2. EntriesOK'
  BY <1>1 DEF Effect, EntriesStay, EntriesOK
<1>3. WaitingOK' /\ GotOK'
  BY <1>1 DEF TaskInv, WaitingOK, GotOK, Quick
<1>4. q \in Seq(Result) /\ QueueOK(shape, http, got, q)
  BY DEF TaskInv, RequestsTyped
<1>5. \A id \in TaskId : Asks(shape, id) => LiveOK(http, got, q, id, Places(id))
  BY DEF TaskInv, LivesOK
<1>6. SUFFICES Kept
  <2>1. RequestsTyped' /\ LivesOK'
    BY <1>1, <1>6 DEF TaskInv, RequestsTyped, LivesOK, Kept
  <2>2. SpentOK'
    BY <1>6 DEF SpentOK, Kept, IdlesSpent
  <2> QED BY <1>1, <1>2, <1>3, <1>6, <2>1, <2>2 DEF TaskInv, Kept
<1>7. \A s \in Slots : \A id \in TaskId : Stays(s) /\ slots'[s].id_task = id => Places(id) = 0
  BY DEF TaskInv, SpentOK, Stays
<1>8. CASE Quiet
  <2>1. \A id \in TaskId : Places(id)' = Places(id)
    BY <1>8 DEF Quiet, Keeps
  <2>2. queue_results' = q
    BY <1>8 DEF Quiet
  <2>3. \A s \in Slots : slots'[s].state = "IDLE" => Stays(s)
    BY <1>8 DEF Quiet, Settles
  <2> QED BY <1>4, <1>5, <1>7, <2>1, <2>2, <2>3 DEF Kept, IdlesSpent
<1>9. ASSUME NEW t \in TaskId, Known(shape, http, t), Loses(t), Idles(t),
             \/ Cancels(t) \/ Answers(t) \/ Completes(t)
      PROVE  Kept
  <2>1. /\ \A id \in TaskId : Places(id) \in Nat /\ Places(id)' \in Nat /\ Places(id)' <= Places(id)
        /\ \A id \in TaskId : id # t => Places(id)' = Places(id)
        /\ Places(t)' = Places(t) - 1 /\ Places(t) >= 1
    BY <1>9, PlacesMove
  <2>2. LiveOK(http, got, q, t, Places(t))
    BY <1>5, <1>9 DEF Known, Asks
  <2>3. Places(t) = 1 /\ Places(t)' = 0 /\ ~Replied(got, q, t)
    BY <2>1, <2>2 DEF LiveOK
  <2>4. IdlesSpent
    <3> SUFFICES ASSUME NEW s \in Slots, NEW id \in TaskId,
                        slots'[s].state = "IDLE", slots'[s].id_task = id
                 PROVE  Places(id)' = 0
      BY DEF IdlesSpent
    <3>1. Stays(s) \/ id = t
      BY <1>9 DEF Idles
    <3> QED BY <1>7, <2>1, <2>3, <3>1
  <2>5. /\ queue_results' \in Seq(Result) /\ QueueOK(shape, http, got, queue_results')
        /\ \A id : HasReply(queue_results', id) => HasReply(q, id) \/ id = t
        /\ \A id : HasReply(q, id) => HasReply(queue_results', id)
        /\ http[t.req] = "receiving" => HasReply(queue_results', t)
    <3>1. CASE Cancels(t)
      BY <1>4, <3>1 DEF Cancels
    <3>2. CASE Answers(t)
      <4>1. PICK e \in Result : /\ e.id = t /\ e.kind \in {"final", "error"}
                                /\ queue_results' = Sent(q, e)
        BY <3>2 DEF Answers
      <4> QED BY <1>4, <1>9, <2>3, <4>1, SendLive
    <3>3. CASE Completes(t)
      <4>1. PICK a \in Result, e \in Result :
               /\ a.id = t /\ a.kind = "partial" /\ e.id = t /\ e.kind = "final"
               /\ queue_results' = Sent(Sent(q, a), e)
        BY <3>3 DEF Completes
      <4>2. PICK p : p = Sent(q, a)
        OBVIOUS
      <4>3. /\ p \in Seq(Result) /\ QueueOK(shape, http, got, p)
            /\ \A id : HasReply(q, id) <=> HasReply(p, id)
        BY <1>4, <1>9, <2>3, <4>1, <4>2, SendLive
      <4>4. ~Replied(got, p, t)
        BY <2>3, <4>3 DEF Replied
      <4> QED BY <1>9, <4>1, <4>2, <4>3, <4>4, SendLive
    <3> QED BY <1>9, <3>1, <3>2, <3>3
  <2>6. ASSUME NEW id \in TaskId, Asks(shape, id)
        PROVE  LiveOK(http, got, queue_results', id, Places(id)')
    <3>1. CASE id = t
      BY <2>3, <2>5, <3>1 DEF LiveOK, Replied
    <3>2. CASE id # t
      BY <1>5, <2>1, <2>5, <2>6, <3>2 DEF LiveOK, Replied
    <3> QED BY <3>1, <3>2
  <2> QED BY <2>4, <2>5, <2>6 DEF Kept
<1>10. ASSUME NEW t \in TaskId, Known(shape, http, t), Keeps, Settles, Streams(t) \/ Errs(t)
      PROVE  Kept
  <2>1. \A id \in TaskId : Places(id)' = Places(id) /\ Places(id) \in Nat
    BY <1>10, PlacesMove DEF Keeps
  <2>2. LiveOK(http, got, q, t, Places(t))
    BY <1>5, <1>10 DEF Known, Asks
  <2>3. IdlesSpent
    BY <1>7, <1>10, <2>1 DEF Settles, IdlesSpent
  <2>4. CASE Streams(t)
    <3>1. PICK e \in Result : /\ e.id = t /\ e.kind = "partial"
                              /\ queue_results' = Sent(q, e)
      BY <2>4 DEF Streams
    <3>2. Places(t) >= 1
      BY <2>4 DEF Streams
    <3>3. ~Replied(got, q, t)
      BY <2>1, <2>2, <3>2 DEF LiveOK
    <3>4. /\ queue_results' \in Seq(Result) /\ QueueOK(shape, http, got, queue_results')
          /\ \A id : HasReply(queue_results', id) <=> HasReply(q, id)
      BY <1>4, <1>10, <3>1, <3>3, SendLive
    <3>5. ASSUME NEW id \in TaskId, Asks(shape, id)
          PROVE  LiveOK(http, got, queue_results', id, Places(id)')
      BY <1>5, <2>1, <3>4, <3>5 DEF LiveOK, Replied
    <3> QED BY <2>3, <3>4, <3>5 DEF Kept
  <2>5. CASE Errs(t)
    <3>1. PICK e \in Result : /\ e.id = t /\ e.kind = "error"
                              /\ queue_results' = Sent(q, e)
      BY <2>5 DEF Errs
    <3>2. Places(t) = 0
      BY <2>5 DEF Errs
    <3>3. /\ queue_results' \in Seq(Result) /\ QueueOK(shape, http, got, queue_results')
          /\ \A id : HasReply(queue_results', id) => HasReply(q, id) \/ id = t
          /\ \A id : HasReply(q, id) => HasReply(queue_results', id)
      BY <1>4, <1>10, <3>1, SendLive
    <3>4. ASSUME NEW id \in TaskId, Asks(shape, id)
          PROVE  LiveOK(http, got, queue_results', id, Places(id)')
      <4>1. CASE id = t
        BY <2>1, <2>2, <3>2, <3>3, <4>1 DEF LiveOK, Replied
      <4>2. CASE id # t
        BY <1>5, <2>1, <3>3, <3>4, <4>2 DEF LiveOK, Replied
      <4> QED BY <4>1, <4>2
    <3> QED BY <2>3, <3>3, <3>4 DEF Kept
  <2> QED BY <1>10, <2>4, <2>5
<1> QED
  <2>1. ASSUME NEW t \in TaskId, Known(shape, http, t),
               \/ Cancels(t) \/ Answers(t) \/ Streams(t) \/ Completes(t) \/ Errs(t)
        PROVE  Kept
    <3>1. CASE Cancels(t) \/ Answers(t) \/ Completes(t)
      <4>1. Loses(t) /\ Idles(t)
        BY <3>1 DEF Cancels, Answers, Completes
      <4> QED BY <1>9, <2>1, <3>1, <4>1
    <3>2. CASE Streams(t) \/ Errs(t)
      <4>1. Keeps /\ Settles
        BY <3>2 DEF Streams, Errs
      <4> QED BY <1>10, <2>1, <3>2, <4>1
    <3> QED BY <2>1, <3>1, <3>2
  <2> QED BY <1>8, <2>1 DEF Effect
-----------------------------------------------------------------------------
\* A queue without one of its elements.
LEMMA WithoutOne ==
  ASSUME NEW T, NEW q \in Seq(T), NEW i \in DOMAIN q
  PROVE  \E c, f : /\ c = Without(q, i) /\ c \in Seq(T) /\ Len(c) = Len(q) - 1
                   /\ Follows(q, c, f) /\ \A k \in DOMAIN c : f[k] # i
                   /\ \A j \in DOMAIN q : j # i => \E k \in DOMAIN c : f[k] = j
<1> DEFINE a == SubSeq(q, 1, i - 1)
           b == SubSeq(q, i + 1, Len(q))
           c == Without(q, i)
           f == [k \in DOMAIN c |-> IF k < i THEN k ELSE k + 1]
<1>1. i \in Nat /\ 1 <= i /\ i <= Len(q) /\ Len(q) \in Nat /\ DOMAIN q = 1 .. Len(q)
  OBVIOUS
<1>2. /\ a \in Seq(T) /\ Len(a) = i - 1 /\ \A k \in 1 .. i - 1 : a[k] = q[k]
  BY <1>1
<1>3. /\ b \in Seq(T) /\ Len(b) = Len(q) - i /\ \A k \in 1 .. Len(q) - i : b[k] = q[i + k]
  BY <1>1
<1>0. c = a \o b /\ c = Without(q, i)
  BY DEF Without
<1> HIDE DEF a, b, c
<1>i. PICK a2 \in Seq(T), b2 \in Seq(T) : a2 = a /\ b2 = b
  BY <1>2, <1>3
<1>k. /\ a2 \o b2 \in Seq(T) /\ Len(a2 \o b2) = Len(a2) + Len(b2)
      /\ \A k \in 1 .. Len(a2) : (a2 \o b2)[k] = a2[k]
      /\ \A k \in 1 .. Len(b2) : (a2 \o b2)[Len(a2) + k] = b2[k]
  BY Joined
<1>j. /\ a \o b \in Seq(T) /\ Len(a \o b) = Len(a) + Len(b)
      /\ \A k \in 1 .. Len(a) : (a \o b)[k] = a[k]
      /\ \A k \in 1 .. Len(b) : (a \o b)[Len(a) + k] = b[k]
  BY <1>i, <1>k, Zenon
<1>4. /\ c \in Seq(T) /\ Len(c) = Len(a) + Len(b)
      /\ \A k \in 1 .. Len(a) : c[k] = a[k]
      /\ \A k \in 1 .. Len(b) : c[Len(a) + k] = b[k]
  BY <1>0, <1>j, Zenon
<1>5. Len(c) = Len(q) - 1 /\ DOMAIN c = 1 .. Len(q) - 1
  BY <1>1, <1>2, <1>3, <1>4
<1>6. \A k \in DOMAIN c : f[k] \in DOMAIN q /\ f[k] \in Nat /\ f[k] # i
  BY <1>1, <1>5
<1>7. ASSUME NEW k \in DOMAIN c PROVE c[k] = q[f[k]]
  <2>1. CASE k < i
    <3>1. k \in 1 .. i - 1 /\ k \in 1 .. Len(a) /\ f[k] = k
      BY <1>1, <1>2, <1>5, <2>1
    <3> QED BY <1>2, <1>4, <3>1
  <2>2. CASE ~(k < i)
    <3>1. PICK j \in 1 .. Len(b) : k = Len(a) + j
      <4>1. k \in Int /\ i <= k /\ k <= Len(q) - 1
        BY <1>1, <1>5, <2>2
      <4>2. Len(a) = i - 1 /\ Len(b) = Len(q) - i
        BY <1>2, <1>3
      <4>3. k - (i - 1) \in 1 .. Len(b) /\ k = Len(a) + (k - (i - 1))
        BY <1>1, <4>1, <4>2
      <4> QED BY <4>3
    <3>2. c[k] = b[j]
      BY <1>4, <3>1
    <3>3. b[j] = q[i + j]
      BY <1>3, <3>1
    <3>4. i + j = k + 1
      BY <1>1, <1>2, <1>3, <3>1
    <3>5. f[k] = k + 1
      BY <2>2
    <3> HIDE DEF f
    <3> QED BY <3>2, <3>3, <3>4, <3>5
  <2> QED BY <2>1, <2>2
<1>8. \A k, l \in DOMAIN c : k < l => f[k] < f[l]
  BY <1>1, <1>5
<1>9. ASSUME NEW j \in DOMAIN q, j # i PROVE \E k \in DOMAIN c : f[k] = j
  <2>1. CASE j < i
    <3>1. j \in DOMAIN c /\ f[j] = j
      BY <1>1, <1>5, <2>1
    <3> QED BY <3>1
  <2>2. CASE ~(j < i)
    <3>1. j - 1 \in DOMAIN c /\ f[j - 1] = j
      BY <1>1, <1>5, <1>9, <2>2
    <3> QED BY <3>1
  <2> QED BY <2>1, <2>2
<1> HIDE DEF f
<1>10. Follows(q, c, f)
  BY <1>6, <1>7, <1>8 DEF Follows
<1>11. /\ c = Without(q, i) /\ c \in Seq(T) /\ Len(c) = Len(q) - 1 /\ Follows(q, c, f)
       /\ \A k \in DOMAIN c : f[k] # i
       /\ \A j \in DOMAIN q : j # i => \E k \in DOMAIN c : f[k] = j
  BY <1>0, <1>4, <1>5, <1>6, <1>9, <1>10
<1>12. \E d, g : d = c /\ g = f
  OBVIOUS
<1> QED BY <1>11, <1>12

\* The first result for a request.
LEMMA FirstResult ==
  ASSUME queue_results \in Seq(Result), NEW r, NEW kind, HasResult(r, kind)
  PROVE  LET i == FirstFor(r)
         IN  /\ i \in DOMAIN queue_results /\ queue_results[i] \in Result
             /\ queue_results[i].id.req = r /\ queue_results[i].kind = kind
             /\ \A j \in DOMAIN queue_results : queue_results[j].id.req = r => i <= j
<1> DEFINE mine == { i \in DOMAIN queue_results : queue_results[i].id.req = r }
<1>1. mine \in SUBSET Nat /\ mine # {}
  BY DEF HasResult
<1>2. FirstFor(r) = CHOOSE i \in mine : \A j \in mine : i <= j
  BY DEF FirstFor
<1>3. \E i \in mine : \A j \in mine : i <= j
  <2> HIDE DEF mine
  <2> QED BY <1>1, LeastId
<1>4. FirstFor(r) \in mine /\ \A j \in mine : FirstFor(r) <= j
  <2> HIDE DEF mine
  <2> QED BY <1>2, <1>3
<1>5. queue_results[FirstFor(r)].kind = kind
  BY DEF HasResult
<1> QED BY <1>4, <1>5

\* The results for a request are removed.
LEMMA Forgotten ==
  ASSUME queue_results \in Seq(Result), NEW r, Forget(r)
  PROVE  /\ queue_results' \in Seq(Result) /\ waiting_task_ids' = waiting_task_ids \ Ids(r)
         /\ \E f : /\ Follows(queue_results, queue_results', f)
                   /\ \A k \in DOMAIN queue_results' : queue_results'[k].id.req # r
                   /\ \A j \in DOMAIN queue_results : queue_results[j].id.req # r
                        => \E k \in DOMAIN queue_results' : f[k] = j
<1> DEFINE S == { i \in DOMAIN queue_results : queue_results[i].id.req # r }
           c == Part(queue_results, S)
           f == [k \in DOMAIN c |-> Place(S, k)]
<1>1. queue_results' = c /\ waiting_task_ids' = waiting_task_ids \ Ids(r)
  BY DEF Forget
<1>2. S \in SUBSET DOMAIN queue_results /\ \A i \in S : queue_results[i].id.req # r
  OBVIOUS
<1>3. \A i \in DOMAIN queue_results : queue_results[i].id.req # r => i \in S
  OBVIOUS
<1> HIDE DEF S
<1>4. /\ c \in Seq(Result)
      /\ \A k \in DOMAIN c : Place(S, k) \in S /\ c[k] = queue_results[Place(S, k)]
      /\ \A k, l \in DOMAIN c : k < l => Place(S, k) < Place(S, l)
      /\ \A i \in S : \E k \in DOMAIN c : Place(S, k) = i
  BY <1>2, PartProperties
<1> HIDE DEF c
<1>5. /\ Follows(queue_results, c, f)
      /\ \A k \in DOMAIN c : c[k].id.req # r
      /\ \A j \in DOMAIN queue_results : queue_results[j].id.req # r => \E k \in DOMAIN c : f[k] = j
  BY <1>2, <1>3, <1>4 DEF Follows
<1> HIDE DEF f
<1>6. /\ Follows(queue_results, queue_results', f)
      /\ \A k \in DOMAIN queue_results' : queue_results'[k].id.req # r
      /\ \A j \in DOMAIN queue_results : queue_results[j].id.req # r
            => \E k \in DOMAIN queue_results' : f[k] = j
  BY <1>1, <1>5
<1>7. \E g : g = f
  OBVIOUS
<1> QED BY <1>1, <1>4, <1>6, <1>7
-----------------------------------------------------------------------------
\* What a step of the thread of request r does: to the request, which comes to x and
\* has received y; to the results; to what is awaited; and to the tasks.
Turns(r, x, y) ==
  /\ UNCHANGED <<shape, slots, main, wasted>> /\ open' \in SUBSET Requests
  /\ x \in Http /\ http' = [http EXCEPT ![r] = x] /\ http[r] # "gone"
  /\ y \in Gained /\ got' = [got EXCEPT ![r] = y]
  /\ x \in {"new", "registered"} => http[r] \in {"new", "registered"} /\ y.finals = {}
  /\ got[r].finals \in SUBSET y.finals /\ y.finals \in SUBSET (1 .. shape[r].tasks)
  /\ x = "leaving" /\ ~Quick(r) => Complete(shape, r, y) \/ Deserted(shape, r, y)

Filters(r, x, y, f) ==
  /\ queue_results' \in Seq(Result) /\ Follows(queue_results, queue_results', f)
  /\ \A j \in DOMAIN queue_results : queue_results[j].id.req # r
       => \E k \in DOMAIN queue_results' : f[k] = j
  /\ \A k \in DOMAIN queue_results' : queue_results'[k].id.req = r =>
       /\ \/ x \in {"receiving", "leaving"}
          \/ x = "gone" /\ queue_results'[k].kind = "error" /\ y.outcome = "ok"
          \/ x = "gone" /\ Deserted(shape, r, y)
       /\ queue_results'[k].id.n \in y.finals => queue_results'[k].kind = "error"

AwaitsNow(r, x) ==
  /\ waiting_task_ids' \in SUBSET TaskId
  /\ \A id \in TaskId :
       /\ id.req # r => (id \in waiting_task_ids' <=> id \in waiting_task_ids)
       /\ id.req = r => (id \in waiting_task_ids' <=> Asks(shape, id) /\ Awaited(x))

PlacesFor(r) ==
  /\ AllOK(shape, http', queue_tasks') /\ AllOK(shape, http', queue_tasks_deferred')
  /\ \A id \in TaskId : id.req # r \/ Known(shape, http, id) => Places(id)' = Places(id)
  /\ \A id \in TaskId : id.req = r /\ Asks(shape, id)
                          => LiveOK(http', got', queue_results', id, Places(id)')

LEMMA RequestKeeps ==
  ASSUME Inv, TaskInv, NEW r \in Requests, NEW x, NEW y, NEW f,
         Turns(r, x, y), Filters(r, x, y, f), AwaitsNow(r, x), PlacesFor(r)
  PROVE  TaskInv'
<1>1. /\ http \in [Requests -> Http] /\ got \in [Requests -> Gained]
      /\ shape \in [Requests -> Shapes] /\ wasted \in BOOLEAN /\ queue_results \in Seq(Result)
  BY DEF TaskInv, RequestsTyped
<1>2. /\ http' = [http EXCEPT ![r] = x] /\ got' = [got EXCEPT ![r] = y] /\ x \in Http /\ y \in Gained
      /\ shape' = shape /\ slots' = slots /\ main' = main /\ wasted' = wasted
      /\ open' \in SUBSET Requests
  BY DEF Turns
<1>3. /\ http'[r] = x /\ got'[r] = y
      /\ \A p \in Requests : p # r => http'[p] = http[p] /\ got'[p] = got[p]
  BY <1>1, <1>2
<1>4. RequestsTyped'
  <2>1. http' \in [Requests -> Http] /\ got' \in [Requests -> Gained]
    BY <1>1, <1>2
  <2>2. queue_results' \in Seq(Result) /\ waiting_task_ids' \in SUBSET TaskId
    BY DEF Filters, AwaitsNow
  <2> QED BY <1>1, <1>2, <2>1, <2>2 DEF RequestsTyped
<1>5. \A id : Known(shape, http, id) => Known(shape, http', id)
  BY <1>3 DEF Known, Turns, TaskId
<1>6. EntriesOK'
  <2>1. EntryOK(shape, http, main.task)
        /\ \A s \in Slots : slots[s].id_task = NoTask \/ Known(shape, http, slots[s].id_task)
    BY DEF TaskInv, EntriesOK
  <2>2. EntryOK(shape, http', main.task)
    BY <1>3, <1>5, <2>1 DEF EntryOK, Known, Turns, TaskId
  <2>3. AllOK(shape, http', queue_tasks') /\ AllOK(shape, http', queue_tasks_deferred')
    BY DEF PlacesFor
  <2> QED BY <1>2, <1>5, <2>1, <2>2, <2>3 DEF EntriesOK
<1>7. SpentOK'
  <2> SUFFICES ASSUME NEW s \in Slots, NEW id \in TaskId, slots[s].state = "IDLE",
                      slots[s].id_task = id
               PROVE  Places(id)' = 0
    BY <1>2 DEF SpentOK
  <2>1. id # NoTask
    BY NoTaskAssumption DEF TaskId
  <2>2. Known(shape, http, id) /\ Places(id) = 0
    BY <2>1 DEF TaskInv, EntriesOK, SpentOK
  <2> QED BY <2>2 DEF PlacesFor
<1>8. WaitingOK'
  <2> SUFFICES ASSUME NEW id \in TaskId
               PROVE  id \in waiting_task_ids' <=> Asks(shape, id) /\ Awaited(http'[id.req])
    BY <1>2 DEF WaitingOK
  <2>1. id.req \in Requests
    BY DEF TaskId
  <2>2. id \in waiting_task_ids <=> Asks(shape, id) /\ Awaited(http[id.req])
    BY DEF TaskInv, WaitingOK
  <2> QED BY <1>3, <2>1, <2>2 DEF AwaitsNow
<1>9. GotOK'
  <2> SUFFICES ASSUME NEW p \in Requests
               PROVE  /\ got'[p].finals \in SUBSET (1 .. shape[p].tasks)
                      /\ http'[p] = "leaving" /\ ~Quick(p)
                           => Complete(shape, p, got'[p]) \/ Deserted(shape, p, got'[p])
                      /\ http'[p] \in {"new", "registered"} => got'[p].finals = {}
    BY <1>2 DEF GotOK, Quick
  <2>1. CASE p = r
    BY <1>3, <2>1 DEF Turns
  <2>2. CASE p # r
    BY <1>3, <2>2 DEF TaskInv, GotOK
  <2> QED BY <2>1, <2>2
<1>10. \A i \in DOMAIN queue_results : queue_results[i].id.req \in Requests
                                       /\ queue_results[i].id \in TaskId
  BY <1>1 DEF TaskInv, QueueOK, ResultOK, Known, TaskId
<1>11. Follows(queue_results, queue_results', f)
  BY DEF Filters
<1>12. QueueOK(shape, http, got, queue_results)
  BY DEF TaskInv
<1>13. QueueOK(shape, http, got, queue_results')
       /\ \A id : HasReply(queue_results', id) => HasReply(queue_results, id)
  BY <1>11, <1>12, FewerResults
<1>14. QueueOK(shape', http', got', queue_results')
  <2>1. ASSUME NEW k \in DOMAIN queue_results'
        PROVE  ResultOK(shape, http', got', queue_results'[k])
    <3>1. PICK e : e = queue_results'[k]
      OBVIOUS
    <3>2. ResultOK(shape, http, got, e)
      BY <1>13, <3>1 DEF QueueOK
    <3>3. Known(shape, http', e.id)
      BY <1>5, <3>2 DEF ResultOK
    <3>4. e.id.req \in Requests
      BY <3>3 DEF Known, TaskId
    <3>5. CASE e.id.req = r
      <4>1. /\ \/ x \in {"receiving", "leaving"}
               \/ x = "gone" /\ e.kind = "error" /\ y.outcome = "ok"
               \/ x = "gone" /\ Deserted(shape, r, y)
            /\ e.id.n \in y.finals => e.kind = "error"
        BY <3>1, <3>5 DEF Filters
      <4> QED BY <1>3, <3>1, <3>3, <3>5, <4>1 DEF ResultOK
    <3>6. CASE e.id.req # r
      BY <1>3, <3>1, <3>2, <3>3, <3>4, <3>6 DEF ResultOK
    <3> QED BY <3>5, <3>6
  <2> QED BY <1>2, <1>13, <2>1 DEF QueueOK
<1>15. LivesOK'
  <2> SUFFICES ASSUME NEW id \in TaskId, Asks(shape, id)
               PROVE  LiveOK(http', got', queue_results', id, Places(id)')
    BY <1>2 DEF LivesOK
  <2>1. CASE id.req = r
    BY <2>1 DEF PlacesFor
  <2>2. CASE id.req # r
    <3>1. Places(id)' = Places(id)
      BY <2>2 DEF PlacesFor
    <3>2. LiveOK(http, got, queue_results, id, Places(id))
      BY DEF TaskInv, LivesOK
    <3>3. http'[id.req] = http[id.req] /\ got'[id.req] = got[id.req]
      BY <1>3, <2>2 DEF TaskId
    <3>4. HasReply(queue_results, id) => HasReply(queue_results', id)
      <4> SUFFICES ASSUME HasReply(queue_results, id) PROVE HasReply(queue_results', id)
        OBVIOUS
      <4>1. PICK i \in DOMAIN queue_results :
               queue_results[i].id = id /\ queue_results[i].kind \in {"final", "error"}
        BY DEF HasReply
      <4>2. PICK k \in DOMAIN queue_results' : f[k] = i
        BY <2>2, <4>1 DEF Filters
      <4>3. queue_results'[k] = queue_results[i]
        BY <1>11, <4>2 DEF Follows
      <4> QED BY <4>1, <4>3 DEF HasReply
    <3> QED BY <1>13, <3>1, <3>2, <3>3, <3>4 DEF LiveOK, Replied
  <2> QED BY <2>1, <2>2
<1> QED BY <1>4, <1>6, <1>7, <1>8, <1>9, <1>14, <1>15 DEF TaskInv

\* The results stay.
LEMMA NoneFiltered ==
  ASSUME queue_results \in Seq(Result), queue_results' = queue_results, NEW r
  PROVE  \E f : /\ Follows(queue_results, queue_results', f)
                /\ \A j \in DOMAIN queue_results : queue_results[j].id.req # r
                     => \E k \in DOMAIN queue_results' : f[k] = j
                /\ \A k \in DOMAIN queue_results' : f[k] = k
<1> DEFINE f == [k \in DOMAIN queue_results |-> k]
<1>1. Follows(queue_results, queue_results', f)
  BY DEF Follows
<1>2. \A k \in DOMAIN queue_results' : f[k] = k
  OBVIOUS
<1> HIDE DEF f
<1>3. \E g : g = f
  OBVIOUS
<1> QED BY <1>1, <1>2, <1>3

\* The tasks stay.
LEMMA PlacesStay ==
  ASSUME UNCHANGED <<tasks, slots, main>>
  PROVE  \A id : Places(id)' = Places(id)
BY PlacesAre DEF PlacesOf, tasks

LEMMA EntriesFollow ==
  ASSUME NEW sh, NEW h, NEW g, NEW q, AllOK(sh, h, q),
         \A id : Known(sh, h, id) => Known(sh, g, id) /\ (h[id.req] = "gone" => g[id.req] = "gone")
  PROVE  AllOK(sh, g, q)
BY DEF AllOK, EntryOK

\* The tasks stay, and the request has no reply it did not have, and keeps what it has
\* as long as it waits.
LEMMA PlacesForSame ==
  ASSUME Inv, TaskInv, NEW r \in Requests, NEW x, NEW y, NEW f, Turns(r, x, y), UNCHANGED tasks,
         Follows(queue_results, queue_results', f), x # "receiving" \/ http[r] = "receiving",
         \A id \in TaskId : id.req = r /\ Asks(shape, id) =>
           /\ Replied(got', queue_results', id) => Replied(got, queue_results, id)
           /\ x = "receiving" /\ Replied(got, queue_results, id) => Replied(got', queue_results', id)
  PROVE  PlacesFor(r)
<1>1. /\ http' = [http EXCEPT ![r] = x] /\ http \in [Requests -> Http] /\ http[r] # "gone"
      /\ slots' = slots /\ main' = main
      /\ x \in {"new", "registered"} => http[r] \in {"new", "registered"}
  BY DEF Turns, TaskInv, RequestsTyped
<1>2. \A id : Known(shape, http, id) =>
        Known(shape, http', id) /\ (http[id.req] = "gone" => http'[id.req] = "gone")
  BY <1>1 DEF Known, TaskId
<1>3. AllOK(shape, http, queue_tasks) /\ AllOK(shape, http, queue_tasks_deferred)
  BY DEF TaskInv, EntriesOK
<1>4. AllOK(shape, http', queue_tasks) /\ AllOK(shape, http', queue_tasks_deferred)
  BY <1>2, <1>3, EntriesFollow
<1>5. \A id : Places(id)' = Places(id)
  <2>1. UNCHANGED <<tasks, slots, main>>
    BY <1>1
  <2> QED BY <2>1, PlacesStay
<1>6. ASSUME NEW id \in TaskId, id.req = r, Asks(shape, id)
      PROVE  LiveOK(http', got', queue_results', id, Places(id)')
  <2>1. LiveOK(http, got, queue_results, id, Places(id)) /\ http'[id.req] = x
    BY <1>1, <1>6 DEF TaskInv, LivesOK
  <2> QED BY <1>5, <1>6, <2>1 DEF LiveOK
<1> QED BY <1>4, <1>5, <1>6 DEF PlacesFor, tasks
-----------------------------------------------------------------------------
\* The ids of a request.
LEMMA IdsAre ==
  ASSUME NEW r \in Requests, shape \in [Requests -> Shapes]
  PROVE  /\ Ids(r) \in SUBSET TaskId
         /\ \A id \in TaskId : id \in Ids(r) <=> id.req = r /\ Asks(shape, id)
<1>1. shape[r].tasks \in Nat
  BY Asking
<1>2. \A n \in 1 .. shape[r].tasks : n \in Nat /\ Id(r, n) \in TaskId
                                     /\ Id(r, n).req = r /\ Id(r, n).n = n
  BY <1>1 DEF Id, TaskId
<1>3. \A id \in TaskId : id.req = r => id = Id(r, id.n)
  BY DEF Id, TaskId
<1>4. ASSUME NEW id \in TaskId PROVE id \in Ids(r) <=> id.req = r /\ Asks(shape, id)
  <2>1. id \in Ids(r) => id.req = r /\ Asks(shape, id)
    BY <1>2 DEF Ids, Asks
  <2>2. id.req = r /\ Asks(shape, id) => id \in Ids(r)
    BY <1>3 DEF Ids, Asks
  <2> QED BY <2>1, <2>2
<1>5. Ids(r) \in SUBSET TaskId
  BY <1>2 DEF Ids
<1> QED BY <1>4, <1>5

\* A request that was not posted, or that cancels its tasks, has no results.
LEMMA NoResults ==
  ASSUME TaskInv, NEW r \in Requests, http[r] \in {"new", "registered", "cancelling"}
  PROVE  /\ \A i \in DOMAIN queue_results : queue_results[i].id.req # r
         /\ \A id \in TaskId : id.req = r => ~HasReply(queue_results, id)
<1>1. \A i \in DOMAIN queue_results : queue_results[i].id.req # r
  BY DEF TaskInv, QueueOK, ResultOK, Known
<1> QED BY <1>1 DEF HasReply

\* What a request has received.
LEMMA GotTyped ==
  ASSUME TaskInv, NEW r \in Requests
  PROVE  /\ got[r] \in Gained /\ got = [got EXCEPT ![r] = got[r]]
         /\ shape[r].tasks \in Nat /\ shape \in [Requests -> Shapes]
         /\ got[r].finals \in SUBSET (1 .. shape[r].tasks)
<1>1. got \in [Requests -> Gained] /\ shape \in [Requests -> Shapes]
  BY DEF TaskInv, RequestsTyped
<1>2. shape[r].tasks \in Nat
  BY <1>1, Asking
<1>3. got[r].finals \in SUBSET (1 .. shape[r].tasks)
  BY DEF TaskInv, GotOK
<1> QED BY <1>1, <1>2, <1>3

LEMMA RegisterKeeps ==
  ASSUME Inv, TaskInv, NEW r \in Requests, Register(r)
  PROVE  TaskInv'
<1>1. /\ http[r] = "new" /\ http' = [http EXCEPT ![r] = "registered"]
      /\ waiting_task_ids' = waiting_task_ids \cup Ids(r)
      /\ shape' = shape /\ open' = open /\ got' = got /\ queue_results' = queue_results
      /\ UNCHANGED tasks /\ slots' = slots /\ main' = main /\ wasted' = wasted
  BY DEF Register
<1>2. /\ got[r] \in Gained /\ got = [got EXCEPT ![r] = got[r]]
      /\ got[r].finals \in SUBSET (1 .. shape[r].tasks) /\ shape \in [Requests -> Shapes]
  BY GotTyped
<1>3. Turns(r, "registered", got[r])
  <2>1. got[r].finals = {} /\ open \in SUBSET Requests
    BY <1>1 DEF TaskInv, GotOK, RequestsTyped
  <2> QED BY <1>1, <1>2, <2>1 DEF Turns, Http
<1>4. queue_results \in Seq(Result) /\ waiting_task_ids \in SUBSET TaskId
  BY DEF TaskInv, RequestsTyped
<1>5. PICK f : /\ Follows(queue_results, queue_results', f)
               /\ \A j \in DOMAIN queue_results : queue_results[j].id.req # r
                    => \E k \in DOMAIN queue_results' : f[k] = j
               /\ \A k \in DOMAIN queue_results' : f[k] = k
  <2>1. queue_results' = queue_results
    BY <1>1
  <2>2. queue_results \in Seq(Result)
    BY <1>4
  <2> QED BY <2>1, <2>2, NoneFiltered
<1>6. \A i \in DOMAIN queue_results : queue_results[i].id.req # r
  BY <1>1, NoResults
<1>7. Filters(r, "registered", got[r], f)
  BY <1>1, <1>4, <1>5, <1>6 DEF Filters
<1>8. AwaitsNow(r, "registered")
  <2>1. /\ Ids(r) \in SUBSET TaskId
        /\ \A id \in TaskId : id \in Ids(r) <=> id.req = r /\ Asks(shape, id)
    BY <1>2, IdsAre
  <2>2. \A id \in TaskId : id \in waiting_task_ids <=> Asks(shape, id) /\ Awaited(http[id.req])
    BY DEF TaskInv, WaitingOK
  <2> QED BY <1>1, <1>4, <2>1, <2>2 DEF AwaitsNow, Awaited
<1>9. PlacesFor(r)
  BY <1>1, <1>3, <1>5, PlacesForSame
<1> QED BY <1>3, <1>7, <1>8, <1>9, RequestKeeps

\* The works of a request that is posted.
LEMMA CountPosted ==
  ASSUME NEW r \in Requests, shape \in [Requests -> Shapes]
  PROVE  LET work == [n \in 1 .. shape[r].tasks |-> Work(Id(r, n))]
         IN  /\ work \in Seq(Entry)
             /\ \A id \in TaskId : Count(work, id) = IF id.req = r /\ Asks(shape, id) THEN 1 ELSE 0
<1> DEFINE work == [n \in 1 .. shape[r].tasks |-> Work(Id(r, n))]
<1>1. shape[r].tasks \in Nat
  BY Asking
<1>2. \A n \in 1 .. shape[r].tasks :
         /\ Work(Id(r, n)) \in Entry /\ Work(Id(r, n)).kind = "work"
         /\ Work(Id(r, n)).id = Id(r, n) /\ Id(r, n).n = n /\ Id(r, n).req = r
  BY DEF Work, Id, Entry, Begins, TaskId
<1>3. work \in Seq(Entry)
  BY <1>1, <1>2
<1>4. ASSUME NEW id \in TaskId
      PROVE  Count(work, id) = IF id.req = r /\ Asks(shape, id) THEN 1 ELSE 0
  <2>1. \A n : n \in Works(work, id) <=> n \in 1 .. shape[r].tasks /\ Id(r, n) = id
    BY <1>2 DEF Works
  <2>2. id.req = r => Id(r, id.n) = id
    BY DEF Id, TaskId
  <2>3. \A n \in 1 .. shape[r].tasks : Id(r, n) = id => n = id.n /\ id.req = r
    BY <1>2
  <2>4. CASE id.req = r /\ Asks(shape, id)
    <3>1. Works(work, id) = {id.n}
      BY <2>1, <2>2, <2>3, <2>4 DEF Asks
    <3> QED BY <2>4, <3>1, FS_Singleton DEF Count
  <2>5. CASE ~(id.req = r /\ Asks(shape, id))
    <3>1. Works(work, id) = {}
      BY <2>1, <2>3, <2>5 DEF Asks
    <3> QED BY <2>5, <3>1, FS_EmptySet DEF Count
  <2> QED BY <2>4, <2>5
<1> QED BY <1>3, <1>4

\* A task that was not posted is in no place.
LEMMA Nowhere ==
  ASSUME Inv, TaskInv, NEW id \in TaskId, ~Known(shape, http, id)
  PROVE  Places(id) = 0
<1>1. queue_tasks \in Seq(Entry) /\ queue_tasks_deferred \in Seq(Begins)
  BY DEF Inv, Typed
<1>2. AllOK(shape, http, queue_tasks) /\ AllOK(shape, http, queue_tasks_deferred)
      /\ EntryOK(shape, http, main.task)
  BY DEF TaskInv, EntriesOK
<1>3. Count(queue_tasks, id) = 0 /\ Count(queue_tasks_deferred, id) = 0
  <2>1. \A i \in DOMAIN queue_tasks : ~(queue_tasks[i].kind = "work" /\ queue_tasks[i].id = id)
    BY <1>2 DEF AllOK, EntryOK
  <2>2. \A i \in DOMAIN queue_tasks_deferred :
           ~(queue_tasks_deferred[i].kind = "work" /\ queue_tasks_deferred[i].id = id)
    BY <1>2 DEF AllOK, EntryOK
  <2> QED BY <1>1, <2>1, <2>2, CountTyped
<1>4. Held(slots, id) = 0
  <2>1. \A s \in Slots : slots[s].id_task # id
    BY NoTaskAssumption DEF TaskInv, EntriesOK, TaskId
  <2>2. Holders(slots, id) = {}
    BY <2>1 DEF Holders
  <2> QED BY <2>2, FS_EmptySet DEF Held
<1>5. Hand(main, id) = 0
  BY <1>2 DEF Hand, EntryOK
<1> QED BY <1>3, <1>4, <1>5, PlacesAre DEF PlacesOf

\* The works that are posted, each in its place.
LEMMA PostPlaces ==
  ASSUME Inv, TaskInv, NEW r \in Requests, Post(r)
  PROVE  \A id \in TaskId : Places(id)' = Places(id)
                            + IF id.req = r /\ Asks(shape, id) THEN 1 ELSE 0
<1> DEFINE work == [n \in 1 .. shape[r].tasks |-> Work(Id(r, n))]
<1>1. /\ slots' = slots /\ main' = main /\ queue_tasks_deferred' = queue_tasks_deferred
      /\ queue_tasks' = work \o queue_tasks \/ queue_tasks' = queue_tasks \o work
  BY DEF Post
<1>2. shape \in [Requests -> Shapes]
  BY GotTyped
<1>3. queue_tasks \in Seq(Entry) /\ queue_tasks_deferred \in Seq(Begins)
  BY DEF Inv, Typed
<1>4. /\ work \in Seq(Entry)
      /\ \A id \in TaskId : Count(work, id) = IF id.req = r /\ Asks(shape, id) THEN 1 ELSE 0
  BY <1>2, CountPosted
<1> HIDE DEF work
<1>5. \A id \in TaskId : Count(queue_tasks', id) = Count(queue_tasks, id) + Count(work, id)
  <2> SUFFICES ASSUME NEW id \in TaskId
               PROVE  Count(queue_tasks', id) = Count(queue_tasks, id) + Count(work, id)
    OBVIOUS
  <2>1. Count(work \o queue_tasks, id) = Count(work, id) + Count(queue_tasks, id)
        /\ Count(queue_tasks \o work, id) = Count(queue_tasks, id) + Count(work, id)
    BY <1>3, <1>4, CountJoined
  <2>2. Count(queue_tasks, id) \in Nat /\ Count(work, id) \in Nat
    BY <1>3, <1>4, CountTyped
  <2>3. CASE queue_tasks' = work \o queue_tasks
    <3>1. Count(queue_tasks', id) = Count(work, id) + Count(queue_tasks, id)
      BY <2>1, <2>3
    <3> QED BY <2>2, <3>1
  <2>4. CASE queue_tasks' = queue_tasks \o work
    BY <2>1, <2>4
  <2> QED BY <1>1, <2>3, <2>4
<1>6. \A id \in TaskId : Places(id)' = Places(id)
                            + IF id.req = r /\ Asks(shape, id) THEN 1 ELSE 0
  <2> SUFFICES ASSUME NEW id \in TaskId
               PROVE  Places(id)' = Places(id) + IF id.req = r /\ Asks(shape, id) THEN 1 ELSE 0
    OBVIOUS
  <2>1. Places(id)' = Count(queue_tasks', id) + Count(queue_tasks_deferred, id)
                        + Held(slots, id) + Hand(main, id)
        /\ Places(id) = Count(queue_tasks, id) + Count(queue_tasks_deferred, id)
                        + Held(slots, id) + Hand(main, id)
    BY <1>1, PlacesAre DEF PlacesOf
  <2>2. /\ Count(queue_tasks, id) \in Nat /\ Count(queue_tasks_deferred, id) \in Nat
        /\ Held(slots, id) \in Nat /\ Hand(main, id) \in Nat
    BY <1>3, CountTyped, HeldTyped DEF Hand
  <2> QED BY <1>4, <1>5, <2>1, <2>2
<1> QED BY <1>6

LEMMA PostKeeps ==
  ASSUME Inv, TaskInv, NEW r \in Requests, Post(r)
  PROVE  TaskInv'
<1> DEFINE work == [n \in 1 .. shape[r].tasks |-> Work(Id(r, n))]
<1>1. /\ http[r] = "registered" /\ http' = [http EXCEPT ![r] = "receiving"]
      /\ waiting_task_ids' = waiting_task_ids /\ queue_results' = queue_results
      /\ shape' = shape /\ open' = open /\ got' = got /\ slots' = slots /\ main' = main
      /\ wasted' = wasted /\ queue_tasks_deferred' = queue_tasks_deferred
      /\ queue_tasks' = work \o queue_tasks \/ queue_tasks' = queue_tasks \o work
  BY DEF Post, requests, results
<1>2. /\ got[r] \in Gained /\ got = [got EXCEPT ![r] = got[r]]
      /\ got[r].finals \in SUBSET (1 .. shape[r].tasks) /\ shape \in [Requests -> Shapes]
  BY GotTyped
<1>3. got[r].finals = {} /\ open \in SUBSET Requests /\ http \in [Requests -> Http]
  BY <1>1 DEF TaskInv, GotOK, RequestsTyped
<1>4. Turns(r, "receiving", got[r])
  <2>1. /\ got' = [got EXCEPT ![r] = got[r]] /\ open' \in SUBSET Requests
        /\ UNCHANGED <<shape, slots, main, wasted>>
    BY <1>1, <1>2, <1>3
  <2>2. "receiving" \in Http /\ http[r] # "gone"
    BY <1>1 DEF Http
  <2> QED BY <1>1, <1>2, <1>3, <2>1, <2>2 DEF Turns
<1>5. queue_results \in Seq(Result) /\ waiting_task_ids \in SUBSET TaskId
  BY DEF TaskInv, RequestsTyped
<1>6. PICK f : /\ Follows(queue_results, queue_results', f)
               /\ \A j \in DOMAIN queue_results : queue_results[j].id.req # r
                    => \E k \in DOMAIN queue_results' : f[k] = j
               /\ \A k \in DOMAIN queue_results' : f[k] = k
  <2>1. queue_results' = queue_results
    BY <1>1
  <2>2. queue_results \in Seq(Result)
    BY <1>5
  <2> QED BY <2>1, <2>2, NoneFiltered
<1>7. /\ \A i \in DOMAIN queue_results : queue_results[i].id.req # r
      /\ \A id \in TaskId : id.req = r => ~HasReply(queue_results, id)
  BY <1>1, NoResults
<1>8. Filters(r, "receiving", got[r], f)
  BY <1>1, <1>5, <1>6, <1>7 DEF Filters
<1>9. AwaitsNow(r, "receiving")
  <2>1. \A id \in TaskId : id \in waiting_task_ids <=> Asks(shape, id) /\ Awaited(http[id.req])
    BY DEF TaskInv, WaitingOK
  <2> QED BY <1>1, <1>5, <2>1 DEF AwaitsNow, Awaited
<1>10. queue_tasks \in Seq(Entry) /\ queue_tasks_deferred \in Seq(Begins)
  BY DEF Inv, Typed
<1>11. /\ work \in Seq(Entry)
       /\ \A id \in TaskId : Count(work, id) = IF id.req = r /\ Asks(shape, id) THEN 1 ELSE 0
  BY <1>2, CountPosted
<1>12. AllOK(shape, http', work)
  <2>1. \A n \in 1 .. shape[r].tasks :
           /\ Work(Id(r, n)).kind = "work" /\ Work(Id(r, n)).id = Id(r, n)
           /\ Id(r, n) \in TaskId /\ Id(r, n).n = n /\ Id(r, n).req = r
    BY DEF Work, Id, TaskId
  <2>2. http'[r] = "receiving"
    BY <1>1, <1>3
  <2> QED BY <2>1, <2>2 DEF AllOK, EntryOK, Known
<1> HIDE DEF work
<1>14. \A id \in TaskId : Places(id)' = Places(id)
                            + IF id.req = r /\ Asks(shape, id) THEN 1 ELSE 0
  BY PostPlaces
<1>15. \A id \in TaskId : Places(id) \in Nat
  BY <1>10, PlacesTyped, PlacesAre
<1>16. PlacesFor(r)
  <2>1. \A id : Known(shape, http, id) =>
          /\ Known(shape, http', id) /\ (http[id.req] = "gone" => http'[id.req] = "gone")
          /\ id.req # r
    BY <1>1, <1>3 DEF Known, TaskId
  <2>2. AllOK(shape, http, queue_tasks) /\ AllOK(shape, http, queue_tasks_deferred)
    BY DEF TaskInv, EntriesOK
  <2>3. AllOK(shape, http', queue_tasks) /\ AllOK(shape, http', queue_tasks_deferred)
    BY <2>1, <2>2, EntriesFollow
  <2>4. AllOK(shape, http', work \o queue_tasks) /\ AllOK(shape, http', queue_tasks \o work)
    BY <1>10, <1>11, <1>12, <2>3, JoinedOK
  <2>5. AllOK(shape, http', queue_tasks') /\ AllOK(shape, http', queue_tasks_deferred')
    BY <1>1, <2>3, <2>4
  <2>6. \A id \in TaskId : id.req # r \/ Known(shape, http, id) => Places(id)' = Places(id)
    BY <1>14, <1>15, <2>1
  <2>7. ASSUME NEW id \in TaskId, id.req = r, Asks(shape, id)
        PROVE  LiveOK(http', got', queue_results', id, Places(id)')
    <3>1. Places(id) = 0
      BY <2>1, <2>7, Nowhere
    <3>2. Places(id)' = 1
      BY <1>14, <2>7, <3>1
    <3>3. ~Replied(got', queue_results', id)
      BY <1>1, <1>3, <1>7, <2>7 DEF Replied
    <3> QED BY <3>2, <3>3 DEF LiveOK
  <2> QED BY <2>5, <2>6, <2>7 DEF PlacesFor
<1> QED BY <1>4, <1>8, <1>9, <1>16, RequestKeeps

\* The cancellations that are posted change no task's place.
LEMMA CancelsPlaces ==
  ASSUME Inv, TaskInv, NEW r \in Requests, PostCancels(r)
  PROVE  \A id \in TaskId : Places(id)' = Places(id)
<1> DEFINE ends == [n \in 1 .. shape[r].tasks |-> Cancel(Id(r, shape[r].tasks + 1 - n))]
           q == CleanupPending(queue_tasks, Ids(r))
           d == CleanupPending(queue_tasks_deferred, Ids(r))
<1>1. /\ slots' = slots /\ main' = main
      /\ queue_tasks' = ends \o q /\ queue_tasks_deferred' = d
  BY DEF PostCancels
<1>2. shape[r].tasks \in Nat
  BY GotTyped
<1>3. queue_tasks \in Seq(Entry) /\ queue_tasks_deferred \in Seq(Begins)
  BY DEF Inv, Typed
<1>4. ends \in Seq(Entry) /\ \A n \in DOMAIN ends : ends[n].kind = "cancel" /\ ends[n].id.req = r
                                /\ ends[n].id \in TaskId /\ Asks(shape, ends[n].id)
  <2>1. \A n \in 1 .. shape[r].tasks : shape[r].tasks + 1 - n \in 1 .. shape[r].tasks
    BY <1>2
  <2>2. \A n \in 1 .. shape[r].tasks :
           /\ Cancel(Id(r, n)) \in Entry /\ Cancel(Id(r, n)).kind = "cancel"
           /\ Cancel(Id(r, n)).id.req = r /\ Cancel(Id(r, n)).id \in TaskId
           /\ Asks(shape, Cancel(Id(r, n)).id)
    BY DEF Cancel, Id, Entry, Ends, TaskId, Asks
  <2>3. \A n \in 1 .. shape[r].tasks :
           /\ ends[n] \in Entry /\ ends[n].kind = "cancel"
           /\ ends[n].id.req = r /\ ends[n].id \in TaskId
           /\ Asks(shape, ends[n].id)
    BY <2>1, <2>2
  <2>4. DOMAIN ends = 1 .. shape[r].tasks
    OBVIOUS
  <2>5. ends \in [1 .. shape[r].tasks -> Entry]
    BY <2>3
  <2> HIDE DEF ends
  <2>6. ends \in Seq(Entry)
    BY <1>2, <2>5
  <2> QED BY <2>3, <2>4, <2>6
<1> HIDE DEF ends
<1>5. /\ q \in Seq(Entry) /\ d \in Seq(Begins)
      /\ \A i \in DOMAIN q : \E j \in DOMAIN queue_tasks : q[i] = queue_tasks[j]
      /\ \A i \in DOMAIN d : \E j \in DOMAIN queue_tasks_deferred : d[i] = queue_tasks_deferred[j]
  BY <1>3, CleanupKeeps
<1>6. \A id : Count(q, id) = Count(queue_tasks, id) /\ Count(d, id) = Count(queue_tasks_deferred, id)
  BY <1>3, CountCleanup
<1> HIDE DEF q, d
<1>7. \A id \in TaskId : Places(id)' = Places(id)
  <2> SUFFICES ASSUME NEW id \in TaskId PROVE Places(id)' = Places(id)
    OBVIOUS
  <2>1. Count(queue_tasks', id) = Count(ends, id) + Count(q, id)
    BY <1>1, <1>4, <1>5, CountJoined
  <2>2. Count(ends, id) = 0
    BY <1>4, CountTyped
  <2>3. Count(queue_tasks', id) = Count(queue_tasks, id)
    <3>1. Count(queue_tasks, id) \in Nat
      BY <1>3, CountTyped
    <3> QED BY <1>6, <2>1, <2>2, <3>1
  <2>4. Count(queue_tasks_deferred', id) = Count(queue_tasks_deferred, id)
    BY <1>1, <1>6
  <2> QED BY <1>1, <2>3, <2>4, PlacesAre DEF PlacesOf
<1> QED BY <1>7

LEMMA PostCancelsKeeps ==
  ASSUME Inv, TaskInv, NEW r \in Requests, PostCancels(r)
  PROVE  TaskInv'
<1> DEFINE ends == [n \in 1 .. shape[r].tasks |-> Cancel(Id(r, shape[r].tasks + 1 - n))]
           q == CleanupPending(queue_tasks, Ids(r))
           d == CleanupPending(queue_tasks_deferred, Ids(r))
<1>1. /\ http[r] = "cancelling" /\ http' = [http EXCEPT ![r] = "gone"]
      /\ waiting_task_ids' = waiting_task_ids /\ queue_results' = queue_results
      /\ shape' = shape /\ open' = open /\ got' = got /\ slots' = slots /\ main' = main
      /\ wasted' = wasted /\ queue_tasks' = ends \o q /\ queue_tasks_deferred' = d
  BY DEF PostCancels, requests, results
<1>2. /\ got[r] \in Gained /\ got = [got EXCEPT ![r] = got[r]] /\ shape[r].tasks \in Nat
      /\ got[r].finals \in SUBSET (1 .. shape[r].tasks) /\ shape \in [Requests -> Shapes]
  BY GotTyped
<1>3. open \in SUBSET Requests /\ http \in [Requests -> Http]
  BY <1>1 DEF TaskInv, RequestsTyped
<1>4. Turns(r, "gone", got[r])
  BY <1>1, <1>2, <1>3 DEF Turns, Http
<1>5. queue_results \in Seq(Result) /\ waiting_task_ids \in SUBSET TaskId
  BY DEF TaskInv, RequestsTyped
<1>6. PICK f : /\ Follows(queue_results, queue_results', f)
               /\ \A j \in DOMAIN queue_results : queue_results[j].id.req # r
                    => \E k \in DOMAIN queue_results' : f[k] = j
               /\ \A k \in DOMAIN queue_results' : f[k] = k
  <2>1. queue_results' = queue_results
    BY <1>1
  <2>2. queue_results \in Seq(Result)
    BY <1>5
  <2> QED BY <2>1, <2>2, NoneFiltered
<1>7. \A i \in DOMAIN queue_results : queue_results[i].id.req # r
  BY <1>1, NoResults
<1>8. Filters(r, "gone", got[r], f)
  BY <1>1, <1>5, <1>6, <1>7 DEF Filters
<1>9. AwaitsNow(r, "gone")
  <2>1. \A id \in TaskId : id \in waiting_task_ids <=> Asks(shape, id) /\ Awaited(http[id.req])
    BY DEF TaskInv, WaitingOK
  <2> QED BY <1>1, <1>5, <2>1 DEF AwaitsNow, Awaited
<1>10. queue_tasks \in Seq(Entry) /\ queue_tasks_deferred \in Seq(Begins)
  BY DEF Inv, Typed
<1>11. ends \in Seq(Entry) /\ \A n \in DOMAIN ends : ends[n].kind = "cancel" /\ ends[n].id.req = r
                                /\ ends[n].id \in TaskId /\ Asks(shape, ends[n].id)
  <2>1. \A n \in 1 .. shape[r].tasks : shape[r].tasks + 1 - n \in 1 .. shape[r].tasks
    BY <1>2
  <2>2. \A n \in 1 .. shape[r].tasks :
           /\ Cancel(Id(r, n)) \in Entry /\ Cancel(Id(r, n)).kind = "cancel"
           /\ Cancel(Id(r, n)).id.req = r /\ Cancel(Id(r, n)).id \in TaskId
           /\ Asks(shape, Cancel(Id(r, n)).id)
    BY DEF Cancel, Id, Entry, Ends, TaskId, Asks
  <2>3. \A n \in 1 .. shape[r].tasks :
           /\ ends[n] \in Entry /\ ends[n].kind = "cancel"
           /\ ends[n].id.req = r /\ ends[n].id \in TaskId
           /\ Asks(shape, ends[n].id)
    BY <2>1, <2>2
  <2>4. DOMAIN ends = 1 .. shape[r].tasks
    OBVIOUS
  <2>5. ends \in [1 .. shape[r].tasks -> Entry]
    BY <2>3
  <2> HIDE DEF ends
  <2>6. ends \in Seq(Entry)
    BY <1>2, <2>5
  <2> QED BY <2>3, <2>4, <2>6
<1> HIDE DEF ends
<1>12. http'[r] = "gone"
  BY <1>1, <1>3
<1>13. AllOK(shape, http', ends)
  BY <1>11, <1>12 DEF AllOK, EntryOK, Known, Asks
<1>14. /\ q \in Seq(Entry) /\ d \in Seq(Begins)
       /\ \A i \in DOMAIN q : \E j \in DOMAIN queue_tasks : q[i] = queue_tasks[j]
       /\ \A i \in DOMAIN d : \E j \in DOMAIN queue_tasks_deferred : d[i] = queue_tasks_deferred[j]
  BY <1>10, CleanupKeeps
<1> HIDE DEF q, d
<1>16. \A id \in TaskId : Places(id)' = Places(id)
  BY CancelsPlaces
<1>17. PlacesFor(r)
  <2>1. \A id : Known(shape, http, id) =>
          /\ Known(shape, http', id) /\ (http[id.req] = "gone" => http'[id.req] = "gone")
    BY <1>1, <1>3 DEF Known, TaskId
  <2>2. AllOK(shape, http, queue_tasks) /\ AllOK(shape, http, queue_tasks_deferred)
    BY DEF TaskInv, EntriesOK
  <2>3. AllOK(shape, http, q) /\ AllOK(shape, http, d)
    BY <1>14, <2>2 DEF AllOK
  <2>4. AllOK(shape, http', q) /\ AllOK(shape, http', d)
    BY <2>1, <2>3, EntriesFollow
  <2>5. AllOK(shape, http', queue_tasks') /\ AllOK(shape, http', queue_tasks_deferred')
    BY <1>1, <1>11, <1>13, <1>14, <2>4, JoinedOK
  <2>6. ASSUME NEW id \in TaskId, id.req = r, Asks(shape, id)
        PROVE  LiveOK(http', got', queue_results', id, Places(id)')
    <3>1. LiveOK(http, got, queue_results, id, Places(id))
      BY <2>6 DEF TaskInv, LivesOK
    <3> QED BY <1>1, <1>12, <1>16, <2>6, <3>1 DEF LiveOK
  <2> QED BY <1>16, <2>5, <2>6 DEF PlacesFor
<1> QED BY <1>4, <1>8, <1>9, <1>17, RequestKeeps
-----------------------------------------------------------------------------
\* A queue of results without one of them.
Removes(q, h) ==
  \E c, f : /\ c = Without(q, h) /\ c \in Seq(Result) /\ Follows(q, c, f)
            /\ \A k \in DOMAIN c : f[k] # h
            /\ \A j \in DOMAIN q : j # h => \E k \in DOMAIN c : f[k] = j

LEMMA WithoutResult ==
  ASSUME NEW q \in Seq(Result), NEW h \in DOMAIN q
  PROVE  Removes(q, h)
<1>1. PICK S : S = Result
  OBVIOUS
<1>2. q \in Seq(S)
  BY <1>1
<1>3. \E c, f : /\ c = Without(q, h) /\ c \in Seq(S) /\ Len(c) = Len(q) - 1
                /\ Follows(q, c, f) /\ \A k \in DOMAIN c : f[k] # h
                /\ \A j \in DOMAIN q : j # h => \E k \in DOMAIN c : f[k] = j
  BY <1>2, WithoutOne
<1> QED BY <1>3, <1>1 DEF Removes

\* A result is received: the first of those for the request, and it is taken out.
LEMMA Received ==
  ASSUME TaskInv, NEW r \in Requests, NEW kind, HasResult(r, kind),
         queue_results' = Without(queue_results, FirstFor(r))
  PROVE  /\ http[r] = "receiving" /\ queue_results' \in Seq(Result)
         /\ FirstFor(r) \in DOMAIN queue_results
         /\ LET e == queue_results[FirstFor(r)]
            IN  /\ e \in Result /\ e.id \in TaskId /\ e.id.req = r /\ e.kind = kind
                /\ Known(shape, http, e.id) /\ Asks(shape, e.id)
                /\ e.id.n \in got[r].finals => kind = "error"
         /\ \E f :
              /\ Follows(queue_results, queue_results', f)
              /\ \A k \in DOMAIN queue_results' :
                   /\ f[k] # FirstFor(r)
                   /\ queue_results'[k].id.req = r => FirstFor(r) < f[k]
              /\ \A j \in DOMAIN queue_results : j # FirstFor(r)
                   => \E k \in DOMAIN queue_results' : f[k] = j
<1>1. queue_results \in Seq(Result) /\ http[r] = "receiving"
  BY DEF TaskInv, RequestsTyped, HasResult
<1>2. PICK i : i = FirstFor(r)
  OBVIOUS
<1>3. /\ i \in DOMAIN queue_results /\ queue_results[i] \in Result
      /\ queue_results[i].id.req = r /\ queue_results[i].kind = kind
      /\ \A j \in DOMAIN queue_results : queue_results[j].id.req = r => i <= j
  BY <1>1, <1>2, FirstResult
<1>4. ResultOK(shape, http, got, queue_results[i])
  BY <1>3 DEF TaskInv, QueueOK
<1>5. /\ queue_results[i].id \in TaskId /\ Known(shape, http, queue_results[i].id)
      /\ Asks(shape, queue_results[i].id)
      /\ queue_results[i].id.n \in got[r].finals => kind = "error"
  BY <1>3, <1>4 DEF ResultOK, Known, Asks
<1>6. PICK c, f : /\ c = Without(queue_results, i) /\ c \in Seq(Result) /\ Follows(queue_results, c, f)
                  /\ \A k \in DOMAIN c : f[k] # i
                  /\ \A j \in DOMAIN queue_results : j # i => \E k \in DOMAIN c : f[k] = j
  <2>1. PICK q \in Seq(Result) : q = queue_results
    BY <1>1
  <2>2. PICK h \in DOMAIN q : h = i
    BY <1>3, <2>1
  <2>3. Removes(q, h)
    BY WithoutResult
  <2> QED BY <2>1, <2>2, <2>3 DEF Removes
<1>7. queue_results' = c
  BY <1>2, <1>6
<1>8. \A k \in DOMAIN c : c[k].id.req = r => i < f[k]
  <2> SUFFICES ASSUME NEW k \in DOMAIN c, c[k].id.req = r PROVE i < f[k]
    OBVIOUS
  <2>1. f[k] \in DOMAIN queue_results /\ c[k] = queue_results[f[k]] /\ f[k] # i
    BY <1>6 DEF Follows
  <2>2. f[k] \in Nat /\ i \in Nat
    BY <1>1, <1>3, <2>1
  <2>3. i <= f[k]
    BY <1>3, <2>1
  <2> QED BY <2>1, <2>2, <2>3
<1>9. \E g : /\ Follows(queue_results, queue_results', g)
             /\ \A k \in DOMAIN queue_results' :
                   /\ g[k] # i
                   /\ queue_results'[k].id.req = r => i < g[k]
             /\ \A j \in DOMAIN queue_results : j # i => \E k \in DOMAIN queue_results' : g[k] = j
  BY <1>6, <1>7, <1>8
<1>10. queue_results' \in Seq(Result)
  BY <1>6, <1>7
<1> QED BY <1>1, <1>2, <1>3, <1>5, <1>9, <1>10

\* Whether a task that is not the one received has a reply.
LEMMA OthersReplies ==
  ASSUME NEW q, NEW c, NEW f, Follows(q, c, f), NEW i,
         \A j \in DOMAIN q : j # i => \E k \in DOMAIN c : f[k] = j,
         NEW id, q[i].id # id \/ q[i].kind = "partial"
  PROVE  HasReply(q, id) <=> HasReply(c, id)
<1>1. HasReply(c, id) => HasReply(q, id)
  BY DEF Follows, HasReply
<1>2. ASSUME HasReply(q, id) PROVE HasReply(c, id)
  <2>1. PICK j \in DOMAIN q : q[j].id = id /\ q[j].kind \in {"final", "error"}
    BY <1>2 DEF HasReply
  <2>2. PICK k \in DOMAIN c : f[k] = j
    BY <2>1
  <2> QED BY <2>1, <2>2 DEF Follows, HasReply
<1> QED BY <1>1, <1>2

\* Two tasks of a request have different numbers.
LEMMA SameTask ==
  ASSUME NEW a \in TaskId, NEW b \in TaskId, a.req = b.req
  PROVE  a = b <=> a.n = b.n
BY DEF TaskId

LEMMA PartialKeeps ==
  ASSUME Inv, TaskInv, NEW r \in Requests, ReceivePartial(r)
  PROVE  TaskInv'
<1> DEFINE i == FirstFor(r)
           e == queue_results[i]
<1>1. /\ HasResult(r, "partial") /\ queue_results' = Without(queue_results, FirstFor(r))
      /\ got' = [got EXCEPT ![r].text[e.id.n] = e.upto]
      /\ shape' = shape /\ http' = http /\ open' = open /\ waiting_task_ids' = waiting_task_ids
      /\ UNCHANGED tasks /\ slots' = slots /\ main' = main /\ wasted' = wasted
  BY DEF ReceivePartial
<1>2. /\ http[r] = "receiving" /\ queue_results' \in Seq(Result) /\ i \in DOMAIN queue_results
      /\ e \in Result /\ e.id \in TaskId /\ e.id.req = r /\ e.kind = "partial"
  BY <1>1, Received
<1>3. PICK f :
        /\ Follows(queue_results, queue_results', f)
        /\ \A k \in DOMAIN queue_results' :
             /\ f[k] # i
             /\ queue_results'[k].id.req = r => i < f[k]
        /\ \A j \in DOMAIN queue_results : j # i => \E k \in DOMAIN queue_results' : f[k] = j
  BY <1>1, Received
<1>4. /\ got[r] \in Gained /\ got = [got EXCEPT ![r] = got[r]]
      /\ got[r].finals \in SUBSET (1 .. shape[r].tasks)
  BY GotTyped
<1>5. PICK y \in Gained : got' = [got EXCEPT ![r] = y] /\ y.finals = got[r].finals
  <2>1. e.upto \in Nat
    BY <1>2 DEF Result
  <2>2. PICK u \in Nat, n \in Nat : u = e.upto /\ n = e.id.n
    BY <1>2, <2>1 DEF TaskId
  <2>3. PICK m \in Nat : got[r].text \in [1 .. m -> Nat]
    BY <1>4 DEF Gained
  <2>4. [got[r].text EXCEPT ![n] = u] \in [1 .. m -> Nat]
    BY <2>3
  <2> DEFINE y == [got[r] EXCEPT !.text[n] = u]
  <2>5. y = [got[r] EXCEPT !.text = [got[r].text EXCEPT ![n] = u]]
    OBVIOUS
  <2>6. y \in Gained /\ y.finals = got[r].finals
    BY <1>4, <2>4, <2>5 DEF Gained
  <2>7. got' = [got EXCEPT ![r] = y]
    BY <1>1, <2>2
  <2> QED BY <2>6, <2>7
<1>6. Turns(r, "receiving", y)
  <2>1. open \in SUBSET Requests /\ http \in [Requests -> Http]
    BY DEF TaskInv, RequestsTyped
  <2>2. http' = [http EXCEPT ![r] = "receiving"]
    BY <1>1, <1>2, <2>1
  <2> QED BY <1>1, <1>2, <1>4, <1>5, <2>1, <2>2 DEF Turns, Http
<1>7. Filters(r, "receiving", y, f)
  <2>1. ASSUME NEW k \in DOMAIN queue_results', queue_results'[k].id.req = r,
               queue_results'[k].id.n \in y.finals
        PROVE  queue_results'[k].kind = "error"
    <3>1. f[k] \in DOMAIN queue_results /\ queue_results'[k] = queue_results[f[k]]
      BY <1>3 DEF Follows
    <3> QED BY <1>5, <2>1, <3>1 DEF TaskInv, QueueOK, ResultOK
  <2> QED BY <1>2, <1>3, <2>1 DEF Filters
<1>8. AwaitsNow(r, "receiving")
  BY <1>1, <1>2 DEF TaskInv, RequestsTyped, WaitingOK, AwaitsNow
<1>9. PlacesFor(r)
  <2>1. \A id : HasReply(queue_results, id) <=> HasReply(queue_results', id)
    BY <1>2, <1>3, OthersReplies
  <2>2. got'[r] = y
    BY <1>5 DEF TaskInv, RequestsTyped
  <2>3. \A id \in TaskId : id.req = r /\ Asks(shape, id) =>
          /\ Replied(got', queue_results', id) => Replied(got, queue_results, id)
          /\ "receiving" = "receiving" /\ Replied(got, queue_results, id)
               => Replied(got', queue_results', id)
    BY <1>5, <2>1, <2>2 DEF Replied
  <2> QED BY <1>1, <1>2, <1>3, <1>6, <2>3, PlacesForSame
<1> QED BY <1>6, <1>7, <1>8, <1>9, RequestKeeps

LEMMA FinalKeeps ==
  ASSUME Inv, TaskInv, NEW r \in Requests, ReceiveFinal(r)
  PROVE  TaskInv'
<1> DEFINE i == FirstFor(r)
           e == queue_results[i]
           finals == got[r].finals \cup {e.id.n}
           all == Cardinality(finals) = shape[r].tasks
<1>1. /\ HasResult(r, "final") /\ queue_results' = Without(queue_results, FirstFor(r))
      /\ got' = [got EXCEPT ![r].finals = @ \cup {e.id.n},
                            ![r].outcome = IF all THEN "ok" ELSE @]
      /\ http' = IF all THEN [http EXCEPT ![r] = "leaving"] ELSE http
      /\ shape' = shape /\ open' = open /\ waiting_task_ids' = waiting_task_ids
      /\ UNCHANGED tasks /\ slots' = slots /\ main' = main /\ wasted' = wasted
  BY DEF ReceiveFinal
<1>2. /\ http[r] = "receiving" /\ queue_results' \in Seq(Result) /\ i \in DOMAIN queue_results
      /\ e \in Result /\ e.id \in TaskId /\ e.id.req = r /\ e.kind = "final"
      /\ Asks(shape, e.id) /\ e.id.n \notin got[r].finals
  BY <1>1, Received
<1>3. PICK f :
        /\ Follows(queue_results, queue_results', f)
        /\ \A k \in DOMAIN queue_results' :
             /\ f[k] # i
             /\ queue_results'[k].id.req = r => i < f[k]
        /\ \A j \in DOMAIN queue_results : j # i => \E k \in DOMAIN queue_results' : f[k] = j
  BY <1>1, Received
<1>4. /\ got[r] \in Gained /\ got = [got EXCEPT ![r] = got[r]] /\ shape[r].tasks \in Nat
      /\ got[r].finals \in SUBSET (1 .. shape[r].tasks)
  BY GotTyped
<1>5. http \in [Requests -> Http] /\ got \in [Requests -> Gained] /\ open \in SUBSET Requests
  BY DEF TaskInv, RequestsTyped
<1>6. finals \in SUBSET (1 .. shape[r].tasks) /\ finals \in SUBSET Nat
  BY <1>2, <1>4 DEF Asks
<1>7. all => finals = 1 .. shape[r].tasks
  <2> HIDE DEF finals
  <2>1. IsFiniteSet(1 .. shape[r].tasks) /\ Cardinality(1 .. shape[r].tasks) = shape[r].tasks
    BY <1>4, FS_Interval
  <2> QED BY <1>6, <2>1, FS_Subset
<1>8. PICK n : n = e.id.n
  OBVIOUS
<1>9. finals = got[r].finals \cup {n}
  BY <1>8
<1> DEFINE y == [got[r] EXCEPT !.finals = finals, !.outcome = IF all THEN "ok" ELSE @]
           x == IF all THEN "leaving" ELSE "receiving"
<1>10. /\ y \in Gained /\ y.finals = finals /\ (all => y.outcome = "ok")
       /\ got' = [got EXCEPT ![r] = y]
  <2>1. y \in Gained /\ y.finals = finals /\ (all => y.outcome = "ok")
    <3> HIDE DEF finals, all
    <3> QED BY <1>4, <1>6 DEF Gained
  <2>2. got' = [got EXCEPT ![r] = y]
    BY <1>1, <1>4
  <2> QED BY <2>1, <2>2
<1>11. http' = [http EXCEPT ![r] = x] /\ x \in {"leaving", "receiving"} /\ (x = "leaving" => all)
  BY <1>1, <1>2, <1>5
<1> HIDE DEF y, x, all
<1>12. Turns(r, x, y)
  <2>1. got[r].finals \in SUBSET y.finals /\ y.finals \in SUBSET (1 .. shape[r].tasks)
    BY <1>6, <1>9, <1>10
  <2>2. x = "leaving" /\ ~Quick(r) => Complete(shape, r, y)
    BY <1>7, <1>10, <1>11 DEF Complete
  <2> QED BY <1>1, <1>2, <1>5, <1>10, <1>11, <2>1, <2>2 DEF Turns, Http
<1>13. Filters(r, x, y, f)
  <2>1. ASSUME NEW k \in DOMAIN queue_results', queue_results'[k].id.req = r,
               queue_results'[k].id.n \in y.finals
        PROVE  queue_results'[k].kind = "error"
    <3>1. f[k] \in DOMAIN queue_results /\ queue_results'[k] = queue_results[f[k]] /\ i < f[k]
      BY <1>3, <2>1 DEF Follows
    <3>2. ResultOK(shape, http, got, queue_results[f[k]])
      BY <3>1 DEF TaskInv, QueueOK
    <3>3. CASE queue_results'[k].id.n \in got[r].finals
      BY <2>1, <3>1, <3>2, <3>3 DEF ResultOK
    <3>4. CASE queue_results'[k].id.n = e.id.n
      <4>1. queue_results'[k].id \in TaskId
        BY <3>1, <3>2 DEF ResultOK, Known
      <4>2. queue_results[f[k]].id = e.id
        BY <1>2, <2>1, <3>1, <3>4, <4>1, SameTask
      <4> QED BY <1>2, <3>1, <4>2 DEF TaskInv, QueueOK
    <3> QED BY <1>10, <2>1, <3>3, <3>4
  <2> QED BY <1>2, <1>3, <1>11, <2>1 DEF Filters
<1>14. AwaitsNow(r, x)
  BY <1>1, <1>2, <1>11 DEF TaskInv, RequestsTyped, WaitingOK, AwaitsNow, Awaited
<1>15. PlacesFor(r)
  <2>1. got'[r] = y
    BY <1>5, <1>10
  <2>2. ASSUME NEW id \in TaskId, id.req = r
        PROVE  Replied(got', queue_results', id) <=> Replied(got, queue_results, id)
    <3>1. CASE id = e.id
      <4>1. HasReply(queue_results, id)
        BY <1>2, <3>1 DEF HasReply
      <4>2. id.n \in got'[id.req].finals
        BY <1>10, <2>1, <2>2, <3>1
      <4> QED BY <4>1, <4>2 DEF Replied
    <3>2. CASE id # e.id
      <4>1. HasReply(queue_results, id) <=> HasReply(queue_results', id)
        BY <1>3, <3>2, OthersReplies
      <4>2. id.n # e.id.n
        BY <1>2, <2>2, <3>2, SameTask
      <4> QED BY <1>10, <2>1, <2>2, <4>1, <4>2 DEF Replied
    <3> QED BY <3>1, <3>2
  <2>3. \A id \in TaskId : id.req = r /\ Asks(shape, id) =>
          /\ Replied(got', queue_results', id) => Replied(got, queue_results, id)
          /\ x = "receiving" /\ Replied(got, queue_results, id)
               => Replied(got', queue_results', id)
    BY <2>2
  <2> QED BY <1>1, <1>2, <1>3, <1>12, <2>3, PlacesForSame
<1> QED BY <1>12, <1>13, <1>14, <1>15, RequestKeeps
-----------------------------------------------------------------------------
\* The results for a request are removed, and nobody waits for any.
LEMMA ForgetKeeps ==
  ASSUME Inv, TaskInv, NEW r \in Requests, NEW x \in {"cancelling", "gone"}, NEW y,
         Turns(r, x, y), y.finals = got[r].finals, Forget(r), UNCHANGED tasks
  PROVE  TaskInv'
<1>1. queue_results \in Seq(Result) /\ waiting_task_ids \in SUBSET TaskId
      /\ shape \in [Requests -> Shapes] /\ got \in [Requests -> Gained]
  BY DEF TaskInv, RequestsTyped
<1>2. queue_results' \in Seq(Result) /\ waiting_task_ids' = waiting_task_ids \ Ids(r)
  BY <1>1, Forgotten
<1>3. PICK f : /\ Follows(queue_results, queue_results', f)
               /\ \A k \in DOMAIN queue_results' : queue_results'[k].id.req # r
               /\ \A j \in DOMAIN queue_results : queue_results[j].id.req # r
                    => \E k \in DOMAIN queue_results' : f[k] = j
  BY <1>1, Forgotten
<1>4. Filters(r, x, y, f)
  BY <1>2, <1>3 DEF Filters
<1>5. AwaitsNow(r, x)
  <2>1. \A id \in TaskId : id \in Ids(r) <=> id.req = r /\ Asks(shape, id)
    BY <1>1, IdsAre
  <2>2. \A id \in TaskId : id \in waiting_task_ids <=> Asks(shape, id) /\ Awaited(http[id.req])
    BY DEF TaskInv, WaitingOK
  <2> QED BY <1>1, <1>2, <2>1, <2>2 DEF AwaitsNow, Awaited
<1>6. PlacesFor(r)
  <2>1. \A id : HasReply(queue_results', id) => HasReply(queue_results, id)
    BY <1>3 DEF Follows, HasReply
  <2>2. got'[r] = y
    BY <1>1 DEF Turns
  <2>3. \A id \in TaskId : id.req = r /\ Asks(shape, id) =>
          /\ Replied(got', queue_results', id) => Replied(got, queue_results, id)
          /\ x = "receiving" /\ Replied(got, queue_results, id)
               => Replied(got', queue_results', id)
    BY <2>1, <2>2 DEF Replied
  <2> QED BY <1>3, <2>3, PlacesForSame
<1> QED BY <1>4, <1>5, <1>6, RequestKeeps

\* The outcome of a request.
LEMMA Ended ==
  ASSUME TaskInv, NEW r \in Requests, NEW o \in {"ok", "error", "left"}
  PROVE  LET y == [got[r] EXCEPT !.outcome = o]
         IN  y \in Gained /\ y.finals = got[r].finals
             /\ [got EXCEPT ![r].outcome = o] = [got EXCEPT ![r] = y]
BY GotTyped DEF Gained

LEMMA GiveUpKeeps ==
  ASSUME Inv, TaskInv, NEW r \in Requests, GiveUp(r)
  PROVE  TaskInv'
<1>1. /\ http[r] = "receiving" /\ http' = [http EXCEPT ![r] = "cancelling"]
      /\ got' = [got EXCEPT ![r].outcome = "left"] /\ Forget(r)
      /\ shape' = shape /\ open' = open /\ UNCHANGED tasks
      /\ slots' = slots /\ main' = main /\ wasted' = wasted
  BY DEF GiveUp
<1>2. PICK y \in Gained : y.finals = got[r].finals /\ got' = [got EXCEPT ![r] = y]
  BY <1>1, Ended
<1>3. got[r].finals \in SUBSET (1 .. shape[r].tasks) /\ open \in SUBSET Requests
  BY GotTyped DEF TaskInv, RequestsTyped
<1>4. Turns(r, "cancelling", y)
  BY <1>1, <1>2, <1>3 DEF Turns, Http
<1> QED BY <1>1, <1>2, <1>4, ForgetKeeps

\* The client of a stream leaves before it has read anything: nothing else changes.
LEMMA GiveUpUnreadKeeps ==
  ASSUME Inv, TaskInv, NEW r \in Requests, GiveUpUnread(r)
  PROVE  TaskInv'
<1>1. /\ http[r] = "receiving" /\ http' = [http EXCEPT ![r] = "leaving"]
      /\ got' = [got EXCEPT ![r].outcome = "left"] /\ shape[r].stream /\ Unread(r)
      /\ shape' = shape /\ open' = open /\ UNCHANGED tasks
      /\ waiting_task_ids' = waiting_task_ids /\ queue_results' = queue_results
      /\ slots' = slots /\ main' = main /\ wasted' = wasted
  BY DEF GiveUpUnread, results
<1>2. PICK y : y = [got[r] EXCEPT !.outcome = "left"]
  OBVIOUS
<1>3. y \in Gained /\ y.finals = got[r].finals /\ got' = [got EXCEPT ![r] = y]
  BY <1>1, <1>2, Ended
<1>4. Deserted(shape, r, y)
  BY <1>1, <1>2, GotTyped DEF Gained, Unread, Deserted
<1>5. /\ got[r].finals \in SUBSET (1 .. shape[r].tasks) /\ open \in SUBSET Requests
      /\ queue_results \in Seq(Result) /\ waiting_task_ids \in SUBSET TaskId
  BY GotTyped DEF TaskInv, RequestsTyped
<1>6. Turns(r, "leaving", y)
  BY <1>1, <1>3, <1>4, <1>5 DEF Turns, Http
<1>7. PICK f : /\ Follows(queue_results, queue_results', f)
               /\ \A j \in DOMAIN queue_results : queue_results[j].id.req # r
                    => \E k \in DOMAIN queue_results' : f[k] = j
               /\ \A k \in DOMAIN queue_results' : f[k] = k
  BY <1>1, <1>5, NoneFiltered
<1>8. Filters(r, "leaving", y, f)
  BY <1>1, <1>4, <1>5, <1>7 DEF Filters, Deserted
<1>9. AwaitsNow(r, "leaving")
  BY <1>1, <1>5 DEF TaskInv, WaitingOK, AwaitsNow, Awaited
<1>10. PlacesFor(r)
  <2>1. got'[r] = y
    BY <1>3 DEF TaskInv, RequestsTyped
  <2>2. \A id \in TaskId : id.req = r /\ Asks(shape, id) =>
          /\ Replied(got', queue_results', id) => Replied(got, queue_results, id)
          /\ "leaving" = "receiving" /\ Replied(got, queue_results, id)
               => Replied(got', queue_results', id)
    BY <1>1, <1>3, <2>1 DEF Replied
  <2> QED BY <1>1, <1>6, <1>7, <2>2, PlacesForSame
<1> QED BY <1>6, <1>8, <1>9, <1>10, RequestKeeps

LEMMA ErrorKeeps ==
  ASSUME Inv, TaskInv, NEW r \in Requests, ReceiveError(r)
  PROVE  TaskInv'
<1>1. /\ HasResult(r, "error") /\ http[r] = "receiving"
      /\ got' = [got EXCEPT ![r].outcome = "error"]
      /\ shape' = shape /\ open' = open /\ UNCHANGED tasks
      /\ slots' = slots /\ main' = main /\ wasted' = wasted
  BY DEF ReceiveError, HasResult
<1>2. PICK y \in Gained : y.finals = got[r].finals /\ got' = [got EXCEPT ![r] = y]
  BY <1>1, Ended
<1>3. got[r].finals \in SUBSET (1 .. shape[r].tasks) /\ open \in SUBSET Requests
  BY GotTyped DEF TaskInv, RequestsTyped
<1>4. CASE ~Quick(r)
  <2>1. Forget(r) /\ http' = [http EXCEPT ![r] = "cancelling"]
    BY <1>4 DEF ReceiveError
  <2>2. Turns(r, "cancelling", y)
    BY <1>1, <1>2, <1>3, <2>1 DEF Turns, Http
  <2> QED BY <1>1, <1>2, <2>1, <2>2, ForgetKeeps
<1>5. CASE Quick(r)
  <2>1. /\ http' = [http EXCEPT ![r] = "leaving"] /\ waiting_task_ids' = waiting_task_ids
        /\ queue_results' = Without(queue_results, FirstFor(r))
    BY <1>5 DEF ReceiveError
  <2>2. Turns(r, "leaving", y)
    BY <1>1, <1>2, <1>3, <1>5, <2>1 DEF Turns, Http
  <2>3. queue_results' \in Seq(Result) /\ queue_results[FirstFor(r)].id.req = r
    BY <1>1, <2>1, Received
  <2>4. PICK f :
          /\ Follows(queue_results, queue_results', f)
          /\ \A k \in DOMAIN queue_results' :
               /\ f[k] # FirstFor(r)
               /\ queue_results'[k].id.req = r => FirstFor(r) < f[k]
          /\ \A j \in DOMAIN queue_results : j # FirstFor(r)
               => \E k \in DOMAIN queue_results' : f[k] = j
    BY <1>1, <2>1, Received
  <2>5. Filters(r, "leaving", y, f)
    <3>1. ASSUME NEW k \in DOMAIN queue_results', queue_results'[k].id.req = r,
                 queue_results'[k].id.n \in y.finals
          PROVE  queue_results'[k].kind = "error"
      <4>1. f[k] \in DOMAIN queue_results /\ queue_results'[k] = queue_results[f[k]]
        BY <2>4, <3>1 DEF Follows
      <4> QED BY <1>2, <3>1, <4>1 DEF TaskInv, QueueOK, ResultOK
    <3> QED BY <2>3, <2>4, <3>1 DEF Filters
  <2>6. AwaitsNow(r, "leaving")
    BY <1>1, <2>1 DEF TaskInv, RequestsTyped, WaitingOK, AwaitsNow, Awaited
  <2>7. PlacesFor(r)
    <3>1. \A id : HasReply(queue_results', id) => HasReply(queue_results, id)
      BY <2>4 DEF Follows, HasReply
    <3>2. got'[r] = y
      BY <1>2 DEF TaskInv, RequestsTyped
    <3>3. \A id \in TaskId : id.req = r /\ Asks(shape, id) =>
            /\ Replied(got', queue_results', id) => Replied(got, queue_results, id)
            /\ "leaving" = "receiving" /\ Replied(got, queue_results, id)
                 => Replied(got', queue_results', id)
      BY <1>2, <3>1, <3>2 DEF Replied
    <3> QED BY <1>1, <2>2, <2>4, <3>3, PlacesForSame
  <2> QED BY <2>2, <2>5, <2>6, <2>7, RequestKeeps
<1> QED BY <1>4, <1>5

LEMMA LeaveKeeps ==
  ASSUME Inv, TaskInv, NEW r \in Requests, Leave(r)
  PROVE  TaskInv'
<1>1. /\ http[r] = "leaving" /\ http' = [http EXCEPT ![r] = "gone"] /\ got' = got
      /\ shape' = shape /\ open' = open /\ UNCHANGED tasks
      /\ slots' = slots /\ main' = main /\ wasted' = wasted
  BY DEF Leave
<1>2. /\ got[r] \in Gained /\ got = [got EXCEPT ![r] = got[r]]
      /\ got[r].finals \in SUBSET (1 .. shape[r].tasks) /\ shape \in [Requests -> Shapes]
  BY GotTyped
<1>3. open \in SUBSET Requests /\ queue_results \in Seq(Result) /\ waiting_task_ids \in SUBSET TaskId
  BY DEF TaskInv, RequestsTyped
<1>4. Turns(r, "gone", got[r])
  BY <1>1, <1>2, <1>3 DEF Turns, Http
<1>5. CASE Quick(r)
  <2>1. Forget(r)
    BY <1>5 DEF Leave
  <2> QED BY <1>1, <1>4, <2>1, ForgetKeeps
<1>6. CASE ~Quick(r)
  <2>1. waiting_task_ids' = waiting_task_ids \ Ids(r) /\ queue_results' = queue_results
    BY <1>6 DEF Leave
  <2>2. PICK f : /\ Follows(queue_results, queue_results', f)
                 /\ \A j \in DOMAIN queue_results : queue_results[j].id.req # r
                      => \E k \in DOMAIN queue_results' : f[k] = j
                 /\ \A k \in DOMAIN queue_results' : f[k] = k
    BY <1>3, <2>1, NoneFiltered
  <2>3. Complete(shape, r, got[r]) \/ Deserted(shape, r, got[r])
    BY <1>1, <1>6 DEF TaskInv, GotOK
  <2>4. ASSUME NEW k \in DOMAIN queue_results, queue_results[k].id.req = r, Complete(shape, r, got[r])
        PROVE  queue_results[k].kind = "error"
    BY <2>4 DEF TaskInv, QueueOK, ResultOK, Known, Complete
  <2>5. Filters(r, "gone", got[r], f)
    <3>1. CASE Complete(shape, r, got[r])
      BY <1>3, <2>1, <2>2, <2>4, <3>1 DEF Filters, Complete
    <3>2. CASE Deserted(shape, r, got[r])
      BY <1>3, <2>1, <2>2, <3>2 DEF Filters, Deserted
    <3> QED BY <2>3, <3>1, <3>2
  <2>6. AwaitsNow(r, "gone")
    <3>1. \A id \in TaskId : id \in Ids(r) <=> id.req = r /\ Asks(shape, id)
      BY <1>2, IdsAre
    <3>2. \A id \in TaskId : id \in waiting_task_ids <=> Asks(shape, id) /\ Awaited(http[id.req])
      BY DEF TaskInv, WaitingOK
    <3> QED BY <1>3, <2>1, <3>1, <3>2 DEF AwaitsNow, Awaited
  <2>7. PlacesFor(r)
    <3>1. \A id \in TaskId : id.req = r /\ Asks(shape, id) =>
            /\ Replied(got', queue_results', id) => Replied(got, queue_results, id)
            /\ "gone" = "receiving" /\ Replied(got, queue_results, id)
                 => Replied(got', queue_results', id)
      BY <1>1, <2>1
    <3> QED BY <1>1, <1>4, <2>2, <3>1, PlacesForSame
  <2> QED BY <1>4, <2>5, <2>6, <2>7, RequestKeeps
<1> QED BY <1>5, <1>6

\* Nothing of a request changes but which clients are connected.
LEMMA OpenKeeps ==
  ASSUME TaskInv, open' \in SUBSET Requests, UNCHANGED <<shape, http, got>>,
         UNCHANGED <<results, tasks, slots, main, wasted>>
  PROVE  TaskInv'
<1>1. /\ shape' = shape /\ http' = http /\ got' = got /\ waiting_task_ids' = waiting_task_ids
      /\ queue_results' = queue_results /\ queue_tasks' = queue_tasks
      /\ queue_tasks_deferred' = queue_tasks_deferred /\ slots' = slots /\ main' = main
      /\ wasted' = wasted
  BY DEF results, tasks
<1>2. \A id : Places(id)' = Places(id)
  BY <1>1, PlacesAre
<1>3. RequestsTyped' /\ EntriesOK' /\ WaitingOK' /\ GotOK'
  BY <1>1 DEF TaskInv, RequestsTyped, EntriesOK, WaitingOK, GotOK, Quick
<1>4. SpentOK' /\ LivesOK'
  BY <1>1, <1>2 DEF TaskInv, SpentOK, LivesOK
<1>5. QueueOK(shape, http, got, queue_results)'
  BY <1>1 DEF TaskInv
<1> QED BY <1>3, <1>4, <1>5 DEF TaskInv

\* A deferred task that was woken up and took no slot: a Boolean.
LEMMA MainWasted ==
  ASSUME wasted \in BOOLEAN, Inv, MainLoop
  PROVE  wasted' \in BOOLEAN
<1>1. ASSUME NEW b, wasted' = (wasted \/ b) PROVE wasted' \in BOOLEAN
  BY <1>1, Zenon
<1>2. CASE TakeTask \/ HandleCancel \/ AllIdle \/ StartBatch \/ Decode
  BY <1>2, Zenon DEF TakeTask, HandleCancel, AllIdle, StartBatch, Decode
<1>3. CASE Defer
  BY <1>1, <1>3, Zenon DEF Defer
<1>4. CASE AnswerQuick
  BY <1>1, <1>4, Zenon DEF AnswerQuick
<1>5. ASSUME NEW s \in Slots, Launch(s) PROVE wasted' \in BOOLEAN
  BY <1>1, <1>5, Zenon DEF Launch
<1>6. ASSUME NEW s \in Slots,
             Refuse(s) \/ AddPrompt(s) \/ FailSlot(s) \/ SendEmbedding(s) \/ NotYet(s)
      PROVE  wasted' = wasted
  BY <1>6 DEF Refuse, AddPrompt, FailSlot, SendEmbedding, NotYet
<1>7. ASSUME NEW s \in Slots, NEW held \in BOOLEAN, NEW stop \in BOOLEAN, Sample(s, held, stop)
      PROVE  wasted' = wasted
  BY <1>7 DEF Sample
<1> QED BY <1>2, <1>3, <1>4, <1>5, <1>6, <1>7 DEF MainLoop

LEMMA TaskInvStep ==
  ASSUME Inv, TaskInv, [Next]_vars
  PROVE  TaskInv'
<1>1. CASE MainLoop
  <2>1. Before
    BY DEF Before, TaskInv, RequestsTyped
  <2>2. Effect
    BY <1>1, <2>1, MainEffect
  <2>3. QueuesTyped
    BY <1>1, MainQueues
  <2>4. wasted' \in BOOLEAN
    BY <1>1, MainWasted DEF TaskInv, RequestsTyped
  <2> QED BY <2>2, <2>3, <2>4, EffectKeeps
<1>2. ASSUME NEW r \in Requests, Request(r) PROVE TaskInv'
  BY <1>2, RegisterKeeps, PostKeeps, PartialKeeps, FinalKeeps, ErrorKeeps, GiveUpKeeps, GiveUpUnreadKeeps,
     PostCancelsKeeps, LeaveKeeps DEF Request
<1>3. ASSUME NEW r \in Requests, Disconnect(r) PROVE TaskInv'
  <2>1. open' \in SUBSET Requests /\ UNCHANGED <<shape, http, got>>
        /\ UNCHANGED <<results, tasks, slots, main, wasted>>
    BY <1>3 DEF Disconnect, TaskInv, RequestsTyped
  <2> QED BY <2>1, OpenKeeps
<1>4. CASE UNCHANGED vars
  <2>1. open' \in SUBSET Requests /\ UNCHANGED <<shape, http, got>>
        /\ UNCHANGED <<results, tasks, slots, main, wasted>>
    BY <1>4 DEF vars, requests, TaskInv, RequestsTyped
  <2> QED BY <2>1, OpenKeeps
<1> QED BY <1>1, <1>2, <1>3, <1>4 DEF Next
-----------------------------------------------------------------------------
\* The ranges: of what a slot has processed, decoded and sent, and of the batch.
SlotRange(sh, sl) ==
  /\ sl.n_past <= NCtx /\ sl.n_sent <= sl.n_decoded
  /\ sl.state \in {"STARTED", "PROCESSING_PROMPT"} => sl.n_sent = 0
  /\ sl.state = "PROCESSING_PROMPT" => sh[sl.id_task.req].prompt <= NCtx
MainRange(m) == m.n_batch <= NBatch /\ m.i <= m.n_tokens
RangesOK == MainRange(main) /\ \A s \in Slots : SlotRange(shape, slots[s])

RangesStay == MainRange(main') /\ \A s \in Slots : SlotRange(shape, slots'[s])

LEMMA RangeOfAt ==
  ASSUME NEW pc, NEW e
  PROVE  MainRange(At(pc)) /\ MainRange([At(pc) EXCEPT !.task = e])
BY Sizes DEF MainRange, At

LEMMA RangeOfFill ==
  ASSUME NEW lead, NEW n \in Nat, NEW s, NEW joined
  PROVE  MainRange(Fill(lead, n, s, joined))
<1> DEFINE c(x) == [At("fill") EXCEPT !.lead = lead, !.n_tokens = n, !.cursor = x]
           d == [At("decode") EXCEPT !.n_tokens = n]
<1>1. \A x : MainRange(c(x))
  BY Sizes DEF At, MainRange
<1>2. MainRange(d) /\ MainRange(At("wait"))
  BY Sizes DEF At, MainRange
<1>3. \/ Fill(lead, n, s, joined) = At("wait") \/ Fill(lead, n, s, joined) = d
      \/ \E x : Fill(lead, n, s, joined) = c(x)
  BY DEF Fill
<1> HIDE DEF c, d
<1> QED BY <1>1, <1>2, <1>3

LEMMA RangeOfEmit ==
  ASSUME Typed, MainRange(main), NEW s
  PROVE  MainRange(Emit(s))
<1> DEFINE c(x) == [main EXCEPT !.pc = "emit", !.cursor = x]
           d == [At("decode") EXCEPT !.n_tokens = main.n_tokens, !.i = Upto]
<1>1. main \in MainThread
  BY DEF Typed
<1>2. /\ main.i \in Nat /\ main.n_tokens \in Nat /\ main.n_batch \in Nat
      /\ Upto \in Nat /\ Upto <= main.n_tokens
  BY <1>1 DEF MainThread, Upto
<1>3. \A x : MainRange(c(x))
  BY <1>1 DEF MainThread, MainRange
<1>4. MainRange(d) /\ MainRange(At("wait"))
  BY <1>2, Sizes DEF At, MainRange
<1>5. Emit(s) = At("wait") \/ Emit(s) = d \/ \E x : Emit(s) = c(x)
  BY DEF Emit
<1> HIDE DEF c, d
<1> QED BY <1>3, <1>4, <1>5

LEMMA ReleasedRange ==
  ASSUME Typed, NEW s \in Slots, NEW sh
  PROVE  SlotRange(sh, Released(s)) /\ SlotRange(sh, [Released(s) EXCEPT !.i_batch = -1])
<1>1. /\ Released(s).n_past = 0 /\ Released(s).n_decoded = 0 /\ Released(s).n_sent = 0
      /\ Released(s).state = "IDLE"
  BY DEF Released, IdleSlot
<1>2. Released(s) \in Slot
  BY ReleasedIdle
<1> HIDE DEF Released
<1>3. LET v == [Released(s) EXCEPT !.i_batch = -1]
      IN  v.n_past = 0 /\ v.n_decoded = 0 /\ v.n_sent = 0 /\ v.state = "IDLE"
  BY <1>1, <1>2 DEF Slot
<1> QED BY <1>1, <1>3, Sizes DEF SlotRange

\* One slot changes.
LEMMA OneRange ==
  ASSUME Typed, RangesOK, NEW s \in Slots, NEW v, SlotRange(shape, v),
         slots' = [slots EXCEPT ![s] = v], MainRange(main')
  PROVE  RangesStay
<1>1. slots \in [Slots -> Slot]
  BY DEF Typed
<1>2. \A u \in Slots : slots'[u] = IF u = s THEN v ELSE slots[u]
  BY <1>1
<1> QED BY <1>2 DEF RangesStay, RangesOK

LEMMA AddPromptRange ==
  ASSUME Inv, RangesOK, NEW s \in Slots, AddPrompt(s)
  PROVE  RangesStay
<1> DEFINE P == Prompt(s)
           past == IF slots[s].state = "STARTED" THEN 0 ELSE slots[s].n_past
           room == IF main.n_tokens < NBatch THEN NBatch - main.n_tokens ELSE 0
           k == IF P - past <= room THEN P - past ELSE room
           b == main.n_tokens + k - 1
<1>1. Typed /\ slots \in [Slots -> Slot] /\ slots[s] \in Slot /\ main \in MainThread
  BY DEF Inv, Typed
<1>2. /\ main.pc = "fill"
      /\ \/ slots[s].state = "STARTED" /\ ~TooLarge(s) /\ P # 0
         \/ slots[s].state = "PROCESSING_PROMPT"
  BY DEF AddPrompt, Joining
<1>3. P \in Nat /\ P = shape[slots[s].id_task.req].prompt
  BY <1>2, PromptTyped DEF Prompt, Asked
<1>4. P <= NCtx /\ slots[s].n_sent = 0
  <2>1. CASE slots[s].state = "STARTED" /\ ~TooLarge(s)
    <3>1. P <= NCtx
      BY <1>3, <2>1, Sizes DEF TooLarge
    <3> QED BY <2>1, <3>1 DEF RangesOK, SlotRange
  <2>2. CASE slots[s].state = "PROCESSING_PROMPT"
    BY <1>3, <2>2 DEF RangesOK, SlotRange
  <2> QED BY <1>2, <2>1, <2>2
<1>5. past \in Nat /\ past <= P
  <2>1. CASE slots[s].state = "STARTED"
    BY <1>3, <2>1
  <2>2. CASE slots[s].state = "PROCESSING_PROMPT"
    <3>1. slots[s].n_past < P /\ slots[s].n_past \in Nat
      BY <1>1, <1>3, <2>2 DEF Inv, SlotsOK, SlotOK, Within, Slot
    <3> QED BY <1>3, <2>2, <3>1
  <2> QED BY <1>2, <2>1, <2>2
<1>6. main.n_tokens \in Nat
  BY <1>1 DEF MainThread
<1>7. room \in Nat /\ k \in Nat /\ past + k <= P
  BY <1>3, <1>5, <1>6, Sizes
<1>8. /\ \/ slots' = [slots EXCEPT ![s].state = "PROCESSING_PROMPT", ![s].n_past = past]
         \/ slots' = [slots EXCEPT ![s].state = "PROCESSING_PROMPT", ![s].n_past = past + k]
         \/ slots' = [slots EXCEPT ![s].state = "DONE_PROMPT", ![s].n_past = P,
                                  ![s].n_decoded = 0, ![s].i_batch = b]
  BY DEF AddPrompt
<1>9. \/ main' = Fill(main.lead, main.n_tokens, s, FALSE)
      \/ main' = Fill(main.lead, main.n_tokens + k, s, TRUE)
  BY Zenon DEF AddPrompt, FillNext
<1> HIDE DEF P, past, room, k, b
<1>10. MainRange(main')
  <2>1. main.n_tokens + k \in Nat
    BY <1>6, <1>7
  <2>2. PICK n, j : n \in Nat /\ main' = Fill(main.lead, n, s, j)
    BY <1>6, <1>9, <2>1, Zenon
  <2>3. \E f : main' = f /\ MainRange(f)
    BY <2>2, RangeOfFill, Zenon
  <2> QED BY <2>3
<1>11. PICK x : x \in Nat /\ x <= NCtx /\
         \/ slots' = [slots EXCEPT ![s].state = "PROCESSING_PROMPT", ![s].n_past = x]
         \/ slots' = [slots EXCEPT ![s].state = "DONE_PROMPT", ![s].n_past = P,
                                  ![s].n_decoded = 0, ![s].i_batch = b]
  <2>1. past <= NCtx /\ past + k <= NCtx /\ past + k \in Nat
    BY <1>3, <1>4, <1>5, <1>7, Sizes
  <2> QED BY <1>5, <1>8, <2>1
<1>12. slots[s].n_decoded \in Nat
  BY <1>1 DEF Slot
<1>13. CASE slots' = [slots EXCEPT ![s].state = "DONE_PROMPT", ![s].n_past = P,
                                  ![s].n_decoded = 0, ![s].i_batch = b]
  <2> DEFINE v == [slots[s] EXCEPT !.state = "DONE_PROMPT", !.n_past = P, !.n_decoded = 0,
                                   !.i_batch = b]
  <2>1. slots' = [slots EXCEPT ![s] = v]
    BY <1>1, <1>13
  <2>2. v.state = "DONE_PROMPT" /\ v.n_past = P /\ v.n_decoded = 0 /\ v.n_sent = 0
    BY <1>1, <1>4 DEF Slot
  <2>3. SlotRange(shape, v)
    BY <1>4, <2>2 DEF SlotRange
  <2> HIDE DEF v
  <2> QED BY <1>1, <1>10, <2>1, <2>3, OneRange
<1>14. CASE slots' # [slots EXCEPT ![s].state = "DONE_PROMPT", ![s].n_past = P,
                                  ![s].n_decoded = 0, ![s].i_batch = b]
  <2> DEFINE v == [slots[s] EXCEPT !.state = "PROCESSING_PROMPT", !.n_past = x]
  <2>0. slots' = [slots EXCEPT ![s].state = "PROCESSING_PROMPT", ![s].n_past = x] /\ x <= NCtx
    BY <1>11, <1>14
  <2>1. slots' = [slots EXCEPT ![s] = v]
    BY <1>1, <2>0
  <2>2. /\ v.state = "PROCESSING_PROMPT" /\ v.n_past = x /\ v.n_sent = 0
        /\ v.n_decoded = slots[s].n_decoded /\ v.id_task = slots[s].id_task
    BY <1>1, <1>4 DEF Slot
  <2>3. SlotRange(shape, v)
    BY <1>3, <1>4, <1>12, <2>0, <2>2 DEF SlotRange
  <2> HIDE DEF v
  <2> QED BY <1>1, <1>10, <2>1, <2>3, OneRange
<1> QED BY <1>13, <1>14

LEMMA StartBatchRange ==
  ASSUME Inv, RangesOK, StartBatch
  PROVE  RangesStay
<1>1. Typed /\ slots \in [Slots -> Slot] /\ main.pc = "take"
  BY DEF Inv, Typed, StartBatch
<1>2. MainRange(main')
  <2> DEFINE lead == IF Generating # {} THEN First(Generating) ELSE First(Processing)
             batched == { s \in Generating : Type(s) = Type(lead) }
  <2>1. main' = Fill(Type(lead), Cardinality(batched), -1, FALSE)
    BY Zenon DEF StartBatch
  <2>2. IsFiniteSet(Slots)
    BY Sizes, FS_Interval DEF Slots
  <2>3. batched \in SUBSET Slots
    BY DEF Generating
  <2>4. Cardinality(batched) \in Nat
    BY <2>2, <2>3, FS_Subset, FS_CardinalityType
  <2> HIDE DEF lead, batched
  <2>5. \E f : main' = f /\ MainRange(f)
    BY <2>1, <2>4, RangeOfFill, Zenon
  <2> QED BY <2>5
<1>3. ASSUME NEW s \in Slots PROVE SlotRange(shape, slots'[s])
  <2>1. CASE slots'[s] = slots[s]
    BY <2>1 DEF RangesOK
  <2>2. CASE slots'[s] # slots[s]
    <3>1. PICK c : slots[s].state = "GENERATING"
                   /\ slots'[s] = [slots[s] EXCEPT !.n_past = @ + 1, !.i_batch = c]
      BY <2>2 DEF StartBatch, Generating
    <3>2. slots[s] \in Slot
      BY <1>1
    <3>3. slots[s].n_past + 1 < NCtx
      BY <1>1, <3>1 DEF Inv, SlotsOK, SlotOK, Settled, Awaits
    <3>4. /\ slots'[s].n_past = slots[s].n_past + 1 /\ slots'[s].n_sent = slots[s].n_sent
          /\ slots'[s].n_decoded = slots[s].n_decoded /\ slots'[s].state = "GENERATING"
      BY <3>1, <3>2 DEF Slot
    <3>5. slots[s].n_sent <= slots[s].n_decoded /\ slots[s].n_past \in Nat
      BY <3>2 DEF RangesOK, SlotRange, Slot
    <3> QED BY <3>3, <3>4, <3>5, Sizes DEF SlotRange
  <2> QED BY <2>1, <2>2
<1> QED BY <1>2, <1>3 DEF RangesStay
-----------------------------------------------------------------------------
LEMMA FillRange ==
  ASSUME Typed, NEW s, NEW joined, main' = Fill(main.lead, main.n_tokens, s, joined)
  PROVE  MainRange(main')
<1>1. main.n_tokens \in Nat
  BY DEF Typed, MainThread
<1>2. \E f : main' = f /\ MainRange(f)
  BY <1>1, RangeOfFill, Zenon
<1> QED BY <1>2

LEMMA EmitRange ==
  ASSUME Typed, RangesOK, NEW s, main' = Emit(s)
  PROVE  MainRange(main')
<1>1. \E e : main' = e /\ MainRange(e)
  BY RangeOfEmit DEF RangesOK
<1> QED BY <1>1

\* The slots stay as they are.
LEMMA SameSlotsRange ==
  ASSUME RangesOK, slots' = slots, MainRange(main')
  PROVE  RangesStay
BY DEF RangesOK, RangesStay

LEMMA TakeRange ==
  ASSUME Typed, RangesOK, TakeTask \/ AllIdle \/ Defer \/ AnswerQuick
  PROVE  RangesStay
<1>1. slots' = slots
  BY DEF TakeTask, AllIdle, Defer, AnswerQuick
<1>2. \E pc, e : main' = At(pc) \/ main' = [At(pc) EXCEPT !.task = e]
  BY DEF TakeTask, AllIdle, Defer, AnswerQuick, Handled
<1>3. MainRange(main')
  <2>1. PICK pc, e : main' = At(pc) \/ main' = [At(pc) EXCEPT !.task = e]
    BY <1>2
  <2>2. MainRange(At(pc)) /\ MainRange([At(pc) EXCEPT !.task = e])
    BY RangeOfAt
  <2> QED BY <2>1, <2>2
<1> QED BY <1>1, <1>3, SameSlotsRange

LEMMA CancelRange ==
  ASSUME Typed, RangesOK, HandleCancel
  PROVE  RangesStay
<1>1. MainRange(main')
  BY RangeOfAt DEF HandleCancel, Handled
<1> DEFINE having == { u \in Slots : slots[u].id_task = main.task.id }
           s == CHOOSE u \in having : \A v \in having : u <= v
<1>2. slots' = slots \/ (s \in Processing /\ slots' = [slots EXCEPT ![s] = Released(s)])
  BY DEF HandleCancel
<1> HIDE DEF s
<1>3. CASE slots' = slots
  BY <1>1, <1>3, SameSlotsRange
<1>4. CASE s \in Processing /\ slots' = [slots EXCEPT ![s] = Released(s)]
  <2>1. s \in Slots
    BY <1>4 DEF Processing
  <2> QED BY <1>1, <1>4, <2>1, ReleasedRange, OneRange
<1> QED BY <1>2, <1>3, <1>4

LEMMA LaunchRange ==
  ASSUME Typed, RangesOK, NEW s \in Slots, Launch(s)
  PROVE  RangesStay
<1>1. MainRange(main')
  BY RangeOfAt DEF Launch, Handled
<1>2. slots \in [Slots -> Slot] /\ slots[s] \in Slot
  BY DEF Typed
<1>3. slots[s].state = "IDLE"
  BY DEF Launch, Processing
<1> DEFINE a == [IdleSlot EXCEPT !.state = "STARTED", !.id_task = main.task.id,
                                 !.i_batch = slots[s].i_batch]
           b == [slots[s] EXCEPT !.id_task = main.task.id]
<1>4. slots' = [slots EXCEPT ![s] = a] \/ slots' = [slots EXCEPT ![s] = b]
  BY <1>2 DEF Launch
<1>5. SlotRange(shape, a)
  <2>1. a.state = "STARTED" /\ a.n_past = 0 /\ a.n_sent = 0 /\ a.n_decoded = 0
    BY DEF IdleSlot
  <2> QED BY <2>1, Sizes DEF SlotRange
<1>6. SlotRange(shape, b)
  <2>1. /\ b.state = slots[s].state /\ b.n_past = slots[s].n_past /\ b.n_sent = slots[s].n_sent
        /\ b.n_decoded = slots[s].n_decoded
    BY <1>2 DEF Slot
  <2>2. SlotRange(shape, slots[s])
    BY DEF RangesOK
  <2> QED BY <1>3, <2>1, <2>2 DEF SlotRange
<1> HIDE DEF a, b
<1> QED BY <1>1, <1>4, <1>5, <1>6, OneRange

LEMMA RefuseRange ==
  ASSUME Typed, RangesOK, NEW s \in Slots, Refuse(s)
  PROVE  RangesStay
<1>1. slots' = [slots EXCEPT ![s] = Released(s)]
  BY DEF Refuse
<1>2. main' = Fill(main.lead, main.n_tokens, s, FALSE)
  BY Zenon DEF Refuse, FillNext
<1>3. MainRange(main')
  BY <1>2, FillRange, Zenon
<1> QED BY <1>1, <1>3, ReleasedRange, OneRange

LEMMA FailRange ==
  ASSUME Typed, RangesOK, NEW s \in Slots, FailSlot(s)
  PROVE  RangesStay
<1>1. MainRange(main')
  <2>1. main \in MainThread /\ MainRange(main)
    BY DEF Typed, RangesOK
  <2>2. main' = At("wait") \/ main' = [main EXCEPT !.cursor = @ + 1]
    BY DEF FailSlot
  <2> QED BY <2>1, <2>2, RangeOfAt DEF MainRange, MainThread
<1>2. PICK v : slots' = [slots EXCEPT ![s] = v] /\ (v = Released(s) \/ v = slots[s])
  BY DEF FailSlot
<1>3. SlotRange(shape, v)
  BY <1>2, ReleasedRange DEF RangesOK
<1> QED BY <1>1, <1>2, <1>3, OneRange

LEMMA EmbeddingRange ==
  ASSUME Typed, RangesOK, NEW s \in Slots, SendEmbedding(s)
  PROVE  RangesStay
<1>1. slots' = [slots EXCEPT ![s] = [Released(s) EXCEPT !.i_batch = -1]]
  BY DEF SendEmbedding
<1>2. MainRange(main')
  BY EmitRange DEF SendEmbedding, EmitNext
<1> QED BY <1>1, <1>2, ReleasedRange, OneRange

LEMMA SampleRange ==
  ASSUME Typed, RangesOK, NEW s \in Slots, NEW held \in BOOLEAN, NEW stop \in BOOLEAN,
         Sample(s, held, stop)
  PROVE  RangesStay
<1>1. MainRange(main')
  BY EmitRange DEF Sample, EmitNext
<1>2. slots \in [Slots -> Slot] /\ slots[s] \in Slot /\ SlotRange(shape, slots[s])
  BY DEF Typed, RangesOK
<1> DEFINE n == slots[s].n_decoded + 1
           w(m) == [slots[s] EXCEPT !.state = "GENERATING", !.i_batch = -1, !.n_decoded = n,
                                    !.n_sent = m]
<1>3. \/ slots' = [slots EXCEPT ![s] = [Released(s) EXCEPT !.i_batch = -1]]
      \/ \E m \in {slots[s].n_sent, n} :
           slots' = [slots EXCEPT ![s].state = "GENERATING", ![s].i_batch = -1,
                            ![s].n_decoded = n, ![s].n_sent = m]
  BY DEF Sample
<1>4. CASE slots' = [slots EXCEPT ![s] = [Released(s) EXCEPT !.i_batch = -1]]
  BY <1>1, <1>4, ReleasedRange, OneRange
<1>5. ASSUME NEW m \in {slots[s].n_sent, n},
             slots' = [slots EXCEPT ![s].state = "GENERATING", ![s].i_batch = -1,
                            ![s].n_decoded = n, ![s].n_sent = m]
      PROVE  RangesStay
  <2>1. slots' = [slots EXCEPT ![s] = w(m)]
    BY <1>2, <1>5
  <2>2. w(m).state = "GENERATING" /\ w(m).n_past = slots[s].n_past
        /\ w(m).n_decoded = n /\ w(m).n_sent = m
    BY <1>2 DEF Slot
  <2>3. slots[s].n_sent \in Nat /\ slots[s].n_decoded \in Nat
    BY <1>2 DEF Slot
  <2>4. m <= n
    BY <1>2, <2>3 DEF SlotRange
  <2>5. SlotRange(shape, w(m))
    BY <1>2, <2>2, <2>4 DEF SlotRange
  <2> HIDE DEF w
  <2> QED BY <1>1, <2>1, <2>5, OneRange
<1> QED BY <1>3, <1>4, <1>5

LEMMA DecodeRange ==
  ASSUME Typed, RangesOK, Decode
  PROVE  RangesStay
<1>1. slots' = slots
  BY DEF Decode
<1>2. \/ main' = Emit(-1) \/ main' = At("fail")
      \/ main' = [main EXCEPT !.n_batch = @ \div 2]
  BY DEF Decode
<1>3. CASE main' = [main EXCEPT !.n_batch = @ \div 2]
  <2>1. main \in MainThread /\ MainRange(main)
    BY DEF Typed, RangesOK
  <2>2. main.n_batch \in Nat /\ main.n_batch \div 2 <= main.n_batch
    BY <2>1 DEF MainThread
  <2>3. main'.n_batch = main.n_batch \div 2 /\ main'.i = main.i /\ main'.n_tokens = main.n_tokens
    BY <1>3, <2>1 DEF MainThread
  <2>4. MainRange(main')
    BY <2>1, <2>2, <2>3, Sizes DEF MainRange
  <2> QED BY <1>1, <2>4, SameSlotsRange
<1> QED BY <1>1, <1>2, <1>3, EmitRange, RangeOfAt, SameSlotsRange

LEMMA NotYetRange ==
  ASSUME Typed, RangesOK, NEW s \in Slots, NotYet(s)
  PROVE  RangesStay
<1>1. slots' = slots /\ main' = Emit(s)
  BY DEF NotYet, EmitNext
<1> QED BY <1>1, EmitRange, SameSlotsRange

LEMMA RangesStep ==
  ASSUME Inv, RangesOK, [Next]_vars
  PROVE  RangesOK'
<1>1. Typed
  BY DEF Inv
<1>2. CASE MainLoop
  <2>1. ASSUME NEW s \in Slots,
               \/ Launch(s) \/ Refuse(s) \/ AddPrompt(s) \/ FailSlot(s)
               \/ SendEmbedding(s) \/ NotYet(s)
               \/ \E held, stop \in BOOLEAN : Sample(s, held, stop)
        PROVE  RangesStay
    BY <1>1, <2>1, LaunchRange, RefuseRange, AddPromptRange, FailRange, EmbeddingRange,
       NotYetRange, SampleRange
  <2>2. RangesStay
    BY <1>1, <1>2, <2>1, TakeRange, CancelRange, StartBatchRange, DecodeRange DEF MainLoop
  <2>3. shape' = shape
    BY <1>2, MainAfter DEF After
  <2> QED BY <2>2, <2>3 DEF RangesStay, RangesOK
<1>3. CASE UNCHANGED <<shape, slots, main>>
  BY <1>3 DEF RangesOK
<1>4. ASSUME NEW r \in Requests, Request(r) \/ Disconnect(r) PROVE RangesOK'
  <2>1. UNCHANGED <<shape, slots, main>>
    BY <1>4, RequestSteps
  <2> QED BY <1>3, <2>1
<1>5. CASE UNCHANGED vars
  BY <1>3, <1>5 DEF vars, requests
<1> QED BY <1>2, <1>4, <1>5 DEF Next
-----------------------------------------------------------------------------
\* Nothing has been posted at the start.
LEMMA TaskInit ==
  ASSUME Init
  PROVE  TaskInv /\ RangesOK
<1>1. Inv
  BY InvInit
<1>2. /\ shape \in [Requests -> Shapes] /\ open = Requests /\ waiting_task_ids = {}
      /\ queue_results = << >> /\ queue_tasks = << >> /\ queue_tasks_deferred = << >>
      /\ wasted = FALSE
  BY DEF Init
<1>3. \A r \in Requests : http[r] = "new" /\ got[r].finals = {}
  BY DEF Init
<1>4. /\ main.pc = "take" /\ main.task.kind = "next" /\ main.i = 0 /\ main.n_tokens = 0
      /\ main.n_batch = NBatch
  BY DEF Init, At, NextResponse
<1>5. ASSUME NEW s \in Slots
      PROVE  /\ slots[s].state = "IDLE" /\ slots[s].id_task = NoTask /\ slots[s].n_past = 0
             /\ slots[s].n_decoded = 0 /\ slots[s].n_sent = 0
  BY DEF Init, IdleSlot
<1>6. RequestsTyped
  <2>1. http \in [Requests -> Http]
    BY DEF Init, Http
  <2>2. got \in [Requests -> Gained]
    <3> SUFFICES ASSUME NEW r \in Requests
                 PROVE  [finals |-> {}, text |-> [n \in 1 .. shape[r].tasks |-> 0],
                         outcome |-> "none"] \in Gained
      BY DEF Init
    <3>1. shape[r].tasks \in Nat
      BY <1>2, Asking
    <3>2. [n \in 1 .. shape[r].tasks |-> 0] \in UNION { [1 .. n -> Nat] : n \in Nat }
      BY <3>1
    <3> QED BY <3>2 DEF Gained
  <2>3. queue_results \in Seq(Result) /\ waiting_task_ids \in SUBSET TaskId
    BY <1>2
  <2> QED BY <1>2, <2>1, <2>2, <2>3 DEF RequestsTyped
<1>7. EntriesOK
  BY <1>2, <1>4, <1>5 DEF EntriesOK, AllOK, EntryOK
<1>8. ASSUME NEW id \in TaskId PROVE Places(id) = 0
  <2>1. Count(queue_tasks, id) = 0 /\ Count(queue_tasks_deferred, id) = 0
    BY <1>2, FS_EmptySet DEF Count, Works
  <2>2. Held(slots, id) = 0
    <3>1. Holders(slots, id) = {}
      BY <1>5 DEF Holders
    <3> QED BY <3>1, FS_EmptySet DEF Held
  <2>3. Hand(main, id) = 0
    BY <1>4 DEF Hand
  <2>4. PlacesOf(queue_tasks, queue_tasks_deferred, slots, main, id) = 0
    BY <2>1, <2>2, <2>3 DEF PlacesOf
  <2> QED BY <2>4, PlacesAre
<1>9. SpentOK
  BY <1>8 DEF SpentOK
<1>10. ASSUME NEW id \in TaskId
       PROVE  http[id.req] = "new" /\ got[id.req].finals = {}
  BY <1>3 DEF TaskId
<1>11. WaitingOK
  BY <1>2, <1>10 DEF WaitingOK, Awaited
<1>12. GotOK
  BY <1>3 DEF GotOK
<1>13. QueueOK(shape, http, got, queue_results)
  BY <1>2 DEF QueueOK
<1>14. LivesOK
  <2>1. ASSUME NEW id \in TaskId PROVE LiveOK(http, got, queue_results, id, 0)
    <3>1. ~HasReply(queue_results, id)
      BY <1>2 DEF HasReply
    <3> QED BY <1>10, <3>1 DEF LiveOK, Replied
  <2> QED BY <1>8, <2>1 DEF LivesOK
<1>15. RangesOK
  <2>1. MainRange(main)
    BY <1>4, Sizes DEF MainRange
  <2>2. ASSUME NEW s \in Slots PROVE SlotRange(shape, slots[s])
    BY <1>5, Sizes DEF SlotRange
  <2> QED BY <2>1, <2>2 DEF RangesOK
<1> QED BY <1>6, <1>7, <1>9, <1>11, <1>12, <1>13, <1>14, <1>15 DEF TaskInv

LEMMA TasksTyped ==
  ASSUME Inv, TaskInv, RangesOK
  PROVE  TypeOK
<1>1. /\ shape \in [Requests -> Shapes] /\ http \in [Requests -> Http] /\ open \in SUBSET Requests
      /\ waiting_task_ids \in SUBSET TaskId /\ wasted \in BOOLEAN
  BY DEF TaskInv, RequestsTyped
<1>2. waiting_task_ids \subseteq UNION { Ids(r) : r \in Requests }
  <2> SUFFICES ASSUME NEW id \in waiting_task_ids PROVE \E r \in Requests : id \in Ids(r)
    OBVIOUS
  <2>1. id \in TaskId /\ Asks(shape, id)
    BY <1>1 DEF TaskInv, WaitingOK
  <2>2. id.req \in Requests
    BY <2>1 DEF TaskId
  <2>3. PICK r \in Requests : r = id.req
    BY <2>2
  <2> QED BY <1>1, <2>1, <2>3, IdsAre
<1>3. ASSUME NEW s \in Slots
      PROVE  /\ slots[s].state \in State
             /\ s \in Processing => slots[s].id_task.req \in Requests
             /\ slots[s].n_past \in 0 .. NCtx
             /\ slots[s].n_sent \in 0 .. slots[s].n_decoded
  <2>1. slots[s] \in Slot /\ SlotRange(shape, slots[s])
    BY DEF Inv, Typed, RangesOK
  <2>2. s \in Processing => slots[s].id_task.req \in Requests
    BY PromptTyped DEF Processing
  <2> QED BY <2>1, <2>2, Sizes DEF Slot, SlotRange
<1>4. main.n_batch \in 1 .. NBatch /\ main.i \in 0 .. main.n_tokens
  <2>1. main \in MainThread /\ MainRange(main)
    BY DEF Inv, Typed, RangesOK
  <2>2. /\ main.n_batch \in Nat /\ 1 <= main.n_batch /\ main.n_tokens \in Nat /\ main.i \in Nat
        /\ main.n_batch <= NBatch /\ main.i <= main.n_tokens
    BY <2>1 DEF MainThread, MainRange
  <2> QED BY <2>2, Sizes
<1> QED BY <1>1, <1>2, <1>3, <1>4 DEF TypeOK, Http

LEMMA TasksPlaced ==
  ASSUME Inv, TaskInv
  PROVE  NoTaskLost
<1> SUFFICES ASSUME NEW r \in Requests, http[r] = "receiving", NEW id \in Ids(r)
             PROVE  Places(id) = IF id.n \in got[r].finals \/ Replies(id, {"final", "error"}) # {}
                                 THEN 0 ELSE 1
  BY DEF NoTaskLost
<1>1. id \in TaskId /\ id.req = r /\ Asks(shape, id)
  BY IdsAre DEF TaskInv, RequestsTyped
<1>2. LiveOK(http, got, queue_results, id, Places(id))
  BY <1>1 DEF TaskInv, LivesOK
<1>3. Replies(id, {"final", "error"}) # {} <=> HasReply(queue_results, id)
  BY DEF Replies, HasReply
<1> QED BY <1>1, <1>2, <1>3 DEF LiveOK, Replied

LEMMA FinalsOnce ==
  ASSUME Inv, TaskInv
  PROVE  FinalOnce
<1> SUFFICES ASSUME NEW r \in Requests, NEW id \in Ids(r)
             PROVE  /\ Cardinality(Replies(id, {"final"}))
                          + Cardinality({id.n} \cap got[r].finals) <= 1
                    /\ \A i \in Replies(id, {"final"}), j \in Replies(id, {"partial"}) : j < i
  BY DEF FinalOnce
<1> DEFINE F == Replies(id, {"final"})
           G == {id.n} \cap got[r].finals
<1>1. id \in TaskId /\ id.req = r
  BY IdsAre DEF TaskInv, RequestsTyped
<1>2. /\ \A i \in DOMAIN queue_results : ResultOK(shape, http, got, queue_results[i])
      /\ \A i, j \in DOMAIN queue_results :
           i < j /\ queue_results[i].id = queue_results[j].id /\ queue_results[i].kind = "final"
             => queue_results[j].kind = "error"
  BY DEF TaskInv, QueueOK
<1>3. F \in SUBSET Nat /\ \A i \in DOMAIN queue_results : i \in Nat
  BY DEF Replies, TaskInv, RequestsTyped
<1>4. \A i, j \in F : i = j
  <2>1. \A i, j \in F : ~(i < j)
    BY <1>2 DEF Replies
  <2> HIDE DEF F
  <2> QED BY <1>3, <2>1
<1>5. G # {} => F = {}
  BY <1>1, <1>2 DEF Replies, ResultOK
<1>6. \A i \in F, j \in Replies(id, {"partial"}) : j < i
  <2> SUFFICES ASSUME NEW i \in F, NEW j \in Replies(id, {"partial"}) PROVE j < i
    OBVIOUS
  <2>1. /\ i \in DOMAIN queue_results /\ j \in DOMAIN queue_results
        /\ queue_results[i].id = queue_results[j].id
        /\ queue_results[i].kind = "final" /\ queue_results[j].kind = "partial"
    BY DEF Replies
  <2>2. ~(i < j) /\ i # j
    BY <1>2, <2>1
  <2> QED BY <1>3, <2>1, <2>2
<1>7. Cardinality(F) + Cardinality(G) <= 1
  <2>1. F = {} \/ \E i : F = {i}
    BY <1>4
  <2>2. G = {} \/ G = {id.n}
    OBVIOUS
  <2> HIDE DEF F, G
  <2>3. Cardinality(F) = 0 \/ (Cardinality(F) = 1 /\ F # {})
    BY <2>1, FS_EmptySet, FS_Singleton
  <2>4. Cardinality(G) = 0 \/ (Cardinality(G) = 1 /\ G # {})
    BY <2>2, FS_EmptySet, FS_Singleton
  <2>5. F = {} => Cardinality(F) = 0
    BY FS_EmptySet
  <2> QED BY <1>5, <2>3, <2>4, <2>5
<1> QED BY <1>6, <1>7

LEMMA OrphansAre ==
  ASSUME Inv, TaskInv
  PROVE  OrphansKnown
<1> SUFFICES ASSUME NEW i \in DOMAIN queue_results, queue_results[i].id \notin waiting_task_ids
             PROVE  LET r == queue_results[i].id.req
                    IN \/ queue_results[i].kind = "error" /\ got[r].outcome = "ok"
                       \/ Deserted(shape, r, got[r])
  BY DEF OrphansKnown, Deserted, Unread
<1>1. ResultOK(shape, http, got, queue_results[i])
  BY DEF TaskInv, QueueOK
<1>2. queue_results[i].id \in TaskId /\ Asks(shape, queue_results[i].id)
  BY <1>1 DEF ResultOK, Known, Asks
<1>3. http[queue_results[i].id.req] \notin {"receiving", "leaving"}
  BY <1>2 DEF TaskInv, WaitingOK, Awaited
<1> QED BY <1>1, <1>3 DEF ResultOK

\* Whatever the requests, the slots and the schedule: each task of a request that is
\* awaited is in exactly one place until it is replied to and then in none, its final
\* result is the only one and its last, and no result is left behind but errors of a
\* failed batch and what was sent for a stream left unread (server_queue, server_response and update_slots of server.cpp).
THEOREM TasksAlwaysOK == Spec => []TasksOK
<1>1. Init => TaskInv /\ RangesOK
  BY TaskInit
<1>2. Inv /\ (TaskInv /\ RangesOK) /\ [Next]_vars => (TaskInv /\ RangesOK)'
  BY TaskInvStep, RangesStep
<1>3. Inv /\ (TaskInv /\ RangesOK) => TasksOK
  BY TasksTyped, TasksPlaced, FinalsOnce, OrphansAre DEF TasksOK
<1> HIDE DEF TaskInv, RangesOK
<1> QED BY <1>1, <1>2, <1>3, InvAlways, PTL DEF Spec
-----------------------------------------------------------------------------
\* The pieces of a text that are under way, of which each begins where the one before
\* ends, the first one at t; and where the last one ends.
Partials(q, id) == { i \in DOMAIN q : q[i].id = id /\ q[i].kind = "partial" }
Linked(q, id, t) ==
  /\ \A j \in Partials(q, id) : (\A i \in Partials(q, id) : j <= i) => q[j].from = t
  /\ \A i, j \in Partials(q, id) :
       i < j /\ (\A k \in Partials(q, id) : k <= i \/ j <= k) => q[j].from = q[i].upto
Reaches(q, id, t, x) ==
  /\ Partials(q, id) = {} => x = t
  /\ \A j \in Partials(q, id) : (\A i \in Partials(q, id) : i <= j) => q[j].upto = x

\* A result is added that is not a piece of this text.
LEMMA OtherAdded ==
  ASSUME NEW q \in Seq(Result), NEW e \in Result, NEW id, e.id # id \/ e.kind # "partial",
         NEW t
  PROVE  /\ Append(q, e) \in Seq(Result)
         /\ Linked(q, id, t) => Linked(Append(q, e), id, t)
         /\ \A x : Reaches(q, id, t, x) => Reaches(Append(q, e), id, t, x)
<1> DEFINE a == Append(q, e)
<1>1. /\ a \in Seq(Result) /\ Len(q) \in Nat /\ DOMAIN q = 1 .. Len(q)
      /\ DOMAIN a = 1 .. Len(q) + 1 /\ a[Len(q) + 1] = e
      /\ \A i \in DOMAIN q : a[i] = q[i]
  OBVIOUS
<1> HIDE DEF a
<1>2. \A i \in DOMAIN a : (i \in DOMAIN q /\ a[i] = q[i]) \/ (i = Len(q) + 1 /\ a[i] = e)
  BY <1>1
<1>3. \A i \in DOMAIN q : i \in DOMAIN a
  BY <1>1
<1>4. Partials(a, id) = Partials(q, id) /\ \A i \in Partials(q, id) : a[i] = q[i]
  BY <1>1, <1>2, <1>3 DEF Partials
<1>5. Linked(q, id, t) => Linked(a, id, t)
  BY <1>4 DEF Linked
<1>6. \A x : Reaches(q, id, t, x) => Reaches(a, id, t, x)
  BY <1>4 DEF Reaches
<1> QED BY <1>1, <1>5, <1>6 DEF a

\* The next piece is added.
LEMMA PieceAdded ==
  ASSUME NEW q \in Seq(Result), NEW e \in Result, e.kind = "partial", NEW t,
         Linked(q, e.id, t), Reaches(q, e.id, t, e.from)
  PROVE  /\ Append(q, e) \in Seq(Result) /\ Linked(Append(q, e), e.id, t)
         /\ Reaches(Append(q, e), e.id, t, e.upto)
<1> DEFINE a == Append(q, e)
           n == Len(q) + 1
           S == Partials(q, e.id)
           T == Partials(a, e.id)
<1>1. /\ a \in Seq(Result) /\ Len(q) \in Nat /\ DOMAIN q = 1 .. Len(q)
      /\ DOMAIN a = 1 .. n /\ a[n] = e
      /\ \A i \in DOMAIN q : a[i] = q[i]
  OBVIOUS
<1> HIDE DEF a
<1>2. /\ \A i \in DOMAIN a : (i \in DOMAIN q /\ a[i] = q[i]) \/ (i = n /\ a[i] = e)
      /\ \A i \in DOMAIN q : i \in DOMAIN a /\ i < n /\ i \in Nat
      /\ n \in DOMAIN a /\ n \in Nat
  BY <1>1
<1> HIDE DEF n
<1>3. /\ n \in T /\ a[n] = e /\ T \in SUBSET (S \cup {n}) /\ S \in SUBSET T
      /\ \A i \in S : i \in Nat /\ i < n /\ a[i] = q[i]
  BY <1>1, <1>2 DEF Partials
<1> HIDE DEF S, T
<1>4. ASSUME NEW j \in T, \A i \in T : j <= i PROVE a[j].from = t
  <2>1. CASE j \in S
    <3>1. \A i \in S : j <= i
      BY <1>3, <1>4
    <3>2. a[j] = q[j]
      BY <1>3, <2>1
    <3> QED BY <2>1, <3>1, <3>2 DEF Linked, S
  <2>2. CASE j = n
    <3>1. S = {}
      BY <1>2, <1>3, <1>4, <2>2
    <3>2. e.from = t
      BY <3>1 DEF Reaches, S
    <3> QED BY <1>3, <2>2, <3>2
  <2> QED BY <1>3, <2>1, <2>2
<1>5. ASSUME NEW i \in T, NEW j \in T, i < j, \A k \in T : k <= i \/ j <= k
      PROVE  a[j].from = a[i].upto
  <2>1. i \in S
    BY <1>2, <1>3, <1>5
  <2>2. CASE j \in S
    <3>1. \A k \in S : k <= i \/ j <= k
      BY <1>3, <1>5
    <3>2. a[i] = q[i] /\ a[j] = q[j]
      BY <1>3, <2>1, <2>2
    <3> QED BY <1>5, <2>1, <2>2, <3>1, <3>2 DEF Linked, S
  <2>3. CASE j = n
    <3>1. \A k \in S : k <= i
      BY <1>2, <1>3, <1>5, <2>3
    <3>2. q[i].upto = e.from
      BY <2>1, <3>1 DEF Reaches, S
    <3> QED BY <1>3, <2>1, <2>3, <3>2
  <2> QED BY <1>3, <2>2, <2>3
<1>6. Linked(a, e.id, t)
  BY <1>4, <1>5 DEF Linked, T
<1>7. Reaches(a, e.id, t, e.upto)
  <2>1. T # {}
    BY <1>3
  <2>2. ASSUME NEW j \in T, \A i \in T : i <= j PROVE a[j].upto = e.upto
    <3>1. j = n
      BY <1>2, <1>3, <2>2
    <3> QED BY <1>3, <3>1
  <2> QED BY <2>1, <2>2 DEF Reaches, T
<1> QED BY <1>1, <1>6, <1>7 DEF a

\* A queue that loses no piece of this text.
LEMMA PiecesFollow ==
  ASSUME NEW q \in Seq(Result), NEW c \in Seq(Result), NEW f, Follows(q, c, f), NEW id, NEW t,
         \A j \in Partials(q, id) : \E k \in DOMAIN c : f[k] = j
  PROVE  /\ Linked(q, id, t) => Linked(c, id, t)
         /\ \A x : Reaches(q, id, t, x) => Reaches(c, id, t, x)
<1> DEFINE S == Partials(q, id)
           T == Partials(c, id)
<1>1. \A k \in T : k \in Nat /\ f[k] \in Nat /\ f[k] \in S /\ c[k] = q[f[k]]
  BY DEF Follows, Partials
<1>2. \A k, l \in T : k <= l <=> f[k] <= f[l]
  <2>1. \A k, l \in T : k < l => f[k] < f[l]
    BY DEF Follows, Partials
  <2> HIDE DEF S, T
  <2> QED BY <1>1, <2>1
<1>3. \A j \in S : \E k \in T : f[k] = j
  BY DEF Follows, Partials
<1>4. ASSUME Linked(q, id, t) PROVE Linked(c, id, t)
  <2> HIDE DEF S, T
  <2>1. ASSUME NEW j \in T, \A i \in T : j <= i PROVE c[j].from = t
    <3>1. \A i \in S : f[j] <= i
      BY <1>2, <1>3, <2>1
    <3> QED BY <1>1, <1>4, <3>1 DEF Linked, S
  <2>2. ASSUME NEW i \in T, NEW j \in T, i < j, \A k \in T : k <= i \/ j <= k
        PROVE  c[j].from = c[i].upto
    <3>1. \A k \in S : k <= f[i] \/ f[j] <= k
      BY <1>2, <1>3, <2>2
    <3>2. f[i] < f[j]
      BY <1>1, <1>2, <2>2
    <3>3. q[f[j]].from = q[f[i]].upto
      BY <1>1, <1>4, <3>1, <3>2 DEF Linked, S
    <3> QED BY <1>1, <3>3
  <2> QED BY <2>1, <2>2 DEF Linked, T
<1>5. ASSUME NEW x, Reaches(q, id, t, x) PROVE Reaches(c, id, t, x)
  <2> HIDE DEF S, T
  <2>1. T = {} => x = t
    BY <1>3, <1>5 DEF Reaches, S
  <2>2. ASSUME NEW j \in T, \A i \in T : i <= j PROVE c[j].upto = x
    <3>1. \A i \in S : i <= f[j]
      BY <1>2, <1>3, <2>2
    <3> QED BY <1>1, <1>5, <3>1 DEF Reaches, S
  <2> QED BY <2>1, <2>2 DEF Reaches, T
<1> QED BY <1>4, <1>5

\* A queue that loses the first piece, which is received.
LosesFirst(q, c, f, h, id) ==
  /\ q \in Seq(Result) /\ c \in Seq(Result) /\ Follows(q, c, f) /\ h \in Partials(q, id)
  /\ \A k \in Partials(c, id) : h < f[k]
  /\ \A j \in Partials(q, id) : j # h => \E k \in DOMAIN c : f[k] = j

LEMMA PieceTaken ==
  ASSUME NEW q, NEW c, NEW f, NEW h, NEW id, LosesFirst(q, c, f, h, id), NEW t
  PROVE  /\ Linked(q, id, t) => q[h].from = t /\ Linked(c, id, q[h].upto)
         /\ \A x : Reaches(q, id, t, x) => Reaches(c, id, q[h].upto, x)
<1> DEFINE S == Partials(q, id)
           T == Partials(c, id)
<1>1. /\ \A k \in T : k \in Nat /\ f[k] \in Nat /\ f[k] \in S /\ c[k] = q[f[k]] /\ h < f[k]
      /\ h \in Nat /\ h \in S
  BY DEF LosesFirst, Follows, Partials
<1>2. \A k, l \in T : k <= l <=> f[k] <= f[l]
  <2>1. \A k, l \in T : k < l => f[k] < f[l]
    BY DEF LosesFirst, Follows, Partials
  <2> HIDE DEF S, T
  <2> QED BY <1>1, <2>1
<1>3. \A j \in S : j = h \/ \E k \in T : f[k] = j
  BY DEF LosesFirst, Follows, Partials
<1>4. ASSUME Linked(q, id, t) PROVE q[h].from = t /\ Linked(c, id, q[h].upto)
  <2> HIDE DEF S, T
  <2>0. q[h].from = t
    <3>1. \A i \in S : h <= i
      BY <1>1, <1>3
    <3> QED BY <1>1, <1>4, <3>1 DEF Linked, S
  <2>1. ASSUME NEW j \in T, \A i \in T : j <= i PROVE c[j].from = q[h].upto
    <3>1. \A k \in S : k <= h \/ f[j] <= k
      BY <1>1, <1>2, <1>3, <2>1
    <3>2. q[f[j]].from = q[h].upto
      BY <1>1, <1>4, <3>1 DEF Linked, S
    <3> QED BY <1>1, <3>2
  <2>2. ASSUME NEW i \in T, NEW j \in T, i < j, \A k \in T : k <= i \/ j <= k
        PROVE  c[j].from = c[i].upto
    <3>1. \A k \in S : k <= f[i] \/ f[j] <= k
      BY <1>1, <1>2, <1>3, <2>2
    <3>2. f[i] < f[j]
      BY <1>1, <1>2, <2>2
    <3>3. q[f[j]].from = q[f[i]].upto
      BY <1>1, <1>4, <3>1, <3>2 DEF Linked, S
    <3> QED BY <1>1, <3>3
  <2> QED BY <2>0, <2>1, <2>2 DEF Linked, T
<1>5. ASSUME NEW x, Reaches(q, id, t, x) PROVE Reaches(c, id, q[h].upto, x)
  <2> HIDE DEF S, T
  <2>1. ASSUME T = {} PROVE x = q[h].upto
    <3>1. \A i \in S : i <= h
      BY <1>1, <1>3, <2>1
    <3> QED BY <1>1, <1>5, <3>1 DEF Reaches, S
  <2>2. ASSUME NEW j \in T, \A i \in T : i <= j PROVE c[j].upto = x
    <3>1. \A i \in S : i <= f[j]
      BY <1>1, <1>2, <1>3, <2>2
    <3> QED BY <1>1, <1>5, <3>1 DEF Reaches, S
  <2> QED BY <2>1, <2>2 DEF Reaches, T
<1> QED BY <1>4, <1>5

Holds(sl, s, id) == sl[s].state # "IDLE" /\ sl[s].id_task = id
StreamOK(sh, q, t, sl, p, id) ==
  /\ Linked(q, id, t)
  /\ \A s \in Slots : Holds(sl, s, id) /\ sh[id.req].stream => Reaches(q, id, t, sl[s].n_sent)
  /\ p # 0 /\ (\A s \in Slots : ~Holds(sl, s, id)) => Reaches(q, id, t, 0)
TextsOK ==
  \A r \in Requests :
    /\ DOMAIN got[r].text = 1 .. shape[r].tasks
    /\ http[r] \in {"new", "registered"} => \A n \in 1 .. shape[r].tasks : got[r].text[n] = 0
Text(id) == got[id.req].text[id.n]
StreamsOK ==
  \A id \in TaskId : Asks(shape, id) /\ http[id.req] = "receiving" =>
    StreamOK(shape, queue_results, Text(id), slots, Places(id), id)

\* What a step of the main thread does to a slot, but when it launches a task or
\* samples a token: the slot is released or goes on; and the task it has it keeps.
SlotGoes(u) ==
  \/ slots'[u].state = "IDLE"
  \/ /\ slots[u].state # "IDLE" /\ slots'[u].id_task = slots[u].id_task
     /\ slots'[u].n_sent = slots[u].n_sent
SlotKeeps(u) == slots[u].state # "IDLE" => slots'[u].id_task = slots[u].id_task

NoPiece(p, q) == q = p \/ \E e \in Result : e.kind # "partial" /\ q = Sent(p, e)
Goes == (\A u \in Slots : SlotGoes(u)) /\ NoPiece(queue_results, queue_results')
Launches(s) ==
  /\ \A u \in Slots : u # s => SlotGoes(u)
  /\ queue_results' = queue_results /\ InHand("work")
  /\ slots[s].state = "IDLE" /\ slots'[s].n_sent = 0 /\ slots'[s].id_task = main.task.id
Samples(s) ==
  /\ \A u \in Slots : u # s => SlotGoes(u)
  /\ slots[s].state # "IDLE"
  /\ \E held, n, p :
       /\ n \in Nat
       /\ \/ (held \/ ~shape[slots[s].id_task.req].stream) /\ p = queue_results
          \/ /\ ~held /\ shape[slots[s].id_task.req].stream
             /\ p = Sent(queue_results, Partial(slots[s].id_task, slots[s].n_sent, n))
       /\ NoPiece(p, queue_results')
       /\ \/ slots'[s].state = "IDLE"
          \/ slots'[s].n_sent = IF held THEN slots[s].n_sent ELSE n
MainStream ==
  /\ UNCHANGED <<shape, http, got, waiting_task_ids>>
  /\ \A u \in Slots : SlotKeeps(u)
  /\ Goes \/ \E s \in Slots : Launches(s) \/ Samples(s)

\* A slot that is released or goes on.
LEMMA OneGoes ==
  ASSUME Typed, NEW s \in Slots, NEW v, slots' = [slots EXCEPT ![s] = v],
         v.state = "IDLE" \/ (slots[s].state # "IDLE" /\ v.n_sent = slots[s].n_sent),
         slots[s].state # "IDLE" => v.id_task = slots[s].id_task
  PROVE  \A u \in Slots : SlotGoes(u) /\ SlotKeeps(u)
<1>1. slots \in [Slots -> Slot]
  BY DEF Typed
<1>2. \A u \in Slots : slots'[u] = IF u = s THEN v ELSE slots[u]
  BY <1>1
<1> QED BY <1>2 DEF SlotGoes, SlotKeeps

LEMMA SameGoes ==
  ASSUME slots' = slots
  PROVE  \A u \in Slots : SlotGoes(u) /\ SlotKeeps(u)
BY DEF SlotGoes, SlotKeeps

LEMMA ReleasedKeeps ==
  ASSUME Typed, NEW s \in Slots, NEW v,
         v = Released(s) \/ v = [Released(s) EXCEPT !.i_batch = -1]
  PROVE  v.state = "IDLE" /\ v.id_task = slots[s].id_task
<1>1. Released(s).id_task = slots[s].id_task /\ Released(s) \in Slot
      /\ Released(s).state = "IDLE"
  BY ReleasedIdle DEF Released, IdleSlot
<1> HIDE DEF Released
<1> QED BY <1>1 DEF Slot

LEMMA TakeStream ==
  ASSUME Typed, TakeTask \/ AllIdle \/ Defer \/ Decode \/ \E s \in Slots : NotYet(s)
  PROVE  MainStream
<1>1. /\ slots' = slots /\ queue_results' = queue_results
      /\ UNCHANGED <<requests, waiting_task_ids>>
  BY DEF TakeTask, AllIdle, Defer, Decode, NotYet, results
<1> QED BY <1>1, SameGoes DEF MainStream, Goes, NoPiece, requests

LEMMA QuickStream ==
  ASSUME Typed, AnswerQuick
  PROVE  MainStream
<1>1. main.task.id \in TaskId
  BY InHandTyped DEF AnswerQuick
<1>2. NoPiece(queue_results, queue_results')
  <2>1. Final(main.task.id, 0) \in Result /\ Error(main.task.id) \in Result
        /\ Final(main.task.id, 0).kind = "final" /\ Error(main.task.id).kind = "error"
    BY <1>1, SentTyped
  <2>2. PICK e : queue_results' = Sent(queue_results, e)
                 /\ (e = Final(main.task.id, 0) \/ e = Error(main.task.id))
    BY DEF AnswerQuick
  <2>3. e \in Result /\ e.kind # "partial"
    BY <2>1, <2>2
  <2> QED BY <2>2, <2>3 DEF NoPiece
<1>3. slots' = slots /\ UNCHANGED <<requests, waiting_task_ids>>
  BY DEF AnswerQuick
<1> QED BY <1>2, <1>3, SameGoes DEF MainStream, Goes, requests

LEMMA CancelStream ==
  ASSUME Typed, HandleCancel
  PROVE  MainStream
<1> DEFINE having == { u \in Slots : slots[u].id_task = main.task.id }
           s == CHOOSE u \in having : \A v \in having : u <= v
<1>1. /\ slots' = slots \/ (s \in Processing /\ slots' = [slots EXCEPT ![s] = Released(s)])
      /\ queue_results' = queue_results /\ UNCHANGED <<requests, waiting_task_ids>>
  BY DEF HandleCancel, results
<1> HIDE DEF s
<1>2. \A u \in Slots : SlotGoes(u) /\ SlotKeeps(u)
  <2>1. CASE slots' = slots
    BY <2>1, SameGoes
  <2>2. CASE s \in Processing /\ slots' = [slots EXCEPT ![s] = Released(s)]
    <3>1. s \in Slots
      BY <2>2 DEF Processing
    <3>2. Released(s).state = "IDLE" /\ Released(s).id_task = slots[s].id_task
      BY <3>1, ReleasedKeeps
    <3> QED BY <2>2, <3>1, <3>2, OneGoes
  <2> QED BY <1>1, <2>1, <2>2
<1> QED BY <1>1, <1>2 DEF MainStream, Goes, NoPiece, requests

LEMMA LaunchStream ==
  ASSUME Typed, NEW s \in Slots, Launch(s)
  PROVE  MainStream
<1>1. slots \in [Slots -> Slot] /\ slots[s] \in Slot /\ slots[s].state = "IDLE"
      /\ InHand("work") /\ UNCHANGED <<requests, waiting_task_ids>>
  BY DEF Typed, Launch, Processing, results
<1>2. main.task.id \in TaskId
  BY <1>1, InHandTyped
<1>3. CASE Asked(main.task.id).valid
  <2> DEFINE v == [IdleSlot EXCEPT !.state = "STARTED", !.id_task = main.task.id,
                                   !.i_batch = slots[s].i_batch]
  <2>1. slots' = [slots EXCEPT ![s] = v] /\ queue_results' = queue_results
    BY <1>3 DEF Launch, results
  <2>2. v.n_sent = 0 /\ v.id_task = main.task.id
    BY DEF IdleSlot
  <2> HIDE DEF v
  <2>3. slots'[s] = v /\ \A u \in Slots : u # s => slots'[u] = slots[u]
    BY <1>1, <2>1
  <2>4. \A u \in Slots : u # s => SlotGoes(u)
    BY <2>3 DEF SlotGoes
  <2>5. \A u \in Slots : SlotKeeps(u)
    BY <1>1, <2>3 DEF SlotKeeps
  <2> QED BY <1>1, <2>1, <2>2, <2>3, <2>4, <2>5 DEF MainStream, Launches, requests
<1>4. CASE ~Asked(main.task.id).valid
  <2> DEFINE v == [slots[s] EXCEPT !.id_task = main.task.id]
  <2>1. slots' = [slots EXCEPT ![s] = v]
        /\ queue_results' = Sent(queue_results, Error(main.task.id))
    BY <1>1, <1>4 DEF Launch
  <2>2. v.state = "IDLE"
    BY <1>1 DEF Slot
  <2>3. Error(main.task.id) \in Result /\ Error(main.task.id).kind = "error"
    BY <1>2, SentTyped
  <2> HIDE DEF v
  <2>4. NoPiece(queue_results, queue_results')
    <3>1. PICK e \in Result : e = Error(main.task.id)
      BY <2>3
    <3> QED BY <2>1, <2>3, <3>1 DEF NoPiece
  <2> QED BY <1>1, <2>1, <2>2, <2>4, OneGoes DEF MainStream, Goes, requests
<1> QED BY <1>3, <1>4

LEMMA BatchStream ==
  ASSUME Typed, StartBatch
  PROVE  MainStream
<1>1. /\ queue_results' = queue_results /\ UNCHANGED <<requests, waiting_task_ids>>
  BY DEF StartBatch, results
<1>2. \A u \in Slots : SlotGoes(u) /\ SlotKeeps(u)
  <2> SUFFICES ASSUME NEW u \in Slots PROVE SlotGoes(u) /\ SlotKeeps(u)
    OBVIOUS
  <2>1. slots[u] \in Slot
    BY DEF Typed
  <2>2. PICK b : slots'[u] = slots[u] \/
                 (slots[u].state = "GENERATING"
                  /\ slots'[u] = [slots[u] EXCEPT !.n_past = @ + 1, !.i_batch = b])
    BY DEF StartBatch, Generating
  <2>3. slots'[u].state = slots[u].state /\ slots'[u].id_task = slots[u].id_task
        /\ slots'[u].n_sent = slots[u].n_sent
    BY <2>1, <2>2 DEF Slot
  <2> QED BY <2>3 DEF SlotGoes, SlotKeeps
<1> QED BY <1>1, <1>2 DEF MainStream, Goes, NoPiece, requests

LEMMA AddStream ==
  ASSUME Typed, NEW s \in Slots, AddPrompt(s)
  PROVE  MainStream
<1>1. /\ queue_results' = queue_results /\ UNCHANGED <<requests, waiting_task_ids>>
      /\ slots[s].state # "IDLE" /\ slots \in [Slots -> Slot] /\ slots[s] \in Slot
  BY DEF AddPrompt, Typed, results
<1>2. PICK x, b :
        \/ slots' = [slots EXCEPT ![s].state = "PROCESSING_PROMPT", ![s].n_past = x]
        \/ slots' = [slots EXCEPT ![s].state = "DONE_PROMPT", ![s].n_past = x,
                                  ![s].n_decoded = 0, ![s].i_batch = b]
  BY DEF AddPrompt
<1>3. PICK v : /\ slots' = [slots EXCEPT ![s] = v] /\ v.id_task = slots[s].id_task
               /\ v.n_sent = slots[s].n_sent
  <2>1. CASE slots' = [slots EXCEPT ![s].state = "PROCESSING_PROMPT", ![s].n_past = x]
    <3> DEFINE v == [slots[s] EXCEPT !.state = "PROCESSING_PROMPT", !.n_past = x]
    <3>1. slots' = [slots EXCEPT ![s] = v]
      BY <1>1, <2>1
    <3>2. v.id_task = slots[s].id_task /\ v.n_sent = slots[s].n_sent
      BY <1>1 DEF Slot
    <3> HIDE DEF v
    <3> QED BY <3>1, <3>2
  <2>2. CASE slots' = [slots EXCEPT ![s].state = "DONE_PROMPT", ![s].n_past = x,
                                  ![s].n_decoded = 0, ![s].i_batch = b]
    <3> DEFINE v == [slots[s] EXCEPT !.state = "DONE_PROMPT", !.n_past = x, !.n_decoded = 0,
                                     !.i_batch = b]
    <3>1. slots' = [slots EXCEPT ![s] = v]
      BY <1>1, <2>2
    <3>2. v.id_task = slots[s].id_task /\ v.n_sent = slots[s].n_sent
      BY <1>1 DEF Slot
    <3> HIDE DEF v
    <3> QED BY <3>1, <3>2
  <2> QED BY <1>2, <2>1, <2>2
<1>4. \A u \in Slots : SlotGoes(u) /\ SlotKeeps(u)
  BY <1>1, <1>3, OneGoes
<1> QED BY <1>1, <1>4 DEF MainStream, Goes, NoPiece, requests

LEMMA ReleaseStream ==
  ASSUME Inv, NEW s \in Slots, Refuse(s) \/ SendEmbedding(s)
  PROVE  MainStream
<1>1. Typed /\ slots[s].state # "IDLE" /\ UNCHANGED <<requests, waiting_task_ids>>
  BY DEF Refuse, SendEmbedding, Inv
<1>2. slots[s].id_task \in TaskId
  BY <1>1 DEF Inv, SlotsOK, SlotOK, Within
<1>3. PICK e : /\ queue_results' = Sent(queue_results, e)
               /\ e = Final(slots[s].id_task, 0) \/ e = Error(slots[s].id_task)
  BY DEF Refuse, SendEmbedding
<1>4. e \in Result /\ e.kind # "partial"
  BY <1>2, <1>3, SentTyped
<1>5. PICK v : /\ slots' = [slots EXCEPT ![s] = v]
               /\ v = Released(s) \/ v = [Released(s) EXCEPT !.i_batch = -1]
  BY DEF Refuse, SendEmbedding
<1>6. v.state = "IDLE" /\ v.id_task = slots[s].id_task
  BY <1>1, <1>5, ReleasedKeeps
<1>7. \A u \in Slots : SlotGoes(u) /\ SlotKeeps(u)
  BY <1>1, <1>5, <1>6, OneGoes
<1> QED BY <1>1, <1>3, <1>4, <1>7 DEF MainStream, Goes, NoPiece, requests

LEMMA FailStream ==
  ASSUME Inv, TaskInv, NEW s \in Slots, FailSlot(s)
  PROVE  MainStream
<1>1. Typed /\ UNCHANGED <<requests, waiting_task_ids>>
      /\ queue_results' = Sent(queue_results, Error(slots[s].id_task))
  BY DEF FailSlot, Inv
<1>2. NoPiece(queue_results, queue_results')
  <2>1. CASE slots[s].id_task = NoTask
    <3>1. NoTask \notin waiting_task_ids
      BY NoTaskAssumption DEF TaskInv, RequestsTyped, TaskId
    <3>2. queue_results' = queue_results
      BY <1>1, <2>1, <3>1 DEF Sent, Error
    <3> QED BY <3>2 DEF NoPiece
  <2>2. CASE slots[s].id_task \in TaskId
    <3>1. Error(slots[s].id_task) \in Result /\ Error(slots[s].id_task).kind = "error"
      BY <2>2, SentTyped
    <3>2. PICK e \in Result : e = Error(slots[s].id_task)
      BY <3>1
    <3> QED BY <1>1, <3>1, <3>2 DEF NoPiece
  <2> QED BY <1>1, <2>1, <2>2 DEF Typed, Slot
<1>3. PICK v : /\ slots' = [slots EXCEPT ![s] = v]
               /\ v = IF s \in Processing THEN Released(s) ELSE slots[s]
  BY DEF FailSlot
<1>4. v.state = "IDLE" /\ v.id_task = slots[s].id_task
  BY <1>1, <1>3, ReleasedKeeps DEF Processing
<1>5. \A u \in Slots : SlotGoes(u) /\ SlotKeeps(u)
  BY <1>1, <1>3, <1>4, OneGoes
<1> QED BY <1>1, <1>2, <1>5 DEF MainStream, Goes, requests

LEMMA SampleStream ==
  ASSUME Inv, NEW s \in Slots, NEW held \in BOOLEAN, NEW stop \in BOOLEAN, Sample(s, held, stop)
  PROVE  MainStream
<1> DEFINE t == slots[s].id_task
           n == slots[s].n_decoded + 1
           p == IF held \/ ~shape[t.req].stream THEN queue_results
                ELSE Sent(queue_results, Partial(t, slots[s].n_sent, n))
<1>1. /\ UNCHANGED <<requests, waiting_task_ids>> /\ slots[s].state # "IDLE" /\ Typed
      /\ slots \in [Slots -> Slot] /\ slots[s] \in Slot /\ n \in Nat
  <2>1. UNCHANGED <<requests, waiting_task_ids>> /\ slots[s].state # "IDLE"
    BY DEF Sample
  <2>2. Typed /\ slots \in [Slots -> Slot] /\ slots[s] \in Slot
    BY DEF Inv, Typed
  <2>3. slots[s].n_decoded \in Nat
    BY <2>2 DEF Slot
  <2> QED BY <2>1, <2>2, <2>3
<1>2. t \in TaskId
  BY <1>1 DEF Inv, SlotsOK, SlotOK, Within
<1>3. CASE stop
  <2>1. slots' = [slots EXCEPT ![s] = [Released(s) EXCEPT !.i_batch = -1]]
        /\ queue_results' = IF t \in waiting_task_ids THEN Append(p, Final(t, n)) ELSE p
    BY <1>3 DEF Sample, Asked
  <2> HIDE DEF p
  <2>2. NoPiece(p, queue_results')
    <3>1. PICK e : e = Final(t, n)
      OBVIOUS
    <3>2. e \in Result /\ e.id = t /\ e.kind = "final"
      BY <1>1, <1>2, <3>1, SentTyped
    <3>3. queue_results' = Sent(p, e)
      BY <2>1, <3>1, <3>2 DEF Sent
    <3> QED BY <3>2, <3>3 DEF NoPiece
  <2>3. PICK v : /\ slots' = [slots EXCEPT ![s] = v]
                 /\ v = [Released(s) EXCEPT !.i_batch = -1]
    BY <2>1
  <2>4. v.state = "IDLE" /\ v.id_task = slots[s].id_task
    BY <1>1, <2>3, ReleasedKeeps
  <2>5. \A u \in Slots : SlotGoes(u) /\ SlotKeeps(u)
    BY <1>1, <2>3, <2>4, OneGoes
  <2>6. slots'[s].state = "IDLE"
    BY <1>1, <2>3, <2>4
  <2>7. Samples(s)
    BY <1>1, <2>2, <2>5, <2>6 DEF Samples, p
  <2> QED BY <1>1, <2>5, <2>7 DEF MainStream, requests
<1>4. CASE ~stop
  <2> DEFINE v == [slots[s] EXCEPT !.state = "GENERATING", !.i_batch = -1, !.n_decoded = n,
                                   !.n_sent = IF held THEN @ ELSE n]
  <2>1. slots' = [slots EXCEPT ![s] = v] /\ queue_results' = p
    BY <1>1, <1>4 DEF Sample, Asked
  <2> HIDE DEF p
  <2>2. v.id_task = slots[s].id_task /\ v.n_sent = IF held THEN slots[s].n_sent ELSE n
    BY <1>1 DEF Slot
  <2> HIDE DEF v
  <2>3. slots'[s] = v /\ \A u \in Slots : u # s => slots'[u] = slots[u]
    BY <1>1, <2>1
  <2>4. \A u \in Slots : u # s => SlotGoes(u)
    BY <2>3 DEF SlotGoes
  <2>5. \A u \in Slots : SlotKeeps(u)
    BY <2>2, <2>3 DEF SlotKeeps
  <2>6. NoPiece(p, queue_results')
    BY <2>1 DEF NoPiece
  <2>7. Samples(s)
    BY <1>1, <2>2, <2>3, <2>4, <2>6 DEF Samples, p
  <2> QED BY <1>1, <2>5, <2>7 DEF MainStream, requests
<1> QED BY <1>3, <1>4

LEMMA MainStreams ==
  ASSUME Inv, TaskInv, MainLoop
  PROVE  MainStream
<1>1. Typed
  BY DEF Inv
<1>2. ASSUME NEW s \in Slots,
             \/ Launch(s) \/ Refuse(s) \/ AddPrompt(s) \/ FailSlot(s)
             \/ SendEmbedding(s) \/ NotYet(s)
             \/ \E held, stop \in BOOLEAN : Sample(s, held, stop)
      PROVE  MainStream
  BY <1>1, <1>2, LaunchStream, ReleaseStream, AddStream, FailStream, TakeStream, SampleStream
<1> QED BY <1>1, <1>2, TakeStream, QuickStream, CancelStream, BatchStream DEF MainLoop
-----------------------------------------------------------------------------
\* A result that is no piece leaves the pieces as they are.
LEMMA NoPieceKeeps ==
  ASSUME NEW p \in Seq(Result), NEW q, NoPiece(p, q), NEW id, NEW t
  PROVE  /\ q \in Seq(Result)
         /\ Linked(p, id, t) => Linked(q, id, t)
         /\ \A x : Reaches(p, id, t, x) => Reaches(q, id, t, x)
<1>1. CASE q = p
  BY <1>1
<1>2. ASSUME NEW e \in Result, e.kind # "partial", q = Append(p, e)
      PROVE  /\ q \in Seq(Result)
             /\ Linked(p, id, t) => Linked(q, id, t)
             /\ \A x : Reaches(p, id, t, x) => Reaches(q, id, t, x)
  BY <1>2, OtherAdded
<1> QED BY <1>1, <1>2 DEF NoPiece, Sent

\* The slots that have a task: one at most, and none when it is somewhere else.
LEMMA OneHolder ==
  ASSUME Inv, NEW id \in TaskId, Places(id) <= 1, NEW s \in Slots, Holds(slots, s, id)
  PROVE  /\ \A u \in Slots : Holds(slots, u, id) => u = s
         /\ Hand(main, id) = 0 /\ Places(id) = 1
<1> DEFINE H == Holders(slots, id)
<1>1. IsFiniteSet(H) /\ Held(slots, id) \in Nat /\ Held(slots, id) = Cardinality(H)
  BY HeldTyped DEF Held
<1>2. /\ Count(queue_tasks, id) \in Nat /\ Count(queue_tasks_deferred, id) \in Nat
      /\ Hand(main, id) \in Nat
  BY CountTyped DEF Inv, Typed, Hand
<1>3. Places(id) = Count(queue_tasks, id) + Count(queue_tasks_deferred, id)
                    + Held(slots, id) + Hand(main, id)
  BY PlacesAre DEF PlacesOf
<1>4. s \in H
  BY DEF Holders, Holds
<1>5. ASSUME NEW u \in Slots, Holds(slots, u, id), u # s PROVE FALSE
  <2>1. u \in H
    BY <1>5 DEF Holders, Holds
  <2> HIDE DEF H
  <2>2. IsFiniteSet({s}) /\ IsFiniteSet({u}) /\ Cardinality({s}) = 1 /\ Cardinality({u}) = 1
    BY FS_Singleton
  <2>3. Cardinality({s} \cup {u}) = Cardinality({s}) + Cardinality({u})
    BY <1>5, <2>2, SizesAdd
  <2>4. Cardinality({s} \cup {u}) <= Cardinality(H)
    <3>1. {s} \cup {u} \in SUBSET H
      BY <1>4, <2>1
    <3> QED BY <1>1, <3>1, FS_Subset
  <2>5. Cardinality(H) >= 2
    BY <1>1, <2>2, <2>3, <2>4
  <2> QED BY <1>1, <1>2, <1>3, <2>5
<1>6. Cardinality(H) >= 1
  <2> HIDE DEF H
  <2>1. Cardinality({s}) = 1 /\ {s} \in SUBSET H
    BY <1>4, FS_Singleton
  <2>2. Cardinality({s}) <= Cardinality(H)
    BY <1>1, <2>1, FS_Subset
  <2> QED BY <1>1, <2>1, <2>2
<1>7. Hand(main, id) = 0 /\ Places(id) = 1
  <2> HIDE DEF H
  <2>1. PICK a \in Nat, b \in Nat, c \in Nat, d \in Nat :
          /\ a = Count(queue_tasks, id) /\ b = Count(queue_tasks_deferred, id)
          /\ c = Held(slots, id) /\ d = Hand(main, id)
    BY <1>1, <1>2
  <2> QED BY <1>1, <1>3, <1>6, <2>1
<1> QED BY <1>5, <1>7

\* The task in hand is in no slot.
LEMMA HandHeld ==
  ASSUME Inv, InHand("work"), Places(main.task.id) <= 1
  PROVE  /\ Places(main.task.id) # 0
         /\ \A u \in Slots : ~Holds(slots, u, main.task.id)
<1>1. PICK id \in TaskId : id = main.task.id
  BY InHandTyped DEF Inv
<1>2. Hand(main, id) = 1
  BY <1>1 DEF Hand, InHand
<1>3. /\ Count(queue_tasks, id) \in Nat /\ Count(queue_tasks_deferred, id) \in Nat
      /\ Held(slots, id) \in Nat
  BY CountTyped, HeldTyped DEF Inv, Typed
<1>4. Places(id) = Count(queue_tasks, id) + Count(queue_tasks_deferred, id)
                    + Held(slots, id) + Hand(main, id)
  BY PlacesAre DEF PlacesOf
<1>5. Places(id) # 0
  BY <1>2, <1>3, <1>4
<1>6. \A u \in Slots : ~Holds(slots, u, id)
  BY <1>1, <1>2, OneHolder
<1> QED BY <1>1, <1>5, <1>6

\* Whether the pieces of a task stay as they are from one queue of results to another.
Carries(q, c, id, t) ==
  /\ Linked(q, id, t) => Linked(c, id, t)
  /\ \A x : Reaches(q, id, t, x) => Reaches(c, id, t, x)

LEMMA MainPlaces ==
  ASSUME Inv, TaskInv, TaskInv', MainLoop, MainStream, NEW id \in TaskId, Asks(shape, id)
  PROVE  /\ Places(id) <= 1
         /\ Places(id)' # 0 /\ (\A s \in Slots : ~Holds(slots', s, id))
              => Places(id) # 0 /\ (\A s \in Slots : ~Holds(slots, s, id))
<1>1. QueuesTyped
  BY MainQueues
<1>2. Effect
  <2>1. Before
    BY DEF Before, TaskInv, RequestsTyped
  <2> QED BY <2>1, MainEffect
<1>3. Places(id) \in Nat /\ Places(id)' \in Nat /\ Places(id)' <= Places(id)
  <2>1. Keeps \/ \E t \in TaskId : Loses(t)
    BY <1>2 DEF Effect, Quiet, Cancels, Answers, Streams, Completes, Errs
  <2>2. ASSUME NEW t \in TaskId, Keeps \/ Loses(t)
        PROVE  Places(id) \in Nat /\ Places(id)' \in Nat /\ Places(id)' <= Places(id)
    BY <1>1, <2>2, PlacesMove
  <2> QED BY <2>1, <2>2
<1>4. Places(id) <= 1
  BY DEF TaskInv, LivesOK, LiveOK
<1>5. ASSUME Places(id)' # 0, \A s \in Slots : ~Holds(slots', s, id),
             NEW s \in Slots, Holds(slots, s, id)
      PROVE  FALSE
  <2>1. slots'[s].id_task = id
    BY <1>5 DEF MainStream, SlotKeeps, Holds
  <2>2. slots'[s].state = "IDLE"
    BY <1>5, <2>1 DEF Holds
  <2> QED BY <1>5, <2>1, <2>2 DEF TaskInv, SpentOK
<1> QED BY <1>3, <1>4, <1>5

\* The slots go on, and no piece is sent.
LEMMA GoesStream ==
  ASSUME Goes, queue_results \in Seq(Result), NEW id, NEW t, NEW p2, NEW p,
         StreamOK(shape, queue_results, t, slots, p, id),
         p2 # 0 /\ (\A s \in Slots : ~Holds(slots', s, id))
           => p # 0 /\ (\A s \in Slots : ~Holds(slots, s, id))
  PROVE  StreamOK(shape, queue_results', t, slots', p2, id)
<1>1. Carries(queue_results, queue_results', id, t)
  BY NoPieceKeeps DEF Goes, Carries
<1>2. ASSUME NEW s \in Slots, Holds(slots', s, id)
      PROVE  Holds(slots, s, id) /\ slots'[s].n_sent = slots[s].n_sent
  BY <1>2 DEF Goes, SlotGoes, Holds
<1> QED BY <1>1, <1>2 DEF StreamOK, Carries

LEMMA LaunchesStream ==
  ASSUME Inv, NEW s \in Slots, Launches(s), NEW id \in TaskId, Places(id) <= 1, NEW t, NEW p2,
         StreamOK(shape, queue_results, t, slots, Places(id), id),
         p2 # 0 /\ (\A u \in Slots : ~Holds(slots', u, id))
           => Places(id) # 0 /\ (\A u \in Slots : ~Holds(slots, u, id))
  PROVE  StreamOK(shape, queue_results', t, slots', p2, id)
<1>1. queue_results' = queue_results
  BY DEF Launches
<1>2. ASSUME NEW u \in Slots, Holds(slots', u, id), shape[id.req].stream
      PROVE  Reaches(queue_results, id, t, slots'[u].n_sent)
  <2>1. CASE u = s
    <3>1. id = main.task.id /\ slots'[u].n_sent = 0 /\ InHand("work")
      BY <1>2, <2>1 DEF Launches, Holds
    <3>2. Places(id) # 0 /\ \A v \in Slots : ~Holds(slots, v, id)
      BY <3>1, HandHeld
    <3> QED BY <3>1, <3>2 DEF StreamOK
  <2>2. CASE u # s
    <3>1. Holds(slots, u, id) /\ slots'[u].n_sent = slots[u].n_sent
      BY <1>2, <2>2 DEF Launches, SlotGoes, Holds
    <3> QED BY <1>2, <3>1 DEF StreamOK
  <2> QED BY <2>1, <2>2
<1> QED BY <1>1, <1>2 DEF StreamOK

LEMMA SamplesStream ==
  ASSUME Inv, TaskInv, MainStream, NEW s \in Slots, Samples(s), NEW id \in TaskId,
         Asks(shape, id), http[id.req] = "receiving", Places(id) <= 1, NEW t, NEW p2,
         StreamOK(shape, queue_results, t, slots, Places(id), id),
         p2 # 0 /\ (\A u \in Slots : ~Holds(slots', u, id))
           => Places(id) # 0 /\ (\A u \in Slots : ~Holds(slots, u, id))
  PROVE  StreamOK(shape, queue_results', t, slots', p2, id)
<1>1. PICK a \in TaskId, k \in Nat : a = slots[s].id_task /\ k = slots[s].n_sent
  BY DEF Samples, Inv, SlotsOK, SlotOK, Within, Typed, Slot
<1>2. PICK held, n, p :
        /\ n \in Nat
        /\ \/ (held \/ ~shape[a.req].stream) /\ p = queue_results
           \/ ~held /\ shape[a.req].stream /\ p = Sent(queue_results, Partial(a, k, n))
        /\ NoPiece(p, queue_results')
        /\ \/ slots'[s].state = "IDLE"
           \/ slots'[s].n_sent = IF held THEN k ELSE n
  BY <1>1 DEF Samples
<1>3. queue_results \in Seq(Result)
  BY DEF TaskInv, RequestsTyped
<1>4. Holds(slots, s, a)
  BY <1>1 DEF Holds, Samples
<1> DEFINE e == Partial(a, k, n)
<1>5. /\ e \in Result /\ e.id = a /\ e.kind = "partial" /\ e.from = k /\ e.upto = n
  BY <1>2, SentTyped DEF Partial
<1> HIDE DEF e
<1>6. p \in Seq(Result)
  <2>1. Append(queue_results, e) \in Seq(Result)
    BY <1>3, <1>5
  <2> QED BY <1>2, <1>3, <2>1 DEF Sent, e
<1>7. Carries(p, queue_results', id, t)
  BY <1>2, <1>6, NoPieceKeeps DEF Carries
<1>8. id # a \/ p = queue_results => Carries(queue_results, p, id, t)
  <2>1. CASE p = queue_results
    BY <2>1 DEF Carries
  <2>2. CASE id # a /\ p = Append(queue_results, e)
    BY <1>3, <1>5, <2>2, OtherAdded DEF Carries
  <2> QED BY <1>2, <2>1, <2>2 DEF Sent, e
<1>9. ASSUME id = a, shape[a.req].stream, ~held
      PROVE  Linked(p, id, t) /\ Reaches(p, id, t, n)
  <2>1. id \in waiting_task_ids
    BY DEF TaskInv, WaitingOK, Awaited
  <2>2. p = Append(queue_results, e)
    BY <1>2, <1>5, <1>9, <2>1 DEF Sent, e
  <2>3. Linked(queue_results, e.id, t) /\ Reaches(queue_results, e.id, t, e.from)
    BY <1>1, <1>4, <1>5, <1>9 DEF StreamOK
  <2> QED BY <1>3, <1>5, <1>9, <2>2, <2>3, PieceAdded
<1>10. Linked(queue_results', id, t)
  <2>1. Linked(queue_results, id, t)
    BY DEF StreamOK
  <2> QED BY <1>2, <1>7, <1>8, <1>9, <2>1 DEF Carries
<1>11. ASSUME NEW u \in Slots, Holds(slots', u, id), shape[id.req].stream
       PROVE  Reaches(queue_results', id, t, slots'[u].n_sent)
  <2>1. CASE u # s
    <3>1. Holds(slots, u, id) /\ slots'[u].n_sent = slots[u].n_sent
      BY <1>11, <2>1 DEF Samples, SlotGoes, Holds
    <3>2. id # a
      BY <1>4, <2>1, <3>1, OneHolder
    <3>3. Reaches(queue_results, id, t, slots[u].n_sent)
      BY <1>11, <3>1 DEF StreamOK
    <3> QED BY <1>7, <1>8, <3>1, <3>2, <3>3 DEF Carries
  <2>2. CASE u = s
    <3>1. id = a /\ slots'[s].n_sent = IF held THEN k ELSE n
      BY <1>1, <1>2, <1>4, <1>11, <2>2 DEF MainStream, SlotKeeps, Holds
    <3>2. CASE held
      <4>1. Reaches(queue_results, id, t, k) /\ p = queue_results
        BY <1>1, <1>2, <1>4, <1>11, <3>1, <3>2 DEF StreamOK
      <4> QED BY <1>7, <2>2, <3>1, <3>2, <4>1 DEF Carries
    <3>3. CASE ~held
      BY <1>7, <1>9, <1>11, <2>2, <3>1, <3>3 DEF Carries
    <3> QED BY <3>2, <3>3
  <2> QED BY <2>1, <2>2
<1>12. ASSUME p2 # 0, \A u \in Slots : ~Holds(slots', u, id)
       PROVE  Reaches(queue_results', id, t, 0)
  <2>1. Places(id) # 0 /\ \A u \in Slots : ~Holds(slots, u, id)
    BY <1>12
  <2>2. Reaches(queue_results, id, t, 0) /\ id # a
    BY <1>4, <2>1 DEF StreamOK
  <2> QED BY <1>7, <1>8, <2>2 DEF Carries
<1> QED BY <1>10, <1>11, <1>12 DEF StreamOK

LEMMA MainKeepsStreams ==
  ASSUME Inv, TaskInv, TaskInv', MainLoop, StreamsOK
  PROVE  StreamsOK'
<1>1. MainStream
  BY MainStreams
<1>2. /\ shape' = shape /\ http' = http /\ got' = got /\ queue_results \in Seq(Result)
  BY <1>1 DEF MainStream, TaskInv, RequestsTyped
<1>3. ASSUME NEW id \in TaskId, Asks(shape, id), http[id.req] = "receiving"
      PROVE  StreamOK(shape, queue_results', Text(id), slots', Places(id)', id)
  <2>1. StreamOK(shape, queue_results, Text(id), slots, Places(id), id)
    BY <1>3 DEF StreamsOK
  <2>2. Places(id) <= 1
        /\ (Places(id)' # 0 /\ (\A s \in Slots : ~Holds(slots', s, id))
              => Places(id) # 0 /\ (\A s \in Slots : ~Holds(slots, s, id)))
    BY <1>1, <1>3, MainPlaces
  <2>3. CASE Goes
    BY <1>2, <2>1, <2>2, <2>3, GoesStream
  <2>4. ASSUME NEW s \in Slots, Launches(s)
        PROVE  StreamOK(shape, queue_results', Text(id), slots', Places(id)', id)
    BY <2>1, <2>2, <2>4, LaunchesStream
  <2>5. ASSUME NEW s \in Slots, Samples(s)
        PROVE  StreamOK(shape, queue_results', Text(id), slots', Places(id)', id)
    BY <1>1, <1>3, <2>1, <2>2, <2>5, SamplesStream
  <2> QED BY <1>1, <2>3, <2>4, <2>5 DEF MainStream
<1>4. \A id : Text(id)' = Text(id)
  BY <1>2 DEF Text
<1> QED BY <1>2, <1>3, <1>4 DEF StreamsOK

\* What a step of the thread of request r does to the texts: the request comes to x and
\* has received y; of the results only its own are taken out; and no other request's
\* task moves.
Reads(r, x, y, f) ==
  /\ UNCHANGED <<shape, slots>>
  /\ http' = [http EXCEPT ![r] = x] /\ got' = [got EXCEPT ![r] = y]
  /\ queue_results' \in Seq(Result) /\ Follows(queue_results, queue_results', f)
  /\ \A j \in DOMAIN queue_results : queue_results[j].id.req # r
       => \E k \in DOMAIN queue_results' : f[k] = j
  /\ \A id \in TaskId : id.req # r => Places(id)' = Places(id)
TextOK(r, x, y) ==
  /\ DOMAIN y.text = 1 .. shape[r].tasks
  /\ x \in {"new", "registered"} => \A n \in 1 .. shape[r].tasks : y.text[n] = 0
Continues(r, y) ==
  \A id \in TaskId : id.req = r /\ Asks(shape, id) =>
    StreamOK(shape, queue_results', y.text[id.n], slots, Places(id)', id)
StreamInv == TextsOK /\ StreamsOK

LEMMA ReadsKeep ==
  ASSUME TaskInv, StreamInv, NEW r \in Requests, NEW x, NEW y, NEW f,
         Reads(r, x, y, f), TextOK(r, x, y), x = "receiving" => Continues(r, y)
  PROVE  StreamInv'
<1>1. /\ http \in [Requests -> Http] /\ got \in [Requests -> Gained]
      /\ queue_results \in Seq(Result)
  BY DEF TaskInv, RequestsTyped
<1>2. /\ http' = [http EXCEPT ![r] = x] /\ got' = [got EXCEPT ![r] = y]
      /\ shape' = shape /\ slots' = slots /\ queue_results' \in Seq(Result)
  BY DEF Reads
<1>3. /\ http'[r] = x /\ got'[r] = y
      /\ \A p \in Requests : p # r => http'[p] = http[p] /\ got'[p] = got[p]
  BY <1>1, <1>2
<1>4. TextsOK'
  <2> SUFFICES ASSUME NEW p \in Requests
               PROVE  /\ DOMAIN got'[p].text = 1 .. shape[p].tasks
                      /\ http'[p] \in {"new", "registered"}
                           => \A n \in 1 .. shape[p].tasks : got'[p].text[n] = 0
    BY <1>2 DEF TextsOK
  <2>1. CASE p = r
    BY <1>3, <2>1 DEF TextOK
  <2>2. CASE p # r
    BY <1>3, <2>2 DEF StreamInv, TextsOK
  <2> QED BY <2>1, <2>2
<1>5. ASSUME NEW id \in TaskId, Asks(shape, id), http'[id.req] = "receiving"
      PROVE  StreamOK(shape, queue_results', got'[id.req].text[id.n], slots, Places(id)', id)
  <2>1. CASE id.req = r
    BY <1>3, <1>5, <2>1 DEF Continues
  <2>2. CASE id.req # r
    <3>1. http'[id.req] = http[id.req] /\ got'[id.req] = got[id.req]
      BY <1>3, <2>2 DEF TaskId
    <3>2. PICK t : t = got[id.req].text[id.n]
      OBVIOUS
    <3>3. StreamOK(shape, queue_results, t, slots, Places(id), id)
      BY <1>5, <3>1, <3>2 DEF StreamInv, StreamsOK, Text
    <3>4. Places(id)' = Places(id)
      BY <2>2 DEF Reads
    <3>5. Carries(queue_results, queue_results', id, t)
      <4>1. \A j \in Partials(queue_results, id) : \E k \in DOMAIN queue_results' : f[k] = j
        BY <2>2 DEF Reads, Partials
      <4>2. Follows(queue_results, queue_results', f)
        BY DEF Reads
      <4> QED BY <1>1, <1>2, <4>1, <4>2, PiecesFollow DEF Carries
    <3>6. StreamOK(shape, queue_results', t, slots, Places(id)', id)
      BY <3>3, <3>4, <3>5 DEF StreamOK, Carries
    <3> QED BY <3>1, <3>2, <3>6
  <2> QED BY <2>1, <2>2
<1>6. StreamsOK'
  <2> SUFFICES ASSUME NEW id \in TaskId, Asks(shape, id), http'[id.req] = "receiving"
               PROVE  StreamOK(shape, queue_results', Text(id)', slots, Places(id)', id)
    BY <1>2 DEF StreamsOK
  <2>1. Text(id)' = got'[id.req].text[id.n]
    BY DEF Text
  <2> QED BY <1>5, <2>1
<1> QED BY <1>4, <1>6 DEF StreamInv

\* The tasks stay.
LEMMA TasksStay ==
  ASSUME Inv, NEW r \in Requests, Request(r), UNCHANGED tasks
  PROVE  UNCHANGED <<shape, slots, main>> /\ \A id : Places(id)' = Places(id)
<1>1. UNCHANGED <<shape, slots, main>>
  BY RequestSteps
<1> QED BY <1>1, PlacesStay

\* What was received so far.
LEMMA TextSame ==
  ASSUME TaskInv, StreamInv, NEW r \in Requests, NEW x, x \notin {"new", "registered"} \/ x = http[r]
  PROVE  TextOK(r, x, got[r]) /\ got = [got EXCEPT ![r] = got[r]]
BY GotTyped DEF StreamInv, TextsOK, TextOK

LEMMA RegisterStream ==
  ASSUME Inv, TaskInv, StreamInv, NEW r \in Requests, Register(r)
  PROVE  StreamInv'
<1>1. /\ http[r] = "new" /\ http' = [http EXCEPT ![r] = "registered"] /\ got' = got
      /\ queue_results' = queue_results /\ UNCHANGED tasks /\ Request(r)
  BY DEF Register, Request
<1>2. queue_results \in Seq(Result)
  BY DEF TaskInv, RequestsTyped
<1>3. PICK f : /\ Follows(queue_results, queue_results', f)
               /\ \A j \in DOMAIN queue_results : queue_results[j].id.req # r
                    => \E k \in DOMAIN queue_results' : f[k] = j
  BY <1>1, <1>2, NoneFiltered
<1>4. UNCHANGED <<shape, slots, main>> /\ \A id : Places(id)' = Places(id)
  BY <1>1, TasksStay
<1>5. TextOK(r, "new", got[r]) /\ got = [got EXCEPT ![r] = got[r]]
  BY <1>1, TextSame
<1>6. TextOK(r, "registered", got[r])
  BY <1>5 DEF TextOK
<1>7. Reads(r, "registered", got[r], f)
  BY <1>1, <1>2, <1>3, <1>4, <1>5 DEF Reads
<1> QED BY <1>6, <1>7, ReadsKeep

LEMMA PostStream ==
  ASSUME Inv, TaskInv, StreamInv, NEW r \in Requests, Post(r)
  PROVE  StreamInv'
<1>1. /\ http[r] = "registered" /\ http' = [http EXCEPT ![r] = "receiving"] /\ got' = got
      /\ queue_results' = queue_results /\ UNCHANGED <<shape, slots>>
  BY DEF Post, results
<1>2. queue_results \in Seq(Result)
  BY DEF TaskInv, RequestsTyped
<1>3. PICK f : /\ Follows(queue_results, queue_results', f)
               /\ \A j \in DOMAIN queue_results : queue_results[j].id.req # r
                    => \E k \in DOMAIN queue_results' : f[k] = j
  BY <1>1, <1>2, NoneFiltered
<1>4. \A id \in TaskId : id.req # r => Places(id)' = Places(id)
  <2> SUFFICES ASSUME NEW id \in TaskId, id.req # r PROVE Places(id)' = Places(id)
    OBVIOUS
  <2>1. Places(id)' = Places(id) + IF id.req = r /\ Asks(shape, id) THEN 1 ELSE 0
    BY PostPlaces
  <2>2. Places(id) \in Nat
    BY PlacesTyped, PlacesAre DEF Inv, Typed
  <2> QED BY <2>1, <2>2
<1>5. TextOK(r, "registered", got[r]) /\ got = [got EXCEPT ![r] = got[r]]
  BY <1>1, TextSame
<1>6. TextOK(r, "receiving", got[r])
  BY <1>5 DEF TextOK
<1>7. Reads(r, "receiving", got[r], f)
  BY <1>1, <1>2, <1>3, <1>4, <1>5 DEF Reads
<1>8. Continues(r, got[r])
  <2> SUFFICES ASSUME NEW id \in TaskId, id.req = r, Asks(shape, id)
               PROVE  StreamOK(shape, queue_results, got[r].text[id.n], slots, Places(id)', id)
    BY <1>1 DEF Continues
  <2>1. Partials(queue_results, id) = {}
    BY <1>1, NoResults DEF Partials
  <2>2. got[r].text[id.n] = 0
    BY <1>5 DEF TextOK, Asks
  <2>3. \A s \in Slots : ~Holds(slots, s, id)
    <3>1. ~Known(shape, http, id) /\ id # NoTask
      BY <1>1, NoTaskAssumption DEF Known, TaskId
    <3> QED BY <3>1 DEF TaskInv, EntriesOK, Holds
  <2> QED BY <2>1, <2>2, <2>3 DEF StreamOK, Linked, Reaches
<1> QED BY <1>6, <1>7, <1>8, ReadsKeep

LEMMA PartialStream ==
  ASSUME Inv, TaskInv, StreamInv, NEW r \in Requests, ReceivePartial(r)
  PROVE  StreamInv'
<1> DEFINE i == FirstFor(r)
           e == queue_results[i]
<1>1. /\ HasResult(r, "partial") /\ queue_results' = Without(queue_results, FirstFor(r))
      /\ got' = [got EXCEPT ![r].text[e.id.n] = e.upto]
      /\ http' = http /\ UNCHANGED tasks /\ Request(r)
  BY DEF ReceivePartial, Request
<1>2. /\ http[r] = "receiving" /\ queue_results' \in Seq(Result) /\ i \in DOMAIN queue_results
      /\ e \in Result /\ e.id \in TaskId /\ e.id.req = r /\ e.kind = "partial"
      /\ Asks(shape, e.id)
  BY <1>1, Received
<1>3. PICK f :
        /\ Follows(queue_results, queue_results', f)
        /\ \A k \in DOMAIN queue_results' :
             /\ f[k] # i
             /\ queue_results'[k].id.req = r => i < f[k]
        /\ \A j \in DOMAIN queue_results : j # i => \E k \in DOMAIN queue_results' : f[k] = j
  BY <1>1, Received
<1>4. UNCHANGED <<shape, slots, main>> /\ \A id : Places(id)' = Places(id)
  BY <1>1, TasksStay
<1>5. /\ queue_results \in Seq(Result) /\ http \in [Requests -> Http] /\ got[r] \in Gained
  BY GotTyped DEF TaskInv, RequestsTyped
<1>6. TextOK(r, "receiving", got[r])
  BY TextSame
<1>7. PICK n, u : n = e.id.n /\ u = e.upto
  OBVIOUS
<1> DEFINE y == [got[r] EXCEPT !.text = [got[r].text EXCEPT ![n] = u]]
<1>8. got' = [got EXCEPT ![r] = y]
  BY <1>1, <1>7
<1>9. y.text = [got[r].text EXCEPT ![n] = u]
  BY <1>5 DEF Gained
<1> HIDE DEF y
<1>10. TextOK(r, "receiving", y)
  BY <1>6, <1>9 DEF TextOK
<1>11. Reads(r, "receiving", y, f)
  <2>1. http' = [http EXCEPT ![r] = "receiving"]
    BY <1>1, <1>2, <1>5
  <2>2. \A j \in DOMAIN queue_results : queue_results[j].id.req # r
          => \E k \in DOMAIN queue_results' : f[k] = j
    BY <1>2, <1>3
  <2> QED BY <1>2, <1>3, <1>4, <1>8, <2>1, <2>2 DEF Reads
<1>12. Continues(r, y)
  <2> SUFFICES ASSUME NEW id \in TaskId, id.req = r, Asks(shape, id)
               PROVE  StreamOK(shape, queue_results', y.text[id.n], slots, Places(id)', id)
    BY DEF Continues
  <2>0. PICK t : t = got[r].text[id.n]
    OBVIOUS
  <2>1. StreamOK(shape, queue_results, t, slots, Places(id), id)
    BY <1>2, <2>0 DEF StreamInv, StreamsOK, Text
  <2>2. CASE id = e.id
    <3>1. y.text[id.n] = e.upto
      BY <1>6, <1>7, <1>9, <2>2 DEF TextOK, Asks
    <3>2. i \in Partials(queue_results, id)
      BY <1>2, <2>2 DEF Partials
    <3>3. \A k \in Partials(queue_results', id) : i < f[k]
      BY <1>3 DEF Partials
    <3>4. \A j \in Partials(queue_results, id) : j # i => \E k \in DOMAIN queue_results' : f[k] = j
      BY <1>3 DEF Partials
    <3>5. PICK h \in Partials(queue_results, id) : h = i
      BY <3>2
    <3>6. LosesFirst(queue_results, queue_results', f, h, id)
      BY <1>2, <1>3, <1>5, <3>3, <3>4, <3>5 DEF LosesFirst
    <3>7. /\ Linked(queue_results, id, t) => Linked(queue_results', id, queue_results[h].upto)
          /\ \A x : Reaches(queue_results, id, t, x)
               => Reaches(queue_results', id, queue_results[h].upto, x)
      BY <3>6, PieceTaken
    <3>8. queue_results[h].upto = e.upto
      BY <3>5
    <3>9. y.text[id.n] = queue_results[h].upto
      BY <3>1, <3>8
    <3> HIDE DEF i
    <3> QED BY <1>4, <2>1, <3>7, <3>9 DEF StreamOK
  <2>3. CASE id # e.id
    <3>1. y.text[id.n] = t
      <4>1. id.n # n
        BY <1>2, <1>7, <2>3, SameTask
      <4> QED BY <1>6, <1>9, <2>0, <4>1 DEF TextOK, Asks
    <3>2. \A j \in Partials(queue_results, id) : \E k \in DOMAIN queue_results' : f[k] = j
      BY <1>3, <2>3 DEF Partials
    <3>3. Carries(queue_results, queue_results', id, t)
      BY <1>2, <1>3, <1>5, <3>2, PiecesFollow DEF Carries
    <3> QED BY <1>4, <2>1, <3>1, <3>3 DEF StreamOK, Carries
  <2> QED BY <2>2, <2>3
<1> QED BY <1>10, <1>11, <1>12, ReadsKeep

LEMMA FinalStream ==
  ASSUME Inv, TaskInv, StreamInv, NEW r \in Requests, ReceiveFinal(r)
  PROVE  StreamInv'
<1> DEFINE i == FirstFor(r)
           e == queue_results[i]
<1>1. /\ HasResult(r, "final") /\ queue_results' = Without(queue_results, FirstFor(r))
      /\ UNCHANGED tasks /\ Request(r)
  BY DEF ReceiveFinal, Request
<1>2. /\ http[r] = "receiving" /\ queue_results' \in Seq(Result) /\ i \in DOMAIN queue_results
      /\ e.id.req = r /\ e.kind = "final"
  BY <1>1, Received
<1>3. PICK f :
        /\ Follows(queue_results, queue_results', f)
        /\ \A j \in DOMAIN queue_results : j # i => \E k \in DOMAIN queue_results' : f[k] = j
  BY <1>1, Received
<1>4. UNCHANGED <<shape, slots, main>> /\ \A id : Places(id)' = Places(id)
  BY <1>1, TasksStay
<1>5. /\ queue_results \in Seq(Result) /\ http \in [Requests -> Http]
      /\ got \in [Requests -> Gained] /\ got[r] \in Gained
  BY GotTyped DEF TaskInv, RequestsTyped
<1>6. TextOK(r, "receiving", got[r])
  BY TextSame
<1>7. PICK y : got' = [got EXCEPT ![r] = y] /\ y.text = got[r].text
  <2>1. PICK a, o : got' = [got EXCEPT ![r].finals = a, ![r].outcome = o]
    BY DEF ReceiveFinal
  <2> DEFINE y == [got[r] EXCEPT !.finals = a, !.outcome = o]
  <2>2. got' = [got EXCEPT ![r] = y]
    BY <1>5, <2>1
  <2>3. y.text = got[r].text
    BY <1>5 DEF Gained
  <2> HIDE DEF y
  <2> QED BY <2>2, <2>3
<1>8. PICK x : http' = [http EXCEPT ![r] = x] /\ x \in {"leaving", "receiving"}
  <2>1. http' = [http EXCEPT ![r] = "leaving"] \/ http' = http
    BY DEF ReceiveFinal
  <2>2. http = [http EXCEPT ![r] = "receiving"]
    BY <1>2, <1>5
  <2> QED BY <2>1, <2>2
<1>9. TextOK(r, x, y)
  BY <1>6, <1>7, <1>8 DEF TextOK
<1>10. Reads(r, x, y, f)
  <2>1. \A j \in DOMAIN queue_results : queue_results[j].id.req # r
          => \E k \in DOMAIN queue_results' : f[k] = j
    BY <1>2, <1>3
  <2> QED BY <1>2, <1>3, <1>4, <1>7, <1>8, <2>1 DEF Reads
<1>11. Continues(r, y)
  <2> SUFFICES ASSUME NEW id \in TaskId, id.req = r, Asks(shape, id)
               PROVE  StreamOK(shape, queue_results', y.text[id.n], slots, Places(id)', id)
    BY DEF Continues
  <2>0. PICK t : t = got[r].text[id.n]
    OBVIOUS
  <2>1. StreamOK(shape, queue_results, t, slots, Places(id), id)
    BY <1>2, <2>0 DEF StreamInv, StreamsOK, Text
  <2>2. \A j \in Partials(queue_results, id) : \E k \in DOMAIN queue_results' : f[k] = j
    BY <1>2, <1>3 DEF Partials
  <2>3. /\ queue_results \in Seq(Result) /\ queue_results' \in Seq(Result)
        /\ Follows(queue_results, queue_results', f)
    BY <1>2, <1>3, <1>5
  <2>4. Carries(queue_results, queue_results', id, t)
    BY <2>2, <2>3, PiecesFollow DEF Carries
  <2>5. y.text[id.n] = t /\ Places(id)' = Places(id)
    BY <1>4, <1>7, <2>0
  <2> QED BY <2>1, <2>4, <2>5 DEF StreamOK, Carries
<1> QED BY <1>9, <1>10, <1>11, ReadsKeep

\* A request that nobody waits for any more.
LEMMA EndStream ==
  ASSUME Inv, TaskInv, StreamInv, NEW r \in Requests, NEW x \in {"leaving", "cancelling", "gone"},
         UNCHANGED <<shape, slots>>, http' = [http EXCEPT ![r] = x],
         got' = got \/ \E o : got' = [got EXCEPT ![r].outcome = o],
         \/ queue_results' = queue_results \/ Forget(r)
         \/ (\E kind : HasResult(r, kind)) /\ queue_results' = Without(queue_results, FirstFor(r)),
         \A id \in TaskId : id.req # r => Places(id)' = Places(id)
  PROVE  StreamInv'
<1>1. queue_results \in Seq(Result) /\ got \in [Requests -> Gained] /\ got[r] \in Gained
  BY GotTyped DEF TaskInv, RequestsTyped
<1>2. PICK y : got' = [got EXCEPT ![r] = y] /\ y.text = got[r].text
  <2>1. CASE got' = got
    BY <1>1, <2>1
  <2>2. ASSUME NEW o, got' = [got EXCEPT ![r].outcome = o]
        PROVE  \E y : got' = [got EXCEPT ![r] = y] /\ y.text = got[r].text
    <3> DEFINE y == [got[r] EXCEPT !.outcome = o]
    <3>1. got' = [got EXCEPT ![r] = y]
      BY <1>1, <2>2
    <3>2. y.text = got[r].text
      BY <1>1 DEF Gained
    <3> HIDE DEF y
    <3> QED BY <3>1, <3>2
  <2> QED BY <2>1, <2>2
<1>3. PICK f : /\ Follows(queue_results, queue_results', f) /\ queue_results' \in Seq(Result)
               /\ \A j \in DOMAIN queue_results : queue_results[j].id.req # r
                    => \E k \in DOMAIN queue_results' : f[k] = j
  <2>1. CASE queue_results' = queue_results
    BY <1>1, <2>1, NoneFiltered
  <2>2. CASE Forget(r)
    BY <1>1, <2>2, Forgotten
  <2>3. ASSUME NEW kind, HasResult(r, kind), queue_results' = Without(queue_results, FirstFor(r))
        PROVE  \E f : /\ Follows(queue_results, queue_results', f) /\ queue_results' \in Seq(Result)
                      /\ \A j \in DOMAIN queue_results : queue_results[j].id.req # r
                           => \E k \in DOMAIN queue_results' : f[k] = j
    <3>1. queue_results' \in Seq(Result) /\ queue_results[FirstFor(r)].id.req = r
      BY <2>3, Received
    <3>2. PICK f :
            /\ Follows(queue_results, queue_results', f)
            /\ \A j \in DOMAIN queue_results : j # FirstFor(r)
                 => \E k \in DOMAIN queue_results' : f[k] = j
      BY <2>3, Received
    <3> QED BY <3>1, <3>2
  <2> QED BY <2>1, <2>2, <2>3
<1>4. TextOK(r, x, y)
  <2>1. TextOK(r, x, got[r])
    BY TextSame
  <2> QED BY <1>2, <2>1 DEF TextOK
<1>5. Reads(r, x, y, f)
  BY <1>2, <1>3 DEF Reads
<1> QED BY <1>4, <1>5, ReadsKeep

LEMMA EndsStream ==
  ASSUME Inv, TaskInv, StreamInv, NEW r \in Requests,
         ReceiveError(r) \/ GiveUp(r) \/ GiveUpUnread(r) \/ PostCancels(r) \/ Leave(r)
  PROVE  StreamInv'
<1>1. Request(r)
  BY DEF Request
<1>2. UNCHANGED <<shape, slots>>
  BY <1>1, RequestSteps
<1>3. CASE ReceiveError(r)
  <2>1. \E o : got' = [got EXCEPT ![r].outcome = o]
    BY <1>3 DEF ReceiveError
  <2>2. PICK x \in {"leaving", "cancelling", "gone"} : http' = [http EXCEPT ![r] = x]
    BY <1>3 DEF ReceiveError
  <2>3. Forget(r) \/ ((\E kind : HasResult(r, kind)) /\ queue_results' = Without(queue_results, FirstFor(r)))
    BY <1>3 DEF ReceiveError
  <2>4. \A id : Places(id)' = Places(id)
    BY <1>1, <1>3, TasksStay DEF ReceiveError
  <2> QED BY <1>2, <2>1, <2>2, <2>3, <2>4, EndStream
<1>4. CASE GiveUp(r)
  <2>1. /\ \E o : got' = [got EXCEPT ![r].outcome = o]
        /\ http' = [http EXCEPT ![r] = "cancelling"] /\ Forget(r)
    BY <1>4 DEF GiveUp
  <2>2. \A id : Places(id)' = Places(id)
    BY <1>1, <1>4, TasksStay DEF GiveUp
  <2> QED BY <1>2, <2>1, <2>2, EndStream
<1>5. CASE PostCancels(r)
  <2>1. got' = got /\ http' = [http EXCEPT ![r] = "gone"] /\ queue_results' = queue_results
    BY <1>5 DEF PostCancels, results
  <2>2. \A id \in TaskId : Places(id)' = Places(id)
    BY <1>5, CancelsPlaces
  <2> QED BY <1>2, <2>1, <2>2, EndStream
<1>6. CASE Leave(r)
  <2>1. got' = got /\ http' = [http EXCEPT ![r] = "gone"]
        /\ (Forget(r) \/ queue_results' = queue_results)
    BY <1>6 DEF Leave
  <2>2. \A id : Places(id)' = Places(id)
    BY <1>1, <1>6, TasksStay DEF Leave
  <2> QED BY <1>2, <2>1, <2>2, EndStream
<1>7. CASE GiveUpUnread(r)
  <2>1. /\ \E o : got' = [got EXCEPT ![r].outcome = o]
        /\ http' = [http EXCEPT ![r] = "leaving"] /\ queue_results' = queue_results
    BY <1>7 DEF GiveUpUnread, results
  <2>2. \A id : Places(id)' = Places(id)
    BY <1>1, <1>7, TasksStay DEF GiveUpUnread
  <2> QED BY <1>2, <2>1, <2>2, EndStream
<1> QED BY <1>3, <1>4, <1>5, <1>6, <1>7

\* A step that has nothing to do with what is sent.
LEMMA NothingStream ==
  ASSUME StreamInv, UNCHANGED <<shape, http, got, queue_results, tasks, slots, main>>
  PROVE  StreamInv'
<1>1. \A id : Places(id)' = Places(id)
  BY PlacesStay
<1>2. TextsOK'
  BY DEF StreamInv, TextsOK
<1>3. StreamsOK'
  <2> SUFFICES ASSUME NEW id \in TaskId, Asks(shape, id), http[id.req] = "receiving"
               PROVE  StreamOK(shape, queue_results, Text(id)', slots, Places(id)', id)
    BY DEF StreamsOK
  <2>1. Text(id)' = Text(id)
    BY DEF Text
  <2> QED BY <1>1, <2>1 DEF StreamInv, StreamsOK
<1> QED BY <1>2, <1>3 DEF StreamInv

LEMMA StreamInvStep ==
  ASSUME Inv, TaskInv, StreamInv, [Next]_vars
  PROVE  StreamInv'
<1>1. CASE MainLoop
  <2>1. TaskInv' /\ StreamsOK
    BY TaskInvStep DEF StreamInv
  <2>2. StreamsOK'
    BY <1>1, <2>1, MainKeepsStreams
  <2>3. UNCHANGED <<shape, http, got>>
    BY <1>1, MainStreams DEF MainStream
  <2>4. TextsOK'
    BY <2>3 DEF StreamInv, TextsOK
  <2> QED BY <2>2, <2>4 DEF StreamInv
<1>2. ASSUME NEW r \in Requests, Request(r) PROVE StreamInv'
  BY <1>2, RegisterStream, PostStream, PartialStream, FinalStream, EndsStream DEF Request
<1>3. ASSUME NEW r \in Requests, Disconnect(r) PROVE StreamInv'
  BY <1>3, NothingStream DEF Disconnect, results, tasks
<1>4. CASE UNCHANGED vars
  BY <1>4, NothingStream DEF vars, requests, results, tasks
<1> QED BY <1>1, <1>2, <1>3, <1>4 DEF Next

LEMMA StreamInit ==
  ASSUME Init
  PROVE  StreamInv
<1>1. \A r \in Requests :
        /\ http[r] = "new" /\ DOMAIN got[r].text = 1 .. shape[r].tasks
        /\ \A n \in 1 .. shape[r].tasks : got[r].text[n] = 0
  BY DEF Init
<1>2. \A id \in TaskId : http[id.req] # "receiving"
  BY <1>1 DEF TaskId
<1> QED BY <1>1, <1>2 DEF StreamInv, TextsOK, StreamsOK

\* Of linked pieces, the first begins at t, each at the end of the one before, and
\* where the last one ends the slot is.
LEMMA PiecesInOrder ==
  ASSUME NEW q \in Seq(Result), NEW id, NEW t, Linked(q, id, t),
         NEW p, p = Part(q, Partials(q, id))
  PROVE  /\ Len(p) \in Nat
         /\ \A k \in 1 .. Len(p) : p[k].from = IF k = 1 THEN t ELSE p[k - 1].upto
         /\ \A x : Reaches(q, id, t, x) => x = IF Len(p) = 0 THEN t ELSE p[Len(p)].upto
<1> DEFINE S == Partials(q, id)
           N == Cardinality(S)
           g(k) == Place(S, k)
<1>1. /\ Len(p) = N /\ N \in Nat /\ DOMAIN p = 1 .. N
      /\ \A k \in 1 .. N : g(k) \in S /\ p[k] = q[g(k)]
      /\ \A k, l \in 1 .. N : k < l => g(k) < g(l)
      /\ \A i \in S : \E k \in 1 .. N : g(k) = i
  <2>1. S \in SUBSET DOMAIN q
    BY DEF Partials
  <2>2. p = Part(q, S)
    OBVIOUS
  <2> HIDE DEF S
  <2>3. /\ Len(Part(q, S)) = Cardinality(S) /\ Cardinality(S) \in Nat
        /\ DOMAIN Part(q, S) = 1 .. Cardinality(S)
        /\ \A k \in DOMAIN Part(q, S) : Place(S, k) \in S /\ Part(q, S)[k] = q[Place(S, k)]
        /\ \A k, l \in DOMAIN Part(q, S) : k < l => Place(S, k) < Place(S, l)
        /\ \A i \in S : \E k \in DOMAIN Part(q, S) : Place(S, k) = i
    BY <2>1, PartProperties
  <2> QED BY <2>2, <2>3
<1>2. \A i \in S : i \in Nat
  BY DEF Partials
<1>3. \A k, l \in 1 .. N : g(k) < g(l) => k < l
  <2> HIDE DEF S, g, N
  <2>1. \A k \in 1 .. N : g(k) \in Nat
    BY <1>1, <1>2
  <2>2. ASSUME NEW k \in 1 .. N, NEW l \in 1 .. N, g(k) < g(l), ~(k < l) PROVE FALSE
    <3>1. g(k) \in Nat /\ g(l) \in Nat /\ k \in Int /\ l \in Int
      BY <1>1, <2>1
    <3>2. CASE k = l
      BY <2>2, <3>1, <3>2
    <3>3. CASE l < k
      BY <1>1, <2>2, <3>1, <3>3
    <3> QED BY <2>2, <3>1, <3>2, <3>3
  <2> QED BY <2>2
<1>4. ASSUME NEW k \in 1 .. N PROVE p[k].from = IF k = 1 THEN t ELSE p[k - 1].upto
  <2> HIDE DEF S, g, N
  <2>1. CASE k = 1
    <3>1. \A i \in S : g(1) <= i
      <4> SUFFICES ASSUME NEW l \in 1 .. N PROVE g(1) <= g(l)
        BY <1>1
      <4>1. 1 \in 1 .. N /\ g(1) \in Nat /\ g(l) \in Nat
        BY <1>1, <1>2, <2>1
      <4>2. l = 1 \/ 1 < l
        OBVIOUS
      <4> QED BY <1>1, <4>1, <4>2
    <3>2. g(1) \in S /\ p[1] = q[g(1)]
      BY <1>1, <2>1
    <3> QED BY <2>1, <3>1, <3>2 DEF Linked, S
  <2>2. CASE k # 1
    <3>1. k - 1 \in 1 .. N /\ k - 1 < k
      BY <1>1, <2>2
    <3>2. /\ g(k - 1) \in S /\ g(k) \in S /\ g(k - 1) < g(k)
          /\ p[k] = q[g(k)] /\ p[k - 1] = q[g(k - 1)]
      BY <1>1, <3>1
    <3>3. \A i \in S : i <= g(k - 1) \/ g(k) <= i
      <4> SUFFICES ASSUME NEW l \in 1 .. N PROVE g(l) <= g(k - 1) \/ g(k) <= g(l)
        BY <1>1
      <4>1. g(l) \in Nat /\ g(k) \in Nat /\ g(k - 1) \in Nat
        BY <1>1, <1>2, <3>1
      <4>2. l <= k - 1 \/ k <= l
        OBVIOUS
      <4>3. g(l) <= g(k - 1) \/ g(k) < g(l) \/ g(k) = g(l)
        <5>1. CASE l < k - 1
          BY <1>1, <3>1, <4>1, <5>1
        <5>2. CASE k < l
          BY <1>1, <5>2
        <5>3. CASE l = k - 1 \/ l = k
          BY <4>1, <5>3
        <5> QED BY <1>1, <4>2, <5>1, <5>2, <5>3
      <4> QED BY <4>1, <4>3
    <3> QED BY <2>2, <3>2, <3>3 DEF Linked, S
  <2> QED BY <2>1, <2>2
<1>5. ASSUME NEW x, Reaches(q, id, t, x) PROVE x = IF N = 0 THEN t ELSE p[N].upto
  <2> HIDE DEF S, g, N
  <2>1. CASE N = 0
    <3>1. S = {}
      BY <1>1, <2>1
    <3> QED BY <1>5, <2>1, <3>1 DEF Reaches, S
  <2>2. CASE N # 0
    <3>1. N \in 1 .. N
      BY <1>1, <2>2
    <3>2. g(N) \in S /\ p[N] = q[g(N)]
      BY <1>1, <3>1
    <3>3. \A i \in S : i <= g(N)
      <4> SUFFICES ASSUME NEW l \in 1 .. N PROVE g(l) <= g(N)
        BY <1>1
      <4>1. g(l) \in Nat /\ g(N) \in Nat
        BY <1>1, <1>2, <3>1
      <4>2. l < N \/ l = N
        BY <1>1
      <4> QED BY <1>1, <3>1, <4>1, <4>2
    <3> QED BY <1>5, <2>2, <3>2, <3>3 DEF Reaches, S
  <2> QED BY <2>1, <2>2
<1> HIDE DEF S, g, N
<1> QED BY <1>1, <1>4, <1>5

LEMMA StreamsHold ==
  ASSUME Inv, TaskInv, StreamInv
  PROVE  StreamInOrder
<1> SUFFICES ASSUME NEW r \in Requests, http[r] = "receiving", NEW id \in Ids(r)
             PROVE  LET pieces == Part(queue_results, Replies(id, {"partial"}))
                        ends == [k \in 0 .. Len(pieces) |->
                                   IF k = 0 THEN got[r].text[id.n] ELSE pieces[k].upto]
                    IN /\ \A k \in 1 .. Len(pieces) : pieces[k].from = ends[k - 1]
                       /\ \A s \in Processing : slots[s].id_task = id /\ shape[r].stream =>
                            slots[s].n_sent = ends[Len(pieces)]
  BY DEF StreamInOrder
<1>1. id \in TaskId /\ id.req = r /\ Asks(shape, id)
  BY DEF Ids, Id, TaskId, Asks
<1>2. Replies(id, {"partial"}) = Partials(queue_results, id)
  BY DEF Replies, Partials
<1>3. PICK t, p : t = got[r].text[id.n] /\ p = Part(queue_results, Replies(id, {"partial"}))
  OBVIOUS
<1>4. StreamOK(shape, queue_results, t, slots, Places(id), id)
  BY <1>1, <1>3 DEF StreamInv, StreamsOK, Text
<1>5. queue_results \in Seq(Result)
  BY DEF TaskInv, RequestsTyped
<1>6. /\ Len(p) \in Nat
      /\ \A k \in 1 .. Len(p) : p[k].from = IF k = 1 THEN t ELSE p[k - 1].upto
      /\ \A x : Reaches(queue_results, id, t, x) => x = IF Len(p) = 0 THEN t ELSE p[Len(p)].upto
  <2>1. Linked(queue_results, id, t)
    BY <1>4 DEF StreamOK
  <2>2. p = Part(queue_results, Partials(queue_results, id))
    BY <1>2, <1>3
  <2> QED BY <1>5, <2>1, <2>2, PiecesInOrder
<1>7. \A s \in Processing : slots[s].id_task = id /\ shape[r].stream
        => Reaches(queue_results, id, t, slots[s].n_sent)
  BY <1>1, <1>4 DEF StreamOK, Holds, Processing
<1> DEFINE ends == [k \in 0 .. Len(p) |-> IF k = 0 THEN t ELSE p[k].upto]
<1>8. \A k \in 1 .. Len(p) : ends[k - 1] = IF k = 1 THEN t ELSE p[k - 1].upto
  BY <1>6
<1>9. ends[Len(p)] = IF Len(p) = 0 THEN t ELSE p[Len(p)].upto
  BY <1>6
<1> HIDE DEF ends
<1>10. /\ \A k \in 1 .. Len(p) : p[k].from = ends[k - 1]
       /\ \A s \in Processing : slots[s].id_task = id /\ shape[r].stream =>
            slots[s].n_sent = ends[Len(p)]
  BY <1>6, <1>7, <1>8, <1>9
<1> QED BY <1>3, <1>10 DEF ends

\* Whatever the requests, the slots and the schedule: the text of a stream reaches the
\* client in order and without a gap, however far its pieces are behind the slot that
\* sends them, and whatever else is sent, released, cancelled or given up meanwhile
\* (send_partial_response and process_token of server.cpp, and recv of server_response).
THEOREM StreamAlwaysInOrder == Spec => []StreamInOrder
<1>1. Init => TaskInv /\ StreamInv
  BY TaskInit, StreamInit
<1>2. Inv /\ (TaskInv /\ StreamInv) /\ [Next]_vars => (TaskInv /\ StreamInv)'
  BY TaskInvStep, StreamInvStep
<1>3. Inv /\ (TaskInv /\ StreamInv) => StreamInOrder
  BY StreamsHold
<1> HIDE DEF TaskInv, StreamInv
<1> QED BY <1>1, <1>2, <1>3, InvAlways, PTL DEF Spec
=============================================================================
