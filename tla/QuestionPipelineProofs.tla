----------------------- MODULE QuestionPipelineProofs -----------------------
(***************************************************************************)
(* HistoryOK, PagesRemember and ClearedStaysCleared of QuestionPipeline,   *)
(* for any numbers of tabs, users and questions, any length of a           *)
(* conversation, and any order of failures, restarts and deletions.        *)
(*                                                                         *)
(* The inductive invariant IInv has a part for each side of the system.    *)
(*                                                                         *)
(* The page (PageOK): every chat, those in the tabs and the one in         *)
(* localStorage, holds messages of its session, whoever asked, except      *)
(* those that strayed; what was shown when a question was asked is of the  *)
(* question's session; and a session that a tab has cleared is neither in  *)
(* the tab nor in localStorage, where the tab could find it again.         *)
(*                                                                         *)
(* The server (ServerOK): a question is logged once; the rows of the       *)
(* history are, in order, the logged questions that were not deleted; and  *)
(* a conversation is, in places of the log, a part of the log without a    *)
(* hole (ConversationOf).  The last follows from the second in the step    *)
(* that reads the rows, and then stays, as the log only grows.             *)
(*                                                                         *)
(* The steps of one side leave the other alone (PageOnly, Handled,         *)
(* Deleted), so that each action is looked at once on its own side.        *)
(***************************************************************************)
EXTENDS QuestionPipeline, OperatorTheorems

Stages == {"sent", "thinking", "answered", "logged", "unlogged", "failed"}
Message == [role : {"user", "assistant"}, ask : Nat]
ChatState == [session : Nat \cup {Nothing}, messages : Seq(Message)]
TabState == [open : BOOLEAN, loading : BOOLEAN, chat : ChatState]
Request == [user : Users, session : Nat, page : Tabs \cup {Nothing}, kind : {"course", "file"},
            stage : Stages, conv : Seq(Nat), upto : Nat, shown : SUBSET Nat]
Row == [id : Nat, user : Users, session : Nat, ask : Nat]

Typed ==
  /\ who \in Users /\ store \in ChatState /\ tab \in [Tabs -> TabState]
  /\ asks \in Seq(Request) /\ Len(asks) <= MaxAsks
  /\ rows \in Seq(Row) /\ logged \in Seq(Nat)
  /\ minutes \in [Users -> [Subjects -> Nat]]
  /\ fresh \in 0 .. Len(asks)
  /\ gone \subseteq Asked /\ stray \subseteq Asked
  /\ cleared \in [Tabs -> SUBSET (1 .. fresh)]

\* What a request refers to is there.
AsksOK ==
  \A n \in Asked :
    /\ asks[n].session \in 1 .. fresh /\ asks[n].shown \subseteq Asked
    /\ asks[n].upto \in 0 .. Len(logged)
    /\ asks[n].stage = "sent" => asks[n].conv = << >> /\ asks[n].upto = 0

\* The messages of a chat are of its session, but for those that strayed.
GoodChat(chat, requests, strayed, sessions) ==
  /\ chat.session \in (1 .. sessions) \cup {Nothing}
  /\ \A m \in AsksIn(chat.messages) : m \in DOMAIN requests
  /\ \A m \in AsksIn(chat.messages) \ strayed : requests[m].session = chat.session
ChatOK(chat) == GoodChat(chat, asks, stray, fresh)
ChatsOK == ChatOK(store) /\ \A t \in Tabs : ChatOK(tab[t].chat)

\* What a page showed when it asked is of the same session.
ShownOK == \A n \in Asked : \A m \in asks[n].shown \ stray : asks[m].session = asks[n].session

\* A session that a tab has cleared is not in localStorage either.
SessionsOK == \A t \in Tabs : store.session \notin cleared[t] /\ tab[t].chat.session \notin cleared[t]
\* What the chat page keeps.
PageOK == ChatsOK /\ AsksOK /\ ShownOK /\ SessionsOK

\* Each question is logged once, when its stage says so, and only what was logged
\* is deleted.
LoggedOK ==
  /\ \A i \in DOMAIN logged : logged[i] \in Asked
  /\ \A i, j \in DOMAIN logged : logged[i] = logged[j] => i = j
  /\ \A n \in Asked : asks[n].stage = "logged" <=> \E i \in DOMAIN logged : logged[i] = n
  /\ \A n \in gone : \E i \in DOMAIN logged : logged[i] = n

\* The i-th row is the exchange of question logged[k].
IsRowOf(i, k) ==
  /\ rows[i].ask = logged[k]
  /\ rows[i].user = asks[logged[k]].user /\ rows[i].session = asks[logged[k]].session

\* The rows are the exchanges that were logged and not deleted, in this order, with
\* growing ids.
RowsOK ==
  /\ \A i \in DOMAIN rows : \E k \in DOMAIN logged : IsRowOf(i, k) /\ logged[k] \notin gone
  /\ \A k \in DOMAIN logged : logged[k] \in gone \/ \E i \in DOMAIN rows : IsRowOf(i, k)
  /\ \A i, j \in DOMAIN rows : i < j => rows[i].id < rows[j].id
  /\ \A i, j \in DOMAIN rows, k, l \in DOMAIN logged :
       i < j /\ IsRowOf(i, k) /\ IsRowOf(j, l) => k < l

\* ConversationSound, said with places in the log.
ConversationOf(n) ==
  /\ \A i \in DOMAIN asks[n].conv :
       \E k \in 1 .. asks[n].upto : logged[k] = asks[n].conv[i] /\ SameChat(logged[k], n)
  /\ \A i, j \in DOMAIN asks[n].conv, k, l \in DOMAIN logged :
       i < j /\ logged[k] = asks[n].conv[i] /\ logged[l] = asks[n].conv[j] => k < l
  /\ \A k \in 1 .. asks[n].upto : SameChat(logged[k], n) =>
       \/ logged[k] \in gone
       \/ \E i \in DOMAIN asks[n].conv : asks[n].conv[i] = logged[k]
       \/ /\ Len(asks[n].conv) = Recent
          /\ \A i \in DOMAIN asks[n].conv, l \in DOMAIN logged : logged[l] = asks[n].conv[i] => k < l

\* What the server keeps: the log, the history, the conversations.
ServerOK == LoggedOK /\ RowsOK /\ \A n \in Asked : ConversationOf(n)

\* The inductive invariant.
IInv == Typed /\ PageOK /\ ServerOK /\ StudyCounted

\* What is never changed of a question once it was asked.
SameQuestion(a, b) == a.user = b.user /\ a.session = b.session /\ a.kind = b.kind /\ a.shown = b.shown
SameQuestions(as, bs) == Len(as) <= Len(bs) /\ \A n \in 1 .. Len(as) : SameQuestion(as[n], bs[n])
-----------------------------------------------------------------------------
\* One element of a sequence is replaced.
LEMMA ReplaceOne ==
  ASSUME NEW T, NEW s \in Seq(T), NEW n \in DOMAIN s, NEW r \in T
  PROVE  /\ [s EXCEPT ![n] = r] \in Seq(T) /\ Len([s EXCEPT ![n] = r]) = Len(s)
         /\ [s EXCEPT ![n] = r][n] = r
         /\ \A k \in DOMAIN s : k # n => [s EXCEPT ![n] = r][k] = s[k]
OBVIOUS

\* Every element of a sequence is replaced.
LEMMA ReplaceAll ==
  ASSUME NEW T, NEW s \in Seq(T), NEW f, f \in [DOMAIN s -> T]
  PROVE  f \in Seq(T) /\ Len(f) = Len(s) /\ DOMAIN f = DOMAIN s
<1>1. Len(s) \in Nat /\ DOMAIN s = 1 .. Len(s)
  OBVIOUS
<1>2. f \in [1 .. Len(s) -> T]
  BY <1>1
<1> QED BY <1>1, <1>2

\* One element is added.
LEMMA AppendOne ==
  ASSUME NEW T, NEW s \in Seq(T), NEW r \in T
  PROVE  /\ Append(s, r) \in Seq(T) /\ Len(Append(s, r)) = Len(s) + 1
         /\ Append(s, r)[Len(s) + 1] = r
         /\ \A k \in 1 .. Len(s) : Append(s, r)[k] = s[k]
OBVIOUS

\* A question that is asked is a request with the fields of one.
LEMMA RequestFields ==
  ASSUME Typed, NEW n \in Asked
  PROVE  /\ n \in 1 .. Len(asks) /\ n \in Nat /\ asks[n] \in Request
         /\ asks[n].user \in Users /\ asks[n].session \in Nat /\ asks[n].page \in Tabs \cup {Nothing}
         /\ asks[n].kind \in {"course", "file"} /\ asks[n].stage \in Stages
         /\ asks[n].conv \in Seq(Nat) /\ asks[n].upto \in Nat /\ asks[n].shown \in SUBSET Nat
<1>1. n \in 1 .. Len(asks) /\ n \in Nat /\ asks[n] \in Request
  BY DEF Typed, Asked
<1>2. \A r \in Request : /\ r.user \in Users /\ r.session \in Nat /\ r.page \in Tabs \cup {Nothing}
         /\ r.kind \in {"course", "file"} /\ r.stage \in Stages
         /\ r.conv \in Seq(Nat) /\ r.upto \in Nat /\ r.shown \in SUBSET Nat
  BY DEF Request
<1> QED BY <1>1, <1>2

\* Questions are numbered from 1.
LEMMA AskedIs == Typed => Asked = 1 .. Len(asks) /\ Len(asks) \in Nat
BY DEF Typed, Asked

\* The effect of changing one request.
LEMMA OneRequest ==
  ASSUME Typed, NEW n \in Asked, NEW r \in Request, SameQuestion(asks[n], r),
         asks' = [asks EXCEPT ![n] = r]
  PROVE  /\ asks' \in Seq(Request) /\ Len(asks') = Len(asks) /\ Asked' = Asked
         /\ SameQuestions(asks, asks')
         /\ asks'[n] = r /\ \A k \in Asked : k # n => asks'[k] = asks[k]
<1>1. asks \in Seq(Request) /\ n \in DOMAIN asks
  BY DEF Typed, Asked
<1>2. /\ asks' \in Seq(Request) /\ Len(asks') = Len(asks)
      /\ asks'[n] = r /\ \A k \in DOMAIN asks : k # n => asks'[k] = asks[k]
  BY <1>1, ReplaceOne
<1>3. Len(asks) \in Nat /\ DOMAIN asks = 1 .. Len(asks) /\ DOMAIN asks' = 1 .. Len(asks')
  BY <1>1, <1>2
<1>4. \A k \in 1 .. Len(asks) : SameQuestion(asks[k], asks'[k])
  BY <1>2, <1>3 DEF SameQuestion
<1> QED BY <1>2, <1>3, <1>4 DEF SameQuestions, Asked

\* The effect of changing every request.
LEMMA AllRequests ==
  ASSUME Typed, asks' \in [Asked -> Request], \A n \in Asked : SameQuestion(asks[n], asks'[n])
  PROVE  /\ asks' \in Seq(Request) /\ Len(asks') = Len(asks) /\ Asked' = Asked
         /\ SameQuestions(asks, asks')
<1>1. asks \in Seq(Request) /\ asks' \in [DOMAIN asks -> Request]
  BY DEF Typed, Asked
<1>2. asks' \in Seq(Request) /\ Len(asks') = Len(asks) /\ DOMAIN asks' = DOMAIN asks
  BY <1>1, ReplaceAll
<1> QED BY <1>2, AskedIs DEF SameQuestions, Asked

\* Pages stop waiting; nothing else of a request changes.
LEMMA DesertedKeeps ==
  ASSUME Typed, NEW ts, asks' = Deserted(ts)
  PROVE  /\ asks' \in Seq(Request) /\ Len(asks') = Len(asks) /\ Asked' = Asked
         /\ SameQuestions(asks, asks')
         /\ \A n \in Asked : asks'[n] = IF asks[n].page \in ts THEN [asks[n] EXCEPT !.page = Nothing]
                                                             ELSE asks[n]
<1>1. \A n \in Asked : asks'[n] = IF asks[n].page \in ts THEN [asks[n] EXCEPT !.page = Nothing]
                                                          ELSE asks[n]
  BY DEF Deserted
<1>2. \A r \in Request : [r EXCEPT !.page = Nothing] \in Request
                           /\ SameQuestion(r, [r EXCEPT !.page = Nothing]) /\ SameQuestion(r, r)
  BY DEF Request, SameQuestion
<1>3. ASSUME NEW n \in Asked PROVE asks'[n] \in Request /\ SameQuestion(asks[n], asks'[n])
  <2>1. asks[n] \in Request
    BY RequestFields
  <2>2. asks'[n] = [asks[n] EXCEPT !.page = Nothing] \/ asks'[n] = asks[n]
    BY <1>1
  <2> QED BY <2>1, <2>2, <1>2
<1>4. asks' \in [Asked -> Request]
  BY <1>3 DEF Deserted
<1> QED BY <1>1, <1>3, <1>4, AllRequests

\* The process dies with the requests that it has not answered and not logged.
LEMMA RestartKeeps ==
  ASSUME Typed, Restart
  PROVE  /\ asks' \in Seq(Request) /\ Len(asks') = Len(asks) /\ Asked' = Asked
         /\ SameQuestions(asks, asks')
         /\ \A n \in Asked : \E s \in Stages :
              /\ asks'[n] = [asks[n] EXCEPT !.stage = s]
              /\ s = "sent" => FALSE
              /\ s = "logged" <=> asks[n].stage = "logged"
<1>1. ASSUME NEW n \in Asked
      PROVE  \E s \in Stages : /\ asks'[n] = [asks[n] EXCEPT !.stage = s]
                               /\ s = "sent" => FALSE
                               /\ s = "logged" <=> asks[n].stage = "logged"
  <2>1. asks'[n] = [asks[n] EXCEPT !.stage = CASE @ \in {"sent", "thinking"} -> "failed"
                                   [] @ = "answered" -> "unlogged"
                                   [] OTHER -> @]
    BY DEF Restart
  <2>2. asks[n].stage \in Stages
    BY RequestFields
  <2> QED BY <2>1, <2>2 DEF Stages
<1>2. \A r \in Request, s \in Stages : [r EXCEPT !.stage = s] \in Request
                                         /\ SameQuestion(r, [r EXCEPT !.stage = s])
  BY DEF Request, SameQuestion
<1>3. ASSUME NEW n \in Asked PROVE asks'[n] \in Request /\ SameQuestion(asks[n], asks'[n])
  <2>1. asks[n] \in Request
    BY RequestFields
  <2>2. PICK s \in Stages : asks'[n] = [asks[n] EXCEPT !.stage = s]
    BY <1>1
  <2> QED BY <2>1, <2>2, <1>2
<1>4. asks' \in [Asked -> Request]
  BY <1>3 DEF Restart
<1> QED BY <1>1, <1>3, <1>4, AllRequests
-----------------------------------------------------------------------------
\* The parts of a chat and of a page.
LEMMA ChatFields ==
  ASSUME Typed
  PROVE  /\ store.session \in Nat \cup {Nothing} /\ store.messages \in Seq(Message)
         /\ \A t \in Tabs : /\ tab[t] \in TabState /\ tab[t].chat \in ChatState
                            /\ tab[t].chat.session \in Nat \cup {Nothing}
                            /\ tab[t].chat.messages \in Seq(Message)
<1>1. \A c \in ChatState : c.session \in Nat \cup {Nothing} /\ c.messages \in Seq(Message)
  BY DEF ChatState
<1>2. \A p \in TabState : p.chat \in ChatState
  BY DEF TabState
<1> QED BY <1>1, <1>2 DEF Typed

\* A chat of a session and messages.
LEMMA ChatIs ==
  ASSUME NEW s \in Nat \cup {Nothing}, NEW msgs \in Seq(Message)
  PROVE  /\ [session |-> s, messages |-> msgs] \in ChatState
         /\ \A o, l \in BOOLEAN :
              [open |-> o, loading |-> l, chat |-> [session |-> s, messages |-> msgs]] \in TabState
BY DEF ChatState, TabState

\* No chat, and no page.
LEMMA NoChat == EmptyChat \in ChatState /\ Closed \in TabState
BY DEF EmptyChat, Closed, ChatState, TabState

\* A chat with one message more.
LEMMA SayMore ==
  ASSUME NEW msgs \in Seq(Message), NEW r \in {"user", "assistant"}, NEW n \in Nat
  PROVE  Append(msgs, Said(r, n)) \in Seq(Message)
<1>1. Said(r, n) \in Message
  BY DEF Said, Message
<1> QED BY <1>1

\* The fields of a row.
LEMMA RowFields ==
  ASSUME Typed, NEW i \in DOMAIN rows
  PROVE  /\ i \in 1 .. Len(rows) /\ rows[i] \in Row
         /\ rows[i].id \in Nat /\ rows[i].user \in Users /\ rows[i].session \in Nat
         /\ rows[i].ask \in Nat
<1>1. i \in 1 .. Len(rows) /\ rows[i] \in Row
  BY DEF Typed
<1> QED BY <1>1 DEF Row

\* A new row gets an id above all others.
LEMMA NextIdIsNext ==
  ASSUME Typed, RowsOK
  PROVE  NextId \in Nat /\ \A i \in DOMAIN rows : rows[i].id < NextId
<1>1. /\ Len(rows) \in Nat /\ DOMAIN rows = 1 .. Len(rows)
      /\ \A i \in DOMAIN rows : rows[i].id \in Nat
  BY RowFields DEF Typed
<1>2. CASE rows = << >>
  BY <1>2 DEF NextId
<1>3. CASE rows # << >>
  <2>1. Len(rows) \in DOMAIN rows
    BY <1>1, <1>3 DEF Typed
  <2> DEFINE top == rows[Len(rows)].id
  <2>2. top \in Ids /\ \A j \in Ids : j <= top
    <3>1. \A i \in DOMAIN rows : i = Len(rows) \/ i < Len(rows)
      BY <1>1
    <3>2. \A i \in DOMAIN rows : rows[i].id <= top
      BY <1>1, <2>1, <3>1 DEF RowsOK
    <3> QED BY <2>1, <3>2 DEF Ids
  <2>3. \A i \in Ids : (\A j \in Ids : j <= i) => i = top
    <3>1. Ids \subseteq Nat
      BY <1>1 DEF Ids
    <3> HIDE DEF top
    <3>2. ASSUME NEW i \in Ids, \A j \in Ids : j <= i PROVE i = top
      <4>1. top \in Nat /\ i \in Nat /\ top <= i /\ i <= top
        BY <2>2, <3>1, <3>2
      <4> QED BY <4>1
    <3> QED BY <3>2
  <2>4. (CHOOSE i \in Ids : \A j \in Ids : j <= i) = top
    <3> HIDE DEF top
    <3> QED BY <2>2, <2>3
  <2>5. NextId = 1 + top
    BY <1>3, <2>4 DEF NextId
  <2>6. top \in Nat
    BY <1>1, <2>1
  <2>7. \A i \in DOMAIN rows : rows[i].id <= top
    BY <2>2 DEF Ids
  <2> HIDE DEF top
  <2> QED BY <1>1, <2>5, <2>6, <2>7
<1> QED BY <1>2, <1>3

\* Initially nothing was asked.
LEMMA InitTyped == Init => Typed
<1> SUFFICES ASSUME Init PROVE Typed
  OBVIOUS
<1>1. store \in ChatState
  BY NoChat DEF Init
<1>2. tab \in [Tabs -> TabState]
  BY NoChat DEF Init
<1>3. asks \in Seq(Request) /\ Len(asks) = 0 /\ rows \in Seq(Row) /\ logged \in Seq(Nat)
  BY DEF Init
<1>4. minutes \in [Users -> [Subjects -> Nat]]
  BY DEF Init
<1>5. fresh \in 0 .. Len(asks) /\ cleared \in [Tabs -> SUBSET (1 .. fresh)]
  BY <1>3 DEF Init
<1> QED BY <1>1, <1>2, <1>3, <1>4, <1>5, MaxAsksAssumption DEF Init, Typed

\* What is said of the history is unchanged.
LEMMA SameCounts ==
  ASSUME Typed, UNCHANGED <<rows, minutes, fresh, logged, gone, stray, cleared>>,
         who' \in Users, store' \in ChatState, tab' \in [Tabs -> TabState],
         asks' \in Seq(Request), Len(asks') = Len(asks), Asked' = Asked
  PROVE  Typed'
BY DEF Typed

\* The steps of the page.
LEMMA MountTyped ==
  ASSUME Typed, NEW t \in Tabs, Mount(t)
  PROVE  Typed'
<1>1. PICK p : p = [open |-> TRUE, loading |-> FALSE, chat |-> store] /\ tab' = [tab EXCEPT ![t] = p]
  BY DEF Mount
<1>2. p \in TabState
  BY <1>1 DEF Typed, TabState
<1>3. tab' \in [Tabs -> TabState]
  BY <1>1, <1>2 DEF Typed
<1> QED BY <1>3, SameCounts DEF Mount, Typed, server, history, Asked

\* Leaving the page closes the tab and changes no field but page of a request.
LEMMA LeaveTyped ==
  ASSUME Typed, NEW t \in Tabs, Leave(t)
  PROVE  Typed'
<1>1. tab' \in [Tabs -> TabState]
  BY NoChat DEF Leave, Typed
<1>2. asks' \in Seq(Request) /\ Len(asks') = Len(asks) /\ Asked' = Asked
  BY DesertedKeeps DEF Leave
<1> QED BY <1>1, <1>2, SameCounts DEF Leave, Typed, server, history

\* The messages of a chat are of questions that were asked.
LEMMA StrayAsked ==
  ASSUME Typed, ChatsOK
  PROVE  AsksIn(store.messages) \subseteq Asked
         /\ \A t \in Tabs : AsksIn(tab[t].chat.messages) \subseteq Asked
BY DEF ChatsOK, ChatOK, GoodChat, Asked

\* After a logout and a login all tabs are closed.
LEMMA SwitchTyped ==
  ASSUME Typed, ChatsOK, NEW u \in Users, SwitchUser(u)
  PROVE  Typed'
<1>1. tab' \in [Tabs -> TabState]
  BY NoChat DEF SwitchUser
<1>2. asks' \in Seq(Request) /\ Len(asks') = Len(asks) /\ Asked' = Asked
  BY DesertedKeeps DEF SwitchUser
<1> QED BY <1>1, <1>2 DEF SwitchUser, Typed, server, history

\* A login over another user leaves all but the user as it is.
LEMMA LoginTyped ==
  ASSUME Typed, NEW u \in Users, NEW t \in Tabs, LoginOver(t, u)
  PROVE  Typed'
BY DEF LoginOver, Typed, Asked, server, history

\* The questions whose messages are in a chat with one message more.
LEMMA AsksMore ==
  ASSUME NEW msgs \in Seq(Message), NEW r, NEW n
  PROVE  AsksIn(Append(msgs, Said(r, n))) = AsksIn(msgs) \cup {n}
<1> DEFINE more == Append(msgs, Said(r, n))
<1>1. Range(more) = Range(msgs) \cup {Said(r, n)}
  <2>1. DOMAIN more = DOMAIN msgs \cup {Len(msgs) + 1}
    OBVIOUS
  <2>2. (\A i \in DOMAIN msgs : more[i] = msgs[i]) /\ more[Len(msgs) + 1] = Said(r, n)
    OBVIOUS
  <2> HIDE DEF more
  <2> QED BY <2>1, <2>2 DEF Range
<1>2. Said(r, n).ask = n
  BY DEF Said
<1> HIDE DEF more
<1>3. \A a : a \in AsksIn(more) <=> \E m \in Range(more) : a = m.ask
  BY DEF AsksIn
<1>4. \A a : a \in AsksIn(msgs) <=> \E m \in Range(msgs) : a = m.ask
  BY DEF AsksIn
<1>5. \A a : a \in AsksIn(more) <=> a \in AsksIn(msgs) \cup {n}
  BY <1>1, <1>2, <1>3, <1>4
<1>6. AsksIn(more) = AsksIn(msgs) \cup {n}
  BY <1>5
<1> QED BY <1>6 DEF more

\* Messages that stray are of questions that were asked.
LEMMA StraysAre == \A msgs, s, z : Strays(msgs, s, z) \subseteq AsksIn(msgs)
BY DEF Strays
\* What asking does: the question is the next one, its session s is the page's or a
\* new one, and the page and localStorage keep the messages.
Sent(t, kind, s, msgs, stored, r) ==
  /\ s \in Nat /\ msgs \in Seq(Message) /\ stored \in Nat \cup {Nothing} /\ r \in Request
  /\ msgs = Append(tab[t].chat.messages, Said("user", Len(asks) + 1))
  /\ \/ /\ tab[t].chat.session = Nothing
        /\ s = fresh + 1 /\ stored = s /\ fresh' = fresh + 1
     \/ /\ tab[t].chat.session = s
        /\ s \in 1 .. fresh /\ stored = store.session /\ fresh' = fresh
  /\ tab' = [tab EXCEPT ![t] = [open |-> TRUE, loading |-> TRUE,
                                chat |-> [session |-> s, messages |-> msgs]]]
  /\ store' = [session |-> stored, messages |-> msgs]
  /\ r = [user |-> who, session |-> s, page |-> t, kind |-> kind, stage |-> "sent",
          conv |-> << >>, upto |-> 0, shown |-> AnswersIn(msgs)]
  /\ asks' = Append(asks, r)
  /\ stray' = stray \cup Strays(msgs, s, stored)

\* What Ask does, read off its definition.
LEMMA AskIs ==
  ASSUME Typed, ChatsOK, NEW t \in Tabs, NEW kind \in {"course", "file"}, Ask(t, kind)
  PROVE  \E s, msgs, stored, r : Sent(t, kind, s, msgs, stored, r)
<1> DEFINE old == tab[t].chat
<1>1. PICK s : s = IF old.session = Nothing THEN fresh + 1 ELSE old.session
  OBVIOUS
<1>2. PICK msgs : msgs = Append(old.messages, Said("user", Len(asks) + 1))
  OBVIOUS
<1>3. PICK stored : stored = IF old.session = Nothing THEN s ELSE store.session
  OBVIOUS
<1>4. PICK r : r = [user |-> who, session |-> s, page |-> t, kind |-> kind, stage |-> "sent",
                    conv |-> << >>, upto |-> 0, shown |-> AnswersIn(msgs)]
  OBVIOUS
<1>5. /\ tab' = [tab EXCEPT ![t] = [open |-> TRUE, loading |-> TRUE,
                                    chat |-> [session |-> s, messages |-> msgs]]]
      /\ store' = [session |-> stored, messages |-> msgs]
      /\ asks' = Append(asks, r)
      /\ stray' = stray \cup Strays(msgs, s, stored)
      /\ fresh' = IF old.session = Nothing THEN fresh + 1 ELSE fresh
  BY <1>1, <1>2, <1>3, <1>4 DEF Ask
<1>6. fresh \in Nat /\ Len(asks) \in Nat /\ old.session \in (1 .. fresh) \cup {Nothing}
  BY DEF Typed, ChatsOK, ChatOK, GoodChat
<1>7. s \in Nat /\ (old.session # Nothing => s \in 1 .. fresh)
  BY <1>1, <1>6
<1>8. msgs \in Seq(Message)
  BY <1>2, <1>6, SayMore, ChatFields
<1>9. stored \in Nat \cup {Nothing}
  BY <1>3, <1>7, ChatFields
<1>10. AnswersIn(msgs) \subseteq Nat
  <2>1. \A m \in Message : m.ask \in Nat
    BY DEF Message
  <2>2. \A i \in DOMAIN msgs : msgs[i] \in Message
    BY <1>8
  <2>3. \A m \in Range(msgs) : m.ask \in Nat
    BY <2>1, <2>2 DEF Range
  <2> QED BY <2>3 DEF AnswersIn
<1>11. r \in Request
  BY <1>4, <1>7, <1>10 DEF Request, Typed, Stages
<1> HIDE DEF old
<1>12. \/ old.session = Nothing /\ s = fresh + 1 /\ stored = s /\ fresh' = fresh + 1
       \/ old.session = s /\ s \in 1 .. fresh /\ stored = store.session /\ fresh' = fresh
  BY <1>1, <1>3, <1>5, <1>7
<1> USE DEF old
<1>13. /\ msgs = Append(tab[t].chat.messages, Said("user", Len(asks) + 1))
       /\ \/ /\ tab[t].chat.session = Nothing
             /\ s = fresh + 1 /\ stored = s /\ fresh' = fresh + 1
          \/ /\ tab[t].chat.session = s
             /\ s \in 1 .. fresh /\ stored = store.session /\ fresh' = fresh
  BY <1>2, <1>12
<1>14. Sent(t, kind, s, msgs, stored, r)
  BY <1>4, <1>5, <1>7, <1>8, <1>9, <1>11, <1>13 DEF Sent
<1> QED BY <1>14

\* One question more.
LEMMA NewRequest ==
  ASSUME Typed, NEW r \in Request, asks' = Append(asks, r)
  PROVE  /\ asks' \in Seq(Request) /\ Len(asks') = Len(asks) + 1
         /\ Asked' = Asked \cup {Len(asks) + 1} /\ Len(asks) + 1 \notin Asked
         /\ SameQuestions(asks, asks')
         /\ asks'[Len(asks) + 1] = r /\ \A n \in Asked : asks'[n] = asks[n]
<1>1. /\ asks' \in Seq(Request) /\ Len(asks') = Len(asks) + 1
      /\ asks'[Len(asks) + 1] = r /\ \A n \in 1 .. Len(asks) : asks'[n] = asks[n]
  BY AppendOne DEF Typed
<1>2. Asked = 1 .. Len(asks) /\ Len(asks) \in Nat
  BY AskedIs
<1>3. Asked' = 1 .. Len(asks')
  BY <1>1 DEF Asked
<1> QED BY <1>1, <1>2, <1>3 DEF SameQuestions, SameQuestion

\* Asking adds a request, and the page and localStorage get its message.
LEMMA AskTyped ==
  ASSUME Typed, ChatsOK, NEW t \in Tabs, NEW kind \in {"course", "file"}, Ask(t, kind)
  PROVE  Typed'
<1>1. PICK s, msgs, stored, r : Sent(t, kind, s, msgs, stored, r)
  BY AskIs
<1>2. /\ asks' \in Seq(Request) /\ Len(asks') = Len(asks) + 1
      /\ Asked' = Asked \cup {Len(asks) + 1}
  BY <1>1, NewRequest DEF Sent
<1>3. store' \in ChatState
  BY <1>1, ChatIs DEF Sent
<1>4. PICK p \in TabState : tab' = [tab EXCEPT ![t] = p]
  BY <1>1, ChatIs DEF Sent
<1>5. tab' \in [Tabs -> TabState]
  BY <1>4 DEF Typed
<1>6. AsksIn(msgs) \subseteq Asked'
  BY <1>1, <1>2, AsksMore, StrayAsked, ChatFields DEF Sent
<1>7. gone' \subseteq Asked' /\ stray' \subseteq Asked'
  BY <1>1, <1>2, <1>6, StraysAre DEF Ask, Typed, Sent
<1>8. Len(asks') <= MaxAsks /\ fresh' \in 0 .. Len(asks') /\ fresh \in Nat /\ fresh <= fresh'
  <2>1. fresh' = fresh + 1 \/ fresh' = fresh
    BY <1>1 DEF Sent
  <2>2. fresh \in 0 .. Len(asks) /\ Len(asks) \in Nat /\ Len(asks) < MaxAsks
    BY DEF Typed, Ask
  <2> QED BY <1>2, <2>1, <2>2, MaxAsksAssumption
<1>9. cleared' \in [Tabs -> SUBSET (1 .. fresh')]
  <2>1. 1 .. fresh \subseteq 1 .. fresh'
    BY <1>8
  <2> QED BY <2>1 DEF Ask, Typed
<1> QED BY <1>2, <1>3, <1>5, <1>7, <1>8, <1>9 DEF Typed, Ask, server

\* An answer strays if the page has another session by now.
Late(session, n) == IF session = asks[n].session THEN {} ELSE {n}

\* What the arrival of the answer n does to page t, now with these messages, and to
\* the request, now r.
Shown(n, t, msgs, r) ==
  /\ t = asks[n].page /\ t \in Tabs
  /\ msgs = Append(tab[t].chat.messages, Said("assistant", n)) /\ msgs \in Seq(Message)
  /\ r = [asks[n] EXCEPT !.page = Nothing] /\ r \in Request /\ SameQuestion(asks[n], r)
  /\ tab' \in [Tabs -> TabState]
  /\ tab'[t].chat = [session |-> tab[t].chat.session, messages |-> msgs]
  /\ \A u \in Tabs : u # t => tab'[u] = tab[u]
  /\ store' = [session |-> store.session, messages |-> msgs] /\ store' \in ChatState
  /\ stray' = stray \cup Strays(msgs, tab[t].chat.session, store.session)
                    \cup Late(tab[t].chat.session, n)
  /\ asks' = [asks EXCEPT ![n] = r]

\* What Show does, read off its definition.
LEMMA ShowIs ==
  ASSUME Typed, NEW n \in Asked, Show(n)
  PROVE  \E t, msgs, r : Shown(n, t, msgs, r)
<1>0. PICK t, msgs, r : /\ t = asks[n].page
                        /\ msgs = Append(tab[t].chat.messages, Said("assistant", n))
                        /\ r = [asks[n] EXCEPT !.page = Nothing]
  OBVIOUS
<1>1. t \in Tabs
  BY <1>0, RequestFields DEF Show
<1>3. msgs \in Seq(Message)
  BY <1>0, <1>1, SayMore, ChatFields, RequestFields
<1>4. /\ tab' = [tab EXCEPT ![t].loading = FALSE, ![t].chat.messages = msgs]
      /\ store' = [store EXCEPT !.messages = msgs]
      /\ stray' = stray \cup Strays(msgs, tab[t].chat.session, store.session)
                        \cup Late(tab[t].chat.session, n)
      /\ asks' = [asks EXCEPT ![n].page = Nothing]
  BY <1>0, <1>1 DEF Show, Late
<1>5. PICK q \in TabState : q = tab[t]
  BY <1>1, ChatFields
<1>6. PICK p : p = [[q EXCEPT !.loading = FALSE] EXCEPT !.chat.messages = msgs]
  OBVIOUS
<1>7. p \in TabState /\ p.chat = [session |-> q.chat.session, messages |-> msgs]
  BY <1>3, <1>6 DEF TabState, ChatState
<1>8. tab' = [tab EXCEPT ![t] = p]
  BY <1>1, <1>4, <1>5, <1>6 DEF Typed
<1>9. /\ tab' \in [Tabs -> TabState] /\ tab'[t] = p
      /\ \A u \in Tabs : u # t => tab'[u] = tab[u]
  BY <1>1, <1>7, <1>8 DEF Typed
<1>10. store' = [session |-> store.session, messages |-> msgs] /\ store' \in ChatState
  BY <1>3, <1>4 DEF Typed, ChatState
<1>12. r \in Request /\ asks' = [asks EXCEPT ![n] = r] /\ SameQuestion(asks[n], r)
  BY <1>0, <1>4, RequestFields DEF Request, SameQuestion
<1>13. tab'[t].chat = [session |-> tab[t].chat.session, messages |-> msgs]
  BY <1>5, <1>7, <1>9
<1>14. Shown(n, t, msgs, r)
  BY <1>0, <1>1, <1>3, <1>4, <1>9, <1>10, <1>12, <1>13 DEF Shown
<1> QED BY <1>14

\* The answer's message is added to the page and to localStorage.
LEMMA ShowTyped ==
  ASSUME Typed, ChatsOK, NEW n \in Asked, Show(n)
  PROVE  Typed'
<1>1. PICK t, msgs, r : Shown(n, t, msgs, r)
  BY ShowIs
<1>2. asks' \in Seq(Request) /\ Len(asks') = Len(asks) /\ Asked' = Asked
  BY <1>1, OneRequest DEF Shown
<1>3. AsksIn(msgs) \subseteq Asked
  <2>1. tab[t].chat.messages \in Seq(Message) /\ AsksIn(tab[t].chat.messages) \subseteq Asked
    BY <1>1, StrayAsked, ChatFields DEF Shown
  <2>2. AsksIn(msgs) = AsksIn(tab[t].chat.messages) \cup {n}
    <3>1. PICK old : old = tab[t].chat.messages
      OBVIOUS
    <3>2. old \in Seq(Message) /\ msgs = Append(old, Said("assistant", n))
      BY <1>1, <2>1, <3>1 DEF Shown
    <3> QED BY <3>1, <3>2, AsksMore
  <2> QED BY <2>1, <2>2
<1>4. stray' \subseteq Asked'
  BY <1>1, <1>2, <1>3, StraysAre DEF Typed, Late, Shown
<1> QED BY <1>1, <1>2, <1>4 DEF Typed, Show, server, Shown

\* An error ends the waiting.
LEMMA ShowErrorTyped ==
  ASSUME Typed, NEW n \in Asked, ShowError(n)
  PROVE  Typed'
<1>1. PICK t : t = asks[n].page
  OBVIOUS
<1>2. t \in Tabs /\ tab' = [tab EXCEPT ![t].loading = FALSE]
  BY <1>1, RequestFields DEF ShowError
<1>3. tab' \in [Tabs -> TabState]
  BY <1>2 DEF Typed, TabState
<1>4. PICK r : r = [asks[n] EXCEPT !.page = Nothing]
  OBVIOUS
<1>5. r \in Request /\ SameQuestion(asks[n], r) /\ asks' = [asks EXCEPT ![n] = r]
  BY <1>4, RequestFields DEF ShowError, Request, SameQuestion
<1>6. asks' \in Seq(Request) /\ Len(asks') = Len(asks) /\ Asked' = Asked
  BY <1>5, OneRequest
<1> QED BY <1>3, <1>6, SameCounts DEF ShowError, Typed, server, history

\* Clearing empties the chat, and the cleared session is one that was made.
LEMMA ClearChatTyped ==
  ASSUME Typed, ChatsOK, NEW t \in Tabs, ClearChat(t)
  PROVE  Typed'
<1>1. tab' = [tab EXCEPT ![t].chat = EmptyChat] /\ tab' \in [Tabs -> TabState]
  BY NoChat DEF ClearChat, Typed, TabState
<1>2. PICK z : z = cleared[t] \cup ({tab[t].chat.session} \ {Nothing})
  OBVIOUS
<1>3. z \in SUBSET (1 .. fresh)
  BY <1>2 DEF Typed, ChatsOK, ChatOK, GoodChat
<1>4. cleared' = [cleared EXCEPT ![t] = z]
  BY <1>2 DEF ClearChat, Typed
<1>5. cleared' \in [Tabs -> SUBSET (1 .. fresh)]
  BY <1>3, <1>4 DEF Typed
<1> QED BY <1>1, <1>5, NoChat DEF ClearChat, Typed, server, Asked
-----------------------------------------------------------------------------
\* The handler.  A step of it leaves the page, the sessions and what was asked.
Handled ==
  /\ UNCHANGED <<client, fresh, stray, cleared>>
  /\ asks' \in Seq(Request) /\ Len(asks') = Len(asks) /\ Asked' = Asked
  /\ SameQuestions(asks, asks')
  /\ \A n \in Asked : asks'[n].page = asks[n].page

\* The questions at some places of the history.
LEMMA AsksAtIs ==
  ASSUME Typed, NEW S \in SUBSET DOMAIN rows
  PROVE  /\ AsksAt(S) \in Seq(Nat) /\ Cardinality(S) \in Nat
         /\ Len(AsksAt(S)) = Cardinality(S)
         /\ \A k \in 1 .. Cardinality(S) : Place(S, k) \in S /\ AsksAt(S)[k] = rows[Place(S, k)].ask
         /\ \A k, l \in 1 .. Cardinality(S) : k < l => Place(S, k) < Place(S, l)
         /\ \A i \in S : \E k \in 1 .. Cardinality(S) : Place(S, k) = i
<1>1. PICK q : q = [i \in DOMAIN rows |-> rows[i].ask]
  OBVIOUS
<1>2. q \in Seq(Nat) /\ DOMAIN q = DOMAIN rows
  <2>1. q \in [DOMAIN rows -> Nat]
    BY <1>1, RowFields
  <2>2. rows \in Seq(Row)
    BY DEF Typed
  <2> QED BY <2>1, <2>2, ReplaceAll
<1>3. /\ Part(q, S) \in Seq(Nat) /\ Len(Part(q, S)) = Cardinality(S) /\ Cardinality(S) \in Nat
      /\ DOMAIN Part(q, S) = 1 .. Cardinality(S)
      /\ \A k \in DOMAIN Part(q, S) : Place(S, k) \in S /\ Part(q, S)[k] = q[Place(S, k)]
      /\ \A k, l \in DOMAIN Part(q, S) : k < l => Place(S, k) < Place(S, l)
      /\ \A i \in S : \E k \in DOMAIN Part(q, S) : Place(S, k) = i
  BY <1>2, PartProperties
<1>4. AsksAt(S) = Part(q, S)
  BY <1>1 DEF AsksAt
<1>5. \A i \in S : q[i] = rows[i].ask
  BY <1>1
<1> QED BY <1>3, <1>4, <1>5

\* The last elements of a sequence: as many as Recent, or all.
LEMMA LatestIs ==
  ASSUME NEW s \in Seq(Nat)
  PROVE  \E d \in Nat :
           /\ Latest(s) \in Seq(Nat) /\ Len(Latest(s)) + d = Len(s)
           /\ \A k \in 1 .. Len(Latest(s)) : Latest(s)[k] = s[k + d]
           /\ d # 0 => Len(Latest(s)) = Recent
<1>1. PICK d : d = IF Len(s) > Recent THEN Len(s) - Recent ELSE 0
  OBVIOUS
<1>2. Latest(s) = SubSeq(s, d + 1, Len(s))
  <2>1. PICK e : e = IF Len(s) > Recent THEN Len(s) - Recent + 1 ELSE 1
    OBVIOUS
  <2>2. Latest(s) = SubSeq(s, e, Len(s))
    BY <2>1 DEF Latest
  <2>3. Len(s) \in Nat
    OBVIOUS
  <2>4. e = d + 1
    BY <1>1, <2>1, <2>3, RecentAssumption
  <2> QED BY <2>2, <2>4
<1>3. d \in Nat /\ d <= Len(s) /\ Len(s) \in Nat /\ (d # 0 => Len(s) - d = Recent)
  BY <1>1, RecentAssumption
<1>4. /\ SubSeq(s, d + 1, Len(s)) \in Seq(Nat) /\ Len(SubSeq(s, d + 1, Len(s))) = Len(s) - d
      /\ \A k \in 1 .. Len(s) - d : SubSeq(s, d + 1, Len(s))[k] = s[k + d]
  BY <1>3
<1>5. /\ Latest(s) \in Seq(Nat) /\ Len(Latest(s)) + d = Len(s)
      /\ \A k \in 1 .. Len(Latest(s)) : Latest(s)[k] = s[k + d]
      /\ d # 0 => Len(Latest(s)) = Recent
  BY <1>2, <1>3, <1>4
<1> QED BY <1>3, <1>5

\* A request in which only these fields change is a request.
Moved(a, s, c, u) == [[[a EXCEPT !.stage = s] EXCEPT !.conv = c] EXCEPT !.upto = u]
\* The fields of a request that moved are those given, or as they were.
LEMMA MovedIs ==
  ASSUME NEW a \in Request, NEW s \in Stages, NEW c \in Seq(Nat), NEW u \in Nat
  PROVE  /\ Moved(a, s, c, u) \in Request /\ SameQuestion(a, Moved(a, s, c, u))
         /\ Moved(a, s, c, u).page = a.page /\ Moved(a, s, c, u).stage = s
         /\ Moved(a, s, c, u).conv = c /\ Moved(a, s, c, u).upto = u
BY DEF Request, SameQuestion, Moved

\* One request makes progress.
Progresses(n, s, c, u) ==
  /\ Handled
  /\ asks'[n].stage = s /\ asks'[n].conv = c /\ asks'[n].upto = u
  /\ \A k \in Asked : k # n => asks'[k] = asks[k]

\* Replacing one request by one that moved is progress of its question.
LEMMA ProgressIs ==
  ASSUME Typed, NEW n \in Asked, NEW s \in Stages, NEW c \in Seq(Nat), NEW u \in Nat,
         asks' = [asks EXCEPT ![n] = Moved(asks[n], s, c, u)], UNCHANGED <<client, fresh, stray, cleared>>
  PROVE  Progresses(n, s, c, u)
<1>0. PICK a, r : a = asks[n] /\ r = Moved(a, s, c, u)
  OBVIOUS
<1>1. asks[n] \in Request /\ a \in Request
  BY <1>0, RequestFields
<1>2. /\ r \in Request /\ SameQuestion(asks[n], r) /\ r.page = asks[n].page
      /\ r.stage = s /\ r.conv = c /\ r.upto = u
  BY <1>0, <1>1, MovedIs
<1>3. /\ asks' \in Seq(Request) /\ Len(asks') = Len(asks) /\ Asked' = Asked
      /\ SameQuestions(asks, asks')
      /\ asks'[n] = r /\ \A k \in Asked : k # n => asks'[k] = asks[k]
  BY <1>0, <1>2, OneRequest
<1>4. \A k \in Asked : asks'[k].page = asks[k].page
  BY <1>2, <1>3
<1> QED BY <1>2, <1>3, <1>4 DEF Progresses, Handled

\* What Begin does, read off its definition.
LEMMA BeginIs ==
  ASSUME Typed, NEW n \in Asked, Begin(n)
  PROVE  Progresses(n, "thinking", Conversation(asks[n].user, asks[n].session), Len(logged))
         /\ Conversation(asks[n].user, asks[n].session) \in Seq(Nat) /\ UNCHANGED <<server, history>>
<1>1. PICK c : c = Conversation(asks[n].user, asks[n].session)
  OBVIOUS
<1>2. c \in Seq(Nat)
  <2>1. PICK S \in SUBSET DOMAIN rows :
          S = {i \in DOMAIN rows : rows[i].user = asks[n].user /\ rows[i].session = asks[n].session}
    OBVIOUS
  <2>2. AsksAt(S) \in Seq(Nat)
    BY AsksAtIs
  <2>3. c = Latest(AsksAt(S))
    BY <1>1, <2>1 DEF Conversation
  <2> QED BY <2>2, <2>3, LatestIs
<1>4. asks' = [asks EXCEPT ![n] = Moved(asks[n], "thinking", c, Len(logged))]
  BY <1>1 DEF Begin, Typed, Moved
<1>5. Len(logged) \in Nat /\ "thinking" \in Stages
  BY DEF Typed, Stages
<1>6. UNCHANGED <<client, fresh, stray, cleared>> /\ UNCHANGED <<server, history>>
  BY DEF Begin, history
<1> QED BY <1>1, <1>2, <1>4, <1>5, <1>6, ProgressIs

\* A step that only moves a question to stage s.
LEMMA StageIs ==
  ASSUME Typed, NEW n \in Asked, NEW s \in Stages, asks' = [asks EXCEPT ![n].stage = s],
         UNCHANGED <<client, fresh, stray, cleared>>
  PROVE  Progresses(n, s, asks[n].conv, asks[n].upto)
<1>1. Moved(asks[n], s, asks[n].conv, asks[n].upto) = [asks[n] EXCEPT !.stage = s]
  BY RequestFields DEF Request, Moved
<1>2. asks' = [asks EXCEPT ![n] = Moved(asks[n], s, asks[n].conv, asks[n].upto)]
  BY <1>1 DEF Typed
<1>3. PICK c \in Seq(Nat), u \in Nat : c = asks[n].conv /\ u = asks[n].upto
  BY RequestFields
<1> QED BY <1>2, <1>3, ProgressIs

\* Answer moves its question, and nothing else changes.
LEMMA AnswerIs ==
  ASSUME Typed, NEW n \in Asked, Answer(n)
  PROVE  Progresses(n, "answered", asks[n].conv, asks[n].upto) /\ UNCHANGED <<server, history>>
BY StageIs DEF Answer, history, Stages

\* So does Fail.
LEMMA FailIs ==
  ASSUME Typed, NEW n \in Asked, Fail(n)
  PROVE  Progresses(n, "failed", asks[n].conv, asks[n].upto) /\ UNCHANGED <<server, history>>
BY StageIs DEF Fail, history, Stages

\* So does LogFails.
LEMMA LogFailsIs ==
  ASSUME Typed, NEW n \in Asked, LogFails(n)
  PROVE  Progresses(n, "unlogged", asks[n].conv, asks[n].upto) /\ UNCHANGED <<server, history>>
BY StageIs DEF LogFails, history, Stages

\* Log moves its question, whatever it does to the tables.
LEMMA LogStage ==
  ASSUME Typed, NEW n \in Asked, Log(n)
  PROVE  Progresses(n, "logged", asks[n].conv, asks[n].upto)
BY StageIs DEF Log, Stages

\* The handlers that touch no table.
LEMMA QuietTyped ==
  ASSUME Typed, Handled, UNCHANGED <<server, history>>
  PROVE  Typed'
<1>1. who' \in Users /\ store' \in ChatState /\ tab' \in [Tabs -> TabState]
  BY DEF Handled, client, Typed
<1> QED BY <1>1, SameCounts DEF Handled, server, history

\* A restart moves questions only.
LEMMA RestartIs ==
  ASSUME Typed, Restart
  PROVE  Handled /\ UNCHANGED <<server, history>>
<1>1. /\ asks' \in Seq(Request) /\ Len(asks') = Len(asks) /\ Asked' = Asked
      /\ SameQuestions(asks, asks')
      /\ \A n \in Asked : \E s \in Stages : asks'[n] = [asks[n] EXCEPT !.stage = s]
  BY RestartKeeps
<1>2. ASSUME NEW n \in Asked PROVE asks'[n].page = asks[n].page
  <2>1. PICK s \in Stages : asks'[n] = [asks[n] EXCEPT !.stage = s]
    BY <1>1
  <2>2. PICK a \in Request : a = asks[n]
    BY RequestFields
  <2>3. [a EXCEPT !.stage = s].page = a.page
    BY DEF Request
  <2> QED BY <2>1, <2>2, <2>3
<1> QED BY <1>1, <1>2 DEF Handled, Restart, history

\* What logging an answer does: a row, an entry of the log, two minutes.
LEMMA LogIs ==
  ASSUME Typed, RowsOK, NEW n \in Asked, Log(n)
  PROVE  /\ asks[n].stage = "answered" /\ UNCHANGED gone
         /\ \E r : /\ r = [id |-> NextId, user |-> asks[n].user, session |-> asks[n].session, ask |-> n]
                   /\ r \in Row /\ rows' = Append(rows, r)
         /\ rows' \in Seq(Row) /\ logged' = Append(logged, n) /\ logged' \in Seq(Nat)
<1>1. PICK r : r = [id |-> NextId, user |-> asks[n].user, session |-> asks[n].session, ask |-> n]
  OBVIOUS
<1>2. r \in Row
  BY <1>1, NextIdIsNext, RequestFields DEF Row
<1>3. rows' = Append(rows, r) /\ logged' = Append(logged, n) /\ UNCHANGED gone
  BY <1>1 DEF Log
<1>4. rows' \in Seq(Row) /\ logged' \in Seq(Nat)
  BY <1>2, <1>3, RequestFields DEF Typed
<1> QED BY <1>1, <1>2, <1>3, <1>4 DEF Log

\* A subject is one of the two.
LEMMA SubjectIs == \A kind : Subject(kind) \in Subjects
BY DEF Subject, Subjects

\* Logging adds a row, an entry of the log and two minutes.
LEMMA LogTyped ==
  ASSUME Typed, RowsOK, NEW n \in Asked, Log(n)
  PROVE  Typed'
<1>1. Handled
  BY LogStage DEF Progresses
<1>2. rows' \in Seq(Row) /\ logged' \in Seq(Nat) /\ UNCHANGED gone
  BY LogIs
<1>3. PICK u \in Users, s \in Subjects : minutes' = [minutes EXCEPT ![u][s] = @ + 2]
  BY SubjectIs, RequestFields DEF Log
<1>4. minutes' \in [Users -> [Subjects -> Nat]]
  BY <1>3 DEF Typed
<1> QED BY <1>1, <1>2, <1>4 DEF Typed, Handled, client

\* What is left of the rows is in order, and was there.
LEMMA RowsLeft ==
  ASSUME Typed, NEW S \in SUBSET DOMAIN rows, rows' = Part(rows, S)
  PROVE  /\ rows' \in Seq(Row)
         /\ \A k \in DOMAIN rows' : Place(S, k) \in S /\ rows'[k] = rows[Place(S, k)]
         /\ \A k, l \in DOMAIN rows' : k < l => Place(S, k) < Place(S, l)
         /\ \A i \in S : \E k \in DOMAIN rows' : Place(S, k) = i
<1>1. PICK q : q = rows
  OBVIOUS
<1>2. q \in Seq(Row) /\ S \in SUBSET DOMAIN q
  BY <1>1 DEF Typed
<1>3. /\ Part(q, S) \in Seq(Row)
      /\ \A k \in DOMAIN Part(q, S) : Place(S, k) \in S /\ Part(q, S)[k] = q[Place(S, k)]
      /\ \A k, l \in DOMAIN Part(q, S) : k < l => Place(S, k) < Place(S, l)
      /\ \A i \in S : \E k \in DOMAIN Part(q, S) : Place(S, k) = i
  BY <1>2, PartProperties
<1> QED BY <1>1, <1>3

\* What a deletion does: some rows go, the others stay in order.
Deleted(S) ==
  /\ S \in SUBSET DOMAIN rows /\ rows' = Part(rows, S)
  /\ gone' = gone \cup {rows[i].ask : i \in DOMAIN rows \ S}
  /\ UNCHANGED <<client, asks, minutes, fresh, logged, stray, cleared>>

\* Both deletions are of this form.
LEMMA DeletionIs ==
  ASSUME NEW u \in Users, ClearHistory(u) \/ \E id \in Ids : DeleteItem(u, id)
  PROVE  \E S : Deleted(S)
<1>1. CASE ClearHistory(u)
  <2>1. PICK S \in SUBSET DOMAIN rows : S = {i \in DOMAIN rows : rows[i].user # u}
    OBVIOUS
  <2>2. {j \in DOMAIN rows : rows[j].user = u} = DOMAIN rows \ S
    BY <2>1
  <2>3. Deleted(S)
    BY <1>1, <2>1, <2>2 DEF ClearHistory, Deleted
  <2> QED BY <2>3
<1>2. ASSUME NEW id \in Ids, DeleteItem(u, id) PROVE \E S : Deleted(S)
  <2>1. PICK i \in DOMAIN rows : rows' = Part(rows, DOMAIN rows \ {i}) /\ gone' = gone \cup {rows[i].ask}
    BY <1>2 DEF DeleteItem
  <2>2. PICK S \in SUBSET DOMAIN rows : S = DOMAIN rows \ {i}
    OBVIOUS
  <2>3. {rows[j].ask : j \in DOMAIN rows \ S} = {rows[i].ask}
    BY <2>2
  <2>4. Deleted(S)
    BY <1>2, <2>1, <2>2, <2>3 DEF DeleteItem, Deleted
  <2> QED BY <2>4
<1> QED BY <1>1, <1>2

\* After a deletion the rows are rows still, and the deleted questions were asked.
LEMMA DeletedTyped ==
  ASSUME Typed, RowsOK, LoggedOK, NEW S, Deleted(S)
  PROVE  Typed'
<1>1. rows' \in Seq(Row)
  BY RowsLeft DEF Deleted
<1>2. \A i \in DOMAIN rows : rows[i].ask \in Asked
  BY DEF RowsOK, LoggedOK, IsRowOf
<1>3. gone' \subseteq Asked
  BY <1>2 DEF Deleted, Typed
<1> QED BY <1>1, <1>3 DEF Deleted, Typed, client, Asked

\* Every step keeps the types.
LEMMA TypedStep ==
  ASSUME Typed, ChatsOK, RowsOK, LoggedOK, [Next]_vars
  PROVE  Typed'
<1>1. CASE UNCHANGED vars
  BY <1>1 DEF vars, client, server, history, Typed, Asked
<1>2. ASSUME NEW t \in Tabs,
             Mount(t) \/ Leave(t) \/ ClearChat(t) \/ \E kind \in {"course", "file"} : Ask(t, kind)
      PROVE  Typed'
  BY <1>2, MountTyped, LeaveTyped, ClearChatTyped, AskTyped
<1>3. ASSUME NEW u \in Users, SwitchUser(u) \/ \E t \in Tabs : LoginOver(t, u) PROVE Typed'
  BY <1>3, SwitchTyped, LoginTyped
<1>4. ASSUME NEW u \in Users, ClearHistory(u) \/ \E id \in Ids : DeleteItem(u, id) PROVE Typed'
  BY <1>4, DeletionIs, DeletedTyped
<1>5. ASSUME NEW n \in Asked, Page(n) PROVE Typed'
  BY <1>5, ShowTyped, ShowErrorTyped DEF Page
<1>6. ASSUME NEW n \in Asked, Begin(n) \/ Answer(n) \/ Fail(n) \/ LogFails(n) PROVE Typed'
  <2>1. Handled /\ UNCHANGED <<server, history>>
    BY <1>6, BeginIs, AnswerIs, FailIs, LogFailsIs DEF Progresses
  <2> QED BY <2>1, QuietTyped
<1>7. ASSUME NEW n \in Asked, Log(n) PROVE Typed'
  BY <1>7, LogTyped
<1>8. CASE Restart
  BY <1>8, RestartIs, QuietTyped
<1> QED BY <1>1, <1>2, <1>3, <1>4, <1>5, <1>6, <1>7, <1>8 DEF Next, Handler
-----------------------------------------------------------------------------
\* A chat stays good while questions are added, sessions made and messages stray.
LEMMA ChatKept ==
  ASSUME NEW chat, NEW as, NEW bs, NEW st, NEW stMore, NEW f \in Nat, NEW g \in Nat,
         GoodChat(chat, as, st, f), f <= g, st \subseteq stMore,
         Len(as) \in Nat, Len(bs) \in Nat, DOMAIN as = 1 .. Len(as), DOMAIN bs = 1 .. Len(bs),
         SameQuestions(as, bs)
  PROVE  GoodChat(chat, bs, stMore, g)
<1>1. \A m \in DOMAIN as : m \in DOMAIN bs /\ SameQuestion(as[m], bs[m])
  <2>1. Len(as) <= Len(bs) /\ \A m \in 1 .. Len(as) : SameQuestion(as[m], bs[m])
    BY DEF SameQuestions
  <2>2. PICK k \in Nat, l \in Nat : k = Len(as) /\ l = Len(bs)
    OBVIOUS
  <2>3. k <= l
    BY <2>1, <2>2
  <2>4. \A m \in 1 .. k : m \in 1 .. l
    BY <2>3
  <2> QED BY <2>1, <2>2, <2>4
<1>2. \A m \in DOMAIN as : as[m].session = bs[m].session
  BY <1>1 DEF SameQuestion
<1>3. chat.session \in (1 .. g) \cup {Nothing}
  BY DEF GoodChat
<1>4. \A m \in AsksIn(chat.messages) : m \in DOMAIN as
  BY DEF GoodChat
<1>5. \A m \in AsksIn(chat.messages) \ stMore : bs[m].session = chat.session
  BY <1>2, <1>4 DEF GoodChat
<1> QED BY <1>1, <1>3, <1>4, <1>5 DEF GoodChat

\* The chats of a state are good in the next one.
LEMMA ChatsKept ==
  ASSUME Typed, ChatsOK, asks' \in Seq(Request), SameQuestions(asks, asks'),
         stray \subseteq stray', fresh' \in Nat, fresh <= fresh'
  PROVE  /\ GoodChat(store, asks', stray', fresh')
         /\ \A t \in Tabs : GoodChat(tab[t].chat, asks', stray', fresh')
<1>1. PICK as, bs, st, stMore, f, g :
        /\ as = asks /\ bs = asks' /\ st = stray /\ stMore = stray'
        /\ f = fresh /\ g = fresh'
  OBVIOUS
<1>2. /\ Len(as) \in Nat /\ Len(bs) \in Nat /\ DOMAIN as = 1 .. Len(as) /\ DOMAIN bs = 1 .. Len(bs)
      /\ f \in Nat /\ g \in Nat /\ f <= g /\ st \subseteq stMore /\ SameQuestions(as, bs)
  BY <1>1 DEF Typed
<1>3. \A chat : GoodChat(chat, as, st, f) => GoodChat(chat, bs, stMore, g)
  BY <1>2, ChatKept
<1> QED BY <1>1, <1>3 DEF ChatsOK, ChatOK

\* In no chat there is no message.
LEMMA EmptyIsGood == \A as, st, f : GoodChat(EmptyChat, as, st, f)
<1>1. AsksIn(EmptyChat.messages) = {} /\ EmptyChat.session = Nothing
  BY DEF EmptyChat, AsksIn, Range
<1> QED BY <1>1 DEF GoodChat

\* A page without a session shows only messages that strayed.
LEMMA NoSession ==
  ASSUME Typed, NEW chat, ChatOK(chat), chat.session = Nothing
  PROVE  AsksIn(chat.messages) \subseteq stray
<1>1. \A n \in Asked : asks[n].session \in Nat
  BY RequestFields
<1> QED BY <1>1, NothingAssumption DEF ChatOK, GoodChat, Asked

\* Chats and pages that are the same are as good as before, what else happens to the
\* requests.
LEMMA StillGood ==
  ASSUME Typed, ChatsOK, AsksOK, ShownOK, SessionsOK,
         asks' \in Seq(Request), SameQuestions(asks, asks'), Len(asks') = Len(asks),
         stray \subseteq stray', UNCHANGED fresh,
         GoodChat(store', asks', stray', fresh'),
         \A t \in Tabs : GoodChat(tab'[t].chat, asks', stray', fresh')
  PROVE  ChatsOK' /\ ShownOK'
<1>1. ChatsOK'
  BY DEF ChatsOK, ChatOK
<1>2. Asked' = Asked /\ \A n \in Asked : SameQuestion(asks[n], asks'[n])
  BY AskedIs DEF Asked, SameQuestions
<1>3. \A n \in Asked : asks[n].shown \subseteq Asked
  BY DEF AsksOK
<1>4. ShownOK'
  BY <1>2, <1>3 DEF ShownOK, SameQuestion
<1> QED BY <1>1, <1>4

\* Pages that stop waiting.
LEMMA AsksDeserted ==
  ASSUME Typed, AsksOK, NEW ts, asks' = Deserted(ts), UNCHANGED <<fresh, logged>>
  PROVE  AsksOK'
<1>1. Asked' = Asked
  BY DesertedKeeps
<1>2. ASSUME NEW n \in Asked
      PROVE  /\ asks'[n].session = asks[n].session /\ asks'[n].shown = asks[n].shown
             /\ asks'[n].upto = asks[n].upto /\ asks'[n].stage = asks[n].stage
             /\ asks'[n].conv = asks[n].conv
  <2>1. PICK a \in Request : a = asks[n]
    BY RequestFields
  <2>2. asks'[n] = IF a.page \in ts THEN [a EXCEPT !.page = Nothing] ELSE a
    BY <2>1, DesertedKeeps
  <2>3. CASE a.page \in ts
    <3>1. asks'[n] = [a EXCEPT !.page = Nothing]
      BY <2>2, <2>3
    <3> QED BY <2>1, <3>1 DEF Request
  <2>4. CASE a.page \notin ts
    BY <2>1, <2>2, <2>4
  <2> QED BY <2>3, <2>4
<1>3. ASSUME NEW n \in Asked PROVE
    /\ asks'[n].session \in 1 .. fresh' /\ asks'[n].shown \subseteq Asked'
    /\ asks'[n].upto \in 0 .. Len(logged')
    /\ asks'[n].stage = "sent" => asks'[n].conv = << >> /\ asks'[n].upto = 0
  BY <1>1, <1>2 DEF AsksOK
<1> QED BY <1>1, <1>3 DEF AsksOK

\* The page that is opened gets the chat of localStorage.
LEMMA MountKeeps ==
  ASSUME Typed, PageOK, NEW t \in Tabs, Mount(t)
  PROVE  PageOK'
<1>1. \A u \in Tabs : tab'[u].chat = IF u = t THEN store ELSE tab[u].chat
  <2>1. PICK p : p = [open |-> TRUE, loading |-> FALSE, chat |-> store]
    OBVIOUS
  <2>2. tab' = [tab EXCEPT ![t] = p] /\ p.chat = store
    BY <2>1 DEF Mount
  <2> QED BY <2>2 DEF Typed
<1>2. ChatsOK'
  BY <1>1 DEF Mount, PageOK, ChatsOK, ChatOK, server, history
<1>3. SessionsOK'
  BY <1>1 DEF Mount, PageOK, SessionsOK, history
<1>4. AsksOK' /\ ShownOK'
  BY DEF Mount, PageOK, AsksOK, ShownOK, Asked, history
<1> QED BY <1>2, <1>3, <1>4 DEF PageOK

\* The page that is left shows no chat, and its requests wait for nobody.
LEMMA LeaveKeeps ==
  ASSUME Typed, PageOK, NEW t \in Tabs, Leave(t)
  PROVE  PageOK'
<1>1. \A u \in Tabs : tab'[u].chat = IF u = t THEN EmptyChat ELSE tab[u].chat
  BY DEF Leave, Typed, Closed
<1>2. /\ asks' = Deserted({t}) /\ who' = who /\ store' = store
      /\ UNCHANGED <<fresh, logged, stray, cleared>>
  BY DEF Leave, history
<1>3. asks' \in Seq(Request) /\ Len(asks') = Len(asks) /\ SameQuestions(asks, asks')
  BY <1>2, DesertedKeeps
<1>4. /\ GoodChat(store', asks', stray', fresh')
      /\ \A u \in Tabs : GoodChat(tab[u].chat, asks', stray', fresh')
  <2>1. stray \subseteq stray' /\ fresh' \in Nat /\ fresh <= fresh' /\ ChatsOK
    BY <1>2 DEF PageOK, Typed
  <2> QED BY <1>2, <1>3, <2>1, ChatsKept
<1>5. \A u \in Tabs : GoodChat(tab'[u].chat, asks', stray', fresh')
  BY <1>1, <1>4, EmptyIsGood
<1>6. ChatsOK' /\ ShownOK'
  BY <1>2, <1>3, <1>4, <1>5, StillGood DEF PageOK
<1>7. AsksOK'
  BY <1>2, AsksDeserted DEF PageOK
<1>8. SessionsOK'
  <2>1. EmptyChat.session = Nothing /\ \A u \in Tabs : Nothing \notin cleared[u]
    BY NothingAssumption DEF EmptyChat, Typed
  <2> QED BY <1>1, <1>2, <2>1 DEF SessionsOK, PageOK
<1> QED BY <1>6, <1>7, <1>8 DEF PageOK

\* The next user finds what the user before has left in localStorage, and all tabs closed.
LEMMA SwitchKeeps ==
  ASSUME Typed, PageOK, NEW u \in Users, SwitchUser(u)
  PROVE  PageOK'
<1>1. \A t \in Tabs : tab'[t].chat = EmptyChat
  BY DEF SwitchUser, Closed
<1>2. /\ asks' = Deserted(Tabs) /\ store' = store
      /\ UNCHANGED <<fresh, logged, stray, cleared>>
  BY DEF SwitchUser, history
<1>3. asks' \in Seq(Request) /\ Len(asks') = Len(asks) /\ SameQuestions(asks, asks')
  BY <1>2, DesertedKeeps
<1>4. GoodChat(store', asks', stray', fresh')
  <2>1. stray \subseteq stray' /\ fresh' \in Nat /\ fresh <= fresh' /\ ChatsOK
    BY <1>2 DEF PageOK, Typed
  <2> QED BY <1>2, <1>3, <2>1, ChatsKept
<1>5. \A t \in Tabs : GoodChat(tab'[t].chat, asks', stray', fresh')
  BY <1>1, EmptyIsGood
<1>6. ChatsOK' /\ ShownOK'
  BY <1>2, <1>3, <1>4, <1>5, StillGood DEF PageOK
<1>7. AsksOK'
  BY <1>2, AsksDeserted DEF PageOK
<1>8. SessionsOK'
  <2>1. EmptyChat.session = Nothing /\ \A t \in Tabs : Nothing \notin cleared[t]
    BY NothingAssumption DEF EmptyChat, Typed
  <2> QED BY <1>1, <1>2, <2>1 DEF SessionsOK, PageOK
<1> QED BY <1>6, <1>7, <1>8 DEF PageOK

\* A login over another user changes no page and no request.
LEMMA LoginKeeps ==
  ASSUME Typed, PageOK, NEW u \in Users, NEW t \in Tabs, LoginOver(t, u)
  PROVE  PageOK'
<1>1. UNCHANGED <<store, tab, asks, fresh, logged, stray, cleared>>
  BY DEF LoginOver, server, history
<1> QED BY <1>1 DEF PageOK, ChatsOK, ChatOK, GoodChat, AsksOK, ShownOK, SessionsOK, Asked

\* A cleared page has no session and no message, and neither has localStorage.
LEMMA ClearKeeps ==
  ASSUME Typed, PageOK, NEW t \in Tabs, ClearChat(t)
  PROVE  PageOK'
<1>1. \A u \in Tabs : tab'[u].chat = IF u = t THEN EmptyChat ELSE tab[u].chat
  <2>1. PICK p \in TabState : p = tab[t]
    BY ChatFields
  <2>2. [p EXCEPT !.chat = EmptyChat].chat = EmptyChat
    BY DEF TabState
  <2>3. tab' = [tab EXCEPT ![t] = [p EXCEPT !.chat = EmptyChat]]
    BY <2>1 DEF ClearChat, Typed
  <2> QED BY <2>2, <2>3 DEF Typed
<1>2. /\ store' = EmptyChat /\ UNCHANGED <<who, asks, fresh, logged, stray>>
      /\ \A u \in Tabs : u # t => cleared'[u] = cleared[u]
      /\ \A u \in Tabs : cleared'[u] \subseteq cleared[u] \cup Nat
  <2>1. PICK z : z = cleared[t] \cup ({tab[t].chat.session} \ {Nothing})
    OBVIOUS
  <2>2. cleared' = [cleared EXCEPT ![t] = z] /\ z \subseteq cleared[t] \cup Nat
    BY <2>1, ChatFields DEF ClearChat, Typed
  <2> QED BY <2>2 DEF ClearChat, Typed
<1>3. ChatsOK'
  BY <1>1, <1>2, EmptyIsGood DEF PageOK, ChatsOK, ChatOK
<1>4. SessionsOK'
  <2>1. EmptyChat.session = Nothing /\ \A u \in Tabs : Nothing \notin cleared'[u]
    BY <1>2, NothingAssumption DEF EmptyChat, Typed
  <2> QED BY <1>1, <1>2, <2>1 DEF SessionsOK, PageOK
<1>5. AsksOK' /\ ShownOK'
  BY <1>2 DEF PageOK, AsksOK, ShownOK, Asked
<1> QED BY <1>3, <1>4, <1>5 DEF PageOK

\* An error changes no chat.
LEMMA ShowErrorKeeps ==
  ASSUME Typed, PageOK, NEW n \in Asked, ShowError(n)
  PROVE  PageOK'
<1>1. PICK t \in Tabs : t = asks[n].page
  BY RequestFields DEF ShowError
<1>2. \A u \in Tabs : tab'[u].chat = tab[u].chat
  <2>1. PICK p \in TabState : p = tab[t]
    BY ChatFields
  <2>2. [p EXCEPT !.loading = FALSE].chat = p.chat
    BY DEF TabState
  <2>3. tab' = [tab EXCEPT ![t] = [p EXCEPT !.loading = FALSE]]
    BY <1>1, <2>1 DEF ShowError, Typed
  <2> QED BY <2>1, <2>2, <2>3 DEF Typed
<1>3. PICK r : r = [asks[n] EXCEPT !.page = Nothing]
  OBVIOUS
<1>4. /\ r \in Request /\ SameQuestion(asks[n], r) /\ asks' = [asks EXCEPT ![n] = r]
      /\ r.page = Nothing /\ r.upto = asks[n].upto /\ r.stage = asks[n].stage /\ r.conv = asks[n].conv
  BY <1>3, RequestFields DEF ShowError, Request, SameQuestion
<1>5. UNCHANGED <<who, store, fresh, logged, stray, cleared>>
  BY DEF ShowError, history
<1>6. /\ asks' \in Seq(Request) /\ Len(asks') = Len(asks) /\ SameQuestions(asks, asks')
      /\ Asked' = Asked /\ asks'[n] = r /\ \A k \in Asked : k # n => asks'[k] = asks[k]
  BY <1>4, OneRequest
<1>7. /\ GoodChat(store, asks', stray', fresh')
      /\ \A u \in Tabs : GoodChat(tab[u].chat, asks', stray', fresh')
  BY <1>5, <1>6, ChatsKept DEF PageOK, Typed
<1>8. ChatsOK' /\ ShownOK'
  BY <1>2, <1>5, <1>6, <1>7, StillGood DEF PageOK
<1>9. AsksOK'
  <2>1. \A k \in Asked : k = n \/ asks'[k] = asks[k]
    BY <1>6
  <2> QED BY <1>4, <1>5, <1>6, <2>1 DEF PageOK, AsksOK, SameQuestion
<1>10. SessionsOK'
  BY <1>2, <1>5 DEF PageOK, SessionsOK
<1> QED BY <1>8, <1>9, <1>10 DEF PageOK

\* A chat that gets the question or the answer n is good, also as what localStorage
\* keeps: what is not of the chat strays.
LEMMA SaidIsGood ==
  ASSUME NEW msgs \in Seq(Message), NEW role, NEW n, NEW more, more = Append(msgs, Said(role, n)),
         NEW requests, NEW strayed, NEW f, NEW s \in (1 .. f) \cup {Nothing},
         \A m \in AsksIn(msgs) : m \in DOMAIN requests, n \in DOMAIN requests,
         \A m \in AsksIn(msgs) \ strayed : requests[m].session = s,
         n \in strayed \/ requests[n].session = s,
         NEW stored \in (1 .. f) \cup {Nothing}, Strays(more, s, stored) \subseteq strayed
  PROVE  /\ GoodChat([session |-> s, messages |-> more], requests, strayed, f)
         /\ GoodChat([session |-> stored, messages |-> more], requests, strayed, f)
<1>1. AsksIn(more) = AsksIn(msgs) \cup {n}
  BY AsksMore
<1>2. \A m \in AsksIn(more) : m \in DOMAIN requests
  BY <1>1
<1>3. \A m \in AsksIn(more) \ strayed : requests[m].session = s
  BY <1>1
<1>4. \A m \in AsksIn(more) \ strayed : requests[m].session = stored
  <2>1. CASE s = stored
    BY <1>3, <2>1
  <2>2. CASE s # stored
    BY <2>2 DEF Strays
  <2> QED BY <2>1, <2>2
<1>5. PICK c : c = [session |-> s, messages |-> more]
  OBVIOUS
<1>6. c.session = s /\ c.messages = more
  BY <1>5
<1>7. GoodChat(c, requests, strayed, f)
  BY <1>2, <1>3, <1>6 DEF GoodChat
<1>8. PICK d : d = [session |-> stored, messages |-> more]
  OBVIOUS
<1>9. d.session = stored /\ d.messages = more
  BY <1>8
<1>10. GoodChat(d, requests, strayed, f)
  BY <1>2, <1>4, <1>9 DEF GoodChat
<1> QED BY <1>5, <1>7, <1>8, <1>10

\* The answer is a message of the session that the page has, or it strays.
LEMMA ShowKeeps ==
  ASSUME Typed, PageOK, NEW n \in Asked, Show(n)
  PROVE  PageOK'
<1>1. PICK t, msgs, r : Shown(n, t, msgs, r)
  BY ShowIs
<1>2. /\ asks' \in Seq(Request) /\ Len(asks') = Len(asks) /\ Asked' = Asked
      /\ SameQuestions(asks, asks') /\ asks'[n] = r /\ \A k \in Asked : k # n => asks'[k] = asks[k]
  BY <1>1, OneRequest DEF Shown
<1>3. UNCHANGED <<who, fresh, logged, cleared>> /\ asks[n].page # Nothing
  BY DEF Show
<1>4. stray \subseteq stray' /\ fresh \in Nat
  <2>1. stray' = stray \cup Strays(msgs, tab[t].chat.session, store.session)
                       \cup Late(tab[t].chat.session, n)
    BY <1>1 DEF Shown
  <2>2. fresh \in Nat
    BY DEF Typed
  <2> QED BY <2>1, <2>2
<1>5. /\ GoodChat(store, asks', stray', fresh')
      /\ \A u \in Tabs : GoodChat(tab[u].chat, asks', stray', fresh')
  BY <1>2, <1>3, <1>4, ChatsKept DEF PageOK
<1>6. /\ t \in Tabs /\ store' = [session |-> store.session, messages |-> msgs]
      /\ tab'[t].chat = [session |-> tab[t].chat.session, messages |-> msgs]
      /\ \A u \in Tabs : u # t => tab'[u] = tab[u]
  BY <1>1 DEF Shown
<1>7. GoodChat(store', asks', stray', fresh') /\ GoodChat(tab'[t].chat, asks', stray', fresh')
  <2>1. PICK old, s, stored, bs, st, f :
          /\ old = tab[t].chat.messages /\ s = tab[t].chat.session /\ stored = store.session
          /\ bs = asks' /\ st = stray' /\ f = fresh'
    OBVIOUS
  <2>2. old \in Seq(Message) /\ msgs = Append(old, Said("assistant", n))
    BY <1>1, <1>6, <2>1, ChatFields DEF Shown
  <2>3. /\ s \in (1 .. f) \cup {Nothing} /\ \A m \in AsksIn(old) : m \in DOMAIN bs
        /\ \A m \in AsksIn(old) \ st : bs[m].session = s
    BY <1>5, <1>6, <2>1 DEF GoodChat
  <2>4. stored \in (1 .. f) \cup {Nothing}
    BY <1>5, <2>1 DEF GoodChat
  <2>5. n \in DOMAIN bs /\ bs[n].session = asks[n].session
    <3>1. n \in DOMAIN bs
      BY <1>2, <2>1 DEF Asked
    <3>2. SameQuestion(asks[n], r)
      BY <1>1 DEF Shown
    <3> QED BY <1>2, <1>3, <2>1, <3>1, <3>2 DEF SameQuestion
  <2>6. Strays(msgs, s, stored) \subseteq st /\ Late(s, n) \subseteq st
    BY <1>1, <2>1 DEF Shown
  <2>7. n \in st \/ bs[n].session = s
    BY <2>5, <2>6 DEF Late
  <2>8. /\ GoodChat([session |-> s, messages |-> msgs], bs, st, f)
        /\ GoodChat([session |-> stored, messages |-> msgs], bs, st, f)
    BY <2>2, <2>3, <2>4, <2>5, <2>6, <2>7, SaidIsGood, ZenonT(40)
  <2> QED BY <1>6, <2>1, <2>8
<1>8. \A u \in Tabs : GoodChat(tab'[u].chat, asks', stray', fresh')
  BY <1>5, <1>6, <1>7
<1>9. ChatsOK' /\ ShownOK'
  BY <1>2, <1>3, <1>4, <1>7, <1>8, StillGood DEF PageOK
<1>10. AsksOK'
  <2>1. PICK a \in Request : a = asks[n] /\ r = [a EXCEPT !.page = Nothing]
    BY <1>1, RequestFields DEF Shown
  <2>2. /\ r.session = a.session /\ r.shown = a.shown /\ r.upto = a.upto /\ r.stage = a.stage
        /\ r.conv = a.conv /\ r.page = Nothing
    BY <2>1 DEF Request
  <2>3. Asked' = Asked /\ UNCHANGED <<who, fresh, logged>>
    BY <1>2, <1>3
  <2>4. ASSUME NEW k \in Asked PROVE
          /\ asks'[k].session \in 1 .. fresh /\ asks'[k].shown \subseteq Asked
          /\ asks'[k].upto \in 0 .. Len(logged)
          /\ asks'[k].stage = "sent" => asks'[k].conv = << >> /\ asks'[k].upto = 0
    <3>1. CASE k = n
      <4>1. /\ a.session \in 1 .. fresh /\ a.shown \subseteq Asked /\ a.upto \in 0 .. Len(logged)
            /\ a.stage = "sent" => a.conv = << >> /\ a.upto = 0
        BY <2>1 DEF PageOK, AsksOK
      <4>2. asks'[k] = r
        BY <1>2, <3>1
      <4> QED BY <2>2, <4>1, <4>2
    <3>2. CASE k # n
      <4>1. asks'[k] = asks[k]
        BY <1>2, <3>2
      <4> QED BY <4>1 DEF PageOK, AsksOK
    <3> QED BY <3>1, <3>2
  <2> QED BY <2>3, <2>4 DEF AsksOK
<1>11. SessionsOK'
  <2>1. store'.session = store.session
    BY <1>6
  <2>2. \A u \in Tabs : tab'[u].chat.session = tab[u].chat.session
    BY <1>6
  <2> QED BY <1>3, <2>1, <2>2 DEF PageOK, SessionsOK
<1> QED BY <1>9, <1>10, <1>11 DEF PageOK

\* The question is a message of the page's session, or of a new one; in localStorage it is of
\* the stored session, or strays.
LEMMA AskKeeps ==
  ASSUME Typed, PageOK, NEW t \in Tabs, NEW kind \in {"course", "file"}, Ask(t, kind)
  PROVE  PageOK'
<1>1. PICK s, msgs, stored, r : Sent(t, kind, s, msgs, stored, r)
  BY AskIs DEF PageOK
<1>2. PICK n : n = Len(asks) + 1
  OBVIOUS
<1>3. /\ asks' \in Seq(Request) /\ Len(asks') = Len(asks) + 1
      /\ Asked' = Asked \cup {n} /\ n \notin Asked
      /\ SameQuestions(asks, asks') /\ asks'[n] = r /\ \A k \in Asked : asks'[k] = asks[k]
  BY <1>1, <1>2, NewRequest DEF Sent
<1>4. who' = who /\ UNCHANGED <<logged, cleared>>
  BY DEF Ask
<1>5. stray \subseteq stray' /\ fresh \in Nat /\ fresh' \in Nat /\ fresh <= fresh'
  BY <1>1 DEF Sent, Typed
<1>6. /\ GoodChat(store, asks', stray', fresh')
      /\ \A u \in Tabs : GoodChat(tab[u].chat, asks', stray', fresh')
  BY <1>3, <1>4, <1>5, ChatsKept DEF PageOK
<1>7. /\ store' = [session |-> stored, messages |-> msgs]
      /\ tab'[t].chat = [session |-> s, messages |-> msgs]
      /\ \A u \in Tabs : u # t => tab'[u] = tab[u]
  BY <1>1 DEF Sent, Typed
<1>8. /\ s \in 1 .. fresh' /\ stored \in (1 .. fresh') \cup {Nothing}
      /\ r.session = s /\ r.user = who /\ r.page = t /\ r.stage = "sent" /\ r.conv = << >>
      /\ r.upto = 0 /\ r.shown = AnswersIn(msgs)
  <2>1. /\ r.session = s /\ r.user = who /\ r.page = t /\ r.stage = "sent" /\ r.conv = << >>
        /\ r.upto = 0 /\ r.shown = AnswersIn(msgs)
    BY <1>1 DEF Sent
  <2>2. /\ (s = fresh + 1 /\ fresh' = fresh + 1) \/ (s \in 1 .. fresh /\ fresh' = fresh)
        /\ stored = s \/ stored = store.session
    BY <1>1 DEF Sent
  <2>3. store.session \in (1 .. fresh') \cup {Nothing}
    BY <1>6 DEF GoodChat
  <2>4. s \in 1 .. fresh'
    BY <1>5, <2>2
  <2> QED BY <2>1, <2>2, <2>3, <2>4
<1>9. GoodChat(store', asks', stray', fresh') /\ GoodChat(tab'[t].chat, asks', stray', fresh')
  <2>1. PICK old, bs, st, f :
          /\ old = tab[t].chat.messages
          /\ bs = asks' /\ st = stray' /\ f = fresh'
    OBVIOUS
  <2>2. old \in Seq(Message) /\ msgs = Append(old, Said("user", n))
    BY <1>1, <1>2, <2>1, ChatFields DEF Sent
  <2>3. \A m \in AsksIn(old) : m \in DOMAIN bs
    BY <1>6, <2>1 DEF GoodChat
  <2>4. \A m \in AsksIn(old) \ st : bs[m].session = s
    <3>1. CASE tab[t].chat.session = s
      BY <1>6, <2>1, <3>1 DEF GoodChat
    <3>2. CASE tab[t].chat.session = Nothing
      <4>1. ChatOK(tab[t].chat)
        BY DEF PageOK, ChatsOK
      <4>2. AsksIn(old) \subseteq stray
        BY <2>1, <3>2, <4>1, NoSession
      <4> QED BY <1>5, <2>1, <4>2
    <3> QED BY <1>1, <3>1, <3>2 DEF Sent
  <2>5. n \in DOMAIN bs /\ bs[n].session = s
    BY <1>3, <1>4, <1>8, <2>1 DEF Asked
  <2>6. Strays(msgs, s, stored) \subseteq st
    BY <1>1, <2>1 DEF Sent
  <2>7. s \in (1 .. f) \cup {Nothing} /\ stored \in (1 .. f) \cup {Nothing}
    BY <1>8, <2>1
  <2>8. /\ GoodChat([session |-> s, messages |-> msgs], bs, st, f)
        /\ GoodChat([session |-> stored, messages |-> msgs], bs, st, f)
    BY <2>2, <2>3, <2>4, <2>5, <2>6, <2>7, SaidIsGood, ZenonT(40)
  <2> QED BY <1>7, <2>1, <2>8
<1>10. \A u \in Tabs : GoodChat(tab'[u].chat, asks', stray', fresh')
  BY <1>6, <1>7, <1>9
<1>11. ChatsOK'
  BY <1>9, <1>10 DEF ChatsOK, ChatOK
<1>12. /\ r.shown \subseteq Asked'
       /\ \A m \in r.shown \ stray' : asks'[m].session = r.session
  <2>1. r.shown \subseteq AsksIn(msgs)
    BY <1>8 DEF AnswersIn, AsksIn
  <2>2. /\ \A m \in AsksIn(msgs) : m \in DOMAIN asks'
        /\ \A m \in AsksIn(msgs) \ stray' : asks'[m].session = s
    BY <1>7, <1>9 DEF GoodChat
  <2> QED BY <1>4, <1>8, <2>1, <2>2 DEF Asked
<1>13. ShownOK'
  <2>1. \A k \in Asked : asks[k].shown \subseteq Asked
    BY DEF PageOK, AsksOK
  <2>2. \A k \in Asked : \A m \in asks[k].shown \ stray' : asks'[m].session = asks'[k].session
    BY <1>3, <1>5, <2>1 DEF PageOK, ShownOK
  <2>3. \A k \in Asked : asks'[k].shown = asks[k].shown
    BY <1>3
  <2>4. \A k \in Asked' : \A m \in asks'[k].shown \ stray' : asks'[m].session = asks'[k].session
    BY <1>3, <1>12, <2>2, <2>3
  <2> QED BY <2>4 DEF ShownOK
<1>14. AsksOK'
  <2>1. 1 .. fresh \subseteq 1 .. fresh'
    BY <1>5
  <2>2. 0 \in 0 .. Len(logged)
    BY DEF Typed
  <2>3. \A k \in Asked' : k = n \/ (k \in Asked /\ asks'[k] = asks[k])
    BY <1>3
  <2> QED BY <1>3, <1>4, <1>8, <1>12, <2>1, <2>2, <2>3 DEF PageOK, AsksOK
<1>15. SessionsOK'
  <2>1. fresh + 1 \notin 1 .. fresh
    BY <1>5
  <2>2. \A u \in Tabs : fresh + 1 \notin cleared[u]
    BY <2>1 DEF Typed
  <2>3. \A u \in Tabs : s \notin cleared[t] /\ stored \notin cleared[u]
    BY <1>1, <2>2 DEF Sent, PageOK, SessionsOK
  <2>4. store'.session = stored /\ tab'[t].chat.session = s
    BY <1>7
  <2> QED BY <1>4, <1>7, <2>3, <2>4 DEF PageOK, SessionsOK
<1> QED BY <1>11, <1>13, <1>14, <1>15 DEF PageOK

\* The steps of the server leave the page as it is.
LEMMA ServerKeepsChats ==
  ASSUME Typed, PageOK, UNCHANGED <<client, fresh, stray, cleared>>,
         asks' \in Seq(Request), Len(asks') = Len(asks), SameQuestions(asks, asks')
  PROVE  ChatsOK' /\ ShownOK' /\ SessionsOK'
<1>1. who' = who /\ store' = store /\ tab' = tab /\ UNCHANGED <<fresh, stray, cleared>>
  BY DEF client
<1>2. stray \subseteq stray' /\ fresh' \in Nat /\ fresh <= fresh' /\ ChatsOK
  BY <1>1 DEF PageOK, Typed
<1>3. /\ GoodChat(store', asks', stray', fresh')
      /\ \A u \in Tabs : GoodChat(tab'[u].chat, asks', stray', fresh')
  BY <1>1, <1>2, ChatsKept
<1>4. ChatsOK' /\ ShownOK'
  BY <1>1, <1>2, <1>3, StillGood DEF PageOK
<1>5. SessionsOK'
  BY <1>1 DEF PageOK, SessionsOK
<1> QED BY <1>4, <1>5
-----------------------------------------------------------------------------
\* A step of the server that makes progress on one question.
LEMMA AsksProgress ==
  ASSUME Typed, AsksOK, NEW n \in Asked, NEW s, s # "sent", NEW c,
         NEW u \in 0 .. Len(logged'), Len(logged) <= Len(logged'), Len(logged') \in Nat,
         Progresses(n, s, c, u)
  PROVE  AsksOK'
<1>1. /\ UNCHANGED <<who, fresh>> /\ Asked' = Asked /\ SameQuestions(asks, asks')
      /\ \A k \in Asked : asks'[k].page = asks[k].page
      /\ asks'[n].stage = s /\ asks'[n].upto = u
      /\ \A k \in Asked : k # n => asks'[k] = asks[k]
  BY DEF Progresses, Handled, client
<1>2. \A k \in Asked : SameQuestion(asks[k], asks'[k])
  BY <1>1, AskedIs DEF SameQuestions
<1>3. 0 .. Len(logged) \subseteq 0 .. Len(logged')
  <2>1. Len(logged) \in Nat
    BY DEF Typed
  <2> QED BY <2>1
<1>4. ASSUME NEW k \in Asked
      PROVE  /\ asks'[k].session \in 1 .. fresh /\ asks'[k].shown \subseteq Asked
  BY <1>1, <1>2 DEF AsksOK, SameQuestion
<1>5. ASSUME NEW k \in Asked
      PROVE  /\ asks'[k].upto \in 0 .. Len(logged')
             /\ asks'[k].stage = "sent" => asks'[k].conv = << >> /\ asks'[k].upto = 0
  <2>1. CASE k = n
    BY <1>1, <2>1
  <2>2. CASE k # n
    BY <1>1, <1>3, <2>2 DEF AsksOK
  <2> QED BY <2>1, <2>2
<1> QED BY <1>1, <1>4, <1>5 DEF AsksOK

\* A new process has no question that waits for its handler.
LEMMA AsksRestarted ==
  ASSUME Typed, AsksOK, Restart
  PROVE  /\ AsksOK'
         /\ \A n \in Asked : /\ asks'[n].conv = asks[n].conv /\ asks'[n].upto = asks[n].upto
                             /\ asks'[n].stage = "logged" <=> asks[n].stage = "logged"
<1>1. /\ Asked' = Asked /\ UNCHANGED <<who, fresh, logged>>
  BY RestartKeeps DEF Restart, client, history
<1>2. ASSUME NEW n \in Asked
      PROVE  /\ asks'[n].session = asks[n].session /\ asks'[n].shown = asks[n].shown
             /\ asks'[n].upto = asks[n].upto /\ asks'[n].conv = asks[n].conv
             /\ asks'[n].page = asks[n].page /\ asks'[n].user = asks[n].user
             /\ asks'[n].stage # "sent" /\ (asks'[n].stage = "logged" <=> asks[n].stage = "logged")
  <2>1. PICK s \in Stages : /\ asks'[n] = [asks[n] EXCEPT !.stage = s]
                            /\ s = "sent" => FALSE
                            /\ s = "logged" <=> asks[n].stage = "logged"
    BY RestartKeeps
  <2>2. PICK a \in Request : a = asks[n]
    BY RequestFields
  <2>3. PICK b : b = [a EXCEPT !.stage = s]
    OBVIOUS
  <2>4. /\ b.session = a.session /\ b.shown = a.shown /\ b.upto = a.upto /\ b.conv = a.conv
        /\ b.page = a.page /\ b.user = a.user /\ b.stage = s
    BY <2>3 DEF Request
  <2>5. asks'[n] = b
    BY <2>1, <2>2, <2>3
  <2> QED BY <2>1, <2>2, <2>4, <2>5
<1>3. AsksOK'
  BY <1>1, <1>2 DEF AsksOK
<1> QED BY <1>2, <1>3

\* Deletions leave the questions.
LEMMA AsksDeleted ==
  ASSUME AsksOK, NEW S, Deleted(S)
  PROVE  AsksOK'
BY DEF AsksOK, Deleted, client, Asked

\* The log and the history stay as they are, and no question becomes logged.
LEMMA TablesKept ==
  ASSUME Typed, LoggedOK, RowsOK, UNCHANGED <<rows, logged, gone>>,
         asks' \in Seq(Request), SameQuestions(asks, asks'),
         \A n \in Asked : asks'[n].stage = "logged" <=> asks[n].stage = "logged",
         \A n \in Asked' \ Asked : asks'[n].stage # "logged"
  PROVE  LoggedOK' /\ RowsOK'
<1>1. Asked \subseteq Asked' /\ \A n \in Asked : SameQuestion(asks[n], asks'[n])
  <2>1. Asked = 1 .. Len(asks) /\ Asked' = 1 .. Len(asks') /\ Len(asks) \in Nat /\ Len(asks') \in Nat
    BY AskedIs DEF Asked
  <2>2. Len(asks) <= Len(asks') /\ \A n \in 1 .. Len(asks) : SameQuestion(asks[n], asks'[n])
    BY DEF SameQuestions
  <2> QED BY <2>1, <2>2
<1>2. LoggedOK'
  <2>1. \A n \in Asked' : asks'[n].stage = "logged" <=> \E i \in DOMAIN logged : logged[i] = n
    BY DEF LoggedOK
  <2> QED BY <1>1, <2>1 DEF LoggedOK
<1>3. \A i, k : k \in DOMAIN logged => (IsRowOf(i, k)' <=> IsRowOf(i, k))
  BY <1>1 DEF IsRowOf, LoggedOK, SameQuestion
<1>4. RowsOK'
  <2>1. \A i \in DOMAIN rows : \E k \in DOMAIN logged : IsRowOf(i, k)' /\ logged[k] \notin gone
    BY <1>3 DEF RowsOK
  <2>2. \A k \in DOMAIN logged : logged[k] \in gone \/ \E i \in DOMAIN rows : IsRowOf(i, k)'
    BY <1>3 DEF RowsOK
  <2>3. \A i, j \in DOMAIN rows : i < j => rows[i].id < rows[j].id
    BY DEF RowsOK
  <2>4. \A i, j \in DOMAIN rows, k, l \in DOMAIN logged :
       i < j /\ IsRowOf(i, k)' /\ IsRowOf(j, l)' => k < l
    BY <1>3 DEF RowsOK
  <2> QED BY <2>1, <2>2, <2>3, <2>4 DEF RowsOK
<1> QED BY <1>2, <1>4

\* The conversation of a question stays what it is, while the log grows.
LEMMA ConversationKept ==
  ASSUME Typed, LoggedOK, LoggedOK', NEW n \in Asked, AsksOK, ConversationOf(n),
         asks'[n].conv = asks[n].conv, asks'[n].upto = asks[n].upto,
         Asked \subseteq Asked', \A m \in Asked : SameQuestion(asks[m], asks'[m]),
         gone \subseteq gone', logged' \in Seq(Nat), Len(logged) <= Len(logged'),
         \A k \in 1 .. Len(logged) : logged'[k] = logged[k]
  PROVE  ConversationOf(n)'
<1>1. PICK c, u : c = asks[n].conv /\ u = asks[n].upto
  OBVIOUS
<1>2. /\ DOMAIN logged = 1 .. Len(logged) /\ DOMAIN logged' = 1 .. Len(logged')
      /\ Len(logged) \in Nat /\ Len(logged') \in Nat
      /\ u \in 0 .. Len(logged)
  BY <1>1 DEF Typed, AsksOK
<1>3. \A k \in 1 .. u : k \in DOMAIN logged /\ k \in DOMAIN logged' /\ logged'[k] = logged[k]
  BY <1>2
<1>4. \A k \in DOMAIN logged : SameChat(logged[k], n)' <=> SameChat(logged[k], n)
  <2>1. \A k \in DOMAIN logged : logged'[k] = logged[k] /\ logged[k] \in Asked
    BY <1>2 DEF LoggedOK
  <2> QED BY <2>1 DEF SameChat, SameQuestion
<1>5. \A i \in DOMAIN c : \E k \in 1 .. u : logged[k] = c[i] /\ SameChat(logged[k], n)
  BY <1>1 DEF ConversationOf
<1>6. \A i \in DOMAIN c, k \in DOMAIN logged' :
        logged'[k] = c[i] => k \in DOMAIN logged /\ logged[k] = c[i]
  <2>1. SUFFICES ASSUME NEW i \in DOMAIN c, NEW k \in DOMAIN logged', logged'[k] = c[i]
                 PROVE  k \in DOMAIN logged /\ logged[k] = c[i]
    OBVIOUS
  <2>2. PICK l \in 1 .. u : logged[l] = c[i]
    BY <1>5
  <2>3. logged'[l] = logged'[k] /\ l \in DOMAIN logged /\ l \in DOMAIN logged'
    BY <1>3, <2>1, <2>2
  <2>4. \A x, y \in DOMAIN logged' : logged'[x] = logged'[y] => x = y
    BY DEF LoggedOK
  <2>5. l = k
    BY <2>3, <2>4
  <2> QED BY <2>2, <2>3, <2>5
<1>7. \A i, j \in DOMAIN c, k, l \in DOMAIN logged :
        i < j /\ logged[k] = c[i] /\ logged[l] = c[j] => k < l
  BY <1>1 DEF ConversationOf
<1>8. \A k \in 1 .. u : SameChat(logged[k], n) =>
       \/ logged[k] \in gone
       \/ \E i \in DOMAIN c : c[i] = logged[k]
       \/ /\ Len(c) = Recent
          /\ \A i \in DOMAIN c, l \in DOMAIN logged : logged[l] = c[i] => k < l
  BY <1>1 DEF ConversationOf
<1>9. \A i \in DOMAIN c : \E k \in 1 .. u : logged'[k] = c[i] /\ SameChat(logged[k], n)'
  BY <1>3, <1>4, <1>5
<1>10. \A i, j \in DOMAIN c, k, l \in DOMAIN logged' :
        i < j /\ logged'[k] = c[i] /\ logged'[l] = c[j] => k < l
  BY <1>6, <1>7
<1>11. ASSUME NEW k \in 1 .. u, SameChat(logged[k], n)'
       PROVE  \/ logged'[k] \in gone'
              \/ \E i \in DOMAIN c : c[i] = logged'[k]
              \/ /\ Len(c) = Recent
                 /\ \A i \in DOMAIN c, l \in DOMAIN logged' : logged'[l] = c[i] => k < l
  BY <1>3, <1>4, <1>6, <1>8, <1>11
<1>12. asks'[n].conv = c /\ asks'[n].upto = u
  BY <1>1
<1> QED BY <1>9, <1>10, <1>11, <1>12 DEF ConversationOf

\* An answer that is logged becomes the last row and the last entry of the log.
LEMMA LogKeeps ==
  ASSUME Typed, LoggedOK, RowsOK, NEW n \in Asked, Log(n)
  PROVE  /\ LoggedOK' /\ RowsOK'
         /\ Len(logged) <= Len(logged') /\ \A k \in 1 .. Len(logged) : logged'[k] = logged[k]
<1>1. /\ asks[n].stage = "answered" /\ gone' = gone
      /\ rows' \in Seq(Row) /\ logged' = Append(logged, n) /\ logged' \in Seq(Nat)
  BY LogIs
<1>2. PICK r \in Row : /\ r = [id |-> NextId, user |-> asks[n].user, session |-> asks[n].session, ask |-> n]
                       /\ rows' = Append(rows, r)
  BY LogIs
<1>3. PICK a, b : a = Len(rows) + 1 /\ b = Len(logged) + 1
  OBVIOUS
<1>4. /\ DOMAIN rows' = DOMAIN rows \cup {a} /\ rows'[a] = r
      /\ \A i \in DOMAIN rows : rows'[i] = rows[i] /\ i < a /\ i \in Nat
      /\ a \notin DOMAIN rows /\ a \in Nat
  <2>1. rows \in Seq(Row) /\ Len(rows) \in Nat /\ DOMAIN rows = 1 .. Len(rows)
    BY DEF Typed
  <2>2. /\ Len(rows') = Len(rows) + 1 /\ rows'[Len(rows) + 1] = r
        /\ \A i \in 1 .. Len(rows) : rows'[i] = rows[i]
    BY <1>2, <2>1, AppendOne
  <2>3. DOMAIN rows' = 1 .. Len(rows) + 1
    BY <1>1, <2>2
  <2> QED BY <1>3, <2>1, <2>2, <2>3
<1>5. /\ DOMAIN logged' = DOMAIN logged \cup {b} /\ logged'[b] = n
      /\ \A k \in DOMAIN logged : logged'[k] = logged[k] /\ k < b /\ k \in Nat
      /\ b \notin DOMAIN logged /\ b \in Nat
      /\ Len(logged) <= Len(logged') /\ DOMAIN logged = 1 .. Len(logged)
  <2>1. logged \in Seq(Nat) /\ Len(logged) \in Nat /\ DOMAIN logged = 1 .. Len(logged) /\ n \in Nat
    BY RequestFields DEF Typed
  <2>2. /\ Len(logged') = Len(logged) + 1 /\ logged'[Len(logged) + 1] = n
        /\ \A i \in 1 .. Len(logged) : logged'[i] = logged[i]
    BY <1>1, <2>1, AppendOne
  <2>3. DOMAIN logged' = 1 .. Len(logged) + 1
    BY <1>1, <2>2
  <2> QED BY <1>3, <2>1, <2>2, <2>3
<1>6. /\ Asked' = Asked /\ asks'[n].stage = "logged" /\ \A k \in Asked : k # n => asks'[k] = asks[k]
      /\ \A k \in Asked : SameQuestion(asks[k], asks'[k])
  <2>1. Progresses(n, "logged", asks[n].conv, asks[n].upto)
    BY LogStage
  <2>2. SameQuestions(asks, asks') /\ Asked = 1 .. Len(asks)
    BY <2>1, AskedIs DEF Progresses, Handled
  <2> QED BY <2>1, <2>2 DEF Progresses, Handled, SameQuestions
<1>7. \A k \in DOMAIN logged : logged[k] \in Asked /\ logged[k] # n
  BY <1>1 DEF LoggedOK
<1>8. LoggedOK'
  <2>1. \A k \in DOMAIN logged' : logged'[k] \in Asked
    BY <1>5, <1>7
  <2>2. \A k, l \in DOMAIN logged' : logged'[k] = logged'[l] => k = l
    BY <1>5, <1>7 DEF LoggedOK
  <2>3. ASSUME NEW m \in Asked
        PROVE  asks'[m].stage = "logged" <=> \E k \in DOMAIN logged' : logged'[k] = m
    <3>1. CASE m = n
      BY <1>5, <1>6, <3>1
    <3>2. CASE m # n
      <4>1. asks[m].stage = "logged" <=> \E k \in DOMAIN logged : logged[k] = m
        BY DEF LoggedOK
      <4>2. (\E k \in DOMAIN logged : logged[k] = m) <=> \E k \in DOMAIN logged' : logged'[k] = m
        BY <1>5, <3>2
      <4>3. asks'[m] = asks[m]
        BY <1>6, <3>2
      <4> QED BY <4>1, <4>2, <4>3
    <3> QED BY <3>1, <3>2
  <2>4. \A m \in gone' : \E k \in DOMAIN logged' : logged'[k] = m
    BY <1>1, <1>5 DEF LoggedOK
  <2> QED BY <1>6, <2>1, <2>2, <2>3, <2>4 DEF LoggedOK
<1>9. n \notin gone
  BY <1>7 DEF LoggedOK
<1>10. r.id = NextId /\ r.user = asks[n].user /\ r.session = asks[n].session /\ r.ask = n
  BY <1>2
<1>11. ASSUME NEW i \in DOMAIN rows PROVE rows[i].ask # n
  <2>1. PICK k \in DOMAIN logged : IsRowOf(i, k)
    BY DEF RowsOK
  <2> QED BY <1>7, <2>1 DEF IsRowOf
<1>12. \A i \in DOMAIN rows, k \in DOMAIN logged : IsRowOf(i, k)' <=> IsRowOf(i, k)
  BY <1>4, <1>5, <1>6, <1>7 DEF IsRowOf, SameQuestion
<1>13. IsRowOf(a, b)'
  BY <1>4, <1>5, <1>6, <1>10 DEF IsRowOf, SameQuestion
<1>14. \A i \in DOMAIN rows' : IsRowOf(i, b)' => i = a
  BY <1>4, <1>5, <1>11 DEF IsRowOf
<1>15. \A k \in DOMAIN logged' : IsRowOf(a, k)' => k = b
  BY <1>4, <1>5, <1>7, <1>10 DEF IsRowOf
<1>16. \A i \in DOMAIN rows' : \E k \in DOMAIN logged' : IsRowOf(i, k)' /\ logged'[k] \notin gone'
  <2>1. \A i \in DOMAIN rows : \E k \in DOMAIN logged : IsRowOf(i, k)' /\ logged[k] \notin gone
    BY <1>12 DEF RowsOK
  <2> QED BY <1>1, <1>4, <1>5, <1>9, <1>13, <2>1
<1>17. \A k \in DOMAIN logged' : logged'[k] \in gone' \/ \E i \in DOMAIN rows' : IsRowOf(i, k)'
  <2>1. \A k \in DOMAIN logged : logged[k] \in gone \/ \E i \in DOMAIN rows : IsRowOf(i, k)'
    BY <1>12 DEF RowsOK
  <2> QED BY <1>1, <1>4, <1>5, <1>13, <2>1
<1>18. \A i, j \in DOMAIN rows' : i < j => rows'[i].id < rows'[j].id
  <2>1. \A i \in DOMAIN rows : rows[i].id < NextId
    BY NextIdIsNext
  <2>2. \A i, j \in DOMAIN rows : i < j => rows[i].id < rows[j].id
    BY DEF RowsOK
  <2>3. \A i, j \in DOMAIN rows' : i < j => i \in DOMAIN rows
    BY <1>4
  <2> QED BY <1>4, <1>10, <2>1, <2>2, <2>3
<1>19. ASSUME NEW i \in DOMAIN rows', NEW j \in DOMAIN rows', NEW k \in DOMAIN logged',
              NEW l \in DOMAIN logged', i < j, IsRowOf(i, k)', IsRowOf(j, l)'
       PROVE  k < l
  <2>1. i \in DOMAIN rows
    BY <1>4, <1>19
  <2>2. k \in DOMAIN logged
    BY <1>4, <1>5, <1>14, <1>19, <2>1
  <2>3. CASE j = a
    BY <1>5, <1>15, <1>19, <2>2, <2>3
  <2>4. CASE j \in DOMAIN rows
    <3>1. l \in DOMAIN logged
      BY <1>4, <1>5, <1>14, <1>19, <2>4
    <3>2. IsRowOf(i, k) /\ IsRowOf(j, l)
      BY <1>12, <1>19, <2>1, <2>2, <2>4, <3>1
    <3> QED BY <1>19, <2>1, <2>2, <2>4, <3>1, <3>2 DEF RowsOK
  <2> QED BY <1>4, <2>3, <2>4
<1>20. RowsOK'
  BY <1>16, <1>17, <1>18, <1>19 DEF RowsOK
<1> QED BY <1>5, <1>8, <1>20

\* A question has one place in the log.
LEMMA OnePlace ==
  ASSUME LoggedOK, RowsOK, NEW i \in DOMAIN rows, NEW k \in DOMAIN logged, rows[i].ask = logged[k]
  PROVE  IsRowOf(i, k)
<1>1. PICK l \in DOMAIN logged : IsRowOf(i, l)
  BY DEF RowsOK
<1>2. logged[l] = logged[k]
  BY <1>1 DEF IsRowOf
<1>3. l = k
  BY <1>2 DEF LoggedOK
<1> QED BY <1>1, <1>3

\* Rows go, and what they held is in no other row.
LEMMA DeletedKeeps ==
  ASSUME Typed, LoggedOK, RowsOK, NEW S, Deleted(S)
  PROVE  LoggedOK' /\ RowsOK'
<1>1. /\ S \in SUBSET DOMAIN rows /\ UNCHANGED <<asks, logged>> /\ Asked' = Asked
      /\ gone' = gone \cup {rows[i].ask : i \in DOMAIN rows \ S}
  BY DEF Deleted, Asked
<1>2. /\ rows' \in Seq(Row)
      /\ \A k \in DOMAIN rows' : Place(S, k) \in S /\ rows'[k] = rows[Place(S, k)]
      /\ \A k, l \in DOMAIN rows' : k < l => Place(S, k) < Place(S, l)
      /\ \A i \in S : \E k \in DOMAIN rows' : Place(S, k) = i
  BY RowsLeft DEF Deleted
<1>3. \A i \in DOMAIN rows : \E k \in DOMAIN logged : rows[i].ask = logged[k]
  BY DEF RowsOK, IsRowOf
<1>4. LoggedOK'
  <2>1. \A m \in gone' : \E k \in DOMAIN logged : logged[k] = m
    BY <1>1, <1>3 DEF LoggedOK
  <2> QED BY <1>1, <2>1 DEF LoggedOK
<1>5. \A p \in DOMAIN rows' : \A k : IsRowOf(p, k)' <=> IsRowOf(Place(S, p), k)
  BY <1>1, <1>2 DEF IsRowOf
<1>6. ASSUME NEW p \in DOMAIN rows'
      PROVE  \E k \in DOMAIN logged : IsRowOf(p, k)' /\ logged[k] \notin gone'
  <2>1. PICK j \in S : j = Place(S, p)
    BY <1>2
  <2>2. PICK k \in DOMAIN logged : IsRowOf(j, k) /\ logged[k] \notin gone
    BY <1>1, <2>1 DEF RowsOK
  <2>3. ASSUME NEW i \in DOMAIN rows \ S, rows[i].ask = logged[k] PROVE FALSE
    <3>1. IsRowOf(i, k)
      BY <2>3, OnePlace
    <3>2. i \in DOMAIN rows /\ j \in DOMAIN rows /\ i # j /\ DOMAIN rows \subseteq Nat
      BY <1>1, <2>1, <2>3 DEF Typed
    <3>3. i < j \/ j < i
      BY <3>2
    <3>4. \A x, y \in DOMAIN rows, v, w \in DOMAIN logged :
            x < y /\ IsRowOf(x, v) /\ IsRowOf(y, w) => v < w
      BY DEF RowsOK
    <3>5. k < k /\ k \in Nat
      BY <2>2, <3>1, <3>2, <3>3, <3>4 DEF Typed
    <3> QED BY <3>5
  <2>4. logged[k] \notin gone'
    BY <1>1, <2>2, <2>3
  <2> QED BY <1>5, <2>1, <2>2, <2>4
<1>7. ASSUME NEW k \in DOMAIN logged
      PROVE  logged[k] \in gone' \/ \E p \in DOMAIN rows' : IsRowOf(p, k)'
  <2>1. CASE logged[k] \in gone
    BY <1>1, <2>1
  <2>2. CASE \E i \in DOMAIN rows : IsRowOf(i, k)
    <3>1. PICK i \in DOMAIN rows : IsRowOf(i, k)
      BY <2>2
    <3>2. CASE i \in S
      BY <1>2, <1>5, <3>1, <3>2
    <3>3. CASE i \notin S
      <4>1. logged[k] = rows[i].ask
        BY <3>1 DEF IsRowOf
      <4> QED BY <1>1, <3>3, <4>1
    <3> QED BY <3>2, <3>3
  <2> QED BY <2>1, <2>2 DEF RowsOK
<1>8. \A p, q \in DOMAIN rows' : p < q => rows'[p].id < rows'[q].id
  BY <1>1, <1>2 DEF RowsOK
<1>9. ASSUME NEW p \in DOMAIN rows', NEW q \in DOMAIN rows', NEW k \in DOMAIN logged,
             NEW l \in DOMAIN logged, p < q, IsRowOf(p, k)', IsRowOf(q, l)'
      PROVE  k < l
  <2>1. PICK i \in DOMAIN rows, j \in DOMAIN rows : i = Place(S, p) /\ j = Place(S, q) /\ i < j
    BY <1>1, <1>2, <1>9
  <2>2. IsRowOf(i, k) /\ IsRowOf(j, l)
    BY <1>5, <1>9, <2>1
  <2> QED BY <2>1, <2>2 DEF RowsOK
<1>10. RowsOK'
  BY <1>1, <1>6, <1>7, <1>8, <1>9 DEF RowsOK
<1> QED BY <1>4, <1>10

\* The conversation that a handler reads is the one of its question.
LEMMA ConversationRead ==
  ASSUME Typed, LoggedOK, RowsOK, NEW n \in Asked, Begin(n)
  PROVE  ConversationOf(n)'
<1>1. PICK S \in SUBSET DOMAIN rows :
        S = {i \in DOMAIN rows : rows[i].user = asks[n].user /\ rows[i].session = asks[n].session}
  OBVIOUS
<1>2. PICK q, N : q = AsksAt(S) /\ N = Cardinality(S)
  OBVIOUS
<1>3. /\ q \in Seq(Nat) /\ N \in Nat /\ Len(q) = N
      /\ \A e \in 1 .. N : Place(S, e) \in S /\ q[e] = rows[Place(S, e)].ask
      /\ \A e, f \in 1 .. N : e < f => Place(S, e) < Place(S, f)
      /\ \A i \in S : \E e \in 1 .. N : Place(S, e) = i
  BY <1>2, AsksAtIs
<1>4. PICK c : c = Latest(q)
  OBVIOUS
<1>5. PICK d \in Nat : /\ c \in Seq(Nat) /\ Len(c) + d = N
                       /\ \A k \in 1 .. Len(c) : c[k] = q[k + d]
                       /\ d # 0 => Len(c) = Recent
  BY <1>3, <1>4, LatestIs
<1>6. /\ asks'[n].conv = c /\ asks'[n].upto = Len(logged) /\ UNCHANGED <<rows, logged, gone>>
      /\ Asked' = Asked /\ \A m \in Asked : SameQuestion(asks[m], asks'[m])
  <2>1. c = Conversation(asks[n].user, asks[n].session)
    BY <1>1, <1>2, <1>4 DEF Conversation
  <2>2. Progresses(n, "thinking", c, Len(logged)) /\ UNCHANGED <<server, history>>
    BY <2>1, BeginIs
  <2>3. SameQuestions(asks, asks') /\ Asked = 1 .. Len(asks)
    BY <2>2, AskedIs DEF Progresses, Handled
  <2> QED BY <2>2, <2>3 DEF Progresses, Handled, SameQuestions, server, history
<1>7. /\ DOMAIN c = 1 .. Len(c) /\ Len(c) \in Nat
      /\ DOMAIN logged = 1 .. Len(logged) /\ Len(logged) \in Nat
      /\ DOMAIN rows \subseteq Nat
  BY <1>5 DEF Typed
<1>8. \A i \in DOMAIN c : i + d \in 1 .. N /\ c[i] = q[i + d]
  <2>1. PICK L \in Nat : L = Len(c)
    BY <1>7
  <2>2. L + d = N /\ \A i \in 1 .. L : i + d \in 1 .. L + d
    BY <1>5, <2>1
  <2> QED BY <1>5, <1>7, <2>1, <2>2
\* Each exchange of the conversation, and the place of its row.
<1>9. ASSUME NEW i \in DOMAIN c
      PROVE  Place(S, i + d) \in S /\ c[i] = rows[Place(S, i + d)].ask
  BY <1>3, <1>8
<1>10. \A i, j \in DOMAIN c : i < j => Place(S, i + d) < Place(S, j + d)
  <2>1. \A i, j \in DOMAIN c : i < j => i + d < j + d
    BY <1>7
  <2> QED BY <1>3, <1>8, <2>1
<1>11. \A x, y \in DOMAIN rows, v, w \in DOMAIN logged :
         x < y /\ IsRowOf(x, v) /\ IsRowOf(y, w) => v < w
  BY DEF RowsOK
<1>12. \A m, l \in Asked : SameChat(m, l)' <=> SameChat(m, l)
  BY <1>6 DEF SameChat, SameQuestion
<1>13. \A k \in DOMAIN logged : logged[k] \in Asked
  BY DEF LoggedOK
<1>14. ASSUME NEW i \in DOMAIN c
       PROVE  \E k \in DOMAIN logged : logged[k] = c[i] /\ SameChat(logged[k], n)
  <2>1. PICK p \in S : p = Place(S, i + d) /\ c[i] = rows[p].ask
    BY <1>9
  <2>2. PICK k \in DOMAIN logged : IsRowOf(p, k)
    BY <1>1, <2>1 DEF RowsOK
  <2>3. logged[k] = c[i] /\ SameChat(logged[k], n)
    BY <1>1, <2>1, <2>2 DEF IsRowOf, SameChat
  <2> QED BY <2>3
<1>15. ASSUME NEW i \in DOMAIN c, NEW j \in DOMAIN c, NEW k \in DOMAIN logged, NEW l \in DOMAIN logged,
              i < j, logged[k] = c[i], logged[l] = c[j]
       PROVE  k < l
  <2>1. PICK p \in S, o \in S : /\ p = Place(S, i + d) /\ c[i] = rows[p].ask
                                /\ o = Place(S, j + d) /\ c[j] = rows[o].ask
    BY <1>9
  <2>2. p < o /\ IsRowOf(p, k) /\ IsRowOf(o, l)
    BY <1>1, <1>10, <1>15, <2>1, OnePlace
  <2> QED BY <1>1, <1>11, <2>2
<1>16. ASSUME NEW k \in DOMAIN logged, SameChat(logged[k], n), logged[k] \notin gone,
              \A i \in DOMAIN c : c[i] # logged[k]
       PROVE  Len(c) = Recent /\ \A i \in DOMAIN c, l \in DOMAIN logged : logged[l] = c[i] => k < l
  <2>1. PICK p \in DOMAIN rows : IsRowOf(p, k)
    BY <1>16 DEF RowsOK
  <2>2. p \in S
    BY <1>1, <1>16, <2>1 DEF IsRowOf, SameChat
  <2>3. PICK e \in 1 .. N : Place(S, e) = p
    BY <1>3, <2>2
  <2>4. q[e] = logged[k]
    BY <1>3, <2>1, <2>3 DEF IsRowOf
  <2>5. ~(e > d)
    <3>1. SUFFICES ASSUME e > d PROVE FALSE
      OBVIOUS
    <3>2. PICK i : i = e - d
      OBVIOUS
    <3>3. i \in DOMAIN c /\ i + d = e
      BY <1>3, <1>5, <1>7, <3>1, <3>2
    <3> QED BY <1>8, <1>16, <2>4, <3>3
  <2>6. d # 0 /\ \A i \in DOMAIN c : e < i + d
    <3>1. e \in Nat /\ e >= 1 /\ e <= d
      BY <1>3, <2>5
    <3>2. \A i \in DOMAIN c : i \in Nat /\ i >= 1
      BY <1>7
    <3> QED BY <3>1, <3>2
  <2>7. ASSUME NEW i \in DOMAIN c, NEW l \in DOMAIN logged, logged[l] = c[i] PROVE k < l
    <3>1. PICK o \in S : o = Place(S, i + d) /\ c[i] = rows[o].ask
      BY <1>9
    <3>2. p < o
      BY <1>3, <1>8, <2>3, <2>6, <3>1
    <3>3. IsRowOf(o, l)
      BY <1>1, <2>7, <3>1, OnePlace
    <3> QED BY <1>1, <1>11, <2>1, <3>1, <3>2, <3>3
  <2> QED BY <1>5, <2>6, <2>7
<1>17. \A k \in 1 .. Len(logged) : SameChat(logged[k], n)' <=> SameChat(logged[k], n)
  <2>1. \A k \in 1 .. Len(logged) : logged'[k] = logged[k] /\ logged[k] \in Asked
    BY <1>6, <1>7, <1>13
  <2> QED BY <1>6, <2>1 DEF SameChat, SameQuestion
<1>18. \A i \in DOMAIN c : \E k \in 1 .. Len(logged) : logged'[k] = c[i] /\ SameChat(logged[k], n)'
  BY <1>6, <1>7, <1>14, <1>17
<1>19. \A i, j \in DOMAIN c, k, l \in DOMAIN logged' :
         i < j /\ logged'[k] = c[i] /\ logged'[l] = c[j] => k < l
  BY <1>6, <1>15
<1>20. ASSUME NEW k \in 1 .. Len(logged), SameChat(logged[k], n)'
       PROVE  \/ logged'[k] \in gone'
              \/ \E i \in DOMAIN c : c[i] = logged'[k]
              \/ /\ Len(c) = Recent
                 /\ \A i \in DOMAIN c, l \in DOMAIN logged' : logged'[l] = c[i] => k < l
  BY <1>6, <1>7, <1>16, <1>17, <1>20
<1> QED BY <1>6, <1>18, <1>19, <1>20 DEF ConversationOf
-----------------------------------------------------------------------------
\* The questions logged for a user and a subject.
LoggedFor(u, s) == { n \in Range(logged) : asks[n].user = u /\ Subject(asks[n].kind) = s }

\* The study time stays as long as nothing is logged.
LEMMA StudyKept ==
  ASSUME Typed, LoggedOK, StudyCounted, UNCHANGED <<minutes, logged>>, SameQuestions(asks, asks'),
         asks' \in Seq(Request)
  PROVE  StudyCounted'
<1>1. \A n \in Range(logged) : n \in Asked
  BY DEF LoggedOK, Range
<1>2. \A n \in Asked : SameQuestion(asks[n], asks'[n])
  BY AskedIs DEF SameQuestions
<1>3. \A n \in Range(logged) : asks'[n].user = asks[n].user /\ asks'[n].kind = asks[n].kind
  BY <1>1, <1>2 DEF SameQuestion
<1>4. ASSUME NEW u \in Users, NEW s \in Subjects
      PROVE  {n \in Range(logged) : asks'[n].user = u /\ Subject(asks'[n].kind) = s} = LoggedFor(u, s)
  BY <1>3 DEF LoggedFor
<1>5. \A u \in Users, s \in Subjects : minutes[u][s] = 2 * Cardinality(LoggedFor(u, s))
  BY DEF StudyCounted, LoggedFor
<1> QED BY <1>4, <1>5 DEF StudyCounted

\* An answer that is logged adds two minutes for its user and subject.
LEMMA StudyLogged ==
  ASSUME Typed, LoggedOK, StudyCounted, NEW n \in Asked, Log(n)
  PROVE  StudyCounted'
<1>1. PICK v \in Users, z \in Subjects : v = asks[n].user /\ z = Subject(asks[n].kind)
  BY RequestFields, SubjectIs
<1>2. logged' = Append(logged, n) /\ minutes' = [minutes EXCEPT ![v][z] = @ + 2]
  BY <1>1 DEF Log
<1>3. \A k \in Asked : asks'[k].user = asks[k].user /\ asks'[k].kind = asks[k].kind
  <2>1. SameQuestions(asks, asks') /\ Asked = 1 .. Len(asks)
    BY LogStage, AskedIs DEF Progresses, Handled
  <2> QED BY <2>1 DEF SameQuestions, SameQuestion
<1>4. Range(logged) \subseteq Asked /\ n \notin Range(logged)
  <2>1. asks[n].stage # "logged"
    BY DEF Log
  <2> QED BY <2>1 DEF LoggedOK, Range
<1>5. Range(logged') = Range(logged) \cup {n}
  <2>1. logged \in Seq(Nat) /\ n \in Nat
    BY RequestFields DEF Typed
  <2>2. DOMAIN logged' = DOMAIN logged \cup {Len(logged) + 1}
    BY <1>2, <2>1
  <2>3. (\A i \in DOMAIN logged : logged'[i] = logged[i]) /\ logged'[Len(logged) + 1] = n
    BY <1>2, <2>1
  <2> QED BY <2>2, <2>3 DEF Range
<1>6. ASSUME NEW u \in Users, NEW s \in Subjects
      PROVE  minutes'[u][s] = 2 * Cardinality({m \in Range(logged') : asks'[m].user = u /\ Subject(asks'[m].kind) = s})
  <2>1. PICK A, B : A = LoggedFor(u, s) /\ B = {m \in Range(logged') : asks'[m].user = u /\ Subject(asks'[m].kind) = s}
    OBVIOUS
  <2>2. minutes[u][s] = 2 * Cardinality(A) /\ minutes[u][s] \in Nat
    BY <2>1 DEF StudyCounted, LoggedFor, Typed
  <2>3. IsFiniteSet(A) /\ Cardinality(A) \in Nat
    <3>1. IsFiniteSet(Asked)
      BY AskedIs, FS_Interval
    <3>2. A \subseteq Asked
      BY <1>4, <2>1 DEF LoggedFor
    <3> QED BY <3>1, <3>2, FS_Subset, FS_CardinalityType
  <2>4. \A m \in Range(logged') : asks'[m].user = asks[m].user /\ asks'[m].kind = asks[m].kind
    BY <1>3, <1>4, <1>5
  <2>5. CASE u = v /\ s = z
    <3>1. B = A \cup {n} /\ n \notin A
      BY <1>1, <1>4, <1>5, <2>1, <2>4, <2>5 DEF LoggedFor
    <3>2. Cardinality(B) = Cardinality(A) + 1
      BY <2>3, <3>1, FS_AddElement
    <3>3. minutes'[u][s] = minutes[u][s] + 2
      BY <1>2, <2>5 DEF Typed
    <3> QED BY <2>1, <2>2, <2>3, <3>2, <3>3
  <2>6. CASE ~(u = v /\ s = z)
    <3>1. B = A
      BY <1>1, <1>4, <1>5, <2>1, <2>4, <2>6 DEF LoggedFor
    <3>2. minutes'[u][s] = minutes[u][s]
      BY <1>2, <2>6 DEF Typed
    <3> QED BY <2>1, <2>2, <3>1, <3>2
  <2> QED BY <2>5, <2>6
<1> QED BY <1>6 DEF StudyCounted
-----------------------------------------------------------------------------
\* What steps that touch no table keep of the server's part, with no question whose
\* conversation changes but x.
LEMMA ServerKept ==
  ASSUME Typed, AsksOK, ServerOK, StudyCounted, UNCHANGED <<rows, minutes, logged, gone>>,
         asks' \in Seq(Request), SameQuestions(asks, asks'), NEW x,
         \A n \in Asked : asks'[n].stage = "logged" <=> asks[n].stage = "logged",
         \A n \in Asked \ {x} : asks'[n].conv = asks[n].conv /\ asks'[n].upto = asks[n].upto,
         x \in Asked => ConversationOf(x)',
         \A n \in Asked' \ Asked :
           asks'[n].stage = "sent" /\ asks'[n].conv = << >> /\ asks'[n].upto = 0
  PROVE  ServerOK' /\ StudyCounted'
<1>1. LoggedOK' /\ RowsOK'
  BY TablesKept DEF ServerOK
<1>2. StudyCounted'
  BY StudyKept DEF ServerOK
<1>3. Asked \subseteq Asked' /\ \A n \in Asked : SameQuestion(asks[n], asks'[n])
  <2>1. Asked = 1 .. Len(asks) /\ Asked' = 1 .. Len(asks') /\ Len(asks) \in Nat /\ Len(asks') \in Nat
    BY AskedIs DEF Asked
  <2>2. Len(asks) <= Len(asks') /\ \A n \in 1 .. Len(asks) : SameQuestion(asks[n], asks'[n])
    BY DEF SameQuestions
  <2> QED BY <2>1, <2>2
<1>4. ASSUME NEW n \in Asked' PROVE ConversationOf(n)'
  <2>1. CASE n \notin Asked
    BY <1>4, <2>1 DEF ConversationOf
  <2>2. CASE n \in Asked /\ n # x
    <3>1. gone \subseteq gone' /\ logged' \in Seq(Nat) /\ Len(logged) <= Len(logged')
          /\ \A k \in 1 .. Len(logged) : logged'[k] = logged[k]
      BY DEF Typed
    <3> QED BY <1>1, <1>3, <2>2, <3>1, ConversationKept DEF ServerOK
  <2>3. CASE n = x /\ n \in Asked
    BY <2>3
  <2> QED BY <2>1, <2>2, <2>3
<1> QED BY <1>1, <1>2, <1>4 DEF ServerOK

\* What the page does to the requests: it may stop waiting, or ask one more.
PageOnly ==
  /\ asks' \in Seq(Request) /\ SameQuestions(asks, asks')
  /\ \A n \in Asked : /\ asks'[n].stage = asks[n].stage /\ asks'[n].conv = asks[n].conv
                      /\ asks'[n].upto = asks[n].upto
  /\ \A n \in Asked' \ Asked :
       asks'[n].stage = "sent" /\ asks'[n].conv = << >> /\ asks'[n].upto = 0
  /\ UNCHANGED <<rows, minutes, logged, gone>>

\* Such steps keep what the server keeps.
LEMMA PageOnlyKeeps ==
  ASSUME Typed, AsksOK, ServerOK, StudyCounted, PageOnly
  PROVE  ServerOK' /\ StudyCounted'
<1>1. 0 \notin Asked
  BY AskedIs
<1>2. PICK x : x = 0
  OBVIOUS
<1>3. x \in Asked => ConversationOf(x)'
  BY <1>1, <1>2
<1> QED BY <1>3, ServerKept DEF PageOnly

\* A request that no page waits for any more is the same for the server.
LEMMA PageGone ==
  ASSUME NEW a \in Request, NEW r, r = [a EXCEPT !.page = Nothing]
  PROVE  /\ r \in Request /\ SameQuestion(a, r)
         /\ r.stage = a.stage /\ r.conv = a.conv /\ r.upto = a.upto
BY DEF Request, SameQuestion

\* Pages that stop waiting are such a step,
LEMMA DesertedIsPageOnly ==
  ASSUME Typed, NEW ts, asks' = Deserted(ts), UNCHANGED <<rows, minutes, logged, gone>>
  PROVE  PageOnly
<1>1. asks' \in Seq(Request) /\ SameQuestions(asks, asks') /\ Asked' = Asked
  BY DesertedKeeps
<1>2. ASSUME NEW n \in Asked
      PROVE  /\ asks'[n].stage = asks[n].stage /\ asks'[n].conv = asks[n].conv
             /\ asks'[n].upto = asks[n].upto
  <2>1. PICK a \in Request : a = asks[n]
    BY RequestFields
  <2>2. asks'[n] = a \/ asks'[n] = [a EXCEPT !.page = Nothing]
    BY <2>1, DesertedKeeps
  <2> QED BY <2>1, <2>2, PageGone
<1> QED BY <1>1, <1>2 DEF PageOnly

\* as is a response that arrives,
LEMMA AnsweredIsPageOnly ==
  ASSUME Typed, NEW n \in Asked, asks' = [asks EXCEPT ![n].page = Nothing],
         UNCHANGED <<rows, minutes, logged, gone>>
  PROVE  PageOnly
<1>1. PICK a \in Request : a = asks[n]
  BY RequestFields
<1>2. PICK r : r = [a EXCEPT !.page = Nothing]
  OBVIOUS
<1>3. /\ r \in Request /\ SameQuestion(asks[n], r)
      /\ r.stage = a.stage /\ r.conv = a.conv /\ r.upto = a.upto
  BY <1>1, <1>2, PageGone
<1>4. asks' = [asks EXCEPT ![n] = r]
  BY <1>1, <1>2
<1>5. /\ asks' \in Seq(Request) /\ SameQuestions(asks, asks') /\ Asked' = Asked
      /\ asks'[n] = r /\ \A k \in Asked : k # n => asks'[k] = asks[k]
  BY <1>3, <1>4, OneRequest
<1>6. ASSUME NEW k \in Asked
      PROVE  /\ asks'[k].stage = asks[k].stage /\ asks'[k].conv = asks[k].conv
             /\ asks'[k].upto = asks[k].upto
  BY <1>1, <1>3, <1>5
<1> QED BY <1>5, <1>6 DEF PageOnly

\* a question that is asked,
LEMMA AskIsPageOnly ==
  ASSUME Typed, ChatsOK, NEW t \in Tabs, NEW kind \in {"course", "file"}, Ask(t, kind)
  PROVE  PageOnly
<1>1. PICK s, msgs, stored, r : Sent(t, kind, s, msgs, stored, r)
  BY AskIs
<1>2. /\ r \in Request /\ asks' = Append(asks, r)
      /\ r.stage = "sent" /\ r.conv = << >> /\ r.upto = 0
  BY <1>1 DEF Sent
<1>3. /\ asks' \in Seq(Request) /\ SameQuestions(asks, asks')
      /\ Asked' = Asked \cup {Len(asks) + 1}
      /\ asks'[Len(asks) + 1] = r /\ \A n \in Asked : asks'[n] = asks[n]
  BY <1>2, NewRequest
<1>4. UNCHANGED <<rows, minutes, logged, gone>>
  BY DEF Ask, server
<1> QED BY <1>2, <1>3, <1>4 DEF PageOnly

\* and a step that leaves the requests as they are.
LEMMA SameIsPageOnly ==
  ASSUME Typed, UNCHANGED <<asks, rows, minutes, logged, gone>>
  PROVE  PageOnly
BY AskedIs DEF PageOnly, Typed, SameQuestions, SameQuestion, Asked

\* A handler moves on: of one question the stage changes, and it is not logged.
LEMMA HandlerKeeps ==
  ASSUME Typed, PageOK, ServerOK, StudyCounted, NEW n \in Asked,
         Answer(n) \/ Fail(n) \/ LogFails(n)
  PROVE  PageOK' /\ ServerOK' /\ StudyCounted'
<1>1. PICK s : /\ s \in {"answered", "failed", "unlogged"} /\ UNCHANGED <<server, history>>
               /\ Progresses(n, s, asks[n].conv, asks[n].upto) /\ asks[n].stage # "logged"
  BY AnswerIs, FailIs, LogFailsIs DEF Answer, Fail, LogFails
<1>2. /\ UNCHANGED <<client, fresh, stray, cleared>> /\ UNCHANGED <<rows, minutes, logged, gone>>
      /\ asks' \in Seq(Request) /\ Len(asks') = Len(asks) /\ SameQuestions(asks, asks') /\ Asked' = Asked
      /\ asks'[n].stage = s /\ asks'[n].conv = asks[n].conv /\ asks'[n].upto = asks[n].upto
      /\ \A k \in Asked : k # n => asks'[k] = asks[k]
  BY <1>1 DEF Progresses, Handled, server, history
<1>3. ChatsOK' /\ ShownOK' /\ SessionsOK'
  BY <1>2, ServerKeepsChats
<1>4. AsksOK'
  <2>1. asks[n].upto \in 0 .. Len(logged') /\ Len(logged) <= Len(logged') /\ Len(logged') \in Nat
    BY <1>2 DEF PageOK, AsksOK, Typed
  <2>2. PICK u \in 0 .. Len(logged') : u = asks[n].upto
    BY <2>1
  <2>3. PICK c : c = asks[n].conv
    OBVIOUS
  <2> QED BY <1>1, <2>1, <2>2, <2>3, AsksProgress DEF PageOK
<1>5. ServerOK' /\ StudyCounted'
  <2>1. PICK x : x = 0
    OBVIOUS
  <2>2. x \in Asked => ConversationOf(x)'
    BY <2>1, AskedIs
  <2>3. \A k \in Asked : asks'[k].stage = "logged" <=> asks[k].stage = "logged"
    BY <1>1, <1>2
  <2>4. \A k \in Asked \ {x} : asks'[k].conv = asks[k].conv /\ asks'[k].upto = asks[k].upto
    BY <1>2
  <2> QED BY <1>2, <2>2, <2>3, <2>4, ServerKept DEF PageOK
<1> QED BY <1>3, <1>4, <1>5 DEF PageOK

\* A handler that starts has read the conversation of its question.
LEMMA BeginKeeps ==
  ASSUME Typed, PageOK, ServerOK, StudyCounted, NEW n \in Asked, Begin(n)
  PROVE  PageOK' /\ ServerOK' /\ StudyCounted'
<1>1. PICK c, u : /\ c = Conversation(asks[n].user, asks[n].session) /\ u = Len(logged)
                  /\ Progresses(n, "thinking", c, u) /\ UNCHANGED <<server, history>>
                  /\ asks[n].stage = "sent"
  BY BeginIs DEF Begin
<1>2. /\ UNCHANGED <<client, fresh, stray, cleared>> /\ UNCHANGED <<rows, minutes, logged, gone>>
      /\ asks' \in Seq(Request) /\ Len(asks') = Len(asks) /\ SameQuestions(asks, asks') /\ Asked' = Asked
      /\ asks'[n].stage = "thinking"
      /\ \A k \in Asked : k # n => asks'[k] = asks[k]
  BY <1>1 DEF Progresses, Handled, server, history
<1>3. ChatsOK' /\ ShownOK' /\ SessionsOK'
  BY <1>2, ServerKeepsChats
<1>4. AsksOK'
  <2>1. u \in 0 .. Len(logged') /\ Len(logged) <= Len(logged') /\ Len(logged') \in Nat
    BY <1>1, <1>2 DEF Typed
  <2> QED BY <1>1, <2>1, AsksProgress DEF PageOK
<1>5. ServerOK' /\ StudyCounted'
  <2>1. ConversationOf(n)'
    BY ConversationRead DEF ServerOK
  <2>2. \A k \in Asked : asks'[k].stage = "logged" <=> asks[k].stage = "logged"
    BY <1>1, <1>2
  <2>3. \A k \in Asked \ {n} : asks'[k].conv = asks[k].conv /\ asks'[k].upto = asks[k].upto
    BY <1>2
  <2> QED BY <1>2, <2>1, <2>2, <2>3, ServerKept DEF PageOK
<1> QED BY <1>3, <1>4, <1>5 DEF PageOK

\* A restart changes neither the tables nor a conversation.
LEMMA RestartKeepsAll ==
  ASSUME Typed, PageOK, ServerOK, StudyCounted, Restart
  PROVE  PageOK' /\ ServerOK' /\ StudyCounted'
<1>1. /\ UNCHANGED <<client, fresh, stray, cleared>> /\ UNCHANGED <<rows, minutes, logged, gone>>
      /\ asks' \in Seq(Request) /\ Len(asks') = Len(asks) /\ SameQuestions(asks, asks') /\ Asked' = Asked
  BY RestartIs DEF Handled, server, history
<1>2. ChatsOK' /\ ShownOK' /\ SessionsOK'
  BY <1>1, ServerKeepsChats
<1>3. /\ AsksOK'
      /\ \A n \in Asked : /\ asks'[n].conv = asks[n].conv /\ asks'[n].upto = asks[n].upto
                          /\ asks'[n].stage = "logged" <=> asks[n].stage = "logged"
  BY AsksRestarted DEF PageOK
<1>4. ServerOK' /\ StudyCounted'
  <2>1. PICK x : x = 0
    OBVIOUS
  <2>2. x \in Asked => ConversationOf(x)'
    BY <2>1, AskedIs
  <2> QED BY <1>1, <1>3, <2>2, ServerKept DEF PageOK
<1> QED BY <1>2, <1>3, <1>4 DEF PageOK

\* Logging keeps the order of the history, every conversation and the count of the study time.
LEMMA LogKeepsAll ==
  ASSUME Typed, PageOK, ServerOK, StudyCounted, NEW n \in Asked, Log(n)
  PROVE  PageOK' /\ ServerOK' /\ StudyCounted'
<1>1. Progresses(n, "logged", asks[n].conv, asks[n].upto)
  BY LogStage
<1>2. /\ UNCHANGED <<client, fresh, stray, cleared>> /\ Handled
      /\ asks' \in Seq(Request) /\ Len(asks') = Len(asks) /\ SameQuestions(asks, asks') /\ Asked' = Asked
      /\ asks'[n].conv = asks[n].conv /\ asks'[n].upto = asks[n].upto
      /\ \A k \in Asked : k # n => asks'[k] = asks[k]
  BY <1>1 DEF Progresses, Handled
<1>3. ChatsOK' /\ ShownOK' /\ SessionsOK'
  BY <1>2, ServerKeepsChats
<1>4. /\ LoggedOK' /\ RowsOK'
      /\ Len(logged) <= Len(logged') /\ \A k \in 1 .. Len(logged) : logged'[k] = logged[k]
  BY LogKeeps DEF ServerOK
<1>5. logged' \in Seq(Nat) /\ gone' = gone
  BY LogIs DEF ServerOK
<1>6. AsksOK'
  <2>1. asks[n].upto \in 0 .. Len(logged') /\ Len(logged') \in Nat
    BY <1>4, <1>5 DEF PageOK, AsksOK, Typed
  <2>2. PICK u \in 0 .. Len(logged') : u = asks[n].upto
    BY <2>1
  <2>3. PICK c : c = asks[n].conv
    OBVIOUS
  <2> QED BY <1>1, <1>4, <2>1, <2>2, <2>3, AsksProgress DEF PageOK
<1>7. \A m \in Asked : SameQuestion(asks[m], asks'[m])
  BY <1>2, AskedIs DEF SameQuestions
<1>8. ASSUME NEW k \in Asked PROVE ConversationOf(k)'
  <2>1. asks'[k].conv = asks[k].conv /\ asks'[k].upto = asks[k].upto
    BY <1>2
  <2> QED BY <1>2, <1>4, <1>5, <1>7, <2>1, ConversationKept DEF PageOK, ServerOK
<1>9. StudyCounted'
  BY StudyLogged DEF ServerOK
<1> QED BY <1>2, <1>3, <1>4, <1>6, <1>8, <1>9 DEF PageOK, ServerOK

\* A deletion keeps the order of the history, every conversation and the study time.
LEMMA DeletedKeepsAll ==
  ASSUME Typed, PageOK, ServerOK, StudyCounted, NEW S, Deleted(S)
  PROVE  PageOK' /\ ServerOK' /\ StudyCounted'
<1>1. /\ UNCHANGED <<client, fresh, stray, cleared>> /\ UNCHANGED <<asks, minutes, logged>>
      /\ gone \subseteq gone' /\ Asked' = Asked
  BY DEF Deleted, Asked
<1>2. /\ asks' \in Seq(Request) /\ Len(asks') = Len(asks) /\ SameQuestions(asks, asks')
      /\ \A m \in Asked : SameQuestion(asks[m], asks'[m])
  BY <1>1 DEF Typed, SameQuestions, SameQuestion
<1>3. ChatsOK' /\ ShownOK' /\ SessionsOK'
  BY <1>1, <1>2, ServerKeepsChats
<1>4. AsksOK'
  BY AsksDeleted DEF PageOK
<1>5. LoggedOK' /\ RowsOK'
  BY DeletedKeeps DEF ServerOK
<1>6. ASSUME NEW k \in Asked PROVE ConversationOf(k)'
  <2>1. /\ logged' \in Seq(Nat) /\ Len(logged) <= Len(logged')
        /\ \A i \in 1 .. Len(logged) : logged'[i] = logged[i]
        /\ asks'[k].conv = asks[k].conv /\ asks'[k].upto = asks[k].upto
    BY <1>1 DEF Typed
  <2> QED BY <1>1, <1>2, <1>5, <2>1, ConversationKept DEF PageOK, ServerOK
<1>7. StudyCounted'
  BY <1>1, <1>2, StudyKept DEF ServerOK
<1> QED BY <1>1, <1>3, <1>4, <1>5, <1>6, <1>7 DEF PageOK, ServerOK
-----------------------------------------------------------------------------
\* Before the first question everything is in order.
LEMMA InitInv == Init => IInv
<1> SUFFICES ASSUME Init PROVE IInv
  OBVIOUS
<1>1. Typed
  BY InitTyped
<1>2. /\ Asked = {} /\ store = EmptyChat /\ \A t \in Tabs : tab[t].chat = EmptyChat
      /\ DOMAIN logged = {} /\ DOMAIN rows = {} /\ gone = {} /\ \A t \in Tabs : cleared[t] = {}
  BY DEF Init, Asked, Closed
<1>3. PageOK
  BY <1>2, EmptyIsGood DEF PageOK, ChatsOK, ChatOK, AsksOK, ShownOK, SessionsOK
<1>4. ServerOK
  BY <1>2 DEF ServerOK, LoggedOK, RowsOK
<1>5. StudyCounted
  <2>1. \A u \in Users, s \in Subjects : minutes[u][s] = 0
    BY DEF Init
  <2>2. \A u, s : {n \in Range(logged) : asks[n].user = u /\ Subject(asks[n].kind) = s} = {}
    BY <1>2 DEF Range
  <2>3. ASSUME NEW u \in Users, NEW s \in Subjects
        PROVE  minutes[u][s] = 2 * Cardinality({n \in Range(logged) : asks[n].user = u /\ Subject(asks[n].kind) = s})
    <3>1. PICK A : A = {n \in Range(logged) : asks[n].user = u /\ Subject(asks[n].kind) = s}
      OBVIOUS
    <3>2. Cardinality(A) = 0
      BY <2>2, <3>1, FS_EmptySet
    <3>3. minutes[u][s] = 2 * Cardinality(A)
      BY <2>1, <3>2
    <3> QED BY <3>1, <3>3
  <2> QED BY <2>3 DEF StudyCounted
<1> QED BY <1>1, <1>3, <1>4, <1>5 DEF IInv

\* Every step keeps the inductive invariant.
LEMMA StepInv == IInv /\ [Next]_vars => IInv'
<1> SUFFICES ASSUME IInv, [Next]_vars PROVE IInv'
  OBVIOUS
<1>0. Typed /\ PageOK /\ ServerOK /\ StudyCounted /\ ChatsOK /\ AsksOK /\ LoggedOK /\ RowsOK
  BY DEF IInv, PageOK, ServerOK
<1>1. Typed'
  BY <1>0, TypedStep
<1>2. CASE UNCHANGED vars
  BY <1>0, <1>1, <1>2 DEF vars, client, server, history, IInv, PageOK, ChatsOK, ChatOK, GoodChat,
     AsksOK, ShownOK, SessionsOK, SameChat, ServerOK, LoggedOK, RowsOK, IsRowOf, ConversationOf,
     StudyCounted, Asked
<1>3. ASSUME NEW t \in Tabs, Mount(t) PROVE IInv'
  <2>1. PageOnly
    BY <1>0, <1>3, SameIsPageOnly DEF Mount, server, history
  <2> QED BY <1>0, <1>1, <1>3, <2>1, MountKeeps, PageOnlyKeeps DEF IInv
<1>4. ASSUME NEW t \in Tabs, Leave(t) PROVE IInv'
  <2>1. PageOnly
    BY <1>0, <1>4, DesertedIsPageOnly DEF Leave, server, history
  <2> QED BY <1>0, <1>1, <1>4, <2>1, LeaveKeeps, PageOnlyKeeps DEF IInv
<1>5. ASSUME NEW t \in Tabs, ClearChat(t) PROVE IInv'
  <2>1. PageOnly
    BY <1>0, <1>5, SameIsPageOnly DEF ClearChat, server
  <2> QED BY <1>0, <1>1, <1>5, <2>1, ClearKeeps, PageOnlyKeeps DEF IInv
<1>6. ASSUME NEW t \in Tabs, NEW kind \in {"course", "file"}, Ask(t, kind) PROVE IInv'
  <2>1. PageOnly
    BY <1>0, <1>6, AskIsPageOnly
  <2> QED BY <1>0, <1>1, <1>6, <2>1, AskKeeps, PageOnlyKeeps DEF IInv
<1>7. ASSUME NEW u \in Users, SwitchUser(u) PROVE IInv'
  <2>1. PageOnly
    BY <1>0, <1>7, DesertedIsPageOnly DEF SwitchUser, server, history
  <2> QED BY <1>0, <1>1, <1>7, <2>1, SwitchKeeps, PageOnlyKeeps DEF IInv
<1>8. ASSUME NEW u \in Users, ClearHistory(u) \/ \E id \in Ids : DeleteItem(u, id) PROVE IInv'
  <2>1. PICK S : Deleted(S)
    BY <1>8, DeletionIs
  <2> QED BY <1>0, <1>1, <2>1, DeletedKeepsAll DEF IInv
<1>9. ASSUME NEW n \in Asked, Handler(n) PROVE IInv'
  <2>1. CASE Begin(n)
    BY <1>0, <1>1, <2>1, BeginKeeps DEF IInv
  <2>2. CASE Answer(n)
    BY <1>0, <1>1, <2>2, HandlerKeeps DEF IInv
  <2>3. CASE Log(n)
    BY <1>0, <1>1, <2>3, LogKeepsAll DEF IInv
  <2> QED BY <1>9, <2>1, <2>2, <2>3 DEF Handler
<1>10. ASSUME NEW n \in Asked, Fail(n) \/ LogFails(n) PROVE IInv'
  BY <1>0, <1>1, <1>10, HandlerKeeps DEF IInv
<1>11. ASSUME NEW n \in Asked, Show(n) PROVE IInv'
  <2>1. PageOnly
    BY <1>0, <1>11, AnsweredIsPageOnly DEF Show, server
  <2> QED BY <1>0, <1>1, <1>11, <2>1, ShowKeeps, PageOnlyKeeps DEF IInv
<1>12. ASSUME NEW n \in Asked, ShowError(n) PROVE IInv'
  <2>1. PageOnly
    BY <1>0, <1>12, AnsweredIsPageOnly DEF ShowError, server, history
  <2> QED BY <1>0, <1>1, <1>12, <2>1, ShowErrorKeeps, PageOnlyKeeps DEF IInv
<1>13. CASE Restart
  BY <1>0, <1>1, <1>13, RestartKeepsAll DEF IInv
<1>14. ASSUME NEW u \in Users, NEW t \in Tabs, LoginOver(t, u) PROVE IInv'
  <2>1. PageOnly
    BY <1>0, <1>14, SameIsPageOnly DEF LoginOver, server, history
  <2> QED BY <1>0, <1>1, <1>14, <2>1, LoginKeeps, PageOnlyKeeps DEF IInv
<1> QED BY <1>2, <1>3, <1>4, <1>5, <1>6, <1>7, <1>8, <1>9, <1>10, <1>11, <1>12, <1>13, <1>14 DEF Next, Page

\* In every state of the system the inductive invariant holds.
THEOREM AlwaysInv == Spec => []IInv
BY InitInv, StepInv, PTL DEF Spec
-----------------------------------------------------------------------------
\* A question is found where it was logged.
LEMMA PlaceIs ==
  ASSUME LoggedOK, NEW k \in DOMAIN logged
  PROVE  PlaceIn(logged[k], logged) = k
<1>1. \A i \in DOMAIN logged : logged[i] = logged[k] => i = k
  BY DEF LoggedOK
<1> QED BY <1>1 DEF PlaceIn

\* The questions logged before question n began are those of the first places of the log.
LEMMA BeforeIs ==
  ASSUME Typed, AsksOK, NEW n \in Asked
  PROVE  \A m : m \in Range(Before(n)) <=> \E k \in 1 .. asks[n].upto : logged[k] = m
<1>1. PICK u \in 0 .. Len(logged) : u = asks[n].upto
  BY DEF AsksOK
<1>2. logged \in Seq(Nat) /\ Len(logged) \in Nat
  BY DEF Typed
<1>3. PICK q : q = SubSeq(logged, 1, u)
  OBVIOUS
<1>4. DOMAIN q = 1 .. u /\ \A k \in 1 .. u : q[k] = logged[k]
  BY <1>1, <1>2, <1>3
<1>5. Before(n) = q
  BY <1>1, <1>3 DEF Before
<1> QED BY <1>1, <1>4, <1>5 DEF Range

\* What is said of the places in the log is said of the conversations.
LEMMA ConversationIsSound ==
  ASSUME Typed, AsksOK, LoggedOK, \A n \in Asked : ConversationOf(n)
  PROVE  ConversationSound
<1>1. ASSUME NEW n \in Asked
      PROVE  LET conv == asks[n].conv IN
               /\ \A i \in DOMAIN conv : SameChat(conv[i], n) /\ conv[i] \in Range(Before(n))
               /\ \A i, j \in DOMAIN conv : i < j => PlaceIn(conv[i], logged) < PlaceIn(conv[j], logged)
               /\ \A m \in Range(Before(n)) :
                    SameChat(m, n) => m \in Range(conv) \cup gone \/ TooOld(m, n)
  <2>1. PICK c, u : c = asks[n].conv /\ u = asks[n].upto
    OBVIOUS
  <2>2. u \in 0 .. Len(logged) /\ DOMAIN logged = 1 .. Len(logged) /\ Len(logged) \in Nat
    BY <2>1 DEF AsksOK, Typed
  <2>3. \A k \in 1 .. u : k \in DOMAIN logged /\ k \in Nat
    BY <2>2
  <2>4. \A m : m \in Range(Before(n)) <=> \E k \in 1 .. u : logged[k] = m
    BY <2>1, BeforeIs
  <2>5. \A i \in DOMAIN c : \E k \in 1 .. u : logged[k] = c[i] /\ SameChat(logged[k], n)
    BY <1>1, <2>1 DEF ConversationOf
  <2>6. \A i, j \in DOMAIN c, k, l \in DOMAIN logged :
          i < j /\ logged[k] = c[i] /\ logged[l] = c[j] => k < l
    BY <1>1, <2>1 DEF ConversationOf
  <2>7. \A k \in 1 .. u : SameChat(logged[k], n) =>
          \/ logged[k] \in gone
          \/ \E i \in DOMAIN c : c[i] = logged[k]
          \/ /\ Len(c) = Recent
             /\ \A i \in DOMAIN c, l \in DOMAIN logged : logged[l] = c[i] => k < l
    BY <1>1, <2>1 DEF ConversationOf
  <2>8. \A i \in DOMAIN c : SameChat(c[i], n) /\ c[i] \in Range(Before(n))
    BY <2>4, <2>5
  <2>9. ASSUME NEW i \in DOMAIN c PROVE \E k \in DOMAIN logged : logged[k] = c[i] /\ PlaceIn(c[i], logged) = k
    <3>1. PICK k \in DOMAIN logged : logged[k] = c[i]
      BY <2>3, <2>5
    <3> QED BY <3>1, PlaceIs
  <2>10. \A i, j \in DOMAIN c : i < j => PlaceIn(c[i], logged) < PlaceIn(c[j], logged)
    BY <2>6, <2>9
  <2>11. ASSUME NEW m \in Range(Before(n)), SameChat(m, n), m \notin Range(c), m \notin gone
         PROVE  TooOld(m, n)
    <3>1. PICK k \in 1 .. u : logged[k] = m
      BY <2>4
    <3>2. \A i \in DOMAIN c : c[i] # m
      BY <2>11 DEF Range
    <3>3. Len(c) = Recent /\ \A i \in DOMAIN c, l \in DOMAIN logged : logged[l] = c[i] => k < l
      BY <2>7, <2>11, <3>1, <3>2
    <3>4. PlaceIn(m, logged) = k
      BY <2>3, <3>1, PlaceIs
    <3>5. \A i \in DOMAIN c : k < PlaceIn(c[i], logged)
      BY <2>9, <3>3
    <3> QED BY <2>1, <3>3, <3>4, <3>5 DEF TooOld, Range
  <2> QED BY <2>1, <2>8, <2>10, <2>11
<1> QED BY <1>1 DEF ConversationSound

\* The inductive invariant says what types the variables have.
LEMMA InvTypes == IInv => TypeOK
<1> SUFFICES ASSUME IInv PROVE TypeOK
  OBVIOUS
<1>0. Typed /\ ChatsOK /\ AsksOK /\ LoggedOK /\ \A n \in Asked : ConversationOf(n)
  BY DEF IInv, PageOK, ServerOK
<1>2. 1 .. fresh \subseteq Sessions
  BY <1>0, MaxAsksAssumption DEF Typed, Sessions
<1>3. ASSUME NEW c \in ChatState, ChatOK(c) PROVE c \in Chat
  <2>1. c.session \in Sessions \cup {Nothing}
    BY <1>2, <1>3 DEF ChatOK, GoodChat
  <2>2. PICK msgs : msgs = c.messages
    OBVIOUS
  <2>3. msgs \in Seq(Message) /\ Len(msgs) \in Nat
    BY <1>3, <2>2 DEF ChatState
  <2>4. \A i \in 1 .. Len(msgs) : msgs[i].ask \in AsksIn(msgs)
    BY <2>3 DEF AsksIn, Range
  <2>5. \A m \in AsksIn(msgs) : m \in Asked
    BY <1>3, <2>2 DEF ChatOK, GoodChat, Asked
  <2>6. \A i \in 1 .. Len(msgs) : msgs[i] \in [role : {"user", "assistant"}, ask : Asked]
    <3>1. \A i \in 1 .. Len(msgs) : msgs[i] \in Message /\ msgs[i].ask \in Asked
      BY <2>3, <2>4, <2>5
    <3> QED BY <3>1 DEF Message
  <2>7. msgs \in Seq([role : {"user", "assistant"}, ask : Asked])
    <3>1. PICK R : R = [role : {"user", "assistant"}, ask : Asked]
      OBVIOUS
    <3>2. DOMAIN msgs = 1 .. Len(msgs) /\ msgs = [i \in 1 .. Len(msgs) |-> msgs[i]]
      BY <2>3
    <3>3. \A i \in 1 .. Len(msgs) : msgs[i] \in R
      BY <2>6, <3>1
    <3>4. msgs \in [1 .. Len(msgs) -> R]
      BY <3>2, <3>3
    <3>5. msgs \in Seq(R)
      BY <2>3, <3>4
    <3> QED BY <3>1, <3>5
  <2> QED BY <1>3, <2>1, <2>2, <2>7 DEF Chat, ChatState
<1>4. store \in Chat
  BY <1>0, <1>3 DEF Typed, ChatsOK
<1>5. tab \in [Tabs -> [open : BOOLEAN, loading : BOOLEAN, chat : Chat]]
  <2>1. ASSUME NEW t \in Tabs PROVE tab[t] \in [open : BOOLEAN, loading : BOOLEAN, chat : Chat]
    <3>1. tab[t] \in TabState /\ tab[t].chat \in Chat
      BY <1>0, <1>3, ChatFields DEF ChatsOK
    <3> QED BY <3>1 DEF TabState
  <2> QED BY <1>0, <2>1 DEF Typed
<1>6. ASSUME NEW n \in Asked
      PROVE  /\ asks[n].user \in Users /\ asks[n].session \in Sessions
             /\ asks[n].page \in Tabs \cup {Nothing}
             /\ asks[n].upto \in 0 .. Len(logged)
             /\ Range(asks[n].conv) \cup asks[n].shown \subseteq Asked
  <2>1. Range(asks[n].conv) \subseteq Asked
    <3>1. PICK c, u : c = asks[n].conv /\ u = asks[n].upto
      OBVIOUS
    <3>2. \A i \in DOMAIN c : \E k \in 1 .. u : logged[k] = c[i]
      BY <1>0, <3>1 DEF ConversationOf
    <3>3. \A k \in 1 .. u : k \in DOMAIN logged
      BY <1>0, <3>1 DEF AsksOK, Typed
    <3> QED BY <1>0, <3>1, <3>2, <3>3 DEF LoggedOK, Range
  <2> QED BY <1>0, <1>2, <2>1, RequestFields DEF AsksOK
<1>7. Range(logged) \cup gone \cup stray \subseteq Asked
  BY <1>0 DEF LoggedOK, Typed, Range
<1>8. cleared \in [Tabs -> SUBSET Sessions]
  BY <1>0, <1>2 DEF Typed
<1>9. who \in Users
  BY <1>0 DEF Typed
<1> QED BY <1>4, <1>5, <1>6, <1>7, <1>8, <1>9 DEF TypeOK

\* The inductive invariant implies what the pages promise.
LEMMA InvRemembers == IInv => PagesRemember
<1> SUFFICES ASSUME IInv PROVE PagesRemember
  OBVIOUS
<1>0. Typed /\ PageOK /\ ChatsOK /\ AsksOK /\ ShownOK /\ LoggedOK /\ \A n \in Asked : ConversationOf(n)
  BY DEF IInv, PageOK, ServerOK
<1>1. ConversationSound
  BY <1>0, ConversationIsSound
<1>2. \A t \in Tabs : \A m \in AsksIn(tab[t].chat.messages) \ stray :
        asks[m].session = tab[t].chat.session
  BY <1>0 DEF ChatsOK, ChatOK, GoodChat
<1>3. ASSUME NEW n \in Asked, NEW m \in asks[n].shown \ stray, m \in Range(Before(n)),
             m \notin Range(asks[n].conv) \cup gone, asks[m].user = asks[n].user
      PROVE  TooOld(m, n)
  <2>1. SameChat(m, n)
    BY <1>0, <1>3 DEF ShownOK, SameChat
  <2> QED BY <1>1, <1>3, <2>1 DEF ConversationSound
<1> QED BY <1>2, <1>3 DEF PagesRemember

\* What later questions are answered with and what the dashboard counts is what was
\* logged: conversations are those of the user and the session, in the order of the
\* log and without a hole, and the study time is that of the logged questions.
THEOREM HistoryAlwaysOK == Spec => []HistoryOK
<1>1. IInv => HistoryOK
  <2> SUFFICES ASSUME IInv PROVE HistoryOK
    OBVIOUS
  <2>1. Typed /\ AsksOK /\ LoggedOK /\ StudyCounted /\ \A n \in Asked : ConversationOf(n)
    BY DEF IInv, PageOK, ServerOK
  <2> QED BY <2>1, InvTypes, ConversationIsSound DEF HistoryOK
<1> QED BY <1>1, AlwaysInv, PTL

\* A page shows what is of its session, and its next question is answered with what
\* it showed of its own user, except what is known to be lost.
THEOREM PagesAlwaysRemember == Spec => []PagesRemember
BY InvRemembers, AlwaysInv, PTL

\* A session that a tab has cleared never comes back to it.
THEOREM ClearedForGood == Spec => []ClearedStaysCleared
<1>1. IInv => ClearedStaysCleared
  BY DEF IInv, PageOK, SessionsOK, ClearedStaysCleared
<1> QED BY <1>1, AlwaysInv, PTL
=============================================================================
