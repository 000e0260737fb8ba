-------------------------- MODULE QuestionPipeline --------------------------
(***************************************************************************)
(* A question's way from the chat page (StudentChat.jsx) through           *)
(* POST /query/document (backend/routers/query.py) to the search history,  *)
(* and the conversation that later questions take from there.              *)
(*                                                                         *)
(* One browser: its tabs keep their session and messages and share the     *)
(* copies in localStorage, which survive a logout (AuthContext.jsx removes *)
(* the token, the role and the user only).  The search and the model are taken at their word: the *)
(* search finds passages or not, and every call of the model returns       *)
(* (EveryJobEnds of ResponseCache).  The handler runs on the event loop    *)
(* and is atomic up to the wait for the search or the model; so is         *)
(* log_user_activity, which has no await at all.                           *)
(*                                                                         *)
(* Questions are told apart by their place in asks.  Activity rows, which  *)
(* are only added, one with each history row, and the performance counters *)
(* are left out.                                                           *)
(***************************************************************************)
EXTENDS Subsequence, Functions

CONSTANTS
  Tabs,      \* open tabs of the browser
  Users,     \* students who use the browser, one after the other
  Recent,    \* exchanges a conversation is made of (5 in the code)
  MaxAsks,   \* bound: questions asked
  Nothing    \* no tab, no session

ASSUME RecentAssumption == Recent \in Nat \ {0}
ASSUME MaxAsksAssumption == MaxAsks \in Nat
ASSUME NothingAssumption == Nothing \notin Tabs /\ Nothing \notin Nat

VARIABLES
  who,      \* whose token is in localStorage
  store,    \* chatSessionId and chatMessages in localStorage
  tab,      \* the chat page of each tab
  asks,     \* the requests, in the order of asking
  rows,     \* search_history, in the order of timestamp
  minutes,  \* learning_progress: minutes of each user and subject
  fresh,    \* history: how many session ids were made
  logged,   \* history: the questions that were logged, in this order
  gone,     \* history: the questions whose rows were deleted
  stray,    \* history: the questions whose messages strayed into another session's chat
  cleared   \* history: the sessions each tab has cleared

client == <<who, store, tab>>
server == <<rows, minutes>>
history == <<fresh, logged, gone, stray, cleared>>
vars == <<client, asks, server, history>>

Sessions == 1 .. MaxAsks
Asked == DOMAIN asks
Subjects == {"branch", "file"}

EmptyChat == [session |-> Nothing, messages |-> << >>]
Closed == [open |-> FALSE, loading |-> FALSE, chat |-> EmptyChat]

Said(r, n) == [role |-> r, ask |-> n]
AsksIn(messages) == { m.ask : m \in Range(messages) }
AnswersIn(messages) == { m.ask : m \in { x \in Range(messages) : x.role = "assistant" } }

Init ==
  /\ who \in Users
  /\ store = EmptyChat
  /\ tab = [t \in Tabs |-> Closed]
  /\ asks = << >> /\ rows = << >>
  /\ minutes = [u \in Users |-> [s \in Subjects |-> 0]]
  /\ fresh = 0 /\ logged = << >> /\ gone = {} /\ stray = {}
  /\ cleared = [t \in Tabs |-> {}]
-----------------------------------------------------------------------------
\* The chat page.

\* The page is opened, or opened again: it shows what localStorage holds.
Mount(t) ==
  /\ ~tab[t].open
  /\ tab' = [tab EXCEPT ![t] = [open |-> TRUE, loading |-> FALSE, chat |-> store]]
  /\ UNCHANGED <<who, store, asks, server, history>>

\* No page waits any more for what these tabs have asked.
Deserted(ts) ==
  [n \in Asked |-> IF asks[n].page \in ts THEN [asks[n] EXCEPT !.page = Nothing] ELSE asks[n]]

\* The student leaves the page.  A late response changes no state of it, and
\* the updater that would save the messages does not run.
Leave(t) ==
  /\ tab[t].open
  /\ tab' = [tab EXCEPT ![t] = Closed]
  /\ asks' = Deserted({t})
  /\ UNCHANGED <<who, store, server, history>>

\* Logout, seen by all tabs through the storage event, and the next login.
SwitchUser(u) ==
  /\ u # who
  /\ who' = u
  /\ tab' = [t \in Tabs |-> Closed]
  /\ asks' = Deserted(Tabs)
  /\ UNCHANGED <<store, server, history>>

\* Login at /login, which is reachable while somebody is logged in, in a tab whose chat
\* page is therefore closed.  The token is replaced; the pages of the other tabs stay
\* open, with the messages of the user before and the answers they wait for.
LoginOver(t, u) ==
  /\ u # who /\ ~tab[t].open
  /\ who' = u
  /\ UNCHANGED <<store, tab, asks, server, history>>

\* Messages of a chat that is not the one of the stored session.
Strays(messages, session, stored) == IF session = stored THEN {} ELSE AsksIn(messages)

\* handleAsk: the question is shown and saved, a session made if there is none,
\* and the request sent.  The input is disabled until the answer is there.
Ask(t, kind) ==
  /\ tab[t].open /\ ~tab[t].loading /\ Len(asks) < MaxAsks
  /\ LET n == Len(asks) + 1
         old == tab[t].chat
         isNew == old.session = Nothing
         s == IF isNew THEN fresh + 1 ELSE old.session
         msgs == Append(old.messages, Said("user", n))
         stored == IF isNew THEN s ELSE store.session
     IN /\ tab' = [tab EXCEPT ![t] =
                     [open |-> TRUE, loading |-> TRUE, chat |-> [session |-> s, messages |-> msgs]]]
        /\ store' = [session |-> stored, messages |-> msgs]
        /\ fresh' = IF isNew THEN fresh + 1 ELSE fresh
        /\ asks' = Append(asks, [user |-> who, session |-> s, page |-> t, kind |-> kind,
                                 stage |-> "sent", conv |-> << >>, upto |-> 0,
                                 shown |-> AnswersIn(msgs)])
        /\ stray' = stray \cup Strays(msgs, s, stored)
  /\ UNCHANGED <<who, server, logged, gone, cleared>>

\* A response is on its way to the page; it may also get lost.
HasAnswer(n) == asks[n].stage \in {"answered", "logged", "unlogged"}

\* The answer arrives: it is appended to whatever the page shows by now, and
\* saved.  A page that was cleared meanwhile has another session or none.
Show(n) ==
  /\ asks[n].page # Nothing /\ HasAnswer(n)
  /\ LET t == asks[n].page
         chat == tab[t].chat
         msgs == Append(chat.messages, Said("assistant", n))
     IN /\ tab' = [tab EXCEPT ![t].loading = FALSE, ![t].chat.messages = msgs]
        /\ store' = [store EXCEPT !.messages = msgs]
        /\ stray' = stray \cup Strays(msgs, chat.session, store.session)
                          \cup (IF chat.session = asks[n].session THEN {} ELSE {n})
  /\ asks' = [asks EXCEPT ![n].page = Nothing]
  /\ UNCHANGED <<who, server, fresh, logged, gone, cleared>>

\* Status 500 or no connection: a message without answer or question is shown,
\* which the model leaves out.
ShowError(n) ==
  /\ asks[n].page # Nothing
  /\ tab' = [tab EXCEPT ![asks[n].page].loading = FALSE]
  /\ asks' = [asks EXCEPT ![n].page = Nothing]
  /\ UNCHANGED <<who, store, server, history>>

\* Mutant: the saved messages stay.
ClearChat_KeepSaved(t) ==
  /\ tab[t].open
  /\ tab' = [tab EXCEPT ![t].chat = EmptyChat]
  /\ store' = [store EXCEPT !.session = Nothing]
  /\ cleared' = [cleared EXCEPT ![t] = @ \cup ({tab[t].chat.session} \ {Nothing})]
  /\ UNCHANGED <<who, asks, server, fresh, logged, gone, stray>>

\* Mutant: the session stays in localStorage.
ClearChat_KeepSession(t) ==
  /\ tab[t].open
  /\ tab' = [tab EXCEPT ![t].chat = EmptyChat]
  /\ store' = [store EXCEPT !.messages = << >>]
  /\ cleared' = [cleared EXCEPT ![t] = @ \cup ({tab[t].chat.session} \ {Nothing})]
  /\ UNCHANGED <<who, asks, server, fresh, logged, gone, stray>>

\* clearChat, possible while an answer is awaited.
ClearChat(t) ==
  /\ tab[t].open
  /\ tab' = [tab EXCEPT ![t].chat = EmptyChat]
  /\ store' = EmptyChat
  /\ cleared' = [cleared EXCEPT ![t] = @ \cup ({tab[t].chat.session} \ {Nothing})]
  /\ UNCHANGED <<who, asks, server, fresh, logged, gone, stray>>
-----------------------------------------------------------------------------
\* The handler.

\* The questions of the rows at these places, and the last Recent of a sequence.
AsksAt(places) == Part([i \in DOMAIN rows |-> rows[i].ask], places)
Latest(s) == SubSeq(s, IF Len(s) > Recent THEN Len(s) - Recent + 1 ELSE 1, Len(s))

\* Mutant: the rows of the session, whoever the user.
Conversation_AnyUser(user, session) ==
  Latest(AsksAt({ i \in DOMAIN rows : rows[i].session = session }))

\* Mutant: without desc(), the first rows are taken and then reversed.
Conversation_Oldest(user, session) ==
  LET own == AsksAt({ i \in DOMAIN rows : rows[i].user = user /\ rows[i].session = session })
      upto == IF Len(own) > Recent THEN Recent ELSE Len(own)
  IN [i \in 1 .. upto |-> own[upto + 1 - i]]

\* The latest Recent rows of this user and session, in chronological order.
Conversation(user, session) ==
  Latest(AsksAt({ i \in DOMAIN rows : rows[i].user = user /\ rows[i].session = session }))

\* The handler starts: it reads the conversation and waits for the answer.
Begin(n) ==
  /\ asks[n].stage = "sent"
  /\ asks' = [asks EXCEPT ![n].stage = "thinking",
                          ![n].conv = Conversation(asks[n].user, asks[n].session),
                          ![n].upto = Len(logged)]
  /\ UNCHANGED <<client, server, history>>

\* The model has answered, the log is queued and the response sent.
Answer(n) ==
  /\ asks[n].stage = "thinking"
  /\ asks' = [asks EXCEPT ![n].stage = "answered"]
  /\ UNCHANGED <<client, server, history>>

\* An exception in the handler.  An answer from course material that cites a
\* passage always ends here: the citation is kept as a pair of the passage and
\* its count (352), and looking a pair up in the text raises TypeError (396).
\* The log was queued but goes with the response.
Fail(n) ==
  /\ asks[n].stage \in {"sent", "thinking"}
  /\ asks' = [asks EXCEPT ![n].stage = "failed"]
  /\ UNCHANGED <<client, server, history>>

Ids == { rows[i].id : i \in DOMAIN rows }
NextId == IF rows = << >> THEN 1 ELSE 1 + CHOOSE i \in Ids : \A j \in Ids : j <= i

\* The subject is the branch unless a PDF was sent along: other sources do not
\* get here.
Subject(kind) == IF kind = "file" THEN "file" ELSE "branch"

\* Mutant: the study time goes to the branch.
Log_Branch(n) ==
  /\ asks[n].stage = "answered"
  /\ rows' = Append(rows, [id |-> NextId, user |-> asks[n].user,
                           session |-> asks[n].session, ask |-> n])
  /\ minutes' = [minutes EXCEPT ![asks[n].user]["branch"] = @ + 2]
  /\ asks' = [asks EXCEPT ![n].stage = "logged"]
  /\ logged' = Append(logged, n)
  /\ UNCHANGED <<client, fresh, gone, stray, cleared>>

\* log_user_activity, after the response was sent.
Log(n) ==
  /\ asks[n].stage = "answered"
  /\ rows' = Append(rows, [id |-> NextId, user |-> asks[n].user,
                           session |-> asks[n].session, ask |-> n])
  /\ minutes' = [minutes EXCEPT ![asks[n].user][Subject(asks[n].kind)] = @ + 2]
  /\ asks' = [asks EXCEPT ![n].stage = "logged"]
  /\ logged' = Append(logged, n)
  /\ UNCHANGED <<client, fresh, gone, stray, cleared>>

\* The file is locked: rollback, and nobody is told.
LogFails(n) ==
  /\ asks[n].stage = "answered"
  /\ asks' = [asks EXCEPT ![n].stage = "unlogged"]
  /\ UNCHANGED <<client, server, history>>

\* DELETE /query/history/{id}, of a row of the user's own.
DeleteItem(u, id) ==
  /\ \E i \in DOMAIN rows :
       /\ rows[i].id = id /\ rows[i].user = u
       /\ rows' = Part(rows, DOMAIN rows \ {i})
       /\ gone' = gone \cup {rows[i].ask}
  /\ UNCHANGED <<client, asks, minutes, fresh, logged, stray, cleared>>

\* DELETE /query/history.
ClearHistory(u) ==
  /\ \E i \in DOMAIN rows : rows[i].user = u
  /\ rows' = Part(rows, { i \in DOMAIN rows : rows[i].user # u })
  /\ gone' = gone \cup { rows[i].ask : i \in { j \in DOMAIN rows : rows[j].user = u } }
  /\ UNCHANGED <<client, asks, minutes, fresh, logged, stray, cleared>>

\* The process dies with the requests and the logs it has queued.
Restart ==
  /\ \E n \in Asked : asks[n].stage \in {"sent", "thinking", "answered"}
  /\ asks' = [n \in Asked |->
       [asks[n] EXCEPT !.stage = CASE @ \in {"sent", "thinking"} -> "failed"
                                   [] @ = "answered" -> "unlogged"
                                   [] OTHER -> @]]
  /\ UNCHANGED <<client, server, history>>

Handler(n) == Begin(n) \/ Answer(n) \/ Log(n)
Page(n) == Show(n) \/ ShowError(n)

Next ==
  \/ \E t \in Tabs : \/ Mount(t) \/ Leave(t) \/ ClearChat(t)
                     \/ \E kind \in {"course", "file"} : Ask(t, kind)
  \/ \E u \in Users : \/ SwitchUser(u) \/ \E t \in Tabs : LoginOver(t, u)
                       \/ ClearHistory(u) \/ \E id \in Ids : DeleteItem(u, id)
  \/ \E n \in Asked : \/ Handler(n) \/ Page(n) \/ Fail(n) \/ LogFails(n)
  \/ Restart

Spec == Init /\ [][Next]_vars
-----------------------------------------------------------------------------
Chat == [session : Sessions \cup {Nothing},
         messages : Seq([role : {"user", "assistant"}, ask : Asked])]

TypeOK ==
  /\ who \in Users
  /\ store \in Chat
  /\ tab \in [Tabs -> [open : BOOLEAN, loading : BOOLEAN, chat : Chat]]
  /\ \A n \in Asked : /\ asks[n].user \in Users /\ asks[n].session \in Sessions
                      /\ asks[n].page \in Tabs \cup {Nothing}
                      /\ asks[n].upto \in 0 .. Len(logged)
                      /\ Range(asks[n].conv) \cup asks[n].shown \subseteq Asked
  /\ Range(logged) \cup gone \cup stray \subseteq Asked
  /\ cleared \in [Tabs -> SUBSET Sessions]

Before(n) == SubSeq(logged, 1, asks[n].upto)
SameChat(m, n) == asks[m].user = asks[n].user /\ asks[m].session = asks[n].session
PlaceIn(m, s) == CHOOSE i \in DOMAIN s : s[i] = m

\* The conversation of n is full, and m was logged before all of it.
TooOld(m, n) ==
  /\ Len(asks[n].conv) = Recent
  /\ \A c \in Range(asks[n].conv) : PlaceIn(m, logged) < PlaceIn(c, logged)

\* The conversation a question is answered with consists of exchanges that the
\* same user had in the same session, in the order they were logged, without a
\* hole that a deletion did not make: only exchanges older than all of it may be
\* missing, and only if it is full.
ConversationSound ==
  \A n \in Asked : LET conv == asks[n].conv IN
    /\ \A i \in DOMAIN conv : SameChat(conv[i], n) /\ conv[i] \in Range(Before(n))
    /\ \A i, j \in DOMAIN conv : i < j => PlaceIn(conv[i], logged) < PlaceIn(conv[j], logged)
    /\ \A m \in Range(Before(n)) :
         SameChat(m, n) => m \in Range(conv) \cup gone \/ TooOld(m, n)

\* The study time of a user and subject is that of the questions logged for
\* it, through failed logs, restarts and deleted histories.
StudyCounted ==
  \A u \in Users, s \in Subjects :
    minutes[u][s] = 2 * Cardinality({ n \in Range(logged) :
                                        asks[n].user = u /\ Subject(asks[n].kind) = s })

\* What later questions are answered with and what the dashboard counts is
\* what was logged.
HistoryOK == TypeOK /\ ConversationSound /\ StudyCounted

\* What a page shows belongs to its session, and its next question is answered with
\* every answer it showed when the question was asked, unless the row was deleted, not
\* written yet or never, or is too old, or is another user's: localStorage keeps what the
\* user before has left, and a page may outlive a login (query.py 256-259 takes the rows
\* of the user alone).  Excepted are the messages that strayed: an answer that came after
\* a clear, and a chat that was saved over the one of another tab.
PagesRemember ==
  /\ \A t \in Tabs : \A m \in AsksIn(tab[t].chat.messages) \ stray :
       asks[m].session = tab[t].chat.session
  /\ \A n \in Asked : asks[n].stage \notin {"sent", "failed"} =>
       \A m \in asks[n].shown \ stray :
         \/ asks[m].user # asks[n].user
         \/ m \in Range(asks[n].conv) \cup gone
         \/ m \notin Range(Before(n))
         \/ TooOld(m, n)

\* A session that a tab has cleared never comes back to this tab, whatever other
\* tabs, late answers and reloads do: its questions are not answered with what
\* was cleared.
ClearedStaysCleared == \A t \in Tabs : tab[t].chat.session \notin cleared[t]
=============================================================================
