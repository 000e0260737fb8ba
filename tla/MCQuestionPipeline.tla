------------------------- MODULE MCQuestionPipeline -------------------------
(***************************************************************************)
(* The instance of QuestionPipeline for TLC.  Each behaviour has a cast:   *)
(*   tabs    one student with two tabs, whose third question waits until   *)
(*           the others are logged;                                        *)
(*   users   two students, one after the other or one over the other, in   *)
(*           one tab, with logins in the other tab;                        *)
(*   faults  one student and one tab, one failing handler or log or one    *)
(*           restart, a lost response, one deletion, and a first question  *)
(*           about a file of the student's own;                            *)
(*   long    one student, whose fourth question exceeds the conversation,  *)
(*           with one deletion.                                            *)
(***************************************************************************)
EXTENDS QuestionPipeline, FiniteSetsExt, TLC

VARIABLE cast

Symmetry == Permutations(Tabs) \cup Permutations(Users)

MCInit ==
  /\ Init
  /\ cast \in [name : {"tabs"}, tabs : {Tabs}]
              \cup [name : {"users", "faults", "long"}, tabs : kSubset(1, Tabs)]

Playing(name) == cast.name = name

Patient ==
  /\ Playing("tabs") /\ Len(asks) = 2 => \A n \in Asked : asks[n].stage = "logged"
  /\ Len(asks) = 3 => Playing("long")
AllWell == \A n \in Asked : asks[n].stage \notin {"failed", "unlogged"}

MCNext ==
  /\ UNCHANGED cast
  /\ \/ \E t \in cast.tabs : Mount(t) \/ (~Playing("long") /\ (Leave(t) \/ ClearChat(t)))
     \/ \E t \in cast.tabs : Patient /\ Ask(t, "course")
     \/ \E n \in Asked : Handler(n) \/ Show(n)
     \/ Playing("users") /\ \E u \in Users : SwitchUser(u) \/ \E t \in Tabs : LoginOver(t, u)
     \/ /\ Playing("faults") \/ Playing("long")
        /\ gone = {}
        /\ \E u \in Users : ClearHistory(u) \/ \E id \in Ids : DeleteItem(u, id)
     \/ /\ Playing("faults")
        /\ \/ \E t \in cast.tabs : asks = << >> /\ Ask(t, "file")
           \/ \E n \in Asked : \/ (AllWell \/ asks[n].stage = "failed") /\ ShowError(n)
                               \/ AllWell /\ (Fail(n) \/ LogFails(n))
           \/ AllWell /\ Restart

MCSpec == MCInit /\ [][MCNext]_<<vars, cast>>
=============================================================================
