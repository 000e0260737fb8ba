-------------------------- MODULE MCResponseCache --------------------------
(***************************************************************************)
(* The instance of ResponseCache for TLC.  Each behaviour has a cast:      *)
(*   keys   two calls with any request: both questions, with material and  *)
(*          without, every spelling of the model; what is asked of         *)
(*          material by the first is in a conversation, by the second it   *)
(*          may be;                                                        *)
(*   race   three calls for two threads without material, to Gemini, the   *)
(*          last, of the second question, to either model.                 *)
(* Calls are interchangeable and are made in one order; the first asks the *)
(* first question.                                                         *)
(***************************************************************************)
EXTENDS ResponseCache

CONSTANTS c1, c2, c3, q1, q2

VARIABLE cast

MCInit == Init /\ cast \in {"keys", "race"}

Order == <<c1, c2, c3>>
Turn(c) ==
  LET asked == { k \in 1 .. 3 : pc[Order[k]] # "new" }
  IN c = Order[Cardinality(asked) + 1]

Told(c, r) == IF r.context = Nothing THEN r.history = Nothing
              ELSE c = c1 => r.history # Nothing
Plain(c, r) ==
  /\ r.context = Nothing /\ r.history = Nothing
  /\ r.model = "gemini" \/ (c = c3 /\ r.model = "ollama")
  /\ c = c3 => r.query = q2

MCAsk(c) ==
  /\ Turn(c) /\ Ask(c)
  /\ c = c1 => req'[c].query = q1
  /\ IF cast = "keys" THEN c # c3 /\ Told(c, req'[c]) ELSE Plain(c, req'[c])

MCNext ==
  /\ UNCHANGED cast
  /\ \/ \E c \in Calls : pc[c] = "new" /\ MCAsk(c)
     \/ \E c \in Calls : Thread(c) \/ Deliver(c) \/ Timeout(c)
     \/ ClearCache

MCSpec == MCInit /\ [][MCNext]_<<vars, cast>> /\ Fairness
=============================================================================
