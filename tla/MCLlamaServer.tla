--------------------------- MODULE MCLlamaServer ---------------------------
EXTENDS LlamaServer, TLC

Ask == [type |-> "completion", tasks |-> 1, prompt |-> 1, n_predict |-> 2,
        id_slot |-> AnySlot, stream |-> TRUE, valid |-> TRUE]

Short == [Ask EXCEPT !.n_predict = 1, !.stream = FALSE]

Long == [Ask EXCEPT !.n_predict = 3]
Metrics == [Ask EXCEPT !.type = "quick"]

MCShapes ==
  { Ask, Short, Long, Metrics,
    [Ask EXCEPT !.tasks = 2, !.n_predict = 1, !.stream = FALSE],
    [Ask EXCEPT !.prompt = 3, !.n_predict = 9, !.id_slot = 0],
    [Ask EXCEPT !.prompt = 4],
    [Ask EXCEPT !.prompt = 0],
    [Ask EXCEPT !.type = "embedding", !.prompt = 2, !.stream = FALSE],
    [Ask EXCEPT !.valid = FALSE],
    [Ask EXCEPT !.type = "quick", !.id_slot = 0],
    [Ask EXCEPT !.id_slot = 7] }

\* Two requests: one streams a completion, the other asks for anything else; a
\* longer stream has only the metrics beside it.
CONSTANTS r1, r2

MCInit ==
  /\ Init
  /\ \/ shape[r1] = Ask /\ shape[r2] \notin {Ask, Short, Long}
     \/ shape[r1] = Long /\ shape[r2] = Metrics
MCSpec == MCInit /\ [][Next]_vars /\ Fairness

\* Short completions around an operation on the one slot there is.
MCDeferredInit ==
  Init /\ shape = [r \in Requests |-> IF r = r2 THEN [Ask EXCEPT !.type = "quick", !.id_slot = 0]
                                     ELSE Short]
MCDeferredSpec == MCDeferredInit /\ [][Next]_vars /\ Fairness
=============================================================================
