------------------------------- MODULE PyDict -------------------------------
(***************************************************************************)
(* Python's dict, as far as the backend's process-wide caches depend on    *)
(* it: a dict remembers the order in which its keys were inserted,         *)
(* assigning to a present key keeps the key's place, and next(iter(d)) is  *)
(* the key inserted first.  A dict is the sequence of its items.           *)
(* External code, modelled from how retriever.py (VECTORSTORE_CACHE,       *)
(* QUERY_CACHE) and llm_interface.py (RESPONSE_CACHE) use it.              *)
(***************************************************************************)
EXTENDS Naturals, Sequences

EmptyDict == << >>

Has(d, k) == \E i \in DOMAIN d : d[i].key = k

Position(d, k) == CHOOSE i \in DOMAIN d : d[i].key = k

\* d[k], for a key that is present.
Get(d, k) == d[Position(d, k)].val

\* d[k] = v
Put(d, k, v) ==
  IF Has(d, k) THEN [d EXCEPT ![Position(d, k)] = [key |-> k, val |-> v]]
               ELSE Append(d, [key |-> k, val |-> v])

\* del d[k] and d.pop(k), for a key that is present.
Del(d, k) ==
  SubSeq(d, 1, Position(d, k) - 1) \o SubSeq(d, Position(d, k) + 1, Len(d))

\* next(iter(d)), for a dict that is not empty.
OldestKey(d) == d[1].key

\* The dicts from keys K to values V: no key occurs twice.
DictOf(K, V) ==
  { d \in Seq([key : K, val : V]) :
      \A i, j \in DOMAIN d : d[i].key = d[j].key => i = j }
=============================================================================
