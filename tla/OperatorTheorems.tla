------------------------- MODULE OperatorTheorems -------------------------
(***************************************************************************)
(* Lemmas about the data that the models of the backend are built from,    *)
(* for any keys, values, columns and lengths:                              *)
(*   PyDict       what assigning to and deleting from a dict does to its   *)
(*                length, its keys and its items;                          *)
(*   OrmSession   what db.add, an assignment to a row and the commit do to *)
(*                the rows of one key, stated of sets of rows, so that no  *)
(*                proof about a router opens a sequence or a change;       *)
(*   Subsequence  which elements a part of a sequence has, in which order. *)
(* The proofs about the components cite these and never open the modules.  *)
(***************************************************************************)
EXTENDS PyDict, OrmSession, Subsequence,
        FiniteSetTheorems, SequenceTheorems, WellFoundedInduction, TLAPS

\* The place of a key that is present is a place where the key is.
LEMMA PositionOfKey ==
  ASSUME NEW d, NEW k, Has(d, k)
  PROVE  Position(d, k) \in DOMAIN d /\ d[Position(d, k)].key = k
BY DEF Has, Position

\* A lookup of a present key returns the value of one of the items.
LEMMA GetIsAnItem ==
  ASSUME NEW K, NEW V, NEW d \in DictOf(K, V), NEW k, Has(d, k)
  PROVE  /\ Get(d, k) \in V
         /\ \E i \in DOMAIN d : d[i].key = k /\ d[i].val = Get(d, k)
<1>1. Position(d, k) \in DOMAIN d /\ d[Position(d, k)].key = k
  BY PositionOfKey
<1>2. d[Position(d, k)] \in [key : K, val : V]
  <2>1. d \in Seq([key : K, val : V])
    BY DEF DictOf
  <2> QED
    BY <1>1, <2>1, ElementOfSeq, LenProperties
<1> QED
  BY <1>1, <1>2 DEF Get

\* The types of an item.
LEMMA ItemTypes ==
  ASSUME NEW K, NEW V, NEW d \in DictOf(K, V), NEW i \in DOMAIN d
  PROVE  d[i].key \in K /\ d[i].val \in V
<1>1. d \in Seq([key : K, val : V])
  BY DEF DictOf
<1>2. d[i] \in [key : K, val : V]
  BY <1>1, ElementOfSeq, LenProperties
<1> QED BY <1>2

LEMMA EmptyIsADict ==
  ASSUME NEW K, NEW V
  PROVE  EmptyDict \in DictOf(K, V) /\ Len(EmptyDict) = 0 /\ DOMAIN EmptyDict = {}
BY DEF EmptyDict, DictOf

\* The oldest key of a dict that is not empty is one of its keys.
LEMMA OldestIsAKey ==
  ASSUME NEW K, NEW V, NEW d \in DictOf(K, V), d # EmptyDict
  PROVE  OldestKey(d) \in K /\ Has(d, OldestKey(d))
<1>1. 1 \in DOMAIN d
  BY DEF DictOf, EmptyDict
<1>2. d[1] \in [key : K, val : V]
  <2>1. d \in Seq([key : K, val : V])
    BY DEF DictOf
  <2> QED
    BY <1>1, <2>1, ElementOfSeq, LenProperties
<1> QED
  BY <1>1, <1>2 DEF OldestKey, Has

\* d[k] = v makes the dict longer by one item at most; its items are the item
\* (k, v) and items that were there.
LEMMA PutItem ==
  ASSUME NEW K, NEW V, NEW d \in DictOf(K, V), NEW k \in K, NEW v \in V
  PROVE  /\ Put(d, k, v) \in DictOf(K, V)
         /\ Len(Put(d, k, v)) = IF Has(d, k) THEN Len(d) ELSE Len(d) + 1
         /\ \A i \in DOMAIN Put(d, k, v) :
              \/ Put(d, k, v)[i] = [key |-> k, val |-> v]
              \/ \E j \in DOMAIN d : Put(d, k, v)[i] = d[j]
<1> DEFINE item == [key |-> k, val |-> v]
<1>0. d \in Seq([key : K, val : V]) /\ item \in [key : K, val : V]
  BY DEF DictOf
<1>1. CASE Has(d, k)
  <2> DEFINE p == Position(d, k)
  <2>1. p \in DOMAIN d /\ d[p].key = k
    BY <1>1, PositionOfKey
  <2>2. Put(d, k, v) = [d EXCEPT ![p] = item]
    BY <1>1 DEF Put
  <2>3. /\ [d EXCEPT ![p] = item] \in Seq([key : K, val : V])
        /\ Len([d EXCEPT ![p] = item]) = Len(d)
        /\ DOMAIN [d EXCEPT ![p] = item] = DOMAIN d
    BY <1>0, <2>1
  <2>4. \A i \in DOMAIN d : [d EXCEPT ![p] = item][i].key = d[i].key
    BY <1>0, <2>1
  <2>5. Put(d, k, v) \in DictOf(K, V)
    BY <2>2, <2>3, <2>4 DEF DictOf
  <2> QED
    BY <1>0, <1>1, <2>1, <2>2, <2>3, <2>5
<1>2. CASE ~Has(d, k)
  <2>1. Put(d, k, v) = Append(d, item)
    BY <1>2 DEF Put
  <2>2. /\ Append(d, item) \in Seq([key : K, val : V])
        /\ Len(Append(d, item)) = Len(d) + 1
        /\ DOMAIN Append(d, item) = 1 .. Len(d) + 1
        /\ \A i \in 1 .. Len(d) : Append(d, item)[i] = d[i]
        /\ Append(d, item)[Len(d) + 1] = item
    BY <1>0
  <2>3. \A i \in 1 .. Len(d) : d[i].key # k
    BY <1>0, <1>2 DEF Has
  <2>4. ASSUME NEW i \in DOMAIN Append(d, item), NEW j \in DOMAIN Append(d, item),
               Append(d, item)[i].key = Append(d, item)[j].key
        PROVE  i = j
    <3>1. \A m, n \in 1 .. Len(d) : d[m].key = d[n].key => m = n
      BY <1>0 DEF DictOf
    <3> QED
      BY <1>0, <2>2, <2>3, <2>4, <3>1
  <2>5. Put(d, k, v) \in DictOf(K, V)
    BY <2>1, <2>2, <2>4 DEF DictOf
  <2> QED
    BY <1>0, <1>2, <2>1, <2>2, <2>5
<1> QED
  BY <1>1, <1>2

\* Deleting a present key takes one item away and adds none.
LEMMA DelItem ==
  ASSUME NEW K, NEW V, NEW d \in DictOf(K, V), NEW k, Has(d, k)
  PROVE  /\ Del(d, k) \in DictOf(K, V)
         /\ Len(Del(d, k)) = Len(d) - 1
         /\ \A i \in DOMAIN Del(d, k) : \E j \in DOMAIN d : Del(d, k)[i] = d[j]
<1> DEFINE p == Position(d, k)
           front == SubSeq(d, 1, p - 1)
           back == SubSeq(d, p + 1, Len(d))
<1>0. d \in Seq([key : K, val : V])
  BY DEF DictOf
<1>1. p \in 1 .. Len(d)
  BY <1>0, PositionOfKey
<1>a. Len(d) \in Nat /\ \A i \in 1 .. Len(d) : d[i] \in [key : K, val : V]
  BY <1>0, ElementOfSeq, LenProperties
<1>2. /\ front \in Seq([key : K, val : V]) /\ Len(front) = p - 1
      /\ \A i \in 1 .. p - 1 : front[i] = d[i]
  <2>1. p - 1 \in Int /\ \A i \in 1 .. p - 1 : d[i] \in [key : K, val : V]
    BY <1>1, <1>a
  <2>2. /\ front \in Seq([key : K, val : V])
        /\ Len(front) = IF 1 <= p - 1 THEN p - 1 - 1 + 1 ELSE 0
        /\ \A i \in 1 .. p - 1 - 1 + 1 : front[i] = d[1 + i - 1]
    BY <2>1, SubSeqProperties
  <2> QED
    BY <1>1, <1>a, <2>2
<1>3. /\ back \in Seq([key : K, val : V]) /\ Len(back) = Len(d) - p
      /\ \A i \in 1 .. Len(d) - p : back[i] = d[p + i]
  <2>1. /\ p + 1 \in Int /\ Len(d) \in Int
        /\ \A i \in p + 1 .. Len(d) : d[i] \in [key : K, val : V]
    BY <1>1, <1>a
  <2>2. /\ back \in Seq([key : K, val : V])
        /\ Len(back) = IF p + 1 <= Len(d) THEN Len(d) - (p + 1) + 1 ELSE 0
        /\ \A i \in 1 .. Len(d) - (p + 1) + 1 : back[i] = d[p + 1 + i - 1]
    BY <2>1, SubSeqProperties
  <2> QED
    BY <1>1, <1>a, <2>2
<1> HIDE DEF front, back
<1>4. Del(d, k) = front \o back
  BY DEF Del, front, back
<1>5. /\ front \o back \in Seq([key : K, val : V])
      /\ Len(front \o back) = Len(d) - 1
      /\ DOMAIN (front \o back) = 1 .. Len(d) - 1
      /\ \A i \in 1 .. Len(d) - 1 :
           (front \o back)[i] = IF i < p THEN d[i] ELSE d[i + 1]
  <2>1. /\ front \o back \in Seq([key : K, val : V])
        /\ Len(front \o back) = Len(front) + Len(back)
        /\ DOMAIN (front \o back) = 1 .. Len(front \o back)
        /\ \A i \in 1 .. Len(front) + Len(back) : (front \o back)[i] =
             IF i <= Len(front) THEN front[i] ELSE back[i - Len(front)]
    BY <1>2, <1>3, ConcatProperties, LenProperties
  <2> QED
    BY <1>1, <1>2, <1>3, <1>a, <2>1
<1>6. ASSUME NEW i \in 1 .. Len(d) - 1, NEW j \in 1 .. Len(d) - 1,
             (front \o back)[i].key = (front \o back)[j].key
      PROVE  i = j
  <2> DEFINE at(n) == IF n < p THEN n ELSE n + 1
  <2>1. \A m, n \in 1 .. Len(d) : d[m].key = d[n].key => m = n
    BY <1>0, LenProperties DEF DictOf
  <2>2. at(i) \in 1 .. Len(d) /\ at(j) \in 1 .. Len(d)
    BY <1>1, <1>a
  <2>3. (front \o back)[i] = d[at(i)] /\ (front \o back)[j] = d[at(j)]
    BY <1>5
  <2>4. at(i) = at(j)
    BY <1>6, <2>1, <2>2, <2>3
  <2> QED
    BY <1>1, <1>a, <2>4
<1>7. Del(d, k) \in DictOf(K, V)
  BY <1>4, <1>5, <1>6 DEF DictOf
<1>8. ASSUME NEW i \in 1 .. Len(d) - 1
      PROVE  \E j \in 1 .. Len(d) : (front \o back)[i] = d[j]
  <2>1. i \in 1 .. Len(d) /\ i + 1 \in 1 .. Len(d)
    BY <1>a
  <2> QED
    BY <1>5, <2>1
<1>9. DOMAIN d = 1 .. Len(d)
  BY <1>0, LenProperties
<1> QED
  BY <1>4, <1>5, <1>7, <1>8, <1>9

\* A key is at one place only, so a lookup returns the item's value.
LEMMA GetOfItem ==
  ASSUME NEW K, NEW V, NEW d \in DictOf(K, V), NEW i \in DOMAIN d
  PROVE  Has(d, d[i].key) /\ Get(d, d[i].key) = d[i].val
<1>1. Has(d, d[i].key)
  BY DEF Has
<1>2. PICK j \in DOMAIN d : d[j].key = d[i].key /\ d[j].val = Get(d, d[i].key)
  BY <1>1, GetIsAnItem
<1>3. j = i
  BY <1>2 DEF DictOf
<1> QED
  BY <1>1, <1>2, <1>3

\* The item of the key that was assigned has the new value.
LEMMA PutReplaces ==
  ASSUME NEW K, NEW V, NEW d \in DictOf(K, V), NEW k \in K, NEW v \in V
  PROVE  /\ Has(Put(d, k, v), k) /\ Get(Put(d, k, v), k) = v
         /\ \A i \in DOMAIN Put(d, k, v) : Put(d, k, v)[i].key = k => Put(d, k, v)[i].val = v
<1> DEFINE item == [key |-> k, val |-> v]
           e == Put(d, k, v)
<1>1. d \in Seq([key : K, val : V]) /\ e \in DictOf(K, V)
  BY PutItem DEF DictOf
<1>2. \E i \in DOMAIN e : e[i] = item
  <2>1. CASE Has(d, k)
    <3> DEFINE p == Position(d, k)
    <3>1. p \in DOMAIN d
      BY <2>1, PositionOfKey
    <3>2. e = [d EXCEPT ![p] = item]
      BY <2>1 DEF Put
    <3>3. DOMAIN e = DOMAIN d /\ e[p] = item
      BY <1>1, <3>1, <3>2
    <3> QED
      BY <3>1, <3>3
  <2>2. CASE ~Has(d, k)
    <3>1. e = Append(d, item)
      BY <2>2 DEF Put
    <3>2. Len(d) + 1 \in DOMAIN e /\ e[Len(d) + 1] = item
      BY <1>1, <3>1
    <3> QED
      BY <3>2
  <2> QED
    BY <2>1, <2>2
<1>3. PICK i \in DOMAIN e : e[i] = item
  BY <1>2
<1> HIDE DEF e
<1>4. e[i].key = k /\ e[i].val = v
  BY <1>3
<1>5. Has(e, k) /\ Get(e, k) = v
  BY <1>1, <1>4, GetOfItem
<1>6. \A j \in DOMAIN e : e[j].key = k => j = i
  BY <1>1, <1>4 DEF DictOf
<1>7. \A j \in DOMAIN e : e[j].key = k => e[j].val = v
  BY <1>4, <1>6
<1> QED
  BY <1>5, <1>7 DEF e

\* The other keys are there as before, with their values.
LEMMA PutLeaves ==
  ASSUME NEW K, NEW V, NEW d \in DictOf(K, V), NEW k \in K, NEW v \in V, NEW c, c # k
  PROVE  /\ Has(Put(d, k, v), c) <=> Has(d, c)
         /\ Has(d, c) => Get(Put(d, k, v), c) = Get(d, c)
<1> DEFINE item == [key |-> k, val |-> v]
           e == Put(d, k, v)
<1>1. d \in Seq([key : K, val : V]) /\ e \in DictOf(K, V)
  BY PutItem DEF DictOf
<1>2. \A i \in DOMAIN d : d[i].key = c => i \in DOMAIN e /\ e[i] = d[i]
  <2>1. CASE Has(d, k)
    <3> DEFINE p == Position(d, k)
    <3>1. p \in DOMAIN d /\ d[p].key = k
      BY <2>1, PositionOfKey
    <3>2. e = [d EXCEPT ![p] = item]
      BY <2>1 DEF Put
    <3> QED
      BY <1>1, <3>1, <3>2
  <2>2. CASE ~Has(d, k)
    <3>1. e = Append(d, item)
      BY <2>2 DEF Put
    <3> QED
      BY <1>1, <3>1
  <2> QED
    BY <2>1, <2>2
<1>3. \A i \in DOMAIN e : e[i].key = c => \E j \in DOMAIN d : e[i] = d[j]
  <2>1. \A i \in DOMAIN e : e[i] = item \/ \E j \in DOMAIN d : e[i] = d[j]
    BY PutItem
  <2> QED
    BY <2>1
<1> HIDE DEF e
<1>4. Has(e, c) <=> Has(d, c)
  BY <1>2, <1>3 DEF Has
<1>5. ASSUME Has(d, c) PROVE Get(e, c) = Get(d, c)
  <2>1. PICK i \in DOMAIN d : d[i].key = c /\ d[i].val = Get(d, c)
    BY <1>5, GetIsAnItem
  <2>2. i \in DOMAIN e /\ e[i].key = c /\ e[i].val = Get(d, c)
    BY <1>2, <2>1
  <2>3. Get(e, e[i].key) = e[i].val
    BY <1>1, <2>2, GetOfItem
  <2> QED
    BY <2>2, <2>3
<1> QED
  BY <1>4, <1>5 DEF e
-----------------------------------------------------------------------------
\* Rows with keys in K and columns in C, changes of them, and sessions.
RowSet(K, C) == [key : K, cols : C]
ChangeSet(C) == [row : Nat, read : C, now : C]
SessionSet(K, C) == [dirty : SUBSET ChangeSet(C), new : Seq(RowSet(K, C))]

\* The rows of key k that a session has added.
NewOf(s, k) == {j \in DOMAIN s.new : s.new[j].key = k}

\* A session has one change of a row at most.
OneChangeEach(s) == \A u, v \in s.dirty : u.row = v.row => u = v

\* A set of ids that is not empty has a least one.
LEMMA LeastId ==
  ASSUME NEW S \in SUBSET Nat, S # {}
  PROVE  \E x \in S : \A y \in S : x <= y
<1>1. \E x \in S : \A y \in S : ~(<<y, x>> \in OpToRel(<, Nat))
  BY NatLessThanWellFounded, WFMin
<1>2. PICK x \in S : \A y \in S : ~(y < x)
  BY <1>1 DEF OpToRel
<1>3. \A y \in S : x <= y
  BY <1>2
<1> QED BY <1>3

\* A finite set of numbers that is not empty has a greatest one.
LEMMA Greatest ==
  ASSUME NEW S \in SUBSET Nat, IsFiniteSet(S), S # {}
  PROVE  \E x \in S : \A y \in S : y <= x
<1> DEFINE Bad(T) == T # {} /\ \A x \in T : \E y \in T : ~(y <= x)
           Sizes == { n \in Nat : \E T \in SUBSET S : Cardinality(T) = n /\ Bad(T) }
<1> SUFFICES ASSUME Bad(S) PROVE FALSE
  OBVIOUS
<1>1. Cardinality(S) \in Sizes
  BY FS_CardinalityType
<1>2. PICK n \in Sizes : \A m \in Sizes : n <= m
  <2>1. Sizes \in SUBSET Nat /\ Sizes # {}
    BY <1>1
  <2> HIDE DEF Sizes
  <2> QED BY <2>1, LeastId
<1>3. PICK T \in SUBSET S : Cardinality(T) = n /\ Bad(T)
  OBVIOUS
<1>4. PICK x \in T : TRUE
  BY <1>3
<1> DEFINE U == T \ {x}
<1>5. IsFiniteSet(T) /\ IsFiniteSet(U) /\ Cardinality(U) = n - 1 /\ n \in Nat /\ n - 1 \in Nat
  <2>1. IsFiniteSet(T)
    BY FS_Subset
  <2>2. IsFiniteSet(U) /\ Cardinality(U) = Cardinality(T) - 1
    BY <2>1, <1>4, FS_RemoveElement
  <2>3. Cardinality(U) \in Nat
    BY <2>2, FS_CardinalityType
  <2> HIDE DEF U
  <2> QED BY <1>3, <2>1, <2>2, <2>3
<1>6. ~Bad(U)
  <2>1. n - 1 \notin Sizes
    <3> HIDE DEF Sizes
    <3> QED BY <1>2, <1>5
  <2> QED BY <1>5, <2>1
<1>7. CASE U = {}
  <2>1. \A y \in T : y = x
    BY <1>7
  <2>2. x \in Nat
    OBVIOUS
  <2> QED BY <1>3, <2>1, <2>2
<1>8. CASE U # {}
  <2>1. PICK m \in U : \A y \in U : y <= m
    BY <1>6, <1>8
  <2>2. m \in T /\ m \in Nat /\ x \in Nat /\ \A y \in T : y \in Nat /\ (y = x \/ y <= m)
    BY <2>1
  <2> HIDE DEF U
  <2>3. CASE x <= m
    <3>1. \A y \in T : y <= m
      BY <2>2, <2>3
    <3> QED BY <1>3, <2>2, <3>1
  <2>4. CASE m <= x
    <3>1. \A y \in T : y <= x
      BY <2>2, <2>4
    <3> QED BY <1>3, <1>4, <3>1
  <2> QED BY <2>2, <2>3, <2>4
<1> QED BY <1>7, <1>8

\* first() finds the row of least id.
LEMMA FirstRowIsLeast ==
  ASSUME NEW t, DOMAIN t \in SUBSET Nat, NEW k, RowsOf(t, k) # {}
  PROVE  /\ FirstRow(t, k) \in RowsOf(t, k)
         /\ \A j \in RowsOf(t, k) : FirstRow(t, k) <= j
<1>1. RowsOf(t, k) \in SUBSET Nat
  BY DEF RowsOf
<1>2. \E i \in RowsOf(t, k) : \A j \in RowsOf(t, k) : i <= j
  BY <1>1, LeastId
<1> QED BY <1>2 DEF FirstRow

\* And there is only one such row.
LEMMA FirstRowIsTheLeast ==
  ASSUME NEW t, DOMAIN t \in SUBSET Nat, NEW k, NEW i \in RowsOf(t, k),
         \A j \in RowsOf(t, k) : i <= j
  PROVE  FirstRow(t, k) = i
<1>1. /\ FirstRow(t, k) \in RowsOf(t, k)
      /\ \A j \in RowsOf(t, k) : FirstRow(t, k) <= j
  BY FirstRowIsLeast
<1>2. FirstRow(t, k) \in Nat /\ i \in Nat
  BY <1>1 DEF RowsOf
<1>3. FirstRow(t, k) <= i /\ i <= FirstRow(t, k)
  BY <1>1
<1> QED BY <1>2, <1>3

\* db.add appends one row and leaves the rest of the session alone.
LEMMA AddProperties ==
  ASSUME NEW K, NEW C, NEW s \in SessionSet(K, C), NEW k \in K, NEW cols \in C
  PROVE  LET s2 == Add(s, k, cols)
             row == [key |-> k, cols |-> cols]
         IN  /\ s2 \in SessionSet(K, C) /\ s2.dirty = s.dirty /\ s2.new = Append(s.new, row)
             /\ Len(s2.new) = Len(s.new) + 1 /\ Len(s.new) \in Nat
             /\ s2.new[Len(s.new) + 1] = row
             /\ \A j \in 1 .. Len(s.new) : s2.new[j] = s.new[j]
<1>1. PICK d \in SUBSET ChangeSet(C), n \in Seq(RowSet(K, C)) : s = [dirty |-> d, new |-> n]
  BY DEF SessionSet
<1> DEFINE row == [key |-> k, cols |-> cols]
<1>2. row \in RowSet(K, C)
  BY DEF RowSet
<1> HIDE DEF row
<1>3. Append(n, row) \in Seq(RowSet(K, C))
  BY <1>2
<1>4. Add(s, k, cols) = [dirty |-> d, new |-> Append(n, row)]
  <2>1. Add(s, k, cols) = [s EXCEPT !.new = Append(@, row)]
    BY DEF Add, row
  <2>2. s.new = n
    BY <1>1
  <2> HIDE DEF row
  <2> DEFINE n2 == Append(n, row)
  <2>3. Add(s, k, cols) = [s EXCEPT !.new = n2]
    BY <2>1, <2>2
  <2> HIDE DEF n2
  <2>4. [s EXCEPT !.new = n2] = [dirty |-> d, new |-> n2]
    BY <1>1
  <2> QED BY <2>3, <2>4 DEF n2
<1>5. Add(s, k, cols) \in SessionSet(K, C)
  BY <1>3, <1>4 DEF SessionSet
<1>6. /\ Len(Append(n, row)) = Len(n) + 1 /\ Len(n) \in Nat
      /\ Append(n, row)[Len(n) + 1] = row
      /\ \A j \in 1 .. Len(n) : Append(n, row)[j] = n[j]
  BY <1>2
<1>7. s.dirty = d /\ s.new = n
  BY <1>1
<1> DEFINE s2 == Add(s, k, cols)
<1>8. s2.dirty = d /\ s2.new = Append(n, row)
  BY <1>4
<1> HIDE DEF s2
<1>9. s2 \in SessionSet(K, C)
  BY <1>5 DEF s2
<1> QED BY <1>6, <1>7, <1>8, <1>9 DEF row, s2

\* A row's first meeting decides what was read; the last assignment what is written.
LEMMA AssignProperties ==
  ASSUME NEW K, NEW C, NEW s \in SessionSet(K, C), OneChangeEach(s),
         NEW t \in Seq(RowSet(K, C)), NEW r \in DOMAIN t, NEW cols \in C
  PROVE  LET s2 == Assign(s, t, r, cols)
         IN  /\ s2 \in SessionSet(K, C) /\ s2.new = s.new /\ OneChangeEach(s2)
             /\ \A u \in s.dirty : u.row # r => u \in s2.dirty
             /\ \A u \in s2.dirty : u.row # r => u \in s.dirty
             /\ (\A u \in s.dirty : u.row # r)
                  => [row |-> r, read |-> t[r].cols, now |-> cols] \in s2.dirty
             /\ \A u \in s.dirty : u.row = r => [row |-> r, read |-> u.read, now |-> cols] \in s2.dirty
<1>1. PICK d \in SUBSET ChangeSet(C), n \in Seq(RowSet(K, C)) : s = [dirty |-> d, new |-> n]
  BY DEF SessionSet
<1>2. s.dirty = d /\ s.new = n
  BY <1>1
<1>3. r \in Nat /\ t[r] \in RowSet(K, C) /\ t[r].cols \in C
  <2>1. r \in Nat /\ t[r] \in RowSet(K, C)
    OBVIOUS
  <2> QED BY <2>1 DEF RowSet
<1> DEFINE known == {u \in d : u.row = r}
           read == IF known = {} THEN {t[r].cols} ELSE {u.read : u \in known}
           entry(x) == [row |-> r, read |-> x, now |-> cols]
           dd == (d \ known) \cup {entry(x) : x \in read}
           s2 == Assign(s, t, r, cols)
<1>4. s2 = [dirty |-> dd, new |-> n]
  <2>1. s2 = [s EXCEPT !.dirty = dd]
    BY <1>2 DEF Assign
  <2> HIDE DEF dd, s2
  <2> QED BY <1>1, <2>1
<1>5. s2.dirty = dd /\ s2.new = n
  BY <1>4
<1>6. \A u \in d : u.row \in Nat /\ u.read \in C /\ u.now \in C
  BY DEF ChangeSet
<1>7. \E x \in C : read = {x} /\ (known = {} => x = t[r].cols) /\ \A u \in known : x = u.read
  <2>1. CASE known = {}
    BY <1>3, <2>1
  <2>2. CASE known # {}
    <3>1. PICK u \in known : TRUE
      BY <2>2
    <3>2. \A v \in known : v = u
      BY <1>2, <3>1 DEF OneChangeEach
    <3>3. known = {u}
      BY <3>1, <3>2
    <3>4. read = {u.read}
      BY <3>3
    <3> QED BY <1>6, <3>1, <3>2, <3>4
  <2> QED BY <2>1, <2>2
<1>8. PICK x \in C : read = {x} /\ (known = {} => x = t[r].cols) /\ \A u \in known : x = u.read
  BY <1>7
<1>9. dd = (d \ known) \cup {entry(x)}
  <2> HIDE DEF entry, known, read
  <2> QED BY <1>8 DEF dd
<1>10. entry(x) \in ChangeSet(C) /\ entry(x).row = r /\ entry(x).read = x /\ entry(x).now = cols
  BY <1>3 DEF ChangeSet
<1>11. dd \in SUBSET ChangeSet(C)
  <2> HIDE DEF entry
  <2> QED BY <1>9, <1>10
<1>12. s2 \in SessionSet(K, C)
  <2> HIDE DEF dd, s2
  <2> QED BY <1>4, <1>11 DEF SessionSet
<1>13. \A u \in dd : IF u.row = r THEN u = entry(x) ELSE u \in d
  <2> HIDE DEF entry
  <2> QED BY <1>9, <1>10
<1>14. OneChangeEach(s2)
  <2> SUFFICES ASSUME NEW u \in dd, NEW v \in dd, u.row = v.row
               PROVE  u = v
    BY <1>5 DEF OneChangeEach
  <2> HIDE DEF entry, dd
  <2>1. CASE u.row = r
    BY <1>13, <2>1
  <2>2. CASE u.row # r
    <3>1. u \in d /\ v \in d
      BY <1>13, <2>2
    <3> QED BY <1>2, <3>1 DEF OneChangeEach
  <2> QED BY <2>1, <2>2
<1>15. \A u \in d : u.row # r => u \in dd
  OBVIOUS
<1>16. entry(x) \in dd
  BY <1>9
<1>17. (\A u \in d : u.row # r) => entry(t[r].cols) \in dd
  <2> SUFFICES ASSUME \A u \in d : u.row # r PROVE x = t[r].cols
    BY <1>16
  <2> QED BY <1>8
<1>18. \A u \in d : u.row = r => entry(u.read) \in dd
  <2> SUFFICES ASSUME NEW u \in d, u.row = r PROVE x = u.read
    BY <1>16
  <2> QED BY <1>8
<1> HIDE DEF s2, dd
<1>19. \A u \in s2.dirty : u.row # r => u \in d
  BY <1>5, <1>13
<1> QED BY <1>2, <1>5, <1>12, <1>14, <1>15, <1>17, <1>18, <1>19 DEF s2

\* The elements of two sequences, one after the other.
LEMMA Joined ==
  ASSUME NEW S, NEW a \in Seq(S), NEW b \in Seq(S)
  PROVE  /\ a \o b \in Seq(S) /\ Len(a \o b) = Len(a) + Len(b)
         /\ \A i \in 1 .. Len(a) : (a \o b)[i] = a[i]
         /\ \A j \in 1 .. Len(b) : (a \o b)[Len(a) + j] = b[j]
<1>1. a \o b \in Seq(S)
  OBVIOUS
<1>2. Len(a \o b) = Len(a) + Len(b)
  OBVIOUS
<1>3. \A i \in 1 .. Len(a) : (a \o b)[i] = a[i]
  OBVIOUS
<1>4. \A j \in 1 .. Len(b) : (a \o b)[Len(a) + j] = b[j]
  OBVIOUS
<1> QED BY <1>1, <1>2, <1>3, <1>4

\* A commit writes the changed columns and appends the new rows.
LEMMA FlushProperties ==
  ASSUME NEW K, NEW C, NEW s \in SessionSet(K, C), NEW t \in Seq(RowSet(K, C)),
         \A c \in C, u \in ChangeSet(C) : Updated(c, u) \in C
  PROVE  LET t2 == Flush(t, s)
         IN  /\ t2 \in Seq(RowSet(K, C)) /\ Len(t) \in Nat /\ Len(s.new) \in Nat
             /\ Len(t2) = Len(t) + Len(s.new)
             /\ DOMAIN t2 = 1 .. Len(t) + Len(s.new)
             /\ \A i \in 1 .. Len(t) : /\ t2[i].key = t[i].key
                                       /\ (\A u \in s.dirty : u.row # i) => t2[i] = t[i]
                                       /\ OneChangeEach(s) => \A u \in s.dirty : u.row = i =>
                                            t2[i].cols = Updated(t[i].cols, u)
             /\ \A j \in 1 .. Len(s.new) : t2[Len(t) + j] = s.new[j]
<1> DEFINE ChangesOf(i) == {u \in s.dirty : u.row = i}
           old == [i \in DOMAIN t |->
                     IF ChangesOf(i) = {} THEN t[i]
                     ELSE [t[i] EXCEPT !.cols = Updated(@, CHOOSE u \in ChangesOf(i) : TRUE)]]
           t2 == Flush(t, s)
<1>1. s.dirty \in SUBSET ChangeSet(C) /\ s.new \in Seq(RowSet(K, C)) /\ Len(s.new) \in Nat
  BY DEF SessionSet
<1>2. Len(t) \in Nat /\ DOMAIN t = 1 .. Len(t) /\ \A i \in 1 .. Len(t) : t[i] \in RowSet(K, C)
  OBVIOUS
<1>3. t2 = old \o s.new
  BY DEF Flush
<1>4. \A i \in 1 .. Len(t) :
         /\ old[i] \in RowSet(K, C) /\ old[i].key = t[i].key
         /\ (\A u \in s.dirty : u.row # i) => old[i] = t[i]
         /\ OneChangeEach(s) => \A u \in s.dirty : u.row = i => old[i].cols = Updated(t[i].cols, u)
  <2> SUFFICES ASSUME NEW i \in 1 .. Len(t)
               PROVE  /\ old[i] \in RowSet(K, C) /\ old[i].key = t[i].key
                      /\ (\A u \in s.dirty : u.row # i) => old[i] = t[i]
                      /\ OneChangeEach(s) => \A u \in s.dirty : u.row = i => old[i].cols = Updated(t[i].cols, u)
    OBVIOUS
  <2>1. CASE ChangesOf(i) = {}
    <3>1. old[i] = t[i]
      BY <1>2, <2>1
    <3> HIDE DEF old
    <3> QED BY <1>2, <2>1, <3>1
  <2>2. CASE ChangesOf(i) # {}
    <3> DEFINE w == CHOOSE u \in ChangesOf(i) : TRUE
    <3>1. w \in s.dirty /\ w.row = i /\ w \in ChangeSet(C)
      BY <1>1, <2>2
    <3>2. PICK k \in K, c \in C : t[i] = [key |-> k, cols |-> c]
      BY <1>2 DEF RowSet
    <3>3. Updated(c, w) \in C
      BY <3>1
    <3>4. old[i] = [t[i] EXCEPT !.cols = Updated(@, w)]
      BY <1>2, <2>2
    <3> HIDE DEF w, old
    <3>5. old[i] = [key |-> k, cols |-> Updated(c, w)] /\ t[i].key = k /\ t[i].cols = c
      BY <3>2, <3>4
    <3>6. old[i] \in RowSet(K, C) /\ old[i].key = k /\ old[i].cols = Updated(c, w)
      BY <3>3, <3>5 DEF RowSet
    <3>7. OneChangeEach(s) => \A u \in s.dirty : u.row = i => u = w
      BY <3>1 DEF OneChangeEach
    <3> QED BY <3>1, <3>5, <3>6, <3>7
  <2> QED BY <2>1, <2>2
<1>5. old \in Seq(RowSet(K, C)) /\ Len(old) = Len(t)
  <2>1. DOMAIN old = 1 .. Len(t)
    BY <1>2
  <2> HIDE DEF old
  <2>2. old \in [1 .. Len(t) -> RowSet(K, C)]
    <3>1. old = [i \in 1 .. Len(t) |-> old[i]]
      BY <1>2 DEF old
    <3> QED BY <1>4, <3>1
  <2> QED BY <1>2, <2>2
<1> HIDE DEF old
<1>6. /\ old \o s.new \in Seq(RowSet(K, C)) /\ Len(old \o s.new) = Len(old) + Len(s.new)
      /\ \A i \in 1 .. Len(old) : (old \o s.new)[i] = old[i]
      /\ \A j \in 1 .. Len(s.new) : (old \o s.new)[Len(old) + j] = s.new[j]
  <2> DEFINE new == s.new
             R == RowSet(K, C)
  <2>1. old \in Seq(R) /\ new \in Seq(R)
    BY <1>1, <1>5
  <2> HIDE DEF t2, new, R
  <2>2. /\ old \o new \in Seq(R) /\ Len(old \o new) = Len(old) + Len(new)
        /\ \A i \in 1 .. Len(old) : (old \o new)[i] = old[i]
        /\ \A j \in 1 .. Len(new) : (old \o new)[Len(old) + j] = new[j]
    BY <2>1, Joined
  <2> QED BY <2>2 DEF new, R
<1> HIDE DEF t2
<1>7. /\ t2 \in Seq(RowSet(K, C)) /\ Len(t2) = Len(t) + Len(s.new)
      /\ \A i \in 1 .. Len(t) : t2[i] = old[i]
      /\ \A j \in 1 .. Len(s.new) : t2[Len(t) + j] = s.new[j]
  BY <1>3, <1>5, <1>6
<1>8. DOMAIN t2 = 1 .. Len(t) + Len(s.new)
  BY <1>7
<1>9. \A i \in 1 .. Len(t) : /\ t2[i].key = t[i].key
                             /\ (\A u \in s.dirty : u.row # i) => t2[i] = t[i]
                             /\ OneChangeEach(s) => \A u \in s.dirty : u.row = i =>
                                  t2[i].cols = Updated(t[i].cols, u)
  BY <1>4, <1>7
<1> QED BY <1>1, <1>2, <1>7, <1>8, <1>9 DEF t2

\* The rows of a key after a commit: those there were, and those the session added.
LEMMA RowsOfFlush ==
  ASSUME NEW K, NEW C, NEW s \in SessionSet(K, C), NEW t \in Seq(RowSet(K, C)), NEW k,
         \A c \in C, u \in ChangeSet(C) : Updated(c, u) \in C
  PROVE  LET t2 == Flush(t, s)
         IN  /\ RowsOf(t2, k) = RowsOf(t, k) \cup {Len(t) + j : j \in NewOf(s, k)}
             /\ IsFiniteSet(RowsOf(t, k)) /\ IsFiniteSet(NewOf(s, k)) /\ IsFiniteSet(RowsOf(t2, k))
             /\ Cardinality(RowsOf(t2, k)) = Cardinality(RowsOf(t, k)) + Cardinality(NewOf(s, k))
             /\ RowsOf(t, k) # {} => FirstRow(t2, k) = FirstRow(t, k)
<1> DEFINE t2 == Flush(t, s)
           old == RowsOf(t, k)
           new == NewOf(s, k)
           shift == [j \in new |-> Len(t) + j]
           added == {Len(t) + j : j \in new}
<1>1. /\ Len(t) \in Nat /\ Len(s.new) \in Nat /\ DOMAIN t2 = 1 .. Len(t) + Len(s.new)
      /\ \A i \in 1 .. Len(t) : t2[i].key = t[i].key
      /\ \A j \in 1 .. Len(s.new) : t2[Len(t) + j] = s.new[j]
  BY FlushProperties
<1>2. s.new \in Seq(RowSet(K, C))
  BY DEF SessionSet
<1>3. old = {i \in 1 .. Len(t) : t[i].key = k} /\ new = {j \in 1 .. Len(s.new) : s.new[j].key = k}
  BY <1>2 DEF RowsOf, NewOf
<1> HIDE DEF t2, old, new
<1>4. RowsOf(t2, k) = old \cup added
  <2>1. \A i \in RowsOf(t2, k) : i \in old \cup added
    <3> SUFFICES ASSUME NEW i \in 1 .. Len(t) + Len(s.new), t2[i].key = k
                 PROVE  i \in old \cup added
      BY <1>1 DEF RowsOf
    <3>1. CASE i <= Len(t)
      BY <1>1, <1>3, <3>1
    <3>2. CASE i > Len(t)
      <4>1. i - Len(t) \in 1 .. Len(s.new) /\ Len(t) + (i - Len(t)) = i
        BY <1>1, <3>2
      <4>2. i - Len(t) \in new
        BY <1>1, <1>3, <4>1
      <4> QED BY <4>1, <4>2
    <3> QED BY <1>1, <3>1, <3>2
  <2>2. \A i \in old : i \in RowsOf(t2, k)
    BY <1>1, <1>3 DEF RowsOf
  <2>3. \A j \in new : Len(t) + j \in RowsOf(t2, k)
    <3> SUFFICES ASSUME NEW j \in new
                 PROVE  Len(t) + j \in RowsOf(t2, k)
      OBVIOUS
    <3>1. j \in 1 .. Len(s.new) /\ s.new[j].key = k
      BY <1>3
    <3>2. Len(t) + j \in 1 .. Len(t) + Len(s.new) /\ t2[Len(t) + j] = s.new[j]
      BY <1>1, <3>1
    <3> QED BY <1>1, <3>1, <3>2 DEF RowsOf
  <2>4. \A i \in added : i \in RowsOf(t2, k)
    BY <2>3
  <2> HIDE DEF added
  <2> QED BY <2>1, <2>2, <2>4
<1>5. IsFiniteSet(old) /\ IsFiniteSet(new)
  <2>1. old \in SUBSET (1 .. Len(t)) /\ new \in SUBSET (1 .. Len(s.new))
    BY <1>3
  <2>2. IsFiniteSet(1 .. Len(t)) /\ IsFiniteSet(1 .. Len(s.new))
    BY <1>1, FS_Interval
  <2> QED BY <2>1, <2>2, FS_Subset
<1>6. shift \in Bijection(new, added)
  <2>1. shift \in [new -> added] /\ \A i \in added : \E j \in new : shift[j] = i
    OBVIOUS
  <2>2. \A i, j \in new : shift[i] = shift[j] => i = j
    BY <1>1, <1>3
  <2> HIDE DEF shift, added
  <2> QED BY <2>1, <2>2 DEF Bijection, Injection, Surjection, IsInjective
<1>7. IsFiniteSet(added) /\ Cardinality(added) = Cardinality(new)
  <2>1. ExistsBijection(new, added)
    BY <1>6 DEF ExistsBijection
  <2> HIDE DEF added
  <2> QED BY <1>5, <2>1, FS_Bijection
<1>8. old \cap added = {}
  BY <1>1, <1>3
<1>9. IsFiniteSet(old \cup added) /\ Cardinality(old \cup added) = Cardinality(old) + Cardinality(new)
  <2> HIDE DEF added
  <2>1. IsFiniteSet(old \cup added)
        /\ Cardinality(old \cup added) = Cardinality(old) + Cardinality(added) - Cardinality(old \cap added)
    BY <1>5, <1>7, FS_Union, Zenon
  <2>2. Cardinality({}) = 0 /\ Cardinality(old) \in Nat /\ Cardinality(new) \in Nat
    BY <1>5, FS_EmptySet, FS_CardinalityType
  <2>3. Cardinality(old \cap added) = 0
    BY <1>8, <2>2, Zenon
  <2> QED BY <1>7, <2>1, <2>2, <2>3
<1>10. old # {} => FirstRow(t2, k) = FirstRow(t, k)
  <2> SUFFICES ASSUME old # {} PROVE FirstRow(t2, k) = FirstRow(t, k)
    OBVIOUS
  <2>1. DOMAIN t \in SUBSET Nat /\ DOMAIN t2 \in SUBSET Nat
    BY <1>1
  <2>2. FirstRow(t, k) \in old /\ \A j \in old : FirstRow(t, k) <= j
    BY <2>1, FirstRowIsLeast DEF old
  <2>3. FirstRow(t, k) \in 1 .. Len(t)
    BY <1>3, <2>2
  <2>4. \A j \in added : FirstRow(t, k) <= j
    BY <1>1, <1>3, <2>3
  <2>5. FirstRow(t, k) \in RowsOf(t2, k) /\ \A j \in RowsOf(t2, k) : FirstRow(t, k) <= j
    <3> HIDE DEF added
    <3> QED BY <1>4, <2>2, <2>4
  <2> QED BY <2>1, <2>5, FirstRowIsTheLeast
<1> HIDE DEF added
<1>11. /\ RowsOf(t2, k) = old \cup added /\ IsFiniteSet(RowsOf(t2, k))
       /\ Cardinality(RowsOf(t2, k)) = Cardinality(old) + Cardinality(new)
  BY <1>4, <1>9
<1> QED BY <1>5, <1>10, <1>11 DEF t2, old, new, added
-----------------------------------------------------------------------------
\* A number of the set has a rank below its size, and a greater one has a greater rank.
LEMMA RankGrows ==
  ASSUME NEW n \in Nat, NEW S \in SUBSET (1 .. n)
  PROVE  /\ IsFiniteSet(S) /\ Cardinality(S) \in Nat
         /\ \A i \in S : Rank(S, i) \in Nat /\ Rank(S, i) < Cardinality(S)
         /\ \A i, k \in S : i < k => Rank(S, i) < Rank(S, k)
<1>1. IsFiniteSet(S) /\ Cardinality(S) \in Nat
  <2>1. IsFiniteSet(1 .. n)
    BY FS_Interval
  <2> QED BY <2>1, FS_Subset, FS_CardinalityType
<1>2. ASSUME NEW T \in SUBSET S, NEW U \in SUBSET T, NEW x \in T \ U
      PROVE  /\ Cardinality(T) \in Nat /\ Cardinality(U) \in Nat
             /\ Cardinality(U) < Cardinality(T)
  <2>1. IsFiniteSet(T) /\ IsFiniteSet(U)
    BY <1>1, FS_Subset
  <2>2. U # T /\ Cardinality(U) <= Cardinality(T) /\ Cardinality(U) # Cardinality(T)
    BY <1>2, <2>1, FS_Subset
  <2> QED BY <2>1, <2>2, FS_CardinalityType
<1>3. ASSUME NEW i \in S PROVE Rank(S, i) \in Nat /\ Rank(S, i) < Cardinality(S)
  <2>1. PICK U \in SUBSET S : U = {j \in S : j < i}
    OBVIOUS
  <2>2. i \in S \ U /\ S \in SUBSET S
    BY <2>1
  <2> QED BY <2>1, <2>2, <1>2 DEF Rank
<1>4. ASSUME NEW i \in S, NEW k \in S, i < k PROVE Rank(S, i) < Rank(S, k)
  <2>1. PICK T \in SUBSET S : T = {j \in S : j < k}
    OBVIOUS
  <2>2. PICK U \in SUBSET S : U = {j \in S : j < i}
    OBVIOUS
  <2>3. U \in SUBSET T /\ i \in T \ U
    <3>1. \A j \in S : j < i => j < k
      BY <1>4
    <3>2. \A j \in U : j \in S /\ j < i
      BY <2>2
    <3>3. \A j \in U : j \in T
      BY <3>1, <3>2, <2>1
    <3> QED BY <1>4, <2>1, <3>2, <3>3
  <2> QED BY <2>1, <2>2, <2>3, <1>2 DEF Rank
<1> QED BY <1>1, <1>3, <1>4

\* The k-th number of S for each k up to its size: every number of S is one, and
\* they grow with k.
LEMMA PlaceGrows ==
  ASSUME NEW n \in Nat, NEW S \in SUBSET (1 .. n)
  PROVE  /\ Cardinality(S) \in Nat
         /\ \A k \in 1 .. Cardinality(S) : Place(S, k) \in S
         /\ \A k, l \in 1 .. Cardinality(S) : k < l => Place(S, k) < Place(S, l)
         /\ \A i \in S : \E k \in 1 .. Cardinality(S) : Place(S, k) = i
<1> DEFINE N == Cardinality(S)
           f == [i \in S |-> Rank(S, i) + 1]
<1>1. /\ IsFiniteSet(S) /\ N \in Nat
      /\ \A i \in S : /\ f[i] \in 1 .. N /\ f[i] = Rank(S, i) + 1 /\ Rank(S, i) \in Nat
      /\ \A i, k \in S : i < k => f[i] < f[k]
  <2>1. \A i \in S : f[i] = Rank(S, i) + 1
    OBVIOUS
  <2> HIDE DEF f
  <2>2. /\ IsFiniteSet(S) /\ N \in Nat
        /\ \A i \in S : Rank(S, i) \in Nat /\ Rank(S, i) < N
        /\ \A i, k \in S : i < k => Rank(S, i) < Rank(S, k)
    BY RankGrows
  <2>3. \A i \in S : f[i] \in 1 .. N
    BY <2>1, <2>2
  <2> QED BY <2>1, <2>2, <2>3
<1>2. f \in [S -> 1 .. N]
  BY <1>1
<1> HIDE DEF f
<1>3. \A i, k \in S : f[i] = f[k] => i = k
  <2>1. \A i, k \in S : i < k \/ k < i \/ i = k
    OBVIOUS
  <2> QED BY <1>1, <2>1
<1>4. f \in Injection(S, 1 .. N)
  BY <1>2, <1>3 DEF Injection, IsInjective
<1>5. IsFiniteSet(1 .. N) /\ Cardinality(1 .. N) = N
  BY <1>1, FS_Interval
<1>6. f \in Surjection(S, 1 .. N)
  BY <1>4, <1>5, FS_Injection
<1>7. \A k \in 1 .. N : \E i \in S : f[i] = k
  BY <1>6 DEF Surjection
<1>8. ASSUME NEW k \in 1 .. N PROVE Place(S, k) \in S /\ f[Place(S, k)] = k
  <2>1. PICK i \in S : f[i] = k
    BY <1>7
  <2>2. Rank(S, i) = k - 1
    BY <1>1, <2>1
  <2>3. Place(S, k) \in S /\ Rank(S, Place(S, k)) = k - 1
    BY <2>2 DEF Place
  <2>4. Rank(S, Place(S, k)) + 1 = k
    BY <2>3
  <2> QED BY <2>3, <2>4, <1>1
<1>9. ASSUME NEW k \in 1 .. N, NEW l \in 1 .. N, k < l PROVE Place(S, k) < Place(S, l)
  <2>1. /\ Place(S, k) \in S /\ f[Place(S, k)] = k /\ Place(S, l) \in S /\ f[Place(S, l)] = l
    BY <1>8
  <2>2. \A x, y \in S : f[x] < f[y] => x < y
    <3>1. \A x, y \in S : x < y \/ y < x \/ x = y
      OBVIOUS
    <3>2. \A x, y \in S : f[x] < f[y] => ~(y < x) /\ x # y
      BY <1>1
    <3> QED BY <3>1, <3>2
  <2> QED BY <2>1, <2>2, <1>9
<1>10. ASSUME NEW i \in S PROVE \E k \in 1 .. N : Place(S, k) = i
  <2>1. f[i] \in 1 .. N
    BY <1>2
  <2> QED BY <2>1, <1>8, <1>3
<1> QED BY <1>1, <1>8, <1>9, <1>10

\* The part of a sequence of elements of T is one too, and its elements are those
\* at the chosen places, in the same order.
LEMMA PartProperties ==
  ASSUME NEW T, NEW q \in Seq(T), NEW S \in SUBSET DOMAIN q
  PROVE  /\ Part(q, S) \in Seq(T) /\ Len(Part(q, S)) = Cardinality(S) /\ Cardinality(S) \in Nat
         /\ DOMAIN Part(q, S) = 1 .. Cardinality(S)
         /\ \A k \in DOMAIN Part(q, S) : Place(S, k) \in S /\ Part(q, S)[k] = q[Place(S, k)]
         /\ \A k, l \in DOMAIN Part(q, S) : k < l => Place(S, k) < Place(S, l)
         /\ \A i \in S : \E k \in DOMAIN Part(q, S) : Place(S, k) = i
<1>1. Len(q) \in Nat /\ S \in SUBSET (1 .. Len(q)) /\ \A i \in 1 .. Len(q) : q[i] \in T
  OBVIOUS
<1>2. /\ Cardinality(S) \in Nat
      /\ \A k \in 1 .. Cardinality(S) : Place(S, k) \in S
      /\ \A k, l \in 1 .. Cardinality(S) : k < l => Place(S, k) < Place(S, l)
      /\ \A i \in S : \E k \in 1 .. Cardinality(S) : Place(S, k) = i
  BY <1>1, PlaceGrows
<1>3. DOMAIN Part(q, S) = 1 .. Cardinality(S)
  BY DEF Part
<1>4. \A k \in 1 .. Cardinality(S) : Part(q, S)[k] = q[Place(S, k)]
  BY DEF Part
<1>5. Part(q, S) \in Seq(T) /\ Len(Part(q, S)) = Cardinality(S)
  <2>1. Part(q, S) \in [1 .. Cardinality(S) -> T]
    BY <1>1, <1>2 DEF Part
  <2> HIDE DEF Part
  <2> QED BY <2>1, <1>2, IsASeq, LenProperties
<1> QED BY <1>2, <1>3, <1>4, <1>5
=============================================================================
