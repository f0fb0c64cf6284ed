-------------------------- MODULE CallGraphProofs --------------------------
(***************************************************************************)
(* Proofs about CallGraph for any finite set of names, any definitions and *)
(* any cap: the capped breadth-first search finds the names within the     *)
(* cap, its flag is exact, and an answer without the flag is complete.     *)
(***************************************************************************)
EXTENDS CallGraph, WellFoundedInduction, SequenceTheorems, FiniteSetTheorems, TLAPS

Queue == Range(pending)

(***************************************************************************)
(* The search.  Its queue is sorted by depth and spans at most two depths; *)
(* what is queued at a depth is called by a name one call closer; and what *)
(* a name found calls is found or queued at its distance plus one at most. *)
(***************************************************************************)
Closer(d) == {from} \cup Within(from, d)

QueueSorted ==
  \A i, j \in DOMAIN pending :
    /\ i < j => pending[i][2] <= pending[j][2]
    /\ pending[j][2] <= pending[i][2] + 1
QueueSound ==
  \A q \in Queue : \E x \in Closer(q[2] - 1) : q[1] \in Range(edges[x])
NamesSound == names \subseteq Within(from, MaxDepth)
CalleesCovered ==
  \A d \in 0..MaxDepth - 1 : \A x \in Closer(d) : x \in {from} \cup names =>
    \A y \in Names : Calls(x, y) => y \in names \/ \E q \in Queue : q[1] = y /\ q[2] <= d + 1
FlagExact ==
  capped <=> \E m \in names : m \notin Within(from, MaxDepth - 1) /\ edges[m] # <<>>

SearchInv ==
  from # NoName => QueueSorted /\ QueueSound /\ NamesSound /\ CalleesCovered /\ FlagExact

(***************************************************************************)
(* The answer holds what the searches that have ended reach.               *)
(***************************************************************************)
Searched == instructions \ (todo \cup {from})
AnswerInv ==
  /\ from \notin todo
  /\ ~truncated =>
       entries = instructions \cup ((UNION {Reachable(n) : n \in Searched}) \cap context)

-----------------------------------------------------------------------------
\* Every nonempty set of natural numbers has a least member.
LEMMA LeastMember ==
  ASSUME NEW S, S \subseteq Nat, S # {}
  PROVE  \E x \in S : \A y \in S : x <= y
<1> DEFINE R == OpToRel(<, Nat)
<1>1. \A x, y \in Nat : <<x, y>> \in R <=> x < y
  BY DEF OpToRel
<1> HIDE DEF R
<1>2. IsWellFoundedOn(R, Nat)
  BY NatLessThanWellFounded DEF R
<1>3. \E x \in S : \A y \in S : ~ (<<y, x>> \in R)
  BY <1>2, WFMin
<1>4. PICK x \in S : \A y \in S : ~ (y < x)
  BY <1>1, <1>3
<1>5. \A y \in S : x <= y
  BY <1>4
<1> QED
  BY <1>5

\* Induction over the natural numbers, for a set instead of a predicate: the
\* least number outside the set would have a predecessor inside it.
LEMMA SetInduction ==
  ASSUME NEW T, 0 \in T, \A n \in Nat : n \in T => n + 1 \in T
  PROVE  Nat \subseteq T
<1> SUFFICES ASSUME Nat \ T # {}
             PROVE  FALSE
  OBVIOUS
<1>1. PICK x \in Nat \ T : \A y \in Nat \ T : x <= y
  BY LeastMember
<1>2. x # 0 /\ x - 1 \in Nat /\ ~ (x <= x - 1)
  BY <1>1
<1> QED
  BY <1>1, <1>2

\* A call followed leads to a name.
LEMMA CallsNames ==
  ASSUME TypeOK, NEW x \in Names, NEW y, Calls(x, y)
  PROVE  y \in Names
<1>1. edges[x] \in Seq(Names)
  BY DEF TypeOK
<1> QED
  BY <1>1 DEF Calls, Range

\* More calls lead to no fewer names.
LEMMA WithinGrows ==
  ASSUME NEW n, NEW d \in Nat, NEW e \in Nat, d <= e
  PROVE  Within(n, d) \subseteq Within(n, e)
BY DEF Within

\* No call leads nowhere.
LEMMA WithinNone ==
  ASSUME NEW n
  PROVE  Within(n, 0) = {}
BY DEF Within

\* One call further.
LEMMA WithinNext ==
  ASSUME NEW n \in Names, NEW d \in Nat, NEW x \in {n} \cup Within(n, d),
         NEW y \in Names, Calls(x, y)
  PROVE  y \in Within(n, d + 1)
<1>1. CASE x = n
  <2> DEFINE path == [i \in 0..1 |-> IF i = 0 THEN n ELSE y]
  <2>1. path \in [0..1 -> Names] /\ path[0] = n /\ path[1] = y
    OBVIOUS
  <2>2. Chain(path, 1)
    BY <1>1, <2>1 DEF Chain
  <2> HIDE DEF path
  <2>3. 1 \in 1..d + 1
    OBVIOUS
  <2> QED
    BY <2>1, <2>2, <2>3 DEF Within
<1>2. CASE x \in Within(n, d)
  <2>0. PICK k \in 1..d : \E p \in [0..k -> Names] : p[0] = n /\ p[k] = x /\ Chain(p, k)
    BY <1>2 DEF Within
  <2>1. PICK p \in [0..k -> Names] : p[0] = n /\ p[k] = x /\ Chain(p, k)
    BY <2>0
  <2> DEFINE path == [i \in 0..k + 1 |-> IF i = k + 1 THEN y ELSE p[i]]
  <2>2. /\ path \in [0..k + 1 -> Names] /\ path[0] = n /\ path[k + 1] = y
        /\ \A i \in 0..k : path[i] = p[i]
    BY <2>1
  <2>3. Chain(path, k + 1)
    <3> SUFFICES ASSUME NEW i \in 1..k + 1
                 PROVE  Calls(path[i - 1], path[i])
      BY DEF Chain
    <3>1. CASE i = k + 1
      BY <2>1, <2>2, <3>1
    <3>2. CASE i \in 1..k
      BY <2>1, <2>2, <3>2 DEF Chain
    <3> QED
      BY <3>1, <3>2
  <2> HIDE DEF path
  <2>4. k + 1 \in 1..d + 1
    OBVIOUS
  <2> QED
    BY <2>2, <2>3, <2>4 DEF Within
<1> QED
  BY <1>1, <1>2

\* A set that holds what its members and n call, as far as they are within d
\* calls, holds the names within d calls.
LEMMA WithinClosed ==
  ASSUME NEW n \in Names, NEW d \in Nat, NEW S,
         \A e \in 0..d - 1 : \A x \in {n} \cup Within(n, e) : x \in {n} \cup S =>
           \A y \in Names : Calls(x, y) => y \in S
  PROVE  Within(n, d) \subseteq S
<1> SUFFICES ASSUME NEW m \in Within(n, d)
             PROVE  m \in S
  OBVIOUS
<1>0. PICK k \in 1..d : \E path \in [0..k -> Names] : path[0] = n /\ path[k] = m /\ Chain(path, k)
  BY DEF Within
<1>1. PICK path \in [0..k -> Names] : path[0] = n /\ path[k] = m /\ Chain(path, k)
  BY <1>0
<1> DEFINE T == {i \in Nat : i \in 1..k => path[i] \in S /\ path[i] \in Within(n, i)}
<1>2. 0 \in T
  OBVIOUS
<1>3. ASSUME NEW i \in Nat, i \in T
      PROVE  i + 1 \in T
  <2> SUFFICES ASSUME i + 1 \in 1..k
               PROVE  path[i + 1] \in S /\ path[i + 1] \in Within(n, i + 1)
    OBVIOUS
  <2>1. Calls(path[i], path[i + 1]) /\ path[i + 1] \in Names
    BY <1>1 DEF Chain
  <2>2. path[i] \in {n} \cup Within(n, i) /\ path[i] \in {n} \cup S
    BY <1>1, <1>3
  <2>3. path[i + 1] \in Within(n, i + 1)
    BY <2>1, <2>2, WithinNext
  <2>4. i \in 0..d - 1
    OBVIOUS
  <2> QED
    BY <2>1, <2>2, <2>3, <2>4
<1> HIDE DEF T
<1>4. k \in T
  BY <1>2, <1>3, SetInduction
<1> QED
  BY <1>1, <1>4 DEF T

-----------------------------------------------------------------------------
(***************************************************************************)
(* Types.                                                                  *)
(***************************************************************************)
Items == Names \X (1..MaxDepth)

\* The entries of the queue for the callees of a name.
LEMMA AtType ==
  ASSUME NEW callees \in Seq(Names), NEW depth \in 1..MaxDepth
  PROVE  /\ At(callees, depth) \in Seq(Items)
         /\ Len(At(callees, depth)) = Len(callees)
         /\ \A i \in 1..Len(callees) : At(callees, depth)[i] = <<callees[i], depth>>
         /\ Range(At(callees, depth)) = {<<y, depth>> : y \in Range(callees)}
<1>1. \A i \in 1..Len(callees) : <<callees[i], depth>> \in Items
  BY DEF Items
<1>2. At(callees, depth) \in Seq(Items) /\ Len(At(callees, depth)) = Len(callees)
  BY <1>1 DEF At
<1> QED
  BY <1>2 DEF At, Range

\* The elements of a concatenation and of a tail.
LEMMA RangeConcat ==
  ASSUME NEW S, NEW s \in Seq(S), NEW t \in Seq(S)
  PROVE  Range(s \o t) = Range(s) \cup Range(t)
<1>1. /\ DOMAIN (s \o t) = 1..Len(s) + Len(t) /\ DOMAIN s = 1..Len(s) /\ DOMAIN t = 1..Len(t)
      /\ \A i \in 1..Len(s) + Len(t) :
           (s \o t)[i] = IF i <= Len(s) THEN s[i] ELSE t[i - Len(s)]
  BY ConcatProperties, LenProperties
<1>2. \A i \in 1..Len(t) : t[i] = (s \o t)[i + Len(s)] /\ i + Len(s) \in 1..Len(s) + Len(t)
  BY <1>1
<1>3. \A i \in 1..Len(s) : s[i] = (s \o t)[i] /\ i \in 1..Len(s) + Len(t)
  BY <1>1
<1>4. Range(s \o t) \subseteq Range(s) \cup Range(t)
  BY <1>1 DEF Range
<1>5. Range(s) \subseteq Range(s \o t)
  BY <1>1, <1>3 DEF Range
<1>6. ASSUME NEW i \in 1..Len(t)
      PROVE  t[i] \in Range(s \o t)
  <2> DEFINE j == i + Len(s)
  <2>1. j \in DOMAIN (s \o t) /\ t[i] = (s \o t)[j]
    BY <1>1, <1>2
  <2> HIDE DEF j
  <2> QED
    BY <2>1 DEF Range
<1>7. Range(t) \subseteq Range(s \o t)
  BY <1>1, <1>6 DEF Range
<1> QED
  BY <1>4, <1>5, <1>7

\* The elements of a sequence are its first one and those of its tail.
LEMMA RangeTail ==
  ASSUME NEW S, NEW s \in Seq(S), s # <<>>
  PROVE  /\ Range(s) = {s[1]} \cup Range(Tail(s)) /\ s[1] \in S
         /\ Tail(s) \in Seq(S) /\ Len(Tail(s)) = Len(s) - 1
         /\ \A i \in 1..Len(s) - 1 : Tail(s)[i] = s[i + 1]
<1>1. /\ Tail(s) \in Seq(S) /\ Len(Tail(s)) = Len(s) - 1 /\ Len(s) \in Nat \ {0}
      /\ DOMAIN s = 1..Len(s) /\ DOMAIN Tail(s) = 1..Len(s) - 1
      /\ \A i \in 1..Len(s) - 1 : Tail(s)[i] = s[i + 1]
  BY HeadTailProperties, LenProperties, EmptySeq
<1>2. Range(s) \subseteq {s[1]} \cup Range(Tail(s))
  <2> SUFFICES ASSUME NEW i \in 1..Len(s), i # 1
               PROVE  s[i] \in Range(Tail(s))
    BY <1>1 DEF Range
  <2>1. i - 1 \in 1..Len(s) - 1 /\ Tail(s)[i - 1] = s[i]
    BY <1>1
  <2> QED
    BY <1>1, <2>1 DEF Range
<1>3. {s[1]} \cup Range(Tail(s)) \subseteq Range(s)
  BY <1>1 DEF Range
<1> QED
  BY <1>1, <1>2, <1>3

\* The queue of a search stays a queue of names with depths up to the cap.
LEMMA PopType ==
  ASSUME TypeOK, Pop
  PROVE  /\ pending'\in Seq(Items) /\ names' \subseteq Names /\ capped' \in BOOLEAN
<1>1. pending \in Seq(Items) /\ pending # <<>> /\ names \subseteq Names
  BY DEF TypeOK, Pop, Items
<1> DEFINE n == pending[1][1]
           depth == pending[1][2]
           rest == Tail(pending)
<1>2. rest \in Seq(Items) /\ n \in Names /\ depth \in 1..MaxDepth
  BY <1>1, RangeTail DEF Items
<1>3. edges[n] \in Seq(Names)
  BY <1>2 DEF TypeOK
<1>4. CASE pending' = rest /\ UNCHANGED <<names, capped>>
  BY <1>1, <1>2, <1>4 DEF TypeOK
<1>5. CASE names' = names \cup {n} /\ Expand(n, depth, rest)
  <2>1. CASE depth >= MaxDepth
    <3>1. pending' = rest /\ capped' = (capped \/ edges[n] # <<>>)
      BY <1>5, <2>1 DEF Expand
    <3>2. capped' \in BOOLEAN
      BY <3>1, Zenon
    <3> QED
      BY <1>1, <1>2, <1>5, <3>1, <3>2
  <2>2. CASE ~(depth >= MaxDepth)
    <3>1. depth + 1 \in 1..MaxDepth
      BY <1>2, <2>2, CallGraphAssumption
    <3>2. At(edges[n], depth + 1) \in Seq(Items)
      BY <1>3, <3>1, AtType
    <3>3. pending' = rest \o At(edges[n], depth + 1) /\ UNCHANGED capped
      BY <1>5, <2>2 DEF Expand
    <3> HIDE DEF n, depth, rest
    <3>4. pending' \in Seq(Items)
      BY <1>2, <3>2, <3>3, ConcatProperties
    <3> QED
      BY <1>1, <1>2, <1>5, <3>3, <3>4 DEF TypeOK
  <2> QED
    BY <2>1, <2>2
<1> QED
  BY <1>4, <1>5 DEF Pop

\* Types are kept by every step of the query.
LEMMA TypeStep == TypeOK /\ [Next]_vars => TypeOK'
<1> SUFFICES ASSUME TypeOK, [Next]_vars
             PROVE  TypeOK'
  OBVIOUS
<1>1. ASSUME NEW n \in Names, StartSearch(n)
      PROVE  TypeOK'
  <2>1. 1 \in 1..MaxDepth /\ edges[n] \in Seq(Names)
    BY CallGraphAssumption DEF TypeOK
  <2>2. pending' \in Seq(Names \X (1..MaxDepth))
    BY <1>1, <2>1, AtType DEF StartSearch, Items
  <2> QED
    BY <1>1, <2>2 DEF StartSearch, TypeOK, graph, answer
<1>2. CASE Pop
  BY <1>2, PopType DEF Pop, TypeOK, graph, answer, Items
<1>3. CASE EndSearch
  <2>1. truncated' \in BOOLEAN
    BY <1>3, Zenon DEF EndSearch, TypeOK
  <2> QED
    BY <1>3, <2>1 DEF EndSearch, TypeOK, graph, search
<1>4. CASE UNCHANGED vars
  BY <1>4 DEF TypeOK, vars, graph, search, answer
<1> QED
  BY <1>1, <1>2, <1>3, <1>4 DEF Next

\* Every set of names can be sorted: its least name comes first.
LEMMA SortExists ==
  ASSUME NEW S \in SUBSET Names
  PROVE  \E callees \in Callees : Sorted(callees, S)
<1> DEFINE Sortable(k) ==
             \A U \in SUBSET Names : Cardinality(U) = k => \E c \in [1..k -> Names] : Sorted(c, U)
           T == {k \in Nat : Sortable(k)}
<1>1. \A U \in SUBSET Names : /\ IsFiniteSet(U) /\ Cardinality(U) \in Nat
                              /\ Cardinality(U) <= Cardinality(Names)
  BY CallGraphAssumption, FS_Subset, FS_CardinalityType
<1>2. Sortable(0)
  <2> SUFFICES ASSUME NEW U \in SUBSET Names, Cardinality(U) = 0
               PROVE  \E c \in [1..0 -> Names] : Sorted(c, U)
    OBVIOUS
  <2> DEFINE c == [i \in 1..0 |-> i]
  <2>1. U = {}
    BY <1>1, FS_EmptySet
  <2>2. c \in [1..0 -> Names] /\ Range(c) = {} /\ DOMAIN c = {}
    BY DEF Range
  <2> HIDE DEF c
  <2> QED
    BY <2>1, <2>2 DEF Sorted
<1>3. ASSUME NEW k \in Nat, Sortable(k)
      PROVE  Sortable(k + 1)
  <2> SUFFICES ASSUME NEW U \in SUBSET Names, Cardinality(U) = k + 1
               PROVE  \E c \in [1..k + 1 -> Names] : Sorted(c, U)
    OBVIOUS
  <2>1. U # {} /\ U \subseteq Nat
    BY <1>1, FS_EmptySet, CallGraphAssumption
  <2>2. PICK x \in U : \A y \in U : x <= y
    BY <2>1, LeastMember
  <2> DEFINE V == U \ {x}
  <2>3. V \in SUBSET Names /\ Cardinality(V) = k
    <3>1. IsFiniteSet(U) /\ k + 1 - 1 = k
      BY <1>1
    <3>2. Cardinality(V) = Cardinality(U) - 1
      BY <2>2, <3>1, FS_RemoveElement
    <3> QED
      BY <3>1, <3>2
  <2>4. PICK b \in [1..k -> Names] : Sorted(b, V)
    BY <1>3, <2>3
  <2> DEFINE c == [i \in 1..k + 1 |-> IF i = 1 THEN x ELSE b[i - 1]]
  <2>5. c \in [1..k + 1 -> Names] /\ c[1] = x /\ \A i \in 1..k : c[i + 1] = b[i]
    BY <2>4
  <2>6. \A i \in 2..k + 1 : i - 1 \in 1..k /\ c[i] = b[i - 1] /\ b[i - 1] \in V
    BY <2>4 DEF Sorted, Range
  <2> HIDE DEF c
  <2>7. U = Range(c)
    <3>1. Range(c) \subseteq U
      BY <2>5, <2>6 DEF Range
    <3>2. ASSUME NEW y \in V
          PROVE  y \in Range(c)
      <4>1. PICK i \in 1..k : b[i] = y
        BY <2>4 DEF Sorted, Range
      <4>2. i + 1 \in DOMAIN c /\ c[i + 1] = y
        BY <2>5, <4>1
      <4> QED
        BY <4>2 DEF Range
    <3>3. x \in Range(c)
      BY <2>5 DEF Range
    <3> QED
      BY <3>1, <3>2, <3>3
  <2>8. ASSUME NEW i \in DOMAIN c, NEW j \in DOMAIN c, i < j
        PROVE  c[i] < c[j]
    <3>0. DOMAIN c = 1..k + 1 /\ i \in 1..k + 1 /\ j \in 1..k + 1
      BY <2>5, <2>8
    <3>1. j \in 2..k + 1 /\ c[j] \in V /\ c[j] \in Nat /\ x \in Nat
      <4>1. j \in 2..k + 1
        BY <2>8, <3>0
      <4> QED
        BY <2>1, <2>6, <4>1
    <3>2. CASE i = 1
      BY <2>2, <2>5, <3>1, <3>2
    <3>3. CASE i # 1
      <4>1. i - 1 \in 1..k /\ j - 1 \in 1..k /\ i - 1 < j - 1 /\ c[i] = b[i - 1] /\ c[j] = b[j - 1]
        BY <2>5, <2>6, <2>8, <3>3
      <4> QED
        BY <2>4, <4>1 DEF Sorted
    <3> QED
      BY <3>2, <3>3
  <2> QED
    BY <2>5, <2>7, <2>8 DEF Sorted
<1> HIDE DEF Sortable
<1>4. 0 \in T /\ \A k \in Nat : k \in T => k + 1 \in T
  BY <1>2, <1>3
<1> HIDE DEF T
<1>5. Cardinality(S) \in T
  BY <1>1, <1>4, SetInduction
<1>6. PICK c \in [1..Cardinality(S) -> Names] : Sorted(c, S)
  BY <1>5 DEF T, Sortable
<1>7. Cardinality(S) \in 0..Cardinality(Names) /\ Cardinality(Names) \in Nat
  BY <1>1
<1> QED
  BY <1>6, <1>7 DEF Callees

\* The graph is built of names.
LEMMA TypeInit == Init => TypeOK
<1> SUFFICES ASSUME Init
             PROVE  TypeOK
  OBVIOUS
<1>1. ASSUME NEW n \in Names
      PROVE  edges[n] \in Seq(Names)
  <2>1. functions[n] \in Seq(SUBSET Names)
    BY CallGraphAssumption DEF Init
  <2>2. UNION Range(functions[n]) \in SUBSET Names
    BY <2>1 DEF Range
  <2>3. \E callees \in Callees : Sorted(callees, UNION Range(functions[n]))
    BY <2>2, SortExists
  <2>4. edges[n] \in Callees
    BY <2>3 DEF Init, build
  <2>5. PICK k \in 0..Cardinality(Names) : edges[n] \in [1..k -> Names]
    BY <2>4 DEF Callees
  <2>6. k \in Nat
    OBVIOUS
  <2> QED
    BY <2>5, <2>6, SeqDef
<1>2. edges \in [Names -> Seq(Names)]
  BY <1>1 DEF Init, build
<1>3. pending \in Seq(Names \X (1..MaxDepth))
  BY DEF Init
<1> QED
  BY <1>2, <1>3 DEF Init, TypeOK

\* Type correctness, the depths in the queue included: no name is queued beyond
\* the cap.
THEOREM CallGraphTypes == Spec => []TypeOK
<1> QED
  BY TypeInit, TypeStep, PTL DEF Spec

-----------------------------------------------------------------------------
(***************************************************************************)
(* The search.                                                             *)
(***************************************************************************)
\* A query does not change the graph, so distances stay what they are.
LEMMA GraphSame ==
  ASSUME UNCHANGED graph
  PROVE  /\ \A x, y : Calls(x, y)' <=> Calls(x, y)
         /\ \A x, d : Within(x, d)' = Within(x, d)
<1>1. \A x, y : Calls(x, y)' <=> Calls(x, y)
  BY DEF Calls, graph
<1> QED
  BY <1>1 DEF Within, Chain

\* Where the queue holds nothing up to a depth, all names within it are found.
LEMMA Frontier ==
  ASSUME TypeOK, from # NoName, CalleesCovered, NEW d \in 0..MaxDepth,
         \A q \in Queue : q[2] \in Nat /\ q[2] > d
  PROVE  Within(from, d) \subseteq names
<1>1. from \in Names
  BY DEF TypeOK
<1>2. ASSUME NEW e \in 0..d - 1, NEW x \in {from} \cup Within(from, e), x \in {from} \cup names,
             NEW y \in Names, Calls(x, y)
      PROVE  y \in names
  <2>1. e \in 0..MaxDepth - 1 /\ e + 1 <= d
    BY CallGraphAssumption
  <2>2. y \in names \/ \E q \in Queue : q[1] = y /\ q[2] <= e + 1
    BY <1>2, <2>1 DEF CalleesCovered, Closer
  <2> QED
    BY <2>1, <2>2
<1>3. \A e \in 0..d - 1 : \A x \in {from} \cup Within(from, e) : x \in {from} \cup names =>
        \A y \in Names : Calls(x, y) => y \in names
  BY <1>2
<1>4. d \in Nat
  OBVIOUS
<1> QED
  BY <1>1, <1>3, <1>4, WithinClosed

\* The first instruction's callees are queued at depth one.
LEMMA StartSearchInv ==
  ASSUME TypeOK, NEW n \in Names, StartSearch(n)
  PROVE  SearchInv'
<1>1. /\ from' = n /\ pending' = At(edges[n], 1) /\ names' = {} /\ capped' = FALSE
      /\ UNCHANGED graph /\ edges' = edges
  BY DEF StartSearch, graph
<1>2. 1 \in 1..MaxDepth /\ edges[n] \in Seq(Names)
  BY CallGraphAssumption DEF TypeOK
<1>3. /\ pending' \in Seq(Items) /\ Range(pending') = {<<y, 1>> : y \in Range(edges[n])}
      /\ DOMAIN pending' = 1..Len(edges[n])
      /\ \A i \in 1..Len(edges[n]) : pending'[i] = <<edges[n][i], 1>>
  BY <1>1, <1>2, AtType
<1>4. QueueSorted'
  BY <1>3 DEF QueueSorted
<1>5. QueueSound'
  BY <1>1, <1>3 DEF QueueSound, Queue, Closer
<1>6. NamesSound'
  BY <1>1 DEF NamesSound
<1>7. CalleesCovered'
  <2> SUFFICES ASSUME NEW d \in 0..MaxDepth - 1, NEW y \in Names, Calls(n, y)'
               PROVE  \E q \in Queue' : q[1] = y /\ q[2] <= d + 1
    BY <1>1 DEF CalleesCovered
  <2>1. y \in Range(edges[n])
    BY <1>1 DEF Calls
  <2>2. <<y, 1>> \in Queue' /\ 1 <= d + 1
    BY <1>3, <2>1 DEF Queue
  <2> QED
    BY <2>2
<1>8. FlagExact'
  BY <1>1 DEF FlagExact
<1> QED
  BY <1>4, <1>5, <1>6, <1>7, <1>8 DEF SearchInv

\* What a pop takes from the queue: a name with one of the two smallest depths,
\* which a name one call closer calls.
LEMMA PopFacts ==
  ASSUME TypeOK, SearchInv, from # NoName, pending # <<>>,
         NEW n, NEW k, NEW rest,
         n = pending[1][1], k = pending[1][2], rest = Tail(pending)
  PROVE  /\ rest \in Seq(Items) /\ n \in Names /\ k \in 1..MaxDepth
         /\ edges[n] \in Seq(Names) /\ from \in Names
         /\ Queue = {<<n, k>>} \cup Range(rest)
         /\ \A i \in DOMAIN rest : rest[i][2] \in k..k + 1
         /\ \A i, j \in DOMAIN rest : i < j => rest[i][2] <= rest[j][2]
         /\ \A q \in Queue : q[2] \in k..k + 1
         /\ \E x \in Closer(k - 1) : n \in Range(edges[x])
<1>1. pending \in Seq(Items) /\ from \in Names
  BY DEF TypeOK, Items
<1>2. /\ pending[1] \in Items /\ rest \in Seq(Items) /\ Queue = {pending[1]} \cup Range(rest)
      /\ Len(rest) = Len(pending) - 1 /\ \A i \in 1..Len(pending) - 1 : rest[i] = pending[i + 1]
  BY <1>1, RangeTail DEF Queue
<1>3. pending[1] = <<n, k>> /\ n \in Names /\ k \in 1..MaxDepth
  BY <1>2 DEF Items
<1>4. edges[n] \in Seq(Names)
  BY <1>3 DEF TypeOK
<1>5. Len(pending) \in Nat \ {0} /\ DOMAIN pending = 1..Len(pending) /\ DOMAIN rest = 1..Len(pending) - 1
  BY <1>1, <1>2, EmptySeq, LenProperties
<1>6. \A i \in DOMAIN pending : pending[i] \in Items /\ pending[i][2] \in Nat
  BY <1>1, <1>5, ElementOfSeq DEF Items
<1>7. \A i \in DOMAIN pending : pending[i][2] \in k..k + 1
  <2> TAKE i \in DOMAIN pending
  <2>1. 1 \in DOMAIN pending /\ (1 < i \/ i = 1)
    BY <1>5
  <2>2. k <= pending[i][2] /\ pending[i][2] <= k + 1
    BY <1>3, <1>6, <2>1 DEF SearchInv, QueueSorted
  <2> QED
    BY <1>3, <1>6, <2>2
<1>8. \A i \in DOMAIN rest : rest[i][2] \in k..k + 1
  BY <1>2, <1>5, <1>7
<1>9. \A i, j \in DOMAIN rest : i < j => rest[i][2] <= rest[j][2]
  <2> SUFFICES ASSUME NEW i \in DOMAIN rest, NEW j \in DOMAIN rest, i < j
               PROVE  rest[i][2] <= rest[j][2]
    OBVIOUS
  <2>1. i + 1 \in DOMAIN pending /\ j + 1 \in DOMAIN pending /\ i + 1 < j + 1
    BY <1>5
  <2> QED
    BY <1>2, <1>5, <2>1 DEF SearchInv, QueueSorted
<1>10. \A q \in Queue : q[2] \in k..k + 1
  BY <1>7 DEF Queue, Range
<1>11. \E x \in Closer(k - 1) : n \in Range(edges[x])
  BY <1>2, <1>3 DEF SearchInv, QueueSound
<1> QED
  BY <1>1, <1>2, <1>3, <1>4, <1>8, <1>9, <1>10, <1>11

\* A name that is taken from the queue and not skipped is found at its distance.
LEMMA PopDistance ==
  ASSUME TypeOK, SearchInv, from # NoName, pending # <<>>,
         NEW n, NEW k, n = pending[1][1], k = pending[1][2], ~Skip(n)
  PROVE  n \in Within(from, k) /\ n \notin Within(from, k - 1)
<1> DEFINE rest == Tail(pending)
<1>1. /\ n \in Names /\ k \in 1..MaxDepth /\ from \in Names
      /\ \A q \in Queue : q[2] \in k..k + 1
      /\ \E x \in Closer(k - 1) : n \in Range(edges[x])
  BY PopFacts
<1>2. k - 1 \in 0..MaxDepth /\ k - 1 \in Nat /\ \A q \in Queue : q[2] \in Nat /\ q[2] > k - 1
  BY <1>1, CallGraphAssumption
<1>3. n \notin names /\ (policy = "requireUnambiguous" => Len(functions[n]) = 1)
  BY DEF Skip, is_unambiguous
<1>4. Within(from, k - 1) \subseteq names
  BY <1>2, Frontier DEF SearchInv
<1>5. PICK x \in Closer(k - 1) : Calls(x, n)
  BY <1>1, <1>3 DEF Calls
<1>6. n \in Within(from, k - 1 + 1)
  BY <1>1, <1>2, <1>5, WithinNext DEF Closer
<1>7. k - 1 + 1 = k
  BY <1>1
<1> QED
  BY <1>3, <1>4, <1>6, <1>7

\* A name that is skipped is found already or never called.
LEMMA SkipInv ==
  ASSUME TypeOK, SearchInv, from # NoName, pending # <<>>, Skip(pending[1][1]),
         pending' = Tail(pending), UNCHANGED <<graph, from, names, capped>>
  PROVE  SearchInv'
<1> DEFINE n == pending[1][1]
           k == pending[1][2]
           rest == Tail(pending)
<1>1. /\ rest \in Seq(Items) /\ n \in Names /\ k \in 1..MaxDepth
      /\ Queue = {<<n, k>>} \cup Range(rest)
      /\ \A i \in DOMAIN rest : rest[i][2] \in k..k + 1
      /\ \A i, j \in DOMAIN rest : i < j => rest[i][2] <= rest[j][2]
  BY PopFacts
<1>2. Skip(n) /\ pending' = rest /\ Queue' = Range(rest)
  BY DEF Queue
<1> HIDE DEF n, k, rest
<1>3. /\ \A x, y : Calls(x, y)' <=> Calls(x, y)
      /\ \A d : Within(from, d)' = Within(from, d)
      /\ \A d : Closer(d)' = Closer(d)
      /\ edges' = edges
  BY GraphSame DEF Closer, graph
<1>4. QueueSorted'
  BY <1>1, <1>2 DEF QueueSorted
<1>5. QueueSound'
  BY <1>1, <1>2, <1>3 DEF QueueSound, SearchInv
<1>6. NamesSound'
  BY <1>3 DEF NamesSound, SearchInv
<1>7. CalleesCovered'
  <2> SUFFICES ASSUME NEW d \in 0..MaxDepth - 1, NEW x \in Closer(d), x \in {from} \cup names,
                      NEW y \in Names, Calls(x, y), y \notin names
               PROVE  \E q \in Queue' : q[1] = y /\ q[2] <= d + 1
    BY <1>3 DEF CalleesCovered
  <2>1. PICK q \in Queue : q[1] = y /\ q[2] <= d + 1
    BY DEF SearchInv, CalleesCovered
  <2>2. y # n
    BY <1>2 DEF Skip, is_unambiguous, Calls
  <2> QED
    BY <1>1, <1>2, <2>1, <2>2
<1>8. FlagExact'
  BY <1>3 DEF FlagExact, SearchInv
<1> QED
  BY <1>4, <1>5, <1>6, <1>7, <1>8 DEF SearchInv

\* A name that is found joins the names at its distance, and what it calls the
\* end of the queue unless the cap is reached.
LEMMA FindInv ==
  ASSUME TypeOK, SearchInv, from # NoName, pending # <<>>, ~Skip(pending[1][1]),
         names' = names \cup {pending[1][1]},
         Expand(pending[1][1], pending[1][2], Tail(pending)), UNCHANGED <<graph, from>>
  PROVE  SearchInv'
<1> DEFINE n == pending[1][1]
           k == pending[1][2]
           rest == Tail(pending)
<1>1. /\ rest \in Seq(Items) /\ n \in Names /\ k \in 1..MaxDepth /\ edges[n] \in Seq(Names)
      /\ Queue = {<<n, k>>} \cup Range(rest)
      /\ \A i \in DOMAIN rest : rest[i][2] \in k..k + 1
      /\ \A i, j \in DOMAIN rest : i < j => rest[i][2] <= rest[j][2]
  BY PopFacts
<1>2. n \in Within(from, k) /\ n \notin Within(from, k - 1)
  BY PopDistance
<1>3. Expand(n, k, rest) /\ names' = names \cup {n} /\ n \notin names
  BY DEF Skip
<1> HIDE DEF n, k, rest
<1>4. /\ \A x, y : Calls(x, y)' <=> Calls(x, y)
      /\ \A d : Within(from, d)' = Within(from, d)
      /\ \A d : Closer(d)' = Closer(d)
      /\ edges' = edges
  BY GraphSame DEF Closer, graph
<1>5. Within(from, k) \subseteq Within(from, MaxDepth)
  BY <1>1, CallGraphAssumption, WithinGrows
<1>6. NamesSound'
  BY <1>2, <1>3, <1>4, <1>5 DEF NamesSound, SearchInv
\* What the other names found call stays covered.
<1>7. ASSUME NEW d \in 0..MaxDepth - 1, NEW x \in Closer(d), x \in {from} \cup names,
             NEW y \in Names, Calls(x, y), y \notin names', Range(rest) \subseteq Queue'
      PROVE  \E q \in Queue' : q[1] = y /\ q[2] <= d + 1
  <2>1. PICK q \in Queue : q[1] = y /\ q[2] <= d + 1
    BY <1>3, <1>7 DEF SearchInv, CalleesCovered
  <2>2. q \in Range(rest)
    BY <1>1, <1>3, <1>7, <2>1
  <2> QED
    BY <1>7, <2>1, <2>2
\* The name itself is no closer than its depth.
<1>8. ASSUME NEW d \in 0..MaxDepth - 1, n \in Closer(d), n # from
      PROVE  d >= k
  <2> SUFFICES ASSUME d <= k - 1
               PROVE  FALSE
    BY <1>1
  <2>1. Within(from, d) \subseteq Within(from, k - 1)
    BY <1>1, WithinGrows
  <2> QED
    BY <1>2, <1>8, <2>1 DEF Closer
<1>9. CASE k >= MaxDepth
  <2>1. pending' = rest /\ capped' = (capped \/ edges[n] # <<>>) /\ Queue' = Range(rest)
    BY <1>3, <1>9 DEF Expand, Queue
  <2>2. QueueSorted'
    BY <1>1, <2>1 DEF QueueSorted
  <2>3. QueueSound'
    BY <1>1, <1>4, <2>1 DEF QueueSound, SearchInv
  <2>4. CalleesCovered'
    <3> SUFFICES ASSUME NEW d \in 0..MaxDepth - 1, NEW x \in Closer(d), x \in {from} \cup names',
                        NEW y \in Names, Calls(x, y), y \notin names'
                 PROVE  \E q \in Queue' : q[1] = y /\ q[2] <= d + 1
      BY <1>4 DEF CalleesCovered
    <3>1. x \in {from} \cup names
      <4> SUFFICES ASSUME x = n, n # from
                   PROVE  FALSE
        BY <1>3
      <4>1. d >= k
        BY <1>8
      <4> QED
        BY <1>1, <1>9, <4>1, CallGraphAssumption
    <3> QED
      BY <1>7, <2>1, <3>1
  <2>5. FlagExact'
    <3>1. n \notin Within(from, MaxDepth - 1)
      <4>1. k = MaxDepth
        BY <1>1, <1>9, CallGraphAssumption
      <4> QED
        BY <1>2, <4>1
    <3> QED
      BY <1>3, <1>4, <2>1, <3>1 DEF FlagExact, SearchInv
  <2> QED
    BY <1>6, <2>2, <2>3, <2>4, <2>5 DEF SearchInv
<1>10. CASE ~(k >= MaxDepth)
  <2> DEFINE new == At(edges[n], k + 1)
  <2>1. pending' = rest \o new /\ capped' = capped
    BY <1>3, <1>10 DEF Expand
  <2>2. k + 1 \in 1..MaxDepth /\ k \in Nat /\ k <= MaxDepth - 1
    BY <1>1, <1>10, CallGraphAssumption
  <2>3. /\ new \in Seq(Items) /\ Len(new) = Len(edges[n])
        /\ \A i \in 1..Len(new) : new[i] = <<edges[n][i], k + 1>>
        /\ Range(new) = {<<y, k + 1>> : y \in Range(edges[n])}
    BY <1>1, <2>2, AtType
  <2> HIDE DEF new
  <2>4. Queue' = Range(rest) \cup Range(new)
    BY <1>1, <2>1, <2>3, RangeConcat DEF Queue
  <2>5. QueueSorted'
    <3>1. /\ DOMAIN pending' = 1..Len(rest) + Len(new) /\ DOMAIN rest = 1..Len(rest)
          /\ Len(rest) \in Nat /\ Len(new) \in Nat
          /\ \A i \in 1..Len(rest) + Len(new) :
               pending'[i] = IF i <= Len(rest) THEN rest[i] ELSE new[i - Len(rest)]
      <4>1. rest \in Seq(Items) /\ new \in Seq(Items) /\ rest \o new \in Seq(Items)
        BY <1>1, <2>3, ConcatProperties
      <4>2. Len(rest \o new) = Len(rest) + Len(new) /\ Len(rest) \in Nat /\ Len(new) \in Nat
        BY <4>1, ConcatProperties, LenProperties
      <4>3. \A i \in 1..Len(rest) + Len(new) :
              (rest \o new)[i] = IF i <= Len(rest) THEN rest[i] ELSE new[i - Len(rest)]
        BY <4>1, ConcatProperties
      <4>4. DOMAIN (rest \o new) = 1..Len(rest) + Len(new) /\ DOMAIN rest = 1..Len(rest)
        BY <4>1, <4>2, LenProperties
      <4> QED
        BY <2>1, <4>2, <4>3, <4>4
    <3>2. \A i \in DOMAIN pending' : i > Len(rest) => pending'[i][2] = k + 1
      BY <2>3, <3>1
    <3>3. \A i \in DOMAIN pending' : i <= Len(rest) => pending'[i] = rest[i] /\ i \in DOMAIN rest
      BY <3>1
    <3>4. \A i \in DOMAIN pending' : pending'[i][2] \in k..k + 1
      BY <1>1, <2>2, <3>1, <3>2, <3>3
    <3>5. ASSUME NEW i \in DOMAIN pending', NEW j \in DOMAIN pending', i < j
          PROVE  pending'[i][2] <= pending'[j][2]
      <4>1. CASE j > Len(rest)
        BY <2>2, <3>2, <3>4, <4>1
      <4>2. CASE ~(j > Len(rest))
        BY <1>1, <3>1, <3>3, <3>5, <4>2
      <4> QED
        BY <4>1, <4>2
    <3> QED
      BY <2>2, <3>4, <3>5 DEF QueueSorted
  <2>6. QueueSound'
    <3> SUFFICES ASSUME NEW q \in Queue'
                 PROVE  \E x \in Closer(q[2] - 1) : q[1] \in Range(edges[x])
      BY <1>4 DEF QueueSound
    <3>1. CASE q \in Range(rest)
      BY <1>1, <3>1 DEF QueueSound, SearchInv
    <3>2. CASE q \in Range(new)
      <4>1. q[2] - 1 = k /\ q[1] \in Range(edges[n])
        BY <2>2, <2>3, <3>2
      <4> QED
        BY <1>2, <4>1 DEF Closer
    <3> QED
      BY <2>4, <3>1, <3>2
  <2>7. CalleesCovered'
    <3> SUFFICES ASSUME NEW d \in 0..MaxDepth - 1, NEW x \in Closer(d), x \in {from} \cup names',
                        NEW y \in Names, Calls(x, y), y \notin names'
                 PROVE  \E q \in Queue' : q[1] = y /\ q[2] <= d + 1
      BY <1>4 DEF CalleesCovered
    <3>1. CASE x \in {from} \cup names
      BY <1>7, <2>4, <3>1
    <3>2. CASE x = n /\ n # from
      <4>1. k + 1 <= d + 1
        BY <1>1, <1>8, <3>2
      <4>2. <<y, k + 1>> \in Queue'
        BY <2>3, <2>4, <3>2 DEF Calls
      <4> QED
        BY <4>1, <4>2
    <3> QED
      BY <1>3, <3>1, <3>2
  <2>8. FlagExact'
    <3>1. n \in Within(from, MaxDepth - 1)
      BY <1>2, <2>2, CallGraphAssumption, WithinGrows
    <3> QED
      BY <1>3, <1>4, <2>1, <3>1 DEF FlagExact, SearchInv
  <2> QED
    BY <1>6, <2>5, <2>6, <2>7, <2>8 DEF SearchInv
<1> QED
  BY <1>9, <1>10

\* The search invariant is kept by every step of the query.
LEMMA SearchStep == TypeOK /\ SearchInv /\ [Next]_vars => SearchInv'
<1> SUFFICES ASSUME TypeOK, SearchInv, [Next]_vars
             PROVE  SearchInv'
  OBVIOUS
<1>1. ASSUME NEW n \in Names, StartSearch(n)
      PROVE  SearchInv'
  BY <1>1, StartSearchInv
<1>2. CASE Pop
  <2>1. from # NoName /\ pending # <<>> /\ UNCHANGED <<graph, from>>
    BY <1>2 DEF Pop
  <2>2. CASE Skip(pending[1][1]) /\ pending' = Tail(pending) /\ UNCHANGED <<names, capped>>
    BY <2>1, <2>2, SkipInv
  <2>3. CASE /\ ~Skip(pending[1][1]) /\ names' = names \cup {pending[1][1]}
             /\ Expand(pending[1][1], pending[1][2], Tail(pending))
    BY <2>1, <2>3, FindInv
  <2> QED
    BY <1>2, <2>2, <2>3 DEF Pop
<1>3. CASE EndSearch
  BY <1>3 DEF EndSearch, SearchInv
<1>4. CASE UNCHANGED vars
  <2>1. /\ UNCHANGED <<from, pending, names, capped, edges>>
        /\ \A x, y : Calls(x, y)' <=> Calls(x, y)
        /\ \A x, d : Within(x, d)' = Within(x, d)
    BY <1>4, GraphSame DEF vars, graph, search
  <2>2. Queue' = Queue /\ \A d : Closer(d)' = Closer(d)
    BY <2>1 DEF Queue, Closer
  <2>3. (QueueSorted <=> QueueSorted') /\ (QueueSound <=> QueueSound') /\ (NamesSound <=> NamesSound')
    BY <2>1, <2>2 DEF QueueSorted, QueueSound, NamesSound
  <2>4. (CalleesCovered <=> CalleesCovered') /\ (FlagExact <=> FlagExact')
    BY <2>1, <2>2 DEF CalleesCovered, FlagExact
  <2> QED
    BY <2>1, <2>3, <2>4 DEF SearchInv
<1> QED
  BY <1>1, <1>2, <1>3, <1>4 DEF Next

\* When the queue is empty the names within the cap are found, and no others.
LEMMA SearchEnd ==
  ASSUME TypeOK, SearchInv, from # NoName, pending = <<>>
  PROVE  names = Within(from, MaxDepth)
<1>1. Queue = {}
  BY DEF Queue, Range
<1>2. MaxDepth \in 0..MaxDepth
  BY CallGraphAssumption
<1>3. Within(from, MaxDepth) \subseteq names
  BY <1>1, <1>2, Frontier DEF SearchInv
<1> QED
  BY <1>3 DEF SearchInv, NamesSound

\* A search finds the names within the cap, whatever the order of the queue: a
\* name met first by a long path is met no later by a shorter one.
THEOREM SearchFindsWithinDepth == Spec => []NamesWithinDepth
<1>1. Init => SearchInv
  BY DEF Init, SearchInv
<1>2. TypeOK /\ SearchInv => NamesWithinDepth
  BY SearchEnd DEF NamesWithinDepth
<1> QED
  BY <1>1, <1>2, TypeInit, TypeStep, SearchStep, PTL DEF Spec

\* The flag of a search is raised exactly by the names found at the cap.
THEOREM SearchFlagExact == Spec => []CapFlagExact
<1>1. Init => SearchInv
  BY DEF Init, SearchInv
<1>2. TypeOK /\ SearchInv => CapFlagExact
  BY SearchEnd DEF CapFlagExact, SearchInv, FlagExact
<1> QED
  BY <1>1, <1>2, TypeInit, TypeStep, SearchStep, PTL DEF Spec

-----------------------------------------------------------------------------
(***************************************************************************)
(* The answer.                                                             *)
(***************************************************************************)
\* Any set closed under the calls followed from a name holds what is within any
\* number of calls of it.
LEMMA WithinReachable ==
  ASSUME NEW n \in Names, NEW d \in Nat
  PROVE  Within(n, d) \subseteq Reachable(n)
<1> SUFFICES ASSUME NEW S \in SUBSET Names, Closed(n, S)
             PROVE  Within(n, d) \subseteq S
  BY DEF Reachable, Within
<1>1. \A e \in 0..d - 1 : \A x \in {n} \cup Within(n, e) : x \in {n} \cup S =>
        \A y \in Names : Calls(x, y) => y \in S
  BY DEF Closed, Followed
<1> QED
  BY <1>1, WithinClosed

\* A search that ends without the flag has found all there is to find.
LEMMA UncappedComplete ==
  ASSUME TypeOK, SearchInv, from # NoName, pending = <<>>, ~capped
  PROVE  names = Reachable(from)
<1>1. names = Within(from, MaxDepth) /\ from \in Names /\ MaxDepth \in Nat
  BY SearchEnd, CallGraphAssumption DEF TypeOK
<1>2. names \subseteq Reachable(from)
  BY <1>1, WithinReachable
<1>3. ASSUME NEW x \in {from} \cup names, NEW y \in Names, Calls(x, y)
      PROVE  y \in names
  <2>1. CASE x \in Closer(MaxDepth - 1)
    <3>1. MaxDepth - 1 \in 0..MaxDepth - 1
      BY CallGraphAssumption
    <3>2. y \in names \/ \E q \in Queue : q[1] = y /\ q[2] <= MaxDepth - 1 + 1
      BY <1>3, <2>1, <3>1 DEF SearchInv, CalleesCovered
    <3> QED
      BY <3>2 DEF Queue, Range
  <2>2. CASE x \notin Closer(MaxDepth - 1)
    <3>1. x \in names /\ x \notin Within(from, MaxDepth - 1)
      BY <1>3, <2>2 DEF Closer
    <3>2. edges[x] = <<>>
      BY <3>1 DEF SearchInv, FlagExact
    <3> QED
      BY <1>3, <3>2 DEF Calls, Range
  <2> QED
    BY <2>1, <2>2
<1>4. names \in SUBSET Names /\ Closed(from, names)
  BY <1>3 DEF Closed, Followed, TypeOK
<1> QED
  BY <1>2, <1>4 DEF Reachable

\* What is reachable does not change either.
LEMMA ReachableSame ==
  ASSUME UNCHANGED graph
  PROVE  \A n : Reachable(n)' = Reachable(n)
<1>1. \A x, y : Calls(x, y)' <=> Calls(x, y)
  BY GraphSame
<1>2. \A S : Followed(S)' = Followed(S)
  BY <1>1 DEF Followed
<1>3. \A n, S : Closed(n, S)' <=> Closed(n, S)
  BY <1>2 DEF Closed
<1> QED
  BY <1>3 DEF Reachable

\* The answer is kept complete by every step of the query.
LEMMA AnswerStep == TypeOK /\ SearchInv /\ AnswerInv /\ [Next]_vars => AnswerInv'
<1> SUFFICES ASSUME TypeOK, SearchInv, AnswerInv, [Next]_vars
             PROVE  AnswerInv'
  OBVIOUS
<1>0. NoName \notin instructions
  BY CallGraphAssumption DEF TypeOK
<1>1. ASSUME NEW n \in Names, StartSearch(n)
      PROVE  AnswerInv'
  <2>1. UNCHANGED <<graph, instructions, context, entries, truncated>> /\ n \in todo
        /\ from' = n /\ todo' = todo \ {n} /\ from = NoName
    BY <1>1 DEF StartSearch, graph, answer
  <2>2. Searched' = Searched
    BY <1>0, <2>1 DEF Searched, TypeOK
  <2>3. \A m : Reachable(m)' = Reachable(m)
    BY <2>1, ReachableSame
  <2> QED
    BY <2>1, <2>2, <2>3 DEF AnswerInv
<1>2. ASSUME Pop \/ UNCHANGED vars
      PROVE  AnswerInv'
  <2>1. UNCHANGED <<graph, instructions, context, todo, from, entries, truncated>>
    BY <1>2 DEF Pop, vars, graph, answer
  <2>2. Searched' = Searched
    BY <2>1 DEF Searched
  <2>3. \A m : Reachable(m)' = Reachable(m)
    BY <2>1, ReachableSame
  <2> QED
    BY <2>1, <2>2, <2>3 DEF AnswerInv
<1>3. CASE EndSearch
  <2>1. /\ UNCHANGED <<graph, instructions, context, todo>> /\ from' = NoName
        /\ from # NoName /\ pending = <<>>
        /\ entries' = entries \cup (names \cap context) /\ truncated' = (truncated \/ capped)
    BY <1>3 DEF EndSearch, graph
  <2>2. Searched' = Searched \cup {from}
    BY <1>0, <2>1 DEF Searched, AnswerInv, TypeOK
  <2>3. \A m : Reachable(m)' = Reachable(m)
    BY <2>1, ReachableSame
  <2>4. NoName \notin todo'
    BY <1>0, <2>1 DEF TypeOK
  <2>5. ASSUME ~truncated'
        PROVE  entries' = instructions \cup ((UNION {Reachable(m) : m \in Searched'}) \cap context)
    <3>1. ~truncated /\ ~capped
      BY <2>1, <2>5
    <3>2. names = Reachable(from)
      BY <2>1, <3>1, UncappedComplete
    <3>3. entries = instructions \cup ((UNION {Reachable(m) : m \in Searched}) \cap context)
      BY <3>1 DEF AnswerInv
    <3>4. UNION {Reachable(m) : m \in Searched'}
          = (UNION {Reachable(m) : m \in Searched}) \cup Reachable(from)
      BY <2>2
    <3> QED
      BY <2>1, <3>2, <3>3, <3>4
  <2> QED
    BY <2>1, <2>3, <2>4, <2>5 DEF AnswerInv
<1> QED
  BY <1>1, <1>2, <1>3 DEF Next

\* The flag of the answer is honest: without it the answer is every function of
\* the context that the instructions reach, at any distance, and no other.
THEOREM AnswerComplete == Spec => []CompleteUnlessTruncated
<1>1. Init => SearchInv
  BY DEF Init, SearchInv
<1>2. Init => AnswerInv
  <2> SUFFICES ASSUME Init
               PROVE  AnswerInv
    OBVIOUS
  <2>1. instructions \subseteq Names /\ todo = instructions /\ from = NoName /\ entries = instructions
    BY DEF Init
  <2>2. Searched = {} /\ from \notin todo
    BY <2>1, CallGraphAssumption DEF Searched
  <2> QED
    BY <2>1, <2>2 DEF AnswerInv
<1>3. TypeOK /\ AnswerInv => CompleteUnlessTruncated
  <2> SUFFICES ASSUME TypeOK, AnswerInv, Done, ~truncated
               PROVE  entries = instructions \cup ((UNION {Reachable(n) : n \in instructions}) \cap context)
    BY DEF CompleteUnlessTruncated
  <2>1. Searched = instructions
    BY CallGraphAssumption DEF Searched, Done, TypeOK
  <2> QED
    BY <2>1 DEF AnswerInv
<1> QED
  BY <1>1, <1>2, <1>3, TypeInit, TypeStep, SearchStep, AnswerStep, PTL DEF Spec
=============================================================================
