----------------------- MODULE WorkspaceIndexingProofs -----------------------
(***************************************************************************)
(* Proofs about WorkspaceIndexing for any files, folders, module paths and *)
(* number of handlers: what an index always is, and that at rest it holds  *)
(* of every file what a build would unless the file was raced.             *)
(***************************************************************************)
EXTENDS WorkspaceIndexing, WellFoundedInduction, SequenceTheorems, FiniteSetTheorems, TLAPS

(***************************************************************************)
(* What an index always is.                                                *)
(***************************************************************************)
Entries == [uri : Uris, text : Nat \ {0}, open : BOOLEAN]
OneUri(s) == \A i, j \in DOMAIN s : s[i].uri = s[j].uri => i = j
OpenFirst(s) == \A i, j \in DOMAIN s : i < j /\ s[j].open => s[i].open
Leads(ix) ==
  \A p \in DOMAIN ix.modules : ix.modules[p] \in ix.documents /\ ModulePath[ix.modules[p]] = p

IndexOK(ix) ==
  /\ ix.entries \in Seq(Entries) /\ OneUri(ix.entries) /\ OpenFirst(ix.entries)
  /\ ix.documents = {e.uri : e \in Range(ix.entries)}
  /\ ix.calls = Range(ix.entries)
  /\ Leads(ix)

\* The entries an index has of a file, and those it has of a text.
Of(ix, u) == {e \in Range(ix.entries) : e.uri = u}
Held(u, text, open) == IF text = 0 THEN {} ELSE {Entry(u, text, open)}

(***************************************************************************)
(* The futures.                                                            *)
(***************************************************************************)
HandlerOK(j) ==
  \/ j = Free
  \/ j \in [pc : {"build"}, roots : SUBSET Folders, open : [Uris -> Nat],
            clean : BOOLEAN, behind : SUBSET Uris]
  \/ /\ j.pc = "built" /\ j.behind \subseteq Uris /\ j.clean \in BOOLEAN
     /\ j = [pc |-> "built", index |-> j.index, clean |-> j.clean, behind |-> j.behind]
     /\ IndexOK(j.index)
  \/ /\ j.pc = "scan" /\ j.behind \subseteq Uris
     /\ j = [pc |-> "scan", roots |-> j.roots, behind |-> j.behind, changes |-> j.changes]
     /\ DOMAIN j.changes \subseteq Uris
  \/ /\ j.pc = "scanned" /\ j.behind \subseteq Uris
     /\ j = [pc |-> "scanned", behind |-> j.behind, updates |-> j.updates]
     /\ DOMAIN j.updates \subseteq Uris
     /\ \A u \in DOMAIN j.updates : j.updates[u] \in Nat
  \/ /\ j = [pc |-> "hot", uri |-> j.uri, text |-> j.text]
     /\ j.uri \in Uris /\ j.text \in Nat \ {0}

TypeInv ==
  /\ disk \in [Uris -> Nat] /\ documents \in [Uris -> Nat]
  /\ events \in [Uris -> {"none", "changed", "deleted"}]
  /\ texts \in Nat /\ enabled \in BOOLEAN /\ roots \subseteq Folders /\ raced \subseteq Uris
  /\ IndexOK(index)
  /\ DOMAIN handlers = Handlers /\ \A h \in Handlers : HandlerOK(handlers[h])

(***************************************************************************)
(* Exactness.  A job that no change went behind of a file will leave it as *)
(* its source is ...                                                       *)
(***************************************************************************)
SameRoot(rs, u) == Folder[u] \in rs <=> Folder[u] \in roots

JobExact(j, u) ==
  /\ enabled
  /\ j.pc = "build"   => SameRoot(j.roots, u) /\ j.open[u] = documents[u]
  /\ j.pc = "built"   => Of(j.index, u) = Source(u)
  /\ j.pc = "scan"    => /\ SameRoot(j.roots, u)
                         /\ u \in DOMAIN j.changes =>
                              documents[u] = 0 /\ (j.changes[u] = "deleted" => disk[u] = 0)
  /\ j.pc = "scanned" /\ u \in DOMAIN j.updates =>
                           documents[u] = 0 /\ j.updates[u] = BelowRoots(roots)[u]

\* ... and such a job, an event or the hot lane is on its way wherever the
\* index is not exact yet.
Restores(j, u) ==
  \/ j.pc \in {"build", "built"}
  \/ j.pc = "scan" /\ u \in DOMAIN j.changes
  \/ j.pc = "scanned" /\ u \in DOMAIN j.updates
  \/ j.pc = "hot" /\ j.uri = u /\ j.text >= documents[u]

ExactOrDue(u) ==
  \/ Of(index, u) = Source(u)
  \/ /\ enabled
     /\ \/ events[u] # "none" /\ documents[u] = 0
        \/ \E h \in Handlers : Restores(handlers[h], u)

JobsExact    == \A h \in Jobs : \A u \in Uris \ handlers[h].behind : JobExact(handlers[h], u)
BehindRaced  == \A h \in Jobs : handlers[h].behind \subseteq raced
CleanSeesAll ==
  \A h \in Jobs : handlers[h].pc \in {"build", "built"} /\ handlers[h].clean =>
    \A g \in Jobs : handlers[g].behind \subseteq handlers[h].behind
DeletedGone  == \A u \in Uris : events[u] = "deleted" => disk[u] = 0

ExactInv ==
  /\ JobsExact /\ BehindRaced /\ CleanSeesAll /\ DeletedGone
  /\ \A u \in Uris \ raced : ExactOrDue(u)

-----------------------------------------------------------------------------
\* Every nonempty set of natural numbers has a least member.
LEMMA LeastMember ==
  ASSUME NEW S, S \subseteq Nat, S # {}
  PROVE  \E x \in S : \A y \in S : x <= y
<1> DEFINE R == OpToRel(<, Nat)
<1>1. \A x, y \in Nat : <<x, y>> \in R <=> x < y
  BY DEF OpToRel
<1> HIDE DEF R
<1>2. IsWellFoundedOn(R, Nat)
  BY NatLessThanWellFounded DEF R
<1>3. \E x \in S : \A y \in S : ~ (<<y, x>> \in R)
  BY <1>2, WFMin
<1>4. PICK x \in S : \A y \in S : ~ (y < x)
  BY <1>1, <1>3
<1>5. \A y \in S : x <= y
  BY <1>4
<1> QED
  BY <1>5

\* Induction over the natural numbers, for a set instead of a predicate.
LEMMA SetInduction ==
  ASSUME NEW T, 0 \in T, \A n \in Nat : n \in T => n + 1 \in T
  PROVE  Nat \subseteq T
<1> SUFFICES ASSUME Nat \ T # {}
             PROVE  FALSE
  OBVIOUS
<1>1. PICK x \in Nat \ T : \A y \in Nat \ T : x <= y
  BY LeastMember
<1>2. x # 0 /\ x - 1 \in Nat /\ ~ (x <= x - 1)
  BY <1>1
<1> QED
  BY <1>1, <1>2

-----------------------------------------------------------------------------
(***************************************************************************)
(* Sequences.                                                              *)
(***************************************************************************)
\* A step of Select.
SelectStep(s, S, f, k) ==
  IF k = 0 THEN <<>>
  ELSE IF s[k] \in S THEN Append(f[k - 1], s[k]) ELSE f[k - 1]

\* The recursion that Select is written with has a solution.
LEMMA SelectExists ==
  ASSUME NEW s, NEW S, NEW n \in Nat
  PROVE  \E f : f = [k \in 0..n |-> SelectStep(s, S, f, k)]
<1> DEFINE Step(f, k) == SelectStep(s, S, f, k)
           Solved(m) == \E f : f = [k \in 0..m |-> Step(f, k)]
           T == {m \in Nat : Solved(m)}
<1>1. Solved(0)
  <2> DEFINE f == [k \in 0..0 |-> <<>>]
  <2>1. f = [k \in 0..0 |-> Step(f, k)]
    BY DEF SelectStep
  <2> QED
    BY <2>1
<1>2. ASSUME NEW m \in Nat, Solved(m)
      PROVE  Solved(m + 1)
  <2>1. PICK f : f = [k \in 0..m |-> Step(f, k)]
    BY <1>2
  <2> DEFINE g == [k \in 0..m + 1 |-> IF k = m + 1 THEN Step(f, k) ELSE f[k]]
  <2>2. ASSUME NEW k \in 0..m + 1
        PROVE  g[k] = Step(g, k)
    <3>1. k # 0 => k - 1 \in 0..m /\ g[k - 1] = f[k - 1]
      OBVIOUS
    <3>2. Step(g, k) = Step(f, k)
      BY <3>1 DEF SelectStep
    <3>3. k # m + 1 => k \in 0..m
      OBVIOUS
    <3>4. k # m + 1 => f[k] = Step(f, k)
      BY <2>1, <3>3
    <3> QED
      BY <3>2, <3>4
  <2>3. g = [k \in 0..m + 1 |-> Step(g, k)]
    BY <2>2
  <2> QED
    BY <2>3
<1> HIDE DEF Solved
<1>3. 0 \in T /\ \A m \in Nat : m \in T => m + 1 \in T
  BY <1>1, <1>2
<1>4. Nat \subseteq T
  BY <1>3, SetInduction
<1>5. Solved(n)
  BY <1>4
<1> QED
  BY <1>5 DEF Solved

\* Select keeps the members in S, each once if it was there once.
LEMMA SelectFacts ==
  ASSUME NEW E, NEW s \in Seq(E), NEW S
  PROVE  /\ Select(s, S) \in Seq(E)
         /\ Range(Select(s, S)) = Range(s) \cap S
         /\ OneUri(s) => OneUri(Select(s, S))
         /\ OpenFirst(s) => OpenFirst(Select(s, S))
<1> DEFINE n == Len(s)
           Step(f, k) == SelectStep(s, S, f, k)
           kept == CHOOSE f : f = [k \in 0..n |-> Step(f, k)]
           First(k) == {s[i] : i \in 1..k}
           Right(k) == /\ kept[k] \in Seq(E)
                       /\ Range(kept[k]) = First(k) \cap S
                       /\ OneUri(s) => OneUri(kept[k])
                       /\ OpenFirst(s) => OpenFirst(kept[k])
           T == {k \in Nat : k <= n => Right(k)}
<1>1. n \in Nat /\ DOMAIN s = 1..n
  OBVIOUS
<1>2. kept = [k \in 0..n |-> Step(kept, k)]
  <2>1. \E f : f = [k \in 0..n |-> Step(f, k)]
    BY <1>1, SelectExists
  <2> QED
    BY <2>1, Zenon
<1>3. Select(s, S) = kept[n]
  BY DEF Select, SelectStep
<1> HIDE DEF kept, n
<1>4. Right(0)
  <2>1. kept[0] = <<>>
    BY <1>1, <1>2 DEF SelectStep
  <2> QED
    BY <2>1 DEF Range, OneUri, OpenFirst
<1>5. ASSUME NEW k \in Nat, k + 1 <= n, Right(k)
      PROVE  Right(k + 1)
  <2>1. k \in 0..n /\ k + 1 \in 1..n /\ k + 1 \in 0..n /\ k + 1 # 0 /\ k + 1 - 1 = k
    BY <1>1, <1>5
  <2>2. kept[k + 1] = IF s[k + 1] \in S THEN Append(kept[k], s[k + 1]) ELSE kept[k]
    <3>1. kept[k + 1] = Step(kept, k + 1)
      BY <1>2, <2>1, Zenon
    <3> QED
      BY <2>1, <3>1 DEF SelectStep
  <2>3. First(k + 1) = First(k) \cup {s[k + 1]}
    <3>1. \A i \in 1..k + 1 : i = k + 1 \/ i \in 1..k
      OBVIOUS
    <3>2. k + 1 \in 1..k + 1 /\ \A i \in 1..k : i \in 1..k + 1
      OBVIOUS
    <3> QED
      BY <3>1, <3>2
  <2>4. CASE s[k + 1] \in S
    <3> DEFINE t == kept[k]
               e == s[k + 1]
    <3>0. e \in E /\ t \in Seq(E) /\ kept[k + 1] = Append(t, e)
      BY <1>1, <1>5, <2>1, <2>2, <2>4
    <3> HIDE DEF t, e
    <3>1. /\ Append(t, e) \in Seq(E) /\ DOMAIN Append(t, e) = 1..Len(t) + 1
          /\ Append(t, e)[Len(t) + 1] = e /\ \A i \in 1..Len(t) : Append(t, e)[i] = t[i]
          /\ DOMAIN t = 1..Len(t) /\ Len(t) \in Nat
      BY <3>0
    <3>2. \A i \in 1..Len(t) + 1 : i = Len(t) + 1 \/ i \in 1..Len(t)
      BY <3>1
    <3>3. Len(t) + 1 \in 1..Len(t) + 1 /\ \A i \in 1..Len(t) : i \in 1..Len(t) + 1
      BY <3>1
    <3>4. Range(Append(t, e)) = Range(t) \cup {e}
      BY <3>1, <3>2, <3>3 DEF Range
    <3>5. OneUri(s) => \A x \in Range(t) : x.uri # e.uri
      <4> SUFFICES ASSUME OneUri(s), NEW x \in First(k)
                   PROVE  x.uri # e.uri
        BY <1>5 DEF t
      <4>1. PICK i \in 1..k : x = s[i]
        OBVIOUS
      <4>2. i \in 1..n /\ i # k + 1
        BY <1>1, <2>1
      <4> QED
        BY <1>1, <2>1, <4>1, <4>2 DEF OneUri, e
    <3>6. OneUri(s) => OneUri(Append(t, e))
      <4> SUFFICES ASSUME OneUri(s), NEW i \in 1..Len(t) + 1, NEW j \in 1..Len(t) + 1,
                          Append(t, e)[i].uri = Append(t, e)[j].uri
                   PROVE  i = j
        BY <3>1 DEF OneUri
      <4>1. OneUri(t) /\ \A l \in 1..Len(t) : t[l] \in Range(t)
        BY <1>5, <3>1 DEF t, Range
      <4> QED
        BY <3>1, <3>2, <3>5, <4>1 DEF OneUri
    <3>7. Range(t) = First(k) \cap S
      BY <1>5 DEF t
    <3>8. OpenFirst(s) => OpenFirst(Append(t, e))
      <4> SUFFICES ASSUME OpenFirst(s), NEW i \in 1..Len(t) + 1, NEW j \in 1..Len(t) + 1,
                          i < j, Append(t, e)[j].open
                   PROVE  Append(t, e)[i].open
        BY <3>1 DEF OpenFirst
      <4>0. OpenFirst(t)
        BY <1>5 DEF t
      <4>1. OpenFirst(t) /\ i \in 1..Len(t) /\ t[i] \in First(k)
        <5>1. i \in 1..Len(t)
          BY <3>1
        <5>2. t[i] \in Range(t)
          BY <3>1, <5>1 DEF Range
        <5> QED
          BY <3>7, <4>0, <5>1, <5>2
      <4>2. CASE j \in 1..Len(t)
        BY <3>1, <4>1, <4>2 DEF OpenFirst
      <4>3. CASE j = Len(t) + 1
        <5>1. PICK l \in 1..k : t[i] = s[l]
          BY <4>1
        <5>2. l \in 1..n /\ l < k + 1
          BY <1>1, <2>1
        <5> QED
          BY <1>1, <2>1, <3>1, <4>1, <4>3, <5>1, <5>2 DEF OpenFirst, e
      <4> QED
        BY <3>2, <4>2, <4>3
    <3> QED
      BY <2>3, <2>4, <3>0, <3>1, <3>4, <3>6, <3>7, <3>8 DEF e
  <2>5. CASE s[k + 1] \notin S
    BY <1>5, <2>2, <2>3, <2>5
  <2> QED
    BY <2>4, <2>5
<1> HIDE DEF Right
<1>6. 0 \in T /\ \A k \in Nat : k \in T => k + 1 \in T
  <2>1. ASSUME NEW k \in Nat, k \in T, k + 1 <= n
        PROVE  Right(k + 1)
    <3>1. k <= n
      BY <1>1, <2>1
    <3> QED
      BY <1>5, <2>1, <3>1
  <2> QED
    BY <1>4, <2>1
<1>7. Nat \subseteq T
  BY <1>6, SetInduction
<1>8. Right(n)
  BY <1>1, <1>7
<1>9. First(n) = Range(s)
  BY <1>1 DEF Range
<1> QED
  BY <1>3, <1>8, <1>9 DEF Right

\* Sorting keeps the entries and puts the open ones first.
LEMMA SortFacts ==
  ASSUME NEW s \in Seq(Entries), OneUri(s)
  PROVE  LET t == sort_open_entries_first(s)
         IN t \in Seq(Entries) /\ Range(t) = Range(s) /\ OneUri(t) /\ OpenFirst(t)
<1> DEFINE O == {e \in Range(s) : e.open}
           a == Select(s, O)
           b == Select(s, Range(s) \ O)
           t == a \o b
<1>1. a \in Seq(Entries) /\ Range(a) = O /\ OneUri(a)
  BY SelectFacts
<1>2. b \in Seq(Entries) /\ Range(b) = Range(s) \ O /\ OneUri(b)
  BY SelectFacts
<1>3. sort_open_entries_first(s) = t
  BY DEF sort_open_entries_first
<1> HIDE DEF a, b
<1>4. /\ t \in Seq(Entries) /\ DOMAIN t = 1..Len(a) + Len(b) /\ Len(a) \in Nat /\ Len(b) \in Nat
      /\ \A i \in 1..Len(a) + Len(b) : t[i] = IF i <= Len(a) THEN a[i] ELSE b[i - Len(a)]
      /\ DOMAIN a = 1..Len(a) /\ DOMAIN b = 1..Len(b)
  BY <1>1, <1>2
<1>5. \A i \in 1..Len(a) : i \in DOMAIN t /\ t[i] = a[i] /\ a[i] \in O
  <2> TAKE i \in 1..Len(a)
  <2>1. i \in 1..Len(a) + Len(b) /\ i <= Len(a) /\ i \in DOMAIN a
    BY <1>4
  <2>2. a[i] \in Range(a)
    BY <2>1 DEF Range
  <2> HIDE DEF t, O
  <2> QED
    BY <1>1, <1>4, <2>1, <2>2
<1>6. \A i \in 1..Len(b) : Len(a) + i \in DOMAIN t /\ t[Len(a) + i] = b[i]
  <2> TAKE i \in 1..Len(b)
  <2> DEFINE j == Len(a) + i
  <2>1. j \in 1..Len(a) + Len(b) /\ ~(j <= Len(a)) /\ j - Len(a) = i
    BY <1>4
  <2> HIDE DEF t, j
  <2>2. j \in DOMAIN t /\ t[j] = b[i]
    BY <1>4, <2>1
  <2> QED
    BY <2>2 DEF j
<1>7. \A i \in DOMAIN t : \/ i \in 1..Len(a) /\ t[i] = a[i] /\ t[i] \in O
                          \/ i - Len(a) \in 1..Len(b) /\ t[i] = b[i - Len(a)] /\ t[i] \in Range(s) \ O
  <2> SUFFICES ASSUME NEW i \in DOMAIN t
               PROVE  \/ i \in 1..Len(a) /\ t[i] = a[i] /\ t[i] \in O
                      \/ i - Len(a) \in 1..Len(b) /\ t[i] = b[i - Len(a)] /\ t[i] \in Range(s) \ O
    OBVIOUS
  <2>1. CASE i <= Len(a)
    BY <1>4, <1>5, <2>1
  <2>2. CASE ~ (i <= Len(a))
    <3>1. i - Len(a) \in 1..Len(b) /\ t[i] = b[i - Len(a)]
      BY <1>4, <2>2
    <3>2. b[i - Len(a)] \in Range(b)
      BY <1>4, <3>1 DEF Range
    <3> QED
      BY <1>2, <3>1, <3>2
  <2> QED
    BY <2>1, <2>2
<1> HIDE DEF t
<1>8. Range(t) = Range(s)
  <2>1. Range(t) \subseteq Range(s)
    BY <1>7 DEF Range
  <2>2. Range(a) \subseteq Range(t)
    BY <1>4, <1>5 DEF Range
  <2>3. Range(b) \subseteq Range(t)
    BY <1>4, <1>6 DEF Range
  <2> QED
    BY <1>1, <1>2, <2>1, <2>2, <2>3
<1>9. \A e, f \in Range(s) : e.uri = f.uri => e = f
  BY DEF OneUri, Range
<1>10. OneUri(t)
  <2> SUFFICES ASSUME NEW i \in DOMAIN t, NEW j \in DOMAIN t, t[i].uri = t[j].uri
               PROVE  i = j
    BY DEF OneUri
  <2>1. t[i] = t[j]
    BY <1>8, <1>9 DEF Range
  <2>2. CASE t[i] \in O
    <3>1. i \in 1..Len(a) /\ j \in 1..Len(a) /\ a[i].uri = a[j].uri
      BY <1>7, <2>1, <2>2
    <3> QED
      BY <1>1, <1>4, <3>1 DEF OneUri
  <2>3. CASE t[i] \notin O
    <3>1. i - Len(a) \in 1..Len(b) /\ j - Len(a) \in 1..Len(b) /\ b[i - Len(a)].uri = b[j - Len(a)].uri
      BY <1>7, <2>1, <2>3
    <3>2. i - Len(a) = j - Len(a)
      BY <1>2, <1>4, <3>1 DEF OneUri
    <3> QED
      BY <1>4, <3>2
  <2> QED
    BY <2>2, <2>3
<1>11. OpenFirst(t)
  <2> SUFFICES ASSUME NEW i \in DOMAIN t, NEW j \in DOMAIN t, i < j, t[j].open
               PROVE  t[i].open
    BY DEF OpenFirst
  <2>1. t[j] \in O
    BY <1>8 DEF Range
  <2>2. j \in 1..Len(a)
    BY <1>7, <2>1
  <2>3. i \in 1..Len(a)
    BY <1>4, <2>2
  <2> QED
    BY <1>5, <2>3
<1> QED
  BY <1>3, <1>4, <1>8, <1>10, <1>11

-----------------------------------------------------------------------------
(***************************************************************************)
(* The index.  Forgetting a file, inserting it and any loop of these keep  *)
(* what an index always is, and change the entries of that file alone.     *)
(***************************************************************************)
\* Forgetting a file leaves the others, in their order, with their paths.
LEMMA RemoveFacts ==
  ASSUME NEW ix, IndexOK(ix), NEW uri \in Uris
  PROVE  LET after == remove_index_entries_for_uri(ix, uri)
         IN /\ IndexOK(after)
            /\ Range(after.entries) = {e \in Range(ix.entries) : e.uri # uri}
<1> DEFINE after == remove_index_entries_for_uri(ix, uri)
           S == {e \in Range(ix.entries) : e.uri # uri}
           kept == Without(ix.entries, uri)
<1>0. ix.entries \in Seq(Entries) /\ OneUri(ix.entries) /\ OpenFirst(ix.entries)
  BY DEF IndexOK
<1>1. kept \in Seq(Entries) /\ OneUri(kept) /\ OpenFirst(kept) /\ Range(kept) = S
  <2>1. kept = Select(ix.entries, S)
    BY DEF Without
  <2>2. /\ Select(ix.entries, S) \in Seq(Entries)
        /\ Range(Select(ix.entries, S)) = Range(ix.entries) \cap S
        /\ OneUri(Select(ix.entries, S)) /\ OpenFirst(Select(ix.entries, S))
    BY <1>0, SelectFacts
  <2> QED
    BY <2>1, <2>2
<1> HIDE DEF kept
<1>2. /\ after.entries = kept /\ after.documents = ix.documents \ {uri}
      /\ after.calls = Range(kept) /\ after.modules = remove_module_path(ix, uri)
  BY DEF remove_index_entries_for_uri, rebuild_call_graph, kept
<1> HIDE DEF after
<1>3. ix.documents \ {uri} = {e.uri : e \in S}
  BY DEF IndexOK
<1>4. Leads(after)
  BY <1>2 DEF IndexOK, Leads, remove_module_path
<1> QED
  BY <1>1, <1>2, <1>3, <1>4 DEF IndexOK, after

\* Inserting a file replaces its entries and its module path's file.
LEMMA InsertFacts ==
  ASSUME NEW ix, IndexOK(ix), NEW e \in Entries
  PROVE  LET after == insert_indexed_document(ix, e)
         IN /\ IndexOK(after)
            /\ Range(after.entries) = {x \in Range(ix.entries) : x.uri # e.uri} \cup {e}
<1> DEFINE after  == insert_indexed_document(ix, e)
           pruned == remove_index_entries_for_uri(ix, e.uri)
           longer == Append(pruned.entries, e)
           sorted == sort_open_entries_first(longer)
<1>1. e.uri \in Uris
  BY DEF Entries
<1>2. IndexOK(pruned) /\ Range(pruned.entries) = {x \in Range(ix.entries) : x.uri # e.uri}
  BY <1>1, RemoveFacts
<1>3. /\ after.entries = sorted /\ after.documents = pruned.documents \cup {e.uri}
      /\ after.calls = Range(sorted) /\ after.modules = record_module_path(pruned, e.uri)
  BY DEF insert_indexed_document, rebuild_call_graph
<1> HIDE DEF after, pruned
<1>4. longer \in Seq(Entries) /\ OneUri(longer) /\ Range(longer) = Range(pruned.entries) \cup {e}
  <2> DEFINE t == pruned.entries
  <2>0. t \in Seq(Entries) /\ OneUri(t)
    BY <1>2 DEF IndexOK
  <2>1. \A x \in Range(t) : x.uri # e.uri
    BY <1>2
  <2> HIDE DEF t
  <2>2. /\ Append(t, e) \in Seq(Entries) /\ DOMAIN Append(t, e) = 1..Len(t) + 1
        /\ Append(t, e)[Len(t) + 1] = e /\ \A i \in 1..Len(t) : Append(t, e)[i] = t[i]
        /\ DOMAIN t = 1..Len(t) /\ Len(t) \in Nat
    BY <2>0
  <2>3. \A i \in 1..Len(t) + 1 : i = Len(t) + 1 \/ i \in 1..Len(t)
    BY <2>2
  <2>4. Len(t) + 1 \in 1..Len(t) + 1 /\ \A i \in 1..Len(t) : i \in 1..Len(t) + 1 /\ t[i] \in Range(t)
    BY <2>2 DEF Range
  <2>5. Range(Append(t, e)) = Range(t) \cup {e}
    BY <2>2, <2>3, <2>4 DEF Range
  <2>6. OneUri(Append(t, e))
    BY <2>0, <2>1, <2>2, <2>3, <2>4 DEF OneUri
  <2> QED
    BY <2>2, <2>5, <2>6 DEF t
<1> HIDE DEF longer
<1>5. sorted \in Seq(Entries) /\ Range(sorted) = Range(longer) /\ OneUri(sorted) /\ OpenFirst(sorted)
  BY <1>4, SortFacts
<1> HIDE DEF sorted
<1>6. after.documents = {x.uri : x \in Range(sorted)}
  BY <1>2, <1>3, <1>4, <1>5 DEF IndexOK
<1>7. Leads(after)
  BY <1>2, <1>3 DEF IndexOK, Leads, record_module_path
<1> QED
  BY <1>2, <1>3, <1>4, <1>5, <1>6, <1>7 DEF IndexOK, after

\* An update of a file makes its entries those of the text found.
LEMMA UpdateFacts ==
  ASSUME NEW ix, IndexOK(ix), NEW uri \in Uris, NEW text \in Nat, NEW open \in BOOLEAN
  PROVE  LET after == ApplyUpdate(ix, uri, text, open)
         IN /\ IndexOK(after)
            /\ \A v \in Uris : Of(after, v) = IF v = uri THEN Held(uri, text, open) ELSE Of(ix, v)
<1>1. CASE text = 0
  BY <1>1, RemoveFacts DEF ApplyUpdate, Of, Held
<1>2. CASE text # 0
  <2> DEFINE e == Entry(uri, text, open)
  <2>1. e \in Entries /\ e.uri = uri
    BY <1>2 DEF Entry, Entries
  <2>2. ApplyUpdate(ix, uri, text, open) = insert_indexed_document(ix, e) /\ Held(uri, text, open) = {e}
    BY <1>2 DEF ApplyUpdate, Held
  <2> HIDE DEF e
  <2>3. LET after == insert_indexed_document(ix, e)
        IN /\ IndexOK(after)
           /\ Range(after.entries) = {x \in Range(ix.entries) : x.uri # e.uri} \cup {e}
    BY <2>1, InsertFacts
  <2> QED
    BY <2>1, <2>2, <2>3 DEF Of
<1> QED
  BY <1>1, <1>2

\* The empty index.
LEMMA EmptyFacts == IndexOK(EmptyIndex) /\ \A u : Of(EmptyIndex, u) = {}
<1>1. Range(EmptyIndex.entries) = {} /\ EmptyIndex.entries = <<>>
  BY DEF EmptyIndex, Range
<1>2. EmptyIndex.documents = {} /\ EmptyIndex.calls = {} /\ DOMAIN EmptyIndex.modules = {}
  BY DEF EmptyIndex
<1> QED
  BY <1>1, <1>2 DEF IndexOK, OneUri, OpenFirst, Leads, Of

(***************************************************************************)
(* The loop over the files.                                                *)
(***************************************************************************)
\* A step of ApplyAll.
ApplyStep(ix, updates, open, order, f, k) ==
  IF k = 0 THEN ix
  ELSE IF order[k] \notin DOMAIN updates THEN f[k - 1]
  ELSE ApplyUpdate(f[k - 1], order[k], updates[order[k]], open)

\* The recursion that ApplyAll is written with has a solution.
LEMMA ApplyExists ==
  ASSUME NEW ix, NEW updates, NEW open, NEW order, NEW n \in Nat
  PROVE  \E f : f = [k \in 0..n |-> ApplyStep(ix, updates, open, order, f, k)]
<1> DEFINE Step(f, k) == ApplyStep(ix, updates, open, order, f, k)
           Solved(m) == \E f : f = [k \in 0..m |-> Step(f, k)]
           T == {m \in Nat : Solved(m)}
<1>1. Solved(0)
  <2> DEFINE f == [k \in 0..0 |-> ix]
  <2>1. f = [k \in 0..0 |-> Step(f, k)]
    BY DEF ApplyStep
  <2> QED
    BY <2>1
<1>2. ASSUME NEW m \in Nat, Solved(m)
      PROVE  Solved(m + 1)
  <2>1. PICK f : f = [k \in 0..m |-> Step(f, k)]
    BY <1>2
  <2> DEFINE g == [k \in 0..m + 1 |-> IF k = m + 1 THEN Step(f, k) ELSE f[k]]
  <2>2. ASSUME NEW k \in 0..m + 1
        PROVE  g[k] = Step(g, k)
    <3>1. k # 0 => k - 1 \in 0..m /\ g[k - 1] = f[k - 1]
      OBVIOUS
    <3>2. Step(g, k) = Step(f, k)
      BY <3>1 DEF ApplyStep
    <3>3. k # m + 1 => k \in 0..m
      OBVIOUS
    <3>4. k # m + 1 => f[k] = Step(f, k)
      BY <2>1, <3>3
    <3> QED
      BY <3>2, <3>4
  <2>3. g = [k \in 0..m + 1 |-> Step(g, k)]
    BY <2>2
  <2> QED
    BY <2>3
<1> HIDE DEF Solved
<1>3. 0 \in T /\ \A m \in Nat : m \in T => m + 1 \in T
  BY <1>1, <1>2
<1>4. Nat \subseteq T
  BY <1>3, SetInduction
<1>5. Solved(n)
  BY <1>4
<1> QED
  BY <1>5 DEF Solved

\* An order names every file once.
LEMMA OrderFacts ==
  ASSUME NEW order \in Orders
  PROVE  /\ order \in Seq(Uris) /\ Range(order) = Uris
         /\ \A i, j \in DOMAIN order : order[i] = order[j] => i = j
<1> DEFINE n == Cardinality(Uris)
<1>1. n \in Nat /\ IsFiniteSet(Uris)
  BY IndexingAssumption, FS_CardinalityType
<1>2. order \in [1..n -> Uris] /\ IsInjective(order)
  BY DEF Orders
<1> HIDE DEF n
<1>3. order \in Seq(Uris)
  BY <1>1, <1>2, SeqDef
<1>4. \A i, j \in DOMAIN order : order[i] = order[j] => i = j
  BY <1>2 DEF IsInjective
<1>5. Range(order) = Uris
  <2>1. IsFiniteSet(1..n) /\ Cardinality(1..n) = n
    <3>1. 0 \in Int /\ 1 \in Int /\ n \in Int
      BY <1>1
    <3> QED
      BY <1>1, <3>1, FS_Interval
  <2>2. order \in Injection(1..n, Uris)
    BY <1>2, <1>4 DEF Injection
  <2>3. order \in Surjection(1..n, Uris)
    BY <1>1, <2>1, <2>2, FS_Injection DEF n
  <2> QED
    BY <1>2, <2>3 DEF Surjection, Range
<1> QED
  BY <1>3, <1>4, <1>5

\* The loop gives every file it has an update for the entries of that update.
LEMMA ApplyFacts ==
  ASSUME NEW ix, IndexOK(ix), NEW updates, DOMAIN updates \subseteq Uris,
         \A u \in DOMAIN updates : updates[u] \in Nat,
         NEW open \in BOOLEAN, NEW order \in Orders
  PROVE  LET after == ApplyAll(ix, updates, open, order)
         IN /\ IndexOK(after)
            /\ \A v \in Uris : Of(after, v) =
                 IF v \in DOMAIN updates THEN Held(v, updates[v], open) ELSE Of(ix, v)
<1> DEFINE n == Len(order)
           Step(f, k) == ApplyStep(ix, updates, open, order, f, k)
           f0 == CHOOSE f : f = [k \in 0..n |-> Step(f, k)]
           First(k) == {order[i] : i \in 1..k}
           Right(k) == /\ IndexOK(f0[k])
                       /\ \A v \in Uris : Of(f0[k], v) =
                            IF v \in DOMAIN updates \cap First(k) THEN Held(v, updates[v], open)
                            ELSE Of(ix, v)
           T == {k \in Nat : k <= n => Right(k)}
<1>0. order \in Seq(Uris) /\ Range(order) = Uris
  BY OrderFacts
<1>1. n \in Nat /\ DOMAIN order = 1..n
  BY <1>0
<1>2. f0 = [k \in 0..n |-> Step(f0, k)]
  <2>1. \E f : f = [k \in 0..n |-> Step(f, k)]
    BY <1>1, ApplyExists
  <2> QED
    BY <2>1, Zenon
<1>3. ApplyAll(ix, updates, open, order) = f0[n]
  BY DEF ApplyAll, ApplyStep
<1> HIDE DEF f0, n
<1>4. Right(0)
  <2>1. f0[0] = ix
    BY <1>1, <1>2 DEF ApplyStep
  <2> QED
    BY <2>1
<1>5. ASSUME NEW k \in Nat, k + 1 <= n, Right(k)
      PROVE  Right(k + 1)
  <2>1. k + 1 \in 1..n /\ k + 1 \in 0..n /\ k + 1 # 0 /\ k + 1 - 1 = k
    BY <1>1, <1>5
  <2> DEFINE u == order[k + 1]
  <2>2. f0[k + 1] = IF u \notin DOMAIN updates THEN f0[k] ELSE ApplyUpdate(f0[k], u, updates[u], open)
    <3>1. f0[k + 1] = Step(f0, k + 1)
      BY <1>2, <2>1, Zenon
    <3> QED
      BY <2>1, <3>1 DEF ApplyStep
  <2>3. First(k + 1) = First(k) \cup {u}
    <3>1. \A i \in 1..k + 1 : i = k + 1 \/ i \in 1..k
      OBVIOUS
    <3>2. k + 1 \in 1..k + 1 /\ \A i \in 1..k : i \in 1..k + 1
      OBVIOUS
    <3> QED
      BY <3>1, <3>2
  <2>4. u \in Uris
    BY <1>0, <1>1, <2>1 DEF Range
  <2> HIDE DEF u
  <2>5. CASE u \notin DOMAIN updates
    BY <1>5, <2>2, <2>3, <2>5
  <2>6. CASE u \in DOMAIN updates
    <3>1. LET after == ApplyUpdate(f0[k], u, updates[u], open)
          IN /\ IndexOK(after)
             /\ \A v \in Uris : Of(after, v) = IF v = u THEN Held(u, updates[u], open) ELSE Of(f0[k], v)
      BY <1>5, <2>4, <2>6, UpdateFacts
    <3> QED
      BY <1>5, <2>2, <2>3, <2>6, <3>1
  <2> QED
    BY <2>5, <2>6
<1> HIDE DEF Right
<1>6. 0 \in T /\ \A k \in Nat : k \in T => k + 1 \in T
  <2>1. ASSUME NEW k \in Nat, k \in T, k + 1 <= n
        PROVE  Right(k + 1)
    <3>1. k <= n
      BY <1>1, <2>1
    <3> QED
      BY <1>5, <2>1, <3>1
  <2> QED
    BY <1>4, <2>1
<1>7. Nat \subseteq T
  BY <1>6, SetInduction
<1>8. Right(n)
  BY <1>1, <1>7
<1>9. First(n) = Uris
  BY <1>0, <1>1 DEF Range
<1> QED
  BY <1>3, <1>8, <1>9 DEF Right

\* A build holds of a file its document if it is open, its text if it is there.
LEMMA BuildFacts ==
  ASSUME NEW d \in [Uris -> Nat], NEW o \in [Uris -> Nat], NEW order \in Orders
  PROVE  LET after == build(d, o, order)
         IN /\ IndexOK(after)
            /\ \A v \in Uris : Of(after, v) = IF o[v] # 0 THEN Held(v, o[v], TRUE) ELSE Held(v, d[v], FALSE)
<1>1. ASSUME NEW t \in [Uris -> Nat]
      PROVE  /\ DOMAIN Present(t) = {v \in Uris : t[v] # 0}
             /\ \A v \in DOMAIN Present(t) : Present(t)[v] = t[v] /\ t[v] \in Nat
  BY DEF Present
<1> DEFINE first == ApplyAll(EmptyIndex, Present(d), FALSE, order)
<1>2. IndexOK(first) /\ \A v \in Uris : Of(first, v) = Held(v, d[v], FALSE)
  <2>1. /\ IndexOK(first)
        /\ \A v \in Uris : Of(first, v) = IF v \in DOMAIN Present(d) THEN Held(v, Present(d)[v], FALSE)
                                          ELSE Of(EmptyIndex, v)
    <3> DEFINE p == Present(d)
               b == FALSE
    <3>0. b \in BOOLEAN
      OBVIOUS
    <3>1. DOMAIN p \subseteq Uris /\ \A u \in DOMAIN p : p[u] \in Nat
      BY <1>1
    <3> HIDE DEF p, b
    <3>2. LET then == ApplyAll(EmptyIndex, p, b, order)
          IN /\ IndexOK(then)
             /\ \A v \in Uris : Of(then, v) = IF v \in DOMAIN p THEN Held(v, p[v], b)
                                             ELSE Of(EmptyIndex, v)
      BY <3>0, <3>1, EmptyFacts, ApplyFacts
    <3> QED
      BY <3>2 DEF p, b
  <2> QED
    BY <1>1, <2>1, EmptyFacts DEF Held
<1> HIDE DEF first
<1> DEFINE after == ApplyAll(first, Present(o), TRUE, order)
<1>3. /\ IndexOK(after)
      /\ \A v \in Uris : Of(after, v) = IF v \in DOMAIN Present(o) THEN Held(v, Present(o)[v], TRUE)
                                        ELSE Of(first, v)
  <2> DEFINE p == Present(o)
             b == TRUE
  <2>0. b \in BOOLEAN
    OBVIOUS
  <2>1. DOMAIN p \subseteq Uris /\ \A u \in DOMAIN p : p[u] \in Nat
    BY <1>1
  <2> HIDE DEF p, b
  <2>2. LET then == ApplyAll(first, p, b, order)
        IN /\ IndexOK(then)
           /\ \A v \in Uris : Of(then, v) = IF v \in DOMAIN p THEN Held(v, p[v], b)
                                           ELSE Of(first, v)
    BY <1>2, <2>0, <2>1, ApplyFacts
  <2> QED
    BY <2>2 DEF p, b
<1>4. after = build(d, o, order)
  BY DEF build, first
<1> HIDE DEF after
<1> QED
  BY <1>1, <1>2, <1>3, <1>4

-----------------------------------------------------------------------------
(***************************************************************************)
(* Types, and with them what the index always is.                          *)
(***************************************************************************)
\* What a future's program counter tells about it.
LEMMA HandlerKinds ==
  ASSUME NEW j, HandlerOK(j)
  PROVE  /\ j.pc \in {"free", "build", "built", "scan", "scanned", "hot"}
         /\ j.pc = "free" <=> j = Free
         /\ j.pc = "build" => /\ j.behind \subseteq Uris /\ j.clean \in BOOLEAN
                              /\ j.roots \subseteq Folders /\ j.open \in [Uris -> Nat]
         /\ j.pc = "built" => /\ j.behind \subseteq Uris /\ j.clean \in BOOLEAN
                              /\ IndexOK(j.index)
         /\ j.pc = "scan" => j.behind \subseteq Uris /\ DOMAIN j.changes \subseteq Uris
         /\ j.pc = "scanned" => /\ j.behind \subseteq Uris /\ DOMAIN j.updates \subseteq Uris
                                /\ \A u \in DOMAIN j.updates : j.updates[u] \in Nat
         /\ j.pc = "hot" => j.uri \in Uris /\ j.text \in Nat \ {0}
BY DEF HandlerOK, Free

\* The same job, with the files of U behind it too.
Carries(j, k, U) ==
  /\ k.pc = j.pc /\ k.behind = j.behind \cup U
  /\ j.pc = "build"   => k.roots = j.roots /\ k.open = j.open /\ k.clean = j.clean
  /\ j.pc = "built"   => k.index = j.index /\ k.clean = j.clean
  /\ j.pc = "scan"    => k.roots = j.roots /\ k.changes = j.changes
  /\ j.pc = "scanned" => k.updates = j.updates

\* A job that is touched is carried along.
LEMMA TouchOne ==
  ASSUME NEW j, HandlerOK(j), j.pc \in {"build", "built", "scan", "scanned"},
         NEW U \in SUBSET Uris
  PROVE  LET k == [j EXCEPT !.behind = @ \cup U]
         IN HandlerOK(k) /\ Carries(j, k, U)
<1> DEFINE k == [j EXCEPT !.behind = @ \cup U]
<1>1. CASE j.pc = "build"
  <2> DEFINE R == [pc : {"build"}, roots : SUBSET Folders, open : [Uris -> Nat],
                   clean : BOOLEAN, behind : SUBSET Uris]
  <2>1. j \in R
    BY <1>1 DEF HandlerOK, Free
  <2>2. /\ k \in R /\ k.pc = j.pc /\ k.behind = j.behind \cup U
        /\ k.roots = j.roots /\ k.open = j.open /\ k.clean = j.clean
    BY <2>1
  <2> HIDE DEF k
  <2> QED
    BY <1>1, <2>2 DEF HandlerOK, Carries, k
<1>2. CASE j.pc = "built"
  <2>1. /\ j = [pc |-> "built", index |-> j.index, clean |-> j.clean, behind |-> j.behind]
        /\ j.behind \subseteq Uris /\ j.clean \in BOOLEAN /\ IndexOK(j.index)
    BY <1>2 DEF HandlerOK, Free
  <2>2. k = [pc |-> "built", index |-> j.index, clean |-> j.clean, behind |-> j.behind \cup U]
    BY <2>1
  <2> HIDE DEF k
  <2> QED
    BY <1>2, <2>1, <2>2 DEF HandlerOK, Carries, k
<1>3. CASE j.pc = "scan"
  <2>1. /\ j = [pc |-> "scan", roots |-> j.roots, behind |-> j.behind, changes |-> j.changes]
        /\ j.behind \subseteq Uris /\ DOMAIN j.changes \subseteq Uris
    BY <1>3 DEF HandlerOK, Free
  <2>2. k = [pc |-> "scan", roots |-> j.roots, behind |-> j.behind \cup U, changes |-> j.changes]
    BY <2>1
  <2> HIDE DEF k
  <2> QED
    BY <1>3, <2>1, <2>2 DEF HandlerOK, Carries, k
<1>4. CASE j.pc = "scanned"
  <2>1. /\ j = [pc |-> "scanned", behind |-> j.behind, updates |-> j.updates]
        /\ j.behind \subseteq Uris /\ DOMAIN j.updates \subseteq Uris
        /\ \A u \in DOMAIN j.updates : j.updates[u] \in Nat
    BY <1>4 DEF HandlerOK, Free
  <2>2. k = [pc |-> "scanned", behind |-> j.behind \cup U, updates |-> j.updates]
    BY <2>1
  <2> HIDE DEF k
  <2> QED
    BY <1>4, <2>1, <2>2 DEF HandlerOK, Carries, k
<1> QED
  BY <1>1, <1>2, <1>3, <1>4

\* Touching the jobs in flight leaves the other futures alone.
LEMMA TouchFacts ==
  ASSUME TypeInv, NEW U \in SUBSET Uris
  PROVE  LET T == Touched(handlers, U)
         IN /\ DOMAIN T = Handlers
            /\ \A h \in Handlers : HandlerOK(T[h])
            /\ \A h \in Handlers \ Jobs : T[h] = handlers[h]
            /\ \A h \in Jobs : Carries(handlers[h], T[h], U)
<1> DEFINE T == Touched(handlers, U)
<1>1. DOMAIN T = Handlers /\ \A h \in Handlers \ Jobs : T[h] = handlers[h]
  BY DEF Touched
<1>2. ASSUME NEW h \in Jobs
      PROVE  HandlerOK(T[h]) /\ Carries(handlers[h], T[h], U)
  <2>1. /\ h \in Handlers /\ HandlerOK(handlers[h])
        /\ handlers[h].pc \in {"build", "built", "scan", "scanned"}
    BY DEF Jobs, TypeInv
  <2>2. T[h] = [handlers[h] EXCEPT !.behind = @ \cup U]
    BY <2>1 DEF Touched
  <2> HIDE DEF T
  <2> QED
    BY <2>1, <2>2, TouchOne
<1> HIDE DEF T
<1>3. \A h \in Handlers : HandlerOK(T[h])
  BY <1>1, <1>2 DEF TypeInv
<1> QED
  BY <1>1, <1>2, <1>3 DEF T

\* The futures after a step that frees one of them, or puts one in its place.
LEMMA PutHandler ==
  ASSUME NEW T, DOMAIN T = Handlers, \A g \in Handlers : HandlerOK(T[g]),
         NEW h \in Handlers, NEW j, HandlerOK(j)
  PROVE  LET S == [T EXCEPT ![h] = j]
         IN DOMAIN S = Handlers /\ \A g \in Handlers : HandlerOK(S[g])
OBVIOUS

\* Init ensures the types.
LEMMA TypeInit == Init => TypeInv
<1> SUFFICES ASSUME Init
             PROVE  TypeInv
  OBVIOUS
<1>1. IndexOK(index)
  BY EmptyFacts DEF Init
<1>2. PICK h \in Handlers : handlers = [g \in Handlers |->
        IF g = h /\ enabled
        THEN [pc |-> "build", roots |-> Folders, open |-> Absent, clean |-> TRUE, behind |-> {}]
        ELSE Free]
  BY DEF Init
<1>3. Absent \in [Uris -> Nat]
  BY DEF Absent
<1>4. \A g \in Handlers : HandlerOK(handlers[g])
  <2>1. HandlerOK(Free)
    BY DEF HandlerOK
  <2>2. HandlerOK([pc |-> "build", roots |-> Folders, open |-> Absent, clean |-> TRUE, behind |-> {}])
    BY <1>3 DEF HandlerOK
  <2> QED
    BY <1>2, <2>1, <2>2
<1>5. /\ disk \in [Uris -> Nat] /\ documents \in [Uris -> Nat]
      /\ events \in [Uris -> {"none", "changed", "deleted"}]
  BY <1>3 DEF Init, NoEvent
<1>6. texts \in Nat /\ enabled \in BOOLEAN /\ roots \subseteq Folders /\ raced \subseteq Uris
  BY DEF Init
<1>7. DOMAIN handlers = Handlers
  BY <1>2
<1> QED
  BY <1>1, <1>4, <1>5, <1>6, <1>7 DEF TypeInv

\* A refresh starts a build or clears the index.
LEMMA RefreshTypes ==
  ASSUME TypeInv, NEW h \in Handlers, NEW en \in BOOLEAN, NEW rs \in SUBSET Folders,
         NEW docs \in [Uris -> Nat], NEW U \in SUBSET Uris,
         refresh_workspace_index(h, en, rs, docs, U)
  PROVE  /\ IndexOK(index)' /\ raced' \subseteq Uris
         /\ DOMAIN handlers' = Handlers /\ \A g \in Handlers : HandlerOK(handlers'[g])
<1>1. raced' \subseteq Uris
  BY DEF refresh_workspace_index, RacedBy, TypeInv
<1> DEFINE T == Touched(handlers, U)
<1>2. DOMAIN T = Handlers /\ \A g \in Handlers : HandlerOK(T[g])
  BY TouchFacts
<1> HIDE DEF T
<1>3. CASE en
  <2> DEFINE j == [pc |-> "build", roots |-> rs, open |-> docs, clean |-> Jobs = {}, behind |-> {}]
  <2>1. handlers' = [T EXCEPT ![h] = j] /\ index' = index
    BY <1>3 DEF refresh_workspace_index, StartBuild, T
  <2>2. HandlerOK(j)
    BY DEF HandlerOK
  <2> HIDE DEF j
  <2> QED
    BY <1>1, <1>2, <2>1, <2>2 DEF TypeInv
<1>4. CASE ~en
  <2>1. handlers' = T /\ index' = EmptyIndex
    BY <1>4 DEF refresh_workspace_index, ClearIndex, T
  <2> QED
    BY <1>1, <1>2, <2>1, EmptyFacts
<1> QED
  BY <1>3, <1>4

\* All futures are of their types.
HandlersOK(hs) == DOMAIN hs = Handlers /\ \A h \in Handlers : HandlerOK(hs[h])

\* A future that ends.
LEMMA FreeTypes ==
  ASSUME NEW T, HandlersOK(T), NEW h \in Handlers
  PROVE  HandlersOK([T EXCEPT ![h] = Free])
<1>1. HandlerOK(Free)
  BY DEF HandlerOK
<1> HIDE DEF HandlerOK
<1> QED
  BY <1>1, PutHandler DEF HandlersOK

\* Every step keeps the types.
LEMMA TypeStep == TypeInv /\ [Next]_vars => TypeInv'
<1> SUFFICES ASSUME TypeInv, [Next]_vars
             PROVE  TypeInv'
  OBVIOUS
<1>0. HandlersOK(handlers) /\ IndexOK(index)
  BY DEF TypeInv, HandlersOK
<1>1. ASSUME NEW h \in Handlers, Build(h)
      PROVE  TypeInv'
  <2> DEFINE j == handlers[h]
  <2>1. j.pc = "build" /\ j.behind \in SUBSET Uris /\ j.clean \in BOOLEAN /\ j.open \in [Uris -> Nat]
    BY <1>0, <1>1, HandlerKinds DEF HandlersOK, Build
  <2>2. BelowRoots(j.roots) \in [Uris -> Nat]
    BY DEF TypeInv, BelowRoots
  <2>3. PICK order \in Orders : handlers' = [handlers EXCEPT ![h] =
          [pc |-> "built", index |-> build(BelowRoots(j.roots), j.open, order),
           clean |-> j.clean, behind |-> j.behind]]
    BY <1>0, <1>1 DEF Build, HandlersOK
  <2> DEFINE ix == build(BelowRoots(j.roots), j.open, order)
             k  == [pc |-> "built", index |-> ix, clean |-> j.clean, behind |-> j.behind]
  <2>4. IndexOK(ix)
    BY <2>1, <2>2, BuildFacts
  <2> HIDE DEF ix, j
  <2>5. HandlerOK(k)
    BY <2>1, <2>4 DEF HandlerOK
  <2>6. handlers' = [handlers EXCEPT ![h] = k]
    BY <2>3 DEF ix
  <2> HIDE DEF k
  <2>7. HandlersOK(handlers')
    BY <1>0, <2>5, <2>6, PutHandler DEF HandlersOK
  <2> QED
    BY <1>1, <2>7 DEF Build, bounds, TypeInv, HandlersOK
<1>2. ASSUME NEW h \in Handlers, StoreIndex(h)
      PROVE  TypeInv'
  <2>1. IndexOK(index)' /\ raced' \subseteq Uris
    BY <1>0, <1>2, HandlerKinds DEF HandlersOK, StoreIndex, TypeInv
  <2>2. HandlersOK(handlers')
    BY <1>0, <1>2, FreeTypes DEF StoreIndex
  <2> QED
    BY <1>2, <2>1, <2>2 DEF StoreIndex, bounds, TypeInv, HandlersOK
<1>3. ASSUME NEW h \in Handlers, BuildPanics(h)
      PROVE  TypeInv'
  <2>1. IndexOK(index)' /\ raced' \subseteq Uris
    BY <1>3, EmptyFacts DEF BuildPanics
  <2>2. HandlersOK(handlers')
    BY <1>0, <1>3, FreeTypes DEF BuildPanics
  <2> QED
    BY <1>3, <2>1, <2>2 DEF BuildPanics, bounds, TypeInv, HandlersOK
<1>4. ASSUME NEW h \in Handlers, Scan(h)
      PROVE  TypeInv'
  <2> DEFINE j == handlers[h]
             ups == [u \in DOMAIN j.changes |-> Update(j, u)]
             k == [pc |-> "scanned", behind |-> j.behind, updates |-> ups]
  <2>1. j.pc = "scan" /\ j.behind \subseteq Uris /\ DOMAIN j.changes \subseteq Uris
    BY <1>0, <1>4, HandlerKinds DEF HandlersOK, Scan
  <2>2. handlers' = [handlers EXCEPT ![h] = k]
    BY <1>0, <1>4 DEF Scan, HandlersOK
  <2> HIDE DEF j
  <2>3. DOMAIN ups \subseteq Uris /\ \A u \in DOMAIN ups : ups[u] \in Nat
    BY <2>1 DEF Update, TypeInv
  <2> HIDE DEF ups
  <2>4. HandlerOK(k)
    BY <2>1, <2>3 DEF HandlerOK
  <2> HIDE DEF k
  <2>5. HandlersOK(handlers')
    BY <1>0, <2>2, <2>4, PutHandler DEF HandlersOK
  <2> QED
    BY <1>4, <2>5 DEF Scan, bounds, TypeInv, HandlersOK
<1>5. ASSUME NEW h \in Handlers, ApplyUpdates(h)
      PROVE  TypeInv'
  <2> DEFINE ups == handlers[h].updates
  <2>1. DOMAIN ups \subseteq Uris /\ \A u \in DOMAIN ups : ups[u] \in Nat
    BY <1>0, <1>5, HandlerKinds DEF HandlersOK, ApplyUpdates
  <2>2. PICK order \in Orders : index' = ApplyAll(index, ups, FALSE, order)
    BY <1>5 DEF ApplyUpdates
  <2> HIDE DEF ups
  <2> DEFINE b == FALSE
  <2>3. b \in BOOLEAN
    OBVIOUS
  <2> HIDE DEF b
  <2>4. IndexOK(ApplyAll(index, ups, b, order))
    BY <1>0, <2>1, <2>3, ApplyFacts
  <2>5. IndexOK(index)'
    BY <2>2, <2>4 DEF b
  <2>6. HandlersOK(handlers')
    BY <1>0, <1>5, FreeTypes DEF ApplyUpdates
  <2> QED
    BY <1>5, <2>5, <2>6 DEF ApplyUpdates, bounds, TypeInv, HandlersOK
<1>6. ASSUME NEW h \in Handlers, ScanPanics(h)
      PROVE  TypeInv'
  <2>1. raced' \subseteq Uris
    BY <1>0, <1>6, HandlerKinds DEF HandlersOK, ScanPanics, TypeInv
  <2>2. HandlersOK(handlers')
    BY <1>0, <1>6, FreeTypes DEF ScanPanics
  <2> QED
    BY <1>6, <2>1, <2>2 DEF ScanPanics, bounds, TypeInv, HandlersOK
<1>7. ASSUME NEW h \in Handlers, HotUpdate(h)
      PROVE  TypeInv'
  <2> DEFINE u    == handlers[h].uri
             text == handlers[h].text
             T    == Touched(handlers, {u})
  <2>1. u \in Uris /\ text \in Nat \ {0}
    BY <1>0, <1>7, HandlerKinds DEF HandlersOK, HotUpdate
  <2>2. HandlersOK(T)
    BY <2>1, TouchFacts DEF HandlersOK
  <2>3. CASE Stale(u, text)
    <3>1. handlers' = [handlers EXCEPT ![h] = Free] /\ UNCHANGED <<documents, index, raced>>
      BY <1>7, <2>3 DEF HotUpdate
    <3>2. HandlersOK(handlers')
      BY <1>0, <3>1, FreeTypes
    <3> QED
      BY <1>7, <3>1, <3>2 DEF HotUpdate, bounds, TypeInv, HandlersOK
  <2>4. CASE ~ Stale(u, text)
    <3>1. /\ handlers' = [T EXCEPT ![h] = Free]
          /\ documents' = [documents EXCEPT ![u] = text]
          /\ index' = IF enabled THEN insert_indexed_document(index, Entry(u, text, TRUE)) ELSE index
          /\ raced' \subseteq raced \cup {u}
      BY <1>7, <2>4 DEF HotUpdate, RacedBy
    <3> HIDE DEF T, u, text
    <3>2. HandlersOK(handlers')
      BY <2>2, <3>1, FreeTypes
    <3>3. IndexOK(index)'
      <4>1. Entry(u, text, TRUE) \in Entries
        BY <2>1 DEF Entry, Entries
      <4>2. IndexOK(insert_indexed_document(index, Entry(u, text, TRUE)))
        BY <1>0, <4>1, InsertFacts
      <4> QED
        BY <1>0, <3>1, <4>2
    <3>4. documents' \in [Uris -> Nat] /\ raced' \subseteq Uris
      BY <2>1, <3>1 DEF TypeInv
    <3>5. UNCHANGED <<disk, events, bounds, enabled, roots>>
      BY <1>7 DEF HotUpdate
    <3> QED
      BY <3>2, <3>3, <3>4, <3>5 DEF bounds, TypeInv, HandlersOK
  <2> QED
    BY <2>3, <2>4
<1>8. ASSUME NEW h \in Handlers, HotPanics(h)
      PROVE  TypeInv'
  <2>1. raced' \subseteq Uris
    BY <1>0, <1>8, HandlerKinds DEF HandlersOK, HotPanics, TypeInv
  <2>2. HandlersOK(handlers')
    BY <1>0, <1>8, FreeTypes DEF HotPanics
  <2> QED
    BY <1>8, <2>1, <2>2 DEF HotPanics, bounds, TypeInv, HandlersOK
<1>9. ASSUME NEW h \in Handlers, ManifestChanged(h)
      PROVE  TypeInv'
  <2>1. refresh_workspace_index(h, enabled, roots, documents, {})
    BY <1>9 DEF ManifestChanged
  <2>2. enabled \in BOOLEAN /\ roots \in SUBSET Folders /\ documents \in [Uris -> Nat]
    BY DEF TypeInv
  <2>3. /\ IndexOK(index)' /\ raced' \subseteq Uris
        /\ DOMAIN handlers' = Handlers /\ \A g \in Handlers : HandlerOK(handlers'[g])
    BY <2>1, <2>2, RefreshTypes
  <2> QED
    BY <1>9, <2>3 DEF ManifestChanged, TypeInv
<1>10. ASSUME NEW h \in Handlers, DidChangeWatchedFiles(h)
       PROVE  TypeInv'
  <2>1. events' \in [Uris -> {"none", "changed", "deleted"}]
    BY <1>10 DEF DidChangeWatchedFiles, NoEvent
  <2>2. CASE enabled
    <3> DEFINE j == [pc |-> "scan", roots |-> roots, behind |-> {},
                     changes |-> [u \in {v \in Uris : ClosedFiles(v)} |-> events[u]]]
    <3>1. handlers' = [handlers EXCEPT ![h] = j] /\ index' = index
      BY <1>10, <2>2 DEF DidChangeWatchedFiles
    <3>2. HandlerOK(j)
      BY DEF HandlerOK
    <3> HIDE DEF j
    <3>3. HandlersOK(handlers')
      BY <1>0, <3>1, <3>2, PutHandler DEF HandlersOK
    <3> QED
      BY <1>10, <2>1, <3>1, <3>3 DEF DidChangeWatchedFiles, bounds, TypeInv, HandlersOK
  <2>3. CASE ~enabled
    <3>1. handlers' = Touched(handlers, {}) /\ index' = EmptyIndex
      BY <1>10, <2>3 DEF DidChangeWatchedFiles, ClearIndex
    <3>2. HandlersOK(handlers')
      BY <3>1, TouchFacts DEF HandlersOK
    <3>3. IndexOK(index)'
      BY <3>1, EmptyFacts
    <3> QED
      BY <1>10, <2>1, <3>2, <3>3 DEF DidChangeWatchedFiles, bounds, TypeInv, HandlersOK
  <2> QED
    BY <2>2, <2>3
<1>11. ASSUME NEW h \in Handlers, DidChangeConfiguration(h)
       PROVE  TypeInv'
  <2>1. refresh_workspace_index(h, enabled', roots, documents, Uris) /\ enabled' \in BOOLEAN
    BY <1>11 DEF DidChangeConfiguration
  <2>2. roots \in SUBSET Folders /\ documents \in [Uris -> Nat]
    BY DEF TypeInv
  <2>3. /\ IndexOK(index)' /\ raced' \subseteq Uris
        /\ DOMAIN handlers' = Handlers /\ \A g \in Handlers : HandlerOK(handlers'[g])
    BY <2>1, <2>2, RefreshTypes
  <2> QED
    BY <1>11, <2>1, <2>3 DEF DidChangeConfiguration, TypeInv
<1>12. ASSUME NEW h \in Handlers, NEW f \in Folders, DidChangeWorkspaceFolders(h, f)
       PROVE  TypeInv'
  <2> DEFINE U == {u \in Uris : Folder[u] = f}
  <2>0. U \in SUBSET Uris
    OBVIOUS
  <2>1. /\ refresh_workspace_index(h, enabled, roots', documents, U)
        /\ roots' \in SUBSET Folders
    BY <1>12 DEF DidChangeWorkspaceFolders, TypeInv
  <2> HIDE DEF U
  <2>2. enabled \in BOOLEAN /\ documents \in [Uris -> Nat]
    BY DEF TypeInv
  <2>3. /\ IndexOK(index)' /\ raced' \subseteq Uris
        /\ DOMAIN handlers' = Handlers /\ \A g \in Handlers : HandlerOK(handlers'[g])
    BY <2>0, <2>1, <2>2, RefreshTypes
  <2> QED
    BY <1>12, <2>1, <2>3 DEF DidChangeWorkspaceFolders, TypeInv
<1>13. ASSUME NEW h \in Handlers, NEW u \in Uris, DidUpdate(h, u)
       PROVE  TypeInv'
  <2> DEFINE T == Touched(handlers, {u})
             j == [pc |-> "hot", uri |-> u, text |-> texts']
  <2>1. texts' \in Nat \ {0}
    BY <1>13 DEF DidUpdate, TypeInv
  <2>2. HandlersOK(T)
    BY TouchFacts DEF HandlersOK
  <2>3. handlers' = [T EXCEPT ![h] = j] /\ raced' \subseteq Uris
    BY <1>13 DEF DidUpdate, RacedBy, TypeInv
  <2> HIDE DEF T
  <2>4. HandlerOK(j)
    BY <2>1 DEF HandlerOK
  <2> HIDE DEF j
  <2>5. HandlersOK(handlers')
    BY <2>2, <2>3, <2>4, PutHandler DEF HandlersOK
  <2>6. documents' \in [Uris -> Nat]
    BY <1>13, <2>1 DEF DidUpdate, TypeInv
  <2> QED
    BY <1>13, <2>1, <2>3, <2>5, <2>6 DEF DidUpdate, TypeInv, HandlersOK
<1>14. ASSUME NEW h \in Handlers, NEW u \in Uris, DidClose(h, u)
       PROVE  TypeInv'
  <2> DEFINE U == {u}
  <2>0. U \in SUBSET Uris
    OBVIOUS
  <2>1. refresh_workspace_index(h, enabled, roots, documents', U) /\ documents' \in [Uris -> Nat]
    BY <1>14 DEF DidClose, TypeInv
  <2> HIDE DEF U
  <2>2. enabled \in BOOLEAN /\ roots \in SUBSET Folders
    BY DEF TypeInv
  <2>3. /\ IndexOK(index)' /\ raced' \subseteq Uris
        /\ DOMAIN handlers' = Handlers /\ \A g \in Handlers : HandlerOK(handlers'[g])
    BY <2>0, <2>1, <2>2, RefreshTypes
  <2> QED
    BY <1>14, <2>1, <2>3 DEF DidClose, bounds, TypeInv
<1>15. ASSUME NEW u \in Uris, WriteFile(u)
       PROVE  TypeInv'
  <2>1. HandlersOK(handlers')
    BY <1>15, TouchFacts DEF WriteFile, HandlersOK
  <2>2. /\ texts' \in Nat /\ disk' \in [Uris -> Nat]
        /\ events' \in [Uris -> {"none", "changed", "deleted"}] /\ raced' \subseteq Uris
    BY <1>15 DEF WriteFile, RacedBy, TypeInv
  <2> QED
    BY <1>15, <2>1, <2>2 DEF WriteFile, TypeInv, HandlersOK
<1>16. ASSUME NEW u \in Uris, RemoveFile(u)
       PROVE  TypeInv'
  <2>1. HandlersOK(handlers')
    BY <1>16, TouchFacts DEF RemoveFile, HandlersOK
  <2>2. /\ disk' \in [Uris -> Nat]
        /\ events' \in [Uris -> {"none", "changed", "deleted"}] /\ raced' \subseteq Uris
    BY <1>16 DEF RemoveFile, RacedBy, TypeInv
  <2> QED
    BY <1>16, <2>1, <2>2 DEF RemoveFile, bounds, TypeInv, HandlersOK
<1>17. CASE UNCHANGED vars
  BY <1>17 DEF vars, bounds, TypeInv
<1> QED
  BY <1>1, <1>2, <1>3, <1>4, <1>5, <1>6, <1>7, <1>8, <1>9, <1>10, <1>11, <1>12, <1>13, <1>14,
     <1>15, <1>16, <1>17 DEF Next

\* Types hold throughout.
LEMMA TypesHold == Spec => []TypeInv
<1> QED
  BY TypeInit, TypeStep, PTL DEF Spec

\* Type correctness of the sources and of the index.
THEOREM IndexingTypes == Spec => []TypeOK
<1>1. TypeInv => TypeOK
  <2> SUFFICES ASSUME TypeInv
               PROVE  TypeOK
    OBVIOUS
  <2>1. index.entries \in Seq(Entries) /\ index.documents = {e.uri : e \in Range(index.entries)}
    BY DEF TypeInv, IndexOK
  <2>2. \A e \in Range(index.entries) : e \in Entries
    BY <2>1 DEF Range
  <2>3. index.documents \subseteq Uris
    BY <2>1, <2>2 DEF Entries
  <2>4. \A p \in DOMAIN index.modules : index.modules[p] \in Uris
    BY <2>3 DEF TypeInv, IndexOK, Leads
  <2> QED
    BY <2>2, <2>3, <2>4 DEF TypeInv, TypeOK, Entries
<1> QED
  BY <1>1, TypesHold, PTL

\* However builds, scans and edits interleave, a file has one entry of a name
\* (insert_indexed_document prunes before it adds).
THEOREM FilesHaveOneEntry == Spec => []OneEntryPerFile
<1>1. TypeInv => OneEntryPerFile
  BY DEF TypeInv, OneEntryPerFile, IndexOK, OneUri
<1> QED
  BY <1>1, TypesHold, PTL

\* Open documents' entries always come first (sort_open_entries_first, and
\* removal keeps the order).
THEOREM OpenEntriesLead == Spec => []OpenDocumentsFirst
<1>1. TypeInv => OpenDocumentsFirst
  BY DEF TypeInv, OpenDocumentsFirst, IndexOK, OpenFirst
<1> QED
  BY <1>1, TypesHold, PTL

\* The call graph is always built from the entries the index holds.
THEOREM CallGraphFollows == Spec => []CallGraphCurrent
<1>1. TypeInv => CallGraphCurrent
  BY DEF TypeInv, CallGraphCurrent, IndexOK
<1> QED
  BY <1>1, TypesHold, PTL

\* A module path of the trie leads to an indexed file of that path, also when
\* programs share paths and files come and go.
THEOREM PathsLead == Spec => []ModulePathsLead
<1>1. TypeInv => ModulePathsLead
  BY DEF TypeInv, ModulePathsLead, ExistsAtPath, IndexOK, Leads
<1> QED
  BY <1>1, TypesHold, PTL

-----------------------------------------------------------------------------
(***************************************************************************)
(* Exactness.                                                              *)
(***************************************************************************)
IsJob(j)   == j.pc \in {"build", "built", "scan", "scanned"}
IsBuild(j) == j.pc \in {"build", "built"}

\* A step that leaves the sources of a file as they are.
SourceSame(u) ==
  /\ disk'[u] = disk[u] /\ documents'[u] = documents[u] /\ enabled' = enabled
  /\ SameRoot(roots', u)

\* Then what a build would hold of it is the same.
LEMMA SourceKept ==
  ASSUME NEW u \in Uris, SourceSame(u)
  PROVE  /\ Source(u)' = Source(u)
         /\ (BelowRoots(roots)[u])' = BelowRoots(roots)[u]
<1>1. (BelowRoots(roots)[u])' = BelowRoots(roots)[u]
  BY DEF BelowRoots, SourceSame, SameRoot
<1> QED
  BY <1>1 DEF Source, SourceSame

\* The entries a build would hold of a file, by what its sources are.
LEMMA SourceHeld ==
  ASSUME TypeInv, NEW u \in Uris
  PROVE  /\ ~enabled => Source(u) = {}
         /\ enabled /\ documents[u] # 0 => Source(u) = Held(u, documents[u], TRUE)
         /\ enabled /\ documents[u] = 0 => Source(u) = Held(u, BelowRoots(roots)[u], FALSE)
<1>1. BelowRoots(roots)[u] # 0 => BelowRoots(roots)[u] = disk[u]
  BY DEF BelowRoots
<1>2. CASE ~enabled
  BY <1>2 DEF Source
<1>3. CASE enabled /\ documents[u] # 0
  BY <1>3 DEF Source, Held
<1>4. CASE enabled /\ documents[u] = 0
  BY <1>1, <1>4 DEF Source, Held
<1> QED
  BY <1>2, <1>3, <1>4

\* A job carried along stays exact about the files whose sources stay.
LEMMA CarriesExact ==
  ASSUME NEW g, IsJob(handlers[g]), NEW U, Carries(handlers[g], handlers'[g], U),
         NEW u \in Uris, SourceSame(u), JobExact(handlers[g], u)
  PROVE  JobExact(handlers[g], u)'
<1>1. Source(u)' = Source(u) /\ (BelowRoots(roots)[u])' = BelowRoots(roots)[u]
  BY SourceKept
<1>2. \A rs : SameRoot(rs, u)' <=> SameRoot(rs, u)
  BY DEF SourceSame, SameRoot
<1> QED
  BY <1>1, <1>2 DEF JobExact, Carries, IsJob, SourceSame, Of

\* The jobs in flight and the history of races, over a step that touches U.
LEMMA BehindKept ==
  ASSUME BehindRaced, CleanSeesAll, NEW U,
         \A g \in Jobs' :
           \/ /\ g \in Jobs /\ handlers'[g].behind = handlers[g].behind \cup U
              /\ IsBuild(handlers'[g]) => IsBuild(handlers[g]) /\ handlers'[g].clean = handlers[g].clean
           \/ /\ handlers'[g].behind = {}
              /\ IsBuild(handlers'[g]) /\ handlers'[g].clean => Jobs = {},
         Jobs # {} => raced \cup U \subseteq raced'
  PROVE  BehindRaced' /\ CleanSeesAll'
<1>1. BehindRaced'
  BY DEF BehindRaced
<1>2. CleanSeesAll'
  <2> SUFFICES ASSUME NEW h \in Jobs', IsBuild(handlers'[h]), handlers'[h].clean, NEW g \in Jobs'
               PROVE  handlers'[g].behind \subseteq handlers'[h].behind
    BY DEF CleanSeesAll, IsBuild
  <2>1. CASE handlers'[g].behind = {}
    BY <2>1
  <2>2. CASE g \in Jobs /\ handlers'[g].behind = handlers[g].behind \cup U
    BY <2>2 DEF CleanSeesAll, IsBuild
  <2> QED
    BY <2>1, <2>2
<1> QED
  BY <1>1, <1>2

\* What restores a file still does when it is carried along.
LEMMA RestoresKept ==
  ASSUME NEW u, NEW g, NEW U, Restores(handlers[g], u), documents'[u] = documents[u],
         \/ handlers'[g] = handlers[g]
         \/ Carries(handlers[g], handlers'[g], U) /\ IsJob(handlers[g])
  PROVE  Restores(handlers[g], u)'
BY DEF Restores, Carries, IsJob

\* A file no step changed stays exact, or its restoration stays due.
LEMMA DueKept ==
  ASSUME NEW u \in Uris, ExactOrDue(u), SourceSame(u), Of(index', u) = Of(index, u),
         events'[u] = events[u],
         \A h \in Handlers : Restores(handlers[h], u) =>
           \E g \in Handlers : Restores(handlers[g], u)'
  PROVE  ExactOrDue(u)'
<1>1. Source(u)' = Source(u)
  BY SourceKept
<1>2. Of(index, u)' = Of(index, u)
  BY DEF Of
<1>3. CASE Of(index, u) = Source(u)
  BY <1>1, <1>2, <1>3 DEF ExactOrDue
<1>4. CASE enabled /\ events[u] # "none" /\ documents[u] = 0
  BY <1>4 DEF ExactOrDue, SourceSame
<1>5. CASE enabled /\ \E h \in Handlers : Restores(handlers[h], u)
  <2>1. PICK g \in Handlers : Restores(handlers[g], u)'
    BY <1>5
  <2>2. enabled'
    BY <1>5 DEF SourceSame
  <2> QED
    BY <2>1, <2>2 DEF ExactOrDue
<1> QED
  BY <1>3, <1>4, <1>5 DEF ExactOrDue

\* At the start the initial build is due, or the index is off.
LEMMA ExactInit == Init => ExactInv
<1> SUFFICES ASSUME Init
             PROVE  ExactInv
  OBVIOUS
<1>0. TypeInv
  BY TypeInit
<1> DEFINE j == [pc |-> "build", roots |-> Folders, open |-> Absent, clean |-> TRUE, behind |-> {}]
<1>1. PICK h \in Handlers : handlers = [g \in Handlers |-> IF g = h /\ enabled THEN j ELSE Free]
  BY DEF Init
<1>2. \A g \in Jobs : g = h /\ enabled /\ handlers[g] = j
  BY <1>1 DEF Jobs, Free
<1>3. j.pc = "build" /\ j.roots = Folders /\ j.open = Absent /\ j.behind = {}
  OBVIOUS
<1> HIDE DEF j
<1>4. JobsExact
  BY <1>2, <1>3 DEF JobsExact, JobExact, SameRoot, Init, Absent
<1>5. BehindRaced /\ CleanSeesAll
  BY <1>2, <1>3 DEF BehindRaced, CleanSeesAll
<1>6. DeletedGone
  BY DEF DeletedGone, Init, NoEvent
<1>7. ASSUME NEW u \in Uris
      PROVE  ExactOrDue(u)
  <2>1. CASE enabled
    <3>1. Restores(handlers[h], u)
      BY <1>1, <1>3, <2>1 DEF Restores
    <3> QED
      BY <2>1, <3>1 DEF ExactOrDue
  <2>2. CASE ~enabled
    <3>1. Source(u) = {} /\ Of(index, u) = {}
      BY <1>0, <2>2, SourceHeld, EmptyFacts DEF Init
    <3> QED
      BY <3>1 DEF ExactOrDue
  <2> QED
    BY <2>1, <2>2
<1> QED
  BY <1>4, <1>5, <1>6, <1>7 DEF ExactInv

\* A refresh: the build it starts restores every file, and clearing the index
\* is exact while the index is off.
LEMMA RefreshExact ==
  ASSUME TypeInv, TypeInv', ExactInv, NEW h \in Handlers, handlers[h] = Free, NEW U \in SUBSET Uris,
         refresh_workspace_index(h, enabled', roots', documents', U),
         \A u \in Uris \ U : SourceSame(u)
  PROVE  /\ JobsExact' /\ BehindRaced' /\ CleanSeesAll'
         /\ \A u \in Uris : ExactOrDue(u)'
<1> DEFINE T == Touched(handlers, U)
<1>1. /\ DOMAIN T = Handlers
      /\ \A g \in Handlers \ Jobs : T[g] = handlers[g]
      /\ \A g \in Jobs : Carries(handlers[g], T[g], U)
  BY TouchFacts
<1>2. h \notin Jobs
  BY DEF Jobs, Free
<1>3. raced' = IF Jobs = {} THEN raced ELSE raced \cup U
  BY DEF refresh_workspace_index, RacedBy
<1> HIDE DEF T
<1>4. ASSUME NEW g \in Jobs, handlers'[g] = T[g], NEW u \in Uris \ handlers'[g].behind
      PROVE  JobExact(handlers[g], u)'
  <2>1. Carries(handlers[g], handlers'[g], U) /\ IsJob(handlers[g])
    BY <1>1, <1>4 DEF Jobs, IsJob
  <2>2. u \notin handlers[g].behind /\ u \notin U
    BY <1>4, <2>1 DEF Carries
  <2>3. JobExact(handlers[g], u)
    BY <2>2 DEF ExactInv, JobsExact
  <2> QED
    BY <2>1, <2>2, <2>3, CarriesExact
<1>5. CASE enabled'
  <2> DEFINE j == [pc |-> "build", roots |-> roots', open |-> documents', clean |-> Jobs = {}, behind |-> {}]
  <2>1. handlers' = [T EXCEPT ![h] = j]
    BY <1>5 DEF refresh_workspace_index, StartBuild, T
  <2>2. /\ j.pc = "build" /\ j.roots = roots' /\ j.open = documents' /\ j.behind = {}
        /\ j.clean => Jobs = {}
    OBVIOUS
  <2> HIDE DEF j
  <2>3. handlers'[h] = j /\ \A g \in Handlers \ {h} : handlers'[g] = T[g]
    BY <1>1, <2>1
  <2>4. \A g \in Jobs' : g = h \/ (g \in Jobs /\ handlers'[g] = T[g])
    BY <1>1, <2>3 DEF Jobs
  <2>5. \A u \in Uris : JobExact(handlers[h], u)'
    <3> SUFFICES ASSUME NEW u \in Uris
                 PROVE  JobExact(handlers[h], u)'
      OBVIOUS
    <3>1. handlers'[h].pc = "build" /\ handlers'[h].roots = roots' /\ handlers'[h].open = documents'
      BY <2>2, <2>3
    <3> QED
      BY <1>5, <3>1 DEF JobExact, SameRoot
  <2>6. JobsExact'
    BY <1>4, <2>4, <2>5 DEF JobsExact
  <2>7. ASSUME NEW g \in Jobs'
        PROVE  \/ /\ g \in Jobs /\ handlers'[g].behind = handlers[g].behind \cup U
                  /\ IsBuild(handlers'[g]) => IsBuild(handlers[g]) /\ handlers'[g].clean = handlers[g].clean
               \/ /\ handlers'[g].behind = {}
                  /\ IsBuild(handlers'[g]) /\ handlers'[g].clean => Jobs = {}
    <3>1. CASE g = h
      BY <2>2, <2>3, <3>1
    <3>2. CASE g \in Jobs /\ handlers'[g] = T[g]
      BY <1>1, <3>2 DEF Carries, IsBuild
    <3> QED
      BY <2>4, <3>1, <3>2
  <2>8. BehindRaced' /\ CleanSeesAll'
    BY <1>3, <2>7, BehindKept DEF ExactInv
  <2>9. \A u \in Uris : ExactOrDue(u)'
    <3> SUFFICES ASSUME NEW u \in Uris
                 PROVE  ExactOrDue(u)'
      OBVIOUS
    <3>1. Restores(handlers[h], u)'
      BY <2>2, <2>3 DEF Restores
    <3> QED
      BY <1>5, <3>1 DEF ExactOrDue
  <2> QED
    BY <2>6, <2>8, <2>9
<1>6. CASE ~enabled'
  <2>1. handlers' = T /\ index' = EmptyIndex
    BY <1>6 DEF refresh_workspace_index, ClearIndex, T
  <2>2. \A g \in Jobs' : g \in Jobs /\ handlers'[g] = T[g]
    BY <1>1, <2>1 DEF Jobs
  <2>3. JobsExact'
    BY <1>4, <2>2 DEF JobsExact
  <2>4. ASSUME NEW g \in Jobs'
        PROVE  /\ g \in Jobs /\ handlers'[g].behind = handlers[g].behind \cup U
               /\ IsBuild(handlers'[g]) => IsBuild(handlers[g]) /\ handlers'[g].clean = handlers[g].clean
    BY <1>1, <2>2 DEF Carries, IsBuild
  <2>5. BehindRaced' /\ CleanSeesAll'
    BY <1>3, <2>4, BehindKept DEF ExactInv
  <2>6. \A u \in Uris : ExactOrDue(u)'
    <3> SUFFICES ASSUME NEW u \in Uris
                 PROVE  ExactOrDue(u)'
      OBVIOUS
    <3>1. Source(u)' = {}
      BY <1>6 DEF Source
    <3>2. Of(index, u)' = {}
      <4>1. Of(EmptyIndex, u) = {}
        BY EmptyFacts
      <4> QED
        BY <2>1, <4>1 DEF Of
    <3> QED
      BY <3>1, <3>2 DEF ExactOrDue
  <2> QED
    BY <2>3, <2>5, <2>6
<1> QED
  BY <1>5, <1>6

\* A step that leaves a future as it is, up to the files behind a job.
Carried(g, U) ==
  /\ g \in Jobs => Carries(handlers[g], handlers'[g], U)
  /\ g \notin Jobs => handlers'[g] = handlers[g]

\* Touching the jobs carries the futures along.
LEMMA TouchedCarried ==
  ASSUME TypeInv, NEW U \in SUBSET Uris, NEW g \in Handlers, handlers'[g] = Touched(handlers, U)[g]
  PROVE  Carried(g, U)
BY TouchFacts DEF Carried

\* So does leaving a future alone.
LEMMA SameCarried ==
  ASSUME NEW g, handlers'[g] = handlers[g]
  PROVE  Carried(g, {})
BY DEF Carried, Carries

\* A step that leaves every job in flight or frees it, and touches U: the jobs
\* stay exact about the other files.
LEMMA TouchedExact ==
  ASSUME TypeInv, ExactInv, NEW U \in SUBSET Uris, NEW S \in SUBSET Handlers,
         \A g \in Handlers \ S : Carried(g, U),
         \A g \in S : ~ IsJob(handlers'[g]),
         \A u \in Uris \ U : SourceSame(u),
         Jobs # {} => raced \cup U \subseteq raced'
  PROVE  JobsExact' /\ BehindRaced' /\ CleanSeesAll'
<1>3. \A g \in Jobs' : g \in Jobs /\ Carries(handlers[g], handlers'[g], U)
  BY DEF Jobs, IsJob, Carried
<1>4. JobsExact'
  <2> SUFFICES ASSUME NEW g \in Jobs', NEW u \in Uris \ handlers'[g].behind
               PROVE  JobExact(handlers[g], u)'
    BY DEF JobsExact
  <2>1. g \in Jobs /\ Carries(handlers[g], handlers'[g], U) /\ IsJob(handlers[g])
    BY <1>3 DEF Jobs, IsJob
  <2>2. u \notin handlers[g].behind /\ u \notin U
    BY <2>1 DEF Carries
  <2>3. JobExact(handlers[g], u)
    BY <2>1, <2>2 DEF ExactInv, JobsExact
  <2> QED
    BY <2>1, <2>2, <2>3, CarriesExact
<1>5. ASSUME NEW g \in Jobs'
      PROVE  /\ g \in Jobs /\ handlers'[g].behind = handlers[g].behind \cup U
             /\ IsBuild(handlers'[g]) => IsBuild(handlers[g]) /\ handlers'[g].clean = handlers[g].clean
  BY <1>3 DEF Carries, IsBuild
<1>6. BehindRaced' /\ CleanSeesAll'
  BY <1>5, BehindKept DEF ExactInv
<1> QED
  BY <1>4, <1>6

\* In such a step, a file outside U that no future in S restores stays exact
\* or due.
LEMMA TouchedDue ==
  ASSUME TypeInv, NEW U \in SUBSET Uris, NEW S \in SUBSET Handlers,
         \A g \in Handlers \ S : Carried(g, U),
         NEW u \in Uris, SourceSame(u), ExactOrDue(u), Of(index', u) = Of(index, u),
         events'[u] = events[u],
         \A g \in S : ~ Restores(handlers[g], u)
  PROVE  ExactOrDue(u)'
<1>2. ASSUME NEW g \in Handlers, Restores(handlers[g], u)
      PROVE  Restores(handlers[g], u)'
  <2>1. Carried(g, U)
    BY <1>2
  <2>2. \/ handlers'[g] = handlers[g]
        \/ Carries(handlers[g], handlers'[g], U) /\ IsJob(handlers[g])
    BY <2>1 DEF Jobs, IsJob, Carried
  <2>3. documents'[u] = documents[u]
    BY DEF SourceSame
  <2> QED
    BY <1>2, <2>2, <2>3, RestoresKept
<1>3. \A g \in Handlers : Restores(handlers[g], u) => \E k \in Handlers : Restores(handlers[k], u)'
  BY <1>2
<1> QED
  BY <1>3, DueKept

\* A step that only frees a future, or progresses it, and changes no source.
LEMMA FreedCarried ==
  ASSUME TypeInv, NEW h \in Handlers, NEW j, handlers' = [handlers EXCEPT ![h] = j]
  PROVE  handlers'[h] = j /\ \A g \in Handlers \ {h} : handlers'[g] = handlers[g] /\ Carried(g, {})
<1>1. handlers'[h] = j /\ \A g \in Handlers \ {h} : handlers'[g] = handlers[g]
  BY DEF TypeInv
<1> QED
  BY <1>1, SameCarried

\* The blocking thread of a build.
LEMMA BuildExact ==
  ASSUME TypeInv, ExactInv, NEW h \in Handlers, Build(h)
  PROVE  ExactInv'
<1> DEFINE j == handlers[h]
<1>0. JobsExact /\ BehindRaced /\ CleanSeesAll /\ DeletedGone /\ \A u \in Uris \ raced : ExactOrDue(u)
  BY DEF ExactInv
<1>1. /\ j.pc = "build" /\ j.behind \subseteq Uris /\ j.clean \in BOOLEAN /\ j.open \in [Uris -> Nat]
      /\ h \in Jobs
  BY HandlerKinds DEF TypeInv, Build, Jobs
<1>2. BelowRoots(j.roots) \in [Uris -> Nat]
  BY DEF TypeInv, BelowRoots
<1>3. PICK order \in Orders : handlers' = [handlers EXCEPT ![h] =
        [pc |-> "built", index |-> build(BelowRoots(j.roots), j.open, order),
         clean |-> j.clean, behind |-> j.behind]]
  BY DEF Build, TypeInv
<1> DEFINE ix == build(BelowRoots(j.roots), j.open, order)
           k  == [pc |-> "built", index |-> ix, clean |-> j.clean, behind |-> j.behind]
<1>4. k.pc = "built" /\ k.index = ix /\ k.clean = j.clean /\ k.behind = j.behind
  OBVIOUS
<1>5. \A v \in Uris : Of(ix, v) = IF j.open[v] # 0 THEN Held(v, j.open[v], TRUE)
                                  ELSE Held(v, BelowRoots(j.roots)[v], FALSE)
  BY <1>1, <1>2, BuildFacts
<1>6. handlers' = [handlers EXCEPT ![h] = k]
  BY <1>3
<1> HIDE DEF k, ix
<1>7. handlers'[h] = k /\ \A g \in Handlers \ {h} : handlers'[g] = handlers[g] /\ Carried(g, {})
  BY <1>6, FreedCarried
<1>8. UNCHANGED <<disk, events, enabled, roots, documents, index, raced>>
  BY DEF Build
<1>9. \A u \in Uris : SourceSame(u)
  BY <1>8 DEF SourceSame, SameRoot
<1>10. \A g \in Jobs' : g \in Jobs
  BY <1>1, <1>7 DEF Jobs
<1>11. JobsExact'
  <2> SUFFICES ASSUME NEW g \in Jobs', NEW u \in Uris \ handlers'[g].behind
               PROVE  JobExact(handlers[g], u)'
    BY DEF JobsExact
  <2>1. CASE g # h
    <3>1. Carries(handlers[g], handlers'[g], {}) /\ handlers'[g] = handlers[g] /\ IsJob(handlers[g])
      BY <1>7, <1>10, <2>1 DEF Carried, Jobs, IsJob
    <3>2. JobExact(handlers[g], u)
      BY <1>0, <1>10, <3>1 DEF JobsExact
    <3> QED
      BY <1>9, <3>1, <3>2, CarriesExact
  <2>2. CASE g = h
    <3>1. u \in Uris \ j.behind
      BY <1>4, <1>7, <2>2
    <3>2. JobExact(j, u)
      BY <1>0, <1>1, <3>1 DEF JobsExact
    <3>3. enabled /\ SameRoot(j.roots, u) /\ j.open[u] = documents[u]
      BY <1>1, <3>2 DEF JobExact
    <3>4. BelowRoots(j.roots)[u] = BelowRoots(roots)[u]
      BY <3>3 DEF BelowRoots, SameRoot
    <3>5. Of(ix, u) = Source(u)
      BY <1>5, <3>3, <3>4, SourceHeld
    <3>6. Source(u)' = Source(u) /\ enabled'
      BY <1>8, <1>9, <3>3, SourceKept
    <3>7. handlers'[h].pc = "built" /\ handlers'[h].index = ix
      BY <1>4, <1>7
    <3>8. Of(handlers[h].index, u)' = Of(ix, u)
      BY <3>7 DEF Of
    <3> QED
      BY <2>2, <3>5, <3>6, <3>7, <3>8 DEF JobExact
  <2> QED
    BY <2>1, <2>2
<1>12. ASSUME NEW g \in Jobs'
       PROVE  /\ g \in Jobs /\ handlers'[g].behind = handlers[g].behind \cup {}
              /\ IsBuild(handlers'[g]) => IsBuild(handlers[g]) /\ handlers'[g].clean = handlers[g].clean
  <2>1. g \in Handlers
    BY DEF Jobs
  <2>2. CASE g = h
    BY <1>1, <1>4, <1>7, <2>2 DEF IsBuild
  <2>3. CASE g # h
    BY <1>7, <1>10, <2>1, <2>3
  <2> QED
    BY <2>2, <2>3
<1>13. BehindRaced' /\ CleanSeesAll'
  <2>1. Jobs # {} => raced \cup {} \subseteq raced'
    BY <1>8
  <2> QED
    BY <1>0, <1>12, <2>1, BehindKept
<1>14. ASSUME NEW u \in Uris \ raced'
       PROVE  ExactOrDue(u)'
  <2>1. ASSUME NEW g \in Handlers, Restores(handlers[g], u)
        PROVE  Restores(handlers[g], u)'
    <3>1. CASE g = h
      BY <1>4, <1>7, <3>1 DEF Restores
    <3>2. CASE g # h
      BY <1>7, <1>8, <2>1, <3>2 DEF Restores
    <3> QED
      BY <3>1, <3>2
  <2>2. ExactOrDue(u) /\ SourceSame(u) /\ Of(index', u) = Of(index, u) /\ events'[u] = events[u]
    BY <1>0, <1>8, <1>9
  <2> QED
    BY <2>1, <2>2, DueKept
<1>15. DeletedGone'
  BY <1>0, <1>8 DEF DeletedGone
<1> QED
  BY <1>11, <1>13, <1>14, <1>15 DEF ExactInv

\* The blocking thread of a scan.
LEMMA ScanExact ==
  ASSUME TypeInv, ExactInv, NEW h \in Handlers, Scan(h)
  PROVE  ExactInv'
<1> DEFINE j == handlers[h]
           ups == [u \in DOMAIN j.changes |-> Update(j, u)]
           k == [pc |-> "scanned", behind |-> j.behind, updates |-> ups]
<1>0. JobsExact /\ BehindRaced /\ CleanSeesAll /\ DeletedGone /\ \A u \in Uris \ raced : ExactOrDue(u)
  BY DEF ExactInv
<1>1. j.pc = "scan" /\ j.behind \subseteq Uris /\ DOMAIN j.changes \subseteq Uris /\ h \in Jobs
  BY HandlerKinds DEF TypeInv, Scan, Jobs
<1>2. k.pc = "scanned" /\ k.behind = j.behind /\ k.updates = ups
  OBVIOUS
<1>3. handlers' = [handlers EXCEPT ![h] = k]
  BY DEF Scan, TypeInv
<1>4. DOMAIN ups = DOMAIN j.changes /\ \A u \in DOMAIN j.changes : ups[u] = Update(j, u)
  OBVIOUS
<1> HIDE DEF k, ups
<1>7. handlers'[h] = k /\ \A g \in Handlers \ {h} : handlers'[g] = handlers[g] /\ Carried(g, {})
  BY <1>3, FreedCarried
<1>8. UNCHANGED <<disk, events, enabled, roots, documents, index, raced>>
  BY DEF Scan
<1>9. \A u \in Uris : SourceSame(u)
  BY <1>8 DEF SourceSame, SameRoot
<1>10. \A g \in Jobs' : g \in Jobs
  BY <1>1, <1>7 DEF Jobs
<1>11. JobsExact'
  <2> SUFFICES ASSUME NEW g \in Jobs', NEW u \in Uris \ handlers'[g].behind
               PROVE  JobExact(handlers[g], u)'
    BY DEF JobsExact
  <2>1. CASE g # h
    <3>1. Carries(handlers[g], handlers'[g], {}) /\ handlers'[g] = handlers[g] /\ IsJob(handlers[g])
      BY <1>7, <1>10, <2>1 DEF Carried, Jobs, IsJob
    <3>2. JobExact(handlers[g], u)
      BY <1>0, <1>10, <3>1 DEF JobsExact
    <3> QED
      BY <1>9, <3>1, <3>2, CarriesExact
  <2>2. CASE g = h
    <3>1. u \in Uris \ j.behind
      BY <1>2, <1>7, <2>2
    <3>2. JobExact(j, u)
      BY <1>0, <1>1, <3>1 DEF JobsExact
    <3>3. /\ enabled /\ SameRoot(j.roots, u)
          /\ u \in DOMAIN j.changes => documents[u] = 0 /\ (j.changes[u] = "deleted" => disk[u] = 0)
      BY <1>1, <3>2 DEF JobExact
    <3>4. u \in DOMAIN j.changes => ups[u] = BelowRoots(roots)[u]
      BY <1>4, <3>3 DEF BelowRoots, SameRoot, Update
    <3>5. (BelowRoots(roots)[u])' = BelowRoots(roots)[u] /\ enabled' /\ documents'[u] = documents[u]
      BY <1>8, <1>9, <3>3, SourceKept
    <3>6. handlers'[h].pc = "scanned" /\ handlers'[h].updates = ups
      BY <1>2, <1>7
    <3> QED
      BY <1>4, <2>2, <3>3, <3>4, <3>5, <3>6 DEF JobExact
  <2> QED
    BY <2>1, <2>2
<1>12. ASSUME NEW g \in Jobs'
       PROVE  /\ g \in Jobs /\ handlers'[g].behind = handlers[g].behind \cup {}
              /\ IsBuild(handlers'[g]) => IsBuild(handlers[g]) /\ handlers'[g].clean = handlers[g].clean
  <2>1. g \in Handlers
    BY DEF Jobs
  <2>2. CASE g = h
    BY <1>1, <1>2, <1>7, <2>2 DEF IsBuild
  <2>3. CASE g # h
    BY <1>7, <1>10, <2>1, <2>3
  <2> QED
    BY <2>2, <2>3
<1>13. BehindRaced' /\ CleanSeesAll'
  <2>1. Jobs # {} => raced \cup {} \subseteq raced'
    BY <1>8
  <2> QED
    BY <1>0, <1>12, <2>1, BehindKept
<1>14. ASSUME NEW u \in Uris \ raced'
       PROVE  ExactOrDue(u)'
  <2>1. ASSUME NEW g \in Handlers, Restores(handlers[g], u)
        PROVE  Restores(handlers[g], u)'
    <3>1. CASE g = h
      BY <1>1, <1>2, <1>4, <1>7, <2>1, <3>1 DEF Restores
    <3>2. CASE g # h
      BY <1>7, <1>8, <2>1, <3>2 DEF Restores
    <3> QED
      BY <3>1, <3>2
  <2>2. ExactOrDue(u) /\ SourceSame(u) /\ Of(index', u) = Of(index, u) /\ events'[u] = events[u]
    BY <1>0, <1>8, <1>9
  <2> QED
    BY <2>1, <2>2, DueKept
<1>15. DeletedGone'
  BY <1>0, <1>8 DEF DeletedGone
<1> QED
  BY <1>11, <1>13, <1>14, <1>15 DEF ExactInv

\* The result of a build replaces the index.
LEMMA StoreExact ==
  ASSUME TypeInv, ExactInv, NEW h \in Handlers, StoreIndex(h)
  PROVE  ExactInv'
<1> DEFINE j == handlers[h]
<1>0. JobsExact /\ BehindRaced /\ CleanSeesAll /\ DeletedGone /\ \A u \in Uris \ raced : ExactOrDue(u)
  BY DEF ExactInv
<1>1. j.pc = "built" /\ h \in Jobs /\ j.clean \in BOOLEAN
  BY HandlerKinds DEF TypeInv, StoreIndex, Jobs
<1>2. /\ index' = j.index /\ raced' = IF j.clean THEN raced \cap j.behind ELSE raced
      /\ handlers' = [handlers EXCEPT ![h] = Free]
      /\ UNCHANGED <<disk, events, enabled, roots, documents>>
  BY DEF StoreIndex
<1>3. handlers'[h] = Free /\ \A g \in Handlers \ {h} : handlers'[g] = handlers[g] /\ Carried(g, {})
  BY <1>2, FreedCarried
<1>4. \A u \in Uris : SourceSame(u)
  BY <1>2 DEF SourceSame, SameRoot
<1>5. \A g \in Jobs' : g \in Jobs /\ g # h /\ handlers'[g] = handlers[g]
  BY <1>3 DEF Jobs, Free
<1>6. JobsExact'
  <2> SUFFICES ASSUME NEW g \in Jobs', NEW u \in Uris \ handlers'[g].behind
               PROVE  JobExact(handlers[g], u)'
    BY DEF JobsExact
  <2>1. Carries(handlers[g], handlers'[g], {}) /\ handlers'[g] = handlers[g] /\ IsJob(handlers[g])
    BY <1>3, <1>5 DEF Carried, Jobs, IsJob
  <2>2. JobExact(handlers[g], u)
    BY <1>0, <1>5, <2>1 DEF JobsExact
  <2> QED
    BY <1>4, <2>1, <2>2, CarriesExact
<1>7. BehindRaced'
  <2> SUFFICES ASSUME NEW g \in Jobs'
               PROVE  handlers'[g].behind \subseteq raced'
    BY DEF BehindRaced
  <2>1. handlers[g].behind \subseteq raced
    BY <1>0, <1>5 DEF BehindRaced
  <2>2. j.clean => handlers[g].behind \subseteq j.behind
    BY <1>0, <1>1, <1>5 DEF CleanSeesAll
  <2> QED
    BY <1>2, <1>5, <2>1, <2>2
<1>8. CleanSeesAll'
  BY <1>0, <1>5 DEF CleanSeesAll
<1>9. ASSUME NEW u \in Uris \ raced'
      PROVE  ExactOrDue(u)'
  <2>1. u \notin j.behind
    BY <1>0, <1>1, <1>2 DEF BehindRaced
  <2>2. JobExact(j, u)
    BY <1>0, <1>1, <2>1 DEF JobsExact
  <2>3. Of(j.index, u) = Source(u)
    BY <1>1, <2>2 DEF JobExact
  <2>4. Source(u)' = Source(u)
    BY <1>4, SourceKept
  <2>5. Of(index, u)' = Of(j.index, u)
    BY <1>2 DEF Of
  <2> QED
    BY <2>3, <2>4, <2>5 DEF ExactOrDue
<1>10. DeletedGone'
  BY <1>0, <1>2 DEF DeletedGone
<1> QED
  BY <1>6, <1>7, <1>8, <1>9, <1>10 DEF ExactInv

\* The updates a scan found are applied.
LEMMA ApplyExact ==
  ASSUME TypeInv, ExactInv, NEW h \in Handlers, ApplyUpdates(h)
  PROVE  ExactInv'
<1> DEFINE j == handlers[h]
           ups == j.updates
<1>0. JobsExact /\ BehindRaced /\ CleanSeesAll /\ DeletedGone /\ \A u \in Uris \ raced : ExactOrDue(u)
  BY DEF ExactInv
<1>1. /\ j.pc = "scanned" /\ h \in Jobs /\ DOMAIN ups \subseteq Uris
      /\ \A u \in DOMAIN ups : ups[u] \in Nat
  BY HandlerKinds DEF TypeInv, ApplyUpdates, Jobs
<1>2. PICK order \in Orders : index' = ApplyAll(index, ups, FALSE, order)
  BY DEF ApplyUpdates
<1>3. /\ handlers' = [handlers EXCEPT ![h] = Free]
      /\ UNCHANGED <<disk, events, enabled, roots, documents, raced>>
  BY DEF ApplyUpdates
<1> HIDE DEF j
<1>4. \A v \in Uris : Of(index', v) = IF v \in DOMAIN ups THEN Held(v, ups[v], FALSE) ELSE Of(index, v)
  <2> DEFINE b == FALSE
  <2>1. b \in BOOLEAN /\ IndexOK(index)
    BY DEF TypeInv
  <2> HIDE DEF b, ups
  <2>2. \A v \in Uris : Of(ApplyAll(index, ups, b, order), v) =
                          IF v \in DOMAIN ups THEN Held(v, ups[v], b) ELSE Of(index, v)
    BY <1>1, <2>1, ApplyFacts
  <2> QED
    BY <1>2, <2>2 DEF b
<1> HIDE DEF ups
<1>5. handlers'[h] = Free /\ \A g \in Handlers \ {h} : handlers'[g] = handlers[g] /\ Carried(g, {})
  BY <1>3, FreedCarried
<1>6. \A u \in Uris : SourceSame(u)
  BY <1>3 DEF SourceSame, SameRoot
<1>7. JobsExact' /\ BehindRaced' /\ CleanSeesAll'
  <2>1. \A g \in Handlers \ {h} : Carried(g, {})
    BY <1>5
  <2>2. \A g \in {h} : ~ IsJob(handlers'[g])
    BY <1>5 DEF IsJob, Free
  <2>3. Jobs # {} => raced \cup {} \subseteq raced'
    BY <1>3
  <2>4. \A u \in Uris \ {} : SourceSame(u)
    BY <1>6
  <2>5. {h} \in SUBSET Handlers /\ {} \in SUBSET Uris
    OBVIOUS
  <2> QED
    BY <2>1, <2>2, <2>3, <2>4, <2>5, TouchedExact
<1>8. ASSUME NEW u \in Uris \ raced'
      PROVE  ExactOrDue(u)'
  <2>0. u \notin raced /\ ExactOrDue(u)
    BY <1>0, <1>3
  <2>1. CASE u \in DOMAIN ups
    <3>1. u \notin j.behind
      BY <1>0, <1>1, <2>0 DEF BehindRaced, j
    <3>2. JobExact(j, u)
      BY <1>0, <1>1, <3>1 DEF JobsExact, j
    <3>3. enabled /\ documents[u] = 0 /\ ups[u] = BelowRoots(roots)[u]
      BY <1>1, <2>1, <3>2 DEF JobExact, ups
    <3>4. Source(u) = Held(u, ups[u], FALSE)
      BY <3>3, SourceHeld
    <3>5. Source(u)' = Source(u)
      BY <1>6, SourceKept
    <3>6. Of(index, u)' = Held(u, ups[u], FALSE)
      BY <1>4, <2>1 DEF Of
    <3> QED
      BY <3>4, <3>5, <3>6 DEF ExactOrDue
  <2>2. CASE u \notin DOMAIN ups
    <3>1. ~ Restores(handlers[h], u)
      BY <1>1, <2>2 DEF Restores, j, ups
    <3>2. SourceSame(u) /\ Of(index', u) = Of(index, u) /\ events'[u] = events[u]
      BY <1>3, <1>4, <1>6, <2>2
    <3>3. \A g \in Handlers \ {h} : Carried(g, {})
      BY <1>5
    <3>4. \A g \in {h} : ~ Restores(handlers[g], u)
      BY <3>1
    <3>5. {h} \in SUBSET Handlers /\ {} \in SUBSET Uris
      OBVIOUS
    <3> QED
      BY <2>0, <3>2, <3>3, <3>4, <3>5, TouchedDue
  <2> QED
    BY <2>1, <2>2
<1>9. DeletedGone'
  BY <1>0, <1>3 DEF DeletedGone
<1> QED
  BY <1>7, <1>8, <1>9 DEF ExactInv

\* A blocking task that panics: the files it was about count as raced.
LEMMA PanicExact ==
  ASSUME TypeInv, ExactInv, NEW h \in Handlers, BuildPanics(h) \/ ScanPanics(h) \/ HotPanics(h)
  PROVE  ExactInv'
<1> DEFINE j == handlers[h]
<1>0. JobsExact /\ BehindRaced /\ CleanSeesAll /\ DeletedGone /\ \A u \in Uris \ raced : ExactOrDue(u)
  BY DEF ExactInv
<1>1. /\ handlers' = [handlers EXCEPT ![h] = Free] /\ raced \subseteq raced'
      /\ UNCHANGED <<disk, events, enabled, roots, documents>>
  BY DEF BuildPanics, ScanPanics, HotPanics, TypeInv
<1>2. handlers'[h] = Free /\ \A g \in Handlers \ {h} : handlers'[g] = handlers[g] /\ Carried(g, {})
  BY <1>1, FreedCarried
<1>3. \A u \in Uris : SourceSame(u)
  BY <1>1 DEF SourceSame, SameRoot
<1>4. \A g \in Handlers \ {h} : Carried(g, {})
  BY <1>2
<1>5. JobsExact' /\ BehindRaced' /\ CleanSeesAll'
  <2>1. \A g \in {h} : ~ IsJob(handlers'[g])
    BY <1>2 DEF IsJob, Free
  <2>2. Jobs # {} => raced \cup {} \subseteq raced'
    BY <1>1
  <2>3. \A u \in Uris \ {} : SourceSame(u)
    BY <1>3
  <2>4. {h} \in SUBSET Handlers /\ {} \in SUBSET Uris
    OBVIOUS
  <2> QED
    BY <1>4, <2>1, <2>2, <2>3, <2>4, TouchedExact
<1>6. ASSUME NEW u \in Uris \ raced'
      PROVE  ExactOrDue(u)'
  <2>1. CASE BuildPanics(h)
    BY <2>1 DEF BuildPanics
  <2>2. CASE ScanPanics(h) \/ HotPanics(h)
    <3>1. \A g \in {h} : ~ Restores(handlers[g], u)
      BY <2>2 DEF Restores, ScanPanics, HotPanics
    <3>2. ExactOrDue(u) /\ SourceSame(u) /\ Of(index', u) = Of(index, u) /\ events'[u] = events[u]
      BY <1>0, <1>1, <1>3, <2>2 DEF ScanPanics, HotPanics
    <3>3. {h} \in SUBSET Handlers /\ {} \in SUBSET Uris
      OBVIOUS
    <3> QED
      BY <1>4, <3>1, <3>2, <3>3, TouchedDue
  <2> QED
    BY <2>1, <2>2
<1>7. DeletedGone'
  BY <1>0, <1>1 DEF DeletedGone
<1> QED
  BY <1>5, <1>6, <1>7 DEF ExactInv

\* An edit's text is stored; the hot lane is to restore the index.
LEMMA DidUpdateExact ==
  ASSUME TypeInv, ExactInv, NEW h \in Handlers, NEW u \in Uris, DidUpdate(h, u)
  PROVE  ExactInv'
<1> DEFINE T == Touched(handlers, {u})
           j == [pc |-> "hot", uri |-> u, text |-> texts']
<1>0. JobsExact /\ BehindRaced /\ CleanSeesAll /\ DeletedGone /\ \A v \in Uris \ raced : ExactOrDue(v)
  BY DEF ExactInv
<1>1. /\ handlers' = [T EXCEPT ![h] = j] /\ handlers[h] = Free
      /\ documents' = [documents EXCEPT ![u] = texts'] /\ texts' \in Nat \ {0}
      /\ raced' = IF Jobs = {} THEN raced ELSE raced \cup {u}
      /\ UNCHANGED <<disk, events, enabled, roots, index>>
  BY DEF DidUpdate, RacedBy, TypeInv
<1>2. j.pc = "hot" /\ j.uri = u /\ j.text = texts'
  OBVIOUS
<1>3. DOMAIN T = Handlers
  BY DEF Touched
<1> HIDE DEF j
<1>4. handlers'[h] = j /\ \A g \in Handlers \ {h} : handlers'[g] = T[g]
  BY <1>1, <1>3
<1>5. \A g \in Handlers \ {h} : Carried(g, {u})
  BY <1>4, TouchedCarried
<1> HIDE DEF T
<1>6. \A v \in Uris \ {u} : SourceSame(v)
  BY <1>1 DEF SourceSame, SameRoot, TypeInv
<1>7. JobsExact' /\ BehindRaced' /\ CleanSeesAll'
  <2>1. \A g \in {h} : ~ IsJob(handlers'[g])
    BY <1>2, <1>4 DEF IsJob
  <2>2. Jobs # {} => raced \cup {u} \subseteq raced'
    BY <1>1
  <2>3. {h} \in SUBSET Handlers /\ {u} \in SUBSET Uris
    OBVIOUS
  <2> QED
    BY <1>5, <1>6, <2>1, <2>2, <2>3, TouchedExact
<1>8. ASSUME NEW v \in Uris \ raced'
      PROVE  ExactOrDue(v)'
  <2>0. v \notin raced /\ ExactOrDue(v)
    BY <1>0, <1>1
  <2>1. CASE v # u
    <3>1. \A g \in {h} : ~ Restores(handlers[g], v)
      BY <1>1 DEF Restores, Free
    <3>2. SourceSame(v) /\ Of(index', v) = Of(index, v) /\ events'[v] = events[v]
      BY <1>1, <1>6, <2>1
    <3>3. {h} \in SUBSET Handlers /\ {u} \in SUBSET Uris
      OBVIOUS
    <3> QED
      BY <1>5, <2>0, <3>1, <3>2, <3>3, TouchedDue
  <2>2. CASE v = u /\ enabled
    <3>1. documents'[u] = texts'
      BY <1>1 DEF TypeInv
    <3>2. Restores(handlers[h], u)'
      BY <1>1, <1>2, <1>4, <3>1 DEF Restores
    <3>3. enabled'
      BY <1>1, <2>2
    <3> QED
      BY <2>2, <3>2, <3>3 DEF ExactOrDue
  <2>3. CASE v = u /\ ~enabled
    BY <1>1, <2>0, <2>3 DEF ExactOrDue, Of, Source
  <2> QED
    BY <2>1, <2>2, <2>3
<1>9. DeletedGone'
  BY <1>0, <1>1 DEF DeletedGone
<1> QED
  BY <1>7, <1>8, <1>9 DEF ExactInv

\* The hot lane: a stale text restored nothing; any other leaves the file exact
\* or, with a job in flight, raced.
LEMMA HotExact ==
  ASSUME TypeInv, ExactInv, NEW h \in Handlers, HotUpdate(h)
  PROVE  ExactInv'
<1> DEFINE j    == handlers[h]
           u    == j.uri
           text == j.text
<1>0. JobsExact /\ BehindRaced /\ CleanSeesAll /\ DeletedGone /\ \A v \in Uris \ raced : ExactOrDue(v)
  BY DEF ExactInv
<1>1. j.pc = "hot" /\ u \in Uris /\ text \in Nat \ {0} /\ documents[u] \in Nat
  BY HandlerKinds DEF TypeInv, HotUpdate
<1>2. \A v \in Uris : Restores(j, v) <=> v = u /\ text >= documents[u]
  BY <1>1 DEF Restores
<1>3. UNCHANGED <<disk, events, enabled, roots>>
  BY DEF HotUpdate
<1>4. CASE Stale(u, text)
  <2>1. handlers' = [handlers EXCEPT ![h] = Free] /\ UNCHANGED <<documents, index, raced>>
    BY <1>4 DEF HotUpdate
  <2>2. \A v \in Uris : ~ Restores(j, v)
    BY <1>1, <1>2, <1>4 DEF Stale
  <2>3. handlers'[h] = Free /\ \A g \in Handlers \ {h} : Carried(g, {})
    BY <2>1, FreedCarried
  <2>4. \A v \in Uris : SourceSame(v)
    BY <1>3, <2>1 DEF SourceSame, SameRoot
  <2>5. {h} \in SUBSET Handlers /\ {} \in SUBSET Uris
    OBVIOUS
  <2>6. JobsExact' /\ BehindRaced' /\ CleanSeesAll'
    <3>1. \A g \in {h} : ~ IsJob(handlers'[g])
      BY <2>3 DEF IsJob, Free
    <3>2. Jobs # {} => raced \cup {} \subseteq raced'
      BY <2>1
    <3>3. \A v \in Uris \ {} : SourceSame(v)
      BY <2>4
    <3> QED
      BY <2>3, <2>5, <3>1, <3>2, <3>3, TouchedExact
  <2>7. ASSUME NEW v \in Uris \ raced'
        PROVE  ExactOrDue(v)'
    <3>1. \A g \in {h} : ~ Restores(handlers[g], v)
      BY <2>2
    <3>2. ExactOrDue(v) /\ SourceSame(v) /\ Of(index', v) = Of(index, v) /\ events'[v] = events[v]
      BY <1>0, <1>3, <2>1, <2>4
    <3> QED
      BY <2>3, <2>5, <3>1, <3>2, TouchedDue
  <2>8. DeletedGone'
    BY <1>0, <1>3 DEF DeletedGone
  <2> QED
    BY <2>6, <2>7, <2>8 DEF ExactInv
<1>5. CASE ~ Stale(u, text)
  <2> DEFINE T == Touched(handlers, {u})
             e == Entry(u, text, TRUE)
  <2>1. /\ handlers' = [T EXCEPT ![h] = Free]
        /\ documents' = [documents EXCEPT ![u] = text]
        /\ index' = IF enabled THEN insert_indexed_document(index, e) ELSE index
        /\ raced' = IF Jobs = {} /\ enabled THEN raced \ {u} ELSE RacedBy({u})
    BY <1>5 DEF HotUpdate
  <2>2. e \in Entries /\ e.uri = u
    BY <1>1 DEF Entry, Entries
  <2>3. DOMAIN T = Handlers
    BY DEF Touched
  <2>4. handlers'[h] = Free /\ \A g \in Handlers \ {h} : handlers'[g] = T[g]
    BY <2>1, <2>3
  <2>5. \A g \in Handlers \ {h} : Carried(g, {u})
    BY <1>1, <2>4, TouchedCarried
  <2> HIDE DEF T, e, u, text
  <2>6. \A v \in Uris \ {u} : SourceSame(v)
    BY <1>3, <2>1 DEF SourceSame, SameRoot, TypeInv
  <2>7. {h} \in SUBSET Handlers /\ {u} \in SUBSET Uris
    BY <1>1
  <2>8. JobsExact' /\ BehindRaced' /\ CleanSeesAll'
    <3>1. \A g \in {h} : ~ IsJob(handlers'[g])
      BY <2>4 DEF IsJob, Free
    <3>2. Jobs # {} => raced \cup {u} \subseteq raced'
      BY <2>1 DEF RacedBy
    <3> QED
      BY <2>5, <2>6, <2>7, <3>1, <3>2, TouchedExact
  <2>9. enabled => \A v \in Uris : Of(index', v) = IF v = u THEN {e} ELSE Of(index, v)
    <3>1. IndexOK(index)
      BY DEF TypeInv
    <3> DEFINE ix == insert_indexed_document(index, e)
    <3>2. Range(ix.entries) = {x \in Range(index.entries) : x.uri # e.uri} \cup {e}
      BY <2>2, <3>1, InsertFacts
    <3> HIDE DEF ix
    <3>3. \A v \in Uris : Of(ix, v) = IF v = u THEN {e} ELSE Of(index, v)
      BY <2>2, <3>2 DEF Of
    <3> QED
      BY <2>1, <3>3 DEF ix
  <2>10. ASSUME NEW v \in Uris \ raced'
         PROVE  ExactOrDue(v)'
    <3>1. CASE v # u
      <4>1. v \notin raced /\ ExactOrDue(v)
        BY <1>0, <2>1, <3>1 DEF RacedBy
      <4>2. \A g \in {h} : ~ Restores(handlers[g], v)
        BY <1>2, <3>1
      <4>3. Of(index', v) = Of(index, v)
        BY <2>1, <2>9, <3>1
      <4>4. SourceSame(v) /\ events'[v] = events[v]
        BY <1>3, <2>6, <3>1
      <4> QED
        BY <2>5, <2>7, <4>1, <4>2, <4>3, <4>4, TouchedDue
    <3>2. CASE v = u /\ enabled
      <4>1. documents'[u] = text /\ enabled'
        BY <1>1, <1>3, <2>1, <3>2 DEF TypeInv
      <4>2. Source(v)' = {e}
        BY <1>1, <3>2, <4>1 DEF Source, e
      <4>3. Of(index, v)' = {e}
        BY <1>1, <2>9, <3>2 DEF Of
      <4> QED
        BY <3>2, <4>2, <4>3 DEF ExactOrDue
    <3>3. CASE v = u /\ ~enabled
      <4>1. v \notin raced /\ ExactOrDue(v)
        BY <1>0, <2>1, <3>3 DEF RacedBy
      <4>2. Of(index, v) = {}
        BY <3>3, <4>1 DEF ExactOrDue, Source
      <4>3. index' = index /\ ~enabled'
        BY <1>3, <2>1, <3>3
      <4>4. Source(v)' = {} /\ Of(index, v)' = {}
        BY <4>2, <4>3 DEF Source, Of
      <4> QED
        BY <4>4 DEF ExactOrDue
    <3> QED
      BY <3>1, <3>2, <3>3
  <2>11. DeletedGone'
    BY <1>0, <1>3 DEF DeletedGone
  <2> QED
    BY <2>8, <2>10, <2>11 DEF ExactInv
<1> QED
  BY <1>4, <1>5

\* Watched files: a scan of the files that are not open takes the events over.
LEMMA WatchedExact ==
  ASSUME TypeInv, ExactInv, NEW h \in Handlers, DidChangeWatchedFiles(h)
  PROVE  ExactInv'
<1>0. JobsExact /\ BehindRaced /\ CleanSeesAll /\ DeletedGone /\ \A v \in Uris \ raced : ExactOrDue(v)
  BY DEF ExactInv
<1>1. /\ handlers[h] = Free /\ events' = NoEvent
      /\ UNCHANGED <<disk, enabled, roots, documents, raced>>
  BY DEF DidChangeWatchedFiles
<1>2. \A u \in Uris : SourceSame(u)
  BY <1>1 DEF SourceSame, SameRoot
<1>3. DeletedGone'
  BY <1>1 DEF DeletedGone, NoEvent
<1>4. CASE enabled
  <2> DEFINE ch == [u \in {v \in Uris : ClosedFiles(v)} |-> events[u]]
             j  == [pc |-> "scan", roots |-> roots, behind |-> {}, changes |-> ch]
  <2>1. handlers' = [handlers EXCEPT ![h] = j] /\ index' = index
    BY <1>4 DEF DidChangeWatchedFiles
  <2>2. j.pc = "scan" /\ j.roots = roots /\ j.behind = {} /\ j.changes = ch
    OBVIOUS
  <2>3. /\ \A u \in Uris : u \in DOMAIN ch <=> events[u] # "none" /\ documents[u] = 0
        /\ \A u \in DOMAIN ch : ch[u] = events[u]
    BY DEF ClosedFiles
  <2> HIDE DEF j, ch
  <2>4. handlers'[h] = j /\ \A g \in Handlers \ {h} : handlers'[g] = handlers[g] /\ Carried(g, {})
    BY <2>1, FreedCarried
  <2>5. \A g \in Jobs' : g = h \/ (g \in Jobs /\ g # h)
    BY <2>4 DEF Jobs
  <2>6. JobsExact'
    <3> SUFFICES ASSUME NEW g \in Jobs', NEW u \in Uris \ handlers'[g].behind
                 PROVE  JobExact(handlers[g], u)'
      BY DEF JobsExact
    <3>1. CASE g = h
      <4>1. handlers'[h].pc = "scan" /\ handlers'[h].roots = roots' /\ handlers'[h].changes = ch
        BY <1>1, <2>2, <2>4
      <4>2. u \in DOMAIN ch => documents'[u] = 0 /\ (ch[u] = "deleted" => disk'[u] = 0)
        BY <1>0, <1>1, <2>3 DEF DeletedGone
      <4>3. enabled'
        BY <1>1, <1>4
      <4> QED
        BY <3>1, <4>1, <4>2, <4>3 DEF JobExact, SameRoot
    <3>2. CASE g # h
      <4>1. Carries(handlers[g], handlers'[g], {}) /\ handlers'[g] = handlers[g] /\ IsJob(handlers[g])
        BY <2>4, <2>5, <3>2 DEF Carried, Jobs, IsJob
      <4>2. JobExact(handlers[g], u)
        BY <1>0, <2>5, <3>2, <4>1 DEF JobsExact
      <4> QED
        BY <1>2, <4>1, <4>2, CarriesExact
    <3> QED
      BY <3>1, <3>2
  <2>7. ASSUME NEW g \in Jobs'
        PROVE  \/ /\ g \in Jobs /\ handlers'[g].behind = handlers[g].behind \cup {}
                  /\ IsBuild(handlers'[g]) => IsBuild(handlers[g]) /\ handlers'[g].clean = handlers[g].clean
               \/ /\ handlers'[g].behind = {}
                  /\ IsBuild(handlers'[g]) /\ handlers'[g].clean => Jobs = {}
    <3>1. CASE g = h
      BY <2>2, <2>4, <3>1 DEF IsBuild
    <3>2. CASE g \in Jobs /\ g # h
      <4>1. g \in Handlers
        BY <3>2 DEF Jobs
      <4> QED
        BY <2>4, <3>2, <4>1
    <3> QED
      BY <2>5, <3>1, <3>2
  <2>8. BehindRaced' /\ CleanSeesAll'
    <3>1. Jobs # {} => raced \cup {} \subseteq raced'
      BY <1>1
    <3> QED
      BY <1>0, <2>7, <3>1, BehindKept
  <2>9. ASSUME NEW u \in Uris \ raced'
        PROVE  ExactOrDue(u)'
    <3>0. ExactOrDue(u) /\ enabled'
      BY <1>0, <1>1, <1>4
    <3>1. CASE Of(index, u) = Source(u)
      <4>1. Source(u)' = Source(u)
        BY <1>2, SourceKept
      <4> QED
        BY <2>1, <3>1, <4>1 DEF ExactOrDue, Of
    <3>2. CASE events[u] # "none" /\ documents[u] = 0
      <4>1. Restores(handlers[h], u)'
        BY <2>2, <2>3, <2>4, <3>2 DEF Restores
      <4> QED
        BY <3>0, <4>1 DEF ExactOrDue
    <3>3. CASE \E g \in Handlers : Restores(handlers[g], u)
      <4>1. PICK g \in Handlers : Restores(handlers[g], u)
        BY <3>3
      <4>2. g # h
        BY <1>1, <4>1 DEF Restores, Free
      <4>3. Restores(handlers[g], u)'
        BY <1>1, <2>4, <4>1, <4>2 DEF Restores
      <4> QED
        BY <3>0, <4>3 DEF ExactOrDue
    <3> QED
      BY <3>0, <3>1, <3>2, <3>3 DEF ExactOrDue
  <2> QED
    BY <1>3, <2>6, <2>8, <2>9 DEF ExactInv
<1>5. CASE ~enabled
  <2>1. handlers' = Touched(handlers, {}) /\ index' = EmptyIndex
    BY <1>5 DEF DidChangeWatchedFiles, ClearIndex
  <2>2. {} \in SUBSET Uris /\ {} \in SUBSET Handlers
    OBVIOUS
  <2>3. \A g \in Handlers \ {} : Carried(g, {})
    BY <2>1, <2>2, TouchedCarried
  <2>4. JobsExact' /\ BehindRaced' /\ CleanSeesAll'
    <3>1. \A g \in {} : ~ IsJob(handlers'[g])
      OBVIOUS
    <3>2. Jobs # {} => raced \cup {} \subseteq raced'
      BY <1>1
    <3>3. \A v \in Uris \ {} : SourceSame(v)
      BY <1>2
    <3> QED
      BY <2>2, <2>3, <3>1, <3>2, <3>3, TouchedExact
  <2>5. ASSUME NEW u \in Uris
        PROVE  ExactOrDue(u)'
    <3>1. Source(u)' = {}
      BY <1>1, <1>5 DEF Source
    <3>2. Of(EmptyIndex, u) = {}
      BY EmptyFacts
    <3> QED
      BY <2>1, <3>1, <3>2 DEF ExactOrDue, Of
  <2> QED
    BY <1>3, <2>4, <2>5 DEF ExactInv
<1> QED
  BY <1>4, <1>5

\* A file written or removed: its event is due, unless its document is open.
LEMMA DiskExact ==
  ASSUME TypeInv, ExactInv, NEW u \in Uris, WriteFile(u) \/ RemoveFile(u)
  PROVE  ExactInv'
<1>0. JobsExact /\ BehindRaced /\ CleanSeesAll /\ DeletedGone /\ \A v \in Uris \ raced : ExactOrDue(v)
  BY DEF ExactInv
<1>1. /\ handlers' = Touched(handlers, {u}) /\ raced' = RacedBy({u})
      /\ \A v \in Uris \ {u} : disk'[v] = disk[v] /\ events'[v] = events[v]
      /\ events'[u] # "none" /\ (events'[u] = "deleted" => disk'[u] = 0)
      /\ UNCHANGED <<enabled, roots, documents, index>>
  BY DEF WriteFile, RemoveFile, TypeInv
<1>2. \A v \in Uris \ {u} : SourceSame(v)
  BY <1>1 DEF SourceSame, SameRoot
<1>3. {u} \in SUBSET Uris /\ {} \in SUBSET Handlers
  OBVIOUS
<1>4. \A g \in Handlers \ {} : Carried(g, {u})
  BY <1>1, <1>3, TouchedCarried
<1>5. JobsExact' /\ BehindRaced' /\ CleanSeesAll'
  <2>1. \A g \in {} : ~ IsJob(handlers'[g])
    OBVIOUS
  <2>2. Jobs # {} => raced \cup {u} \subseteq raced'
    BY <1>1 DEF RacedBy
  <2> QED
    BY <1>2, <1>3, <1>4, <2>1, <2>2, TouchedExact
<1>6. DeletedGone'
  BY <1>0, <1>1 DEF DeletedGone
<1>7. ASSUME NEW v \in Uris \ raced'
      PROVE  ExactOrDue(v)'
  <2>0. v \notin raced /\ ExactOrDue(v)
    BY <1>0, <1>1 DEF RacedBy
  <2>1. CASE v # u
    <3>1. \A g \in {} : ~ Restores(handlers[g], v)
      OBVIOUS
    <3>2. SourceSame(v) /\ Of(index', v) = Of(index, v) /\ events'[v] = events[v]
      BY <1>1, <1>2, <2>1
    <3> QED
      BY <1>3, <1>4, <2>0, <3>1, <3>2, TouchedDue
  <2>2. CASE v = u /\ ~enabled
    BY <1>1, <2>0, <2>2 DEF ExactOrDue, Source, Of
  <2>3. CASE v = u /\ enabled /\ documents[u] = 0
    BY <1>1, <2>3 DEF ExactOrDue
  <2>4. CASE v = u /\ enabled /\ documents[u] # 0
    <3>1. CASE Of(index, u) = Source(u)
      BY <1>1, <2>4, <3>1 DEF ExactOrDue, Source, Of
    <3>2. CASE \E g \in Handlers : Restores(handlers[g], u)
      <4>1. PICK g \in Handlers : Restores(handlers[g], u)
        BY <3>2
      <4>2. \/ handlers'[g] = handlers[g]
            \/ Carries(handlers[g], handlers'[g], {u}) /\ IsJob(handlers[g])
        BY <1>4 DEF Carried, Jobs, IsJob
      <4>3. Restores(handlers[g], u)'
        BY <1>1, <4>1, <4>2, RestoresKept
      <4> QED
        BY <1>1, <2>4, <4>3 DEF ExactOrDue
    <3> QED
      BY <2>0, <2>4, <3>1, <3>2 DEF ExactOrDue
  <2> QED
    BY <2>1, <2>2, <2>3, <2>4 DEF TypeInv
<1> QED
  BY <1>5, <1>6, <1>7 DEF ExactInv

\* Every step keeps the index exact or its restoration due.
LEMMA ExactStep == TypeInv /\ TypeInv' /\ ExactInv /\ [Next]_vars => ExactInv'
<1> SUFFICES ASSUME TypeInv, TypeInv', ExactInv, [Next]_vars
             PROVE  ExactInv'
  OBVIOUS
<1>0. ASSUME NEW h \in Handlers, handlers[h] = Free, NEW U \in SUBSET Uris,
             refresh_workspace_index(h, enabled', roots', documents', U),
             \A u \in Uris \ U : SourceSame(u), UNCHANGED <<disk, events>>
      PROVE  ExactInv'
  <2>1. /\ JobsExact' /\ BehindRaced' /\ CleanSeesAll'
        /\ \A u \in Uris : ExactOrDue(u)'
    BY <1>0, RefreshExact
  <2>2. DeletedGone'
    BY <1>0 DEF ExactInv, DeletedGone
  <2> QED
    BY <2>1, <2>2 DEF ExactInv
<1>1. ASSUME NEW h \in Handlers, ManifestChanged(h)
      PROVE  ExactInv'
  <2>1. /\ handlers[h] = Free /\ refresh_workspace_index(h, enabled, roots, documents, {})
        /\ UNCHANGED <<disk, events, enabled, roots, documents>>
    BY <1>1 DEF ManifestChanged
  <2>2. refresh_workspace_index(h, enabled', roots', documents', {})
    BY <2>1
  <2>3. \A u \in Uris \ {} : SourceSame(u)
    BY <2>1 DEF SourceSame, SameRoot
  <2>4. {} \in SUBSET Uris
    OBVIOUS
  <2> QED
    BY <1>0, <2>1, <2>2, <2>3, <2>4
<1>2. ASSUME NEW h \in Handlers, DidChangeConfiguration(h)
      PROVE  ExactInv'
  <2>1. /\ handlers[h] = Free /\ refresh_workspace_index(h, enabled', roots, documents, Uris)
        /\ UNCHANGED <<disk, events, roots, documents>>
    BY <1>2 DEF DidChangeConfiguration
  <2>2. refresh_workspace_index(h, enabled', roots', documents', Uris)
    BY <2>1
  <2>3. Uris \in SUBSET Uris /\ \A u \in Uris \ Uris : SourceSame(u)
    OBVIOUS
  <2> QED
    BY <1>0, <2>1, <2>2, <2>3
<1>3. ASSUME NEW h \in Handlers, NEW f \in Folders, DidChangeWorkspaceFolders(h, f)
      PROVE  ExactInv'
  <2> DEFINE U == {u \in Uris : Folder[u] = f}
  <2>1. /\ handlers[h] = Free /\ refresh_workspace_index(h, enabled, roots', documents, U)
        /\ UNCHANGED <<disk, events, enabled, documents>>
        /\ roots' = IF f \in roots THEN roots \ {f} ELSE roots \cup {f}
    BY <1>3 DEF DidChangeWorkspaceFolders
  <2>2. U \in SUBSET Uris /\ \A u \in Uris \ U : SourceSame(u)
    BY <2>1 DEF SourceSame, SameRoot
  <2> HIDE DEF U
  <2>3. refresh_workspace_index(h, enabled', roots', documents', U)
    BY <2>1
  <2> QED
    BY <1>0, <2>1, <2>2, <2>3
<1>4. ASSUME NEW h \in Handlers, NEW u \in Uris, DidClose(h, u)
      PROVE  ExactInv'
  <2>1. /\ handlers[h] = Free /\ refresh_workspace_index(h, enabled, roots, documents', {u})
        /\ UNCHANGED <<disk, events, enabled, roots>>
        /\ documents' = [documents EXCEPT ![u] = 0]
    BY <1>4 DEF DidClose
  <2>2. {u} \in SUBSET Uris /\ \A v \in Uris \ {u} : SourceSame(v)
    BY <2>1 DEF SourceSame, SameRoot, TypeInv
  <2>3. refresh_workspace_index(h, enabled', roots', documents', {u})
    BY <2>1
  <2> QED
    BY <1>0, <2>1, <2>2, <2>3
<1>5. CASE UNCHANGED vars
  <2>1. UNCHANGED <<disk, events, enabled, roots, documents, index, handlers, raced>>
    BY <1>5 DEF vars
  <2>2. Jobs' = Jobs
    BY <2>1 DEF Jobs
  <2>3. \A u \in Uris : SourceSame(u)
    BY <2>1 DEF SourceSame, SameRoot
  <2>4. \A g \in Handlers : Carried(g, {})
    BY <2>1, SameCarried
  <2>5. JobsExact' /\ BehindRaced' /\ CleanSeesAll'
    <3>1. {} \in SUBSET Uris /\ {} \in SUBSET Handlers /\ \A g \in {} : ~ IsJob(handlers'[g])
      OBVIOUS
    <3>2. (\A g \in Handlers \ {} : Carried(g, {})) /\ (\A u \in Uris \ {} : SourceSame(u))
      BY <2>3, <2>4
    <3>3. Jobs # {} => raced \cup {} \subseteq raced'
      BY <2>1
    <3> QED
      BY <3>1, <3>2, <3>3, TouchedExact
  <2>6. ASSUME NEW u \in Uris \ raced'
        PROVE  ExactOrDue(u)'
    <3>1. \A g \in Handlers : Restores(handlers[g], u) => Restores(handlers[g], u)'
      BY <2>1 DEF Restores
    <3>2. ExactOrDue(u) /\ SourceSame(u) /\ Of(index', u) = Of(index, u) /\ events'[u] = events[u]
      BY <2>1, <2>3 DEF ExactInv
    <3> QED
      BY <3>1, <3>2, DueKept
  <2>7. DeletedGone'
    BY <2>1 DEF ExactInv, DeletedGone
  <2> QED
    BY <2>5, <2>6, <2>7 DEF ExactInv
<1> QED
  BY <1>1, <1>2, <1>3, <1>4, <1>5, BuildExact, StoreExact, PanicExact, ScanExact, ApplyExact,
     HotExact, WatchedExact, DidUpdateExact, DiskExact DEF Next

\* Incremental maintenance is as good as a rebuild: with no job in flight and no
\* event undelivered, the index holds of every file that was not raced what a
\* build from the sources of the moment would (workspace_indexing.rs and the
\* hot lane's update).
THEOREM IndexIsExact == Spec => []IndexExactUnlessRaced
<1>1. TypeInv /\ ExactInv => IndexExactUnlessRaced
  <2> SUFFICES ASSUME TypeInv, ExactInv, AtRest, NEW u \in Uris \ raced
               PROVE  EntriesOf(u) = Source(u)
    BY DEF IndexExactUnlessRaced
  <2>1. ExactOrDue(u)
    BY DEF ExactInv
  <2>2. events[u] = "none"
    BY DEF AtRest, NoEvent
  <2>3. \A h \in Handlers : ~ Restores(handlers[h], u)
    BY DEF AtRest, Restores, Free
  <2> QED
    BY <2>1, <2>2, <2>3 DEF ExactOrDue, EntriesOf, Of
<1> QED
  BY <1>1, TypesHold, ExactInit, ExactStep, PTL DEF Spec
=============================================================================
