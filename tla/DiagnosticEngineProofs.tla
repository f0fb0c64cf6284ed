----------------------- MODULE DiagnosticEngineProofs -----------------------
(***************************************************************************)
(* Proofs about DiagnosticEngine for any registry, findings, settings,     *)
(* typing regions and suppression directives.  The steps of arbitration    *)
(* are recursive functions over a list: each gets a lemma about what it    *)
(* returns, by induction over the length of the list.                      *)
(***************************************************************************)
EXTENDS DiagnosticEngine, WellFoundedInduction, SequenceTheorems, TLAPS

(***************************************************************************)
(* Diagnostics: the fields of the findings and the related information.    *)
(***************************************************************************)
Sources == Findings \cup SyntaxErrors
Places  == {f.range : f \in Sources}
Topics  == {f.topic : f \in Sources}
Codes   == {f.code : f \in Sources}
Names   == [range : Places, topic : Topics, code : Codes]
Diagnostics ==
  [range : Places, topic : Topics, code : Codes, rank : 0..3, related : SUBSET Names]

\* At most one diagnostic of a list has a range and topic; and a name.
OneOfTopic(s) == \A i, j \in DOMAIN s : SameTopic(s[i], s[j]) => i = j
OneOfName(s)  == \A i, j \in DOMAIN s : Named(s[i]) = Named(s[j]) => i = j

\* Everything in S is in R, or is named by the diagnostic R has of its topic.
Kept(S, R) ==
  \A e \in S : \E d \in R :
    Named(d) = Named(e) \/ (SameTopic(e, d) /\ Named(e) \in d.related)
\* Everything in R is one of S, with other related information.
From(R, S) == \A d \in R : \E e \in S : Named(e) = Named(d) /\ e.rank = d.rank
\* What R has of a topic is the most confident S has.
Best(R, S) == \A d \in R : \A e \in S : SameTopic(d, e) => e.rank <= d.rank

-----------------------------------------------------------------------------
\* Every nonempty set of natural numbers has a least member.
LEMMA LeastMember ==
  ASSUME NEW S, S \subseteq Nat, S # {}
  PROVE  \E x \in S : \A y \in S : x <= y
<1> DEFINE R == OpToRel(<, Nat)
<1>1. \A x, y \in Nat : <<x, y>> \in R <=> x < y
  BY DEF OpToRel
<1> HIDE DEF R
<1>2. IsWellFoundedOn(R, Nat)
  BY NatLessThanWellFounded DEF R
<1>3. \E x \in S : \A y \in S : ~ (<<y, x>> \in R)
  BY <1>2, WFMin
<1>4. PICK x \in S : \A y \in S : ~ (y < x)
  BY <1>1, <1>3
<1>5. \A y \in S : x <= y
  BY <1>4
<1> QED
  BY <1>5

\* Induction over the natural numbers, for a set instead of a predicate.
LEMMA SetInduction ==
  ASSUME NEW T, 0 \in T, \A n \in Nat : n \in T => n + 1 \in T
  PROVE  Nat \subseteq T
<1> SUFFICES ASSUME Nat \ T # {}
             PROVE  FALSE
  OBVIOUS
<1>1. PICK x \in Nat \ T : \A y \in Nat \ T : x <= y
  BY LeastMember
<1>2. x # 0 /\ x - 1 \in Nat /\ ~ (x <= x - 1)
  BY <1>1
<1> QED
  BY <1>1, <1>2

-----------------------------------------------------------------------------
(***************************************************************************)
(* Sequences.                                                              *)
(***************************************************************************)
\* The elements up to one index more.
LEMMA FirstGrows ==
  ASSUME NEW s, NEW k \in Nat
  PROVE  {s[i] : i \in 1..k + 1} = {s[i] : i \in 1..k} \cup {s[k + 1]}
<1>1. \A i \in 1..k + 1 : i = k + 1 \/ i \in 1..k
  OBVIOUS
<1>2. k + 1 \in 1..k + 1 /\ \A i \in 1..k : i \in 1..k + 1
  OBVIOUS
<1> QED
  BY <1>1, <1>2

\* What Append does to the elements and the indices.
LEMMA AppendFacts ==
  ASSUME NEW E, NEW t \in Seq(E), NEW e \in E
  PROVE  /\ Append(t, e) \in Seq(E)
         /\ Range(Append(t, e)) = Range(t) \cup {e}
         /\ DOMAIN t = 1..Len(t) /\ Len(t) \in Nat
         /\ DOMAIN Append(t, e) = DOMAIN t \cup {Len(t) + 1} /\ Len(t) + 1 \notin DOMAIN t
         /\ Append(t, e)[Len(t) + 1] = e /\ \A i \in DOMAIN t : Append(t, e)[i] = t[i]
<1>1. /\ Append(t, e) \in Seq(E) /\ DOMAIN Append(t, e) = 1..Len(t) + 1
      /\ Append(t, e)[Len(t) + 1] = e /\ \A i \in 1..Len(t) : Append(t, e)[i] = t[i]
      /\ DOMAIN t = 1..Len(t) /\ Len(t) \in Nat
  OBVIOUS
<1>2. 1..Len(t) + 1 = 1..Len(t) \cup {Len(t) + 1} /\ Len(t) + 1 \notin 1..Len(t)
  BY <1>1
<1>3. Range(Append(t, e)) = Range(t) \cup {e}
  BY <1>1, <1>2 DEF Range
<1> QED
  BY <1>1, <1>2, <1>3

\* A step of Select.
SelectStep(s, S, f, k) ==
  IF k = 0 THEN <<>>
  ELSE IF s[k] \in S THEN Append(f[k - 1], s[k]) ELSE f[k - 1]

\* The recursion that Select is written with has a solution.
LEMMA SelectExists ==
  ASSUME NEW s, NEW S, NEW n \in Nat
  PROVE  \E f : f = [k \in 0..n |-> SelectStep(s, S, f, k)]
<1> DEFINE Step(f, k) == SelectStep(s, S, f, k)
           Solved(m) == \E f : f = [k \in 0..m |-> Step(f, k)]
           T == {m \in Nat : Solved(m)}
<1>1. Solved(0)
  <2> DEFINE f == [k \in 0..0 |-> <<>>]
  <2>1. f = [k \in 0..0 |-> Step(f, k)]
    BY DEF SelectStep
  <2> QED
    BY <2>1
<1>2. ASSUME NEW m \in Nat, Solved(m)
      PROVE  Solved(m + 1)
  <2>1. PICK f : f = [k \in 0..m |-> Step(f, k)]
    BY <1>2
  <2> DEFINE g == [k \in 0..m + 1 |-> IF k = m + 1 THEN Step(f, k) ELSE f[k]]
  <2>2. ASSUME NEW k \in 0..m + 1
        PROVE  g[k] = Step(g, k)
    <3>1. k # 0 => k - 1 \in 0..m /\ g[k - 1] = f[k - 1]
      OBVIOUS
    <3>2. Step(g, k) = Step(f, k)
      BY <3>1 DEF SelectStep
    <3>3. k # m + 1 => k \in 0..m
      OBVIOUS
    <3>4. k # m + 1 => f[k] = Step(f, k)
      BY <2>1, <3>3
    <3> QED
      BY <3>2, <3>4
  <2>3. g = [k \in 0..m + 1 |-> Step(g, k)]
    BY <2>2
  <2> QED
    BY <2>3
<1> HIDE DEF Solved
<1>3. 0 \in T /\ \A m \in Nat : m \in T => m + 1 \in T
  BY <1>1, <1>2
<1>4. Nat \subseteq T
  BY <1>3, SetInduction
<1>5. Solved(n)
  BY <1>4
<1> QED
  BY <1>5 DEF Solved

\* Select keeps the members in S.
LEMMA SelectFacts ==
  ASSUME NEW E, NEW s \in Seq(E), NEW S
  PROVE  Select(s, S) \in Seq(E) /\ Range(Select(s, S)) = Range(s) \cap S
<1> DEFINE n == Len(s)
           Step(f, k) == SelectStep(s, S, f, k)
           kept == CHOOSE f : f = [k \in 0..n |-> Step(f, k)]
           First(k) == {s[i] : i \in 1..k}
           Right(k) == kept[k] \in Seq(E) /\ Range(kept[k]) = First(k) \cap S
           T == {k \in Nat : k <= n => Right(k)}
<1>1. n \in Nat /\ DOMAIN s = 1..n
  OBVIOUS
<1>2. kept = [k \in 0..n |-> Step(kept, k)]
  <2>1. \E f : f = [k \in 0..n |-> Step(f, k)]
    BY <1>1, SelectExists
  <2> QED
    BY <2>1, Zenon
<1>3. Select(s, S) = kept[n]
  BY DEF Select, SelectStep
<1> HIDE DEF kept, n
<1>4. Right(0)
  <2>1. kept[0] = <<>>
    BY <1>1, <1>2 DEF SelectStep
  <2> QED
    BY <2>1 DEF Range
<1>5. ASSUME NEW k \in Nat, k + 1 <= n, Right(k)
      PROVE  Right(k + 1)
  <2>1. k \in 0..n /\ k + 1 \in 1..n /\ k + 1 \in 0..n /\ k + 1 # 0 /\ k + 1 - 1 = k
    BY <1>1, <1>5
  <2>2. kept[k + 1] = IF s[k + 1] \in S THEN Append(kept[k], s[k + 1]) ELSE kept[k]
    <3>1. kept[k + 1] = Step(kept, k + 1)
      BY <1>2, <2>1, Zenon
    <3> QED
      BY <2>1, <3>1 DEF SelectStep
  <2>3. First(k + 1) = First(k) \cup {s[k + 1]}
    BY FirstGrows
  <2>4. s[k + 1] \in E
    BY <1>1, <2>1
  <2>5. Append(kept[k], s[k + 1]) \in Seq(E)
        /\ Range(Append(kept[k], s[k + 1])) = Range(kept[k]) \cup {s[k + 1]}
    BY <1>5, <2>4, AppendFacts
  <2> QED
    BY <1>5, <2>2, <2>3, <2>5
<1> HIDE DEF Right
<1>6. 0 \in T /\ \A k \in Nat : k \in T => k + 1 \in T
  <2>1. ASSUME NEW k \in Nat, k \in T, k + 1 <= n
        PROVE  Right(k + 1)
    <3>1. k <= n
      BY <1>1, <2>1
    <3> QED
      BY <1>5, <2>1, <3>1
  <2> QED
    BY <1>4, <2>1
<1>7. Nat \subseteq T
  BY <1>6, SetInduction
<1>8. Right(n)
  BY <1>1, <1>7
<1>9. First(n) = Range(s)
  BY <1>1 DEF Range
<1> QED
  BY <1>3, <1>8, <1>9 DEF Right

\* A step of prefer_highest_confidence_by_topic.
PreferStep(s, f, k) == IF k = 0 THEN <<>> ELSE Prefer(f[k - 1], s[k])

\* The recursion that prefer_highest_confidence_by_topic is written with has a solution.
LEMMA PreferExists ==
  ASSUME NEW s, NEW n \in Nat
  PROVE  \E f : f = [k \in 0..n |-> PreferStep(s, f, k)]
<1> DEFINE Step(f, k) == PreferStep(s, f, k)
           Solved(m) == \E f : f = [k \in 0..m |-> Step(f, k)]
           T == {m \in Nat : Solved(m)}
<1>1. Solved(0)
  <2> DEFINE f == [k \in 0..0 |-> <<>>]
  <2>1. f = [k \in 0..0 |-> Step(f, k)]
    BY DEF PreferStep
  <2> QED
    BY <2>1
<1>2. ASSUME NEW m \in Nat, Solved(m)
      PROVE  Solved(m + 1)
  <2>1. PICK f : f = [k \in 0..m |-> Step(f, k)]
    BY <1>2
  <2> DEFINE g == [k \in 0..m + 1 |-> IF k = m + 1 THEN Step(f, k) ELSE f[k]]
  <2>2. ASSUME NEW k \in 0..m + 1
        PROVE  g[k] = Step(g, k)
    <3>1. k # 0 => k - 1 \in 0..m /\ g[k - 1] = f[k - 1]
      OBVIOUS
    <3>2. Step(g, k) = Step(f, k)
      BY <3>1 DEF PreferStep
    <3>3. k # m + 1 => k \in 0..m
      OBVIOUS
    <3>4. k # m + 1 => f[k] = Step(f, k)
      BY <2>1, <3>3
    <3> QED
      BY <3>2, <3>4
  <2>3. g = [k \in 0..m + 1 |-> Step(g, k)]
    BY <2>2
  <2> QED
    BY <2>3
<1> HIDE DEF Solved
<1>3. 0 \in T /\ \A m \in Nat : m \in T => m + 1 \in T
  BY <1>1, <1>2
<1>4. Nat \subseteq T
  BY <1>3, SetInduction
<1>5. Solved(n)
  BY <1>4
<1> QED
  BY <1>5 DEF Solved

\* A step of dedupe.
DedupeStep(s, f, k) == IF k = 0 THEN <<>> ELSE AddNew(f[k - 1], s[k])

\* The recursion that dedupe is written with has a solution.
LEMMA DedupeExists ==
  ASSUME NEW s, NEW n \in Nat
  PROVE  \E f : f = [k \in 0..n |-> DedupeStep(s, f, k)]
<1> DEFINE Step(f, k) == DedupeStep(s, f, k)
           Solved(m) == \E f : f = [k \in 0..m |-> Step(f, k)]
           T == {m \in Nat : Solved(m)}
<1>1. Solved(0)
  <2> DEFINE f == [k \in 0..0 |-> <<>>]
  <2>1. f = [k \in 0..0 |-> Step(f, k)]
    BY DEF DedupeStep
  <2> QED
    BY <2>1
<1>2. ASSUME NEW m \in Nat, Solved(m)
      PROVE  Solved(m + 1)
  <2>1. PICK f : f = [k \in 0..m |-> Step(f, k)]
    BY <1>2
  <2> DEFINE g == [k \in 0..m + 1 |-> IF k = m + 1 THEN Step(f, k) ELSE f[k]]
  <2>2. ASSUME NEW k \in 0..m + 1
        PROVE  g[k] = Step(g, k)
    <3>1. k # 0 => k - 1 \in 0..m /\ g[k - 1] = f[k - 1]
      OBVIOUS
    <3>2. Step(g, k) = Step(f, k)
      BY <3>1 DEF DedupeStep
    <3>3. k # m + 1 => k \in 0..m
      OBVIOUS
    <3>4. k # m + 1 => f[k] = Step(f, k)
      BY <2>1, <3>3
    <3> QED
      BY <3>2, <3>4
  <2>3. g = [k \in 0..m + 1 |-> Step(g, k)]
    BY <2>2
  <2> QED
    BY <2>3
<1> HIDE DEF Solved
<1>3. 0 \in T /\ \A m \in Nat : m \in T => m + 1 \in T
  BY <1>1, <1>2
<1>4. Nat \subseteq T
  BY <1>3, SetInduction
<1>5. Solved(n)
  BY <1>4
<1> QED
  BY <1>5 DEF Solved

\* dedupe keeps one diagnostic of each name.
LEMMA DedupeFacts ==
  ASSUME NEW E, NEW s \in Seq(E)
  PROVE  /\ dedupe(s) \in Seq(E)
         /\ Range(dedupe(s)) \subseteq Range(s)
         /\ \A d \in Range(s) : \E e \in Range(dedupe(s)) : Named(e) = Named(d)
         /\ OneOfName(dedupe(s))
<1> DEFINE n == Len(s)
           Step(f, k) == DedupeStep(s, f, k)
           kept == CHOOSE f : f = [k \in 0..n |-> Step(f, k)]
           First(k) == {s[i] : i \in 1..k}
           Right(k) == /\ kept[k] \in Seq(E)
                       /\ Range(kept[k]) \subseteq First(k)
                       /\ \A d \in First(k) : \E e \in Range(kept[k]) : Named(e) = Named(d)
                       /\ OneOfName(kept[k])
           T == {k \in Nat : k <= n => Right(k)}
<1>1. n \in Nat /\ DOMAIN s = 1..n
  OBVIOUS
<1>2. kept = [k \in 0..n |-> Step(kept, k)]
  <2>1. \E f : f = [k \in 0..n |-> Step(f, k)]
    BY <1>1, DedupeExists
  <2> QED
    BY <2>1, Zenon
<1>3. dedupe(s) = kept[n]
  BY DEF dedupe, DedupeStep
<1> HIDE DEF kept, n
<1>4. Right(0)
  <2>1. kept[0] = <<>>
    BY <1>1, <1>2 DEF DedupeStep
  <2> QED
    BY <2>1 DEF Range, OneOfName
<1>5. ASSUME NEW k \in Nat, k + 1 <= n, Right(k)
      PROVE  Right(k + 1)
  <2>1. k \in 0..n /\ k + 1 \in 1..n /\ k + 1 \in 0..n /\ k + 1 # 0 /\ k + 1 - 1 = k
    BY <1>1, <1>5
  <2> DEFINE t == kept[k]
             d == s[k + 1]
  <2>2. kept[k + 1] = AddNew(t, d)
    <3>1. kept[k + 1] = Step(kept, k + 1)
      BY <1>2, <2>1, Zenon
    <3> QED
      BY <2>1, <3>1 DEF DedupeStep
  <2>3. First(k + 1) = First(k) \cup {d}
    BY FirstGrows
  <2>4. d \in E /\ t \in Seq(E)
    BY <1>1, <1>5, <2>1
  <2>5. /\ Range(t) \subseteq First(k) /\ OneOfName(t)
        /\ \A c \in First(k) : \E e \in Range(t) : Named(e) = Named(c)
    BY <1>5
  <2> HIDE DEF t, d
  <2>6. CASE \E e \in Range(t) : Named(e) = Named(d)
    <3>1. kept[k + 1] = t
      BY <2>2, <2>6 DEF AddNew
    <3> QED
      BY <2>3, <2>4, <2>5, <2>6, <3>1
  <2>7. CASE ~ \E e \in Range(t) : Named(e) = Named(d)
    <3>1. kept[k + 1] = Append(t, d)
      BY <2>2, <2>7 DEF AddNew
    <3>2. /\ Append(t, d) \in Seq(E) /\ Range(Append(t, d)) = Range(t) \cup {d}
          /\ DOMAIN Append(t, d) = DOMAIN t \cup {Len(t) + 1}
          /\ Append(t, d)[Len(t) + 1] = d /\ \A i \in DOMAIN t : Append(t, d)[i] = t[i]
      BY <2>4, AppendFacts
    <3>3. \A i \in DOMAIN t : t[i] \in Range(t)
      BY DEF Range
    <3>4. OneOfName(Append(t, d))
      BY <2>5, <2>7, <3>2, <3>3 DEF OneOfName
    <3> QED
      BY <2>3, <2>5, <3>1, <3>2, <3>4
  <2> QED
    BY <2>6, <2>7
<1> HIDE DEF Right
<1>6. 0 \in T /\ \A k \in Nat : k \in T => k + 1 \in T
  <2>1. ASSUME NEW k \in Nat, k \in T, k + 1 <= n
        PROVE  Right(k + 1)
    <3>1. k <= n
      BY <1>1, <2>1
    <3> QED
      BY <1>5, <2>1, <3>1
  <2> QED
    BY <1>4, <2>1
<1>7. Nat \subseteq T
  BY <1>6, SetInduction
<1>8. Right(n)
  BY <1>1, <1>7
<1>9. First(n) = Range(s)
  BY <1>1 DEF Range
<1> QED
  BY <1>3, <1>8, <1>9 DEF Right

-----------------------------------------------------------------------------
\* The one that survives takes the name of the other, and what that one took.
LEMMA AppendRelated ==
  ASSUME NEW a \in Diagnostics, NEW b \in Diagnostics
  PROVE  LET r == append_related(a, b)
         IN /\ r \in Diagnostics /\ Named(r) = Named(a) /\ r.rank = a.rank
            /\ r.topic = a.topic /\ r.range = a.range
            /\ Named(b) \in r.related
            /\ a.related \subseteq r.related /\ b.related \subseteq r.related
<1> DEFINE r == append_related(a, b)
<1>1. Named(b) \in Names
  BY DEF Named, Names, Diagnostics
<1>2. r = [a EXCEPT !.related = a.related \cup {Named(b)} \cup b.related]
  BY DEF append_related
<1>3. r \in Diagnostics /\ r.related = a.related \cup {Named(b)} \cup b.related
      /\ r.range = a.range /\ r.topic = a.topic /\ r.code = a.code /\ r.rank = a.rank
  BY <1>1, <1>2 DEF Diagnostics
<1> HIDE DEF r
<1>4. Named(r) = Named(a)
  BY <1>3 DEF Named
<1> QED
  BY <1>3, <1>4 DEF r

\* Names and topics.
LEMMA NameFacts ==
  ASSUME NEW a, NEW b, NEW c
  PROVE  /\ Named(a) = Named(b) => a.range = b.range /\ a.topic = b.topic /\ a.code = b.code
         /\ SameTopic(a, b) => SameTopic(b, a)
         /\ SameTopic(a, b) /\ SameTopic(b, c) => SameTopic(a, c)
         /\ SameTopic(a, b) /\ Named(b) = Named(c) => SameTopic(a, c)
         /\ SameTopic(a, b) /\ Named(a) = Named(c) => SameTopic(c, b)
<1>1. Named(a) = Named(b) => a.range = b.range /\ a.topic = b.topic /\ a.code = b.code
  BY DEF Named
<1>2. Named(b) = Named(c) => b.range = c.range /\ b.topic = c.topic
  BY DEF Named
<1>3. Named(a) = Named(c) => a.range = c.range /\ a.topic = c.topic
  BY DEF Named
<1> QED
  BY <1>1, <1>2, <1>3 DEF SameTopic

\* One step of arbitration: the list in hand still has one diagnostic of each
\* topic, the most confident, and names the others.
LEMMA PreferOne ==
  ASSUME NEW s \in Seq(Diagnostics), OneOfTopic(s), NEW d \in Diagnostics,
         NEW S \in SUBSET Diagnostics,
         From(Range(s), S), Best(Range(s), S), Kept(S, Range(s))
  PROVE  LET r == Prefer(s, d)
         IN /\ r \in Seq(Diagnostics) /\ OneOfTopic(r)
            /\ From(Range(r), S \cup {d}) /\ Best(Range(r), S \cup {d})
            /\ Kept(S \cup {d}, Range(r))
<1> DEFINE same == {i \in DOMAIN s : SameTopic(s[i], d)}
           r == Prefer(s, d)
<1>1. \A i \in DOMAIN s : s[i] \in Range(s) /\ s[i] \in Diagnostics
  BY DEF Range
<1>2. \A e \in Range(s) : \E i \in DOMAIN s : e = s[i]
  BY DEF Range
<1>3. \A e \in Diagnostics : e.rank \in 0..3
  BY DEF Diagnostics
<1>4. CASE same = {}
  <2>1. r = Append(s, d)
    BY <1>4 DEF Prefer
  <2>2. /\ Append(s, d) \in Seq(Diagnostics) /\ Range(Append(s, d)) = Range(s) \cup {d}
        /\ DOMAIN Append(s, d) = DOMAIN s \cup {Len(s) + 1}
        /\ Append(s, d)[Len(s) + 1] = d /\ \A i \in DOMAIN s : Append(s, d)[i] = s[i]
    BY AppendFacts
  <2>3. \A e \in Range(s) : ~SameTopic(e, d) /\ ~SameTopic(d, e)
    BY <1>2, <1>4, NameFacts
  <2>4. OneOfTopic(Append(s, d))
    BY <1>1, <2>2, <2>3 DEF OneOfTopic
  <2>5. From(Range(s) \cup {d}, S \cup {d})
    BY DEF From
  <2>6. Kept(S \cup {d}, Range(s) \cup {d})
    BY DEF Kept
  <2>7. ASSUME NEW e \in S
        PROVE  ~SameTopic(d, e)
    <3>1. PICK c \in Range(s) : Named(c) = Named(e) \/ SameTopic(e, c)
      BY DEF Kept
    <3>2. SameTopic(d, e) => SameTopic(d, c)
      BY <3>1, NameFacts
    <3> QED
      BY <2>3, <3>2
  <2>8. Best(Range(s) \cup {d}, S \cup {d})
    BY <1>3, <2>3, <2>7 DEF Best
  <2> QED
    BY <2>1, <2>2, <2>4, <2>5, <2>6, <2>8
<1>5. CASE same # {}
  <2> DEFINE i == CHOOSE i \in same : TRUE
             x == s[i]
             y == IF d.rank > x.rank THEN append_related(d, x) ELSE append_related(x, d)
  <2>1. i \in DOMAIN s /\ SameTopic(x, d) /\ x \in Diagnostics
    BY <1>1, <1>5
  <2>2. r = [s EXCEPT ![i] = y]
    BY <1>5 DEF Prefer
  <2>3. /\ y \in Diagnostics
        /\ (Named(y) = Named(d) /\ y.rank = d.rank) \/ (Named(y) = Named(x) /\ y.rank = x.rank)
        /\ Named(x) = Named(y) \/ Named(x) \in y.related
        /\ Named(d) = Named(y) \/ Named(d) \in y.related
        /\ x.related \subseteq y.related
    BY <2>1, AppendRelated
  <2>4. d.rank <= y.rank /\ x.rank <= y.rank
    <3>1. CASE d.rank > x.rank
      <4>1. y.rank = d.rank
        BY <2>1, <3>1, AppendRelated
      <4> QED
        BY <1>3, <2>1, <3>1, <4>1
    <3>2. CASE ~(d.rank > x.rank)
      <4>1. y.rank = x.rank
        BY <2>1, <3>2, AppendRelated
      <4> QED
        BY <1>3, <2>1, <3>2, <4>1
    <3> QED
      BY <3>1, <3>2
  <2> HIDE DEF i, y, x
  <2>5. SameTopic(x, y) /\ SameTopic(y, x) /\ SameTopic(d, y) /\ SameTopic(y, d) /\ SameTopic(d, x)
    <3>1. SameTopic(x, x) /\ SameTopic(d, d) /\ SameTopic(d, x)
      BY <2>1, NameFacts
    <3>2. SameTopic(x, y)
      BY <2>1, <2>3, <3>1, NameFacts
    <3> QED
      BY <2>1, <3>1, <3>2, NameFacts
  <2>6. /\ r \in Seq(Diagnostics) /\ DOMAIN r = DOMAIN s
        /\ r[i] = y /\ \A j \in DOMAIN s : j # i => r[j] = s[j]
    BY <2>1, <2>2, <2>3
  <2>7. /\ y \in Range(r)
        /\ \A e \in Range(r) : e = y \/ \E j \in DOMAIN s : j # i /\ e = s[j]
        /\ \A j \in DOMAIN s : j # i => s[j] \in Range(r)
    BY <2>1, <2>6 DEF Range
  <2>8. \A j \in DOMAIN s : SameTopic(s[j], x) => j = i
    BY <2>1 DEF OneOfTopic, x
  <2>9. \A j \in DOMAIN s : SameTopic(s[j], y) \/ SameTopic(y, s[j]) \/ SameTopic(s[j], d) => j = i
    <3>1. ASSUME NEW j \in DOMAIN s,
                 SameTopic(s[j], y) \/ SameTopic(y, s[j]) \/ SameTopic(s[j], d)
          PROVE  SameTopic(s[j], x)
      BY <2>5, <3>1, NameFacts
    <3> QED
      BY <2>8, <3>1
  <2> HIDE DEF r
  <2>10. OneOfTopic(r)
    <3>1. ASSUME NEW j \in DOMAIN s, NEW k \in DOMAIN s, SameTopic(r[j], r[k])
          PROVE  j = k
      <4>1. CASE j = i /\ k # i
        BY <2>6, <2>9, <3>1, <4>1
      <4>2. CASE j # i /\ k = i
        BY <2>6, <2>9, <3>1, <4>2
      <4>3. CASE j # i /\ k # i
        BY <2>6, <3>1, <4>3 DEF OneOfTopic
      <4> QED
        BY <4>1, <4>2, <4>3
    <3> QED
      BY <2>6, <3>1 DEF OneOfTopic
  <2>11. From(Range(r), S \cup {d})
    <3>1. \E e \in S \cup {d} : Named(e) = Named(y) /\ e.rank = y.rank
      <4>1. PICK e \in S : Named(e) = Named(x) /\ e.rank = x.rank
        BY <1>1, <2>1 DEF From, x
      <4> QED
        BY <2>3, <4>1
    <3> QED
      BY <1>1, <2>7, <3>1 DEF From
  <2>12. Best(Range(r), S \cup {d})
    <3>1. ASSUME NEW e \in S, SameTopic(y, e)
          PROVE  e.rank <= y.rank
      <4>1. SameTopic(x, e)
        BY <2>5, <3>1, NameFacts
      <4>2. e.rank <= x.rank
        BY <1>1, <2>1, <4>1 DEF Best, x
      <4> QED
        BY <1>3, <2>1, <2>3, <2>4, <4>2
    <3>2. ASSUME NEW c \in Range(r), NEW e \in S \cup {d}, SameTopic(c, e)
          PROVE  e.rank <= c.rank
      <4>1. CASE c = y
        BY <2>4, <3>1, <3>2, <4>1
      <4>2. CASE c # y
        <5>1. PICK j \in DOMAIN s : j # i /\ c = s[j]
          BY <2>7, <3>2, <4>2
        <5>2. e # d
          BY <2>9, <3>2, <5>1
        <5> QED
          BY <1>1, <3>2, <5>1, <5>2 DEF Best
      <4> QED
        BY <4>1, <4>2
    <3> QED
      BY <3>2 DEF Best
  <2>13. Kept(S \cup {d}, Range(r))
    <3>1. ASSUME NEW e \in S
          PROVE  \E c \in Range(r) :
                   Named(c) = Named(e) \/ (SameTopic(e, c) /\ Named(e) \in c.related)
      <4>1. PICK c \in Range(s) : Named(c) = Named(e) \/ (SameTopic(e, c) /\ Named(e) \in c.related)
        BY DEF Kept
      <4>2. PICK j \in DOMAIN s : c = s[j]
        BY <1>2
      <4>3. CASE j # i
        BY <2>7, <4>1, <4>2, <4>3
      <4>4. CASE j = i
        <5>1. c = x
          BY <4>2, <4>4 DEF x
        <5>2. CASE Named(x) = Named(e)
          <6>1. SameTopic(e, y)
            BY <2>5, <5>2, NameFacts
          <6> QED
            BY <2>3, <2>7, <5>2, <6>1
        <5>3. CASE SameTopic(e, x) /\ Named(e) \in x.related
          <6>1. SameTopic(e, y)
            BY <2>5, <5>3, NameFacts
          <6> QED
            BY <2>3, <2>7, <5>3, <6>1
        <5> QED
          BY <4>1, <5>1, <5>2, <5>3
      <4> QED
        BY <4>3, <4>4
    <3> QED
      BY <2>3, <2>5, <2>7, <3>1 DEF Kept
  <2> QED
    BY <2>6, <2>10, <2>11, <2>12, <2>13 DEF r
<1> QED
  BY <1>4, <1>5

\* Arbitration by topic: one diagnostic of each topic, the most confident of the
\* findings, which names those it displaced.
LEMMA PreferFacts ==
  ASSUME NEW s \in Seq(Diagnostics)
  PROVE  LET r == prefer_highest_confidence_by_topic(s)
         IN /\ r \in Seq(Diagnostics) /\ OneOfTopic(r)
            /\ From(Range(r), Range(s)) /\ Best(Range(r), Range(s)) /\ Kept(Range(s), Range(r))
<1> DEFINE n == Len(s)
           Step(f, k) == PreferStep(s, f, k)
           sel == CHOOSE f : f = [k \in 0..n |-> Step(f, k)]
           First(k) == {s[i] : i \in 1..k}
           Right(k) == /\ sel[k] \in Seq(Diagnostics) /\ OneOfTopic(sel[k])
                       /\ From(Range(sel[k]), First(k)) /\ Best(Range(sel[k]), First(k))
                       /\ Kept(First(k), Range(sel[k]))
           T == {k \in Nat : k <= n => Right(k)}
<1>1. n \in Nat /\ DOMAIN s = 1..n
  OBVIOUS
<1>2. sel = [k \in 0..n |-> Step(sel, k)]
  <2>1. \E f : f = [k \in 0..n |-> Step(f, k)]
    BY <1>1, PreferExists
  <2> QED
    BY <2>1, Zenon
<1>3. prefer_highest_confidence_by_topic(s) = sel[n]
  BY DEF prefer_highest_confidence_by_topic, PreferStep
<1> HIDE DEF sel, n
<1>4. Right(0)
  <2>1. sel[0] = <<>>
    BY <1>1, <1>2 DEF PreferStep
  <2> QED
    BY <2>1 DEF Range, OneOfTopic, From, Best, Kept
<1>5. ASSUME NEW k \in Nat, k + 1 <= n, Right(k)
      PROVE  Right(k + 1)
  <2>1. k \in 0..n /\ k + 1 \in 1..n /\ k + 1 \in 0..n /\ k + 1 # 0 /\ k + 1 - 1 = k
    BY <1>1, <1>5
  <2>2. sel[k + 1] = Prefer(sel[k], s[k + 1])
    <3>1. sel[k + 1] = Step(sel, k + 1)
      BY <1>2, <2>1, Zenon
    <3> QED
      BY <2>1, <3>1 DEF PreferStep
  <2>3. First(k + 1) = First(k) \cup {s[k + 1]}
    BY FirstGrows
  <2>4. s[k + 1] \in Diagnostics /\ First(k) \in SUBSET Diagnostics
    <3>1. \A i \in 1..k : i \in DOMAIN s
      BY <1>1, <2>1
    <3> QED
      BY <1>1, <2>1, <3>1
  <2> HIDE DEF First
  <2> QED
    BY <1>5, <2>2, <2>3, <2>4, PreferOne
<1> HIDE DEF Right
<1>6. 0 \in T /\ \A k \in Nat : k \in T => k + 1 \in T
  <2>1. ASSUME NEW k \in Nat, k \in T, k + 1 <= n
        PROVE  Right(k + 1)
    <3>1. k <= n
      BY <1>1, <2>1
    <3> QED
      BY <1>5, <2>1, <3>1
  <2> QED
    BY <1>4, <2>1
<1>7. Nat \subseteq T
  BY <1>6, SetInduction
<1>8. Right(n)
  BY <1>1, <1>7
<1>9. First(n) = Range(s)
  BY <1>1 DEF Range
<1> QED
  BY <1>3, <1>8, <1>9 DEF Right

-----------------------------------------------------------------------------
\* No two diagnostics of a set have one range and topic.
Unique(R) == \A d, e \in R : SameTopic(d, e) => d = e

\* A finding is silenced, or another of its topic is.
SilencedWith(e) == \E c \in Live : (c = e \/ SameTopic(e, c)) /\ Silenced(c)
KeptOrSilenced(R) ==
  \A e \in Live :
    \/ \E d \in R : Named(d) = Named(e) \/ (SameTopic(e, d) /\ Named(e) \in d.related)
    \/ SilencedWith(e)
NoneSilenced(R) == \A d \in R : ~Silenced(d)

\* The list in hand after each stage.
Arbitrated(s) ==
  /\ s \in Seq(Diagnostics) /\ Unique(Range(s))
  /\ From(Range(s), Live) /\ Best(Range(s), Live) /\ Kept(Live, Range(s))
Filtered(s) ==
  /\ s \in Seq(Diagnostics) /\ Unique(Range(s))
  /\ From(Range(s), Live) /\ Best(Range(s), Live) /\ KeptOrSilenced(Range(s))
  /\ NoneSilenced(Range(s))
Shown(s) ==
  /\ Unique(Range(s)) /\ Best(Range(s), Live) /\ KeptOrSilenced(Range(s))
  /\ NoneSilenced(Range(s)) /\ OneOfName(s)

Inputs ==
  /\ syntax \in SyntaxErrors \cup {NoFinding} /\ directive \in Directives
  /\ emits \in [DOMAIN Registry -> Findings \cup {NoFinding}] /\ Degraded
Raw == {Diagnostic(f) : f \in Findings}
Gathered ==
  /\ rule \in Nat \ {0} /\ collected \in Seq(Raw)
  /\ syntax # NoFinding => \A d \in Range(collected) : ~SameTopic(syntax, d)
StageInv ==
  /\ stage = "arbitrated" => Arbitrated(diagnostics)
  /\ stage = "suppressed" => Filtered(diagnostics)
  /\ stage = "published" => Shown(diagnostics)
EngineInv == Inputs /\ Gathered /\ StageInv

\* A finding as a diagnostic.
LEMMA DiagnosticShape ==
  ASSUME NEW f \in Sources
  PROVE  /\ Diagnostic(f) \in Diagnostics
         /\ Diagnostic(f).range = f.range /\ Diagnostic(f).topic = f.topic
<1>1. f.range \in Places /\ f.topic \in Topics /\ f.code \in Codes
  BY DEF Places, Topics, Codes
<1>2. f.rank \in 0..3
  BY EngineAssumption DEF Sources
<1>3. {} \in SUBSET Names
  OBVIOUS
<1> QED
  BY <1>1, <1>2, <1>3 DEF Diagnostic, Diagnostics

\* What the rules found is a list of diagnostics.
LEMMA RawShape == Raw \subseteq Diagnostics
  BY DiagnosticShape DEF Raw, Sources

\* A list over a smaller set.
LEMMA SeqWiden ==
  ASSUME NEW A, NEW B, A \subseteq B, NEW s \in Seq(A)
  PROVE  s \in Seq(B) /\ Range(s) \subseteq A /\ \A i \in DOMAIN s : s[i] \in Range(s)
<1>1. \A i \in 1..Len(s) : s[i] \in B
  OBVIOUS
<1>2. Len(s) \in Nat /\ DOMAIN s = 1..Len(s) /\ s = [i \in 1..Len(s) |-> s[i]]
  OBVIOUS
<1>3. s \in [1..Len(s) -> B]
  BY <1>1, <1>2
<1>4. s \in Seq(B)
  BY <1>2, <1>3, SeqDef
<1> QED
  BY <1>2, <1>4 DEF Range

\* The lines of the index are the lines of the directive: suppression.rs agrees
\* with the reference.
LEMMA SuppressesSilenced ==
  ASSUME directive \in Directives, NEW d \in Diagnostics
  PROVE  suppresses(d) <=> Silenced(d)
<1> DEFINE line == d.range.from[1]
<1>1. line \in Nat
  <2>1. d.range \in Places
    BY DEF Diagnostics
  <2> QED
    BY <2>1, EngineAssumption DEF Places, Sources
<1>2. directive.line \in Nat /\ directive.last \in Nat
  BY EngineAssumption
<1>3. directive.kind \in {"none", "workspace", "manifest", "attribute",
                          "allow", "ignore", "allowFile", "ignoreFile"}
  BY EngineAssumption
<1> DEFINE x == directive
           Some(P) == \E p \in P : suppression_matches(p, d)
<1>4. suppresses(d) <=> Some(file_patterns(x) \cup line_patterns(x, line) \cup range_patterns(x, line))
  BY DEF suppresses
<1>5. CASE x.kind = "none"
  BY <1>4, <1>5 DEF file_patterns, line_patterns, range_patterns, Silenced, IsComment
<1>6. CASE x.kind = "workspace"
  BY <1>4, <1>6 DEF file_patterns, line_patterns, range_patterns, Silenced, IsComment, suppression_matches
<1>7. CASE x.kind = "manifest"
  BY <1>4, <1>7 DEF file_patterns, line_patterns, range_patterns, Silenced, IsComment, suppression_matches
<1>8. CASE x.kind = "attribute"
  BY <1>1, <1>2, <1>4, <1>8 DEF file_patterns, line_patterns, range_patterns, Silenced, IsComment, suppression_matches
<1>9. CASE x.kind = "allow"
  BY <1>1, <1>2, <1>4, <1>9 DEF file_patterns, line_patterns, range_patterns, Silenced, IsComment, suppression_matches, OwnAndNextLine
<1>10. CASE x.kind = "ignore"
  BY <1>1, <1>2, <1>4, <1>10 DEF file_patterns, line_patterns, range_patterns, Silenced, IsComment, suppression_matches, OwnAndNextLine
<1>11. CASE x.kind = "allowFile"
  BY <1>4, <1>11 DEF file_patterns, line_patterns, range_patterns, Silenced, IsComment, suppression_matches
<1>12. CASE x.kind = "ignoreFile"
  BY <1>4, <1>12 DEF file_patterns, line_patterns, range_patterns, Silenced, IsComment, suppression_matches
<1> QED
  BY <1>3, <1>5, <1>6, <1>7, <1>8, <1>9, <1>10, <1>11, <1>12

\* Whether a directive silences a diagnostic depends on its name.
LEMMA SilencedByName ==
  ASSUME NEW d, NEW e, Named(d) = Named(e)
  PROVE  Silenced(d) <=> Silenced(e)
<1>1. d.range = e.range /\ d.topic = e.topic /\ d.code = e.code
  BY NameFacts
<1> QED
  BY <1>1 DEF Silenced

\* arbitrate, over the findings that settings and the typing region leave.
LEMMA ArbitrateFacts ==
  ASSUME collected \in Seq(Raw)
  PROVE  Arbitrated(arbitrate(collected))
<1> DEFINE a == apply_settings(collected)
           b == suppress_typing_region(a)
           p == prefer_highest_confidence_by_topic(b)
           q == dedupe(p)
<1>1. collected \in Seq(Diagnostics)
  BY RawShape, SeqWiden
<1>2. a \in Seq(Diagnostics) /\ Range(a) = {d \in Range(collected) : Enabled(d)}
  BY <1>1, SelectFacts DEF apply_settings
<1> HIDE DEF a
<1>3. b \in Seq(Diagnostics) /\ Range(b) = {d \in Range(a) : Untouched(d)}
  BY <1>2, SelectFacts DEF suppress_typing_region
<1>4. Range(b) = Live
  BY <1>2, <1>3 DEF Live
<1> HIDE DEF b
<1>5. /\ p \in Seq(Diagnostics) /\ OneOfTopic(p)
      /\ From(Range(p), Live) /\ Best(Range(p), Live) /\ Kept(Live, Range(p))
  BY <1>3, <1>4, PreferFacts
<1> HIDE DEF p
<1>6. /\ q \in Seq(Diagnostics) /\ Range(q) \subseteq Range(p)
      /\ \A d \in Range(p) : \E e \in Range(q) : Named(e) = Named(d)
  BY <1>5, DedupeFacts
<1> HIDE DEF q
<1>7. Unique(Range(p))
  BY <1>5 DEF Unique, OneOfTopic, Range
<1>8. Unique(Range(q)) /\ From(Range(q), Live) /\ Best(Range(q), Live)
  BY <1>5, <1>6, <1>7 DEF Unique, From, Best
<1>9. Kept(Live, Range(q))
  <2> SUFFICES ASSUME NEW e \in Live
               PROVE  \E d \in Range(q) :
                        Named(d) = Named(e) \/ (SameTopic(e, d) /\ Named(e) \in d.related)
    BY DEF Kept
  <2>1. PICK d \in Range(p) : Named(d) = Named(e) \/ (SameTopic(e, d) /\ Named(e) \in d.related)
    BY <1>5 DEF Kept
  <2>2. PICK c \in Range(q) : Named(c) = Named(d)
    BY <1>6
  <2>3. SameTopic(e, d) => c = d
    <3>1. SameTopic(e, d) => SameTopic(d, c)
      BY <2>2, NameFacts
    <3> QED
      BY <1>6, <1>7, <3>1 DEF Unique
  <2> QED
    BY <2>1, <2>2, <2>3
<1> QED
  BY <1>6, <1>8, <1>9 DEF Arbitrated, arbitrate, a, b, p, q

\* The suppression filter.
LEMMA FilterFacts ==
  ASSUME directive \in Directives, NEW s \in Seq(Diagnostics)
  PROVE  /\ filter(s) \in Seq(Diagnostics) /\ NoneSilenced(Range(filter(s)))
         /\ Range(filter(s)) = {d \in Range(s) : ~Silenced(d)}
<1>1. filter(s) \in Seq(Diagnostics) /\ Range(filter(s)) = {d \in Range(s) : ~suppresses(d)}
  BY SelectFacts DEF filter
<1>2. Range(s) \subseteq Diagnostics
  BY SeqWiden
<1> QED
  BY <1>1, <1>2, SuppressesSilenced DEF NoneSilenced

\* A finding that the filter takes out was silenced, or the survivor of its topic.
LEMMA SuppressFacts ==
  ASSUME directive \in Directives, NEW s, Arbitrated(s)
  PROVE  Filtered(filter(s))
<1> DEFINE t == filter(s)
<1>1. s \in Seq(Diagnostics)
  BY DEF Arbitrated
<1>2. t \in Seq(Diagnostics) /\ NoneSilenced(Range(t)) /\ Range(t) = {d \in Range(s) : ~Silenced(d)}
  BY <1>1, FilterFacts
<1> HIDE DEF t
<1>3. Unique(Range(t)) /\ From(Range(t), Live) /\ Best(Range(t), Live)
  BY <1>2 DEF Arbitrated, Unique, From, Best
<1>4. KeptOrSilenced(Range(t))
  <2> SUFFICES ASSUME NEW e \in Live, ~SilencedWith(e)
               PROVE  \E d \in Range(t) :
                        Named(d) = Named(e) \/ (SameTopic(e, d) /\ Named(e) \in d.related)
    BY DEF KeptOrSilenced
  <2>1. PICK d \in Range(s) : Named(d) = Named(e) \/ (SameTopic(e, d) /\ Named(e) \in d.related)
    BY DEF Arbitrated, Kept
  <2>2. PICK c \in Live : Named(c) = Named(d)
    BY DEF Arbitrated, From
  <2>3. Silenced(d) => Silenced(c)
    BY <2>2, SilencedByName
  <2>4. Named(d) = Named(e) /\ Silenced(d) => Silenced(e)
    BY SilencedByName
  <2>5. SameTopic(e, d) => SameTopic(e, c)
    BY <2>2, NameFacts
  <2>6. ~Silenced(d)
    BY <2>1, <2>3, <2>4, <2>5 DEF SilencedWith
  <2> QED
    BY <1>2, <2>1, <2>6
<1> QED
  BY <1>2, <1>3, <1>4 DEF Filtered, t

\* The syntax diagnostic in front, and no name twice.
LEMMA PublishFacts ==
  ASSUME Inputs, Gathered, NEW s, Filtered(s)
  PROVE  Shown(dedupe(syntax_diagnostics \o s))
<1> DEFINE one == IF syntax # NoFinding THEN <<Diagnostic(syntax)>> ELSE <<>>
           x == syntax_diagnostics
           w == x \o s
           r == dedupe(w)
<1>0. directive \in Directives /\ s \in Seq(Diagnostics)
  BY DEF Inputs, Filtered
<1>1. one \in Seq(Diagnostics) /\ \A d \in Range(one) : syntax # NoFinding /\ d = Diagnostic(syntax)
  <2>1. CASE syntax # NoFinding
    <3>1. Diagnostic(syntax) \in Diagnostics
      BY <2>1, DiagnosticShape DEF Inputs, Sources
    <3>2. one = <<Diagnostic(syntax)>>
      BY <2>1
    <3> HIDE DEF one
    <3>3. one \in Seq(Diagnostics) /\ \A i \in DOMAIN one : one[i] = Diagnostic(syntax)
      BY <3>1, <3>2
    <3> QED
      BY <2>1, <3>3 DEF Range
  <2>2. CASE syntax = NoFinding
    BY <2>2 DEF Range
  <2> QED
    BY <2>1, <2>2
<1>2. /\ x \in Seq(Diagnostics) /\ NoneSilenced(Range(x))
      /\ \A d \in Range(x) : syntax # NoFinding /\ d = Diagnostic(syntax)
  <2>1. x = filter(one)
    BY DEF syntax_diagnostics
  <2> HIDE DEF one, x
  <2> QED
    BY <1>0, <1>1, <2>1, FilterFacts
<1> HIDE DEF x
<1>3. w \in Seq(Diagnostics) /\ Range(w) = Range(x) \cup Range(s)
  <2>1. w \in Seq(Diagnostics) /\ Len(w) = Len(x) + Len(s)
        /\ \A i \in 1..Len(x) + Len(s) : w[i] = IF i <= Len(x) THEN x[i] ELSE s[i - Len(x)]
    BY <1>0, <1>2, ConcatProperties
  <2>2. /\ Len(x) \in Nat /\ Len(s) \in Nat
        /\ DOMAIN x = 1..Len(x) /\ DOMAIN s = 1..Len(s) /\ DOMAIN w = 1..Len(x) + Len(s)
    BY <1>0, <1>2, <2>1
  <2> HIDE DEF w
  <2>3. \A i \in 1..Len(x) : i \in 1..Len(x) + Len(s) /\ w[i] = x[i]
    BY <2>1, <2>2
  <2>4. \A i \in 1..Len(s) : i + Len(x) \in 1..Len(x) + Len(s) /\ w[i + Len(x)] = s[i]
    BY <2>1, <2>2
  <2>5. \A i \in 1..Len(x) + Len(s) :
          \/ i \in 1..Len(x) /\ w[i] = x[i]
          \/ i - Len(x) \in 1..Len(s) /\ w[i] = s[i - Len(x)]
    BY <2>1, <2>2
  <2>6. Range(x) \subseteq Range(w)
    BY <2>2, <2>3 DEF Range
  <2>7. Range(s) \subseteq Range(w)
    BY <2>2, <2>4 DEF Range
  <2>8. Range(w) \subseteq Range(x) \cup Range(s)
    BY <2>2, <2>5 DEF Range
  <2> QED
    BY <2>1, <2>6, <2>7, <2>8
<1> HIDE DEF w
<1>4. /\ Range(r) \subseteq Range(w) /\ OneOfName(r)
      /\ \A d \in Range(w) : \E e \in Range(r) : Named(e) = Named(d)
  BY <1>3, DedupeFacts
<1> HIDE DEF r
<1>5. ASSUME NEW c \in Range(x), NEW e \in Live
      PROVE  ~SameTopic(c, e)
  <2>1. syntax # NoFinding /\ c = Diagnostic(syntax) /\ syntax \in Sources
    BY <1>2, <1>5 DEF Inputs, Sources
  <2>2. ~SameTopic(syntax, e)
    BY <2>1 DEF Gathered, Live
  <2>3. c.range = syntax.range /\ c.topic = syntax.topic
    BY <2>1, DiagnosticShape
  <2> QED
    BY <2>2, <2>3 DEF SameTopic
<1>6. ASSUME NEW c \in Range(x), NEW d \in Range(s)
      PROVE  ~SameTopic(c, d)
  <2>1. PICK e \in Live : Named(e) = Named(d)
    BY DEF Filtered, From
  <2> QED
    BY <1>5, <2>1, NameFacts
<1>7. Unique(Range(w))
  <2> SUFFICES ASSUME NEW d \in Range(w), NEW e \in Range(w), SameTopic(d, e)
               PROVE  d = e
    BY DEF Unique
  <2>1. CASE d \in Range(x) /\ e \in Range(x)
    BY <1>2, <2>1
  <2>2. CASE d \in Range(s) /\ e \in Range(s)
    BY <2>2 DEF Filtered, Unique
  <2>3. ~(d \in Range(x) /\ e \in Range(s)) /\ ~(d \in Range(s) /\ e \in Range(x))
    BY <1>6, NameFacts
  <2> QED
    BY <1>3, <2>1, <2>2, <2>3
<1>8. Best(Range(w), Live)
  BY <1>3, <1>5 DEF Filtered, Best
<1>9. Unique(Range(r)) /\ Best(Range(r), Live) /\ NoneSilenced(Range(r))
  BY <1>2, <1>3, <1>4, <1>7, <1>8 DEF Unique, Best, NoneSilenced, Filtered
<1>10. KeptOrSilenced(Range(r))
  <2> SUFFICES ASSUME NEW e \in Live, ~SilencedWith(e)
               PROVE  \E d \in Range(r) :
                        Named(d) = Named(e) \/ (SameTopic(e, d) /\ Named(e) \in d.related)
    BY DEF KeptOrSilenced
  <2>1. PICK d \in Range(s) : Named(d) = Named(e) \/ (SameTopic(e, d) /\ Named(e) \in d.related)
    BY DEF Filtered, KeptOrSilenced
  <2>2. PICK c \in Range(r) : Named(c) = Named(d)
    BY <1>3, <1>4
  <2>3. SameTopic(e, d) => c = d
    <3>1. SameTopic(e, d) => SameTopic(d, c)
      BY <2>2, NameFacts
    <3> QED
      BY <1>3, <1>4, <1>7, <3>1 DEF Unique
  <2> QED
    BY <2>1, <2>2, <2>3
<1> QED
  BY <1>4, <1>9, <1>10 DEF Shown, r, w, x

-----------------------------------------------------------------------------
\* The start.
LEMMA EngineInit == Init => EngineInv
<1> SUFFICES ASSUME Init
             PROVE  EngineInv
  OBVIOUS
<1>1. Inputs
  BY DEF Init, Inputs
<1>2. Gathered
  BY DEF Init, Gathered, Range
<1>3. StageInv
  BY DEF Init, StageInv
<1> QED
  BY <1>1, <1>2, <1>3 DEF EngineInv

\* What the list in hand is measured against does not change once all the rules
\* have run.
LEMMA ListsKept ==
  ASSUME UNCHANGED <<input, collected>>, NEW s
  PROVE  /\ Arbitrated(s)' <=> Arbitrated(s)
         /\ Filtered(s)' <=> Filtered(s)
         /\ Shown(s)' <=> Shown(s)
<1>1. Live' = Live
  BY DEF Live, Enabled, Untouched, input
<1>2. ASSUME NEW d
      PROVE  Silenced(d)' <=> Silenced(d)
  BY DEF Silenced, input
<1>3. ASSUME NEW R
      PROVE  (KeptOrSilenced(R)' <=> KeptOrSilenced(R)) /\ (NoneSilenced(R)' <=> NoneSilenced(R))
  BY <1>1, <1>2 DEF KeptOrSilenced, NoneSilenced, SilencedWith
<1> QED
  BY <1>1, <1>3 DEF Arbitrated, Filtered, Shown

\* A step.
LEMMA EngineStep == EngineInv /\ [Next]_vars => EngineInv'
<1> SUFFICES ASSUME EngineInv, [Next]_vars
             PROVE  EngineInv'
  OBVIOUS
<1> USE DEF EngineInv
<1>1. CASE RunRule
  <2>1. UNCHANGED <<input, diagnostics, stage>> /\ stage = "rules" /\ rule \in DOMAIN Registry
    BY <1>1, EngineAssumption DEF RunRule, Gathered
  <2>2. Inputs'
    BY <2>1 DEF Inputs, Degraded, input
  <2>3. Gathered'
    <3>1. rule' \in Nat \ {0} /\ syntax' = syntax
      BY <1>1 DEF RunRule, Gathered, input
    <3>2. CASE collected' = collected
      BY <3>1, <3>2 DEF Gathered
    <3>3. CASE collected' # collected
      <4> DEFINE f == emits[rule]
                 d == Diagnostic(f)
      <4>1. f # NoFinding /\ f \in Findings /\ collected' = Append(collected, d)
        BY <1>1, <2>1, <3>3 DEF RunRule, Inputs
      <4>2. d \in Raw /\ d.range = f.range /\ d.topic = f.topic
        BY <4>1, DiagnosticShape DEF Raw, Sources
      <4>3. syntax # NoFinding => ~SameTopic(syntax, f)
        BY <2>1, <4>1 DEF Inputs, Degraded
      <4>4. syntax # NoFinding => ~SameTopic(syntax, d)
        BY <4>2, <4>3 DEF SameTopic
      <4> HIDE DEF d, f
      <4>5. collected' \in Seq(Raw) /\ Range(Append(collected, d)) = Range(collected) \cup {d}
        BY <4>1, <4>2, AppendFacts DEF Gathered
      <4>6. Range(collected)' = Range(collected) \cup {d}
        BY <4>1, <4>5 DEF Range
      <4> QED
        BY <3>1, <4>4, <4>5, <4>6 DEF Gathered
    <3> QED
      BY <3>2, <3>3
  <2>4. StageInv'
    BY <2>1 DEF StageInv
  <2> QED
    BY <2>2, <2>3, <2>4
<1>2. ASSUME UNCHANGED <<input, rule, collected>>
      PROVE  Inputs' /\ Gathered'
  BY <1>2 DEF Inputs, Gathered, Degraded, input, Range
<1>3. CASE Arbitrate
  <2>1. UNCHANGED <<input, rule, collected>> /\ stage' = "arbitrated" /\ diagnostics' = arbitrate(collected)
    BY <1>3 DEF Arbitrate
  <2>2. Arbitrated(arbitrate(collected))
    BY ArbitrateFacts DEF Gathered
  <2>3. PICK v : v = diagnostics'
    OBVIOUS
  <2>4. Arbitrated(v)
    BY <2>1, <2>2, <2>3
  <2>5. Arbitrated(v)'
    BY <2>1, <2>4, ListsKept
  <2>6. Arbitrated(diagnostics)'
    BY <2>3, <2>5 DEF Arbitrated
  <2> QED
    BY <1>2, <2>1, <2>6 DEF StageInv
<1>4. CASE Suppress
  <2>1. UNCHANGED <<input, rule, collected>> /\ stage' = "suppressed" /\ diagnostics' = filter(diagnostics)
        /\ Arbitrated(diagnostics)
    BY <1>4 DEF Suppress, StageInv
  <2>2. Filtered(filter(diagnostics))
    BY <2>1, SuppressFacts DEF Inputs
  <2>3. PICK v : v = diagnostics'
    OBVIOUS
  <2>4. Filtered(v)
    BY <2>1, <2>2, <2>3
  <2>5. Filtered(v)'
    BY <2>1, <2>4, ListsKept
  <2>6. Filtered(diagnostics)'
    BY <2>3, <2>5 DEF Filtered
  <2> QED
    BY <1>2, <2>1, <2>6 DEF StageInv
<1>5. CASE Publish
  <2>1. UNCHANGED <<input, rule, collected>> /\ stage' = "published"
        /\ diagnostics' = dedupe(syntax_diagnostics \o diagnostics) /\ Filtered(diagnostics)
    BY <1>5 DEF Publish, StageInv
  <2>2. Shown(dedupe(syntax_diagnostics \o diagnostics))
    BY <2>1, PublishFacts
  <2>3. PICK v : v = diagnostics'
    OBVIOUS
  <2>4. Shown(v)
    BY <2>1, <2>2, <2>3
  <2>5. Shown(v)'
    BY <2>1, <2>4, ListsKept
  <2>6. Shown(diagnostics)'
    BY <2>3, <2>5 DEF Shown
  <2> QED
    BY <1>2, <2>1, <2>6 DEF StageInv
<1>6. CASE UNCHANGED vars
  <2>1. UNCHANGED <<input, rule, collected>> /\ stage' = stage /\ diagnostics' = diagnostics
    BY <1>6 DEF vars
  <2>2. PICK v : v = diagnostics
    OBVIOUS
  <2>3. /\ Arbitrated(v)' <=> Arbitrated(v)
        /\ Filtered(v)' <=> Filtered(v)
        /\ Shown(v)' <=> Shown(v)
    BY <2>1, ListsKept
  <2>4. /\ Arbitrated(diagnostics)' <=> Arbitrated(v)'
        /\ Filtered(diagnostics)' <=> Filtered(v)'
        /\ Shown(diagnostics)' <=> Shown(v)'
    BY <2>1, <2>2 DEF Arbitrated, Filtered, Shown
  <2> QED
    BY <1>2, <2>1, <2>2, <2>3, <2>4 DEF StageInv
<1> QED
  BY <1>1, <1>3, <1>4, <1>5, <1>6 DEF Next

\* The inductive invariant of the engine.
LEMMA EngineHolds == Spec => []EngineInv
  BY EngineInit, EngineStep, PTL DEF Spec

\* Of the findings of one range and topic the document shows at most one, one of
\* the most confident, whatever the registry and its order.
THEOREM ConfidentFindingShown == Spec => []HighestConfidenceShown
<1>1. EngineInv => HighestConfidenceShown
  BY DEF EngineInv, StageInv, HighestConfidenceShown, Published, Shown, Unique, Best
<1> QED
  BY <1>1, EngineHolds, PTL

\* No finding is lost: shown, named by the survivor of its topic, or silenced.
THEOREM NoFindingLost == Spec => []NothingVanishes
<1>1. EngineInv => NothingVanishes
  <2> SUFFICES ASSUME EngineInv, Published, NEW d \in Live
               PROVE  \/ \E p \in Range(diagnostics) : Named(p) = Named(d) \/ Named(d) \in p.related
                      \/ \E e \in Live : (e = d \/ SameTopic(d, e)) /\ Silenced(e)
    BY DEF NothingVanishes
  <2>1. KeptOrSilenced(Range(diagnostics))
    BY DEF EngineInv, StageInv, Published, Shown
  <2> QED
    BY <2>1 DEF KeptOrSilenced, SilencedWith
<1> QED
  BY <1>1, EngineHolds, PTL

\* Nothing a directive silences is shown, the parse diagnostic included.
THEOREM SuppressionHolds == Spec => []SilencedNotShown
<1>1. EngineInv => SilencedNotShown
  BY DEF EngineInv, StageInv, SilencedNotShown, Published, Shown, NoneSilenced
<1> QED
  BY <1>1, EngineHolds, PTL

\* The same finding is never shown twice.
THEOREM ShownOnce == Spec => []NoDuplicates
<1>1. EngineInv => NoDuplicates
  BY DEF EngineInv, StageInv, NoDuplicates, Published, Shown, OneOfName
<1> QED
  BY <1>1, EngineHolds, PTL
=============================================================================
