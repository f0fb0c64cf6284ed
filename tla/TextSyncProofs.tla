--------------------------- MODULE TextSyncProofs ---------------------------
(***************************************************************************)
(* Proofs about TextSync for texts and batches of any length: positions    *)
(* and offsets are inverse to each other, a batch of changes takes the     *)
(* server's text to the editor's, and the range remembered for a whole     *)
(* text covers the change.                                                 *)
(***************************************************************************)
EXTENDS TextSync, WellFoundedInduction, SequenceTheorems, FiniteSetTheorems, TLAPS

\* Every nonempty set of natural numbers has a least member.
LEMMA LeastMember ==
  ASSUME NEW S, S \subseteq Nat, S # {}
  PROVE  \E x \in S : \A y \in S : x <= y
<1> DEFINE R == OpToRel(<, Nat)
<1>1. \A x, y \in Nat : <<x, y>> \in R <=> x < y
  BY DEF OpToRel
<1> HIDE DEF R
<1>2. IsWellFoundedOn(R, Nat)
  BY NatLessThanWellFounded DEF R
<1>3. \E x \in S : \A y \in S : ~ (<<y, x>> \in R)
  BY <1>2, WFMin
<1>4. PICK x \in S : \A y \in S : ~ (y < x)
  BY <1>1, <1>3
<1>5. \A y \in S : x <= y
  BY <1>4
<1> QED
  BY <1>5

\* Induction over the natural numbers, for a set instead of a predicate.
LEMMA SetInduction ==
  ASSUME NEW T, 0 \in T, \A n \in Nat : n \in T => n + 1 \in T
  PROVE  Nat \subseteq T
<1> SUFFICES ASSUME Nat \ T # {}
             PROVE  FALSE
  OBVIOUS
<1>1. PICK x \in Nat \ T : \A y \in Nat \ T : x <= y
  BY LeastMember
<1>2. x # 0 /\ x - 1 \in Nat /\ ~ (x <= x - 1)
  BY <1>1
<1> QED
  BY <1>1, <1>2

-----------------------------------------------------------------------------
(***************************************************************************)
(* Minima and maxima.                                                      *)
(***************************************************************************)
\* A set of naturals has its minimum.
LEMMA MinFacts ==
  ASSUME NEW S, S \subseteq Nat, S # {}
  PROVE  Min(S) \in S /\ \A y \in S : Min(S) <= y
<1>1. \E x \in S : \A y \in S : x =< y
  BY LeastMember
<1> QED
  BY <1>1 DEF Min

\* A bounded set of naturals has its maximum.
LEMMA MaxFacts ==
  ASSUME NEW n \in Nat, NEW S, S \subseteq 0..n, S # {}
  PROVE  Max(S) \in S /\ Max(S) \in 0..n /\ \A y \in S : y <= Max(S)
<1> DEFINE D == {n - x : x \in S}
<1>1. D \subseteq Nat /\ D # {}
  OBVIOUS
<1>2. PICK d \in D : \A y \in D : d <= y
  BY <1>1, LeastMember
<1>3. PICK x \in S : d = n - x
  OBVIOUS
<1>4. \A y \in S : x >= y
  <2> TAKE y \in S
  <2>1. n - y \in D /\ n - x <= n - y
    BY <1>2, <1>3
  <2> QED
    BY <2>1
<1>5. Max(S) \in S /\ \A y \in S : Max(S) >= y
  BY <1>4 DEF Max
<1> QED
  BY <1>5

\* The smaller of two lengths.
LEMMA MinOfTwo ==
  ASSUME NEW a \in Nat, NEW b \in Nat
  PROVE  Min({a, b}) \in Nat /\ Min({a, b}) <= a /\ Min({a, b}) <= b
         /\ (Min({a, b}) = a \/ Min({a, b}) = b)
<1>1. {a, b} \subseteq Nat /\ {a, b} # {}
  OBVIOUS
<1> QED
  BY <1>1, MinFacts

(***************************************************************************)
(* Lines.                                                                  *)
(***************************************************************************)
\* Newlines up to an offset are finitely many.
LEMMA NewlinesFinite ==
  ASSUME NEW text, NEW k \in Nat
  PROVE  IsFiniteSet(Newlines(text, k)) /\ LineOf(text, k) \in Nat
<1>1. IsFiniteSet(1..k)
  BY FS_Interval
<1>2. IsFiniteSet(Newlines(text, k))
  BY <1>1, FS_Subset DEF Newlines
<1> QED
  BY <1>2, FS_CardinalityType DEF LineOf

\* The start of a line: at the start of the text or behind a newline, and no
\* newline between it and the offset.
LEMMA LineStartFacts ==
  ASSUME NEW text, NEW k \in Nat
  PROVE  LET l == LineStart(text, k)
         IN /\ l \in 0..k /\ (l = 0 \/ text[l] = "newline")
            /\ \A i \in l + 1..k : text[i] # "newline"
            /\ LineOf(text, l) = LineOf(text, k)
<1> DEFINE l == LineStart(text, k)
           S == Newlines(text, k) \cup {0}
<1>1. S \subseteq 0..k /\ S # {}
  BY DEF Newlines
<1>2. l \in S /\ l \in 0..k /\ \A y \in S : y <= l
  BY <1>1, MaxFacts DEF LineStart
<1> HIDE DEF l
<1>3. l = 0 \/ text[l] = "newline"
  BY <1>2 DEF Newlines
<1>4. \A i \in l + 1..k : text[i] # "newline"
  <2> SUFFICES ASSUME NEW i \in l + 1..k, text[i] = "newline"
               PROVE  FALSE
    OBVIOUS
  <2>1. i \in 1..k /\ ~(i <= l)
    BY <1>2
  <2> QED
    BY <1>2, <2>1 DEF Newlines
<1>5. Newlines(text, l) = Newlines(text, k)
  <2>1. \A i \in 1..l : i \in 1..k
    BY <1>2
  <2>2. \A i \in 1..k : i \in 1..l \/ i \in l + 1..k
    BY <1>2
  <2> QED
    BY <1>4, <2>1, <2>2 DEF Newlines
<1>6. LineOf(text, l) = LineOf(text, k)
  BY <1>5 DEF LineOf
<1> QED
  BY <1>2, <1>3, <1>4, <1>6 DEF l

\* A newline on the way makes the line a later one.
LEMMA LaterLine ==
  ASSUME NEW text, NEW a \in Nat, NEW b \in Nat, a < b,
         NEW i \in a + 1..b, text[i] = "newline"
  PROVE  LineOf(text, a) # LineOf(text, b)
<1>1. Newlines(text, a) \in SUBSET Newlines(text, b)
  <2>1. \A j \in 1..a : j \in 1..b
    OBVIOUS
  <2> QED
    BY <2>1 DEF Newlines
<1>2. i \in Newlines(text, b) /\ i \notin Newlines(text, a)
  BY DEF Newlines
<1>3. IsFiniteSet(Newlines(text, b))
  BY NewlinesFinite
<1>4. Cardinality(Newlines(text, b)) = Cardinality(Newlines(text, a))
        => Newlines(text, b) = Newlines(text, a)
  BY <1>1, <1>3, FS_Subset
<1> QED
  BY <1>2, <1>4 DEF LineOf

\* The end of a line: the next newline is the first one behind it.
LEMMA LineEndFacts ==
  ASSUME NEW text, Len(text) \in Nat, NEW a \in 0..Len(text)
  PROVE  /\ LineEnd(text, a) \in a..Len(text)
         /\ \A k \in a..Len(text) :
              (\A i \in a + 1..k : text[i] # "newline") => k <= LineEnd(text, a)
<1> DEFINE N == {j \in a + 1..Len(text) : text[j] = "newline"}
           S == {i - 1 : i \in N} \cup {Len(text)}
<1>1. S \subseteq Nat /\ S # {} /\ S \subseteq a..Len(text)
  OBVIOUS
<1>2. LineEnd(text, a) \in S /\ \A y \in S : LineEnd(text, a) <= y
  BY <1>1, MinFacts DEF LineEnd
<1>3. ASSUME NEW k \in a..Len(text), \A i \in a + 1..k : text[i] # "newline"
      PROVE  k <= LineEnd(text, a)
  <2>1. CASE LineEnd(text, a) = Len(text)
    BY <2>1
  <2>2. CASE LineEnd(text, a) # Len(text)
    <3>1. PICK i \in N : LineEnd(text, a) = i - 1
      BY <1>2, <2>2
    <3>2. i \notin a + 1..k
      BY <1>3, <3>1
    <3> QED
      BY <3>1, <3>2
  <2> QED
    BY <2>1, <2>2
<1> QED
  BY <1>1, <1>2, <1>3

\* Two starts of lines are of two lines.
LEMMA StartsApart ==
  ASSUME NEW text, Len(text) \in Nat, NEW a \in Starts(text), NEW b \in Starts(text),
         LineOf(text, a) = LineOf(text, b)
  PROVE  a = b
<1>1. /\ a \in Nat /\ b \in Nat
      /\ (a = 0 \/ text[a] = "newline") /\ (b = 0 \/ text[b] = "newline")
  BY DEF Starts
<1>2. ASSUME a < b
      PROVE  FALSE
  <2>1. b \in a + 1..b /\ text[b] = "newline"
    BY <1>1, <1>2
  <2> QED
    BY <1>1, <1>2, <2>1, LaterLine
<1>3. ASSUME b < a
      PROVE  FALSE
  <2>1. a \in b + 1..a /\ text[a] = "newline"
    BY <1>1, <1>3
  <2> QED
    BY <1>1, <1>3, <2>1, LaterLine
<1> QED
  BY <1>1, <1>2, <1>3

\* A text that ends with a newline has as many lines as newlines.
LEMMA LinesCounted ==
  ASSUME NEW text, Len(text) \in Nat, Len(text) = 0 \/ text[Len(text)] = "newline"
  PROVE  Cardinality(Starts(text)) = LineOf(text, Len(text))
<1> DEFINE n == Len(text)
<1>1. CASE n = 0
  <2>1. Starts(text) = {}
    BY <1>1 DEF Starts
  <2>2. Newlines(text, n) = {}
    BY <1>1 DEF Newlines
  <2> QED
    BY <2>1, <2>2 DEF LineOf
<1>2. CASE n # 0
  <2> DEFINE B == Newlines(text, n - 1)
  <2>1. n - 1 \in Nat
    BY <1>2
  <2>2. IsFiniteSet(B)
    BY <2>1, NewlinesFinite
  <2>3. Starts(text) = B \cup {0} /\ 0 \notin B
    <3>1. \A k \in 0..n - 1 : k = 0 \/ k \in 1..n - 1
      BY <2>1
    <3>2. 0 \in 0..n - 1 /\ 0 \notin 1..n - 1 /\ \A k \in 1..n - 1 : k \in 0..n - 1
      BY <2>1
    <3> QED
      BY <3>1, <3>2 DEF Starts, Newlines
  <2>4. Newlines(text, n) = B \cup {n} /\ n \notin B
    <3>1. \A k \in 1..n : k = n \/ k \in 1..n - 1
      BY <2>1
    <3>2. n \in 1..n /\ n \notin 1..n - 1 /\ \A k \in 1..n - 1 : k \in 1..n
      BY <2>1
    <3>3. text[n] = "newline"
      BY <1>2
    <3> QED
      BY <3>1, <3>2, <3>3 DEF Newlines
  <2> HIDE DEF B
  <2>5. Cardinality(B \cup {0}) = Cardinality(B) + 1 /\ Cardinality(B \cup {n}) = Cardinality(B) + 1
    BY <2>2, <2>3, <2>4, FS_AddElement
  <2> QED
    BY <2>3, <2>4, <2>5 DEF LineOf
<1> QED
  BY <1>1, <1>2

\* The position of an offset resolves to the offset.
LEMMA RoundTrip ==
  ASSUME NEW text, Len(text) \in Nat, NEW k \in 0..Len(text)
  PROVE  offset_at(text, position_at_byte_offset(text, k)) = k
<1> DEFINE n == Len(text)
           l == LineStart(text, k)
           p == position_at_byte_offset(text, k)
           line == {a \in Starts(text) : LineOf(text, a) = p.line}
           start == CHOOSE a \in line : TRUE
<1>1. /\ l \in 0..k /\ (l = 0 \/ text[l] = "newline")
      /\ \A i \in l + 1..k : text[i] # "newline"
      /\ LineOf(text, l) = LineOf(text, k)
  BY LineStartFacts
<1>2. p = Position(LineOf(text, k), k - l) /\ p.line = LineOf(text, l) /\ p.character = k - l
  BY <1>1 DEF position_at_byte_offset, Position
<1> HIDE DEF l, p
<1>3. CASE l < n
  <2>1. l \in Starts(text)
    BY <1>1, <1>3 DEF Starts
  <2>2. line # {} /\ start = l
    <3>1. l \in line
      BY <1>2, <2>1
    <3>2. \A a \in line : a = l
      BY <1>2, <2>1, StartsApart
    <3> QED
      BY <3>1, <3>2
  <2>3. k <= LineEnd(text, l)
    <3>1. l \in 0..Len(text) /\ k \in l..Len(text)
      BY <1>1
    <3> QED
      BY <1>1, <3>1, LineEndFacts
  <2>4. l + p.character = k
    BY <1>1, <1>2
  <2>5. offset_at(text, p) = IF start + p.character <= LineEnd(text, start)
                             THEN start + p.character ELSE Outside
    BY <2>2 DEF offset_at
  <2> HIDE DEF start
  <2> QED
    BY <2>2, <2>3, <2>4, <2>5 DEF p
<1>4. CASE ~(l < n)
  <2>1. l = n /\ k = n
    BY <1>1, <1>4
  <2>2. Cardinality(Starts(text)) = LineOf(text, n)
    BY <1>1, <2>1, LinesCounted
  <2>3. p = Position(Cardinality(Starts(text)), 0)
    BY <1>2, <2>1, <2>2
  <2>4. line = {}
    <3> SUFFICES ASSUME NEW a \in Starts(text), LineOf(text, a) = LineOf(text, n)
                 PROVE  FALSE
      BY <1>2, <2>1
    <3>1. a \in Nat /\ a < n /\ n \in a + 1..n /\ text[n] = "newline"
      BY <1>1, <2>1 DEF Starts
    <3> QED
      BY <3>1, LaterLine
  <2> QED
    BY <2>1, <2>3, <2>4 DEF offset_at, p
<1> QED
  BY <1>1, <1>3, <1>4

\* An offset is one of the text, or there is none.
LEMMA OffsetBounds ==
  ASSUME NEW text, Len(text) \in Nat, NEW p, p.character \in Nat
  PROVE  offset_at(text, p) \in 0..Len(text) \/ offset_at(text, p) = Outside
<1> DEFINE line == {a \in Starts(text) : LineOf(text, a) = p.line}
           start == CHOOSE a \in line : TRUE
<1>1. CASE line # {}
  <2>1. start \in line /\ start \in 0..Len(text)
    BY <1>1 DEF Starts
  <2>2. offset_at(text, p) = IF start + p.character <= LineEnd(text, start)
                             THEN start + p.character ELSE Outside
    BY <1>1 DEF offset_at
  <2> HIDE DEF start
  <2>3. LineEnd(text, start) \in start..Len(text)
    BY <2>1, LineEndFacts
  <2> QED
    BY <2>1, <2>2, <2>3
<1>2. CASE line = {}
  BY <1>2 DEF offset_at
<1> QED
  BY <1>1, <1>2

-----------------------------------------------------------------------------
(***************************************************************************)
(* Changes.                                                                *)
(***************************************************************************)
Positions == [line : Nat, character : Nat]
Changes   == [range : [start : Positions, end : Positions], text : Seq(Chars)]

\* NoText is no text.
LEMMA NoTextApart == NoText \notin Seq(Chars)
<1>1. NoText[1] = "no text"
  BY DEF NoText
<1>2. "no text" \notin Chars
  BY DEF Chars
<1>3. NoText \in Seq(Chars) => NoText[1] \in Chars
  <2>1. 1 \in 1..Len(NoText)
    BY DEF NoText
  <2> QED
    BY <2>1, ElementOfSeq
<1> QED
  BY <1>1, <1>2, <1>3

\* A text with a part replaced is a text.
LEMMA ReplaceType ==
  ASSUME NEW text \in Seq(Chars), NEW new \in Seq(Chars),
         NEW from \in 0..Len(text), NEW to \in from..Len(text)
  PROVE  Replace(text, from, to, new) \in Seq(Chars)
<1>1. Len(text) \in Nat
  OBVIOUS
<1>2. \A i \in 1..from : text[i] \in Chars
  BY <1>1
<1>3. \A i \in to + 1..Len(text) : text[i] \in Chars
  BY <1>1
<1>4. SubSeq(text, 1, from) \in Seq(Chars)
  BY <1>1, <1>2, SubSeqProperties
<1>5. SubSeq(text, to + 1, Len(text)) \in Seq(Chars)
  BY <1>1, <1>3, SubSeqProperties
<1> QED
  BY <1>4, <1>5, ConcatProperties DEF Replace

\* A change gives a text or is refused.
LEMMA ApplyType ==
  ASSUME NEW text, text \in Seq(Chars) \/ text = NoText, NEW c \in Changes
  PROVE  LET r == apply_content_change(text, c) IN r \in Seq(Chars) \/ r = NoText
<1> DEFINE start == offset_at(text, c.range.start)
           end   == offset_at(text, c.range.end)
<1>1. CASE text = NoText \/ start = Outside \/ end = Outside \/ start > end
  BY <1>1 DEF apply_content_change
<1>2. CASE ~(text = NoText \/ start = Outside \/ end = Outside \/ start > end)
  <2>1. apply_content_change(text, c) = Replace(text, start, end, c.text)
    BY <1>2 DEF apply_content_change
  <2>2. text \in Seq(Chars) /\ Len(text) \in Nat
    BY <1>2
  <2>3. c.range.start.character \in Nat /\ c.range.end.character \in Nat /\ c.text \in Seq(Chars)
    BY DEF Changes, Positions
  <2>4. start \in 0..Len(text) /\ end \in 0..Len(text)
    BY <1>2, <2>2, <2>3, OffsetBounds
  <2> HIDE DEF start, end
  <2>5. end \in start..Len(text)
    BY <1>2, <2>2, <2>4
  <2> QED
    BY <2>1, <2>2, <2>3, <2>4, <2>5, ReplaceType
<1> QED
  BY <1>1, <1>2

\* A change addressed before any wide character of its lines does on the server
\* what it did in the editor.
LEMMA ApplyEdit ==
  ASSUME NEW text \in Seq(Chars), NEW from \in 0..Len(text), NEW to \in from..Len(text), NEW new,
         Wide(text, from) = {}, Wide(text, to) = {}
  PROVE  apply_content_change(text,
           [range |-> Range2(ProtocolPosition(text, from), ProtocolPosition(text, to)),
            text  |-> new]) = Replace(text, from, to, new)
<1> DEFINE c == [range |-> Range2(ProtocolPosition(text, from), ProtocolPosition(text, to)),
                 text  |-> new]
<1>1. Len(text) \in Nat /\ to \in 0..Len(text) /\ from \in Nat /\ to \in Nat /\ from <= to
  OBVIOUS
<1>2. ASSUME NEW k \in Nat, Wide(text, k) = {}
      PROVE  ProtocolPosition(text, k) = position_at_byte_offset(text, k)
  <2>1. LineStart(text, k) \in Nat
    BY LineStartFacts
  <2>2. Cardinality(Wide(text, k)) = 0
    BY <1>2, FS_EmptySet
  <2>3. k - LineStart(text, k) + 0 = k - LineStart(text, k)
    BY <2>1
  <2> QED
    BY <2>2, <2>3 DEF ProtocolPosition, position_at_byte_offset
<1>3. c.range.start = position_at_byte_offset(text, from)
      /\ c.range.end = position_at_byte_offset(text, to) /\ c.text = new
  BY <1>1, <1>2 DEF Range2
<1>4. offset_at(text, c.range.start) = from /\ offset_at(text, c.range.end) = to
  BY <1>1, <1>3, RoundTrip
<1>5. text # NoText
  BY NoTextApart
<1> HIDE DEF c
<1>6. from # Outside /\ to # Outside /\ ~(from > to)
  BY <1>1 DEF Outside
<1> QED
  BY <1>3, <1>4, <1>5, <1>6 DEF apply_content_change, c

\* What the editor sends is a change.
LEMMA EditIsChange ==
  ASSUME NEW text, NEW from \in Nat, NEW to \in Nat, NEW new \in Seq(Chars)
  PROVE  [range |-> Range2(ProtocolPosition(text, from), ProtocolPosition(text, to)),
          text  |-> new] \in Changes
<1>1. ASSUME NEW k \in Nat
      PROVE  ProtocolPosition(text, k) \in Positions
  <2>1. LineStart(text, k) \in 0..k /\ LineOf(text, k) \in Nat
    BY LineStartFacts, NewlinesFinite
  <2>2. IsFiniteSet(LineStart(text, k) + 1..k)
    BY <2>1, FS_Interval
  <2>3. Cardinality(Wide(text, k)) \in Nat
    BY <2>2, FS_Subset, FS_CardinalityType DEF Wide
  <2>4. k - LineStart(text, k) + Cardinality(Wide(text, k)) \in Nat
    BY <2>1, <2>3
  <2> QED
    BY <2>1, <2>4 DEF ProtocolPosition, Position, Positions
<1> QED
  BY <1>1 DEF Changes, Range2

-----------------------------------------------------------------------------
(***************************************************************************)
(* Batches.                                                                *)
(***************************************************************************)
\* A step of text_after_content_changes.
Based(base) == IF base = NoText THEN <<>> ELSE base
ChangeStep(base, changes, f, k) ==
  IF k = 0 THEN Based(base) ELSE apply_content_change(f[k - 1], changes[k])

\* The recursion that text_after_content_changes is written with has a solution.
LEMMA ChangesExist ==
  ASSUME NEW base, NEW changes, NEW n \in Nat
  PROVE  \E f : f = [k \in 0..n |-> ChangeStep(base, changes, f, k)]
<1> DEFINE Step(f, k) == ChangeStep(base, changes, f, k)
           Solved(m) == \E f : f = [k \in 0..m |-> Step(f, k)]
           T == {m \in Nat : Solved(m)}
<1>1. Solved(0)
  <2> DEFINE f == [k \in 0..0 |-> Based(base)]
  <2>1. f = [k \in 0..0 |-> Step(f, k)]
    BY DEF ChangeStep, Based
  <2> QED
    BY <2>1
<1>2. ASSUME NEW m \in Nat, Solved(m)
      PROVE  Solved(m + 1)
  <2>1. PICK f : f = [k \in 0..m |-> Step(f, k)]
    BY <1>2
  <2> DEFINE g == [k \in 0..m + 1 |-> IF k = m + 1 THEN Step(f, k) ELSE f[k]]
  <2>2. ASSUME NEW k \in 0..m + 1
        PROVE  g[k] = Step(g, k)
    <3>1. k # 0 => k - 1 \in 0..m /\ g[k - 1] = f[k - 1]
      OBVIOUS
    <3>2. Step(g, k) = Step(f, k)
      BY <3>1 DEF ChangeStep, Based
    <3>3. k # m + 1 => k \in 0..m
      OBVIOUS
    <3>4. k # m + 1 => f[k] = Step(f, k)
      BY <2>1, <3>3
    <3> QED
      BY <3>2, <3>4
  <2>3. g = [k \in 0..m + 1 |-> Step(g, k)]
    BY <2>2
  <2> QED
    BY <2>3
<1> HIDE DEF Solved
<1>3. 0 \in T /\ \A m \in Nat : m \in T => m + 1 \in T
  BY <1>1, <1>2
<1>4. Nat \subseteq T
  BY <1>3, SetInduction
<1>5. Solved(n)
  BY <1>4
<1> QED
  BY <1>5 DEF Solved

\* The texts between the changes of a batch.
LEMMA ChangesUnfold ==
  ASSUME NEW base, NEW changes, Len(changes) \in Nat
  PROVE  \E f : /\ text_after_content_changes(base, changes) = f[Len(changes)]
                /\ f[0] = Based(base)
                /\ \A k \in 0..Len(changes) - 1 :
                     f[k + 1] = apply_content_change(f[k], changes[k + 1])
<1> DEFINE n == Len(changes)
           Step(f, k) == ChangeStep(base, changes, f, k)
           text == CHOOSE f : f = [k \in 0..n |-> Step(f, k)]
<1>1. text = [k \in 0..n |-> Step(text, k)]
  <2>1. \E f : f = [k \in 0..n |-> Step(f, k)]
    BY ChangesExist
  <2> QED
    BY <2>1, Zenon
<1>2. text_after_content_changes(base, changes) = text[n]
  BY DEF text_after_content_changes, ChangeStep, Based
<1> HIDE DEF text
<1>3. text[0] = Based(base)
  BY <1>1 DEF ChangeStep
<1>4. ASSUME NEW k \in 0..n - 1
      PROVE  text[k + 1] = apply_content_change(text[k], changes[k + 1])
  <2>1. k + 1 \in 0..n /\ k + 1 # 0 /\ k + 1 - 1 = k
    OBVIOUS
  <2>2. text[k + 1] = Step(text, k + 1)
    BY <1>1, <2>1, Zenon
  <2> QED
    BY <2>1, <2>2 DEF ChangeStep
<1> QED
  BY <1>2, <1>3, <1>4

\* No changes, no difference.
LEMMA NoChanges ==
  ASSUME NEW base \in Seq(Chars)
  PROVE  text_after_content_changes(base, <<>>) = base
<1>1. Len(<<>>) = 0
  OBVIOUS
<1>2. text_after_content_changes(base, <<>>) = Based(base)
  BY <1>1, ChangesUnfold
<1> QED
  BY <1>2, NoTextApart DEF Based

\* A batch gives a text or is refused.
LEMMA ChangesType ==
  ASSUME NEW base, base \in Seq(Chars) \/ base = NoText, NEW changes \in Seq(Changes)
  PROVE  LET r == text_after_content_changes(base, changes) IN r \in Seq(Chars) \/ r = NoText
<1> DEFINE n == Len(changes)
<1>1. n \in Nat /\ \A k \in 0..n - 1 : changes[k + 1] \in Changes
  <2>1. n \in Nat /\ DOMAIN changes = 1..n
    OBVIOUS
  <2>2. \A k \in 0..n - 1 : k + 1 \in 1..n
    BY <2>1
  <2> QED
    BY <2>1, <2>2
<1>2. PICK f : /\ text_after_content_changes(base, changes) = f[n]
               /\ f[0] = Based(base)
               /\ \A k \in 0..n - 1 : f[k + 1] = apply_content_change(f[k], changes[k + 1])
  BY <1>1, ChangesUnfold
<1> HIDE DEF n
<1> DEFINE Right(k) == f[k] \in Seq(Chars) \/ f[k] = NoText
           T == {k \in Nat : k <= n => Right(k)}
<1>3. Right(0)
  BY <1>2 DEF Based
<1>4. ASSUME NEW k \in Nat, k \in T
      PROVE  k + 1 \in T
  <2> SUFFICES ASSUME k + 1 <= n
               PROVE  Right(k + 1)
    OBVIOUS
  <2>1. k \in 0..n - 1 /\ k <= n
    BY <1>1
  <2>2. Right(k)
    BY <1>4, <2>1
  <2> QED
    BY <1>1, <1>2, <2>1, <2>2, ApplyType
<1>5. Nat \subseteq T
  BY <1>3, <1>4, SetInduction
<1> QED
  BY <1>1, <1>2, <1>5

\* One change more.
LEMMA ChangesAppend ==
  ASSUME NEW base, NEW changes \in Seq(Changes), NEW c \in Changes
  PROVE  text_after_content_changes(base, Append(changes, c))
           = apply_content_change(text_after_content_changes(base, changes), c)
<1> DEFINE n == Len(changes)
           more == Append(changes, c)
<1>1. /\ n \in Nat /\ Len(more) = n + 1 /\ more[n + 1] = c
      /\ \A k \in 0..n - 1 : more[k + 1] = changes[k + 1]
  <2>1. n \in Nat /\ Len(more) = n + 1 /\ more[n + 1] = c /\ \A i \in 1..n : more[i] = changes[i]
    OBVIOUS
  <2>2. \A k \in 0..n - 1 : k + 1 \in 1..n
    BY <2>1
  <2> QED
    BY <2>1, <2>2
<1>2. PICK f : /\ text_after_content_changes(base, changes) = f[n]
               /\ f[0] = Based(base)
               /\ \A k \in 0..n - 1 : f[k + 1] = apply_content_change(f[k], changes[k + 1])
  BY <1>1, ChangesUnfold
<1>3. PICK g : /\ text_after_content_changes(base, more) = g[n + 1]
               /\ g[0] = Based(base)
               /\ \A k \in 0..n : g[k + 1] = apply_content_change(g[k], more[k + 1])
  <2> HIDE DEF more, n
  <2>1. Len(more) \in Nat /\ 0..Len(more) - 1 = 0..n
    BY <1>1
  <2>2. \E g : /\ text_after_content_changes(base, more) = g[Len(more)]
               /\ g[0] = Based(base)
               /\ \A k \in 0..Len(more) - 1 : g[k + 1] = apply_content_change(g[k], more[k + 1])
    <3>1. Len(more) \in Nat
      BY <2>1
    <3> QED
      BY <3>1, ChangesUnfold, ZenonT(60)
  <2>3. Len(more) = n + 1
    BY <1>1
  <2> QED
    BY <2>1, <2>2, <2>3, Zenon
<1> HIDE DEF n, more
<1> DEFINE T == {k \in Nat : k <= n => g[k] = f[k]}
<1>4. 0 \in T
  BY <1>2, <1>3
<1>5. ASSUME NEW k \in Nat, k \in T
      PROVE  k + 1 \in T
  <2> SUFFICES ASSUME k + 1 <= n
               PROVE  g[k + 1] = f[k + 1]
    OBVIOUS
  <2>1. k \in 0..n - 1 /\ k \in 0..n /\ k <= n
    BY <1>1
  <2>2. g[k] = f[k] /\ more[k + 1] = changes[k + 1]
    BY <1>1, <1>5, <2>1
  <2> QED
    BY <1>2, <1>3, <2>1, <2>2
<1>6. Nat \subseteq T
  BY <1>4, <1>5, SetInduction
<1>7. g[n] = f[n] /\ n \in 0..n
  BY <1>1, <1>6
<1> QED
  BY <1>1, <1>2, <1>3, <1>7 DEF more

-----------------------------------------------------------------------------
(***************************************************************************)
(* The range of a change.                                                  *)
(***************************************************************************)
\* A part of a text.
LEMMA PartFacts ==
  ASSUME NEW s \in Seq(Chars), NEW a \in Nat \ {0}, NEW b \in Nat, b <= Len(s), a <= b + 1
  PROVE  /\ SubSeq(s, a, b) \in Seq(Chars) /\ Len(SubSeq(s, a, b)) = b - a + 1
         /\ \A i \in 1..b - a + 1 : SubSeq(s, a, b)[i] = s[a + i - 1]
<1>1. Len(s) \in Nat
  OBVIOUS
<1>2. \A i \in a..b : s[i] \in Chars
  BY <1>1
<1>3. /\ SubSeq(s, a, b) \in Seq(Chars)
      /\ Len(SubSeq(s, a, b)) = IF a <= b THEN b - a + 1 ELSE 0
      /\ \A i \in 1..b - a + 1 : SubSeq(s, a, b)[i] = s[a + i - 1]
  BY <1>2, SubSeqProperties
<1>4. Len(SubSeq(s, a, b)) = b - a + 1
  BY <1>3
<1> QED
  BY <1>3, <1>4

\* The common prefix is common.
LEMMA PrefixFacts ==
  ASSUME NEW s \in Seq(Chars), NEW t \in Seq(Chars)
  PROVE  LET n == CommonPrefix(s, t)
         IN n \in Nat /\ n <= Len(s) /\ n <= Len(t) /\ SubSeq(s, 1, n) = SubSeq(t, 1, n)
<1> DEFINE m == Min({Len(s), Len(t)})
           Same(n) == SubSeq(s, 1, n) = SubSeq(t, 1, n)
           S == {n \in 0..m : Same(n)}
           c == CommonPrefix(s, t)
<1>1. Len(s) \in Nat /\ Len(t) \in Nat
  OBVIOUS
<1>2. m \in Nat /\ m <= Len(s) /\ m <= Len(t)
  BY <1>1, MinOfTwo
<1> HIDE DEF m
<1>3. Same(0)
  BY SubSeqEmpty
<1>4. c = Max(S)
  BY DEF CommonPrefix, m
<1> HIDE DEF Same, c
<1>5. 0 \in S /\ S \subseteq 0..m
  BY <1>2, <1>3
<1>6. c \in S
  BY <1>2, <1>4, <1>5, MaxFacts
<1>7. c \in Nat /\ c <= Len(s) /\ c <= Len(t) /\ Same(c)
  BY <1>1, <1>2, <1>6
<1> QED
  BY <1>7 DEF Same, c

\* The common suffix is common.
LEMMA SuffixFacts ==
  ASSUME NEW s \in Seq(Chars), NEW t \in Seq(Chars)
  PROVE  LET n == CommonSuffix(s, t)
         IN /\ n \in Nat /\ n <= Len(s) /\ n <= Len(t)
            /\ SubSeq(s, Len(s) - n + 1, Len(s)) = SubSeq(t, Len(t) - n + 1, Len(t))
<1> DEFINE m == Min({Len(s), Len(t)})
           Same(n) == SubSeq(s, Len(s) - n + 1, Len(s)) = SubSeq(t, Len(t) - n + 1, Len(t))
           S == {n \in 0..m : Same(n)}
           c == CommonSuffix(s, t)
<1>1. Len(s) \in Nat /\ Len(t) \in Nat
  OBVIOUS
<1>2. m \in Nat /\ m <= Len(s) /\ m <= Len(t)
  BY <1>1, MinOfTwo
<1> HIDE DEF m
<1>3. Same(0)
  <2>1. SubSeq(s, Len(s) - 0 + 1, Len(s)) = <<>>
    BY <1>1, SubSeqEmpty
  <2>2. SubSeq(t, Len(t) - 0 + 1, Len(t)) = <<>>
    BY <1>1, SubSeqEmpty
  <2> QED
    BY <2>1, <2>2
<1>4. c = Max(S)
  BY DEF CommonSuffix, m
<1> HIDE DEF Same, c
<1>5. 0 \in S /\ S \subseteq 0..m
  BY <1>2, <1>3
<1>6. c \in S
  BY <1>2, <1>4, <1>5, MaxFacts
<1>7. c \in Nat /\ c <= Len(s) /\ c <= Len(t) /\ Same(c)
  BY <1>1, <1>2, <1>6
<1> QED
  BY <1>7 DEF Same, c

\* The end of a text is the end of what is left of it.
LEMMA EndOfRest ==
  ASSUME NEW s \in Seq(Chars), NEW p \in Nat, p <= Len(s), NEW n \in Nat, n <= Len(s) - p
  PROVE  LET r == SubSeq(s, p + 1, Len(s))
         IN SubSeq(r, Len(r) - n + 1, Len(r)) = SubSeq(s, Len(s) - n + 1, Len(s))
<1> DEFINE r == SubSeq(s, p + 1, Len(s))
           x == SubSeq(r, Len(r) - n + 1, Len(r))
           y == SubSeq(s, Len(s) - n + 1, Len(s))
           L == Len(s)
<1>1. L \in Nat
  OBVIOUS
<1>2. /\ r \in Seq(Chars) /\ Len(r) = L - p
      /\ \A i \in 1..L - p : r[i] = s[p + i]
  <2> DEFINE a == p + 1
  <2>1. /\ a \in Nat \ {0} /\ a <= L + 1 /\ L - a + 1 = L - p
        /\ \A i \in 1..L - p : a + i - 1 = p + i
    BY <1>1
  <2>2. r = SubSeq(s, a, L)
    OBVIOUS
  <2> HIDE DEF a, r
  <2>3. /\ SubSeq(s, a, L) \in Seq(Chars) /\ Len(SubSeq(s, a, L)) = L - a + 1
        /\ \A i \in 1..L - a + 1 : SubSeq(s, a, L)[i] = s[a + i - 1]
    BY <1>1, <2>1, PartFacts
  <2> QED
    BY <2>1, <2>2, <2>3
<1> HIDE DEF r
<1>3. /\ x \in Seq(Chars) /\ Len(x) = n
      /\ \A i \in 1..n : x[i] = r[L - p - n + i]
  <2> DEFINE a == Len(r) - n + 1
             b == Len(r)
  <2>1. /\ a \in Nat \ {0} /\ b \in Nat /\ b <= Len(r) /\ a <= b + 1 /\ b - a + 1 = n
        /\ \A i \in 1..n : a + i - 1 = L - p - n + i
    BY <1>1, <1>2
  <2>2. x = SubSeq(r, a, b)
    OBVIOUS
  <2> HIDE DEF a, b, x
  <2>3. /\ SubSeq(r, a, b) \in Seq(Chars) /\ Len(SubSeq(r, a, b)) = b - a + 1
        /\ \A i \in 1..b - a + 1 : SubSeq(r, a, b)[i] = r[a + i - 1]
    BY <1>2, <2>1, PartFacts
  <2> QED
    BY <2>1, <2>2, <2>3
<1>4. /\ y \in Seq(Chars) /\ Len(y) = n
      /\ \A i \in 1..n : y[i] = s[L - n + i]
  <2> DEFINE a == L - n + 1
  <2>1. /\ a \in Nat \ {0} /\ a <= L + 1 /\ L - a + 1 = n
        /\ \A i \in 1..n : a + i - 1 = L - n + i
    BY <1>1
  <2> HIDE DEF a
  <2>2. /\ SubSeq(s, a, L) \in Seq(Chars) /\ Len(SubSeq(s, a, L)) = L - a + 1
        /\ \A i \in 1..L - a + 1 : SubSeq(s, a, L)[i] = s[a + i - 1]
    BY <1>1, <2>1, PartFacts
  <2> QED
    BY <2>1, <2>2 DEF a
<1> HIDE DEF x, y
<1>5. \A i \in 1..n : x[i] = y[i]
  <2> TAKE i \in 1..n
  <2>1. L - p - n + i \in 1..L - p /\ p + (L - p - n + i) = L - n + i
    BY <1>1
  <2> QED
    BY <1>2, <1>3, <1>4, <2>1
<1>6. x = y
  BY <1>3, <1>4, <1>5, SeqEqual
<1> QED
  BY <1>6 DEF x, y, r

\* A text put together from its parts.
LEMMA Splice ==
  ASSUME NEW s \in Seq(Chars), NEW t \in Seq(Chars),
         NEW p \in 0..Len(s), NEW e \in Nat, NEW to \in p..Len(s),
         SubSeq(t, 1, p) = SubSeq(s, 1, p),
         SubSeq(t, e + 1, Len(t)) = SubSeq(s, to + 1, Len(s))
  PROVE  Replace(t, p, e, SubSeq(s, p + 1, to)) = s
<1> DEFINE L == Len(s)
           x == SubSeq(s, 1, p)
           y == SubSeq(s, p + 1, to)
           z == SubSeq(s, to + 1, L)
           w == (x \o y) \o z
<1>1. L \in Nat /\ p \in Nat /\ to \in Nat /\ p <= to /\ to <= L
  OBVIOUS
<1>2. x \in Seq(Chars) /\ Len(x) = p /\ \A i \in 1..p : x[i] = s[i]
  <2>1. p - 1 + 1 = p /\ \A i \in 1..p : 1 + i - 1 = i
    BY <1>1
  <2>2. /\ x \in Seq(Chars) /\ Len(x) = p - 1 + 1
        /\ \A i \in 1..p - 1 + 1 : x[i] = s[1 + i - 1]
    BY <1>1, PartFacts
  <2> QED
    BY <2>1, <2>2
<1>3. y \in Seq(Chars) /\ Len(y) = to - p /\ \A i \in 1..to - p : y[i] = s[p + i]
  <2> DEFINE a == p + 1
  <2>1. a \in Nat \ {0} /\ a <= to + 1 /\ to - a + 1 = to - p /\ \A i \in 1..to - p : a + i - 1 = p + i
    BY <1>1
  <2> HIDE DEF a
  <2>2. /\ SubSeq(s, a, to) \in Seq(Chars) /\ Len(SubSeq(s, a, to)) = to - a + 1
        /\ \A i \in 1..to - a + 1 : SubSeq(s, a, to)[i] = s[a + i - 1]
    BY <1>1, <2>1, PartFacts
  <2> QED
    BY <2>1, <2>2 DEF a
<1>4. z \in Seq(Chars) /\ Len(z) = L - to /\ \A i \in 1..L - to : z[i] = s[to + i]
  <2> DEFINE a == to + 1
  <2>1. a \in Nat \ {0} /\ a <= L + 1 /\ L - a + 1 = L - to /\ \A i \in 1..L - to : a + i - 1 = to + i
    BY <1>1
  <2> HIDE DEF a
  <2>2. /\ SubSeq(s, a, L) \in Seq(Chars) /\ Len(SubSeq(s, a, L)) = L - a + 1
        /\ \A i \in 1..L - a + 1 : SubSeq(s, a, L)[i] = s[a + i - 1]
    BY <1>1, <2>1, PartFacts
  <2> QED
    BY <2>1, <2>2 DEF a
<1>5. Replace(t, p, e, y) = w
  BY DEF Replace
<1> HIDE DEF x, y, z
<1>6. /\ x \o y \in Seq(Chars) /\ Len(x \o y) = to
      /\ \A i \in 1..to : (x \o y)[i] = s[i]
  <2>1. /\ x \o y \in Seq(Chars) /\ Len(x \o y) = Len(x) + Len(y)
        /\ \A i \in 1..Len(x) + Len(y) : (x \o y)[i] = IF i <= Len(x) THEN x[i] ELSE y[i - Len(x)]
    BY <1>2, <1>3, ConcatProperties
  <2>2. Len(x) + Len(y) = to
    BY <1>1, <1>2, <1>3
  <2>3. ASSUME NEW i \in 1..to
        PROVE  (x \o y)[i] = s[i]
    <3>1. CASE i <= p
      BY <1>1, <1>2, <2>1, <2>2, <3>1
    <3>2. CASE ~(i <= p)
      <4>1. i - p \in 1..to - p /\ p + (i - p) = i
        BY <1>1, <3>2
      <4>2. (x \o y)[i] = y[i - p]
        BY <1>2, <2>1, <2>2, <3>2
      <4> QED
        BY <1>3, <4>1, <4>2
    <3> QED
      BY <3>1, <3>2
  <2> QED
    BY <2>1, <2>2, <2>3
<1> DEFINE v == x \o y
<1> HIDE DEF v
<1>7. w = v \o z /\ v \in Seq(Chars) /\ Len(v) = to /\ \A i \in 1..to : v[i] = s[i]
  BY <1>6 DEF v
<1> HIDE DEF w
<1>8. /\ w \in Seq(Chars) /\ Len(w) = L
      /\ \A i \in 1..L : w[i] = s[i]
  <2>1. /\ w \in Seq(Chars) /\ Len(w) = Len(v) + Len(z)
        /\ \A i \in 1..Len(v) + Len(z) : w[i] = IF i <= Len(v) THEN v[i] ELSE z[i - Len(v)]
    BY <1>4, <1>7, ConcatProperties
  <2>2. Len(v) + Len(z) = L
    BY <1>1, <1>4, <1>7
  <2>3. ASSUME NEW i \in 1..L
        PROVE  w[i] = s[i]
    <3>1. CASE i <= to
      BY <1>1, <1>7, <2>1, <2>2, <3>1
    <3>2. CASE ~(i <= to)
      <4>1. i - to \in 1..L - to /\ to + (i - to) = i
        BY <1>1, <3>2
      <4>2. w[i] = z[i - to]
        BY <1>7, <2>1, <2>2, <3>2
      <4> QED
        BY <1>4, <4>1, <4>2
    <3> QED
      BY <3>1, <3>2
  <2> QED
    BY <2>1, <2>2, <2>3
<1>9. w = s
  BY <1>8, SeqEqual
<1> QED
  BY <1>5, <1>9 DEF y

\* The range between two texts covers the change.
LEMMA ChangedRange ==
  ASSUME NEW s \in Seq(Chars), NEW t \in Seq(Chars), s # t
  PROVE  LET changed == changed_range_between_texts(s, t)
             a == offset_at(t, changed.start)
             b == offset_at(t, changed.end)
         IN /\ changed # NoRange
            /\ 0 <= a /\ a <= b
            /\ \E to \in a..Len(s) : Replace(t, a, b, SubSeq(s, a + 1, to)) = s
<1> DEFINE p == CommonPrefix(s, t)
           x == SubSeq(s, p + 1, Len(s))
           y == SubSeq(t, p + 1, Len(t))
           n == CommonSuffix(x, y)
           e == Len(t) - n
           changed == changed_range_between_texts(s, t)
<1>1. Len(s) \in Nat /\ Len(t) \in Nat
  OBVIOUS
<1>2. p \in Nat /\ p <= Len(s) /\ p <= Len(t) /\ SubSeq(s, 1, p) = SubSeq(t, 1, p)
  BY PrefixFacts
<1>3. changed = Range2(position_at_byte_offset(t, p), position_at_byte_offset(t, e))
  BY DEF changed_range_between_texts
<1> HIDE DEF p
<1>4. x \in Seq(Chars) /\ Len(x) = Len(s) - p /\ y \in Seq(Chars) /\ Len(y) = Len(t) - p
  <2>1. p + 1 \in Nat \ {0} /\ p + 1 <= Len(s) + 1 /\ p + 1 <= Len(t) + 1
    BY <1>1, <1>2
  <2>2. x \in Seq(Chars) /\ Len(x) = Len(s) - (p + 1) + 1
    BY <1>1, <2>1, PartFacts
  <2>3. y \in Seq(Chars) /\ Len(y) = Len(t) - (p + 1) + 1
    BY <1>1, <2>1, PartFacts
  <2> HIDE DEF x, y
  <2> QED
    BY <1>1, <1>2, <2>2, <2>3
<1>5. /\ n \in Nat /\ n <= Len(x) /\ n <= Len(y)
      /\ SubSeq(x, Len(x) - n + 1, Len(x)) = SubSeq(y, Len(y) - n + 1, Len(y))
  <2> HIDE DEF x, y
  <2> QED
    BY <1>4, SuffixFacts
<1> HIDE DEF n
<1>6. n <= Len(s) - p /\ n <= Len(t) - p
  BY <1>4, <1>5
<1>7. SubSeq(s, Len(s) - n + 1, Len(s)) = SubSeq(t, Len(t) - n + 1, Len(t))
  <2>1. SubSeq(x, Len(x) - n + 1, Len(x)) = SubSeq(s, Len(s) - n + 1, Len(s))
    BY <1>2, <1>5, <1>6, EndOfRest
  <2>2. SubSeq(y, Len(y) - n + 1, Len(y)) = SubSeq(t, Len(t) - n + 1, Len(t))
    BY <1>2, <1>5, <1>6, EndOfRest
  <2> QED
    BY <1>5, <2>1, <2>2
<1>8. p \in 0..Len(t) /\ e \in 0..Len(t) /\ p <= e
  BY <1>1, <1>2, <1>5, <1>6
<1> HIDE DEF e
<1>9. offset_at(t, changed.start) = p /\ offset_at(t, changed.end) = e
  BY <1>1, <1>3, <1>8, RoundTrip DEF Range2
<1>10. changed # NoRange
  <2>1. changed.end.line = LineOf(t, e) /\ LineOf(t, e) \in Nat
    BY <1>3, <1>8, NewlinesFinite DEF Range2, position_at_byte_offset, Position
  <2>2. NoRange.end.line = -1
    BY DEF NoRange, Range2, Position
  <2> QED
    BY <2>1, <2>2
<1>11. \E to \in p..Len(s) : Replace(t, p, e, SubSeq(s, p + 1, to)) = s
  <2> DEFINE to == Len(s) - n
  <2>1. to \in p..Len(s) /\ p \in 0..Len(s) /\ e \in Nat
        /\ to + 1 = Len(s) - n + 1 /\ e + 1 = Len(t) - n + 1
    BY <1>1, <1>2, <1>5, <1>6, <1>8 DEF e
  <2> HIDE DEF to
  <2>2. SubSeq(t, e + 1, Len(t)) = SubSeq(s, to + 1, Len(s))
    BY <1>7, <2>1
  <2>3. Replace(t, p, e, SubSeq(s, p + 1, to)) = s
    BY <1>2, <2>1, <2>2, Splice
  <2> QED
    BY <2>1, <2>3
<1> HIDE DEF changed
<1>12. 0 <= p
  BY <1>2
<1> QED
  BY <1>8, <1>9, <1>10, <1>11, <1>12 DEF changed

-----------------------------------------------------------------------------
(***************************************************************************)
(* The specification.  Between two notifications the copies differ by the  *)
(* changes of the batch, as long as none was skewed.                       *)
(***************************************************************************)
TypesInv ==
  /\ editor \in Seq(Chars) /\ batch \in Seq(Changes)
  /\ server \in Seq(Chars) \/ server = NoText
SyncInv ==
  ~skewed => server # NoText /\ text_after_content_changes(server, batch) = editor
TextInv == TypesInv /\ SyncInv

\* The start.
LEMMA TextInit == Init => TextInv
<1> SUFFICES ASSUME Init
             PROVE  TextInv
  OBVIOUS
<1>1. PICK n \in 0..MaxLength : editor \in [1..n -> Chars]
  BY DEF Init, Texts
<1>2. n \in Nat
  BY TextAssumption
<1>3. editor \in Seq(Chars)
  BY <1>1, <1>2, SeqDef
<1>4. TypesInv
  BY <1>3 DEF Init, TypesInv
<1>5. SyncInv
  BY <1>3, NoChanges, NoTextApart DEF Init, SyncInv
<1> QED
  BY <1>4, <1>5 DEF TextInv

\* The copies right after the editor sent its whole text.
LEMMA WholeText ==
  ASSUME TextInv, server' = editor, batch' = <<>>, editor' = editor
  PROVE  TextInv'
<1>1. editor \in Seq(Chars)
  BY DEF TextInv, TypesInv
<1>2. TypesInv'
  BY <1>1 DEF TypesInv
<1>3. text_after_content_changes(editor, <<>>) = editor /\ editor # NoText
  BY <1>1, NoChanges, NoTextApart
<1>4. SyncInv'
  BY <1>3 DEF SyncInv
<1> QED
  BY <1>2, <1>4 DEF TextInv

\* A step.
LEMMA TextStep == TextInv /\ [Next]_vars => TextInv'
<1> SUFFICES ASSUME TextInv, [Next]_vars
             PROVE  TextInv'
  OBVIOUS
<1> USE DEF TextInv
<1>1. ASSUME NEW from \in 0..MaxLength, NEW to \in 0..MaxLength,
             NEW new \in {<<>>} \cup {<<c>> : c \in Chars}, Edit(from, to, new)
      PROVE  TextInv'
  <2> DEFINE c == [range |-> Range2(ProtocolPosition(editor, from), ProtocolPosition(editor, to)),
                   text  |-> new]
             text == Replace(editor, from, to, new)
  <2>1. /\ from <= to /\ to <= Len(editor) /\ editor' = text /\ batch' = Append(batch, c)
        /\ skewed' = (skewed \/ Wide(editor, from) # {} \/ Wide(editor, to) # {})
        /\ server' = server
    BY <1>1 DEF Edit
  <2>2. new \in Seq(Chars)
    <3>1. \A x \in Chars : <<x>> \in Seq(Chars)
      OBVIOUS
    <3>2. <<>> \in Seq(Chars)
      OBVIOUS
    <3>3. CASE new = <<>>
      BY <3>2, <3>3
    <3>4. CASE new # <<>>
      <4>1. PICK x \in Chars : new = <<x>>
        BY <3>4
      <4> QED
        BY <3>1, <4>1
    <3> QED
      BY <3>3, <3>4
  <2>3. editor \in Seq(Chars) /\ batch \in Seq(Changes) /\ Len(editor) \in Nat
    BY DEF TypesInv
  <2>4. from \in 0..Len(editor) /\ to \in from..Len(editor) /\ from \in Nat /\ to \in Nat
    BY <2>1, <2>3, TextAssumption
  <2>5. text \in Seq(Chars)
    BY <2>2, <2>3, <2>4, ReplaceType
  <2>6. c \in Changes
    BY <2>2, <2>4, EditIsChange
  <2>7. ~skewed' => ~skewed /\ apply_content_change(editor, c) = text
    BY <2>1, <2>3, <2>4, ApplyEdit
  <2> HIDE DEF c, text
  <2>8. TypesInv'
    BY <2>1, <2>3, <2>5, <2>6 DEF TypesInv
  <2>9. text_after_content_changes(server, Append(batch, c))
          = apply_content_change(text_after_content_changes(server, batch), c)
    BY <2>3, <2>6, ChangesAppend
  <2>10. SyncInv'
    BY <2>1, <2>7, <2>9 DEF SyncInv
  <2> QED
    BY <2>8, <2>10
<1>2. CASE DidChange
  <2> DEFINE text == text_after_content_changes(server, batch)
  <2>1. server' = text /\ batch' = <<>> /\ editor' = editor /\ skewed' = skewed
    BY <1>2 DEF DidChange
  <2>2. text \in Seq(Chars) \/ text = NoText
    BY ChangesType DEF TypesInv
  <2>3. TypesInv'
    BY <2>1, <2>2 DEF TypesInv
  <2>4. CASE skewed
    BY <2>1, <2>3, <2>4 DEF SyncInv
  <2>5. CASE ~skewed
    <3>1. server' = editor
      BY <2>1, <2>5 DEF SyncInv
    <3> QED
      BY <2>1, <3>1, WholeText
  <2> QED
    BY <2>4, <2>5
<1>3. CASE DidChangeFull
  BY <1>3, WholeText DEF DidChangeFull
<1>4. CASE Reopen
  BY <1>4, WholeText DEF Reopen
<1>5. CASE UNCHANGED vars
  BY <1>5 DEF vars, TypesInv, SyncInv
<1> QED
  BY <1>1, <1>2, <1>3, <1>4, <1>5 DEF Next

\* The inductive invariant of the copies.
LEMMA TextHolds == Spec => []TextInv
  BY TextInit, TextStep, PTL DEF Spec

\* The server's copy is the editor's text after every notification whose changes
\* were not addressed behind a wide character (text_after_content_changes).
THEOREM CopiesAgree == Spec => []InSyncUnlessSkewed
<1>1. TextInv => InSyncUnlessSkewed
  <2> SUFFICES ASSUME TextInv, batch = <<>>, ~skewed
               PROVE  server = editor
    BY DEF InSyncUnlessSkewed
  <2>1. server \in Seq(Chars) /\ text_after_content_changes(server, <<>>) = editor
    BY DEF TextInv, TypesInv, SyncInv
  <2> QED
    BY <2>1, NoChanges
<1> QED
  BY <1>1, TextHolds, PTL

\* position_at_byte_offset and offset_at are inverse to each other on every text
\* the server can hold.
THEOREM PositionsInvert == Spec => []PositionsRoundTrip
<1>1. TextInv => PositionsRoundTrip
  <2> SUFFICES ASSUME TextInv, server # NoText, NEW k \in 0..Len(server)
               PROVE  offset_at(server, position_at_byte_offset(server, k)) = k
    BY DEF PositionsRoundTrip
  <2>1. Len(server) \in Nat
    BY DEF TextInv, TypesInv
  <2> QED
    BY <2>1, RoundTrip
<1> QED
  BY <1>1, TextHolds, PTL

\* The range remembered for a change sent as a whole text covers the change
\* (changed_range_between_texts).
THEOREM RememberedRangeCovers == Spec => TypingRangeCovers
<1> DEFINE Covers ==
      DidChangeFull /\ server # NoText /\ server # editor =>
        LET s == offset_at(server', typing'.start)
            e == offset_at(server', typing'.end)
        IN /\ 0 <= s /\ s <= e
           /\ \E to \in s..Len(server) :
                Replace(server', s, e, SubSeq(server, s + 1, to)) = server
<1>1. TextInv /\ [Next]_vars => [Covers]_vars
  <2> SUFFICES ASSUME TextInv, DidChangeFull, server # NoText, server # editor
               PROVE  LET s == offset_at(server', typing'.start)
                          e == offset_at(server', typing'.end)
                      IN /\ 0 <= s /\ s <= e
                         /\ \E to \in s..Len(server) :
                              Replace(server', s, e, SubSeq(server, s + 1, to)) = server
    OBVIOUS
  <2> DEFINE changed == changed_range_between_texts(server, editor)
  <2>1. server \in Seq(Chars) /\ editor \in Seq(Chars)
    BY DEF TextInv, TypesInv
  <2>2. /\ changed # NoRange
        /\ 0 <= offset_at(editor, changed.start)
        /\ offset_at(editor, changed.start) <= offset_at(editor, changed.end)
        /\ \E to \in offset_at(editor, changed.start)..Len(server) :
             Replace(editor, offset_at(editor, changed.start), offset_at(editor, changed.end),
                     SubSeq(server, offset_at(editor, changed.start) + 1, to)) = server
    BY <2>1, ChangedRange
  <2> HIDE DEF changed
  <2>3. server' = editor /\ typing' = changed
    BY <2>2 DEF DidChangeFull, changed
  <2> QED
    BY <2>2, <2>3
<1>2. TypingRangeCovers <=> [][Covers]_vars
  BY DEF TypingRangeCovers
<1> QED
  BY <1>1, <1>2, TextHolds, PTL DEF Spec
=============================================================================
