------------------------------ MODULE TextSync ------------------------------
(***************************************************************************)
(* Incremental text synchronisation: the editor's changes, addressed by    *)
(* line and UTF-16 unit, applied to the server's copy of a document, which *)
(* counts characters (server/helpers.rs, runtime/range), and the range the *)
(* last change is remembered by (track_recent_typing_change).              *)
(*                                                                         *)
(* A text is a sequence of characters of three kinds: a letter, a wide     *)
(* character that takes two UTF-16 units, and a newline.  The code's byte  *)
(* offsets all come from char_indices, so an offset is the number of       *)
(* characters before it.                                                   *)
(***************************************************************************)
EXTENDS Integers, Sequences, FiniteSets, FiniteSetsExt

CONSTANTS
  MaxLength,  \* bound: length of a text
  MaxBatch    \* bound: changes in one notification

ASSUME TextAssumption == MaxLength \in Nat /\ MaxBatch \in Nat \ {0}

VARIABLES
  editor,    \* the editor's text
  batch,     \* changes made since the last notification
  server,    \* the text in `documents`, NoText when there is none
  typing,    \* recent_typing_changes: the range remembered
  skewed     \* history: a change was addressed behind a wide character

vars == <<editor, batch, server, typing, skewed>>

Chars  == {"letter", "wide", "newline"}
Texts  == UNION {[1..n -> Chars] : n \in 0..MaxLength}
NoText == <<"no text">>

Position(line, character) == [line |-> line, character |-> character]
Range2(start, end) == [start |-> start, end |-> end]
NoRange == Range2(Position(0, 0), Position(-1, 0))
Outside == -1

Newlines(text, k)  == {i \in 1..k : text[i] = "newline"}
LineOf(text, k)    == Cardinality(Newlines(text, k))
LineStart(text, k) == Max(Newlines(text, k) \cup {0})

-----------------------------------------------------------------------------
(***************************************************************************)
(* The editor's side: UTF-16 units on the line before the offset.          *)
(***************************************************************************)
Wide(text, k) == {i \in LineStart(text, k) + 1..k : text[i] = "wide"}
ProtocolPosition(text, k) ==
  Position(LineOf(text, k), k - LineStart(text, k) + Cardinality(Wide(text, k)))

(***************************************************************************)
(* The server's side.  position_at_byte_offset counts characters, and so   *)
(* does offset_at: it walks the lines, a trailing newline starting none,   *)
(* refuses a character past the end of the line, and takes the line after  *)
(* the last one, character 0, for the end of the text.                     *)
(***************************************************************************)
position_at_byte_offset(text, k) == Position(LineOf(text, k), k - LineStart(text, k))

Starts(text) == {k \in 0..Len(text) - 1 : k = 0 \/ text[k] = "newline"}
LineEnd(text, start) ==
  Min({i - 1 : i \in {j \in start + 1..Len(text) : text[j] = "newline"}} \cup {Len(text)})

OffsetOnLines(text, p) ==
  LET line == {k \in Starts(text) : LineOf(text, k) = p.line}
  IN IF line = {} THEN Outside
     ELSE LET start == CHOOSE k \in line : TRUE
          IN IF start + p.character <= LineEnd(text, start) THEN start + p.character ELSE Outside
offset_at(text, p) ==
  LET line == {k \in Starts(text) : LineOf(text, k) = p.line}
  IN IF line # {} THEN LET start == CHOOSE k \in line : TRUE
                       IN IF start + p.character <= LineEnd(text, start)
                          THEN start + p.character ELSE Outside
     ELSE IF p = Position(Cardinality(Starts(text)), 0) THEN Len(text)
     ELSE Outside

Replace(text, from, to, new) == SubSeq(text, 1, from) \o new \o SubSeq(text, to + 1, Len(text))

\* apply_content_change; an error of one change makes the whole batch fail.
apply_content_change(text, change) ==
  LET start == offset_at(text, change.range.start)
      end   == offset_at(text, change.range.end)
  IN IF text = NoText \/ start = Outside \/ end = Outside \/ start > end
     THEN NoText
     ELSE Replace(text, start, end, change.text)

\* text_after_content_changes: without a document the changes apply to "".
FromTheBase(base, changes) ==
  apply_content_change(IF base = NoText THEN <<>> ELSE base, changes[Len(changes)])
text_after_content_changes(base, changes) ==
  LET text[k \in 0..Len(changes)] ==
        IF k = 0 THEN IF base = NoText THEN <<>> ELSE base
        ELSE apply_content_change(text[k - 1], changes[k])
  IN text[Len(changes)]

(***************************************************************************)
(* changed_range_between_texts: common prefix, then common suffix of what  *)
(* is left, as positions of the new text.                                  *)
(***************************************************************************)
CommonPrefix(s, t) ==
  Max({n \in 0..Min({Len(s), Len(t)}) : SubSeq(s, 1, n) = SubSeq(t, 1, n)})
CommonSuffix(s, t) ==
  Max({n \in 0..Min({Len(s), Len(t)}) :
         SubSeq(s, Len(s) - n + 1, Len(s)) = SubSeq(t, Len(t) - n + 1, Len(t))})

OverlappingRange(s, t) ==
  IF s = t THEN NoRange
  ELSE LET prefix == CommonPrefix(s, t)
           suffix == CommonSuffix(s, t)
       IN Range2(position_at_byte_offset(t, prefix),
                 position_at_byte_offset(t, Max({0, Len(t) - suffix})))
changed_range_between_texts(s, t) ==
  IF s = t THEN NoRange
  ELSE LET prefix == CommonPrefix(s, t)
           suffix == CommonSuffix(SubSeq(s, prefix + 1, Len(s)), SubSeq(t, prefix + 1, Len(t)))
       IN Range2(position_at_byte_offset(t, prefix),
                 position_at_byte_offset(t, Len(t) - suffix))

-----------------------------------------------------------------------------
Init ==
  /\ editor \in Texts /\ server = editor
  /\ batch = <<>> /\ typing = NoRange /\ skewed = FALSE

\* The editor replaces a range by at most one character.
Edit(from, to, new) ==
  /\ Len(batch) < MaxBatch
  /\ from <= to /\ to <= Len(editor)
  /\ LET text == Replace(editor, from, to, new)
         range == Range2(ProtocolPosition(editor, from), ProtocolPosition(editor, to))
     IN /\ Len(text) <= MaxLength
        /\ editor' = text
        /\ batch' = Append(batch, [range |-> range, text |-> new])
        /\ skewed' = (skewed \/ Wide(editor, from) # {} \/ Wide(editor, to) # {})
  /\ UNCHANGED <<server, typing>>

\* did_change with ranges: the new text is stored, or the document dropped.
DidChange ==
  /\ batch # <<>>
  /\ LET text == text_after_content_changes(server, batch)
     IN /\ text = NoText \/ Len(text) <= MaxLength
        /\ server' = text
        /\ typing' = IF text = NoText THEN NoRange ELSE batch[Len(batch)].range
  /\ batch' = <<>>
  /\ UNCHANGED <<editor, skewed>>

\* did_change with the whole text.
DidChangeFull ==
  /\ batch # <<>>
  /\ server' = editor /\ batch' = <<>> /\ skewed' = FALSE
  /\ LET changed == changed_range_between_texts(server, editor)
     IN typing' = IF server = NoText \/ changed = NoRange THEN typing ELSE changed
  /\ UNCHANGED editor

\* The document is closed and opened again.
Reopen ==
  /\ server' = editor /\ batch' = <<>> /\ skewed' = FALSE
  /\ typing' = NoRange
  /\ UNCHANGED editor

Next ==
  \/ \E from, to \in 0..MaxLength : \E new \in {<<>>} \cup {<<c>> : c \in Chars} :
       Edit(from, to, new)
  \/ DidChange \/ DidChangeFull \/ Reopen

Spec == Init /\ [][Next]_vars

-----------------------------------------------------------------------------
\* The server's copy is the editor's text after every notification, however the
\* changes of a batch build on one another, and no change is rejected, as long
\* as no change was addressed behind a wide character of its line (the server
\* counts characters where the protocol counts UTF-16 units); the whole text
\* brings the copies together again.
InSyncUnlessSkewed == batch = <<>> /\ ~skewed => server = editor

\* Positions the server reports and positions it resolves are inverse to each
\* other at every offset of its text, the ends of lines and of the text included.
PositionsRoundTrip ==
  server # NoText =>
    \A k \in 0..Len(server) : offset_at(server, position_at_byte_offset(server, k)) = k

\* The range remembered for a change sent as a whole text covers the change:
\* before and after it the new text is the old one's.
TypingRangeCovers ==
  [][DidChangeFull /\ server # NoText /\ server # editor =>
       LET s == offset_at(server', typing'.start)
           e == offset_at(server', typing'.end)
       IN /\ 0 <= s /\ s <= e
          /\ \E to \in s..Len(server) :
               Replace(server', s, e, SubSeq(server, s + 1, to)) = server]_vars
=============================================================================
