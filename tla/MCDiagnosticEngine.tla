------------------------ MODULE MCDiagnosticEngine -------------------------
EXTENDS DiagnosticEngine, TLC
CONSTANTS t, c1, c2, c3, syn, anchor, native, security, level

Line(n)   == [from |-> <<n, 0>>, to |-> <<n, 5>>]
F(n, topic, code, rank) == [range |-> Line(n), topic |-> topic, code |-> code, rank |-> rank]

\* Two lines; one topic with findings of every confidence and of two codes,
\* and findings without topic.  The parse diagnostic of line 1 has the topic.
SomeFindings ==
  {F(1, t, c1, 1), F(1, t, c2, 2), F(1, t, c1, 3), F(1, NoTopic, c1, 0),
   F(2, t, c2, 1), F(2, t, c1, 2), F(2, NoTopic, c3, 0)}
SomeSyntaxErrors == {F(2, NoTopic, syn, 0), F(1, t, c1, 2)}

X(kind, line, last, pattern, quoted, header) ==
  [kind |-> kind, line |-> line, last |-> last, pattern |-> pattern,
   quoted |-> quoted, header |-> header]
SomeDirectives ==
  {X("none", 0, 0, AnyPattern, FALSE, FALSE), X("workspace", 0, 0, t, FALSE, FALSE),
   X("manifest", 0, 0, AnyPattern, FALSE, FALSE), X("attribute", 1, 2, c2, FALSE, FALSE),
   X("attribute", 2, 2, t, FALSE, FALSE), X("allowFile", 1, 1, c1, FALSE, FALSE),
   X("ignoreFile", 1, 1, AnyPattern, FALSE, TRUE), X("ignoreFile", 2, 2, AnyPattern, FALSE, FALSE),
   X("allow", 1, 1, c1, FALSE, FALSE), X("allow", 1, 1, t, TRUE, FALSE),
   X("ignore", 0, 0, AnyPattern, FALSE, FALSE), X("ignore", 2, 2, AnyPattern, FALSE, FALSE)}
SomeRegions == {NoRegion, [from |-> <<1, 5>>, to |-> <<1, 7>>], [from |-> <<1, 6>>, to |-> <<1, 7>>]}

ThreeRules ==
  <<[phase |-> 1, frameworks |-> {anchor}], [phase |-> 1, frameworks |-> {anchor, native}],
    [phase |-> 2, frameworks |-> {anchor, native}]>>
SwitchesOf(code) == IF code = c1 THEN {security, level} ELSE IF code = c2 THEN {level} ELSE {}
=============================================================================
