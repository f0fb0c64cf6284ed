-------------------------- MODULE DiagnosticEngine --------------------------
(***************************************************************************)
(* From the findings of the rules to the diagnostics of one document       *)
(* (lsp/diagnostics): the engine runs the rules of a lane, arbitration     *)
(* applies settings, the typing region and one finding per topic, then the *)
(* suppression directives filter, and the server puts the syntax           *)
(* diagnostic in front and removes duplicates.                             *)
(*                                                                         *)
(* A finding is [range, topic, code, rank]: its message and rule go with   *)
(* topic and code, rank is confidence_rank.  A pattern is a topic, a code  *)
(* or AnyPattern.  Left out: the related information that only explains a  *)
(* finding, and the severity a level sets.                                 *)
(***************************************************************************)
EXTENDS Integers, Sequences, FiniteSets, Functions, Selection

CONSTANTS
  Findings,     \* findings a rule may have
  NoFinding,
  NoTopic,
  AnyPattern,   \* the pattern "*"
  Registry,     \* the rules in order: phase and frameworks
  Frameworks,
  HotPhase,     \* DiagnosticPhase::AnchorStructure, the last of the hot lane
  Switches,     \* the settings that can turn findings off, a level of a configKey too
  Switched(_),  \* the switches of a code
  SyntaxErrors, \* parse diagnostics a document may have
  Directives,   \* suppression directives a document or project may have
  Regions       \* typing regions, with NoRegion

NoRegion == [from |-> <<1, 0>>, to |-> <<0, 0>>]

ASSUME EngineAssumption ==
  /\ Registry \in Seq([phase : Nat, frameworks : SUBSET Frameworks]) /\ HotPhase \in Nat
  /\ NoFinding \notin Findings \cup SyntaxErrors /\ NoRegion \in Regions
  /\ \A f \in Findings \cup SyntaxErrors : f.rank \in 0..3 /\ f.range.from[1] \in Nat
  /\ \A x \in Directives :
       /\ x.kind \in {"none", "workspace", "manifest", "attribute",
                     "allow", "ignore", "allowFile", "ignoreFile"}
       /\ x.line \in Nat /\ x.last \in Nat

VARIABLES
  lane,        \* "hot" or "full"
  framework,   \* of the document
  off,         \* the switches turned off
  typing,      \* typing_suppression
  directive,   \* where the document is suppressed
  syntax,      \* why the document does not parse
  emits,       \* what each rule finds
  rule,        \* the next rule of the registry
  collected,   \* findings of the rules run
  diagnostics, \* the list in hand
  stage

input == <<lane, framework, off, typing, directive, syntax, emits>>
vars  == <<input, rule, collected, diagnostics, stage>>

Diagnostic(f) == [range |-> f.range, topic |-> f.topic, code |-> f.code, rank |-> f.rank, related |-> {}]
Named(d)      == [range |-> d.range, topic |-> d.topic, code |-> d.code]

Before(p, q) == p[1] < q[1] \/ (p[1] = q[1] /\ p[2] <= q[2])
ranges_touch(r, s) == Before(r.from, s.to) /\ Before(s.from, r.to)

\* A finding is dropped when one of its switches is off.
Enabled(d) == Switched(d.code) \cap off = {}
apply_settings(ds) == Select(ds, {d \in Range(ds) : Enabled(d)})

Untouched(d) == typing = NoRegion \/ ~ranges_touch(d.range, typing)
suppress_typing_region(ds) == Select(ds, {d \in Range(ds) : Untouched(d)})

(***************************************************************************)
(* One finding per range and topic, the first of the most confident; the   *)
(* ones it displaces, and what they had displaced, become its related      *)
(* information.                                                            *)
(***************************************************************************)
SameTopic(d, e) == d.topic # NoTopic /\ d.range = e.range /\ d.topic = e.topic

ReplaceRelated(survivor, demoted) == [survivor EXCEPT !.related = {Named(demoted)}]
append_related(survivor, demoted) ==
  [survivor EXCEPT !.related = @ \cup {Named(demoted)} \cup demoted.related]

LatestWins(selected, d) ==
  LET same == {i \in DOMAIN selected : SameTopic(selected[i], d)}
  IN IF same = {} THEN Append(selected, d)
     ELSE LET i == CHOOSE i \in same : TRUE
          IN [selected EXCEPT ![i] = append_related(d, selected[i])]
Prefer(selected, d) ==
  LET same == {i \in DOMAIN selected : SameTopic(selected[i], d)}
  IN IF same = {} THEN Append(selected, d)
     ELSE LET i == CHOOSE i \in same : TRUE
          IN [selected EXCEPT ![i] = IF d.rank > @.rank THEN append_related(d, @)
                                     ELSE append_related(@, d)]
prefer_highest_confidence_by_topic(ds) ==
  LET selected[k \in 0..Len(ds)] == IF k = 0 THEN <<>> ELSE Prefer(selected[k - 1], ds[k])
  IN selected[Len(ds)]

KeepAll(ds) == ds
AddNew(kept, d) ==
  IF \E e \in Range(kept) : Named(e) = Named(d) THEN kept ELSE Append(kept, d)
dedupe(ds) ==
  LET kept[k \in 0..Len(ds)] == IF k = 0 THEN <<>> ELSE AddNew(kept[k - 1], ds[k])
  IN kept[Len(ds)]

arbitrate(ds) ==
  dedupe(prefer_highest_confidence_by_topic(suppress_typing_region(apply_settings(ds))))

(***************************************************************************)
(* SuppressionIndex: patterns for the file, for single lines and for the   *)
(* lines of an item.  A comment counts for its own line and the next, and  *)
(* nowhere inside a string; ignore-file only in the header of the file.    *)
(***************************************************************************)
IsComment(x) == x.kind \in {"allow", "ignore", "allowFile", "ignoreFile"} /\ ~x.quoted

file_patterns(x) ==
  CASE x.kind = "workspace"                             -> {x.pattern}
    [] x.kind = "manifest"                              -> {AnyPattern}
    [] x.kind = "allowFile" /\ IsComment(x)             -> {x.pattern}
    [] x.kind = "ignoreFile" /\ IsComment(x) /\ x.header -> {AnyPattern}
    [] OTHER                                            -> {}

OwnLine(x, line) == line = x.line
OwnAndNextLine(x, line) == line \in {x.line, x.line + 1}

line_patterns(x, line) ==
  CASE x.kind = "allow" /\ IsComment(x) /\ OwnAndNextLine(x, line)  -> {x.pattern}
    [] x.kind = "ignore" /\ IsComment(x) /\ OwnAndNextLine(x, line) -> {AnyPattern}
    [] OTHER                                                        -> {}

range_patterns(x, line) ==
  IF x.kind = "attribute" /\ line \in x.line..x.last THEN {x.pattern} ELSE {}

suppression_matches(pattern, d) == pattern = AnyPattern \/ pattern \in {d.topic, d.code}

suppresses(d) ==
  LET line == d.range.from[1]
  IN \E p \in file_patterns(directive) \cup line_patterns(directive, line)
                \cup range_patterns(directive, line) : suppression_matches(p, d)

filter(ds) == Select(ds, {d \in Range(ds) : ~suppresses(d)})

-----------------------------------------------------------------------------
\* Rules see an empty file when the document does not parse (parse_or_empty), so
\* none repeats the unresolved name the parse diagnostic may be about.
Degraded ==
  syntax # NoFinding =>
    \A r \in DOMAIN emits : emits[r] # NoFinding => ~SameTopic(syntax, emits[r])

Init ==
  /\ lane \in {"hot", "full"}
  /\ framework \in Frameworks
  /\ off \in SUBSET Switches
  /\ typing \in Regions
  /\ directive \in Directives
  /\ syntax \in SyntaxErrors \cup {NoFinding}
  /\ emits \in [DOMAIN Registry -> Findings \cup {NoFinding}]
  /\ Degraded
  /\ rule = 1 /\ collected = <<>> /\ diagnostics = <<>> /\ stage = "rules"

Runs(r) ==
  /\ lane = "hot" => Registry[r].phase <= HotPhase
  /\ framework \in Registry[r].frameworks

\* collect_through_phase: one rule of the registry.
RunRule ==
  /\ stage = "rules" /\ rule <= Len(Registry)
  /\ rule' = rule + 1
  /\ collected' = IF Runs(rule) /\ emits[rule] # NoFinding
                  THEN Append(collected, Diagnostic(emits[rule])) ELSE collected
  /\ UNCHANGED <<input, diagnostics, stage>>

Arbitrate ==
  /\ stage = "rules" /\ rule > Len(Registry)
  /\ diagnostics' = arbitrate(collected) /\ stage' = "arbitrated"
  /\ UNCHANGED <<input, rule, collected>>

Suppress ==
  /\ stage = "arbitrated"
  /\ diagnostics' = filter(diagnostics) /\ stage' = "suppressed"
  /\ UNCHANGED <<input, rule, collected>>

\* hot_diagnostics_for_document and analysis_diagnostics_for_uri: the syntax
\* diagnostic, suppressed too, then the engine's, without duplicates.
syntax_diagnostics == filter(IF syntax # NoFinding THEN <<Diagnostic(syntax)>> ELSE <<>>)

Publish ==
  /\ stage = "suppressed"
  /\ diagnostics' = dedupe(syntax_diagnostics \o diagnostics) /\ stage' = "published"
  /\ UNCHANGED <<input, rule, collected>>

Next == RunRule \/ Arbitrate \/ Suppress \/ Publish

Spec == Init /\ [][Next]_vars

-----------------------------------------------------------------------------
Published == stage = "published"
Live      == {d \in Range(collected) : Enabled(d) /\ Untouched(d)}

\* Reference: the directive silences a finding.
Silenced(d) ==
  LET line == d.range.from[1]
      x    == directive
      here == CASE x.kind \in {"allow", "ignore"} ->
                     ~x.quoted /\ (line = x.line \/ line = x.line + 1)
                [] x.kind = "attribute"  -> x.line <= line /\ line <= x.last
                [] x.kind = "allowFile"  -> ~x.quoted
                [] x.kind = "ignoreFile" -> ~x.quoted /\ x.header
                [] x.kind = "none"       -> FALSE
                [] OTHER                 -> TRUE
  IN here /\ (x.kind \in {"ignore", "ignoreFile", "manifest"} \/ x.pattern \in {AnyPattern, d.topic, d.code})

\* Of the findings of one range and topic that settings and the typing region
\* leave, the diagnostics of a document show at most one, and it is one of the
\* most confident, whatever order the rules ran in (arbitration.rs).
HighestConfidenceShown ==
  Published =>
    \A d \in Range(diagnostics) : d.topic # NoTopic =>
      /\ \A e \in Range(diagnostics) : SameTopic(d, e) => d = e
      /\ \A e \in Live : SameTopic(d, e) => e.rank <= d.rank

\* No finding is lost: it is shown, or named by the one shown for its topic, or
\* a directive silences it or another finding of its topic (a directive for the
\* survivor's code takes the findings it displaced along).
NothingVanishes ==
  Published =>
    \A d \in Live :
      \/ \E p \in Range(diagnostics) : Named(p) = Named(d) \/ Named(d) \in p.related
      \/ \E e \in Live : (e = d \/ SameTopic(d, e)) /\ Silenced(e)

\* Nothing a directive silences is shown, the syntax diagnostic included, whose
\* one way to the editor goes through the same filter (server/helpers.rs).
SilencedNotShown == Published => \A d \in Range(diagnostics) : ~Silenced(d)

\* A document never shows the same finding twice, although two rules may report
\* it and a finding without topic displaces no other.
NoDuplicates ==
  Published =>
    \A i, j \in DOMAIN diagnostics : Named(diagnostics[i]) = Named(diagnostics[j]) => i = j
=============================================================================
