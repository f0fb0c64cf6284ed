----------------------------- MODULE CallGraph -----------------------------
(***************************************************************************)
(* The workspace call graph (core/workspace/call_graph.rs) and the query   *)
(* for what the instructions of an accounts context reach                  *)
(* (core/workspace/mod.rs): a breadth-first search per instruction, capped *)
(* at a depth, whose `truncated` flag tells a rule that the answer may be  *)
(* incomplete.  An action is one iteration of a loop of the code.          *)
(***************************************************************************)
EXTENDS Naturals, Sequences, FiniteSets, Functions

CONSTANTS
  Names,          \* function names, numbers so that callees can be sorted
  Definitions,    \* what the index may hold of each name: its bodies' calls
  MaxDepth,       \* MAX_REACHABILITY_DEPTH (8)
  NoName

ASSUME CallGraphAssumption ==
  /\ Names \subseteq Nat /\ IsFiniteSet(Names)
  /\ DOMAIN Definitions = Names
  /\ \A n \in Names : Definitions[n] \subseteq Seq(SUBSET Names)
  /\ MaxDepth \in Nat \ {0}
  /\ NoName \notin Names

VARIABLES
  functions,     \* functions_by_name: the calls of every definition of a name
  edges,         \* CallGraph.edges
  context,       \* names with an entry of the queried accounts context
  policy,        \* WorkspaceReachabilityPolicy
  instructions,  \* the program instructions of the context
  todo,          \* those not searched from yet
  from,          \* the one being searched from, NoName between searches
  pending,       \* the search's queue of (name, depth)
  names,         \* Reachability.names of the search
  capped,        \* Reachability.truncated of the search
  entries,       \* the names of the answer so far
  truncated      \* the answer's flag so far

graph  == <<functions, edges, context, policy, instructions>>
search == <<pending, names, capped>>
answer == <<entries, truncated>>
vars   == <<graph, todo, from, search, answer>>

(***************************************************************************)
(* CallGraph::build: per name the callees of all its definitions, sorted   *)
(* and without repetition; is_unambiguous asks for exactly one definition. *)
(***************************************************************************)
Callees == UNION {[1..k -> Names] : k \in 0..Cardinality(Names)}
Sorted(callees, S) ==
  /\ Range(callees) = S
  /\ \A i, j \in DOMAIN callees : i < j => callees[i] < callees[j]

build == [n \in Names |-> CHOOSE callees \in Callees : Sorted(callees, UNION Range(functions[n]))]

is_unambiguous(n) == Len(functions[n]) = 1

At(callees, depth) == [i \in DOMAIN callees |-> <<callees[i], depth>>]

Init ==
  /\ functions \in [Names -> UNION Range(Definitions)]
  /\ \A n \in Names : functions[n] \in Definitions[n]
  /\ edges = build
  /\ policy \in {"allowAmbiguous", "requireUnambiguous"}
  /\ context \in SUBSET {n \in Names : functions[n] # <<>>}
  /\ instructions \in (SUBSET context) \ {{}}
  /\ todo = instructions /\ from = NoName
  /\ pending = <<>> /\ names = {} /\ capped = FALSE
  /\ entries = instructions /\ truncated = FALSE

Done == from = NoName /\ todo = {}

(***************************************************************************)
(* reachable_function_entries_for_context_with_filter: the search of the   *)
(* next instruction starts with the callees of its name ...                *)
(***************************************************************************)
StartSearch(n) ==
  /\ from = NoName /\ n \in todo
  /\ todo' = todo \ {n} /\ from' = n
  /\ pending' = At(edges[n], 1) /\ names' = {} /\ capped' = FALSE
  /\ UNCHANGED <<graph, answer>>

(***************************************************************************)
(* ... takes one name from the queue per iteration ...                     *)
(***************************************************************************)
Skip(n) ==
  \/ policy = "requireUnambiguous" /\ ~is_unambiguous(n)
  \/ n \in names

ExpandFirst(n, depth, rest) ==
  IF depth >= MaxDepth
  THEN pending' = rest /\ capped' = (capped \/ edges[n] # <<>>)
  ELSE pending' = At(edges[n], depth + 1) \o rest /\ UNCHANGED capped
ExpandSilently(n, depth, rest) ==
  /\ pending' = IF depth >= MaxDepth THEN rest ELSE rest \o At(edges[n], depth + 1)
  /\ UNCHANGED capped
ExpandOneDeeper(n, depth, rest) ==
  IF depth > MaxDepth
  THEN pending' = rest /\ capped' = (capped \/ edges[n] # <<>>)
  ELSE pending' = rest \o At(edges[n], depth + 1) /\ UNCHANGED capped
Expand(n, depth, rest) ==
  IF depth >= MaxDepth
  THEN pending' = rest /\ capped' = (capped \/ edges[n] # <<>>)
  ELSE pending' = rest \o At(edges[n], depth + 1) /\ UNCHANGED capped

Pop ==
  /\ from # NoName /\ pending # <<>>
  /\ LET n     == pending[1][1]
         depth == pending[1][2]
         rest  == Tail(pending)
     IN \/ Skip(n) /\ pending' = rest /\ UNCHANGED <<names, capped>>
        \/ ~Skip(n) /\ names' = names \cup {n} /\ Expand(n, depth, rest)
  /\ UNCHANGED <<graph, todo, from, answer>>

(***************************************************************************)
(* ... and its names join the answer as far as the filter lets them.       *)
(***************************************************************************)
EndSearch ==
  /\ from # NoName /\ pending = <<>>
  /\ entries' = entries \cup (names \cap context)
  /\ truncated' = (truncated \/ capped)
  /\ from' = NoName
  /\ UNCHANGED <<graph, todo, search>>

Next == (\E n \in Names : StartSearch(n)) \/ Pop \/ EndSearch

Spec == Init /\ [][Next]_vars

-----------------------------------------------------------------------------
\* Reference: the calls the policy follows, the names that a chain of at most d
\* of them leads to, and the least set closed under them.
Calls(n, m) ==
  m \in Range(edges[n]) /\ (policy = "requireUnambiguous" => Len(functions[m]) = 1)
Chain(path, k) == \A i \in 1..k : Calls(path[i - 1], path[i])
Within(n, d) ==
  {m \in Names : \E k \in 1..d : \E path \in [0..k -> Names] :
                   path[0] = n /\ path[k] = m /\ Chain(path, k)}
Followed(S) == {m \in Names : \E s \in S : Calls(s, m)}
Closed(n, S) == Followed({n}) \subseteq S /\ Followed(S) \subseteq S
Reachable(n) == {m \in Names : \A S \in SUBSET Names : Closed(n, S) => m \in S}

TypeOK ==
  /\ \A n \in Names : functions[n] \in Definitions[n] /\ edges \in [Names -> Seq(Names)]
  /\ policy \in {"allowAmbiguous", "requireUnambiguous"}
  /\ context \subseteq Names /\ instructions \subseteq context
  /\ todo \subseteq instructions /\ from \in instructions \cup {NoName}
  /\ pending \in Seq(Names \X (1..MaxDepth)) /\ names \subseteq Names
  /\ capped \in BOOLEAN /\ truncated \in BOOLEAN /\ entries \subseteq context

\* A search yields exactly the names within MAX_REACHABILITY_DEPTH calls: its
\* queue is first in, first out, so a name that is reachable both by a long and
\* by a short path is never left unexpanded because the long one came first
\* (call_graph.rs, reachable_from_with_policy).
NamesWithinDepth == from # NoName /\ pending = <<>> => names = Within(from, MaxDepth)

\* The `truncated` flag is honest: without it the answer holds every function of
\* the context that the instructions reach through any number of calls, and no
\* other (mod.rs, reachable_function_entries_for_context_with_filter).
CompleteUnlessTruncated ==
  Done /\ ~truncated =>
    entries = instructions \cup ((UNION {Reachable(n) : n \in instructions}) \cap context)

\* A search raises the flag exactly when a name first met at the cap calls
\* anything: a longer path that ends in a name met earlier does not raise it
\* (call_graph.rs, `truncated |= !callees.is_empty()`).
CapFlagExact ==
  from # NoName /\ pending = <<>> =>
    (capped <=> \E m \in Within(from, MaxDepth) \ Within(from, MaxDepth - 1) : edges[m] # <<>>)
=============================================================================
