--------------------------- MODULE WorkspaceIndex ---------------------------
(***************************************************************************)
(* The workspace index (core/workspace) as a value.  Its six maps from a   *)
(* name to the entries that declare it are kept in the same way, so one    *)
(* list of entries, those of a name that every file declares, stands for   *)
(* each of them; calls are the definitions the call graph was built from,  *)
(* and modules is the trie from module paths to the files that hold them.  *)
(***************************************************************************)
EXTENDS Naturals, Sequences, FiniteSets, Functions, Selection

CONSTANTS
  Uris,       \* source files
  ModulePath  \* module_path_segments of a file, the same for two programs

Entry(uri, text, open) == [uri |-> uri, text |-> text, open |-> open]

EmptyIndex == [documents |-> {}, entries |-> <<>>, calls |-> {}, modules |-> <<>>]

(***************************************************************************)
(* Sorting is stable: open files first, otherwise in order of insertion.   *)
(***************************************************************************)
SortNothing(entries) == entries
sort_open_entries_first(entries) ==
  LET open == {e \in Range(entries) : e.open}
  IN Select(entries, open) \o Select(entries, Range(entries) \ open)

rebuild_call_graph(entries) == Range(entries)

(***************************************************************************)
(* remove_index_entries_for_uri.  The module path is removed from the trie *)
(* whichever file it leads to.                                             *)
(***************************************************************************)
KeepModulePath(index, uri) == index.modules
remove_module_path(index, uri) ==
  [p \in DOMAIN index.modules \ {ModulePath[uri]} |-> index.modules[p]]

\* retain: the entries of the other files.
Without(entries, uri) == Select(entries, {e \in Range(entries) : e.uri # uri})

ForgetDocumentOnly(index, uri) ==
  [index EXCEPT !.documents = @ \ {uri}, !.modules = remove_module_path(index, uri)]
RemoveWithoutRebuild(index, uri) ==
  [index EXCEPT !.documents = @ \ {uri}, !.modules = remove_module_path(index, uri),
                !.entries = Without(@, uri)]
remove_index_entries_for_uri(index, uri) ==
  LET kept == Without(index.entries, uri)
  IN [documents |-> index.documents \ {uri},
      entries   |-> kept,
      calls     |-> rebuild_call_graph(kept),
      modules   |-> remove_module_path(index, uri)]

(***************************************************************************)
(* insert_indexed_document: forget the file, record its module path, add   *)
(* its entries, sort, rebuild the call graph.                              *)
(***************************************************************************)
record_module_path(index, uri) ==
  [p \in DOMAIN index.modules \cup {ModulePath[uri]} |->
     IF p = ModulePath[uri] THEN uri ELSE index.modules[p]]

insert_indexed_document(index, e) ==
  LET pruned == remove_index_entries_for_uri(index, e.uri)
      sorted == sort_open_entries_first(Append(pruned.entries, e))
  IN [documents |-> pruned.documents \cup {e.uri},
      entries   |-> sorted,
      calls     |-> rebuild_call_graph(sorted),
      modules   |-> record_module_path(pruned, e.uri)]

(***************************************************************************)
(* What is found out about a file is put into the index: its entries, or   *)
(* for text 0, a file that is not there, none.                             *)
(***************************************************************************)
InsertUnread(index, uri, text, open) == insert_indexed_document(index, Entry(uri, text, open))
ApplyUpdate(index, uri, text, open) ==
  IF text = 0 THEN remove_index_entries_for_uri(index, uri)
  ELSE insert_indexed_document(index, Entry(uri, text, open))

\* The loop over the files that updates says something about.
ApplyAll(index, updates, open, order) ==
  LET after[k \in 0..Len(order)] ==
        IF k = 0 THEN index
        ELSE IF order[k] \notin DOMAIN updates THEN after[k - 1]
        ELSE ApplyUpdate(after[k - 1], order[k], updates[order[k]], open)
  IN after[Len(order)]

(***************************************************************************)
(* WorkspaceIndex::build from the files below the roots and then, over     *)
(* them, the open documents, each in the order its directory or hash map   *)
(* yields.  Text 0 is a file that is not there or a document not open.     *)
(***************************************************************************)
Present(texts) == [u \in {v \in Uris : texts[v] # 0} |-> texts[u]]
build(disk, documents, order) ==
  ApplyAll(ApplyAll(EmptyIndex, Present(disk), FALSE, order), Present(documents), TRUE, order)
Orders == {o \in [1..Cardinality(Uris) -> Uris] : IsInjective(o)}

\* symbol_exists_at_qualified_path for a path of module p: the file the trie
\* leads to, if any, has an entry of the name.
ExistsAtPath(index, p) ==
  /\ p \in DOMAIN index.modules
  /\ \E e \in Range(index.entries) : e.uri = index.modules[p]
=============================================================================
