------------------------- MODULE WorkspaceIndexing -------------------------
(***************************************************************************)
(* How the server keeps its workspace index: full builds, incremental      *)
(* updates for watched files (server/workspace_indexing.rs) and the hot    *)
(* lane's updates for edited documents (server/diagnostic_pipeline.rs).    *)
(*                                                                         *)
(* Handlers are futures of one task and interleave where they await; the   *)
(* work on a blocking thread (a parse, a scan of the disk) happens at some *)
(* moment between the step that starts it and the step that uses it.       *)
(***************************************************************************)
EXTENDS WorkspaceIndex

CONSTANTS
  Handlers,   \* futures tower-lsp runs at once (4)
  Folder,     \* the workspace folder of a file
  MaxTexts,   \* bound: texts produced, in the editor and on disk
  MaxSwitches,\* bound: changes of the setting, the folders and manifests
  MayPanic    \* the work on a blocking thread may panic

ASSUME IndexingAssumption ==
  /\ MaxTexts \in Nat /\ MaxSwitches \in Nat /\ MayPanic \in BOOLEAN
  /\ IsFiniteSet(Uris) /\ DOMAIN Folder = Uris /\ DOMAIN ModulePath = Uris

VARIABLES
  disk,       \* the text of every file, 0 when it is not there
  events,     \* the watched-file events not delivered yet
  texts,      \* texts produced so far
  switches,   \* switches made so far
  enabled,    \* settings.workspace_index
  roots,      \* workspace_roots
  documents,  \* the server's open documents, 0 when not open
  index,      \* workspace_index
  handlers,   \* the futures in flight
  raced       \* history: files whose source changed behind a job in flight

bounds == <<texts, switches>>
vars   == <<disk, events, bounds, enabled, roots, documents, index, handlers, raced>>

Folders == {Folder[u] : u \in Uris}
Absent  == [u \in Uris |-> 0]
NoEvent == [u \in Uris |-> "none"]
Free    == [pc |-> "free"]

Jobs == {h \in Handlers : handlers[h].pc \in {"build", "built", "scan", "scanned"}}

Init ==
  /\ disk \in [Uris -> {0, 1}] /\ events = NoEvent
  /\ texts = 1 /\ switches = 0
  /\ enabled \in BOOLEAN /\ roots = Folders
  /\ documents = Absent
  /\ index = EmptyIndex
  /\ \E h \in Handlers : handlers = [g \in Handlers |->
       IF g = h /\ enabled
       THEN [pc |-> "build", roots |-> Folders, open |-> Absent, clean |-> TRUE, behind |-> {}]
       ELSE Free]
  /\ raced = {}

-----------------------------------------------------------------------------
\* History: a source of the files U changed.  A job in flight may have read it.
Touched(jobs, U) ==
  [h \in Handlers |->
     IF h \in Jobs THEN [jobs[h] EXCEPT !.behind = @ \cup U] ELSE jobs[h]]
RacedBy(U) == IF Jobs = {} THEN raced ELSE raced \cup U

(***************************************************************************)
(* refresh_workspace_index up to its await, with the roots and documents   *)
(* of the moment.  U are the files whose source the handler just changed.  *)
(***************************************************************************)
StartBuild(h, rootsNow, documentsNow, U) ==
  /\ handlers' = [Touched(handlers, U) EXCEPT ![h] =
       [pc |-> "build", roots |-> rootsNow, open |-> documentsNow,
        clean |-> Jobs = {}, behind |-> {}]]
  /\ UNCHANGED index

ClearIndex(h, U) == index' = EmptyIndex /\ handlers' = Touched(handlers, U)

refresh_workspace_index(h, enabledNow, rootsNow, documentsNow, U) ==
  /\ IF enabledNow
     THEN StartBuild(h, rootsNow, documentsNow, U)
     ELSE ClearIndex(h, U)
  /\ raced' = RacedBy(U)

(***************************************************************************)
(* The build's blocking thread reads the disk; the result replaces the     *)
(* index, the empty one if it panicked.                                    *)
(***************************************************************************)
BelowRoots(rs) == [u \in Uris |-> IF Folder[u] \in rs THEN disk[u] ELSE 0]

Build(h) ==
  /\ handlers[h].pc = "build"
  /\ \E order \in Orders :
       handlers' = [handlers EXCEPT ![h] =
         [pc |-> "built", index |-> build(BelowRoots(@.roots), @.open, order),
          clean |-> @.clean, behind |-> @.behind]]
  /\ UNCHANGED <<disk, events, bounds, enabled, roots, documents, index, raced>>

StoreIndex(h) ==
  /\ handlers[h].pc = "built"
  /\ index' = handlers[h].index
  /\ raced' = IF handlers[h].clean THEN raced \cap handlers[h].behind ELSE raced
  /\ handlers' = [handlers EXCEPT ![h] = Free]
  /\ UNCHANGED <<disk, events, bounds, enabled, roots, documents>>

BuildPanics(h) ==
  /\ MayPanic /\ handlers[h].pc = "build"
  /\ index' = EmptyIndex /\ raced' = Uris
  /\ handlers' = [handlers EXCEPT ![h] = Free]
  /\ UNCHANGED <<disk, events, bounds, enabled, roots, documents>>

(***************************************************************************)
(* did_change_watched_files.  An event for a manifest asks for a full      *)
(* refresh; otherwise the files that are not open are read again.          *)
(***************************************************************************)
ManifestChanged(h) ==
  /\ handlers[h] = Free /\ switches < MaxSwitches
  /\ switches' = switches + 1
  /\ refresh_workspace_index(h, enabled, roots, documents, {})
  /\ UNCHANGED <<disk, events, texts, enabled, roots, documents>>

EveryFile(u)   == events[u] # "none"
ClosedFiles(u) == events[u] # "none" /\ documents[u] = 0

DidChangeWatchedFiles(h) ==
  /\ handlers[h] = Free /\ events # NoEvent
  /\ events' = NoEvent
  /\ IF enabled
     THEN /\ handlers' = [handlers EXCEPT ![h] =
               [pc |-> "scan", roots |-> roots, behind |-> {},
                changes |-> [u \in {v \in Uris : ClosedFiles(v)} |-> events[u]]]]
          /\ UNCHANGED index
     ELSE ClearIndex(h, {})
  /\ UNCHANGED <<disk, bounds, enabled, roots, documents, raced>>

\* update_for_workspace_file, None (here 0) outside the roots or without a file.
Update(job, u) ==
  IF job.changes[u] = "deleted" \/ Folder[u] \notin job.roots THEN 0 ELSE disk[u]

Scan(h) ==
  /\ handlers[h].pc = "scan"
  /\ handlers' = [handlers EXCEPT ![h] =
       [pc |-> "scanned", behind |-> @.behind,
        updates |-> [u \in DOMAIN @.changes |-> Update(@, u)]]]
  /\ UNCHANGED <<disk, events, bounds, enabled, roots, documents, index, raced>>

ScanPanics(h) ==
  /\ MayPanic /\ handlers[h].pc = "scan"
  /\ raced' = raced \cup DOMAIN handlers[h].changes
  /\ handlers' = [handlers EXCEPT ![h] = Free]
  /\ UNCHANGED <<disk, events, bounds, enabled, roots, documents, index>>

ApplyUpdates(h) ==
  /\ handlers[h].pc = "scanned"
  /\ \E order \in Orders : index' = ApplyAll(index, handlers[h].updates, FALSE, order)
  /\ handlers' = [handlers EXCEPT ![h] = Free]
  /\ UNCHANGED <<disk, events, bounds, enabled, roots, documents, raced>>

(***************************************************************************)
(* The editor: did_open and did_change store the text and parse it, the    *)
(* hot lane then updates the index unless a newer text came in.            *)
(***************************************************************************)
DidUpdate(h, u) ==
  /\ handlers[h] = Free /\ texts < MaxTexts
  /\ texts' = texts + 1
  /\ documents' = [documents EXCEPT ![u] = texts']
  /\ handlers' = [Touched(handlers, {u}) EXCEPT ![h] = [pc |-> "hot", uri |-> u, text |-> texts']]
  /\ raced' = RacedBy({u})
  /\ UNCHANGED <<disk, events, switches, enabled, roots, index>>

Stale(u, text) == documents[u] > text

HotUpdate(h) ==
  /\ handlers[h].pc = "hot"
  /\ LET u    == handlers[h].uri
         text == handlers[h].text
     IN IF Stale(u, text)
        THEN /\ handlers' = [handlers EXCEPT ![h] = Free]
             /\ UNCHANGED <<documents, index, raced>>
        ELSE /\ index' = IF enabled THEN insert_indexed_document(index, Entry(u, text, TRUE))
                         ELSE index
             /\ documents' = [documents EXCEPT ![u] = text]
             /\ handlers' = [Touched(handlers, {u}) EXCEPT ![h] = Free]
             /\ raced' = IF Jobs = {} /\ enabled THEN raced \ {u} ELSE RacedBy({u})
  /\ UNCHANGED <<disk, events, bounds, enabled, roots>>

HotPanics(h) ==
  /\ MayPanic /\ handlers[h].pc = "hot"
  /\ raced' = raced \cup {handlers[h].uri}
  /\ handlers' = [handlers EXCEPT ![h] = Free]
  /\ UNCHANGED <<disk, events, bounds, enabled, roots, documents, index>>

DidClose(h, u) ==
  /\ handlers[h] = Free /\ documents[u] # 0
  /\ documents' = [documents EXCEPT ![u] = 0]
  /\ refresh_workspace_index(h, enabled, roots, documents', {u})
  /\ UNCHANGED <<disk, events, bounds, enabled, roots>>

(***************************************************************************)
(* did_change_configuration and did_change_workspace_folders.              *)
(***************************************************************************)
DidChangeConfiguration(h) ==
  /\ handlers[h] = Free /\ switches < MaxSwitches
  /\ switches' = switches + 1 /\ enabled' = ~enabled
  /\ refresh_workspace_index(h, enabled', roots, documents, Uris)
  /\ UNCHANGED <<disk, events, texts, roots, documents>>

DidChangeWorkspaceFolders(h, f) ==
  /\ handlers[h] = Free /\ switches < MaxSwitches
  /\ switches' = switches + 1
  /\ roots' = IF f \in roots THEN roots \ {f} ELSE roots \cup {f}
  /\ refresh_workspace_index(h, enabled, roots', documents, {u \in Uris : Folder[u] = f})
  /\ UNCHANGED <<disk, events, texts, enabled, documents>>

\* Another program writes or removes a file, and the editor will report it.
WriteFile(u) ==
  /\ texts < MaxTexts /\ texts' = texts + 1
  /\ disk' = [disk EXCEPT ![u] = texts']
  /\ events' = [events EXCEPT ![u] = "changed"]
  /\ handlers' = Touched(handlers, {u}) /\ raced' = RacedBy({u})
  /\ UNCHANGED <<switches, enabled, roots, documents, index>>

RemoveFile(u) ==
  /\ disk[u] # 0
  /\ disk' = [disk EXCEPT ![u] = 0]
  /\ events' = [events EXCEPT ![u] = "deleted"]
  /\ handlers' = Touched(handlers, {u}) /\ raced' = RacedBy({u})
  /\ UNCHANGED <<bounds, enabled, roots, documents, index>>

Next ==
  \/ \E h \in Handlers :
       \/ Build(h) \/ StoreIndex(h) \/ BuildPanics(h)
       \/ Scan(h) \/ ApplyUpdates(h) \/ ScanPanics(h)
       \/ HotUpdate(h) \/ HotPanics(h)
       \/ ManifestChanged(h) \/ DidChangeWatchedFiles(h) \/ DidChangeConfiguration(h)
       \/ \E f \in Folders : DidChangeWorkspaceFolders(h, f)
       \/ \E u \in Uris : DidUpdate(h, u) \/ DidClose(h, u)
  \/ \E u \in Uris : WriteFile(u) \/ RemoveFile(u)

Spec == Init /\ [][Next]_vars

-----------------------------------------------------------------------------
AtRest == events = NoEvent /\ \A h \in Handlers : handlers[h] = Free

\* What a build from the sources of the moment would hold of a file.
Source(u) ==
  IF ~enabled THEN {}
  ELSE IF documents[u] # 0 THEN {Entry(u, documents[u], TRUE)}
  ELSE IF BelowRoots(roots)[u] # 0 THEN {Entry(u, disk[u], FALSE)} ELSE {}

EntriesOf(u) == {e \in Range(index.entries) : e.uri = u}

TypeOK ==
  /\ disk \in [Uris -> Nat] /\ documents \in [Uris -> Nat]
  /\ events \in [Uris -> {"none", "changed", "deleted"}]
  /\ enabled \in BOOLEAN /\ roots \subseteq Folders /\ raced \subseteq Uris
  /\ index.documents \subseteq Uris
  /\ \A e \in Range(index.entries) : e \in [uri : Uris, text : Nat \ {0}, open : BOOLEAN]
  /\ \A p \in DOMAIN index.modules : index.modules[p] \in Uris

\* Incremental maintenance is as good as a rebuild: at rest the index holds of
\* every file what a build would, open documents over the disk, unless the
\* file's source changed while a build or scan was in flight (or a blocking task
\* panicked); the next edit of the file, or a refresh that runs alone, repairs it.
IndexExactUnlessRaced ==
  AtRest => \A u \in Uris \ raced : EntriesOf(u) = Source(u)

\* A file has one entry of a name, whatever order updates arrive in: the old
\* text's entries are pruned before the new ones are added (entries.rs).
OneEntryPerFile ==
  /\ \A i, j \in DOMAIN index.entries : index.entries[i].uri = index.entries[j].uri => i = j
  /\ index.documents = {e.uri : e \in Range(index.entries)}

\* Lookups that take the first entry (accounts_struct, account_data_struct)
\* find an open document's declaration whenever an open document has one.
OpenDocumentsFirst ==
  \A i, j \in DOMAIN index.entries : i < j /\ index.entries[j].open => index.entries[i].open

\* Reachability queries answer from the functions the index holds now.
CallGraphCurrent == index.calls = Range(index.entries)

\* A module path confirmed by the trie leads to an indexed file of that path,
\* also when two programs have the same path and one of them goes away.
ModulePathsLead ==
  \A p \in DOMAIN index.modules :
    ModulePath[index.modules[p]] = p /\ ExistsAtPath(index, p)
=============================================================================
