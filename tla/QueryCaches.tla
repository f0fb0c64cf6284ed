---------------------------- MODULE QueryCaches ----------------------------
(***************************************************************************)
(* The versioned results of src/runtime/query_cache and who fills, serves  *)
(* and invalidates them: the document handlers and the save lane, the      *)
(* requests (semantic tokens, code actions), and the                       *)
(* republish of every open document after a change of the project          *)
(* (manifests, settings, workspace roots).                                 *)
(*                                                                         *)
(* Several documents, diagnostics.coldPath = "manual", so no debouncer is  *)
(* ever made (DocumentPipeline has that part).  Requests run to their end  *)
(* without an await.  A text is named by the edit that produced it.        *)
(***************************************************************************)
EXTENDS Integers, FiniteSets

CONSTANTS
  Docs,          \* the URIs
  Handlers,      \* futures in flight at once
  MaxEdits,      \* bound: texts the editor produces, over all documents
  MaxChanges,    \* bound: changes of the project
  MaxEpoch,      \* bound: no save is started at a higher publish epoch
  FirstVersion,  \* the version an editor gives a document it opens
  Transport      \* diagnostics.transport, fixed by initialize

ASSUME QueryCachesAssumption ==
  /\ MaxEdits \in Nat /\ MaxChanges \in Nat /\ MaxEpoch \in Nat
  /\ FirstVersion \in Nat \ {0}
  /\ Transport \in {"push", "pull"}

VARIABLES
  opened,     \* the documents the editor has open
  version,    \* the editor's version of each document
  edits,      \* texts produced so far
  project,    \* changes of the project so far
  announced,  \* the last of them the editor told the server about
  documents,  \* the server's entry of each document: its text and version
  typing,     \* recent_typing_changes holds an entry that has not expired
  cache,      \* query_cache: one entry per document and kind of query
  epoch,      \* code_action_epoch, 0 when there is no entry
  shown,      \* the diagnostics the editor displays, with their version
  republished,\* history: the state of the project the last republish of a
              \* document was about
  handlers    \* the futures in flight

client == <<opened, version, edits>>
world  == <<project, announced>>
vars   == <<client, world, documents, typing, cache, epoch, shown, republished, handlers>>

Doc(text, v) == [text |-> text, version |-> v]
NoDoc        == Doc(0, -1)

\* A result: the text and the state of the project it was computed from, and
\* whether it covers the whole document (nothing suppressed or left out).
Result(text, state, whole) == [text |-> text, project |-> state, whole |-> whole]
Nothing == Result(0, 0, TRUE)

Entry(tag, result) == [tag |-> tag, result |-> result]
NoEntry            == Entry(-1, Nothing)

Kinds == {"diagnostics", "tokens", "actions"}
Empty == [kind \in Kinds |-> NoEntry]

Free         == [pc |-> "free"]
Goto(h, to)  == handlers' = [handlers EXCEPT ![h] = to]

CurrentVersionNoDefault(d) == documents[d].version
CurrentVersion(d) == IF documents[d] = NoDoc THEN 0 ELSE documents[d].version

\* get: an entry with another tag is removed, so it is no hit for anyone.
IsHit(entry, tag) == entry # NoEntry /\ entry.tag = tag

\* is_stale_diagnostic_publish(current_document_version(uri), Some(v))
Stale(d, v) == CurrentVersion(d) > v

-----------------------------------------------------------------------------
Init ==
  /\ opened = {} /\ version = [d \in Docs |-> 0] /\ edits = 0
  /\ project = 0 /\ announced = 0
  /\ documents = [d \in Docs |-> NoDoc]
  /\ typing = [d \in Docs |-> FALSE]
  /\ cache = [d \in Docs |-> Empty]
  /\ epoch = [d \in Docs |-> 0]
  /\ shown = [d \in Docs |-> NoEntry]
  /\ republished = [d \in Docs |-> 0]
  /\ handlers = [h \in Handlers |-> Free]

(***************************************************************************)
(* publish_analysis.                                                       *)
(***************************************************************************)
Publishes(d, v) == Transport = "push" /\ ~Stale(d, v)

NextEpochUnbumped(d) == epoch[d]
NextEpoch(d) == epoch[d] + 1

Publish(d, v, result) ==
  IF Publishes(d, v)
  THEN /\ epoch' = [epoch EXCEPT ![d] = NextEpoch(d)]
       /\ shown' = [shown EXCEPT ![d] = Entry(v, result)]
  ELSE UNCHANGED <<epoch, shown>>

PublishEmpty(d) ==
  shown' = IF Transport = "push" THEN [shown EXCEPT ![d] = NoEntry] ELSE shown

(***************************************************************************)
(* did_open and did_change up to the first await: the text is stored, the  *)
(* document's cached results are dropped, the hot analysis starts with the *)
(* typing suppression of this moment.                                      *)
(***************************************************************************)
InvalidateNothing(d) == UNCHANGED cache
InvalidateForUri(d)  == cache' = [cache EXCEPT ![d] = Empty]

HandleDocumentUpdate(h, d, v, typed) ==
  /\ handlers[h] = Free /\ edits < MaxEdits
  /\ edits' = edits + 1
  /\ version' = [version EXCEPT ![d] = v]
  /\ typing' = [typing EXCEPT ![d] = typed]
  /\ documents' = [documents EXCEPT ![d] = Doc(edits', v)]
  /\ InvalidateForUri(d)
  /\ Goto(h, [pc |-> "hot", doc |-> d, text |-> edits', version |-> v,
              since |-> project, typing |-> typed])
  /\ UNCHANGED <<world, epoch, shown, republished>>

\* The editor does not reopen a document while an analysis of its earlier
\* session is in flight (see DocumentPipeline for that case).
Analysing(d) == \E h \in Handlers :
  handlers[h].pc \in {"hot", "save"} /\ handlers[h].doc = d

DidOpen(h, d) ==
  /\ d \notin opened /\ ~Analysing(d)
  /\ opened' = opened \cup {d}
  /\ HandleDocumentUpdate(h, d, FirstVersion, FALSE)

DidChange(h, d) ==
  /\ d \in opened
  /\ HandleDocumentUpdate(h, d, version[d] + 1, TRUE)
  /\ UNCHANGED opened

Forget(d) ==
  /\ documents' = [documents EXCEPT ![d] = NoDoc]
  /\ typing' = [typing EXCEPT ![d] = FALSE]
  /\ epoch' = [epoch EXCEPT ![d] = 0]

\* handle_invalid_incremental_change
DidChangeRejected(d) ==
  /\ d \in opened /\ edits < MaxEdits
  /\ edits' = edits + 1
  /\ version' = [version EXCEPT ![d] = @ + 1]
  /\ Forget(d) /\ InvalidateForUri(d)
  /\ PublishEmpty(d)
  /\ UNCHANGED <<opened, world, republished, handlers>>

\* did_close keeps the cached results; the index refresh comes before the
\* diagnostics are cleared.
DidClose(h, d) ==
  /\ handlers[h] = Free /\ d \in opened
  /\ opened' = opened \ {d}
  /\ Forget(d)
  /\ Goto(h, [pc |-> "close", doc |-> d])
  /\ UNCHANGED <<version, edits, world, cache, shown, republished>>

CloseDone(h) ==
  /\ handlers[h].pc = "close"
  /\ PublishEmpty(handlers[h].doc)
  /\ Goto(h, Free)
  /\ UNCHANGED <<client, world, documents, typing, cache, epoch, republished>>

\* A typing suppression expires (TYPING_DIAGNOSTIC_SUPPRESSION_MILLIS).
TypingPauses(d) ==
  /\ typing[d]
  /\ typing' = [typing EXCEPT ![d] = FALSE]
  /\ UNCHANGED <<client, world, documents, cache, epoch, shown, republished, handlers>>

(***************************************************************************)
(* The end of an analysis on a blocking thread.  It read the manifests at  *)
(* some moment since it was started.                                       *)
(***************************************************************************)
StoreAndPublish(h, d, result) ==
  LET v == handlers[h].version
  IN /\ IF Stale(d, v)
        THEN UNCHANGED <<documents, epoch, shown>>
        ELSE /\ documents' = [documents EXCEPT ![d] = Doc(handlers[h].text, v)]
             /\ Publish(d, v, result)
     /\ Goto(h, Free)
     /\ UNCHANGED <<client, world, typing, cache, republished>>

HotDone(h) ==
  /\ handlers[h].pc = "hot"
  /\ \E state \in handlers[h].since .. project :
       StoreAndPublish(h, handlers[h].doc,
         Result(handlers[h].text, state, ~handlers[h].typing))

\* did_save: the analysis runs on a clone of the Backend, with copies of the
\* cache and of the typing suppression; what it caches is lost with the clone.
DidSave(h, d) ==
  /\ handlers[h] = Free /\ d \in opened /\ documents[d] # NoDoc
  /\ epoch[d] <= MaxEpoch
  /\ Goto(h, [pc |-> "save", doc |-> d, text |-> documents[d].text,
              version |-> CurrentVersion(d), since |-> project,
              typing |-> typing[d], cached |-> cache[d]["diagnostics"]])
  /\ UNCHANGED <<client, world, documents, typing, cache, epoch, shown, republished>>

SaveDone(h) ==
  /\ handlers[h].pc = "save"
  /\ \E state \in handlers[h].since .. project, expired \in BOOLEAN :
       LET s       == handlers[h]
           whole   == ~s.typing \/ expired
           results == IF whole /\ IsHit(s.cached, s.version)
                      THEN s.cached.result ELSE Result(s.text, state, whole)
       IN StoreAndPublish(h, s.doc, results)

(***************************************************************************)
(* analysis_diagnostics_for_uri on the serving task: the cached result of  *)
(* the document's current version, else a new one that is cached unless    *)
(* typing suppresses part of it.                                           *)
(***************************************************************************)
Analysis(d, text) ==
  LET entry == cache[d]["diagnostics"]
  IN IF ~typing[d] /\ IsHit(entry, CurrentVersion(d))
     THEN entry.result ELSE Result(text, project, ~typing[d])

CachesSuppressed(d) == TRUE
CachesAnalysis(d)   == ~typing[d]

CacheAfterAnalysis(d, text) ==
  IF CachesAnalysis(d)
  THEN [cache[d] EXCEPT !["diagnostics"] = Entry(CurrentVersion(d), Analysis(d, text))]
  ELSE cache[d]

(***************************************************************************)
(* did_change_watched_files and did_change_configuration (of the same      *)
(* shape, did_change_workspace_folders): refresh the index, then copy the  *)
(* documents and republish each of them.  Each publish awaits the editor;  *)
(* with the pull transport nothing is published and nothing awaited.       *)
(***************************************************************************)
Batches(todo) == IF Transport = "push" THEN {{d} : d \in todo} ELSE {todo}

Republish(h, batch, snapshot, todo) ==
  /\ cache' = [d \in Docs |-> IF d \in batch
                 THEN CacheAfterAnalysis(d, snapshot[d].text) ELSE cache[d]]
  /\ LET published == {d \in batch : Publishes(d, snapshot[d].version)}
     IN /\ epoch' = [d \in Docs |-> IF d \in published THEN NextEpoch(d) ELSE epoch[d]]
        /\ shown' = [d \in Docs |-> IF d \in published
             THEN Entry(snapshot[d].version, Analysis(d, snapshot[d].text)) ELSE shown[d]]
  /\ republished' = [d \in Docs |-> IF d \in batch THEN handlers[h].about ELSE republished[d]]
  /\ Goto(h, IF todo = batch THEN Free
             ELSE [pc |-> "republish", about |-> handlers[h].about,
                   snapshot |-> snapshot, todo |-> todo \ batch])
  /\ UNCHANGED <<client, world, documents, typing>>

SaveManifest ==
  /\ project < MaxChanges
  /\ project' = project + 1
  /\ UNCHANGED <<client, announced, documents, typing, cache, epoch, shown, republished,
                 handlers>>

Refresh(h) ==
  /\ handlers[h] = Free
  /\ announced' = project'
  /\ Goto(h, [pc |-> "refresh", about |-> project'])
  /\ UNCHANGED <<client, documents, typing, cache, epoch, shown, republished>>

DidChangeWatchedFiles(h) ==
  /\ announced < project /\ UNCHANGED project
  /\ Refresh(h)

DidChangeConfiguration(h) ==
  /\ project < MaxChanges
  /\ project' = project + 1
  /\ Refresh(h)

Stored == {d \in Docs : documents[d] # NoDoc}

RefreshDone(h) ==
  /\ handlers[h].pc = "refresh"
  /\ \/ /\ Stored = {} /\ Goto(h, Free)
        /\ UNCHANGED <<client, world, documents, typing, cache, epoch, shown, republished>>
     \/ /\ Stored # {}
        /\ \E batch \in Batches(Stored) : Republish(h, batch, documents, Stored)

RepublishNext(h) ==
  /\ handlers[h].pc = "republish"
  /\ \E batch \in Batches(handlers[h].todo) :
       Republish(h, batch, handlers[h].snapshot, handlers[h].todo)

(***************************************************************************)
(* Requests of the editor, which it sends for open documents.              *)
(***************************************************************************)
Lookup(d, kind, tag, computed) ==
  /\ cache' = IF IsHit(cache[d][kind], tag) THEN cache
              ELSE [cache EXCEPT ![d][kind] = computed]
  /\ UNCHANGED <<client, world, documents, typing, epoch, shown, republished, handlers>>

\* semantic_tokens_full and semantic_tokens_range share one cache key; a miss
\* without a document caches nothing.  folding_range and inlay_hint are the same
\* with keys of their own.
SemanticTokens(d, whole) ==
  /\ d \in opened
  /\ Lookup(d, "tokens", CurrentVersion(d),
       IF documents[d] = NoDoc THEN NoEntry
       ELSE Entry(CurrentVersion(d), Result(documents[d].text, 0, whole)))

\* code_action without diagnostics in its context: the set is built from the
\* diagnostics of now, those that touch the request's range unless it asks for
\* source actions.
CodeAction(d, source) ==
  /\ d \in opened /\ documents[d] # NoDoc
  /\ Lookup(d, "actions", epoch[d],
       Entry(epoch[d], Result(documents[d].text, project, source)))

-----------------------------------------------------------------------------
Notification(h) ==
  \/ \E d \in Docs : DidOpen(h, d) \/ DidChange(h, d) \/ DidSave(h, d) \/ DidClose(h, d)
  \/ DidChangeWatchedFiles(h) \/ DidChangeConfiguration(h)

Continuation(h) ==
  HotDone(h) \/ SaveDone(h) \/ CloseDone(h) \/ RefreshDone(h) \/ RepublishNext(h)

Request(d) == \E whole \in BOOLEAN : SemanticTokens(d, whole) \/ CodeAction(d, whole)

Next ==
  \/ \E h \in Handlers : Notification(h) \/ Continuation(h)
  \/ \E d \in Docs : DidChangeRejected(d) \/ TypingPauses(d) \/ Request(d)
  \/ SaveManifest

Spec == Init /\ [][Next]_vars

-----------------------------------------------------------------------------
States  == 0 .. MaxChanges
Texts   == 0 .. MaxEdits
Results == [text : Texts, project : States, whole : BOOLEAN]
Entries == [tag : Nat, result : Results] \cup {NoEntry}
DocRecord == [text : Texts, version : Nat] \cup {NoDoc}
HandlerRecord ==
  [pc : {"free"}]
    \cup [pc : {"hot"}, doc : Docs, text : Texts, version : Nat, since : States,
          typing : BOOLEAN]
    \cup [pc : {"save"}, doc : Docs, text : Texts, version : Nat, since : States,
          typing : BOOLEAN, cached : Entries]
    \cup [pc : {"close"}, doc : Docs]
    \cup [pc : {"refresh"}, about : States]
    \cup [pc : {"republish"}, about : States, snapshot : [Docs -> DocRecord],
          todo : SUBSET Docs]

TypeOK ==
  /\ opened \subseteq Docs /\ version \in [Docs -> Nat] /\ edits \in Texts
  /\ project \in States /\ announced \in States
  /\ documents \in [Docs -> DocRecord]
  /\ typing \in [Docs -> BOOLEAN]
  /\ cache \in [Docs -> [Kinds -> Entries]]
  /\ epoch \in [Docs -> Nat]
  /\ shown \in [Docs -> Entries]
  /\ republished \in [Docs -> States]
  /\ handlers \in [Handlers -> HandlerRecord]

Served(d, kind) == IsHit(cache[d][kind], CurrentVersion(d))

\* Semantic tokens served from the cache are those of the
\* text the server holds, also after a close, a reopen that starts the versions
\* again, a rejected edit, or a late analysis that stored its text again.
ServedTextIsStored ==
  \A d \in opened :
    documents[d] # NoDoc /\ Served(d, "tokens")
      => cache[d]["tokens"].result.text = documents[d].text

\* Diagnostics that were computed while typing suppressed part of them are
\* never kept: a later republish or save would show the gap as "no problem".
CachedDiagnosticsWhole ==
  \A d \in Docs : cache[d]["diagnostics"].result.whole

\* code_actions.rs:71-74 "The epoch bumps on every publish_analysis, so
\* manifest-driven republishes (e.g. Cargo.toml save) invalidate stale entries
\* even though the document version is unchanged": cached actions that would be
\* served are not older than the project state last republished.
ActionsFollowRepublish ==
  \A d \in opened :
    documents[d] # NoDoc /\ IsHit(cache[d]["actions"], epoch[d])
      => cache[d]["actions"].result.project >= republished[d]
=============================================================================
