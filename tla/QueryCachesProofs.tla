------------------------- MODULE QueryCachesProofs -------------------------
(***************************************************************************)
(* Proofs about QueryCaches for any documents, any number of handlers and  *)
(* any bounds.                                                             *)
(***************************************************************************)
EXTENDS QueryCaches, TLAPS

\* Results and entries built from typed parts are typed.
LEMMA EntryType ==
  ASSUME NEW tag \in Nat, NEW text \in Texts, NEW state \in States, NEW whole \in BOOLEAN
  PROVE  Result(text, state, whole) \in Results /\ Entry(tag, Result(text, state, whole)) \in Entries
BY DEF Result, Results, Entry, Entries

\* An entry is typed whatever typed result it holds.
LEMMA EntryOfResult ==
  ASSUME NEW tag \in Nat, NEW result \in Results
  PROVE  Entry(tag, result) \in Entries
BY DEF Entry, Entries

\* The absence of an entry is one, and its result is typed.
LEMMA NothingType == NoEntry \in Entries /\ Nothing \in Results /\ Empty \in [Kinds -> Entries]
BY QueryCachesAssumption DEF NoEntry, Entry, Entries, Nothing, Result, Results, Texts, States,
   Empty, Kinds

\* Every entry holds a typed result.
LEMMA ResultOfEntry ==
  ASSUME NEW e \in Entries
  PROVE  e.result \in Results
BY NothingType DEF Entries, NoEntry, Entry

\* The version the server reads for a document is a natural number.
LEMMA CurrentVersionType ==
  ASSUME TypeOK, NEW d \in Docs
  PROVE  CurrentVersion(d) \in Nat
BY DEF TypeOK, DocRecord, CurrentVersion

\* What an analysis on the serving task returns, and what it leaves cached.
LEMMA AnalysisType ==
  ASSUME TypeOK, NEW d \in Docs, NEW text \in Texts
  PROVE  /\ Analysis(d, text) \in Results
         /\ CacheAfterAnalysis(d, text) \in [Kinds -> Entries]
<1>1. cache[d] \in [Kinds -> Entries] /\ "diagnostics" \in Kinds
  BY DEF TypeOK, Kinds
<1>2. typing[d] \in BOOLEAN /\ project \in States
  BY DEF TypeOK
<1>3. Result(text, project, ~typing[d]) \in Results
  BY <1>2 DEF Result, Results
<1>4. Analysis(d, text) \in Results
  BY <1>1, <1>3, ResultOfEntry DEF Analysis
<1>5. Entry(CurrentVersion(d), Analysis(d, text)) \in Entries
  BY <1>4, CurrentVersionType, EntryOfResult
<1> QED
  BY <1>1, <1>4, <1>5 DEF CacheAfterAnalysis

\* A publish keeps epochs and the display typed.
LEMMA PublishType ==
  ASSUME TypeOK, NEW d \in Docs, NEW v \in Nat, NEW result \in Results, Publish(d, v, result)
  PROVE  epoch' \in [Docs -> Nat] /\ shown' \in [Docs -> Entries]
<1> DEFINE e == Entry(v, result)
<1>1. e \in Entries
  BY EntryOfResult
<1>2. epoch \in [Docs -> Nat] /\ shown \in [Docs -> Entries]
  BY DEF TypeOK
<1>3. CASE Publishes(d, v)
  <2>1. epoch' = [epoch EXCEPT ![d] = epoch[d] + 1] /\ shown' = [shown EXCEPT ![d] = e]
    BY <1>3 DEF Publish, NextEpoch
  <2> QED
    BY <2>1, <1>1, <1>2
<1>4. CASE ~Publishes(d, v)
  BY <1>2, <1>4 DEF Publish
<1> QED
  BY <1>3, <1>4

\* So does clearing the display.
LEMMA PublishEmptyType ==
  ASSUME TypeOK, NEW d \in Docs, PublishEmpty(d)
  PROVE  shown' \in [Docs -> Entries]
BY NothingType DEF TypeOK, PublishEmpty

\* A handler moves to a typed state.
LEMMA GotoType ==
  ASSUME TypeOK, NEW h \in Handlers, NEW to \in HandlerRecord, Goto(h, to)
  PROVE  handlers' \in [Handlers -> HandlerRecord]
BY DEF TypeOK, Goto

\* A free handler is typed.
LEMMA FreeType == Free \in HandlerRecord
BY DEF Free, HandlerRecord

\* The fields of a handler by the await it is at.
LEMMA HandlerFields ==
  ASSUME TypeOK, NEW h \in Handlers
  PROVE  /\ handlers[h].pc \in {"hot", "save"} =>
              /\ handlers[h].doc \in Docs /\ handlers[h].text \in Texts
              /\ handlers[h].version \in Nat /\ handlers[h].since \in States
              /\ handlers[h].typing \in BOOLEAN
         /\ handlers[h].pc = "save" => handlers[h].cached \in Entries
         /\ handlers[h].pc = "close" => handlers[h].doc \in Docs
         /\ handlers[h].pc \in {"refresh", "republish"} => handlers[h].about \in States
         /\ handlers[h].pc = "republish" =>
              handlers[h].snapshot \in [Docs -> DocRecord] /\ handlers[h].todo \subseteq Docs
<1>1. handlers[h] \in HandlerRecord
  BY DEF TypeOK
<1> QED
  BY <1>1 DEF HandlerRecord

\* Storing a document keeps the map of documents typed.
LEMMA StoreType ==
  ASSUME TypeOK, NEW d \in Docs, NEW text \in Texts, NEW v \in Nat,
         documents' = [documents EXCEPT ![d] = Doc(text, v)]
  PROVE  documents' \in [Docs -> DocRecord]
<1>1. Doc(text, v) \in DocRecord
  BY DEF Doc, DocRecord
<1> QED
  BY <1>1 DEF TypeOK

\* Forgetting a document keeps its state typed.
LEMMA ForgetType ==
  ASSUME TypeOK, NEW d \in Docs, Forget(d)
  PROVE  /\ documents' \in [Docs -> DocRecord] /\ typing' \in [Docs -> BOOLEAN]
         /\ epoch' \in [Docs -> Nat]
<1>1. NoDoc \in DocRecord
  BY DEF DocRecord
<1> QED
  BY <1>1 DEF TypeOK, Forget

\* So does dropping its cached results.
LEMMA InvalidateType ==
  ASSUME TypeOK, NEW d \in Docs, InvalidateForUri(d)
  PROVE  cache' \in [Docs -> [Kinds -> Entries]]
BY NothingType DEF TypeOK, InvalidateForUri

\* An update of a document by the editor preserves the types.
LEMMA UpdateType ==
  ASSUME TypeOK, NEW h \in Handlers, NEW d \in Docs, NEW v \in Nat, NEW typed \in BOOLEAN,
         HandleDocumentUpdate(h, d, v, typed), opened' \subseteq Docs
  PROVE  TypeOK'
<1>1. edits' \in Texts /\ edits' = edits + 1
  BY QueryCachesAssumption DEF TypeOK, HandleDocumentUpdate, Texts
<1>2. documents' \in [Docs -> DocRecord]
  BY <1>1, StoreType DEF HandleDocumentUpdate
<1>3. cache' \in [Docs -> [Kinds -> Entries]]
  BY InvalidateType DEF HandleDocumentUpdate
<1>4. handlers' \in [Handlers -> HandlerRecord]
  <2> DEFINE to == [pc |-> "hot", doc |-> d, text |-> edits', version |-> v,
                    since |-> project, typing |-> typed]
  <2>1. to \in HandlerRecord
    BY <1>1 DEF TypeOK, HandlerRecord
  <2>2. handlers' = [handlers EXCEPT ![h] = to]
    BY DEF HandleDocumentUpdate, Goto
  <2> HIDE DEF to
  <2> QED
    BY <2>1, <2>2 DEF TypeOK
<1>5. version' \in [Docs -> Nat] /\ typing' \in [Docs -> BOOLEAN]
  BY DEF TypeOK, HandleDocumentUpdate
<1> QED
  BY <1>1, <1>2, <1>3, <1>4, <1>5 DEF TypeOK, HandleDocumentUpdate, world

\* Storing and publishing the result of an analysis preserves the types.
LEMMA StoreAndPublishType ==
  ASSUME TypeOK, NEW h \in Handlers, handlers[h].pc \in {"hot", "save"},
         NEW result \in Results, StoreAndPublish(h, handlers[h].doc, result)
  PROVE  TypeOK'
<1> DEFINE d == handlers[h].doc
           v == handlers[h].version
<1>1. d \in Docs /\ v \in Nat /\ handlers[h].text \in Texts
  BY HandlerFields
<1>2. /\ documents' \in [Docs -> DocRecord]
      /\ epoch' \in [Docs -> Nat] /\ shown' \in [Docs -> Entries]
  <2>1. CASE Stale(d, v)
    BY <2>1 DEF StoreAndPublish, TypeOK
  <2>2. CASE ~Stale(d, v)
    <3>1. documents' = [documents EXCEPT ![d] = Doc(handlers[h].text, v)] /\ Publish(d, v, result)
      BY <2>2 DEF StoreAndPublish
    <3> HIDE DEF d, v
    <3> QED
      BY <3>1, <1>1, StoreType, PublishType
  <2> QED
    BY <2>1, <2>2
<1>3. handlers' \in [Handlers -> HandlerRecord]
  BY FreeType, GotoType DEF StoreAndPublish
<1> QED
  BY <1>2, <1>3 DEF StoreAndPublish, TypeOK, client, world

\* A republished batch leaves everything typed.
LEMMA RepublishType ==
  ASSUME TypeOK, NEW h \in Handlers, handlers[h].about \in States,
         NEW todo \in SUBSET Docs, NEW batch \in SUBSET todo,
         NEW snapshot \in [Docs -> DocRecord], Republish(h, batch, snapshot, todo),
         \A d \in todo : snapshot[d] # NoDoc
  PROVE  TypeOK'
<1>1. \A d \in todo : snapshot[d].text \in Texts /\ snapshot[d].version \in Nat
  BY DEF DocRecord
<1>2. cache' \in [Docs -> [Kinds -> Entries]]
  <2>1. \A d \in batch : CacheAfterAnalysis(d, snapshot[d].text) \in [Kinds -> Entries]
    BY <1>1, AnalysisType
  <2> QED
    BY <2>1 DEF Republish, TypeOK
<1>3. epoch' \in [Docs -> Nat]
  BY DEF Republish, TypeOK, NextEpoch
<1>4. shown' \in [Docs -> Entries]
  <2>1. \A d \in batch : Entry(snapshot[d].version, Analysis(d, snapshot[d].text)) \in Entries
    BY <1>1, AnalysisType, EntryOfResult
  <2> QED
    BY <2>1 DEF Republish, TypeOK
<1>5. republished' \in [Docs -> States]
  BY DEF Republish, TypeOK
<1>6. handlers' \in [Handlers -> HandlerRecord]
  <2> DEFINE to == [pc |-> "republish", about |-> handlers[h].about,
                    snapshot |-> snapshot, todo |-> todo \ batch]
  <2>1. to \in HandlerRecord
    BY DEF HandlerRecord
  <2>2. handlers' = [handlers EXCEPT ![h] = IF todo = batch THEN Free ELSE to]
    BY DEF Republish, Goto
  <2> HIDE DEF to
  <2> QED
    BY <2>1, <2>2, FreeType DEF TypeOK
<1> QED
  BY <1>2, <1>3, <1>4, <1>5, <1>6 DEF Republish, TypeOK, client, world

\* A republish still has to visit documents it found stored.
SnapshotsStored ==
  \A h \in Handlers : handlers[h].pc = "republish" =>
    \A d \in handlers[h].todo : handlers[h].snapshot[d] # NoDoc

CacheTypeInv == TypeOK /\ SnapshotsStored

\* A batch is part of what is left to republish.
LEMMA BatchPart ==
  ASSUME NEW todo \in SUBSET Docs, NEW batch \in Batches(todo)
  PROVE  batch \in SUBSET todo
BY DEF Batches

\* Only a republish step makes a republishing handler.
LEMMA SnapshotsFrame ==
  ASSUME TypeOK, SnapshotsStored, NEW h \in Handlers, NEW to,
         to.pc = "republish" => \A d \in to.todo : to.snapshot[d] # NoDoc,
         Goto(h, to)
  PROVE  SnapshotsStored'
<1> SUFFICES ASSUME NEW g \in Handlers, handlers'[g].pc = "republish"
             PROVE  \A d \in handlers'[g].todo : handlers'[g].snapshot[d] # NoDoc
  BY DEF SnapshotsStored
<1>1. CASE g = h
  BY <1>1 DEF Goto, TypeOK
<1>2. CASE g # h
  <2>1. handlers'[g] = handlers[g]
    BY <1>2 DEF Goto, TypeOK
  <2> QED
    BY <2>1 DEF SnapshotsStored
<1> QED
  BY <1>1, <1>2

\* The state a republish leaves its handler in.
LEMMA RepublishSnapshots ==
  ASSUME TypeOK, SnapshotsStored, NEW h \in Handlers,
         NEW todo \in SUBSET Docs, NEW batch \in SUBSET todo,
         NEW snapshot, Republish(h, batch, snapshot, todo),
         \A d \in todo : snapshot[d] # NoDoc
  PROVE  SnapshotsStored'
<1> DEFINE next == [pc |-> "republish", about |-> handlers[h].about,
                    snapshot |-> snapshot, todo |-> todo \ batch]
           to == IF todo = batch THEN Free ELSE next
<1>1. Goto(h, to)
  BY DEF Republish
<1>2. to.pc = "republish" => \A d \in to.todo : to.snapshot[d] # NoDoc
  <2>1. CASE todo = batch
    BY <2>1 DEF Free
  <2>2. CASE todo # batch
    <3>1. to.todo = todo \ batch /\ to.snapshot = snapshot
      BY <2>2
    <3> QED
      BY <3>1
  <2> QED
    BY <2>1, <2>2
<1> HIDE DEF to
<1> QED
  BY <1>1, <1>2, SnapshotsFrame

\* Every step preserves the types.
LEMMA CacheTypeStep == CacheTypeInv /\ [Next]_vars => CacheTypeInv'
<1> SUFFICES ASSUME TypeOK, SnapshotsStored, [Next]_vars PROVE TypeOK' /\ SnapshotsStored'
  BY DEF CacheTypeInv
<1>1. ASSUME NEW h \in Handlers, NEW d \in Docs, DidOpen(h, d)
      PROVE  TypeOK' /\ SnapshotsStored'
  <2>1. HandleDocumentUpdate(h, d, FirstVersion, FALSE) /\ opened' \subseteq Docs
    BY <1>1 DEF DidOpen, TypeOK
  <2>2. TypeOK'
    BY <2>1, UpdateType, QueryCachesAssumption
  <2>3. SnapshotsStored'
    BY <2>1, SnapshotsFrame DEF HandleDocumentUpdate
  <2> QED
    BY <2>2, <2>3
<1>2. ASSUME NEW h \in Handlers, NEW d \in Docs, DidChange(h, d)
      PROVE  TypeOK' /\ SnapshotsStored'
  <2>1. HandleDocumentUpdate(h, d, version[d] + 1, TRUE) /\ UNCHANGED opened
    BY <1>2 DEF DidChange
  <2>2. TypeOK'
    <3>1. opened' \subseteq Docs /\ version[d] + 1 \in Nat
      BY <2>1 DEF TypeOK
    <3> QED
      BY <2>1, <3>1, UpdateType
  <2>3. SnapshotsStored'
    BY <2>1, SnapshotsFrame DEF HandleDocumentUpdate
  <2> QED
    BY <2>2, <2>3
<1>3. ASSUME NEW h \in Handlers, NEW d \in Docs, DidSave(h, d)
      PROVE  TypeOK' /\ SnapshotsStored'
  <2> DEFINE to == [pc |-> "save", doc |-> d, text |-> documents[d].text,
                    version |-> CurrentVersion(d), since |-> project,
                    typing |-> typing[d], cached |-> cache[d]["diagnostics"]]
  <2>1. Goto(h, to) /\ documents[d] # NoDoc
    BY <1>3 DEF DidSave
  <2>2. documents[d].text \in Texts /\ cache[d]["diagnostics"] \in Entries
    BY <2>1 DEF TypeOK, DocRecord, Kinds
  <2>3. to \in HandlerRecord /\ to.pc # "republish"
    BY <2>2, CurrentVersionType DEF TypeOK, HandlerRecord
  <2> HIDE DEF to
  <2>4. handlers' \in [Handlers -> HandlerRecord] /\ SnapshotsStored'
    BY <2>1, <2>3, GotoType, SnapshotsFrame
  <2> QED
    BY <1>3, <2>4 DEF DidSave, TypeOK, client, world
<1>4. ASSUME NEW h \in Handlers, NEW d \in Docs, DidClose(h, d)
      PROVE  TypeOK' /\ SnapshotsStored'
  <2> DEFINE to == [pc |-> "close", doc |-> d]
  <2>1. to \in HandlerRecord /\ to.pc # "republish" /\ Goto(h, to)
    BY <1>4 DEF DidClose, HandlerRecord
  <2> HIDE DEF to
  <2>2. handlers' \in [Handlers -> HandlerRecord] /\ SnapshotsStored'
    BY <2>1, GotoType, SnapshotsFrame
  <2>3. /\ documents' \in [Docs -> DocRecord] /\ typing' \in [Docs -> BOOLEAN]
        /\ epoch' \in [Docs -> Nat]
    BY <1>4, ForgetType DEF DidClose
  <2> QED
    BY <1>4, <2>2, <2>3 DEF DidClose, TypeOK, world
<1>5. ASSUME NEW h \in Handlers, DidChangeWatchedFiles(h) \/ DidChangeConfiguration(h)
      PROVE  TypeOK' /\ SnapshotsStored'
  <2> DEFINE to == [pc |-> "refresh", about |-> project']
  <2>1. Refresh(h) /\ Goto(h, to) /\ announced' = project'
    BY <1>5 DEF DidChangeWatchedFiles, DidChangeConfiguration, Refresh
  <2>2. project' \in States
    BY <1>5, QueryCachesAssumption
    DEF DidChangeWatchedFiles, DidChangeConfiguration, TypeOK, States
  <2>3. to \in HandlerRecord /\ to.pc # "republish"
    BY <2>2 DEF HandlerRecord
  <2> HIDE DEF to
  <2>4. handlers' \in [Handlers -> HandlerRecord] /\ SnapshotsStored'
    BY <2>1, <2>3, GotoType, SnapshotsFrame
  <2> QED
    BY <2>1, <2>2, <2>4 DEF Refresh, TypeOK, client
<1>6. ASSUME NEW h \in Handlers, HotDone(h)
      PROVE  TypeOK' /\ SnapshotsStored'
  <2>1. PICK state \in handlers[h].since .. project :
          StoreAndPublish(h, handlers[h].doc, Result(handlers[h].text, state, ~handlers[h].typing))
    BY <1>6 DEF HotDone
  <2>2. handlers[h].pc = "hot"
    BY <1>6 DEF HotDone
  <2>3. state \in States
    BY <2>1, <2>2, HandlerFields, QueryCachesAssumption DEF TypeOK, States
  <2>4. Result(handlers[h].text, state, ~handlers[h].typing) \in Results
    BY <2>2, <2>3, HandlerFields DEF Result, Results
  <2>5. SnapshotsStored'
    BY <2>1, SnapshotsFrame DEF StoreAndPublish, Free
  <2> QED
    BY <2>1, <2>2, <2>4, <2>5, StoreAndPublishType
<1>7. ASSUME NEW h \in Handlers, SaveDone(h)
      PROVE  TypeOK' /\ SnapshotsStored'
  <2> DEFINE s == handlers[h]
  <2>1. PICK state \in s.since .. project, expired \in BOOLEAN :
          StoreAndPublish(h, s.doc,
            IF (~s.typing \/ expired) /\ IsHit(s.cached, s.version)
            THEN s.cached.result ELSE Result(s.text, state, ~s.typing \/ expired))
    BY <1>7 DEF SaveDone
  <2>2. s.pc = "save"
    BY <1>7 DEF SaveDone
  <2>3. state \in States
    BY <2>1, <2>2, HandlerFields, QueryCachesAssumption DEF TypeOK, States
  <2>4. Result(s.text, state, ~s.typing \/ expired) \in Results /\ s.cached.result \in Results
    BY <2>2, <2>3, HandlerFields, ResultOfEntry DEF Result, Results
  <2>5. SnapshotsStored'
    BY <2>1, SnapshotsFrame DEF StoreAndPublish, Free
  <2> QED
    BY <2>1, <2>2, <2>4, <2>5, StoreAndPublishType
<1>8. ASSUME NEW h \in Handlers, CloseDone(h)
      PROVE  TypeOK' /\ SnapshotsStored'
  <2>1. handlers[h].doc \in Docs /\ PublishEmpty(handlers[h].doc) /\ Goto(h, Free)
    BY <1>8, HandlerFields DEF CloseDone
  <2>2. handlers' \in [Handlers -> HandlerRecord] /\ SnapshotsStored'
    BY <2>1, FreeType, GotoType, SnapshotsFrame DEF Free
  <2>3. shown' \in [Docs -> Entries]
    BY <2>1, PublishEmptyType
  <2> QED
    BY <1>8, <2>2, <2>3 DEF CloseDone, TypeOK, client, world
<1>9. ASSUME NEW h \in Handlers, RefreshDone(h)
      PROVE  TypeOK' /\ SnapshotsStored'
  <2>1. handlers[h].pc = "refresh" /\ handlers[h].about \in States
    BY <1>9, HandlerFields DEF RefreshDone
  <2>2. CASE Stored = {}
    <3>1. Goto(h, Free) /\ UNCHANGED <<client, world, documents, typing, cache, epoch, shown, republished>>
      BY <1>9, <2>2 DEF RefreshDone
    <3>2. handlers' \in [Handlers -> HandlerRecord] /\ SnapshotsStored'
      BY <3>1, FreeType, GotoType, SnapshotsFrame DEF Free
    <3> QED
      BY <3>1, <3>2 DEF TypeOK, client, world
  <2>3. CASE Stored # {}
    <3>1. PICK batch \in Batches(Stored) : Republish(h, batch, documents, Stored)
      BY <1>9, <2>3 DEF RefreshDone
    <3>2. Stored \in SUBSET Docs /\ \A d \in Stored : documents[d] # NoDoc
      BY DEF Stored
    <3>3. batch \in SUBSET Stored
      BY <3>2, BatchPart
    <3>4. documents \in [Docs -> DocRecord]
      BY DEF TypeOK
    <3>5. TypeOK'
      BY <2>1, <3>1, <3>2, <3>3, <3>4, RepublishType
    <3> QED
      BY <3>1, <3>2, <3>3, <3>5, RepublishSnapshots
  <2> QED
    BY <2>2, <2>3
<1>10. ASSUME NEW h \in Handlers, RepublishNext(h)
       PROVE  TypeOK' /\ SnapshotsStored'
  <2> DEFINE todo == handlers[h].todo
             snapshot == handlers[h].snapshot
  <2>1. handlers[h].pc = "republish"
    BY <1>10 DEF RepublishNext
  <2>2. /\ handlers[h].about \in States
        /\ snapshot \in [Docs -> DocRecord] /\ todo \in SUBSET Docs
        /\ \A d \in todo : snapshot[d] # NoDoc
    BY <2>1, HandlerFields DEF SnapshotsStored
  <2>3. PICK batch \in Batches(todo) : Republish(h, batch, snapshot, todo)
    BY <1>10 DEF RepublishNext
  <2> HIDE DEF todo, snapshot
  <2>4. batch \in SUBSET todo
    BY <2>2, <2>3, BatchPart
  <2> QED
    BY <2>2, <2>3, <2>4, RepublishType, RepublishSnapshots
<1>11. ASSUME NEW d \in Docs, DidChangeRejected(d)
       PROVE  TypeOK' /\ SnapshotsStored'
  <2>1. edits' \in Texts /\ version' \in [Docs -> Nat]
    BY <1>11, QueryCachesAssumption DEF DidChangeRejected, TypeOK, Texts
  <2>2. /\ documents' \in [Docs -> DocRecord] /\ typing' \in [Docs -> BOOLEAN]
        /\ epoch' \in [Docs -> Nat] /\ cache' \in [Docs -> [Kinds -> Entries]]
        /\ shown' \in [Docs -> Entries]
    BY <1>11, ForgetType, InvalidateType, PublishEmptyType DEF DidChangeRejected
  <2> QED
    BY <1>11, <2>1, <2>2 DEF DidChangeRejected, SnapshotsStored, TypeOK, world
<1>12. ASSUME NEW d \in Docs, TypingPauses(d)
       PROVE  TypeOK' /\ SnapshotsStored'
  BY <1>12 DEF TypingPauses, SnapshotsStored, TypeOK, client, world
<1>13. ASSUME NEW d \in Docs, NEW whole \in BOOLEAN, SemanticTokens(d, whole)
       PROVE  TypeOK' /\ SnapshotsStored'
  <2> DEFINE e == IF documents[d] = NoDoc THEN NoEntry
                  ELSE Entry(CurrentVersion(d), Result(documents[d].text, 0, whole))
  <2>1. documents[d] # NoDoc => documents[d].text \in Texts
    BY DEF TypeOK, DocRecord
  <2>2. e \in Entries
    BY <2>1, NothingType, CurrentVersionType, EntryType, QueryCachesAssumption DEF States
  <2>3. Lookup(d, "tokens", CurrentVersion(d), e) /\ "tokens" \in Kinds
    BY <1>13 DEF SemanticTokens, Kinds
  <2> HIDE DEF e
  <2> QED
    BY <2>2, <2>3 DEF Lookup, SnapshotsStored, TypeOK, client, world
<1>14. ASSUME NEW d \in Docs, NEW source \in BOOLEAN, CodeAction(d, source)
       PROVE  TypeOK' /\ SnapshotsStored'
  <2> DEFINE e == Entry(epoch[d], Result(documents[d].text, project, source))
  <2>1. documents[d].text \in Texts /\ epoch[d] \in Nat /\ project \in States
    BY <1>14 DEF CodeAction, TypeOK, DocRecord
  <2>2. e \in Entries
    BY <2>1, EntryType
  <2>3. Lookup(d, "actions", epoch[d], e) /\ "actions" \in Kinds
    BY <1>14 DEF CodeAction, Kinds
  <2> HIDE DEF e
  <2> QED
    BY <2>2, <2>3 DEF Lookup, SnapshotsStored, TypeOK, client, world
<1>15. CASE SaveManifest
  BY <1>15, QueryCachesAssumption DEF SaveManifest, SnapshotsStored, TypeOK, States, client
<1>16. CASE UNCHANGED vars
  BY <1>16 DEF vars, SnapshotsStored, TypeOK, client, world
<1> QED
  BY <1>1, <1>2, <1>3, <1>4, <1>5, <1>6, <1>7, <1>8, <1>9, <1>10, <1>11, <1>12, <1>13, <1>14,
     <1>15, <1>16 DEF Next, Notification, Continuation, Request

\* A server without documents is typed.
LEMMA CacheTypeInit == Init => CacheTypeInv
BY NothingType, QueryCachesAssumption, FreeType
DEF Init, CacheTypeInv, TypeOK, SnapshotsStored, Texts, States, DocRecord, Free

\* The server's caches, epochs and handlers keep their types: in particular the
\* version an entry is tagged with is never that of a missing document.
THEOREM CacheTypes == Spec => []TypeOK
<1>1. CacheTypeInv => TypeOK
  BY DEF CacheTypeInv
<1> QED
  BY <1>1, CacheTypeInit, CacheTypeStep, PTL DEF Spec

-----------------------------------------------------------------------------
(***************************************************************************)
(* Nothing partial is cached.                                              *)
(***************************************************************************)

\* What an analysis leaves cached is whole if what it found was.
LEMMA AnalysisWhole ==
  ASSUME TypeOK, CachedDiagnosticsWhole, NEW d \in Docs, NEW text
  PROVE  CacheAfterAnalysis(d, text)["diagnostics"].result.whole
<1> DEFINE r == Analysis(d, text)
           e == Entry(CurrentVersion(d), r)
<1>1. cache[d] \in [Kinds -> Entries] /\ "diagnostics" \in Kinds /\ typing[d] \in BOOLEAN
  BY DEF TypeOK, Kinds
<1>2. CASE CachesAnalysis(d)
  <2>1. r.whole
    BY <1>1, <1>2 DEF CachedDiagnosticsWhole, Analysis, CachesAnalysis, Result
  <2>2. e.result = r
    BY DEF Entry
  <2>3. CacheAfterAnalysis(d, text)["diagnostics"] = e
    BY <1>1, <1>2 DEF CacheAfterAnalysis
  <2> QED
    BY <2>1, <2>2, <2>3
<1>3. CASE ~CachesAnalysis(d)
  BY <1>3 DEF CacheAfterAnalysis, CachedDiagnosticsWhole
<1> QED
  BY <1>2, <1>3

\* An empty bucket holds no partial diagnostics.
LEMMA EmptyWhole == Empty["diagnostics"].result.whole
BY DEF Empty, Kinds, NoEntry, Entry, Nothing, Result

\* A republish caches whole diagnostics only.
LEMMA RepublishWhole ==
  ASSUME TypeOK, CachedDiagnosticsWhole, NEW h, NEW batch, NEW snapshot, NEW todo,
         Republish(h, batch, snapshot, todo)
  PROVE  CachedDiagnosticsWhole'
BY AnalysisWhole DEF Republish, CachedDiagnosticsWhole

\* No step caches partial diagnostics.
LEMMA WholeStep ==
  ASSUME TypeOK, CachedDiagnosticsWhole, [Next]_vars
  PROVE  CachedDiagnosticsWhole'
<1>1. ASSUME NEW d \in Docs, InvalidateForUri(d)
      PROVE  CachedDiagnosticsWhole'
  BY <1>1, EmptyWhole DEF InvalidateForUri, CachedDiagnosticsWhole, TypeOK
<1>2. ASSUME NEW d \in Docs, NEW kind \in Kinds \ {"diagnostics"}, NEW tag, NEW e,
             Lookup(d, kind, tag, e)
      PROVE  CachedDiagnosticsWhole'
  BY <1>2 DEF Lookup, CachedDiagnosticsWhole, TypeOK, Kinds
<1>3. ASSUME UNCHANGED cache
      PROVE  CachedDiagnosticsWhole'
  BY <1>3 DEF CachedDiagnosticsWhole
<1>4. ASSUME NEW h \in Handlers, Notification(h)
      PROVE  CachedDiagnosticsWhole'
  BY <1>1, <1>3, <1>4
  DEF Notification, DidOpen, DidChange, HandleDocumentUpdate, DidSave, DidClose,
      DidChangeWatchedFiles, DidChangeConfiguration, Refresh
<1>5. ASSUME NEW h \in Handlers, Continuation(h)
      PROVE  CachedDiagnosticsWhole'
  BY <1>3, <1>5, RepublishWhole
  DEF Continuation, HotDone, SaveDone, StoreAndPublish, CloseDone, RefreshDone, RepublishNext
<1>6. ASSUME NEW d \in Docs, DidChangeRejected(d) \/ TypingPauses(d)
      PROVE  CachedDiagnosticsWhole'
  BY <1>1, <1>3, <1>6 DEF DidChangeRejected, TypingPauses
<1>7. ASSUME NEW d \in Docs, Request(d)
      PROVE  CachedDiagnosticsWhole'
  BY <1>2, <1>7 DEF Request, SemanticTokens, CodeAction, Kinds
<1>8. CASE SaveManifest \/ UNCHANGED vars
  BY <1>3, <1>8 DEF SaveManifest, vars
<1> QED
  BY <1>4, <1>5, <1>6, <1>7, <1>8 DEF Next

\* Diagnostics computed during typing suppression are never kept for a later
\* republish or save.
THEOREM CachedIsWhole == Spec => []CachedDiagnosticsWhole
<1>1. Init => CacheTypeInv /\ CachedDiagnosticsWhole
  BY CacheTypeInit, EmptyWhole DEF Init, CachedDiagnosticsWhole
<1>2. CacheTypeInv /\ CachedDiagnosticsWhole /\ [Next]_vars
        => CacheTypeInv' /\ CachedDiagnosticsWhole'
  BY CacheTypeStep, WholeStep DEF CacheTypeInv
<1> QED
  BY <1>1, <1>2, PTL DEF Spec

-----------------------------------------------------------------------------
(***************************************************************************)
(* Served tokens are those of the stored text.  While a document is open,  *)
(* a version stands for one text wherever it occurs: in the stored         *)
(* document, in an analysis that will store it again, on a cached entry.   *)
(***************************************************************************)

Analyses(h, d) == handlers[h].pc \in {"hot", "save"} /\ handlers[h].doc = d

Carries(d, v, t) ==
  \/ documents[d] # NoDoc /\ documents[d].version = v /\ documents[d].text = t
  \/ \E h \in Handlers :
       Analyses(h, d) /\ handlers[h].version = v /\ handlers[h].text = t
  \/ cache[d]["tokens"].tag = v /\ cache[d]["tokens"].result.text = t

OneTextPerVersion ==
  \A d \in opened : \A v \in Nat, t \in Texts : Carries(d, v, t) =>
    v <= version[d] /\ \A u \in Texts : Carries(d, v, u) => u = t

\* The invariant gives the property.
LEMMA OneTextServed ==
  ASSUME TypeOK, OneTextPerVersion
  PROVE  ServedTextIsStored
<1> SUFFICES ASSUME NEW d \in opened, documents[d] # NoDoc, Served(d, "tokens")
             PROVE  cache[d]["tokens"].result.text = documents[d].text
  BY DEF ServedTextIsStored
<1> DEFINE v == documents[d].version
           e == cache[d]["tokens"]
<1>1. d \in Docs /\ v \in Nat /\ documents[d].text \in Texts
  BY DEF TypeOK, DocRecord
<1>2. e \in Entries /\ e.tag = v
  BY <1>1 DEF TypeOK, Kinds, Served, IsHit, CurrentVersion
<1>3. e.result.text \in Texts
  BY <1>2, ResultOfEntry DEF Results
<1>4. Carries(d, v, documents[d].text) /\ Carries(d, v, e.result.text)
  BY <1>2 DEF Carries
<1> QED
  BY <1>1, <1>3, <1>4 DEF OneTextPerVersion

\* A step that gives no version a new text keeps the invariant.
LEMMA NamesFrame ==
  ASSUME TypeOK, OneTextPerVersion, opened' \subseteq opened,
         \A d \in opened' : version'[d] \in Nat /\ version[d] <= version'[d],
         \A d \in opened' : \A v \in Nat, t \in Texts : Carries(d, v, t)' => Carries(d, v, t)
  PROVE  OneTextPerVersion'
<1> SUFFICES ASSUME NEW d \in opened', NEW v \in Nat, NEW t \in Texts, Carries(d, v, t)'
             PROVE  v <= version'[d] /\ \A u \in Texts : Carries(d, v, u)' => u = t
  BY DEF OneTextPerVersion
<1>1. Carries(d, v, t) /\ d \in opened
  OBVIOUS
<1>2. v <= version[d] /\ \A u \in Texts : Carries(d, v, u) => u = t
  BY <1>1 DEF OneTextPerVersion
<1>3. version[d] \in Nat
  BY <1>1 DEF TypeOK
<1> QED
  BY <1>2, <1>3

\* Carriers that only disappear.
LEMMA CarriersVanish ==
  ASSUME NEW d \in Docs, NEW v \in Nat, NEW t,
         documents'[d] \in {documents[d], NoDoc},
         cache'[d]["tokens"] = cache[d]["tokens"] \/ cache'[d]["tokens"] = NoEntry,
         \A g \in Handlers : handlers'[g] # handlers[g] => handlers'[g].pc \notin {"hot", "save"},
         Carries(d, v, t)'
  PROVE  Carries(d, v, t)
<1>1. CASE documents'[d] # NoDoc /\ documents'[d].version = v /\ documents'[d].text = t
  BY <1>1 DEF Carries
<1>2. ASSUME NEW g \in Handlers, Analyses(g, d)',
             handlers'[g].version = v, handlers'[g].text = t
      PROVE  Carries(d, v, t)
  <2>1. handlers'[g] = handlers[g]
    BY <1>2 DEF Analyses
  <2> QED
    BY <1>2, <2>1 DEF Carries, Analyses
<1>3. CASE cache'[d]["tokens"].tag = v /\ cache'[d]["tokens"].result.text = t
  <2>1. NoEntry.tag = -1
    BY DEF NoEntry, Entry
  <2>2. cache'[d]["tokens"] = cache[d]["tokens"]
    BY <1>3, <2>1
  <2> QED
    BY <1>3, <2>2 DEF Carries
<1> QED
  BY <1>1, <1>2, <1>3 DEF Carries

\* A handler that moves on to something other than an analysis.
LEMMA GotoOther ==
  ASSUME TypeOK, NEW h \in Handlers, NEW to, to.pc \notin {"hot", "save"}, Goto(h, to)
  PROVE  \A g \in Handlers : handlers'[g] # handlers[g] => handlers'[g].pc \notin {"hot", "save"}
BY DEF TypeOK, Goto

\* A republish leaves semantic tokens alone, and its handler is no analysis.
LEMMA RepublishKeepsTokens ==
  ASSUME TypeOK, NEW h \in Handlers, NEW batch, NEW snapshot, NEW todo,
         Republish(h, batch, snapshot, todo)
  PROVE  /\ \A d \in Docs : cache'[d]["tokens"] = cache[d]["tokens"]
         /\ \A g \in Handlers :
              handlers'[g] # handlers[g] => handlers'[g].pc \notin {"hot", "save"}
         /\ UNCHANGED <<documents, opened, version>>
<1>1. \A d \in Docs : CacheAfterAnalysis(d, snapshot[d].text)["tokens"] = cache[d]["tokens"]
  <2> TAKE d \in Docs
  <2>1. cache[d] \in [Kinds -> Entries] /\ "tokens" \in Kinds
    BY DEF TypeOK, Kinds
  <2> QED
    BY <2>1 DEF CacheAfterAnalysis
<1>2. \A d \in Docs : cache'[d]["tokens"] = cache[d]["tokens"]
  BY <1>1 DEF Republish
<1>3. \A g \in Handlers : handlers'[g] # handlers[g] => handlers'[g].pc \notin {"hot", "save"}
  <2> DEFINE next == [pc |-> "republish", about |-> handlers[h].about,
                      snapshot |-> snapshot, todo |-> todo \ batch]
             to == IF todo = batch THEN Free ELSE next
  <2>1. to.pc \notin {"hot", "save"} /\ Goto(h, to)
    BY DEF Republish, Free
  <2> HIDE DEF to
  <2> QED
    BY <2>1, GotoOther
<1> QED
  BY <1>2, <1>3 DEF Republish, client

\* A new text gets a version of its own: a greater one, or the first of a
\* session nothing of an earlier one is left of.
LEMMA NamesUpdate ==
  ASSUME TypeOK, OneTextPerVersion, NEW h \in Handlers, NEW d \in Docs, NEW v \in Nat,
         NEW typed, HandleDocumentUpdate(h, d, v, typed),
         opened' = opened \cup {d},
         \/ d \in opened /\ v = version[d] + 1
         \/ ~Analysing(d)
  PROVE  OneTextPerVersion'
<1> DEFINE new == [pc |-> "hot", doc |-> d, text |-> edits', version |-> v,
                   since |-> project, typing |-> typed]
<1>1. /\ documents' = [documents EXCEPT ![d] = Doc(edits', v)]
      /\ handlers' = [handlers EXCEPT ![h] = new]
      /\ cache' = [cache EXCEPT ![d] = Empty]
      /\ version' = [version EXCEPT ![d] = v]
  BY DEF HandleDocumentUpdate, InvalidateForUri, Goto
<1>2. SUFFICES ASSUME NEW c \in opened', NEW w \in Nat, NEW t \in Texts, Carries(c, w, t)'
               PROVE  w <= version'[c] /\ \A u \in Texts : Carries(c, w, u)' => u = t
  BY DEF OneTextPerVersion
<1>3. new.doc = d /\ new.version = v /\ new.text = edits' /\ new.pc = "hot"
  OBVIOUS
<1> HIDE DEF new
<1>4. CASE c # d
  <2>1. c \in opened /\ c \in Docs /\ version'[c] = version[c]
    BY <1>1, <1>4 DEF TypeOK
  <2>2. \A u \in Texts : Carries(c, w, u)' => Carries(c, w, u)
    <3> SUFFICES ASSUME NEW u \in Texts, Carries(c, w, u)' PROVE Carries(c, w, u)
      OBVIOUS
    <3>1. documents'[c] = documents[c] /\ cache'[c] = cache[c]
      BY <1>1, <1>4, <2>1 DEF TypeOK
    <3>2. \A g \in Handlers : Analyses(g, c)' => handlers'[g] = handlers[g]
      BY <1>1, <1>3, <1>4 DEF Analyses, TypeOK
    <3> QED
      BY <3>1, <3>2 DEF Carries, Analyses
  <2> QED
    BY <1>2, <2>1, <2>2 DEF OneTextPerVersion
<1>5. CASE c = d
  <2>1. \A u \in Texts : Carries(d, w, u)' =>
          (w = v /\ u = edits') \/ (d \in opened /\ v = version[d] + 1 /\ Carries(d, w, u) /\ w <= version[d])
    <3> SUFFICES ASSUME NEW u \in Texts, Carries(d, w, u)'
                 PROVE  \/ w = v /\ u = edits'
                        \/ d \in opened /\ v = version[d] + 1 /\ Carries(d, w, u) /\ w <= version[d]
      OBVIOUS
    <3>1. documents'[d].version = v /\ documents'[d].text = edits'
      BY <1>1 DEF Doc, TypeOK
    <3>2. cache'[d]["tokens"].tag # w
      BY <1>1 DEF TypeOK, Empty, Kinds, NoEntry, Entry
    <3>3. CASE documents'[d].version = w /\ documents'[d].text = u
      BY <3>1, <3>3
    <3>4. ASSUME NEW g \in Handlers, Analyses(g, d)', handlers'[g].version = w,
                 handlers'[g].text = u
          PROVE  \/ w = v /\ u = edits'
                 \/ d \in opened /\ v = version[d] + 1 /\ Carries(d, w, u) /\ w <= version[d]
      <4>1. CASE g = h
        BY <1>1, <1>3, <3>4, <4>1 DEF TypeOK
      <4>2. CASE g # h
        <5>1. handlers'[g] = handlers[g]
          BY <1>1, <4>2 DEF TypeOK
        <5>2. Analyses(g, d) /\ Carries(d, w, u)
          BY <3>4, <5>1 DEF Analyses, Carries
        <5>3. Analysing(d)
          BY <5>2 DEF Analysing, Analyses
        <5> QED
          BY <5>2, <5>3 DEF OneTextPerVersion
      <4> QED
        BY <4>1, <4>2
    <3> QED
      BY <3>2, <3>3, <3>4 DEF Carries
  <2>2. version'[d] = v /\ version[d] \in Nat
    BY <1>1 DEF TypeOK
  <2>3. \A u \in Texts : Carries(d, w, u)' =>
          (w = v /\ u = edits') \/ (d \in opened /\ w < v /\ Carries(d, w, u))
    BY <2>1, <2>2
  <2> QED
    BY <1>2, <1>5, <2>2, <2>3 DEF OneTextPerVersion
<1> QED
  BY <1>4, <1>5

\* Carriers that take their version and text from another one.
LEMMA CarriersCopy ==
  ASSUME NEW d \in Docs, NEW v \in Nat, NEW t,
         documents'[d] # NoDoc => Carries(d, documents'[d].version, documents'[d].text),
         cache'[d]["tokens"].tag \in Nat =>
           Carries(d, cache'[d]["tokens"].tag, cache'[d]["tokens"].result.text),
         \A g \in Handlers : Analyses(g, d)' =>
           Carries(d, handlers'[g].version, handlers'[g].text),
         Carries(d, v, t)'
  PROVE  Carries(d, v, t)
<1>1. ASSUME NEW g \in Handlers, Analyses(g, d)',
             handlers'[g].version = v, handlers'[g].text = t
      PROVE  Carries(d, v, t)
  BY <1>1
<1>2. CASE documents'[d] # NoDoc /\ documents'[d].version = v /\ documents'[d].text = t
  BY <1>2
<1>3. CASE cache'[d]["tokens"].tag = v /\ cache'[d]["tokens"].result.text = t
  BY <1>3
<1> QED
  BY <1>1, <1>2, <1>3 DEF Carries

\* The stored document, the entry and the analyses are carriers.
LEMMA CarriersThemselves ==
  ASSUME NEW d \in Docs
  PROVE  /\ documents[d] # NoDoc => Carries(d, documents[d].version, documents[d].text)
         /\ Carries(d, cache[d]["tokens"].tag, cache[d]["tokens"].result.text)
         /\ \A g \in Handlers : Analyses(g, d) =>
              Carries(d, handlers[g].version, handlers[g].text)
BY DEF Carries

\* An analysis that ends stores its own text under its own version.
LEMMA NamesStore ==
  ASSUME TypeOK, OneTextPerVersion, NEW h \in Handlers, handlers[h].pc \in {"hot", "save"},
         NEW result, StoreAndPublish(h, handlers[h].doc, result)
  PROVE  OneTextPerVersion'
<1> DEFINE d == handlers[h].doc
<1>1. d \in Docs /\ Analyses(h, d)
  BY HandlerFields DEF Analyses
<1>2. UNCHANGED <<opened, version, cache>>
  BY DEF StoreAndPublish, client
<1>3. \/ documents' = documents
      \/ documents' = [documents EXCEPT ![d] = Doc(handlers[h].text, handlers[h].version)]
  BY DEF StoreAndPublish
<1>4. handlers' = [handlers EXCEPT ![h] = Free]
  BY DEF StoreAndPublish, Goto
<1>5. \A c \in Docs, v \in Nat, t \in Texts : Carries(c, v, t)' => Carries(c, v, t)
  <2> SUFFICES ASSUME NEW c \in Docs, NEW v \in Nat, NEW t \in Texts, Carries(c, v, t)'
               PROVE  Carries(c, v, t)
    OBVIOUS
  <2>1. documents'[c] # NoDoc => Carries(c, documents'[c].version, documents'[c].text)
    <3>1. CASE documents'[c] = documents[c]
      BY <3>1, CarriersThemselves
    <3>2. CASE documents'[c] # documents[c]
      <4>1. c = d /\ documents'[c] = Doc(handlers[h].text, handlers[h].version)
        BY <1>1, <1>3, <3>2 DEF TypeOK
      <4>2. Carries(c, handlers[h].version, handlers[h].text)
        BY <1>1, <4>1, CarriersThemselves
      <4> QED
        BY <4>1, <4>2 DEF Doc
    <3> QED
      BY <3>1, <3>2
  <2>2. cache'[c]["tokens"].tag \in Nat =>
          Carries(c, cache'[c]["tokens"].tag, cache'[c]["tokens"].result.text)
    BY <1>2, CarriersThemselves
  <2>3. \A g \in Handlers : Analyses(g, c)' =>
          Carries(c, handlers'[g].version, handlers'[g].text)
    <3> SUFFICES ASSUME NEW g \in Handlers, Analyses(g, c)'
                 PROVE  Carries(c, handlers'[g].version, handlers'[g].text)
      OBVIOUS
    <3>1. handlers'[g] = handlers[g]
      BY <1>4 DEF Analyses, Free, TypeOK
    <3>2. Analyses(g, c)
      BY <3>1 DEF Analyses
    <3> QED
      BY <3>1, <3>2, CarriersThemselves
  <2> QED
    BY <2>1, <2>2, <2>3, CarriersCopy
<1> HIDE DEF d
<1> QED
  BY <1>2, <1>5, NamesFrame DEF TypeOK

\* A save analyses the stored document.
LEMMA NamesSave ==
  ASSUME TypeOK, OneTextPerVersion, NEW h \in Handlers, NEW d \in Docs, DidSave(h, d)
  PROVE  OneTextPerVersion'
<1> DEFINE to == [pc |-> "save", doc |-> d, text |-> documents[d].text,
                  version |-> CurrentVersion(d), since |-> project,
                  typing |-> typing[d], cached |-> cache[d]["diagnostics"]]
<1>1. /\ handlers' = [handlers EXCEPT ![h] = to]
      /\ to.doc = d /\ to.text = documents[d].text /\ to.version = documents[d].version
      /\ documents[d] # NoDoc
  BY DEF DidSave, Goto, CurrentVersion
<1> HIDE DEF to
<1>2. UNCHANGED <<opened, version, cache, documents>>
  BY DEF DidSave, client
<1>3. \A c \in Docs, v \in Nat, t \in Texts : Carries(c, v, t)' => Carries(c, v, t)
  <2> SUFFICES ASSUME NEW c \in Docs, NEW v \in Nat, NEW t \in Texts, Carries(c, v, t)'
               PROVE  Carries(c, v, t)
    OBVIOUS
  <2>1. \A g \in Handlers : Analyses(g, c)' =>
          Carries(c, handlers'[g].version, handlers'[g].text)
    <3> SUFFICES ASSUME NEW g \in Handlers, Analyses(g, c)'
                 PROVE  Carries(c, handlers'[g].version, handlers'[g].text)
      OBVIOUS
    <3>1. CASE g = h
      <4>1. handlers'[g] = to /\ c = d
        BY <1>1, <3>1 DEF Analyses, TypeOK
      <4> QED
        BY <1>1, <4>1, CarriersThemselves
    <3>2. CASE g # h
      <4>1. handlers'[g] = handlers[g]
        BY <1>1, <3>2 DEF TypeOK
      <4>2. Analyses(g, c)
        BY <4>1 DEF Analyses
      <4> QED
        BY <4>1, <4>2, CarriersThemselves
    <3> QED
      BY <3>1, <3>2
  <2>2. /\ documents'[c] # NoDoc => Carries(c, documents'[c].version, documents'[c].text)
        /\ cache'[c]["tokens"].tag \in Nat =>
             Carries(c, cache'[c]["tokens"].tag, cache'[c]["tokens"].result.text)
    BY <1>2, CarriersThemselves
  <2> QED
    BY <2>1, <2>2, CarriersCopy
<1> QED
  BY <1>2, <1>3, NamesFrame DEF TypeOK

\* Tokens are computed from, and tagged with the version of, the stored document.
LEMMA NamesTokens ==
  ASSUME TypeOK, OneTextPerVersion, NEW d \in Docs, NEW whole, SemanticTokens(d, whole)
  PROVE  OneTextPerVersion'
<1> DEFINE e == IF documents[d] = NoDoc THEN NoEntry
                ELSE Entry(CurrentVersion(d), Result(documents[d].text, 0, whole))
<1>1. cache' = cache \/ cache' = [cache EXCEPT ![d]["tokens"] = e]
  BY DEF SemanticTokens, Lookup
<1>2. documents[d] = NoDoc => e = NoEntry
  OBVIOUS
<1>3. documents[d] # NoDoc => e.tag = documents[d].version /\ e.result.text = documents[d].text
  BY DEF Entry, Result, CurrentVersion
<1> HIDE DEF e
<1>4. UNCHANGED <<opened, version, handlers, documents>>
  BY DEF SemanticTokens, Lookup, client
<1>5. \A c \in Docs, v \in Nat, t \in Texts : Carries(c, v, t)' => Carries(c, v, t)
  <2> SUFFICES ASSUME NEW c \in Docs, NEW v \in Nat, NEW t \in Texts, Carries(c, v, t)'
               PROVE  Carries(c, v, t)
    OBVIOUS
  <2>1. cache'[c]["tokens"].tag \in Nat =>
          Carries(c, cache'[c]["tokens"].tag, cache'[c]["tokens"].result.text)
    <3>1. CASE cache'[c]["tokens"] = cache[c]["tokens"]
      BY <3>1, CarriersThemselves
    <3>2. CASE cache'[c]["tokens"] # cache[c]["tokens"]
      <4>1. c = d /\ cache'[c]["tokens"] = e
        BY <1>1, <3>2 DEF TypeOK, Kinds
      <4>2. NoEntry.tag \notin Nat
        BY DEF NoEntry, Entry
      <4> QED
        BY <1>2, <1>3, <4>1, <4>2, CarriersThemselves
    <3> QED
      BY <3>1, <3>2
  <2>2. /\ documents'[c] # NoDoc => Carries(c, documents'[c].version, documents'[c].text)
        /\ \A g \in Handlers : Analyses(g, c)' =>
             Carries(c, handlers'[g].version, handlers'[g].text)
    BY <1>4, CarriersThemselves DEF Analyses
  <2> QED
    BY <2>1, <2>2, CarriersCopy
<1> QED
  BY <1>4, <1>5, NamesFrame DEF TypeOK

\* A step whose carriers only disappear.
LEMMA NamesVanish ==
  ASSUME TypeOK, OneTextPerVersion, opened' \subseteq opened,
         \A d \in Docs : version'[d] \in Nat /\ version[d] <= version'[d],
         \A d \in Docs : documents'[d] \in {documents[d], NoDoc},
         \A d \in Docs : cache'[d]["tokens"] \in {cache[d]["tokens"], NoEntry},
         \A g \in Handlers : handlers'[g] # handlers[g] => handlers'[g].pc \notin {"hot", "save"}
  PROVE  OneTextPerVersion'
<1>1. opened' \subseteq Docs
  BY DEF TypeOK
<1>2. \A d \in Docs, v \in Nat, t \in Texts : Carries(d, v, t)' => Carries(d, v, t)
  BY CarriersVanish
<1> QED
  BY <1>1, <1>2, NamesFrame

\* A republish gives no version a new text.
LEMMA NamesRepublish ==
  ASSUME TypeOK, OneTextPerVersion, NEW h \in Handlers, NEW batch, NEW snapshot, NEW todo,
         Republish(h, batch, snapshot, todo)
  PROVE  OneTextPerVersion'
<1>1. /\ \A d \in Docs : cache'[d]["tokens"] = cache[d]["tokens"]
      /\ \A g \in Handlers :
           handlers'[g] # handlers[g] => handlers'[g].pc \notin {"hot", "save"}
      /\ UNCHANGED <<documents, opened, version>>
  BY RepublishKeepsTokens
<1> QED
  BY <1>1, NamesVanish DEF TypeOK

\* Every step keeps one text per version.
LEMMA NamesStep ==
  ASSUME TypeOK, OneTextPerVersion, [Next]_vars
  PROVE  OneTextPerVersion'
<1>1. ASSUME NEW h \in Handlers, NEW d \in Docs, DidOpen(h, d)
      PROVE  OneTextPerVersion'
  BY <1>1, NamesUpdate, QueryCachesAssumption DEF DidOpen
<1>2. ASSUME NEW h \in Handlers, NEW d \in Docs, DidChange(h, d)
      PROVE  OneTextPerVersion'
  <2>1. d \in opened /\ opened' = opened \cup {d} /\ version[d] + 1 \in Nat
    BY <1>2 DEF DidChange, TypeOK
  <2>2. HandleDocumentUpdate(h, d, version[d] + 1, TRUE)
    BY <1>2 DEF DidChange
  <2> QED
    BY <2>1, <2>2, NamesUpdate
<1>3. ASSUME NEW h \in Handlers, NEW d \in Docs, DidClose(h, d)
      PROVE  OneTextPerVersion'
  <2>1. \A g \in Handlers : handlers'[g] # handlers[g] => handlers'[g].pc \notin {"hot", "save"}
    BY <1>3, GotoOther DEF DidClose
  <2>2. /\ opened' \subseteq opened /\ UNCHANGED <<version, cache>>
        /\ \A c \in Docs : documents'[c] \in {documents[c], NoDoc}
    BY <1>3 DEF DidClose, Forget, TypeOK
  <2> QED
    BY <2>1, <2>2, NamesVanish DEF TypeOK
<1>4. ASSUME NEW h \in Handlers, DidChangeWatchedFiles(h) \/ DidChangeConfiguration(h)
      PROVE  OneTextPerVersion'
  <2>1. Refresh(h)
    BY <1>4 DEF DidChangeWatchedFiles, DidChangeConfiguration
  <2>2. \A g \in Handlers : handlers'[g] # handlers[g] => handlers'[g].pc \notin {"hot", "save"}
    BY <2>1, GotoOther DEF Refresh
  <2> QED
    BY <2>1, <2>2, NamesVanish DEF Refresh, client, TypeOK
<1>5. ASSUME NEW h \in Handlers, HotDone(h) \/ SaveDone(h)
      PROVE  OneTextPerVersion'
  BY <1>5, NamesStore DEF HotDone, SaveDone
<1>6. ASSUME NEW h \in Handlers, CloseDone(h)
      PROVE  OneTextPerVersion'
  <2>1. \A g \in Handlers : handlers'[g] # handlers[g] => handlers'[g].pc \notin {"hot", "save"}
    BY <1>6, GotoOther DEF CloseDone, Free
  <2> QED
    BY <1>6, <2>1, NamesVanish DEF CloseDone, client, TypeOK
<1>7. ASSUME NEW h \in Handlers, RefreshDone(h)
      PROVE  OneTextPerVersion'
  <2>1. CASE Goto(h, Free) /\ UNCHANGED <<client, documents, cache>>
    <3>1. \A g \in Handlers :
            handlers'[g] # handlers[g] => handlers'[g].pc \notin {"hot", "save"}
      BY <2>1, GotoOther DEF Free
    <3> QED
      BY <2>1, <3>1, NamesVanish DEF client, TypeOK
  <2>2. CASE \E batch \in Batches(Stored) : Republish(h, batch, documents, Stored)
    BY <2>2, NamesRepublish
  <2> QED
    BY <1>7, <2>1, <2>2 DEF RefreshDone
<1>8. ASSUME NEW h \in Handlers, RepublishNext(h)
      PROVE  OneTextPerVersion'
  BY <1>8, NamesRepublish DEF RepublishNext
<1>9. ASSUME NEW d \in Docs, DidChangeRejected(d)
      PROVE  OneTextPerVersion'
  <2>1. /\ UNCHANGED <<opened, handlers>>
        /\ version' = [version EXCEPT ![d] = @ + 1]
        /\ cache' = [cache EXCEPT ![d] = Empty]
        /\ documents' = [documents EXCEPT ![d] = NoDoc]
    BY <1>9 DEF DidChangeRejected, InvalidateForUri, Forget
  <2>2. \A c \in Docs : version'[c] \in Nat /\ version[c] <= version'[c]
    BY <2>1 DEF TypeOK
  <2>3. \A c \in Docs : cache'[c]["tokens"] \in {cache[c]["tokens"], NoEntry}
    BY <2>1 DEF TypeOK, Empty, Kinds
  <2>4. \A c \in Docs : documents'[c] \in {documents[c], NoDoc}
    BY <2>1 DEF TypeOK
  <2> QED
    BY <2>1, <2>2, <2>3, <2>4, NamesVanish
<1>10. ASSUME NEW d \in Docs, NEW source, CodeAction(d, source)
       PROVE  OneTextPerVersion'
  <2>1. /\ UNCHANGED <<opened, version, handlers, documents>>
        /\ \A c \in Docs : cache'[c]["tokens"] = cache[c]["tokens"]
    BY <1>10 DEF CodeAction, Lookup, client, TypeOK, Kinds
  <2> QED
    BY <2>1, NamesVanish DEF TypeOK
<1>11. ASSUME UNCHANGED <<opened, version, handlers, documents, cache>>
       PROVE  OneTextPerVersion'
  BY <1>11, NamesVanish DEF TypeOK
<1>12. ASSUME NEW h \in Handlers, Notification(h) \/ Continuation(h)
       PROVE  OneTextPerVersion'
  BY <1>12, <1>1, <1>2, <1>3, <1>4, <1>5, <1>6, <1>7, <1>8, NamesSave
  DEF Notification, Continuation
<1>13. ASSUME NEW d \in Docs, DidChangeRejected(d) \/ TypingPauses(d) \/ Request(d)
       PROVE  OneTextPerVersion'
  BY <1>13, <1>9, <1>10, <1>11, NamesTokens DEF TypingPauses, client, Request
<1>14. CASE SaveManifest \/ UNCHANGED vars
  BY <1>14, <1>11 DEF SaveManifest, client, vars
<1> QED
  BY <1>12, <1>13, <1>14 DEF Next

\* semantic_tokens_full serves from the cache only tokens of the text the server
\* holds: not after a close and a reopen that starts the versions again, not
\* after a rejected edit, not after a late analysis stored its text again.
THEOREM ServedTokensAreStored == Spec => []ServedTextIsStored
<1>1. Init => CacheTypeInv /\ OneTextPerVersion
  BY CacheTypeInit DEF Init, OneTextPerVersion
<1>2. CacheTypeInv /\ OneTextPerVersion /\ [Next]_vars => CacheTypeInv' /\ OneTextPerVersion'
  BY CacheTypeStep, NamesStep DEF CacheTypeInv
<1>3. CacheTypeInv /\ OneTextPerVersion => ServedTextIsStored
  BY OneTextServed DEF CacheTypeInv
<1> QED
  BY <1>1, <1>2, <1>3, PTL DEF Spec

-----------------------------------------------------------------------------
(***************************************************************************)
(* Cached code actions follow a republish (with the push transport; with   *)
(* the pull transport nothing is published and no epoch moves).  A publish *)
(* moves the epoch beyond the tag of every cached set, so none is served.  *)
(* A republish that finds the document changed since it copied it does not *)
(* publish; then what is cached was computed after the copy was made.      *)
(***************************************************************************)
Actions(d) == cache[d]["actions"]

Follows(d, state) ==
  IsHit(Actions(d), epoch[d]) => Actions(d).result.project >= state

EpochsAhead == \A d \in opened : Actions(d).tag <= epoch[d]

StatesPast ==
  /\ \A d \in Docs : republished[d] <= project
  /\ \A h \in Handlers :
       handlers[h].pc \in {"refresh", "republish"} => handlers[h].about <= project

RepublishedFollow == \A d \in opened : Follows(d, republished[d])

ToRepublishFollow ==
  \A h \in Handlers : handlers[h].pc = "republish" =>
    \A d \in handlers[h].todo : d \in opened =>
      Follows(d, handlers[h].about) \/ CurrentVersion(d) <= handlers[h].snapshot[d].version

EpochInv == EpochsAhead /\ StatesPast /\ RepublishedFollow /\ ToRepublishFollow

\* A step leaves a document's actions alone, or what it leaves to be served is
\* of the present.
Kept(d) ==
  /\ d \in opened /\ epoch'[d] = epoch[d] /\ documents'[d] = documents[d]
  /\ cache'[d]["actions"] = cache[d]["actions"]
Renewed(d) ==
  /\ cache'[d]["actions"].tag <= epoch'[d]
  /\ IsHit(cache'[d]["actions"], epoch'[d]) => cache'[d]["actions"].result.project >= project'

\* The types the comparisons need.
LEMMA ActionsType ==
  ASSUME TypeOK, NEW d \in Docs
  PROVE  /\ Actions(d) \in Entries /\ Actions(d).result \in Results
         /\ Actions(d).tag \in Int /\ Actions(d).result.project \in Nat
         /\ epoch[d] \in Nat /\ republished[d] \in Nat /\ project \in Nat
<1>1. Actions(d) \in Entries
  BY DEF Actions, TypeOK, Kinds
<1>2. Actions(d).result \in Results
  BY <1>1, ResultOfEntry
<1>3. Actions(d).tag \in Int
  BY <1>1 DEF Entries, NoEntry, Entry
<1> QED
  BY <1>1, <1>2, <1>3, QueryCachesAssumption DEF Results, States, TypeOK

\* Steps other than a republish.
LEMMA EpochFrame ==
  ASSUME TypeOK, TypeOK', EpochInv, project' >= project, republished' = republished,
         opened' \subseteq Docs,
         \A d \in opened' : Kept(d) \/ Renewed(d),
         \A g \in Handlers :
           \/ handlers'[g] = handlers[g]
           \/ handlers'[g].pc \notin {"refresh", "republish"}
           \/ handlers'[g].pc = "refresh" /\ handlers'[g].about = project'
  PROVE  EpochInv'
<1>0. project \in Nat /\ project' \in Nat
  BY QueryCachesAssumption DEF TypeOK, States
<1>1. EpochsAhead'
  BY DEF EpochInv, EpochsAhead, Kept, Renewed, Actions
<1>2. StatesPast'
  <2>1. \A d \in Docs : republished'[d] <= project'
    BY <1>0, ActionsType DEF EpochInv, StatesPast
  <2>2. ASSUME NEW g \in Handlers, handlers'[g].pc \in {"refresh", "republish"}
        PROVE  handlers'[g].about <= project'
    <3>1. CASE handlers'[g] = handlers[g]
      <4>1. handlers[g].about \in States /\ handlers[g].about <= project
        BY <2>2, <3>1, HandlerFields DEF EpochInv, StatesPast
      <4> QED
        BY <1>0, <3>1, <4>1, QueryCachesAssumption DEF States
    <3> QED
      BY <1>0, <2>2, <3>1
  <2> QED
    BY <2>1, <2>2 DEF StatesPast
\* What is left to be served follows whatever it followed, and the present.
<1>3. ASSUME NEW d \in opened', NEW s \in Nat, s <= project', Renewed(d)
      PROVE  Follows(d, s)'
  <2>1. cache'[d]["actions"].result.project \in Nat
    <3>1. cache'[d]["actions"] \in Entries
      BY DEF TypeOK, Kinds
    <3>2. cache'[d]["actions"].result \in Results
      BY <3>1, ResultOfEntry
    <3> QED
      BY <3>2, QueryCachesAssumption DEF Results, States
  <2> QED
    BY <1>0, <1>3, <2>1 DEF Follows, Renewed, Actions
<1>4. ASSUME NEW d \in opened', NEW s, Kept(d)
      PROVE  d \in opened /\ (Follows(d, s)' <=> Follows(d, s)) /\ CurrentVersion(d)' = CurrentVersion(d)
  BY <1>4 DEF Follows, Kept, Actions, CurrentVersion
<1>5. RepublishedFollow'
  <2> SUFFICES ASSUME NEW d \in opened'
               PROVE  Follows(d, republished[d])'
    BY DEF RepublishedFollow
  <2>1. republished[d] \in Nat /\ republished'[d] = republished[d] /\ republished[d] <= project'
    BY <1>0, <1>2, ActionsType DEF StatesPast
  <2>2. CASE Renewed(d)
    BY <1>3, <2>1, <2>2 DEF Follows
  <2>3. CASE Kept(d)
    BY <1>4, <2>1, <2>3 DEF EpochInv, RepublishedFollow, Follows
  <2> QED
    BY <2>2, <2>3
<1>6. ToRepublishFollow'
  <2> SUFFICES ASSUME NEW g \in Handlers, handlers'[g].pc = "republish",
                      NEW d \in handlers'[g].todo, d \in opened'
               PROVE  \/ Follows(d, handlers[g].about)'
                      \/ CurrentVersion(d)' <= handlers'[g].snapshot[d].version
    BY DEF ToRepublishFollow
  <2>1. handlers'[g] = handlers[g]
    OBVIOUS
  <2>2. handlers[g].about \in Nat /\ handlers[g].about <= project'
    BY <1>2, <2>1, HandlerFields, QueryCachesAssumption DEF StatesPast, States
  <2>3. CASE Renewed(d)
    BY <1>3, <2>1, <2>2, <2>3 DEF Follows
  <2>4. CASE Kept(d)
    BY <1>4, <2>1, <2>4 DEF EpochInv, ToRepublishFollow, Follows
  <2> QED
    BY <2>3, <2>4
<1> QED
  BY <1>1, <1>2, <1>5, <1>6 DEF EpochInv

\* A republish.
LEMMA EpochRepublish ==
  ASSUME Transport = "push", TypeOK, TypeOK', EpochInv, NEW h \in Handlers,
         handlers[h].pc \in {"refresh", "republish"},
         NEW todo \in SUBSET Docs, NEW batch \in SUBSET todo, NEW snapshot \in [Docs -> DocRecord],
         Republish(h, batch, snapshot, todo),
         \A d \in todo : d \in opened =>
           Follows(d, handlers[h].about) \/ CurrentVersion(d) <= snapshot[d].version
  PROVE  EpochInv'
<1> DEFINE about == handlers[h].about
           published == {d \in batch : Publishes(d, snapshot[d].version)}
<1>1. /\ UNCHANGED <<opened, documents, project>>
      /\ epoch' = [d \in Docs |-> IF d \in published THEN NextEpoch(d) ELSE epoch[d]]
      /\ republished' = [d \in Docs |-> IF d \in batch THEN about ELSE republished[d]]
  BY DEF Republish, client, world
<1>2. \A d \in Docs : cache'[d]["actions"] = cache[d]["actions"]
  <2>1. \A d \in Docs : CacheAfterAnalysis(d, snapshot[d].text)["actions"] = cache[d]["actions"]
    <3> TAKE d \in Docs
    <3>1. cache[d] \in [Kinds -> Entries] /\ "actions" \in Kinds
      BY DEF TypeOK, Kinds
    <3> QED
      BY <3>1 DEF CacheAfterAnalysis
  <2> QED
    BY <2>1 DEF Republish
<1>3. \A d \in Docs : /\ CurrentVersion(d) \in Nat /\ CurrentVersion(d)' = CurrentVersion(d)
                      /\ snapshot[d].version \in Int
  BY <1>1, CurrentVersionType DEF CurrentVersion, DocRecord, NoDoc, Doc
<1>4. opened \subseteq Docs /\ about \in Nat /\ about <= project /\ project \in Nat
  BY HandlerFields, QueryCachesAssumption DEF TypeOK, EpochInv, StatesPast, States
<1>5. \A g \in Handlers :
        \/ handlers'[g] = handlers[g] /\ g # h
        \/ g = h /\ handlers'[g].pc = "free"
        \/ g = h /\ handlers'[g] = [pc |-> "republish", about |-> about,
                                    snapshot |-> snapshot, todo |-> todo \ batch]
  BY DEF Republish, Goto, Free, TypeOK
<1>6. ASSUME NEW d \in opened, d \in published, NEW s
      PROVE  Follows(d, s)' /\ Actions(d)'.tag <= epoch'[d]
  <2>1. epoch'[d] = epoch[d] + 1 /\ epoch[d] \in Nat /\ cache'[d]["actions"] = cache[d]["actions"]
    BY <1>1, <1>2, <1>4, <1>6 DEF NextEpoch, TypeOK
  <2>2. cache[d]["actions"].tag \in Int /\ cache[d]["actions"].tag <= epoch[d]
    BY <1>4, ActionsType DEF EpochInv, EpochsAhead, Actions
  <2>3. cache'[d]["actions"].tag < epoch'[d]
    BY <2>1, <2>2
  <2> QED
    BY <2>1, <2>2, <2>3 DEF Follows, Actions, IsHit
<1>7. ASSUME NEW d \in opened, d \notin published
      PROVE  /\ \A s : Follows(d, s)' <=> Follows(d, s)
             /\ Actions(d)' = Actions(d) /\ epoch'[d] = epoch[d]
             /\ d \in batch => Follows(d, about)
  <2>1. epoch'[d] = epoch[d] /\ cache'[d]["actions"] = cache[d]["actions"] /\ d \in Docs
    BY <1>1, <1>2, <1>4, <1>7
  <2>2. d \in batch => CurrentVersion(d) > snapshot[d].version
    BY <1>7 DEF Publishes, Stale
  <2>3. d \in batch => Follows(d, about)
    BY <1>3, <2>1, <2>2
  <2> QED
    BY <2>1, <2>3 DEF Follows, Actions
<1> HIDE DEF published
<1>8. EpochsAhead'
  BY <1>1, <1>6, <1>7 DEF EpochInv, EpochsAhead
<1>9. StatesPast'
  <2>1. \A d \in Docs : republished'[d] <= project'
    BY <1>1, <1>4 DEF EpochInv, StatesPast
  <2>2. \A g \in Handlers : handlers'[g].pc \in {"refresh", "republish"} => handlers'[g].about <= project'
    BY <1>1, <1>4, <1>5 DEF EpochInv, StatesPast
  <2> QED
    BY <2>1, <2>2 DEF StatesPast
<1>10. RepublishedFollow'
  <2> SUFFICES ASSUME NEW d \in opened
               PROVE  Follows(d, republished[d])'
    BY <1>1 DEF RepublishedFollow
  <2>1. CASE d \in published
    BY <1>6, <2>1
  <2>2. CASE d \notin published
    BY <1>1, <1>4, <1>7, <2>2 DEF EpochInv, RepublishedFollow, Follows
  <2> QED
    BY <2>1, <2>2
<1>11. ToRepublishFollow'
  <2> SUFFICES ASSUME NEW g \in Handlers, handlers'[g].pc = "republish",
                      NEW d \in handlers'[g].todo, d \in opened
               PROVE  \/ Follows(d, handlers[g].about)'
                      \/ CurrentVersion(d)' <= handlers'[g].snapshot[d].version
    BY <1>1 DEF ToRepublishFollow
  <2>1. CASE d \in published
    BY <1>6, <2>1
  <2>2. CASE d \notin published /\ g # h
    <3>1. handlers'[g] = handlers[g]
      BY <1>5, <2>2
    <3> QED
      BY <1>3, <1>4, <1>7, <2>2, <3>1 DEF EpochInv, ToRepublishFollow, Follows
  <2>3. CASE d \notin published /\ g = h
    <3>1. handlers'[g].about = about /\ handlers'[g].snapshot = snapshot /\ d \in todo
      BY <1>5, <2>3
    <3> QED
      BY <1>3, <1>4, <1>7, <2>3, <3>1 DEF Follows
  <2> QED
    BY <2>1, <2>2, <2>3
<1> QED
  BY <1>8, <1>9, <1>10, <1>11 DEF EpochInv

\* Every step keeps the invariant.
LEMMA EpochStep ==
  ASSUME Transport = "push", CacheTypeInv, EpochInv, [Next]_vars
  PROVE  EpochInv'
<1>0. TypeOK /\ TypeOK' /\ SnapshotsStored /\ project \in Nat /\ opened \subseteq Docs /\ opened' \subseteq Docs
  BY CacheTypeStep, QueryCachesAssumption DEF CacheTypeInv, TypeOK, States
\* Steps that change neither actions nor epochs nor what is republished.
<1>1. ASSUME UNCHANGED <<opened, epoch, documents, republished>>, project' >= project,
             \A d \in Docs : cache'[d]["actions"] = cache[d]["actions"],
             \A g \in Handlers :
               \/ handlers'[g] = handlers[g]
               \/ handlers'[g].pc \notin {"refresh", "republish"}
               \/ handlers'[g].pc = "refresh" /\ handlers'[g].about = project'
      PROVE  EpochInv'
  <2>1. \A d \in opened' : Kept(d)
    BY <1>0, <1>1 DEF Kept
  <2> QED
    BY <1>0, <1>1, <2>1, EpochFrame
\* An emptied cache serves nothing.
<1>2. ASSUME NEW d \in Docs, InvalidateForUri(d)
      PROVE  Renewed(d) /\ \A c \in Docs \ {d} : cache'[c] = cache[c]
  <2>1. cache'[d]["actions"] = NoEntry /\ NoEntry.tag = -1
    BY <1>2 DEF InvalidateForUri, TypeOK, CacheTypeInv, Empty, Kinds, NoEntry, Entry
  <2>2. epoch'[d] \in Nat
    BY <1>0 DEF TypeOK
  <2>3. Renewed(d)
    BY <2>1, <2>2 DEF Renewed, IsHit
  <2> QED
    BY <1>2, <2>3 DEF InvalidateForUri, TypeOK, CacheTypeInv
<1>3. ASSUME NEW h \in Handlers, NEW d \in Docs, DidOpen(h, d) \/ DidChange(h, d)
      PROVE  EpochInv'
  <2>1. PICK v, typed : HandleDocumentUpdate(h, d, v, typed)
    BY <1>3 DEF DidOpen, DidChange
  <2>2. InvalidateForUri(d) /\ UNCHANGED <<project, epoch, republished>>
    BY <2>1 DEF HandleDocumentUpdate, world
  <2>3. opened' \subseteq opened \cup {d}
    BY <1>3 DEF DidOpen, DidChange
  <2>4. \A c \in Docs \ {d} : documents'[c] = documents[c]
    BY <1>0, <2>1 DEF HandleDocumentUpdate, TypeOK
  <2>5. \A c \in opened' : Kept(c) \/ Renewed(c)
    BY <1>0, <1>2, <2>2, <2>3, <2>4 DEF Kept
  <2>6. \A g \in Handlers : handlers'[g] = handlers[g] \/ handlers'[g].pc = "hot"
    BY <1>0, <2>1 DEF HandleDocumentUpdate, Goto, TypeOK
  <2> QED
    BY <1>0, <2>2, <2>5, <2>6, EpochFrame
<1>4. ASSUME NEW h \in Handlers, NEW d \in Docs, DidSave(h, d)
      PROVE  EpochInv'
  <2>1. \A g \in Handlers : handlers'[g] = handlers[g] \/ handlers'[g].pc = "save"
    BY <1>0, <1>4 DEF DidSave, Goto, TypeOK
  <2> QED
    BY <1>0, <1>1, <1>4, <2>1 DEF DidSave, client, world
<1>5. ASSUME NEW h \in Handlers, NEW d \in Docs, DidClose(h, d)
      PROVE  EpochInv'
  <2>1. \A g \in Handlers : handlers'[g] = handlers[g] \/ handlers'[g].pc = "close"
    BY <1>0, <1>5 DEF DidClose, Goto, TypeOK
  <2>2. \A c \in opened' : Kept(c)
    BY <1>0, <1>5 DEF DidClose, Forget, Kept, TypeOK
  <2> QED
    BY <1>0, <1>5, <2>1, <2>2, EpochFrame DEF DidClose, world
<1>6. ASSUME NEW h \in Handlers, DidChangeWatchedFiles(h) \/ DidChangeConfiguration(h)
      PROVE  EpochInv'
  <2>1. Refresh(h) /\ project' >= project
    BY <1>0, <1>6 DEF DidChangeWatchedFiles, DidChangeConfiguration
  <2>2. \A g \in Handlers :
          \/ handlers'[g] = handlers[g]
          \/ handlers'[g].pc = "refresh" /\ handlers'[g].about = project'
    BY <1>0, <2>1 DEF Refresh, Goto, TypeOK
  <2> QED
    BY <1>1, <2>1, <2>2 DEF Refresh, client
<1>7. ASSUME NEW h \in Handlers, HotDone(h) \/ SaveDone(h)
      PROVE  EpochInv'
  <2>1. PICK d \in Docs : d = handlers[h].doc /\ \E result : StoreAndPublish(h, d, result)
    <3>1. handlers[h].doc \in Docs
      BY <1>0, <1>7, HandlerFields DEF HotDone, SaveDone
    <3> QED
      BY <1>7, <3>1 DEF HotDone, SaveDone
  <2>2. /\ UNCHANGED <<opened, project, cache, republished>>
        /\ \A g \in Handlers : handlers'[g] = handlers[g] \/ handlers'[g].pc = "free"
    BY <1>0, <2>1 DEF StoreAndPublish, client, world, Goto, Free, TypeOK
  <2>3. CASE UNCHANGED <<documents, epoch>>
    BY <1>0, <1>1, <2>2, <2>3
  <2>4. CASE ~UNCHANGED <<documents, epoch>>
    <3>1. /\ ~Stale(d, handlers[h].version) /\ \E result : Publish(d, handlers[h].version, result)
          /\ documents' = [documents EXCEPT ![d] = Doc(handlers[h].text, handlers[h].version)]
      BY <2>1, <2>4 DEF StoreAndPublish
    <3>2. epoch' = [epoch EXCEPT ![d] = epoch[d] + 1]
      BY <3>1 DEF Publish, Publishes, NextEpoch
    <3>3. d \in opened => Renewed(d)
      <4> SUFFICES ASSUME d \in opened
                   PROVE  Renewed(d)
        OBVIOUS
      <4>1. cache[d]["actions"].tag <= epoch[d] /\ cache[d]["actions"].tag \in Int /\ epoch[d] \in Nat
        BY <1>0, ActionsType DEF EpochInv, EpochsAhead, Actions
      <4>2. epoch'[d] = epoch[d] + 1 /\ cache'[d]["actions"] = cache[d]["actions"]
        BY <1>0, <2>2, <3>2 DEF TypeOK
      <4>3. cache'[d]["actions"].tag < epoch'[d] /\ cache'[d]["actions"].tag <= epoch'[d]
        BY <4>1, <4>2
      <4> QED
        BY <4>1, <4>2, <4>3 DEF Renewed, IsHit
    <3>4. \A c \in opened \ {d} : Kept(c)
      BY <1>0, <2>2, <3>1, <3>2 DEF Kept, TypeOK
    <3> QED
      BY <1>0, <2>2, <3>3, <3>4, EpochFrame
  <2> QED
    BY <2>3, <2>4
<1>8. ASSUME NEW h \in Handlers, CloseDone(h)
      PROVE  EpochInv'
  <2>1. \A g \in Handlers : handlers'[g] = handlers[g] \/ handlers'[g].pc = "free"
    BY <1>0, <1>8 DEF CloseDone, Goto, Free, TypeOK
  <2> QED
    BY <1>0, <1>1, <1>8, <2>1 DEF CloseDone, client, world
<1>9. ASSUME NEW h \in Handlers, RefreshDone(h)
      PROVE  EpochInv'
  <2>1. CASE Goto(h, Free) /\ UNCHANGED <<client, world, documents, cache, epoch, republished>>
    <3>1. \A g \in Handlers : handlers'[g] = handlers[g] \/ handlers'[g].pc = "free"
      BY <1>0, <2>1 DEF Goto, Free, TypeOK
    <3> QED
      BY <1>0, <1>1, <2>1, <3>1 DEF client, world
  <2>2. ASSUME NEW batch \in Batches(Stored), Republish(h, batch, documents, Stored)
        PROVE  EpochInv'
    <3>1. Stored \in SUBSET Docs /\ batch \in SUBSET Stored /\ documents \in [Docs -> DocRecord]
      BY <1>0, BatchPart DEF Stored, TypeOK
    <3>2. \A d \in Stored : CurrentVersion(d) <= documents[d].version
      BY <1>0, CurrentVersionType DEF Stored, CurrentVersion
    <3>3. handlers[h].pc = "refresh"
      BY <1>9 DEF RefreshDone
    <3> QED
      BY <1>0, <2>2, <3>1, <3>2, <3>3, EpochRepublish
  <2> QED
    BY <1>9, <2>1, <2>2 DEF RefreshDone
<1>10. ASSUME NEW h \in Handlers, RepublishNext(h)
       PROVE  EpochInv'
  <2>1. handlers[h].pc = "republish"
    BY <1>10 DEF RepublishNext
  <2>2. handlers[h].snapshot \in [Docs -> DocRecord] /\ handlers[h].todo \in SUBSET Docs
    BY <1>0, <2>1, HandlerFields
  <2>3. PICK batch \in SUBSET handlers[h].todo :
          Republish(h, batch, handlers[h].snapshot, handlers[h].todo)
    BY <1>10, <2>2, BatchPart DEF RepublishNext
  <2>4. \A d \in handlers[h].todo : d \in opened =>
          \/ Follows(d, handlers[h].about)
          \/ CurrentVersion(d) <= handlers[h].snapshot[d].version
    BY <2>1 DEF EpochInv, ToRepublishFollow
  <2> QED
    BY <1>0, <2>1, <2>2, <2>3, <2>4, EpochRepublish
<1>11. ASSUME NEW d \in Docs, DidChangeRejected(d)
       PROVE  EpochInv'
  <2>1. InvalidateForUri(d) /\ UNCHANGED <<opened, project, republished, handlers>>
    BY <1>11 DEF DidChangeRejected, world
  <2>2. \A c \in opened \ {d} : documents'[c] = documents[c] /\ epoch'[c] = epoch[c]
    BY <1>0, <1>11 DEF DidChangeRejected, Forget, TypeOK
  <2>3. \A c \in opened' : Kept(c) \/ Renewed(c)
    BY <1>0, <1>2, <2>1, <2>2 DEF Kept
  <2> QED
    BY <1>0, <2>1, <2>3, EpochFrame
<1>12. ASSUME NEW d \in Docs, NEW whole \in BOOLEAN, SemanticTokens(d, whole)
       PROVE  EpochInv'
  <2>1. \A c \in Docs : cache'[c]["actions"] = cache[c]["actions"]
    BY <1>0, <1>12 DEF SemanticTokens, Lookup, TypeOK, Kinds
  <2> QED
    BY <1>0, <1>1, <1>12, <2>1 DEF SemanticTokens, Lookup, client, world
<1>13. ASSUME NEW d \in Docs, NEW source \in BOOLEAN, CodeAction(d, source)
       PROVE  EpochInv'
  <2>1. UNCHANGED <<opened, project, documents, epoch, republished, handlers>>
    BY <1>13 DEF CodeAction, Lookup, client, world
  <2>2. CASE UNCHANGED cache
    BY <1>0, <1>1, <2>1, <2>2
  <2>3. CASE ~UNCHANGED cache
    <3> DEFINE e == Entry(epoch[d], Result(documents[d].text, project, source))
    <3>1. cache' = [cache EXCEPT ![d]["actions"] = e]
      BY <1>13, <2>3 DEF CodeAction, Lookup
    <3>2. cache'[d]["actions"] = e /\ \A c \in Docs \ {d} : cache'[c] = cache[c]
      BY <1>0, <3>1 DEF TypeOK, Kinds
    <3>3. e.tag = epoch[d] /\ e.result.project = project
      BY DEF Entry, Result
    <3> HIDE DEF e
    <3>4. Renewed(d)
      BY <1>0, <2>1, <3>2, <3>3 DEF Renewed, TypeOK
    <3>5. \A c \in opened' : Kept(c) \/ Renewed(c)
      BY <1>0, <2>1, <3>2, <3>4 DEF Kept
    <3> QED
      BY <1>0, <2>1, <3>5, EpochFrame
  <2> QED
    BY <2>2, <2>3
<1>14. ASSUME NEW d \in Docs, TypingPauses(d)
       PROVE  EpochInv'
  BY <1>0, <1>1, <1>14 DEF TypingPauses, client, world
<1>15. CASE SaveManifest \/ UNCHANGED vars
  BY <1>0, <1>1, <1>15 DEF SaveManifest, vars, client, world
<1>16. ASSUME NEW h \in Handlers, Notification(h) \/ Continuation(h)
       PROVE  EpochInv'
  BY <1>16, <1>3, <1>4, <1>5, <1>6, <1>7, <1>8, <1>9, <1>10 DEF Notification, Continuation
<1>17. ASSUME NEW d \in Docs, DidChangeRejected(d) \/ TypingPauses(d) \/ Request(d)
       PROVE  EpochInv'
  BY <1>17, <1>11, <1>12, <1>13, <1>14 DEF Request
<1> QED
  BY <1>15, <1>16, <1>17 DEF Next

\* Nothing is cached, and nothing was republished, in the beginning.
LEMMA EpochInit == Init => EpochInv
<1> SUFFICES ASSUME Init
             PROVE  EpochInv
  OBVIOUS
<1>1. opened = {} /\ project = 0 /\ \A d \in Docs : republished[d] = 0
  BY DEF Init
<1>2. \A h \in Handlers : handlers[h].pc = "free"
  BY DEF Init, Free
<1> QED
  BY <1>1, <1>2 DEF EpochInv, EpochsAhead, StatesPast, RepublishedFollow, ToRepublishFollow

\* With the push transport the code actions served from the cache are never
\* older than the state of the project the document was last republished for,
\* whatever edits, closes, reopenings and late analyses come between the steps
\* of a republish (code_actions.rs, the epoch of publish_analysis).
THEOREM ServedActionsFollow ==
  ASSUME Transport = "push"
  PROVE  Spec => []ActionsFollowRepublish
<1>1. Init => CacheTypeInv /\ EpochInv
  BY CacheTypeInit, EpochInit
<1>2. CacheTypeInv /\ EpochInv /\ [Next]_vars => CacheTypeInv' /\ EpochInv'
  BY CacheTypeStep, EpochStep
<1>3. EpochInv => ActionsFollowRepublish
  BY DEF EpochInv, RepublishedFollow, Follows, Actions, ActionsFollowRepublish
<1> QED
  BY <1>1, <1>2, <1>3, PTL DEF Spec
=============================================================================
