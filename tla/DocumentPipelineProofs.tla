---------------------- MODULE DocumentPipelineProofs -----------------------
(***************************************************************************)
(* Proofs about DocumentPipeline for every number of handlers, of edits    *)
(* and of channel slots: the types, that the stored text stays the         *)
(* editor's, that the hot and the save lane end with the diagnostics of    *)
(* the last text, and that without the idle lane these never go back.      *)
(***************************************************************************)
EXTENDS DocumentPipeline, TLAPS

-----------------------------------------------------------------------------
(***************************************************************************)
(* The steps of a worker keep its record well formed.                      *)
(***************************************************************************)

\* A command sent to a worker leaves a well-formed record, alive or dead.
LEMMA AcceptType ==
  ASSUME NEW w \in WorkerRecord, NEW cmd \in CommandRecord
  PROVE  Accept(w, cmd) \in WorkerRecord
BY DEF Accept, WorkerRecord

\* Receiving a command leaves a pending task, or none.
LEMMA ReceiveType ==
  ASSUME NEW w \in WorkerRecord, w.chan # <<>>
  PROVE  Receive(w) \in WorkerRecord
<1> DEFINE cmd == Head(w.chan)
<1>1. cmd \in CommandRecord /\ Tail(w.chan) \in Seq(CommandRecord)
  BY DEF WorkerRecord
<1>2. cmd.op = "schedule" => cmd.task \in TaskRecord
  BY <1>1 DEF CommandRecord
<1> QED
  BY <1>1, <1>2 DEF Receive, WorkerRecord

\* Starting, finishing and dying move the pending task or drop it.
LEMMA WorkerStepType ==
  ASSUME NEW w \in WorkerRecord
  PROVE  Start(w) \in WorkerRecord /\ Finish(w) \in WorkerRecord
           /\ Die(w) \in WorkerRecord
<1>1. Start(w) \in WorkerRecord
  BY DEF Start, WorkerRecord
<1>2. Finish(w) \in WorkerRecord
  BY DEF Finish, WorkerRecord
<1>3. Die(w) \in WorkerRecord
  BY DEF Die, WorkerRecord
<1> QED
  BY <1>1, <1>2, <1>3

\* A new worker that has accepted its first command is well formed.
LEMMA NewWorkerType == NewWorker \in WorkerRecord
BY DEF NewWorker, WorkerRecord

\* What a handler sends is a command.
LEMMA CommandType ==
  ASSUME NEW h \in Handlers, NEW w, NEW task \in TaskRecord
  PROVE  /\ Command(h, w, "cancel", NoTask) \in CommandRecord
         /\ Command(h, w, "schedule", task) \in CommandRecord
BY DEF Command, CommandRecord

-----------------------------------------------------------------------------
\* The texts, handlers and publishes the actions build are of their types.
LEMMA TextType ==
  ASSUME NEW n \in 0..MaxEdits, NEW b \in BOOLEAN
  PROVE  Text(n, b) \in Texts
BY DEF Text, Texts

\* So are the states a handler goes to.
LEMMA HandlerType ==
  /\ \A pc \in {"hot", "cold", "saving", "save"}, kind \in {"open", "change", "save"},
       text \in Texts, version \in Nat :
       Handler(pc, kind, text, version) \in HandlerRecord
  /\ Free \in HandlerRecord
  /\ \A pc \in {"rejecting", "sent", "closing", "refresh"} : Parked(pc) \in HandlerRecord
BY DEF Handler, Free, Parked, HandlerRecord

\* The version a missing document reads as is 0.
LEMMA CurrentVersionType ==
  ASSUME TypeOK
  PROVE  CurrentVersion \in Nat
<1>1. CASE documents = NoDoc
  BY <1>1 DEF CurrentVersion
<1>2. CASE documents # NoDoc
  BY <1>2 DEF CurrentVersion, TypeOK
<1> QED
  BY <1>1, <1>2

\* Sending to a worker keeps the workers well formed and their number.
LEMMA SendType ==
  ASSUME TypeOK, NEW h \in Handlers, NEW w \in 1..Len(workers),
         NEW op, NEW task, Command(h, w, op, task) \in CommandRecord,
         Send(h, w, op, task)
  PROVE  workers' \in Seq(WorkerRecord) /\ Len(workers') = Len(workers)
<1>1. workers[w] \in WorkerRecord
  BY DEF TypeOK
<1>2. Accept(workers[w], Command(h, w, op, task)) \in WorkerRecord
  BY <1>1, AcceptType
<1> QED
  BY <1>2 DEF Send, TypeOK

\* So does a cancel, whether or not there is a debouncer.
LEMMA SendCancelType ==
  ASSUME TypeOK, NEW h \in Handlers, SendCancel(h)
  PROVE  workers' \in Seq(WorkerRecord) /\ Len(workers') = Len(workers)
<1>1. CASE debouncer = 0
  BY <1>1 DEF SendCancel, TypeOK
<1>2. CASE debouncer # 0
  <2>1. debouncer \in 1..Len(workers)
    BY <1>2 DEF TypeOK
  <2>2. Command(h, debouncer, "cancel", NoTask) \in CommandRecord
    BY DEF Command, CommandRecord
  <2>3. Send(h, debouncer, "cancel", NoTask)
    BY <1>2 DEF SendCancel
  <2> QED
    BY <2>1, <2>2, <2>3, SendType
<1> QED
  BY <1>1, <1>2

\* A worker's own steps keep the workers well formed and their number.
LEMMA SetWorkerType ==
  ASSUME TypeOK, NEW w \in 1..Len(workers), NEW to \in WorkerRecord, SetWorker(w, to)
  PROVE  workers' \in Seq(WorkerRecord) /\ Len(workers') = Len(workers)
BY DEF SetWorker, TypeOK

\* Moving a handler to a well-formed state keeps all handlers well formed.
LEMMA GotoType ==
  ASSUME TypeOK, NEW h \in Handlers, NEW next \in HandlerRecord, Goto(h, next)
  PROVE  handlers' \in [Handlers -> HandlerRecord]
BY DEF Goto, TypeOK

\* Publishing a text in one of the lanes is well typed.
LEMMA PublishType ==
  ASSUME TypeOK, NEW text \in Texts, NEW lane \in {"hot", "idle", "save"},
         Publish(text, lane) \/ UNCHANGED <<epoch, shown>>
  PROVE  epoch' \in BOOLEAN
           /\ shown' \in [text : Texts, lane : {"none", "hot", "idle", "save"}]
<1>1. \/ epoch' = TRUE /\ shown' = Shown(text, lane)
      \/ epoch' = epoch /\ shown' = shown
  BY DEF Publish
<1>2. epoch' \in BOOLEAN
  BY <1>1 DEF TypeOK
<1>3. Shown(text, lane) \in [text : Texts, lane : {"none", "hot", "idle", "save"}]
  BY DEF Shown
<1> QED
  BY <1>1, <1>2, <1>3 DEF TypeOK

\* So is publishing an empty list.
LEMMA PublishEmptyType ==
  ASSUME TypeOK, PublishEmpty
  PROVE  shown' \in [text : Texts, lane : {"none", "hot", "idle", "save"}]
BY PipelineAssumption DEF PublishEmpty, Clear, Shown, Text, Texts, TypeOK

\* So is what the end of an analysis stores and publishes, stale or not.
LEMMA StoreAndPublishType ==
  ASSUME TypeOK, NEW text \in Texts, NEW version \in Nat, NEW lane \in {"hot", "save"},
         StoreAndPublish(text, version, lane)
  PROVE  /\ documents' \in [text : Texts, version : Nat] \cup {NoDoc}
         /\ epoch' \in BOOLEAN
         /\ shown' \in [text : Texts, lane : {"none", "hot", "idle", "save"}]
<1>1. Publish(text, lane) \/ UNCHANGED <<epoch, shown>>
  BY DEF StoreAndPublish
<1>2. Doc(text, version) \in [text : Texts, version : Nat]
  BY DEF Doc
<1> QED
  BY <1>1, <1>2, PublishType DEF StoreAndPublish, Store, TypeOK

\* A handler that carries a text carries a well-formed one.
LEMMA CarriesText ==
  ASSUME TypeOK, NEW h \in Handlers, handlers[h].pc \in {"hot", "cold", "saving", "save"}
  PROVE  /\ handlers[h].text \in Texts /\ handlers[h].version \in Nat
         /\ handlers[h].kind \in {"open", "change", "save"}
         /\ \A pc \in {"hot", "cold", "saving", "save"} :
              [handlers[h] EXCEPT !.pc = pc] \in HandlerRecord
<1>1. handlers[h] \in [pc : {"hot", "cold", "saving", "save"},
                       kind : {"open", "change", "save"}, text : Texts, version : Nat]
  BY DEF TypeOK, HandlerRecord
<1> QED
  BY <1>1 DEF HandlerRecord

\* Such a handler may change its pc and keeps its text and version.
LEMMA CarriesRecord ==
  ASSUME TypeOK, NEW h \in Handlers, handlers[h].pc \in {"hot", "cold", "saving", "save"},
         NEW pc
  PROVE  /\ [handlers[h] EXCEPT !.pc = pc].pc = pc
         /\ [handlers[h] EXCEPT !.pc = pc].text = handlers[h].text
         /\ [handlers[h] EXCEPT !.pc = pc].version = handlers[h].version
<1>1. handlers[h] \in [pc : {"hot", "cold", "saving", "save"},
                       kind : {"open", "change", "save"}, text : Texts, version : Nat]
  BY DEF TypeOK, HandlerRecord
<1> QED
  BY <1>1

-----------------------------------------------------------------------------
\* Every step of the pipeline keeps the types.
LEMMA TypeStep ==
  ASSUME TypeOK, [Next]_vars
  PROVE  TypeOK'
<1> USE PipelineAssumption
<1>1. CASE UNCHANGED vars
  BY <1>1 DEF vars, client, settings, server, lanes, TypeOK
<1>2. CASE DidChangeEmpty
  <2>1. editor' \in [open : BOOLEAN, version : Nat, text : Texts]
    BY <1>2 DEF DidChangeEmpty, TypeOK
  <2> QED
    BY <1>2, <2>1 DEF DidChangeEmpty, settings, server, lanes, TypeOK
<1>3. ASSUME NEW h \in Handlers, Notification(h)
      PROVE  TypeOK'
  <2> DEFINE Update(kind, text, version) ==
        /\ HandleDocumentUpdate(h, kind, text, version)
        /\ text \in Texts /\ version \in Nat /\ kind \in {"open", "change"}
  <2>0. ASSUME NEW kind, NEW text, NEW version, Update(kind, text, version)
        PROVE  /\ documents' \in [text : Texts, version : Nat] \cup {NoDoc}
               /\ handlers' \in [Handlers -> HandlerRecord]
               /\ UNCHANGED <<cold, transport, debouncer, workers, epoch, shown>>
    <3>1. Doc(text, version) \in [text : Texts, version : Nat]
      BY <2>0 DEF Doc
    <3>2. Handler("hot", kind, text, version) \in HandlerRecord
      BY <2>0, HandlerType
    <3>3. Goto(h, Handler("hot", kind, text, version))
      BY <2>0 DEF HandleDocumentUpdate
    <3>4. handlers' \in [Handlers -> HandlerRecord]
      BY <3>2, <3>3, GotoType
    <3> QED
      BY <2>0, <3>1, <3>4 DEF HandleDocumentUpdate, Store, settings, lanes
  <2>e. ASSUME Edit
        PROVE  /\ edits' \in 0..MaxEdits /\ edits' = edits + 1
               /\ editor'.text \in Texts /\ editor'.version \in Nat
               /\ editor' \in [open : BOOLEAN, version : Nat, text : Texts]
    <3>1. edits + 1 \in 0..MaxEdits
      BY <2>e DEF Edit, TypeOK
    <3>2. Text(edits + 1, TRUE) \in Texts
      BY <3>1, TextType
    <3>3. edits' = edits + 1
          /\ editor' = [open |-> TRUE, version |-> editor.version + 1,
                        text |-> Text(edits + 1, TRUE)]
      BY <2>e DEF Edit
    <3>4. editor.version + 1 \in Nat
      BY DEF TypeOK
    <3>5. editor' \in [open : BOOLEAN, version : Nat, text : Texts]
      BY <3>2, <3>3, <3>4
    <3> QED
      BY <3>1, <3>3, <3>5
  <2>1. CASE DidOpen(h)
    <3>1. edits + 1 \in 0..MaxEdits
      BY <2>1 DEF DidOpen, TypeOK
    <3>2. Text(edits + 1, TRUE) \in Texts
      BY <3>1, TextType
    <3>3. editor' \in [open : BOOLEAN, version : Nat, text : Texts]
      BY <2>1, <3>2 DEF DidOpen
    <3>4. Update("open", editor'.text, FirstVersion)
      BY <2>1, <3>3 DEF DidOpen
    <3>5. /\ documents' \in [text : Texts, version : Nat] \cup {NoDoc}
          /\ handlers' \in [Handlers -> HandlerRecord]
          /\ UNCHANGED <<cold, transport, debouncer, workers, epoch, shown>>
      BY <3>4, <2>0
    <3>6. edits' \in 0..MaxEdits /\ lost' \in BOOLEAN
      BY <2>1, <3>1 DEF DidOpen
    <3> QED
      BY <3>3, <3>5, <3>6 DEF TypeOK
  <2>2. CASE DidChangeFull(h)
    <3>1. Update("change", editor'.text, editor'.version)
      BY <2>2, <2>e DEF DidChangeFull
    <3>2. /\ documents' \in [text : Texts, version : Nat] \cup {NoDoc}
          /\ handlers' \in [Handlers -> HandlerRecord]
          /\ UNCHANGED <<cold, transport, debouncer, workers, epoch, shown>>
      BY <3>1, <2>0
    <3>3. lost' \in BOOLEAN
      BY <2>2 DEF DidChangeFull
    <3> QED
      BY <2>2, <2>e, <3>2, <3>3 DEF DidChangeFull, TypeOK
  <2>3. CASE DidChangeIncremental(h)
    <3>1. AppliedTo(documents.text) \in Texts
      BY <2>3, <2>e, TextType DEF AppliedTo, DidChangeIncremental
    <3>2. Update("change", AppliedTo(documents.text), editor'.version)
      BY <2>3, <2>e, <3>1 DEF DidChangeIncremental
    <3>3. /\ documents' \in [text : Texts, version : Nat] \cup {NoDoc}
          /\ handlers' \in [Handlers -> HandlerRecord]
          /\ UNCHANGED <<cold, transport, debouncer, workers, epoch, shown>>
      BY <3>2, <2>0
    <3> QED
      BY <2>3, <2>e, <3>3 DEF DidChangeIncremental, TypeOK
  <2>4. CASE DidChangeRejected(h)
    <3>1. workers' \in Seq(WorkerRecord) /\ debouncer' \in 0..Len(workers')
      BY <2>4, SendCancelType DEF DidChangeRejected
    <3>2. /\ documents' \in [text : Texts, version : Nat] \cup {NoDoc}
          /\ handlers' \in [Handlers -> HandlerRecord]
          /\ epoch' \in BOOLEAN
          /\ shown' \in [text : Texts, lane : {"none", "hot", "idle", "save"}]
      <4>1. CASE CancelBlocks
        <5>1. Goto(h, Parked("rejecting")) /\ UNCHANGED <<documents, epoch, shown>>
          BY <2>4, <4>1 DEF DidChangeRejected
        <5>2. handlers' \in [Handlers -> HandlerRecord]
          BY <5>1, HandlerType, GotoType
        <5> QED
          BY <5>1, <5>2 DEF TypeOK
      <4>2. CASE ~CancelBlocks
        <5>1. RejectTail(h)
          BY <2>4, <4>2 DEF DidChangeRejected
        <5>2. handlers' \in [Handlers -> HandlerRecord]
          BY <5>1, HandlerType, GotoType DEF RejectTail
        <5> QED
          BY <5>1, <5>2, PublishEmptyType DEF RejectTail
      <4> QED
        BY <4>1, <4>2
    <3>3. lost' \in BOOLEAN
      BY <2>4 DEF DidChangeRejected
    <3> QED
      BY <2>4, <2>e, <3>1, <3>2, <3>3 DEF DidChangeRejected, settings, TypeOK
  <2>5. CASE DidSave(h)
    <3>1. workers' \in Seq(WorkerRecord) /\ Len(workers') = Len(workers)
      BY <2>5, SendCancelType DEF DidSave
    <3>2. documents.text \in Texts /\ CurrentVersion \in Nat
      BY <2>5, CurrentVersionType DEF DidSave, TypeOK
    <3>3. Handler(IF CancelBlocks THEN "saving" ELSE "save", "save",
                  documents.text, CurrentVersion) \in HandlerRecord
      BY <3>2, HandlerType
    <3>4. handlers' \in [Handlers -> HandlerRecord]
      BY <2>5, <3>3, GotoType DEF DidSave
    <3> QED
      BY <2>5, <3>1, <3>4 DEF DidSave, client, settings, TypeOK
  <2>6. CASE DidClose(h)
    <3>1. workers' \in Seq(WorkerRecord) /\ debouncer' \in 0..Len(workers')
      BY <2>6, SendCancelType DEF DidClose
    <3>2. /\ documents' \in [text : Texts, version : Nat] \cup {NoDoc}
          /\ epoch' \in BOOLEAN
          /\ Goto(h, Parked("closing")) \/ Goto(h, Parked("refresh"))
      BY <2>6 DEF DidClose, CloseTail, TypeOK
    <3>3. handlers' \in [Handlers -> HandlerRecord]
      BY <3>2, HandlerType, GotoType
    <3>4. editor' \in [open : BOOLEAN, version : Nat, text : Texts]
      BY <2>6 DEF DidClose, TypeOK
    <3> QED
      BY <2>6, <3>1, <3>2, <3>3, <3>4 DEF DidClose, settings, TypeOK
  <2> QED
    BY <1>3, <2>1, <2>2, <2>3, <2>4, <2>5, <2>6 DEF Notification
<1>4. ASSUME NEW h \in Handlers, Continuation(h)
      PROVE  TypeOK'
  <2>1. CASE HotDone(h)
    <3>1. handlers[h].text \in Texts /\ handlers[h].version \in Nat
          /\ [handlers[h] EXCEPT !.pc = "cold"] \in HandlerRecord
      BY <2>1, CarriesText DEF HotDone
    <3>2. handlers' \in [Handlers -> HandlerRecord]
      BY <2>1, <3>1, GotoType DEF HotDone
    <3>3. /\ documents' \in [text : Texts, version : Nat] \cup {NoDoc}
          /\ epoch' \in BOOLEAN
          /\ shown' \in [text : Texts, lane : {"none", "hot", "idle", "save"}]
      BY <2>1, <3>1, StoreAndPublishType DEF HotDone
    <3> QED
      BY <2>1, <3>2, <3>3 DEF HotDone, client, settings, lanes, TypeOK
  <2>2. CASE HotPanics(h)
    <3>1. [handlers[h] EXCEPT !.pc = "cold"] \in HandlerRecord
      BY <2>2, CarriesText DEF HotPanics
    <3>2. handlers' \in [Handlers -> HandlerRecord]
      BY <2>2, <3>1, GotoType DEF HotPanics
    <3> QED
      BY <2>2, <3>2 DEF HotPanics, client, settings, lanes, TypeOK
  <2>3. CASE ScheduleFullAnalysis(h)
    <3> DEFINE task == Task(handlers[h].text, handlers[h].version)
    <3>1. task \in TaskRecord
      BY <2>3, CarriesText, CurrentVersionType DEF ScheduleFullAnalysis, Task, TaskRecord
    <3>2. Goto(h, Free) \/ Goto(h, Parked("sent"))
      BY <2>3 DEF ScheduleFullAnalysis
    <3>3. handlers' \in [Handlers -> HandlerRecord]
      BY <3>2, HandlerType, GotoType
    <3>4. workers' \in Seq(WorkerRecord) /\ debouncer' \in 0..Len(workers')
      <4>1. CASE debouncer = 0
        <5> DEFINE cmd == [op |-> "schedule", task |-> task, from |-> NoHandler]
        <5>1. cmd \in CommandRecord
          BY <3>1 DEF CommandRecord
        <5>2. Accept(NewWorker, cmd) \in WorkerRecord
          BY <5>1, NewWorkerType, AcceptType
        <5>3. debouncer' = Len(workers) + 1
              /\ workers' = Append(workers, Accept(NewWorker, cmd))
          BY <2>3, <4>1 DEF ScheduleFullAnalysis
        <5> HIDE DEF cmd
        <5> QED
          BY <5>2, <5>3 DEF TypeOK
      <4>2. CASE debouncer # 0
        <5>1. debouncer \in 1..Len(workers) /\ debouncer' = debouncer
          BY <2>3, <4>2 DEF ScheduleFullAnalysis, TypeOK
        <5>2. Send(h, debouncer, "schedule", task)
          BY <2>3, <4>2 DEF ScheduleFullAnalysis
        <5>3. Command(h, debouncer, "schedule", task) \in CommandRecord
          BY <3>1, CommandType
        <5>4. workers' \in Seq(WorkerRecord) /\ Len(workers') = Len(workers)
          BY <5>1, <5>2, <5>3, SendType
        <5> QED
          BY <5>1, <5>4
      <4> QED
        BY <4>1, <4>2
    <3> QED
      BY <2>3, <3>3, <3>4 DEF ScheduleFullAnalysis, client, settings, TypeOK
  <2>4. CASE CancelScheduledAnalysis(h)
    <3>1. workers' \in Seq(WorkerRecord) /\ Len(workers') = Len(workers)
      BY <2>4, SendCancelType DEF CancelScheduledAnalysis
    <3>2. Goto(h, Free) \/ Goto(h, Parked("sent"))
      BY <2>4 DEF CancelScheduledAnalysis
    <3>3. handlers' \in [Handlers -> HandlerRecord]
      BY <3>2, HandlerType, GotoType
    <3> QED
      BY <2>4, <3>1, <3>3 DEF CancelScheduledAnalysis, client, settings, TypeOK
  <2>5. CASE ResumeSent(h)
    <3>1. handlers' \in [Handlers -> HandlerRecord]
      BY <2>5, HandlerType, GotoType DEF ResumeSent
    <3> QED
      BY <2>5, <3>1 DEF ResumeSent, client, settings, lanes, TypeOK
  <2>6. CASE ResumeReject(h)
    <3>1. handlers' \in [Handlers -> HandlerRecord]
      BY <2>6, HandlerType, GotoType DEF ResumeReject, RejectTail
    <3>2. shown' \in [text : Texts, lane : {"none", "hot", "idle", "save"}]
      BY <2>6, PublishEmptyType DEF ResumeReject, RejectTail
    <3>3. lost' \in BOOLEAN /\ epoch' \in BOOLEAN
      BY <2>6 DEF ResumeReject, RejectTail
    <3> QED
      BY <2>6, <3>1, <3>2, <3>3
      DEF ResumeReject, RejectTail, client, settings, lanes, TypeOK
  <2>7. CASE ResumeSave(h)
    <3>1. [handlers[h] EXCEPT !.pc = "save"] \in HandlerRecord
      BY <2>7, CarriesText DEF ResumeSave
    <3>2. handlers' \in [Handlers -> HandlerRecord]
      BY <2>7, <3>1, GotoType DEF ResumeSave
    <3> QED
      BY <2>7, <3>2 DEF ResumeSave, client, settings, lanes, TypeOK
  <2>8. CASE SaveDone(h)
    <3>1. handlers[h].text \in Texts /\ handlers[h].version \in Nat
      BY <2>8, CarriesText DEF SaveDone
    <3>2. handlers' \in [Handlers -> HandlerRecord]
      BY <2>8, HandlerType, GotoType DEF SaveDone
    <3>3. /\ documents' \in [text : Texts, version : Nat] \cup {NoDoc}
          /\ epoch' \in BOOLEAN
          /\ shown' \in [text : Texts, lane : {"none", "hot", "idle", "save"}]
      BY <2>8, <3>1, StoreAndPublishType DEF SaveDone
    <3> QED
      BY <2>8, <3>2, <3>3 DEF SaveDone, client, settings, lanes, TypeOK
  <2>9. CASE ResumeClose(h)
    <3>1. handlers' \in [Handlers -> HandlerRecord]
      BY <2>9, HandlerType, GotoType DEF ResumeClose, CloseTail
    <3> QED
      BY <2>9, <3>1 DEF ResumeClose, CloseTail, client, settings, lanes, TypeOK
  <2>10. CASE CloseDone(h)
    <3>1. handlers' \in [Handlers -> HandlerRecord]
      BY <2>10, HandlerType, GotoType DEF CloseDone
    <3>2. shown' \in [text : Texts, lane : {"none", "hot", "idle", "save"}]
      BY <2>10, PublishEmptyType DEF CloseDone
    <3> QED
      BY <2>10, <3>1, <3>2 DEF CloseDone, client, settings, lanes, TypeOK
  <2> QED
    BY <1>4, <2>1, <2>2, <2>3, <2>4, <2>5, <2>6, <2>7, <2>8, <2>9, <2>10
    DEF Continuation
<1>5. ASSUME NEW w \in 1..Len(workers), WorkerStep(w)
      PROVE  TypeOK'
  <2>0. workers[w] \in WorkerRecord
    BY DEF TypeOK
  <2>1. CASE WorkerReceives(w)
    <3>1. Receive(workers[w]) \in WorkerRecord
      BY <2>0, <2>1, ReceiveType DEF WorkerReceives, CanReceive
    <3>2. workers' \in Seq(WorkerRecord) /\ Len(workers') = Len(workers)
      BY <2>1, <3>1, SetWorkerType DEF WorkerReceives
    <3> QED
      BY <2>1, <3>2 DEF WorkerReceives, client, settings, server, TypeOK
  <2>2. CASE WorkerStarts(w)
    <3>1. workers' \in Seq(WorkerRecord) /\ Len(workers') = Len(workers)
      BY <2>0, <2>2, WorkerStepType, SetWorkerType DEF WorkerStarts
    <3> QED
      BY <2>2, <3>1 DEF WorkerStarts, client, settings, server, TypeOK
  <2>3. CASE IdleDone(w)
    <3>1. workers' \in Seq(WorkerRecord) /\ Len(workers') = Len(workers)
      BY <2>0, <2>3, WorkerStepType, SetWorkerType DEF IdleDone
    <3>2. workers[w].running.text \in Texts
      BY <2>0, <2>3 DEF IdleDone, WorkerRecord, TaskRecord
    <3>3. Publish(workers[w].running.text, "idle") \/ UNCHANGED <<epoch, shown>>
      BY <2>3 DEF IdleDone
    <3>4. epoch' \in BOOLEAN
          /\ shown' \in [text : Texts, lane : {"none", "hot", "idle", "save"}]
      BY <3>2, <3>3, PublishType
    <3> QED
      BY <2>3, <3>1, <3>4 DEF IdleDone, client, settings, server, TypeOK
  <2>4. CASE IdlePanics(w)
    <3>1. workers' \in Seq(WorkerRecord) /\ Len(workers') = Len(workers)
      BY <2>0, <2>4, WorkerStepType, SetWorkerType DEF IdlePanics
    <3> QED
      BY <2>4, <3>1 DEF IdlePanics, client, settings, server, TypeOK
  <2> QED
    BY <1>5, <2>1, <2>2, <2>3, <2>4 DEF WorkerStep
<1> QED
  BY <1>1, <1>2, <1>3, <1>4, <1>5 DEF Next

\* The pipeline starts well typed.
LEMMA TypeInit == Init => TypeOK
<1> SUFFICES ASSUME Init PROVE TypeOK
  OBVIOUS
<1>0. 0 \in 0..MaxEdits
  BY PipelineAssumption
<1>1. Text(0, TRUE) \in Texts /\ Text(0, FALSE) \in Texts
  BY <1>0, TextType
<1>2. Clear \in [text : Texts, lane : {"none", "hot", "idle", "save"}]
  BY <1>1 DEF Clear, Shown
<1>3. editor \in [open : BOOLEAN, version : Nat, text : Texts]
  BY <1>1 DEF Init
<1>4. handlers \in [Handlers -> HandlerRecord]
  BY HandlerType DEF Init
<1>5. epoch \in BOOLEAN /\ lost \in BOOLEAN
  BY DEF Init
<1>6. workers \in Seq(WorkerRecord) /\ debouncer \in 0..Len(workers)
  BY DEF Init
<1> QED
  BY <1>0, <1>2, <1>3, <1>4, <1>5, <1>6 DEF Init, TypeOK

\* Every reachable state of the pipeline is well typed: no handler continues
\* with a field another kind of handler left, and no task runs without a text.
THEOREM PipelineTypes == Spec => []TypeOK
<1>1. TypeOK /\ [Next]_vars => TypeOK'
  BY TypeStep
<1> QED
  BY TypeInit, <1>1, PTL DEF Spec

-----------------------------------------------------------------------------
(***************************************************************************)
(* TextInSync is not inductive: an analysis that ends may overwrite the    *)
(* stored text.  It does no harm because, within a session, whatever a     *)
(* handler in flight may still store is either older than the stored       *)
(* version, and dropped, or is the stored text itself.                     *)
(***************************************************************************)
MayStore(h) == handlers[h].pc \in {"hot", "saving", "save"}

NoCloseInFlight == \A h \in Handlers : handlers[h].pc # "closing"

VersionsInOrder ==
  /\ documents # NoDoc => documents.version <= editor.version
  /\ \A h \in Handlers : MayStore(h) => handlers[h].version <= editor.version

StoresAreNoNews ==
  /\ documents # NoDoc /\ documents.text = editor.text
  /\ \A h \in Handlers : MayStore(h) =>
       /\ handlers[h].version <= documents.version
       /\ handlers[h].version = documents.version => handlers[h].text = documents.text

SyncInv ==
  /\ editor.open => NoCloseInFlight /\ VersionsInOrder
  /\ editor.open /\ ~lost => StoresAreNoNews

\* No handler gains the right to store: it had it, with the same text.
HandlersOnlyProgress ==
  \A g \in Handlers :
    /\ MayStore(g)' => /\ MayStore(g)
                       /\ handlers'[g].text = handlers[g].text
                       /\ handlers'[g].version = handlers[g].version
    /\ handlers'[g].pc = "closing" => handlers[g].pc = "closing"

\* A stored document is not the absence of one.
LEMMA DocIsSome ==
  ASSUME NEW text, NEW version \in Nat
  PROVE  Doc(text, version) # NoDoc
<1>1. Doc(text, version).version = version /\ NoDoc.version = -1
  BY DEF Doc, NoDoc
<1>2. version # -1
  OBVIOUS
<1> QED
  BY <1>1, <1>2

\* A handler that goes to a state without a text to store, or from waiting to
\* saving, makes progress only.
LEMMA GotoProgress ==
  ASSUME TypeOK, NEW h \in Handlers, NEW next, Goto(h, next),
         \/ next.pc \notin {"hot", "saving", "save", "closing"}
         \/ /\ MayStore(h) /\ next.pc # "closing"
            /\ next.text = handlers[h].text /\ next.version = handlers[h].version
  PROVE  HandlersOnlyProgress
BY DEF Goto, TypeOK, MayStore, HandlersOnlyProgress

\* Steps that touch neither the texts nor the session keep the invariant.
LEMMA SyncFrame ==
  ASSUME SyncInv, UNCHANGED <<editor, documents, lost>>, HandlersOnlyProgress
  PROVE  SyncInv'
<1>1. editor.open => NoCloseInFlight' /\ VersionsInOrder'
  BY DEF SyncInv, HandlersOnlyProgress, NoCloseInFlight, VersionsInOrder, MayStore
<1>2. editor.open /\ ~lost => StoresAreNoNews'
  BY DEF SyncInv, HandlersOnlyProgress, StoresAreNoNews, MayStore
<1> QED
  BY <1>1, <1>2 DEF SyncInv

\* An analysis that ends stores nothing new.
LEMMA SyncStore ==
  ASSUME TypeOK, SyncInv, NEW h \in Handlers, MayStore(h), NEW lane,
         StoreAndPublish(handlers[h].text, handlers[h].version, lane),
         UNCHANGED <<editor, lost>>, HandlersOnlyProgress
  PROVE  SyncInv'
<1>0. handlers[h].text \in Texts /\ handlers[h].version \in Nat
  BY CarriesText DEF MayStore
<1>1. CASE documents' = documents
  BY <1>1, SyncFrame
<1>2. CASE documents' # documents
  <2>1. /\ documents' = Doc(handlers[h].text, handlers[h].version)
        /\ ~(CurrentVersion > handlers[h].version)
    BY <1>2 DEF StoreAndPublish, Store, Stale
  <2>2. editor.open => lost
    <3> SUFFICES ASSUME editor.open, ~lost PROVE FALSE
      OBVIOUS
    <3>1. StoresAreNoNews
      BY DEF SyncInv
    <3>2. documents \in [text : Texts, version : Nat]
      BY <3>1 DEF StoresAreNoNews, TypeOK
    <3>3. CurrentVersion = documents.version
      BY <3>1 DEF StoresAreNoNews, CurrentVersion
    <3>4. handlers[h].version = documents.version
      BY <1>0, <2>1, <3>1, <3>2, <3>3 DEF StoresAreNoNews
    <3>5. handlers[h].text = documents.text
      BY <3>1, <3>4 DEF StoresAreNoNews
    <3>6. documents = Doc(documents.text, documents.version)
      BY <3>2 DEF Doc
    <3> QED
      BY <1>2, <2>1, <3>4, <3>5, <3>6
  <2>3. editor.open => NoCloseInFlight' /\ VersionsInOrder'
    <3> SUFFICES ASSUME editor.open PROVE NoCloseInFlight' /\ VersionsInOrder'
      OBVIOUS
    <3>1. documents'.version = handlers[h].version
      BY <2>1 DEF Doc
    <3>2. handlers[h].version <= editor.version
      BY DEF SyncInv, VersionsInOrder
    <3> QED
      BY <3>1, <3>2
      DEF SyncInv, HandlersOnlyProgress, NoCloseInFlight, VersionsInOrder, MayStore
  <2> QED
    BY <2>2, <2>3 DEF SyncInv
<1> QED
  BY <1>1, <1>2

\* A new text of the editor is newer than everything in flight.
LEMMA SyncUpdate ==
  ASSUME TypeOK, NEW h \in Handlers, NEW kind, NEW text, editor'.version \in Nat,
         HandleDocumentUpdate(h, kind, text, editor'.version),
         \A g \in Handlers : MayStore(g) => handlers[g].version < editor'.version,
         NoCloseInFlight,
         lost' \/ text = editor'.text
  PROVE  SyncInv'
<1>1. documents' = Doc(text, editor'.version) /\ documents' # NoDoc
  BY DocIsSome DEF HandleDocumentUpdate, Store
<1>2. documents'.text = text /\ documents'.version = editor'.version
  BY <1>1 DEF Doc
<1>3. \A g \in Handlers :
        \/ g # h /\ handlers'[g] = handlers[g]
        \/ g = h /\ handlers'[g] = Handler("hot", kind, text, editor'.version)
  BY DEF HandleDocumentUpdate, Goto, TypeOK
<1>4. \A g \in Handlers : MayStore(g)' =>
        \/ handlers'[g].version < editor'.version
        \/ handlers'[g].version = editor'.version /\ handlers'[g].text = text
  BY <1>3 DEF MayStore, Handler
<1>5. NoCloseInFlight'
  BY <1>3 DEF NoCloseInFlight, Handler
<1>6. \A g \in Handlers : MayStore(g)' => handlers'[g].version \in Int
  <2> SUFFICES ASSUME NEW g \in Handlers, MayStore(g)' PROVE handlers'[g].version \in Int
    OBVIOUS
  <2>1. CASE g = h
    BY <1>3, <2>1 DEF Handler
  <2>2. CASE g # h
    <3>1. handlers'[g] = handlers[g]
      BY <1>3, <2>2
    <3>2. handlers[g].pc \in {"hot", "saving", "save"}
      BY <3>1 DEF MayStore
    <3>3. handlers[g].version \in Nat
      BY <3>2, CarriesText
    <3> QED
      BY <3>1, <3>3
  <2> QED
    BY <2>1, <2>2
<1>7. VersionsInOrder'
  BY <1>2, <1>4, <1>6 DEF VersionsInOrder
<1>8. ~lost' => StoresAreNoNews'
  BY <1>1, <1>2, <1>4, <1>6 DEF StoresAreNoNews
<1> QED
  BY <1>5, <1>7, <1>8 DEF SyncInv

\* Every step keeps the invariant if the editor does not reopen the document
\* while a handler is in flight.
LEMMA SyncStep ==
  ASSUME ReopenInFlight = FALSE, TypeOK, SyncInv, [Next]_vars
  PROVE  SyncInv'
<1>1. CASE UNCHANGED vars
  <2>1. HandlersOnlyProgress
    BY <1>1 DEF vars, server, HandlersOnlyProgress, MayStore
  <2> QED
    BY <1>1, <2>1, SyncFrame DEF vars, client, server
<1>2. CASE DidChangeEmpty
  <2>1. /\ editor' = [editor EXCEPT !.version = @ + 1]
        /\ UNCHANGED <<documents, handlers, lost>>
    BY <1>2 DEF DidChangeEmpty, server
  <2>2. /\ editor'.open = editor.open /\ editor'.text = editor.text
        /\ editor.version \in Nat /\ editor'.version = editor.version + 1
    BY <2>1 DEF TypeOK
  <2>3. editor.open => NoCloseInFlight' /\ VersionsInOrder'
    <3> SUFFICES ASSUME editor.open PROVE NoCloseInFlight' /\ VersionsInOrder'
      OBVIOUS
    <3>1. NoCloseInFlight /\ VersionsInOrder
      BY DEF SyncInv
    <3>2. \A h \in Handlers : MayStore(h) => handlers[h].version \in Nat
      BY CarriesText DEF MayStore
    <3>3. documents # NoDoc => documents.version \in Nat
      BY DEF TypeOK
    <3> QED
      BY <2>1, <2>2, <3>1, <3>2, <3>3 DEF NoCloseInFlight, VersionsInOrder, MayStore
  <2>4. editor.open /\ ~lost => StoresAreNoNews'
    BY <2>1, <2>2 DEF SyncInv, StoresAreNoNews, MayStore
  <2> QED
    BY <2>1, <2>2, <2>3, <2>4 DEF SyncInv
<1>3. ASSUME NEW h \in Handlers, Notification(h)
      PROVE  SyncInv'
  <2>e. ASSUME Edit
        PROVE  /\ editor'.version = editor.version + 1 /\ editor'.version \in Nat
               /\ editor'.open /\ NoCloseInFlight
               /\ editor'.text = Text(edits + 1, TRUE)
               /\ \A g \in Handlers : MayStore(g) => handlers[g].version < editor'.version
    <3>1. editor.open /\ editor.version \in Nat /\ editor'.version = editor.version + 1
          /\ editor'.open /\ editor'.text = Text(edits + 1, TRUE)
      BY <2>e DEF Edit, TypeOK
    <3>2. NoCloseInFlight /\ VersionsInOrder
      BY <3>1 DEF SyncInv
    <3>3. \A g \in Handlers : MayStore(g) => handlers[g].version \in Nat
      BY CarriesText DEF MayStore
    <3> QED
      BY <3>1, <3>2, <3>3 DEF VersionsInOrder
  <2>1. CASE DidOpen(h)
    <3>1. editor' = [open |-> TRUE, version |-> FirstVersion, text |-> Text(edits', TRUE)]
      BY <2>1 DEF DidOpen
    <3>0. editor'.version = FirstVersion /\ FirstVersion \in Nat
      BY <3>1, PipelineAssumption
    <3>2. HandleDocumentUpdate(h, "open", editor'.text, editor'.version)
          /\ editor'.version \in Nat
      BY <2>1, <3>0, Zenon DEF DidOpen
    <3>3. \A g \in Handlers : handlers[g].pc = "free"
      BY <2>1 DEF DidOpen, NoneInFlight, Free
    <3>4. /\ \A g \in Handlers : MayStore(g) => handlers[g].version < editor'.version
          /\ NoCloseInFlight
      BY <3>3 DEF MayStore, NoCloseInFlight
    <3> QED
      BY <3>2, <3>4, SyncUpdate
  <2>2. CASE DidChangeFull(h)
    <3>1. HandleDocumentUpdate(h, "change", editor'.text, editor'.version) /\ Edit
      BY <2>2 DEF DidChangeFull
    <3> QED
      BY <2>e, <3>1, SyncUpdate
  <2>3. CASE DidChangeIncremental(h)
    <3>1. /\ HandleDocumentUpdate(h, "change", AppliedTo(documents.text), editor'.version)
          /\ Edit /\ lost' = lost
      BY <2>3 DEF DidChangeIncremental
    <3>2. editor.open
      BY <3>1 DEF Edit
    <3>3. lost \/ AppliedTo(documents.text) = editor'.text
      BY <2>e, <3>1, <3>2 DEF SyncInv, StoresAreNoNews, AppliedTo
    <3>4. lost' \/ AppliedTo(documents.text) = editor'.text
      BY <3>1, <3>3
    <3> QED
      BY <2>e, <3>1, <3>4, SyncUpdate
  <2>4. CASE DidChangeRejected(h)
    <3>1. /\ lost' /\ Edit
          /\ documents' = documents \/ documents' = NoDoc
          /\ Goto(h, Parked("rejecting")) \/ Goto(h, Free)
      BY <2>4 DEF DidChangeRejected, RejectTail
    <3>2. HandlersOnlyProgress
      BY <3>1, GotoProgress DEF Parked, Free
    <3>3. NoCloseInFlight'
      BY <2>e, <3>1, <3>2 DEF NoCloseInFlight, HandlersOnlyProgress
    <3>4. VersionsInOrder'
      <4>1. \A g \in Handlers : MayStore(g)' => handlers'[g].version < editor'.version
        BY <2>e, <3>1, <3>2 DEF HandlersOnlyProgress
      <4>2. \A g \in Handlers : MayStore(g)' => handlers'[g].version \in Nat
        BY <3>2, CarriesText DEF HandlersOnlyProgress, MayStore
      <4>3. documents' # NoDoc => documents'.version <= editor'.version
        <5> SUFFICES ASSUME documents' # NoDoc PROVE documents'.version <= editor'.version
          OBVIOUS
        <5>1. documents' = documents
          BY <3>1
        <5>2. documents.version \in Nat /\ editor.version \in Nat
          BY <5>1 DEF TypeOK
        <5>3. documents.version <= editor.version
          BY <3>1, <5>1 DEF SyncInv, VersionsInOrder, Edit
        <5> QED
          BY <2>e, <3>1, <5>1, <5>2, <5>3
      <4> QED
        BY <2>e, <3>1, <4>1, <4>2, <4>3 DEF VersionsInOrder
    <3> QED
      BY <3>1, <3>3, <3>4 DEF SyncInv
  <2>5. CASE DidSave(h)
    <3>1. /\ UNCHANGED <<editor, documents, lost>> /\ editor.open /\ documents # NoDoc
          /\ Goto(h, Handler("saving", "save", documents.text, CurrentVersion))
               \/ Goto(h, Handler("save", "save", documents.text, CurrentVersion))
      BY <2>5 DEF DidSave, client
    <3>2. CurrentVersion = documents.version
      BY <3>1 DEF CurrentVersion
    <3>3. \A g \in Handlers :
            \/ handlers'[g] = handlers[g]
            \/ /\ handlers'[g].pc # "closing" /\ handlers'[g].text = documents.text
               /\ handlers'[g].version = documents.version
      BY <3>1, <3>2 DEF Goto, Handler, TypeOK
    <3>4. NoCloseInFlight' /\ VersionsInOrder'
      <4>1. NoCloseInFlight /\ VersionsInOrder
        BY <3>1 DEF SyncInv
      <4> QED
        BY <3>1, <3>3, <4>1 DEF NoCloseInFlight, VersionsInOrder, MayStore
    <3>5. ~lost => StoresAreNoNews'
      <4> SUFFICES ASSUME ~lost PROVE StoresAreNoNews'
        OBVIOUS
      <4>1. StoresAreNoNews
        BY <3>1 DEF SyncInv
      <4>2. documents.version <= documents.version
        BY <3>1 DEF TypeOK
      <4> QED
        BY <3>1, <3>3, <4>1, <4>2 DEF StoresAreNoNews, MayStore
    <3> QED
      BY <3>1, <3>4, <3>5 DEF SyncInv
  <2>6. CASE DidClose(h)
    <3>1. ~editor'.open
      BY <2>6 DEF DidClose, TypeOK
    <3> QED
      BY <3>1 DEF SyncInv
  <2> QED
    BY <1>3, <2>1, <2>2, <2>3, <2>4, <2>5, <2>6 DEF Notification
<1>4. ASSUME NEW h \in Handlers, Continuation(h)
      PROVE  SyncInv'
  <2>1. CASE HotDone(h)
    <3>1. MayStore(h) /\ Goto(h, [handlers[h] EXCEPT !.pc = "cold"])
      BY <2>1 DEF HotDone, MayStore
    <3>2. HandlersOnlyProgress
      <4>1. [handlers[h] EXCEPT !.pc = "cold"].pc = "cold"
        BY <2>1, CarriesRecord DEF HotDone
      <4> QED
        BY <3>1, <4>1, GotoProgress
    <3> QED
      BY <2>1, <3>1, <3>2, SyncStore DEF HotDone, client
  <2>2. CASE HotPanics(h)
    <3>1. [handlers[h] EXCEPT !.pc = "cold"].pc = "cold"
      BY <2>2, CarriesRecord DEF HotPanics
    <3>2. HandlersOnlyProgress
      BY <2>2, <3>1, GotoProgress DEF HotPanics
    <3> QED
      BY <2>2, <3>2, SyncFrame DEF HotPanics, client
  <2>3. CASE ScheduleFullAnalysis(h)
    <3>1. Goto(h, Free) \/ Goto(h, Parked("sent"))
      BY <2>3 DEF ScheduleFullAnalysis
    <3>2. HandlersOnlyProgress
      BY <3>1, GotoProgress DEF Free, Parked
    <3> QED
      BY <2>3, <3>2, SyncFrame DEF ScheduleFullAnalysis, client
  <2>4. CASE CancelScheduledAnalysis(h)
    <3>1. Goto(h, Free) \/ Goto(h, Parked("sent"))
      BY <2>4 DEF CancelScheduledAnalysis
    <3>2. HandlersOnlyProgress
      BY <3>1, GotoProgress DEF Free, Parked
    <3> QED
      BY <2>4, <3>2, SyncFrame DEF CancelScheduledAnalysis, client
  <2>5. CASE ResumeSent(h)
    <3>1. HandlersOnlyProgress
      BY <2>5, GotoProgress DEF ResumeSent, Free
    <3> QED
      BY <2>5, <3>1, SyncFrame DEF ResumeSent, client
  <2>6. CASE ResumeReject(h)
    <3>1. /\ documents' = NoDoc /\ editor' = editor
          /\ lost' = (lost \/ editor.open)
      BY <2>6 DEF ResumeReject, RejectTail, client
    <3>2. HandlersOnlyProgress
      BY <2>6, GotoProgress DEF ResumeReject, RejectTail, Free
    <3>3. editor.open => NoCloseInFlight' /\ VersionsInOrder'
      BY <3>1, <3>2
      DEF SyncInv, HandlersOnlyProgress, NoCloseInFlight, VersionsInOrder, MayStore
    <3> QED
      BY <3>1, <3>3 DEF SyncInv
  <2>7. CASE ResumeSave(h)
    <3>1. /\ [handlers[h] EXCEPT !.pc = "save"].pc = "save"
          /\ [handlers[h] EXCEPT !.pc = "save"].text = handlers[h].text
          /\ [handlers[h] EXCEPT !.pc = "save"].version = handlers[h].version
      BY <2>7, CarriesRecord DEF ResumeSave
    <3>2. MayStore(h)
      BY <2>7 DEF ResumeSave, MayStore
    <3>3. HandlersOnlyProgress
      BY <2>7, <3>1, <3>2, GotoProgress DEF ResumeSave
    <3> QED
      BY <2>7, <3>3, SyncFrame DEF ResumeSave, client
  <2>8. CASE SaveDone(h)
    <3>1. MayStore(h) /\ HandlersOnlyProgress
      BY <2>8, GotoProgress DEF SaveDone, MayStore, Free
    <3> QED
      BY <2>8, <3>1, SyncStore DEF SaveDone, client
  <2>9. CASE ResumeClose(h)
    <3>1. handlers[h].pc = "closing" /\ editor' = editor
      BY <2>9 DEF ResumeClose, client
    <3>2. ~editor.open
      BY <3>1 DEF SyncInv, NoCloseInFlight
    <3> QED
      BY <3>1, <3>2 DEF SyncInv
  <2>10. CASE CloseDone(h)
    <3>1. HandlersOnlyProgress
      BY <2>10, GotoProgress DEF CloseDone, Free
    <3> QED
      BY <2>10, <3>1, SyncFrame DEF CloseDone, client
  <2> QED
    BY <1>4, <2>1, <2>2, <2>3, <2>4, <2>5, <2>6, <2>7, <2>8, <2>9, <2>10
    DEF Continuation
<1>5. ASSUME NEW w \in 1..Len(workers), WorkerStep(w)
      PROVE  SyncInv'
  <2>1. UNCHANGED <<editor, documents, handlers, lost>>
    BY <1>5 DEF WorkerStep, WorkerReceives, WorkerStarts, IdleDone, IdlePanics,
                client, server
  <2>2. HandlersOnlyProgress
    BY <2>1 DEF HandlersOnlyProgress, MayStore
  <2> QED
    BY <2>1, <2>2, SyncFrame
<1> QED
  BY <1>1, <1>2, <1>3, <1>4, <1>5 DEF Next

\* For every number of handlers in flight, whatever order their analyses end
\* in, the server's text is the editor's, so the next incremental edit applies
\* to the text it was made for (handle_document_update, did_save, did_close),
\* provided a document is not reopened before the handlers of its last session
\* have ended.
THEOREM TextStaysInSync ==
  ASSUME ReopenInFlight = FALSE
  PROVE  Spec => []TextInSync
<1>1. Init => SyncInv
  BY DEF Init, SyncInv
<1>2. TypeOK /\ SyncInv /\ [Next]_vars => SyncInv'
  BY SyncStep
<1>3. SyncInv => TextInSync
  BY DEF SyncInv, StoresAreNoNews, TextInSync
<1> QED
  BY PipelineTypes, <1>1, <1>2, <1>3, PTL DEF Spec

-----------------------------------------------------------------------------
(***************************************************************************)
(* MainLaneLatest is about a moment when all is quiet; what leads there is *)
(* that as long as the diagnostics on display are not those of the stored  *)
(* text, nor the idle lane's, a hot analysis of the stored version is on   *)
(* its way.  A handler of did_close still on its way would clear them, but *)
(* none outlives the session.                                              *)
(***************************************************************************)
NoRefreshInFlight == \A h \in Handlers : handlers[h].pc # "refresh"

HotOnItsWay == \E h \in Handlers : handlers[h].pc = "hot" /\ handlers[h].version = documents.version

ShownInv ==
  /\ editor.open => NoRefreshInFlight
  /\ Watching => shown.lane = "idle" \/ shown.text = documents.text \/ HotOnItsWay

\* With the cold path off there is no debouncer, so no idle lane.
NoIdleLane == workers = <<>> /\ debouncer = 0 /\ shown.lane # "idle"

(***************************************************************************)
(* ShownMonotone: of all the texts that are stored or may still be stored, *)
(* one of a later version is a later text, and what is on display is not   *)
(* later than the stored one.                                              *)
(***************************************************************************)
Held ==
  {a \in {documents} : a # NoDoc}
    \cup {Doc(handlers[h].text, handlers[h].version) : h \in {g \in Handlers : MayStore(g)}}

InOrder(a, b) == a.version <= b.version => a.text.edit <= b.text.edit

HeldInOrder ==
  /\ \A a \in Held : a.version <= editor.version
  /\ \A a, b \in Held : InOrder(a, b)

MonotoneInv ==
  /\ shown.text.edit <= edits /\ \A a \in Held : a.text.edit <= edits
  /\ transport = "pull" => shown = Clear
  /\ editor.open => HeldInOrder
  /\ editor.open /\ shown # Clear => documents # NoDoc /\ shown.text.edit <= documents.text.edit

-----------------------------------------------------------------------------
\* Handlers move without dropping a hot analysis and without starting to clear.
HotsStay ==
  \A g \in Handlers :
    /\ handlers[g].pc = "hot" => handlers'[g] = handlers[g]
    /\ handlers'[g].pc = "refresh" => handlers[g].pc = "refresh"

\* A handler that is not hot may go anywhere but to the clearing.
LEMMA GotoHotsStay ==
  ASSUME TypeOK, NEW h \in Handlers, NEW next, Goto(h, next),
         handlers[h].pc # "hot", next.pc # "refresh"
  PROVE  HotsStay
BY DEF Goto, TypeOK, HotsStay

\* Steps that keep the texts and drop no hot analysis keep the invariant, also
\* when they display the idle lane's diagnostics.
LEMMA ShownFrame ==
  ASSUME ShownInv, UNCHANGED <<documents, transport, lost>>, HotsStay,
         editor'.open = editor.open, shown' = shown \/ shown'.lane = "idle"
  PROVE  ShownInv'
<1>1. editor'.open => NoRefreshInFlight'
  BY DEF ShownInv, HotsStay, NoRefreshInFlight
<1>2. HotOnItsWay => HotOnItsWay'
  BY DEF HotOnItsWay, HotsStay
<1>3. Watching' => Watching
  BY DEF Watching
<1> QED
  BY <1>1, <1>2, <1>3 DEF ShownInv

\* A new text starts a hot analysis of its version.
LEMMA ShownUpdate ==
  ASSUME TypeOK, NoRefreshInFlight, NEW h \in Handlers, NEW kind, NEW text, NEW version,
         HandleDocumentUpdate(h, kind, text, version)
  PROVE  ShownInv'
<1>1. documents'.version = version
  BY DEF HandleDocumentUpdate, Store, Doc
<1>2. \A g \in Handlers :
        \/ g # h /\ handlers'[g] = handlers[g]
        \/ g = h /\ handlers'[g].pc = "hot" /\ handlers'[g].version = version
  BY DEF HandleDocumentUpdate, Goto, Handler, TypeOK
<1>3. HotOnItsWay'
  BY <1>1, <1>2 DEF HotOnItsWay
<1>4. NoRefreshInFlight'
  BY <1>2 DEF NoRefreshInFlight
<1> QED
  BY <1>3, <1>4 DEF ShownInv

\* An analysis of the hot or the save lane that ends displays the stored text,
\* or was not the awaited one.
LEMMA ShownStore ==
  ASSUME TypeOK, SyncInv, ShownInv, NEW h \in Handlers, MayStore(h), NEW lane,
         StoreAndPublish(handlers[h].text, handlers[h].version, lane),
         UNCHANGED <<editor, transport, lost>>, NEW next, Goto(h, next), next.pc # "refresh"
  PROVE  ShownInv'
<1>1. editor'.open => NoRefreshInFlight'
  BY DEF ShownInv, NoRefreshInFlight, Goto, TypeOK
<1>2. ASSUME Watching'
      PROVE  shown'.lane = "idle" \/ shown'.text = documents'.text \/ HotOnItsWay'
  <2>1. Watching /\ transport = "push" /\ StoresAreNoNews
    BY <1>2 DEF Watching, SyncInv
  <2>2. handlers[h].version \in Nat /\ documents.version \in Nat /\ CurrentVersion = documents.version
    BY <2>1, CarriesText DEF MayStore, StoresAreNoNews, TypeOK, CurrentVersion
  <2>3. CASE CurrentVersion > handlers[h].version
    <3>1. UNCHANGED <<documents, shown>>
      BY <2>3 DEF StoreAndPublish, Stale
    <3>2. HotOnItsWay => HotOnItsWay'
      BY <2>2, <2>3, <3>1 DEF HotOnItsWay, Goto, TypeOK
    <3> QED
      BY <2>1, <3>1, <3>2 DEF ShownInv
  <2>4. CASE ~(CurrentVersion > handlers[h].version)
    BY <2>1, <2>4 DEF StoreAndPublish, Stale, Store, Publish, Doc, Shown
  <2> QED
    BY <2>3, <2>4
<1> QED
  BY <1>1, <1>2 DEF ShownInv

\* Every step keeps the invariant when no analysis panics and no document is
\* reopened under a handler in flight.
LEMMA ShownStep ==
  ASSUME ReopenInFlight = FALSE, MayPanic = FALSE, TypeOK, SyncInv, ShownInv, [Next]_vars
  PROVE  ShownInv'
<1>1. CASE UNCHANGED vars
  <2>1. HotsStay
    BY <1>1 DEF vars, server, HotsStay
  <2> QED
    BY <1>1, <2>1, ShownFrame DEF vars, client, server, settings
<1>2. CASE DidChangeEmpty
  <2>1. HotsStay
    BY <1>2 DEF DidChangeEmpty, server, HotsStay
  <2>2. editor'.open = editor.open
    BY <1>2 DEF DidChangeEmpty, TypeOK
  <2> QED
    BY <1>2, <2>1, <2>2, ShownFrame DEF DidChangeEmpty, server, settings
<1>3. ASSUME NEW h \in Handlers, Notification(h)
      PROVE  ShownInv'
  <2>1. CASE DidOpen(h)
    <3>1. NoRefreshInFlight
      BY <2>1 DEF DidOpen, NoneInFlight, NoRefreshInFlight, Free
    <3>2. HandleDocumentUpdate(h, "open", editor'.text, FirstVersion)
      BY <2>1 DEF DidOpen
    <3> QED
      BY <3>1, <3>2, ShownUpdate
  <2>2. CASE DidChangeFull(h)
    <3>1. NoRefreshInFlight
      BY <2>2 DEF DidChangeFull, Edit, ShownInv
    <3>2. HandleDocumentUpdate(h, "change", editor'.text, editor'.version)
      BY <2>2 DEF DidChangeFull
    <3> QED
      BY <3>1, <3>2, ShownUpdate
  <2>3. CASE DidChangeIncremental(h)
    <3>1. NoRefreshInFlight
      BY <2>3 DEF DidChangeIncremental, Edit, ShownInv
    <3>2. HandleDocumentUpdate(h, "change", AppliedTo(documents.text), editor'.version)
      BY <2>3 DEF DidChangeIncremental
    <3> QED
      BY <3>1, <3>2, ShownUpdate
  <2>4. CASE DidChangeRejected(h)
    <3>1. lost' /\ NoRefreshInFlight /\ (Goto(h, Parked("rejecting")) \/ Goto(h, Free))
      BY <2>4 DEF DidChangeRejected, RejectTail, Edit, ShownInv
    <3>2. NoRefreshInFlight'
      BY <3>1 DEF NoRefreshInFlight, Goto, Parked, Free, TypeOK
    <3> QED
      BY <3>1, <3>2 DEF ShownInv, Watching
  <2>5. CASE DidSave(h)
    <3>1. handlers[h].pc # "hot" /\ UNCHANGED <<documents, editor, transport, lost, shown>>
      BY <2>5 DEF DidSave, Free, client, settings
    <3>2. HotsStay
      <4>1. PICK pc \in {"saving", "save"} :
              Goto(h, Handler(pc, "save", documents.text, CurrentVersion))
        BY <2>5 DEF DidSave
      <4>2. Handler(pc, "save", documents.text, CurrentVersion).pc # "refresh"
        BY DEF Handler
      <4> QED
        BY <3>1, <4>1, <4>2, GotoHotsStay
    <3> QED
      BY <3>1, <3>2, ShownFrame
  <2>6. CASE DidClose(h)
    <3>1. ~editor'.open
      BY <2>6 DEF DidClose, TypeOK
    <3> QED
      BY <3>1 DEF ShownInv, Watching
  <2> QED
    BY <1>3, <2>1, <2>2, <2>3, <2>4, <2>5, <2>6 DEF Notification
<1>4. ASSUME NEW h \in Handlers, Continuation(h)
      PROVE  ShownInv'
  <2>1. CASE HotDone(h)
    <3>1. [handlers[h] EXCEPT !.pc = "cold"].pc # "refresh" /\ MayStore(h)
      BY <2>1, CarriesRecord DEF HotDone, MayStore
    <3> QED
      BY <2>1, <3>1, ShownStore DEF HotDone, client, settings
  <2>2. CASE HotPanics(h)
    BY <2>2 DEF HotPanics
  <2>3. CASE ScheduleFullAnalysis(h) \/ CancelScheduledAnalysis(h) \/ ResumeSent(h)
    <3>1. /\ handlers[h].pc # "hot" /\ (Goto(h, Free) \/ Goto(h, Parked("sent")))
          /\ UNCHANGED <<documents, editor, transport, lost, shown>>
      BY <2>3 DEF ScheduleFullAnalysis, CancelScheduledAnalysis, ResumeSent, client, settings
    <3>2. HotsStay
      BY <3>1, GotoHotsStay DEF Free, Parked
    <3> QED
      BY <3>1, <3>2, ShownFrame
  <2>4. CASE ResumeReject(h)
    <3>1. editor' = editor /\ lost' = (lost \/ editor.open) /\ Goto(h, Free)
      BY <2>4 DEF ResumeReject, RejectTail, client
    <3>2. editor'.open => NoRefreshInFlight'
      BY <3>1 DEF ShownInv, NoRefreshInFlight, Goto, Free, TypeOK
    <3> QED
      BY <3>1, <3>2 DEF ShownInv, Watching
  <2>5. CASE ResumeSave(h)
    <3>1. [handlers[h] EXCEPT !.pc = "save"].pc # "refresh" /\ handlers[h].pc # "hot"
      BY <2>5, CarriesRecord DEF ResumeSave
    <3>2. HotsStay
      BY <2>5, <3>1, GotoHotsStay DEF ResumeSave
    <3> QED
      BY <2>5, <3>2, ShownFrame DEF ResumeSave, client, settings
  <2>6. CASE SaveDone(h)
    <3>1. Free.pc # "refresh" /\ MayStore(h)
      BY <2>6 DEF SaveDone, MayStore, Free
    <3> QED
      BY <2>6, <3>1, ShownStore DEF SaveDone, client, settings
  <2>7. CASE ResumeClose(h)
    <3>1. ~editor'.open
      BY <2>7 DEF ResumeClose, client, SyncInv, NoCloseInFlight
    <3> QED
      BY <3>1 DEF ShownInv, Watching
  <2>8. CASE CloseDone(h)
    <3>1. ~editor'.open
      BY <2>8 DEF CloseDone, client, ShownInv, NoRefreshInFlight
    <3> QED
      BY <3>1 DEF ShownInv, Watching
  <2> QED
    BY <1>4, <2>1, <2>2, <2>3, <2>4, <2>5, <2>6, <2>7, <2>8 DEF Continuation
<1>5. ASSUME NEW w \in 1..Len(workers), WorkerStep(w)
      PROVE  ShownInv'
  <2>1. UNCHANGED <<editor, documents, handlers, transport, lost>>
    BY <1>5 DEF WorkerStep, WorkerReceives, WorkerStarts, IdleDone, IdlePanics,
                client, server, settings
  <2>2. shown' = shown \/ shown'.lane = "idle"
    BY <1>5 DEF WorkerStep, WorkerReceives, WorkerStarts, IdleDone, IdlePanics, Publish, Shown
  <2>3. HotsStay
    BY <2>1 DEF HotsStay
  <2> QED
    BY <2>1, <2>2, <2>3, ShownFrame
<1> QED
  BY <1>1, <1>2, <1>3, <1>4, <1>5 DEF Next

\* When all is quiet no hot analysis is on its way.
LEMMA ShownWhenQuiet == TypeOK /\ SyncInv /\ ShownInv => MainLaneLatest
<1> SUFFICES ASSUME TypeOK, SyncInv, ShownInv, Quiet, Watching, shown.lane # "idle"
             PROVE  shown.text = editor.text
  BY DEF MainLaneLatest
<1>1. ~HotOnItsWay
  BY DEF HotOnItsWay, Quiet, NoneInFlight, Free
<1>2. documents.text = editor.text
  BY DEF SyncInv, StoresAreNoNews, Watching
<1> QED
  BY <1>1, <1>2 DEF ShownInv

\* Whatever order the analyses of any number of handlers end in, the hot and the
\* save lane leave the editor with the diagnostics of its last text: a stale
\* result is dropped only while a newer hot analysis is still to be published.
\* An analysis that panics publishes nothing, so none does here.
THEOREM MainLaneEndsLatest ==
  ASSUME ReopenInFlight = FALSE, MayPanic = FALSE
  PROVE  Spec => []MainLaneLatest
<1>1. Init => SyncInv /\ ShownInv
  BY DEF Init, SyncInv, ShownInv, Watching
<1>2. TypeOK /\ SyncInv /\ ShownInv /\ [Next]_vars => SyncInv' /\ ShownInv'
  BY SyncStep, ShownStep
<1> QED
  BY PipelineTypes, ShownWhenQuiet, <1>1, <1>2, PTL DEF Spec

-----------------------------------------------------------------------------
\* With the cold path off no debouncer is made, so nothing is sent to one.
LEMMA NoIdleStep ==
  ASSUME ColdPaths = {"manual"}, TypeOK, NoIdleLane, [Next]_vars
  PROVE  NoIdleLane'
<1>1. cold = "manual" /\ workers = <<>> /\ debouncer = 0 /\ shown.lane # "idle"
  BY DEF TypeOK, NoIdleLane
<1>2. ASSUME NEW text, NEW lane, lane # "idle", Publish(text, lane) \/ UNCHANGED <<epoch, shown>>
      PROVE  shown'.lane # "idle"
  BY <1>1, <1>2 DEF Publish, Shown
<1>3. PublishEmpty => shown'.lane # "idle"
  BY <1>1 DEF PublishEmpty, Clear, Shown
<1>4. CASE UNCHANGED vars \/ DidChangeEmpty
  BY <1>1, <1>4 DEF vars, lanes, DidChangeEmpty, NoIdleLane
<1>5. ASSUME NEW h \in Handlers, Notification(h)
      PROVE  NoIdleLane'
  <2>1. workers' = workers
    BY <1>1, <1>5 DEF Notification, DidOpen, DidChangeFull, DidChangeIncremental,
       DidChangeRejected, DidSave, DidClose, HandleDocumentUpdate, SendCancel, lanes
  <2>2. debouncer' = 0
    BY <1>1, <1>5 DEF Notification, DidOpen, DidChangeFull, DidChangeIncremental,
       DidChangeRejected, DidSave, DidClose, HandleDocumentUpdate, lanes
  <2>3. shown' = shown \/ PublishEmpty
    BY <1>5 DEF Notification, DidOpen, DidChangeFull, DidChangeIncremental,
       DidChangeRejected, RejectTail, DidSave, DidClose, HandleDocumentUpdate
  <2> QED
    BY <1>1, <1>3, <2>1, <2>2, <2>3 DEF NoIdleLane
<1>6. ASSUME NEW h \in Handlers, Continuation(h)
      PROVE  NoIdleLane'
  <2>1. ~ScheduleFullAnalysis(h)
    BY <1>1 DEF ScheduleFullAnalysis, ShouldScheduleColdDiagnostics
  <2>2. workers' = workers /\ debouncer' = debouncer
    BY <1>1, <1>6, <2>1 DEF Continuation, HotDone, HotPanics, CancelScheduledAnalysis,
       ResumeSent, ResumeReject, ResumeSave, SaveDone, ResumeClose, CloseDone, SendCancel, lanes
  <2>3. \/ shown' = shown \/ PublishEmpty
        \/ \E text, lane : lane # "idle" /\ (Publish(text, lane) \/ UNCHANGED <<epoch, shown>>)
    <3>1. CASE HotDone(h)
      BY <3>1 DEF HotDone, StoreAndPublish
    <3>2. CASE SaveDone(h)
      BY <3>2 DEF SaveDone, StoreAndPublish
    <3> QED
      BY <1>6, <2>1, <3>1, <3>2 DEF Continuation, HotPanics, CancelScheduledAnalysis,
         ResumeSent, ResumeReject, RejectTail, ResumeSave, ResumeClose, CloseDone
  <2>4. shown'.lane # "idle"
    BY <1>1, <1>2, <1>3, <2>3
  <2> QED
    BY <1>1, <2>2, <2>4 DEF NoIdleLane
<1>7. ASSUME NEW w \in 1..Len(workers)
      PROVE  FALSE
  BY <1>1
<1> QED
  BY <1>4, <1>5, <1>6, <1>7 DEF Next

\* With the cold path off all diagnostics are those of the hot and save lanes,
\* so the editor ends with those of its last text.
THEOREM AllLanesEndLatest ==
  ASSUME ReopenInFlight = FALSE, MayPanic = FALSE, ColdPaths = {"manual"}
  PROVE  Spec => []LatestWhenQuiet
<1>1. Init => NoIdleLane
  BY DEF Init, NoIdleLane, Clear, Shown
<1>2. TypeOK /\ NoIdleLane /\ [Next]_vars => NoIdleLane'
  BY NoIdleStep
<1>3. NoIdleLane /\ MainLaneLatest => LatestWhenQuiet
  BY DEF NoIdleLane, MainLaneLatest, LatestWhenQuiet
<1> QED
  BY PipelineTypes, MainLaneEndsLatest, <1>1, <1>2, <1>3, PTL DEF Spec

-----------------------------------------------------------------------------
\* Everything held is a document.
LEMMA HeldType ==
  ASSUME TypeOK
  PROVE  /\ \A a \in Held : a \in [text : Texts, version : Nat]
         /\ \A a \in Held : a.version \in Nat /\ a.text.edit \in Nat
<1>1. \A h \in Handlers : MayStore(h) => handlers[h].text \in Texts /\ handlers[h].version \in Nat
  BY CarriesText DEF MayStore
<1>2. \A a \in Held : a \in [text : Texts, version : Nat]
  BY <1>1 DEF Held, TypeOK, Doc
<1> QED
  BY <1>2, PipelineAssumption DEF Texts

\* A stored document is held, and so is what a handler may store.
LEMMA HeldMembers ==
  /\ documents # NoDoc => documents \in Held
  /\ \A h \in Handlers : MayStore(h) => Doc(handlers[h].text, handlers[h].version) \in Held
BY DEF Held

\* Handlers that only progress hold no new text.
LEMMA HeldShrinks ==
  ASSUME HandlersOnlyProgress, documents' = NoDoc \/ documents' \in Held
  PROVE  Held' \subseteq Held
BY DEF Held, HandlersOnlyProgress, MayStore

\* Steps that hold no new text: what is displayed stays, is cleared, is the
\* stored text, or does not matter because the document is closed.
LEMMA MonotoneFrame ==
  ASSUME TypeOK, TypeOK', MonotoneInv, Held' \subseteq Held, transport' = transport,
         editor'.open => editor.open, editor'.version >= editor.version, edits' >= edits,
         \/ shown' = shown /\ documents' = documents
         \/ shown' = shown /\ ~editor'.open
         \/ shown' = Clear
         \/ /\ transport = "push" /\ documents' # NoDoc /\ documents' \in Held
            /\ shown'.text = documents'.text
  PROVE  MonotoneInv'
<1>1. /\ \A a \in Held : a.version \in Nat /\ a.text.edit \in Nat
      /\ edits \in Nat /\ edits' \in Nat /\ editor.version \in Nat /\ editor'.version \in Nat
      /\ shown.text.edit \in Nat /\ Clear.text.edit = 0
  BY HeldType, PipelineAssumption DEF TypeOK, Texts, Clear, Shown, Text
<1>2. \A a \in Held : a.text.edit <= edits'
  BY <1>1 DEF MonotoneInv
<1>3. shown'.text.edit <= edits'
  BY <1>1, <1>2 DEF MonotoneInv
<1>4. editor'.open => HeldInOrder'
  <2> SUFFICES ASSUME editor'.open
               PROVE  HeldInOrder'
    OBVIOUS
  <2>1. HeldInOrder
    BY DEF MonotoneInv
  <2>2. \A a \in Held' : a.version <= editor'.version
    BY <1>1, <2>1 DEF HeldInOrder
  <2>3. \A a, b \in Held' : InOrder(a, b)
    BY <2>1 DEF HeldInOrder
  <2>4. \A a, b : InOrder(a, b)' <=> InOrder(a, b)
    BY DEF InOrder
  <2> QED
    BY <2>2, <2>3, <2>4 DEF HeldInOrder
<1>5. transport' = "pull" => shown' = Clear
  BY DEF MonotoneInv
<1>6. editor'.open /\ shown' # Clear => documents' # NoDoc /\ shown'.text.edit <= documents'.text.edit
  <2>1. documents' \in Held => documents'.text.edit <= documents'.text.edit
    BY <1>1
  <2> QED
    BY <2>1 DEF MonotoneInv
<1> QED
  BY <1>2, <1>3, <1>4, <1>5, <1>6 DEF MonotoneInv

\* A new text is later than every text held, and of a later version.
LEMMA MonotoneUpdate ==
  ASSUME TypeOK, MonotoneInv, NEW h \in Handlers, NEW kind, NEW text,
         HandleDocumentUpdate(h, kind, text, editor'.version),
         text.edit = edits + 1, edits' = edits + 1, editor'.version \in Nat,
         \/ editor.open /\ editor'.version = editor.version + 1
         \/ \A g \in Handlers : ~MayStore(g)
  PROVE  MonotoneInv'
<1> DEFINE new == Doc(text, editor'.version)
           Kept == {Doc(handlers[g].text, handlers[g].version) : g \in {f \in Handlers : MayStore(f)}}
<1>1. /\ \A a \in Held : a.version \in Nat /\ a.text.edit \in Nat
      /\ edits \in Nat /\ editor.version \in Nat /\ shown.text.edit \in Nat
  BY HeldType, PipelineAssumption DEF TypeOK, Texts
<1>2. documents' = new /\ new.version = editor'.version /\ new.text.edit = edits + 1 /\ new # NoDoc
  BY DocIsSome DEF HandleDocumentUpdate, Store, Doc
<1>3. UNCHANGED <<transport, shown>>
  BY DEF HandleDocumentUpdate, settings
<1>4. \A g \in Handlers :
        \/ g # h /\ handlers'[g] = handlers[g]
        \/ g = h /\ handlers'[g].text = text /\ handlers'[g].version = editor'.version
  BY DEF HandleDocumentUpdate, Goto, Handler, TypeOK
<1>5. Held' \subseteq Kept \cup {new}
  BY <1>2, <1>4 DEF Held, MayStore
<1>6. Kept \subseteq Held
  BY DEF Held
<1> HIDE DEF new, Kept
<1>7. \A a \in Kept : /\ a.version < editor'.version /\ a.text.edit <= edits
                      /\ \A b \in Kept : InOrder(a, b)
  <2>1. CASE editor.open /\ editor'.version = editor.version + 1
    BY <1>1, <1>6, <2>1 DEF MonotoneInv, HeldInOrder
  <2>2. CASE \A g \in Handlers : ~MayStore(g)
    BY <2>2 DEF Kept
  <2> QED
    BY <2>1, <2>2
<1>8. \A a \in Held' : a.version <= editor'.version /\ a.text.edit <= edits'
  BY <1>1, <1>2, <1>5, <1>6, <1>7
<1>9. \A a, b \in Held' : InOrder(a, b)
  <2> SUFFICES ASSUME NEW a \in Kept \cup {new}, NEW b \in Kept \cup {new}, a.version <= b.version
               PROVE  a.text.edit <= b.text.edit
    BY <1>5 DEF InOrder
  <2>1. CASE b = new
    BY <1>1, <1>2, <1>6, <1>7, <2>1
  <2>2. CASE a = new /\ b \in Kept
    BY <1>1, <1>2, <1>6, <1>7, <2>2
  <2>3. CASE a \in Kept /\ b \in Kept
    BY <1>7, <2>3 DEF InOrder
  <2> QED
    BY <2>1, <2>2, <2>3
<1>10. HeldInOrder'
  <2>1. \A a, b : InOrder(a, b)' <=> InOrder(a, b)
    BY DEF InOrder
  <2> QED
    BY <1>8, <1>9, <2>1 DEF HeldInOrder
<1>11. shown'.text.edit <= edits' /\ shown'.text.edit <= documents'.text.edit
  BY <1>1, <1>2, <1>3 DEF MonotoneInv
<1> QED
  BY <1>2, <1>3, <1>8, <1>10, <1>11 DEF MonotoneInv

\* What a step displays instead is no older.
ShownLater ==
  editor.open /\ shown # Clear /\ shown' # Clear => shown'.text.edit >= shown.text.edit

\* An analysis that ends displays a text no older than the one on display.
LEMMA MonotoneStore ==
  ASSUME TypeOK, TypeOK', MonotoneInv, NEW h \in Handlers, MayStore(h), NEW lane,
         StoreAndPublish(handlers[h].text, handlers[h].version, lane),
         UNCHANGED <<editor, edits, transport>>, HandlersOnlyProgress
  PROVE  MonotoneInv' /\ ShownLater
<1> DEFINE new == Doc(handlers[h].text, handlers[h].version)
<1>0. /\ editor'.version >= editor.version /\ edits' >= edits /\ shown.text.edit \in Nat
      /\ transport \in {"push", "pull"}
  BY PipelineAssumption DEF TypeOK, Texts
<1>1. new \in Held /\ new.version = handlers[h].version /\ new.text = handlers[h].text
  BY HeldMembers DEF Doc
<1>2. new.version \in Nat /\ new.text.edit \in Nat /\ new # NoDoc
  BY <1>1, HeldType, DocIsSome
<1>3. CASE UNCHANGED <<documents, shown>>
  <2>1. Held' \subseteq Held
    BY <1>3, HeldShrinks, HeldMembers
  <2> QED
    BY <1>0, <1>3, <2>1, MonotoneFrame DEF ShownLater
<1>4. CASE ~Stale(CurrentVersion, handlers[h].version) /\ Store(handlers[h].text, handlers[h].version)
           /\ Publish(handlers[h].text, lane)
  <2>1. documents' = new
    BY <1>4 DEF Store
  <2>2. Held' \subseteq Held
    BY <1>1, <2>1, HeldShrinks
  <2>3. \/ shown' = Clear
        \/ transport = "push" /\ shown'.text = documents'.text
    BY <1>0, <1>1, <1>4, <2>1 DEF Publish, Shown, MonotoneInv
  <2> HIDE DEF new
  <2>4. MonotoneInv'
    BY <1>0, <1>1, <1>2, <2>1, <2>2, <2>3, MonotoneFrame
  <2>5. ShownLater
    <3> SUFFICES ASSUME editor.open, shown # Clear, shown' # Clear
                 PROVE  shown'.text.edit >= shown.text.edit
      BY DEF ShownLater
    <3>1. documents # NoDoc /\ shown.text.edit <= documents.text.edit /\ HeldInOrder
      BY DEF MonotoneInv
    <3>2. documents \in Held /\ documents.version \in Nat /\ documents.text.edit \in Nat
      BY <3>1, HeldMembers, HeldType
    <3>3. documents.version <= new.version
      BY <1>1, <1>2, <1>4, <3>1, <3>2 DEF Stale, CurrentVersion
    <3>4. documents.text.edit <= new.text.edit
      BY <1>1, <3>1, <3>2, <3>3 DEF HeldInOrder, InOrder
    <3> QED
      BY <1>0, <1>2, <2>1, <2>3, <3>1, <3>2, <3>4
  <2> QED
    BY <2>4, <2>5
<1> QED
  BY <1>3, <1>4 DEF StoreAndPublish

\* Every step keeps the order of what is held and what is displayed when there
\* is no idle lane and no reopening under a handler in flight.
LEMMA MonotoneStep ==
  ASSUME ReopenInFlight = FALSE, ColdPaths = {"manual"},
         TypeOK, SyncInv, NoIdleLane, MonotoneInv, [Next]_vars
  PROVE  MonotoneInv' /\ ShownLater
<1>0. TypeOK'
  BY TypeStep
<1>1. /\ editor.version \in Nat /\ edits \in Nat /\ shown.text.edit \in Nat
      /\ transport \in {"push", "pull"}
  BY PipelineAssumption DEF TypeOK, Texts
\* Steps that keep the display, hold no new text and keep the document.
<1>2. ASSUME UNCHANGED <<documents, transport, shown>>, Held' \subseteq Held,
             editor'.open = editor.open, editor'.version >= editor.version, edits' >= edits
      PROVE  MonotoneInv' /\ ShownLater
  BY <1>0, <1>1, <1>2, MonotoneFrame DEF ShownLater
\* Steps that only move a handler on.
<1>3. ASSUME UNCHANGED <<client, documents, transport, shown>>, HandlersOnlyProgress
      PROVE  MonotoneInv' /\ ShownLater
  <2>1. Held' \subseteq Held
    BY <1>3, HeldShrinks, HeldMembers
  <2> QED
    BY <1>1, <1>2, <1>3, <2>1 DEF client
\* A cleared display is cleared, also for a client that pulls.
<1>4. ASSUME PublishEmpty
      PROVE  shown' = Clear
  BY <1>1, <1>4 DEF PublishEmpty, MonotoneInv
<1>5. CASE UNCHANGED vars
  <2>1. HandlersOnlyProgress
    BY <1>5 DEF vars, server, HandlersOnlyProgress, MayStore
  <2> QED
    BY <1>3, <1>5, <2>1 DEF vars, server, settings
<1>6. CASE DidChangeEmpty
  <2>1. HandlersOnlyProgress
    BY <1>6 DEF DidChangeEmpty, server, HandlersOnlyProgress, MayStore
  <2>2. Held' \subseteq Held
    BY <1>6, <2>1, HeldShrinks, HeldMembers DEF DidChangeEmpty, server
  <2>3. editor'.open = editor.open /\ editor'.version >= editor.version /\ edits' >= edits
    <3>1. editor' = [editor EXCEPT !.version = @ + 1] /\ edits' = edits
      BY <1>6 DEF DidChangeEmpty
    <3>2. editor'.open = editor.open /\ editor'.version = editor.version + 1
      BY <3>1 DEF TypeOK
    <3> QED
      BY <1>1, <3>1, <3>2
  <2> QED
    BY <1>2, <1>6, <2>2, <2>3 DEF DidChangeEmpty, server, settings
<1>7. ASSUME NEW h \in Handlers, Notification(h)
      PROVE  MonotoneInv' /\ ShownLater
  <2>1. ASSUME Edit
        PROVE  /\ editor.open /\ editor'.open /\ editor'.version = editor.version + 1
               /\ edits' = edits + 1 /\ editor'.version \in Nat /\ editor'.text.edit = edits + 1
    BY <1>1, <2>1 DEF Edit, Text
  <2>2. ASSUME NEW kind, NEW text, NEW version, HandleDocumentUpdate(h, kind, text, version)
        PROVE  ShownLater
    BY <1>1, <2>2 DEF HandleDocumentUpdate, ShownLater
  <2>3. CASE DidOpen(h)
    <3>1. /\ editor'.version = FirstVersion /\ FirstVersion \in Nat
          /\ editor'.text.edit = edits + 1 /\ edits' = edits + 1
      BY <2>3, PipelineAssumption DEF DidOpen, Text
    <3>2. HandleDocumentUpdate(h, "open", editor'.text, editor'.version)
      BY <2>3, <3>1, Zenon DEF DidOpen
    <3>3. \A g \in Handlers : ~MayStore(g)
      BY <2>3 DEF DidOpen, NoneInFlight, Free, MayStore
    <3> QED
      BY <2>2, <3>1, <3>2, <3>3, MonotoneUpdate
  <2>4. CASE DidChangeFull(h)
    <3>1. Edit /\ HandleDocumentUpdate(h, "change", editor'.text, editor'.version)
      BY <2>4 DEF DidChangeFull
    <3> QED
      BY <2>1, <2>2, <3>1, MonotoneUpdate
  <2>5. CASE DidChangeIncremental(h)
    <3>1. Edit /\ HandleDocumentUpdate(h, "change", AppliedTo(documents.text), editor'.version)
      BY <2>5 DEF DidChangeIncremental
    <3>2. AppliedTo(documents.text).edit = edits + 1
      BY DEF AppliedTo, Text
    <3> QED
      BY <2>1, <2>2, <3>1, <3>2, MonotoneUpdate
  <2>6. CASE DidChangeRejected(h)
    <3>1. /\ Edit /\ transport' = transport
          /\ \/ Goto(h, Parked("rejecting")) /\ UNCHANGED <<documents, shown>>
             \/ documents' = NoDoc /\ PublishEmpty /\ Goto(h, Free)
      BY <2>6 DEF DidChangeRejected, RejectTail, settings
    <3>2. HandlersOnlyProgress
      BY <3>1, GotoProgress DEF Parked, Free
    <3>3. Held' \subseteq Held
      BY <3>1, <3>2, HeldShrinks, HeldMembers
    <3>4. editor'.version >= editor.version /\ edits' >= edits /\ editor'.open = editor.open
      BY <1>1, <2>1, <3>1 DEF TypeOK, Edit
    <3>5. UNCHANGED <<documents, shown>> \/ shown' = Clear
      BY <1>4, <3>1
    <3>6. MonotoneInv'
      BY <1>0, <3>1, <3>3, <3>4, <3>5, MonotoneFrame
    <3> QED
      BY <1>1, <3>5, <3>6 DEF ShownLater
  <2>7. CASE DidSave(h)
    <3>1. /\ UNCHANGED <<client, documents, transport, shown>> /\ documents # NoDoc
          /\ \A g \in Handlers :
               \/ handlers'[g] = handlers[g]
               \/ handlers'[g].text = documents.text /\ handlers'[g].version = documents.version
      BY <2>7 DEF DidSave, settings, Goto, Handler, TypeOK, CurrentVersion
    <3>2. documents \in Held /\ documents = Doc(documents.text, documents.version)
      BY <3>1, HeldMembers DEF TypeOK, Doc
    <3>3. Held' \subseteq Held
      BY <3>1, <3>2 DEF Held, MayStore
    <3> QED
      BY <1>1, <1>2, <3>1, <3>3 DEF client
  <2>8. CASE DidClose(h)
    <3>1. /\ ~editor'.open /\ editor'.version = editor.version
          /\ UNCHANGED <<edits, transport, shown>> /\ (documents' = documents \/ documents' = NoDoc)
      BY <2>8 DEF DidClose, CloseTail, settings, TypeOK
    <3>2. Held' \subseteq Held
      <4>1. handlers[h] = Free /\ (Goto(h, Parked("closing")) \/ Goto(h, Parked("refresh")))
        BY <2>8 DEF DidClose, CloseTail
      <4>2. \A g \in Handlers : MayStore(g)' => handlers'[g] = handlers[g]
        BY <4>1 DEF Goto, Parked, MayStore, TypeOK
      <4> QED
        BY <3>1, <4>2 DEF Held, MayStore
    <3>3. MonotoneInv'
      BY <1>0, <1>1, <3>1, <3>2, MonotoneFrame
    <3> QED
      BY <1>1, <3>1, <3>3 DEF ShownLater
  <2> QED
    BY <1>7, <2>3, <2>4, <2>5, <2>6, <2>7, <2>8 DEF Notification
<1>8. ASSUME NEW h \in Handlers, Continuation(h)
      PROVE  MonotoneInv' /\ ShownLater
  <2>1. CASE HotDone(h)
    <3>1. [handlers[h] EXCEPT !.pc = "cold"].pc = "cold" /\ MayStore(h)
      BY <2>1, CarriesRecord DEF HotDone, MayStore
    <3>2. HandlersOnlyProgress
      BY <2>1, <3>1, GotoProgress DEF HotDone
    <3> QED
      BY <1>0, <2>1, <3>1, <3>2, MonotoneStore DEF HotDone, client, settings
  <2>2. CASE HotPanics(h)
    <3>1. [handlers[h] EXCEPT !.pc = "cold"].pc = "cold"
      BY <2>2, CarriesRecord DEF HotPanics
    <3>2. HandlersOnlyProgress
      BY <2>2, <3>1, GotoProgress DEF HotPanics
    <3> QED
      BY <1>3, <2>2, <3>2 DEF HotPanics, settings
  <2>3. CASE ScheduleFullAnalysis(h) \/ CancelScheduledAnalysis(h) \/ ResumeSent(h)
    <3>1. /\ Goto(h, Free) \/ Goto(h, Parked("sent"))
          /\ UNCHANGED <<client, documents, transport, shown>>
      BY <2>3 DEF ScheduleFullAnalysis, CancelScheduledAnalysis, ResumeSent, settings
    <3>2. HandlersOnlyProgress
      BY <3>1, GotoProgress DEF Free, Parked
    <3> QED
      BY <1>3, <3>1, <3>2
  <2>4. CASE ResumeReject(h)
    <3>1. documents' = NoDoc /\ PublishEmpty /\ Goto(h, Free) /\ UNCHANGED <<client, transport>>
      BY <2>4 DEF ResumeReject, RejectTail, settings
    <3>2. HandlersOnlyProgress
      BY <3>1, GotoProgress DEF Free
    <3>3. Held' \subseteq Held
      BY <3>1, <3>2, HeldShrinks
    <3>4. MonotoneInv'
      BY <1>0, <1>1, <1>4, <3>1, <3>3, MonotoneFrame DEF client
    <3> QED
      BY <1>4, <3>1, <3>4 DEF ShownLater
  <2>5. CASE ResumeSave(h)
    <3>1. /\ [handlers[h] EXCEPT !.pc = "save"].pc = "save" /\ MayStore(h)
          /\ [handlers[h] EXCEPT !.pc = "save"].text = handlers[h].text
          /\ [handlers[h] EXCEPT !.pc = "save"].version = handlers[h].version
      BY <2>5, CarriesRecord DEF ResumeSave, MayStore
    <3>2. HandlersOnlyProgress
      BY <2>5, <3>1, GotoProgress DEF ResumeSave
    <3> QED
      BY <1>3, <2>5, <3>2 DEF ResumeSave, settings
  <2>6. CASE SaveDone(h)
    <3>1. MayStore(h) /\ HandlersOnlyProgress
      BY <2>6, GotoProgress DEF SaveDone, MayStore, Free
    <3> QED
      BY <1>0, <2>6, <3>1, MonotoneStore DEF SaveDone, client, settings
  <2>7. CASE ResumeClose(h)
    <3>1. /\ ~editor'.open /\ UNCHANGED <<client, transport, shown>> /\ documents' = NoDoc
          /\ Goto(h, Parked("refresh"))
      BY <2>7 DEF ResumeClose, CloseTail, client, settings, SyncInv, NoCloseInFlight
    <3>2. HandlersOnlyProgress
      BY <3>1, GotoProgress DEF Parked
    <3>3. Held' \subseteq Held
      BY <3>1, <3>2, HeldShrinks
    <3>4. MonotoneInv'
      BY <1>0, <1>1, <3>1, <3>3, MonotoneFrame DEF client
    <3> QED
      BY <1>1, <3>1, <3>4 DEF ShownLater
  <2>8. CASE CloseDone(h)
    <3>1. PublishEmpty /\ Goto(h, Free) /\ UNCHANGED <<client, transport, documents>>
      BY <2>8 DEF CloseDone, settings
    <3>2. HandlersOnlyProgress
      BY <3>1, GotoProgress DEF Free
    <3>3. Held' \subseteq Held
      BY <3>1, <3>2, HeldShrinks, HeldMembers
    <3>4. MonotoneInv'
      BY <1>0, <1>1, <1>4, <3>1, <3>3, MonotoneFrame DEF client
    <3> QED
      BY <1>4, <3>1, <3>4 DEF ShownLater
  <2> QED
    BY <1>8, <2>1, <2>2, <2>3, <2>4, <2>5, <2>6, <2>7, <2>8 DEF Continuation
<1>9. ASSUME NEW w \in 1..Len(workers)
      PROVE  FALSE
  BY DEF NoIdleLane
<1> QED
  BY <1>5, <1>6, <1>7, <1>8, <1>9 DEF Next

\* With the cold path off the diagnostics on display are never replaced by those
\* of an older text: the stale guards of the hot and the save lane are enough,
\* for any number of handlers, also when the server has dropped the text and
\* older analyses still end, and when analyses panic.
THEOREM DisplayMonotone ==
  ASSUME ReopenInFlight = FALSE, ColdPaths = {"manual"}
  PROVE  Spec => ShownMonotone
<1>1. Init => SyncInv /\ NoIdleLane /\ MonotoneInv
  BY PipelineAssumption DEF Init, SyncInv, NoIdleLane, MonotoneInv, Held, NoDoc, MayStore, Free,
     Clear, Shown, Text
<1>2. TypeOK /\ SyncInv /\ [Next]_vars => SyncInv'
  BY SyncStep
<1>3. TypeOK /\ NoIdleLane /\ [Next]_vars => NoIdleLane'
  BY NoIdleStep
<1>4. TypeOK /\ SyncInv /\ NoIdleLane /\ MonotoneInv /\ [Next]_vars => MonotoneInv' /\ ShownLater
  BY MonotoneStep
<1>5. ShownLater => [editor.open /\ shown # Clear /\ shown' # Clear
                       => shown'.text.edit >= shown.text.edit]_shown
  BY DEF ShownLater
<1> QED
  BY PipelineTypes, <1>1, <1>2, <1>3, <1>4, <1>5, PTL DEF Spec, ShownMonotone
=============================================================================
