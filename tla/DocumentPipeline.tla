------------------------- MODULE DocumentPipeline --------------------------
(***************************************************************************)
(* One open document on its way through src/server: the notifications of   *)
(* the editor (mod.rs), the three analysis lanes hot, idle and save        *)
(* (diagnostic_pipeline.rs) and the document's debouncers.                 *)
(*                                                                         *)
(* Every handler is a future of the one task that serves the connection,   *)
(* so handlers interleave only where the code awaits: an action is the     *)
(* code between two awaits.  The first segment of a handler runs in the    *)
(* order of the notifications, so it is one step with the editor's own.    *)
(* The idle lane runs in the debouncer's worker on a clone of the Backend, *)
(* whose `documents` is a deep copy taken when the task was scheduled.     *)
(***************************************************************************)
EXTENDS DebounceSteps, Integers

CONSTANTS
  Handlers,         \* futures tower-lsp runs at once (4)
  NoHandler,
  MaxEdits,         \* bound: texts the editor produces, over all sessions
  FirstVersion,     \* the version an editor gives a document it opens
  ChannelCapacity,  \* mpsc::channel(16) of a debouncer
  ColdPaths,        \* settings of diagnostics.coldPath to start with
  Transports,       \* settings of diagnostics.transport to start with
  MayPanic,         \* an analysis may panic
  ReopenInFlight    \* the editor may reopen while handlers are in flight

ASSUME PipelineAssumption ==
  /\ NoHandler \notin Handlers
  /\ MaxEdits \in Nat /\ FirstVersion \in Nat
  /\ ChannelCapacity \in Nat \ {0}
  /\ ColdPaths \subseteq {"idle", "save", "manual"}
  /\ Transports \subseteq {"push", "pull"}
  /\ MayPanic \in BOOLEAN /\ ReopenInFlight \in BOOLEAN

VARIABLES
  editor,     \* the editor's document: open, version and text
  edits,      \* texts produced so far
  cold,       \* settings.diagnostics_cold_path
  transport,  \* diagnostics_transport
  documents,  \* the server's entry for the document, NoDoc when there is none
  handlers,   \* the futures in flight
  debouncer,  \* index of the document's debouncer, 0 when there is none
  workers,    \* the worker of every debouncer made so far
  epoch,      \* the document has an entry in code_action_epoch
  shown,      \* the diagnostics the editor displays
  lost        \* history: the server dropped the text of this session

settings == <<cold, transport>>
client   == <<editor, edits>>
server   == <<documents, handlers>>
lanes    == <<debouncer, workers>>
vars     == <<client, settings, server, lanes, epoch, shown, lost>>

Text(n, exact)     == [edit |-> n, exact |-> exact]
Doc(text, version) == [text |-> text, version |-> version]
NoDoc              == Doc(Text(0, FALSE), -1)
Shown(text, lane)  == [text |-> text, lane |-> lane]
Clear              == Shown(Text(0, FALSE), "none")

Free == [pc |-> "free"]
Handler(pc, kind, text, version) ==
  [pc |-> pc, kind |-> kind, text |-> text, version |-> version]

Parked(pc) == [pc |-> pc]

NoneInFlight == \A h \in Handlers : handlers[h] = Free

CurrentVersionNoDefault == documents.version
CurrentVersion == IF documents = NoDoc THEN 0 ELSE documents.version

\* is_stale_diagnostic_publish(current, Some(version))
StaleOffByOne(current, version) == current >= version
Stale(current, version) == current > version

-----------------------------------------------------------------------------
Init ==
  /\ editor = [open |-> FALSE, version |-> 0, text |-> Text(0, TRUE)] /\ edits = 0
  /\ cold \in ColdPaths /\ transport \in Transports
  /\ documents = NoDoc /\ handlers = [h \in Handlers |-> Free]
  /\ debouncer = 0 /\ workers = <<>>
  /\ epoch = FALSE /\ shown = Clear /\ lost = FALSE

(***************************************************************************)
(* Sending to a debouncer.  A command beyond the capacity of the channel   *)
(* waits in the order of arrival and holds its handler.                    *)
(***************************************************************************)
Blocks(w) == workers[w].alive /\ Len(workers[w].chan) >= ChannelCapacity

Command(h, w, op, task) ==
  [op |-> op, task |-> task, from |-> IF Blocks(w) THEN h ELSE NoHandler]

Send(h, w, op, task) ==
  workers' = [workers EXCEPT ![w] = Accept(@, Command(h, w, op, task))]

Unblocked(h) ==
  \A w \in 1..Len(workers) : \A i \in 1..Len(workers[w].chan) :
    i > ChannelCapacity => workers[w].chan[i].from # h

\* cancel() of the document's debouncer, if it has one.
CancelBlocks == debouncer # 0 /\ Blocks(debouncer)
SendCancel(h) ==
  IF debouncer = 0 THEN UNCHANGED workers ELSE Send(h, debouncer, "cancel", NoTask)

Goto(h, next) == handlers' = [handlers EXCEPT ![h] = next]

(***************************************************************************)
(* publish_analysis on the serving task, where the clone's documents are   *)
(* the real ones.                                                          *)
(***************************************************************************)
Publish(text, lane) ==
  IF transport = "push"
  THEN epoch' = TRUE /\ shown' = Shown(text, lane)
  ELSE UNCHANGED <<epoch, shown>>

PublishEmpty == shown' = IF transport = "push" THEN Clear ELSE shown

(***************************************************************************)
(* did_open and did_change up to the first await: store the text at once,  *)
(* then start the hot analysis on a blocking thread.                       *)
(***************************************************************************)
StoreLate(text, version) == UNCHANGED documents
Store(text, version) == documents' = Doc(text, version)

HandleDocumentUpdate(h, kind, text, version) ==
  /\ Store(text, version)
  /\ Goto(h, Handler("hot", kind, text, version))
  /\ UNCHANGED <<settings, lanes, epoch, shown>>

DidOpen(h) ==
  /\ handlers[h] = Free /\ ~editor.open /\ edits < MaxEdits
  /\ ReopenInFlight \/ NoneInFlight
  /\ edits' = edits + 1
  /\ editor' = [open |-> TRUE, version |-> FirstVersion, text |-> Text(edits', TRUE)]
  /\ lost' = FALSE
  /\ HandleDocumentUpdate(h, "open", editor'.text, FirstVersion)

\* The editor's next text, sent as a whole or as an edit of the previous text.
Edit ==
  /\ editor.open /\ edits < MaxEdits
  /\ edits' = edits + 1
  /\ editor' = [open |-> TRUE, version |-> editor.version + 1, text |-> Text(edits', TRUE)]

DidChangeFull(h) ==
  /\ handlers[h] = Free /\ Edit
  /\ lost' = FALSE
  /\ HandleDocumentUpdate(h, "change", editor'.text, editor'.version)

\* An edit applies to whatever text the server has, the empty one if it has
\* none, and yields the editor's text only if that was the editor's base.
AppliedTo(base) == Text(edits + 1, base = editor.text)

DidChangeIncremental(h) ==
  /\ handlers[h] = Free /\ Edit
  /\ HandleDocumentUpdate(h, "change", AppliedTo(documents.text), editor'.version)
  /\ UNCHANGED lost

(***************************************************************************)
(* An edit whose range lies outside the server's text is rejected: the     *)
(* debouncer is taken out of the map and cancelled, then the document is   *)
(* dropped and its diagnostics are cleared.  This happens to a base that   *)
(* differs from the editor's, and to any text on which characters and      *)
(* UTF-16 units count differently.                                         *)
(***************************************************************************)
RejectTail(h) ==
  /\ documents' = NoDoc /\ epoch' = FALSE
  /\ PublishEmpty
  /\ Goto(h, Free)

DidChangeRejected(h) ==
  /\ handlers[h] = Free /\ Edit
  /\ debouncer' = 0 /\ SendCancel(h)
  /\ IF CancelBlocks
     THEN Goto(h, Parked("rejecting")) /\ UNCHANGED <<documents, epoch, shown>>
     ELSE RejectTail(h)
  /\ lost' = TRUE
  /\ UNCHANGED settings

ResumeReject(h) ==
  /\ handlers[h].pc = "rejecting" /\ Unblocked(h)
  /\ RejectTail(h)
  /\ lost' = (lost \/ editor.open)
  /\ UNCHANGED <<client, settings, lanes>>

\* A change notification without changes only advances the editor's version.
DidChangeEmpty ==
  /\ editor.open /\ editor.version < FirstVersion + MaxEdits
  /\ editor' = [editor EXCEPT !.version = @ + 1]
  /\ UNCHANGED <<edits, settings, server, lanes, epoch, shown, lost>>

(***************************************************************************)
(* parse_index_and_publish_hot once its blocking task has ended: a result  *)
(* for a version older than the stored one is dropped, any other is stored *)
(* again and published.  A panic of the analysis publishes nothing.        *)
(***************************************************************************)
StoreAndPublishUnguarded(text, version, lane) ==
  Store(text, version) /\ Publish(text, lane)

StoreAndPublish(text, version, lane) ==
  IF Stale(CurrentVersion, version)
  THEN UNCHANGED <<documents, epoch, shown>>
  ELSE Store(text, version) /\ Publish(text, lane)

HotDone(h) ==
  /\ handlers[h].pc = "hot"
  /\ StoreAndPublish(handlers[h].text, handlers[h].version, "hot")
  /\ Goto(h, [handlers[h] EXCEPT !.pc = "cold"])
  /\ UNCHANGED <<client, settings, lanes, lost>>

HotPanics(h) ==
  /\ MayPanic /\ handlers[h].pc = "hot"
  /\ Goto(h, [handlers[h] EXCEPT !.pc = "cold"])
  /\ UNCHANGED <<client, settings, documents, lanes, epoch, shown, lost>>

(***************************************************************************)
(* The rest of handle_document_update: schedule a full analysis on a clone *)
(* of the Backend (the task remembers the version the clone sees), or      *)
(* cancel the one that waits.                                              *)
(***************************************************************************)
ShouldScheduleColdDiagnostics(kind) ==
  cold = "idle" \/ (cold = "save" /\ kind = "open")

Task(text, version) == [text |-> text, version |-> version, seen |-> CurrentVersion]

ScheduleFullAnalysis(h) ==
  /\ handlers[h].pc = "cold" /\ ShouldScheduleColdDiagnostics(handlers[h].kind)
  /\ LET task == Task(handlers[h].text, handlers[h].version)
     IN IF debouncer = 0
        THEN /\ debouncer' = Len(workers) + 1
             /\ workers' = Append(workers, Accept(NewWorker,
                  [op |-> "schedule", task |-> task, from |-> NoHandler]))
             /\ Goto(h, Free)
        ELSE /\ Send(h, debouncer, "schedule", task)
             /\ Goto(h, IF Blocks(debouncer) THEN Parked("sent") ELSE Free)
             /\ UNCHANGED debouncer
  /\ UNCHANGED <<client, settings, documents, epoch, shown, lost>>

CancelScheduledAnalysis(h) ==
  /\ handlers[h].pc = "cold" /\ ~ShouldScheduleColdDiagnostics(handlers[h].kind)
  /\ SendCancel(h)
  /\ Goto(h, IF CancelBlocks THEN Parked("sent") ELSE Free)
  /\ UNCHANGED <<client, settings, documents, debouncer, epoch, shown, lost>>

ResumeSent(h) ==
  /\ handlers[h].pc = "sent" /\ Unblocked(h)
  /\ Goto(h, Free)
  /\ UNCHANGED <<client, settings, documents, lanes, epoch, shown, lost>>

(***************************************************************************)
(* did_save: the text and version are read before the cancel, the analysis *)
(* runs on a blocking thread, and its result is checked against the stored *)
(* version.  The capabilities ask the editor not to send the text along.   *)
(***************************************************************************)
DidSave(h) ==
  /\ handlers[h] = Free /\ editor.open /\ documents # NoDoc
  /\ SendCancel(h)
  /\ Goto(h, Handler(IF CancelBlocks THEN "saving" ELSE "save", "save",
                     documents.text, CurrentVersion))
  /\ UNCHANGED <<client, settings, documents, debouncer, epoch, shown, lost>>

ResumeSave(h) ==
  /\ handlers[h].pc = "saving" /\ Unblocked(h)
  /\ Goto(h, [handlers[h] EXCEPT !.pc = "save"])
  /\ UNCHANGED <<client, settings, documents, lanes, epoch, shown, lost>>

SaveDone(h) ==
  /\ handlers[h].pc = "save"
  /\ StoreAndPublish(handlers[h].text, handlers[h].version, "save")
  /\ Goto(h, Free)
  /\ UNCHANGED <<client, settings, lanes, lost>>

(***************************************************************************)
(* did_close: take the debouncer out of the map and cancel it, forget the  *)
(* document, wait for the workspace index, then clear the diagnostics.     *)
(***************************************************************************)
CloseTail(h) ==
  /\ documents' = NoDoc /\ epoch' = FALSE
  /\ Goto(h, Parked("refresh"))

DidClose(h) ==
  /\ handlers[h] = Free /\ editor.open
  /\ editor' = [editor EXCEPT !.open = FALSE]
  /\ debouncer' = 0 /\ SendCancel(h)
  /\ IF CancelBlocks
     THEN Goto(h, Parked("closing")) /\ UNCHANGED <<documents, epoch>>
     ELSE CloseTail(h)
  /\ UNCHANGED <<edits, settings, shown, lost>>

ResumeClose(h) ==
  /\ handlers[h].pc = "closing" /\ Unblocked(h)
  /\ CloseTail(h)
  /\ UNCHANGED <<client, settings, lanes, shown, lost>>

CloseDone(h) ==
  /\ handlers[h].pc = "refresh"
  /\ PublishEmpty
  /\ Goto(h, Free)
  /\ UNCHANGED <<client, settings, documents, lanes, epoch, lost>>

(***************************************************************************)
(* The workers.  A task that ends checks the version its clone saw, stores *)
(* its document in the clone and publishes.                                *)
(***************************************************************************)
SetWorker(w, to) == workers' = [workers EXCEPT ![w] = to]

WorkerReceives(w) ==
  /\ CanReceive(workers[w]) /\ SetWorker(w, Receive(workers[w]))
  /\ UNCHANGED <<client, settings, server, debouncer, epoch, shown, lost>>

WorkerStarts(w) ==
  /\ CanStart(workers[w]) /\ SetWorker(w, Start(workers[w]))
  /\ UNCHANGED <<client, settings, server, debouncer, epoch, shown, lost>>

IdleDone(w) ==
  LET task == workers[w].running
  IN /\ task # NoTask /\ SetWorker(w, Finish(workers[w]))
     /\ IF Stale(task.seen, task.version)
        THEN UNCHANGED <<epoch, shown>> ELSE Publish(task.text, "idle")
     /\ UNCHANGED <<client, settings, server, debouncer, lost>>

IdlePanics(w) ==
  /\ MayPanic /\ workers[w].running # NoTask /\ SetWorker(w, Die(workers[w]))
  /\ UNCHANGED <<client, settings, server, debouncer, epoch, shown, lost>>

-----------------------------------------------------------------------------
Notification(h) ==
  \/ DidOpen(h) \/ DidChangeFull(h) \/ DidChangeIncremental(h)
  \/ DidChangeRejected(h) \/ DidSave(h) \/ DidClose(h)

Continuation(h) ==
  \/ HotDone(h) \/ HotPanics(h) \/ ScheduleFullAnalysis(h)
  \/ CancelScheduledAnalysis(h) \/ ResumeSent(h) \/ ResumeReject(h)
  \/ ResumeSave(h) \/ SaveDone(h) \/ ResumeClose(h) \/ CloseDone(h)

WorkerStep(w) ==
  WorkerReceives(w) \/ WorkerStarts(w) \/ IdleDone(w) \/ IdlePanics(w)

Next ==
  \/ DidChangeEmpty
  \/ \E h \in Handlers : Notification(h) \/ Continuation(h)
  \/ \E w \in 1..Len(workers) : WorkerStep(w)

\* tokio polls every future that can move; blocking tasks and index refreshes
\* end; the editor may stop at any time.
Fairness ==
  /\ \A h \in Handlers : WF_vars(Continuation(h))
  /\ \A w \in 1..MaxEdits : WF_vars(w <= Len(workers) /\ WorkerStep(w))

Spec == Init /\ [][Next]_vars /\ Fairness

-----------------------------------------------------------------------------
Texts         == [edit : 0..MaxEdits, exact : BOOLEAN]
TaskRecord    == [text : Texts, version : Nat, seen : Nat]
CommandRecord ==
  [op : {"schedule"}, task : TaskRecord, from : Handlers \cup {NoHandler}]
    \cup [op : {"cancel"}, task : {NoTask}, from : Handlers \cup {NoHandler}]
WorkerRecord  ==
  [alive : BOOLEAN, chan : Seq(CommandRecord),
   pending : TaskRecord \cup {NoTask}, running : TaskRecord \cup {NoTask}]
HandlerRecord ==
  [pc : {"hot", "cold", "saving", "save"}, kind : {"open", "change", "save"},
   text : Texts, version : Nat]
    \cup [pc : {"free", "rejecting", "sent", "closing", "refresh"}]

TypeOK ==
  /\ editor \in [open : BOOLEAN, version : Nat, text : Texts]
  /\ edits \in 0..MaxEdits
  /\ cold \in ColdPaths /\ transport \in Transports
  /\ documents \in [text : Texts, version : Nat] \cup {NoDoc}
  /\ handlers \in [Handlers -> HandlerRecord]
  /\ workers \in Seq(WorkerRecord) /\ debouncer \in 0..Len(workers)
  /\ epoch \in BOOLEAN /\ lost \in BOOLEAN
  /\ shown \in [text : Texts, lane : {"none", "hot", "idle", "save"}]

\* The text hover, completion and the next incremental edit work on is the
\* editor's, whatever analyses of older versions end in between, unless the
\* server itself dropped the text of this session.  Holds when no handler of an
\* earlier session of the document is in flight (ReopenInFlight = FALSE).
TextInSync == editor.open /\ ~lost => documents.text = editor.text

\* While a document is open, its diagnostics on display are never replaced by
\* those of an older text: what the three "dropped stale ..." guards are for.
ShownMonotone ==
  [][editor.open /\ shown # Clear /\ shown' # Clear
       => shown'.text.edit >= shown.text.edit]_shown

Quiet ==
  /\ NoneInFlight
  /\ \A w \in 1..Len(workers) :
       workers[w].running = NoTask /\ workers[w].pending = NoTask /\ workers[w].chan = <<>>

Watching == editor.open /\ ~lost /\ transport = "push"

\* When all work has ended, the hot and the save lane have not left the editor
\* with diagnostics of an outdated text (or with none).
MainLaneLatest ==
  Quiet /\ Watching /\ shown.lane # "idle" => shown.text = editor.text

\* The same for all three lanes.
LatestWhenQuiet == Quiet /\ Watching => shown.text = editor.text

\* Every handler ends, also one that waits for room in a debouncer's channel.
HandlersFinish ==
  \A h \in Handlers : handlers[h].pc # "free" ~> handlers[h].pc = "free"

=============================================================================
